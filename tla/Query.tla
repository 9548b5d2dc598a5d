------------------------------- MODULE Query -------------------------------
(***************************************************************************)
(* Reading an analysis database (ops/query/, ops/export/): a store held    *)
(* open for a table that counts once and pages, and a one-shot export,     *)
(* while another process annotates.  A row of the answer is one log with   *)
(* everything that annotates it, whatever the joins multiply it into.      *)
(***************************************************************************)
EXTENDS Naturals, Listing

CONSTANTS
  Lines,     \* logs: a sequence of [at, name, fts]; fts: the search terms it contains
  LineNames, \* names the lookup table holds
  Marks,     \* the annotations that may be committed: [line, sig, label, value]
  Filters,   \* the filters an analyst may set
  Unset,
  PageSizes,
  MaxMarks   \* bound: commits of another process

LineIds == DOMAIN Lines

\* Annotations are of the logs, and of a signature; the times are counted from an epoch.
ASSUME QueryAssumption ==
  /\ Len(Lines) \in Nat /\ LineIds = 1..Len(Lines) /\ \A i \in LineIds : Lines[i].at \in Nat
  /\ IsFiniteSet(Marks) /\ \A a \in Marks : a.line \in LineIds /\ a.sig # Unset
  /\ PageSizes \subseteq Nat /\ MaxMarks \in Nat

VARIABLES
  marks,     \* committed annotations
  tables,    \* the annotation tables are there
  indexed,   \* logs_fts: "absent", "empty" (interrupted before it was built) or "built"
  store,     \* LogStore: Unset, or [hasKb, hasFts] as probed when it was opened
  filter, total, pages, \* the filter set, count() under it, the rows paged so far
  asOf,      \* history: the committed annotations when count() was called
  export,    \* run_export: Unset, or [filter, hasKb, columns, rows, asOf]
  commits

query == <<marks, tables, indexed, store, filter, total, pages, asOf, export, commits>>

QueryTypeOK ==
  /\ marks \subseteq Marks /\ tables \in BOOLEAN
  /\ indexed \in {"absent", "empty", "built"}
  /\ store = Unset \/ store \in [hasKb : BOOLEAN, hasFts : BOOLEAN]
  /\ filter = Unset \/ filter \in Filters
  /\ total = Unset \/ total \in 0..Len(Lines)
  /\ asOf = Unset \/ asOf \subseteq Marks
  /\ commits \in 0..MaxMarks

QueryInit ==
  /\ marks = {} /\ tables \in BOOLEAN /\ indexed \in {"absent", "empty", "built"}
  /\ store = Unset /\ filter = Unset /\ total = Unset /\ pages = <<>> /\ asOf = Unset
  /\ export = Unset /\ commits = 0

------------------------------------------------------------------------------
\* build_where.

\* has_fts_index: a table that is empty beside logs that are not is no index.
UsableIndex == indexed = "built" \/ (indexed = "empty" /\ Lines = <<>>)

\* _lookup_ids and _in_clause: names the database lacks are dropped with a warning; when
\* none is left nothing matches.
InNames(names, i) == Lines[i].name \in names \cap LineNames

\* An unresolved time (0) is inside no window; a window without a lower bound says so.
InWindow(f, i) ==
  /\ f.from # Unset => Lines[i].at >= f.from
  /\ f.to # Unset => Lines[i].at < f.to /\ (f.from = Unset => Lines[i].at > 0)

\* EXISTS over the annotations, so that a matching log keeps all of its own.
Annotated(f, i, m) ==
  \E a \in m : a.line = i /\ (f.sigs # Unset => a.sig \in f.sigs)

Where(f, m) ==
  { i \in LineIds :
      /\ InWindow(f, i)
      /\ f.names # Unset => InNames(f.names, i)
      /\ f.match # Unset => f.match \in Lines[i].fts
      /\ f.sigs # Unset \/ f.annotatedOnly => Annotated(f, i, m) }

\* _require_kb_filters, and build_where's refusal of a search without an index.
Allowed(f, hasKb) ==
  /\ f.sigs # Unset \/ f.annotatedOnly => hasKb
  /\ f.match # Unset => UsableIndex

\* ORDER BY the time, then the id.
TimeOrder ==
  { p \in LineIds \X LineIds :
      \/ Lines[p[1]].at < Lines[p[2]].at
      \/ Lines[p[1]].at = Lines[p[2]].at /\ p[1] < p[2] }
InOrder(ids) == ListedBy(ids, TimeOrder)

------------------------------------------------------------------------------
\* The joins: a row per log, annotation and value, or one row for a log that has none.
Bare(i) == [line |-> i, sig |-> Unset, label |-> Unset, value |-> Unset]
RowsOf(i, m, hasKb) ==
  LET mine == { a \in m : a.line = i } IN IF ~hasKb \/ mine = {} THEN {Bare(i)} ELSE mine

\* Rows of one log are next to each other, in some order.
MarkNumber ==
  CHOOSE f \in [Marks -> 1..Cardinality(Marks)] : \A a, b \in Marks : f[a] = f[b] => a = b
RowOrder ==
  LET all == Marks \cup { Bare(i) : i \in LineIds }
  IN { p \in all \X all :
         \/ <<p[1].line, p[2].line>> \in TimeOrder
         \/ /\ p[1].line = p[2].line /\ {p[1], p[2]} \subseteq Marks
            /\ MarkNumber[p[1]] < MarkNumber[p[2]] }
JoinedRows(ids, m, hasKb) == ListedBy(UNION { RowsOf(i, m, hasKb) : i \in ids }, RowOrder)

\* LogRow and absorb: distinct signatures, and distinct values under each label.
LogRowOf(i, rows) ==
  [line |-> i, sigs |-> { r.sig : r \in rows } \ {Unset},
   values |-> { <<r.label, r.value>> : r \in { x \in rows : x.label # Unset } }]

\* The loop of iter_logs: a row of another log than the pending one starts the next.
RollUp(rows) ==
  LET starts == Enumerated({ k \in DOMAIN rows : k = 1 \/ rows[k - 1].line # rows[k].line })
      Mine(n) == { j \in DOMAIN rows : /\ starts[n] <= j
                                       /\ n < Len(starts) => j < starts[n + 1] }
  IN [n \in DOMAIN starts |-> LogRowOf(rows[starts[n]].line, { rows[k] : k \in Mine(n) })]

IterLogs(ids, m, hasKb) == RollUp(JoinedRows(ids, m, hasKb))

\* Mutant of FetchPage: LIMIT and OFFSET on the joined rows.
FetchJoinedPage(f, m, hasKb, offset, limit) ==
  LET rows == JoinedRows(Where(f, m), m, hasKb)
  IN RollUp(SubSeq(rows, offset + 1, IF offset + limit < Len(rows)
                                     THEN offset + limit ELSE Len(rows)))

\* fetch_page: the logs are paged first, then joined.
FetchPage(f, m, hasKb, offset, limit) ==
  LET ids == InOrder(Where(f, m))
      page == { ids[k] : k \in { n \in DOMAIN ids : n > offset /\ n <= offset + limit } }
  IN IterLogs(page, m, hasKb)

------------------------------------------------------------------------------
\* LogStore: opened once, its capabilities probed once.
OpenStore ==
  /\ store = Unset
  /\ store' = [hasKb |-> tables, hasFts |-> UsableIndex]
  /\ UNCHANGED <<marks, tables, indexed, filter, total, pages, asOf, export, commits>>

CloseStore ==
  /\ store # Unset /\ store' = Unset
  /\ filter' = Unset /\ total' = Unset /\ pages' = <<>> /\ asOf' = Unset
  /\ UNCHANGED <<marks, tables, indexed, export, commits>>

\* count(): once per filter, before the first page.
Count(f) ==
  /\ store # Unset /\ Allowed(f, store.hasKb)
  /\ filter' = f /\ total' = Cardinality(Where(f, marks)) /\ pages' = <<>> /\ asOf' = marks
  /\ UNCHANGED <<marks, tables, indexed, store, export, commits>>

\* fetch(): the next page.
Fetch(limit) ==
  /\ store # Unset /\ filter # Unset /\ Len(pages) < total
  /\ pages' = pages \o FetchPage(filter, marks, store.hasKb, Len(pages), limit)
  /\ UNCHANGED <<marks, tables, indexed, store, filter, total, asOf, export, commits>>

------------------------------------------------------------------------------
\* discover_labels: the labels of the logs that match.
DiscoverLabels(f, m) == { a.label : a \in { b \in m : b.line \in Where(f, m) /\ b.label # Unset } }

\* run_export up to the header: the columns are known before the first row is read.
ExportStart(f) ==
  /\ export = Unset /\ Allowed(f, tables)
  /\ export' = [filter |-> f, hasKb |-> tables, rows |-> Unset, asOf |-> marks,
                columns |-> IF tables THEN DiscoverLabels(f, marks) ELSE {}]
  /\ UNCHANGED <<marks, tables, indexed, store, filter, total, pages, asOf, commits>>

\* The writer: the cursor sees what is committed when it opens; a value without a column
\* is not written.
ExportRows ==
  /\ export # Unset /\ export.rows = Unset
  /\ export' = [export EXCEPT !.rows =
       LET rows == IterLogs(Where(export.filter, marks), marks, export.hasKb)
       IN [k \in DOMAIN rows |->
             [rows[k] EXCEPT !.values = { v \in @ : v[1] \in export.columns }]]]
  /\ UNCHANGED <<marks, tables, indexed, store, filter, total, pages, asOf, commits>>

\* annotate in another process commits: the tables are there from now on.
OthersAnnotate ==
  /\ commits < MaxMarks
  /\ \E new \in SUBSET (Marks \ marks) : marks' = marks \cup new
  /\ tables' = TRUE /\ commits' = commits + 1
  /\ UNCHANGED <<indexed, store, filter, total, pages, asOf, export>>

QueryNext ==
  \/ OpenStore \/ CloseStore
  \/ \E f \in Filters : Count(f) \/ ExportStart(f)
  \/ \E n \in PageSizes : Fetch(n)
  \/ ExportRows \/ OthersAnnotate

QuerySpec == QueryInit /\ [][QueryNext]_query

------------------------------------------------------------------------------
\* The answer, without joins: the logs that match, in time order, each with all of its
\* annotations.
Described(i, m, hasKb) ==
  LET mine == IF hasKb THEN { a \in m : a.line = i } ELSE {}
  IN [line |-> i, sigs |-> { a.sig : a \in mine },
      values |-> { <<a.label, a.value>> : a \in { b \in mine : b.label # Unset } }]

Answer(f, m, hasKb) ==
  LET ids == InOrder(Where(f, m)) IN [k \in DOMAIN ids |-> Described(ids[k], m, hasKb)]

\* Paging through an answer, in pages of any sizes, shows every log that matches once, in
\* order and with everything that annotates it, and ends when as many were shown as
\* count() said; a database annotated while it is paged is the exception, for the pages
\* are read one by one.
PagesAreTheAnswer ==
  filter # Unset /\ asOf = marks =>
    /\ pages = SubSeq(Answer(filter, marks, store.hasKb), 1, Len(pages))
    /\ total = Len(Answer(filter, marks, store.hasKb))

\* A CSV has a column for every value of every row it holds, those of annotations the
\* filter does not name included, unless an annotation was committed between its header
\* and its rows.
ExportHasEveryValue ==
  export # Unset /\ export.rows # Unset =>
    \/ export.asOf # marks
    \/ export.rows = Answer(export.filter, marks, tables)

\* Both readers: the paged table and the exported file say what the database says.
ReadersAreTrue == QueryTypeOK /\ PagesAreTheAnswer /\ ExportHasEveryValue
=============================================================================
