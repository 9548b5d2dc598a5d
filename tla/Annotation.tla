----------------------------- MODULE Annotation -----------------------------
(***************************************************************************)
(* Annotation of an analysis database against a knowledge base             *)
(* (ops/annotation/matcher.py) and the statistics cached beside it         *)
(* (ops/summary/cache.py, ops/summary/summary.py).  Two processes may work *)
(* on one database: SQLite admits one writer at a time, a writer's rows    *)
(* are seen by others when it commits, and a process may be killed between *)
(* any two statements.                                                     *)
(***************************************************************************)
EXTENDS Naturals, Sequences, FiniteSets

CONSTANTS
  Annotators,  \* the processes that annotate or clear
  LogRows,     \* logs: a sequence of records, one per row
  Kb,          \* the signatures, in the order load_kb lists them
  Libraries,   \* libraries: [id -> name], UNIQUE(name, uuid)
  Versions,    \* what case_metadata.ios_version may hold
  None,
  Unparsed,    \* a version, or a cached payload, that cannot be read
  BatchSize,   \* the code's 1_000
  MaxCalls     \* bound: annotate and clear calls in a behaviour

\* LogRows and Kb are sequences, and logs.library_id is a foreign key.
ASSUME AnnotationAssumption ==
  /\ BatchSize \in Nat \ {0} /\ MaxCalls \in Nat /\ None \notin Annotators
  /\ \A s \in {LogRows, Kb} : Len(s) \in Nat /\ DOMAIN s = 1..Len(s)
  /\ \A i \in DOMAIN LogRows : LogRows[i].library \in DOMAIN Libraries

Ids       == DOMAIN LogRows
SigIndex  == DOMAIN Kb
Columns   == {"process", "level"}  \* the lookup columns, one indexed and one residual

VARIABLES
  db,       \* the committed annotation tables
  cache,    \* summary_cache: None, Unparsed, or the counts it holds
  writer,   \* the process inside a write transaction, or None
  run,      \* per process, its call
  version,  \* case_metadata.ios_version
  calls,    \* calls started
  torn      \* history: a refresh was killed, or failed to clear, or two refreshes overlapped

annotation == <<db, cache, writer, run, version, calls, torn>>

NoRows == [sigs |-> {}, annots |-> {}, values |-> {}]
Idle   == [pc |-> "idle", id |-> 0, todo |-> {}, sig |-> 0, rows |-> {}, n |-> 0,
           batch |-> {}, tx |-> NoRows, seen |-> None]
Counts(d) == [annotated  |-> Cardinality({ a.log : a \in d.annots }),
              signatures |-> Cardinality(d.sigs)]

AnnotationTypeOK ==
  /\ db.annots \subseteq [id : 1..MaxCalls, sig : SigIndex, log : Ids]
  /\ db.values \subseteq [id : 1..MaxCalls, sig : SigIndex, log : Ids]
  /\ db.sigs \subseteq [id : 1..MaxCalls, sig : SigIndex, count : 0..Len(LogRows)]
  /\ cache \in {None, Unparsed} \cup
        [annotated : 0..Len(LogRows), signatures : 0..(MaxCalls * Len(Kb))]
  /\ writer \in Annotators \cup {None} /\ version \in Versions
  /\ calls \in 0..MaxCalls /\ torn \in BOOLEAN
  /\ \A p \in Annotators : run[p].pc \in
        {"idle", "next", "scan", "commit", "delete", "summarise", "count", "store", "drop"}

AnnotationInit ==
  /\ db = NoRows /\ cache \in {None, Unparsed} /\ writer = None
  /\ run = [p \in Annotators |-> Idle]
  /\ version \in Versions /\ calls = 0 /\ torn = FALSE

------------------------------------------------------------------------------
\* Selecting and gating the signatures.

\* _select_signatures: by id or by tag, all of them when neither is given.
Selected(ids, tags) ==
  { k \in SigIndex : \/ ids = None /\ tags = None
                     \/ ids # None /\ Kb[k].id \in ids
                     \/ tags # None /\ Kb[k].tags \cap tags # {} }

\* _version_in_range: a bound that cannot be read is no bound.
InRange(v, low, high) ==
  \/ v = Unparsed
  \/ /\ low \in {None, Unparsed} \/ v >= low
     /\ high \in {None, Unparsed} \/ v <= high

\* _apply_version_gates: an unknown version withholds nothing.
Applicable(sigs, v) ==
  { k \in sigs : /\ Kb[k].platform \in {None, "ios"}
                 /\ v = None \/ InRange(v, Kb[k].low, Kb[k].high) }

------------------------------------------------------------------------------
\* The candidate query of one signature.

\* _resolve_format_str_ids: {} stands for _NO_MATCH.
FormatIds(s) == s.formats \cap { LogRows[i].format : i \in Ids }

\* _resolve_lookup_id: the names a column holds are those some row was stored with.
Known(column, name) == \E i \in Ids : LogRows[i][column] = name

\* Mutant of LibraryIds: one id, whatever the number of builds.
OneLibraryId(name) ==
  LET ids == { l \in DOMAIN Libraries : Libraries[l] = name }
  IN IF ids = {} THEN {} ELSE {CHOOSE l \in ids : TRUE}

\* _resolve_lookup_ids: a library's path recurs under several UUIDs.
LibraryIds(name) == { l \in DOMAIN Libraries : Libraries[l] = name }

\* The early returns of _annotate_one: a name the database lacks, or no indexed filter.
NoCandidate(s) ==
  \/ ~s.dynamic /\ FormatIds(s) = {}
  \/ \E c \in Columns : s.match[c] # None /\ ~Known(c, s.match[c])
  \/ s.library # None /\ LibraryIds(s.library) = {}
  \/ s.dynamic /\ s.library = None /\ \A c \in Columns : s.match[c] = None

\* The WHERE of _annotate_one.
Candidates(s) ==
  IF NoCandidate(s) THEN {}
  ELSE { i \in Ids :
           /\ s.dynamic \/ LogRows[i].format \in FormatIds(s)
           /\ \A c \in Columns : s.match[c] \in {None, LogRows[i][c]}
           /\ s.library = None \/ LogRows[i].library \in LibraryIds(s.library) }

\* message_regex on a row: a NULL message never matches one.
RegexHits(s, i) == s.regex = None \/ LogRows[i].message = s.regex

\* _extract_values: a row's value is stored when the extraction matches.
Extracts(s, i) == LogRows[i].message \in s.extract

------------------------------------------------------------------------------
\* annotate_database.

MayWrite(p) == writer \in {None, p}
Put(p, f)   == run' = [run EXCEPT ![p] = f]

\* annotate_connection up to its loop: the schema is there, the signatures are chosen.
Annotate(p, ids, tags) ==
  /\ run[p].pc = "idle" /\ calls < MaxCalls /\ calls' = calls + 1
  /\ Put(p, [Idle EXCEPT !.pc = "next", !.id = calls + 1,
                         !.todo = Applicable(Selected(ids, tags), version)])
  /\ UNCHANGED <<db, cache, writer, version, torn>>

\* _annotate_one opens its cursor, for the next signature in the order of the list.
NextSignature(p) ==
  /\ run[p].pc = "next"
  /\ \E k \in run[p].todo :
       /\ \A j \in run[p].todo : k <= j
       /\ Put(p, [run[p] EXCEPT !.pc = "scan", !.todo = @ \ {k}, !.sig = k,
                                !.rows = Candidates(Kb[k]), !.n = 0, !.batch = {}])
  /\ UNCHANGED <<db, cache, writer, version, calls, torn>>

RowOf(p, i)     == [id |-> run[p].id, sig |-> run[p].sig, log |-> i]
SignatureRow(p) == [id |-> run[p].id, sig |-> run[p].sig, count |-> 0]

\* One row of the cursor.  The first match inserts the signature, which begins the
\* transaction; with an extraction each row is inserted on its own, otherwise in batches.
ScanRow(p, i) ==
  LET r == run[p]  s == Kb[r.sig]  a == RowOf(p, i)
      batch == r.batch \cup {a}
  IN /\ r.pc = "scan" /\ i \in r.rows
     /\ \A j \in r.rows : i <= j
     /\ \/ /\ ~RegexHits(s, i)
           /\ Put(p, [r EXCEPT !.rows = @ \ {i}])
           /\ UNCHANGED writer
        \/ /\ RegexHits(s, i) /\ MayWrite(p) /\ writer' = p
           /\ Put(p, [r EXCEPT
                !.rows = @ \ {i}, !.n = @ + 1,
                !.batch = IF s.extract # {} \/ Cardinality(batch) >= BatchSize
                          THEN {} ELSE batch,
                !.tx = [sigs   |-> @.sigs \cup (IF r.n = 0 THEN {SignatureRow(p)} ELSE {}),
                        annots |-> @.annots \cup (IF s.extract # {} THEN {a}
                                     ELSE IF Cardinality(batch) >= BatchSize THEN batch ELSE {}),
                        values |-> @.values \cup (IF Extracts(s, i) THEN {a} ELSE {})]])
     /\ UNCHANGED <<db, cache, version, calls, torn>>

\* The end of _annotate_one: the last batch, and match_count.
EndSignature(p) ==
  LET r == run[p]  mine == { g \in r.tx.sigs : g.sig = r.sig }
  IN /\ r.pc = "scan" /\ r.rows = {}
     /\ Put(p, [r EXCEPT !.pc = "next", !.batch = {},
                 !.tx = [sigs   |-> (@.sigs \ mine) \cup
                                      { [g EXCEPT !.count = r.n] : g \in mine },
                         annots |-> @.annots \cup r.batch,
                         values |-> @.values]])
     /\ UNCHANGED <<db, cache, writer, version, calls, torn>>

\* conn.commit, then refresh_summary.
Commit(p) ==
  LET r == run[p]
  IN /\ r.pc = "next" /\ r.todo = {}
     /\ db' = [sigs   |-> db.sigs \cup r.tx.sigs,
               annots |-> db.annots \cup r.tx.annots,
               values |-> db.values \cup r.tx.values]
     /\ writer' = IF writer = p THEN None ELSE writer
     /\ torn' = (torn \/ \E q \in Annotators \ {p} :
                           run[q].pc \in {"summarise", "count", "store", "drop"})
     /\ Put(p, [r EXCEPT !.pc = "summarise", !.tx = NoRows])
     /\ UNCHANGED <<cache, version, calls>>

\* _clear_annotations: the three tables in one transaction, then refresh_summary.
ClearAnnotations(p) ==
  /\ run[p].pc = "idle" /\ calls < MaxCalls /\ calls' = calls + 1
  /\ MayWrite(p) /\ db' = NoRows
  /\ torn' = (torn \/ \E q \in Annotators \ {p} :
                        run[q].pc \in {"summarise", "count", "store", "drop"})
  /\ Put(p, [Idle EXCEPT !.pc = "summarise", !.id = calls + 1])
  /\ UNCHANGED <<cache, writer, version>>

------------------------------------------------------------------------------
\* refresh_summary.

\* summarise_connection reads the annotated rows, then the signatures: two statements,
\* each of its own snapshot.
Summarise(p) ==
  /\ \/ /\ run[p].pc = "summarise"
        /\ Put(p, [run[p] EXCEPT !.pc = "count", !.seen = Counts(db)])
     \/ /\ run[p].pc = "count"
        /\ Put(p, [run[p] EXCEPT !.pc = "store",
                                 !.seen = [@ EXCEPT !.signatures = Counts(db).signatures]])
  /\ UNCHANGED <<db, cache, writer, version, calls, torn>>

\* An empty case_metadata or a storage error raises; refresh_summary swallows it.
SummaryFails(p) ==
  /\ run[p].pc \in {"summarise", "count", "store"}
  /\ Put(p, [run[p] EXCEPT !.pc = "drop"])
  /\ UNCHANGED <<db, cache, writer, version, calls, torn>>

\* store_summary: INSERT OR REPLACE of the one row.
StoreSummary(p) ==
  /\ run[p].pc = "store" /\ MayWrite(p)
  /\ cache' = run[p].seen
  /\ Put(p, Idle)
  /\ UNCHANGED <<db, writer, version, calls, torn>>

\* Mutant of ClearSummary: a failed refresh leaves the row.
KeepSummary(p) ==
  /\ run[p].pc = "drop" /\ MayWrite(p)
  /\ Put(p, Idle)
  /\ UNCHANGED <<db, cache, writer, version, calls, torn>>

\* clear_summary: a summary that could not be refreshed is dropped.
ClearSummary(p) ==
  /\ run[p].pc = "drop" /\ MayWrite(p)
  /\ cache' = None
  /\ Put(p, Idle)
  /\ UNCHANGED <<db, writer, version, calls, torn>>

\* The call ends where it stands: a kill, or a statement that raises ("database is
\* locked"), which closes the connection and rolls its transaction back.
Interrupted(p) ==
  /\ run[p].pc # "idle"
  /\ Put(p, Idle)
  /\ writer' = IF writer = p THEN None ELSE writer
  /\ torn' = (torn \/ run[p].pc \in {"summarise", "count", "store", "drop"})
  /\ UNCHANGED <<db, cache, version, calls>>

AnnotationNext ==
  \E p \in Annotators :
    \/ \E ids \in {None} \cup { {Kb[k].id} : k \in SigIndex },
          tags \in {None} \cup { Kb[k].tags : k \in SigIndex } : Annotate(p, ids, tags)
    \/ NextSignature(p) \/ \E i \in Ids : ScanRow(p, i)
    \/ EndSignature(p) \/ Commit(p)
    \/ ClearAnnotations(p)
    \/ Summarise(p) \/ SummaryFails(p) \/ StoreSummary(p) \/ ClearSummary(p)
    \/ Interrupted(p)

AnnotationSpec == AnnotationInit /\ [][AnnotationNext]_annotation

\* _load: what a reader is shown; a payload it cannot read counts as none.
LoadedSummary == IF cache \in {None, Unparsed} THEN None ELSE cache

------------------------------------------------------------------------------
\* A signature says of a row what every constraint it sets says of it; only a dynamic
\* signature that sets none is refused.
Says(s, i) ==
  /\ s.dynamic => s.library # None \/ \E c \in Columns : s.match[c] # None
  /\ ~s.dynamic => LogRows[i].format \in s.formats
  /\ \A c \in Columns : s.match[c] # None => LogRows[i][c] = s.match[c]
  /\ s.library # None => Libraries[LogRows[i].library] = s.library
  /\ s.regex # None => LogRows[i].message = s.regex

\* A reader of the database finds a signature's annotations whole, whatever was killed
\* and whoever else was writing: the rows are those its constraints select, every build
\* of a library included, match_count is their number, and an extracted value hangs on
\* an annotation that is there.
AnnotatedExactly ==
  /\ AnnotationTypeOK
  /\ \A g \in db.sigs :
       LET rows == { a.log : a \in { b \in db.annots : b.id = g.id /\ b.sig = g.sig } }
       IN rows = { i \in Ids : Says(Kb[g.sig], i) } /\ g.count = Cardinality(rows)
  /\ \A a \in db.annots : \E g \in db.sigs : g.id = a.id /\ g.sig = a.sig
  /\ db.values = { a \in db.annots : LogRows[a.log].message \in Kb[a.sig].extract }

\* Statistics shown to an analyst are those of the database, unless a call that changed
\* it is still refreshing them, was interrupted while it did, or did so at the same time
\* as another (cache.py: "a stale summary is never presented as current").
SummaryIsCurrent ==
  \/ torn
  \/ LoadedSummary \in {None, Counts(db)}
  \/ \E p \in Annotators : run[p].pc \in {"summarise", "count", "store", "drop"}
==============================================================================
