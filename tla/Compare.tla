------------------------------ MODULE Compare ------------------------------
(***************************************************************************)
(* Checking a database against Apple's own reading of the same archive     *)
(* (validation/): the reference ndjson is sorted on disk in spills, merged *)
(* and walked in step with the ordered database, so that nothing but one   *)
(* record a side is in memory.  The small-scale comparator holds both      *)
(* sides in dictionaries; the two must report the same.                    *)
(***************************************************************************)
EXTENDS Integers, SequencesExt

CONSTANTS
  References,  \* ndjson files: sequences of lines
  Databases,   \* logs tables: sequences of rows in rowid order
  Nothing,     \* an absent value, a NULL
  FanIn,       \* _MERGE_FANIN
  Samples      \* max_samples

VARIABLES
  reference, database,
  comparing,      \* "spill", "reduce", "walk", "done" or "failed"
  line,           \* lines of the reference read
  buffer, spills, \* records held in memory, and those spilled: sequences of [key, at, torn]
  left, right,    \* both sorted streams without duplicates, and how far each is walked
  leftAt, rightAt,
  report

compare == <<reference, database, comparing, line, buffer, spills,
             left, right, leftAt, rightAt, report>>

Fields == {"pid", "event_type"}

NoReport ==
  [refTotal |-> 0, dbTotal |-> 0, actions |-> 0, matched |-> 0, missing |-> 0, extra |-> 0,
   missingTop |-> {}, extraTop |-> {}, byProcess |-> <<>>, exact |-> 0, normalised |-> 0,
   formats |-> 0, fields |-> [f \in Fields |-> 0], timed |-> 0, onTime |-> 0, near |-> 0,
   worst |-> 0, late |-> 0, mismatched |-> 0]

CompareTypeOK ==
  /\ comparing \in {"spill", "reduce", "walk", "done", "failed"}
  /\ line \in 0..Len(reference) /\ Len(buffer) <= line
  /\ leftAt \in 0..Len(left) /\ rightAt \in 0..Len(right)

CompareInit ==
  /\ reference \in References /\ database \in Databases
  /\ comparing = "spill" /\ line = 0 /\ buffer = <<>> /\ spills = <<>>
  /\ left = <<>> /\ right = <<>> /\ leftAt = 0 /\ rightAt = 0 /\ report = NoReport

------------------------------------------------------------------------------
\* Records of the two sides.

\* Identifiers come as numbers, as texts of digits or as neither: neither counts as 0.
CoerceInt(v) == IF v.form \in {"int", "digits"} THEN v.n ELSE 0

\* Four layouts of the wall clock are read; another leaves the record without a time.
ParseTimestamp(t) == IF t.form \in {"space", "T", "space, whole", "T, whole"} THEN t.us ELSE Nothing

\* Dashes and case are dropped on both sides: what is left names the boot.
NormaliseUuid(b) == b.boot

EventTypes == {"logEvent", "activityCreateEvent", "signpostEvent", "lossEvent", "userActionEvent"}
Comparable(o) == o.event \notin {"timesyncEvent", "stateEvent"}

\* An event type of its own kind is taken for a log entry, as is a user action.
EventType(e) == IF e \in EventTypes \ {"userActionEvent"} THEN e ELSE "logEvent"

\* build_record.
BuildRecord(o) ==
  [key |-> <<NormaliseUuid(o.boot), CoerceInt(o.mach), CoerceInt(o.tid)>>,
   event_type |-> EventType(o.event), pid |-> CoerceInt(o.pid), message |-> o.message,
   format |-> o.format, process |-> o.process, us |-> ParseTimestamp(o.time),
   isAction |-> o.event = "userActionEvent"]

\* db_record_from_row: the nullable thread is coerced like the reference's.
OrZero(v) == IF v = Nothing THEN 0 ELSE v
DbRecord(r) ==
  [key |-> <<NormaliseUuid(r.boot), r.mach, OrZero(r.tid)>>,
   event_type |-> r.event_type, pid |-> OrZero(r.pid), message |-> r.message,
   format |-> r.format, ns |-> OrZero(r.ns)]

\* The order of both streams: the boot by its bytes, then numbers.
KeyLess(a, b) ==
  \/ a[1] < b[1]
  \/ a[1] = b[1] /\ a[2] < b[2]
  \/ a[1] = b[1] /\ a[2] = b[2] /\ a[3] < b[3]

\* The positions of s ordered by a key, ties in place order.
OrderedBy(s, Less(_, _)) ==
  LET order == SetToSortSeq(DOMAIN s,
        LAMBDA i, j : Less(s[i], s[j]) \/ (~Less(s[j], s[i]) /\ i < j))
  IN [k \in DOMAIN s |-> s[order[k]]]

\* _dedup: of neighbours with one key the first is kept.
Dedup(s) ==
  LET firsts == SetToSortSeq({ i \in DOMAIN s : i = 1 \/ s[i].key # s[i - 1].key }, <)
  IN [k \in DOMAIN firsts |-> s[firsts[k]]]

------------------------------------------------------------------------------
\* compare_matched_pair.

Folded(m) == m.text  \* _normalise_msg: case and runs of blanks do not tell texts apart
AbsOf(n) == IF n < 0 THEN 0 - n ELSE n
Delta(r, d) == (d.ns \div 1000) - r.us
Timed(r, d) == r.us # Nothing /\ d.ns # 0
Capped(n) == IF n < Samples THEN n + 1 ELSE n
Tally(n, b) == IF b THEN n + 1 ELSE n

ComparePair(rep, r, d) ==
  LET timed == Timed(r, d)
      off == IF timed THEN AbsOf(Delta(r, d)) ELSE 0
      same == r.message = d.message
      alike == Folded(r.message) = Folded(d.message)
  IN [rep EXCEPT
       !.timed = Tally(@, timed), !.onTime = Tally(@, timed /\ off = 0),
       !.near = Tally(@, timed /\ off <= 1),
       !.late = IF off > 1 THEN Capped(@) ELSE @, !.worst = Max({@, off}),
       !.exact = Tally(@, same), !.normalised = Tally(@, alike),
       !.mismatched = IF alike THEN @ ELSE Capped(@),
       !.formats = Tally(@, r.format = d.format),
       !.fields = [f \in Fields |-> Tally(@[f], r[f] = d[f])]]

\* _process_label: the path, else the UUID, else a bucket of its own.
ProcessLabel(r) ==
  IF r.process.path # Nothing THEN r.process.path
  ELSE IF r.process.uuid # Nothing THEN r.process.uuid ELSE "(unknown)"
Bump(f, x) == IF x \in DOMAIN f THEN [f EXCEPT ![x] = @ + 1]
              ELSE [y \in DOMAIN f \cup {x} |-> IF y = x THEN 1 ELSE f[y]]

\* _push_top: of the items offered, those with the smallest mach stay; a newcomer replaces
\* the largest only when it is strictly smaller.
PushTop(heap, mach, item) ==
  IF Samples = 0 THEN heap
  ELSE IF Cardinality(heap) < Samples THEN heap \cup {<<mach, item>>}
  ELSE LET top == CHOOSE e \in heap : \A f \in heap : f[1] <= e[1]
       IN IF mach < top[1] THEN (heap \ {top}) \cup {<<mach, item>>} ELSE heap

OnMissing(rep, r) ==
  [rep EXCEPT !.missing = @ + 1, !.refTotal = @ + 1, !.actions = Tally(@, r.isAction),
              !.byProcess = Bump(@, ProcessLabel(r)),
              !.missingTop = PushTop(@, r.key[2], r.key)]

OnExtra(rep, d) ==
  [rep EXCEPT !.extra = @ + 1, !.dbTotal = @ + 1, !.extraTop = PushTop(@, d.key[2], d.key)]

OnMatch(rep, r, d) ==
  ComparePair([rep EXCEPT !.matched = @ + 1, !.refTotal = @ + 1, !.dbTotal = @ + 1,
                          !.actions = Tally(@, r.isAction)], r, d)

------------------------------------------------------------------------------
\* The streaming comparison.

\* A full buffer is sorted by key, ties in file order, and spilled as one more chunk.
FlushedSpill(b) ==
  IF b = <<>> THEN spills ELSE Append(spills, OrderedBy(b, LAMBDA x, y : KeyLess(x.key, y.key)))

\* iter_ndjson_objs and _spill_sorted_chunks: lines that are no JSON object, and events that
\* are no entries, are passed over.  Payloads differ in length, so the buffer may reach
\* _CHUNK_BYTES after any record.
SpillLine ==
  /\ comparing = "spill" /\ line < Len(reference)
  /\ \E full \in BOOLEAN :
       LET o == reference[line + 1]
           b == IF o.json /\ Comparable(o)
                THEN Append(buffer, [key |-> BuildRecord(o).key, at |-> line + 1, torn |-> FALSE])
                ELSE buffer
       IN /\ full => b # buffer
          /\ spills' = IF full THEN FlushedSpill(b) ELSE spills
          /\ buffer' = IF full THEN <<>> ELSE b
  /\ line' = line + 1
  /\ UNCHANGED <<reference, database, comparing, left, right, leftAt, rightAt, report>>

SpillEnd ==
  /\ comparing = "spill" /\ line = Len(reference)
  /\ spills' = FlushedSpill(buffer) /\ buffer' = <<>> /\ comparing' = "reduce"
  /\ UNCHANGED <<reference, database, line, left, right, leftAt, rightAt, report>>

\* The end of a spilled chunk is lost while the chunk is on disk: its last line is cut.  A loss
\* of whole lines is left out: _read_chunk counts none, and would not see it.
SpillTorn ==
  /\ comparing = "reduce"
  /\ \E c \in DOMAIN spills :
       /\ ~Last(spills[c]).torn
       /\ spills' = [spills EXCEPT ![c][Len(spills[c])].torn = TRUE]
  /\ UNCHANGED <<reference, database, comparing, line, buffer, left, right, leftAt, rightAt, report>>

\* _merge_chunks: heapq.merge yields the smallest head, of equal ones that of the earlier
\* chunk.
MergeChunks(group) == OrderedBy(FlattenSeq(group), LAMBDA x, y : KeyLess(x.key, y.key))
\* A chunk with a cut line is refused when it is read.
ReadableSpill(group) == \A c \in DOMAIN group : \A e \in Range(group[c]) : ~e.torn

\* _reduce_chunks: one round merges the spills in groups of FanIn, in spill order.
ReduceRound ==
  /\ comparing = "reduce" /\ Len(spills) > FanIn
  /\ LET groups == (Len(spills) + FanIn - 1) \div FanIn
         Group(g) == SubSeq(spills, (g - 1) * FanIn + 1, Min({g * FanIn, Len(spills)}))
         read == { g \in 1..groups : Len(Group(g)) > 1 }
     IN IF \A g \in read : ReadableSpill(Group(g))
        THEN /\ spills' = [g \in 1..groups |->
                             IF g \in read THEN MergeChunks(Group(g)) ELSE Group(g)[1]]
             /\ UNCHANGED comparing
        ELSE comparing' = "failed" /\ UNCHANGED spills
  /\ UNCHANGED <<reference, database, line, buffer, left, right, leftAt, rightAt, report>>

\* _ndjson_sorted_stream and _db_stream.  The database is ordered by the same key, a NULL
\* thread where its key is, and by rowid among equals.
ReferenceStream == [k \in DOMAIN MergeChunks(spills) |-> BuildRecord(reference[MergeChunks(spills)[k].at])]

\* Mutant of DbLess: SQLite's own place for a NULL thread.
DbLessNulls(a, b) ==
  LET Of(r) == <<NormaliseUuid(r.boot), r.mach, IF r.tid = Nothing THEN 0 - 9 ELSE r.tid>>
  IN KeyLess(Of(a), Of(b))

DbLess(a, b) == KeyLess(DbRecord(a).key, DbRecord(b).key)
DbStream ==
  LET rows == OrderedBy(database, DbLess) IN [k \in DOMAIN rows |-> DbRecord(rows[k])]

OpenStreams ==
  /\ comparing = "reduce" /\ Len(spills) <= FanIn
  /\ IF ReadableSpill(spills)
     THEN /\ left' = Dedup(ReferenceStream) /\ right' = Dedup(DbStream)
          /\ comparing' = "walk"
     ELSE comparing' = "failed" /\ UNCHANGED <<left, right>>
  /\ UNCHANGED <<reference, database, line, buffer, spills, leftAt, rightAt, report>>

\* _walk: one comparison of the two heads; a side that is over leaves the other's rest
\* unmatched.
HeadLess(s, i, t, j) == i < Len(s) /\ (j < Len(t) => KeyLess(s[i + 1].key, t[j + 1].key))

Walk(r, d) ==
  /\ comparing = "walk"
  /\ leftAt' = leftAt + r /\ rightAt' = rightAt + d
  /\ UNCHANGED <<reference, database, comparing, line, buffer, spills, left, right>>

WalkMatched ==
  /\ leftAt < Len(left) /\ rightAt < Len(right) /\ left[leftAt + 1].key = right[rightAt + 1].key
  /\ Walk(1, 1) /\ report' = OnMatch(report, left[leftAt + 1], right[rightAt + 1])
WalkMissing ==
  /\ HeadLess(left, leftAt, right, rightAt)
  /\ Walk(1, 0) /\ report' = OnMissing(report, left[leftAt + 1])
WalkExtra ==
  /\ HeadLess(right, rightAt, left, leftAt)
  /\ Walk(0, 1) /\ report' = OnExtra(report, right[rightAt + 1])

WalkEnd ==
  /\ comparing = "walk" /\ leftAt = Len(left) /\ rightAt = Len(right)
  /\ comparing' = "done"
  /\ UNCHANGED <<reference, database, line, buffer, spills, left, right, leftAt, rightAt, report>>

CompareNext ==
  \/ SpillLine \/ SpillEnd \/ SpillTorn \/ ReduceRound \/ OpenStreams
  \/ WalkMatched \/ WalkMissing \/ WalkExtra \/ WalkEnd

------------------------------------------------------------------------------
\* The comparator that holds both sides (comparator.compare).

\* load_ndjson and load_db_records: the first record of a key stays.
FirstJson(records) ==
  LET At(k) == Min({ i \in DOMAIN records : records[i].key = k })
  IN [k \in { records[i].key : i \in DOMAIN records } |-> records[At(k)]]
LoadNdjson(file) ==
  LET kept == SelectSeq(file, LAMBDA o : o.json /\ Comparable(o))
  IN FirstJson([i \in DOMAIN kept |-> BuildRecord(kept[i])])
LoadDb(rows) == FirstJson([i \in DOMAIN rows |-> DbRecord(rows[i])])

\* The smallest machs of a set of keys: as many as the samples hold.
SampleMachs(keys) ==
  LET order == SetToSortSeq(keys, LAMBDA a, b : a[2] < b[2] \/ (a[2] = b[2] /\ KeyLess(a, b)))
  IN [i \in 1..Min({Samples, Len(order)}) |-> order[i][2]]
HeapMachs(heap) == SampleMachs({ e[2] : e \in heap })

InRam(file, rows) ==
  LET ref == LoadNdjson(file)  db == LoadDb(rows)
      missing == DOMAIN ref \ DOMAIN db  extra == DOMAIN db \ DOMAIN ref
      paired == SetToSortSeq(DOMAIN ref \cap DOMAIN db, KeyLess)
      empty == [NoReport EXCEPT !.refTotal = Cardinality(DOMAIN ref),
                                !.dbTotal = Cardinality(DOMAIN db),
                                !.matched = Len(paired), !.missing = Cardinality(missing),
                                !.extra = Cardinality(extra)]
      processes == { ProcessLabel(ref[k]) : k \in missing }
  IN [FoldLeft(LAMBDA rep, k : ComparePair(rep, ref[k], db[k]), empty, paired) EXCEPT
        !.missingTop = SampleMachs(missing), !.extraTop = SampleMachs(extra),
        !.byProcess = [p \in processes |-> Cardinality({ k \in missing : ProcessLabel(ref[k]) = p })],
        !.actions = Cardinality({ i \in DOMAIN file :
                                    file[i].json /\ file[i].event = "userActionEvent" })]

Comparison(rep) ==
  [rep EXCEPT !.missingTop = HeapMachs(@), !.extraTop = HeapMachs(@), !.actions = 0]

\* However the reference was cut into spills and merged, and whatever duplicates and NULL
\* threads the two sides hold, a comparison that ends reports what the comparator that holds
\* both sides reports: the same totals, tallies and worst delay, and samples with the same
\* times.  User actions are left out: one counts them before duplicates are dropped, the
\* other after.
ReportsAgree ==
  comparing = "done" =>
    Comparison(report) = [InRam(reference, database) EXCEPT !.actions = 0]

\* A spill that lost its end yields no report, so a failed write is not taken for records
\* missing from the database.
TornSpillHasNoReport ==
  comparing = "done" => \A c \in DOMAIN spills : \A e \in Range(spills[c]) : ~e.torn

ComparisonIsSound == CompareTypeOK /\ ReportsAgree /\ TornSpillHasNoReport

=============================================================================
