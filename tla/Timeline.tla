------------------------------ MODULE Timeline ------------------------------
(***************************************************************************)
(* How an entry gets its time and its place.  The timesync files are       *)
(* walked in name order, their boots and anchors registered; every entry   *)
(* of the tracev3 files, parsed in any order, is resolved against the      *)
(* anchors of its boot; then one pass numbers all rows (engine/parser/     *)
(* timesync.py, engine/utils/time.py, engine/database/ordering.py,         *)
(* ops/extraction/timesync_setup.py).  An offset is a position in a file.  *)
(***************************************************************************)
EXTENDS Integers, Sequences, FiniteSets, SequencesExt, Listing

CONSTANTS
  Archives,    \* the archives to start from: [timesync, tracev3], two sequences of files
  MaxInt64     \* what a SQLite INTEGER holds; a kernel time is a u64

\* A file is a sequence of items, each of one kind; a tracev3 file one of entries.
IsSequence(s) == Len(s) \in Nat /\ DOMAIN s = 1 .. Len(s)
ASSUME TimelineAssumption ==
  \A a \in Archives :
    /\ IsSequence(a.timesync) /\ IsSequence(a.tracev3)
    /\ \A f \in DOMAIN a.timesync :
         /\ IsSequence(a.timesync[f])
         /\ \A i \in DOMAIN a.timesync[f] :
              /\ a.timesync[f][i].is \in {"boot", "record", "bad", "tail"}
              /\ a.timesync[f][i].is = "record" => a.timesync[f][i].kernel \in Nat
    /\ \A f \in DOMAIN a.tracev3 :
         /\ IsSequence(a.tracev3[f])
         /\ \A i \in DOMAIN a.tracev3[f] : a.tracev3[f][i].base \in Nat /\ a.tracev3[f][i].delta \in Nat

VARIABLES
  archive,  \* what is on disk
  tstep,    \* "walk", "anchors", "parse", "order", "done" or "failed"
  walked,   \* timesync files walked
  skipped,  \* history: those whose failure was swallowed
  sources,  \* source_files: the timesync files registered, a file id each
  boots,    \* timesync_data, a dict in insertion order
  owner,    \* boot_uuid_to_timesync_file_id
  ranks,    \* the boots in order of first appearance
  anchors,  \* timesync_anchors; the id is the position
  unread,   \* tracev3 files not parsed yet
  logs,     \* logs; the id is the position
  order     \* logs_order

timeline == <<archive, tstep, walked, skipped, sources, boots, owner, ranks, anchors, unread,
              logs, order>>

------------------------------------------------------------------------------
\* One timesync file.

\* _merge_boot and merge_timesync_dicts: records are appended to a boot that is there, the
\* other boots follow.
IndexOf(dict, b) == { i \in DOMAIN dict : dict[i].boot = b }
RecordsIn(dict, b) ==
  IF IndexOf(dict, b) = {} THEN <<>> ELSE dict[CHOOSE i \in IndexOf(dict, b) : TRUE].records
NewIn(base, new) == Without(new, { x \in Range(new) : IndexOf(base, x.boot) # {} })

\* Mutant of MergeDicts: dict.update, the second file replaces the records of the first.
ReplaceDicts(base, new) ==
  [i \in DOMAIN base |-> IF IndexOf(new, base[i].boot) = {} THEN base[i]
                         ELSE new[CHOOSE j \in IndexOf(new, base[i].boot) : TRUE]]
  \o NewIn(base, new)

MergeDicts(base, new) ==
  [i \in DOMAIN base |-> [base[i] EXCEPT !.records = @ \o RecordsIn(new, base[i].boot)]]
  \o NewIn(base, new)

\* _parse_timesync_boot and _parse_timesync_record.
BootAt(item, i, file) ==
  [boot |-> item.boot, timebase |-> item.timebase, wall |-> item.wall, offset |-> i,
   file |-> file, records |-> <<>>]
RecordAt(item, i, file) ==
  [kernel |-> item.kernel, wall |-> item.wall, offset |-> i, file |-> file]

\* parse_timesync_file: a record before any boot is passed over; a bad signature commits
\* the boot and stops (it is committed once more at the end); a short tail stops.
WalkItem(s, item, i, file) ==
  IF s.stop THEN s
  ELSE CASE item.is = "record" /\ s.open = <<>> -> s
         [] item.is = "record" /\ s.open # <<>> ->
              [s EXCEPT !.open[1].records = Append(@, RecordAt(item, i, file))]
         [] item.is = "boot" ->
              [s EXCEPT !.dict = MergeDicts(@, s.open), !.open = << BootAt(item, i, file) >>]
         [] item.is = "bad"  -> [s EXCEPT !.dict = MergeDicts(@, s.open), !.stop = TRUE]
         [] item.is = "tail" -> [s EXCEPT !.stop = TRUE]

WalkItems(items, file) ==
  LET after[n \in 0 .. Len(items)] ==
        IF n = 0 THEN [dict |-> <<>>, open |-> <<>>, stop |-> FALSE]
        ELSE WalkItem(after[n - 1], items[n], n, file)
  IN  after
ParseTimesync(items, file) ==
  LET end == WalkItems(items, file)[Len(items)] IN MergeDicts(end.dict, end.open)

------------------------------------------------------------------------------
\* setup_timesync.

Files == archive.timesync

\* A file without boots is not registered; each boot is ranked when it is first seen.
WalkFile ==
  /\ tstep = "walk" /\ walked < Len(Files)
  /\ LET found == ParseTimesync(Files[walked + 1], Len(sources) + 1)
         id    == Len(sources) + 1
         names == { found[i].boot : i \in DOMAIN found }
     IN  /\ sources' = IF found = <<>> THEN sources ELSE Append(sources, walked + 1)
         /\ boots'   = MergeDicts(boots, found)
         /\ owner'   = [b \in DOMAIN owner \cup names |-> IF b \in DOMAIN owner THEN owner[b] ELSE id]
         /\ ranks'   = ranks \o Without([i \in DOMAIN found |-> found[i].boot], Range(ranks))
  /\ walked' = walked + 1
  /\ UNCHANGED <<archive, tstep, skipped, anchors, unread, logs, order>>

\* The file cannot be read, or registering it fails: a warning, and the next file.
SkipFile ==
  /\ tstep = "walk" /\ walked < Len(Files)
  /\ walked' = walked + 1 /\ skipped' = skipped \cup {walked + 1}
  /\ UNCHANGED <<archive, tstep, sources, boots, owner, ranks, anchors, unread, logs, order>>

\* register_boot: the boots table is filled in rank order.
RegisterBoots ==
  /\ tstep = "walk" /\ walked = Len(Files)
  /\ tstep' = "anchors"
  /\ UNCHANGED <<archive, walked, skipped, sources, boots, owner, ranks, anchors, unread, logs, order>>

\* preinsert_timesync_anchors: the header and every record of each boot, once per
\* (file, offset), get_or_insert_timesync_anchor giving back the id of one that is there.
AnchorsOf(b) ==
  LET Row(x, k) == [file |-> x.file, offset |-> x.offset, boot |-> b.boot, kernel |-> k, wall |-> x.wall]
  IN  << Row(b, 0) >> \o [i \in DOMAIN b.records |-> Row(b.records[i], b.records[i].kernel)]
InsertAnchor(table, a) ==
  IF \E i \in DOMAIN table : table[i].file = a.file /\ table[i].offset = a.offset
  THEN table ELSE Append(table, a)
Wanted == FlattenSeq([i \in DOMAIN boots |-> AnchorsOf(boots[i])])

Inserted(wanted) ==
  LET table[n \in 0 .. Len(wanted)] ==
        IF n = 0 THEN <<>> ELSE InsertAnchor(table[n - 1], wanted[n])
  IN  table[Len(wanted)]

PreinsertAnchors ==
  /\ tstep = "anchors"
  /\ \A i \in DOMAIN Wanted : Wanted[i].kernel <= MaxInt64
  /\ anchors' = Inserted(Wanted)
  /\ tstep' = "parse"
  /\ UNCHANGED <<archive, walked, skipped, sources, boots, owner, ranks, unread, logs, order>>

\* A kernel time SQLite cannot hold raises: nothing guards this part of the set-up.
AnchorOverflows ==
  /\ tstep = "anchors"
  /\ \E i \in DOMAIN Wanted : Wanted[i].kernel > MaxInt64
  /\ tstep' = "failed"
  /\ UNCHANGED <<archive, walked, skipped, sources, boots, owner, ranks, anchors, unread, logs, order>>

------------------------------------------------------------------------------
\* resolve_mach_timestamp.

\* _kernel_index: the keys, when they ascend.
Ascending(rs) == \A i \in 1 .. Len(rs) - 1 : rs[i].kernel <= rs[i + 1].kernel

\* No record of a file is at offset 0.
NoAnchor == [kernel |-> 0, wall |-> 0, offset |-> 0, file |-> 0]

\* _select_anchor: bisect_right on ascending keys, else the walk that stops at the first
\* record past the target; the header only when the preamble's base time is 0.
Bisect(rs, t)  == Cardinality({ i \in DOMAIN rs : rs[i].kernel <= t })
Leading(rs, t) == Cardinality({ i \in DOMAIN rs : \A j \in 1 .. i : rs[j].kernel <= t })
SelectAnchor(b, t, base) ==
  LET rs == b.records
      n  == IF Ascending(rs) THEN Bisect(rs, t) ELSE Leading(rs, t)
  IN  CASE n > 0                             -> rs[n]
        [] n = 0 /\ base = 0                 -> [kernel |-> 0, wall |-> b.wall, offset |-> b.offset, file |-> b.file]
        [] n = 0 /\ base # 0 /\ rs # <<>>    -> rs[1]
        [] n = 0 /\ base # 0 /\ rs = <<>>    -> NoAnchor

\* 125/3 on Apple Silicon, 1/1 otherwise, and the floor of the division.
Scaled(b, d) == IF b.timebase = "125/3" THEN (d * 125) \div 3 ELSE d

Resolve(uuid, t, base) ==
  IF IndexOf(boots, uuid) = {} THEN [ns |-> 0, anchor |-> NoAnchor]
  ELSE LET b == boots[CHOOSE i \in IndexOf(boots, uuid) : TRUE]
           a == SelectAnchor(b, t, base)
       IN  IF a = NoAnchor THEN [ns |-> 0, anchor |-> NoAnchor]
           ELSE [ns |-> a.wall + Scaled(b, t - a.kernel), anchor |-> a]

\* anchor_id_map: looked up with the file the anchor itself comes from.
AnchorId(a) ==
  LET at == { i \in DOMAIN anchors : anchors[i].file = a.file /\ anchors[i].offset = a.offset }
  IN  IF at = {} THEN 0 ELSE CHOOSE i \in at : TRUE

\* _resolve_dump_anchor: a dump has no preamble and is resolved as if its base were 1.
BaseOf(e) == IF e.dump THEN 1 ELSE e.base

\* _firehose_to_log_entry and the dump builders, what they say of time and place.
RowOfEntry(e, i, f) ==
  LET r == Resolve(e.boot, e.base + e.delta, BaseOf(e))
  IN  [file |-> f, at |-> i, boot |-> e.boot, mach |-> e.base + e.delta, ns |-> r.ns,
       anchor |-> IF r.anchor = NoAnchor THEN 0 ELSE AnchorId(r.anchor),
       source |-> CASE r.anchor # NoAnchor -> r.anchor.file
                    [] r.anchor = NoAnchor /\ e.boot \in DOMAIN owner -> owner[e.boot]
                    [] OTHER -> 0]

\* A tracev3 file is parsed, by this process or by a worker: its rows in file order.
StoreFile(f) ==
  /\ tstep = "parse" /\ f \in unread
  /\ logs' = logs \o [i \in DOMAIN archive.tracev3[f] |-> RowOfEntry(archive.tracev3[f][i], i, f)]
  /\ unread' = unread \ {f}
  /\ UNCHANGED <<archive, tstep, walked, skipped, sources, boots, owner, ranks, anchors, order>>

ParseDone ==
  /\ tstep = "parse" /\ unread = {}
  /\ tstep' = "order"
  /\ UNCHANGED <<archive, walked, skipped, sources, boots, owner, ranks, anchors, unread, logs, order>>

------------------------------------------------------------------------------
\* assign_ordering: one transaction, the table cleared and filled.

Before(a, b) == \E i \in DOMAIN a : a[i] < b[i] /\ \A j \in 1 .. i - 1 : a[j] = b[j]

\* boots.rank, or UNKNOWN_BOOT_RANK, past every rank there is.
RankOf(b) ==
  LET at == { i \in DOMAIN ranks : ranks[i] = b }
  IN  IF at = {} THEN Len(ranks) + 1 ELSE CHOOSE i \in at : TRUE

\* Mutant of EventKey: the wall clock, which a clock change turns back.
WallKey(id) == << RankOf(logs[id].boot), logs[id].ns, logs[id].file, logs[id].at, id >>

EventKey(id) == << RankOf(logs[id].boot), logs[id].mach, logs[id].file, logs[id].at, id >>
SourceKey(id) == << logs[id].at, id >>

Numbered ==
  [id \in DOMAIN logs |->
     [event  |-> 1 + Cardinality({ j \in DOMAIN logs : Before(EventKey(j), EventKey(id)) }),
      source |-> 1 + Cardinality({ j \in DOMAIN logs :
                        logs[j].file = logs[id].file /\ Before(SourceKey(j), SourceKey(id)) })]]

AssignOrdering ==
  /\ tstep = "order"
  /\ order' = Numbered
  /\ tstep' = "done"
  /\ UNCHANGED <<archive, walked, skipped, sources, boots, owner, ranks, anchors, unread, logs>>

------------------------------------------------------------------------------
TimelineInit ==
  /\ archive \in Archives
  /\ tstep = "walk" /\ walked = 0 /\ skipped = {} /\ sources = <<>> /\ boots = <<>>
  /\ owner = <<>> /\ ranks = <<>> /\ anchors = <<>> /\ logs = <<>> /\ order = <<>>
  /\ unread = DOMAIN archive.tracev3

TimelineNext ==
  \/ WalkFile \/ SkipFile \/ RegisterBoots \/ PreinsertAnchors \/ AnchorOverflows
  \/ \E f \in unread : StoreFile(f)
  \/ ParseDone \/ AssignOrdering

TimelineSpec == TimelineInit /\ [][TimelineNext]_timeline

------------------------------------------------------------------------------
\* What is on disk, read without the walk: the boot a record belongs to is the nearest
\* header before it, and nothing past the first damage of a file counts.

Whole(f) == { i \in DOMAIN Files[f] : \A j \in 1 .. i : Files[f][j].is \notin {"bad", "tail"} }
Readable == UNION { { <<f, i>> : i \in Whole(f) } : f \in DOMAIN Files \ skipped }
ItemAt(p) == Files[p[1]][p[2]]
HeaderOf(p) ==
  LET hs == { i \in 1 .. p[2] : Files[p[1]][i].is = "boot" }
  IN  IF hs = {} THEN 0 ELSE CHOOSE i \in hs : \A j \in hs : j <= i
BootAtPlace(p) == ItemAt(<< p[1], HeaderOf(p) >>).boot
Later(p, q) == Before(q, p)
Earliest(S) == CHOOSE p \in S : \A q \in S : ~Later(p, q)
Latest(S)  == CHOOSE p \in S : \A q \in S : ~Later(q, p)
HeadersOf(b) == { p \in Readable : ItemAt(p).is = "boot" /\ ItemAt(p).boot = b }
RecordsOf(b) == { p \in Readable : ItemAt(p).is = "record" /\ HeaderOf(p) # 0 /\ BootAtPlace(p) = b }

\* The place of the anchor an entry should have, in records that ascend.
ExpectedAnchor(b, t, base) ==
  LET below == { p \in RecordsOf(b) : ItemAt(p).kernel <= t }
  IN  IF below # {} THEN Latest(below)
      ELSE IF base = 0 THEN Earliest(HeadersOf(b)) ELSE Earliest(RecordsOf(b))
InOrder(b) ==
  \A p, q \in RecordsOf(b) : Later(q, p) => ItemAt(p).kernel <= ItemAt(q).kernel

\* Every stored entry whose boot is described has the time of the last record at or before
\* it, whatever the split of the boot over files, the damage after it and the worker that
\* resolved it; its anchor names the very file and offset; no other entry has a time.
TimesAreExact ==
  \A id \in DOMAIN logs :
    LET row  == logs[id]
        e    == archive.tracev3[row.file][row.at]
        base == BaseOf(e)
    IN  IF HeadersOf(row.boot) = {} \/ (base # 0 /\ RecordsOf(row.boot) = {})
        THEN row.ns = 0 /\ row.anchor = 0
        ELSE InOrder(row.boot) =>
               LET p    == ExpectedAnchor(row.boot, row.mach, base)
                   from == IF ItemAt(p).is = "boot" THEN 0 ELSE ItemAt(p).kernel
                   head == ItemAt(Earliest(HeadersOf(row.boot)))
               IN  /\ row.ns = ItemAt(p).wall + Scaled(head, row.mach - from)
                   /\ row.anchor \in DOMAIN anchors
                   /\ << sources[anchors[row.anchor].file], anchors[row.anchor].offset >> = p
                   /\ row.source = anchors[row.anchor].file

\* The order is all there or not at all, and is the one of the bytes: boots by where the
\* timesync files first name them, then the monotonic clock, then the place in the files;
\* neither the order the files were parsed in nor the wall clock shows.  Boots the
\* timesync files do not name come last, as one.
PhysicalRank(b) ==
  IF HeadersOf(b) = {} THEN << Len(Files) + 1, 0 >> ELSE Earliest(HeadersOf(b))
TimelineIsCanonical ==
  order # <<>> =>
    /\ DOMAIN order = DOMAIN logs
    /\ \A i, j \in DOMAIN logs :
         i # j =>
         LET Key(r) == PhysicalRank(r.boot) \o << r.mach, r.file, r.at >>
         IN  /\ (order[i].event < order[j].event) = Before(Key(logs[i]), Key(logs[j]))
             /\ logs[i].file = logs[j].file =>
                  (order[i].source < order[j].source) = (logs[i].at < logs[j].at)

=============================================================================
