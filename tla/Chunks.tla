------------------------------- MODULE Chunks -------------------------------
(***************************************************************************)
(* The two passes over the tracev3 files (ops/extraction/oversize_pass.py, *)
(* ops/extraction/tracev3_parse.py): the chunks of a file, the sub-chunks  *)
(* of a chunkset, the entries of a firehose block, and what damage at each *)
(* of those levels takes away with it.  One step is one chunk, the grain   *)
(* at which both passes look at their CancelToken.                         *)
(***************************************************************************)
EXTENDS Integers, Sequences, FiniteSets, SequencesExt, Listing

CONSTANT
  Trees       \* what the archives hold: sets of [dir, path, double, chunks]

VARIABLES
  traces,    \* the tracev3 files of the archive, in the order of both passes
  pass,      \* "oversize", "parse", "end" or "cancelled"
  place,     \* <<file, chunk>>, the chunk to be read next
  catalog,   \* the CatalogChunk in force, <<>> before the first one
  bootUuid,  \* of the header in force
  oversize,  \* OversizeCache: (process, reference) to the chunk's items
  emitted,   \* history: the entries handed to emit, in order
  errors,    \* history: parse_errors over all files
  asked      \* the CancelToken

chunks == <<traces, pass, place, catalog, bootUuid, oversize, emitted, errors, asked>>

------------------------------------------------------------------------------
\* What the bytes of a file can be taken apart into, damage included; a process id is a pair.
Ids == Nat \X Nat
EntryRecords ==
  [act : {"log", "signpost", "activity", "trace", "loss", "alien", "truncated"},
   sub : Nat, ref : Nat, whole : BOOLEAN, text : STRING]
SubRecords ==
  [is : {"firehose", "statedump", "simpledump", "oversize", "unknown", "padding", "cut"},
   whole : BOOLEAN, key : Ids, ref : Nat, text : STRING, entries : Seq(EntryRecords),
   coded : {"plist", "protobuf", "object", "text"}, own : STRING, dsc : STRING]
ProcessRecords ==
  [key : Ids, pid : Nat, euid : Nat, main : Nat, subsystems : Seq([id : Nat, name : STRING])]
ChunkRecords ==
       [is : {"header"}, boot : STRING, whole : BOOLEAN]
  \cup [is : {"catalog"}, whole : BOOLEAN, uuids : Seq(STRING), procs : Seq(ProcessRecords)]
  \cup [is : {"chunkset"}, whole : {TRUE}, coding : STRING,
        claim : {"fits", "cap", "ratio", "differs", "short"}, subs : Seq(SubRecords)]
  \cup [is : {"other", "cut"}, whole : BOOLEAN]
TraceFiles ==
  [dir : {"Persist", "Special", "Signpost", "other"}, path : Nat, double : BOOLEAN,
   chunks : Seq(ChunkRecords)]

\* A file has one place in the archive.
ASSUME TreesAssumption ==
  \A t \in Trees : /\ IsFiniteSet(t) /\ t \subseteq TraceFiles
                   /\ \A f, g \in t : f.path = g.path => f = g

\* find_tracev3_files: Persist, Special, Signpost, then the rest, each by path; AppleDouble
\* sidecars are no files.
DirRank(d) ==
  CASE d = "Persist" -> 1 [] d = "Special" -> 2 [] d = "Signpost" -> 3 [] OTHER -> 4
FindTracev3Files(t) ==
  LET files == { f \in t : ~f.double }
  IN  ListedBy(files, { p \in files \X files :
                          \/ DirRank(p[1].dir) < DirRank(p[2].dir)
                          \/ DirRank(p[1].dir) = DirRank(p[2].dir) /\ p[1].path < p[2].path })
FileAt(f)  == traces[f].chunks
FileCount  == Len(traces)
ChunkAt(p) == FileAt(p[1])[p[2]]

\* iter_chunks: a truncated preamble, a payload larger than the rest of the file or a short
\* read ends the file; every other chunk is yielded, with the padding after it consumed.
IterEnds(p) == IF p[2] > Len(FileAt(p[1])) THEN TRUE ELSE ChunkAt(p).is = "cut"

\* _parse_process_info_entry: a uuid is named by its index, one out of range is none.
ParseProcess(p, uuids) ==
  [key |-> p.key, pid |-> p.pid, euid |-> p.euid, subsystems |-> p.subsystems,
   main |-> IF p.main < Len(uuids) THEN uuids[p.main + 1] ELSE ""]

\* parse_catalog_chunk: the entries in order, a repeated process id replacing the one before.
ParseCatalog(c) ==
  [key \in { c.procs[i].key : i \in DOMAIN c.procs } |->
     ParseProcess(c.procs[Max({ i \in DOMAIN c.procs : c.procs[i].key = key })], c.uuids)]

\* get_process_info finds one; get_pid, get_euid.
HasProcess(cat, key) == key \in DOMAIN cat
PidOf(cat, key)  == IF HasProcess(cat, key) THEN cat[key].pid ELSE 0
EuidOf(cat, key) == IF HasProcess(cat, key) THEN cat[key].euid ELSE 0
\* get_catalog_dsc, its main_uuid.
MainOf(cat, key) == IF HasProcess(cat, key) THEN cat[key].main ELSE ""
\* get_subsystem: the first entry of that identifier; 0 is looked up like any other.
SubsystemOf(cat, key, id) ==
  LET same == { i \in DOMAIN cat[key].subsystems : cat[key].subsystems[i].id = id }
  IN  IF HasProcess(cat, key) /\ same # {} THEN cat[key].subsystems[Min(same)].name ELSE ""

\* decompress_chunkset: "refused" is None (a claim above the cap, an unknown signature; of a
\* compressed one a claim past the ratio, a block LZ4 rejects, a size that differs);
\* "short" raises EOFError, the payload ends before the bytes it claims.
Decompress(c) ==
  CASE c.claim = "cap"                                          -> "refused"
    [] c.coding \notin {"bv41", "bv4-"}                         -> "refused"
    [] c.coding = "bv41" /\ c.claim \in {"ratio", "differs"}    -> "refused"
    [] c.coding \in {"bv41", "bv4-"} /\ c.claim = "short"       -> "raises"
    [] OTHER                                                    -> "ok"

\* iter_subchunks: padding and unknown tags are passed over, a claim past the end stops.
SubChunks(c) ==
  LET cuts == { i \in DOMAIN c.subs : c.subs[i].is = "cut" }
  IN  SubSeq(c.subs, 1, IF cuts = {} THEN Len(c.subs) ELSE Min(cuts) - 1)

\* _parse_firehose_entries: an entry that is truncated ends the block; so does one of an
\* unknown type, which is kept.
Entries(sub) ==
  LET stops == { i \in DOMAIN sub.entries : sub.entries[i].act \in {"truncated", "alien"} }
  IN  SubSeq(sub.entries, 1,
        CASE stops = {}                                               -> Len(sub.entries)
          [] stops # {} /\ sub.entries[Min(stops)].act = "truncated" -> Min(stops) - 1
          [] OTHER                                                    -> Min(stops))

\* The parsers of one record, << what they return >> or nothing.

\* parse_header_chunk: a cut one raises; a wrong sub-chunk tag is only warned of.
ParseHeader(c) == IF c.whole THEN << c.boot >> ELSE <<>>

\* parse_firehose_preamble: the header, then the entries.
ParsePreamble(sub) == IF sub.whole THEN << Entries(sub) >> ELSE <<>>

\* decode_statedump_data: only a plist and plain text can be read.
StatedumpText(sub) ==
  CASE sub.coded = "plist"                  -> IF sub.text = "" THEN "Empty plist data" ELSE sub.text
    [] sub.coded \in {"protobuf", "object"} -> "base64"
    [] sub.coded = "text"                   -> sub.text

\* parse_statedump and statedump_message; parse_simpledump.
ParseStatedump(sub)  == IF sub.whole THEN << StatedumpText(sub) >> ELSE <<>>
ParseSimpledump(sub) == IF sub.whole THEN << sub.text >> ELSE <<>>
ParseDump(sub) == IF sub.is = "statedump" THEN ParseStatedump(sub) ELSE ParseSimpledump(sub)
Dumps == {"statedump", "simpledump"}

\* parse_oversize_chunk: the items, with an empty list when the region is too short.
ParseOversize(sub) == IF sub.whole THEN << sub.text >> ELSE <<>>

------------------------------------------------------------------------------
\* The oversize pass, over every file before any entry is parsed.

\* The sub-chunks in order, a later one of the same key replacing the earlier one.
PutOversize(cache, subs) ==
  LET Of(i)     == <<subs[i].key, subs[i].ref>>
      parsed    == { i \in DOMAIN subs : subs[i].is = "oversize" /\ ParseOversize(subs[i]) # <<>> }
      Newest(x) == subs[Max({ i \in parsed : Of(i) = x })]
  IN  [x \in DOMAIN cache \cup { Of(i) : i \in parsed } |->
         IF x \in { Of(i) : i \in parsed } THEN ParseOversize(Newest(x))[1] ELSE cache[x]]

NextChunk == place' = [place EXCEPT ![2] = @ + 1]
LeaveFile == place' = << place[1] + 1, 1 >> /\ catalog' = <<>> /\ bootUuid' = ""

Working(p) == pass = p /\ ~asked /\ place[1] <= FileCount
Reading(p) == Working(p) /\ ~IterEnds(place)

\* collect_oversize, one chunk.  A chunkset that raises is the end of its file.
CollectOversize ==
  /\ Reading("oversize")
  /\ LET c == ChunkAt(place)
         readable == c.is = "chunkset" /\ catalog # <<>>
     IN  IF readable /\ Decompress(c) = "raises" THEN LeaveFile /\ UNCHANGED oversize
         ELSE /\ NextChunk
              /\ catalog' = IF c.is = "catalog" /\ c.whole THEN << ParseCatalog(c) >> ELSE catalog
              /\ oversize' = IF readable /\ Decompress(c) = "ok"
                             THEN PutOversize(oversize, SubChunks(c)) ELSE oversize
              /\ UNCHANGED bootUuid
  /\ UNCHANGED <<traces, pass, emitted, errors, asked>>

\* Mutant of CollectDone: the cache is kept per file, as if a reference were local to it.
CollectForgets ==
  /\ Working("oversize") /\ IterEnds(place) /\ LeaveFile /\ oversize' = <<>>
  /\ UNCHANGED <<traces, pass, emitted, errors, asked>>

\* The file is at its end.
CollectDone ==
  /\ Working("oversize") /\ IterEnds(place) /\ LeaveFile
  /\ UNCHANGED <<traces, pass, oversize, emitted, errors, asked>>

StartParse ==
  /\ pass = "oversize" /\ ~asked /\ place[1] > FileCount
  /\ pass' = "parse" /\ place' = <<1, 1>>
  /\ UNCHANGED <<traces, catalog, bootUuid, oversize, emitted, errors, asked>>

------------------------------------------------------------------------------
\* process_tracev3, one chunk.

\* _firehose_to_log_entry: who logged it and where it lies; a log or a signpost that refers
\* to an oversize chunk has that chunk's items for its own, when it is in the cache.
MessageOf(e, key) ==
  IF e.act \in {"log", "signpost"} /\ e.ref # 0 /\ <<key, e.ref>> \in DOMAIN oversize
  THEN oversize[<<key, e.ref>>] ELSE e.text
FirehoseRow(e, sub, at) ==
  [at |-> at, boot |-> bootUuid, pid |-> PidOf(catalog[1], sub.key),
   euid |-> EuidOf(catalog[1], sub.key), main |-> MainOf(catalog[1], sub.key),
   subsystem |-> SubsystemOf(catalog[1], sub.key, IF e.act \in {"log", "signpost"} THEN e.sub ELSE 0),
   text |-> MessageOf(e, sub.key)]

\* _statedump_to_log_entry and _simpledump_to_log_entry: the first id is the pid; a simple
\* dump names its subsystem and uuid itself.
RowOfDump(sub, at, main, subsystem, text) ==
  [at |-> at, boot |-> bootUuid, pid |-> sub.key[1], euid |-> EuidOf(catalog[1], sub.key),
   main |-> main, subsystem |-> subsystem, text |-> text]
StatedumpRow(sub, at)  == RowOfDump(sub, at, "", "", ParseStatedump(sub)[1])
SimpledumpRow(sub, at) == RowOfDump(sub, at, sub.dsc, sub.own, ParseSimpledump(sub)[1])
DumpRow(sub, at) == IF sub.is = "statedump" THEN StatedumpRow(sub, at) ELSE SimpledumpRow(sub, at)

\* The place of a record in the sub-chunk at p.
Within(p, i) == <<p[1], p[2], p[3], i>>

Emit(acc, row) == [acc EXCEPT !.rows = Append(@, row)]
Count(acc)     == [acc EXCEPT !.errors = @ + 1]

\* An entry is built inside the parse guard and emitted outside it.
ParseEntries(acc, sub, at) ==
  LET es == ParsePreamble(sub)[1]
      after[n \in 0 .. Len(es)] ==
        IF n = 0 THEN acc
        ELSE IF es[n].whole THEN Emit(after[n - 1], FirehoseRow(es[n], sub, Within(at, n)))
        ELSE Count(after[n - 1])
  IN  after[Len(es)]

\* A record that does not parse is counted; an oversize chunk is left to the other pass.
ParseFirehose(acc, sub, at) ==
  IF ParsePreamble(sub) = <<>> THEN Count(acc) ELSE ParseEntries(acc, sub, at)
ParseDumpRecord(acc, sub, at) ==
  IF ParseDump(sub) = <<>> THEN Count(acc) ELSE Emit(acc, DumpRow(sub, Within(at, 1)))
ParseSub(acc, sub, at) ==
  CASE sub.is = "firehose" -> ParseFirehose(acc, sub, at)
    [] sub.is \in Dumps    -> ParseDumpRecord(acc, sub, at)
    [] sub.is \in {"oversize", "unknown", "padding"} -> acc

ParseSubs(c) ==
  LET subs == SubChunks(c)
      after[n \in 0 .. Len(subs)] ==
        IF n = 0 THEN [rows |-> <<>>, errors |-> 0]
        ELSE ParseSub(after[n - 1], subs[n], <<place[1], place[2], n>>)
  IN  after[Len(subs)]

\* A header or a catalog that does not parse is counted, and the one before stays.
HeaderChunk ==
  /\ Reading("parse") /\ ChunkAt(place).is = "header"
  /\ NextChunk
  /\ LET header == ParseHeader(ChunkAt(place))
     IN  /\ bootUuid' = IF header # <<>> THEN header[1] ELSE bootUuid
         /\ errors' = errors + (IF header # <<>> THEN 0 ELSE 1)
  /\ UNCHANGED <<traces, pass, catalog, oversize, emitted, asked>>

CatalogChunk ==
  /\ Reading("parse") /\ ChunkAt(place).is = "catalog"
  /\ NextChunk
  /\ catalog' = IF ChunkAt(place).whole THEN << ParseCatalog(ChunkAt(place)) >> ELSE catalog
  /\ errors' = errors + (IF ChunkAt(place).whole THEN 0 ELSE 1)
  /\ UNCHANGED <<traces, pass, bootUuid, oversize, emitted, asked>>

\* Before a catalog it is skipped; refused, it is counted and the file goes on; one that
\* raises ends in the handler around the whole file: an error, and the rest is not read.
ChunksetChunk ==
  /\ Reading("parse") /\ ChunkAt(place).is = "chunkset"
  /\ LET c == ChunkAt(place)  how == IF catalog = <<>> THEN "early" ELSE Decompress(c)
         got == IF how = "ok" THEN ParseSubs(c)
                ELSE [rows |-> <<>>, errors |-> IF how = "early" THEN 0 ELSE 1]
     IN  /\ emitted' = emitted \o got.rows
         /\ errors' = errors + got.errors
         /\ IF how = "raises" THEN LeaveFile ELSE NextChunk /\ UNCHANGED <<catalog, bootUuid>>
  /\ UNCHANGED <<traces, pass, oversize, asked>>

UnknownChunk ==
  /\ Reading("parse") /\ ChunkAt(place).is \notin {"header", "catalog", "chunkset"}
  /\ NextChunk
  /\ UNCHANGED <<traces, pass, catalog, bootUuid, oversize, emitted, errors, asked>>

FileDone ==
  /\ Working("parse") /\ IterEnds(place) /\ LeaveFile
  /\ UNCHANGED <<traces, pass, oversize, emitted, errors, asked>>

ParseEnds ==
  /\ pass = "parse" /\ ~asked /\ place[1] > FileCount
  /\ pass' = "end"
  /\ UNCHANGED <<traces, place, catalog, bootUuid, oversize, emitted, errors, asked>>

\* The token is set at any time; the next look at it raises, past both broad handlers.
AskCancel ==
  /\ pass \in {"oversize", "parse"} /\ ~asked /\ asked' = TRUE
  /\ UNCHANGED <<traces, pass, place, catalog, bootUuid, oversize, emitted, errors>>

CancelRaises ==
  /\ pass \in {"oversize", "parse"} /\ asked
  /\ pass' = "cancelled"
  /\ UNCHANGED <<traces, place, catalog, bootUuid, oversize, emitted, errors, asked>>

ChunksInit ==
  /\ \E t \in Trees : traces = FindTracev3Files(t)
  /\ pass = "oversize" /\ place = <<1, 1>> /\ catalog = <<>> /\ bootUuid = ""
  /\ oversize = <<>> /\ emitted = <<>> /\ errors = 0 /\ asked = FALSE

ChunksNext ==
  \/ CollectOversize \/ CollectDone \/ StartParse
  \/ HeaderChunk \/ CatalogChunk \/ ChunksetChunk \/ UnknownChunk \/ FileDone \/ ParseEnds
  \/ AskCancel \/ CancelRaises

------------------------------------------------------------------------------
\* What the archive holds, read without the two walks.

Chunk(f, k) == FileAt(f)[k]
Preceding(f, k, is) == { j \in 1 .. k - 1 : Chunk(f, j).is = is /\ Chunk(f, j).whole }
\* A chunkset that can be read: nothing cut the file before it, a good catalog precedes it.
Broken(f, k) ==
  Chunk(f, k).is = "cut" \/ (/\ Chunk(f, k).is = "chunkset" /\ Decompress(Chunk(f, k)) = "raises"
                             /\ Preceding(f, k, "catalog") # {})
Reached(f) == { k \in DOMAIN FileAt(f) : \A j \in 1 .. k - 1 : ~Broken(f, j) }
Sets(f) == { k \in Reached(f) : /\ Chunk(f, k).is = "chunkset" /\ Preceding(f, k, "catalog") # {}
                                /\ Decompress(Chunk(f, k)) = "ok" }
Subs(f, k) == { s \in DOMAIN Chunk(f, k).subs : \A j \in 1 .. s : Chunk(f, k).subs[j].is # "cut" }
SubAt(p) == Chunk(p[1], p[2]).subs[p[3]]
AllSubs ==
  UNION { UNION { { <<f, k, s>> : s \in Subs(f, k) } : k \in Sets(f) } : f \in 1 .. FileCount }

\* The records of a sub-chunk, and the damaged ones: an entry is there when nothing before it
\* in its block ends it; 0 stands for the sub-chunk itself.
InBlock(es) ==
  { i \in DOMAIN es : /\ es[i].act # "truncated"
                      /\ \A j \in 1 .. i - 1 : es[j].act \notin {"alien", "truncated"} }
Records(s) ==
  CASE s.is \in Dumps /\ s.whole      -> {1}
    [] s.is = "firehose" /\ s.whole   -> { i \in InBlock(s.entries) : s.entries[i].whole }
    [] OTHER                          -> {}
Damaged(s) ==
  CASE s.is \in Dumps \cup {"firehose"} /\ ~s.whole -> {0}
    [] s.is = "firehose" /\ s.whole                 -> { i \in InBlock(s.entries) : ~s.entries[i].whole }
    [] OTHER                                        -> {}
Places == UNION { { Within(p, i) : i \in Records(SubAt(p)) } : p \in AllSubs }

\* The order of the bytes.
Ahead(p, q) ==
  \/ p[1] < q[1]
  \/ p[1] = q[1] /\ p[2] < q[2]
  \/ p[1] = q[1] /\ p[2] = q[2] /\ p[3] < q[3]
  \/ p[1] = q[1] /\ p[2] = q[2] /\ p[3] = q[3] /\ p[4] < q[4]
InPlaceOrder(S) == ListedBy(S, { pq \in S \X S : Ahead(pq[1], pq[2]) })

\* The text an oversize reference stands for: the last such chunk of the archive.
Oversized(key, ref) ==
  { p \in AllSubs : SubAt(p).is = "oversize" /\ SubAt(p).whole /\ SubAt(p).key = key /\ SubAt(p).ref = ref }
NewestOf(S) == CHOOSE p \in S : \A q \in S : ~Ahead(Within(p, 0), Within(q, 0))
TextAt(p) ==
  LET s == SubAt(p)
      e == s.entries[p[4]]
      o == Oversized(s.key, e.ref)
  IN  IF s.is \in Dumps THEN ParseDump(s)[1]
      ELSE IF e.act \in {"log", "signpost"} /\ e.ref # 0 /\ o # {} THEN SubAt(NewestOf(o)).text
      ELSE e.text
\* The catalog and the boot in force at a chunk.
CatalogIn(f, k) == Chunk(f, Max(Preceding(f, k, "catalog")))
BootIn(f, k) ==
  LET headers == Preceding(f, k, "header")
  IN  IF headers = {} THEN "" ELSE Chunk(f, Max(headers)).boot

\* The row of the record at p, in sub-chunk s under the catalog cat.
SubsystemIn(proc, e) ==
  LET of   == IF e.act \in {"log", "signpost"} THEN e.sub ELSE 0
      same == { i \in DOMAIN proc.subsystems : proc.subsystems[i].id = of }
  IN  IF same = {} THEN "" ELSE proc.subsystems[Min(same)].name
RowOf(p, s, cat, boot, text) ==
  LET listed == { i \in DOMAIN cat.procs : cat.procs[i].key = s.key }
      proc == cat.procs[Max(listed)]
      known == listed # {}
      fire == s.is = "firehose"
  IN  [at |-> p, boot |-> boot,
       pid  |-> IF ~fire THEN s.key[1] ELSE IF known THEN proc.pid ELSE 0,
       euid |-> IF known THEN proc.euid ELSE 0,
       main |-> IF fire /\ known THEN IF proc.main < Len(cat.uuids) THEN cat.uuids[proc.main + 1] ELSE ""
                ELSE IF s.is = "simpledump" THEN s.dsc ELSE "",
       subsystem |-> IF fire /\ known THEN SubsystemIn(proc, s.entries[p[4]])
                     ELSE IF s.is = "simpledump" THEN s.own ELSE "",
       text |-> text]
ExpectedRow(p) ==
  RowOf(p, SubAt(p), CatalogIn(p[1], p[2]), BootIn(p[1], p[2]), TextAt(p))
Expected ==
  LET at == InPlaceOrder(Places) IN [i \in 1 .. Cardinality(Places) |-> ExpectedRow(at[i])]

\* Damage takes away what lies in the same container behind it and nothing else: the rows
\* are those of the whole records, each once, in the order of the bytes, each with the
\* catalog and the header in force there and the text of its oversize chunk wherever in
\* the archive that lies; cancelled, they are a prefix.
DamageIsContained ==
  /\ IsPrefix(emitted, Expected)
  /\ pass = "end" => emitted = Expected

\* What was damaged and not merely cut off is counted once each.
DamagedChunks(f) ==
  { k \in Reached(f) : \/ Chunk(f, k).is \in {"header", "catalog"} /\ ~Chunk(f, k).whole
                       \/ /\ Chunk(f, k).is = "chunkset" /\ Preceding(f, k, "catalog") # {}
                          /\ Decompress(Chunk(f, k)) # "ok" }
Damages ==
  (UNION { { <<f, k, 0, 0>> : k \in DamagedChunks(f) } : f \in 1 .. FileCount })
  \cup (UNION { { Within(p, i) : i \in Damaged(SubAt(p)) } : p \in AllSubs })
DamageIsCounted == pass = "end" => errors = Cardinality(Damages)

ChunksAreSound == DamageIsContained /\ DamageIsCounted
=============================================================================
