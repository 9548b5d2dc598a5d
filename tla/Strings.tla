------------------------------ MODULE Strings ------------------------------
(***************************************************************************)
(* How a row gets its words.  Every process reads the UUIDText and DSC     *)
(* files of the archive for itself; the main one registers them and hands  *)
(* the ids to the workers; then each entry has its format string found and *)
(* filled in, through memos that live on the parsed files                  *)
(* (engine/parser/string_cache.py, uuidtext.py, dsc.py, format_string.py,  *)
(* message.py).  A text is a sequence of tokens; a string lies at a cell.  *)
(***************************************************************************)
EXTENDS Integers, Sequences, FiniteSets, SequencesExt, TLC, Listing

CONSTANTS
  Shelves,   \* what there is to start from: [uuidtexts, dscs, process, entries]
  Word,      \* 2^32 scaled down: a string offset is smaller
  MemoMax    \* FORMAT_STRING_OFFSET_CACHE_MAX

ASSUME StringsAssumption == Word \in Nat \ {0} /\ Word % 2 = 0 /\ MemoMax \in Nat

\* What an archive is.  A file has a path of its own; a text is a sequence of tokens; ranges
\* are numbers, and those of a DSC file do not overlap; the uuid of a shared cache is that of
\* no binary.
IsText(t) == t \in Seq(Range(t))
Apart(r, s) ==
  r.start # s.start /\ (r.start + r.size <= s.start \/ s.start + s.size <= r.start)
IsTable(f) ==
  /\ f.path \in Nat \ {0} /\ IsText(f.ranges) /\ IsText(f.pool)
  /\ \A r \in Range(f.ranges) : r.start \in Nat /\ r.size \in Nat /\ r.data \in Nat
  /\ \A t \in Range(f.pool) : IsText(t)
IsEntry(e) ==
  /\ e.place \in {"uuid", "cache", "bigcache", "absolute", "main", "none"}
  /\ e.offset \in Nat /\ e.large \in Nat /\ e.bigcache \in Nat
  /\ IsText(e.items) /\ \A it \in Range(e.items) : IsText(it.text)
Tables(s) == Range(s.uuidtexts) \cup Range(s.dscs)
Binaries(s) ==
  {"", s.process.main} \cup { i.uuid : i \in Range(s.process.images) }
  \cup { f.uuid : f \in Range(s.uuidtexts) } \cup { e.uuid : e \in { x \in Range(s.entries) : x.place = "uuid" } }
ASSUME ShelvesAssumption ==
  \A s \in Shelves :
    /\ IsText(s.uuidtexts) /\ IsText(s.dscs) /\ IsText(s.entries) /\ IsText(s.process.images)
    /\ \A f \in Tables(s) : IsTable(f) /\ \A g \in Tables(s) : f.path = g.path => f = g
    /\ \A f \in Range(s.dscs) :
         /\ f.uuid \notin Binaries(s)
         /\ \A i, j \in DOMAIN f.ranges : i # j => Apart(f.ranges[i], f.ranges[j])
    /\ \A e \in Range(s.entries) : IsEntry(e)

DynamicOffset == Word \div 2      \* 0x80000000
Readers == {"main", "worker"}

VARIABLES
  shelf,   \* what is on disk, and the entries to be resolved
  loaded,  \* reader to its caches: <<>> or << [uuidtext, dsc] >>, uuid to file
  ids,     \* reader to its uuid_to_file_id map: <<>> or << map >>
  memo,    \* reader to its memos: (file, offset) to text
  rows     \* entry to the row built for it, <<>> until then

strings == <<shelf, loaded, ids, memo, rows>>

------------------------------------------------------------------------------
\* load_content.  A file that cannot be parsed is left out; of two UUIDText files of one
\* uuid the last read counts, of two DSC files the first.

Loaded(seq)   == { i \in DOMAIN seq : seq[i].whole /\ ~seq[i].double }
Under(seq, u) == { i \in Loaded(seq) : seq[i].uuid = u }
LastOf(seq, u)  == seq[CHOOSE i \in Under(seq, u) : \A j \in Under(seq, u) : j <= i]
FirstOf(seq, u) == seq[CHOOSE i \in Under(seq, u) : \A j \in Under(seq, u) : i <= j]
Uuids(seq) == { seq[i].uuid : i \in Loaded(seq) }

LoadContent(p) ==
  /\ loaded[p] = <<>>
  /\ loaded' = [loaded EXCEPT ![p] =
       << [uuidtext |-> [u \in Uuids(shelf.uuidtexts) |-> LastOf(shelf.uuidtexts, u)],
           dsc      |-> [u \in Uuids(shelf.dscs) |-> FirstOf(shelf.dscs, u)]] >>]
  /\ UNCHANGED <<shelf, ids, memo, rows>>

\* register_source_files: all UUIDText files, then all DSC files; the id is the file's path.
RegisterSources ==
  /\ loaded["main"] # <<>> /\ ids["main"] = <<>>
  /\ LET c == loaded["main"][1]
     IN  ids' = [ids EXCEPT !["main"] =
           << [u \in DOMAIN c.uuidtext \cup DOMAIN c.dsc |->
                 IF u \in DOMAIN c.dsc THEN c.dsc[u].path ELSE c.uuidtext[u].path] >>]
  /\ UNCHANGED <<shelf, loaded, memo, rows>>

\* set_uuid_file_ids: a worker takes the map of the main process.
AdoptIds ==
  /\ ids["main"] # <<>> /\ ids["worker"] = <<>>
  /\ ids' = [ids EXCEPT !["worker"] = ids["main"]]
  /\ UNCHANGED <<shelf, loaded, memo, rows>>

Uuidtext(p, u) == IF u \in DOMAIN loaded[p][1].uuidtext THEN << loaded[p][1].uuidtext[u] >> ELSE <<>>
Dsc(p, u)      == IF u \in DOMAIN loaded[p][1].dsc THEN << loaded[p][1].dsc[u] >> ELSE <<>>
FileId(p, u)   == IF u \in DOMAIN ids[p][1] THEN ids[p][1][u] ELSE 0

------------------------------------------------------------------------------
\* Looking a string up in a parsed file.

\* _read_cstr: the string that begins at this cell of the pool.
ReadCstr(pool, pos) == IF pos >= Len(pool) THEN <<>> ELSE pool[pos + 1]

\* _range_offset_in_footer: the ranges lie in the footer back to back.
SizeBefore(f, i) ==
  LET before[n \in 0 .. Len(f.ranges)] == IF n = 0 THEN 0 ELSE before[n - 1] + f.ranges[n].size
  IN  before[i - 1]
Percent(t) == << <<"spec", t, "">> >>

\* _lookup_format_string_uncached: the first range that holds the offset.
UuidtextLookup(f, offset) ==
  LET in == { i \in DOMAIN f.ranges :
                f.ranges[i].start <= offset /\ offset < f.ranges[i].start + f.ranges[i].size }
  IN  CASE offset = DynamicOffset -> Percent("s")
        [] offset # DynamicOffset /\ in = {} -> <<>>
        [] OTHER -> LET i == CHOOSE x \in in : \A y \in in : x <= y
                    IN  ReadCstr(f.pool, SizeBefore(f, i) + offset - f.ranges[i].start)

\* _image_path_from_footer: the path behind the last range, none when the sizes overshoot.
ImagePath(f) ==
  IF \E i \in 1 .. Len(f.ranges) + 1 : SizeBefore(f, i) > Len(f.pool) THEN <<>>
  ELSE ReadCstr(f.pool, SizeBefore(f, Len(f.ranges) + 1))

\* find_range: the last range that starts at or before the offset, when it reaches it.
FindRange(f, offset) ==
  LET below == { i \in DOMAIN f.ranges : f.ranges[i].start <= offset }
      last  == CHOOSE i \in below : \A j \in below : f.ranges[j].start <= f.ranges[i].start
  IN  IF below = {} THEN <<>>
      ELSE IF offset >= f.ranges[last].start + f.ranges[last].size THEN <<>> ELSE << f.ranges[last] >>

\* _lookup_dsc_string_uncached; _parse leaves a range whose data lie outside the file empty.
DscLookup(f, offset) ==
  LET r == FindRange(f, offset)
      bounded == IF r # <<>> THEN r[1].data + r[1].size <= Len(f.pool) ELSE FALSE
  IN  CASE offset = DynamicOffset -> Percent("s")
        [] offset # DynamicOffset /\ bounded  -> ReadCstr(f.pool, r[1].data + offset - r[1].start)
        [] offset # DynamicOffset /\ ~bounded -> <<>>

\* lookup_format_string and lookup_dsc_string: what the memo of this file says, else the
\* lookup, remembered while there is room.
MemoSize(p, f) == Cardinality({ k \in DOMAIN memo[p] : k[1] = f.path })
LookedUp(p, f, offset, text) ==
  IF <<f.path, offset>> \in DOMAIN memo[p] THEN memo[p][<<f.path, offset>>] ELSE text

\* Mutant of Remember: one memo for all files, by offset.
RememberAcross(p, f, offset, text) ==
  [k \in DOMAIN memo[p] \cup { <<g.path, offset>> : g \in Range(shelf.uuidtexts) } |->
     IF k \in DOMAIN memo[p] THEN memo[p][k] ELSE text]

Remember(p, f, offset, text) ==
  IF <<f.path, offset>> \notin DOMAIN memo[p] /\ MemoSize(p, f) < MemoMax
  THEN [k \in DOMAIN memo[p] \cup {<<f.path, offset>>} |->
          IF k \in DOMAIN memo[p] THEN memo[p][k] ELSE text]
  ELSE memo[p]

------------------------------------------------------------------------------
\* resolve_format_string: [fmt, library, uuid, process, file] and the memo after it.

Found(fmt, lib, u, proc, id) == [fmt |-> fmt, library |-> lib, uuid |-> u, process |-> proc, file |-> id]

\* _dsc_effective_offset.
EffectiveOffset(e) ==
  CASE e.large = 0 -> e.offset
    [] e.large # 0 /\ e.large # e.bigcache \div 2 /\ e.place # "cache" -> (e.bigcache \div 2) * Word + e.offset
    [] e.large # 0 /\ e.place = "cache" -> e.offset + Word \div 2
    [] OTHER -> e.large * Word + e.offset

\* _dsc_library_path: of the range that holds the offset, when its index is one of a path.
DscLibrary(f, offset) ==
  LET r == FindRange(f, offset)
  IN  IF r = <<>> THEN <<>> ELSE IF r[1].image \in DOMAIN f.paths THEN f.paths[r[1].image] ELSE <<>>

\* _resolve_absolute: the first image whose load range holds the address, both ends in.
AbsoluteImage(e) ==
  LET at == e.alt * Word + e.pc
      images == shelf.process.images
      in == { i \in DOMAIN images : images[i].load <= at /\ at <= images[i].load + images[i].size }
  IN  IF in = {} THEN "" ELSE images[CHOOSE x \in in : \A y \in in : x <= y].uuid

\* The files an entry's string is looked up in, and at which offset.
TableOf(p, e) ==
  CASE e.place = "uuid" -> Uuidtext(p, e.uuid)
    [] e.place \in {"cache", "bigcache"} -> Dsc(p, shelf.process.dsc)
    [] e.place = "absolute" -> Uuidtext(p, AbsoluteImage(e))
    [] e.place = "main" -> Uuidtext(p, shelf.process.main)
    [] e.place = "none" -> <<>>
OffsetIn(e) == IF e.place \in {"cache", "bigcache"} THEN EffectiveOffset(e) ELSE e.offset
TextIn(f, e) ==
  IF e.place \in {"cache", "bigcache"} THEN DscLookup(f, OffsetIn(e)) ELSE UuidtextLookup(f, OffsetIn(e))

IsDynamic(e) == e.offset = DynamicOffset
FirstText(e) == IF e.items = <<>> THEN <<>> ELSE e.items[1].text

Resolve2(p, e) ==
  LET t == TableOf(p, e)
      there == t # <<>>
      fmt == LookedUp(p, t[1], OffsetIn(e), TextIn(t[1], e))
      main == shelf.process.main
  IN  CASE IsDynamic(e) -> Found(FirstText(e), <<>>, "", "", 0)
        [] ~IsDynamic(e) /\ e.place = "uuid" ->
             IF there THEN Found(fmt, ImagePath(t[1]), e.uuid, "", FileId(p, e.uuid))
             ELSE Found(<<>>, <<>>, e.uuid, "", FileId(p, e.uuid))
        [] ~IsDynamic(e) /\ e.place \in {"cache", "bigcache"} ->
             IF there THEN Found(fmt, DscLibrary(t[1], OffsetIn(e)), shelf.process.dsc, main,
                                 FileId(p, shelf.process.dsc))
             ELSE Found(<<>>, <<>>, shelf.process.dsc, "", 0)
        [] ~IsDynamic(e) /\ e.place = "absolute" ->
             IF there THEN Found(fmt, ImagePath(t[1]), AbsoluteImage(e), main, FileId(p, AbsoluteImage(e)))
             ELSE Found(<<>>, <<>>, AbsoluteImage(e), main, FileId(p, AbsoluteImage(e)))
        [] ~IsDynamic(e) /\ e.place = "main" ->
             IF there THEN Found(fmt, ImagePath(t[1]), main, main, FileId(p, main))
             ELSE Found(<<>>, <<>>, main, main, 0)
        [] ~IsDynamic(e) /\ e.place = "none" -> Found(<<>>, <<>>, "", "", 0)

------------------------------------------------------------------------------
\* format_message.

Shown(how, n) == << << "shown", how, ToString(n) >> >>
Decimal(n)    == Shown("d", n)
Raw(it)       == IF it.cls = "number" THEN Decimal(it.n) ELSE it.text

\* _apply_printf: the integer is the signed one the item parser made; a float is read from
\* its bits; a text stays what it is.
Printf(it, conv) ==
  CASE conv \in {"s", "@", "c"} -> Raw(it)
    [] conv \in {"d", "u", "x", "f", "p"} /\ it.cls = "number" -> Shown(conv, it.n)
    [] OTHER -> it.text

\* _render_uuid, _render_bool, _render_errno, _render_time_t, _render_in_addr, the tables:
\* a number they know is named, another text is left; an unknown annotation is shown as one.
Decoders == {"uuid_t", "bool", "errno", "time_t", "in_addr", "table"}
Decoded(it, how) ==
  CASE it.cls # "number" -> it.text
    [] it.cls = "number" /\ how = "in_addr" /\ it.n < 0 -> Decimal(it.n)
    [] it.cls = "number" /\ how = "uuid_t" -> Decimal(it.n)
    [] OTHER -> Shown(how, it.n)

\* _render_item: a redacted value stays so.
Redacted2 == << <<"lit", "<private>", "">> >>
RenderItem(it, spec) ==
  CASE it.cls # "number" /\ it.text = Redacted2 -> Redacted2
    [] (it.cls = "number" \/ it.text # Redacted2) /\ spec[3] = "" -> Printf(it, spec[2])
    [] (it.cls = "number" \/ it.text # Redacted2) /\ spec[3] \in Decoders -> Decoded(it, spec[3])
    [] OTHER -> << <<"shown", "?", spec[3]>> >> \o Raw(it)

\* _parse_specs is the tokens.  A specifier takes the next item; one too many is left.
Fill(s, tok, its) ==
  CASE tok[1] = "spec" /\ s.next <= Len(its) ->
         [next |-> s.next + 1, out |-> s.out \o RenderItem(its[s.next], tok)]
    [] tok[1] = "pct" -> [s EXCEPT !.out = Append(@, <<"lit", "%", "">>)]
    [] OTHER -> [s EXCEPT !.out = Append(@, tok)]

FormatMessage(fmt, its) ==
  LET filled[n \in 0 .. Len(fmt)] ==
        IF n = 0 THEN [next |-> 1, out |-> <<>>] ELSE Fill(filled[n - 1], fmt[n], its)
  IN  filled[Len(fmt)].out

\* _process_image_path and the fallbacks for the name: the image of the process, the
\* library, the uuid.
ProcessName(p, r) ==
  LET own == IF r.process # "" THEN Uuidtext(p, r.process) ELSE <<>>
      path == IF own # <<>> THEN ImagePath(own[1]) ELSE <<>>
  IN  CASE path # <<>> -> path
        [] path = <<>> /\ r.library # <<>> -> r.library
        [] path = <<>> /\ r.library = <<>> /\ r.process # "" -> << <<"lit", r.process, "">> >>
        [] OTHER -> <<>>

\* One entry, in the main process or in a worker.
ResolveEntry(p, i) ==
  /\ loaded[p] # <<>> /\ ids[p] # <<>> /\ rows[i] = <<>>
  /\ LET e == shelf.entries[i]  r == Resolve2(p, e)  t == TableOf(p, e)
     IN  /\ rows' = [rows EXCEPT ![i] = << [found |-> r, name |-> ProcessName(p, r),
                                            message |-> FormatMessage(r.fmt, e.items)] >>]
         /\ memo' = [memo EXCEPT ![p] =
              IF IsDynamic(e) \/ t = <<>> THEN @ ELSE Remember(p, t[1], OffsetIn(e), TextIn(t[1], e))]
  /\ UNCHANGED <<shelf, loaded, ids>>

StringsInit ==
  /\ shelf \in Shelves
  /\ loaded = [p \in Readers |-> <<>>] /\ ids = [p \in Readers |-> <<>>]
  /\ memo = [p \in Readers |-> <<>>] /\ rows = [i \in DOMAIN shelf.entries |-> <<>>]

StringsNext ==
  \/ \E p \in Readers : LoadContent(p) \/ \E i \in DOMAIN rows : ResolveEntry(p, i)
  \/ RegisterSources \/ AdoptIds

StringsSpec == StringsInit /\ [][StringsNext]_strings

------------------------------------------------------------------------------
\* What is on disk, cell by cell: the file at a path, the ranges that hold an offset, the
\* cell at which it lies.  A DSC range holds nothing when its data are not all there.
FileAt2(path) == CHOOSE f \in Tables(shelf) : f.path = path
IsDsc(path) == \E f \in Range(shelf.dscs) : f.path = path
Holders(f, offset) ==
  { i \in DOMAIN f.ranges :
      /\ \E d \in 0 .. f.ranges[i].size - 1 : f.ranges[i].start + d = offset
      /\ IsDsc(f.path) => f.ranges[i].data + f.ranges[i].size <= Len(f.pool) }
Bytes(f, i) == UNION { { <<j, d>> : d \in 1 .. f.ranges[j].size } : j \in 1 .. i - 1 }
CellOf(f, offset) ==
  LET i == CHOOSE x \in Holders(f, offset) : \A y \in Holders(f, offset) : x <= y
      base == IF IsDsc(f.path) THEN f.ranges[i].data ELSE Cardinality(Bytes(f, i))
  IN  base + offset - f.ranges[i].start + 1
TextOnDisk(f, offset) ==
  IF Holders(f, offset) = {} THEN <<>>
  ELSE IF CellOf(f, offset) > Len(f.pool) THEN <<>> ELSE f.pool[CellOf(f, offset)]
\* The offset an entry means: above the 32-bit offset stands the large one, which an entry
\* of the plain cache fixes and one that disagrees with its cache index takes from there.
Meant(e) ==
  LET high == IF e.place = "cache" THEN -1 ELSE e.bigcache \div 2
  IN  IF e.place \notin {"cache", "bigcache"} \/ e.large = 0 THEN e.offset
      ELSE IF high = -1 THEN e.offset + DynamicOffset ELSE high * Word + e.offset

\* The format string, the library and the file a row names are of one table: the file with
\* that id holds that string where the entry points, whichever process resolved it, with
\* whatever in its memos, and a row that names no file has no string from one.
RowsNameTheirTable ==
  \A i \in DOMAIN rows : rows[i] # <<>> /\ ~IsDynamic(shelf.entries[i]) =>
    LET r == rows[i][1].found  e == shelf.entries[i]
    IN  IF r.file = 0 THEN r.fmt = <<>>
        ELSE /\ FileAt2(r.file).uuid = r.uuid
             /\ IsDsc(r.file) = (e.place \in {"cache", "bigcache"})
             /\ Meant(e) # DynamicOffset => r.fmt = TextOnDisk(FileAt2(r.file), Meant(e))

\* A message has the literal text of its format, and for the k-th specifier the k-th item.
SpecsBefore(fmt, t) == Cardinality({ j \in 1 .. t : fmt[j][1] = "spec" })
Piece2(fmt, its, t) ==
  CASE fmt[t][1] = "pct" -> << <<"lit", "%", "">> >>
    [] fmt[t][1] = "spec" /\ SpecsBefore(fmt, t) <= Len(its) -> RenderItem(its[SpecsBefore(fmt, t)], fmt[t])
    [] OTHER -> << fmt[t] >>
Valued(its) == SelectSeq(its, LAMBDA it : it.cls # "precision")
MessagesAreFilled ==
  \A i \in DOMAIN rows : rows[i] # <<>> =>
    LET fmt == rows[i][1].found.fmt  its == shelf.entries[i].items
    IN  ~IsDynamic(shelf.entries[i]) /\ Valued(its) = its =>
          rows[i][1].message = FlattenSeq([t \in DOMAIN fmt |-> Piece2(fmt, its, t)])

StringsAreSound == RowsNameTheirTable /\ MessagesAreFilled

\* "Each entry also carries a list of items: one typed value per format specifier": the
\* k-th specifier shows the k-th value, a length in between being none.  Violated: a length
\* stays in the list and is taken for the value of its specifier.
EverySpecifierHasItsValue ==
  \A i \in DOMAIN rows : rows[i] # <<>> =>
    LET fmt == rows[i][1].found.fmt  its == Valued(shelf.entries[i].items)
    IN  ~IsDynamic(shelf.entries[i]) =>
          rows[i][1].message = FlattenSeq([t \in DOMAIN fmt |-> Piece2(fmt, its, t)])

=============================================================================
