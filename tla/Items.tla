------------------------------- MODULE Items -------------------------------
(***************************************************************************)
(* How one firehose entry is taken apart (engine/parser/firehose.py): the  *)
(* optional fields its flags announce, then its items, the backtrace that  *)
(* may stand between them and their strings, and the private strings that  *)
(* lie outside it.  Every reader is a cursor over the bytes, so a field    *)
(* read with the wrong flag or width shifts all that follows.  A byte is   *)
(* modelled by what it belongs to.                                         *)
(***************************************************************************)
EXTENDS Integers, Sequences, FiniteSets, SequencesExt, TLC

CONSTANT Pieces   \* the entries to start from

VARIABLES
  entry,    \* what logd wrote
  estep,    \* "fields", "headers", "backtrace", "pool", "private" or "parsed"
  cursor,   \* where the reader is, in the entry's data
  fields,   \* what it took for each field
  raw,      \* raw_items: [of, cls, size, text]
  backtrace \* the (image, offset) pairs read

items == <<entry, estep, cursor, fields, raw, backtrace>>

------------------------------------------------------------------------------
\* The bytes of an entry.

\* A byte is <<what it belongs to, which one>>.
Run(of, k, n) == [j \in 1 .. n |-> <<of, k>>]
Has(flag) == flag \in entry.flags

\* Fields in the order they are written, with the condition each is there under.
FieldTable(e) ==
  LET has(f) == f \in e.flags
      na == e.act = "log"  ac == e.act = "activity"  sp == e.act = "signpost"
      body == na \/ ac \/ sp
  IN  << << "aid",       8, ((na \/ sp) /\ has("current_aid")) \/ (ac /\ e.level # "useraction") >>,
         << "pid",       8, ac /\ has("unique_pid") >>,
         << "aid2",      8, ac /\ has("current_aid") >>,
         << "aid3",      8, ac /\ has("0x200") >>,
         << "private",   4, (na \/ sp) /\ has("private") >>,
         << "pc",        4, body \/ e.act = "trace" >>,
         << "large",     2, body /\ e.place \in {"cache", "bigcache"} /\ has("large") >>,
         << "bigcache",  2, body /\ e.place = "bigcache" >>,
         << "alt",       2, body /\ e.place = "absolute" >>,
         << "uuid",     16, body /\ e.place = "uuid" >>,
         << "subsystem", 2, (na \/ sp) /\ has("0x200") >>,
         << "signpost",  8, sp >>,
         << "ttl",       1, (na \/ sp) /\ has("rules") >>,
         << "dataref",   4, (na \/ sp) /\ has("oversize") >>,
         << "name",      4, sp /\ has("name") >>,
         << "namepad",   2, sp /\ has("name") /\ e.place = "bigcache" >>,
         << "start",     8, e.act = "loss" >>,
         << "end",       8, e.act = "loss" >>,
         << "count",     8, e.act = "loss" >> >>
Present(e) == SelectSeq(FieldTable(e), LAMBDA f : f[3])
FieldBytes(e) == FlattenSeq([i \in DOMAIN Present(e) |-> Run(Present(e)[i][1], 0, Present(e)[i][2])])

\* An item: its header, then what follows it in the list: an offset and a size, the number
\* itself, or a length.
Pooled == {"string", "object", "arbitrary"}
Hidden == {"privstring", "privbytes"}
Offset4(c) == c \in Pooled \cup Hidden \cup {"sensitive", "privnumber"}
BodySize(it) == IF Offset4(it.cls) THEN 4 ELSE it.size
ItemBytes(its) ==
  FlattenSeq([k \in DOMAIN its |-> << <<"head", k>>, <<"size", k>> >> \o Run("body", k, BodySize(its[k]))])
PoolBytes(its) ==
  FlattenSeq([k \in DOMAIN its |-> IF its[k].cls \in Pooled THEN Run("text", k, its[k].size) ELSE <<>>])

\* _padding_size_4.
Padding4(n) == (4 - (n % 4)) % 4
TraceBytes(bt) ==
  IF bt = <<>> THEN <<>>
  ELSE (IF bt[1].sig THEN Run("sig", 0, 3) ELSE <<>>) \o Run("uuids", 0, 1) \o Run("offsets", 0, 2)
       \o Run("image", 0, 16 * bt[1].images) \o Run("offset", 0, 4 * bt[1].frames)
       \o Run("index", 0, bt[1].frames) \o Run("pad", 0, Padding4(bt[1].frames))

\* A trace message is written backwards: values, their sizes, their number.
TraceMessage(its) ==
  FlattenSeq([k \in DOMAIN its |-> Run("body", k, its[k].size)])
  \o [k \in DOMAIN its |-> <<"size", k>>] \o Run("number", 0, 1)

WholeItem(e) ==
  FieldBytes(e) \o (IF e.act = "trace" THEN TraceMessage(e.items)
                    ELSE << <<"unknown", 0>>, <<"number", 0>> >>
                         \o ItemBytes(e.items) \o TraceBytes(e.trace) \o PoolBytes(e.items))
\* The data that is there: a part of the string pool may be missing.
Data == SubSeq(WholeItem(entry), 1, Len(WholeItem(entry)) - entry.cut)

\* The private section: padding, the strings of the entries before this one, its own.
OwnPrivate(its) ==
  FlattenSeq([k \in DOMAIN its |-> IF its[k].cls \in Hidden \cup {"privnumber"} /\ its[k].size < 100
                                   THEN Run("secret", k, its[k].size) ELSE <<>>])
PrivateSection == Run("zero", 0, entry.pad) \o Run("others", 0, entry.before) \o OwnPrivate(entry.items)

------------------------------------------------------------------------------
\* The readers of the type-specific fields.

\* if pos + n <= len(data): read and advance; else the field keeps its zero.
Read(c, f, n) ==
  IF c.pos + n <= Len(Data)
  THEN [pos |-> c.pos + n, got |-> (f :> SubSeq(Data, c.pos + 1, c.pos + n)) @@ c.got]
  ELSE c
ReadIf(cond, c, f, n) == IF cond THEN Read(c, f, n) ELSE c
Start == [pos |-> 0, got |-> <<>>]

\* _parse_formatter_flags: one arm by flags & 0xE; the arm for 0x20 cannot be taken.
Formatters(c) ==
  CASE entry.place = "bigcache" -> Read(ReadIf(Has("large"), c, "large", 2), "bigcache", 2)
    [] entry.place = "absolute" -> Read(c, "alt", 2)
    [] entry.place = "cache"    -> ReadIf(Has("large"), c, "large", 2)
    [] entry.place = "uuid"     -> Read(c, "uuid", 16)
    [] entry.place \in {"main", "none"} -> c

\* What logs and signposts start with.
Opening(c) ==
  LET a == ReadIf(Has("current_aid"), c, "aid", 8)
      p == ReadIf(Has("private"), a, "private", 4)
  IN  ReadIf(Has("0x200"), Formatters(Read(p, "pc", 4)), "subsystem", 2)

\* _parse_non_activity.
NonActivity ==
  ReadIf(Has("oversize"), ReadIf(Has("rules"), Opening(Start), "ttl", 1), "dataref", 4)

\* Mutant of Activity: 0x200 read as it is in logs and signposts.
ActivityWithSubsystem ==
  LET a == ReadIf(entry.level # "useraction", Start, "aid", 8)
      b == ReadIf(Has("unique_pid"), a, "pid", 8)
      c == ReadIf(Has("current_aid"), b, "aid2", 8)
      d == ReadIf(Has("0x200"), c, "subsystem", 2)
  IN  Formatters(Read(d, "pc", 4))

\* _parse_activity: 0x200 means another activity id here.
Activity ==
  LET a == ReadIf(entry.level # "useraction", Start, "aid", 8)
      b == ReadIf(Has("unique_pid"), a, "pid", 8)
      c == ReadIf(Has("current_aid"), b, "aid2", 8)
      d == ReadIf(Has("0x200"), c, "aid3", 8)
  IN  Formatters(Read(d, "pc", 4))

\* _parse_signpost.
Signpost ==
  LET i == Read(Opening(Start), "signpost", 8)
      r == ReadIf(Has("rules"), i, "ttl", 1)
      o == ReadIf(Has("oversize"), r, "dataref", 4)
      n == ReadIf(Has("name"), o, "name", 4)
  IN  ReadIf(Has("name") /\ "bigcache" \in DOMAIN n.got, n, "namepad", 2)

\* _parse_loss.
Loss == Read(Read(Read(Start, "start", 8), "end", 8), "count", 8)

\* _parse_single_firehose: the reader the activity type selects.
ParseFields ==
  /\ estep = "fields" /\ entry.act # "trace"
  /\ LET c == CASE entry.act = "log"      -> NonActivity
                [] entry.act = "activity" -> Activity
                [] entry.act = "signpost" -> Signpost
                [] entry.act = "loss"     -> Loss
     IN  cursor' = c.pos /\ fields' = c.got
  /\ estep' = "headers"
  /\ UNCHANGED <<entry, raw, backtrace>>

\* _parse_trace and _parse_trace_message: the rest is reversed, the sizes are read off its
\* front, each value after them, and the list is turned round again.
ParseTrace ==
  /\ estep = "fields" /\ entry.act = "trace"
  /\ LET c == Read(Start, "pc", 4)
         rev == Reverse(SubSeq(Data, c.pos + 1, Len(Data)))
         n == Len(entry.items)
         SizeOf(k) == entry.items[n + 1 - k].size
         from[k \in 1 .. n] == IF k = 1 THEN 1 + n ELSE from[k - 1] + SizeOf(k - 1)
     IN  /\ fields' = c.got
         /\ raw' = Reverse([k \in 1 .. n |-> [of |-> n + 1 - k, cls |-> "number", size |-> SizeOf(k),
                                              text |-> SubSeq(rev, from[k] + 1, from[k] + SizeOf(k))]])
  /\ cursor' = Len(Data) /\ estep' = "parsed"
  /\ UNCHANGED <<entry, backtrace>>

------------------------------------------------------------------------------
\* collect_items.

\* _parse_item_number: 1, 2, 4 and 8 bytes, else UNPARSEABLE_NUMBER.
Redacted    == << <<"<private>", 0>> >>
Unparseable == << <<"-9999", 0>> >>
Number(bytes) == IF Len(bytes) \in {1, 2, 4, 8} THEN bytes ELSE Unparseable

\* What a header at this place says, when one begins there; other bytes name no known type.
HeadAt(pos) ==
  IF Data[pos + 1][1] = "head" THEN [of |-> Data[pos + 1][2]] @@ entry.items[Data[pos + 1][2]]
  ELSE [of |-> 0, cls |-> "other", size |-> 0]
Taken(pos, n) == SubSeq(Data, pos + 1, pos + n)

\* Phase 1: a header of two bytes, then an offset and a size, a length, or a number inline.
NextItem(s) ==
  IF s.pos + 2 > Len(Data) THEN s
  ELSE LET it == HeadAt(s.pos)  at == s.pos + 2
           n  == CASE Offset4(it.cls) -> 4 [] it.cls = "other" -> 0 [] OTHER -> it.size
           fits == at + n <= Len(Data) \/ it.cls = "precision"
       IN  [pos |-> IF fits THEN at + n ELSE at,
            raw |-> Append(s.raw,
                      [of |-> it.of, cls |-> it.cls,
                       size |-> IF Offset4(it.cls) /\ fits THEN it.size ELSE 0,
                       text |-> IF it.cls = "number" /\ fits THEN Number(Taken(at, n)) ELSE <<>>])]

ReadItems(from, count) ==
  FoldLeftDomain(LAMBDA s, k : NextItem(s), [pos |-> from, raw |-> <<>>], [k \in 1 .. count |-> k])

\* Less than six bytes are no item list.
ReadHeaders ==
  /\ estep = "headers" /\ Len(Data) - cursor >= 6
  /\ LET count == IF Data[cursor + 2][1] = "number" THEN Len(entry.items) ELSE 0
         end   == ReadItems(cursor + 2, count)
     IN  cursor' = end.pos /\ raw' = end.raw
  /\ estep' = "backtrace"
  /\ UNCHANGED <<entry, fields, backtrace>>

NoItems ==
  /\ estep = "headers" /\ Len(Data) - cursor < 6
  /\ estep' = "parsed"
  /\ UNCHANGED <<entry, cursor, fields, raw, backtrace>>

\* _get_backtrace_data: under the flag or behind its signature; the counts, the image
\* UUIDs, the offsets, an index for each, and padding to four.
SignedAt(pos) == pos + 3 <= Len(Data) /\ Taken(pos, 3) = Run("sig", 0, 3)
ReadBacktrace ==
  /\ estep = "backtrace"
  /\ LET there  == entry.trace # <<>> /\ (Has("context") \/ SignedAt(cursor))
         frames == entry.trace[1].frames
         counts == cursor + (IF SignedAt(cursor) THEN 3 ELSE 0)
     IN  IF there
         THEN /\ cursor' = counts + 3 + 16 * entry.trace[1].images + 5 * frames + Padding4(frames)
              /\ backtrace' = [k \in 1 .. frames |->
                                 Taken(counts + 3 + 16 * entry.trace[1].images + 4 * (k - 1), 4)]
         ELSE UNCHANGED <<cursor, backtrace>>
  /\ estep' = "pool"
  /\ UNCHANGED <<entry, fields, raw>>

\* _extract_string, or base64 of the bytes; the pool is consumed in the order of the items.
\* An item of no bytes is an empty string and takes nothing; when the pool is exhausted the
\* items after it stay empty.
FromPool(s, it) ==
  CASE s.dry \/ it.cls \in {"number", "privnumber", "precision", "other"} -> [s EXCEPT !.raw = Append(@, it)]
    [] ~s.dry /\ it.cls \in Hidden \cup {"sensitive"} ->
         [s EXCEPT !.raw = Append(@, [it EXCEPT !.text = Redacted])]
    [] ~s.dry /\ it.cls = "object" /\ it.size = 0 ->
         [s EXCEPT !.raw = Append(@, [it EXCEPT !.text = << <<"(null)", 0>> >>])]
    [] ~s.dry /\ it.cls \in Pooled /\ it.size = 0 /\ it.cls # "object" -> [s EXCEPT !.raw = Append(@, it)]
    [] ~s.dry /\ it.cls \in Pooled /\ it.size > 0 ->
         LET n == IF it.size <= Len(Data) - s.pos THEN it.size ELSE Len(Data) - s.pos
         IN  IF n <= 0 THEN [s EXCEPT !.raw = Append(@, it), !.dry = TRUE]
             ELSE [s EXCEPT !.raw = Append(@, [it EXCEPT !.text = Taken(s.pos, n)]), !.pos = @ + n]

ReadPool ==
  /\ estep = "pool"
  /\ LET end == FoldLeft(FromPool, [pos |-> cursor, raw |-> <<>>, dry |-> FALSE], raw)
     IN  raw' = end.raw /\ cursor' = end.pos
  /\ estep' = "private"
  /\ UNCHANGED <<entry, fields, backtrace>>

------------------------------------------------------------------------------
\* The private strings.

\* _locate_private_data: leading zeros are padding, unless the block is collapsed.
Stripped(b) ==
  LET k == SelectInSeq(b, LAMBDA x : x[1] # "zero") IN IF k = 0 THEN b ELSE SubSeq(b, k, Len(b))
PrivateInput == IF entry.collapsed THEN PrivateSection ELSE Stripped(PrivateSection)

\* parse_private_items: strings and numbers take their size; a string of no bytes and a
\* number of size 0x8000 are redacted.
FromPrivate(s, it) ==
  LET rest == Len(s.bytes) - s.pos
      n == IF it.cls = "privbytes" /\ it.size > rest THEN rest ELSE it.size
      Put(t, adv) == [s EXCEPT !.raw = Append(@, [it EXCEPT !.text = t]), !.pos = @ + adv]
  IN  CASE it.cls = "privbytes" /\ n <= 0            -> [s EXCEPT !.raw = Append(@, it)]
        [] it.cls = "privstring" /\ it.size = 0      -> Put(Redacted, 0)
        [] it.cls = "privnumber" /\ it.size = 100    -> Put(Redacted, 0)
        [] it.cls = "privnumber" /\ it.size < 100 /\ it.size > rest -> [s EXCEPT !.raw = Append(@, it)]
        [] it.cls \in Hidden /\ n > 0 ->
             Put(SubSeq(s.bytes, s.pos + 1, IF n <= rest THEN s.pos + n ELSE Len(s.bytes)), n)
        [] it.cls = "privnumber" /\ it.size <= rest  -> Put(Number(SubSeq(s.bytes, s.pos + 1, s.pos + n)), n)
        [] it.cls \notin Hidden \cup {"privnumber"}  -> [s EXCEPT !.raw = Append(@, it)]

\* _private_strings_ref: a signpost has its own reference, every other type the log's.
RefersToPrivate == entry.act \in {"log", "signpost"} /\ Has("private") /\ "private" \in DOMAIN fields

\* _apply_private_data: from the offset the entry gives, when that lies in the section.
ApplyPrivate ==
  /\ estep = "private"
  /\ raw' = IF RefersToPrivate /\ entry.before < Len(PrivateInput)
            THEN FoldLeft(FromPrivate, [bytes |-> PrivateInput, pos |-> entry.before, raw |-> <<>>], raw).raw
            ELSE raw
  /\ estep' = "parsed"
  /\ UNCHANGED <<entry, cursor, fields, backtrace>>

ItemsInit ==
  /\ entry \in Pieces
  /\ estep = "fields" /\ cursor = 0 /\ fields = <<>> /\ raw = <<>> /\ backtrace = <<>>

ItemsNext ==
  ParseFields \/ ParseTrace \/ ReadHeaders \/ NoItems \/ ReadBacktrace \/ ReadPool \/ ApplyPrivate

------------------------------------------------------------------------------
\* The bytes of the entry that belong to a field or an item, wherever they are.
BytesOf(seq, of, k) == SelectSeq(seq, LAMBDA b : b = <<of, k>>)

\* Each field the flags announce is taken from its own bytes, and nothing else is taken.
FieldsAreTheirBytes ==
  estep # "fields" =>
    /\ DOMAIN fields = { Present(entry)[i][1] : i \in DOMAIN Present(entry) }
    /\ \A f \in DOMAIN fields : fields[f] = BytesOf(Data, f, 0)

\* Each item has its own value: the number behind its header, its part of the string pool
\* (what is left of it when the pool is cut short), its part of the private section if it
\* refers to one, whatever stands between, before and after.
ItemsExpected(k) ==
  LET it == entry.items[k]
      secret == BytesOf(PrivateSection, "secret", k)
      open == RefersToPrivate /\ PrivateSection # <<>> /\ entry.before < Len(PrivateInput)
      pooled == BytesOf(Data, "text", k)
  IN  CASE entry.act = "trace"      -> BytesOf(Data, "body", k)
        [] entry.act # "trace" /\ it.cls = "number" -> Number(BytesOf(Data, "body", k))
        [] it.cls = "object" /\ it.size = 0 -> << <<"(null)", 0>> >>
        [] it.cls \in Pooled /\ (it.cls # "object" \/ it.size > 0) -> pooled
        [] it.cls = "sensitive"     -> Redacted
        [] it.cls \in Hidden        -> IF open /\ it.size > 0 THEN secret ELSE Redacted
        [] it.cls = "privnumber"    -> IF ~open THEN <<>>
                                       ELSE IF it.size = 100 THEN Redacted ELSE Number(secret)
        [] it.cls = "precision"     -> <<>>

\* Where the pool runs out, the items after that place are left as they are.
PoolWhole == entry.cut = 0
ItemsAreTheirOwn ==
  estep = "parsed" =>
    IF entry.act # "trace" /\ Len(Data) - cursor < 6 /\ raw = <<>> THEN TRUE
    ELSE /\ Len(raw) = Len(entry.items)
         /\ \A k \in DOMAIN raw :
              PoolWhole \/ entry.items[k].cls \in Pooled \cup {"number"} => raw[k].text = ItemsExpected(k)
         /\ entry.trace # <<>> => Len(backtrace) = entry.trace[1].frames
         /\ \A k \in DOMAIN backtrace : backtrace[k] = Run("offset", 0, 4)

ItemsAreSound == FieldsAreTheirBytes /\ ItemsAreTheirOwn
=============================================================================
