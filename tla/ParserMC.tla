------------------------------ MODULE ParserMC ------------------------------
(***************************************************************************)
(* The parser on small archives, the pool of workers that runs it file by  *)
(* file, the writer that stores what it finds, and the comparison of what  *)
(* is stored with Apple's own reading.  The parts do not share state: one  *)
(* of them moves in a behaviour, the others stand at one initial state.    *)
(***************************************************************************)
EXTENDS Timeline, Chunks, Items, Strings, ParallelParse, BatchWriter, Compare, TLC

VARIABLE part
parser == <<part, timeline, chunks, items, strings, scheduler, writer, compare>>

\* Process names are only compared with each other.
NameSymmetry == Permutations(ProcessNames)

\* timesync files: boots of one, two and three files, in both orders of their names, cut
\* short or damaged at every kind of place; kernel times outside a signed integer.
TsItem(is, b, k, w, tb) == [is |-> is, boot |-> b, wall |-> w, timebase |-> tb, kernel |-> k]
TsBoot(b, w, tb) == TsItem("boot", b, 0, w, tb)
TsRec(k, w) == TsItem("record", "", k, w, "")
TsBad(is) == TsItem(is, "", 0, 0, "")
Mach(b, base, delta, dump) == [boot |-> b, base |-> base, delta |-> delta, dump |-> dump]
TwoTraces ==
  << << Mach("A", 0, 1, FALSE), Mach("A", 3, 1, FALSE), Mach("B", 2, 0, TRUE) >>,
     << Mach("A", 2, 2, FALSE), Mach("B", 1, 0, FALSE), Mach("C", 1, 1, FALSE), Mach("A", 1, 8, FALSE) >> >>
Ts1 == << TsBoot("A", 100, "1/1"), TsRec(2, 112), TsRec(6, 115) >>
Ts2 == << TsRec(1, 7), TsBoot("A", 90, "125/3"), TsRec(8, 121), TsBoot("B", 50, "125/3"), TsRec(2, 38) >>
Ts3 == << TsBoot("B", 60, "1/1"), TsRec(1, 59), TsBad("bad"), TsBoot("A", 1, "1/1") >>
Ts4 == << TsBoot("A", 100, "125/3"), TsRec(6, 119), TsRec(3, 118), TsBad("tail") >>
Ts5 == << TsBoot("C", 10, "1/1"), TsRec(1, 19), TsRec(99, 20) >>
Ts6 == << TsBad("bad") >>
Ts7 == << TsBoot("A", 100, "1/1"), TsRec(2, 112), TsBoot("A", 5, "1/1"), TsRec(4, 111), TsBad("bad") >>
Archives9 ==
  { [timesync |-> t, tracev3 |-> TwoTraces] :
      t \in { <<Ts1, Ts2>>, <<Ts2, Ts1>>, <<Ts3, Ts1>>, <<Ts3, Ts2>>, <<Ts4, Ts3>>, <<Ts5, Ts1>>,
              <<Ts6, Ts1, Ts3>>, <<Ts7, Ts2>>, <<Ts7, Ts3, Ts1>>, <<>> } }

\* Trees of tracev3 files: two boots that reuse a data reference, a process listed twice,
\* chunks of every kind, each cut or damaged in one place.
Hd(b, w) == [is |-> "header", boot |-> b, whole |-> w]
Listed(k, p, u, m, subs) == [key |-> k, pid |-> p, euid |-> u, main |-> m, subsystems |-> subs]
Subsystem(i, n) == [id |-> i, name |-> n]
Ct(w, us, ps) == [is |-> "catalog", whole |-> w, uuids |-> us, procs |-> ps]
CsOf(coding, claim, subs) == [is |-> "chunkset", whole |-> TRUE, coding |-> coding, claim |-> claim, subs |-> subs]
K1 == <<1, 1>>
K2 == <<2, 1>>
En(act, sub, ref, w, t) == [act |-> act, sub |-> sub, ref |-> ref, whole |-> w, text |-> t]
Sub(is, w, k, ref, t, es) ==
  [is |-> is, whole |-> w, key |-> k, ref |-> ref, text |-> t, entries |-> es, coded |-> "text", own |-> "net", dsc |-> "D9"]
Fh(w, k, es) == Sub("firehose", w, k, 0, "", es)
Ov(w, k, r, t) == Sub("oversize", w, k, r, t, <<>>)
Dp(w, k, t) == Sub("simpledump", w, k, 0, t, <<>>)
State(coded, k, t) == [Sub("statedump", TRUE, k, 0, t, <<>>) EXCEPT !.coded = coded]
Sk(is) == Sub(is, TRUE, K1, 0, "", <<>>)
CatA == Ct(TRUE, << "U0", "U1" >>,
           << Listed(K1, 11, 0, 1, <<>>), Listed(K2, 12, 501, 0, << Subsystem(3, "com.b"), Subsystem(4, "com.c") >>),
              Listed(K1, 13, 0, 5, << Subsystem(3, "com.a") >>) >>)
CatB == Ct(TRUE, << "U2" >>, << Listed(K2, 22, 0, 0, << Subsystem(4, "com.d") >>) >>)
Set1 ==
  CsOf("bv41", "fits",
    << Fh(TRUE, K1, << En("log", 3, 0, TRUE, "a"), En("log", 4, 7, TRUE, "b"), En("log", 0, 0, FALSE, "x"),
                       En("signpost", 3, 7, TRUE, "c"), En("alien", 0, 0, TRUE, "q"), En("log", 0, 0, TRUE, "never") >>),
       Sk("padding"), Fh(FALSE, K2, <<>>), Dp(TRUE, K2, "d"), Sk("unknown"), Dp(FALSE, K1, "-"),
       State("protobuf", K1, "p"), State("plist", K2, ""), Sk("cut"), Dp(TRUE, K1, "never") >>)
Set2 == CsOf("bv4-", "fits",
    << Ov(TRUE, K1, 7, "big1"), Fh(TRUE, K2, << En("loss", 0, 7, TRUE, "l"), En("truncated", 0, 0, TRUE, "") >>),
       Ov(FALSE, K1, 7, "bad") >>)
Set3 == CsOf("bv41", "fits", << Ov(TRUE, K1, 7, "big2"), Fh(TRUE, K1, << En("log", 4, 7, TRUE, "z") >>),
                                Fh(TRUE, K2, << En("log", 4, 7, TRUE, "y") >>) >>)
FA == << Hd("A", TRUE), CsOf("bv41", "fits", << Dp(TRUE, K1, "early") >>), CatA, Set1, Hd("", FALSE),
         Ct(FALSE, <<>>, <<>>), [is |-> "other", whole |-> TRUE], Set2 >>
FB == << Hd("B", TRUE), CatB, CsOf("bv41", "cap", <<>>), Set3, CsOf("bv4-", "short", << Dp(TRUE, K1, "n") >>), Set1 >>
FC == << CatA, Set1, [is |-> "cut", whole |-> FALSE], Set2 >>
FD == << Hd("D", FALSE), CatB, CsOf("zzzz", "fits", <<>>), CsOf("bv41", "ratio", <<>>), Set2, CsOf("bv41", "short", <<>>) >>
Tv(d, p, x, c) == [dir |-> d, path |-> p, double |-> x, chunks |-> c]
Trees5 ==
  { { Tv("Special", 1, FALSE, FA), Tv("Persist", 3, FALSE, FB), Tv("Persist", 2, TRUE, FC) },
    { Tv("Persist", 1, FALSE, FC), Tv("Persist", 3, FALSE, FA), Tv("other", 0, FALSE, FB) },
    { Tv("Signpost", 1, FALSE, FD), Tv("Special", 9, FALSE, FA) }, {} }

\* Entries: every set of flags on every place for two plain items, and a list of all kinds
\* of items, their strings and private strings whole or cut, with a backtrace or without.
It(c, n) == [cls |-> c, size |-> n]
Piece(a, l, f, p, its, bt, cut, pad, before, col) ==
  [act |-> a, level |-> l, flags |-> f, place |-> p, items |-> its, trace |-> bt, cut |-> cut,
   pad |-> pad, before |-> before, collapsed |-> col]
Mixed ==
  << It("string", 3), It("number", 4), It("privstring", 2), It("precision", 4), It("object", 0),
     It("arbitrary", 2), It("privnumber", 4), It("string", 0), It("number", 3), It("object", 2),
     It("privbytes", 3), It("sensitive", 2), It("privnumber", 100), It("privstring", 0), It("string", 1) >>
Plain == << It("number", 4), It("string", 2) >>
Bt == << [sig |-> TRUE, images |-> 1, frames |-> 2] >>
BtBare == << [sig |-> FALSE, images |-> 2, frames |-> 3] >>
FlagsOf(a) ==
  CASE a = "log"      -> SUBSET {"current_aid", "private", "0x200", "rules", "oversize", "large"}
    [] a = "signpost" -> SUBSET {"current_aid", "private", "0x200", "rules", "name", "large"}
    [] a = "activity" -> SUBSET {"current_aid", "unique_pid", "0x200", "large"}
Levels(a) == IF a = "activity" THEN {"info", "useraction"} ELSE {"info"}
Pieces9 ==
  UNION { { Piece(a, l, f, p, Plain, <<>>, 0, 0, 0, FALSE) :
              l \in Levels(a), f \in FlagsOf(a),
              p \in {"main", "cache", "bigcache", "absolute", "uuid", "none"} } : a \in {"log", "activity", "signpost"} }
  \cup { Piece(a, "info", f \cup {"rules"}, "cache", Mixed, bt, cut, pad, b, FALSE) :
           a \in {"log", "signpost"}, f \in {{}, {"private"}}, bt \in {<<>>, Bt}, cut \in 0 .. 4,
           pad \in {0, 2}, b \in {0, 3} }
  \cup { Piece("log", "info", {"context", "private"}, "main", Mixed, bt, 0, 0, 0, TRUE) : bt \in {Bt, BtBare} }
  \cup { Piece("loss", "info", {}, "none", <<>>, <<>>, 0, 0, 0, FALSE),
         Piece("log", "info", {}, "main", <<>>, <<>>, 0, 0, 0, FALSE),
         Piece("trace", "info", {}, "none", << It("number", 4), It("number", 8), It("number", 1), It("number", 2) >>,
               <<>>, 0, 0, 0, FALSE) }

\* String tables: a uuid twice and a damaged file, ranges that overlap or overshoot; entries
\* that find their string in each way, twice at one offset so that the memo is asked.
Lit(t) == <<"lit", t, "">>
Sp(c, d) == <<"spec", c, d>>
Text(t) == [cls |-> "string", text |-> <<Lit(t)>>, n |-> 0]
Num(n) == [cls |-> "number", text |-> <<>>, n |-> n]
Length == [cls |-> "precision", text |-> <<>>, n |-> 0]
Secret == [cls |-> "string", text |-> Redacted2, n |-> 0]
Fmt1 == << Lit("a="), Sp("d", ""), <<"pct", "", "">>, Sp("s", "") >>
Fmt2 == << Sp("s", ""), Lit("!"), Sp("d", "bool"), Sp("x", "what") >>
Fmt3 == << Sp("p", "in_addr"), Sp("u", "") >>
Table(path, u, w, rs, pool, ps) ==
  [path |-> path, uuid |-> u, whole |-> w, double |-> FALSE, ranges |-> rs, pool |-> pool, paths |-> ps]
Rg(s, n, d, im) == [start |-> s, size |-> n, data |-> d, image |-> im]
U1 == Table(1, "M", TRUE, << Rg(2, 2, 0, 0), Rg(6, 1, 0, 0) >>, << Fmt1, Fmt2, Fmt3, <<Lit("/bin/m")>> >>, <<>>)
U2 == Table(2, "L", TRUE, << Rg(2, 1, 0, 0), Rg(3, 9, 0, 0) >>, << Fmt2, Fmt1 >>, <<>>)
U3 == Table(3, "M", TRUE, << Rg(2, 1, 0, 0) >>, << Fmt3, <<Lit("/bin/other")>> >>, <<>>)
U4 == Table(4, "L", FALSE, <<>>, <<>>, <<>>)
D1 == Table(5, "D", TRUE, << Rg(32, 3, 2, 2), Rg(0, 2, 0, 1), Rg(9, 2, 4, 7), Rg(3, 4, 4, 1) >>,
            << Fmt1, Fmt3, Fmt2, Fmt1, Fmt3, Fmt2 >>, << <<Lit("/lib/one")>>, <<Lit("/lib/two")>> >>)
D2 == Table(6, "D", TRUE, << Rg(0, 2, 0, 1) >>, << Fmt2, Fmt2 >>, << <<Lit("/lib/three")>> >>)
Runs == [main |-> "M", dsc |-> "D",
         images |-> << [uuid |-> "L", load |-> 20, size |-> 4], [uuid |-> "M", load |-> 24, size |-> 4] >>]
Ent(p, offset, u, large, big, alt, pc, its) ==
  [place |-> p, offset |-> offset, uuid |-> u, large |-> large, bigcache |-> big, alt |-> alt, pc |-> pc, items |-> its]
Two == << Num(7), Text("x") >>
EntsA ==
  << Ent("main", 2, "", 0, 0, 0, 0, Two), Ent("main", 3, "", 0, 0, 0, 0, << Text("q"), Num(-1) >>),
     Ent("uuid", 2, "L", 0, 0, 0, 0, Two), Ent("uuid", 3, "L", 0, 0, 0, 0, << Secret, Num(2) >>),
     Ent("absolute", 2, "", 0, 0, 1, 6, Two) >>
EntsB ==
  << Ent("cache", 1, "", 0, 0, 0, 0, << Num(-1), Num(-3) >>), Ent("bigcache", 1, "", 2, 4, 0, 0, << Num(-1), Num(5) >>),
     Ent("cache", 1, "", 2, 4, 0, 0, Two), Ent("bigcache", 1, "", 3, 4, 0, 0, Two),
     Ent("main", 6, "", 0, 0, 0, 0, << Length, Num(3), Text("y") >>) >>
EntsC ==
  << Ent("main", 8, "", 0, 0, 0, 0, << [cls |-> "string", text |-> << Lit("100"), Sp("d", "") >>, n |-> 0] >>),
     Ent("cache", 4, "", 0, 0, 0, 0, Two), Ent("absolute", 2, "", 0, 0, 1, 8, Two),
     Ent("none", 1, "", 0, 0, 0, 0, <<>>), Ent("main", 2, "", 0, 0, 0, 0, << Length, Text("z"), Num(1) >>) >>
Shelves6 ==
  { [uuidtexts |-> us, dscs |-> ds, process |-> Runs, entries |-> es] :
      us \in { <<U1, U2>>, <<U1, U4, U3>> }, ds \in { <<D1, D2>>, <<D2, D1>>, <<>> }, es \in { EntsA, EntsB, EntsC } }

\* References of up to three entries of Apple's tool in the forms it prints them, or a line
\* that is no JSON; databases of up to two rows.
IntOf(n) == [form |-> "int", n |-> n]
Digits(n) == [form |-> "digits", n |-> n]
Dashed(b) == [boot |-> b, dashed |-> TRUE]
Bare(b) == [boot |-> b, dashed |-> FALSE]
Msg(t, v) == [text |-> t, variant |-> v]
Path(p, u) == [path |-> p, uuid |-> u]
Clock(f, us) == [form |-> f, us |-> us]
RefLine(ev, b, m, t, msg, p, clk) ==
  [json |-> TRUE, event |-> ev, boot |-> b, mach |-> m, tid |-> t, pid |-> IntOf(1), message |-> msg,
   format |-> "f", process |-> p, time |-> clk]
AState == RefLine("stateEvent", Dashed(1), IntOf(1), IntOf(0), Msg("a", 1), Path("p", Nothing), Clock("T", 5))
RefLines ==
  { RefLine("logEvent", Dashed(1), Digits(1), [form |-> "absent", n |-> 9], Msg("a", 1), Path("p", Nothing), Clock("T", 5)),
    RefLine("userActionEvent", Dashed(1), IntOf(1), IntOf(0), Msg("b", 1), Path(Nothing, "u"), Clock("other", 5)),
    RefLine("lossEvent", Dashed(2), IntOf(0), IntOf(1), Msg("a", 2), Path(Nothing, Nothing), Clock("space", 9)),
    RefLine("logEvent", Dashed(1), IntOf(2), IntOf(1), Msg("a", 1), Path("p", "u"), Clock("space, whole", 7)), AState }
NoJson == [AState EXCEPT !.event = "logEvent", !.json = FALSE]
References3 == SeqOf(RefLines, 3) \cup { <<NoJson, l>> : l \in RefLines }
DbRow(b, m, t, msg, ns, ev) ==
  [boot |-> b, mach |-> m, tid |-> t, event_type |-> ev, pid |-> Nothing, message |-> msg, format |-> "f", ns |-> ns]
Databases2 ==
  SeqOf({ DbRow(Bare(1), 1, Nothing, Msg("a", 2), 6000, "logEvent"),
          DbRow(Dashed(1), 1, 0, Msg("a", 1), Nothing, "logEvent"),
          DbRow(Bare(1), 1, 0 - 1, Msg("a", 1), 6000, "logEvent"),
          DbRow(Bare(2), 0, 1, Msg("b", 1), 5000, "lossEvent") }, 2)

Still(p) == part # p
ArchiveAtRest == CHOOSE a \in Archives9 : TRUE
TracesAtRest  == CHOOSE t \in Trees5 : TRUE
EntryAtRest   == Piece("loss", "info", {}, "none", <<>>, <<>>, 0, 0, 0, FALSE)
ShelfAtRest   == CHOOSE s \in Shelves6 : TRUE

Init ==
  /\ part \in {"timeline", "chunks", "items", "strings", "pool", "writer", "compare"}
  /\ TimelineInit /\ (Still("timeline") => archive = ArchiveAtRest)
  /\ ChunksInit   /\ (Still("chunks") => traces = FindTracev3Files(TracesAtRest))
  /\ ItemsInit    /\ (Still("items") => entry = EntryAtRest)
  /\ StringsInit  /\ (Still("strings") => shelf = ShelfAtRest)
  /\ PoolInit
  /\ WriterInit   /\ (Still("writer") => ~parallel)
  /\ CompareInit  /\ (Still("compare") => reference = <<>> /\ database = <<>>)

Next ==
  /\ UNCHANGED part
  /\ \/ part = "timeline" /\ TimelineNext
        /\ UNCHANGED <<chunks, items, strings, scheduler, writer, compare>>
     \/ part = "chunks" /\ ChunksNext
        /\ UNCHANGED <<timeline, items, strings, scheduler, writer, compare>>
     \/ part = "items" /\ ItemsNext
        /\ UNCHANGED <<timeline, chunks, strings, scheduler, writer, compare>>
     \/ part = "strings" /\ StringsNext
        /\ UNCHANGED <<timeline, chunks, items, scheduler, writer, compare>>
     \/ part = "pool" /\ PoolNext
        /\ UNCHANGED <<timeline, chunks, items, strings, writer, compare>>
     \/ part = "writer" /\ WriterNext
        /\ UNCHANGED <<timeline, chunks, items, strings, scheduler, compare>>
     \/ part = "compare" /\ CompareNext
        /\ UNCHANGED <<timeline, chunks, items, strings, scheduler, writer>>

Spec == Init /\ [][Next]_parser

\* With the scheduling the pool of workers is promised: its own behaviours are the fair ones.
FairSpec == Spec /\ Scheduling
=============================================================================
