--------------------------- MODULE AnalysisProofs ---------------------------
(***************************************************************************)
(* Proofs about what is done with an analysis database and the knowledge   *)
(* base it is read against, for any rows, signatures, drafts and bounds.   *)
(***************************************************************************)
EXTENDS AnalysisMC, ListingProofs, FiniteSetTheorems, SequenceTheorems, TLAPS

-----------------------------------------------------------------------------
(* The knowledge base *)

\* The write in progress: its file is the only difference to the directory before it.
WriteInProgress ==
  kpc # "rest" => /\ writes > 0 /\ ~lastOk /\ before[draft.id] = NoFile
                  /\ files[draft.id] = {Rendered(draft)}
                  /\ \A n \in Names \ {draft.id} : files[n] = before[n]

\* Between writes: what a call that nothing killed left behind is what was there, or loads.
WriteIsOver ==
  /\ kpc = "rest" /\ writes > 0 /\ ~killed =>
       (\A n \in Names : files[n] = before[n]) \/ Loads(files)
  /\ kpc = "rest" /\ lastOk =>
       writes > 0 /\ files[draft.id] = {Rendered(draft)} /\ Loads(files)

KbInv == KbTypeOK /\ WriteInProgress /\ WriteIsOver

\* Loading depends on nothing but the files.
LEMMA SameFilesLoad ==
  ASSUME NEW f, NEW g, \A n \in Names : f[n] = g[n]
  PROVE  Loads(f) <=> Loads(g)
<1>1. Contents(f) = Contents(g)
  BY DEF Contents
<1>2. AllSigs(f) = AllSigs(g)
  BY DEF AllSigs
<1> QED
  BY <1>1, <1>2 DEF Loads

LEMMA KbStep == KbInv /\ [KbNext]_kb => KbInv'
<1> SUFFICES ASSUME KbInv, [KbNext]_kb PROVE KbInv'
  OBVIOUS
<1>1. ASSUME NEW d \in Drafts, WriteText(d)
      PROVE  KbInv'
  <2>1. d.id \in Names /\ DOMAIN files = Names /\ writes \in 0..MaxWrites /\ MaxWrites \in Nat
    BY KbAssumption DEF KbInv, KbTypeOK
  <2>2. KbTypeOK'
    <3>1. lastOk' \in BOOLEAN /\ killed' \in BOOLEAN /\ kpc' = "written"
      BY <1>1 DEF KbInv, KbTypeOK, WriteText
    <3>2. writes' \in 0..MaxWrites
      BY <1>1, <2>1 DEF WriteText
    <3>3. DOMAIN files' = Names /\ DOMAIN before' = Names /\ draft' \in Drafts /\ report' = report
      BY <1>1, <2>1 DEF WriteText
    <3> QED
      BY <3>1, <3>2, <3>3 DEF KbInv, KbTypeOK
  <2>3. WriteInProgress'
    BY <1>1, <2>1 DEF WriteInProgress, WriteText
  <2>4. WriteIsOver'
    BY <1>1 DEF WriteIsOver, WriteText
  <2> QED
    BY <2>2, <2>3, <2>4 DEF KbInv
<1>2. ASSUME NEW d \in Drafts, WriteBreaks(d)
      PROVE  KbInv'
  <2>1. d.id \in Names /\ DOMAIN files = Names /\ writes \in 0..MaxWrites /\ MaxWrites \in Nat
    BY KbAssumption DEF KbInv, KbTypeOK
  <2>2. KbTypeOK'
    <3>1. lastOk' \in BOOLEAN /\ killed' \in BOOLEAN /\ kpc' = "rest"
      BY <1>2 DEF WriteBreaks
    <3>2. writes' \in 0..MaxWrites
      BY <1>2, <2>1 DEF WriteBreaks
    <3>3. DOMAIN files' = Names /\ DOMAIN before' = Names /\ draft' \in Drafts /\ report' = report
      BY <1>2, <2>1 DEF WriteBreaks
    <3> QED
      BY <3>1, <3>2, <3>3 DEF KbInv, KbTypeOK
  <2>3. WriteInProgress' /\ WriteIsOver'
    BY <1>2 DEF WriteInProgress, WriteIsOver, WriteBreaks
  <2> QED
    BY <2>2, <2>3 DEF KbInv
<1>3. CASE Reload
  <2>1. KbTypeOK'
    BY <1>3 DEF KbInv, KbTypeOK, Reload, Loads
  <2>2. WriteInProgress'
    BY <1>3 DEF KbInv, WriteInProgress, Reload
  <2>3. WriteIsOver'
    <3>1. Loads(files') <=> Loads(files)
      BY <1>3 DEF Reload
    <3>2. /\ files' = files /\ draft' = draft /\ writes' = writes
          /\ kpc' = "rest" => Loads(files)
          /\ writes > 0 /\ files[draft.id] = {Rendered(draft)}
      BY <1>3 DEF KbInv, WriteInProgress, Reload
    <3> QED
      BY <3>1, <3>2 DEF WriteIsOver
  <2> QED
    BY <2>1, <2>2, <2>3 DEF KbInv
<1>4. CASE Unlink
  <2>1. KbTypeOK'
    BY <1>4 DEF KbInv, KbTypeOK, Unlink
  <2>2. WriteInProgress'
    BY <1>4 DEF WriteInProgress, Unlink
  <2>3. draft.id \in Names /\ DOMAIN files = Names
    BY <1>4, KbAssumption DEF KbInv, KbTypeOK, WriteInProgress, Unlink
  <2>4. \A n \in Names : files'[n] = before'[n]
    BY <1>4, <2>3 DEF KbInv, WriteInProgress, Unlink
  <2>5. ~lastOk'
    BY <1>4 DEF KbInv, WriteInProgress, Unlink
  <2> QED
    BY <2>1, <2>2, <2>4, <2>5 DEF KbInv, WriteIsOver
<1>5. CASE KilledUnchecked
  <2>1. killed' = TRUE /\ lastOk' = FALSE /\ kpc' = "rest"
    BY <1>5 DEF KilledUnchecked
  <2>2. KbTypeOK'
    BY <1>5, <2>1 DEF KbInv, KbTypeOK, KilledUnchecked
  <2> QED
    BY <2>1, <2>2 DEF KbInv, WriteInProgress, WriteIsOver
<1>6. CASE Validate
  <2>1. /\ UNCHANGED <<files, before, kpc, draft, lastOk, killed, writes>>
        /\ report'[1] \in {"invalid", "warnings", "clean"}
    BY <1>6 DEF Validate
  <2>2. Loads(files') <=> Loads(files)
    BY <2>1
  <2> QED
    BY <2>1, <2>2 DEF KbInv, KbTypeOK, WriteInProgress, WriteIsOver
<1>7. CASE UNCHANGED kb
  <2>1. UNCHANGED <<files, before, kpc, draft, lastOk, killed, writes, report>>
    BY <1>7 DEF kb
  <2>2. Loads(files') <=> Loads(files)
    BY <2>1
  <2> QED
    BY <2>1, <2>2 DEF KbInv, KbTypeOK, WriteInProgress, WriteIsOver
<1> QED
  BY <1>1, <1>2, <1>3, <1>4, <1>5, <1>6, <1>7 DEF KbNext, Save

\* What YAML would change is refused by the loader, or is a last newline, or is a pattern
\* of several lines.
LEMMA LoadedIsDraft ==
  ASSUME NEW f, NEW d \in Drafts, f[d.id] = {Rendered(d)}, Loads(f)
  PROVE  LET s == Rendered(d)
         IN /\ s.id = d.id /\ s.action = d.action
            /\ s.process = d.process /\ s.tags = d.tags
            /\ d.description # "lines+" => s.description = d.description
            /\ d.regex # "lines" => s.regex = d.regex
<1> DEFINE s == Rendered(d)
<1>1. s \in AllSigs(f)
  BY KbAssumption DEF AllSigs
<1>2. "bool" \notin s.tags /\ s.process # "bool"
  BY <1>1 DEF Loads, SignatureIsValid, MatchIsValid
<1>3. s.process = BareRoundTrip(d.process) /\ s.tags = { BareRoundTrip(t) : t \in d.tags }
      /\ s.id = d.id /\ s.action = d.action /\ s.regex = PatternRoundTrip(d.regex)
      /\ s.description = TextRoundTrip(d.description)
  BY DEF Rendered
<1> HIDE DEF s
<1>4. s.process = d.process
  BY <1>2, <1>3 DEF BareRoundTrip
<1>5. \A t \in d.tags : BareRoundTrip(t) = t
  BY <1>2, <1>3 DEF BareRoundTrip
<1>6. s.tags = d.tags
  BY <1>3, <1>5
<1>7. /\ d.description # "lines+" => s.description = d.description
      /\ d.regex # "lines" => s.regex = d.regex
  BY <1>3 DEF TextRoundTrip, PatternRoundTrip
<1> QED
  BY <1>3, <1>4, <1>6, <1>7 DEF s

\* Whatever is drafted, refused, interrupted or validated: a knowledge base that loaded
\* before a write loads after it, and a write that returned has put the draft on disk as
\* it was submitted, but for a last newline of its description and for a pattern of several
\* lines (ops/knowledge_base/writer.py, dialog_signature.py).
THEOREM KnowledgeBaseIsSound == KbSpec => []KbIsSound
<1>1. KbInit => KbInv
  <2> SUFFICES ASSUME KbInit PROVE KbInv
    OBVIOUS
  <2>1. DOMAIN files = Names /\ before = files /\ kpc = "rest" /\ lastOk = FALSE
        /\ killed = FALSE /\ writes = 0 /\ report[1] = "clean" /\ MaxWrites \in Nat
    BY KbAssumption DEF KbInit
  <2>2. lastOk \in BOOLEAN /\ killed \in BOOLEAN
    BY DEF KbInit
  <2>5. writes \in 0..MaxWrites
    BY <2>1
  <2>3. KbTypeOK
    BY <2>1, <2>2, <2>5 DEF KbTypeOK
  <2>4. WriteInProgress /\ WriteIsOver
    BY <2>1 DEF WriteInProgress, WriteIsOver
  <2> QED
    BY <2>3, <2>4 DEF KbInv
<1>2. KbInv => KbIsSound
  <2> SUFFICES ASSUME KbInv PROVE KbIsSound
    OBVIOUS
  <2>1. NoInvalidLeft
    BY SameFilesLoad DEF KbInv, WriteIsOver, NoInvalidLeft
  <2>2. WrittenIsDraft
    <3> SUFFICES ASSUME kpc = "rest", lastOk
                 PROVE  \E s \in files[draft.id] :
                          /\ s.id = draft.id /\ s.action = draft.action
                          /\ s.process = draft.process /\ s.tags = draft.tags
                          /\ draft.description # "lines+" => s.description = draft.description
                          /\ draft.regex # "lines" => s.regex = draft.regex
      BY DEF WrittenIsDraft
    <3>1. draft \in Drafts /\ files[draft.id] = {Rendered(draft)} /\ Loads(files)
      BY DEF KbInv, KbTypeOK, WriteIsOver
    <3> QED
      BY <3>1, LoadedIsDraft
  <2> QED
    BY <2>1, <2>2 DEF KbInv, KbIsSound
<1> QED
  BY <1>1, <1>2, KbStep, PTL DEF KbSpec

-----------------------------------------------------------------------------
(* The comparison of two acquisitions *)

BeforeWaiting == {"connect", "confirm", "t0", "still", "baseline"}
AfterAction   == {"close", "extractBaseline", "extractAction"}
Comparing     == {"annotate", "diff", "scan"}

\* What the operator caused and the second collection is due to find: everything, unless
\* the host's clock is ahead of the device's.
Due == { i \in acted : skew <= 0 \/ events[i].at >= window }

\* Each event the operator caused is one of the log, inside the second window unless the
\* host's clock is ahead.
ActedInWindow ==
  /\ events \in Seq([key : Keys \cup {Nothing}, at : 0..MaxClock, resolved : BOOLEAN])
  /\ acted \subseteq DOMAIN events /\ (ipc \in BeforeWaiting => acted = {})
  /\ skew <= 0 => window <= clock /\ \A i \in acted : events[i].at >= window

\* Both databases are there, and what the operator caused is in the second.
BothThere == /\ dbs["baseline"] \subseteq DOMAIN events /\ dbs["action"] \subseteq DOMAIN events
             /\ Due \subseteq dbs["action"]

\* What the operator caused is carried from the device to the archive to the database.
ActedIsCarried ==
  /\ DOMAIN archives = Labelled /\ DOMAIN dbs = Labelled
  /\ ipc \in {"wait", "action"} \cup AfterAction => archives["baseline"] \subseteq DOMAIN events
  /\ ipc \in AfterAction => Due \subseteq archives["action"]
                            /\ archives["action"] \subseteq DOMAIN events
  /\ ipc = "extractAction" => dbs["baseline"] \subseteq DOMAIN events
  /\ ipc \in Comparing => BothThere
  /\ ipc \notin Comparing \cup {"over"} => dbs["action"] = Nothing
  /\ ipc = "over" => dbs["action"] = Nothing \/ BothThere

Retained(rows) == { i \in rows : ~IsNoise(i) }
SetAside(rows) == { i \in rows : IsNoise(i) }
Classified(rows) == [kept |-> Retained(rows), noise |-> SetAside(rows)]

\* What is committed is nothing or everything; what is not yet is what was looked at.
ResultIsWhole ==
  /\ out = Nothing \/ out = Empty \/ out = Classified(Newer)
  /\ returned => ipc \in {"over", "diff"} /\ BothThere /\ out = Classified(Newer)
  /\ ipc \notin {"diff", "scan", "over"} => out = Nothing
  /\ ipc = "scan" => scanned \subseteq Newer /\ pending = Classified(scanned)

IdentifyInv == IdentifyTypeOK /\ ActedInWindow /\ ActedIsCarried /\ ResultIsWhole

LEMMA SecondIsBefore ==
  ASSUME NEW t \in Int
  PROVE  SecondOf(t) \in Int /\ SecondOf(t) <= t
<1>0. Second \in Nat \ {0}
  BY IdentifyAssumption
<1>1. t % Second \in 0..(Second - 1)
  BY <1>0
<1> QED
  BY <1>1 DEF SecondOf

\* The host's second is an integer, not past the device's clock unless the host is ahead.
LEMMA NowIsBefore ==
  ASSUME IdentifyInv
  PROVE  Now \in Int /\ (skew <= 0 => Now <= clock)
<1>1. clock \in Nat /\ skew \in Int
  BY IdentifyAssumption DEF IdentifyInv, IdentifyTypeOK
<1>2. SecondOf(clock + skew) \in Int /\ SecondOf(clock + skew) <= clock + skew
  BY <1>1, SecondIsBefore
<1> QED
  BY <1>1, <1>2 DEF Now

\* The comparison of the same databases over the same log is the same.
LEMMA SameComparison ==
  ASSUME events' = events, dbs' = dbs
  PROVE  /\ Newer' = Newer
         /\ \A S : Classified(S)' = Classified(S)
<1>1. \A i : IsNoise(i)' <=> IsNoise(i)
  BY DEF IsNoise, BaselineKeys
<1>2. Newer' = Newer
  BY DEF Newer, Cutoff, Resolved
<1> QED
  BY <1>1, <1>2 DEF Classified, Retained, SetAside

\* What is logged has its place and its time.
LEMMA LoggedEvents ==
  ASSUME IdentifyInv
  PROVE  /\ DOMAIN events \subseteq Row
         /\ \A i \in DOMAIN events : events[i].key \in Keys \cup {Nothing}
                                     /\ events[i].at \in 0..MaxClock
<1> DEFINE Event == [key : Keys \cup {Nothing}, at : 0..MaxClock, resolved : BOOLEAN]
<1>1. events \in Seq(Event) /\ Len(events) \in 0..MaxEvents /\ MaxEvents \in Nat
  BY IdentifyAssumption DEF IdentifyInv, ActedInWindow, IdentifyTypeOK
<1>2. DOMAIN events = 1..Len(events)
  BY <1>1, LenProperties
<1>3. ASSUME NEW i \in DOMAIN events PROVE events[i] \in Event
  BY <1>1, <1>2, ElementOfSeq
<1> QED
  BY <1>1, <1>2, <1>3 DEF Row

\* The device ticks or logs: what is already there stays as it is.
LEMMA DeviceStep ==
  ASSUME IdentifyInv, Tick \/ \E k \in Keys \cup {Nothing}, r \in BOOLEAN : Emit(k, r)
  PROVE  IdentifyInv'
<1>0. MaxClock \in Nat /\ MaxEvents \in Nat
  BY IdentifyAssumption
<1>1. ipc \in {"t0", "baseline", "wait", "action"} /\ UNCHANGED <<skew, ipc, lockdown, window,
        archives, dbs, known, outputs>>
  BY DEF Tick, Emit, Logging
<1>2. out = Nothing /\ ~returned
  BY <1>1 DEF IdentifyInv, ResultIsWhole
<1>3. /\ clock \in 0..MaxClock /\ window \in Int /\ skew \in Int
      /\ Len(events) \in 0..MaxEvents
      /\ events \in Seq([key : Keys \cup {Nothing}, at : 0..MaxClock, resolved : BOOLEAN])
      /\ acted \subseteq DOMAIN events /\ DOMAIN events = 1..Len(events)
      /\ skew <= 0 => window <= clock /\ \A i \in acted : events[i].at >= window
  BY LenProperties, IdentifyAssumption DEF IdentifyInv, IdentifyTypeOK, ActedInWindow
<1> DEFINE Grown ==
      /\ clock' \in 0..MaxClock /\ Len(events') \in 0..MaxEvents
      /\ events' \in Seq([key : Keys \cup {Nothing}, at : 0..MaxClock, resolved : BOOLEAN])
      /\ DOMAIN events \subseteq DOMAIN events' /\ acted' \subseteq DOMAIN events'
      /\ skew <= 0 => window <= clock' /\ \A i \in acted' : events'[i].at >= window
      /\ ipc # "wait" => acted' = acted
      /\ acted' \subseteq Row
<1>4. Grown
  <2>1. CASE Tick
    <3>1. clock' = clock + 1 /\ clock < MaxClock /\ events' = events /\ acted' = acted
      BY <2>1 DEF Tick
    <3>2. clock' \in 0..MaxClock /\ (skew <= 0 => window <= clock')
      BY <1>0, <1>3, <3>1
    <3> QED
      BY <1>3, <3>1, <3>2 DEF Row, IdentifyInv, IdentifyTypeOK
  <2>2. ASSUME NEW k \in Keys \cup {Nothing}, NEW r \in BOOLEAN, Emit(k, r)
        PROVE  Grown
    <3> DEFINE e == [key |-> k, at |-> clock, resolved |-> r]
    <3>1. /\ events' = Append(events, e) /\ clock' = clock /\ Len(events) < MaxEvents
          /\ acted' = IF ipc = "wait" THEN acted \cup {Len(events) + 1} ELSE acted
      BY <2>2 DEF Emit
    <3>2. e \in [key : Keys \cup {Nothing}, at : 0..MaxClock, resolved : BOOLEAN] /\ e.at = clock
      BY <1>3
    <3> HIDE DEF e
    <3>3. /\ events' \in Seq([key : Keys \cup {Nothing}, at : 0..MaxClock, resolved : BOOLEAN])
          /\ Len(events') = Len(events) + 1 /\ events'[Len(events) + 1] = e
          /\ \A i \in 1..Len(events) : events'[i] = events[i]
      BY <1>3, <3>1, <3>2, AppendProperties
    <3>4. /\ DOMAIN events' = 1..(Len(events) + 1) /\ Len(events) + 1 \in 1..MaxEvents
      BY <1>0, <1>3, <3>1, <3>3, LenProperties
    <3> QED
      BY <1>0, <1>3, <3>1, <3>2, <3>3, <3>4 DEF Row, IdentifyInv, IdentifyTypeOK
  <2> HIDE DEF Grown
  <2> QED
    BY <2>1, <2>2
<1>5. IdentifyTypeOK'
  BY <1>1, <1>3, <1>4 DEF IdentifyInv, IdentifyTypeOK, outputs
<1>6. ActedInWindow'
  BY <1>1, <1>3, <1>4 DEF IdentifyInv, ActedInWindow, BeforeWaiting
<1>7. ActedIsCarried'
  BY <1>1, <1>4 DEF IdentifyInv, ActedIsCarried, AfterAction, Comparing
<1>8. ResultIsWhole'
  BY <1>1, <1>2 DEF ResultIsWhole, outputs
<1> QED
  BY <1>5, <1>6, <1>7, <1>8 DEF IdentifyInv

\* From the connection to the closed one: the archives take what is inside their windows.
LEMMA CollectStep ==
  ASSUME IdentifyInv,
         \/ Connect \/ GiveUp \/ Confirm \/ TakeT0 \/ StandStill \/ CollectBaseline
         \/ WaitForAction \/ CollectAction \/ Close
  PROVE  IdentifyInv'
<1>1. /\ UNCHANGED <<clock, events, skew, dbs, known, acted, outputs>>
      /\ ipc \in BeforeWaiting \cup {"wait", "action", "close"}
  BY DEF Connect, GiveUp, Confirm, TakeT0, StandStill, CollectBaseline, WaitForAction,
     CollectAction, Close, At, device, BeforeWaiting
<1>2. /\ clock \in 0..MaxClock /\ window \in Int /\ MaxClock \in Nat
      /\ \A i \in DOMAIN events : events[i].at \in 0..MaxClock
      /\ DOMAIN events \subseteq Row
  BY LoggedEvents, IdentifyAssumption DEF IdentifyInv, IdentifyTypeOK
<1>3. Now \in Int /\ (skew <= 0 => Now <= clock)
  BY NowIsBefore
<1>4. Collected \subseteq DOMAIN events /\ Due \subseteq Collected
  BY DEF Collected, Due, IdentifyInv, ActedInWindow
<1>5. /\ ipc' \in Steps /\ lockdown' \in BOOLEAN /\ window' \in {window, Now}
      /\ window' # window => ipc \in BeforeWaiting
      /\ archives' \in {archives, [archives EXCEPT !["baseline"] = Collected],
                        [archives EXCEPT !["action"] = Collected]}
  BY DEF Connect, GiveUp, Confirm, TakeT0, StandStill, CollectBaseline, WaitForAction,
     CollectAction, Close, At, Steps, BeforeWaiting, IdentifyInv, IdentifyTypeOK
<1>6. IdentifyTypeOK'
  <2>1. \A l \in Labelled : archives'[l] = Nothing \/ archives'[l] \subseteq Row
    BY <1>2, <1>4, <1>5 DEF Labelled, IdentifyInv, IdentifyTypeOK, ActedIsCarried
  <2>2. window' \in Int
    BY <1>2, <1>3, <1>5
  <2> QED
    BY <1>1, <1>5, <2>1, <2>2 DEF IdentifyInv, IdentifyTypeOK, outputs
<1>7. ActedInWindow'
  <2>1. skew <= 0 => window' <= clock
    BY <1>2, <1>3, <1>5 DEF IdentifyInv, ActedInWindow
  <2>2. skew <= 0 => \A i \in acted : events[i].at >= window'
    BY <1>5 DEF IdentifyInv, ActedInWindow
  <2>3. ipc' \in BeforeWaiting => ipc \in BeforeWaiting
    BY DEF Connect, GiveUp, Confirm, TakeT0, StandStill, CollectBaseline, WaitForAction,
       CollectAction, Close, At, BeforeWaiting
  <2> QED
    BY <1>1, <2>1, <2>2, <2>3 DEF IdentifyInv, ActedInWindow
<1>8. ActedIsCarried'
  <2>0. ipc \notin BeforeWaiting => Due' = Due
    BY <1>1, <1>5 DEF Due
  <2>1. CASE GiveUp
    BY <1>1, <2>1 DEF IdentifyInv, ActedIsCarried, GiveUp, AfterAction, Comparing, BeforeWaiting
  <2>2. CASE CollectBaseline
    BY <1>1, <1>4, <2>2 DEF IdentifyInv, ActedIsCarried, CollectBaseline, At, AfterAction, Comparing, Labelled
  <2>3. CASE CollectAction
    BY <1>1, <1>4, <2>0, <2>3 DEF IdentifyInv, ActedIsCarried, CollectAction, At, AfterAction,
       Comparing, BeforeWaiting, Labelled
  <2>4. CASE Connect \/ Confirm \/ TakeT0 \/ StandStill \/ WaitForAction \/ Close
    BY <1>1, <2>0, <2>4 DEF IdentifyInv, ActedIsCarried, Connect, Confirm, TakeT0, StandStill,
       WaitForAction, Close, At, AfterAction, Comparing, BeforeWaiting
  <2> QED
    BY <2>1, <2>2, <2>3, <2>4
<1>9. ResultIsWhole'
  <2>1. out = Nothing /\ ~returned /\ ipc' # "scan"
    BY <1>1 DEF IdentifyInv, ResultIsWhole, BeforeWaiting, Connect, GiveUp, Confirm, TakeT0,
       StandStill, CollectBaseline, WaitForAction, CollectAction, Close, At
  <2> QED
    BY <1>1, <2>1 DEF ResultIsWhole, outputs
<1> QED
  BY <1>6, <1>7, <1>8, <1>9 DEF IdentifyInv

\* An archive is read into its database, and the second one annotated.
LEMMA ReadStep ==
  ASSUME IdentifyInv, (\E l \in Labelled : ExtractArchive(l)) \/ AnnotateAction
  PROVE  IdentifyInv'
<1>1. /\ UNCHANGED <<clock, events, skew, window, lockdown, archives, acted, outputs>>
      /\ ipc \in {"extractBaseline", "extractAction", "annotate"}
      /\ ipc' \in {"extractAction", "annotate", "diff", "over"}
  BY DEF ExtractArchive, AnnotateAction, At, device, Labelled
<1>2. DOMAIN events \subseteq Row /\ Due' = Due
  BY <1>1, LoggedEvents DEF Due
<1> DEFINE Read ==
      ActedIsCarried' /\ (\A l \in Labelled : dbs'[l] = Nothing \/ dbs'[l] \subseteq Row)
      /\ known' \subseteq Row
<1>3. Read
  <2>1. ASSUME NEW l \in Labelled, ExtractArchive(l)
        PROVE  Read
    <3>1. known' = known
      BY <2>1 DEF ExtractArchive
    <3>2. CASE dbs' = dbs /\ ipc' = "over"
      <4>1. ipc \in {"extractBaseline", "extractAction"}
        BY <2>1 DEF ExtractArchive, At
      <4>2. dbs["action"] = Nothing
        BY <4>1 DEF IdentifyInv, ActedIsCarried, Comparing
      <4> QED
        BY <1>1, <3>1, <3>2, <4>2
           DEF IdentifyInv, IdentifyTypeOK, ActedIsCarried, AfterAction, Comparing
    <3>3. CASE /\ l = "baseline" /\ ipc = "extractBaseline" /\ ipc' = "extractAction"
               /\ dbs' = [dbs EXCEPT ![l] = archives[l]]
      BY <1>1, <1>2, <3>1, <3>3 DEF IdentifyInv, IdentifyTypeOK, ActedIsCarried, AfterAction, Comparing, Labelled
    <3>4. CASE /\ l = "action" /\ ipc = "extractAction" /\ ipc' = "annotate"
               /\ dbs' = [dbs EXCEPT ![l] = archives[l]]
      BY <1>1, <1>2, <3>1, <3>4 DEF IdentifyInv, IdentifyTypeOK, ActedIsCarried, AfterAction, Comparing, Labelled,
         BothThere
    <3> QED
      BY <2>1, <3>2, <3>3, <3>4 DEF ExtractArchive, At
  <2>2. CASE AnnotateAction
    <3>1. ipc = "annotate" /\ ipc' = "diff" /\ dbs' = dbs
      BY <2>2 DEF AnnotateAction, At
    <3>2. known' \subseteq dbs["action"] \/ known' = known
      BY <2>2 DEF AnnotateAction
    <3>3. BothThere
      BY <3>1 DEF IdentifyInv, ActedIsCarried, Comparing
    <3> QED
      BY <1>1, <1>2, <3>1, <3>2, <3>3 DEF IdentifyInv, IdentifyTypeOK, ActedIsCarried, AfterAction,
         Comparing, BothThere
  <2> QED
    BY <2>1, <2>2
<1>4. IdentifyTypeOK'
  BY <1>1, <1>3 DEF IdentifyInv, IdentifyTypeOK, outputs, Steps
<1>5. ActedInWindow'
  BY <1>1 DEF IdentifyInv, ActedInWindow, BeforeWaiting
<1>6. ResultIsWhole'
  <2>1. out = Nothing /\ ~returned /\ ipc' # "scan"
    BY <1>1 DEF IdentifyInv, ResultIsWhole
  <2> QED
    BY <1>1, <2>1 DEF ResultIsWhole, outputs
<1> QED
  BY <1>3, <1>4, <1>5, <1>6 DEF IdentifyInv

\* A step of run_diff, over databases that stay as they are.
LEMMA DiffStep ==
  ASSUME IdentifyInv, DiffStart \/ DiffBatch \/ DiffCommit \/ DiffBreaks \/ DiffAgain
  PROVE  IdentifyInv'
<1>1. /\ UNCHANGED <<clock, events, skew, window, lockdown, archives, dbs, known, acted>>
      /\ ipc \in {"diff", "scan", "over"} /\ ipc' \in {"diff", "scan", "over"}
  BY DEF DiffStart, DiffBatch, DiffCommit, DiffBreaks, DiffAgain, At, device
<1>2. BothThere
  <2>1. CASE DiffAgain
    BY <2>1 DEF IdentifyInv, ActedIsCarried, DiffAgain, At, Labelled
  <2>2. CASE DiffStart \/ DiffBatch \/ DiffCommit \/ DiffBreaks
    BY <2>2 DEF IdentifyInv, ActedIsCarried, Comparing, DiffStart, DiffBatch, DiffCommit, DiffBreaks, At
  <2> QED
    BY <2>1, <2>2
<1>3. DOMAIN events \subseteq Row /\ Due' = Due
  BY <1>1, LoggedEvents DEF Due
<1>4. Newer \subseteq Row
  BY <1>2, <1>3 DEF Newer, BothThere
<1>5. Newer' = Newer /\ \A S : Classified(S)' = Classified(S)
  BY <1>1, SameComparison
<1>6. /\ returned' \in BOOLEAN /\ diffs' \in 0..MaxDiffs /\ hidden' \subseteq Keys
      /\ csv' \cup scanned' \subseteq Row
  <2>1. CASE DiffStart
    <3>1. diffs' = diffs + 1 /\ diffs < MaxDiffs /\ diffs \in 0..MaxDiffs /\ MaxDiffs \in Nat
      BY <2>1, IdentifyAssumption DEF IdentifyInv, IdentifyTypeOK, DiffStart
    <3>2. diffs' \in 0..MaxDiffs
      BY <3>1
    <3> QED
      BY <2>1, <3>2 DEF IdentifyInv, IdentifyTypeOK, DiffStart
  <2>2. CASE DiffBatch
    BY <1>4, <2>2 DEF IdentifyInv, IdentifyTypeOK, DiffBatch
  <2>3. CASE DiffCommit \/ DiffBreaks \/ DiffAgain
    BY <2>3 DEF IdentifyInv, IdentifyTypeOK, DiffCommit, DiffBreaks, DiffAgain, outputs
  <2> QED
    BY <2>1, <2>2, <2>3
<1>7. ResultIsWhole'
  <2>1. CASE DiffStart
    <3>1. /\ returned' = FALSE /\ (out' = out \/ out' = Empty)
          /\ ipc' = "scan" => scanned' = {} /\ pending' = Empty
      BY <2>1 DEF DiffStart
    <3>2. Classified({}) = Empty
      BY DEF Classified, Retained, SetAside, Empty
    <3> QED
      BY <1>1, <1>5, <3>1, <3>2 DEF IdentifyInv, ResultIsWhole, Empty
  <2>2. CASE DiffBatch
    <3>1. ipc = "scan" /\ ipc' = ipc /\ out' = out /\ returned' = returned
          /\ scanned \subseteq Newer /\ pending = Classified(scanned)
      BY <2>2 DEF IdentifyInv, ResultIsWhole, DiffBatch
    <3>2. PICK b \in SUBSET (Newer \ scanned) :
            /\ scanned' = scanned \cup b
            /\ pending' = [kept  |-> pending.kept \cup { i \in b : ~IsNoise(i) },
                           noise |-> pending.noise \cup { i \in b : IsNoise(i) }]
      BY <2>2 DEF DiffBatch
    <3>3. pending' = Classified(scanned') /\ scanned' \subseteq Newer
      BY <3>1, <3>2 DEF Classified, Retained, SetAside
    <3> QED
      BY <1>1, <1>5, <3>1, <3>3 DEF IdentifyInv, ResultIsWhole, Empty
  <2>3. CASE DiffCommit
    <3>1. out' = Classified(Newer) /\ ipc' = "over"
      BY <2>3 DEF IdentifyInv, ResultIsWhole, DiffCommit, At
    <3>2. BothThere'
      BY <1>1, <1>2, <1>3 DEF BothThere
    <3> QED
      BY <1>5, <3>1, <3>2 DEF ResultIsWhole
  <2>4. CASE DiffBreaks \/ DiffAgain
    <3>1. out' = out /\ returned' = returned /\ ipc' # "scan"
          /\ (returned => ipc \in {"over", "diff"})
      BY <2>4 DEF IdentifyInv, ResultIsWhole, DiffBreaks, DiffAgain, At, outputs
    <3>2. BothThere'
      BY <1>1, <1>2, <1>3 DEF BothThere
    <3> QED
      BY <1>1, <1>5, <3>1, <3>2 DEF IdentifyInv, ResultIsWhole, Empty
  <2> QED
    BY <2>1, <2>2, <2>3, <2>4
<1>8. IdentifyTypeOK'
  <2>1. out' = Nothing \/ out'.kept \cup out'.noise \subseteq Row
    <3>1. Empty.kept \cup Empty.noise \subseteq Row
      BY DEF Empty
    <3>2. Classified(Newer).kept \cup Classified(Newer).noise \subseteq Row
      BY <1>4 DEF Classified, Retained, SetAside
    <3> QED
      BY <1>5, <1>7, <3>1, <3>2 DEF ResultIsWhole, Empty
  <2> QED
    BY <1>1, <1>6, <2>1 DEF IdentifyInv, IdentifyTypeOK, Steps
<1>9. ActedInWindow' /\ ActedIsCarried'
  <2>1. BothThere'
    BY <1>1, <1>2, <1>3 DEF BothThere
  <2>2. ipc \in {"diff", "scan"} \/ ipc' = "diff"
    BY DEF DiffStart, DiffBatch, DiffCommit, DiffBreaks, DiffAgain, At
  <2>3. ipc = "over" => DiffAgain
    BY DEF DiffStart, DiffBatch, DiffCommit, DiffBreaks, DiffAgain, At
  <2> QED
    BY <1>1, <1>3, <2>1 DEF IdentifyInv, ActedInWindow, ActedIsCarried, AfterAction, Comparing,
       BeforeWaiting
<1> QED
  BY <1>7, <1>8, <1>9 DEF IdentifyInv

\* The viewer of the result.
LEMMA ViewStep ==
  ASSUME IdentifyInv,
         \/ \E i \in Row : Hide(i)
         \/ \E k \in Keys : Unhide(k)
         \/ \E noise \in BOOLEAN : ExportResults(noise)
  PROVE  IdentifyInv'
<1>1. /\ UNCHANGED <<clock, events, skew, ipc, window, lockdown, archives, dbs, known, acted>>
      /\ UNCHANGED <<out, pending, scanned, diffs, returned>> /\ returned /\ ipc = "over"
  BY DEF Hide, Unhide, ExportResults, device
<1>2. BothThere /\ out = Classified(Newer)
  BY <1>1 DEF IdentifyInv, ResultIsWhole
<1>3. /\ DOMAIN events \subseteq Row /\ Due' = Due
      /\ \A i \in DOMAIN events : events[i].key \in Keys \cup {Nothing}
  BY <1>1, LoggedEvents DEF Due
<1>4. out.kept \cup out.noise \subseteq DOMAIN events
  BY <1>2 DEF Classified, Retained, SetAside, Newer, BothThere
<1>5. hidden' \subseteq Keys
  <2>1. ASSUME NEW i \in Row, Hide(i)
        PROVE  hidden' \subseteq Keys
    <3>1. i \in DOMAIN events /\ KeyOf(i) # Nothing /\ hidden' = hidden \cup {KeyOf(i)}
      BY <1>4, <2>1 DEF Hide
    <3>2. events[i].key \in Keys \cup {Nothing}
      BY <1>3, <3>1
    <3> QED
      BY <3>1, <3>2 DEF KeyOf, IdentifyInv, IdentifyTypeOK
  <2>2. ASSUME NEW k \in Keys, Unhide(k)
        PROVE  hidden' \subseteq Keys
    BY <2>2 DEF Unhide, IdentifyInv, IdentifyTypeOK
  <2>3. ASSUME NEW noise \in BOOLEAN, ExportResults(noise)
        PROVE  hidden' \subseteq Keys
    BY <2>3 DEF ExportResults, IdentifyInv, IdentifyTypeOK
  <2> QED
    BY <2>1, <2>2, <2>3
<1>6. csv' \subseteq Row
  <2>1. ASSUME NEW noise \in BOOLEAN, ExportResults(noise)
        PROVE  csv' \subseteq Row
    BY <1>3, <1>4, <2>1 DEF ExportResults, Listed
  <2>2. CASE csv' = csv
    BY <2>2 DEF IdentifyInv, IdentifyTypeOK
  <2> QED
    BY <2>1, <2>2 DEF Hide, Unhide
<1>7. IdentifyTypeOK'
  BY <1>1, <1>5, <1>6 DEF IdentifyInv, IdentifyTypeOK
<1>8. ActedInWindow' /\ ActedIsCarried'
  BY <1>1, <1>3 DEF IdentifyInv, ActedInWindow, ActedIsCarried, BothThere
<1>9. ResultIsWhole'
  <2>1. Newer' = Newer /\ \A S : Classified(S)' = Classified(S)
    BY <1>1, SameComparison
  <2>2. BothThere'
    BY <1>1, <1>2, <1>3 DEF BothThere
  <2> QED
    BY <1>1, <1>2, <2>1, <2>2 DEF ResultIsWhole
<1> QED
  BY <1>7, <1>8, <1>9 DEF IdentifyInv

\* However the device logs, the run ends and the diff breaks and is repeated: what the
\* operator caused is in the result of a diff that returned, on the side it belongs to, and
\* a result holds every compared row or none (ops/identify/workflow.py, diff.py).
THEOREM ActionIsFound == IdentifySpec => []ResultIsTrue
<1>1. IdentifyInit => IdentifyInv
  <2> SUFFICES ASSUME IdentifyInit PROVE IdentifyInv
    OBVIOUS
  <2>1. {MaxEvents, MaxClock, MaxDiffs} \subseteq Nat
    BY IdentifyAssumption
  <2>2. /\ clock \in 0..MaxClock /\ window \in Int /\ diffs \in 0..MaxDiffs
        /\ Len(events) \in 0..MaxEvents /\ window <= clock
    <3>1. MaxEvents \in Nat /\ MaxClock \in Nat /\ MaxDiffs \in Nat
      BY <2>1
    <3>2. events = <<>> /\ clock = 0 /\ window = 0 /\ diffs = 0
      BY DEF IdentifyInit
    <3> QED
      BY <3>1, <3>2
  <2>3. lockdown \in BOOLEAN /\ returned \in BOOLEAN
    BY DEF IdentifyInit
  <2>4. IdentifyTypeOK
    BY <2>2, <2>3 DEF IdentifyInit, IdentifyTypeOK, Steps, Labelled, Row
  <2>5. ActedInWindow
    BY <2>2 DEF IdentifyInit, ActedInWindow
  <2>6. ActedIsCarried /\ ResultIsWhole
    BY DEF IdentifyInit, ActedIsCarried, ResultIsWhole, Labelled, AfterAction, Comparing
  <2> QED
    BY <2>4, <2>5, <2>6 DEF IdentifyInv
<1>2. IdentifyInv => ResultIsTrue
  <2> SUFFICES ASSUME IdentifyInv PROVE ResultIsTrue
    OBVIOUS
  <2>1. ActionIsKept
    <3> SUFFICES ASSUME returned, NEW i \in acted, skew <= 0 \/ events[i].at >= window,
                        events[i].resolved => events[i].at > Cutoff
                 PROVE  IF /\ events[i].resolved /\ events[i].key # Nothing
                           /\ \E j \in dbs["baseline"] : events[j].key = events[i].key
                        THEN i \in out.noise ELSE i \in out.kept
      BY DEF ActionIsKept
    <3>1. BothThere /\ out = Classified(Newer)
      BY DEF IdentifyInv, ResultIsWhole
    <3>2. i \in Newer
      BY <3>1 DEF Newer, BothThere, Due
    <3>3. IsNoise(i) <=> /\ events[i].resolved /\ events[i].key # Nothing
                         /\ \E j \in dbs["baseline"] : events[j].key = events[i].key
      BY DEF IsNoise, BaselineKeys
    <3>4. IF IsNoise(i) THEN i \in out.noise ELSE i \in out.kept
      BY <3>1, <3>2 DEF Classified, Retained, SetAside
    <3> QED
      BY <3>3, <3>4
  <2>2. ResultIsAllOrNothing
    BY DEF IdentifyInv, ResultIsWhole, ResultIsAllOrNothing, Classified, Retained, SetAside
  <2> QED
    BY <2>1, <2>2 DEF IdentifyInv, ResultIsTrue
<1>3. IdentifyInv /\ [IdentifyNext]_identify => IdentifyInv'
  <2>1. IdentifyInv /\ IdentifyNext => IdentifyInv'
    BY DeviceStep, CollectStep, ReadStep, DiffStep, ViewStep DEF IdentifyNext
  <2>2. IdentifyInv /\ UNCHANGED identify => IdentifyInv'
    <3> SUFFICES ASSUME IdentifyInv, UNCHANGED identify PROVE IdentifyInv'
      OBVIOUS
    <3>1. UNCHANGED <<clock, events, skew, ipc, lockdown, window, archives, dbs, known, acted,
                      out, pending, scanned, csv, diffs, returned, hidden>>
      BY DEF identify
    <3>2. Newer' = Newer /\ \A S : Classified(S)' = Classified(S)
      BY <3>1, SameComparison
    <3>4. Due' = Due
      BY <3>1 DEF Due
    <3>3. ResultIsWhole'
      BY <3>1, <3>2, <3>4 DEF IdentifyInv, ResultIsWhole, BothThere, Empty
    <3> QED
      BY <3>1, <3>3, <3>4 DEF IdentifyInv, IdentifyTypeOK, ActedInWindow, ActedIsCarried, BothThere
  <2> QED
    BY <2>1, <2>2
<1> QED
  BY <1>1, <1>2, <1>3, PTL DEF IdentifySpec

-----------------------------------------------------------------------------
(* Annotation *)

AnnotRow  == [id : 1..MaxCalls, sig : SigIndex, log : Ids]
SigRow    == [id : 1..MaxCalls, sig : SigIndex, count : 0..Len(LogRows)]
CountsSet == [annotated : 0..Len(LogRows), signatures : 0..(MaxCalls * Len(Kb))]
RefreshPc == {"summarise", "count", "store", "drop"}
Working(r) == r.pc \in {"next", "scan"}

RunTyped(r) ==
  /\ DOMAIN r = DOMAIN Idle
  /\ r.pc \in {"idle", "next", "scan"} \cup RefreshPc
  /\ r.id \in 0..MaxCalls /\ r.todo \subseteq SigIndex /\ r.rows \subseteq Ids /\ r.n \in 0..Len(LogRows)
  /\ r.batch \subseteq AnnotRow
  /\ r.tx \in [sigs : SUBSET SigRow, annots : SUBSET AnnotRow, values : SUBSET AnnotRow]
  /\ r.pc = "scan" => r.sig \in SigIndex
  /\ r.pc \in {"count", "store"} => r.seen \in CountsSet

TypesHold ==
  /\ AnnotationTypeOK /\ DOMAIN run = Annotators
  /\ db \in [sigs : SUBSET SigRow, annots : SUBSET AnnotRow, values : SUBSET AnnotRow]
  /\ \A p \in Annotators : RunTyped(run[p])

\* What tables hold of one signature: a row for each it says something of, and their number.
Found(s) == { i \in Ids : Says(s, i) }
RowsIn(d, g) == { a.log : a \in { b \in d.annots : b.id = g.id /\ b.sig = g.sig } }
Exact(d, g) == RowsIn(d, g) = Found(Kb[g.sig]) /\ g.count = Cardinality(RowsIn(d, g))
Linked(d) == \A a \in d.annots : \E g \in d.sigs : g.id = a.id /\ g.sig = a.sig
Valued(d) == d.values = { a \in d.annots : LogRows[a.log].message \in Kb[a.sig].extract }
TablesExact(d) == (\A g \in d.sigs : Exact(d, g)) /\ Linked(d) /\ Valued(d)

\* The matches among the rows the cursor has passed, and where they are: stored, or in the
\* batch, which only a signature without an extraction fills.
Passed(r) == { i \in Candidates(Kb[r.sig]) \ r.rows : RegexHits(Kb[r.sig], i) }
ScanHolds(r) ==
  /\ r.sig \notin r.todo /\ r.rows \subseteq Candidates(Kb[r.sig])
  /\ r.n = Cardinality(Passed(r))
  /\ r.batch \cup { a \in r.tx.annots : a.sig = r.sig }
       = { [id |-> r.id, sig |-> r.sig, log |-> i] : i \in Passed(r) }
  /\ r.batch # {} => Kb[r.sig].extract = {}
  /\ { g \in r.tx.sigs : g.sig = r.sig }
       = IF r.n = 0 THEN {} ELSE {[id |-> r.id, sig |-> r.sig, count |-> 0]}

\* An open transaction: exact for each signature but the one in the cursor.
TxHolds(r) ==
  /\ \A x \in r.tx.sigs \cup r.tx.annots : x.id = r.id /\ x.sig \notin r.todo
  /\ Linked(r.tx) /\ Valued(r.tx)
  /\ \A g \in r.tx.sigs : r.pc = "next" \/ g.sig # r.sig => Exact(r.tx, g)
  /\ r.pc = "scan" => ScanHolds(r)

\* No two calls write under one id, and an open one under an id no table has.
IdsApart ==
  /\ \A x \in db.sigs \cup db.annots : x.id \in 1..calls
  /\ \A p \in Annotators : Working(run[p]) =>
       run[p].id \in 1..calls /\ \A x \in db.sigs \cup db.annots : x.id # run[p].id
  /\ \A p, q \in Annotators : Working(run[p]) /\ Working(run[q]) /\ p # q => run[p].id # run[q].id

AnnotatingInv == /\ TypesHold /\ TablesExact(db) /\ IdsApart
                 /\ \A p \in Annotators : Working(run[p]) => TxHolds(run[p])

\* While nothing went wrong, one refresh at a time works on what the tables hold now.
RefreshInv ==
  ~torn =>
    /\ \A p, q \in Annotators : run[p].pc \in RefreshPc /\ run[q].pc \in RefreshPc => p = q
    /\ (\A p \in Annotators : run[p].pc \notin RefreshPc) => cache \in {None, Unparsed, Counts(db)}
    /\ \A p \in Annotators : /\ run[p].pc = "count" => run[p].seen.annotated = Counts(db).annotated
                             /\ run[p].pc = "store" => run[p].seen = Counts(db)

AnnotationInv == AnnotatingInv /\ RefreshInv

\* A signature says of a row what its query and its pattern select.
LEMMA SelectedIsSaid ==
  ASSUME NEW k \in SigIndex
  PROVE  { i \in Candidates(Kb[k]) : RegexHits(Kb[k], i) } = Found(Kb[k])
<1> DEFINE s == Kb[k]
<1>1. Candidates(s) \subseteq Ids
  BY DEF Candidates
<1>2. ASSUME NEW i \in Candidates(s), RegexHits(s, i)
      PROVE  Says(s, i)
  <2>1. ~NoCandidate(s) /\ i \in Ids
    BY <1>2 DEF Candidates
  <2>2. /\ s.dynamic \/ LogRows[i].format \in FormatIds(s)
        /\ \A c \in Columns : s.match[c] \in {None, LogRows[i][c]}
        /\ s.library = None \/ LogRows[i].library \in LibraryIds(s.library)
    BY <1>2, <2>1 DEF Candidates
  <2>3. s.dynamic => s.library # None \/ \E c \in Columns : s.match[c] # None
    BY <2>1 DEF NoCandidate
  <2> HIDE DEF s
  <2> QED
    BY <1>2, <2>2, <2>3 DEF Says, FormatIds, LibraryIds, RegexHits
<1>3. ASSUME NEW i \in Ids, Says(s, i)
      PROVE  i \in Candidates(s) /\ RegexHits(s, i)
  <2>1. LogRows[i].library \in DOMAIN Libraries
    BY AnnotationAssumption DEF Ids
  <2> HIDE DEF s
  <2>2. ~s.dynamic => LogRows[i].format \in FormatIds(s)
    BY <1>3 DEF Says, FormatIds
  <2>3. \A c \in Columns : s.match[c] # None => Known(c, s.match[c]) /\ s.match[c] = LogRows[i][c]
    BY <1>3 DEF Says, Known
  <2>4. s.library # None => LogRows[i].library \in LibraryIds(s.library)
    BY <1>3, <2>1 DEF Says, LibraryIds
  <2>5. s.dynamic => s.library # None \/ \E c \in Columns : s.match[c] # None
    BY <1>3 DEF Says
  <2>6. ~NoCandidate(s)
    BY <2>2, <2>3, <2>4, <2>5 DEF NoCandidate
  <2>7. i \in Candidates(s)
    BY <2>2, <2>3, <2>4, <2>6 DEF Candidates
  <2> QED
    BY <1>3, <2>7 DEF Says, RegexHits
<1> QED
  BY <1>1, <1>2, <1>3 DEF Found

LEMMA RowsAreFinite ==
  ASSUME NEW S \in SUBSET Ids
  PROVE  IsFiniteSet(S) /\ Cardinality(S) \in 0..Len(LogRows)
<1>1. Len(LogRows) \in Nat /\ Ids = 1..Len(LogRows)
  BY AnnotationAssumption DEF Ids
<1>2. 1 \in Int /\ Len(LogRows) \in Int
  BY <1>1
<1>3. IsFiniteSet(1..Len(LogRows))
      /\ Cardinality(1..Len(LogRows)) = IF 1 > Len(LogRows) THEN 0 ELSE Len(LogRows) - 1 + 1
  BY <1>2, FS_Interval, Zenon
<1>4. Cardinality(1..Len(LogRows)) = Len(LogRows)
  BY <1>1, <1>3
<1>5. IsFiniteSet(S) /\ Cardinality(S) <= Cardinality(1..Len(LogRows)) /\ Cardinality(S) \in Nat
  BY <1>1, <1>3, FS_Subset, FS_CardinalityType
<1> QED
  BY <1>1, <1>4, <1>5

\* A cursor is opened: nothing is passed yet.
LEMMA CursorOpens ==
  ASSUME NEW r, RunTyped(r), TxHolds(r), r.pc = "next", NEW k \in r.todo,
         NEW w, w = [r EXCEPT !.pc = "scan", !.todo = @ \ {k}, !.sig = k,
                              !.rows = Candidates(Kb[k]), !.n = 0, !.batch = {}]
  PROVE  RunTyped(w) /\ TxHolds(w)
<1>1. /\ DOMAIN w = DOMAIN r /\ w.pc = "scan" /\ w.todo = r.todo \ {k} /\ w.sig = k
      /\ w.rows = Candidates(Kb[k]) /\ w.n = 0 /\ w.batch = {} /\ w.id = r.id /\ w.tx = r.tx
      /\ w.seen = r.seen
  BY DEF RunTyped, Idle
<1>2. k \in SigIndex /\ w.rows \subseteq Ids
  BY <1>1 DEF RunTyped, Candidates
<1>3. RunTyped(w)
  <2>1. 0 \in 0..Len(LogRows)
    BY AnnotationAssumption
  <2> QED
    BY <1>1, <1>2, <2>1 DEF RunTyped
<1>4. Passed(w) = {}
  BY <1>1 DEF Passed
<1>5. \A g \in r.tx.sigs : g.sig # k
  BY DEF TxHolds
<1>6. \A a \in r.tx.annots : a.sig # k
  BY DEF TxHolds
<1>7. ScanHolds(w)
  <2>1. w.n = Cardinality(Passed(w))
    BY <1>1, <1>4, FS_EmptySet
  <2>2. w.batch \cup { a \in w.tx.annots : a.sig = w.sig }
           = { [id |-> w.id, sig |-> w.sig, log |-> i] : i \in Passed(w) }
    BY <1>1, <1>4, <1>6
  <2>3. { g \in w.tx.sigs : g.sig = w.sig } = {}
    BY <1>1, <1>5
  <2> QED
    BY <1>1, <2>1, <2>2, <2>3 DEF ScanHolds
<1> QED
  BY <1>1, <1>3, <1>7 DEF TxHolds

\* A row the pattern does not match is passed without a trace.
LEMMA RowIsSkipped ==
  ASSUME NEW r, RunTyped(r), TxHolds(r), r.pc = "scan", NEW i \in r.rows,
         ~RegexHits(Kb[r.sig], i), NEW w, w = [r EXCEPT !.rows = @ \ {i}]
  PROVE  RunTyped(w) /\ TxHolds(w)
<1>1. /\ DOMAIN w = DOMAIN r /\ w.pc = "scan" /\ w.todo = r.todo /\ w.sig = r.sig
      /\ w.rows = r.rows \ {i} /\ w.n = r.n /\ w.batch = r.batch /\ w.id = r.id /\ w.tx = r.tx
      /\ w.seen = r.seen
  BY DEF RunTyped, Idle
<1>2. RunTyped(w)
  BY <1>1 DEF RunTyped
<1>3. Passed(w) = Passed(r)
  BY <1>1 DEF Passed
<1>4. ScanHolds(w)
  BY <1>1, <1>3 DEF TxHolds, ScanHolds
<1> QED
  BY <1>1, <1>2, <1>4 DEF TxHolds

\* What ScanRow makes of a call when the pattern matches the row.
Matched(r, i) ==
  LET s == Kb[r.sig]  a == [id |-> r.id, sig |-> r.sig, log |-> i]
      batch == r.batch \cup {a}
  IN [r EXCEPT
     !.rows = @ \ {i}, !.n = @ + 1,
     !.batch = IF s.extract # {} \/ Cardinality(batch) >= BatchSize
               THEN {} ELSE batch,
     !.tx = [sigs   |-> @.sigs \cup (IF r.n = 0
                          THEN {[id |-> r.id, sig |-> r.sig, count |-> 0]} ELSE {}),
             annots |-> @.annots \cup (IF s.extract # {} THEN {a}
                          ELSE IF Cardinality(batch) >= BatchSize THEN batch ELSE {}),
             values |-> @.values \cup (IF Extracts(s, i) THEN {a} ELSE {})]]

\* A row the pattern matches: it is stored or waits in the batch, and the signature with it.
LEMMA RowIsMatched ==
  ASSUME NEW r, RunTyped(r), TxHolds(r), r.pc = "scan", NEW i \in r.rows, r.id \in 1..MaxCalls,
         RegexHits(Kb[r.sig], i)
  PROVE  RunTyped(Matched(r, i)) /\ TxHolds(Matched(r, i))
<1> DEFINE s == Kb[r.sig]
           a == [id |-> r.id, sig |-> r.sig, log |-> i]
           batch == r.batch \cup {a}
           w == Matched(r, i)
<1>0. /\ s = Kb[r.sig] /\ a = [id |-> r.id, sig |-> r.sig, log |-> i] /\ batch = r.batch \cup {a}
      /\ w = [r EXCEPT
                  !.rows = @ \ {i}, !.n = @ + 1,
                  !.batch = IF s.extract # {} \/ Cardinality(batch) >= BatchSize
                            THEN {} ELSE batch,
                  !.tx = [sigs   |-> @.sigs \cup (IF r.n = 0
                                       THEN {[id |-> r.id, sig |-> r.sig, count |-> 0]} ELSE {}),
                          annots |-> @.annots \cup (IF s.extract # {} THEN {a}
                                       ELSE IF Cardinality(batch) >= BatchSize THEN batch ELSE {}),
                          values |-> @.values \cup (IF Extracts(s, i) THEN {a} ELSE {})]]
  BY Zenon DEF Matched
<1> HIDE DEF s, a, batch, w
<1> USE <1>0
<1> DEFINE g0 == [id |-> r.id, sig |-> r.sig, count |-> 0]
           new == IF s.extract # {} THEN {a}
                  ELSE IF Cardinality(batch) >= BatchSize THEN batch ELSE {}
<1>1. /\ DOMAIN w = DOMAIN r /\ w.pc = "scan" /\ w.todo = r.todo /\ w.sig = r.sig
      /\ w.rows = r.rows \ {i} /\ w.n = r.n + 1 /\ w.id = r.id /\ w.seen = r.seen
      /\ w.batch = IF s.extract # {} \/ Cardinality(batch) >= BatchSize THEN {} ELSE batch
      /\ w.tx = [sigs   |-> r.tx.sigs \cup (IF r.n = 0 THEN {g0} ELSE {}),
                 annots |-> r.tx.annots \cup new,
                 values |-> r.tx.values \cup (IF Extracts(s, i) THEN {a} ELSE {})]
  BY DEF RunTyped, Idle
<1>2. /\ r.sig \in SigIndex /\ i \in Ids /\ a \in AnnotRow /\ g0 \in SigRow
      /\ a.id = r.id /\ a.sig = r.sig /\ a.log = i /\ g0.id = r.id /\ g0.sig = r.sig
  <2>1. 0 \in 0..Len(LogRows)
    BY AnnotationAssumption
  <2> QED
    BY <2>1 DEF RunTyped, AnnotRow, SigRow
<1>3. ScanHolds(r)
  BY DEF TxHolds
<1>4. Passed(w) = Passed(r) \cup {i} /\ i \notin Passed(r) /\ Passed(w) \subseteq Ids
      /\ Passed(r) \subseteq Ids
  <2>1. Candidates(Kb[r.sig]) \subseteq Ids
    BY DEF Candidates
  <2>2. i \in Candidates(Kb[r.sig])
    BY <1>3 DEF ScanHolds
  <2>3. Passed(w) = { j \in Candidates(Kb[r.sig]) \ (r.rows \ {i}) : RegexHits(Kb[r.sig], j) }
    BY <1>1 DEF Passed
  <2>4. Passed(w) = Passed(r) \cup {i} /\ i \notin Passed(r)
    BY <2>2, <2>3 DEF Passed
  <2> QED
    BY <2>1, <2>2, <2>4 DEF Passed
<1>5. w.n = Cardinality(Passed(w)) /\ w.n \in 0..Len(LogRows) /\ w.n # 0
  <2>1. /\ IsFiniteSet(Passed(r)) /\ Cardinality(Passed(r)) \in 0..Len(LogRows)
        /\ Cardinality(Passed(w)) \in 0..Len(LogRows)
    BY <1>4, RowsAreFinite
  <2>4. Cardinality(Passed(r) \cup {i}) = Cardinality(Passed(r)) + 1
    BY <1>4, <2>1, FS_AddElement
  <2>2. Cardinality(Passed(w)) = Cardinality(Passed(r)) + 1
    BY <1>4, <2>4
  <2>3. Len(LogRows) \in Nat
    BY AnnotationAssumption
  <2> QED
    BY <1>1, <1>3, <2>1, <2>2, <2>3 DEF ScanHolds
<1> HIDE DEF g0, new
<1>6. /\ \A b \in r.batch : b.id = r.id /\ b.sig = r.sig /\ b \in AnnotRow
      /\ r.batch # {} => s.extract = {}
      /\ new \subseteq batch /\ w.batch \subseteq batch /\ w.batch \cup new = batch
      /\ w.batch # {} => s.extract = {}
  <2>1. \A b \in r.batch : b.id = r.id /\ b.sig = r.sig /\ b \in AnnotRow
    BY <1>3 DEF ScanHolds, RunTyped
  <2>2. r.batch # {} => s.extract = {}
    BY <1>3 DEF ScanHolds
  <2> QED
    BY <1>1, <2>1, <2>2 DEF new
<1>7. \A b \in new : b.id = r.id /\ b.sig = r.sig /\ b \in AnnotRow
  BY <1>2, <1>6
<1>8. /\ w.tx.sigs = r.tx.sigs \cup (IF r.n = 0 THEN {g0} ELSE {})
      /\ w.tx.annots = r.tx.annots \cup new
      /\ w.tx.values = r.tx.values \cup (IF Extracts(s, i) THEN {a} ELSE {})
  <2>1. w.tx = [sigs   |-> r.tx.sigs \cup (IF r.n = 0 THEN {g0} ELSE {}),
                annots |-> r.tx.annots \cup new,
                values |-> r.tx.values \cup (IF Extracts(s, i) THEN {a} ELSE {})]
    BY <1>1, Zenon
  <2> QED
    BY ONLY <2>1
<1>9. RunTyped(w)
  <2>1. w.batch \subseteq AnnotRow
    BY <1>2, <1>6
  <2>2. /\ w.tx.sigs \subseteq SigRow /\ w.tx.annots \subseteq AnnotRow /\ w.tx.values \subseteq AnnotRow
    BY <1>2, <1>7, <1>8 DEF RunTyped
  <2>3. w.tx \in [sigs : SUBSET SigRow, annots : SUBSET AnnotRow, values : SUBSET AnnotRow]
    BY <1>1, <1>8, <2>2
  <2> QED
    BY <1>1, <1>5, <2>1, <2>3 DEF RunTyped
<1>10. { g \in r.tx.sigs : g.sig = r.sig } = IF r.n = 0 THEN {} ELSE {g0}
  BY <1>3 DEF ScanHolds, g0
<1>11. { g \in w.tx.sigs : g.sig = w.sig } = {g0}
  <2>1. CASE r.n = 0
    BY <1>1, <1>2, <1>8, <1>10, <2>1
  <2>2. CASE r.n # 0
    BY <1>1, <1>8, <1>10, <2>2
  <2> QED
    BY <2>1, <2>2
<1>12. Linked(w.tx)
  <2>1. g0 \in w.tx.sigs
    BY <1>11
  <2> QED
    BY <1>2, <1>7, <1>8, <2>1 DEF TxHolds, Linked
<1>13. Valued(w.tx)
  <2>1. Valued(r.tx)
    BY DEF TxHolds
  <2>2. { b \in new : LogRows[b.log].message \in Kb[b.sig].extract }
          = IF Extracts(s, i) THEN {a} ELSE {}
    <3>1. \A b \in new : Kb[b.sig] = s
      BY <1>7
    <3>2. CASE s.extract # {}
      BY <1>2, <3>1, <3>2 DEF new, Extracts
    <3>3. CASE s.extract = {}
      BY <3>1, <3>3 DEF Extracts
    <3> QED
      BY <3>2, <3>3
  <2> QED
    BY <1>8, <2>1, <2>2 DEF Valued
<1>14. \A g \in w.tx.sigs : g.sig # w.sig => Exact(w.tx, g)
  <2> SUFFICES ASSUME NEW g \in w.tx.sigs, g.sig # r.sig
               PROVE  Exact(w.tx, g)
    BY <1>1
  <2>1. g \in r.tx.sigs
    BY <1>2, <1>8
  <2>2. Exact(r.tx, g)
    BY <2>1 DEF TxHolds
  <2>3. RowsIn(w.tx, g) = RowsIn(r.tx, g)
    BY <1>7, <1>8 DEF RowsIn
  <2> QED
    BY <2>2, <2>3 DEF Exact
<1>15. ScanHolds(w)
  <2>1. w.batch \cup { b \in w.tx.annots : b.sig = w.sig }
          = batch \cup { b \in r.tx.annots : b.sig = r.sig }
    BY <1>1, <1>6, <1>7, <1>8
  <2>2. r.batch \cup { b \in r.tx.annots : b.sig = r.sig }
          = { [id |-> r.id, sig |-> r.sig, log |-> j] : j \in Passed(r) }
    BY <1>3 DEF ScanHolds
  <2>3. batch \cup { b \in r.tx.annots : b.sig = r.sig }
          = { [id |-> w.id, sig |-> w.sig, log |-> j] : j \in Passed(w) }
    <3>1. { [id |-> r.id, sig |-> r.sig, log |-> j] : j \in Passed(r) \cup {i} }
            = { [id |-> r.id, sig |-> r.sig, log |-> j] : j \in Passed(r) } \cup {a}
      OBVIOUS
    <3>2. batch \cup { b \in r.tx.annots : b.sig = r.sig }
            = { [id |-> r.id, sig |-> r.sig, log |-> j] : j \in Passed(r) } \cup {a}
      BY <2>2
    <3> QED
      <4>1. w.id = r.id /\ w.sig = r.sig /\ Passed(w) = Passed(r) \cup {i}
        BY <1>1, <1>4
      <4>2. { [id |-> w.id, sig |-> w.sig, log |-> j] : j \in Passed(w) }
              = { [id |-> r.id, sig |-> r.sig, log |-> j] : j \in Passed(r) \cup {i} }
        BY <4>1, Zenon
      <4> QED
        BY <3>1, <3>2, <4>2, Zenon
  <2>4. { g \in w.tx.sigs : g.sig = w.sig }
          = IF w.n = 0 THEN {} ELSE {[id |-> w.id, sig |-> w.sig, count |-> 0]}
    BY <1>1, <1>5, <1>11 DEF g0
  <2> QED
    BY <1>1, <1>3, <1>5, <1>6, <2>1, <2>3, <2>4 DEF ScanHolds
<1>16. \A x \in w.tx.sigs \cup w.tx.annots : x.id = w.id /\ x.sig \notin w.todo
  BY <1>1, <1>2, <1>3, <1>7, <1>8 DEF TxHolds, ScanHolds
<1>17. RunTyped(w) /\ TxHolds(w)
  BY <1>1, <1>9, <1>12, <1>13, <1>14, <1>15, <1>16 DEF TxHolds
<1> QED
  BY ONLY <1>17 DEF w

\* The end of a signature: the batch is stored, and its matches are counted.
LEMMA SignatureEnds ==
  ASSUME NEW r, RunTyped(r), TxHolds(r), r.pc = "scan", r.rows = {}, r.id \in 1..MaxCalls,
         NEW mine, mine = { g \in r.tx.sigs : g.sig = r.sig },
         NEW w, w = [r EXCEPT !.pc = "next", !.batch = {},
                      !.tx = [sigs   |-> (@.sigs \ mine) \cup
                                         { [g EXCEPT !.count = r.n] : g \in mine },
                              annots |-> @.annots \cup r.batch,
                              values |-> @.values]]
  PROVE  RunTyped(w) /\ TxHolds(w)
<1> DEFINE g0 == [id |-> r.id, sig |-> r.sig, count |-> 0]
           g1 == [id |-> r.id, sig |-> r.sig, count |-> r.n]
<1>1. ScanHolds(r) /\ r.sig \in SigIndex
  BY DEF TxHolds, RunTyped
<1>2. mine = IF r.n = 0 THEN {} ELSE {g0}
  BY <1>1 DEF ScanHolds
<1>3. { [g EXCEPT !.count = r.n] : g \in mine } = IF r.n = 0 THEN {} ELSE {g1}
  <2>1. [g0 EXCEPT !.count = r.n] = g1
    OBVIOUS
  <2> HIDE DEF g0, g1
  <2> QED
    BY <1>2, <2>1
<1>4. /\ DOMAIN w = DOMAIN r /\ w.pc = "next" /\ w.todo = r.todo /\ w.sig = r.sig
      /\ w.rows = r.rows /\ w.n = r.n /\ w.id = r.id /\ w.seen = r.seen /\ w.batch = {}
      /\ w.tx = [sigs   |-> (r.tx.sigs \ mine) \cup { [g EXCEPT !.count = r.n] : g \in mine },
                 annots |-> r.tx.annots \cup r.batch,
                 values |-> r.tx.values]
  BY DEF RunTyped, Idle
<1>5. /\ r.tx \in [sigs : SUBSET SigRow, annots : SUBSET AnnotRow, values : SUBSET AnnotRow]
  BY DEF RunTyped
<1> DEFINE counted == { [g EXCEPT !.count = r.n] : g \in mine }
<1> HIDE DEF counted, g0
<1>6. /\ w.tx.annots = r.tx.annots \cup r.batch /\ w.tx.values = r.tx.values
      /\ w.tx.sigs = (r.tx.sigs \ mine) \cup counted
      /\ DOMAIN w.tx = {"sigs", "annots", "values"}
      /\ w.tx = [sigs |-> w.tx.sigs, annots |-> w.tx.annots, values |-> w.tx.values]
  <2>1. w.tx = [sigs   |-> (r.tx.sigs \ mine) \cup counted,
                annots |-> r.tx.annots \cup r.batch,
                values |-> r.tx.values]
    BY <1>4, Zenon DEF counted
  <2> QED
    BY ONLY <2>1
<1>7. counted = IF r.n = 0 THEN {} ELSE {g1}
  BY <1>3 DEF counted
<1>8. /\ g1.id = r.id /\ g1.sig = r.sig /\ g1.count = r.n /\ g1 \in SigRow
  BY <1>1 DEF SigRow, RunTyped
<1> HIDE DEF g1
<1>9. \A b \in r.batch : b.id = r.id /\ b.sig = r.sig /\ b \in AnnotRow
  BY <1>1 DEF ScanHolds, RunTyped
<1>10. RunTyped(w)
  <2>1. w.tx.annots \subseteq AnnotRow /\ w.tx.sigs \subseteq SigRow /\ w.tx.values \subseteq AnnotRow
    BY <1>5, <1>6, <1>7, <1>8, <1>9
  <2>2. w.tx \in [sigs : SUBSET SigRow, annots : SUBSET AnnotRow, values : SUBSET AnnotRow]
    BY <1>6, <2>1
  <2> QED
    BY <1>4, <2>2 DEF RunTyped
<1>11. Linked(w.tx)
  <2> SUFFICES ASSUME NEW a \in w.tx.annots
               PROVE  \E g \in w.tx.sigs : g.id = a.id /\ g.sig = a.sig
    BY DEF Linked
  <2>1. a.sig = r.sig \/ a \in r.tx.annots
    BY <1>6, <1>9
  <2>2. CASE a.sig = r.sig
    <3>1. a \in r.batch \cup { b \in r.tx.annots : b.sig = r.sig }
      BY <1>6, <2>2
    <3>2. PICK j \in Passed(r) : a = [id |-> r.id, sig |-> r.sig, log |-> j]
      BY <1>1, <3>1 DEF ScanHolds
    <3>3. r.n # 0
      <4>1. Passed(r) \in SUBSET Ids
        BY DEF Passed, Candidates
      <4>2. IsFiniteSet(Passed(r)) /\ Passed(r) # {}
        BY <3>2, <4>1, RowsAreFinite
      <4> QED
        BY <1>1, <4>2, FS_EmptySet DEF ScanHolds
    <3>4. g1 \in w.tx.sigs
      BY <1>6, <1>7, <3>3
    <3> QED
      BY <1>8, <3>2, <3>4
  <2>3. CASE a.sig # r.sig
    <3>1. a \in r.tx.annots
      BY <2>1, <2>3
    <3>2. PICK g \in r.tx.sigs : g.id = a.id /\ g.sig = a.sig
      BY <3>1 DEF TxHolds, Linked
    <3>3. g \in w.tx.sigs
      BY <1>6, <2>3, <3>2
    <3> QED
      BY <3>2, <3>3
  <2> QED
    BY <2>2, <2>3
<1>12. Valued(w.tx)
  <2>1. \A b \in r.batch : LogRows[b.log].message \notin Kb[b.sig].extract
    BY <1>1, <1>9 DEF ScanHolds
  <2> QED
    BY <1>6, <2>1 DEF TxHolds, Valued
<1>13. \A g \in w.tx.sigs : Exact(w.tx, g)
  <2>1. ASSUME NEW g \in r.tx.sigs, g.sig # r.sig
        PROVE  Exact(w.tx, g)
    <3>1. Exact(r.tx, g)
      BY <2>1 DEF TxHolds
    <3>2. RowsIn(w.tx, g) = RowsIn(r.tx, g)
      BY <1>6, <1>9, <2>1 DEF RowsIn
    <3> QED
      BY <3>1, <3>2 DEF Exact
  <2>2. Exact(w.tx, g1)
    <3>1. Passed(r) = Found(Kb[r.sig])
      BY <1>1, SelectedIsSaid DEF Passed
    <3>2. \A b \in r.tx.annots \cup r.batch : b.id = r.id
      BY <1>9 DEF TxHolds
    <3>3. { b \in w.tx.annots : b.id = g1.id /\ b.sig = g1.sig }
            = r.batch \cup { b \in r.tx.annots : b.sig = r.sig }
      BY <1>6, <1>8, <1>9, <3>2
    <3>4. { b \in w.tx.annots : b.id = g1.id /\ b.sig = g1.sig }
            = { [id |-> r.id, sig |-> r.sig, log |-> j] : j \in Passed(r) }
      BY <1>1, <3>3 DEF ScanHolds
    <3>5. RowsIn(w.tx, g1) = Passed(r)
      <4>1. RowsIn(w.tx, g1)
              = { b.log : b \in { [id |-> r.id, sig |-> r.sig, log |-> j] : j \in Passed(r) } }
        BY <3>4 DEF RowsIn
      <4>2. \A j : j \in RowsIn(w.tx, g1) <=> j \in Passed(r)
        <5>1. \A j \in Passed(r) : [id |-> r.id, sig |-> r.sig, log |-> j].log = j
          OBVIOUS
        <5> QED
          BY <4>1, <5>1
      <4> QED
        BY <4>2
    <3> QED
      BY <1>1, <1>8, <3>1, <3>5 DEF Exact, ScanHolds
  <2>3. \A g \in w.tx.sigs : g = g1 \/ (g \in r.tx.sigs /\ g.sig # r.sig)
    BY <1>6, <1>7
  <2> QED
    BY <2>1, <2>2, <2>3
<1>14. \A x \in w.tx.sigs \cup w.tx.annots : x.id = w.id /\ x.sig \notin w.todo
  BY <1>1, <1>4, <1>6, <1>7, <1>8, <1>9 DEF TxHolds, ScanHolds
<1> QED
  BY <1>4, <1>10, <1>11, <1>12, <1>13, <1>14 DEF TxHolds

\* Exact tables have at most one row for a call and a signature.
LEMMA CountsAreTyped ==
  ASSUME NEW d \in [sigs : SUBSET SigRow, annots : SUBSET AnnotRow, values : SUBSET AnnotRow],
         TablesExact(d)
  PROVE  Counts(d) \in CountsSet
<1>0. MaxCalls \in Nat /\ Len(Kb) \in Nat /\ SigIndex = 1..Len(Kb)
  BY AnnotationAssumption DEF SigIndex
<1>1. Cardinality({ a.log : a \in d.annots }) \in 0..Len(LogRows)
  <2>1. { a.log : a \in d.annots } \in SUBSET Ids
    BY DEF AnnotRow
  <2> QED
    BY <2>1, RowsAreFinite
<1>2. Cardinality(d.sigs) \in 0..(MaxCalls * Len(Kb))
  <2> DEFINE P == (1..MaxCalls) \X (1..Len(Kb))
             f == [g \in d.sigs |-> <<g.id, g.sig>>]
  <2>1. IsFiniteSet(P) /\ Cardinality(P) = MaxCalls * Len(Kb)
    <3>1. /\ 1 \in Int /\ MaxCalls \in Int /\ Len(Kb) \in Int
      BY <1>0
    <3>2. /\ IsFiniteSet(1..MaxCalls)
          /\ Cardinality(1..MaxCalls) = IF 1 > MaxCalls THEN 0 ELSE MaxCalls - 1 + 1
      BY <3>1, FS_Interval, Zenon
    <3>3. /\ IsFiniteSet(1..Len(Kb))
          /\ Cardinality(1..Len(Kb)) = IF 1 > Len(Kb) THEN 0 ELSE Len(Kb) - 1 + 1
      BY <3>1, FS_Interval, Zenon
    <3>4. Cardinality(1..MaxCalls) = MaxCalls /\ Cardinality(1..Len(Kb)) = Len(Kb)
      BY <1>0, <3>2, <3>3
    <3> DEFINE S == 1..MaxCalls
               T == 1..Len(Kb)
    <3>5. IsFiniteSet(S) /\ IsFiniteSet(T) /\ Cardinality(S) = MaxCalls /\ Cardinality(T) = Len(Kb)
      BY <3>2, <3>3, <3>4
    <3>6. P = S \X T
      OBVIOUS
    <3> HIDE DEF S, T, P
    <3>7. IsFiniteSet(S \X T) /\ Cardinality(S \X T) = Cardinality(S) * Cardinality(T)
      BY <3>5, FS_Product
    <3> QED
      BY <3>5, <3>6, <3>7
  <2>2. f \in Injection(d.sigs, P)
    <3>1. \A g \in d.sigs : f[g] \in P
      BY <1>0 DEF SigRow
    <3>2. ASSUME NEW g \in d.sigs, NEW h \in d.sigs, f[g] = f[h]
          PROVE  g = h
      <4>1. g.id = h.id /\ g.sig = h.sig
        BY <3>2
      <4>2. RowsIn(d, g) = RowsIn(d, h)
        BY <4>1 DEF RowsIn
      <4>3. g.count = h.count
        BY <4>2 DEF TablesExact, Exact
      <4> QED
        BY <4>1, <4>3 DEF SigRow
    <3> QED
      BY <3>1, <3>2 DEF Injection, IsInjective
  <2>3. IsFiniteSet(d.sigs) /\ Cardinality(d.sigs) <= Cardinality(P)
    BY <2>1, <2>2, FS_Injection
  <2>4. Cardinality(d.sigs) \in Nat
    BY <2>3, FS_CardinalityType
  <2>5. MaxCalls * Len(Kb) \in Nat
    BY <1>0
  <2> QED
    BY <2>1, <2>3, <2>4, <2>5
<1> QED
  BY <1>1, <1>2 DEF Counts, CountsSet

\* One call moves.  It keeps its id while it works, and what it writes bears it.
LEMMA OneCallMoves ==
  ASSUME AnnotatingInv, NEW p \in Annotators, NEW w, run' = [run EXCEPT ![p] = w],
         RunTyped(w), Working(w) => TxHolds(w),
         AnnotationTypeOK',
         db' \in [sigs : SUBSET SigRow, annots : SUBSET AnnotRow, values : SUBSET AnnotRow],
         TablesExact(db'), calls' \in {calls, calls + 1},
         Working(w) => \/ Working(run[p]) /\ w.id = run[p].id
                       \/ calls' = calls + 1 /\ w.id = calls + 1,
         \A x \in db'.sigs \cup db'.annots :
           \/ x \in db.sigs \cup db.annots
           \/ Working(run[p]) /\ ~Working(w) /\ x.id = run[p].id
  PROVE  AnnotatingInv'
<1>1. DOMAIN run = Annotators /\ calls \in Nat /\ calls <= MaxCalls /\ MaxCalls \in Nat
  BY AnnotationAssumption DEF AnnotatingInv, TypesHold, AnnotationTypeOK
<1>2. DOMAIN run' = Annotators /\ run'[p] = w /\ \A q \in Annotators \ {p} : run'[q] = run[q]
  BY <1>1
<1>3. TypesHold'
  <2>1. \A q \in Annotators : RunTyped(run'[q])
    BY <1>2 DEF AnnotatingInv, TypesHold
  <2> QED
    BY <1>2, <2>1 DEF TypesHold, RunTyped
<1>4. \A q \in Annotators : Working(run'[q]) => TxHolds(run'[q])
  BY <1>2 DEF AnnotatingInv
<1>5. IdsApart'
  <2>1. IdsApart
    BY DEF AnnotatingInv
  <2>2. \A x \in db'.sigs \cup db'.annots : x.id \in 1..calls'
    BY <1>1, <2>1 DEF IdsApart
  <2>3. ASSUME NEW q \in Annotators, Working(run'[q])
        PROVE  run'[q].id \in 1..calls' /\ \A x \in db'.sigs \cup db'.annots : x.id # run'[q].id
    <3>1. CASE q = p
      BY <1>1, <1>2, <2>1, <2>3, <3>1 DEF IdsApart
    <3>2. CASE q # p
      BY <1>1, <1>2, <2>1, <2>3, <3>2 DEF IdsApart
    <3> QED
      BY <3>1, <3>2
  <2>4. ASSUME NEW q \in Annotators, NEW s \in Annotators, Working(run'[q]), Working(run'[s]), q # s
        PROVE  run'[q].id # run'[s].id
    BY <1>1, <1>2, <2>1, <2>4 DEF IdsApart
  <2>5. \A q, s \in Annotators : Working(run'[q]) /\ Working(run'[s]) /\ q # s
                                   => run'[q].id # run'[s].id
    BY <2>4
  <2> QED
    BY <2>2, <2>3, <2>5 DEF IdsApart
<1> QED
  BY <1>3, <1>4, <1>5 DEF AnnotatingInv

\* Nothing but the call of one process moves.
LEMMA RunMoves ==
  ASSUME AnnotatingInv, NEW p \in Annotators, NEW w, run' = [run EXCEPT ![p] = w],
         RunTyped(w), Working(w) => TxHolds(w) /\ Working(run[p]) /\ w.id = run[p].id,
         UNCHANGED <<db, version, calls>>, writer' \in {writer, None, p}, torn' \in BOOLEAN,
         cache' \in {cache, None} \/ cache' \in CountsSet
  PROVE  AnnotatingInv'
<1>1. DOMAIN run = Annotators /\ TypesHold
  BY DEF AnnotatingInv, TypesHold
<1>2. run'[p] = w /\ \A q \in Annotators \ {p} : run'[q] = run[q]
  BY <1>1
<1>3. AnnotationTypeOK'
  <2>1. \A q \in Annotators : run'[q].pc \in
        {"idle", "next", "scan", "commit", "delete", "summarise", "count", "store", "drop"}
    BY <1>1, <1>2 DEF TypesHold, AnnotationTypeOK, RunTyped, RefreshPc
  <2>2. cache' \in {None, Unparsed} \cup CountsSet
    BY <1>1 DEF TypesHold, AnnotationTypeOK, CountsSet
  <2>3. writer' \in Annotators \cup {None}
    BY <1>1 DEF TypesHold, AnnotationTypeOK
  <2> QED
    BY <1>1, <2>1, <2>2, <2>3 DEF TypesHold, AnnotationTypeOK, CountsSet
<1>4. db' \in [sigs : SUBSET SigRow, annots : SUBSET AnnotRow, values : SUBSET AnnotRow]
      /\ TablesExact(db')
  BY <1>1 DEF TypesHold, AnnotatingInv
<1>5. \A x \in db'.sigs \cup db'.annots : x \in db.sigs \cup db.annots
  OBVIOUS
<1> QED
  BY <1>3, <1>4, <1>5, OneCallMoves

LEMMA WorkingIds ==
  ASSUME AnnotatingInv, NEW p \in Annotators, Working(run[p])
  PROVE  RunTyped(run[p]) /\ TxHolds(run[p]) /\ run[p].id \in 1..MaxCalls
<1>1. run[p].id \in 1..calls /\ calls \in 0..MaxCalls /\ MaxCalls \in Nat
  BY AnnotationAssumption DEF AnnotatingInv, IdsApart, TypesHold, AnnotationTypeOK
<1> QED
  BY <1>1 DEF AnnotatingInv, TypesHold

\* A call with an empty transaction.
Started(pc, id, todo) == [Idle EXCEPT !.pc = pc, !.id = id, !.todo = todo]

LEMMA NothingWritten ==
  ASSUME NEW pc \in {"idle", "next"} \cup (RefreshPc \ {"count", "store"}), NEW id \in 0..MaxCalls,
         NEW todo \in SUBSET SigIndex
  PROVE  LET w == Started(pc, id, todo) IN RunTyped(w) /\ TxHolds(w) /\ w.pc = pc /\ w.id = id
<1> DEFINE w == Started(pc, id, todo)
<1>1. /\ DOMAIN w = DOMAIN Idle /\ w.pc = pc /\ w.id = id /\ w.todo = todo /\ w.rows = {}
      /\ w.n = 0 /\ w.batch = {} /\ w.tx = NoRows
  BY DEF Idle, Started
<1> HIDE DEF w
<1>2. 0 \in 0..Len(LogRows)
  BY AnnotationAssumption
<1>3. pc \in {"idle", "next"} \cup RefreshPc /\ pc \notin {"count", "store", "scan"}
  BY DEF RefreshPc
<1>4. NoRows \in [sigs : SUBSET SigRow, annots : SUBSET AnnotRow, values : SUBSET AnnotRow]
  BY DEF NoRows
<1>5. RunTyped(w)
  BY <1>1, <1>2, <1>3, <1>4 DEF RunTyped
<1>6. TxHolds(w)
  BY <1>1, <1>3 DEF TxHolds, Linked, Valued, NoRows
<1> QED
  BY <1>1, <1>5, <1>6 DEF w

\* A signature is begun, passed through or ended.
LEMMA AnnotatingStep ==
  ASSUME AnnotatingInv, NEW p \in Annotators,
         \/ NextSignature(p) \/ EndSignature(p)
         \/ \E i \in Ids : ScanRow(p, i)
  PROVE  AnnotatingInv'
<1> DEFINE r == run[p]
<1>1. Working(r)
  BY DEF NextSignature, ScanRow, EndSignature, Working
<1>2. RunTyped(r) /\ TxHolds(r) /\ r.id \in 1..MaxCalls
  BY <1>1, WorkingIds
<1>3. torn \in BOOLEAN
  BY DEF AnnotatingInv, TypesHold, AnnotationTypeOK
<1>4. ASSUME NEW w, run' = [run EXCEPT ![p] = w], RunTyped(w), TxHolds(w), w.id = r.id,
             UNCHANGED <<db, version, calls, torn, cache>>, writer' \in {writer, p}
      PROVE  AnnotatingInv'
  <2> HIDE DEF r
  <2>1. Working(w) => TxHolds(w) /\ Working(run[p]) /\ w.id = run[p].id
    BY <1>1, <1>4 DEF r
  <2> QED
    BY <1>3, <1>4, <2>1, RunMoves
<1>5. CASE NextSignature(p)
  <2>1. PICK k \in r.todo :
          run' = [run EXCEPT ![p] = [r EXCEPT !.pc = "scan", !.todo = @ \ {k}, !.sig = k,
                                       !.rows = Candidates(Kb[k]), !.n = 0, !.batch = {}]]
    BY <1>5 DEF NextSignature, Put
  <2> DEFINE w == [r EXCEPT !.pc = "scan", !.todo = @ \ {k}, !.sig = k,
                            !.rows = Candidates(Kb[k]), !.n = 0, !.batch = {}]
  <2>2. r.pc = "next" /\ UNCHANGED <<db, version, calls, torn, cache, writer>>
    BY <1>5 DEF NextSignature
  <2>3. RunTyped(w) /\ TxHolds(w)
    BY <1>2, <2>2, CursorOpens
  <2>4. w.id = r.id
    BY <1>2 DEF RunTyped, Idle
  <2> HIDE DEF w
  <2> QED
    BY <1>4, <2>1, <2>2, <2>3, <2>4 DEF w
<1>6. ASSUME NEW i \in Ids, ScanRow(p, i)
      PROVE  AnnotatingInv'
  <2> DEFINE s == Kb[r.sig]
             skip == [r EXCEPT !.rows = @ \ {i}]
             hit == Matched(r, i)
  <2>1. /\ r.pc = "scan" /\ i \in r.rows /\ UNCHANGED <<db, version, calls, torn, cache>>
        /\ \/ ~RegexHits(s, i) /\ run' = [run EXCEPT ![p] = skip] /\ writer' = writer
           \/ RegexHits(s, i) /\ run' = [run EXCEPT ![p] = hit] /\ writer' = p
    BY <1>6, Zenon DEF ScanRow, Put, RowOf, SignatureRow, Matched
  <2>2. CASE ~RegexHits(s, i) /\ run' = [run EXCEPT ![p] = skip] /\ writer' = writer
    <3>1. RunTyped(skip) /\ TxHolds(skip)
      BY <1>2, <2>1, <2>2, RowIsSkipped
    <3>2. skip.id = r.id
      BY <1>2 DEF RunTyped, Idle
    <3> HIDE DEF skip
    <3> QED
      BY <1>4, <2>1, <2>2, <3>1, <3>2
  <2>3. CASE RegexHits(s, i) /\ run' = [run EXCEPT ![p] = hit] /\ writer' = p
    <3>1. RunTyped(hit) /\ TxHolds(hit)
      BY <1>2, <2>1, <2>3, RowIsMatched
    <3>2. hit.id = r.id
      BY <1>2 DEF RunTyped, Idle, Matched
    <3> HIDE DEF hit
    <3> QED
      BY <1>4, <2>1, <2>3, <3>1, <3>2
  <2> QED
    BY <2>1, <2>2, <2>3
<1>7. CASE EndSignature(p)
  <2> DEFINE mine == { g \in r.tx.sigs : g.sig = r.sig }
             w == [r EXCEPT !.pc = "next", !.batch = {},
                      !.tx = [sigs   |-> (@.sigs \ mine) \cup
                                         { [g EXCEPT !.count = r.n] : g \in mine },
                              annots |-> @.annots \cup r.batch,
                              values |-> @.values]]
  <2>1. /\ r.pc = "scan" /\ r.rows = {} /\ run' = [run EXCEPT ![p] = w]
        /\ UNCHANGED <<db, version, calls, torn, cache, writer>>
    BY <1>7 DEF EndSignature, Put
  <2>2. RunTyped(w) /\ TxHolds(w)
    BY <1>2, <2>1, SignatureEnds
  <2>3. w.id = r.id
    BY <1>2 DEF RunTyped, Idle
  <2> HIDE DEF w
  <2> QED
    BY <1>4, <2>1, <2>2, <2>3
<1> QED
  BY <1>5, <1>6, <1>7

\* A call starts: there is nothing of its own in the tables.
LEMMA CallStarts ==
  ASSUME AnnotatingInv, NEW p \in Annotators,
         \/ \E ids, tags : Annotate(p, ids, tags)
         \/ ClearAnnotations(p)
  PROVE  AnnotatingInv'
<1>0. TypesHold /\ TablesExact(db)
  BY DEF AnnotatingInv
<1>1. /\ calls' = calls + 1 /\ calls' \in 0..MaxCalls /\ torn' \in BOOLEAN
      /\ UNCHANGED <<cache, writer, version>>
  <2>1. calls \in 0..MaxCalls /\ MaxCalls \in Nat /\ torn \in BOOLEAN
    BY <1>0, AnnotationAssumption DEF TypesHold, AnnotationTypeOK
  <2> QED
    <3>1. calls' = calls + 1 /\ calls < MaxCalls /\ UNCHANGED <<cache, writer, version>>
      BY DEF Annotate, ClearAnnotations
    <3>2. torn' \in BOOLEAN
      BY <2>1, Zenon DEF Annotate, ClearAnnotations
    <3> QED
      BY <2>1, <3>1, <3>2
<1>2. ASSUME NEW pc \in {"next", "summarise"}, NEW todo \in SUBSET SigIndex, NEW w,
             w = Started(pc, calls + 1, todo),
             run' = [run EXCEPT ![p] = w],
             db' \in [sigs : SUBSET SigRow, annots : SUBSET AnnotRow, values : SUBSET AnnotRow],
             TablesExact(db'), db' \in {db, NoRows}
      PROVE  AnnotatingInv'
  <2>1. RunTyped(w) /\ TxHolds(w) /\ w.pc = pc /\ w.id = calls + 1
    <3>1. calls + 1 \in 0..MaxCalls /\ pc \in {"idle", "next"} \cup (RefreshPc \ {"count", "store"})
      BY <1>1, <1>2 DEF RefreshPc
    <3> DEFINE id == calls + 1
    <3>2. w = Started(pc, id, todo)
      BY <1>2
    <3>3. id \in 0..MaxCalls
      BY <3>1
    <3> HIDE DEF id, Idle
    <3>4. RunTyped(w) /\ TxHolds(w) /\ w.pc = pc /\ w.id = id
      BY <3>1, <3>2, <3>3, NothingWritten
    <3> QED
      BY <3>4 DEF id
  <2>2. /\ DOMAIN run = Annotators /\ run'[p] = w
        /\ \A q \in Annotators \ {p} : run'[q] = run[q]
    BY <1>0, <1>2 DEF TypesHold
  <2>3. AnnotationTypeOK'
    <3>1. \A q \in Annotators : run'[q].pc \in
          {"idle", "next", "scan", "commit", "delete", "summarise", "count", "store", "drop"}
      BY <1>0, <1>2, <2>1, <2>2 DEF TypesHold, AnnotationTypeOK
    <3>2. /\ db'.annots \subseteq AnnotRow /\ db'.values \subseteq AnnotRow
          /\ db'.sigs \subseteq SigRow
      BY <1>2
    <3> QED
      BY <1>0, <1>1, <3>1, <3>2 DEF TypesHold, AnnotationTypeOK, AnnotRow, SigRow
  <2>4. \A x \in db'.sigs \cup db'.annots : x \in db.sigs \cup db.annots
    BY <1>2 DEF NoRows
  <2> HIDE DEF Idle
  <2> QED
    BY <1>1, <1>2, <2>1, <2>3, <2>4, OneCallMoves
<1>3. ASSUME NEW ids, NEW tags, Annotate(p, ids, tags)
      PROVE  AnnotatingInv'
  <2> DEFINE todo == Applicable(Selected(ids, tags), version)
             w == Started("next", calls + 1, todo)
  <2>1. todo \in SUBSET SigIndex
    BY DEF Applicable, Selected
  <2>2. run' = [run EXCEPT ![p] = w] /\ db' = db
    BY <1>3 DEF Annotate, Put, Started
  <2>3. db' \in [sigs : SUBSET SigRow, annots : SUBSET AnnotRow, values : SUBSET AnnotRow]
        /\ TablesExact(db')
    BY <1>0, <2>2 DEF TypesHold
  <2> HIDE DEF todo
  <2> QED
    BY <1>2, <2>1, <2>2, <2>3
<1>4. CASE ClearAnnotations(p)
  <2> DEFINE w == Started("summarise", calls + 1, {})
  <2>1. run' = [run EXCEPT ![p] = w] /\ db' = NoRows
    <3>1. w = [Idle EXCEPT !.pc = "summarise", !.id = calls + 1]
      <4>1. /\ DOMAIN Idle = {"pc", "id", "todo", "sig", "rows", "n", "batch", "tx", "seen"}
            /\ Idle.todo = {} /\ Idle = [f \in DOMAIN Idle |-> Idle[f]]
        BY DEF Idle
      <4> QED
        BY <4>1 DEF Started
    <3> QED
      BY <1>4, <3>1 DEF ClearAnnotations, Put
  <2>2. db' \in [sigs : SUBSET SigRow, annots : SUBSET AnnotRow, values : SUBSET AnnotRow]
        /\ TablesExact(db')
    BY <2>1 DEF NoRows, TablesExact, Linked, Valued
  <2> QED
    BY <1>2, <2>1, <2>2
<1> QED
  BY <1>3, <1>4

\* A transaction is committed: under an id the tables did not have, so theirs stay exact.
LEMMA TablesJoin ==
  ASSUME NEW d, NEW e,
         d \in [sigs : SUBSET SigRow, annots : SUBSET AnnotRow, values : SUBSET AnnotRow],
         e \in [sigs : SUBSET SigRow, annots : SUBSET AnnotRow, values : SUBSET AnnotRow],
         TablesExact(d), TablesExact(e),
         \A x \in d.sigs \cup d.annots, y \in e.sigs \cup e.annots : x.id # y.id,
         NEW b, b = [sigs   |-> d.sigs \cup e.sigs,
                     annots |-> d.annots \cup e.annots,
                     values |-> d.values \cup e.values]
  PROVE  /\ b \in [sigs : SUBSET SigRow, annots : SUBSET AnnotRow, values : SUBSET AnnotRow]
         /\ TablesExact(b)
<1>1. /\ b.sigs = d.sigs \cup e.sigs /\ b.annots = d.annots \cup e.annots
      /\ b.values = d.values \cup e.values
  OBVIOUS
<1>2. b \in [sigs : SUBSET SigRow, annots : SUBSET AnnotRow, values : SUBSET AnnotRow]
  OBVIOUS
<1>3. ASSUME NEW g \in d.sigs
      PROVE  Exact(b, g)
  <2>1. RowsIn(b, g) = RowsIn(d, g)
    BY <1>1 DEF RowsIn
  <2> QED
    BY <2>1 DEF TablesExact, Exact
<1>4. ASSUME NEW g \in e.sigs
      PROVE  Exact(b, g)
  <2>1. RowsIn(b, g) = RowsIn(e, g)
    BY <1>1 DEF RowsIn
  <2> QED
    BY <2>1 DEF TablesExact, Exact
<1>5. Linked(b)
  BY <1>1 DEF TablesExact, Linked
<1>6. Valued(b)
  BY <1>1 DEF TablesExact, Valued
<1> QED
  BY <1>1, <1>2, <1>3, <1>4, <1>5, <1>6 DEF TablesExact

LEMMA CommitStep ==
  ASSUME AnnotatingInv, NEW p \in Annotators, Commit(p)
  PROVE  AnnotatingInv'
<1> DEFINE r == run[p]
           w == [r EXCEPT !.pc = "summarise", !.tx = NoRows]
<1>1. r.pc = "next" /\ r.todo = {} /\ run' = [run EXCEPT ![p] = w]
      /\ db' = [sigs   |-> db.sigs \cup r.tx.sigs,
                annots |-> db.annots \cup r.tx.annots,
                values |-> db.values \cup r.tx.values]
      /\ writer' \in {writer, None} /\ calls' = calls /\ cache' = cache /\ version' = version
  BY DEF Commit, Put
<1>2. RunTyped(r) /\ TxHolds(r) /\ Working(r)
  BY <1>1, WorkingIds DEF Working
<1>3. r.tx \in [sigs : SUBSET SigRow, annots : SUBSET AnnotRow, values : SUBSET AnnotRow]
      /\ TablesExact(r.tx)
  BY <1>1, <1>2 DEF RunTyped, TxHolds, TablesExact
<1>4. /\ db \in [sigs : SUBSET SigRow, annots : SUBSET AnnotRow, values : SUBSET AnnotRow]
      /\ TablesExact(db) /\ IdsApart /\ TypesHold
  BY DEF AnnotatingInv, TypesHold
<1>5. \A x \in r.tx.sigs \cup r.tx.annots : x.id = r.id
  BY <1>2 DEF TxHolds
<1>6. \A x \in db.sigs \cup db.annots : x.id # r.id
  BY <1>2, <1>4 DEF IdsApart
<1>7. /\ db' \in [sigs : SUBSET SigRow, annots : SUBSET AnnotRow, values : SUBSET AnnotRow]
      /\ TablesExact(db')
  <2> DEFINE e == r.tx
  <2>1. \A x \in db.sigs \cup db.annots, y \in e.sigs \cup e.annots : x.id # y.id
    BY <1>5, <1>6
  <2>2. e \in [sigs : SUBSET SigRow, annots : SUBSET AnnotRow, values : SUBSET AnnotRow]
        /\ TablesExact(e)
    BY <1>3
  <2>3. db' = [sigs |-> db.sigs \cup e.sigs, annots |-> db.annots \cup e.annots,
               values |-> db.values \cup e.values]
    BY <1>1
  <2> HIDE DEF e
  <2> QED
    BY <1>4, <2>1, <2>2, <2>3, TablesJoin
<1>8. RunTyped(w) /\ w.pc = "summarise" /\ ~Working(w)
  <2>1. /\ DOMAIN w = DOMAIN r /\ w.pc = "summarise" /\ w.todo = r.todo /\ w.rows = r.rows
        /\ w.n = r.n /\ w.id = r.id /\ w.batch = r.batch /\ w.tx = NoRows
    BY <1>2 DEF RunTyped, Idle
  <2>2. NoRows \in [sigs : SUBSET SigRow, annots : SUBSET AnnotRow, values : SUBSET AnnotRow]
    BY DEF NoRows
  <2> HIDE DEF w
  <2> QED
    BY <1>2, <2>1, <2>2 DEF RunTyped, RefreshPc, Working
<1> HIDE DEF w
<1>9. AnnotationTypeOK'
  <2>1. run'[p] = w /\ \A q \in Annotators \ {p} : run'[q] = run[q]
    BY <1>1, <1>4 DEF TypesHold
  <2>2. \A q \in Annotators : run'[q].pc \in
        {"idle", "next", "scan", "commit", "delete", "summarise", "count", "store", "drop"}
    BY <1>4, <1>8, <2>1 DEF TypesHold, AnnotationTypeOK
  <2>3. /\ db'.annots \subseteq AnnotRow /\ db'.values \subseteq AnnotRow
        /\ db'.sigs \subseteq SigRow
    BY <1>7
  <2>4. writer' \in Annotators \cup {None} /\ torn' \in BOOLEAN
    BY <1>1, <1>4 DEF TypesHold, AnnotationTypeOK, Commit
  <2> QED
    BY <1>1, <1>4, <2>2, <2>3, <2>4 DEF TypesHold, AnnotationTypeOK, AnnotRow, SigRow
<1>10. \A x \in db'.sigs \cup db'.annots :
         \/ x \in db.sigs \cup db.annots
         \/ Working(run[p]) /\ ~Working(w) /\ x.id = run[p].id
  BY <1>1, <1>2, <1>5, <1>8
<1> QED
  BY <1>1, <1>7, <1>8, <1>9, <1>10, OneCallMoves

\* The refresh of the summary writes no table.
LEMMA RefreshStep ==
  ASSUME AnnotatingInv, NEW p \in Annotators,
         \/ Summarise(p) \/ SummaryFails(p) \/ StoreSummary(p) \/ ClearSummary(p)
         \/ Interrupted(p)
  PROVE  AnnotatingInv'
<1> DEFINE r == run[p]
<1>1. RunTyped(r) /\ TypesHold /\ TablesExact(db)
  BY DEF AnnotatingInv, TypesHold
<1>2. /\ torn \in BOOLEAN /\ torn' \in BOOLEAN /\ UNCHANGED <<db, version, calls>>
      /\ writer' \in {writer, None, p}
  BY <1>1 DEF TypesHold, AnnotationTypeOK, Summarise, SummaryFails, StoreSummary, ClearSummary,
     Interrupted
<1>3. Counts(db) \in CountsSet
  BY <1>1, CountsAreTyped DEF TypesHold
<1>4. ASSUME NEW w, run' = [run EXCEPT ![p] = w], RunTyped(w), w.pc \notin {"next", "scan"},
             cache' \in {cache, None} \/ cache' \in CountsSet
      PROVE  AnnotatingInv'
  BY <1>2, <1>4, RunMoves DEF Working
<1>5. RunTyped(Idle) /\ Idle.pc = "idle"
  <2>1. 0 \in 0..Len(LogRows) /\ 0 \in 0..MaxCalls
    BY AnnotationAssumption
  <2> QED
    BY <2>1 DEF Idle, NoRows, RunTyped
<1>6. CASE Summarise(p)
  <2>1. ASSUME NEW c \in CountsSet, NEW pc \in {"count", "store"},
               NEW w, w = [r EXCEPT !.pc = pc, !.seen = c]
        PROVE  RunTyped(w) /\ w.pc \notin {"next", "scan"}
    <3>1. /\ DOMAIN w = DOMAIN r /\ w.pc = pc /\ w.todo = r.todo /\ w.rows = r.rows
          /\ w.n = r.n /\ w.id = r.id /\ w.batch = r.batch /\ w.tx = r.tx /\ w.seen = c
      BY <1>1, <2>1 DEF RunTyped, Idle
    <3> QED
      BY <1>1, <3>1 DEF RunTyped, RefreshPc
  <2>2. CASE r.pc = "summarise" /\ run' = [run EXCEPT ![p] = [r EXCEPT !.pc = "count", !.seen = Counts(db)]]
    <3> DEFINE w == [r EXCEPT !.pc = "count", !.seen = Counts(db)]
    <3>1. RunTyped(w) /\ w.pc \notin {"next", "scan"}
      BY <1>3, <2>1
    <3> HIDE DEF w
    <3> QED
      BY <1>4, <1>6, <2>2, <3>1 DEF w, Summarise
  <2>3. CASE r.pc = "count" /\ run' = [run EXCEPT ![p] = [r EXCEPT !.pc = "store",
                                 !.seen = [@ EXCEPT !.signatures = Counts(db).signatures]]]
    <3> DEFINE c == [r.seen EXCEPT !.signatures = Counts(db).signatures]
               w == [r EXCEPT !.pc = "store", !.seen = c]
    <3>1. c \in CountsSet
      <4>1. r.seen \in CountsSet
        BY <1>1, <2>3 DEF RunTyped
      <4> QED
        BY <1>3, <4>1 DEF CountsSet
    <3>2. run' = [run EXCEPT ![p] = w]
      BY <2>3
    <3> HIDE DEF c
    <3>3. RunTyped(w) /\ w.pc \notin {"next", "scan"}
      BY <2>1, <3>1
    <3> HIDE DEF w
    <3> QED
      BY <1>4, <1>6, <3>2, <3>3 DEF Summarise
  <2> QED
    BY <1>6, <2>2, <2>3 DEF Summarise, Put
<1>7. CASE SummaryFails(p)
  <2> DEFINE w == [r EXCEPT !.pc = "drop"]
  <2>1. run' = [run EXCEPT ![p] = w] /\ cache' = cache
    BY <1>7 DEF SummaryFails, Put
  <2>2. RunTyped(w) /\ w.pc \notin {"next", "scan"}
    <3>1. /\ DOMAIN w = DOMAIN r /\ w.pc = "drop" /\ w.todo = r.todo /\ w.rows = r.rows
          /\ w.n = r.n /\ w.id = r.id /\ w.batch = r.batch /\ w.tx = r.tx
      BY <1>1 DEF RunTyped, Idle
    <3> HIDE DEF w
    <3> QED
      BY <1>1, <3>1 DEF RunTyped, RefreshPc
  <2> HIDE DEF w
  <2> QED
    BY <1>4, <2>1, <2>2
<1>8. CASE StoreSummary(p)
  <2>1. run' = [run EXCEPT ![p] = Idle] /\ cache' \in CountsSet
    BY <1>1, <1>8 DEF StoreSummary, Put, RunTyped
  <2> QED
    BY <1>4, <1>5, <2>1
<1>9. CASE ClearSummary(p) \/ Interrupted(p)
  <2>1. run' = [run EXCEPT ![p] = Idle] /\ cache' \in {cache, None}
    BY <1>9 DEF ClearSummary, Interrupted, Put
  <2> QED
    BY <1>4, <1>5, <2>1
<1> QED
  BY <1>6, <1>7, <1>8, <1>9

\* A call that is not refreshing the summary, and does not begin to, leaves it alone.
LEMMA SummaryLeftAlone ==
  ASSUME TypesHold, RefreshInv, NEW p \in Annotators, NEW w, run' = [run EXCEPT ![p] = w],
         run[p].pc \notin RefreshPc, w.pc \notin RefreshPc, db' = db, cache' = cache, torn' = torn
  PROVE  RefreshInv'
<1>1. run'[p] = w /\ \A q \in Annotators \ {p} : run'[q] = run[q]
  BY DEF TypesHold
<1>2. Counts(db') = Counts(db)
  BY DEF Counts
<1>3. "count" \in RefreshPc /\ "store" \in RefreshPc
  BY DEF RefreshPc
<1> QED
  BY <1>1, <1>2, <1>3 DEF RefreshInv

\* The tables change: the call that changed them refreshes, and if another was at it they
\* are torn.
LEMMA SummaryBegins ==
  ASSUME TypesHold, NEW p \in Annotators, NEW w, run' = [run EXCEPT ![p] = w],
         w.pc = "summarise",
         torn' <=> torn \/ \E q \in Annotators \ {p} : run[q].pc \in RefreshPc
  PROVE  RefreshInv'
<1>1. run'[p] = w /\ \A q \in Annotators \ {p} : run'[q] = run[q]
  BY DEF TypesHold
<1>2. w.pc \in RefreshPc /\ "count" \in RefreshPc /\ "store" \in RefreshPc
  BY DEF RefreshPc
<1>3. ~torn' => \A q \in Annotators : run'[q].pc \in RefreshPc => q = p
  BY <1>1
<1>4. ~torn' => \A q \in Annotators : run'[q].pc # "count" /\ run'[q].pc # "store"
  BY <1>1, <1>2, <1>3
<1> QED
  BY <1>1, <1>2, <1>3, <1>4 DEF RefreshInv

\* The one refresh goes on or ends.
LEMMA SummaryGoesOn ==
  ASSUME TypesHold, RefreshInv, NEW p \in Annotators, NEW w, run' = [run EXCEPT ![p] = w],
         run[p].pc \in RefreshPc, db' = db, torn' = torn,
         ~torn /\ w.pc = "count" => w.seen.annotated = Counts(db).annotated,
         ~torn /\ w.pc = "store" => w.seen = Counts(db),
         ~torn /\ w.pc \notin RefreshPc => cache' \in {None, Unparsed, Counts(db)}
  PROVE  RefreshInv'
<1>1. run'[p] = w /\ \A q \in Annotators \ {p} : run'[q] = run[q]
  BY DEF TypesHold
<1>2. Counts(db') = Counts(db)
  BY DEF Counts
<1>3. "count" \in RefreshPc /\ "store" \in RefreshPc
  BY DEF RefreshPc
<1>4. ~torn => \A q \in Annotators \ {p} : run[q].pc \notin RefreshPc
  BY DEF RefreshInv
<1>5. ~torn => \A q \in Annotators : run'[q].pc \in RefreshPc => q = p
  BY <1>1, <1>4
<1>6. ~torn => \A q \in Annotators \ {p} : run'[q].pc # "count" /\ run'[q].pc # "store"
  BY <1>1, <1>3, <1>4
<1> QED
  BY <1>1, <1>2, <1>5, <1>6 DEF RefreshInv

LEMMA AnnotationInitInv == AnnotationInit => AnnotationInv
<1> SUFFICES ASSUME AnnotationInit PROVE AnnotationInv
  OBVIOUS
<1>1. /\ db = NoRows /\ cache \in {None, Unparsed} /\ writer = None /\ version \in Versions
      /\ calls = 0 /\ torn = FALSE /\ run = [p \in Annotators |-> Idle]
  BY DEF AnnotationInit
<1>2. \A p \in Annotators : run[p] = Idle
  BY <1>1
<1>3. db \in [sigs : SUBSET SigRow, annots : SUBSET AnnotRow, values : SUBSET AnnotRow]
      /\ db.sigs = {} /\ db.annots = {} /\ db.values = {}
  BY <1>1 DEF NoRows
<1>4. Idle.pc = "idle" /\ RunTyped(Idle)
  <2>1. 0 \in 0..Len(LogRows) /\ 0 \in 0..MaxCalls
    BY AnnotationAssumption
  <2> QED
    BY <2>1 DEF Idle, NoRows, RunTyped
<1>5. AnnotationTypeOK
  <2>1. torn \in BOOLEAN
    BY DEF AnnotationInit
  <2>2. calls \in 0..MaxCalls
    BY <1>1, AnnotationAssumption
  <2>3. \A p \in Annotators : run[p].pc \in
        {"idle", "next", "scan", "commit", "delete", "summarise", "count", "store", "drop"}
    BY <1>2, <1>4
  <2> QED
    BY <1>1, <1>3, <2>1, <2>2, <2>3 DEF AnnotationTypeOK
<1>6. TypesHold
  BY <1>1, <1>2, <1>3, <1>4, <1>5 DEF TypesHold
<1>7. TablesExact(db) /\ IdsApart
  BY <1>2, <1>3, <1>4 DEF TablesExact, Linked, Valued, IdsApart, Working
<1>8. \A p \in Annotators : ~Working(run[p])
  BY <1>2, <1>4 DEF Working
<1>9. RefreshInv
  BY <1>1, <1>2, <1>4 DEF RefreshInv, RefreshPc
<1> QED
  BY <1>6, <1>7, <1>8, <1>9 DEF AnnotationInv, AnnotatingInv

LEMMA SummaryStep ==
  ASSUME AnnotationInv, AnnotationNext
  PROVE  RefreshInv'
<1>0. TypesHold /\ RefreshInv
  BY DEF AnnotationInv, AnnotatingInv
<1> USE <1>0
<1>1. Idle.pc \notin RefreshPc /\ Idle.pc = "idle"
  BY DEF Idle, RefreshPc
<1>2. PICK p \in Annotators :
        \/ \E ids, tags : Annotate(p, ids, tags)
        \/ NextSignature(p) \/ \E i \in Ids : ScanRow(p, i)
        \/ EndSignature(p) \/ Commit(p)
        \/ ClearAnnotations(p)
        \/ Summarise(p) \/ SummaryFails(p) \/ StoreSummary(p) \/ ClearSummary(p)
        \/ Interrupted(p)
  BY DEF AnnotationNext
<1>3. RunTyped(run[p]) /\ DOMAIN run[p] = DOMAIN Idle
  BY DEF TypesHold, RunTyped
<1> DEFINE w == run'[p]
<1>13. run' = [run EXCEPT ![p] = w]
  BY <1>2 DEF TypesHold, Annotate, NextSignature, ScanRow, EndSignature, Commit, ClearAnnotations,
     Summarise, SummaryFails, StoreSummary, ClearSummary, Interrupted, Put
<1> USE <1>13
<1>14. DOMAIN run = Annotators
  BY DEF TypesHold
<1> HIDE DEF w
<1>4. CASE \E ids, tags : Annotate(p, ids, tags)
  <2>1. w.pc = "next"
    BY <1>4, <1>14 DEF Annotate, Put, Idle, w
  <2>2. run[p].pc \notin RefreshPc /\ w.pc \notin RefreshPc /\ UNCHANGED <<db, cache, torn>>
    BY <1>4, <2>1 DEF Annotate, RefreshPc
  <2> QED
    BY <2>1, <2>2, SummaryLeftAlone
<1>5. CASE NextSignature(p) \/ (\E i \in Ids : ScanRow(p, i)) \/ EndSignature(p)
  <2>1. run[p].pc \in {"next", "scan"} /\ UNCHANGED <<db, cache, torn>>
    BY <1>5 DEF NextSignature, ScanRow, EndSignature
  <2>2. w.pc \in {"next", "scan"}
    <3>1. CASE NextSignature(p)
      BY <1>3, <1>14, <3>1 DEF NextSignature, Put, Idle, w
    <3>2. CASE \E i \in Ids : ScanRow(p, i)
      <4>1. PICK i \in Ids : ScanRow(p, i)
        BY <3>2
      <4>2. \/ run' = [run EXCEPT ![p] = [run[p] EXCEPT !.rows = @ \ {i}]]
            \/ run' = [run EXCEPT ![p] = Matched(run[p], i)]
        BY <4>1, Zenon DEF ScanRow, Put, RowOf, SignatureRow, Matched
      <4>3. Matched(run[p], i).pc = run[p].pc
        BY <1>3 DEF Matched, Idle
      <4> QED
        BY <1>3, <1>14, <2>1, <4>2, <4>3 DEF Idle, w
    <3>3. CASE EndSignature(p)
      BY <1>3, <1>14, <3>3 DEF EndSignature, Put, Idle, w
    <3> QED
      BY <1>5, <3>1, <3>2, <3>3
  <2>3. run[p].pc \notin RefreshPc /\ w.pc \notin RefreshPc
    BY <2>1, <2>2 DEF RefreshPc
  <2> QED
    BY <2>1, <2>2, <2>3, SummaryLeftAlone
<1>6. CASE Commit(p)
  <2>1. w.pc = "summarise"
    BY <1>3, <1>6, <1>14 DEF Commit, Put, Idle, w
  <2>2. torn' <=> torn \/ \E q \in Annotators \ {p} : run[q].pc \in RefreshPc
    BY <1>6, Zenon DEF Commit, RefreshPc
  <2> QED
    BY <2>1, <2>2, SummaryBegins
<1>7. CASE ClearAnnotations(p)
  <2>1. w.pc = "summarise"
    BY <1>7, <1>14 DEF ClearAnnotations, Put, Idle, w
  <2>2. torn' <=> torn \/ \E q \in Annotators \ {p} : run[q].pc \in RefreshPc
    BY <1>7, Zenon DEF ClearAnnotations, RefreshPc
  <2> QED
    BY <2>1, <2>2, SummaryBegins
<1>8. CASE Summarise(p)
  <2>1. UNCHANGED <<db, cache, torn>> /\ run[p].pc \in RefreshPc
    BY <1>8 DEF Summarise, RefreshPc
  <2>2. CASE run[p].pc = "summarise"
    <3>1. w.pc = "count" /\ w.seen = Counts(db)
      <4>1. run' = [run EXCEPT ![p] = [run[p] EXCEPT !.pc = "count", !.seen = Counts(db)]]
        BY <1>8, <2>2 DEF Summarise, Put
      <4> QED
        BY <1>3, <1>14, <4>1 DEF Idle, w
    <3> QED
      BY <2>1, <3>1, SummaryGoesOn DEF RefreshPc
  <2>3. CASE run[p].pc = "count"
    <3>1. w.pc = "store" /\ w.seen = [run[p].seen EXCEPT !.signatures = Counts(db).signatures]
      <4> DEFINE c == [run[p].seen EXCEPT !.signatures = Counts(db).signatures]
      <4>1. run' = [run EXCEPT ![p] = [run[p] EXCEPT !.pc = "store", !.seen = c]]
        BY <1>8, <2>3 DEF Summarise, Put
      <4> HIDE DEF c
      <4>2. w.pc = "store" /\ w.seen = c
        BY <1>3, <1>14, <4>1 DEF Idle, w
      <4> QED
        BY <4>2 DEF c
    <3>2. ~torn => run[p].seen.annotated = Counts(db).annotated
      BY <2>3 DEF RefreshInv
    <3>3. run[p].seen \in CountsSet
      BY <1>3, <2>3 DEF RunTyped
    <3>4. ~torn => w.seen = Counts(db)
      BY <3>1, <3>2, <3>3 DEF CountsSet, Counts
    <3> QED
      BY <2>1, <3>1, <3>4, SummaryGoesOn DEF RefreshPc
  <2> QED
    BY <1>8, <2>2, <2>3 DEF Summarise
<1>9. CASE SummaryFails(p)
  <2>1. UNCHANGED <<db, cache, torn>> /\ run[p].pc \in RefreshPc
    BY <1>9 DEF SummaryFails, RefreshPc
  <2>2. w.pc = "drop"
    BY <1>3, <1>9, <1>14 DEF SummaryFails, Put, Idle, w
  <2> QED
    BY <2>1, <2>2, SummaryGoesOn DEF RefreshPc
<1>10. CASE StoreSummary(p)
  <2>1. UNCHANGED <<db, torn>> /\ run[p].pc \in RefreshPc /\ run' = [run EXCEPT ![p] = Idle]
        /\ cache' = run[p].seen /\ run[p].pc = "store"
    BY <1>10 DEF StoreSummary, RefreshPc, Put
  <2>2. ~torn => cache' = Counts(db)
    BY <2>1 DEF RefreshInv
  <2> QED
    BY <1>1, <2>1, <2>2, SummaryGoesOn
<1>11. CASE ClearSummary(p)
  <2>1. UNCHANGED <<db, torn>> /\ run[p].pc \in RefreshPc /\ run' = [run EXCEPT ![p] = Idle]
        /\ cache' = None
    BY <1>11 DEF ClearSummary, RefreshPc, Put
  <2> QED
    BY <1>1, <2>1, SummaryGoesOn
<1>12. CASE Interrupted(p)
  <2>1. UNCHANGED <<db, cache>> /\ run' = [run EXCEPT ![p] = Idle]
        /\ torn' = (torn \/ run[p].pc \in RefreshPc)
    BY <1>12 DEF Interrupted, Put, RefreshPc
  <2>2. CASE run[p].pc \in RefreshPc
    <3>1. torn'
      BY <2>1, <2>2
    <3> QED
      BY <3>1 DEF RefreshInv
  <2>3. CASE run[p].pc \notin RefreshPc
    <3>1. torn \in BOOLEAN
      BY DEF TypesHold, AnnotationTypeOK
    <3>2. torn' = torn
      BY <2>1, <2>3, <3>1
    <3> QED
      BY <1>1, <2>1, <2>3, <3>2, SummaryLeftAlone
  <2> QED
    BY <2>2, <2>3
<1> QED
  BY <1>2, <1>4, <1>5, <1>6, <1>7, <1>8, <1>9, <1>10, <1>11, <1>12

LEMMA AnnotationStep == AnnotationInv /\ [AnnotationNext]_annotation => AnnotationInv'
<1> SUFFICES ASSUME AnnotationInv, [AnnotationNext]_annotation PROVE AnnotationInv'
  OBVIOUS
<1>1. CASE AnnotationNext
  <2>1. PICK p \in Annotators :
        \/ \E ids, tags : Annotate(p, ids, tags)
        \/ NextSignature(p) \/ \E i \in Ids : ScanRow(p, i)
        \/ EndSignature(p) \/ Commit(p)
        \/ ClearAnnotations(p)
        \/ Summarise(p) \/ SummaryFails(p) \/ StoreSummary(p) \/ ClearSummary(p)
        \/ Interrupted(p)
    BY <1>1 DEF AnnotationNext
  <2>2. AnnotatingInv
    BY DEF AnnotationInv
  <2>3. AnnotatingInv'
    BY <2>1, <2>2, AnnotatingStep, CallStarts, CommitStep, RefreshStep
  <2> QED
    BY <1>1, <2>3, SummaryStep DEF AnnotationInv
<1>2. CASE UNCHANGED annotation
  <2>1. UNCHANGED <<db, cache, writer, run, version, calls, torn>>
    BY <1>2 DEF annotation
  <2>2. TypesHold' /\ IdsApart' /\ TablesExact(db') /\ RefreshInv'
    BY <2>1 DEF AnnotationInv, AnnotatingInv, TypesHold, AnnotationTypeOK, IdsApart, RefreshInv
  <2> QED
    BY <2>1, <2>2 DEF AnnotationInv, AnnotatingInv
<1> QED
  BY <1>1, <1>2

\* Two processes annotate and clear one database, each may be killed between any two
\* statements: what a reader finds of a signature is what its constraints select, counted
\* and with the values its extraction takes (ops/annotation/matcher.py).
THEOREM AnnotationsAreExact == AnnotationSpec => []AnnotatedExactly
<1>1. AnnotationInv => AnnotatedExactly
  BY DEF AnnotationInv, AnnotatingInv, TypesHold, TablesExact, Exact, RowsIn, Found, Linked,
     Valued, AnnotatedExactly
<1> QED
  BY <1>1, AnnotationInitInv, AnnotationStep, PTL DEF AnnotationSpec

\* Unless a refresh was killed or met another, the cached statistics are those of the
\* tables whenever no call is refreshing them (ops/summary/cache.py).
THEOREM SummaryNeverStale == AnnotationSpec => []SummaryIsCurrent
<1>1. AnnotationInv => SummaryIsCurrent
  BY DEF AnnotationInv, RefreshInv, RefreshPc, SummaryIsCurrent, LoadedSummary
<1> QED
  BY <1>1, AnnotationInitInv, AnnotationStep, PTL DEF AnnotationSpec

-----------------------------------------------------------------------------
(* Reading the database *)

\* Logs are ordered by their time and number.
LEMMA LogsAreOrdered ==
  /\ LineIds \subseteq Nat /\ IsFiniteSet(LineIds) /\ Cardinality(LineIds) = Len(Lines)
  /\ Orders(TimeOrder, LineIds)
<1>1. /\ Len(Lines) \in Nat /\ LineIds = 1..Len(Lines)
      /\ \A i \in LineIds : i \in Nat /\ Lines[i].at \in Nat
  BY QueryAssumption
<1>2. IsFiniteSet(LineIds) /\ Cardinality(LineIds) = Len(Lines)
  <2>1. /\ IsFiniteSet(1..Len(Lines))
        /\ Cardinality(1..Len(Lines)) = IF 1 > Len(Lines) THEN 0 ELSE Len(Lines) - 1 + 1
    BY <1>1, FS_Interval
  <2> QED
    BY <1>1, <2>1
<1>3. \A i, j \in LineIds : <<i, j>> \in TimeOrder <=>
        Lines[i].at < Lines[j].at \/ (Lines[i].at = Lines[j].at /\ i < j)
  BY DEF TimeOrder
<1>4. Orders(TimeOrder, LineIds)
  <2>1. \A i \in LineIds : <<i, i>> \notin TimeOrder
    BY <1>1, <1>3
  <2>2. \A i, j \in LineIds : i # j => <<i, j>> \in TimeOrder \/ <<j, i>> \in TimeOrder
    BY <1>1, <1>3
  <2>3. \A i, j, k \in LineIds :
          <<i, j>> \in TimeOrder /\ <<j, k>> \in TimeOrder => <<i, k>> \in TimeOrder
    BY <1>1, <1>3
  <2> QED
    BY <2>1, <2>2, <2>3 DEF Orders
<1> QED
  BY <1>1, <1>2, <1>4

\* The numbers of the marks tell them apart.
LEMMA MarksAreNumbered ==
  /\ \A a \in Marks : MarkNumber[a] \in Nat
  /\ \A a, b \in Marks : MarkNumber[a] = MarkNumber[b] => a = b
<1> DEFINE n == Cardinality(Marks)
           Numbers(f) == \A a, b \in Marks : f[a] = f[b] => a = b
<1>1. n \in Nat /\ ExistsBijection(1..n, Marks)
  BY QueryAssumption, FS_CardinalityType
<1>2. ExistsBijection(Marks, 1..n)
  <2>1. IsFiniteSet(1..n) /\ Cardinality(1..n) = n
    <3>1. /\ IsFiniteSet(1..n)
          /\ Cardinality(1..n) = IF 1 > n THEN 0 ELSE n - 1 + 1
      BY <1>1, FS_Interval
    <3> QED
      BY <1>1, <3>1
  <2> QED
    BY <2>1, QueryAssumption, FS_SameCardinalityBij
<1>3. \E f \in [Marks -> 1..n] : Numbers(f)
  BY <1>2 DEF ExistsBijection, Bijection, Injection, IsInjective
<1>4. MarkNumber \in [Marks -> 1..n] /\ Numbers(MarkNumber)
  BY <1>3 DEF MarkNumber
<1> QED
  BY <1>1, <1>4

\* The rows a join gives.
Joined(ids, m, hasKb) == UNION { RowsOf(i, m, hasKb) : i \in ids }

\* Each row of J is of one of the logs ids, each log has its rows among them, and the rows
\* are ordered.
RowsOfLogs(J, ids, m, hasKb) ==
  /\ IsFiniteSet(J) /\ Orders(RowOrder, J)
  /\ \A x \in J : x.line \in ids
  /\ \A i \in ids : \E x \in J : x.line = i
  /\ \A i \in ids : RowsOf(i, m, hasKb) = { x \in J : x.line = i }

\* Every row is of its log; the rows of one log, when they are several, are marks.
LEMMA RowsAreOfTheirLog ==
  ASSUME NEW ids \in SUBSET LineIds, NEW m \in SUBSET Marks, NEW hasKb
  PROVE  RowsOfLogs(Joined(ids, m, hasKb), ids, m, hasKb)
<1> DEFINE J == Joined(ids, m, hasKb)
<1>1. \A i \in ids : \A x \in RowsOf(i, m, hasKb) : x.line = i /\ x \in m \cup {Bare(i)}
  BY DEF RowsOf, Bare
<1>2. \A i \in ids : RowsOf(i, m, hasKb) # {} /\ RowsOf(i, m, hasKb) \subseteq J
  BY DEF RowsOf, Joined
<1>3. \A x \in J : x.line \in ids /\ x \in RowsOf(x.line, m, hasKb)
  <2> SUFFICES ASSUME NEW x \in J PROVE x.line \in ids /\ x \in RowsOf(x.line, m, hasKb)
    OBVIOUS
  <2>1. PICK i \in ids : x \in RowsOf(i, m, hasKb)
    BY DEF Joined
  <2>2. x.line = i
    BY <1>1, <2>1
  <2> QED
    BY <2>1, <2>2
<1>4. \A i \in ids : \E x \in J : x.line = i
  <2> SUFFICES ASSUME NEW i \in ids PROVE \E x \in J : x.line = i
    OBVIOUS
  <2>1. PICK x \in RowsOf(i, m, hasKb) : TRUE
    BY <1>2
  <2> QED
    BY <1>1, <1>2, <2>1
<1>5. \A i \in ids : RowsOf(i, m, hasKb) = { x \in J : x.line = i }
  <2> SUFFICES ASSUME NEW i \in ids
               PROVE  RowsOf(i, m, hasKb) = { x \in J : x.line = i }
    OBVIOUS
  <2>1. \A x \in RowsOf(i, m, hasKb) : x \in J /\ x.line = i
    BY <1>1, <1>2
  <2>2. \A x \in J : x.line = i => x \in RowsOf(i, m, hasKb)
    BY <1>3
  <2> QED
    BY <2>1, <2>2
<1>6. IsFiniteSet(J)
  <2> DEFINE bare == { Bare(i) : i \in ids }
             f == [i \in ids |-> Bare(i)]
  <2>1. IsFiniteSet(ids) /\ IsFiniteSet(m)
    BY LogsAreOrdered, QueryAssumption, FS_Subset
  <2>2. f \in Bijection(ids, bare)
    BY DEF Bijection, Injection, Surjection, IsInjective, Bare
  <2>3. IsFiniteSet(bare)
    BY <2>1, <2>2, FS_Bijection DEF ExistsBijection
  <2>4. IsFiniteSet(m \cup bare)
    BY <2>1, <2>3, FS_Union
  <2>5. J \in SUBSET (m \cup bare)
    <3>1. \A x \in J : x \in m \cup {Bare(x.line)} /\ x.line \in ids
      BY <1>1, <1>3
    <3> QED
      BY <3>1
  <2> QED
    BY <2>4, <2>5, FS_Subset
<1>7. Orders(RowOrder, J)
  <2>1. \A i \in ids : i \in LineIds
    OBVIOUS
  <2>2. \A x \in J : x \in Marks \cup { Bare(i) : i \in LineIds }
    <3>1. \A x \in J : x \in m \cup {Bare(x.line)} /\ x.line \in LineIds
      BY <1>1, <1>3, <2>1
    <3> QED
      BY <3>1
  <2>3. \A x, y \in J : x # y /\ x.line = y.line => x \in Marks /\ y \in Marks
    <3> SUFFICES ASSUME NEW x \in J, NEW y \in J, x # y, x.line = y.line
                 PROVE  x \in Marks /\ y \in Marks
      OBVIOUS
    <3>1. x \in RowsOf(x.line, m, hasKb) /\ y \in RowsOf(x.line, m, hasKb)
      BY <1>3
    <3> QED
      BY <3>1 DEF RowsOf
  <2>4. \A x, y \in J : <<x, y>> \in RowOrder <=>
          \/ <<x.line, y.line>> \in TimeOrder
          \/ x.line = y.line /\ x \in Marks /\ y \in Marks /\ MarkNumber[x] < MarkNumber[y]
    BY <2>2 DEF RowOrder
  <2>5. \A x \in J : x.line \in LineIds
    BY <1>3
  <2>6. /\ \A i \in LineIds : <<i, i>> \notin TimeOrder
        /\ \A i, j \in LineIds : i # j => <<i, j>> \in TimeOrder \/ <<j, i>> \in TimeOrder
        /\ \A i, j, k \in LineIds :
             <<i, j>> \in TimeOrder /\ <<j, k>> \in TimeOrder => <<i, k>> \in TimeOrder
    BY LogsAreOrdered DEF Orders
  <2> HIDE DEF J
  <2>7. \A x \in J : <<x, x>> \notin RowOrder
    <3> SUFFICES ASSUME NEW x \in J PROVE <<x, x>> \notin RowOrder
      OBVIOUS
    <3>1. <<x.line, x.line>> \notin TimeOrder
      BY <2>5, <2>6
    <3>2. x \in Marks => ~ (MarkNumber[x] < MarkNumber[x])
      BY MarksAreNumbered
    <3> QED
      BY <2>4, <3>1, <3>2
  <2>8. \A x, y \in J : x # y => <<x, y>> \in RowOrder \/ <<y, x>> \in RowOrder
    <3> SUFFICES ASSUME NEW x \in J, NEW y \in J, x # y
                 PROVE  <<x, y>> \in RowOrder \/ <<y, x>> \in RowOrder
      OBVIOUS
    <3>1. CASE x.line # y.line
      BY <2>4, <2>5, <2>6, <3>1
    <3>2. CASE x.line = y.line
      <4>1. x \in Marks /\ y \in Marks
        BY <2>3, <3>2
      <4>2. MarkNumber[x] < MarkNumber[y] \/ MarkNumber[y] < MarkNumber[x]
        BY <4>1, MarksAreNumbered
      <4> QED
        BY <2>4, <3>2, <4>1, <4>2
    <3> QED
      BY <3>1, <3>2
  <2>9. \A x, y, z \in J : <<x, y>> \in RowOrder /\ <<y, z>> \in RowOrder => <<x, z>> \in RowOrder
    <3> SUFFICES ASSUME NEW x \in J, NEW y \in J, NEW z \in J,
                        <<x, y>> \in RowOrder, <<y, z>> \in RowOrder
                 PROVE  <<x, z>> \in RowOrder
      OBVIOUS
    <3>1. x.line \in LineIds /\ y.line \in LineIds /\ z.line \in LineIds
      BY <2>5
    <3>2. CASE <<x.line, y.line>> \in TimeOrder \/ <<y.line, z.line>> \in TimeOrder
      <4>1. /\ <<x.line, y.line>> \in TimeOrder \/ x.line = y.line
            /\ <<y.line, z.line>> \in TimeOrder \/ y.line = z.line
        BY <2>4
      <4>2. <<x.line, z.line>> \in TimeOrder
        BY <2>6, <3>1, <3>2, <4>1
      <4> QED
        BY <2>4, <4>2
    <3>3. CASE <<x.line, y.line>> \notin TimeOrder /\ <<y.line, z.line>> \notin TimeOrder
      <4>1. /\ x.line = y.line /\ x \in Marks /\ y \in Marks /\ MarkNumber[x] < MarkNumber[y]
            /\ y.line = z.line /\ z \in Marks /\ MarkNumber[y] < MarkNumber[z]
        BY <2>4, <3>3
      <4>2. MarkNumber[x] < MarkNumber[z]
        BY <4>1, MarksAreNumbered
      <4> QED
        BY <2>4, <4>1, <4>2
    <3> QED
      BY <3>2, <3>3
  <2> QED
    BY <2>7, <2>8, <2>9 DEF Orders
<1> QED
  BY <1>3, <1>4, <1>5, <1>6, <1>7 DEF RowsOfLogs

\* rows are of ids, those of an earlier log before those of a later one, and each log has some.
Grouped(rows, r, ids, order) ==
  /\ r \in Nat /\ DOMAIN rows = 1..r /\ Len(rows) = r
  /\ \A k \in 1..r : rows[k].line \in ids
  /\ \A j, k \in 1..r :
       j < k => rows[j].line = rows[k].line \/ <<rows[j].line, rows[k].line>> \in order
  /\ \A i \in ids : \E k \in 1..r : rows[k].line = i

\* The rows of log i.
OfLog(rows, r, i) == { rows[k] : k \in { j \in 1..r : rows[j].line = i } }

\* Rolled up, each log appears once, in order, with all the rows it has.
LEMMA RolledUpByLog ==
  ASSUME NEW ids, IsFiniteSet(ids), NEW order, Orders(order, ids),
         NEW rows, NEW r, Grouped(rows, r, ids, order)
  PROVE  RollUp(rows) = [n \in 1..Cardinality(ids) |->
           LogRowOf(ListedBy(ids, order)[n], OfLog(rows, r, ListedBy(ids, order)[n]))]
<1> DEFINE Begins(k) == k = 1 \/ rows[k - 1].line # rows[k].line
           S == { k \in 1..r : Begins(k) }
           s == Enumerated(S)
           c == Cardinality(S)
           f == [n \in 1..c |-> rows[s[n]].line]
           Mine(n) == { j \in 1..r : s[n] <= j /\ (n < c => j < s[n + 1]) }
<1>1. /\ r \in Nat /\ DOMAIN rows = 1..r /\ Len(rows) = r
      /\ \A k \in 1..r : rows[k].line \in ids
      /\ \A j, k \in 1..r :
           j < k => rows[j].line = rows[k].line \/ <<rows[j].line, rows[k].line>> \in order
      /\ \A i \in ids : \E k \in 1..r : rows[k].line = i
  BY DEF Grouped
<1>2. /\ \A i \in ids : <<i, i>> \notin order
      /\ \A i, j, k \in ids : <<i, j>> \in order /\ <<j, k>> \in order => <<i, k>> \in order
  BY DEF Orders
<1>3. IsFiniteSet(1..r)
  BY <1>1, FS_Interval
<1>4. S \subseteq Nat /\ S \subseteq 1..r /\ IsFiniteSet(S)
  <2>1. S \in SUBSET (1..r)
    OBVIOUS
  <2> QED
    BY <1>1, <1>3, <2>1, FS_Subset
<1>5. /\ c \in Nat /\ s \in Seq(S) /\ Len(s) = c /\ DOMAIN s = 1..c
      /\ \A n \in 1..c : s[n] \in S
      /\ \A m, n \in 1..c : m < n <=> s[m] < s[n]
      /\ \A k \in S : \E n \in 1..c : s[n] = k
  <2>1. /\ c \in Nat /\ s \in Seq(S) /\ Len(s) = c
        /\ \A m, n \in 1..c : m < n <=> s[m] < s[n]
        /\ \A k \in S : \E n \in 1..c : s[n] = k
    BY <1>4, EnumeratedListsAll
  <2> HIDE DEF s, c, S
  <2> QED
    BY <2>1, ElementOfSeq, LenProperties
<1>6. RollUp(rows) = [n \in 1..c |-> LogRowOf(f[n], { rows[k] : k \in Mine(n) })]
  <2>1. S = { k \in DOMAIN rows : k = 1 \/ rows[k - 1].line # rows[k].line }
    BY <1>1
  <2>2. RollUp(rows) = [n \in DOMAIN s |-> LogRowOf(rows[s[n]].line,
          { rows[k] : k \in { j \in DOMAIN rows : s[n] <= j /\ (n < Len(s) => j < s[n + 1]) } })]
    BY <2>1 DEF RollUp
  <2> HIDE DEF s, c, S
  <2>3. RollUp(rows) = [n \in 1..c |-> LogRowOf(rows[s[n]].line, { rows[k] : k \in Mine(n) })]
    BY <1>1, <1>5, <2>2
  <2> QED
    BY <2>3
<1>7. \A n \in 1..c : s[n] \in 1..r /\ s[n] \in Nat /\ f[n] = rows[s[n]].line /\ f[n] \in ids
  BY <1>1, <1>4, <1>5
<1>8. ASSUME NEW n \in 1..c, NEW k \in 1..r, k < s[n]
      PROVE  <<rows[k].line, f[n]>> \in order
  <2> DEFINE p == s[n] - 1
  <2>1. s[n] \in S /\ s[n] \in 1..r
    BY <1>4, <1>5
  <2>2. s[n] # 1 /\ p \in 1..r /\ (k = p \/ k < p) /\ p < s[n]
    BY <1>1, <1>8, <2>1
  <2>3. rows[p].line # f[n]
    BY <1>7, <2>1, <2>2
  <2> HIDE DEF p, S, s, c, f
  <2>4. <<rows[p].line, f[n]>> \in order
    BY <1>1, <1>7, <2>2, <2>3
  <2>5. rows[k].line = rows[p].line \/ <<rows[k].line, rows[p].line>> \in order
    BY <1>1, <2>2
  <2> QED
    BY <1>1, <1>2, <1>7, <2>2, <2>4, <2>5
<1> HIDE DEF s, c
<1>9. f = ListedBy(ids, order) /\ c = Cardinality(ids)
  <2>1. \A m, n \in 1..c : m < n => <<f[m], f[n]>> \in order
    BY <1>5, <1>7, <1>8
  <2>2. ASSUME NEW i \in ids PROVE \E n \in 1..c : f[n] = i
    <3> DEFINE K == { k \in 1..r : rows[k].line = i }
    <3>1. K # {}
      BY <1>1
    <3>2. K \subseteq Nat /\ IsFiniteSet(K)
      <4>1. K \in SUBSET (1..r)
        OBVIOUS
      <4> QED
        BY <1>1, <1>3, <4>1, FS_Subset
    <3>3. PICK k \in K : \A j \in K : k <= j
      <4> HIDE DEF K
      <4> QED
        BY <3>1, <3>2, LeastMember
    <3>4. k \in S
      <4>1. CASE k = 1
        BY <4>1
      <4>2. CASE k # 1
        <5>1. k - 1 \in 1..r /\ k - 1 \notin K
          BY <1>1, <3>3, <4>2
        <5> QED
          BY <5>1
      <4> QED
        BY <4>1, <4>2
    <3>5. PICK n \in 1..c : s[n] = k
      BY <1>5, <3>4
    <3> QED
      BY <1>7, <3>5
  <2>3. f \in [1..c -> ids]
    BY <1>7
  <2>4. Lists(f, c, ids, order)
    BY <1>5, <2>1, <2>2, <2>3 DEF Lists
  <2> HIDE DEF f
  <2> QED
    BY <2>4, OneListing
<1>10. ASSUME NEW n \in 1..c, NEW k \in 1..r, rows[k].line = f[n]
       PROVE  k \in Mine(n)
  <2>1. s[n] <= k
    <3>1. ~ (k < s[n])
      BY <1>2, <1>7, <1>8, <1>10
    <3> QED
      BY <1>1, <1>7, <3>1
  <2>2. ASSUME n < c PROVE k < s[n + 1]
    <3>1. n + 1 \in 1..c /\ n < n + 1
      BY <1>5, <2>2
    <3>2. s[n] < s[n + 1]
      BY <1>5, <3>1
    <3>3. <<f[n], f[n + 1]>> \in order
      BY <1>7, <1>8, <3>1, <3>2
    <3>4. s[n + 1] \in 1..r /\ f[n + 1] = rows[s[n + 1]].line /\ f[n + 1] \in ids /\ f[n] \in ids
      BY <1>7, <3>1
    <3> HIDE DEF f
    <3>5. s[n + 1] # k
      BY <1>2, <1>10, <3>3, <3>4
    <3>6. ~ (s[n + 1] < k)
      <4> SUFFICES ASSUME s[n + 1] < k PROVE FALSE
        OBVIOUS
      <4>1. f[n + 1] = f[n] \/ <<f[n + 1], f[n]>> \in order
        BY <1>1, <1>10, <3>4
      <4> QED
        BY <1>2, <3>3, <3>4, <4>1
    <3> QED
      BY <1>1, <3>4, <3>5, <3>6
  <2> QED
    BY <2>1, <2>2
<1>11. ASSUME NEW n \in 1..c, NEW k \in Mine(n)
       PROVE  rows[k].line = f[n]
  <2>0. k \in 1..r /\ s[n] <= k /\ (n < c => k < s[n + 1])
    OBVIOUS
  <2>1. PICK m \in 1..c : f[m] = rows[k].line
    <3>1. rows[k].line \in ids
      BY <1>1, <2>0
    <3>2. ListedBy(ids, order) = f /\ Cardinality(ids) = c
      BY <1>9
    <3> QED
      BY <3>1, <3>2, ListedListsAll
  <2>2. k \in 1..r /\ s[m] <= k /\ (m < c => k < s[m + 1])
    BY <1>10, <2>0, <2>1
  <2> HIDE DEF f
  <2>3. ASSUME NEW a \in 1..c, NEW b \in 1..c, a < b, s[b] <= k, a < c => k < s[a + 1]
        PROVE  FALSE
    <3>1. a + 1 \in 1..c /\ a < c /\ (a + 1 = b \/ a + 1 < b)
      BY <1>5, <2>3
    <3>2. s[a + 1] = s[b] \/ s[a + 1] < s[b]
      BY <1>5, <3>1
    <3>3. s[a + 1] \in Nat /\ s[b] \in Nat /\ k \in Nat
      BY <1>1, <1>7, <2>0, <3>1
    <3> QED
      BY <2>3, <3>1, <3>2, <3>3
  <2>4. ~ (m < n) /\ ~ (n < m)
    BY <2>0, <2>2, <2>3
  <2>5. m = n
    BY <1>5, <2>4
  <2> QED
    BY <2>1, <2>5
<1>12. \A n \in 1..c : { rows[k] : k \in Mine(n) } = OfLog(rows, r, f[n])
  <2> SUFFICES ASSUME NEW n \in 1..c
               PROVE  { rows[k] : k \in Mine(n) } = OfLog(rows, r, f[n])
    OBVIOUS
  <2>1. Mine(n) = { j \in 1..r : rows[j].line = f[n] }
    BY <1>10, <1>11
  <2> QED
    BY <2>1 DEF OfLog
<1> HIDE DEF Mine, f
<1>13. RollUp(rows) = [n \in 1..c |-> LogRowOf(f[n], OfLog(rows, r, f[n]))]
  BY <1>6, <1>12
<1> QED
  BY <1>9, <1>13

\* What a log's rows add up to is what the database says of it.
LEMMA RowsDescribe ==
  ASSUME NEW i, NEW m \in SUBSET Marks, NEW hasKb \in BOOLEAN
  PROVE  LogRowOf(i, RowsOf(i, m, hasKb)) = Described(i, m, hasKb)
<1> DEFINE mine == { a \in m : a.line = i }
           rows == RowsOf(i, m, hasKb)
           said == IF hasKb THEN mine ELSE {}
<1>1. CASE hasKb /\ mine # {}
  <2>1. rows = mine /\ said = mine
    BY <1>1 DEF RowsOf
  <2>2. \A a \in mine : a.sig # Unset
    BY QueryAssumption
  <2> HIDE DEF rows, said, mine
  <2>3. { x.sig : x \in rows } \ {Unset} = { a.sig : a \in said }
    BY <2>1, <2>2
  <2>4. { <<x.label, x.value>> : x \in { y \in rows : y.label # Unset } } =
          { <<a.label, a.value>> : a \in { b \in said : b.label # Unset } }
    BY <2>1
  <2> QED
    BY <2>3, <2>4 DEF LogRowOf, Described, rows, said, mine
<1>2. CASE ~ (hasKb /\ mine # {})
  <2>1. rows = {Bare(i)} /\ said = {}
    BY <1>2 DEF RowsOf
  <2>2. Bare(i).sig = Unset /\ Bare(i).label = Unset
    BY DEF Bare
  <2> HIDE DEF rows, said, mine
  <2>3. { x.sig : x \in rows } \ {Unset} = {} /\ { a.sig : a \in said } = {}
    BY <2>1, <2>2
  <2>4. /\ { <<x.label, x.value>> : x \in { y \in rows : y.label # Unset } } = {}
        /\ { <<a.label, a.value>> : a \in { b \in said : b.label # Unset } } = {}
    BY <2>1, <2>2
  <2> QED
    BY <2>3, <2>4 DEF LogRowOf, Described, rows, said, mine
<1> QED
  BY <1>1, <1>2

\* The rows of the logs ids, one log after the other.
LEMMA JoinedRowsAreGrouped ==
  ASSUME NEW ids \in SUBSET LineIds, NEW m \in SUBSET Marks, NEW hasKb
  PROVE  \E r : /\ Grouped(JoinedRows(ids, m, hasKb), r, ids, TimeOrder)
                /\ \A i \in ids : OfLog(JoinedRows(ids, m, hasKb), r, i) = RowsOf(i, m, hasKb)
<1> DEFINE J == Joined(ids, m, hasKb)
           r == Cardinality(J)
           rows == JoinedRows(ids, m, hasKb)
<1>1. /\ IsFiniteSet(J) /\ Orders(RowOrder, J)
      /\ \A x \in J : x.line \in ids
      /\ \A i \in ids : \E x \in J : x.line = i
      /\ \A i \in ids : RowsOf(i, m, hasKb) = { x \in J : x.line = i }
  BY RowsAreOfTheirLog DEF RowsOfLogs
<1>2. rows = ListedBy(J, RowOrder)
  BY DEF JoinedRows, Joined
<1> HIDE DEF J, rows
<1>3. /\ r \in Nat /\ rows \in Seq(J) /\ Len(rows) = r
      /\ \A j, k \in 1..r : j < k <=> <<rows[j], rows[k]>> \in RowOrder
      /\ \A x \in J : \E k \in 1..r : rows[k] = x
  BY <1>1, <1>2, ListedListsAll
<1> HIDE DEF r
<1>4. DOMAIN rows = 1..r /\ \A k \in 1..r : rows[k] \in J
  BY <1>3, ElementOfSeq, LenProperties
<1>5. \A k \in 1..r : rows[k].line \in ids
  BY <1>1, <1>4
<1>6. \A j, k \in 1..r :
        j < k => rows[j].line = rows[k].line \/ <<rows[j].line, rows[k].line>> \in TimeOrder
  <2>1. \A x, y : <<x, y>> \in RowOrder => x.line = y.line \/ <<x.line, y.line>> \in TimeOrder
    BY DEF RowOrder
  <2> QED
    BY <1>3, <2>1
<1>7. \A i \in ids : \E k \in 1..r : rows[k].line = i
  <2> SUFFICES ASSUME NEW i \in ids PROVE \E k \in 1..r : rows[k].line = i
    OBVIOUS
  <2>1. PICK x \in J : x.line = i
    BY <1>1
  <2> QED
    BY <1>3, <2>1
<1>8. Grouped(rows, r, ids, TimeOrder)
  BY <1>3, <1>4, <1>5, <1>6, <1>7 DEF Grouped
<1>9. ASSUME NEW i \in ids PROVE OfLog(rows, r, i) = RowsOf(i, m, hasKb)
  <2>1. RowsOf(i, m, hasKb) = { x \in J : x.line = i }
    BY <1>1
  <2>2. \A x : x \in OfLog(rows, r, i) <=> \E k \in 1..r : rows[k].line = i /\ x = rows[k]
    BY DEF OfLog
  <2>3. \A x : x \in OfLog(rows, r, i) <=> x \in J /\ x.line = i
    BY <1>3, <1>4, <2>2
  <2> QED
    BY <2>1, <2>3
<1> QED
  BY <1>8, <1>9 DEF rows

\* What is said of the logs ids, in time order.
Told(ids, m, hasKb) == [n \in 1..Cardinality(ids) |-> Described(InOrder(ids)[n], m, hasKb)]

\* The logs of a set, in time order.
LEMMA LogsListed ==
  ASSUME NEW ids \in SUBSET LineIds
  PROVE  /\ IsFiniteSet(ids) /\ Orders(TimeOrder, ids)
         /\ Cardinality(ids) \in 0..Len(Lines)
         /\ InOrder(ids) \in [1..Cardinality(ids) -> ids] /\ DOMAIN InOrder(ids) = 1..Cardinality(ids)
         /\ Lists(InOrder(ids), Cardinality(ids), ids, TimeOrder)
<1>1. IsFiniteSet(ids) /\ Cardinality(ids) <= Len(Lines) /\ Len(Lines) \in Nat
  BY LogsAreOrdered, FS_Subset, QueryAssumption
<1>2. Orders(TimeOrder, ids)
  BY LogsAreOrdered DEF Orders
<1> DEFINE L == InOrder(ids)
           c == Cardinality(ids)
<1>3. /\ c \in Nat /\ L \in Seq(ids) /\ Len(L) = c
      /\ \A m, n \in 1..c : m < n <=> <<L[m], L[n]>> \in TimeOrder
      /\ \A x \in ids : \E n \in 1..c : L[n] = x
  BY <1>1, <1>2, ListedListsAll DEF InOrder
<1> HIDE DEF L, c
<1>4. L \in [1..c -> ids] /\ DOMAIN L = 1..c
  BY <1>3, LenProperties, ElementOfSeq
<1>5. Lists(L, c, ids, TimeOrder)
  BY <1>3, <1>4 DEF Lists
<1> QED
  BY <1>1, <1>2, <1>3, <1>4, <1>5 DEF L, c

\* However the joins multiply the rows, every log is yielded once, in time order, with all
\* that annotates it (iter_logs in ops/query/reader.py).
THEOREM LogsAreYieldedWhole ==
  ASSUME NEW ids \in SUBSET LineIds, NEW m \in SUBSET Marks, NEW hasKb \in BOOLEAN
  PROVE  IterLogs(ids, m, hasKb) = Told(ids, m, hasKb)
<1> DEFINE rows == JoinedRows(ids, m, hasKb)
           L == InOrder(ids)
           c == Cardinality(ids)
<1>1. PICK r : /\ Grouped(rows, r, ids, TimeOrder)
               /\ \A i \in ids : OfLog(rows, r, i) = RowsOf(i, m, hasKb)
  BY JoinedRowsAreGrouped
<1>2. IsFiniteSet(ids) /\ Orders(TimeOrder, ids) /\ L \in [1..c -> ids]
  BY LogsListed
<1>3. RollUp(rows) = [n \in 1..c |-> LogRowOf(L[n], OfLog(rows, r, L[n]))]
  <2> HIDE DEF rows
  <2>1. RollUp(rows) = [n \in 1..Cardinality(ids) |->
          LogRowOf(ListedBy(ids, TimeOrder)[n], OfLog(rows, r, ListedBy(ids, TimeOrder)[n]))]
    BY <1>1, <1>2, RolledUpByLog
  <2> QED
    BY <2>1 DEF InOrder
<1>4. \A n \in 1..c : LogRowOf(L[n], OfLog(rows, r, L[n])) = Described(L[n], m, hasKb)
  <2> HIDE DEF rows, L, c
  <2> SUFFICES ASSUME NEW n \in 1..c
               PROVE  LogRowOf(L[n], OfLog(rows, r, L[n])) = Described(L[n], m, hasKb)
    OBVIOUS
  <2>1. L[n] \in ids
    BY <1>2
  <2>2. OfLog(rows, r, L[n]) = RowsOf(L[n], m, hasKb)
    BY <1>1, <2>1
  <2> QED
    BY <2>2, RowsDescribe
<1> HIDE DEF rows, L, c
<1>5. RollUp(rows) = [n \in 1..c |-> Described(L[n], m, hasKb)]
  BY <1>3, <1>4
<1> QED
  BY <1>5 DEF IterLogs, Told, rows, L, c

\* An answer is told of the logs that match.
LEMMA AnswerIsTold ==
  ASSUME NEW f, NEW m \in SUBSET Marks, NEW hasKb \in BOOLEAN
  PROVE  /\ Where(f, m) \in SUBSET LineIds
         /\ Answer(f, m, hasKb) = Told(Where(f, m), m, hasKb)
         /\ IterLogs(Where(f, m), m, hasKb) = Answer(f, m, hasKb)
<1>1. Where(f, m) \in SUBSET LineIds
  BY DEF Where
<1>2. Answer(f, m, hasKb) = Told(Where(f, m), m, hasKb)
  BY <1>1, LogsListed DEF Answer, Told
<1> QED
  BY <1>1, <1>2, LogsAreYieldedWhole

\* rows are the next of the answer's rows after offset.
GoesOn(rows, answer, size, offset) ==
  \E c \in Nat : offset + c <= size /\ rows = [n \in 1..c |-> answer[offset + n]]

\* A page is the part of the answer its offset and limit cut out, in logs
\* (fetch_page in ops/query/reader.py).
THEOREM PageIsPartOfAnswer ==
  ASSUME NEW f, NEW m \in SUBSET Marks, NEW hasKb \in BOOLEAN, NEW limit \in Nat,
         NEW offset \in Nat, offset <= Cardinality(Where(f, m))
  PROVE  GoesOn(FetchPage(f, m, hasKb, offset, limit), Answer(f, m, hasKb),
                Cardinality(Where(f, m)), offset)
<1> DEFINE all == Where(f, m)
           size == Cardinality(all)
           ids == InOrder(all)
           page == { ids[k] : k \in { n \in DOMAIN ids : n > offset /\ n <= offset + limit } }
           c == IF offset + limit < size THEN limit ELSE size - offset
           g == [n \in 1..c |-> ids[offset + n]]
<1>1. all \in SUBSET LineIds
  BY AnswerIsTold
<1>2. /\ size \in Nat /\ ids \in [1..size -> all] /\ DOMAIN ids = 1..size
      /\ Lists(ids, size, all, TimeOrder)
  <2>1. Len(Lines) \in Nat
    BY QueryAssumption
  <2> QED
    BY <1>1, <2>1, LogsListed
<1>3. c \in Nat /\ offset + c <= size /\ c <= limit
  BY <1>2
<1>4. \A n \in 1..c : offset + n \in 1..size /\ offset + n > offset /\ offset + n <= offset + limit
  <2> HIDE DEF c, size
  <2> QED
    BY <1>2, <1>3
<1>5. \A k \in 1..size : k > offset /\ k <= offset + limit => k - offset \in 1..c
  <2> HIDE DEF size
  <2> QED
    BY <1>2
<1>6. page \in SUBSET LineIds
  BY <1>1, <1>2
<1>7. Lists(g, c, page, TimeOrder)
  <2>1. \A n \in 1..c : g[n] = ids[offset + n] /\ g[n] \in page
    <3> HIDE DEF c, size, ids
    <3> QED
      BY <1>2, <1>4
  <2>2. g \in [1..c -> page]
    BY <2>1
  <2>3. \A a, b \in 1..c : a < b => <<g[a], g[b]>> \in TimeOrder
    <3> SUFFICES ASSUME NEW a \in 1..c, NEW b \in 1..c, a < b
                 PROVE  <<g[a], g[b]>> \in TimeOrder
      OBVIOUS
    <3>1. offset + a \in 1..size /\ offset + b \in 1..size /\ offset + a < offset + b
      BY <1>3, <1>4
    <3>2. <<ids[offset + a], ids[offset + b]>> \in TimeOrder
      BY <1>2, <3>1 DEF Lists
    <3> QED
      BY <2>1, <3>2
  <2>4. \A x \in page : \E n \in 1..c : g[n] = x
    <3> SUFFICES ASSUME NEW x \in page PROVE \E n \in 1..c : g[n] = x
      OBVIOUS
    <3>1. PICK k \in 1..size : k > offset /\ k <= offset + limit /\ ids[k] = x
      BY <1>2
    <3>2. k - offset \in 1..c /\ offset + (k - offset) = k
      <4>1. k \in Nat
        BY <1>2
      <4> QED
        BY <1>5, <3>1, <4>1
    <3>3. g[k - offset] = ids[offset + (k - offset)]
      BY <2>1, <3>2
    <3> QED
      BY <3>1, <3>2, <3>3
  <2> HIDE DEF g, c, page
  <2> QED
    BY <1>3, <2>2, <2>3, <2>4 DEF Lists
<1>8. InOrder(page) = g /\ Cardinality(page) = c
  <2>1. IsFiniteSet(page) /\ Orders(TimeOrder, page)
    BY <1>6, LogsListed
  <2> HIDE DEF g, c, page
  <2> QED
    BY <1>7, <2>1, OneListing DEF InOrder
<1>9. FetchPage(f, m, hasKb, offset, limit) = Told(page, m, hasKb)
  <2>1. FetchPage(f, m, hasKb, offset, limit) = IterLogs(page, m, hasKb)
    BY DEF FetchPage
  <2> HIDE DEF page
  <2> QED
    BY <1>6, <2>1, LogsAreYieldedWhole
<1>10. Told(page, m, hasKb) = [n \in 1..c |-> Described(g[n], m, hasKb)]
  <2> HIDE DEF page, c, g
  <2> QED
    BY <1>8 DEF Told
<1>11. Answer(f, m, hasKb) = [k \in 1..size |-> Described(ids[k], m, hasKb)]
  <2>1. Answer(f, m, hasKb) = Told(all, m, hasKb)
    BY AnswerIsTold
  <2> QED
    BY <2>1 DEF Told
<1>12. [n \in 1..c |-> Described(g[n], m, hasKb)] =
         [n \in 1..c |-> Answer(f, m, hasKb)[offset + n]]
  <2> HIDE DEF ids, size, c
  <2>1. \A n \in 1..c : Described(g[n], m, hasKb) = Answer(f, m, hasKb)[offset + n]
    BY <1>4, <1>11
  <2> HIDE DEF g
  <2> QED
    BY <2>1
<1> HIDE DEF page, g, c, ids, size, all
<1>13. FetchPage(f, m, hasKb, offset, limit) = [n \in 1..c |-> Answer(f, m, hasKb)[offset + n]]
  BY <1>9, <1>10, <1>12
<1> QED
  BY <1>3, <1>13 DEF GoesOn, size, all

\* What was paged so far is the beginning of the answer.
Paged(shown, answer) ==
  /\ Len(shown) \in Nat /\ DOMAIN shown = 1..Len(shown) /\ shown = [n \in 1..Len(shown) |-> shown[n]]
  /\ Len(shown) <= Len(answer) /\ \A n \in 1..Len(shown) : shown[n] = answer[n]

\* An answer has as many rows as logs match.
LEMMA AnswerLength ==
  ASSUME NEW f, NEW m \in SUBSET Marks, NEW hasKb \in BOOLEAN
  PROVE  /\ Cardinality(Where(f, m)) \in 0..Len(Lines)
         /\ Len(Answer(f, m, hasKb)) = Cardinality(Where(f, m))
         /\ \E T : Answer(f, m, hasKb) \in Seq(T)
<1> DEFINE size == Cardinality(Where(f, m))
           T == { Described(i, m, hasKb) : i \in LineIds }
<1>1. Where(f, m) \in SUBSET LineIds /\ Answer(f, m, hasKb) = Told(Where(f, m), m, hasKb)
  BY AnswerIsTold
<1>2. size \in 0..Len(Lines) /\ Len(Lines) \in Nat /\ InOrder(Where(f, m)) \in [1..size -> Where(f, m)]
  BY <1>1, LogsListed, QueryAssumption
<1>3. Answer(f, m, hasKb) = [n \in 1..size |-> Described(InOrder(Where(f, m))[n], m, hasKb)]
  BY <1>1 DEF Told
<1> HIDE DEF size
<1>4. \A n \in 1..size : Described(InOrder(Where(f, m))[n], m, hasKb) \in T
  BY <1>1, <1>2
<1> HIDE DEF T
<1>5. Answer(f, m, hasKb) \in [1..size -> T]
  BY <1>3, <1>4
<1>6. Answer(f, m, hasKb) \in Seq(T) /\ Len(Answer(f, m, hasKb)) = size
  BY <1>2, <1>5
<1> QED
  BY <1>2, <1>6 DEF size

\* Nobody is annotated in a database without annotations.
LEMMA NothingIsSaid ==
  ASSUME NEW f, NEW a, NEW b
  PROVE  Answer(f, {}, a) = Answer(f, {}, b)
<1>1. \A i : Described(i, {}, a) = Described(i, {}, b)
  BY DEF Described
<1> QED
  BY <1>1 DEF Answer

\* The next page goes on where the last one ended.
LEMMA PagedGoesOn ==
  ASSUME NEW T, NEW answer \in Seq(T), NEW shown, Paged(shown, answer),
         NEW c \in Nat, Len(shown) + c <= Len(answer)
  PROVE  Paged(shown \o [n \in 1..c |-> answer[Len(shown) + n]], answer)
<1> DEFINE k == Len(shown)
           page == [n \in 1..c |-> answer[k + n]]
<1>1. /\ k \in Nat /\ k <= Len(answer) /\ shown = [n \in 1..k |-> shown[n]]
      /\ \A n \in 1..k : shown[n] = answer[n]
  BY DEF Paged
<1>2. Len(answer) \in Nat /\ \A n \in 1..Len(answer) : answer[n] \in T
  BY LenProperties, ElementOfSeq
<1>3. shown \in Seq(T)
  <2> HIDE DEF k
  <2>1. \A n \in 1..k : shown[n] \in T
    BY <1>1, <1>2
  <2>2. [n \in 1..k |-> shown[n]] \in [1..k -> T]
    BY <2>1
  <2>3. shown \in [1..k -> T]
    BY <1>1, <2>2, Zenon
  <2> QED
    BY <1>1, <2>3
<1>4. page \in Seq(T) /\ Len(page) = c
  <2> HIDE DEF k
  <2>1. \A n \in 1..c : k + n \in 1..Len(answer)
    BY <1>1, <1>2
  <2>2. page \in [1..c -> T]
    BY <1>2, <2>1
  <2> QED
    BY <2>2
<1>5. \A n \in 1..c : page[n] = answer[k + n]
  OBVIOUS
<1> DEFINE both == shown \o page
<1> HIDE DEF page
<1>6. /\ both \in Seq(T) /\ Len(both) = k + c
      /\ \A n \in 1..(k + c) : both[n] = IF n <= k THEN shown[n] ELSE page[n - k]
  BY <1>3, <1>4, ConcatProperties
<1> HIDE DEF both, k
<1>7. \A n \in 1..(k + c) : both[n] = answer[n]
  <2> SUFFICES ASSUME NEW n \in 1..(k + c) PROVE both[n] = answer[n]
    OBVIOUS
  <2>1. CASE n <= k
    <3>1. n \in 1..k
      BY <1>1, <2>1
    <3> QED
      BY <1>1, <1>6, <2>1, <3>1
  <2>2. CASE ~ (n <= k)
    <3>1. n - k \in 1..c /\ k + (n - k) = n
      BY <1>1, <2>2
    <3> QED
      BY <1>5, <1>6, <2>2, <3>1
  <2> QED
    BY <2>1, <2>2
<1>8. /\ Len(both) \in Nat /\ DOMAIN both = 1..Len(both)
      /\ both = [n \in 1..Len(both) |-> both[n]]
  BY <1>6, LenProperties
<1>9. Paged(both, answer)
  BY <1>1, <1>6, <1>7, <1>8 DEF Paged, k
<1> QED
  BY <1>9 DEF both, page, k

\* Nothing was paged yet.
LEMMA NothingPaged ==
  ASSUME NEW T, NEW answer \in Seq(T)
  PROVE  Paged(<<>>, answer)
<1>1. Len(answer) \in Nat /\ Len(<<>>) = 0 /\ DOMAIN <<>> = 1..0
  BY LenProperties
<1> QED
  BY <1>1 DEF Paged

\* Once counted: the answer was counted, and the pages are its beginning, unless something
\* was committed since.
PagesHold ==
  filter # Unset =>
    /\ store # Unset /\ asOf \subseteq marks
    /\ asOf = marks => /\ total = Cardinality(Where(filter, marks))
                       /\ Paged(pages, Answer(filter, marks, store.hasKb))

\* Once started: an export has the columns of what was annotated then.
ExportHolds ==
  export # Unset =>
    /\ export = [filter |-> export.filter, hasKb |-> export.hasKb, rows |-> export.rows,
                 asOf |-> export.asOf, columns |-> export.columns]
    /\ export.hasKb \in BOOLEAN /\ export.asOf \subseteq marks
    /\ IF export.hasKb THEN tables /\ export.columns = DiscoverLabels(export.filter, export.asOf)
                       ELSE export.asOf = {}
    /\ export.rows # Unset /\ export.asOf = marks =>
         export.rows = Answer(export.filter, marks, tables)

QueryInv == QueryTypeOK /\ (~tables => marks = {}) /\ PagesHold /\ ExportHolds

\* A store is opened, counts and pages.
LEMMA StoreStep ==
  ASSUME QueryInv,
         \/ OpenStore \/ CloseStore
         \/ \E f \in Filters : Count(f)
         \/ \E n \in PageSizes : Fetch(n)
  PROVE  QueryInv'
<1>1. /\ QueryTypeOK /\ (~tables => marks = {}) /\ PagesHold /\ ExportHolds
      /\ marks \in SUBSET Marks
  BY DEF QueryInv, QueryTypeOK
<1>2. UNCHANGED <<marks, tables, indexed, export, commits>>
  BY DEF OpenStore, CloseStore, Count, Fetch
<1>3. ExportHolds' /\ (~tables => marks = {})'
  BY <1>1, <1>2 DEF ExportHolds
<1>4. CASE OpenStore
  <2>1. filter = Unset
    BY <1>1, <1>4 DEF OpenStore, PagesHold
  <2>2. store' \in [hasKb : BOOLEAN, hasFts : BOOLEAN]
    <3>1. tables \in BOOLEAN /\ UsableIndex \in BOOLEAN
      BY <1>1 DEF QueryTypeOK, UsableIndex
    <3> QED
      BY <1>4, <3>1 DEF OpenStore
  <2>3. QueryTypeOK'
    BY <1>1, <1>2, <1>4, <2>2 DEF QueryTypeOK, OpenStore
  <2>4. PagesHold'
    BY <1>4, <2>1 DEF PagesHold, OpenStore
  <2> QED
    BY <1>3, <2>3, <2>4 DEF QueryInv
<1>5. CASE CloseStore
  <2>1. QueryTypeOK'
    BY <1>1, <1>2, <1>5 DEF QueryTypeOK, CloseStore
  <2>2. PagesHold'
    BY <1>5 DEF PagesHold, CloseStore
  <2> QED
    BY <1>3, <2>1, <2>2 DEF QueryInv
<1>6. CASE \E f \in Filters : Count(f)
  <2>1. PICK f \in Filters : Count(f)
    BY <1>6
  <2>2. store # Unset /\ store.hasKb \in BOOLEAN
    BY <1>1, <2>1 DEF QueryTypeOK, Count
  <2>3. /\ Cardinality(Where(f, marks)) \in 0..Len(Lines)
        /\ \E T : Answer(f, marks, store.hasKb) \in Seq(T)
    BY <1>1, <2>2, AnswerLength
  <2>4. /\ filter' = f /\ total' = Cardinality(Where(f, marks)) /\ pages' = <<>>
        /\ asOf' = marks /\ store' = store
    BY <2>1 DEF Count
  <2>5. QueryTypeOK'
    BY <1>1, <1>2, <2>3, <2>4 DEF QueryTypeOK
  <2>6. Paged(<<>>, Answer(f, marks, store.hasKb))
    BY <2>3, NothingPaged
  <2>7. PagesHold'
    BY <1>2, <2>2, <2>4, <2>6 DEF PagesHold
  <2> QED
    BY <1>3, <2>5, <2>7 DEF QueryInv
<1>7. CASE \E n \in PageSizes : Fetch(n)
  <2>1. PICK n \in PageSizes : Fetch(n)
    BY <1>7
  <2>2. /\ store # Unset /\ store.hasKb \in BOOLEAN /\ filter # Unset /\ Len(pages) < total
        /\ pages' = pages \o FetchPage(filter, marks, store.hasKb, Len(pages), n)
        /\ UNCHANGED <<store, filter, total, asOf>>
    BY <1>1, <2>1 DEF QueryTypeOK, Fetch
  <2>3. QueryTypeOK'
    BY <1>1, <1>2, <2>2 DEF QueryTypeOK
  <2>4. ASSUME asOf = marks
        PROVE  Paged(pages', Answer(filter, marks, store.hasKb))
    <3> DEFINE answer == Answer(filter, marks, store.hasKb)
               size == Cardinality(Where(filter, marks))
    <3>1. total = size /\ Paged(pages, answer)
      BY <1>1, <2>2, <2>4 DEF PagesHold
    <3>2. PICK T : answer \in Seq(T) /\ Len(answer) = size /\ size \in Nat
      <4>1. Len(Lines) \in Nat
        BY QueryAssumption
      <4>2. size \in 0..Len(Lines) /\ Len(answer) = size /\ \E T : answer \in Seq(T)
        BY <1>1, <2>2, AnswerLength
      <4> HIDE DEF answer, size
      <4> QED
        BY <4>1, <4>2
    <3>3. Len(pages) \in Nat /\ Len(pages) <= size /\ n \in Nat
      BY <2>2, <3>1, <3>2, QueryAssumption DEF Paged
    <3>4. PICK c \in Nat :
            /\ Len(pages) + c <= size
            /\ FetchPage(filter, marks, store.hasKb, Len(pages), n) =
                 [k \in 1..c |-> answer[Len(pages) + k]]
      <4>1. GoesOn(FetchPage(filter, marks, store.hasKb, Len(pages), n), answer, size, Len(pages))
        BY <1>1, <2>2, <3>3, PageIsPartOfAnswer
      <4> HIDE DEF answer, size
      <4> QED
        BY <4>1 DEF GoesOn
    <3> HIDE DEF answer, size
    <3>5. Paged(pages \o [k \in 1..c |-> answer[Len(pages) + k]], answer)
      BY <3>1, <3>2, <3>4, PagedGoesOn
    <3> QED
      BY <2>2, <3>4, <3>5 DEF answer
  <2>5. PagesHold'
    BY <1>1, <1>2, <2>2, <2>4 DEF PagesHold
  <2> QED
    BY <1>3, <2>3, <2>5 DEF QueryInv
<1> QED
  BY <1>4, <1>5, <1>6, <1>7

\* An export starts and writes its rows.
LEMMA ExportStep ==
  ASSUME QueryInv, (\E f \in Filters : ExportStart(f)) \/ ExportRows
  PROVE  QueryInv'
<1>1. /\ QueryTypeOK /\ (~tables => marks = {}) /\ PagesHold /\ ExportHolds
      /\ marks \in SUBSET Marks /\ tables \in BOOLEAN
  BY DEF QueryInv, QueryTypeOK
<1>2. UNCHANGED <<marks, tables, indexed, store, filter, total, pages, asOf, commits>>
  BY DEF ExportStart, ExportRows
<1>3. QueryTypeOK' /\ PagesHold' /\ (~tables => marks = {})'
  BY <1>1, <1>2 DEF QueryTypeOK, PagesHold
<1>4. CASE \E f \in Filters : ExportStart(f)
  <2>1. PICK f \in Filters :
          export' = [filter |-> f, hasKb |-> tables, rows |-> Unset, asOf |-> marks,
                     columns |-> IF tables THEN DiscoverLabels(f, marks) ELSE {}]
    BY <1>4 DEF ExportStart
  <2>2. ExportHolds'
    BY <1>1, <1>2, <2>1 DEF ExportHolds
  <2> QED
    BY <1>3, <2>2 DEF QueryInv
<1>5. CASE ExportRows
  <2> DEFINE e == export
             yielded == IterLogs(Where(e.filter, marks), marks, e.hasKb)
             written == [k \in DOMAIN yielded |->
                           [yielded[k] EXCEPT !.values = { v \in @ : v[1] \in e.columns }]]
  <2>1. /\ e # Unset /\ e.hasKb \in BOOLEAN /\ e.asOf \subseteq marks
        /\ e = [filter |-> e.filter, hasKb |-> e.hasKb, rows |-> e.rows,
                asOf |-> e.asOf, columns |-> e.columns]
        /\ e.hasKb => tables /\ e.columns = DiscoverLabels(e.filter, e.asOf)
        /\ ~e.hasKb => e.asOf = {}
    BY <1>1, <1>5 DEF ExportHolds, ExportRows
  <2>2. export' = [e EXCEPT !.rows = written]
    BY <1>5 DEF ExportRows
  <2>3. ASSUME e.asOf = marks
        PROVE  written = Answer(e.filter, marks, tables)
    <3> DEFINE f == e.filter
               h == e.hasKb
               size == Cardinality(Where(f, marks))
               L == InOrder(Where(f, marks))
    <3>1. /\ yielded = Answer(f, marks, h) /\ Where(f, marks) \in SUBSET LineIds
          /\ Answer(f, marks, h) = Told(Where(f, marks), marks, h)
      BY <1>1, <2>1, AnswerIsTold
    <3>2. yielded = [k \in 1..size |-> Described(L[k], marks, h)]
      BY <3>1 DEF Told
    <3>3. L \in [1..size -> Where(f, marks)]
      BY <3>1, LogsListed
    <3>4. ASSUME NEW i \in Where(f, marks)
          PROVE  [Described(i, marks, h) EXCEPT !.values = { v \in @ : v[1] \in e.columns }]
                   = Described(i, marks, h)
      <4> DEFINE mine == IF h THEN { a \in marks : a.line = i } ELSE {}
                 values == { <<a.label, a.value>> : a \in { b \in mine : b.label # Unset } }
                 sigs == { a.sig : a \in mine }
      <4>1. Described(i, marks, h) = [line |-> i, sigs |-> sigs, values |-> values]
        BY DEF Described
      <4>2. \A v \in values : v[1] \in e.columns
        <5> SUFFICES ASSUME NEW v \in values PROVE v[1] \in e.columns
          OBVIOUS
        <5>1. PICK a \in mine : a.label # Unset /\ v = <<a.label, a.value>>
          OBVIOUS
        <5>2. h /\ a \in marks /\ a.line = i
          BY <5>1
        <5>3. a.label \in DiscoverLabels(f, marks)
          BY <5>1, <5>2 DEF DiscoverLabels
        <5> QED
          BY <2>1, <2>3, <5>1, <5>2, <5>3
      <4> HIDE DEF values, sigs
      <4>3. { v \in values : v[1] \in e.columns } = values
        BY <4>2
      <4> DEFINE said == [line |-> i, sigs |-> sigs, values |-> values]
      <4>4. [said EXCEPT !.values = { v \in @ : v[1] \in e.columns }] = said
        BY <4>3
      <4> HIDE DEF said
      <4> QED
        BY <4>1, <4>4 DEF said
    <3>5. written = [k \in 1..size |-> Described(L[k], marks, h)]
      <4> HIDE DEF size, L, f, h
      <4>1. \A k \in 1..size :
              [yielded[k] EXCEPT !.values = { v \in @ : v[1] \in e.columns }]
                = Described(L[k], marks, h)
        BY <3>2, <3>3, <3>4
      <4>2. DOMAIN yielded = 1..size
        BY <3>2
      <4> HIDE DEF yielded
      <4> QED
        BY <4>1, <4>2
    <3>6. written = Answer(f, marks, h)
      BY <3>1, <3>2, <3>5
    <3>7. Answer(f, marks, h) = Answer(f, marks, tables)
      <4>1. CASE h
        <5>1. h = tables
          BY <1>1, <2>1, <4>1
        <5> QED
          BY <5>1
      <4>2. CASE ~h
        <5>1. marks = {}
          BY <2>1, <2>3, <4>2
        <5> QED
          BY <5>1, NothingIsSaid
      <4> QED
        BY <4>1, <4>2
    <3> QED
      BY <3>6, <3>7
  <2> HIDE DEF written
  <2>4. export' = [filter |-> e.filter, hasKb |-> e.hasKb, rows |-> written,
                   asOf |-> e.asOf, columns |-> e.columns]
    BY <2>1, <2>2
  <2>5. ExportHolds'
    BY <1>2, <2>1, <2>3, <2>4 DEF ExportHolds
  <2> QED
    BY <1>3, <2>5 DEF QueryInv
<1> QED
  BY <1>4, <1>5

\* Another process commits annotations: what was read before is no longer compared.
LEMMA CommitsStep ==
  ASSUME QueryInv, OthersAnnotate
  PROVE  QueryInv'
<1>1. /\ QueryTypeOK /\ (~tables => marks = {}) /\ PagesHold /\ ExportHolds
      /\ tables \in BOOLEAN
  BY DEF QueryInv, QueryTypeOK
<1>2. /\ marks \subseteq marks' /\ marks' \subseteq Marks /\ tables' = TRUE
      /\ commits' \in 0..MaxMarks
      /\ UNCHANGED <<indexed, store, filter, total, pages, asOf, export>>
  BY <1>1, QueryAssumption DEF OthersAnnotate, QueryTypeOK
<1>3. QueryTypeOK'
  BY <1>1, <1>2 DEF QueryTypeOK
<1>4. PagesHold'
  <2>1. filter # Unset => asOf \subseteq marks /\ (asOf = marks' => marks' = marks)
    BY <1>1, <1>2 DEF PagesHold
  <2> QED
    BY <1>1, <1>2, <2>1 DEF PagesHold
<1>5. ExportHolds'
  <2> SUFFICES ASSUME export # Unset PROVE ExportHolds'
    BY <1>2 DEF ExportHolds
  <2>1. export.asOf \subseteq marks /\ (export.asOf = marks' => marks' = marks)
    BY <1>1, <1>2 DEF ExportHolds
  <2>2. Answer(export.filter, marks, tables) = Answer(export.filter, marks, TRUE)
    <3>1. CASE tables
      <4>1. tables = TRUE
        BY <1>1, <3>1
      <4> QED
        BY <4>1
    <3>2. CASE ~tables
      <4>1. marks = {}
        BY <1>1, <3>2
      <4> QED
        BY <4>1, NothingIsSaid
    <3> QED
      BY <3>1, <3>2
  <2> QED
    BY <1>1, <1>2, <2>1, <2>2 DEF ExportHolds
<1> QED
  BY <1>2, <1>3, <1>4, <1>5 DEF QueryInv

LEMMA QueryStep == QueryInv /\ [QueryNext]_query => QueryInv'
<1> SUFFICES ASSUME QueryInv, [QueryNext]_query PROVE QueryInv'
  OBVIOUS
<1>1. CASE QueryNext
  BY <1>1, StoreStep, ExportStep, CommitsStep DEF QueryNext
<1>2. CASE UNCHANGED query
  BY <1>2 DEF query, QueryInv, QueryTypeOK, PagesHold, ExportHolds
<1> QED
  BY <1>1, <1>2

\* A table paged in pages of any sizes and an exported file say what the database says,
\* whatever the joins multiply its rows into and whoever annotates meanwhile
\* (LogStore in ops/query/query.py, run_export in ops/export/exporter.py).
THEOREM ReadersHold == QuerySpec => []ReadersAreTrue
<1>1. QueryInit => QueryInv
  BY QueryAssumption DEF QueryInit, QueryInv, QueryTypeOK, PagesHold, ExportHolds
<1>2. QueryInv => ReadersAreTrue
  <2> SUFFICES ASSUME QueryInv PROVE ReadersAreTrue
    OBVIOUS
  <2>1. /\ QueryTypeOK /\ PagesHold /\ ExportHolds /\ marks \in SUBSET Marks
    BY DEF QueryInv, QueryTypeOK
  <2>2. PagesAreTheAnswer
    <3> SUFFICES ASSUME filter # Unset, asOf = marks PROVE PagesAreTheAnswer
      BY DEF PagesAreTheAnswer
    <3> DEFINE answer == Answer(filter, marks, store.hasKb)
    <3>1. store.hasKb \in BOOLEAN /\ total = Cardinality(Where(filter, marks)) /\ Paged(pages, answer)
      BY <2>1 DEF PagesHold, QueryTypeOK
    <3>2. PICK T : answer \in Seq(T) /\ Len(answer) = total
      BY <2>1, <3>1, AnswerLength
    <3> HIDE DEF answer
    <3>3. /\ SubSeq(answer, 1, Len(pages)) = [n \in 1..Len(pages) |-> answer[n]]
      BY <3>1, <3>2, LenProperties DEF Paged
    <3>4. pages = [n \in 1..Len(pages) |-> answer[n]]
      BY <3>1 DEF Paged
    <3> QED
      BY <3>2, <3>3, <3>4 DEF PagesAreTheAnswer, answer
  <2>3. ExportHasEveryValue
    BY <2>1 DEF ExportHolds, ExportHasEveryValue
  <2> QED
    BY <2>1, <2>2, <2>3 DEF ReadersAreTrue
<1> QED
  BY <1>1, <1>2, QueryStep, PTL DEF QuerySpec

-----------------------------------------------------------------------------
(* An analyst's session: the parts take turns, none disturbs another. *)

\* Whatever is annotated, drafted, identified or queried in between: the annotations are
\* exact, the statistics current, the knowledge base sound, a result is true, and the
\* readers say what the database says (AnalysisMC over ops/).
THEOREM AnalysisHolds ==
  Spec => [](/\ KbIsSound /\ ResultIsTrue /\ AnnotatedExactly /\ SummaryIsCurrent
             /\ ReadersAreTrue)
<1>1. Init => KbInit /\ IdentifyInit /\ AnnotationInit /\ QueryInit
  BY DEF Init
<1>2. [Next]_analysis => /\ [KbNext]_kb /\ [IdentifyNext]_identify
                         /\ [AnnotationNext]_annotation /\ [QueryNext]_query
  BY DEF Next, analysis, kb, identify, annotation, query
<1>3. Spec => KbSpec /\ IdentifySpec /\ AnnotationSpec /\ QuerySpec
  BY <1>1, <1>2, PTL DEF Spec, KbSpec, IdentifySpec, AnnotationSpec, QuerySpec
<1> QED
  BY <1>3, KnowledgeBaseIsSound, ActionIsFound, AnnotationsAreExact, SummaryNeverStale,
     ReadersHold, PTL
=============================================================================
