------------------------ MODULE ParallelParseProofs ------------------------
(***************************************************************************)
(* Proofs about the bounded-window scheduler, for any number of files and  *)
(* of workers, whether or not the writer may fail and workers may die.     *)
(***************************************************************************)
EXTENDS ParallelParse, FiniteSetTheorems, WellFoundedInduction, TLAPS

\* What the process holds of a file's rows: it has them, or will produce them.
Held == Busy \cup {f \in In("parsed") : handled[f] = 0}

\* Files are submitted in order and nothing is known of one before that.
Unsubmitted ==
  \A f \in RelIx :
    /\ f >= nextRel => stage[f] = "waiting"
    /\ stage[f] = "waiting" => f \notin inFlight /\ handled[f] = 0

\* What wait() returned has ended and is still in the window; the result in
\* hand is out of it, parsed and not written yet.
InHand ==
  /\ finished \subseteq inFlight
  /\ \A f \in finished : stage[f] \in Ended
  /\ wpc = "handle" => cur \in In("parsed") \ inFlight /\ handled[cur] = 0

\* A file's rows were written at most once, and then it was parsed and taken.
Written ==
  \A f \in RelIx :
    handled[f] <= 1 /\ (handled[f] = 1 => stage[f] = "parsed" /\ f \notin inFlight)

\* The rows held are those of the window and of the result in hand, which
\* leaves room in the window for itself.
Window ==
  /\ Cardinality(inFlight) <= MaxInFlight
  /\ wpc \in {"handle", "refill"} => Cardinality(inFlight) < MaxInFlight
  /\ \/ Held \subseteq inFlight
     \/ /\ wpc \notin {"wait", "each", "refill", "drain"}
        /\ Held \subseteq inFlight \cup {cur}
        /\ Cardinality(inFlight) < MaxInFlight

\* Without an exception every submitted file is in the window, in hand or
\* written, and the window is not empty while there is a file to submit.
NoneForgotten ==
  /\ raising => wpc \in {"drain", "join", "out"}
  /\ wpc = "drain" => raising
  /\ ~raising =>
       /\ \A f \in RelIx : f < nextRel =>
            f \in inFlight \/ handled[f] = 1 \/ (wpc = "handle" /\ f = cur)
       /\ wpc \in {"wait", "each"} => nextRel > NumRels \/ inFlight # {}
       /\ wpc \in {"join", "out"} => nextRel > NumRels /\ inFlight = {}

OutIsQuiet == wpc = "out" => Busy = {}

IInv ==
  /\ PoolTypeOK
  /\ Unsubmitted /\ InHand /\ Written
  /\ Window /\ NoneForgotten /\ OutIsQuiet

-----------------------------------------------------------------------------
(* The operators *)

LEMMA FilesAreFinite ==
  /\ \A S \in SUBSET RelIx : IsFiniteSet(S) /\ Cardinality(S) \in Nat
  /\ \A S \in SUBSET RelIx, T \in SUBSET RelIx :
       S \subseteq T => Cardinality(S) <= Cardinality(T)
<1>1. IsFiniteSet(RelIx)
  BY FS_Interval, ParallelParseAssumption DEF RelIx
<1>2. \A S \in SUBSET RelIx : IsFiniteSet(S)
  BY <1>1, FS_Subset
<1> QED
  BY <1>2, FS_Subset, FS_CardinalityType

\* A nonempty set of numbers has a smallest one: what the executor takes next
\* is a file of the stage it takes it from.
LEMMA MinIsOf == ASSUME NEW S, S \subseteq Nat, S # {}
                 PROVE  Min(S) \in S
<1>1. PICK x \in S : \A y \in S : <<y, x>> \notin OpToRel(<, Nat)
  BY WFMin, NatLessThanWellFounded, Zenon
<1>2. \A y \in S : ~(y < x)
  BY <1>1, Zenon DEF OpToRel
<1>3. \E m \in S : \A y \in S : m <= y
  BY <1>2
<1> QED
  BY <1>3, Zenon DEF Min

LEMMA TimesHandled == ASSUME NEW n \in 0..2
                      PROVE  Min({n + 1, 2}) = IF n = 0 THEN 1 ELSE 2
<1> DEFINE S == {n + 1, 2}
           k == IF n = 0 THEN 1 ELSE 2
<1>1. k \in S /\ \A y \in S : k <= y
  OBVIOUS
<1>2. \A x \in S : (\A y \in S : x <= y) => x = k
  BY <1>1
<1> QED
  BY <1>1, <1>2 DEF Min

LEMMA WindowSize == MaxInFlight \in Nat /\ MaxInFlight >= 2
<1> DEFINE S == {2, 2 * NumWorkers}
<1>1. NumWorkers \in Nat /\ NumWorkers >= 1
  BY ParallelParseAssumption
<1>2. 2 * NumWorkers \in S /\ \A y \in S : 2 * NumWorkers >= y
  BY <1>1
<1>3. MaxInFlight \in S /\ \A y \in S : MaxInFlight >= y
  BY <1>2 DEF MaxInFlight, Max
<1> QED
  BY <1>1, <1>3

-----------------------------------------------------------------------------
(* The invariant *)

LEMMA InitIInv == PoolInit => IInv
<1> SUFFICES ASSUME PoolInit PROVE IInv
  OBVIOUS
<1> USE WindowSize
<1>1. NumRels \in Nat
  BY ParallelParseAssumption
<1>2. PICK k \in 0..NumRels :
        /\ k <= MaxInFlight /\ (k = NumRels \/ k = MaxInFlight)
        /\ inFlight = 1..k
  <2>1. CASE NumRels <= MaxInFlight
    <3>1. inFlight = 1..NumRels
      BY <1>1, <2>1 DEF PoolInit, RelIx
    <3> QED
      BY <1>1, <2>1, <3>1
  <2>2. CASE MaxInFlight < NumRels
    <3>1. inFlight = 1..MaxInFlight
      BY <1>1, <2>2 DEF PoolInit, RelIx
    <3> QED
      BY <1>1, <2>2, <3>1
  <2> QED
    BY <1>1, <2>1, <2>2
<1>3. Cardinality(inFlight) = k /\ nextRel = k + 1
  <2>1. 1 \in Int /\ k \in Int /\ k >= 0
    BY <1>1
  <2>2. Cardinality(1..k) = IF 1 > k THEN 0 ELSE k - 1 + 1
    BY <2>1, FS_Interval, Zenon
  <2>3. Cardinality(1..k) = k
    BY <2>1, <2>2
  <2> QED
    BY <1>2, <2>3 DEF PoolInit
<1>4. PoolTypeOK
  <2>1. inFlight \subseteq RelIx /\ nextRel \in 1..NumRels + 1
    BY <1>1, <1>2, <1>3 DEF RelIx
  <2>2. cur \in 0..NumRels
    BY <1>1 DEF PoolInit
  <2> QED
    <3>1. stage \in [RelIx -> Stages]
      BY DEF PoolInit, Stages
    <3>2. handled \in [RelIx -> 0..2]
      BY DEF PoolInit
    <3> QED
      BY <2>1, <2>2, <3>1, <3>2 DEF PoolInit, PoolTypeOK
<1>5. Held = inFlight
  BY DEF PoolInit, Held, Busy, In
<1>6. Unsubmitted /\ NoneForgotten
  <2>1. \A f \in RelIx : f \in inFlight <=> f < nextRel
    BY <1>1, <1>2, <1>3 DEF RelIx
  <2>2. nextRel > NumRels \/ inFlight # {}
    BY <1>1, <1>2, <1>3
  <2>3. \A f \in RelIx : ~(f >= nextRel /\ f < nextRel)
    BY <1>1, <1>3 DEF RelIx
  <2> QED
    BY <2>1, <2>2, <2>3 DEF PoolInit, Unsubmitted, NoneForgotten
<1>7. Window
  BY <1>1, <1>2, <1>3, <1>5 DEF PoolInit, Window
<1> QED
  BY <1>4, <1>6, <1>7 DEF PoolInit, IInv, InHand, Written, OutIsQuiet

\* What the executor and the workers do: they move files that have not ended.
LEMMA StageStep ==
  ASSUME IInv, UNCHANGED main,
         stage' \in [RelIx -> Stages],
         \A f \in RelIx : \/ stage'[f] = stage[f]
                          \/ f \in Busy /\ stage'[f] \notin {"waiting", "dropped"},
         {token', event', broken'} \subseteq BOOLEAN,
         mirror' \in {"polling", "over"}
  PROVE  IInv'
<1> USE DEF IInv, main
<1>1. PoolTypeOK'
  BY DEF PoolTypeOK
<1>2. Busy' \subseteq Busy /\ Held' \subseteq Held
  BY DEF Held, Busy, In, PoolTypeOK
<1>3. Unsubmitted'
  BY DEF Unsubmitted, Busy, In, PoolTypeOK
<1>4. InHand'
  BY DEF InHand, Ended, Busy, In, PoolTypeOK
<1>5. Written'
  BY DEF Written, Busy, In, PoolTypeOK
<1>6. Window'
  BY <1>2 DEF Window
<1>7. NoneForgotten' /\ OutIsQuiet'
  BY <1>2 DEF NoneForgotten, OutIsQuiet
<1> QED
  BY <1>1, <1>3, <1>4, <1>5, <1>6, <1>7

\* parallel_parse itself, one step for each of its actions.
LEMMA SchedulerStep == IInv /\ (Writer \/ HandleFails) => IInv'
<1> SUFFICES ASSUME IInv, Writer \/ HandleFails PROVE IInv'
  OBVIOUS
<1> USE WindowSize, FilesAreFinite DEF IInv, signals
<1>1. CASE Wait
  <2>1. finished' = {f \in inFlight : stage[f] \in Ended} /\ wpc = "wait" /\ wpc' = "each"
    BY <1>1 DEF Wait
  <2>2. UNCHANGED <<stage, inFlight, cur, nextRel, handled, raising, signals, broken>>
    BY <1>1 DEF Wait
  <2>3. PoolTypeOK'
    BY <2>1, <2>2 DEF PoolTypeOK
  <2>4. Held' = Held /\ Busy' = Busy
    BY <2>2 DEF Held, Busy, In
  <2>5. Unsubmitted' /\ InHand' /\ Written'
    BY <2>1, <2>2 DEF Unsubmitted, InHand, Written
  <2>6. Window'
    BY <2>1, <2>2, <2>4 DEF Window
  <2>7. NoneForgotten' /\ OutIsQuiet'
    BY <2>1, <2>2, <2>4 DEF NoneForgotten, OutIsQuiet
  <2> QED
    BY <2>3, <2>5, <2>6, <2>7
<1>2. CASE WaitOver
  <2>1. \/ wpc = "each" /\ finished = {} /\ wpc' = "wait"
        \/ wpc = "wait" /\ inFlight = {} /\ wpc' = "join"
    BY <1>2 DEF WaitOver
  <2>2. UNCHANGED <<stage, inFlight, finished, cur, nextRel, handled, raising, signals, broken>>
    BY <1>2 DEF WaitOver
  <2>3. PoolTypeOK'
    BY <2>1, <2>2 DEF PoolTypeOK
  <2>4. Held' = Held /\ Busy' = Busy
    BY <2>2 DEF Held, Busy, In
  <2>5. Unsubmitted' /\ InHand' /\ Written'
    BY <2>1, <2>2 DEF Unsubmitted, InHand, Written
  <2>6. Window'
    BY <2>1, <2>2, <2>4 DEF Window
  <2>7. NoneForgotten' /\ OutIsQuiet'
    BY <2>1, <2>2, <2>4 DEF NoneForgotten, OutIsQuiet
  <2> QED
    BY <2>3, <2>5, <2>6, <2>7
<1>3. CASE TakeResult
  <2>1. PICK f \in finished :
          /\ finished' = finished \ {f}
          /\ inFlight' = inFlight \ {f}
          /\ cur' = f
          /\ wpc' = CASE stage[f] = "parsed" -> "handle"
                     [] stage[f] = "stopped" -> "drain"
                     [] stage[f] = "broken" -> "join"
          /\ raising' = (stage[f] # "parsed")
    BY <1>3 DEF TakeResult
  <2>2. wpc = "each" /\ UNCHANGED <<stage, nextRel, handled, signals, broken>>
    BY <1>3 DEF TakeResult
  <2>3. f \in RelIx /\ f \in inFlight /\ f \in 1..NumRels /\ ~raising
    BY <2>2 DEF InHand, PoolTypeOK, RelIx, NoneForgotten
  <2>4. \/ stage[f] = "parsed" /\ wpc' = "handle" /\ raising' = FALSE /\ handled[f] = 0
        \/ stage[f] = "stopped" /\ wpc' = "drain" /\ raising' = TRUE
        \/ stage[f] = "broken" /\ wpc' = "join" /\ raising' = TRUE
    <3>1. stage[f] \in {"parsed", "stopped", "broken"}
      BY DEF InHand, Ended
    <3>2. handled[f] = 0
      BY <2>3 DEF Written, PoolTypeOK
    <3> QED
      BY <2>1, <3>1, <3>2
  <2>5. PoolTypeOK'
    BY <2>1, <2>2, <2>3, <2>4 DEF PoolTypeOK, RelIx
  <2>6. /\ Cardinality(inFlight') = Cardinality(inFlight) - 1
        /\ Cardinality(inFlight) \in Nat /\ Cardinality(inFlight') \in Nat
    <3>1. IsFiniteSet(inFlight) /\ IsFiniteSet(inFlight')
      BY <2>5 DEF PoolTypeOK
    <3> QED
      BY <2>1, <2>3, <3>1, FS_RemoveElement, FS_CardinalityType
  <2>7. Held' = Held /\ Busy' = Busy /\ Held \subseteq inFlight
    BY <2>2 DEF Held, Busy, In, Window
  <2>8. Unsubmitted' /\ InHand' /\ Written'
    BY <2>1, <2>2, <2>3, <2>4 DEF Unsubmitted, InHand, Written, In
  <2>9. Window'
    <3>1. Cardinality(inFlight') < MaxInFlight
      BY <2>6 DEF Window
    <3>2. Held' \subseteq inFlight' \cup {cur'}
      BY <2>1, <2>7
    <3>3. stage[f] # "parsed" => Held' \subseteq inFlight'
      BY <2>1, <2>4, <2>7 DEF Held, Busy, In
    <3> QED
      BY <2>4, <2>6, <3>1, <3>2, <3>3 DEF Window
  <2>10. NoneForgotten' /\ OutIsQuiet'
    BY <2>1, <2>2, <2>3, <2>4 DEF NoneForgotten, OutIsQuiet
  <2> QED
    BY <2>5, <2>8, <2>9, <2>10
<1>4. CASE HandleResult
  <2>1. wpc = "handle" /\ wpc' = "refill"
        /\ handled' = [handled EXCEPT ![cur] = Min({@ + 1, 2})]
    BY <1>4 DEF HandleResult
  <2>2. UNCHANGED <<stage, inFlight, finished, cur, nextRel, raising, signals, broken>>
    BY <1>4 DEF HandleResult
  <2>3. cur \in RelIx /\ handled[cur] = 0 /\ stage[cur] = "parsed" /\ cur \notin inFlight
    BY <2>1 DEF InHand, In
  <2>4. handled' = [handled EXCEPT ![cur] = 1]
    BY <2>1, <2>3, TimesHandled DEF PoolTypeOK
  <2>5. PoolTypeOK'
    <3>1. handled' \in [RelIx -> 0..2]
      BY <2>3, <2>4 DEF PoolTypeOK
    <3> QED
      BY <2>1, <2>2, <3>1 DEF PoolTypeOK
  <2>6. Held' = Held \ {cur} /\ Busy' = Busy
    BY <2>2, <2>3, <2>4 DEF Held, Busy, In, PoolTypeOK
  <2>7. Unsubmitted' /\ InHand' /\ Written'
    BY <2>1, <2>2, <2>3, <2>4 DEF Unsubmitted, InHand, Written, PoolTypeOK
  <2>8. Window'
    BY <2>1, <2>2, <2>6 DEF Window
  <2>9. NoneForgotten' /\ OutIsQuiet'
    BY <2>1, <2>2, <2>3, <2>4, <2>6 DEF NoneForgotten, OutIsQuiet, PoolTypeOK
  <2> QED
    BY <2>5, <2>7, <2>8, <2>9
<1>5. CASE HandleFails
  <2>1. wpc = "handle" /\ wpc' = "join" /\ raising' = TRUE
    BY <1>5 DEF HandleFails
  <2>2. UNCHANGED <<stage, inFlight, finished, cur, nextRel, handled, signals, broken>>
    BY <1>5 DEF HandleFails
  <2>3. Held' = Held /\ Busy' = Busy
    BY <2>2 DEF Held, Busy, In
  <2>4. PoolTypeOK' /\ Unsubmitted' /\ InHand' /\ Written'
    BY <2>1, <2>2 DEF PoolTypeOK, Unsubmitted, InHand, Written
  <2>5. Window'
    BY <2>1, <2>2, <2>3 DEF Window
  <2>6. NoneForgotten' /\ OutIsQuiet'
    BY <2>1, <2>2 DEF NoneForgotten, OutIsQuiet
  <2> QED
    BY <2>4, <2>5, <2>6
<1>6. CASE Refill
  <2>1. wpc = "refill" /\ cur' = 0 /\ UNCHANGED <<finished, handled, signals, broken>>
    BY <1>6 DEF Refill
  <2>2. ~raising /\ Held \subseteq inFlight /\ Cardinality(inFlight) < MaxInFlight
    BY <2>1 DEF NoneForgotten, Window
  <2>3. CASE UNCHANGED <<stage, inFlight>> /\ wpc' \in {"drain", "join", "each"}
             /\ (wpc' # "each" => raising' = TRUE /\ nextRel' \in {nextRel, nextRel + 1}
                                 /\ nextRel' <= NumRels + 1)
             /\ (wpc' = "each" => raising' = raising /\ nextRel' = nextRel /\ nextRel > NumRels)
    <3>1. nextRel \in Nat /\ nextRel' \in Nat /\ nextRel <= nextRel'
      BY <2>3, ParallelParseAssumption DEF PoolTypeOK
    <3>2. PoolTypeOK'
      <4>1. cur' \in 0..NumRels /\ nextRel' \in 1..NumRels + 1
        BY <2>1, <2>3, <3>1, ParallelParseAssumption DEF PoolTypeOK
      <4> QED
        BY <2>1, <2>3, <4>1 DEF PoolTypeOK
    <3>3. Held' = Held /\ Busy' = Busy
      BY <2>1, <2>3 DEF Held, Busy, In
    <3>4. Unsubmitted' /\ InHand' /\ Written'
      BY <2>1, <2>3, <3>1 DEF Unsubmitted, InHand, Written, RelIx
    <3>5. Window'
      BY <2>2, <2>3, <3>3 DEF Window
    <3>6. NoneForgotten' /\ OutIsQuiet'
      BY <2>1, <2>2, <2>3 DEF NoneForgotten, OutIsQuiet
    <3> QED
      BY <3>2, <3>4, <3>5, <3>6
  <2>4. CASE /\ nextRel <= NumRels
             /\ wpc' = "each"
             /\ stage' = [stage EXCEPT ![nextRel] = "pending"]
             /\ inFlight' = inFlight \cup {nextRel}
             /\ nextRel' = nextRel + 1
             /\ UNCHANGED raising
    <3>1. nextRel \in RelIx /\ nextRel \in Nat /\ stage[nextRel] = "waiting"
          /\ handled[nextRel] = 0 /\ nextRel \notin inFlight
      BY <2>4, ParallelParseAssumption DEF PoolTypeOK, RelIx, Unsubmitted
    <3>2. PoolTypeOK'
      BY <2>1, <2>4, <3>1, ParallelParseAssumption DEF PoolTypeOK, Stages, RelIx
    <3>3. Cardinality(inFlight') = Cardinality(inFlight) + 1
          /\ Cardinality(inFlight) \in Nat
      <4>1. IsFiniteSet(inFlight)
        BY DEF PoolTypeOK
      <4> QED
        BY <2>4, <3>1, <4>1, FS_AddElement, FS_CardinalityType
    <3>4. Held' \subseteq Held \cup {nextRel}
      BY <2>1, <2>4, <3>1 DEF Held, Busy, In, PoolTypeOK
    <3>5. Unsubmitted'
      BY <2>1, <2>4, <3>1 DEF Unsubmitted, RelIx, PoolTypeOK
    <3>6. InHand' /\ Written'
      BY <2>1, <2>4, <3>1 DEF InHand, Written, Ended, PoolTypeOK
    <3>7. Window'
      BY <2>2, <2>4, <3>3, <3>4 DEF Window
    <3>8. NoneForgotten' /\ OutIsQuiet'
      BY <2>1, <2>2, <2>4, <3>1 DEF NoneForgotten, OutIsQuiet, RelIx
    <3> QED
      BY <3>2, <3>5, <3>6, <3>7, <3>8
  <2> QED
    <3>1. NumRels \in Nat /\ nextRel \in Nat /\ nextRel <= NumRels + 1
          /\ (nextRel > NumRels \/ nextRel <= NumRels)
      BY ParallelParseAssumption DEF PoolTypeOK
    <3>2. CASE token
      BY <1>6, <2>3, <3>1, <3>2 DEF Refill
    <3>3. CASE ~token /\ nextRel > NumRels
      BY <1>6, <2>3, <3>3 DEF Refill
    <3>4. CASE ~token /\ nextRel <= NumRels /\ broken
      <4>1. wpc' = "join" /\ raising' = TRUE /\ nextRel' = nextRel + 1
            /\ UNCHANGED <<stage, inFlight>>
        BY <1>6, <3>1, <3>4 DEF Refill
      <4>2. nextRel' <= NumRels + 1
        BY <3>1, <3>4, <4>1
      <4> QED
        BY <2>3, <4>1, <4>2
    <3>5. CASE ~token /\ nextRel <= NumRels /\ ~broken
      BY <1>6, <2>4, <3>1, <3>5 DEF Refill
    <3> QED
      BY <3>1, <3>2, <3>3, <3>4, <3>5
<1>7. CASE DropPending
  <2>1. wpc = "drain" /\ wpc' = "join" /\ raising
        /\ stage' = [f \in RelIx |-> IF stage[f] = "pending" THEN "dropped" ELSE stage[f]]
    BY <1>7 DEF DropPending, NoneForgotten
  <2>2. UNCHANGED <<inFlight, finished, cur, nextRel, handled, raising, signals, broken>>
    BY <1>7 DEF DropPending
  <2>3. PoolTypeOK'
    BY <2>1, <2>2 DEF PoolTypeOK, Stages
  <2>4. Held' \subseteq Held
    BY <2>1, <2>2 DEF Held, Busy, In, PoolTypeOK
  <2>5. Unsubmitted' /\ InHand' /\ Written'
    BY <2>1, <2>2 DEF Unsubmitted, InHand, Written, Ended, PoolTypeOK
  <2>6. Window'
    BY <2>1, <2>2, <2>4 DEF Window
  <2>7. NoneForgotten' /\ OutIsQuiet'
    BY <2>1, <2>2 DEF NoneForgotten, OutIsQuiet
  <2> QED
    BY <2>3, <2>5, <2>6, <2>7
<1>8. CASE Join
  <2>1. wpc = "join" /\ wpc' = "out" /\ Busy = {}
    BY <1>8 DEF Join
  <2>2. UNCHANGED <<stage, inFlight, finished, cur, nextRel, handled, raising, signals, broken>>
    BY <1>8 DEF Join
  <2>3. Held' = Held /\ Busy' = Busy
    BY <2>2 DEF Held, Busy, In
  <2>4. PoolTypeOK' /\ Unsubmitted' /\ InHand' /\ Written'
    BY <2>1, <2>2 DEF PoolTypeOK, Unsubmitted, InHand, Written
  <2>5. Window'
    BY <2>1, <2>2, <2>3 DEF Window
  <2>6. NoneForgotten' /\ OutIsQuiet'
    BY <2>1, <2>2, <2>3 DEF NoneForgotten, OutIsQuiet
  <2> QED
    BY <2>4, <2>5, <2>6
<1> QED
  BY <1>1, <1>2, <1>3, <1>4, <1>5, <1>6, <1>7, <1>8 DEF Writer

LEMMA InductiveStep == IInv /\ [PoolNext]_scheduler => IInv'
<1> SUFFICES ASSUME IInv, [PoolNext]_scheduler PROVE IInv'
  OBVIOUS
<1> USE DEF IInv, signals
<1>1. PoolTypeOK
  OBVIOUS
<1>2. CASE Writer \/ HandleFails
  BY <1>2, SchedulerStep
<1>3. CASE MirrorCancel \/ Cancel
  BY <1>1, <1>3, StageStep DEF MirrorCancel, Cancel, PoolTypeOK
<1>4. CASE Feed
  <2>1. In("pending") \subseteq Nat /\ In("pending") # {}
    BY <1>4 DEF Feed, In, RelIx
  <2>2. Min(In("pending")) \in In("pending")
    BY <2>1, MinIsOf
  <2> QED
    BY <1>1, <1>4, <2>2, StageStep DEF Feed, Busy, In, PoolTypeOK, Stages
<1>5. CASE StartWork
  <2>1. In("queued") \subseteq Nat /\ In("queued") # {}
    BY <1>5 DEF StartWork, In, RelIx
  <2>2. Min(In("queued")) \in In("queued")
    BY <2>1, MinIsOf
  <2> QED
    BY <1>1, <1>5, <2>2, StageStep DEF StartWork, Busy, In, PoolTypeOK, Stages
<1>6. ASSUME NEW f \in RelIx, FinishFile(f) \/ StopAtChunk(f) PROVE IInv'
  <2>1. f \in Busy
    BY <1>6 DEF FinishFile, StopAtChunk, Busy, In
  <2> QED
    BY <1>1, <1>6, <2>1, StageStep DEF FinishFile, StopAtChunk, PoolTypeOK, Stages
<1>7. CASE WorkerDies
  BY <1>1, <1>7, StageStep DEF WorkerDies, PoolTypeOK, Stages
<1>8. CASE UNCHANGED scheduler
  BY <1>1, <1>8, StageStep DEF scheduler, PoolTypeOK
<1> QED
  BY <1>2, <1>3, <1>4, <1>5, <1>6, <1>7, <1>8 DEF PoolNext, AllOver

LEMMA Invariance == PoolSpec => []IInv
<1>1. IInv /\ [PoolNext]_scheduler => IInv'
  BY InductiveStep
<1> QED
  BY <1>1, InitIInv, PTL DEF PoolSpec

-----------------------------------------------------------------------------
(* What follows *)

\* However results, failures and cancellations interleave, no file's rows are
\* written twice, only a file parsed to its end is written, and the files
\* whose rows are held in memory never exceed the window of twice the workers.
THEOREM RowsWrittenOnce == PoolSpec => []HandledOnce
<1>1. IInv => HandledOnce
  <2> SUFFICES ASSUME IInv PROVE HandledOnce
    OBVIOUS
  <2> USE DEF IInv
  <2>1. inFlight \subseteq RelIx /\ Held \subseteq RelIx /\ IsFiniteSet(inFlight)
    BY FilesAreFinite DEF PoolTypeOK, Held, Busy, In
  <2>2. Cardinality(inFlight) \in Nat /\ Cardinality(Held) \in Nat
    BY <2>1, FilesAreFinite
  <2>3. CASE Held \subseteq inFlight
    <3>1. Cardinality(Held) <= Cardinality(inFlight)
      BY <2>1, <2>3, FilesAreFinite
    <3> QED
      BY <2>2, <3>1, WindowSize DEF Window, HandledOnce, Written, Held
  <2>4. CASE Held \subseteq inFlight \cup {cur} /\ Cardinality(inFlight) < MaxInFlight
    <3>1. /\ IsFiniteSet(inFlight \cup {cur})
          /\ Cardinality(inFlight \cup {cur}) <= Cardinality(inFlight) + 1
      BY <2>1, <2>2, FS_AddElement
    <3>2. Cardinality(Held) <= Cardinality(inFlight \cup {cur})
      BY <2>4, <3>1, FS_Subset
    <3>3. Cardinality(inFlight \cup {cur}) \in Nat
      BY <3>1, FS_CardinalityType
    <3> QED
      BY <2>2, <2>4, <3>1, <3>2, <3>3, WindowSize DEF HandledOnce, Written, Held
  <2> QED
    BY <2>3, <2>4 DEF Window
<1> QED
  BY <1>1, Invariance, PTL

\* When parallel_parse gives back control no worker reads the evidence any
\* more, and if it returns rather than raises, every file's rows were written.
THEOREM ReturnIsComplete == PoolSpec => []ReturnMeansAllHandled
<1>1. IInv => ReturnMeansAllHandled
  <2> SUFFICES ASSUME IInv, wpc = "out" PROVE ReturnMeansAllHandled
    BY DEF ReturnMeansAllHandled
  <2>1. Busy = {}
    BY DEF IInv, OutIsQuiet
  <2>2. ASSUME ~raising PROVE \A f \in RelIx : handled[f] = 1
    <3>1. nextRel > NumRels /\ inFlight = {}
      BY <2>2 DEF IInv, NoneForgotten
    <3>2. \A f \in RelIx : f < nextRel
      BY <3>1, ParallelParseAssumption DEF IInv, PoolTypeOK, RelIx
    <3> QED
      BY <2>2, <3>1, <3>2 DEF IInv, NoneForgotten
  <2> QED
    BY <2>1, <2>2 DEF ReturnMeansAllHandled
<1> QED
  BY <1>1, Invariance, PTL
=============================================================================
