----------------------------- MODULE GuiProofs -----------------------------
(***************************************************************************)
(* Proofs about the window's parts, for any databases, results, words and  *)
(* times an analyst may choose.                                            *)
(***************************************************************************)
EXTENDS GuiMC, ListingProofs, FiniteSetTheorems, SequenceTheorems, TLAPS

-----------------------------------------------------------------------------
(* The close sequence, for any set of screens and any number of operations *)

\* A thread is told to quit only after its outcome was delivered.
ToldBeforeQuit ==
  \A t \in Tasks : stage[t] \in {"leaving", "gone"} => toldTo[t] # NoTask

\* A screen's handle is a thread that was started.
HandlesAreStarted ==
  \A s \in Screens : latest[s] # NoTask => stage[latest[s]] # "unused"

\* The window closed with no screen reporting work, and nothing starts after.
ClosedIsQuiet == closed => BusyScreens = {}

IInv == TypeOK /\ ToldBeforeQuit /\ HandlesAreStarted /\ ClosedIsQuiet

LEMMA InitIInv == Init => IInv
<1> SUFFICES ASSUME Init PROVE IInv
  OBVIOUS
<1>1. (CHOOSE s \in Screens : TRUE) \in Screens
  BY GuiShutdownAssumption
<1>2. TypeOK
  BY <1>1 DEF Init, TypeOK, Stages
<1> QED
  BY <1>2 DEF Init, IInv, ToldBeforeQuit, HandlesAreStarted, ClosedIsQuiet

\* The typing of each step.
LEMMA TypeStep == TypeOK /\ [Next]_vars => TypeOK'
<1> SUFFICES ASSUME TypeOK, [Next]_vars PROVE TypeOK'
  OBVIOUS
<1> USE DEF TypeOK
<1>1. ASSUME NEW s \in Screens, NEW t \in Tasks, NEW k \in {"run", "scan"},
             Launch(s, t, k)
      PROVE  /\ stage' \in [Tasks -> Stages] /\ host' \in [Tasks -> Screens]
             /\ kind' \in [Tasks -> {"run", "scan"}]
             /\ latest' \in [Screens -> Tasks \cup {NoTask}]
             /\ toldTo' = toldTo /\ token' = token
             /\ phase' = phase /\ dialog' = dialog /\ polling' = polling
             /\ watched' = watched /\ closed' = closed
  BY <1>1 DEF Launch, Stages, coordinator
<1>2. ASSUME NEW s \in Screens, StartRun(s) PROVE TypeOK'
  <2>1. PICK t \in Tasks :
          Launch(s, t, "run") /\ current' = [current EXCEPT ![s] = t]
    BY <1>2 DEF StartRun
  <2> QED
    BY <1>1, <1>2, <2>1 DEF StartRun
<1>3. ASSUME NEW s \in Pickers, Rescan(s) PROVE TypeOK'
  <2>1. s \in Screens
    BY GuiShutdownAssumption
  <2>2. PICK t \in Tasks : Launch(s, t, "scan")
    BY <1>3 DEF Rescan
  <2> QED
    BY <1>1, <1>3, <2>1, <2>2 DEF Rescan
<1>4. ASSUME NEW s \in Stoppable, PressCancel(s) PROVE TypeOK'
  BY <1>4 DEF PressCancel, screens, coordinator
<1>5. ASSUME NEW t \in Tasks, WorkEnds(t) \/ ThreadEnds(t) \/ Quit(t)
      PROVE  TypeOK'
  BY <1>5 DEF WorkEnds, ThreadEnds, Quit, screens, coordinator, Stages
<1>6. ASSUME NEW t \in Tasks, Deliver(t) PROVE TypeOK'
  <2> DEFINE s == host[t]
             o == IF s \in Hosts THEN latest[s] ELSE t
  <2>1. /\ toldTo' = [toldTo EXCEPT ![t] = o]
        /\ Callback(s, t, o)
        /\ \/ CloseWindow
           \/ UNCHANGED coordinator
        /\ UNCHANGED <<stage, host, kind, token, latest, current>>
    BY <1>6 DEF Deliver
  <2>2. s \in Screens /\ o \in Tasks \cup {NoTask}
    OBVIOUS
  <2>3. startable' \in [Screens -> BOOLEAN] /\ device' \in [Screens -> BOOLEAN]
    <3>1. CASE kind[o] = "run"
      <4>1. PICK b \in BOOLEAN : startable' = [startable EXCEPT ![s] = @ \/ b]
        BY <2>1, <3>1 DEF Callback
      <4> QED
        BY <2>1, <2>2, <3>1, <4>1 DEF Callback
    <3>2. CASE kind[o] # "run"
      <4>1. PICK b \in BOOLEAN : device' = [device EXCEPT ![s] = b]
        BY <2>1, <3>2 DEF Callback
      <4> QED
        BY <2>1, <2>2, <3>2, <4>1 DEF Callback
    <3> QED
      BY <3>1, <3>2
  <2>4. /\ phase' \in {"idle", "asking", "draining"}
        /\ dialog' \in {"none", "quit?", "stopping"}
        /\ polling' \in BOOLEAN /\ watched' \subseteq Screens
        /\ closed' \in BOOLEAN
    BY <2>1 DEF CloseWindow, coordinator
  <2> HIDE DEF s, o
  <2> QED
    BY <2>1, <2>2, <2>3, <2>4
<1>7. ASSUME RequestClose \/ KeepRunning \/ Poll PROVE TypeOK'
  BY <1>7 DEF RequestClose, KeepRunning, Poll, CloseWindow, workers, screens
<1>8. ASSUME StopAndQuit PROVE TypeOK'
  <2>1. BusyScreens \subseteq Screens
    BY DEF BusyScreens
  <2> QED
    BY <1>8, <2>1 DEF StopAndQuit, CloseWindow, screens
<1>9. ASSUME UNCHANGED vars PROVE TypeOK'
  BY <1>9 DEF vars, workers, screens, coordinator
<1> QED
  BY <1>2, <1>3, <1>4, <1>5, <1>6, <1>7, <1>8, <1>9 DEF Next, Over

\* The parts of the invariant that relate threads, handles and the window.
LEMMA PartsStep == IInv /\ [Next]_vars =>
                     (ToldBeforeQuit /\ HandlesAreStarted /\ ClosedIsQuiet)'
<1> SUFFICES ASSUME IInv, [Next]_vars
             PROVE  (ToldBeforeQuit /\ HandlesAreStarted /\ ClosedIsQuiet)'
  OBVIOUS
<1> USE DEF IInv
<1>1. ASSUME NEW s \in Screens, NEW t \in Tasks, NEW k, Launch(s, t, k), ~closed
      PROVE  (ToldBeforeQuit /\ HandlesAreStarted /\ ClosedIsQuiet)'
  <2>1. /\ stage' = [stage EXCEPT ![t] = "working"]
        /\ latest' = [latest EXCEPT ![s] = t]
        /\ toldTo' = toldTo /\ closed' = closed
    BY <1>1 DEF Launch, coordinator
  <2>2. ToldBeforeQuit'
    BY <2>1 DEF ToldBeforeQuit, TypeOK
  <2>3. HandlesAreStarted'
    BY <2>1 DEF HandlesAreStarted, TypeOK
  <2> QED
    BY <1>1, <2>1, <2>2, <2>3 DEF ClosedIsQuiet
<1>2. ASSUME NEW s \in Screens, StartRun(s)
      PROVE  (ToldBeforeQuit /\ HandlesAreStarted /\ ClosedIsQuiet)'
  BY <1>1, <1>2 DEF StartRun
<1>3. ASSUME NEW s \in Pickers, Rescan(s)
      PROVE  (ToldBeforeQuit /\ HandlesAreStarted /\ ClosedIsQuiet)'
  BY <1>1, <1>3, GuiShutdownAssumption DEF Rescan
<1>4. ASSUME NEW t \in Tasks, WorkEnds(t) \/ ThreadEnds(t) \/ Quit(t)
      PROVE  (ToldBeforeQuit /\ HandlesAreStarted /\ ClosedIsQuiet)'
  <2>1. /\ ~closed /\ closed' = closed
        /\ toldTo' = toldTo /\ latest' = latest
        /\ stage[t] # "unused"
        /\ \/ stage' = [stage EXCEPT ![t] = "reported"]
           \/ /\ stage' = [stage EXCEPT ![t] = "leaving"]
              /\ toldTo[t] # NoTask
           \/ /\ stage' = [stage EXCEPT ![t] = "gone"]
              /\ stage[t] = "leaving"
    BY <1>4 DEF WorkEnds, ThreadEnds, Quit, screens, coordinator
  <2>2. ToldBeforeQuit'
    BY <2>1 DEF ToldBeforeQuit, TypeOK
  <2>3. HandlesAreStarted'
    BY <2>1 DEF HandlesAreStarted, TypeOK
  <2> QED
    BY <2>1, <2>2, <2>3 DEF ClosedIsQuiet
<1>5. ASSUME NEW t \in Tasks, Deliver(t)
      PROVE  (ToldBeforeQuit /\ HandlesAreStarted /\ ClosedIsQuiet)'
  <2>1. /\ stage[t] = "reported" /\ stage' = stage /\ latest' = latest
        /\ \E o : toldTo' = [toldTo EXCEPT ![t] = o]
        /\ ~closed /\ (closed' => BusyScreens = {})
    BY <1>5 DEF Deliver, CloseWindow, coordinator
  <2>2. BusyScreens' = BusyScreens
    BY <2>1 DEF BusyScreens, IsBusy, Alive
  <2>3. ToldBeforeQuit'
    BY <2>1 DEF ToldBeforeQuit, TypeOK
  <2>4. HandlesAreStarted'
    BY <2>1 DEF HandlesAreStarted
  <2> QED
    BY <2>1, <2>2, <2>3, <2>4 DEF ClosedIsQuiet
<1>6. ASSUME \/ \E s \in Stoppable : PressCancel(s)
             \/ RequestClose \/ KeepRunning \/ StopAndQuit \/ Poll
             \/ UNCHANGED vars
      PROVE  (ToldBeforeQuit /\ HandlesAreStarted /\ ClosedIsQuiet)'
  <2>1. /\ stage' = stage /\ latest' = latest /\ toldTo' = toldTo
        /\ closed' => closed \/ BusyScreens = {}
    BY <1>6 DEF PressCancel, RequestClose, KeepRunning, StopAndQuit, Poll,
       CloseWindow, workers, screens, coordinator, vars
  <2>2. BusyScreens' = BusyScreens
    BY <2>1 DEF BusyScreens, IsBusy, Alive
  <2> QED
    BY <2>1, <2>2 DEF ToldBeforeQuit, HandlesAreStarted, ClosedIsQuiet
<1> QED
  BY <1>2, <1>3, <1>4, <1>5, <1>6 DEF Next, Over

\* The inductive invariant holds in every reachable state: threads end only
\* after their outcome was delivered, and the window closes only when quiet.
THEOREM Invariant == Spec => []IInv
<1>1. IInv /\ [Next]_vars => IInv'
  BY TypeStep, PartsStep DEF IInv
<1> QED
  BY <1>1, InitIInv, PTL DEF Spec

\* Whatever the analyst starts, rescans, cancels or closes, and whenever the
\* threads end: the window does not close before the thread of the operation
\* each screen shows has returned and its outcome has been delivered.
THEOREM ShownWorkOver == Spec => []ShownWorkIsOver
<1>1. IInv => ShownWorkIsOver
  <2> SUFFICES ASSUME IInv, closed,
                      NEW s \in Hosts, latest[s] # NoTask
               PROVE  stage[latest[s]] = "gone" /\ toldTo[latest[s]] # NoTask
    BY DEF ShownWorkIsOver
  <2>1. s \in Screens /\ latest[s] \in Tasks
    BY GuiShutdownAssumption DEF IInv, TypeOK
  <2>2. ~Alive(latest[s])
    BY <2>1 DEF IInv, ClosedIsQuiet, BusyScreens, IsBusy
  <2>3. stage[latest[s]] \in Stages /\ stage[latest[s]] # "unused"
    BY <2>1 DEF IInv, TypeOK, HandlesAreStarted
  <2>4. stage[latest[s]] = "gone"
    BY <2>2, <2>3 DEF Alive, Stages
  <2> QED
    BY <2>1, <2>4 DEF IInv, ToldBeforeQuit
<1> QED
  BY <1>1, Invariant, PTL

-----------------------------------------------------------------------------
(* The drain *)

\* Threads are started in the order of their numbers.
StartedInOrder ==
  \A t, u \in Tasks : u < t /\ stage[t] # "unused" => stage[u] # "unused"

\* A screen's controller holds the token of the newest run of its screen, also
\* when a scan has taken the run's place as the screen's thread.
CurrentIsNewest ==
  \A s \in Screens :
    /\ current[s] # NoTask =>
         /\ stage[current[s]] # "unused"
         /\ host[current[s]] = s /\ kind[current[s]] = "run"
    /\ \A t \in Tasks :
         stage[t] # "unused" /\ host[t] = s /\ kind[t] = "run" => t <= current[s]

\* Nothing can be started or cancelled by hand while the coordinator is at work.
DialogIsUp == phase # "idle" => dialog # "none"

\* What is busy in the drain was asked to cancel when the drain began.
DrainIsAsked ==
  phase = "draining" =>
    \A s \in Stoppable \cap BusyScreens : current[s] # NoTask => token[current[s]]

DrainInv == StartedInOrder /\ CurrentIsNewest /\ DialogIsUp /\ DrainIsAsked

LEMMA DrainStep == IInv /\ DrainInv /\ [Next]_vars => DrainInv'
<1> SUFFICES ASSUME IInv, DrainInv, [Next]_vars PROVE DrainInv'
  OBVIOUS
<1> USE DEF DrainInv
<1>1. TypeOK /\ TypeOK'
  BY TypeStep DEF IInv
<1>2. ASSUME NEW s \in Screens, NEW t \in Tasks, NEW k \in {"run", "scan"},
             Launch(s, t, k), dialog = "none",
             current' = IF k = "run" THEN [current EXCEPT ![s] = t] ELSE current
      PROVE  DrainInv'
  <2>1. /\ stage[t] = "unused" /\ stage' = [stage EXCEPT ![t] = "working"]
        /\ host' = [host EXCEPT ![t] = s] /\ kind' = [kind EXCEPT ![t] = k]
        /\ \A u \in Tasks : u < t => stage[u] # "unused"
        /\ UNCHANGED <<phase, dialog>>
    BY <1>2 DEF Launch, coordinator
  <2>2. \A u \in Tasks : u \in Nat /\ (stage[u] # "unused" => u < t)
    BY <2>1, GuiShutdownAssumption DEF StartedInOrder, Tasks
  <2>3. StartedInOrder'
    BY <1>1, <2>1, <2>2 DEF StartedInOrder, TypeOK
  <2>4. CurrentIsNewest'
    <3> SUFFICES ASSUME NEW r \in Screens
                 PROVE  /\ current'[r] # NoTask =>
                             /\ stage'[current'[r]] # "unused"
                             /\ host'[current'[r]] = r
                             /\ kind'[current'[r]] = "run"
                        /\ \A u \in Tasks :
                             stage'[u] # "unused" /\ host'[u] = r /\ kind'[u] = "run"
                               => u <= current'[r]
      BY DEF CurrentIsNewest
    <3>1. CASE k = "run" /\ r = s
      <4>1. current'[r] = t
        BY <1>1, <1>2, <3>1 DEF TypeOK
      <4> QED
        BY <1>1, <2>1, <2>2, <3>1, <4>1 DEF TypeOK
    <3>2. CASE ~(k = "run" /\ r = s)
      <4>1. current'[r] = current[r] /\ current[r] # t
        BY <1>1, <1>2, <2>1, <3>2 DEF TypeOK, CurrentIsNewest, NoTask, Tasks
      <4> QED
        BY <1>1, <2>1, <3>2, <4>1 DEF TypeOK, CurrentIsNewest
    <3> QED
      BY <3>1, <3>2
  <2> QED
    BY <1>2, <2>1, <2>3, <2>4 DEF DialogIsUp, DrainIsAsked
<1>3. ASSUME NEW s \in Screens, StartRun(s) PROVE DrainInv'
  BY <1>2, <1>3 DEF StartRun
<1>4. ASSUME NEW s \in Pickers, Rescan(s) PROVE DrainInv'
  <2>1. s \in Screens /\ current' = current
    BY <1>4, GuiShutdownAssumption DEF Rescan
  <2> QED
    BY <1>2, <1>4, <2>1 DEF Rescan
<1>5. ASSUME NEW s \in Stoppable, PressCancel(s) PROVE DrainInv'
  <2>1. /\ dialog = "none"
        /\ UNCHANGED <<stage, host, kind, current, phase, dialog>>
    BY <1>5 DEF PressCancel, screens, coordinator
  <2> QED
    BY <2>1 DEF StartedInOrder, CurrentIsNewest, DialogIsUp, DrainIsAsked
<1>6. ASSUME UNCHANGED <<host, kind, latest, current, token, phase, dialog>>,
             \A t \in Tasks : /\ stage'[t] = "unused" <=> stage[t] = "unused"
                              /\ Alive(t)' => Alive(t)
      PROVE  DrainInv'
  <2>1. BusyScreens' \subseteq BusyScreens
    BY <1>1, <1>6 DEF BusyScreens, IsBusy, TypeOK
  <2>2. CurrentIsNewest'
    BY <1>1, <1>6 DEF CurrentIsNewest, TypeOK
  <2> QED
    BY <1>6, <2>1, <2>2 DEF StartedInOrder, DialogIsUp, DrainIsAsked
<1>7. ASSUME NEW t \in Tasks, WorkEnds(t) \/ ThreadEnds(t) \/ Quit(t)
      PROVE  DrainInv'
  <2>1. /\ UNCHANGED <<host, kind, latest, current, token, phase, dialog>>
        /\ \/ stage[t] = "working" /\ stage' = [stage EXCEPT ![t] = "reported"]
           \/ stage[t] = "reported" /\ stage' = [stage EXCEPT ![t] = "leaving"]
           \/ stage[t] = "leaving" /\ stage' = [stage EXCEPT ![t] = "gone"]
    BY <1>7 DEF WorkEnds, ThreadEnds, Quit, screens, coordinator
  <2> QED
    BY <1>1, <1>6, <2>1 DEF TypeOK, Alive
<1>8. ASSUME UNCHANGED <<stage, host, kind, latest, current>>,
             \/ UNCHANGED <<phase, dialog, token>>
             \/ phase' = "idle"
             \/ phase' = "asking" /\ dialog' = "quit?"
      PROVE  DrainInv'
  <2>1. BusyScreens' = BusyScreens
    BY <1>8 DEF BusyScreens, IsBusy, Alive
  <2> QED
    BY <1>8, <2>1 DEF StartedInOrder, CurrentIsNewest, DialogIsUp, DrainIsAsked
<1>9. ASSUME NEW t \in Tasks, Deliver(t) PROVE DrainInv'
  <2>1. /\ UNCHANGED <<stage, host, kind, latest, current, token>>
        /\ CloseWindow \/ UNCHANGED coordinator
    BY <1>9 DEF Deliver
  <2> QED
    BY <1>8, <2>1 DEF CloseWindow, coordinator
<1>10. ASSUME RequestClose \/ KeepRunning \/ Poll \/ UNCHANGED vars
       PROVE  DrainInv'
  BY <1>8, <1>10 DEF RequestClose, KeepRunning, Poll, CloseWindow, workers,
     screens, coordinator, vars
<1>11. ASSUME StopAndQuit PROVE DrainInv'
  <2>1. CASE BusyScreens = {}
    BY <1>8, <1>11, <2>1 DEF StopAndQuit, CloseWindow, screens
  <2>2. CASE BusyScreens # {}
    <3>1. /\ UNCHANGED <<stage, host, kind, latest, current>>
          /\ phase' = "draining" /\ dialog' = "stopping"
          /\ token' = [t \in Tasks |->
               token[t] \/ \E s \in BusyScreens \cap Stoppable : current[s] = t]
      BY <1>11, <2>2 DEF StopAndQuit, screens
    <3>2. BusyScreens' = BusyScreens /\ BusyScreens \subseteq Screens
      BY <3>1 DEF BusyScreens, IsBusy, Alive
    <3>3. DrainIsAsked'
      BY <1>1, <3>1, <3>2 DEF DrainIsAsked, TypeOK
    <3> QED
      BY <3>1, <3>3 DEF StartedInOrder, CurrentIsNewest, DialogIsUp
  <2> QED
    BY <2>1, <2>2
<1> QED
  BY <1>3, <1>4, <1>5, <1>7, <1>9, <1>10, <1>11 DEF Next, Over

\* Whatever was started, scanned, cancelled or ended before and since: while
\* the drain dialog is up, the newest run of a screen that is still busy has
\* its token set.
THEOREM DrainReachesTheRun == Spec => []DrainStopsTheRun
<1>1. Init => DrainInv
  <2> SUFFICES ASSUME Init PROVE DrainInv
    OBVIOUS
  <2>1. (\A t \in Tasks : stage[t] = "unused") /\ (\A s \in Screens : current[s] = NoTask)
    BY DEF Init
  <2>2. StartedInOrder /\ CurrentIsNewest
    BY <2>1 DEF StartedInOrder, CurrentIsNewest
  <2>3. DialogIsUp /\ DrainIsAsked
    BY DEF Init, DialogIsUp, DrainIsAsked
  <2> QED
    BY <2>2, <2>3 DEF DrainInv
<1>2. IInv /\ DrainInv => DrainStopsTheRun
  <2> SUFFICES ASSUME IInv, DrainInv, phase = "draining",
                      NEW s \in Stoppable \cap BusyScreens, NEW t \in Tasks,
                      stage[t] = "working", host[t] = s, kind[t] = "run",
                      \A u \in Tasks : u > t => \/ stage[u] = "unused"
                                                \/ host[u] # s \/ kind[u] # "run"
               PROVE  token[t]
    BY DEF DrainStopsTheRun
  <2>1. s \in Screens /\ current[s] \in Tasks \cup {NoTask} /\ t \in Nat /\ t >= 1
    BY GuiShutdownAssumption DEF IInv, TypeOK, Tasks
  <2>2. t <= current[s]
    BY <2>1 DEF DrainInv, CurrentIsNewest
  <2>3. current[s] \in Tasks /\ current[s] # NoTask
    BY <2>1, <2>2 DEF NoTask
  <2>4. ~(current[s] > t)
    BY <2>1, <2>3 DEF DrainInv, CurrentIsNewest
  <2>5. current[s] = t
    BY <2>1, <2>2, <2>3, <2>4 DEF Tasks
  <2> QED
    BY <2>3, <2>5 DEF DrainInv, DrainIsAsked
<1>3. IInv /\ DrainInv /\ [Next]_vars => DrainInv'
  BY DrainStep
<1>4. IInv /\ [Next]_vars => IInv'
  BY TypeStep, PartsStep DEF IInv
<1> QED
  BY <1>1, <1>2, <1>3, <1>4, InitIInv, PTL DEF Spec

-----------------------------------------------------------------------------
(* The wizard *)

\* A job that was not started has done nothing; each kind keeps to its own steps.
JobsInOrder ==
  /\ \A t \in Jobs : t = 0 \/ t > jobs => step[t] = "none"
  /\ \A t \in Jobs : t > jobs => /\ collected[t] = {} /\ ~skip[t] /\ ~continue[t] /\ ~stopToken[t]
                                 /\ ~asked[t] /\ ~promised[t]
  /\ \A t \in Jobs : /\ jobKind[t] = "scan" => step[t] \in {"none", "scanning", "reported"}
                     /\ step[t] = "scanning" => jobKind[t] = "scan"
                     /\ step[t] \in {"ticked", "still"} => remaining[t] > 0

\* Where abort() may stand: its three calls, the token's first.
AbortGoesOn ==
  /\ abort \in {<<>>, AbortOrder, <<"skip", "continue">>, <<"continue">>}
  /\ abort # <<>> => asked[latestRun]
  /\ asked[latestRun] /\ abort # AbortOrder => stopToken[latestRun]
  /\ \A t \in Jobs : stopToken[t] => asked[t]

\* Nobody wakes the newest run in the action pause before its token is set.
PromiseHolds ==
  /\ promised[latestRun] => asked[latestRun] /\ step[latestRun] # "action"
  /\ promised[latestRun] /\ (continue[latestRun] \/ step[latestRun] = "checkWait")
       => stopToken[latestRun]
  /\ step[latestRun] \in Early \cup {"checkWait", "action"} => "action" \notin collected[latestRun]
  /\ step[latestRun] \in Pauses => hears[latestRun] = latestRun
  /\ Honoured(latestRun)

\* Whose the i-th signal is, and what it says.
JobAt(q, i)  == q[i].job
WordAt(q, i) == q[i].word

\* The outcome is the last word of a job, which is over when it was delivered.
QueueInOrder ==
  /\ signals \in Seq([job : Jobs, word : SignalWords])
  /\ \A i \in 1..Len(signals) :
       /\ step[JobAt(signals, i)] # "none"
       /\ WordAt(signals, i) \in Outcomes => step[JobAt(signals, i)] = "reported"
       /\ WordAt(signals, i) \in Outcomes =>
            \A j \in 1..Len(signals) : j > i => JobAt(signals, j) # JobAt(signals, i)
       /\ jobKind[JobAt(signals, i)] = "scan" => WordAt(signals, i) \in {"devices", "failed"}
       /\ WordAt(signals, i) = "devices" => jobKind[JobAt(signals, i)] = "scan"

\* The panel p is shown, or the last word of t in the queue brings it.
Comes(t, w, p) ==
  \/ panel = p /\ \A i \in 1..Len(signals) : JobAt(signals, i) # t
  \/ \E i \in 1..Len(signals) :
       /\ JobAt(signals, i) = t /\ WordAt(signals, i) = w
       /\ \A j \in 1..Len(signals) : j > i => JobAt(signals, j) # t

\* Until a run was told of the failure of a scan, the screen is that of the one run.
OneRunShown ==
  /\ \A t \in Jobs : RunAlive(t) => t = latestRun /\ t = jobs
  /\ panel \in {"SETUP", "DONE"} <=> ~\E t \in Jobs : RunAlive(t)
  /\ summary => panel = "DONE"
  /\ \A t \in Jobs : /\ step[t] \in {"ticked", "still"} => Comes(t, "still:", "STILL")
                     /\ step[t] \in {"announced", "waiting"} => Comes(t, "wait", "WAITING")
  /\ AbortIsHonoured
  /\ \A i \in 1..Len(signals) : WordAt(signals, i) = "cancelled" => asked[JobAt(signals, i)]

WizardInv == /\ WizardTypeOK /\ JobsInOrder /\ AbortGoesOn /\ PromiseHolds /\ QueueInOrder
             /\ (misled \/ OneRunShown)

LEMMA WizardInitInv == WizardInit => WizardInv
<1> SUFFICES ASSUME WizardInit PROVE WizardInv
  OBVIOUS
<1>1. /\ 0 \in Jobs /\ Never \in [Jobs -> BOOLEAN] /\ \A t \in Jobs : Never[t] = FALSE
      /\ signals = <<>> /\ Len(signals) = 0
  BY WizardAssumption DEF Jobs, Never, WizardInit
<1>2. WizardTypeOK
  <2>1. {skip, continue, stopToken, asked, promised} \subseteq [Jobs -> BOOLEAN]
    BY <1>1 DEF WizardInit
  <2>2. /\ abort \in Seq({"cancel", "skip", "continue"})
        /\ signals \in Seq([job : Jobs, word : SignalWords])
    BY DEF WizardInit
  <2>3. /\ step \in [Jobs -> WizardSteps] /\ remaining \in [Jobs -> Nat] /\ hears \in [Jobs -> Jobs]
        /\ collected \in [Jobs -> SUBSET {"baseline", "action"}]
        /\ jobKind \in [Jobs -> {"run", "scan"}]
    BY <1>1 DEF WizardInit, WizardSteps
  <2>4. panel \in Panels /\ {summary, picked, onTab, leaving, misled} \subseteq BOOLEAN
    BY DEF WizardInit, Panels
  <2> QED
    BY <1>1, <2>1, <2>2, <2>3, <2>4 DEF WizardInit, WizardTypeOK
<1>3. JobsInOrder /\ AbortGoesOn /\ PromiseHolds
  BY <1>1 DEF WizardInit, JobsInOrder, AbortGoesOn, PromiseHolds, Honoured, Early, Pauses
<1>4. QueueInOrder
  BY <1>1, <1>2 DEF QueueInOrder, WizardTypeOK
<1>5. OneRunShown
  BY <1>1 DEF WizardInit, OneRunShown, RunAlive, AbortIsHonoured, Honoured
<1> QED
  BY <1>2, <1>3, <1>4, <1>5 DEF WizardInv

\* From where to where a worker moves, and what it says; "" is nothing.
FailingSteps == {"connected", "baseline", "action", "extract", "diff", "scanning"}
Move(from, to, w) ==
  \/ from = "connected" /\ to \in {"ticking", "baseline"} /\ w = "phase"
  \/ from = "ticking" /\ to = "ticked" /\ w = "still:"
  \/ from = "ticking" /\ to = "checkStill" /\ w = ""
  \/ from = "ticked" /\ to = "still" /\ w = ""
  \/ from = "still" /\ to \in {"checkStill", "ticking"} /\ w = ""
  \/ from = "checkStill" /\ to = "baseline" /\ w = "phase"
  \/ from \in {"checkStill", "checkWait"} /\ to = "reported" /\ w = "cancelled"
  \/ from = "baseline" /\ to = "announced" /\ w = "wait"
  \/ from = "announced" /\ to = "waiting" /\ w = ""
  \/ from = "waiting" /\ to = "checkWait" /\ w = ""
  \/ from = "checkWait" /\ to = "action" /\ w = "phase"
  \/ from = "action" /\ to = "extract" /\ w = "phase"
  \/ from = "extract" /\ to = "diff" /\ w = "phase"
  \/ from = "diff" /\ to = "reported" /\ w = "finished"
  \/ from = "scanning" /\ to = "reported" /\ w = "devices"
  \/ from \in FailingSteps /\ to = "reported" /\ w = "failed"

\* A step of the worker of t, seen from its move.
Moved(t, to, w) ==
  /\ step' = [step EXCEPT ![t] = to] /\ Move(step[t], to, w)
  /\ \/ w = "" /\ signals' = signals
     \/ w # "" /\ signals' = Append(signals, [job |-> t, word |-> w])
  /\ \/ to \in Pauses /\ hears' = [hears EXCEPT ![t] = latestRun]
     \/ to \notin Pauses /\ hears' = hears
  /\ \A u \in Jobs : remaining'[u] =
       IF u = t /\ step[t] = "still" THEN remaining[u] - 1 ELSE remaining[u]
  /\ collected' \in [Jobs -> SUBSET {"baseline", "action"}]
  /\ \A u \in Jobs :
       "action" \in collected'[u] => "action" \in collected[u] \/ (u = t /\ step[t] = "action")
  /\ \A u \in Jobs : collected[u] = {} /\ u # t => collected'[u] = {}
  /\ to = "ticked" => remaining[t] > 0
  /\ w = "cancelled" => stopToken[latestRun]
  /\ to = "action" => ~stopToken[latestRun]
  /\ to = "checkWait" => continue[hears[t]]
  /\ remaining' \in [Jobs -> Int]
  /\ UNCHANGED <<wakers, started, shown, abort, history>>

LEMMA WorkerMoves ==
  ASSUME WizardTypeOK, NEW t \in Jobs, AnyWorker(t)
  PROVE  \E to, w : Moved(t, to, w)
<1> USE DEF WizardTypeOK
<1>0. /\ remaining \in [Jobs -> Nat] /\ remaining \in [Jobs -> Int]
      /\ collected \in [Jobs -> SUBSET {"baseline", "action"}]
      /\ step \in [Jobs -> WizardSteps]
  OBVIOUS
<1>1. ASSUME NEW from, NEW to, NEW w, Moves(t, from, to), Says(t, w), w # "", Move(from, to, w),
             UNCHANGED <<remaining, hears, collected>>, to \notin Pauses, to # "checkWait",
             from # "still", to = "ticked" => remaining[t] > 0,
             w = "cancelled" => stopToken[latestRun], to = "action" => ~stopToken[latestRun]
      PROVE  Moved(t, to, w)
  <2>1. /\ \A u \in Jobs : remaining'[u] =
             IF u = t /\ step[t] = "still" THEN remaining[u] - 1 ELSE remaining[u]
        /\ remaining' \in [Jobs -> Int] /\ collected' = collected /\ hears' = hears
    BY <1>0, <1>1 DEF Moves
  <2> QED
    BY <1>0, <1>1, <2>1 DEF Moves, Says, Moved
<1>2. ASSUME NEW from, NEW to, Moves(t, from, to), UNCHANGED signals, Move(from, to, ""),
             UNCHANGED collected, to # "ticked", to # "action", to = "checkWait" => continue[hears[t]],
             \/ to \in Pauses /\ hears' = [hears EXCEPT ![t] = latestRun]
             \/ to \notin Pauses /\ hears' = hears,
             \/ from # "still" /\ UNCHANGED remaining
             \/ from = "still" /\ remaining' = [remaining EXCEPT ![t] = @ - 1]
      PROVE  Moved(t, to, "")
  <2>1. step[t] = from
    BY <1>2 DEF Moves
  <2>2. /\ \A u \in Jobs : remaining'[u] =
             IF u = t /\ step[t] = "still" THEN remaining[u] - 1 ELSE remaining[u]
        /\ remaining' \in [Jobs -> Int]
    <3>1. CASE from # "still" /\ UNCHANGED remaining
      BY <1>0, <2>1, <3>1
    <3>2. CASE from = "still" /\ remaining' = [remaining EXCEPT ![t] = @ - 1]
      BY <1>0, <2>1, <3>2
    <3> QED
      BY <1>2, <3>1, <3>2
  <2> QED
    BY <1>0, <1>2, <2>1, <2>2 DEF Moves, Moved
<1>3. CASE Fail(t)
  <2>1. PICK from \in FailingSteps : /\ Moves(t, from, "reported") /\ Says(t, "failed")
                                     /\ UNCHANGED <<remaining, hears, collected>>
    BY <1>3 DEF Fail, Reports, FailingSteps
  <2>2. Move(from, "reported", "failed") /\ from # "still"
    BY <2>1 DEF Move, FailingSteps
  <2> QED
    BY <1>1, <2>1, <2>2 DEF Pauses
<1>4. CASE ScanEnds(t)
  BY <1>1, <1>4 DEF ScanEnds, Reports, Move, Pauses
<1>5. CASE WorkerConnects(t)
  BY <1>1, <1>5 DEF WorkerConnects, Move, Pauses
<1>6. CASE StillTick(t)
  <2>1. CASE remaining[t] > 0 /\ Moves(t, "ticking", "ticked") /\ Says(t, "still:")
    BY <1>1, <1>6, <2>1 DEF StillTick, Move, Pauses
  <2>2. CASE remaining[t] = 0 /\ Moves(t, "ticking", "checkStill") /\ UNCHANGED signals
    BY <1>2, <1>6, <2>2 DEF StillTick, Move, Pauses
  <2> QED
    BY <1>6, <2>1, <2>2 DEF StillTick
<1>7. CASE StillWaits(t)
  BY <1>2, <1>7 DEF StillWaits, Move, Pauses
<1>8. CASE StillEnds(t)
  BY <1>2, <1>8 DEF StillEnds, Move, Pauses
<1>9. ASSUME NEW from \in {"checkStill", "checkWait"}, NEW to \in {"baseline", "action"},
             Move(from, to, "phase"), Checks(t, from, to)
      PROVE  \E x, w : Moved(t, x, w)
  <2>1. CASE stopToken[latestRun] /\ Reports(t, from, "cancelled")
    BY <1>1, <1>9, <2>1 DEF Checks, Reports, Move, Pauses
  <2>2. CASE ~stopToken[latestRun] /\ Moves(t, from, to) /\ Says(t, "phase")
    BY <1>1, <1>9, <2>2 DEF Checks, Pauses
  <2> QED
    BY <1>9, <2>1, <2>2 DEF Checks
<1>10. CASE CheckStill(t) \/ CheckWait(t)
  BY <1>9, <1>10 DEF CheckStill, CheckWait, Move
<1>11. CASE WorkerCollectsBaseline(t)
  <2>1. /\ Moves(t, "baseline", "announced") /\ Says(t, "wait") /\ UNCHANGED <<remaining, hears>>
        /\ collected' = [collected EXCEPT ![t] = @ \cup {"baseline"}]
    BY <1>11 DEF WorkerCollectsBaseline
  <2>2. Move(step[t], "announced", "wait")
    BY <2>1 DEF Moves, Move
  <2>3. /\ collected' \in [Jobs -> SUBSET {"baseline", "action"}]
        /\ \A u \in Jobs : "action" \in collected'[u] => "action" \in collected[u]
        /\ \A u \in Jobs : collected[u] = {} /\ u # t => collected'[u] = {}
    BY <2>1
  <2>4. /\ \A u \in Jobs : remaining'[u] =
             IF u = t /\ step[t] = "still" THEN remaining[u] - 1 ELSE remaining[u]
        /\ remaining' \in [Jobs -> Int] /\ hears' = hears
    BY <1>0, <2>1 DEF Moves
  <2> QED
    BY <2>1, <2>2, <2>3, <2>4 DEF Moved, Moves, Says, Pauses
<1>12. CASE ActionWaits(t)
  BY <1>2, <1>12 DEF ActionWaits, Move, Pauses
<1>13. CASE ActionEnds(t)
  BY <1>2, <1>13 DEF ActionEnds, Move, Pauses
<1>14. CASE WorkerCollectsAction(t)
  <2>1. /\ Moves(t, "action", "extract") /\ Says(t, "phase") /\ UNCHANGED <<remaining, hears>>
        /\ collected' = [collected EXCEPT ![t] = @ \cup {"action"}]
    BY <1>14 DEF WorkerCollectsAction
  <2>2. Move(step[t], "extract", "phase") /\ step[t] = "action"
    BY <2>1 DEF Moves, Move
  <2>3. /\ collected' \in [Jobs -> SUBSET {"baseline", "action"}]
        /\ \A u \in Jobs : "action" \in collected'[u] => "action" \in collected[u] \/ u = t
        /\ \A u \in Jobs : collected[u] = {} /\ u # t => collected'[u] = {}
    BY <2>1
  <2>4. /\ \A u \in Jobs : remaining'[u] =
             IF u = t /\ step[t] = "still" THEN remaining[u] - 1 ELSE remaining[u]
        /\ remaining' \in [Jobs -> Int] /\ hears' = hears
    BY <1>0, <2>1 DEF Moves
  <2> QED
    BY <2>1, <2>2, <2>3, <2>4 DEF Moved, Moves, Says, Pauses
<1>15. CASE ExtractBoth(t)
  BY <1>1, <1>15 DEF ExtractBoth, Move, Pauses
<1>16. CASE Diff(t)
  BY <1>1, <1>16 DEF Diff, Reports, Move, Pauses
<1> QED
  BY <1>3, <1>4, <1>5, <1>6, <1>7, <1>8, <1>10, <1>11, <1>12, <1>13, <1>14, <1>15, <1>16 DEF AnyWorker

\* What the table of moves says of any of them.
LEMMA MoveFacts ==
  ASSUME NEW from, NEW to, NEW w, Move(from, to, w)
  PROVE  /\ from \notin {"none", "reported"} /\ to \in WizardSteps /\ to # "none"
         /\ to # "scanning" /\ (from = "scanning" => to = "reported")
         /\ w \in SignalWords \cup {""} /\ (w \in Outcomes <=> to = "reported")
         /\ (w = "devices" => from = "scanning")
         /\ (from = "scanning" => w \in {"devices", "failed"})
         /\ (to = "ticked" => w = "still:") /\ (to = "still" => from = "ticked" /\ w = "")
         /\ (to = "announced" => w = "wait") /\ (to = "waiting" => from = "announced" /\ w = "")
         /\ (to = "action" => from = "checkWait") /\ (to = "extract" => from = "action")
         /\ (to = "diff" => from = "extract") /\ (to = "checkWait" => from = "waiting")
         /\ (to \in Early => from \in Early)
  BY DEF Move, FailingSteps, WizardSteps, SignalWords, Outcomes, Early, Pauses

\* A worker's word comes after those in the queue.
Spoke(t, w) ==
  /\ Len(signals') = Len(signals) + 1
  /\ \A i \in 1..Len(signals) : /\ JobAt(signals', i) = JobAt(signals, i)
                                /\ WordAt(signals', i) = WordAt(signals, i)
  /\ JobAt(signals', Len(signals) + 1) = t /\ WordAt(signals', Len(signals) + 1) = w

LEMMA OneMoreSignal ==
  ASSUME NEW t \in Jobs, NEW w \in SignalWords, QueueInOrder,
         signals' = Append(signals, [job |-> t, word |-> w])
  PROVE  Spoke(t, w) /\ signals' \in Seq([job : Jobs, word : SignalWords])
  BY AppendProperties, LenProperties DEF QueueInOrder, JobAt, WordAt, Spoke

LEMMA WorkerStep ==
  ASSUME WizardInv, NEW t \in Jobs, AnyWorker(t)
  PROVE  WizardInv'
<1> USE DEF WizardInv
<1>1. PICK to, w : Moved(t, to, w)
  BY WorkerMoves
<1>2. /\ Move(step[t], to, w) /\ step' = [step EXCEPT ![t] = to]
      /\ UNCHANGED <<skip, continue, stopToken, jobs, latestRun, jobKind, panel, summary, picked,
                     onTab, leaving, abort, asked, promised, misled>>
  BY <1>1 DEF Moved, wakers, started, shown, history
<1>0. /\ step[t] \notin {"none", "reported"} /\ to \in WizardSteps /\ to # "none"
      /\ to # "scanning" /\ (step[t] = "scanning" => to = "reported")
      /\ w \in SignalWords \cup {""} /\ (w \in Outcomes <=> to = "reported")
      /\ (w = "devices" => step[t] = "scanning")
      /\ (step[t] = "scanning" => w \in {"devices", "failed"})
      /\ (to = "ticked" => w = "still:") /\ (to = "still" => step[t] = "ticked" /\ w = "")
      /\ (to = "announced" => w = "wait") /\ (to = "waiting" => step[t] = "announced" /\ w = "")
      /\ (to = "action" => step[t] = "checkWait") /\ (to = "extract" => step[t] = "action")
      /\ (to = "diff" => step[t] = "extract") /\ (to = "checkWait" => step[t] = "waiting")
      /\ (to \in Early => step[t] \in Early)
  BY <1>2, MoveFacts
<1>3. /\ step \in [Jobs -> WizardSteps] /\ step'[t] = to /\ \A u \in Jobs : u # t => step'[u] = step[u]
      /\ latestRun \in Jobs /\ jobs \in Nat /\ jobKind \in [Jobs -> {"run", "scan"}]
      /\ remaining \in [Jobs -> Nat] /\ hears \in [Jobs -> Jobs]
  BY <1>2, WizardAssumption DEF WizardTypeOK, Jobs
<1>4. t # 0 /\ t <= jobs /\ step[t] \notin {"none", "reported"}
  <2>1. step[t] \notin {"none", "reported"}
    BY <1>0
  <2>2. ~(t = 0 \/ t > jobs)
    BY <2>1 DEF JobsInOrder
  <2>3. t \in Int
    BY WizardAssumption DEF Jobs
  <2> QED
    BY <1>3, <2>1, <2>2, <2>3
<1>5. /\ signals' \in Seq([job : Jobs, word : SignalWords])
      /\ w = "" => signals' = signals
      /\ w # "" => Spoke(t, w)
  <2>1. CASE w = ""
    BY <1>1, <2>1 DEF Moved, QueueInOrder
  <2>2. CASE w # ""
    <3>1. signals' = Append(signals, [job |-> t, word |-> w]) /\ w \in SignalWords
      BY <1>1, <1>2, <2>2, <1>0 DEF Moved
    <3> QED
      BY <2>2, <3>1, OneMoreSignal
  <2> QED
    BY <2>1, <2>2
<1>50. /\ Len(signals) \in Nat
       /\ \A i \in 1..Len(signals) : JobAt(signals, i) \in Jobs
  <2>1. signals \in Seq([job : Jobs, word : SignalWords])
    BY DEF QueueInOrder
  <2>2. \A i \in 1..Len(signals) : signals[i] \in [job : Jobs, word : SignalWords]
    BY <2>1, ElementOfSeq
  <2> QED
    BY <2>1, <2>2, LenProperties DEF JobAt
<1>6. JobsInOrder'
  <2>1. \A u \in Jobs : u = 0 \/ u > jobs' => step'[u] = "none"
    BY <1>2, <1>3, <1>4 DEF JobsInOrder
  <2>2. \A u \in Jobs : u > jobs' => collected'[u] = {}
    BY <1>1, <1>2, <1>4 DEF JobsInOrder, Moved
  <2>3. \A u \in Jobs : /\ jobKind'[u] = "scan" => step'[u] \in {"none", "scanning", "reported"}
                        /\ step'[u] = "scanning" => jobKind'[u] = "scan"
    BY <1>2, <1>3, <1>4, <1>0 DEF JobsInOrder
  <2>4. \A u \in Jobs : step'[u] \in {"ticked", "still"} => remaining'[u] > 0
    <3> SUFFICES ASSUME NEW u \in Jobs, step'[u] \in {"ticked", "still"} PROVE remaining'[u] > 0
      OBVIOUS
    <3>1. remaining'[u] = IF u = t /\ step[t] = "still" THEN remaining[u] - 1 ELSE remaining[u]
      BY <1>1 DEF Moved
    <3>2. CASE u # t
      BY <1>3, <3>1, <3>2 DEF JobsInOrder
    <3>3. CASE u = t
      <4>1. step[t] # "still"
        BY <1>2, <1>3, <3>3 DEF Move
      <4>2. to = "ticked" => remaining[t] > 0
        BY <1>1 DEF Moved
      <4>3. to = "still" => remaining[t] > 0
        BY <1>2, <1>0 DEF JobsInOrder
      <4> QED
        BY <1>3, <3>1, <3>3, <4>1, <4>2, <4>3
    <3> QED
      BY <3>2, <3>3
  <2> QED
    BY <1>2, <2>1, <2>2, <2>3, <2>4 DEF JobsInOrder
<1>7. WizardTypeOK'
  <2>1. step' \in [Jobs -> WizardSteps]
    BY <1>2, <1>3, <1>0
  <2>2. remaining' \in [Jobs -> Nat]
    <3>1. /\ remaining' \in [Jobs -> Int]
          /\ \A u \in Jobs : remaining'[u] =
               IF u = t /\ step[t] = "still" THEN remaining[u] - 1 ELSE remaining[u]
      BY <1>1 DEF Moved
    <3>2. \A u \in Jobs : remaining'[u] \in Nat
      BY <1>3, <3>1 DEF JobsInOrder
    <3> QED
      BY <3>1, <3>2
  <2>3. hears' \in [Jobs -> Jobs] /\ collected' \in [Jobs -> SUBSET {"baseline", "action"}]
    <3>1. hears' = hears \/ hears' = [hears EXCEPT ![t] = latestRun]
      BY <1>1 DEF Moved
    <3>2. collected' \in [Jobs -> SUBSET {"baseline", "action"}]
      BY <1>1 DEF Moved
    <3> QED
      BY <1>3, <3>1, <3>2
  <2> QED
    BY <1>2, <1>5, <2>1, <2>2, <2>3 DEF WizardTypeOK
<1>8. AbortGoesOn'
  BY <1>2 DEF AbortGoesOn
<1>9. PromiseHolds'
  <2>1. /\ step[latestRun] = "checkWait" /\ step'[latestRun] = "action" => ~stopToken[latestRun]
        /\ step'[latestRun] = "checkWait" /\ step[latestRun] # "checkWait"
             => step[latestRun] = "waiting" /\ continue[hears[latestRun]]
    BY <1>1, <1>2, <1>3, <1>0 DEF Moved
  <2>2. step'[latestRun] \in Pauses => hears'[latestRun] = latestRun
    BY <1>1, <1>2, <1>3, <1>0 DEF Moved, PromiseHolds, Pauses
  <2>3. "action" \in collected'[latestRun] =>
          "action" \in collected[latestRun] \/ (latestRun = t /\ step[t] = "action")
    BY <1>1, <1>3 DEF Moved
  <2>4. /\ step'[latestRun] = "action" => step[latestRun] \in {"checkWait", "action"}
        /\ step'[latestRun] = "extract" => step[latestRun] \in {"action", "extract"}
        /\ step'[latestRun] = "diff" => step[latestRun] \in {"extract", "diff"}
        /\ step'[latestRun] \in Early => step[latestRun] \in Early
        /\ step'[latestRun] = "checkWait" => step[latestRun] \in {"waiting", "checkWait"}
    BY <1>2, <1>3, <1>0
  <2>5. Early \cap {"checkWait", "action", "extract", "diff"} = {} /\ "waiting" \in Early \cap Pauses
    BY DEF Early, Pauses
  <2>6. promised[latestRun] => step'[latestRun] \notin {"action", "extract", "diff"}
    BY <1>2, <1>3, <2>1, <2>4 DEF PromiseHolds, Honoured
  <2>7. promised[latestRun] => "action" \notin collected'[latestRun]
    BY <2>3 DEF PromiseHolds, Honoured
  <2>8. promised[latestRun] /\ step'[latestRun] = "checkWait" => stopToken[latestRun]
    BY <1>3, <2>1, <2>4, <2>5 DEF PromiseHolds
  <2>9. step'[latestRun] \in Early \cup {"checkWait", "action"} => "action" \notin collected'[latestRun]
    <3>1. CASE latestRun # t
      BY <1>3, <2>3, <3>1 DEF PromiseHolds
    <3>2. CASE latestRun = t
      <4>1. /\ step'[t] = "action" => step[t] = "checkWait"
            /\ step'[t] \in Early \cup {"checkWait"} => step[t] \in Early \cup {"checkWait"}
        BY <1>0, <1>3, <2>5
      <4> QED
        BY <2>3, <2>5, <3>2, <4>1 DEF PromiseHolds
    <3> QED
      BY <3>1, <3>2
  <2> QED
    BY <1>2, <2>2, <2>6, <2>7, <2>8, <2>9 DEF PromiseHolds, Honoured
<1>10. QueueInOrder'
  <2>1. CASE w = ""
    <3>1. signals' = signals
      BY <1>5, <2>1
    <3>2. /\ \A u \in Jobs : /\ step[u] # "none" => step'[u] # "none"
                             /\ step[u] = "reported" => step'[u] = "reported"
      BY <1>0, <1>3
    <3> QED
      BY <1>2, <1>5, <1>50, <3>1, <3>2 DEF QueueInOrder
  <2>2. CASE w # ""
    <3>1. Spoke(t, w)
      BY <1>5, <2>2
    <3>2. /\ \A u \in Jobs : /\ step[u] # "none" => step'[u] # "none"
                             /\ step[u] = "reported" => step'[u] = "reported"
      BY <1>0, <1>3
    <3>3. \A i \in 1..Len(signals) : JobAt(signals, i) = t => WordAt(signals, i) \notin Outcomes
      BY <1>0 DEF QueueInOrder
    <3>4. jobKind[t] = "scan" <=> step[t] = "scanning"
      BY <1>0 DEF JobsInOrder
    <3>5. \A i \in 1..(Len(signals) + 1) : i \in 1..Len(signals) \/ i = Len(signals) + 1
      BY <1>50
    <3>6. ASSUME NEW i \in 1..Len(signals)
          PROVE  /\ step'[JobAt(signals', i)] # "none"
                 /\ WordAt(signals', i) \in Outcomes => step'[JobAt(signals', i)] = "reported"
                 /\ WordAt(signals', i) \in Outcomes =>
                      \A j \in 1..(Len(signals) + 1) : j > i => JobAt(signals', j) # JobAt(signals', i)
                 /\ jobKind[JobAt(signals', i)] = "scan" => WordAt(signals', i) \in {"devices", "failed"}
                 /\ WordAt(signals', i) = "devices" => jobKind[JobAt(signals', i)] = "scan"
      <4>1. JobAt(signals', i) = JobAt(signals, i) /\ WordAt(signals', i) = WordAt(signals, i)
            /\ JobAt(signals, i) \in Jobs
        BY <1>50, <3>1 DEF Spoke
      <4>2. \A j \in 1..Len(signals) : JobAt(signals', j) = JobAt(signals, j)
        BY <3>1 DEF Spoke
      <4>3. JobAt(signals', Len(signals) + 1) = t
        BY <3>1 DEF Spoke
      <4> QED
        BY <3>2, <3>3, <3>5, <4>1, <4>2, <4>3 DEF QueueInOrder
    <3>7. /\ step'[t] # "none" /\ (w \in Outcomes => step'[t] = "reported")
          /\ (jobKind[t] = "scan" => w \in {"devices", "failed"}) /\ (w = "devices" => jobKind[t] = "scan")
      BY <1>0, <1>3, <3>4
    <3>8. /\ JobAt(signals', Len(signals) + 1) = t /\ WordAt(signals', Len(signals) + 1) = w
          /\ Len(signals') = Len(signals) + 1 /\ jobKind' = jobKind
      BY <1>2, <3>1 DEF Spoke
    <3>9. ASSUME NEW i \in 1..(Len(signals) + 1)
          PROVE  /\ step'[JobAt(signals', i)] # "none"
                 /\ WordAt(signals', i) \in Outcomes => step'[JobAt(signals', i)] = "reported"
                 /\ WordAt(signals', i) \in Outcomes =>
                      \A j \in 1..(Len(signals) + 1) : j > i => JobAt(signals', j) # JobAt(signals', i)
                 /\ jobKind[JobAt(signals', i)] = "scan" => WordAt(signals', i) \in {"devices", "failed"}
                 /\ WordAt(signals', i) = "devices" => jobKind[JobAt(signals', i)] = "scan"
      <4>1. CASE i \in 1..Len(signals)
        BY <3>6, <4>1
      <4>2. CASE i = Len(signals) + 1
        BY <1>50, <3>7, <3>8, <4>2
      <4> QED
        BY <3>5, <4>1, <4>2
    <3> QED
      BY <1>5, <3>8, <3>9 DEF QueueInOrder
  <2> QED
    BY <2>1, <2>2
<1>11. misled' \/ OneRunShown'
  <2> SUFFICES ASSUME ~misled, OneRunShown PROVE OneRunShown'
    BY <1>2
  <2>1. \A u \in Jobs : RunAlive(u)' <=> RunAlive(u)
    BY <1>2, <1>3, <1>4, <1>0 DEF RunAlive
  <2>2. \A i \in 1..Len(signals') : WordAt(signals', i) = "cancelled" => asked'[JobAt(signals', i)]
    <3>1. w = "cancelled" => asked[t]
      <4>1. w = "cancelled" => jobKind[t] = "run"
        BY <1>2, <1>3, <1>4, <1>0 DEF JobsInOrder
      <4>2. w = "cancelled" => t = latestRun
        BY <1>3, <1>4, <4>1 DEF OneRunShown, RunAlive
      <4> QED
        BY <1>1, <4>2 DEF Moved, AbortGoesOn
    <3> QED
      <4>1. CASE w = ""
        BY <1>2, <1>5, <4>1 DEF OneRunShown
      <4>2. CASE w # ""
        <5>1. Spoke(t, w)
          BY <1>5, <4>2
        <5> QED
          BY <1>2, <1>50, <3>1, <5>1 DEF OneRunShown, Spoke
      <4> QED
        BY <4>1, <4>2
  <2>3. AbortIsHonoured'
    <3> SUFFICES ASSUME NEW u \in Jobs, u # latestRun PROVE Honoured(u)'
      BY <1>2, <1>9 DEF AbortIsHonoured, PromiseHolds
    <3>1. Honoured(u)
      BY DEF OneRunShown, AbortIsHonoured
    <3>2. u = t => step[t] = "scanning" /\ to = "reported"
      BY <1>2, <1>3, <1>4, <1>0 DEF OneRunShown, RunAlive, JobsInOrder
    <3>3. "action" \in collected'[u] => "action" \in collected[u]
      BY <1>1, <3>2 DEF Moved
    <3> QED
      BY <1>2, <1>3, <3>1, <3>2, <3>3 DEF Honoured
  <2>4. ASSUME NEW u \in Jobs
        PROVE  /\ step'[u] \in {"ticked", "still"} => Comes(u, "still:", "STILL")'
               /\ step'[u] \in {"announced", "waiting"} => Comes(u, "wait", "WAITING")'
    <3>1. CASE w = ""
      <4>1. ASSUME NEW v, NEW p, Comes(u, v, p) PROVE Comes(u, v, p)'
        BY <1>2, <1>5, <3>1, <4>1 DEF Comes
      <4>2. to # "ticked" /\ to # "announced"
        BY <1>0, <3>1
      <4> QED
        BY <1>0, <1>3, <4>1, <4>2 DEF OneRunShown
    <3>2. CASE w # "" /\ u # t
      <4>1. Spoke(t, w)
        BY <1>5, <3>2
      <4>2. ASSUME NEW v, NEW p, Comes(u, v, p) PROVE Comes(u, v, p)'
        <5>1. /\ Len(signals') = Len(signals) + 1 /\ panel' = panel
              /\ \A i \in 1..Len(signals) : /\ JobAt(signals', i) = JobAt(signals, i)
                                            /\ WordAt(signals', i) = WordAt(signals, i)
              /\ JobAt(signals', Len(signals) + 1) # u
          BY <1>2, <3>2, <4>1 DEF Spoke
        <5>2. 1..Len(signals') = 1..Len(signals) \cup {Len(signals) + 1}
          BY <1>50, <5>1
        <5>3. CASE panel = p /\ \A i \in 1..Len(signals) : JobAt(signals, i) # u
          <6>1. \A i \in 1..Len(signals') : JobAt(signals', i) # u
            BY <5>1, <5>2, <5>3
          <6> QED
            BY <5>1, <5>3, <6>1 DEF Comes
        <5>4. ASSUME NEW i \in 1..Len(signals), JobAt(signals, i) = u, WordAt(signals, i) = v,
                     \A j \in 1..Len(signals) : j > i => JobAt(signals, j) # u
              PROVE  Comes(u, v, p)'
          <6>1. i \in 1..Len(signals') /\ JobAt(signals', i) = u /\ WordAt(signals', i) = v
            BY <5>1, <5>2, <5>4
          <6>2. \A j \in 1..Len(signals') : j > i => JobAt(signals', j) # u
            BY <5>1, <5>2, <5>4
          <6> QED
            BY <6>1, <6>2 DEF Comes
        <5> QED
          BY <4>2, <5>3, <5>4 DEF Comes
      <4> QED
        BY <1>3, <3>2, <4>2 DEF OneRunShown
    <3>3. CASE w # "" /\ u = t
      <4>1. Spoke(t, w)
        BY <1>5, <3>3
      <4>2. ASSUME NEW p PROVE Comes(u, w, p)'
        <5>1. /\ Len(signals') = Len(signals) + 1
              /\ JobAt(signals', Len(signals')) = u /\ WordAt(signals', Len(signals')) = w
          BY <3>3, <4>1 DEF Spoke
        <5>2. /\ Len(signals') \in 1..Len(signals')
              /\ \A j \in 1..Len(signals') : ~(j > Len(signals'))
          BY <1>50, <5>1
        <5> QED
          BY <5>1, <5>2 DEF Comes
      <4> QED
        BY <1>0, <1>3, <3>3, <4>2
    <3> QED
      BY <3>1, <3>2, <3>3
  <2> QED
    BY <1>2, <2>1, <2>2, <2>3, <2>4 DEF OneRunShown
<1> QED
  BY <1>6, <1>7, <1>8, <1>9, <1>10, <1>11

\* The abort's calls, one after the other.
LEMMA AbortCalls ==
  /\ AbortOrder \in Seq({"cancel", "skip", "continue"}) /\ AbortOrder # <<>>
  /\ Head(AbortOrder) = "cancel" /\ Tail(AbortOrder) = <<"skip", "continue">>
  /\ Head(<<"skip", "continue">>) = "skip" /\ Tail(<<"skip", "continue">>) = <<"continue">>
  /\ Head(<<"continue">>) = "continue" /\ Tail(<<"continue">>) = <<>>
  /\ AbortOrder # <<"skip", "continue">> /\ AbortOrder # <<"continue">>
  /\ \A s \in {<<>>, <<"skip", "continue">>, <<"continue">>} : s \in Seq({"cancel", "skip", "continue"})
  BY DEF AbortOrder

\* A job is started: it is the newest, and nothing was known of it.
LEMMA JobStarts ==
  ASSUME WizardInv, (\E s \in StillSeconds : StartWizard(s)) \/ RescanDevices
  PROVE  WizardInv'
<1> USE DEF WizardInv
<1> DEFINE n == jobs + 1
<1>1. PICK k \in {"run", "scan"}, s \in Nat :
        /\ Free /\ panel = "SETUP" /\ jobs < MaxJobs
        /\ jobs' = n /\ jobKind' = [jobKind EXCEPT ![n] = k]
        /\ step' = [step EXCEPT ![n] = IF k = "run" THEN "connected" ELSE "scanning"]
        /\ latestRun' = IF k = "run" THEN n ELSE latestRun
        /\ remaining' \in {remaining, [remaining EXCEPT ![n] = s]}
        /\ panel' = IF k = "run" THEN "RUNNING" ELSE panel
        /\ picked' \in {picked, FALSE}
        /\ UNCHANGED <<hears, collected, signals, skip, continue, stopToken, summary, onTab, leaving,
                       abort, asked, promised, misled>>
  <2>1. CASE \E s \in StillSeconds : StartWizard(s)
    <3>1. PICK s \in StillSeconds : StartWizard(s)
      BY <2>1
    <3> QED
      BY <3>1, WizardAssumption DEF StartWizard, RunTask, Pressed, wakers, history
  <2>2. CASE RescanDevices
    BY <2>2 DEF RescanDevices, RunTask, Pressed, wakers, history
  <2> QED
    BY <2>1, <2>2
<1>2. /\ step \in [Jobs -> WizardSteps] /\ jobKind \in [Jobs -> {"run", "scan"}]
      /\ remaining \in [Jobs -> Nat] /\ hears \in [Jobs -> Jobs] /\ latestRun \in Jobs
      /\ jobs \in Nat /\ MaxJobs \in Nat /\ \A t \in Jobs : t \in Nat
      /\ {skip, continue, stopToken, asked, promised} \subseteq [Jobs -> BOOLEAN]
      /\ {summary, picked, onTab, leaving, misled} \subseteq BOOLEAN
      /\ collected \in [Jobs -> SUBSET {"baseline", "action"}]
  BY WizardAssumption DEF WizardTypeOK, Jobs
<1>3. n \in Jobs /\ n # 0 /\ n > jobs /\ n \in Nat
  BY <1>1, <1>2 DEF Jobs
<1>4. /\ step[n] = "none" /\ collected[n] = {} /\ ~skip[n] /\ ~continue[n] /\ ~stopToken[n]
      /\ ~asked[n] /\ ~promised[n]
  BY <1>3 DEF JobsInOrder
<1>5. /\ \A t \in Jobs : t # n => step'[t] = step[t] /\ jobKind'[t] = jobKind[t]
      /\ step'[n] = (IF k = "run" THEN "connected" ELSE "scanning") /\ jobKind'[n] = k
  BY <1>1, <1>2, <1>3
<1>6. /\ Len(signals) \in Nat
      /\ \A i \in 1..Len(signals) : JobAt(signals, i) \in Jobs /\ JobAt(signals, i) # n
  <2>1. signals \in Seq([job : Jobs, word : SignalWords])
    BY DEF QueueInOrder
  <2>2. \A i \in 1..Len(signals) : signals[i] \in [job : Jobs, word : SignalWords]
    BY <2>1, ElementOfSeq
  <2>3. \A i \in 1..Len(signals) : JobAt(signals, i) \in Jobs
    BY <2>2 DEF JobAt
  <2> QED
    BY <1>4, <2>1, <2>3, LenProperties DEF QueueInOrder
<1>7. WizardTypeOK'
  <2>1. step' \in [Jobs -> WizardSteps] /\ jobKind' \in [Jobs -> {"run", "scan"}]
    BY <1>1, <1>2, <1>3 DEF WizardSteps, Early
  <2>2. remaining' \in [Jobs -> Nat] /\ latestRun' \in 0..jobs' /\ jobs' \in Jobs
    <3>1. latestRun \in 0..jobs
      BY DEF WizardTypeOK
    <3>2. remaining' \in [Jobs -> Nat]
      BY <1>1, <1>2, <1>3
    <3>3. latestRun' \in 0..n
      BY <1>1, <1>2, <1>3, <3>1
    <3> QED
      BY <1>1, <1>3, <3>2, <3>3
  <2>3. panel' \in Panels /\ {summary', picked', onTab', leaving', misled'} \subseteq BOOLEAN
    BY <1>1, <1>2 DEF Panels, WizardTypeOK
  <2>4. /\ {skip', continue', stopToken', asked', promised'} \subseteq [Jobs -> BOOLEAN]
        /\ hears' \in [Jobs -> Jobs] /\ collected' \in [Jobs -> SUBSET {"baseline", "action"}]
    BY <1>1, <1>2
  <2> QED
    BY <1>1, <2>1, <2>2, <2>3, <2>4 DEF WizardTypeOK
<1>8. JobsInOrder'
  <2>1. \A t \in Jobs : t > jobs' => t > jobs /\ t # n
    BY <1>1, <1>2
  <2>2. \A t \in Jobs : t = 0 \/ t > jobs' => step'[t] = "none"
    BY <1>3, <1>5, <2>1 DEF JobsInOrder
  <2>3. \A t \in Jobs : t > jobs' => /\ collected'[t] = {} /\ ~skip'[t] /\ ~continue'[t]
                                     /\ ~stopToken'[t] /\ ~asked'[t] /\ ~promised'[t]
    BY <1>1, <2>1 DEF JobsInOrder
  <2>4. \A t \in Jobs : t # n => remaining'[t] = remaining[t]
    BY <1>1, <1>2, <1>3
  <2>5. \A t \in Jobs : /\ jobKind'[t] = "scan" => step'[t] \in {"none", "scanning", "reported"}
                        /\ step'[t] = "scanning" => jobKind'[t] = "scan"
                        /\ step'[t] \in {"ticked", "still"} => remaining'[t] > 0
    BY <1>1, <1>5, <2>4 DEF JobsInOrder
  <2> QED
    BY <2>2, <2>3, <2>5 DEF JobsInOrder
<1>9. AbortGoesOn'
  <2>1. abort' = <<>> /\ ~asked[n]
    BY <1>1, <1>4 DEF Free
  <2>2. asked[latestRun] => stopToken[latestRun]
    BY <2>1, <1>1, AbortCalls DEF AbortGoesOn
  <2> QED
    BY <1>1, <2>1, <2>2, AbortCalls DEF AbortGoesOn
<1>10. PromiseHolds'
  <2>1. CASE k = "run"
    BY <1>1, <1>4, <1>5, <2>1 DEF PromiseHolds, Honoured, Pauses
  <2>2. CASE k = "scan"
    <3>1. latestRun' = latestRun
      BY <1>1, <2>2
    <3>2. CASE latestRun = n
      BY <1>1, <1>4, <1>5, <2>2, <3>1, <3>2 DEF PromiseHolds, Honoured, Pauses, Early
    <3>3. CASE latestRun # n
      BY <1>1, <1>2, <1>5, <3>1, <3>3 DEF PromiseHolds, Honoured
    <3> QED
      BY <3>2, <3>3
  <2> QED
    BY <2>1, <2>2
<1>11. QueueInOrder'
  BY <1>1, <1>5, <1>6 DEF QueueInOrder
<1>12. misled' \/ OneRunShown'
  <2> SUFFICES ASSUME ~misled, OneRunShown PROVE OneRunShown'
    BY <1>1
  <2>1. \A t \in Jobs : ~RunAlive(t)
    BY <1>1 DEF OneRunShown
  <2>2. \A t \in Jobs : RunAlive(t)' <=> t = n /\ k = "run"
    BY <1>1, <1>5, <2>1 DEF RunAlive
  <2>3. \A t \in Jobs : Honoured(t)'
    BY <1>1, <1>4, <1>5 DEF OneRunShown, AbortIsHonoured, Honoured
  <2>4. panel' \in {"SETUP", "DONE"} <=> k # "run"
    BY <1>1
  <2>5. \A t \in Jobs : step'[t] \notin {"ticked", "still", "announced", "waiting"}
    <3>1. \A t \in Jobs : step[t] \notin {"ticked", "still", "announced", "waiting"}
      BY <1>2, <2>1 DEF RunAlive, JobsInOrder
    <3> QED
      BY <1>5, <3>1
  <2>6. ~summary'
    BY <1>1 DEF OneRunShown
  <2>7. \A i \in 1..Len(signals') : WordAt(signals', i) = "cancelled" => asked'[JobAt(signals', i)]
    BY <1>1 DEF OneRunShown
  <2> QED
    BY <1>1, <1>3, <2>2, <2>3, <2>4, <2>5, <2>6, <2>7 DEF OneRunShown, AbortIsHonoured
<1> QED
  BY <1>7, <1>8, <1>9, <1>10, <1>11, <1>12

\* The buttons, and the calls of abort(), move no job and no signal: what is left to show
\* of such a step.
LEMMA ButtonKeeps ==
  ASSUME WizardInv,
         UNCHANGED <<threads, started, picked, misled>>,
         {skip', continue', stopToken', asked', promised'} \subseteq [Jobs -> BOOLEAN],
         \A t \in Jobs : t # latestRun => /\ skip'[t] = skip[t] /\ continue'[t] = continue[t]
                                         /\ stopToken'[t] = stopToken[t] /\ asked'[t] = asked[t]
                                         /\ promised'[t] = promised[t],
         asked[latestRun] => asked'[latestRun],
         {onTab', leaving'} \subseteq BOOLEAN,
         \/ UNCHANGED <<panel, summary>>
         \/ summary /\ panel' = "SETUP" /\ summary' = FALSE,
         AbortGoesOn', PromiseHolds', abort' \in Seq({"cancel", "skip", "continue"})
  PROVE  WizardInv'
<1> USE DEF WizardInv
<1>1. UNCHANGED <<jobs, latestRun, jobKind, step, remaining, hears, collected, signals, picked, misled>>
  BY DEF threads, started
<1>2. /\ latestRun \in Jobs /\ latestRun <= jobs /\ jobs \in Nat /\ \A t \in Jobs : t \in Nat
      /\ step \in [Jobs -> WizardSteps] /\ jobKind \in [Jobs -> {"run", "scan"}]
  <2>1. jobs \in 0..MaxJobs /\ latestRun \in 0..jobs /\ MaxJobs \in Nat
    BY WizardAssumption DEF WizardTypeOK, Jobs
  <2>2. /\ latestRun \in Jobs /\ latestRun <= jobs /\ jobs \in Nat /\ \A t \in Jobs : t \in Nat
    BY <2>1 DEF Jobs
  <2>3. step \in [Jobs -> WizardSteps] /\ jobKind \in [Jobs -> {"run", "scan"}]
    BY DEF WizardTypeOK
  <2> QED
    BY <2>2, <2>3
<1>3. WizardTypeOK'
  BY <1>1 DEF WizardTypeOK, Panels
<1>4. JobsInOrder'
  <2>1. \A t \in Jobs : t > jobs => t # latestRun
    BY <1>2
  <2> QED
    BY <1>1, <2>1 DEF JobsInOrder
<1>5. QueueInOrder'
  BY <1>1 DEF QueueInOrder
<1>6. misled' \/ OneRunShown'
  <2> SUFFICES ASSUME ~misled, OneRunShown PROVE OneRunShown'
    BY <1>1
  <2>1. \A t \in Jobs : RunAlive(t)' <=> RunAlive(t)
    BY <1>1 DEF RunAlive
  <2>2. AbortIsHonoured'
    BY <1>1 DEF OneRunShown, AbortIsHonoured, Honoured, PromiseHolds
  <2>3. \A i \in 1..Len(signals') : WordAt(signals', i) = "cancelled" => asked'[JobAt(signals', i)]
    <3>1. signals \in Seq([job : Jobs, word : SignalWords])
      BY DEF QueueInOrder
    <3>2. \A i \in 1..Len(signals) : signals[i] \in [job : Jobs, word : SignalWords]
      BY <3>1, ElementOfSeq
    <3>3. \A i \in 1..Len(signals) : JobAt(signals, i) \in Jobs
      BY <3>2 DEF JobAt
    <3> QED
      BY <1>1, <3>3 DEF OneRunShown
  <2>4. CASE UNCHANGED <<panel, summary>>
    <3>1. \A t \in Jobs : /\ Comes(t, "still:", "STILL") => Comes(t, "still:", "STILL")'
                          /\ Comes(t, "wait", "WAITING") => Comes(t, "wait", "WAITING")'
      BY <1>1, <2>4 DEF Comes
    <3> QED
      BY <1>1, <2>1, <2>2, <2>3, <2>4, <3>1 DEF OneRunShown
  <2>5. CASE summary /\ panel' = "SETUP" /\ summary' = FALSE
    <3>1. \A t \in Jobs : ~RunAlive(t)
      BY <2>5 DEF OneRunShown
    <3>2. \A t \in Jobs : step[t] \notin {"ticked", "still", "announced", "waiting"}
      BY <1>2, <3>1 DEF RunAlive, JobsInOrder
    <3> QED
      BY <1>1, <2>1, <2>2, <2>3, <2>5, <3>1, <3>2 DEF OneRunShown
  <2> QED
    BY <2>4, <2>5
<1> QED
  BY <1>3, <1>4, <1>5, <1>6

LEMMA ButtonStep ==
  ASSUME WizardInv,
         PressSkip \/ PressContinue \/ PressAbort \/ DrainAborts \/ AbortStep \/ SwitchTab \/ NewRun
  PROVE  WizardInv'
<1> DEFINE r == latestRun
<1>0. /\ {skip, continue, stopToken, asked, promised} \subseteq [Jobs -> BOOLEAN] /\ r \in Jobs
      /\ {onTab, leaving} \subseteq BOOLEAN /\ abort \in Seq({"cancel", "skip", "continue"})
      /\ AbortGoesOn /\ PromiseHolds
  <2>1. jobs \in 0..MaxJobs /\ latestRun \in 0..jobs /\ MaxJobs \in Nat
    BY WizardAssumption DEF WizardInv, WizardTypeOK, Jobs
  <2>2. r \in Jobs
    BY <2>1 DEF Jobs
  <2> QED
    BY <2>2 DEF WizardInv, WizardTypeOK
<1>1. CASE PressSkip
  <2>1. /\ skip' = [skip EXCEPT ![r] = TRUE]
        /\ UNCHANGED <<continue, stopToken, asked, promised, misled, threads, started, panel, summary,
                       picked, onTab, leaving, abort>>
    BY <1>1 DEF PressSkip, shown, history
  <2>2. AbortGoesOn' /\ PromiseHolds'
    BY <1>0, <2>1 DEF AbortGoesOn, PromiseHolds, Honoured, threads, started
  <2> QED
    BY <1>0, <2>1, <2>2, ButtonKeeps
<1>2. CASE PressContinue
  <2>1. /\ Free /\ continue' = [continue EXCEPT ![r] = TRUE]
        /\ UNCHANGED <<skip, stopToken, asked, promised, misled, threads, started, panel, summary,
                       picked, onTab, leaving, abort>>
    BY <1>2 DEF PressContinue, Pressed, shown, history
  <2>2. asked[r] => stopToken[r]
    BY <1>0, <2>1, AbortCalls DEF AbortGoesOn, Free
  <2>3. AbortGoesOn' /\ PromiseHolds'
    BY <1>0, <2>1, <2>2 DEF AbortGoesOn, PromiseHolds, Honoured, threads, started
  <2> QED
    BY <1>0, <2>1, <2>3, ButtonKeeps
<1>3. CASE PressAbort \/ DrainAborts
  <2>1. /\ Free /\ ~asked[r] /\ abort' = AbortOrder /\ asked' = [asked EXCEPT ![r] = TRUE]
        /\ promised' = [promised EXCEPT ![r] = ~continue[r] /\ step[r] \in Early]
        /\ UNCHANGED <<skip, continue, stopToken, misled, threads, started, panel, summary, picked, onTab>>
        /\ leaving' \in BOOLEAN
    BY <1>0, <1>3 DEF PressAbort, DrainAborts, EnterAbort, wakers
  <2>2. /\ asked'[r] = TRUE /\ \A t \in Jobs : t # r => asked'[t] = asked[t] /\ promised'[t] = promised[t]
        /\ promised'[r] = (~continue[r] /\ step[r] \in Early)
        /\ {asked', promised'} \subseteq [Jobs -> BOOLEAN]
    <3>1. (~continue[r] /\ step[r] \in Early) \in BOOLEAN
      BY <1>0
    <3> QED
      BY <1>0, <2>1, <3>1
  <2>3. AbortGoesOn'
    BY <1>0, <2>1, <2>2, AbortCalls DEF AbortGoesOn, started
  <2>4. PromiseHolds'
    BY <1>0, <2>1, <2>2 DEF PromiseHolds, Honoured, Early, Pauses, threads, started
  <2> QED
    BY <1>0, <2>1, <2>2, <2>3, <2>4, AbortCalls, ButtonKeeps
<1>4. CASE AbortStep
  <2>1. /\ abort # <<>> /\ abort' = Tail(abort)
        /\ stopToken' = [stopToken EXCEPT ![r] = stopToken[r] \/ Head(abort) = "cancel"]
        /\ skip' = [skip EXCEPT ![r] = skip[r] \/ Head(abort) = "skip"]
        /\ continue' = [continue EXCEPT ![r] = continue[r] \/ Head(abort) = "continue"]
        /\ UNCHANGED <<asked, promised, misled, threads, started, panel, summary, picked, onTab, leaving>>
    BY <1>4 DEF AbortStep, Free, shown, history
  <2>2. /\ asked[r] /\ (stopToken[r] \/ Head(abort) = "cancel")
        /\ abort' \in {<<>>, <<"skip", "continue">>, <<"continue">>}
    <3>1. abort \in {AbortOrder, <<"skip", "continue">>, <<"continue">>} /\ asked[r]
      BY <1>0, <2>1 DEF AbortGoesOn
    <3>2. CASE abort = AbortOrder
      BY <2>1, <3>1, <3>2, AbortCalls
    <3>3. CASE abort # AbortOrder
      BY <1>0, <2>1, <3>1, <3>3, AbortCalls DEF AbortGoesOn
    <3> QED
      BY <3>2, <3>3
  <2>3. /\ stopToken'[r] = TRUE
        /\ \A t \in Jobs : t # r => /\ skip'[t] = skip[t] /\ continue'[t] = continue[t]
                                   /\ stopToken'[t] = stopToken[t]
        /\ {skip', continue', stopToken'} \subseteq [Jobs -> BOOLEAN]
    <3>1. /\ (skip[r] \/ Head(abort) = "skip") \in BOOLEAN
          /\ (continue[r] \/ Head(abort) = "continue") \in BOOLEAN
          /\ (stopToken[r] \/ Head(abort) = "cancel") = TRUE
      BY <2>2
    <3> QED
      BY <1>0, <2>1, <3>1
  <2>4. AbortGoesOn' /\ PromiseHolds'
    BY <1>0, <2>1, <2>2, <2>3, AbortCalls DEF AbortGoesOn, PromiseHolds, Honoured, threads, started
  <2> QED
    BY <1>0, <2>1, <2>2, <2>3, <2>4, AbortCalls, ButtonKeeps
<1>5. CASE SwitchTab \/ NewRun
  <2>1. /\ UNCHANGED <<skip, continue, stopToken, asked, promised, misled, threads, started, picked,
                       leaving, abort>>
        /\ onTab' \in BOOLEAN
        /\ \/ UNCHANGED <<panel, summary>>
           \/ summary /\ panel' = "SETUP" /\ summary' = FALSE
    BY <1>0, <1>5 DEF SwitchTab, NewRun, SetState, wakers, history
  <2>2. AbortGoesOn' /\ PromiseHolds'
    BY <1>0, <2>1 DEF AbortGoesOn, PromiseHolds, Honoured, threads, started
  <2> QED
    BY <1>0, <2>1, <2>2, ButtonKeeps
<1> QED
  BY <1>1, <1>2, <1>3, <1>4, <1>5

\* Qt delivers the oldest signal: to the one run, while no run was told of a scan.
LEMMA DeliverStep == ASSUME WizardInv, DeliverSignal PROVE WizardInv'
<1> USE DEF WizardInv
<1> DEFINE n == Len(signals)
           t == JobAt(signals, 1)
           w == WordAt(signals, 1)
<1>1. /\ n \in Nat /\ n > 0 /\ signals' \in Seq([job : Jobs, word : SignalWords]) /\ Len(signals') = n - 1
      /\ Head(signals).job = t /\ Head(signals).word = w
      /\ \A i \in 1..n : JobAt(signals, i) \in Jobs /\ WordAt(signals, i) \in SignalWords
      /\ \A i \in 1..(n - 1) : /\ JobAt(signals', i) = JobAt(signals, i + 1)
                               /\ WordAt(signals', i) = WordAt(signals, i + 1)
  <2>1. /\ signals \in Seq([job : Jobs, word : SignalWords]) /\ signals # <<>>
        /\ signals' = Tail(signals)
    BY DEF QueueInOrder, DeliverSignal
  <2>2. /\ n \in Nat /\ n > 0 /\ Head(signals) = signals[1]
        /\ signals' \in Seq([job : Jobs, word : SignalWords]) /\ Len(signals') = n - 1
        /\ \A i \in 1..(n - 1) : signals'[i] = signals[i + 1]
    BY <2>1, HeadTailProperties, LenProperties, EmptySeq
  <2>3. \A i \in 1..n : signals[i] \in [job : Jobs, word : SignalWords]
    BY <2>1, ElementOfSeq
  <2> QED
    BY <2>2, <2>3 DEF JobAt, WordAt
<1>2. /\ t \in Jobs /\ w \in SignalWords /\ step[t] # "none"
      /\ w \in Outcomes => step[t] = "reported" /\ \A j \in 1..n : j > 1 => JobAt(signals, j) # t
      /\ jobKind[t] = "scan" => w \in {"devices", "failed"}
      /\ w = "devices" => jobKind[t] = "scan"
  <2>1. 1 \in 1..n
    BY <1>1
  <2> QED
    BY <1>1, <2>1 DEF QueueInOrder
<1>3. /\ step' = IF w \in Outcomes THEN [step EXCEPT ![t] = "none"] ELSE step
      /\ UNCHANGED <<remaining, hears, collected, skip, continue, stopToken, jobs, latestRun, jobKind,
                     onTab, leaving, abort, asked, promised>>
      /\ CASE w \notin Outcomes -> Progress(w)
           [] w \in Outcomes /\ jobKind[jobs] = "run" -> ToRun(t, w)
           [] OTHER -> ToScan(w)
  BY <1>1 DEF DeliverSignal, wakers, started
<1>4. /\ jobs \in 0..MaxJobs /\ latestRun \in 0..jobs /\ MaxJobs \in Nat
      /\ step \in [Jobs -> WizardSteps] /\ jobKind \in [Jobs -> {"run", "scan"}]
      /\ panel \in Panels /\ {summary, picked, onTab, leaving, misled} \subseteq BOOLEAN
  BY WizardAssumption DEF WizardTypeOK, Jobs
<1>5. latestRun \in Jobs /\ jobs \in Jobs /\ jobs \in Nat /\ \A u \in Jobs : u \in Nat
  BY <1>4 DEF Jobs
<1>6. /\ \A u \in Jobs : u # t \/ w \notin Outcomes => step'[u] = step[u]
      /\ w \in Outcomes => step'[t] = "none" /\ step[t] = "reported"
      /\ step' \in [Jobs -> WizardSteps]
  BY <1>2, <1>3, <1>4 DEF WizardSteps
<1>7. /\ panel' \in Panels /\ {summary', picked', misled'} \subseteq BOOLEAN
      /\ misled => misled'
  <2>1. CASE w \notin Outcomes
    <3>1. Progress(w)
      BY <1>3, <2>1
    <3> QED
      BY <1>4, <3>1 DEF Progress, SetState, Panels
  <2>2. CASE w \in Outcomes /\ jobKind[jobs] = "run"
    <3>1. ToRun(t, w)
      BY <1>3, <2>2
    <3> QED
      BY <1>4, <3>1 DEF ToRun, SetState, Panels
  <2>3. CASE w \in Outcomes /\ jobKind[jobs] # "run"
    <3>1. ToScan(w)
      BY <1>3, <2>3
    <3> QED
      BY <1>4, <3>1 DEF ToScan
  <2> QED
    BY <2>1, <2>2, <2>3
<1>8. WizardTypeOK'
  BY <1>1, <1>3, <1>6, <1>7 DEF WizardTypeOK
<1>9. JobsInOrder'
  BY <1>3, <1>6 DEF JobsInOrder
<1>10. AbortGoesOn'
  BY <1>3 DEF AbortGoesOn
<1>11. PromiseHolds'
  BY <1>3, <1>5, <1>6 DEF PromiseHolds, Honoured, Early, Pauses
<1>12. QueueInOrder'
  <2>1. ASSUME NEW i \in 1..(n - 1)
        PROVE  /\ i + 1 \in 1..n /\ i + 1 > 1 /\ JobAt(signals', i) = JobAt(signals, i + 1)
               /\ WordAt(signals', i) = WordAt(signals, i + 1) /\ JobAt(signals, i + 1) \in Jobs
    BY <1>1, <2>1
  <2>2. ASSUME NEW i \in 1..(n - 1)
        PROVE  step'[JobAt(signals', i)] = step[JobAt(signals', i)]
    BY <1>2, <1>6, <2>1
  <2>3. ASSUME NEW i \in 1..(n - 1), WordAt(signals', i) \in Outcomes, NEW j \in 1..(n - 1), j > i
        PROVE  JobAt(signals', j) # JobAt(signals', i)
    <3>1. i + 1 \in 1..n /\ j + 1 \in 1..n /\ j + 1 > i + 1
      BY <1>1, <2>3
    <3>2. WordAt(signals, i + 1) \in Outcomes
      BY <2>1, <2>3
    <3>3. JobAt(signals, j + 1) # JobAt(signals, i + 1)
      BY <3>1, <3>2 DEF QueueInOrder
    <3> QED
      BY <2>1, <3>3
  <2>4. ASSUME NEW i \in 1..(n - 1)
        PROVE  /\ step'[JobAt(signals', i)] # "none"
               /\ WordAt(signals', i) \in Outcomes => step'[JobAt(signals', i)] = "reported"
               /\ jobKind[JobAt(signals', i)] = "scan" => WordAt(signals', i) \in {"devices", "failed"}
               /\ WordAt(signals', i) = "devices" => jobKind[JobAt(signals', i)] = "scan"
    BY <2>1, <2>2 DEF QueueInOrder
  <2> QED
    BY <1>1, <1>3, <2>3, <2>4 DEF QueueInOrder
<1>13. misled' \/ OneRunShown'
  <2> SUFFICES ASSUME ~misled', OneRunShown PROVE OneRunShown'
    BY <1>7
  <2>1. /\ jobKind[t] = "run" => t = latestRun /\ t = jobs /\ w # "devices"
        /\ jobKind[t] = "run" => panel \notin {"SETUP", "DONE"} /\ ~summary
    BY <1>2, <1>4 DEF OneRunShown, RunAlive
  <2>2. jobKind[t] = "scan" => panel' = panel /\ summary' = summary
    <3>1. CASE jobKind[t] = "scan" /\ jobKind[jobs] = "run"
      <4>1. ToRun(t, w)
        BY <1>2, <1>3, <3>1 DEF Outcomes
      <4> QED
        BY <1>2, <3>1, <4>1 DEF ToRun
    <3>2. CASE jobKind[t] = "scan" /\ jobKind[jobs] # "run"
      <4>1. ToScan(w)
        BY <1>2, <1>3, <3>2 DEF Outcomes
      <4> QED
        BY <4>1 DEF ToScan
    <3> QED
      BY <3>1, <3>2
  <2>3. jobKind[t] = "run" /\ w \in Outcomes
          => panel' \in {"SETUP", "DONE"} /\ (summary' => panel' = "DONE")
    <3> SUFFICES ASSUME jobKind[t] = "run", w \in Outcomes
                 PROVE  panel' \in {"SETUP", "DONE"} /\ (summary' => panel' = "DONE")
      OBVIOUS
    <3>1. ToRun(t, w)
      BY <1>3, <2>1
    <3> QED
      BY <2>1, <3>1 DEF ToRun, SetState
  <2>4. jobKind[t] = "run" /\ w \notin Outcomes
          => /\ panel' \notin {"SETUP", "DONE"} /\ ~summary'
             /\ w = "still:" => panel' = "STILL"
             /\ w = "wait" => panel' = "WAITING"
    <3> SUFFICES ASSUME jobKind[t] = "run", w \notin Outcomes
                 PROVE  /\ panel' \notin {"SETUP", "DONE"} /\ ~summary'
                        /\ w = "still:" => panel' = "STILL"
                        /\ w = "wait" => panel' = "WAITING"
      OBVIOUS
    <3>1. Progress(w)
      BY <1>3
    <3> QED
      BY <2>1, <3>1 DEF Progress, SetState
  <2>5. \A u \in Jobs : RunAlive(u)' => RunAlive(u) /\ ~(u = t /\ w \in Outcomes)
    BY <1>3, <1>6 DEF RunAlive
  <2>6. \A u \in Jobs : RunAlive(u) /\ ~(u = t /\ w \in Outcomes) => RunAlive(u)'
    BY <1>3, <1>6 DEF RunAlive
  <2>7. jobKind[t] \in {"run", "scan"} /\ (jobKind[t] = "run" => RunAlive(t))
    BY <1>2, <1>4 DEF RunAlive
  <2>8. panel' \in {"SETUP", "DONE"} <=> ~\E u \in Jobs : RunAlive(u)'
    <3>1. CASE jobKind[t] = "scan"
      <4>1. \A u \in Jobs : RunAlive(u) => u # t
        BY <3>1 DEF RunAlive
      <4> QED
        BY <2>2, <2>5, <2>6, <3>1, <4>1 DEF OneRunShown
    <3>2. CASE jobKind[t] = "run" /\ w \in Outcomes
      BY <2>1, <2>3, <2>5, <3>2 DEF OneRunShown
    <3>3. CASE jobKind[t] = "run" /\ w \notin Outcomes
      BY <1>2, <2>4, <2>6, <2>7, <3>3
    <3> QED
      BY <2>7, <3>1, <3>2, <3>3
  <2>9. summary' => panel' = "DONE"
    BY <2>2, <2>3, <2>4, <2>7 DEF OneRunShown
  <2>10. \A u \in Jobs : RunAlive(u)' => u = latestRun' /\ u = jobs'
    BY <1>3, <2>5 DEF OneRunShown
  <2>11. AbortIsHonoured'
    <3>1. \A u \in Jobs : Honoured(u)'
      BY <1>3, <1>6 DEF OneRunShown, AbortIsHonoured, Honoured
    <3> QED
      BY <3>1 DEF AbortIsHonoured
  <2>12. \A i \in 1..Len(signals') : WordAt(signals', i) = "cancelled" => asked'[JobAt(signals', i)]
    BY <1>1, <1>3 DEF OneRunShown
  <2>13. ASSUME NEW u \in Jobs, step'[u] \in {"ticked", "still", "announced", "waiting"},
                NEW v \in SignalWords, NEW p, Comes(u, v, p), <<p, v>> \in {<<"STILL", "still:">>, <<"WAITING", "wait">>}
         PROVE  Comes(u, v, p)'
    <3>1. RunAlive(u) /\ jobKind[u] = "run" /\ step[u] = step'[u]
      BY <1>4, <1>6, <2>13 DEF RunAlive, JobsInOrder
    <3>2. jobKind[t] = "run" => u = t /\ w \notin Outcomes
      BY <1>6, <2>1, <2>13, <3>1 DEF OneRunShown
    <3>3. CASE panel = p /\ \A i \in 1..n : JobAt(signals, i) # u
      <4>1. u # t
        BY <1>1, <3>3
      <4>2. panel' = p
        BY <2>2, <2>7, <3>2, <3>3, <4>1
      <4>3. \A i \in 1..Len(signals') : JobAt(signals', i) # u
        BY <1>1, <3>3
      <4> QED
        BY <4>2, <4>3 DEF Comes
    <3>4. ASSUME NEW i \in 1..n, JobAt(signals, i) = u, WordAt(signals, i) = v,
                 \A j \in 1..n : j > i => JobAt(signals, j) # u
          PROVE  Comes(u, v, p)'
      <4>1. CASE i = 1
        <5>1. u = t /\ w = v /\ jobKind[t] = "run"
          BY <3>1, <3>4, <4>1
        <5>2. panel' = p
          BY <2>4, <2>13, <3>2, <5>1
        <5>3. \A j \in 1..Len(signals') : JobAt(signals', j) # u
          BY <1>1, <3>4, <4>1
        <5> QED
          BY <5>2, <5>3 DEF Comes
      <4>2. CASE i # 1
        <5>1. /\ i - 1 \in 1..Len(signals')
              /\ JobAt(signals', i - 1) = u /\ WordAt(signals', i - 1) = v
          BY <1>1, <3>4, <4>2
        <5>2. \A j \in 1..Len(signals') : j > i - 1 => JobAt(signals', j) # u
          BY <1>1, <3>4
        <5> QED
          BY <5>1, <5>2 DEF Comes
      <4> QED
        BY <4>1, <4>2
    <3> QED
      BY <2>13, <3>3, <3>4 DEF Comes
  <2>14. \A u \in Jobs : /\ step'[u] \in {"ticked", "still"} => Comes(u, "still:", "STILL")'
                         /\ step'[u] \in {"announced", "waiting"} => Comes(u, "wait", "WAITING")'
    <3> SUFFICES ASSUME NEW u \in Jobs
                 PROVE  /\ step'[u] \in {"ticked", "still"} => Comes(u, "still:", "STILL")'
                        /\ step'[u] \in {"announced", "waiting"} => Comes(u, "wait", "WAITING")'
      OBVIOUS
    <3>1. /\ step'[u] \in {"ticked", "still"} => Comes(u, "still:", "STILL")
          /\ step'[u] \in {"announced", "waiting"} => Comes(u, "wait", "WAITING")
      BY <1>6 DEF OneRunShown
    <3>2. "still:" \in SignalWords /\ "wait" \in SignalWords
      BY DEF SignalWords
    <3> QED
      BY <2>13, <3>1, <3>2
  <2> QED
    BY <1>3, <2>8, <2>9, <2>10, <2>11, <2>12, <2>14 DEF OneRunShown
<1> QED
  BY <1>8, <1>9, <1>10, <1>11, <1>12, <1>13

\* Whatever runs and scans overlap, an abort of the newest run before the end of its action
\* pause keeps it from the second collection.  Until the failure of a scan was told to a
\* run: no run inherits the abort of another, a blocked worker faces the button that frees
\* it, and the Start button is out of reach while a run goes on (identify.py,
\* screens_identify.py, screen_base.py:212-243).
THEOREM WizardAgrees == WizardSpec => []WizardIsHonest
<1>1. WizardInv => WizardIsHonest
  <2> SUFFICES ASSUME WizardInv PROVE WizardIsHonest
    OBVIOUS
  <2>1. WizardTypeOK /\ Honoured(latestRun)
    BY DEF WizardInv, PromiseHolds
  <2>2. ASSUME OneRunShown PROVE AbortIsHonoured /\ OnlyAbortCancels /\ PauseIsAnswerable /\ OneRunAtATime
    <3>1. signals \in Seq([job : Jobs, word : SignalWords])
      BY DEF WizardInv, QueueInOrder
    <3>2. OnlyAbortCancels
      <4>1. DOMAIN signals = 1..Len(signals)
        BY <3>1, LenProperties
      <4> QED
        BY <2>2, <4>1 DEF OneRunShown, OnlyAbortCancels, JobAt, WordAt
    <3>3. PauseIsAnswerable
      <4> SUFFICES ASSUME signals = <<>>, NEW t \in Jobs
                   PROVE  /\ step[t] = "still" => panel = "STILL" /\ hears[t] = latestRun
                          /\ step[t] = "waiting" => panel = "WAITING" /\ hears[t] = latestRun
        BY DEF PauseIsAnswerable
      <4>1. \A p, v : Comes(t, v, p) => panel = p
        BY DEF Comes
      <4>2. step[t] \in Pauses => RunAlive(t)
        BY DEF WizardInv, WizardTypeOK, JobsInOrder, RunAlive, Pauses
      <4> QED
        BY <2>2, <4>1, <4>2 DEF OneRunShown, WizardInv, PromiseHolds, Pauses
    <3> QED
      BY <2>2, <3>2, <3>3 DEF OneRunShown, OneRunAtATime
  <2> QED
    BY <2>1, <2>2 DEF WizardInv, WizardIsHonest
<1>2. WizardInv /\ [WizardNext]_wizard => WizardInv'
  <2>1. ASSUME WizardInv, WizardNext PROVE WizardInv'
    BY <2>1, WorkerStep, JobStarts, ButtonStep, DeliverStep DEF WizardNext
  <2>2. ASSUME WizardInv, UNCHANGED wizard PROVE WizardInv'
    <3>1. UNCHANGED <<jobs, latestRun, jobKind, step, remaining, hears, collected, skip, continue,
                      stopToken, signals, panel, summary, picked, onTab, leaving, abort, asked,
                      promised, misled>>
      BY <2>2 DEF wizard, threads, wakers, started, shown, history
    <3>2. WizardTypeOK' /\ JobsInOrder' /\ AbortGoesOn'
      BY <2>2, <3>1 DEF WizardInv, WizardTypeOK, JobsInOrder, AbortGoesOn
    <3>3. PromiseHolds' /\ QueueInOrder'
      BY <2>2, <3>1 DEF WizardInv, PromiseHolds, Honoured, QueueInOrder
    <3>4. OneRunShown => OneRunShown'
      <4>1. \A t \in Jobs : (RunAlive(t)' <=> RunAlive(t)) /\ (Honoured(t)' <=> Honoured(t))
        BY <3>1 DEF RunAlive, Honoured
      <4>2. \A t, v, p : Comes(t, v, p)' <=> Comes(t, v, p)
        BY <3>1 DEF Comes
      <4> QED
        BY <3>1, <4>1, <4>2 DEF OneRunShown, AbortIsHonoured
    <3> QED
      BY <2>2, <3>1, <3>2, <3>3, <3>4 DEF WizardInv
  <2> QED
    BY <2>1, <2>2
<1> QED
  BY <1>1, <1>2, WizardInitInv, PTL DEF WizardSpec

-----------------------------------------------------------------------------
(* The viewer of results *)

ViewFields == {"db", "noise", "known", "search", "total", "rows", "box", "pending", "typed",
               "open", "keys", "built", "button"}

\* Nothing is listed, typed or opened before a database is; rows are places in it.
ViewHolds ==
  /\ DOMAIN view = ViewFields /\ view.total \in Nat /\ view.rows \in Seq(Nat)
  /\ view.db = Blank => view.total = 0 /\ view.rows = <<>> /\ ~view.open /\ ~view.pending
  /\ DOMAIN hiddenKeys = DOMAIN Results

ResultsInv == ResultsTypeOK /\ ViewHolds /\ RowsAreTheListing /\ ControlsAreTheirs

LEMMA ListingIsOfTheFile ==
  ASSUME NEW v, NEW h, v.db \in DOMAIN Results
  PROVE  /\ ListedRows(v, h) \in Seq(DOMAIN Results[v.db])
         /\ Len(ListedRows(v, h)) \in Nat
<1> DEFINE S == {i \in DOMAIN Results[v.db] : Passes(Results[v.db][i], v, h[v.db])}
           n == Len(Results[v.db])
<1>1. n \in Nat /\ DOMAIN Results[v.db] = 1..n
  BY ResultsAssumption
<1>2. S \subseteq Nat /\ IsFiniteSet(S)
  <2>1. 1 \in Int /\ n \in Int
    BY <1>1
  <2>2. IsFiniteSet(1..n)
    BY <2>1, FS_Interval
  <2>3. S \in SUBSET (1..n)
    BY <1>1
  <2>4. IsFiniteSet(S)
    BY <2>2, <2>3, FS_Subset
  <2> QED
    BY <1>1, <2>3, <2>4
<1>3. Enumerated(S) \in Seq(S) /\ Len(Enumerated(S)) \in Nat
  BY <1>2, EnumeratedListsAll
<1>4. \A s \in Seq(S) : s \in Seq(DOMAIN Results[v.db])
  OBVIOUS
<1> QED
  BY <1>3, <1>4 DEF ListedRows

LEMMA NothingIsAHead ==
  ASSUME NEW T, NEW s \in Seq(T)
  PROVE  IsPrefix(<<>>, s)
<1>1. Len(<<>>) = 0 /\ Len(s) \in Nat
  OBVIOUS
<1>2. SubSeq(<<>>, 1, Len(<<>>)) = SubSeq(s, 1, Len(<<>>))
  BY <1>1
<1> QED
  BY <1>1, <1>2 DEF IsPrefix

\* Reading again leaves everything but the rows and their number.
LEMMA ReloadedView ==
  ASSUME NEW v, NEW h, DOMAIN v = ViewFields, v.db \in DOMAIN Results
  PROVE  LET w == ReloadRows(v, h)
         IN /\ DOMAIN w = ViewFields
            /\ w.total = Len(ListedRows(w, h)) /\ w.total \in Nat
            /\ w.rows = <<>> /\ IsPrefix(w.rows, ListedRows(w, h))
            /\ \A f \in ViewFields \ {"total", "rows"} : w[f] = v[f]
<1> DEFINE w == ReloadRows(v, h)
<1>1. /\ DOMAIN w = ViewFields /\ w.total = Len(ListedRows(v, h)) /\ w.rows = <<>>
      /\ \A f \in ViewFields \ {"total", "rows"} : w[f] = v[f]
  BY DEF ReloadRows, ViewFields
<1>2. w.db = v.db /\ w.noise = v.noise /\ w.known = v.known /\ w.search = v.search
  BY <1>1 DEF ViewFields
<1>3. ListedRows(w, h) = ListedRows(v, h)
  BY <1>2 DEF ListedRows, Passes
<1>4. Len(ListedRows(w, h)) \in Nat /\ IsPrefix(<<>>, ListedRows(w, h))
  BY <1>2, ListingIsOfTheFile, NothingIsAHead
<1> QED
  BY <1>1, <1>3, <1>4

LEMMA HiddenView ==
  ASSUME NEW v, NEW h, DOMAIN v = ViewFields, v.db \in DOMAIN Results
  PROVE  LET w == AfterHiding(v, h)
         IN /\ DOMAIN w = ViewFields
            /\ w.total = Len(ListedRows(w, h)) /\ w.total \in Nat
            /\ w.rows = <<>> /\ IsPrefix(w.rows, ListedRows(w, h))
            /\ \A f \in ViewFields \ {"total", "rows", "button"} : w[f] = v[f]
            /\ w.button = Cardinality(h[w.db])
<1> DEFINE w == AfterHiding(v, h)
           r == ReloadRows(v, h)
<1>1. /\ DOMAIN r = ViewFields
      /\ r.total = Len(ListedRows(r, h)) /\ r.total \in Nat
      /\ r.rows = <<>> /\ IsPrefix(r.rows, ListedRows(r, h))
      /\ \A f \in ViewFields \ {"total", "rows"} : r[f] = v[f]
  BY ReloadedView
<1>2. /\ DOMAIN w = ViewFields /\ w.button = Cardinality(h[v.db])
      /\ \A f \in ViewFields \ {"button"} : w[f] = r[f]
  <2> HIDE DEF r
  <2>1. w = [r EXCEPT !.button = Cardinality(h[v.db])]
    BY DEF AfterHiding, r
  <2> QED
    BY <1>1, <2>1 DEF ViewFields
<1> HIDE DEF r, w
<1>3. /\ w.total = r.total /\ w.rows = r.rows /\ w.db = r.db /\ r.db = v.db
      /\ w.noise = r.noise /\ w.known = r.known /\ w.search = r.search
  BY <1>1, <1>2 DEF ViewFields
<1>4. ListedRows(w, h) = ListedRows(r, h)
  BY <1>3 DEF ListedRows, Passes
<1>5. \A f \in ViewFields \ {"total", "rows", "button"} : w[f] = v[f]
  BY <1>1, <1>2
<1>6. /\ DOMAIN w = ViewFields /\ w.total = Len(ListedRows(w, h)) /\ w.total \in Nat
      /\ w.rows = <<>> /\ IsPrefix(w.rows, ListedRows(w, h))
      /\ w.button = Cardinality(h[w.db])
  BY <1>1, <1>2, <1>3, <1>4
<1> QED
  BY <1>5, <1>6 DEF w

\* A view whose rows were just read again.
LEMMA FreshRows ==
  ASSUME DOMAIN view' = ViewFields, DOMAIN hiddenKeys' = DOMAIN Results,
         view.db' \in DOMAIN Results, view.total' \in Nat,
         \A d \in DOMAIN Results : \A k \in hiddenKeys'[d] : k \in KeysIn(d),
         view.rows' = <<>>, view.total' = Len(ListedRows(view', hiddenKeys')),
         IsPrefix(view.rows', ListedRows(view', hiddenKeys')),
         ControlsAreTheirs'
  PROVE  ResultsInv'
<1>1. view.db' # Blank
  BY ResultsAssumption
<1>2. Len(view.rows') <= view.total'
  OBVIOUS
<1>3. ResultsTypeOK' /\ ViewHolds'
  BY <1>1, <1>2 DEF ResultsTypeOK, ViewHolds
<1>4. RowsAreTheListing'
  BY <1>1 DEF RowsAreTheListing
<1> QED
  BY <1>3, <1>4 DEF ResultsInv

LEMMA ResultsInitInv == ResultsInit => ResultsInv
<1> SUFFICES ASSUME ResultsInit PROVE ResultsInv
  OBVIOUS
<1>1. DOMAIN view = ViewFields /\ view.db = Blank /\ view.rows = <<>> /\ view.total = 0
      /\ ~view.open /\ ~view.pending
  BY DEF ResultsInit, ViewStart, ViewFields
<1>2. /\ DOMAIN hiddenKeys = DOMAIN Results
      /\ \A d \in DOMAIN Results : \A k \in hiddenKeys[d] : k \in KeysIn(d)
  <2>1. CASE hiddenKeys \in [DOMAIN Results -> {{}}]
    BY <2>1
  <2>2. CASE hiddenKeys = [d \in DOMAIN Results |-> KeysIn(d)]
    BY <2>2
  <2> QED
    BY <2>1, <2>2 DEF ResultsInit
<1>3. Len(view.rows) <= view.total
  BY <1>1
<1> QED
  BY <1>1, <1>2, <1>3 DEF ResultsInv, ResultsTypeOK, ViewHolds, RowsAreTheListing, ControlsAreTheirs

\* Another result, its boxes unticked: what is typed and built is for another one.
LEMMA OpenStep ==
  ASSUME ResultsInv, NEW d \in DOMAIN Results, OpenResults(d)
  PROVE  ResultsInv'
<1> DEFINE v == [view EXCEPT !.db = d, !.noise = FALSE, !.known = FALSE, !.search = Blank,
                             !.typed = FALSE, !.built = FALSE]
<1>1. DOMAIN v = ViewFields /\ v.db = d /\ v.typed = FALSE /\ v.built = FALSE
  BY DEF ResultsInv, ViewHolds, ViewFields
<1>2. view' = AfterHiding(v, hiddenKeys) /\ hiddenKeys' = hiddenKeys
  BY DEF OpenResults
<1> HIDE DEF v
<1>3. /\ DOMAIN view' = ViewFields
      /\ view'.total = Len(ListedRows(view', hiddenKeys')) /\ view'.total \in Nat
      /\ view'.rows = <<>> /\ IsPrefix(view'.rows, ListedRows(view', hiddenKeys'))
      /\ \A f \in ViewFields \ {"total", "rows", "button"} : view'[f] = v[f]
      /\ view'.button = Cardinality(hiddenKeys'[view'.db])
  BY <1>1, <1>2, HiddenView
<1>4. view'.db = d /\ view'.typed = FALSE /\ view'.built = FALSE
  BY <1>1, <1>3 DEF ViewFields
<1>5. ControlsAreTheirs'
  BY <1>3, <1>4 DEF ControlsAreTheirs
<1>6. /\ DOMAIN hiddenKeys' = DOMAIN Results
      /\ \A e \in DOMAIN Results : \A k \in hiddenKeys'[e] : k \in KeysIn(e)
  BY <1>2 DEF ResultsInv, ResultsTypeOK, ViewHolds
<1> QED
  BY <1>3, <1>4, <1>5, <1>6, FreshRows

\* A search or a box: the rows are read again under it.
LEMMA FilterStep ==
  ASSUME ResultsInv, SearchFires \/ ToggleNoise \/ ToggleKnown
  PROVE  ResultsInv'
<1>1. PICK v : /\ view' = ReloadRows(v, hiddenKeys) /\ hiddenKeys' = hiddenKeys
               /\ DOMAIN v = ViewFields
               /\ \A f \in ViewFields \ {"noise", "known", "search", "pending"} : v[f] = view[f]
               /\ \/ v.pending = view.pending /\ v.search = view.search
                  \/ v.search = view.box
  <2>1. CASE SearchFires
    <3> DEFINE v == [view EXCEPT !.pending = FALSE, !.search = view.box]
    <3>1. view' = ReloadRows(v, hiddenKeys) /\ hiddenKeys' = hiddenKeys
      BY <2>1 DEF SearchFires
    <3>2. /\ DOMAIN v = ViewFields /\ v.search = view.box
          /\ \A f \in ViewFields \ {"noise", "known", "search", "pending"} : v[f] = view[f]
      BY DEF ResultsInv, ViewHolds, ViewFields
    <3> QED
      BY <3>1, <3>2
  <2>2. CASE ToggleNoise
    <3> DEFINE v == [view EXCEPT !.noise = ~@]
    <3>1. view' = ReloadRows(v, hiddenKeys) /\ hiddenKeys' = hiddenKeys
      BY <2>2 DEF ToggleNoise
    <3>2. /\ DOMAIN v = ViewFields /\ v.pending = view.pending /\ v.search = view.search
          /\ \A f \in ViewFields \ {"noise", "known", "search", "pending"} : v[f] = view[f]
      BY DEF ResultsInv, ViewHolds, ViewFields
    <3> QED
      BY <3>1, <3>2
  <2>3. CASE ToggleKnown
    <3> DEFINE v == [view EXCEPT !.known = ~@]
    <3>1. view' = ReloadRows(v, hiddenKeys) /\ hiddenKeys' = hiddenKeys
      BY <2>3 DEF ToggleKnown
    <3>2. /\ DOMAIN v = ViewFields /\ v.pending = view.pending /\ v.search = view.search
          /\ \A f \in ViewFields \ {"noise", "known", "search", "pending"} : v[f] = view[f]
      BY DEF ResultsInv, ViewHolds, ViewFields
    <3> QED
      BY <3>1, <3>2
  <2> QED
    BY <2>1, <2>2, <2>3
<1>2. view.db # Blank /\ view.db \in DOMAIN Results
  BY DEF ResultsInv, ResultsTypeOK, ViewHolds, SearchFires, ToggleNoise, ToggleKnown
<1>3. v.db = view.db /\ v.typed = view.typed /\ v.box = view.box /\ v.open = view.open
      /\ v.built = view.built /\ v.keys = view.keys /\ v.button = view.button
  BY <1>1 DEF ViewFields
<1>4. /\ DOMAIN view' = ViewFields
      /\ view'.total = Len(ListedRows(view', hiddenKeys')) /\ view'.total \in Nat
      /\ view'.rows = <<>> /\ IsPrefix(view'.rows, ListedRows(view', hiddenKeys'))
      /\ \A f \in ViewFields \ {"total", "rows"} : view'[f] = v[f]
  BY <1>1, <1>2, <1>3, ReloadedView
<1>5. view'.db = view.db /\ view'.typed = view.typed /\ view'.box = view.box
      /\ view'.open = view.open /\ view'.built = view.built /\ view'.keys = view.keys
      /\ view'.button = view.button /\ view'.pending = v.pending /\ view'.search = v.search
  BY <1>3, <1>4 DEF ViewFields
<1>6. ControlsAreTheirs
  BY DEF ResultsInv
<1>7. ControlsAreTheirs'
  BY <1>1, <1>2, <1>5, <1>6 DEF ControlsAreTheirs
<1>8. /\ DOMAIN hiddenKeys' = DOMAIN Results
      /\ \A e \in DOMAIN Results : \A k \in hiddenKeys'[e] : k \in KeysIn(e)
  BY <1>1 DEF ResultsInv, ResultsTypeOK, ViewHolds
<1> QED
  BY <1>2, <1>4, <1>5, <1>7, <1>8, FreshRows

\* Typing, and opening or closing the panel of hidden keys, read nothing.
LEMMA WidgetStep ==
  ASSUME ResultsInv, (\E w \in Words \cup {Blank} : TypeWord(w)) \/ ToggleHiddenPanel
  PROVE  ResultsInv'
<1>1. /\ hiddenKeys' = hiddenKeys /\ view.db # Blank /\ DOMAIN view' = ViewFields
      /\ \A f \in {"db", "noise", "known", "search", "total", "rows", "button"} :
           view'[f] = view[f]
  BY DEF ResultsInv, ViewHolds, ViewFields, TypeWord, ToggleHiddenPanel, BuildPanel
<1>2. view'.db = view.db /\ view'.noise = view.noise /\ view'.known = view.known
      /\ view'.search = view.search /\ view'.total = view.total /\ view'.rows = view.rows
      /\ view'.button = view.button
  BY <1>1
<1>3. ListedRows(view', hiddenKeys') = ListedRows(view, hiddenKeys)
  BY <1>1, <1>2 DEF ListedRows, Passes
<1>4. RowsAreTheListing'
  BY <1>2, <1>3 DEF ResultsInv, RowsAreTheListing
<1>5. ResultsTypeOK' /\ ViewHolds'
  BY <1>1, <1>2 DEF ResultsInv, ResultsTypeOK, ViewHolds
<1>6. ControlsAreTheirs'
  <2>1. ASSUME NEW w \in Words \cup {Blank}, TypeWord(w)
        PROVE  ControlsAreTheirs'
    BY <1>1, <1>2, <2>1 DEF ResultsInv, ViewHolds, ViewFields, ControlsAreTheirs, TypeWord
  <2>2. CASE ToggleHiddenPanel
    BY <1>1, <1>2, <2>2
       DEF ResultsInv, ViewHolds, ViewFields, ControlsAreTheirs, ToggleHiddenPanel, BuildPanel
  <2> QED
    BY <2>1, <2>2
<1> QED
  BY <1>4, <1>5, <1>6 DEF ResultsInv

\* The least of three numbers is one of them.
LEMMA LeastOfThree ==
  ASSUME NEW a \in Nat, NEW b \in Nat, NEW c \in Nat
  PROVE  Min({a, b, c}) \in {a, b, c} /\ Min({a, b, c}) <= a
         /\ Min({a, b, c}) <= b /\ Min({a, b, c}) <= c
<1>1. \E x \in {a, b, c} : \A y \in {a, b, c} : x =< y
  <2>1. CASE a <= b /\ a <= c
    BY <2>1
  <2>2. CASE b <= a /\ b <= c
    BY <2>2
  <2>3. CASE c <= a /\ c <= b
    BY <2>3
  <2> QED
    BY <2>1, <2>2, <2>3
<1> QED
  BY <1>1 DEF Min

\* A page is appended behind a head of the listing.
LEMMA HeadGrows ==
  ASSUME NEW T, NEW s, NEW t \in Seq(T), IsPrefix(s, t), s \in Seq(T),
         NEW last \in Nat, Len(s) <= last, last <= Len(t)
  PROVE  IsPrefix(s \o SubSeq(t, Len(s) + 1, last), t)
         /\ Len(s \o SubSeq(t, Len(s) + 1, last)) = last
<1> DEFINE m == SubSeq(t, Len(s) + 1, last)
           r == s \o m
<1>1. Len(s) \in Nat /\ Len(t) \in Nat
  OBVIOUS
<1>2. /\ m \in Seq(T) /\ Len(m) = last - Len(s)
      /\ \A i \in 1..(last - Len(s)) : m[i] = t[Len(s) + i]
  <2>1. /\ m = [i \in 1..(last - Len(s)) |-> t[Len(s) + i]]
        /\ Len(m) = last - Len(s)
    BY <1>1
  <2>2. \A i \in 1..(last - Len(s)) : t[Len(s) + i] \in T
    BY <1>1
  <2> QED
    BY <1>1, <2>1, <2>2
<1>3. \A i \in 1..Len(s) : s[i] = t[i]
  <2>1. SubSeq(s, 1, Len(s)) = SubSeq(t, 1, Len(s))
    BY DEF IsPrefix
  <2>2. ASSUME NEW i \in 1..Len(s)
        PROVE  s[i] = t[i]
    <3>1. SubSeq(s, 1, Len(s))[i] = s[i] /\ SubSeq(t, 1, Len(s))[i] = t[i]
      BY <1>1
    <3> QED
      BY <2>1, <3>1
  <2> QED
    BY <2>2
<1> HIDE DEF m
<1>4. r \in Seq(T) /\ Len(r) = last
  BY <1>1, <1>2
<1>5. ASSUME NEW i \in 1..last
      PROVE  r[i] = t[i]
  <2>1. CASE i <= Len(s)
    BY <1>1, <1>2, <1>3, <2>1
  <2>2. CASE i > Len(s)
    <3>1. i - Len(s) \in 1..(last - Len(s)) /\ Len(s) + (i - Len(s)) = i
      BY <1>1, <2>2
    <3>2. r[i] = m[i - Len(s)]
      BY <1>1, <1>2, <2>2
    <3>3. m[i - Len(s)] = t[Len(s) + (i - Len(s))]
      BY <1>2, <3>1
    <3> QED
      BY <3>1, <3>2, <3>3
  <2> HIDE DEF r
  <2>3. i <= Len(s) \/ i > Len(s)
    BY <1>1
  <2> QED
    BY <2>1, <2>2, <2>3
<1> HIDE DEF r
<1>6. SubSeq(r, 1, Len(r)) = SubSeq(t, 1, Len(r))
  <2>1. SubSeq(r, 1, last) = [i \in 1..last |-> r[i]]
    BY <1>1, <1>4
  <2>2. SubSeq(t, 1, last) = [i \in 1..last |-> t[i]]
    BY <1>1
  <2>3. [i \in 1..last |-> r[i]] = [i \in 1..last |-> t[i]]
    BY <1>5
  <2> QED
    BY <1>4, <2>1, <2>2, <2>3
<1> QED
  BY <1>4, <1>6 DEF IsPrefix, r, m

\* What heads a listing of places is one.
LEMMA HeadIsOfTheFile ==
  ASSUME NEW T, NEW U, NEW s \in Seq(U), NEW t \in Seq(T), IsPrefix(s, t)
  PROVE  s \in Seq(T)
<1>1. /\ Len(s) \in Nat /\ Len(t) \in Nat /\ Len(s) <= Len(t)
      /\ SubSeq(s, 1, Len(s)) = SubSeq(t, 1, Len(s))
  BY DEF IsPrefix
<1>2. \A i \in 1..Len(s) : s[i] \in T
  <2>1. ASSUME NEW i \in 1..Len(s)
        PROVE  s[i] \in T
    <3>1. SubSeq(s, 1, Len(s))[i] = s[i] /\ SubSeq(t, 1, Len(s))[i] = t[i]
      BY <1>1
    <3>2. t[i] \in T
      BY <1>1
    <3> QED
      BY <1>1, <3>1, <3>2
  <2> QED
    BY <2>1
<1> QED
  BY <1>1, <1>2

\* The next rows of the listing, which is still what it was counted as.
LEMMA PageStep ==
  ASSUME ResultsInv, NextPage
  PROVE  ResultsInv'
<1> DEFINE answer == ListedRows(view, hiddenKeys)
           offset == Len(view.rows)
           last   == Min({offset + PageRows, view.total, Len(answer)})
           T      == DOMAIN Results[view.db]
<1>1. /\ view.db # Blank /\ view.db \in DOMAIN Results /\ hiddenKeys' = hiddenKeys
      /\ view' = [view EXCEPT !.rows = view.rows \o SubSeq(answer, offset + 1, last)]
      /\ offset < view.total
  BY DEF ResultsInv, ResultsTypeOK, NextPage
<1>2. answer \in Seq(T) /\ Len(answer) \in Nat
  BY <1>1, ListingIsOfTheFile
<1>3. view.rows \in Seq(Nat) /\ IsPrefix(view.rows, answer) /\ view.total = Len(answer)
      /\ DOMAIN view = ViewFields
  BY <1>1 DEF ResultsInv, ViewHolds, RowsAreTheListing
<1> HIDE DEF answer
<1>4. view.rows \in Seq(T) /\ offset \in Nat
  BY <1>2, <1>3, HeadIsOfTheFile
<1>5. last \in Nat /\ offset <= last /\ last <= Len(answer)
  <2>1. offset + PageRows \in Nat /\ view.total \in Nat /\ PageRows \in Nat
    BY <1>2, <1>3, <1>4, ResultsAssumption
  <2>2. /\ last \in {offset + PageRows, view.total, Len(answer)} /\ last <= Len(answer)
    BY <1>2, <2>1, LeastOfThree
  <2>3. offset <= offset + PageRows /\ offset <= view.total /\ offset <= Len(answer)
    BY <1>1, <1>2, <1>3, <1>4, <2>1
  <2> HIDE DEF last, offset
  <2> QED
    BY <1>2, <2>1, <2>2, <2>3
<1> DEFINE more == view.rows \o SubSeq(answer, offset + 1, last)
<1>6. IsPrefix(more, answer) /\ Len(more) = last
  BY <1>2, <1>3, <1>4, <1>5, HeadGrows
<1>7. more \in Seq(Nat)
  <2>1. T \subseteq Nat
    BY <1>1, ResultsAssumption
  <2>2. answer \in Seq(Nat)
    BY <1>2, <2>1
  <2>3. SubSeq(answer, offset + 1, last) \in Seq(Nat)
    <3> HIDE DEF offset, last
    <3>1. offset + 1 \in Int /\ last \in Int /\ (offset + 1)..last \subseteq 1..Len(answer)
      BY <1>2, <1>4, <1>5
    <3>2. \A i \in (offset + 1)..last : answer[i] \in Nat
      BY <2>2, <3>1
    <3> QED
      BY <3>1, <3>2, SubSeqProperties
  <2> QED
    BY <1>3, <2>3, ConcatProperties
<1> HIDE DEF more, last, offset, T
<1>8. /\ DOMAIN view' = ViewFields /\ view'.rows = more
      /\ \A f \in ViewFields \ {"rows"} : view'[f] = view[f]
  BY <1>1, <1>3 DEF ViewFields, more
<1>9. /\ view'.db = view.db /\ view'.noise = view.noise /\ view'.known = view.known
      /\ view'.search = view.search /\ view'.total = view.total /\ view'.box = view.box
      /\ view'.pending = view.pending /\ view'.typed = view.typed /\ view'.open = view.open
      /\ view'.keys = view.keys /\ view'.built = view.built /\ view'.button = view.button
  BY <1>8 DEF ViewFields
<1>10. ListedRows(view', hiddenKeys') = answer
  BY <1>1, <1>9 DEF ListedRows, Passes, answer
<1>11. RowsAreTheListing'
  BY <1>3, <1>6, <1>8, <1>9, <1>10 DEF RowsAreTheListing
<1>12. ResultsTypeOK'
  <2>1. Len(view'.rows) <= view'.total
    BY <1>3, <1>5, <1>6, <1>8, <1>9
  <2> QED
    BY <1>1, <1>9, <2>1 DEF ResultsInv, ResultsTypeOK
<1>13. ViewHolds'
  BY <1>1, <1>7, <1>8, <1>9 DEF ResultsInv, ViewHolds
<1>14. ControlsAreTheirs'
  BY <1>1, <1>9 DEF ResultsInv, ControlsAreTheirs
<1> QED
  BY <1>11, <1>12, <1>13, <1>14 DEF ResultsInv

\* A row's key is hidden, or shown again: everything that depends on it is renewed.
LEMMA HidingStep ==
  ASSUME ResultsInv,
         \/ \E i \in DOMAIN view.rows : HideIdentical(i)
         \/ \E k \in UNION {KeysIn(d) : d \in DOMAIN Results} : UnhideKey(k)
  PROVE  ResultsInv'
<1>1. PICK h : /\ hiddenKeys' = h /\ DOMAIN h = DOMAIN Results
               /\ \A d \in DOMAIN Results : \A k \in h[d] : k \in KeysIn(d)
               /\ view.db # Blank
               /\ view' = IF view.open THEN BuildPanel(AfterHiding(view, h), h)
                          ELSE AfterHiding(view, h)
  <2>1. ASSUME NEW i \in DOMAIN view.rows, HideIdentical(i),
               NEW key, key = Results[view.db][view.rows[i]].key,
               NEW h, h = [hiddenKeys EXCEPT ![view.db] = @ \cup {key}]
        PROVE  /\ hiddenKeys' = h /\ DOMAIN h = DOMAIN Results
               /\ \A d \in DOMAIN Results : \A k \in h[d] : k \in KeysIn(d)
               /\ view.db # Blank
               /\ view' = IF view.open THEN BuildPanel(AfterHiding(view, h), h)
                          ELSE AfterHiding(view, h)
    <3>1. /\ hiddenKeys' = h /\ key # Blank
          /\ view' = IF view.open THEN BuildPanel(AfterHiding(view, h), h)
                     ELSE AfterHiding(view, h)
      BY <2>1 DEF HideIdentical
    <3>2. view.rows # <<>>
      BY <2>1
    <3>3. view.db # Blank /\ view.db \in DOMAIN Results
      BY <3>2 DEF ResultsInv, ViewHolds, ResultsTypeOK
    <3>4. view.rows[i] \in DOMAIN Results[view.db]
      <4>1. ListedRows(view, hiddenKeys) \in Seq(DOMAIN Results[view.db])
        BY <3>3, ListingIsOfTheFile
      <4>2. view.rows \in Seq(Nat) /\ IsPrefix(view.rows, ListedRows(view, hiddenKeys))
        BY <3>3 DEF ResultsInv, ViewHolds, RowsAreTheListing
      <4>3. view.rows \in Seq(DOMAIN Results[view.db])
        BY <4>1, <4>2, HeadIsOfTheFile
      <4> QED
        BY <2>1, <4>3, ElementOfSeq, LenProperties
    <3>5. key \in KeysIn(view.db)
      BY <2>1, <3>1, <3>4 DEF KeysIn
    <3>6. /\ DOMAIN hiddenKeys = DOMAIN Results
          /\ \A d \in DOMAIN Results : \A k \in hiddenKeys[d] : k \in KeysIn(d)
      BY DEF ResultsInv, ViewHolds, ResultsTypeOK
    <3>7. DOMAIN h = DOMAIN Results
      BY <2>1, <3>6
    <3>8. \A d \in DOMAIN Results : h[d] \subseteq hiddenKeys[d] \cup (IF d = view.db THEN {key} ELSE {})
      BY <2>1, <3>3, <3>6
    <3>9. \A d \in DOMAIN Results : \A k \in h[d] : k \in KeysIn(d)
      BY <3>5, <3>6, <3>8
    <3> QED
      BY <3>1, <3>3, <3>7, <3>9
  <2>2. ASSUME NEW key, UnhideKey(key), NEW h, h = [hiddenKeys EXCEPT ![view.db] = @ \ {key}]
        PROVE  /\ hiddenKeys' = h /\ DOMAIN h = DOMAIN Results
               /\ \A d \in DOMAIN Results : \A k \in h[d] : k \in KeysIn(d)
               /\ view.db # Blank
               /\ view' = IF view.open THEN BuildPanel(AfterHiding(view, h), h)
                          ELSE AfterHiding(view, h)
    <3>1. view.open /\ hiddenKeys' = h /\ view' = BuildPanel(AfterHiding(view, h), h)
      BY <2>2 DEF UnhideKey
    <3>2. /\ view.db # Blank /\ DOMAIN hiddenKeys = DOMAIN Results
          /\ \A d \in DOMAIN Results : \A k \in hiddenKeys[d] : k \in KeysIn(d)
      BY <3>1 DEF ResultsInv, ViewHolds, ResultsTypeOK
    <3>3. DOMAIN h = DOMAIN Results /\ \A d \in DOMAIN Results : h[d] \subseteq hiddenKeys[d]
      BY <2>2, <3>2
    <3> QED
      BY <3>1, <3>2, <3>3
  <2> QED
    BY <2>1, <2>2
<1>2. view.db \in DOMAIN Results /\ DOMAIN view = ViewFields
  BY <1>1 DEF ResultsInv, ResultsTypeOK, ViewHolds
<1> DEFINE w == AfterHiding(view, h)
<1>3. /\ DOMAIN w = ViewFields
      /\ w.total = Len(ListedRows(w, h)) /\ w.total \in Nat
      /\ w.rows = <<>> /\ IsPrefix(w.rows, ListedRows(w, h))
      /\ \A f \in ViewFields \ {"total", "rows", "button"} : w[f] = view[f]
      /\ w.button = Cardinality(h[w.db])
  BY <1>2, HiddenView
<1> HIDE DEF w
<1>4. /\ w.db = view.db /\ w.box = view.box /\ w.search = view.search
      /\ w.pending = view.pending /\ w.typed = view.typed /\ w.open = view.open
      /\ w.built = view.built /\ w.keys = view.keys
  BY <1>3 DEF ViewFields
<1>5. /\ DOMAIN view' = ViewFields
      /\ \A f \in ViewFields \ {"keys", "built"} : view'[f] = w[f]
      /\ view.open => view'.keys = h[w.db]
      /\ ~view.open => view' = w
  BY <1>1, <1>3 DEF BuildPanel, ViewFields, w
<1>6. /\ view'.db = w.db /\ view'.noise = w.noise /\ view'.known = w.known
      /\ view'.search = w.search /\ view'.total = w.total /\ view'.rows = w.rows
      /\ view'.box = w.box /\ view'.pending = w.pending /\ view'.typed = w.typed
      /\ view'.open = w.open /\ view'.button = w.button
  BY <1>5 DEF ViewFields
<1>7. ListedRows(view', hiddenKeys') = ListedRows(w, h)
  BY <1>1, <1>6 DEF ListedRows, Passes
<1>8. ControlsAreTheirs'
  <2>1. view.db # Blank /\ ControlsAreTheirs
    BY <1>1 DEF ResultsInv
  <2>2. view'.button = Cardinality(hiddenKeys'[view'.db])
    BY <1>1, <1>3, <1>6
  <2>3. ~view'.pending /\ view'.typed => view'.search = view'.box
    BY <1>4, <1>6, <2>1 DEF ControlsAreTheirs
  <2>4. view'.open => view'.keys = hiddenKeys'[view'.db]
    BY <1>1, <1>4, <1>5, <1>6
  <2> QED
    BY <2>2, <2>3, <2>4 DEF ControlsAreTheirs
<1> QED
  BY <1>1, <1>2, <1>3, <1>4, <1>5, <1>6, <1>7, <1>8, FreshRows

\* However hiding, filtering, searching, paging and opening alternate, the table lists the
\* open result database under its own boxes, search and hidden keys, and the button and the
\* panel say what is hidden there (screen_identify_results.py, ops/identify/results.py).
THEOREM ViewerAgrees == ResultsSpec => []ResultsAreShown
<1>1. ResultsInv => ResultsAreShown
  BY DEF ResultsInv, ResultsAreShown
<1>2. ResultsInv /\ [ResultsNext]_results => ResultsInv'
  <2>1. ResultsInv /\ ResultsNext => ResultsInv'
    BY OpenStep, FilterStep, WidgetStep, PageStep, HidingStep DEF ResultsNext
  <2>2. ResultsInv /\ UNCHANGED results => ResultsInv'
    BY DEF results, ResultsInv, ResultsTypeOK, ViewHolds, RowsAreTheListing, ControlsAreTheirs,
       ListedRows, Passes
  <2> QED
    BY <2>1, <2>2
<1> QED
  BY <1>1, <1>2, ResultsInitInv, PTL DEF ResultsSpec

-----------------------------------------------------------------------------
(* The analysis screen *)

ScreenFields ==
  {"db", "store", "cap", "filters", "real", "total", "rows", "workbench", "text", "pending",
   "searchable", "selected", "from", "to", "untouched", "onlyAnnotated", "enabled",
   "annotated"}
FilterFields == {"names", "match", "annotated", "from", "to", "last"}

\* Pickers nobody touched hold the span of the case that is open, a second more at its end.
SpanIsSeeded(u) ==
  u.db \in DOMAIN Cases /\ u.untouched /\ Cases[u.db].stats =>
    \A i \in RowsOf(u.db) : Cases[u.db].rows[i].at # 0 =>
      u.from <= Cases[u.db].rows[i].at /\ Cases[u.db].rows[i].at + PerSecond <= u.to

\* What the widgets hold is of the database they were filled from.
Widgets(u) ==
  /\ DOMAIN u = ScreenFields /\ DOMAIN u.filters = FilterFields
  /\ u.db = Unbound \/ u.db \in DOMAIN Cases
  /\ {u.cap, u.real, u.total, u.from, u.to} \subseteq Nat
  /\ u.rows \in Seq(Nat) /\ Len(u.rows) <= u.total
  /\ u.selected \in [Facets -> SUBSET FacetNames]
  /\ u.onlyAnnotated \in BOOLEAN /\ u.enabled \in BOOLEAN
  /\ u.store # Unbound =>
       /\ u.db \in DOMAIN Cases /\ u.store.case = u.db
       /\ \A f \in Facets : u.selected[f] \subseteq Entries(u.db, f)
  /\ u.text # Unbound => u.searchable
  /\ u.db \in DOMAIN Cases => u.searchable = Cases[u.db].fts
  /\ SpanIsSeeded(u)

\* The filters f are what the controls show, and the store can answer them.
Agree(u, f) ==
  /\ DOMAIN f = FilterFields /\ f.names = u.selected /\ f.annotated = u.onlyAnnotated
  /\ ~u.pending => f.match = u.text
  /\ ~Refused(u.store, f)

Shows(u) == Widgets(u) /\ (u.store # Unbound => Agree(u, u.filters))

\* The table is the head of the answer of a database in the state d.
Answered(u, d) ==
  LET answer == AnswerTo(u.db, u.filters, d)
  IN u.real = Len(answer) /\ u.total = AtMost(u.cap, Len(answer)) /\ IsPrefix(u.rows, answer)

\* Nobody annotates an annotated database: the button offers it only for the others, and it
\* is off while a worker runs.
OneAnnotation ==
  /\ disk \in [DOMAIN Cases -> [tables : BOOLEAN, sets : 0..MaxSets]]
  /\ NeverAnnotatedTwice
  /\ worker = Unbound <=> ui.enabled
  /\ worker # Unbound =>
       /\ worker \in [case : DOMAIN Cases, state : {"running", "done", "failed"}]
       /\ worker.state = "running" => disk[worker.case].sets = 0
  /\ ui.enabled /\ ui.db # Unbound /\ ~ui.annotated => disk[ui.db].sets = 0

ScreenInv == Shows(ui) /\ (Settled => Answered(ui, disk)) /\ OneAnnotation

LEMMA MatchingIsFinite ==
  ASSUME NEW c \in DOMAIN Cases, NEW f, NEW d
  PROVE  /\ Matching(c, f, d) \subseteq 1..Len(Cases[c].rows)
         /\ Matching(c, f, d) \subseteq Nat /\ IsFiniteSet(Matching(c, f, d))
<1>1. Len(Cases[c].rows) \in Nat /\ RowsOf(c) = 1..Len(Cases[c].rows)
  BY ScreenAssumption DEF RowsOf
<1>2. IsFiniteSet(1..Len(Cases[c].rows))
  BY <1>1, FS_Interval
<1>3. Matching(c, f, d) \in SUBSET (1..Len(Cases[c].rows))
  BY <1>1 DEF Matching
<1> QED
  BY <1>1, <1>2, <1>3, FS_Subset

LEMMA AnswerIsOfTheCase ==
  ASSUME NEW c \in DOMAIN Cases, NEW f, NEW d
  PROVE  /\ AnswerTo(c, f, d) \in Seq(Nat) /\ Len(AnswerTo(c, f, d)) \in Nat
         /\ Len(AnswerTo(c, f, d)) = Cardinality(Matching(c, f, d))
<1> DEFINE S == Matching(c, f, d)
<1>1. S \subseteq Nat /\ IsFiniteSet(S)
  BY MatchingIsFinite
<1> HIDE DEF S
<1>2. Cardinality(S) \in Nat /\ Enumerated(S) \in Seq(S) /\ Len(Enumerated(S)) = Cardinality(S)
  BY <1>1, EnumeratedListsAll
<1>3. Enumerated(S) \in Seq(Nat)
  <2> DEFINE e == Enumerated(S)
             k == Cardinality(S)
  <2>1. k \in Nat /\ e \in Seq(S) /\ Len(e) = k
    BY <1>2
  <2> HIDE DEF e, k
  <2>2. e \in [1..k -> Nat]
    BY <1>1, <2>1, LenProperties
  <2>3. e \in Seq(Nat)
    BY <2>1, <2>2
  <2> QED
    BY <2>3 DEF e
<1> QED
  BY <1>2, <1>3 DEF AnswerTo, S

\* Of the annotations a filter reads only whether there are any.
LEMMA SameAnswer ==
  ASSUME NEW c, NEW f, NEW d, NEW e, e[c].sets = d[c].sets
  PROVE  AnswerTo(c, f, e) = AnswerTo(c, f, d)
<1>1. \A i : Selects(c, f, e, i) = Selects(c, f, d, i)
  BY DEF Selects
<1>2. Matching(c, f, e) = Matching(c, f, d)
  BY <1>1 DEF Matching
<1> QED
  BY <1>2 DEF AnswerTo

\* The cached total is the count nobody filters.
LEMMA CountIsReal ==
  ASSUME NEW u, NEW d, u.store.case \in DOMAIN Cases
  PROVE  RealCount(u, d) = Len(AnswerTo(u.store.case, u.filters, d))
<1> DEFINE c == u.store.case
           n == Len(Cases[c].rows)
<1>1. c \in DOMAIN Cases
  OBVIOUS
<1>2. n \in Nat /\ RowsOf(c) = 1..n
  BY <1>1, ScreenAssumption DEF RowsOf
<1>3. ASSUME u.filters = NoFilters
      PROVE  Cardinality(Matching(c, u.filters, d)) = n
  <2>1. \A i \in RowsOf(c) : Selects(c, NoFilters, d, i)
    BY DEF Selects, NoFilters, NoNames
  <2>2. Matching(c, NoFilters, d) = 1..n
    BY <1>2, <2>1 DEF Matching
  <2>3. Cardinality(1..n) = n
    <3>1. 1 \in Int /\ n \in Int
      BY <1>2
    <3>2. Cardinality(1..n) = IF 1 > n THEN 0 ELSE n - 1 + 1
      BY <3>1, FS_Interval, Zenon
    <3> QED
      BY <1>2, <3>2
  <2> QED
    BY <1>3, <2>2, <2>3
<1>4. Len(AnswerTo(c, u.filters, d)) = Cardinality(Matching(c, u.filters, d))
  BY <1>1, AnswerIsOfTheCase
<1> QED
  BY <1>3, <1>4 DEF RealCount

\* A table counted anew has no rows yet, and nothing else is changed.
LEMMA CountedAnew ==
  ASSUME NEW u, NEW d, DOMAIN u = ScreenFields, u.store.case = u.db, u.db \in DOMAIN Cases,
         u.cap \in Nat
  PROVE  LET w == Reset(u, d)
         IN /\ DOMAIN w = ScreenFields
            /\ \A f \in ScreenFields \ {"real", "total", "rows"} : w[f] = u[f]
            /\ w.real \in Nat /\ w.total \in Nat /\ w.rows = <<>> /\ Answered(w, d)
<1> DEFINE w == Reset(u, d)
           n == Len(AnswerTo(u.db, u.filters, d))
<1>1. RealCount(u, d) = n
  BY CountIsReal
<1>2. n \in Nat /\ AnswerTo(u.db, u.filters, d) \in Seq(Nat)
  BY AnswerIsOfTheCase
<1> HIDE DEF n
<1>3. /\ DOMAIN w = ScreenFields /\ w.real = n /\ w.total = AtMost(n, u.cap) /\ w.rows = <<>>
      /\ \A f \in ScreenFields \ {"real", "total", "rows"} : w[f] = u[f]
  BY <1>1 DEF Reset, ScreenFields
<1> HIDE DEF w
<1>4. w.db = u.db /\ w.filters = u.filters /\ w.cap = u.cap
  BY <1>3 DEF ScreenFields
<1>5. AtMost(n, u.cap) = AtMost(u.cap, n) /\ AtMost(n, u.cap) \in Nat
  BY <1>2 DEF AtMost
<1>6. IsPrefix(<<>>, AnswerTo(u.db, u.filters, d))
  BY <1>2, NothingIsAHead
<1>7. Answered(w, d)
  BY <1>3, <1>4, <1>5, <1>6 DEF Answered, n
<1> QED
  BY <1>2, <1>3, <1>5, <1>7 DEF w

\* Once it is counted anew, the table of a screen whose controls agree is theirs.
LEMMA CountedShows ==
  ASSUME NEW u, NEW d, Widgets(u), u.store # Unbound, Agree(u, u.filters)
  PROVE  LET w == Reset(u, d)
         IN /\ Shows(w) /\ Answered(w, d)
            /\ \A f \in ScreenFields \ {"real", "total", "rows"} : w[f] = u[f]
<1> DEFINE w == Reset(u, d)
<1>1. u.store.case = u.db /\ u.db \in DOMAIN Cases /\ u.cap \in Nat /\ DOMAIN u = ScreenFields
  BY DEF Widgets
<1>2. /\ DOMAIN w = ScreenFields
      /\ \A f \in ScreenFields \ {"real", "total", "rows"} : w[f] = u[f]
      /\ w.real \in Nat /\ w.total \in Nat /\ w.rows = <<>> /\ Answered(w, d)
  BY <1>1, CountedAnew
<1> HIDE DEF w
<1>3. /\ w.db = u.db /\ w.store = u.store /\ w.cap = u.cap /\ w.filters = u.filters
      /\ w.text = u.text /\ w.pending = u.pending /\ w.searchable = u.searchable
      /\ w.selected = u.selected /\ w.from = u.from /\ w.to = u.to
      /\ w.untouched = u.untouched /\ w.onlyAnnotated = u.onlyAnnotated
      /\ w.enabled = u.enabled
  BY <1>2 DEF ScreenFields
<1>4. Widgets(w)
  <2>1. w.rows \in Seq(Nat) /\ Len(w.rows) <= w.total
    BY <1>2
  <2>2. SpanIsSeeded(w)
    BY <1>3 DEF SpanIsSeeded, Widgets
  <2> QED
    BY <1>2, <1>3, <2>1, <2>2 DEF Widgets
<1>5. Agree(w, w.filters)
  BY <1>3 DEF Agree
<1> QED
  BY <1>2, <1>4, <1>5 DEF Shows, w

\* A control reloads under filters that agree with it, or there is no store to ask.
LEMMA ReloadShows ==
  ASSUME NEW u, NEW f, NEW back, NEW d, Widgets(u), u.store # Unbound => Agree(u, f)
  PROVE  LET w == ReloadTable(u, f, back, d)
         IN /\ Shows(w) /\ (w.store # Unbound => Answered(w, d))
            /\ \A g \in {"db", "store", "enabled", "annotated"} : w[g] = u[g]
<1>1. CASE u.store = Unbound
  BY <1>1 DEF ReloadTable, Shows
<1>2. CASE u.store # Unbound
  <2> DEFINE v == [u EXCEPT !.filters = f]
  <2>1. ReloadTable(u, f, back, d) = Reset(v, d)
    BY <1>2 DEF ReloadTable, Agree
  <2>2. /\ DOMAIN v = ScreenFields /\ v.filters = f
        /\ \A g \in ScreenFields \ {"filters"} : v[g] = u[g]
    BY DEF Widgets, ScreenFields
  <2> HIDE DEF v
  <2>3. /\ v.db = u.db /\ v.store = u.store /\ v.cap = u.cap /\ v.real = u.real
        /\ v.total = u.total /\ v.rows = u.rows
        /\ v.text = u.text /\ v.pending = u.pending /\ v.searchable = u.searchable
        /\ v.selected = u.selected /\ v.from = u.from /\ v.to = u.to
        /\ v.untouched = u.untouched /\ v.onlyAnnotated = u.onlyAnnotated
        /\ v.enabled = u.enabled /\ v.annotated = u.annotated
    BY <2>2 DEF ScreenFields
  <2>4. Agree(v, v.filters) /\ DOMAIN f = FilterFields
    BY <1>2, <2>2, <2>3 DEF Agree
  <2>5. SpanIsSeeded(v)
    BY <2>3 DEF SpanIsSeeded, Widgets
  <2>6. Widgets(v)
    BY <2>2, <2>3, <2>4, <2>5 DEF Widgets
  <2> DEFINE w == Reset(v, d)
  <2>7. /\ Shows(w) /\ Answered(w, d)
        /\ \A g \in ScreenFields \ {"real", "total", "rows"} : w[g] = v[g]
    BY <1>2, <2>3, <2>4, <2>6, CountedShows
  <2> HIDE DEF w
  <2>8. \A g \in {"db", "store", "enabled", "annotated"} : w[g] = u[g]
    BY <2>3, <2>7 DEF ScreenFields
  <2> QED
    BY <2>1, <2>7, <2>8 DEF w
<1> QED
  BY <1>1, <1>2

\* The least and the greatest of some numbers are two of them.
LEMMA SpanOfTimes ==
  ASSUME NEW S, S \subseteq Nat, IsFiniteSet(S), S # {}
  PROVE  Min(S) \in S /\ Max(S) \in S /\ \A x \in S : Min(S) <= x /\ x <= Max(S)
<1> DEFINE e == Enumerated(S)
           k == Cardinality(S)
<1>1. /\ k \in Nat /\ e \in Seq(S) /\ Len(e) = k
      /\ \A m, n \in 1..k : m < n <=> e[m] < e[n]
      /\ \A x \in S : \E n \in 1..k : e[n] = x
  BY EnumeratedListsAll
<1> HIDE DEF e, k
<1>2. 1 \in 1..k /\ k \in 1..k
  <2>1. PICK x \in S : TRUE
    OBVIOUS
  <2>2. PICK n \in 1..k : e[n] = x
    BY <1>1, <2>1
  <2> QED
    BY <1>1, <2>2
<1>3. \A n \in 1..k : e[n] \in S
  BY <1>1, ElementOfSeq
<1>4. \A n \in 1..k : e[1] <= e[n] /\ e[n] <= e[k]
  <2> SUFFICES ASSUME NEW n \in 1..k PROVE e[1] <= e[n] /\ e[n] <= e[k]
    OBVIOUS
  <2>1. e[1] \in Nat /\ e[n] \in Nat /\ e[k] \in Nat
    BY <1>2, <1>3
  <2>2. (n = 1 \/ 1 < n) /\ (n = k \/ n < k)
    BY <1>1
  <2>3. (1 < n => e[1] < e[n]) /\ (n < k => e[n] < e[k])
    BY <1>1, <1>2
  <2> QED
    BY <2>1, <2>2, <2>3
<1>5. /\ \E x \in S : \A y \in S : x =< y
      /\ \E x \in S : \A y \in S : x >= y
  <2>1. \A y \in S : e[1] =< y /\ y <= e[k]
    BY <1>1, <1>4
  <2>2. \A y \in S : e[k] >= y
    BY <2>1
  <2> QED
    BY <1>2, <1>3, <2>1, <2>2
<1>6. Min(S) \in S /\ \A y \in S : Min(S) =< y
  BY <1>5, Zenon DEF Min
<1>7. Max(S) \in S /\ \A y \in S : Max(S) >= y
  BY <1>5, Zenon DEF Max
<1> QED
  BY <1>6, <1>7

\* _seed_time_bounds sets the pickers to the span of the case, or there is none.
LEMMA SeededSpan ==
  ASSUME NEW u, NEW c \in DOMAIN Cases, DOMAIN u = ScreenFields, u.db = c,
         u.from \in Nat, u.to \in Nat
  PROVE  LET w == SeedBounds(u, c)
         IN /\ DOMAIN w = ScreenFields /\ w.from \in Nat /\ w.to \in Nat
            /\ \A f \in ScreenFields \ {"from", "to", "untouched"} : w[f] = u[f]
            /\ SpanIsSeeded(w)
<1> DEFINE at(i) == Cases[c].rows[i].at
           n     == Len(Cases[c].rows)
           times == {Cases[c].rows[i].at : i \in RowsOf(c)} \ {0}
           w     == SeedBounds(u, c)
<1>1. n \in Nat /\ RowsOf(c) = 1..n /\ \A i \in 1..n : Cases[c].rows[i].at \in Nat
  BY ScreenAssumption DEF RowsOf
<1>2. times \subseteq Nat
  BY <1>1
<1>3. IsFiniteSet(times)
  <2> DEFINE all == {Cases[c].rows[i].at : i \in 1..n}
             g   == [i \in 1..n |-> Cases[c].rows[i].at]
  <2>1. g \in Surjection(1..n, all)
    BY DEF Surjection
  <2>2. IsFiniteSet(1..n)
    BY <1>1, FS_Interval
  <2>3. IsFiniteSet(all)
    BY <2>1, <2>2, FS_Surjection
  <2>4. times \in SUBSET all
    BY <1>1
  <2> QED
    BY <2>3, <2>4, FS_Subset
<1>4. \A i \in RowsOf(c) : Cases[c].rows[i].at # 0 => Cases[c].rows[i].at \in times
  OBVIOUS
<1> HIDE DEF times, n
<1>5. CASE ~Cases[c].stats \/ times = {}
  <2>1. w = u
    BY <1>5 DEF SeedBounds, times
  <2>2. SpanIsSeeded(u)
    BY <1>4, <1>5 DEF SpanIsSeeded
  <2> QED
    BY <2>1, <2>2
<1>6. CASE Cases[c].stats /\ times # {}
  <2>1. w = [u EXCEPT !.from = Min(times), !.to = Max(times) + PerSecond, !.untouched = TRUE]
    BY <1>6 DEF SeedBounds, times
  <2>2. /\ DOMAIN w = ScreenFields /\ w.from = Min(times) /\ w.to = Max(times) + PerSecond
        /\ \A f \in ScreenFields \ {"from", "to", "untouched"} : w[f] = u[f]
    BY <2>1 DEF ScreenFields
  <2> HIDE DEF w
  <2>3. /\ Min(times) \in times /\ Max(times) \in times
        /\ \A x \in times : Min(times) <= x /\ x <= Max(times)
    BY <1>2, <1>3, <1>6, SpanOfTimes
  <2>4. PerSecond \in Nat /\ Min(times) \in Nat /\ Max(times) \in Nat
    BY <1>2, <2>3, ScreenAssumption
  <2>5. \A x \in times : w.from <= x /\ x + PerSecond <= w.to
    <3> SUFFICES ASSUME NEW x \in times PROVE w.from <= x /\ x + PerSecond <= w.to
      OBVIOUS
    <3> DEFINE lo == Min(times)
               hi == Max(times)
    <3>1. lo \in Nat /\ hi \in Nat /\ x \in Nat /\ PerSecond \in Nat /\ lo <= x /\ x <= hi
      BY <1>2, <2>3, <2>4
    <3>2. w.from = lo /\ w.to = hi + PerSecond
      BY <2>2
    <3> HIDE DEF lo, hi
    <3> QED
      BY <3>1, <3>2
  <2>6. w.db = c
    BY <2>2 DEF ScreenFields
  <2>7. SpanIsSeeded(w)
    BY <1>4, <2>5, <2>6 DEF SpanIsSeeded
  <2>8. w.from \in Nat /\ w.to \in Nat
    BY <2>2, <2>4
  <2> QED
    BY <2>2, <2>7, <2>8 DEF w
<1> QED
  BY <1>5, <1>6

\* Whatever was on the screen, a database that is opened is shown from its start.
LEMMA OpenShows ==
  ASSUME NEW u, NEW d, NEW c \in DOMAIN Cases, Widgets(u),
         d[c].tables \in BOOLEAN
  PROVE  LET w == OpenPath(u, c, d)
         IN /\ Shows(w) /\ Answered(w, d)
            /\ w.db = c /\ w.enabled = u.enabled /\ w.annotated = (d[c].sets > 0)
<1> DEFINE o == [Release(u) EXCEPT !.db = c, !.store = [case |-> c, hasKb |-> d[c].tables],
                                   !.workbench = TRUE, !.onlyAnnotated = FALSE,
                                   !.searchable = Cases[c].fts,
                                   !.annotated = d[c].sets > 0]
           s == SeedBounds(o, c)
           v == ClearFacets(ClearSearch(s))
           w == Reset(v, d)
<1>1. OpenPath(u, c, d) = w
  BY DEF OpenPath
<1>2. /\ DOMAIN o = ScreenFields /\ o.db = c /\ o.store = [case |-> c, hasKb |-> d[c].tables]
      /\ o.filters = NoFilters /\ o.rows = <<>> /\ o.total = 0 /\ o.onlyAnnotated = FALSE
      /\ o.searchable = Cases[c].fts /\ o.annotated = (d[c].sets > 0)
      /\ o.cap = u.cap /\ o.real = u.real /\ o.from = u.from /\ o.to = u.to
      /\ o.enabled = u.enabled
  BY DEF Release, Widgets, ScreenFields
<1> HIDE DEF o
<1>3. u.from \in Nat /\ u.to \in Nat /\ u.cap \in Nat /\ u.real \in Nat /\ u.enabled \in BOOLEAN
  BY DEF Widgets
<1>4. /\ DOMAIN s = ScreenFields /\ s.from \in Nat /\ s.to \in Nat
      /\ \A f \in ScreenFields \ {"from", "to", "untouched"} : s[f] = o[f]
      /\ SpanIsSeeded(s)
  BY <1>2, <1>3, SeededSpan
<1> HIDE DEF s
<1>5. /\ DOMAIN v = ScreenFields /\ v.selected = NoNames /\ v.text = Unbound /\ v.pending = FALSE
      /\ \A f \in ScreenFields \ {"selected", "text", "pending"} : v[f] = s[f]
  BY <1>4 DEF ClearFacets, ClearSearch, ScreenFields
<1> HIDE DEF v
<1>6. /\ v.db = c /\ v.store = [case |-> c, hasKb |-> d[c].tables] /\ v.filters = NoFilters
      /\ v.rows = <<>> /\ v.total = 0 /\ v.onlyAnnotated = FALSE
      /\ v.searchable = Cases[c].fts /\ v.annotated = (d[c].sets > 0)
      /\ v.cap = u.cap /\ v.real = u.real /\ v.enabled = u.enabled
      /\ v.from = s.from /\ v.to = s.to /\ v.untouched = s.untouched /\ s.db = c
  BY <1>2, <1>4, <1>5 DEF ScreenFields
<1>7. Widgets(v)
  <2>1. SpanIsSeeded(v)
    BY <1>4, <1>6 DEF SpanIsSeeded
  <2>2. NoNames \in [Facets -> SUBSET FacetNames] /\ \A f \in Facets : NoNames[f] = {}
    BY DEF NoNames
  <2>3. DOMAIN NoFilters = FilterFields
    BY DEF NoFilters, FilterFields
  <2>4. v.store.case = c
    BY <1>6
  <2>5. v.rows \in Seq(Nat) /\ Len(v.rows) <= v.total /\ {v.cap, v.real, v.total, v.from, v.to} \subseteq Nat
    BY <1>3, <1>4, <1>6
  <2> QED
    BY <1>3, <1>5, <1>6, <2>1, <2>2, <2>3, <2>4, <2>5 DEF Widgets
<1>8. Agree(v, v.filters)
  <2>1. /\ DOMAIN NoFilters = FilterFields /\ NoFilters.names = NoNames
        /\ NoFilters.annotated = FALSE /\ NoFilters.match = Unbound /\ NoFilters.last = Unbound
    BY DEF NoFilters, FilterFields
  <2>2. ~Refused(v.store, NoFilters)
    BY <2>1 DEF Refused
  <2> QED
    BY <1>5, <1>6, <2>1, <2>2 DEF Agree
<1>9. CASE v.store # Unbound
  <2>1. /\ Shows(w) /\ Answered(w, d)
        /\ \A f \in ScreenFields \ {"real", "total", "rows"} : w[f] = v[f]
    BY <1>7, <1>8, <1>9, CountedShows
  <2> HIDE DEF w
  <2>2. w.db = c /\ w.enabled = u.enabled /\ w.annotated = (d[c].sets > 0)
    BY <1>6, <2>1 DEF ScreenFields
  <2> QED
    BY <1>1, <2>1, <2>2
<1> QED
  BY <1>6, <1>9, ScreenAssumption

LEMMA ScreenInitInv == ScreenInit => ScreenInv
<1> SUFFICES ASSUME ScreenInit PROVE ScreenInv
  OBVIOUS
<1>1. PICK p \in Caps : ui = [ScreenStart EXCEPT !.cap = p]
  BY DEF ScreenInit
<1>2. /\ DOMAIN ui = ScreenFields /\ ui.db = Unbound /\ ui.store = Unbound /\ ui.cap = p
      /\ ui.filters = NoFilters /\ ui.real = 0 /\ ui.total = 0 /\ ui.rows = <<>>
      /\ ui.text = Unbound /\ ui.selected = NoNames /\ ui.from = 0 /\ ui.to = 0
      /\ ui.onlyAnnotated = FALSE /\ ui.enabled = TRUE
  BY <1>1 DEF ScreenStart, ScreenFields
<1>3. Unbound \notin DOMAIN Cases /\ p \in Nat /\ MaxSets \in Nat
  BY ScreenAssumption
<1>4. NoNames \in [Facets -> SUBSET FacetNames] /\ DOMAIN NoFilters = FilterFields
  BY DEF NoNames, NoFilters, FilterFields
<1>5. Widgets(ui)
  <2>1. SpanIsSeeded(ui)
    BY <1>2, <1>3 DEF SpanIsSeeded
  <2>2. ui.rows \in Seq(Nat) /\ Len(ui.rows) <= ui.total
    BY <1>2
  <2>3. {ui.cap, ui.real, ui.total, ui.from, ui.to} \subseteq Nat
    BY <1>2, <1>3
  <2> QED
    BY <1>2, <1>3, <1>4, <2>1, <2>2, <2>3 DEF Widgets
<1>6. OneAnnotation
  <2>1. disk \in [DOMAIN Cases -> [tables : BOOLEAN, sets : 0..MaxSets]]
    BY <1>3 DEF ScreenInit
  <2>2. \A c \in DOMAIN Cases : disk[c].sets = 0
    BY DEF ScreenInit
  <2> QED
    BY <1>2, <2>1, <2>2 DEF OneAnnotation, NeverAnnotatedTwice, ScreenInit
<1> QED
  BY <1>2, <1>5, <1>6 DEF ScreenInv, Shows, Settled

\* The annotations are as they were, and so is what the screen knows of them.
LEMMA AnnotationsKept ==
  ASSUME OneAnnotation, SameWorld, ui'.db = ui.db, ui'.enabled = ui.enabled,
         ui'.annotated = ui.annotated
  PROVE  OneAnnotation'
  BY DEF OneAnnotation, NeverAnnotatedTwice, SameWorld

\* A screen that differs in controls that do not need the store.
LEMMA ControlsSet ==
  ASSUME Widgets(ui), NEW u, DOMAIN u = ScreenFields,
         \A g \in ScreenFields \ {"text", "pending", "cap", "selected", "onlyAnnotated", "filters"} :
           u[g] = ui[g],
         u.cap \in Nat, u.onlyAnnotated \in BOOLEAN, u.text # Unbound => u.searchable,
         DOMAIN u.filters = FilterFields, u.selected \in [Facets -> SUBSET FacetNames],
         u.store # Unbound => \A f \in Facets : u.selected[f] \subseteq Entries(u.db, f)
  PROVE  /\ Widgets(u)
         /\ u.db = ui.db /\ u.store = ui.store /\ u.enabled = ui.enabled
         /\ u.annotated = ui.annotated
<1>1. /\ u.db = ui.db /\ u.store = ui.store /\ u.real = ui.real /\ u.total = ui.total
      /\ u.rows = ui.rows /\ u.searchable = ui.searchable /\ u.from = ui.from /\ u.to = ui.to
      /\ u.untouched = ui.untouched /\ u.enabled = ui.enabled /\ u.annotated = ui.annotated
  BY DEF ScreenFields
<1>2. SpanIsSeeded(u)
  BY <1>1 DEF SpanIsSeeded, Widgets
<1> QED
  BY <1>1, <1>2 DEF Widgets

\* A control that reloads the table.
LEMMA ReloadStep ==
  ASSUME ScreenInv, SameWorld, NEW u, NEW f, NEW back,
         Widgets(u), u.store # Unbound => Agree(u, f),
         u.db = ui.db, u.store = ui.store, u.enabled = ui.enabled, u.annotated = ui.annotated,
         ui' = ReloadTable(u, f, back, disk)
  PROVE  ScreenInv'
<1> DEFINE w == ReloadTable(u, f, back, disk)
<1>1. /\ Shows(w) /\ (w.store # Unbound => Answered(w, disk))
      /\ \A g \in {"db", "store", "enabled", "annotated"} : w[g] = u[g]
  BY ReloadShows
<1>2. w.db = ui.db /\ w.store = ui.store /\ w.enabled = ui.enabled /\ w.annotated = ui.annotated
  BY <1>1
<1> HIDE DEF w
<1>3. ui' = w /\ disk' = disk
  BY DEF w, SameWorld
<1>4. OneAnnotation'
  BY <1>2, <1>3, AnnotationsKept DEF ScreenInv
<1> QED
  BY <1>1, <1>3, <1>4 DEF ScreenInv, Settled

LEMMA EntriesAreNames ==
  ASSUME NEW c \in DOMAIN Cases, NEW f \in Facets
  PROVE  Entries(c, f) \subseteq FacetNames
  BY DEF Entries, FacetNames

\* One facet's selection becomes X, and the filter with it.
LEMMA FacetStep ==
  ASSUME ScreenInv, SameWorld, NEW f \in Facets, NEW X, X \subseteq Entries(ui.db, f),
         ui.store # Unbound, ui' = Facet([ui EXCEPT !.selected[f] = X], f)
  PROVE  ScreenInv'
<1> DEFINE u == [ui EXCEPT !.selected[f] = X]
           g == [u.filters EXCEPT !.names[f] = u.selected[f]]
<1>1. /\ Widgets(ui) /\ Agree(ui, ui.filters) /\ DOMAIN ui = ScreenFields
      /\ ui.db \in DOMAIN Cases /\ ui.selected \in [Facets -> SUBSET FacetNames]
      /\ \A k \in Facets : ui.selected[k] \subseteq Entries(ui.db, k)
  BY DEF ScreenInv, Shows, Widgets
<1>2. /\ DOMAIN u = ScreenFields /\ u.selected = [ui.selected EXCEPT ![f] = X]
      /\ \A k \in ScreenFields \ {"selected"} : u[k] = ui[k]
  BY <1>1 DEF ScreenFields
<1>3. X \subseteq FacetNames
  BY <1>1, EntriesAreNames
<1>4. /\ u.selected \in [Facets -> SUBSET FacetNames] /\ u.selected[f] = X
      /\ \A k \in Facets : u.selected[k] \subseteq Entries(ui.db, k)
  BY <1>1, <1>2, <1>3
<1> HIDE DEF u
<1>5. /\ u.db = ui.db /\ u.store = ui.store /\ u.cap = ui.cap /\ u.filters = ui.filters
      /\ u.text = ui.text /\ u.pending = ui.pending /\ u.onlyAnnotated = ui.onlyAnnotated
      /\ u.searchable = ui.searchable
  BY <1>2 DEF ScreenFields
<1>6. Widgets(u) /\ u.enabled = ui.enabled /\ u.annotated = ui.annotated
  <2>1. /\ u.cap \in Nat /\ u.onlyAnnotated \in BOOLEAN /\ (u.text # Unbound => u.searchable)
    BY <1>1, <1>5 DEF Widgets
  <2>2. DOMAIN u.filters = FilterFields
    BY <1>1, <1>5 DEF Widgets
  <2>3. \A k \in ScreenFields \ {"text", "pending", "cap", "selected", "onlyAnnotated", "filters"} :
          u[k] = ui[k]
    BY <1>2
  <2>4. \A k \in Facets : u.selected[k] \subseteq Entries(u.db, k)
    BY <1>4, <1>5
  <2> QED
    BY <1>1, <1>2, <1>4, <2>1, <2>2, <2>3, <2>4, ControlsSet
<1>7. Agree(u, g)
  <2>1. /\ DOMAIN ui.filters = FilterFields /\ ui.filters.names = ui.selected
        /\ ui.filters.annotated = ui.onlyAnnotated /\ (~ui.pending => ui.filters.match = ui.text)
        /\ ~Refused(ui.store, ui.filters)
    BY <1>1 DEF Agree
  <2>2. g = [ui.filters EXCEPT !.names = [ui.filters.names EXCEPT ![f] = X]]
    BY <1>4, <1>5, <2>1 DEF FilterFields
  <2> HIDE DEF g
  <2>3. /\ DOMAIN g = FilterFields /\ g.names = u.selected
        /\ g.annotated = ui.filters.annotated /\ g.match = ui.filters.match
        /\ g.last = ui.filters.last
    BY <1>2, <2>1, <2>2 DEF FilterFields
  <2>4. ~Refused(u.store, g)
    BY <1>5, <2>1, <2>3 DEF Refused
  <2> QED
    BY <1>5, <2>1, <2>3, <2>4 DEF Agree
<1>8. \E back : ui' = ReloadTable(u, g, back, disk)
  <2>1. ui' = Facet(u, f)
    BY DEF u
  <2> QED
    BY <2>1 DEF Facet
<1> QED
  BY <1>5, <1>6, <1>7, <1>8, ReloadStep

\* A step that leaves the table and the filters as they are.
LEMMA TableKept ==
  ASSUME ScreenInv, SameWorld, Widgets(ui'), ui'.store # Unbound => Agree(ui', ui'.filters),
         \A g \in {"db", "store", "cap", "real", "total", "rows", "enabled", "annotated"} :
           ui'[g] = ui[g],
         \A k \in FilterFields : ui'.filters[k] = ui.filters[k]
  PROVE  ScreenInv'
<1>1. /\ ui'.db = ui.db /\ ui'.store = ui.store /\ ui'.cap = ui.cap /\ ui'.real = ui.real
      /\ ui'.total = ui.total /\ ui'.rows = ui.rows /\ ui'.enabled = ui.enabled
      /\ ui'.annotated = ui.annotated
  OBVIOUS
<1>2. /\ ui'.filters.names = ui.filters.names /\ ui'.filters.match = ui.filters.match
      /\ ui'.filters.annotated = ui.filters.annotated /\ ui'.filters.from = ui.filters.from
      /\ ui'.filters.to = ui.filters.to /\ ui'.filters.last = ui.filters.last
  BY DEF FilterFields
<1>3. \A c, d, i : Selects(c, ui'.filters, d, i) = Selects(c, ui.filters, d, i)
  BY <1>2 DEF Selects
<1>4. \A c, d : AnswerTo(c, ui'.filters, d) = AnswerTo(c, ui.filters, d)
  <2>1. \A c, d : Matching(c, ui'.filters, d) = Matching(c, ui.filters, d)
    BY <1>3 DEF Matching
  <2> QED
    BY <2>1 DEF AnswerTo
<1>5. Settled' => Answered(ui, disk)
  BY <1>1 DEF ScreenInv, Settled, SameWorld
<1>6. Answered(ui, disk) => Answered(ui', disk')
  BY <1>1, <1>4 DEF Answered, SameWorld
<1>7. OneAnnotation'
  BY <1>1, AnnotationsKept DEF ScreenInv
<1> QED
  BY <1>5, <1>6, <1>7 DEF ScreenInv, Shows

LEMMA TypeStepKept == ASSUME ScreenInv, NEW t, Type(t) PROVE ScreenInv'
<1>1. /\ Widgets(ui) /\ DOMAIN ui = ScreenFields /\ (ui.store # Unbound => Agree(ui, ui.filters))
  BY DEF ScreenInv, Shows, Widgets
<1>2. ui.searchable /\ ui' = [ui EXCEPT !.text = t, !.pending = TRUE] /\ SameWorld
  BY DEF Type
<1>3. /\ DOMAIN ui' = ScreenFields /\ ui'.text = t /\ ui'.pending = TRUE
      /\ \A g \in ScreenFields \ {"text", "pending"} : ui'[g] = ui[g]
  BY <1>1, <1>2 DEF ScreenFields
<1>4. /\ ui'.store = ui.store /\ ui'.db = ui.db /\ ui'.filters = ui.filters /\ ui'.cap = ui.cap
      /\ ui'.selected = ui.selected /\ ui'.onlyAnnotated = ui.onlyAnnotated
      /\ ui'.searchable = ui.searchable
      /\ \A g \in {"db", "store", "cap", "real", "total", "rows", "enabled", "annotated"} :
           ui'[g] = ui[g]
  BY <1>3 DEF ScreenFields
<1>5. Widgets(ui')
  <2>1. /\ ui.cap \in Nat /\ ui.onlyAnnotated \in BOOLEAN /\ DOMAIN ui.filters = FilterFields
        /\ ui.selected \in [Facets -> SUBSET FacetNames]
        /\ ui.store # Unbound => \A f \in Facets : ui.selected[f] \subseteq Entries(ui.db, f)
    BY <1>1 DEF Widgets
  <2>2. \A g \in ScreenFields \ {"text", "pending", "cap", "selected", "onlyAnnotated", "filters"} :
          ui'[g] = ui[g]
    BY <1>3
  <2> QED
    BY <1>1, <1>2, <1>3, <1>4, <2>1, <2>2, ControlsSet
<1>6. ui'.store # Unbound => Agree(ui', ui'.filters)
  BY <1>1, <1>3, <1>4 DEF Agree
<1> QED
  BY <1>2, <1>4, <1>5, <1>6, TableKept

LEMMA PickStep ==
  ASSUME ScreenInv, NEW from \in PickerTimes, NEW to \in PickerTimes, PickTimes(from, to)
  PROVE  ScreenInv'
<1>1. /\ Widgets(ui) /\ DOMAIN ui = ScreenFields /\ (ui.store # Unbound => Agree(ui, ui.filters))
  BY DEF ScreenInv, Shows, Widgets
<1>2. ui' = [ui EXCEPT !.from = from, !.to = to, !.untouched = FALSE] /\ SameWorld
  BY DEF PickTimes
<1>3. /\ DOMAIN ui' = ScreenFields /\ ui'.from = from /\ ui'.to = to /\ ui'.untouched = FALSE
      /\ \A g \in ScreenFields \ {"from", "to", "untouched"} : ui'[g] = ui[g]
  BY <1>1, <1>2 DEF ScreenFields
<1>4. /\ ui'.store = ui.store /\ ui'.db = ui.db /\ ui'.filters = ui.filters /\ ui'.cap = ui.cap
      /\ ui'.real = ui.real /\ ui'.total = ui.total /\ ui'.rows = ui.rows /\ ui'.text = ui.text
      /\ ui'.pending = ui.pending /\ ui'.searchable = ui.searchable
      /\ ui'.selected = ui.selected /\ ui'.onlyAnnotated = ui.onlyAnnotated
      /\ ui'.enabled = ui.enabled
      /\ \A g \in {"db", "store", "cap", "real", "total", "rows", "enabled", "annotated"} :
           ui'[g] = ui[g]
  BY <1>3 DEF ScreenFields
<1>5. from \in Nat /\ to \in Nat
  BY ScreenAssumption
<1>6. Widgets(ui')
  <2>1. SpanIsSeeded(ui')
    BY <1>3 DEF SpanIsSeeded
  <2> QED
    BY <1>1, <1>3, <1>4, <1>5, <2>1 DEF Widgets
<1>7. ui'.store # Unbound => Agree(ui', ui'.filters)
  BY <1>1, <1>4 DEF Agree
<1> QED
  BY <1>2, <1>4, <1>6, <1>7, TableKept

\* _on_search: a word is there only where the database has an index.
LEMMA SearchStep == ASSUME ScreenInv, FireSearch PROVE ScreenInv'
<1> DEFINE u == [ui EXCEPT !.pending = FALSE]
           f == [ui.filters EXCEPT !.match = ui.text]
<1>1. /\ Widgets(ui) /\ DOMAIN ui = ScreenFields /\ DOMAIN ui.filters = FilterFields
      /\ ui.store # Unbound =>
           Agree(ui, ui.filters) /\ ui.store.case = ui.db /\ ui.db \in DOMAIN Cases
      /\ ui.text # Unbound => ui.searchable
      /\ ui.db \in DOMAIN Cases => ui.searchable = Cases[ui.db].fts
  BY DEF ScreenInv, Shows, Widgets
<1>2. /\ DOMAIN u = ScreenFields /\ u.pending = FALSE
      /\ \A g \in ScreenFields \ {"pending"} : u[g] = ui[g]
  BY <1>1 DEF ScreenFields
<1>3. SameWorld /\ \E back : ui' = ReloadTable(u, f, back, disk)
  BY DEF FireSearch
<1> HIDE DEF u
<1>4. /\ u.store = ui.store /\ u.db = ui.db /\ u.filters = ui.filters /\ u.cap = ui.cap
      /\ u.text = ui.text /\ u.searchable = ui.searchable
      /\ u.selected = ui.selected /\ u.onlyAnnotated = ui.onlyAnnotated
  BY <1>2 DEF ScreenFields
<1>5. Widgets(u) /\ u.enabled = ui.enabled /\ u.annotated = ui.annotated
  <2>1. /\ ui.cap \in Nat /\ ui.onlyAnnotated \in BOOLEAN
        /\ ui.selected \in [Facets -> SUBSET FacetNames]
        /\ ui.store # Unbound => \A k \in Facets : ui.selected[k] \subseteq Entries(ui.db, k)
    BY <1>1 DEF Widgets
  <2> QED
    BY <1>1, <1>2, <1>4, <2>1, ControlsSet
<1>6. ASSUME u.store # Unbound
      PROVE  Agree(u, f)
  <2>1. /\ ui.filters.names = ui.selected /\ ui.filters.annotated = ui.onlyAnnotated
        /\ ~Refused(ui.store, ui.filters)
    BY <1>1, <1>4, <1>6 DEF Agree
  <2>2. /\ DOMAIN f = FilterFields /\ f.match = ui.text /\ f.names = ui.filters.names
        /\ f.annotated = ui.filters.annotated /\ f.last = ui.filters.last
    BY <1>1 DEF FilterFields
  <2> HIDE DEF f
  <2>3. ~Refused(u.store, f)
    BY <1>1, <1>4, <1>6, <2>1, <2>2 DEF Refused
  <2> QED
    BY <1>4, <2>1, <2>2, <2>3 DEF Agree
<1> HIDE DEF f
<1> QED
  BY <1>3, <1>4, <1>5, <1>6, ReloadStep

\* rowCap
LEMMA CapStep == ASSUME ScreenInv, NEW p \in Caps, ChangeCap(p) PROVE ScreenInv'
<1> DEFINE u == [ui EXCEPT !.cap = p]
<1>1. /\ Widgets(ui) /\ DOMAIN ui = ScreenFields /\ DOMAIN ui.filters = FilterFields
      /\ ui.store # Unbound => Agree(ui, ui.filters)
  BY DEF ScreenInv, Shows, Widgets
<1>2. /\ DOMAIN u = ScreenFields /\ u.cap = p
      /\ \A g \in ScreenFields \ {"cap"} : u[g] = ui[g]
  BY <1>1 DEF ScreenFields
<1>3. SameWorld /\ ui' = ReloadTable(u, ui.filters, ui.filters, disk)
  BY DEF ChangeCap
<1> HIDE DEF u
<1>4. /\ u.store = ui.store /\ u.db = ui.db /\ u.filters = ui.filters /\ u.text = ui.text
      /\ u.pending = ui.pending /\ u.searchable = ui.searchable
      /\ u.selected = ui.selected /\ u.onlyAnnotated = ui.onlyAnnotated
  BY <1>2 DEF ScreenFields
<1>5. Widgets(u) /\ u.enabled = ui.enabled /\ u.annotated = ui.annotated
  <2>1. /\ p \in Nat /\ ui.onlyAnnotated \in BOOLEAN /\ (ui.text # Unbound => ui.searchable)
        /\ ui.selected \in [Facets -> SUBSET FacetNames]
        /\ ui.store # Unbound => \A k \in Facets : ui.selected[k] \subseteq Entries(ui.db, k)
    BY <1>1, ScreenAssumption DEF Widgets
  <2> QED
    BY <1>1, <1>2, <1>4, <2>1, ControlsSet
<1>6. u.store # Unbound => Agree(u, ui.filters)
  BY <1>1, <1>4 DEF Agree
<1> QED
  BY <1>3, <1>4, <1>5, <1>6, ReloadStep

\* _on_annotated_toggled: what is refused was not filtered by before.
LEMMA TickStep == ASSUME ScreenInv, ToggleAnnotated PROVE ScreenInv'
<1> DEFINE on == ~ui.onlyAnnotated
           f  == [ui.filters EXCEPT !.annotated = on]
           b  == on /\ (ui.store # Unbound => ~Refused(ui.store, f))
           u  == [ui EXCEPT !.onlyAnnotated = b]
           g  == [f EXCEPT !.annotated = FALSE]
<1>1. /\ Widgets(ui) /\ DOMAIN ui = ScreenFields /\ DOMAIN ui.filters = FilterFields
      /\ ui.store # Unbound => Agree(ui, ui.filters)
      /\ ui.onlyAnnotated \in BOOLEAN
  BY DEF ScreenInv, Shows, Widgets
<1>2. SameWorld /\ ui' = ReloadTable(u, f, g, disk)
  BY DEF ToggleAnnotated
<1>3. /\ DOMAIN f = FilterFields /\ f.annotated = on
      /\ \A k \in FilterFields \ {"annotated"} : f[k] = ui.filters[k]
      /\ DOMAIN g = FilterFields /\ g.annotated = FALSE
      /\ \A k \in FilterFields \ {"annotated"} : g[k] = ui.filters[k]
  BY <1>1 DEF FilterFields
<1>4. b \in BOOLEAN /\ on \in BOOLEAN
  BY <1>1
<1> HIDE DEF b, f, g
<1>5. /\ DOMAIN u = ScreenFields /\ u.onlyAnnotated = b
      /\ \A k \in ScreenFields \ {"onlyAnnotated"} : u[k] = ui[k]
  BY <1>1 DEF ScreenFields
<1> HIDE DEF u
<1>6. /\ u.store = ui.store /\ u.db = ui.db /\ u.filters = ui.filters /\ u.text = ui.text
      /\ u.pending = ui.pending /\ u.searchable = ui.searchable
      /\ u.selected = ui.selected /\ u.cap = ui.cap
      /\ \A k \in {"db", "store", "cap", "real", "total", "rows", "enabled", "annotated"} :
           u[k] = ui[k]
  BY <1>5 DEF ScreenFields
<1>7. Widgets(u) /\ u.enabled = ui.enabled /\ u.annotated = ui.annotated
  <2>1. /\ ui.cap \in Nat /\ (ui.text # Unbound => ui.searchable)
        /\ ui.selected \in [Facets -> SUBSET FacetNames]
        /\ ui.store # Unbound => \A k \in Facets : ui.selected[k] \subseteq Entries(ui.db, k)
    BY <1>1 DEF Widgets
  <2> QED
    BY <1>1, <1>4, <1>5, <1>6, <2>1, ControlsSet
<1>8. CASE ui.store = Unbound
  BY <1>2, <1>6, <1>7, <1>8, ReloadStep
<1>9. CASE ui.store # Unbound /\ ~Refused(ui.store, f)
  <2>1. b = on
    BY <1>4, <1>9 DEF b
  <2>2. f.names = ui.filters.names /\ f.match = ui.filters.match
    BY <1>3 DEF FilterFields
  <2>3. Agree(u, f)
    BY <1>1, <1>3, <1>5, <1>6, <1>9, <2>1, <2>2 DEF Agree
  <2> QED
    BY <1>2, <1>6, <1>7, <2>3, ReloadStep
<1>10. CASE ui.store # Unbound /\ Refused(ui.store, f)
  <2>1. Agree(ui, ui.filters)
    BY <1>1, <1>10
  <2>2. b = FALSE
    BY <1>10 DEF b
  <2>3. /\ f.last = ui.filters.last /\ f.match = ui.filters.match
        /\ g.last = ui.filters.last /\ g.match = ui.filters.match /\ g.names = ui.filters.names
    BY <1>3 DEF FilterFields
  <2>4. f.annotated # ui.filters.annotated
    BY <1>10, <2>1, <2>3 DEF Agree, Refused
  <2>5. ui.filters.annotated = ui.onlyAnnotated
    BY <2>1 DEF Agree
  <2>6. ui.filters.annotated = FALSE
    BY <1>1, <1>3, <1>10, <2>1, <2>3, <2>4, <2>5 DEF Agree, Refused
  <2>7. ui' = [u EXCEPT !.filters = g]
    BY <1>2, <1>6, <1>10 DEF ReloadTable
  <2>8. /\ DOMAIN ui' = ScreenFields /\ ui'.filters = g
        /\ \A k \in ScreenFields \ {"filters"} : ui'[k] = u[k]
    BY <1>5, <2>7 DEF ScreenFields
  <2>9. /\ ui'.store = ui.store /\ ui'.db = ui.db /\ ui'.text = ui.text /\ ui'.cap = ui.cap
        /\ ui'.pending = ui.pending /\ ui'.searchable = ui.searchable
        /\ ui'.selected = ui.selected /\ ui'.onlyAnnotated = FALSE
        /\ \A k \in {"db", "store", "cap", "real", "total", "rows", "enabled", "annotated"} :
             ui'[k] = ui[k]
    BY <1>5, <1>6, <2>2, <2>8 DEF ScreenFields
  <2>10. Widgets(ui')
    <3>1. /\ ui.cap \in Nat /\ (ui.text # Unbound => ui.searchable)
          /\ ui.selected \in [Facets -> SUBSET FacetNames]
          /\ ui.store # Unbound => \A k \in Facets : ui.selected[k] \subseteq Entries(ui.db, k)
      BY <1>1 DEF Widgets
    <3>2. \A k \in ScreenFields \ {"text", "pending", "cap", "selected", "onlyAnnotated", "filters"} :
            ui'[k] = ui[k]
      BY <1>5, <2>8
    <3> QED
      BY <1>1, <1>3, <2>8, <2>9, <3>1, <3>2, ControlsSet
  <2>11. \A k \in FilterFields : g[k] = ui.filters[k]
    BY <1>3, <2>6
  <2>12. ~Refused(ui'.store, g)
    BY <1>3, <2>1, <2>3, <2>6, <2>9 DEF Agree, Refused
  <2>13. Agree(ui', ui'.filters)
    BY <1>3, <2>1, <2>3, <2>6, <2>8, <2>9, <2>12 DEF Agree
  <2> QED
    BY <1>2, <2>8, <2>9, <2>10, <2>11, <2>13, TableKept
<1> QED
  BY <1>8, <1>9, <1>10

\* _apply_time_filters: a malformed duration is refused.
LEMMA TimesStep == ASSUME ScreenInv, NEW last, ApplyTimes(last) PROVE ScreenInv'
<1> DEFINE f == [ui.filters EXCEPT !.from = IsoBound(ui.from), !.to = IsoBound(ui.to),
                                   !.last = last]
<1>1. /\ Widgets(ui) /\ DOMAIN ui = ScreenFields /\ DOMAIN ui.filters = FilterFields
      /\ ui.store # Unbound /\ Agree(ui, ui.filters)
  BY DEF ScreenInv, Shows, Widgets, ApplyTimes
<1>2. SameWorld /\ ui' = ReloadTable(ui, f, ui.filters, disk)
  BY DEF ApplyTimes
<1>3. /\ DOMAIN f = FilterFields /\ f.names = ui.filters.names /\ f.match = ui.filters.match
      /\ f.annotated = ui.filters.annotated
  BY <1>1 DEF FilterFields
<1> HIDE DEF f
<1>4. CASE ~Refused(ui.store, f)
  <2>1. Agree(ui, f)
    BY <1>1, <1>3, <1>4 DEF Agree
  <2> QED
    BY <1>1, <1>2, <2>1, ReloadStep
<1>5. CASE Refused(ui.store, f)
  <2>1. ui' = [ui EXCEPT !.filters = ui.filters]
    BY <1>1, <1>2, <1>5 DEF ReloadTable
  <2>2. DOMAIN ui' = ScreenFields /\ \A k \in ScreenFields : ui'[k] = ui[k]
    BY <1>1, <2>1 DEF ScreenFields
  <2>3. /\ ui'.store = ui.store /\ ui'.db = ui.db /\ ui'.text = ui.text /\ ui'.cap = ui.cap
        /\ ui'.pending = ui.pending /\ ui'.searchable = ui.searchable
        /\ ui'.selected = ui.selected /\ ui'.onlyAnnotated = ui.onlyAnnotated
        /\ ui'.filters = ui.filters
        /\ \A k \in {"db", "store", "cap", "real", "total", "rows", "enabled", "annotated"} :
             ui'[k] = ui[k]
    BY <2>2 DEF ScreenFields
  <2>4. Widgets(ui')
    <3>1. /\ ui.cap \in Nat /\ ui.onlyAnnotated \in BOOLEAN /\ (ui.text # Unbound => ui.searchable)
          /\ ui.selected \in [Facets -> SUBSET FacetNames]
          /\ ui.store # Unbound => \A k \in Facets : ui.selected[k] \subseteq Entries(ui.db, k)
      BY <1>1 DEF Widgets
    <3> QED
      BY <1>1, <2>2, <2>3, <3>1, ControlsSet
  <2>5. Agree(ui', ui'.filters)
    BY <1>1, <2>3 DEF Agree
  <2> QED
    BY <1>2, <2>3, <2>4, <2>5, TableKept
<1> QED
  BY <1>4, <1>5

\* _clear_filters
LEMMA ClearStep == ASSUME ScreenInv, ClearFilters PROVE ScreenInv'
<1> DEFINE z == [ui EXCEPT !.filters = NoFilters, !.onlyAnnotated = FALSE, !.selected = NoNames]
           s == SeedBounds(z, ui.db)
           v == ClearSearch(s)
<1>1. /\ Widgets(ui) /\ DOMAIN ui = ScreenFields /\ ui.store # Unbound
      /\ ui.db \in DOMAIN Cases /\ ui.store.case = ui.db
      /\ ui.from \in Nat /\ ui.to \in Nat
  BY DEF ScreenInv, Shows, Widgets, ClearFilters
<1>2. SameWorld /\ ui' = Reset(v, disk)
  BY DEF ClearFilters
<1>3. /\ DOMAIN z = ScreenFields /\ z.filters = NoFilters /\ z.onlyAnnotated = FALSE
      /\ z.selected = NoNames
      /\ \A k \in ScreenFields \ {"filters", "onlyAnnotated", "selected"} : z[k] = ui[k]
  BY <1>1 DEF ScreenFields
<1> HIDE DEF z
<1>4. z.db = ui.db /\ z.from = ui.from /\ z.to = ui.to
  BY <1>3 DEF ScreenFields
<1>5. /\ DOMAIN s = ScreenFields /\ s.from \in Nat /\ s.to \in Nat
      /\ \A k \in ScreenFields \ {"from", "to", "untouched"} : s[k] = z[k]
      /\ SpanIsSeeded(s)
  BY <1>1, <1>3, <1>4, SeededSpan
<1> HIDE DEF s
<1>6. /\ DOMAIN v = ScreenFields /\ v.text = Unbound /\ v.pending = FALSE
      /\ \A k \in ScreenFields \ {"text", "pending"} : v[k] = s[k]
  BY <1>5 DEF ClearSearch, ScreenFields
<1> HIDE DEF v
<1>7. /\ v.db = ui.db /\ v.store = ui.store /\ v.filters = NoFilters /\ v.rows = ui.rows
      /\ v.total = ui.total /\ v.real = ui.real /\ v.onlyAnnotated = FALSE
      /\ v.selected = NoNames /\ v.cap = ui.cap /\ v.searchable = ui.searchable
      /\ v.enabled = ui.enabled /\ v.annotated = ui.annotated
      /\ v.from = s.from /\ v.to = s.to /\ v.untouched = s.untouched /\ s.db = ui.db
  BY <1>3, <1>5, <1>6 DEF ScreenFields
<1>8. Widgets(v)
  <2>1. SpanIsSeeded(v)
    BY <1>5, <1>7 DEF SpanIsSeeded
  <2>2. NoNames \in [Facets -> SUBSET FacetNames] /\ \A f \in Facets : NoNames[f] = {}
    BY DEF NoNames
  <2>3. DOMAIN NoFilters = FilterFields
    BY DEF NoFilters, FilterFields
  <2>4. /\ {v.cap, v.real, v.total, v.from, v.to} \subseteq Nat
        /\ v.rows \in Seq(Nat) /\ Len(v.rows) <= v.total
        /\ v.enabled \in BOOLEAN /\ (v.db \in DOMAIN Cases => v.searchable = Cases[v.db].fts)
    BY <1>1, <1>5, <1>7 DEF Widgets
  <2> QED
    BY <1>1, <1>6, <1>7, <2>1, <2>2, <2>3, <2>4 DEF Widgets
<1>9. Agree(v, v.filters)
  <2>1. /\ DOMAIN NoFilters = FilterFields /\ NoFilters.names = NoNames
        /\ NoFilters.annotated = FALSE /\ NoFilters.match = Unbound /\ NoFilters.last = Unbound
    BY DEF NoFilters, FilterFields
  <2>2. ~Refused(v.store, NoFilters)
    BY <2>1 DEF Refused
  <2> QED
    BY <1>6, <1>7, <2>1, <2>2 DEF Agree
<1> DEFINE w == Reset(v, disk)
<1>10. /\ Shows(w) /\ Answered(w, disk)
       /\ \A f \in ScreenFields \ {"real", "total", "rows"} : w[f] = v[f]
  BY <1>1, <1>7, <1>8, <1>9, CountedShows
<1> HIDE DEF w
<1>11. w.db = ui.db /\ w.enabled = ui.enabled /\ w.annotated = ui.annotated
  BY <1>7, <1>10 DEF ScreenFields
<1>12. ui' = w /\ disk' = disk
  BY <1>2 DEF w, SameWorld
<1>13. OneAnnotation'
  BY <1>2, <1>11, <1>12, AnnotationsKept DEF ScreenInv
<1> QED
  BY <1>10, <1>12, <1>13 DEF ScreenInv, Settled

\* fetchMore: the next rows of the answer, behind those that are there.
LEMMA FetchStep == ASSUME ScreenInv, FetchMore PROVE ScreenInv'
<1> DEFINE answer == AnswerTo(ui.store.case, ui.filters, disk)
           offset == Len(ui.rows)
           last   == AtMost(offset + AtMost(Batch, ui.total - offset), Len(answer))
           page   == SubSeq(answer, offset + 1, last)
           more   == ui.rows \o page
<1>1. /\ Widgets(ui) /\ DOMAIN ui = ScreenFields /\ ui.store # Unbound
      /\ Agree(ui, ui.filters) /\ ui.db \in DOMAIN Cases /\ ui.store.case = ui.db
      /\ ui.rows \in Seq(Nat) /\ ui.total \in Nat /\ offset < ui.total
      /\ (Settled => Answered(ui, disk)) /\ OneAnnotation
  BY DEF ScreenInv, Shows, Widgets, FetchMore
<1>2. page # <<>> /\ ui' = [ui EXCEPT !.rows = more] /\ SameWorld
  BY DEF FetchMore
<1>3. answer \in Seq(Nat) /\ Len(answer) \in Nat
  BY <1>1, AnswerIsOfTheCase
<1>4. offset \in Nat
  BY <1>1
<1>5. ui' = [ui EXCEPT !.rows = more] /\ answer = AnswerTo(ui.db, ui.filters, disk)
  BY <1>1, <1>2
<1> HIDE DEF answer, offset
<1>6. /\ last \in Nat /\ offset < last /\ last <= Len(answer) /\ last <= ui.total
  <2>1. Batch \in Nat \ {0}
    BY ScreenAssumption
  <2>2. last \in Nat /\ last <= Len(answer) /\ last <= ui.total
    BY <1>1, <1>3, <1>4, <2>1 DEF AtMost
  <2> HIDE DEF last
  <2>3. offset < last
    <3>1. CASE last <= offset
      <4>1. page = <<>>
        BY <1>3, <1>4, <2>2, <3>1
      <4> QED
        BY <1>2, <4>1
    <3> QED
      BY <1>4, <2>2, <3>1
  <2> QED
    BY <2>2, <2>3
<1> HIDE DEF last
<1>7. more \in Seq(Nat) /\ Len(more) = last
  <2>1. page \in Seq(Nat) /\ Len(page) = last - offset
    <3>1. /\ offset + 1 \in Int /\ last \in Int /\ (offset + 1)..last \subseteq 1..Len(answer)
      BY <1>3, <1>4, <1>6
    <3>2. \A i \in (offset + 1)..last : answer[i] \in Nat
      BY <1>3, <3>1
    <3>3. page \in Seq(Nat)
      BY <3>1, <3>2, SubSeqProperties
    <3>4. Len(page) = last - offset
      BY <1>3, <1>4, <1>6
    <3> QED
      BY <3>3, <3>4
  <2> HIDE DEF page
  <2>2. ui.rows \in Seq(Nat) /\ Len(ui.rows) = offset
    BY <1>1 DEF offset
  <2>3. more \in Seq(Nat) /\ Len(more) = Len(ui.rows) + Len(page)
    BY <2>1, <2>2, ConcatProperties
  <2> HIDE DEF more
  <2> QED
    BY <1>4, <1>6, <2>1, <2>2, <2>3
<1>8. IsPrefix(ui.rows, answer) => IsPrefix(more, answer)
  BY <1>1, <1>3, <1>4, <1>6, HeadGrows DEF offset
<1> HIDE DEF more
<1>9. /\ DOMAIN ui' = ScreenFields /\ ui'.rows = more
      /\ \A g \in ScreenFields \ {"rows"} : ui'[g] = ui[g]
  BY <1>1, <1>5 DEF ScreenFields
<1>10. /\ ui'.store = ui.store /\ ui'.db = ui.db /\ ui'.filters = ui.filters /\ ui'.cap = ui.cap
       /\ ui'.real = ui.real /\ ui'.total = ui.total /\ ui'.text = ui.text
       /\ ui'.pending = ui.pending /\ ui'.searchable = ui.searchable
       /\ ui'.selected = ui.selected /\ ui'.onlyAnnotated = ui.onlyAnnotated
       /\ ui'.enabled = ui.enabled /\ ui'.from = ui.from /\ ui'.to = ui.to
       /\ ui'.untouched = ui.untouched /\ ui'.annotated = ui.annotated
  BY <1>9 DEF ScreenFields
<1>11. Widgets(ui')
  <2>1. SpanIsSeeded(ui')
    BY <1>1, <1>10 DEF SpanIsSeeded, Widgets
  <2>2. Len(ui'.rows) <= ui'.total
    BY <1>6, <1>7, <1>9, <1>10
  <2> QED
    BY <1>1, <1>7, <1>9, <1>10, <2>1, <2>2 DEF Widgets
<1>12. Agree(ui', ui'.filters)
  BY <1>1, <1>10 DEF Agree
<1>13. Settled' => Answered(ui', disk')
  <2>1. Settled' => Settled
    BY <1>2, <1>10 DEF Settled, SameWorld
  <2>2. Answered(ui, disk) => Answered(ui', disk')
    BY <1>2, <1>5, <1>8, <1>9, <1>10 DEF Answered, SameWorld
  <2> QED
    BY <1>1, <2>1, <2>2
<1>14. OneAnnotation'
  BY <1>1, <1>2, <1>10, AnnotationsKept
<1> QED
  BY <1>11, <1>12, <1>13, <1>14 DEF ScreenInv, Shows

\* A screen whose store is closed.
LEMMA ReleasedWidgets ==
  ASSUME NEW u, Widgets(u)
  PROVE  LET w == Release(u)
         IN /\ Widgets(w) /\ w.store = Unbound
            /\ w.db = u.db /\ w.enabled = u.enabled /\ w.annotated = u.annotated
<1> DEFINE w == Release(u)
<1>1. /\ DOMAIN w = ScreenFields /\ w.store = Unbound /\ w.rows = <<>> /\ w.total = 0
      /\ w.filters = NoFilters
      /\ \A k \in ScreenFields \ {"store", "rows", "total", "filters"} : w[k] = u[k]
  BY DEF Release, ScreenFields, Widgets
<1> HIDE DEF w
<1>2. /\ w.db = u.db /\ w.cap = u.cap /\ w.real = u.real /\ w.text = u.text
      /\ w.searchable = u.searchable /\ w.selected = u.selected /\ w.from = u.from
      /\ w.to = u.to /\ w.untouched = u.untouched /\ w.onlyAnnotated = u.onlyAnnotated
      /\ w.enabled = u.enabled /\ w.annotated = u.annotated
  BY <1>1 DEF ScreenFields
<1>3. SpanIsSeeded(w)
  BY <1>2 DEF SpanIsSeeded, Widgets
<1>4. DOMAIN NoFilters = FilterFields
  BY DEF NoFilters, FilterFields
<1>5. /\ {w.cap, w.real, w.total, w.from, w.to} \subseteq Nat
      /\ w.rows \in Seq(Nat) /\ Len(w.rows) <= w.total
  BY <1>1, <1>2 DEF Widgets
<1>6. Widgets(w)
  BY <1>1, <1>2, <1>3, <1>4, <1>5 DEF Widgets
<1> QED
  BY <1>1, <1>2, <1>6 DEF w

\* Opened by another screen, while a worker may be writing.
LEMMA PrefillStep == ASSUME ScreenInv, NEW c \in DOMAIN Cases, Prefill(c) PROVE ScreenInv'
<1> DEFINE w == OpenPath(ui, c, disk)
<1>1. Widgets(ui) /\ OneAnnotation /\ disk[c].tables \in BOOLEAN /\ disk[c].sets \in Nat
  BY ScreenAssumption DEF ScreenInv, Shows, OneAnnotation
<1>2. /\ Shows(w) /\ Answered(w, disk)
      /\ w.db = c /\ w.enabled = ui.enabled /\ w.annotated = (disk[c].sets > 0)
  BY <1>1, OpenShows
<1> HIDE DEF w
<1>3. ui' = w /\ disk' = disk /\ worker' = worker
  BY DEF Prefill, SameWorld, w
<1>4. OneAnnotation'
  <2>1. ~w.annotated => disk[w.db].sets = 0
    <3>1. ~w.annotated => ~(disk[c].sets > 0)
      BY <1>2, Zenon
    <3>2. ~(disk[c].sets > 0) => disk[c].sets = 0
      BY <1>1
    <3> QED
      BY <1>2, <3>1, <3>2
  <2> QED
    BY <1>1, <1>2, <1>3, <2>1 DEF OneAnnotation, NeverAnnotatedTwice
<1> QED
  BY <1>2, <1>3, <1>4 DEF ScreenInv

\* The button: the store is closed while the worker writes where nothing is written yet.
LEMMA StartStep ==
  ASSUME ScreenInv, NEW d, d \in [DOMAIN Cases -> [tables : BOOLEAN, sets : 0..MaxSets]],
         \A c \in DOMAIN Cases : d[c].sets <= disk[c].sets,
         ui.db # Unbound, d[ui.db].sets = 0, disk' = d, StartWorker
  PROVE  ScreenInv'
<1> DEFINE w == Release(ui)
<1>1. /\ Widgets(ui) /\ DOMAIN ui = ScreenFields /\ ui.db \in DOMAIN Cases /\ OneAnnotation
  BY DEF ScreenInv, Shows, Widgets
<1>2. /\ Widgets(w) /\ w.store = Unbound /\ w.db = ui.db
  BY <1>1, ReleasedWidgets
<1>3. ui' = [w EXCEPT !.enabled = FALSE] /\ worker' = [case |-> ui.db, state |-> "running"]
  BY DEF StartWorker
<1> HIDE DEF w
<1>4. /\ DOMAIN ui' = ScreenFields /\ ui'.enabled = FALSE
      /\ \A k \in ScreenFields \ {"enabled"} : ui'[k] = w[k]
  BY <1>2, <1>3 DEF ScreenFields, Widgets
<1>5. /\ ui'.store = w.store /\ ui'.db = w.db /\ ui'.filters = w.filters /\ ui'.cap = w.cap
      /\ ui'.real = w.real /\ ui'.total = w.total /\ ui'.rows = w.rows /\ ui'.text = w.text
      /\ ui'.searchable = w.searchable /\ ui'.selected = w.selected
      /\ ui'.onlyAnnotated = w.onlyAnnotated /\ ui'.from = w.from /\ ui'.to = w.to
      /\ ui'.untouched = w.untouched
  BY <1>4 DEF ScreenFields
<1>6. Widgets(ui')
  <2>1. SpanIsSeeded(ui')
    BY <1>2, <1>5 DEF SpanIsSeeded, Widgets
  <2> QED
    BY <1>2, <1>4, <1>5, <2>1 DEF Widgets
<1>7. OneAnnotation'
  <2>1. /\ worker' # Unbound /\ worker'.state = "running" /\ worker'.case = ui.db
        /\ worker' \in [case : DOMAIN Cases, state : {"running", "done", "failed"}]
    BY <1>1, <1>3, ScreenAssumption
  <2>2. \A c \in DOMAIN Cases : d[c].sets <= 1
    <3> SUFFICES ASSUME NEW c \in DOMAIN Cases PROVE d[c].sets <= 1
      OBVIOUS
    <3>1. /\ d[c].sets \in Nat /\ disk[c].sets \in Nat /\ disk[c].sets <= 1
          /\ d[c].sets <= disk[c].sets
      BY <1>1, ScreenAssumption DEF OneAnnotation, NeverAnnotatedTwice
    <3> QED
      BY <3>1
  <2> QED
    BY <1>4, <2>1, <2>2 DEF OneAnnotation, NeverAnnotatedTwice
<1> QED
  BY <1>2, <1>5, <1>6, <1>7 DEF ScreenInv, Shows, Settled

\* Removing the annotations of the database that is open.
LEMMA ClearedDisk ==
  ASSUME OneAnnotation, ui.db \in DOMAIN Cases
  PROVE  /\ Cleared \in [DOMAIN Cases -> [tables : BOOLEAN, sets : 0..MaxSets]]
         /\ Cleared[ui.db].sets = 0
         /\ \A c \in DOMAIN Cases : /\ Cleared[c].sets <= disk[c].sets /\ Cleared[c].sets <= 1
                                    /\ c # ui.db => Cleared[c] = disk[c]
<1>1. disk \in [DOMAIN Cases -> [tables : BOOLEAN, sets : 0..MaxSets]] /\ MaxSets \in Nat
  BY ScreenAssumption DEF OneAnnotation
<1>2. Cleared[ui.db] = [disk[ui.db] EXCEPT !.sets = 0]
  BY <1>1 DEF Cleared
<1>3. \A c \in DOMAIN Cases : c # ui.db => Cleared[c] = disk[c]
  BY <1>1 DEF Cleared
<1>4. /\ Cleared[ui.db] \in [tables : BOOLEAN, sets : 0..MaxSets] /\ Cleared[ui.db].sets = 0
  BY <1>1, <1>2
<1>5. Cleared \in [DOMAIN Cases -> [tables : BOOLEAN, sets : 0..MaxSets]]
  <2>1. Cleared = [c \in DOMAIN Cases |-> Cleared[c]]
    BY <1>1 DEF Cleared
  <2>2. \A c \in DOMAIN Cases : Cleared[c] \in [tables : BOOLEAN, sets : 0..MaxSets]
    BY <1>1, <1>3, <1>4
  <2> QED
    BY <2>1, <2>2
<1>6. ASSUME NEW c \in DOMAIN Cases
      PROVE  Cleared[c].sets <= disk[c].sets /\ Cleared[c].sets <= 1
  <2>1. disk[c].sets \in Nat /\ disk[c].sets <= 1
    BY <1>1 DEF OneAnnotation, NeverAnnotatedTwice
  <2> QED
    BY <1>3, <1>4, <2>1
<1> QED
  BY <1>3, <1>4, <1>5, <1>6

\* The screen closed its store and nothing else: removing failed, or annotating again did.
LEMMA ClosedStep ==
  ASSUME ScreenInv, ui' = Release(ui), worker' = worker,
         \/ disk' = disk
         \/ ui.enabled /\ ui.db # Unbound /\ disk' = Cleared
  PROVE  ScreenInv'
<1> DEFINE w == Release(ui)
<1>1. Widgets(ui) /\ OneAnnotation /\ (ui.db = Unbound \/ ui.db \in DOMAIN Cases)
  BY DEF ScreenInv, Shows, Widgets
<1>2. /\ Widgets(w) /\ w.store = Unbound
      /\ w.db = ui.db /\ w.enabled = ui.enabled /\ w.annotated = ui.annotated
  BY <1>1, ReleasedWidgets
<1> HIDE DEF w
<1>3. ui' = w
  BY DEF w
<1>4. OneAnnotation'
  <2>1. CASE disk' = disk
    BY <1>1, <1>2, <1>3, <2>1, AnnotationsKept DEF SameWorld
  <2>2. CASE ui.enabled /\ ui.db # Unbound /\ disk' = Cleared
    <3>1. /\ Cleared \in [DOMAIN Cases -> [tables : BOOLEAN, sets : 0..MaxSets]]
          /\ Cleared[ui.db].sets = 0 /\ \A c \in DOMAIN Cases : Cleared[c].sets <= 1
      BY <1>1, <2>2, ClearedDisk
    <3>2. worker = Unbound
      BY <1>1, <2>2 DEF OneAnnotation
    <3> QED
      BY <1>1, <1>2, <1>3, <2>2, <3>1, <3>2 DEF OneAnnotation, NeverAnnotatedTwice
  <2> QED
    BY <2>1, <2>2
<1> QED
  BY <1>2, <1>3, <1>4 DEF ScreenInv, Shows, Settled

LEMMA RemoveStep == ASSUME ScreenInv, RemoveAnnotations PROVE ScreenInv'
<1> DEFINE r == Release(ui)
           w == OpenPath(r, ui.db, Cleared)
<1>1. /\ Widgets(ui) /\ OneAnnotation /\ ui.db \in DOMAIN Cases /\ ui.enabled
      /\ disk' = Cleared /\ ui' = w /\ worker' = worker
  BY DEF ScreenInv, Shows, Widgets, RemoveAnnotations, MayRemove
<1>2. /\ Cleared \in [DOMAIN Cases -> [tables : BOOLEAN, sets : 0..MaxSets]]
      /\ Cleared[ui.db].sets = 0 /\ \A c \in DOMAIN Cases : Cleared[c].sets <= 1
  BY <1>1, ClearedDisk
<1>3. Widgets(r) /\ r.enabled = ui.enabled
  BY <1>1, ReleasedWidgets
<1> HIDE DEF r
<1>4. Cleared[ui.db].tables \in BOOLEAN
  BY <1>1, <1>2
<1>5. Shows(w) /\ Answered(w, Cleared) /\ w.db = ui.db /\ w.enabled = ui.enabled
  BY <1>1, <1>3, <1>4, OpenShows
<1> HIDE DEF w
<1>6. worker = Unbound
  BY <1>1 DEF OneAnnotation
<1>7. OneAnnotation'
  BY <1>1, <1>2, <1>5, <1>6 DEF OneAnnotation, NeverAnnotatedTwice
<1> QED
  BY <1>1, <1>5, <1>7 DEF ScreenInv

\* The worker: what it writes is read only by a store that is not settled.
LEMMA WorkerEndsStep == ASSUME ScreenInv, WorkerCommits \/ WorkerFails PROVE ScreenInv'
<1>1. /\ Shows(ui) /\ OneAnnotation /\ ui' = ui /\ worker # Unbound /\ worker.state = "running"
      /\ (Settled => Answered(ui, disk))
  BY DEF ScreenInv, WorkerCommits, WorkerFails
<1>2. /\ worker \in [case : DOMAIN Cases, state : {"running", "done", "failed"}]
      /\ disk[worker.case].sets = 0 /\ MaxSets \in Nat
      /\ disk \in [DOMAIN Cases -> [tables : BOOLEAN, sets : 0..MaxSets]]
      /\ NeverAnnotatedTwice /\ ui.enabled = FALSE
  BY <1>1, ScreenAssumption DEF OneAnnotation, Shows, Widgets
<1>3. /\ worker' # Unbound /\ worker'.case = worker.case /\ worker'.state # "running"
      /\ worker' \in [case : DOMAIN Cases, state : {"running", "done", "failed"}]
  <2>1. PICK s \in {"done", "failed"} : worker' = [worker EXCEPT !.state = s]
    BY DEF WorkerCommits, WorkerFails
  <2>2. worker' = [case |-> worker.case, state |-> s]
    BY <1>2, <2>1
  <2>3. worker.case \in DOMAIN Cases
    BY <1>2
  <2> QED
    BY <2>2, <2>3, ScreenAssumption
<1>4. PICK t : /\ t \in [tables : BOOLEAN, sets : 0..MaxSets] /\ t.sets <= 1
               /\ disk' = [disk EXCEPT ![worker.case] = t]
  <2>1. CASE WorkerCommits
    <3> DEFINE t == [tables |-> TRUE, sets |-> disk[worker.case].sets + 1]
    <3>1. disk' = [disk EXCEPT ![worker.case] = t] /\ 0 < MaxSets
      BY <1>2, <2>1 DEF WorkerCommits
    <3>2. t \in [tables : BOOLEAN, sets : 0..MaxSets] /\ t.sets <= 1
      BY <1>2, <3>1
    <3> QED
      BY <3>1, <3>2
  <2>2. CASE WorkerFails
    <3>1. PICK made \in BOOLEAN : disk' = [disk EXCEPT ![worker.case].tables = @ \/ made]
      BY <2>2 DEF WorkerFails
    <3> DEFINE t == [disk[worker.case] EXCEPT !.tables = @ \/ made]
    <3>2. disk' = [disk EXCEPT ![worker.case] = t]
      BY <1>2, <3>1
    <3>3. disk[worker.case] \in [tables : BOOLEAN, sets : 0..MaxSets]
      BY <1>2
    <3>4. t \in [tables : BOOLEAN, sets : 0..MaxSets] /\ t.sets = 0
      BY <1>2, <3>3
    <3> HIDE DEF t
    <3>5. t.sets <= 1
      BY <3>4
    <3> QED
      BY <3>2, <3>4, <3>5
  <2> QED
    BY <2>1, <2>2
<1>5. /\ disk' \in [DOMAIN Cases -> [tables : BOOLEAN, sets : 0..MaxSets]]
      /\ \A c \in DOMAIN Cases : c # worker.case => disk'[c] = disk[c]
      /\ \A c \in DOMAIN Cases : disk'[c].sets <= 1
  BY <1>2, <1>4 DEF NeverAnnotatedTwice
<1>6. OneAnnotation'
  BY <1>1, <1>2, <1>3, <1>5 DEF OneAnnotation, NeverAnnotatedTwice
<1>7. ASSUME Settled' PROVE Answered(ui', disk')
  <2>1. /\ ui.store # Unbound /\ worker.case # ui.store.case /\ Settled
    BY <1>1, <1>3, <1>7 DEF Settled
  <2>2. ui.store.case = ui.db /\ ui.db \in DOMAIN Cases
    BY <1>1, <2>1 DEF Shows, Widgets
  <2>3. AnswerTo(ui.db, ui.filters, disk') = AnswerTo(ui.db, ui.filters, disk)
    BY <1>5, <2>1, <2>2, SameAnswer
  <2> QED
    BY <1>1, <2>1, <2>3 DEF Answered
<1> QED
  BY <1>1, <1>6, <1>7 DEF ScreenInv

\* _on_annotated, _on_annotate_failed: back to the database that was annotated.
LEMMA EndsStep == ASSUME ScreenInv, AnnotateEnds PROVE ScreenInv'
<1> DEFINE c == worker.case
           u == [ui EXCEPT !.enabled = TRUE]
           w == OpenPath(u, c, disk)
<1>1. /\ Widgets(ui) /\ DOMAIN ui = ScreenFields /\ OneAnnotation /\ worker # Unbound
      /\ ui' = w /\ worker' = Unbound /\ disk' = disk
  BY DEF ScreenInv, Shows, Widgets, AnnotateEnds
<1>2. /\ c \in DOMAIN Cases /\ disk[c].tables \in BOOLEAN /\ disk[c].sets \in Nat
  BY <1>1, ScreenAssumption DEF OneAnnotation
<1>3. /\ DOMAIN u = ScreenFields /\ u.enabled = TRUE
      /\ \A k \in ScreenFields \ {"enabled"} : u[k] = ui[k]
  BY <1>1 DEF ScreenFields
<1> HIDE DEF u
<1>4. /\ u.store = ui.store /\ u.db = ui.db /\ u.filters = ui.filters /\ u.cap = ui.cap
      /\ u.real = ui.real /\ u.total = ui.total /\ u.rows = ui.rows /\ u.text = ui.text
      /\ u.searchable = ui.searchable /\ u.selected = ui.selected
      /\ u.onlyAnnotated = ui.onlyAnnotated /\ u.from = ui.from /\ u.to = ui.to
      /\ u.untouched = ui.untouched
  BY <1>3 DEF ScreenFields
<1>5. Widgets(u)
  <2>1. SpanIsSeeded(u)
    BY <1>1, <1>4 DEF SpanIsSeeded, Widgets
  <2> QED
    BY <1>1, <1>3, <1>4, <2>1 DEF Widgets
<1>6. /\ Shows(w) /\ Answered(w, disk)
      /\ w.db = c /\ w.enabled = u.enabled /\ w.annotated = (disk[c].sets > 0)
  BY <1>2, <1>5, OpenShows
<1> HIDE DEF w
<1>7. OneAnnotation'
  <2>1. ~w.annotated => disk[w.db].sets = 0
    <3>1. ~w.annotated => ~(disk[c].sets > 0)
      BY <1>6, Zenon
    <3>2. ~(disk[c].sets > 0) => disk[c].sets = 0
      BY <1>2
    <3> QED
      BY <1>6, <3>1, <3>2
  <2> QED
    BY <1>1, <1>3, <1>6, <2>1 DEF OneAnnotation, NeverAnnotatedTwice
<1> QED
  BY <1>1, <1>6, <1>7 DEF ScreenInv

LEMMA ScreenStep == ScreenInv /\ [ScreenNext]_screen => ScreenInv'
<1> SUFFICES ASSUME ScreenInv, [ScreenNext]_screen PROVE ScreenInv'
  OBVIOUS
<1>1. ASSUME NEW f \in Facets, NEW v \in FacetNames, NEW on \in BOOLEAN, Toggle(f, v, on)
      PROVE  ScreenInv'
  <2> DEFINE X == IF on THEN ui.selected[f] \cup {v} ELSE ui.selected[f] \ {v}
  <2>1. /\ ui.store # Unbound /\ v \in Entries(ui.db, f) /\ SameWorld
        /\ ui.selected[f] \subseteq Entries(ui.db, f)
        /\ DOMAIN ui.selected = Facets /\ DOMAIN ui = ScreenFields
    BY <1>1 DEF Toggle, ScreenInv, Shows, Widgets
  <2>2. ui' = Facet([ui EXCEPT !.selected[f] = X], f)
    BY <1>1, <2>1 DEF Toggle
  <2>3. X \subseteq Entries(ui.db, f)
    BY <2>1
  <2> HIDE DEF X
  <2> QED
    BY <2>1, <2>2, <2>3, FacetStep
<1>2. ASSUME NEW f \in Facets, SelectAll(f) PROVE ScreenInv'
  BY <1>2, FacetStep DEF SelectAll
<1>3. ASSUME NEW f \in Facets, SelectNone(f) PROVE ScreenInv'
  BY <1>3, FacetStep DEF SelectNone
<1>4. CASE StartAnnotating
  <2>1. disk' = disk /\ StartWorker /\ ui.db # Unbound /\ disk[ui.db].sets = 0
    BY <1>4 DEF StartAnnotating, ScreenInv, OneAnnotation
  <2>2. /\ disk \in [DOMAIN Cases -> [tables : BOOLEAN, sets : 0..MaxSets]]
        /\ \A c \in DOMAIN Cases : disk[c].sets <= disk[c].sets
    BY ScreenAssumption DEF ScreenInv, OneAnnotation
  <2> QED
    BY <2>1, <2>2, StartStep
<1>5. CASE RemoveAndRedo
  <2>1. /\ ui.db # Unbound /\ ui.db \in DOMAIN Cases /\ OneAnnotation
        /\ disk' = Cleared /\ StartWorker
    BY <1>5 DEF RemoveAndRedo, MayRemove, ScreenInv, Shows, Widgets
  <2>2. /\ Cleared \in [DOMAIN Cases -> [tables : BOOLEAN, sets : 0..MaxSets]]
        /\ Cleared[ui.db].sets = 0 /\ \A c \in DOMAIN Cases : Cleared[c].sets <= disk[c].sets
    BY <2>1, ClearedDisk
  <2> QED
    BY <2>1, <2>2, StartStep
<1>6. CASE RemoveWithoutKb \/ RemoveFails
  BY <1>6, ClosedStep DEF RemoveWithoutKb, RemoveFails, MayRemove, SameWorld
<1>7. CASE UNCHANGED screen
  BY <1>7 DEF screen, ScreenInv, Shows, Settled, Answered, OneAnnotation, NeverAnnotatedTwice
<1> QED
  BY <1>1, <1>2, <1>3, <1>4, <1>5, <1>6, <1>7, PrefillStep, TypeStepKept, SearchStep, TickStep,
     PickStep, TimesStep, ClearStep, FetchStep, CapStep, RemoveStep, WorkerEndsStep, EndsStep
     DEF ScreenNext

\* A filter's end is cut to whole seconds, which the second more outweighs.
LEMMA WholeSeconds ==
  ASSUME NEW t \in Nat, NEW a \in Nat
  PROVE  (t <= a => IsoBound(t) <= a) /\ (a + PerSecond <= t => a < IsoBound(t))
<1>1. PerSecond \in Nat \ {0}
  BY ScreenAssumption
<1>2. t % PerSecond \in 0..(PerSecond - 1)
  BY <1>1
<1> DEFINE m == t % PerSecond
<1> HIDE DEF m
<1>3. m \in 0..(PerSecond - 1) /\ IsoBound(t) = t - m
  BY <1>2 DEF m, IsoBound
<1> QED
  BY <1>1, <1>3

LEMMA TrueFromInv == ScreenInv => ScreenIsTrue
<1> SUFFICES ASSUME ScreenInv PROVE ScreenIsTrue
  OBVIOUS
<1>1. /\ Widgets(ui) /\ (ui.store # Unbound => Agree(ui, ui.filters)) /\ OneAnnotation
      /\ (Settled => Answered(ui, disk))
  BY DEF ScreenInv, Shows
<1>2. ui.store # Unbound => ui.db \in DOMAIN Cases /\ ui.store.case = ui.db
  BY <1>1 DEF Widgets
<1>3. ScreenTypeOK
  <2>1. DOMAIN ScreenStart = ScreenFields
    BY DEF ScreenStart, ScreenFields
  <2> QED
    BY <1>1, <2>1 DEF ScreenTypeOK, Widgets, OneAnnotation
<1>4. TableIsTheAnswer
  BY <1>1, <1>2 DEF TableIsTheAnswer, Answered, Settled
<1>5. ControlsAreApplied
  BY <1>1 DEF ControlsAreApplied, Agree
<1>6. FiltersAreOfTheCase
  BY <1>1, <1>2 DEF FiltersAreOfTheCase, Agree, Widgets
<1>7. SeedIsTheWholeCase
  <2> SUFFICES ASSUME ui.store # Unbound, ui.untouched, Cases[ui.db].stats, ui.db \in DOMAIN Cases,
                      NEW i \in RowsOf(ui.db), Cases[ui.db].rows[i].at # 0
               PROVE  Selects(ui.db, [NoFilters EXCEPT !.from = IsoBound(ui.from),
                                                       !.to = IsoBound(ui.to)], disk, i)
    BY <1>2 DEF SeedIsTheWholeCase
  <2> DEFINE a == Cases[ui.db].rows[i].at
             f == [NoFilters EXCEPT !.from = IsoBound(ui.from), !.to = IsoBound(ui.to)]
  <2>1. ui.from <= a /\ a + PerSecond <= ui.to
    BY <1>1 DEF Widgets, SpanIsSeeded
  <2>2. a \in Nat /\ ui.from \in Nat /\ ui.to \in Nat
    BY <1>1, ScreenAssumption DEF Widgets, RowsOf
  <2>3. /\ f.names = NoNames /\ f.match = Unbound /\ f.annotated = FALSE /\ f.last = Unbound
        /\ f.from = IsoBound(ui.from) /\ f.to = IsoBound(ui.to)
    BY DEF NoFilters
  <2> HIDE DEF f, a
  <2>4. IsoBound(ui.from) <= a /\ a < IsoBound(ui.to)
    BY <2>1, <2>2, WholeSeconds
  <2>5. a >= f.from /\ a < f.to
    <3>1. IsoBound(ui.from) \in Int
      BY <2>2, ScreenAssumption DEF IsoBound
    <3> QED
      BY <2>2, <2>3, <2>4, <3>1
  <2>6. \A k \in Facets : f.names[k] = {}
    BY <2>3 DEF NoNames
  <2> QED
    BY <2>3, <2>5, <2>6 DEF Selects, f, a
<1>8. NeverAnnotatedTwice
  BY <1>1 DEF OneAnnotation
<1> QED
  BY <1>3, <1>4, <1>5, <1>6, <1>7, <1>8 DEF ScreenIsTrue

\* Whatever is filtered, paged, opened, annotated and removed, in whatever order the worker
\* and other screens come in: the table, the counts and the controls agree with each other
\* and with the database, and none is annotated twice (screen_exploit.py, log_table.py).
THEOREM ScreenAgrees == ScreenSpec => []ScreenIsTrue
BY ScreenInitInv, ScreenStep, TrueFromInv, PTL DEF ScreenSpec

-----------------------------------------------------------------------------
(* The application log *)

LogRecords == [at : 1..MaxLogged, level : LogLevels]

\* s is how t ends, place by place.
Ends(s, t) ==
  Len(s) <= Len(t) /\ \A i \in 1..Len(s) : s[i] = t[Len(t) - Len(s) + i]

PanelState == [records : Seq(LogRecords), enabled : SUBSET LogLevels, paused : BOOLEAN,
               count : Nat, body : Seq(LogRecords), blocks : 0..MaxRecords]

\* No more records than the code retains, no more blocks than lines.
Bounded(p) == Len(p.records) <= MaxRecords /\ p.blocks <= Len(p.body)

\* The text ends with the lines a redraw would show, and the count is theirs.
Current(p) == p.count = Len(Enabled(p)) /\ Ends(Enabled(p), p.body)

LogPanelInv ==
  /\ logged \in 0..MaxLogged /\ root \in BOOLEAN
  /\ posted \in Seq(LogRecords) /\ received \in Seq(LogRecords)
  /\ display \in PanelState /\ Bounded(display)
  /\ ~display.paused => Current(display)
  /\ Ends(display.records, received)
  /\ Len(display.records) < MaxRecords => display.records = received
  /\ DebugCostsOnlyWhenAsked

\* An end is a suffix, and the last part of what it ends.
LEMMA EndIsSuffix ==
  ASSUME NEW T, NEW s \in Seq(T), NEW t \in Seq(T), Ends(s, t)
  PROVE  IsSuffix(s, t) /\ s = SubSeq(t, Len(t) - Len(s) + 1, Len(t))
<1> DEFINE k == Len(s)
           n == Len(t)
           a == Reverse(s)
           b == Reverse(t)
<1>1. k \in Nat /\ n \in Nat /\ k <= n /\ \A i \in 1..k : s[i] = t[n - k + i]
  BY LenProperties DEF Ends
<1>2. (\A i \in 1..k : s[i] \in T) /\ \A i \in 1..n : t[i] \in T
  BY ElementOfSeq
<1> HIDE DEF k, n
<1>3. /\ a = [i \in 1..k |-> s[k - i + 1]] /\ b = [i \in 1..n |-> t[n - i + 1]]
  BY DEF Reverse, k, n
<1>4. a \in Seq(T) /\ b \in Seq(T) /\ Len(a) = k /\ Len(b) = n
  <2>1. \A i \in 1..k : k - i + 1 \in 1..k
    BY <1>1
  <2>2. \A i \in 1..n : n - i + 1 \in 1..n
    BY <1>1
  <2>3. a \in [1..k -> T]
    BY <1>2, <1>3, <2>1
  <2>4. b \in [1..n -> T]
    BY <1>2, <1>3, <2>2
  <2> HIDE DEF a, b
  <2> QED
    BY <1>1, <2>3, <2>4
<1>5. \A i \in 1..k : a[i] = b[i] /\ i \in 1..n
  <2> SUFFICES ASSUME NEW i \in 1..k PROVE a[i] = b[i] /\ i \in 1..n
    OBVIOUS
  <2>1. i \in 1..n /\ k - i + 1 \in 1..k /\ n - k + (k - i + 1) = n - i + 1
    BY <1>1
  <2>2. a[i] = s[k - i + 1] /\ b[i] = t[n - i + 1]
    BY <1>3, <2>1
  <2> QED
    BY <1>1, <2>1, <2>2
<1> HIDE DEF a, b
<1>6. IsPrefix(a, b)
  <2>1. /\ SubSeq(a, 1, k) \in Seq(T) /\ Len(SubSeq(a, 1, k)) = k
        /\ \A i \in 1..k : SubSeq(a, 1, k)[i] = a[i]
    BY <1>1, <1>2, <1>4, ElementOfSeq, SubSeqProperties
  <2>2. /\ SubSeq(b, 1, k) \in Seq(T) /\ Len(SubSeq(b, 1, k)) = k
        /\ \A i \in 1..k : SubSeq(b, 1, k)[i] = b[i]
    BY <1>1, <1>4, <1>5, ElementOfSeq, SubSeqProperties
  <2>3. SubSeq(a, 1, k) = SubSeq(b, 1, k)
    BY <1>5, <2>1, <2>2, SeqEqual
  <2> QED
    BY <1>1, <1>4, <2>3 DEF IsPrefix
<1>7. s = SubSeq(t, n - k + 1, n)
  <2> DEFINE w == SubSeq(t, n - k + 1, n)
  <2>1. n - k + 1 \in Int /\ n \in Int /\ \A i \in (n - k + 1)..n : t[i] \in T
    BY <1>1, <1>2
  <2>2. /\ w \in Seq(T) /\ Len(w) = IF n - k + 1 <= n THEN n - (n - k + 1) + 1 ELSE 0
        /\ \A i \in 1..(n - (n - k + 1) + 1) : w[i] = t[n - k + 1 + i - 1]
    BY <2>1, SubSeqProperties
  <2> HIDE DEF w
  <2>3. Len(w) = k
    BY <1>1, <2>2
  <2>4. \A i \in 1..k : w[i] = s[i]
    <3> SUFFICES ASSUME NEW i \in 1..k PROVE w[i] = s[i]
      OBVIOUS
    <3>1. i \in 1..(n - (n - k + 1) + 1) /\ n - k + 1 + i - 1 = n - k + i
      BY <1>1
    <3> QED
      BY <1>1, <2>2, <3>1
  <2>5. w = s
    BY <2>2, <2>3, <2>4, SeqEqual DEF k
  <2> QED
    BY <2>5 DEF w
<1> QED
  BY <1>6, <1>7 DEF IsSuffix, a, b, k, n

\* An end stays one when both grow by the same, when it loses its head, and when no more
\* than what is before it is cut off.
LEMMA EndsGrow ==
  ASSUME NEW T, NEW s \in Seq(T), NEW t \in Seq(T), NEW r \in T, Ends(s, t)
  PROVE  Ends(Append(s, r), Append(t, r))
<1> DEFINE k == Len(s)
           n == Len(t)
           a == Append(s, r)
           b == Append(t, r)
<1>1. k \in Nat /\ n \in Nat /\ k <= n /\ \A i \in 1..k : s[i] = t[n - k + i]
  BY LenProperties DEF Ends
<1>2. /\ Len(a) = k + 1 /\ a[k + 1] = r /\ \A i \in 1..k : a[i] = s[i]
      /\ Len(b) = n + 1 /\ b[n + 1] = r /\ \A i \in 1..n : b[i] = t[i]
  BY AppendProperties
<1> HIDE DEF k, n, a, b
<1>3. ASSUME NEW i \in 1..(k + 1)
      PROVE  a[i] = b[n + 1 - (k + 1) + i]
  <2>1. CASE i = k + 1
    <3>1. n + 1 - (k + 1) + i = n + 1
      BY <1>1, <2>1
    <3> QED
      BY <1>2, <2>1, <3>1
  <2>2. CASE i # k + 1
    <3>1. i \in 1..k /\ n - k + i \in 1..n /\ n + 1 - (k + 1) + i = n - k + i
      BY <1>1, <2>2
    <3> QED
      BY <1>1, <1>2, <3>1
  <2> QED
    BY <2>1, <2>2
<1>4. Ends(a, b)
  BY <1>1, <1>2, <1>3 DEF Ends
<1> QED
  BY <1>4 DEF a, b

LEMMA EndsShrink ==
  ASSUME NEW T, NEW s \in Seq(T), NEW t \in Seq(T), s # <<>>, Ends(s, t)
  PROVE  Ends(Tail(s), t)
<1> DEFINE k == Len(s)
           n == Len(t)
           a == Tail(s)
<1>1. k \in Nat /\ n \in Nat /\ k <= n /\ \A i \in 1..k : s[i] = t[n - k + i]
  BY LenProperties DEF Ends
<1>2. Len(a) = k - 1 /\ (\A i \in 1..(k - 1) : a[i] = s[i + 1]) /\ k # 0
  BY HeadTailProperties, EmptySeq
<1> HIDE DEF k, n, a
<1>3. ASSUME NEW i \in 1..(k - 1)
      PROVE  a[i] = t[n - (k - 1) + i]
  <2>1. i + 1 \in 1..k /\ n - k + (i + 1) = n - (k - 1) + i
    BY <1>1
  <2> QED
    BY <1>1, <1>2, <2>1
<1>4. k - 1 <= n
  BY <1>1, <1>2
<1>5. Ends(a, t)
  BY <1>2, <1>3, <1>4 DEF Ends, n
<1> QED
  BY <1>5 DEF a

\* The last m lines.
LastOf(t, m) == SubSeq(t, Len(t) - m + 1, Len(t))

LEMMA EndsOfLast ==
  ASSUME NEW T, NEW s \in Seq(T), NEW t \in Seq(T), NEW m \in Nat, Len(s) <= m, m <= Len(t),
         Ends(s, t)
  PROVE  LastOf(t, m) \in Seq(T) /\ Len(LastOf(t, m)) = m /\ Ends(s, LastOf(t, m))
<1> DEFINE k == Len(s)
           n == Len(t)
           w == SubSeq(t, n - m + 1, n)
<1>1. k \in Nat /\ n \in Nat /\ k <= m /\ m <= n /\ \A i \in 1..k : s[i] = t[n - k + i]
  BY LenProperties DEF Ends
<1>2. \A i \in 1..n : t[i] \in T
  BY ElementOfSeq
<1> HIDE DEF k, n
<1>3. n - m + 1 \in Int /\ n \in Int /\ \A i \in (n - m + 1)..n : t[i] \in T
  BY <1>1, <1>2
<1>4. /\ w \in Seq(T) /\ Len(w) = IF n - m + 1 <= n THEN n - (n - m + 1) + 1 ELSE 0
      /\ \A i \in 1..(n - (n - m + 1) + 1) : w[i] = t[n - m + 1 + i - 1]
  BY <1>3, SubSeqProperties
<1> HIDE DEF w
<1>5. Len(w) = m
  BY <1>1, <1>4
<1>6. ASSUME NEW i \in 1..k
      PROVE  s[i] = w[m - k + i]
  <2>1. m - k + i \in 1..(n - (n - m + 1) + 1) /\ n - m + 1 + (m - k + i) - 1 = n - k + i
    BY <1>1
  <2> QED
    BY <1>1, <1>4, <2>1
<1>7. Ends(s, w)
  BY <1>1, <1>5, <1>6 DEF Ends, k
<1> QED
  BY <1>4, <1>5, <1>7 DEF LastOf, w, n

\* What a level filter leaves of the records.
LEMMA EnabledAreRecords ==
  ASSUME NEW p \in PanelState
  PROVE  Enabled(p) \in Seq(LogRecords) /\ Len(Enabled(p)) <= Len(p.records)
<1>1. p.records \in Seq(LogRecords)
  BY DEF PanelState
<1> QED
  BY <1>1, WithoutKeepsOrder, WithoutIsWithin DEF Enabled

\* A redraw shows what is kept of the enabled levels.
LEMMA RedrawIsCurrent ==
  ASSUME NEW p \in PanelState, Len(p.records) <= MaxRecords
  PROVE  /\ Rerender(p) \in PanelState /\ Bounded(Rerender(p)) /\ Current(Rerender(p))
         /\ Rerender(p).records = p.records /\ Rerender(p).enabled = p.enabled
         /\ Rerender(p).paused = p.paused
<1> DEFINE e == Enabled(p)
           b == IF e = <<>> THEN 0 ELSE 1
           q == [p EXCEPT !.count = Len(e), !.body = e, !.blocks = b]
<1>1. e \in Seq(LogRecords) /\ Len(e) \in Nat /\ (e # <<>> => Len(e) # 0)
  BY EnabledAreRecords, LenProperties, EmptySeq
<1>2. MaxRecords \in Nat \ {0}
  BY LogPanelAssumption
<1>3. b \in 0..MaxRecords /\ b <= Len(e)
  BY <1>1, <1>2
<1> HIDE DEF e, b
<1>4. /\ q \in PanelState /\ q.records = p.records /\ q.enabled = p.enabled
      /\ q.paused = p.paused /\ q.count = Len(e) /\ q.body = e /\ q.blocks = b
  BY <1>1, <1>3 DEF PanelState
<1> HIDE DEF q
<1>5. Enabled(q) = e
  BY <1>4 DEF Enabled, e
<1>6. Ends(e, e)
  BY <1>1 DEF Ends
<1>7. Bounded(q) /\ Current(q)
  BY <1>3, <1>4, <1>5, <1>6 DEF Bounded, Current
<1>8. Rerender(p) = q
  BY DEF Rerender, q, e, b
<1> QED
  BY <1>4, <1>7, <1>8

\* Of a full list the oldest goes, and only then.
LEMMA NewestAreKept ==
  ASSUME NEW T, NEW s \in Seq(T), Len(s) <= MaxRecords, NEW r \in T
  PROVE  /\ Newest(Append(s, r)) = IF Len(s) = MaxRecords THEN Tail(Append(s, r)) ELSE Append(s, r)
         /\ Newest(Append(s, r)) \in Seq(T) /\ Len(Newest(Append(s, r))) <= MaxRecords
         /\ Len(Newest(Append(s, r))) < MaxRecords => Len(s) < MaxRecords
<1> DEFINE a == Append(s, r)
<1>1. a \in Seq(T) /\ a # <<>> /\ Len(a) = Len(s) + 1 /\ Len(s) \in Nat
  BY AppendProperties, LenProperties
<1>2. MaxRecords \in Nat
  BY LogPanelAssumption
<1> HIDE DEF a
<1>3. Newest(a) = IF Len(s) = MaxRecords THEN Tail(a) ELSE a
  BY <1>1, <1>2 DEF Newest
<1>4. Tail(a) \in Seq(T) /\ Len(Tail(a)) = Len(s)
  <2>1. Tail(a) \in Seq(T) /\ Len(Tail(a)) = Len(a) - 1
    BY <1>1, HeadTailProperties
  <2> QED
    BY <1>1, <2>1
<1>5. CASE Len(s) = MaxRecords
  <2>1. Newest(a) = Tail(a)
    BY <1>3, <1>5
  <2> QED
    BY <1>1, <1>2, <1>4, <1>5, <2>1 DEF a
<1>6. CASE Len(s) # MaxRecords
  <2>1. Newest(a) = a
    BY <1>3, <1>6
  <2> QED
    BY <1>1, <1>2, <1>6, <2>1 DEF a
<1> QED
  BY <1>5, <1>6

\* What the panel adds and subtracts for one record is what a redraw would come to.
LEMMA IncrementIsRedraw ==
  ASSUME NEW p \in PanelState, Bounded(p), Current(p), NEW r \in LogRecords
  PROVE  /\ Shown(p, r) \in PanelState /\ Bounded(Shown(p, r)) /\ Current(Shown(p, r))
         /\ Shown(p, r).records = Newest(Append(p.records, r))
         /\ Shown(p, r).enabled = p.enabled /\ Shown(p, r).paused = p.paused
<1> DEFINE bad  == [at : 1..MaxLogged, level : LogLevels \ p.enabled]
           s    == p.records
           all  == Append(s, r)
           new  == Newest(all)
           was  == Without(s, bad)
           more == Without(all, bad)
           left == Without(new, bad)
           out  == Evicted(p)
           text == Append(p.body, r)
<1>1. /\ s \in Seq(LogRecords) /\ Len(s) \in Nat /\ Len(s) <= MaxRecords
      /\ p.body \in Seq(LogRecords) /\ Len(p.body) \in Nat
      /\ p.count \in Nat /\ p.enabled \subseteq LogLevels /\ p.paused \in BOOLEAN
      /\ p.blocks \in 0..MaxRecords /\ p.blocks <= Len(p.body)
  BY LenProperties DEF PanelState, Bounded
<1>2. \A x \in LogRecords : x \in bad <=> x.level \notin p.enabled
  BY <1>1 DEF LogRecords
<1>3. MaxRecords \in Nat \ {0}
  BY LogPanelAssumption
<1>4. was \in Seq(LogRecords) /\ Len(was) \in Nat /\ p.count = Len(was) /\ Ends(was, p.body)
  <2>1. was = Enabled(p)
    BY DEF Enabled
  <2> QED
    BY <2>1, EnabledAreRecords, LenProperties DEF Current
<1> HIDE DEF bad, s
<1>5. /\ all \in Seq(LogRecords) /\ all # <<>> /\ Len(all) = Len(s) + 1
      /\ Len(s) = MaxRecords => Head(all) = s[1] /\ s[1] \in LogRecords
  <2>1. /\ all \in Seq(LogRecords) /\ all # <<>> /\ Len(all) = Len(s) + 1
    BY <1>1, AppendProperties
  <2>2. ASSUME Len(s) = MaxRecords
        PROVE  Head(all) = s[1] /\ s[1] \in LogRecords
    <3>1. s # <<>> /\ 1 \in 1..Len(s)
      BY <1>1, <1>3, <2>2, EmptySeq
    <3>2. Head(all) = Head(s) /\ Head(s) = s[1]
      BY <1>1, <3>1, HeadTailAppend
    <3> QED
      BY <1>1, <3>1, <3>2, ElementOfSeq
  <2> QED
    BY <2>1, <2>2
<1>6. /\ new = IF Len(s) = MaxRecords THEN Tail(all) ELSE all
      /\ new \in Seq(LogRecords) /\ Len(new) <= MaxRecords
  BY <1>1, NewestAreKept
<1>7. more = IF r \in bad THEN was ELSE Append(was, r)
  BY <1>1, WithoutAppend
<1>8. more \in Seq(LogRecords) /\ left \in Seq(LogRecords) /\ Len(left) <= Len(new)
  BY <1>5, <1>6, WithoutKeepsOrder, WithoutIsWithin
<1> HIDE DEF all, new, was, more, left
<1>9. (left = more /\ out = 0) \/ (more # <<>> /\ left = Tail(more) /\ out = 1)
  <2>1. CASE Len(s) = MaxRecords
    <3>1. /\ Head(all) \in bad => left = more
          /\ Head(all) \notin bad => more # <<>> /\ left = Tail(more)
      BY <1>5, <1>6, <2>1, WithoutTail DEF left, more
    <3>2. out = IF s[1] \in bad THEN 0 ELSE 1
      BY <1>2, <1>5, <2>1 DEF Evicted, s
    <3> QED
      BY <1>5, <2>1, <3>1, <3>2
  <2>2. CASE Len(s) # MaxRecords
    <3>1. out = 0
      BY <2>2 DEF Evicted, s
    <3>2. left = more
      BY <1>6, <2>2 DEF left, more
    <3> QED
      BY <3>1, <3>2
  <2> QED
    BY <2>1, <2>2
<1> HIDE DEF out
<1>10. Len(more) \in Nat /\ Len(left) \in Nat /\ Len(left) = Len(more) - out /\ out \in 0..1
  <2>1. more # <<>> => Len(Tail(more)) = Len(more) - 1
    BY <1>8, HeadTailProperties
  <2>2. Len(more) \in Nat /\ Len(left) \in Nat
    BY <1>8, LenProperties
  <2> QED
    BY <1>9, <2>1, <2>2
<1>11. \A b \in Seq(LogRecords) : Ends(more, b) => Ends(left, b)
  BY <1>8, <1>9, EndsShrink
<1>12. Len(left) <= MaxRecords
  BY <1>3, <1>6, <1>8, <1>10, LenProperties
<1>13. CASE r.level \in p.enabled
  <2> DEFINE kept == [[p EXCEPT !.records = new] EXCEPT !.count = @ - out + 1]
             q    == AppendLine(kept, r)
  <2>1. Shown(p, r) = q
    BY <1>13 DEF Shown, new, all, s, out
  <2>2. r \notin bad /\ more = Append(was, r) /\ Len(more) = Len(was) + 1
    BY <1>2, <1>4, <1>7, <1>13, AppendProperties
  <2>3. p.count - out + 1 = Len(left)
    BY <1>4, <1>10, <2>2
  <2>4. /\ text \in Seq(LogRecords) /\ Len(text) = Len(p.body) + 1 /\ Ends(more, text)
    BY <1>1, <1>4, <2>2, AppendProperties, EndsGrow
  <2> HIDE DEF text
  <2>5. Ends(left, text)
    BY <1>11, <2>4
  <2>6. /\ kept.records = new /\ kept.enabled = p.enabled /\ kept.paused = p.paused
        /\ kept.count = Len(left) /\ kept.body = p.body /\ kept.blocks = p.blocks
        /\ kept \in PanelState
    BY <1>1, <1>6, <1>10, <2>3 DEF PanelState
  <2> HIDE DEF kept
  <2>7. /\ q \in PanelState /\ q.records = new /\ q.enabled = p.enabled /\ q.paused = p.paused
        /\ q.count = Len(left) /\ Ends(left, q.body) /\ q.blocks <= Len(q.body)
    <3>1. CASE p.blocks < MaxRecords
      <4>1. q = [kept EXCEPT !.body = text, !.blocks = @ + 1]
        BY <2>6, <3>1 DEF AppendLine, text
      <4>2. p.blocks + 1 \in 0..MaxRecords /\ p.blocks + 1 <= Len(text)
        BY <1>1, <1>3, <2>4, <3>1
      <4> HIDE DEF q
      <4>3. /\ q \in PanelState /\ q.body = text /\ q.blocks = p.blocks + 1
            /\ q.records = kept.records /\ q.enabled = kept.enabled
            /\ q.paused = kept.paused /\ q.count = kept.count
        BY <2>4, <2>6, <4>1, <4>2 DEF PanelState
      <4> QED
        BY <2>5, <2>6, <4>2, <4>3
    <3>2. CASE ~ (p.blocks < MaxRecords)
      <4> DEFINE w == LastOf(text, MaxRecords)
      <4>1. q = [kept EXCEPT !.body = w]
        BY <2>6, <3>2 DEF AppendLine, LastOf, text
      <4>2. p.blocks = MaxRecords /\ MaxRecords <= Len(text)
        BY <1>1, <1>3, <2>4, <3>2
      <4>3. w \in Seq(LogRecords) /\ Len(w) = MaxRecords /\ Ends(left, w)
        BY <1>3, <1>8, <1>12, <2>4, <2>5, <4>2, EndsOfLast
      <4> HIDE DEF q, w
      <4>4. /\ q \in PanelState /\ q.body = w /\ q.blocks = p.blocks
            /\ q.records = kept.records /\ q.enabled = kept.enabled
            /\ q.paused = kept.paused /\ q.count = kept.count
        BY <2>6, <4>1, <4>3 DEF PanelState
      <4> QED
        BY <1>3, <2>6, <4>2, <4>3, <4>4
    <3> QED
      BY <3>1, <3>2
  <2> HIDE DEF q
  <2>8. Enabled(q) = left
    BY <2>7 DEF Enabled, left, bad
  <2>9. Bounded(q) /\ Current(q)
    BY <1>6, <2>7, <2>8 DEF Bounded, Current
  <2> QED
    BY <2>1, <2>7, <2>9 DEF new, all, s
<1>14. CASE r.level \notin p.enabled
  <2> DEFINE q == [[p EXCEPT !.records = new] EXCEPT !.count = @ - out]
  <2>1. Shown(p, r) = q
    BY <1>14 DEF Shown, new, all, s, out
  <2>2. more = was
    BY <1>2, <1>7, <1>14
  <2>3. p.count - out = Len(left) /\ Ends(left, p.body)
    BY <1>1, <1>4, <1>10, <1>11, <2>2
  <2>4. /\ q.records = new /\ q.enabled = p.enabled /\ q.paused = p.paused
        /\ q.count = Len(left) /\ q.body = p.body /\ q.blocks = p.blocks
        /\ q \in PanelState
    BY <1>1, <1>6, <1>10, <2>3 DEF PanelState
  <2> HIDE DEF q
  <2>5. Enabled(q) = left
    BY <2>4 DEF Enabled, left, bad
  <2>6. Bounded(q) /\ Current(q)
    BY <1>1, <1>6, <2>3, <2>4, <2>5 DEF Bounded, Current
  <2> QED
    BY <2>1, <2>4, <2>6 DEF new, all, s
<1> QED
  BY <1>13, <1>14

LEMMA LogPanelInitInv == LogPanelInit => LogPanelInv
<1> SUFFICES ASSUME LogPanelInit PROVE LogPanelInv
  OBVIOUS
<1> DEFINE none == <<>>
<1>1. none \in Seq(LogRecords) /\ Len(none) = 0
  BY EmptySeq
<1>2. MaxRecords \in Nat \ {0} /\ MaxLogged \in Nat
  BY LogPanelAssumption
<1>3. /\ display.records = none /\ display.body = none /\ display.count = 0
      /\ display.blocks = 0 /\ display.enabled = LogLevels \ {"DEBUG"} /\ display.paused = FALSE
  BY DEF LogPanelInit, PanelStart
<1>4. display \in PanelState
  BY <1>1, <1>2 DEF LogPanelInit, PanelStart, PanelState
<1>5. Bounded(display)
  BY <1>1, <1>2, <1>3 DEF Bounded
<1>6. Enabled(display) \in Seq(LogRecords) /\ Len(Enabled(display)) = 0
  <2>1. Enabled(display) \in Seq(LogRecords) /\ Len(Enabled(display)) <= 0
    BY <1>1, <1>3, <1>4, EnabledAreRecords
  <2>2. Len(Enabled(display)) \in Nat
    BY <2>1, LenProperties
  <2> QED
    BY <2>1, <2>2
<1>7. Current(display)
  BY <1>1, <1>3, <1>6 DEF Current, Ends
<1>8. Ends(none, none)
  BY <1>1 DEF Ends
<1>9. root \in BOOLEAN /\ DebugCostsOnlyWhenAsked
  <2>1. root = FALSE
    BY DEF LogPanelInit
  <2>2. "DEBUG" \notin display.enabled
    BY <1>3
  <2> QED
    BY <2>1, <2>2, Zenon DEF DebugCostsOnlyWhenAsked
<1> QED
  BY <1>1, <1>2, <1>3, <1>4, <1>5, <1>7, <1>8, <1>9 DEF LogPanelInit, LogPanelInv

LEMMA LogPanelStep == LogPanelInv /\ [LogPanelNext]_logging => LogPanelInv'
<1> SUFFICES ASSUME LogPanelInv, [LogPanelNext]_logging PROVE LogPanelInv'
  OBVIOUS
<1>1. /\ logged \in 0..MaxLogged /\ root \in BOOLEAN
      /\ posted \in Seq(LogRecords) /\ received \in Seq(LogRecords)
      /\ display \in PanelState /\ Bounded(display)
      /\ (~display.paused => Current(display))
      /\ Ends(display.records, received)
      /\ (Len(display.records) < MaxRecords => display.records = received)
      /\ (root <=> "DEBUG" \in display.enabled)
  BY DEF LogPanelInv, DebugCostsOnlyWhenAsked
<1>2. MaxRecords \in Nat \ {0} /\ MaxLogged \in Nat \ {0} /\ "DEBUG" \in LogLevels
  BY LogPanelAssumption
<1>3. /\ display.records \in Seq(LogRecords) /\ Len(display.records) \in Nat
      /\ Len(display.records) <= MaxRecords
      /\ display.enabled \subseteq LogLevels /\ display.paused \in BOOLEAN
  BY <1>1, LenProperties DEF PanelState, Bounded
<1>4. ASSUME NEW level \in LogLevels, Log(level)
      PROVE  LogPanelInv'
  <2>1. logged' \in 0..MaxLogged /\ logged' \in 1..MaxLogged
    BY <1>1, <1>2, <1>4 DEF Log, Made
  <2>2. [at |-> logged', level |-> level] \in LogRecords
    BY <2>1 DEF LogRecords
  <2>3. posted' \in Seq(LogRecords)
    BY <1>1, <1>4, <2>2, AppendProperties DEF Log
  <2>4. UNCHANGED <<root, display, received>>
    BY <1>4 DEF Log
  <2> QED
    BY <1>1, <2>1, <2>3, <2>4
       DEF LogPanelInv, DebugCostsOnlyWhenAsked, Bounded, Current, Ends, Enabled
<1>5. ASSUME NEW level \in LogLevels, ToggleLevel(level)
      PROVE  LogPanelInv'
  <2> DEFINE on == IF level \in display.enabled THEN display.enabled \ {level}
                   ELSE display.enabled \cup {level}
             p  == [display EXCEPT !.enabled = on]
             q  == Rerender(p)
  <2>1. on \subseteq LogLevels /\ (level # "DEBUG" => ("DEBUG" \in on <=> "DEBUG" \in display.enabled))
    BY <1>3
  <2>2. /\ display' = q /\ UNCHANGED <<logged, posted, received>>
        /\ root' = IF level = "DEBUG" THEN level \in on ELSE root
    BY <1>5 DEF ToggleLevel
  <2> HIDE DEF on
  <2>3. p \in PanelState /\ p.records = display.records /\ p.enabled = on
    BY <1>1, <2>1 DEF PanelState
  <2> HIDE DEF p
  <2>4. q \in PanelState /\ Bounded(q) /\ Current(q) /\ q.records = p.records /\ q.enabled = on
    BY <1>3, <2>3, RedrawIsCurrent
  <2> HIDE DEF q
  <2>5. root' \in BOOLEAN /\ (root' <=> "DEBUG" \in on)
    <3>1. CASE level = "DEBUG"
      <4>1. root' = ("DEBUG" \in on)
        BY <2>2, <3>1, Zenon
      <4>2. CASE "DEBUG" \in on
        <5>1. root' = TRUE
          BY <4>1, <4>2, Zenon
        <5> QED
          BY <4>2, <5>1, Zenon
      <4>3. CASE "DEBUG" \notin on
        <5>1. ("DEBUG" \in on) = FALSE
          BY <4>3
        <5>2. root' = FALSE
          BY <4>1, <5>1
        <5> QED
          BY <4>3, <5>2, Zenon
      <4> QED
        BY <4>2, <4>3, Zenon
    <3>2. CASE level # "DEBUG"
      BY <1>1, <2>1, <2>2, <3>2, Zenon
    <3> QED
      BY <3>1, <3>2
  <2>6. Bounded(display') /\ Current(display')
    BY <2>2, <2>4
  <2>7. Bounded(display)' /\ Current(display)'
    BY <2>6 DEF Bounded, Current, Enabled
  <2>8. /\ Ends(display.records, received)'
        /\ (Len(display.records) < MaxRecords => display.records = received)'
    BY <1>1, <2>2, <2>3, <2>4 DEF Ends
  <2>9. DebugCostsOnlyWhenAsked'
    BY <2>2, <2>4, <2>5 DEF DebugCostsOnlyWhenAsked
  <2> QED
    BY <1>1, <2>2, <2>4, <2>5, <2>7, <2>8, <2>9 DEF LogPanelInv
<1>6. ASSUME NEW r \in LogRecords, Arrives(r), posted' \in Seq(LogRecords),
             logged' \in 0..MaxLogged, root' = root
      PROVE  LogPanelInv'
  <2> DEFINE q == AppendRecord(display, r)
             new == Newest(Append(display.records, r))
  <2>1. /\ display' = q /\ received' = Append(received, r) /\ root' = root
        /\ logged' \in 0..MaxLogged
    BY <1>6 DEF Arrives
  <2>2. r \in LogRecords /\ posted' \in Seq(LogRecords)
    BY <1>6
  <2>3. /\ new = IF Len(display.records) = MaxRecords THEN Tail(Append(display.records, r))
                 ELSE Append(display.records, r)
        /\ new \in Seq(LogRecords) /\ Len(new) <= MaxRecords
        /\ Len(new) < MaxRecords => Len(display.records) < MaxRecords
    BY <1>3, <2>2, NewestAreKept
  <2>4. received' \in Seq(LogRecords) /\ Ends(Append(display.records, r), received')
    BY <1>1, <1>3, <2>1, <2>2, AppendProperties, EndsGrow
  <2>5. Ends(new, received')
    <3>1. Append(display.records, r) \in Seq(LogRecords) /\ Append(display.records, r) # <<>>
      BY <1>3, <2>2, AppendProperties
    <3>2. Ends(Tail(Append(display.records, r)), received')
      BY <2>4, <3>1, EndsShrink
    <3> QED
      BY <2>3, <2>4, <3>2
  <2> HIDE DEF new
  <2>6. Len(new) < MaxRecords => new = received'
    <3> SUFFICES ASSUME Len(new) < MaxRecords PROVE new = received'
      OBVIOUS
    <3>1. Len(display.records) < MaxRecords
      BY <2>3
    <3>2. new = Append(display.records, r) /\ display.records = received
      BY <1>1, <1>2, <1>3, <2>3, <3>1
    <3> QED
      BY <2>1, <3>2
  <2>7. /\ q \in PanelState /\ Bounded(q) /\ (~q.paused => Current(q))
        /\ q.records = new /\ q.enabled = display.enabled
    <3>1. CASE display.paused
      <4>1. q = [display EXCEPT !.records = new]
        BY <3>1 DEF AppendRecord, new
      <4> HIDE DEF q
      <4>2. /\ q \in PanelState /\ q.records = new /\ q.enabled = display.enabled /\ q.paused
            /\ q.blocks = display.blocks /\ q.body = display.body
        BY <1>1, <2>3, <3>1, <4>1 DEF PanelState
      <4> QED
        BY <1>1, <2>3, <4>2 DEF Bounded
    <3>2. CASE ~display.paused
      <4>1. q = Shown(display, r)
        BY <3>2 DEF AppendRecord
      <4>2. Current(display)
        BY <1>1, <3>2
      <4> QED
        BY <1>1, <2>2, <4>1, <4>2, IncrementIsRedraw DEF new
    <3> QED
      BY <3>1, <3>2
  <2> HIDE DEF q
  <2>8. Bounded(display') /\ (~display'.paused => Current(display'))
    BY <2>1, <2>7
  <2>9. Bounded(display)' /\ (~display.paused => Current(display))'
    BY <2>8 DEF Bounded, Current, Enabled
  <2>10. /\ Ends(display.records, received)'
         /\ (Len(display.records) < MaxRecords => display.records = received)'
    BY <2>1, <2>5, <2>6, <2>7 DEF Ends
  <2>11. DebugCostsOnlyWhenAsked'
    BY <1>1, <2>1, <2>7 DEF DebugCostsOnlyWhenAsked
  <2> QED
    BY <1>1, <2>1, <2>2, <2>4, <2>7, <2>9, <2>10, <2>11 DEF LogPanelInv
<1>7. ASSUME DeliverRecord
      PROVE  LogPanelInv'
  <2>1. /\ posted # <<>> /\ Arrives(Head(posted)) /\ posted' = Tail(posted)
        /\ UNCHANGED <<root, logged>>
    BY <1>7 DEF DeliverRecord
  <2>2. Head(posted) \in LogRecords /\ posted' \in Seq(LogRecords)
    BY <1>1, <2>1, HeadTailProperties
  <2> QED
    BY <1>1, <1>6, <2>1, <2>2
<1>8. ASSUME NEW level \in LogLevels, LogHere(level)
      PROVE  LogPanelInv'
  <2>1. logged' \in 0..MaxLogged /\ logged' \in 1..MaxLogged
    BY <1>1, <1>2, <1>8 DEF LogHere, Made
  <2>2. [at |-> logged', level |-> level] \in LogRecords
    BY <2>1 DEF LogRecords
  <2>3. Arrives([at |-> logged', level |-> level]) /\ UNCHANGED <<root, posted>>
    BY <1>8 DEF LogHere
  <2> QED
    BY <1>1, <1>6, <2>1, <2>2, <2>3
<1>9. ASSUME TogglePause
      PROVE  LogPanelInv'
  <2>1. UNCHANGED <<root, logged, posted, received>>
    BY <1>9 DEF TogglePause
  <2>2. /\ display' \in PanelState /\ Bounded(display')
        /\ (~display'.paused => Current(display'))
        /\ display'.records = display.records /\ display'.enabled = display.enabled
    <3>1. CASE display.paused
      <4> DEFINE p == [display EXCEPT !.paused = FALSE]
      <4>1. display' = Rerender(p)
        BY <1>9, <3>1 DEF TogglePause
      <4>2. p \in PanelState /\ p.records = display.records /\ p.enabled = display.enabled
        BY <1>1 DEF PanelState
      <4> HIDE DEF p
      <4> QED
        BY <1>3, <4>1, <4>2, RedrawIsCurrent
    <3>2. CASE ~display.paused
      <4>1. display' = [display EXCEPT !.paused = TRUE]
        BY <1>9, <3>2 DEF TogglePause
      <4>2. /\ display' \in PanelState /\ display'.paused /\ display'.records = display.records
            /\ display'.enabled = display.enabled /\ display'.body = display.body
            /\ display'.blocks = display.blocks
        BY <1>1, <4>1 DEF PanelState
      <4> QED
        BY <1>1, <4>2 DEF Bounded
    <3> QED
      BY <3>1, <3>2
  <2>3. Bounded(display)' /\ (~display.paused => Current(display))'
    BY <2>2 DEF Bounded, Current, Enabled
  <2>4. /\ Ends(display.records, received)'
        /\ (Len(display.records) < MaxRecords => display.records = received)'
    BY <1>1, <2>1, <2>2 DEF Ends
  <2>5. DebugCostsOnlyWhenAsked'
    BY <1>1, <2>1, <2>2 DEF DebugCostsOnlyWhenAsked
  <2> QED
    BY <1>1, <2>1, <2>2, <2>3, <2>4, <2>5 DEF LogPanelInv
<1>10. ASSUME ClearDisplay
      PROVE  LogPanelInv'
  <2> DEFINE none == <<>>
             q == [display EXCEPT !.records = none, !.count = 0, !.body = none, !.blocks = 0]
  <2>1. display' = q /\ received' = none /\ UNCHANGED <<root, logged, posted>>
    BY <1>10 DEF ClearDisplay
  <2>2. none \in Seq(LogRecords) /\ Len(none) = 0
    BY EmptySeq
  <2> HIDE DEF none
  <2>3. /\ q \in PanelState /\ q.records = none /\ q.body = none /\ q.count = 0 /\ q.blocks = 0
        /\ q.enabled = display.enabled
    <3>1. 0 \in 0..MaxRecords /\ 0 \in Nat
      BY <1>2
    <3> QED
      BY <1>1, <2>2, <3>1 DEF PanelState
  <2> HIDE DEF q
  <2>4. Len(Enabled(q)) = 0
    <3>1. Enabled(q) \in Seq(LogRecords) /\ Len(Enabled(q)) <= 0
      BY <2>2, <2>3, EnabledAreRecords
    <3>2. Len(Enabled(q)) \in Nat
      BY <3>1, LenProperties
    <3> QED
      BY <3>1, <3>2
  <2>5. Bounded(q) /\ Current(q)
    BY <1>2, <2>2, <2>3, <2>4 DEF Bounded, Current, Ends
  <2>6. Bounded(display') /\ Current(display')
    BY <2>1, <2>5
  <2>7. Bounded(display)' /\ Current(display)'
    BY <2>6 DEF Bounded, Current, Enabled
  <2>8. /\ Ends(display.records, received)' /\ display'.records = received'
    BY <2>1, <2>2, <2>3 DEF Ends
  <2>9. DebugCostsOnlyWhenAsked'
    BY <1>1, <2>1, <2>3 DEF DebugCostsOnlyWhenAsked
  <2> QED
    BY <1>1, <2>1, <2>2, <2>3, <2>7, <2>8, <2>9 DEF LogPanelInv
<1>11. CASE UNCHANGED logging
  <2>1. UNCHANGED <<root, logged, posted, display, received>>
    BY <1>11 DEF logging
  <2> QED
    BY <1>1, <2>1 DEF LogPanelInv, DebugCostsOnlyWhenAsked, Bounded, Current, Ends, Enabled
<1> QED
  BY <1>4, <1>5, <1>7, <1>8, <1>9, <1>10, <1>11 DEF LogPanelNext

LEMMA PanelTrueFromInv == LogPanelInv => LogPanelIsTrue
<1> SUFFICES ASSUME LogPanelInv PROVE LogPanelIsTrue
  OBVIOUS
<1>1. /\ logged \in 0..MaxLogged /\ root \in BOOLEAN /\ received \in Seq(LogRecords)
      /\ display \in PanelState /\ Bounded(display)
      /\ (~display.paused => Current(display))
      /\ Ends(display.records, received)
      /\ (Len(display.records) < MaxRecords => display.records = received)
      /\ DebugCostsOnlyWhenAsked
  BY DEF LogPanelInv
<1>2. /\ display.records \in Seq(LogRecords) /\ display.body \in Seq(LogRecords)
      /\ display.blocks \in 0..MaxRecords /\ display.enabled \subseteq LogLevels
      /\ display.count \in Nat
  BY <1>1 DEF PanelState
<1>3. LogPanelTypeOK
  BY <1>1, <1>2 DEF LogPanelTypeOK, Bounded
<1>4. NothingIsMissed
  BY <1>1, <1>2, EndIsSuffix DEF NothingIsMissed
<1>5. ViewIsCurrent
  BY <1>1, <1>2, EnabledAreRecords, EndIsSuffix DEF ViewIsCurrent, Current
<1> QED
  BY <1>1, <1>3, <1>4, <1>5 DEF LogPanelIsTrue

\* Whatever is logged, paused, filtered and cleared, and however the signals of other threads
\* come in between: the panel keeps the newest records, its incremental count and text are
\* what a redraw would show, and DEBUG costs only while it is shown (log_panel.py).
THEOREM PanelAgrees == LogPanelSpec => []LogPanelIsTrue
BY LogPanelInitInv, LogPanelStep, PanelTrueFromInv, PTL DEF LogPanelSpec

-----------------------------------------------------------------------------
(* The window: its parts take turns, none disturbs another. *)

\* In the window as a whole, whatever its screens do in between: an operation is over when
\* the window closes, the drain stops each run it waits for, the wizard is honest,
\* the viewer and the analysis screen show what is open, and the log at the bottom what was
\* logged (GuiMC over gui/).
THEOREM WindowHolds ==
  GuiSpec => [](/\ ShownWorkIsOver /\ DrainStopsTheRun /\ WizardIsHonest /\ ResultsAreShown
                /\ ScreenIsTrue /\ LogPanelIsTrue)
<1>1. GuiInit => Init /\ WizardInit /\ ResultsInit /\ ScreenInit /\ LogPanelInit
  BY DEF GuiInit
<1>2. [GuiNext]_window => /\ [Next]_vars /\ [WizardNext]_wizard /\ [ResultsNext]_results
                         /\ [ScreenNext]_screen /\ [LogPanelNext]_logging
  BY DEF GuiNext, Rest, window, shutdown, vars, wizard, results, screen, logging
<1>3. GuiSpec => Spec /\ WizardSpec /\ ResultsSpec /\ ScreenSpec /\ LogPanelSpec
  BY <1>1, <1>2, PTL DEF GuiSpec, Spec, WizardSpec, ResultsSpec, ScreenSpec, LogPanelSpec
<1> QED
  BY <1>3, ShownWorkOver, DrainReachesTheRun, WizardAgrees, ViewerAgrees, ScreenAgrees,
     PanelAgrees, PTL
=============================================================================
