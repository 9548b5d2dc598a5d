---------------------------- MODULE GuiShutdown ----------------------------
(***************************************************************************)
(* Closing the window while operations run: the ShutdownCoordinator of     *)
(* gui/shutdown.py, the screens it questions (gui/views/screen_base.py)    *)
(* and the threads their operations run on (gui/workers/base.py).          *)
(*                                                                         *)
(* Every action but WorkEnds and ThreadEnds is one event handled by the    *)
(* GUI thread.  An open dialog is window-modal, so no button of a screen   *)
(* can be pressed under it; Ctrl+C and a second close only raise it.       *)
(***************************************************************************)
EXTENDS Naturals

CONSTANTS
  Screens,   \* the widgets of the shell's stack
  Hosts,     \* the OperationScreens, which answer is_busy for their _thread
  Stoppable, \* the hosts whose controller registered a cancel handler
  Pickers,   \* the hosts with a DevicePicker
  Hiding,    \* the pickers hidden while their screen's operation runs
  MaxTasks   \* bound: workers started in a session

ASSUME GuiShutdownAssumption ==
  /\ Screens # {} /\ Hosts \subseteq Screens
  /\ Stoppable \subseteq Hosts /\ Pickers \subseteq Hosts
  /\ Hiding \subseteq Pickers
  /\ MaxTasks \in Nat

Tasks == 1..MaxTasks
NoTask == 0

\* A worker computes, has emitted its outcome, or has been told to quit.
Stages == {"unused", "working", "reported", "leaving", "gone"}

VARIABLES
  stage,     \* of each worker and its thread
  host,      \* the screen that started it
  kind,      \* "run", the screen's operation, or "scan" for devices
  toldTo,    \* history: the task whose callbacks received its outcome
  token,     \* its CancelToken
  latest,    \* of each screen, whose thread and callbacks it holds
  current,   \* of each screen, the run whose token its controller holds
  startable, \* is the screen's start button live?
  device,    \* does its picker have a device selected?
  phase,     \* of the coordinator
  dialog,    \* the QMessageBox that is open
  polling,   \* is the drain timer running?
  watched,   \* the screens whose busyChanged is connected to _recheck
  closed     \* the window has closed, and with it the process

workers == <<stage, host, kind, toldTo, token>>
screens == <<latest, current, startable, device>>
coordinator == <<phase, dialog, polling, watched, closed>>
vars == <<workers, screens, coordinator>>

TypeOK ==
  /\ stage \in [Tasks -> Stages]
  /\ host \in [Tasks -> Screens]
  /\ kind \in [Tasks -> {"run", "scan"}]
  /\ toldTo \in [Tasks -> Tasks \cup {NoTask}]
  /\ token \in [Tasks -> BOOLEAN]
  /\ latest \in [Screens -> Tasks \cup {NoTask}]
  /\ current \in [Screens -> Tasks \cup {NoTask}]
  /\ startable \in [Screens -> BOOLEAN]
  /\ device \in [Screens -> BOOLEAN]
  /\ phase \in {"idle", "asking", "draining"}
  /\ dialog \in {"none", "quit?", "stopping"}
  /\ polling \in BOOLEAN
  /\ watched \subseteq Screens
  /\ closed \in BOOLEAN

\* thread.isRunning(): until quit() has been served and the thread returns.
Alive(t) == stage[t] \in {"working", "reported", "leaving"}

IsBusy(s) == s \in Hosts /\ latest[s] # NoTask /\ Alive(latest[s])
BusyScreens == {s \in Screens : IsBusy(s)}

Init ==
  /\ stage = [t \in Tasks |-> "unused"]
  /\ host = [t \in Tasks |-> CHOOSE s \in Screens : TRUE]
  /\ kind = [t \in Tasks |-> "run"]
  /\ toldTo = [t \in Tasks |-> NoTask]
  /\ token = [t \in Tasks |-> FALSE]
  /\ latest = [s \in Screens |-> NoTask]
  /\ current = [s \in Screens |-> NoTask]
  /\ startable = [s \in Screens |-> TRUE]
  /\ device = [s \in Screens |-> FALSE]
  /\ phase = "idle" /\ dialog = "none" /\ polling = FALSE
  /\ watched = {} /\ closed = FALSE

-----------------------------------------------------------------------------
(* The analyst at a screen *)

\* run_task / start_worker: a fresh thread, whose callbacks and handle replace
\* those of the task before it.
Launch(s, t, k) ==
  /\ stage[t] = "unused"
  /\ \A u \in Tasks : u < t => stage[u] # "unused"
  /\ stage' = [stage EXCEPT ![t] = "working"]
  /\ host' = [host EXCEPT ![t] = s]
  /\ kind' = [kind EXCEPT ![t] = k]
  /\ latest' = [latest EXCEPT ![s] = t]
  /\ UNCHANGED <<toldTo, token, coordinator>>

\* Mutant of StartRun: no fresh token per run.
StartRunOldToken(s) ==
  /\ ~closed /\ dialog = "none"
  /\ startable[s]
  /\ s \in Pickers => device[s]
  /\ \E t \in Tasks : Launch(s, t, "run")
  /\ startable' = [startable EXCEPT ![s] = FALSE]
  /\ UNCHANGED <<device, current>>

\* start(): refused without a device; the button is off until a callback of
\* the run turns it on again.
StartRun(s) ==
  /\ ~closed /\ dialog = "none"
  /\ startable[s]
  /\ s \in Pickers => device[s]
  /\ \E t \in Tasks :
       Launch(s, t, "run") /\ current' = [current EXCEPT ![s] = t]
  /\ startable' = [startable EXCEPT ![s] = FALSE]
  /\ UNCHANGED device

\* rescan(): the picker's button is never off; the Identify wizard hides it.
Rescan(s) ==
  /\ ~closed /\ dialog = "none"
  /\ s \in Hiding => startable[s]
  /\ \E t \in Tasks : Launch(s, t, "scan")
  /\ device' = [device EXCEPT ![s] = FALSE]
  /\ UNCHANGED <<current, startable>>

\* The Cancel button of a running screen.
PressCancel(s) ==
  /\ ~closed /\ dialog = "none"
  /\ ~startable[s] /\ current[s] # NoTask
  /\ token' = [token EXCEPT ![current[s]] = TRUE]
  /\ UNCHANGED <<stage, host, kind, toldTo, screens, coordinator>>

-----------------------------------------------------------------------------
(* The worker threads *)

\* Worker.run emits finished, failed or cancelled.
WorkEnds(t) ==
  /\ ~closed
  /\ stage[t] = "working"
  /\ stage' = [stage EXCEPT ![t] = "reported"]
  /\ UNCHANGED <<host, kind, toldTo, token, screens, coordinator>>

\* The thread's event loop returns after quit().
ThreadEnds(t) ==
  /\ ~closed
  /\ stage[t] = "leaving"
  /\ stage' = [stage EXCEPT ![t] = "gone"]
  /\ UNCHANGED <<host, kind, toldTo, token, screens, coordinator>>

-----------------------------------------------------------------------------
(* What the event loop delivers *)

\* _recheck's last lines; closeEvent is re-entered and, the latch being set,
\* accepts.
CloseWindow ==
  /\ phase' = "idle" /\ dialog' = "none" /\ polling' = FALSE
  /\ closed' = TRUE
  /\ UNCHANGED watched

\* The outcome of t reaches the callbacks of o.  A run's callbacks turn the
\* start button on, but Identify's on_done fails on a scan's list; a scan's
\* fill the picker, and empty it when what arrives is no list of devices.
Callback(s, t, o) ==
  IF kind[o] = "run"
  THEN /\ \E b \in IF kind[t] = "scan" /\ s \in Hiding THEN BOOLEAN ELSE {TRUE} :
            startable' = [startable EXCEPT ![s] = @ \/ b]
       /\ UNCHANGED device
  ELSE /\ \E b \in IF kind[t] = "scan" THEN BOOLEAN ELSE {FALSE} :
            device' = [device EXCEPT ![s] = b]
       /\ UNCHANGED startable

\* _handle_finished, _handle_failed, _handle_cancelled: busyChanged(False),
\* which runs _recheck when the coordinator watches, then the callback the
\* screen holds now.  A screen that is no host wired its own callbacks.
Deliver(t) ==
  /\ ~closed
  /\ stage[t] = "reported" /\ toldTo[t] = NoTask
  /\ LET s == host[t]
         o == IF s \in Hosts THEN latest[s] ELSE t
     IN  /\ toldTo' = [toldTo EXCEPT ![t] = o]
         /\ Callback(s, t, o)
         /\ IF s \in watched /\ phase = "draining" /\ BusyScreens = {}
            THEN CloseWindow
            ELSE UNCHANGED coordinator
  /\ UNCHANGED <<stage, host, kind, token, latest, current>>

\* Mutant of Quit: quit was connected before the screen's handler.
QuitFirst(t) ==
  /\ ~closed
  /\ stage[t] = "reported"
  /\ stage' = [stage EXCEPT ![t] = "leaving"]
  /\ UNCHANGED <<host, kind, toldTo, token, screens, coordinator>>

\* thread.quit, connected to the same signal after the screen's handler.
Quit(t) ==
  /\ ~closed
  /\ stage[t] = "reported" /\ toldTo[t] # NoTask
  /\ stage' = [stage EXCEPT ![t] = "leaving"]
  /\ UNCHANGED <<host, kind, toldTo, token, screens, coordinator>>

-----------------------------------------------------------------------------
(* The coordinator *)

\* closeEvent, or Ctrl+C through request_shutdown: close at once or ask.
RequestClose ==
  /\ ~closed /\ phase = "idle"
  /\ IF BusyScreens = {}
     THEN closed' = TRUE /\ UNCHANGED <<phase, dialog>>
     ELSE phase' = "asking" /\ dialog' = "quit?" /\ UNCHANGED closed
  /\ UNCHANGED <<polling, watched, workers, screens>>

\* _on_answer: "Keep running", or the dialog dismissed.
KeepRunning ==
  /\ ~closed /\ phase = "asking"
  /\ phase' = "idle" /\ dialog' = "none"
  /\ UNCHANGED <<polling, watched, closed, workers, screens>>

\* _begin_drain: every busy screen is asked to cancel and watched.  A thread
\* that ends while this runs is noticed by the poll, with the same effect.
StopAndQuit ==
  /\ ~closed /\ phase = "asking"
  /\ token' = [t \in Tasks |->
                 token[t] \/ \E s \in BusyScreens \cap Stoppable : current[s] = t]
  /\ IF BusyScreens = {}
     THEN CloseWindow
     ELSE /\ phase' = "draining" /\ dialog' = "stopping" /\ polling' = TRUE
          /\ watched' = watched \cup BusyScreens
          /\ UNCHANGED closed
  /\ UNCHANGED <<stage, host, kind, toldTo, screens>>

\* Mutant of Poll: no backstop timer.
NoPoll == FALSE /\ UNCHANGED vars

\* The drain timer runs _recheck.
Poll ==
  /\ ~closed /\ phase = "draining" /\ polling
  /\ BusyScreens = {}
  /\ CloseWindow
  /\ UNCHANGED <<workers, screens>>

Over == closed /\ UNCHANGED vars

Next ==
  \/ \E s \in Screens : StartRun(s)
  \/ \E s \in Pickers : Rescan(s)
  \/ \E s \in Stoppable : PressCancel(s)
  \/ \E t \in Tasks : WorkEnds(t) \/ ThreadEnds(t) \/ Deliver(t) \/ Quit(t)
  \/ RequestClose \/ KeepRunning \/ StopAndQuit \/ Poll
  \/ Over

Spec == Init /\ [][Next]_vars

\* A run stops when it is cancelled; a scan, or an operation that nothing can
\* cancel, ends on its own.  No other run is assumed ever to end.
WorkStops(t) ==
  /\ token[t] \/ kind[t] = "scan" \/ host[t] \notin Stoppable
  /\ WorkEnds(t)

\* The event loop serves what is posted to it, and threads are scheduled.
Fairness ==
  /\ WF_vars(Poll)
  /\ \A t \in Tasks :
       WF_vars(WorkStops(t)) /\ WF_vars(Deliver(t))
         /\ WF_vars(Quit(t)) /\ WF_vars(ThreadEnds(t))

FairSpec == Spec /\ Fairness

-----------------------------------------------------------------------------
(* What must hold *)

\* The window never closes on the operation a screen shows: its thread has
\* returned and its outcome was delivered first, whichever of the close
\* button, the poll and busyChanged closes it (gui/shutdown.py, may_close).
ShownWorkIsOver ==
  closed => \A s \in Hosts : latest[s] # NoTask =>
              stage[latest[s]] = "gone" /\ toldTo[latest[s]] # NoTask

\* While the drain dialog is up, the newest run of every screen still busy has
\* its own token set, also where a device scan has taken its place as the
\* screen's thread: what the analyst was told is stopping is being stopped.
DrainStopsTheRun ==
  phase = "draining" =>
    \A s \in Stoppable \cap BusyScreens, t \in Tasks :
      /\ stage[t] = "working" /\ host[t] = s /\ kind[t] = "run"
      /\ \A u \in Tasks : u > t => stage[u] = "unused" \/ host[u] # s \/ kind[u] # "run"
      => token[t]

\* A confirmed quit closes the window, although the last busyChanged(False)
\* arrives while the thread still runs (gui/shutdown.py, _DRAIN_POLL_MS).
QuitCompletes == phase = "draining" ~> closed

(* What the repository says, and the code does not do *)

\* "an in-flight operation must be stopped before the window goes"
\* (gui/views/shell.py, closeEvent).
NothingRunsAtClose == closed => \A t \in Tasks : stage[t] # "working"

=============================================================================
