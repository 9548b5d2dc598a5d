------------------------------- MODULE Wizard -------------------------------
(***************************************************************************)
(* The Identify wizard: IdentifyController (gui/controllers/identify.py)   *)
(* and the panels of gui/views/screens_identify.py.  A run is a worker     *)
(* thread that stops twice for the operator.  It speaks to the screen      *)
(* through queued signals and is answered through two threading.Events and *)
(* a token, attributes of the controller which it reads only as it enters  *)
(* or leaves a pause.  Scans for devices are threads of the same screen:   *)
(* whatever ends, the callbacks of the newest job hear of it.              *)
(***************************************************************************)
EXTENDS Naturals, Sequences

CONSTANTS
  StillSeconds,  \* the choices of the Still duration combo
  MaxJobs        \* bound: runs and scans started in a session

ASSUME WizardAssumption == StillSeconds \subseteq Nat /\ StillSeconds # {} /\ MaxJobs \in Nat

\* Job 0 stands for what __init__ made: events and a token that no worker waits for.
Jobs == 0..MaxJobs

VARIABLES
  jobs,       \* how many were started; the newest has the screen's callbacks and thread
  latestRun,  \* the run whose events and token the controller holds
  jobKind,    \* of each job: "run", or "scan" for devices
  step,       \* where its worker is; "none" once its outcome was delivered
  remaining,  \* seconds left of its countdown
  hears,      \* in a pause: the run whose event it waits for
  collected,  \* the archives it left on disk
  skip, continue, stopToken,  \* the two events and the CancelToken each run was given
  signals,    \* emitted by the workers, not yet delivered by Qt
  panel,      \* the state the screen shows
  summary,    \* is the DONE section filled, with its "New run" button?
  picked,     \* has the picker a device selected?
  onTab,      \* is the wizard's tab in front?
  leaving,    \* the window drains: its dialog is over every button
  abort,      \* steps of abort() the GUI thread has yet to take
  asked,      \* history: abort() was entered in this run
  promised,   \* history: and before its action pause was over
  misled      \* history: a run's on_failed was called for the failure of a scan

threads == <<step, remaining, hears, collected, signals>>
wakers  == <<skip, continue, stopToken>>
started == <<jobs, latestRun, jobKind>>
shown   == <<panel, summary, picked, onTab, leaving>>
history == <<asked, promised, misled>>
wizard  == <<threads, wakers, started, shown, abort, history>>

Pauses == {"still", "waiting"}
\* Up to the end of the pause for the action.
Early == {"connected", "ticking", "ticked", "checkStill", "baseline", "announced"} \cup Pauses
WizardSteps == {"none", "checkWait", "action", "extract", "diff", "scanning", "reported"} \cup Early
Outcomes == {"finished", "cancelled", "failed", "devices"}
SignalWords    == {"still:", "phase", "wait"} \cup Outcomes
Panels   == {"SETUP", "STILL", "RUNNING", "WAITING", "DONE"}

WizardTypeOK ==
  /\ jobs \in Jobs /\ latestRun \in 0..jobs /\ jobKind \in [Jobs -> {"run", "scan"}]
  /\ step \in [Jobs -> WizardSteps] /\ remaining \in [Jobs -> Nat] /\ hears \in [Jobs -> Jobs]
  /\ collected \in [Jobs -> SUBSET {"baseline", "action"}]
  /\ {skip, continue, stopToken, asked, promised} \subseteq [Jobs -> BOOLEAN]
  /\ signals \in Seq([job : Jobs, word : SignalWords])
  /\ panel \in Panels /\ {summary, picked, onTab, leaving, misled} \subseteq BOOLEAN
  /\ abort \in Seq({"cancel", "skip", "continue"})

Never == [t \in Jobs |-> FALSE]

WizardInit ==
  /\ jobs = 0 /\ latestRun = 0 /\ jobKind = [t \in Jobs |-> "run"]
  /\ step = [t \in Jobs |-> "none"] /\ remaining = [t \in Jobs |-> 0]
  /\ hears = [t \in Jobs |-> 0] /\ collected = [t \in Jobs |-> {}]
  /\ skip = Never /\ continue = Never /\ stopToken = Never
  /\ signals = <<>> /\ panel = "SETUP" /\ summary = FALSE /\ picked = FALSE
  /\ onTab = TRUE /\ leaving = FALSE
  /\ abort = <<>> /\ asked = Never /\ promised = Never /\ misled = FALSE

-----------------------------------------------------------------------------
(* The worker threads *)

\* The worker of t goes from one step to another, without a word or emitting w.
Moves(t, from, to) ==
  /\ step[t] = from /\ step' = [step EXCEPT ![t] = to]
  /\ UNCHANGED <<wakers, started, shown, abort, history>>
Says(t, w) == signals' = Append(signals, [job |-> t, word |-> w])

\* Worker.run: what the workflow raised or returned.
Reports(t, from, outcome) == Moves(t, from, "reported") /\ Says(t, outcome)

\* Anything the workflow does but wait may fail, and so may the listing of devices.
Fail(t) ==
  /\ step[t] \in {"connected", "baseline", "action", "extract", "diff", "scanning"}
  /\ Reports(t, step[t], "failed")
  /\ UNCHANGED <<remaining, hears, collected>>

ScanEnds(t) ==
  /\ Reports(t, "scanning", "devices")
  /\ UNCHANGED <<remaining, hears, collected>>

\* The phases up to the first pause; none is taken when the combo says 0 seconds.
WorkerConnects(t) ==
  /\ Moves(t, "connected", IF remaining[t] > 0 THEN "ticking" ELSE "baseline") /\ Says(t, "phase")
  /\ UNCHANGED <<remaining, hears, collected>>

\* wait_still: a tick each second until the range is used up ...
StillTick(t) ==
  /\ \/ remaining[t] > 0 /\ Moves(t, "ticking", "ticked") /\ Says(t, "still:")
     \/ remaining[t] = 0 /\ Moves(t, "ticking", "checkStill") /\ UNCHANGED signals
  /\ UNCHANGED <<remaining, hears, collected>>

\* ... and after each a wait of a second for the skip event the controller holds then ...
StillWaits(t) ==
  /\ Moves(t, "ticked", "still") /\ UNCHANGED signals
  /\ hears' = [hears EXCEPT ![t] = latestRun] /\ UNCHANGED <<remaining, collected>>

\* ... which the event interrupts.
StillEnds(t) ==
  /\ Moves(t, "still", IF skip[hears[t]] THEN "checkStill" ELSE "ticking") /\ UNCHANGED signals
  /\ remaining' = [remaining EXCEPT ![t] = @ - 1] /\ UNCHANGED <<hears, collected>>

\* self._cancel.check() on the way out of a pause, on the token the controller holds then.
Checks(t, from, to) ==
  /\ \/ stopToken[latestRun] /\ Reports(t, from, "cancelled")
     \/ ~stopToken[latestRun] /\ Moves(t, from, to) /\ Says(t, "phase")
  /\ UNCHANGED <<remaining, hears, collected>>

CheckStill(t) == Checks(t, "checkStill", "baseline")

\* The first archive, then the phase that announces the second pause.
WorkerCollectsBaseline(t) ==
  /\ Moves(t, "baseline", "announced") /\ Says(t, "wait")
  /\ collected' = [collected EXCEPT ![t] = @ \cup {"baseline"}] /\ UNCHANGED <<remaining, hears>>

\* wait_for_action waits for the continue event the controller holds then ...
ActionWaits(t) ==
  /\ Moves(t, "announced", "waiting") /\ UNCHANGED signals
  /\ hears' = [hears EXCEPT ![t] = latestRun] /\ UNCHANGED <<remaining, collected>>

\* ... and a Continue set before is not lost: an event stays set.
ActionEnds(t) ==
  /\ Moves(t, "waiting", "checkWait") /\ UNCHANGED signals /\ continue[hears[t]]
  /\ UNCHANGED <<remaining, hears, collected>>

\* Nothing reads the token after this check.
CheckWait(t) == Checks(t, "checkWait", "action")

WorkerCollectsAction(t) ==
  /\ Moves(t, "action", "extract") /\ Says(t, "phase")
  /\ collected' = [collected EXCEPT ![t] = @ \cup {"action"}] /\ UNCHANGED <<remaining, hears>>

\* Both extractions and the annotation, which take no token ...
ExtractBoth(t) ==
  /\ Moves(t, "extract", "diff") /\ Says(t, "phase")
  /\ UNCHANGED <<remaining, hears, collected>>

\* ... and the diff.
Diff(t) ==
  /\ Reports(t, "diff", "finished")
  /\ UNCHANGED <<remaining, hears, collected>>

-----------------------------------------------------------------------------
(* The GUI thread: one handler at a time, none during abort() *)

Free == abort = <<>>
Pressed == Free /\ onTab /\ ~leaving

\* run_task: a fresh thread, whose callbacks and handle replace those of the job before it.
RunTask(k, first) ==
  /\ Pressed /\ panel = "SETUP" /\ jobs < MaxJobs
  /\ jobs' = jobs + 1 /\ jobKind' = [jobKind EXCEPT ![jobs + 1] = k]
  /\ step' = [step EXCEPT ![jobs + 1] = first]

\* start(): the button is on the setup panel, a device is picked, the events and token are new.
StartWizard(seconds) ==
  /\ picked /\ RunTask("run", "connected") /\ latestRun' = jobs + 1
  /\ remaining' = [remaining EXCEPT ![jobs + 1] = seconds]
  /\ panel' = "RUNNING"
  /\ UNCHANGED <<hears, collected, signals, wakers, summary, picked, onTab, leaving, abort,
                 history>>

\* rescan(): the picker's button is on the setup panel and never off.
RescanDevices ==
  /\ RunTask("scan", "scanning") /\ picked' = FALSE
  /\ UNCHANGED <<latestRun, remaining, hears, collected, signals, wakers, panel, summary, onTab,
                 leaving, abort, history>>

PressSkip ==
  /\ Pressed /\ panel = "STILL" /\ ~skip[latestRun] /\ skip' = [skip EXCEPT ![latestRun] = TRUE]
  /\ UNCHANGED <<continue, stopToken, threads, started, shown, abort, history>>

PressContinue ==
  /\ Pressed /\ panel = "WAITING" /\ ~continue[latestRun]
  /\ continue' = [continue EXCEPT ![latestRun] = TRUE]
  /\ UNCHANGED <<skip, stopToken, threads, started, shown, abort, history>>

\* Mutant of AbortOrder: both pauses are woken before the token is set.
WakeFirst == <<"skip", "continue", "cancel">>

\* The order of abort()'s three calls.
AbortOrder == <<"cancel", "skip", "continue">>

EnterAbort ==
  /\ Free /\ ~asked[latestRun] /\ abort' = AbortOrder
  /\ asked' = [asked EXCEPT ![latestRun] = TRUE]
  /\ promised' = [promised EXCEPT ![latestRun] = ~continue[latestRun] /\ step[latestRun] \in Early]
  /\ UNCHANGED <<misled, panel, summary, picked, onTab, wakers, started, threads>>

\* The Abort button of either pause.
PressAbort == Pressed /\ panel \in {"STILL", "WAITING"} /\ EnterAbort /\ UNCHANGED leaving

\* request_cancel of the shutdown's drain, while the newest job's thread runs.
DrainAborts == step[jobs] # "none" /\ EnterAbort /\ leaving' = TRUE

AbortStep ==
  /\ ~Free /\ abort' = Tail(abort)
  /\ stopToken' = [stopToken EXCEPT ![latestRun] = @ \/ Head(abort) = "cancel"]
  /\ skip' = [skip EXCEPT ![latestRun] = @ \/ Head(abort) = "skip"]
  /\ continue' = [continue EXCEPT ![latestRun] = @ \/ Head(abort) = "continue"]
  /\ UNCHANGED <<history, shown, started, threads>>

\* set_state: the setup panel clears the DONE section, which only DONE fills.
SetState(p) ==
  /\ panel' = p
  /\ summary' = IF p = "SETUP" THEN FALSE ELSE p = "DONE" \/ summary

\* _on_progress.
Progress(word) ==
  /\ SetState(CASE word = "still:" -> "STILL"
                [] word = "wait" -> "WAITING"
                [] OTHER -> IF panel = "WAITING" /\ onTab THEN "RUNNING" ELSE panel)
  /\ UNCHANGED <<picked, misled>>

\* on_done, which has no use for a list of devices; on_failed and on_cancelled.
ToRun(t, outcome) ==
  /\ IF outcome = "devices" THEN UNCHANGED <<panel, summary>>
     ELSE SetState(IF outcome = "finished" THEN "DONE" ELSE "SETUP")
  /\ misled' = (misled \/ (jobKind[t] = "scan" /\ outcome = "failed"))
  /\ UNCHANGED picked

\* on_devices, which has no use for a run's result, and on_scan_failed, also when cancelled.
ToScan(outcome) ==
  /\ \E found \in IF outcome = "devices" THEN BOOLEAN ELSE {FALSE} : picked' = found
  /\ UNCHANGED <<panel, summary, misled>>

\* Qt delivers the queued signals in the order they were emitted: progress to the view,
\* an outcome to the callbacks of the newest job.
DeliverSignal ==
  /\ Free /\ signals # <<>> /\ signals' = Tail(signals)
  /\ LET s == Head(signals) IN
     /\ IF s.word \in Outcomes
        THEN step' = [step EXCEPT ![s.job] = "none"]
        ELSE UNCHANGED step
     /\ CASE s.word \notin Outcomes -> Progress(s.word)
          [] s.word \in Outcomes /\ jobKind[jobs] = "run" -> ToRun(s.job, s.word)
          [] OTHER -> ToScan(s.word)
  /\ UNCHANGED <<remaining, hears, collected, wakers, started, onTab, leaving, abort, asked,
                 promised>>

\* The "New run" button of the results.
NewRun == /\ Pressed /\ summary /\ SetState("SETUP")
          /\ UNCHANGED <<picked, onTab, leaving, abort, history, started, wakers, threads>>

\* Another screen of the shell is brought to the front; isVisible() is then false.
SwitchTab == /\ Free /\ ~leaving /\ onTab' = ~onTab
             /\ UNCHANGED <<panel, summary, picked, leaving, abort, history, started, wakers,
                            threads>>

AnyWorker(t) ==
  \/ Fail(t) \/ ScanEnds(t) \/ WorkerConnects(t) \/ StillTick(t) \/ StillWaits(t) \/ StillEnds(t)
  \/ CheckStill(t) \/ WorkerCollectsBaseline(t) \/ ActionWaits(t) \/ ActionEnds(t) \/ CheckWait(t)
  \/ WorkerCollectsAction(t) \/ ExtractBoth(t) \/ Diff(t)

WizardNext ==
  \/ \E t \in Jobs : AnyWorker(t)
  \/ \E s \in StillSeconds : StartWizard(s)
  \/ RescanDevices \/ PressSkip \/ PressContinue \/ PressAbort \/ DrainAborts \/ AbortStep
  \/ DeliverSignal \/ NewRun \/ SwitchTab

WizardSpec == WizardInit /\ [][WizardNext]_wizard

-----------------------------------------------------------------------------
RunAlive(t) == jobKind[t] = "run" /\ step[t] # "none"

\* An abort entered before the action pause of a run was over never lets it reach the
\* second collection, whichever pause it found the worker in.
Honoured(t) ==
  promised[t] => "action" \notin collected[t] /\ step[t] \notin {"action", "extract", "diff"}

\* A run ends as cancelled only when it was itself aborted.
OnlyAbortCancels ==
  \A i \in DOMAIN signals : signals[i].word = "cancelled" => asked[signals[i].job]

\* A worker blocked in a pause, every signal delivered, faces a screen whose panel has
\* the button that wakes it, and the button sets the event it waits for.
PauseIsAnswerable ==
  signals = <<>> =>
    \A t \in Jobs : /\ step[t] = "still" => panel = "STILL" /\ hears[t] = latestRun
                    /\ step[t] = "waiting" => panel = "WAITING" /\ hears[t] = latestRun

\* The Start button is out of reach until the last word of the run was delivered.
OneRunAtATime ==
  /\ panel \in {"SETUP", "DONE"} <=> ~\E t \in Jobs : RunAlive(t)
  /\ \A t \in Jobs : RunAlive(t) => t = latestRun

\* "whichever the worker is currently blocked on unblocks, reaches its cancel.check(), and
\* raises OperationCancelled" (identify.py:190-192): of every run that was aborted.
AbortIsHonoured == \A t \in Jobs : Honoured(t)

\* The wizard's threads agree (identify.py:161-218, screens_identify.py:336-359): whatever
\* runs and scans overlap, an abort of the newest run before its second collection
\* prevents it.  And until the failure of a scan was told to a run's callbacks: so does the
\* abort of any run, no run inherits the abort of another, nobody is left without the
\* button that frees the worker, and one run goes on at a time.
WizardIsHonest ==
  /\ WizardTypeOK
  /\ Honoured(latestRun)
  /\ misled \/ (AbortIsHonoured /\ OnlyAbortCancels /\ PauseIsAnswerable /\ OneRunAtATime)
=============================================================================
