--------------------------- MODULE ParallelParse ---------------------------
(***************************************************************************)
(* The bounded-window scheduler of ops/extraction/workers.py: the writer   *)
(* process feeds files to a process pool, takes whole-file results back in *)
(* completion order and hands each to its one SQLite writer.  A token set  *)
(* in the writer process reaches the workers through a mirror thread and a *)
(* multiprocessing.Event.                                                  *)
(***************************************************************************)
EXTENDS Naturals, FiniteSets, FiniteSetsExt

CONSTANTS
  NumRels,   \* bound: len(rels), files being named by their place in it
  NumWorkers, \* n_workers
  WriterMayFail, \* may handle_result raise?
  WorkerMayDie   \* may a worker process be killed?

ASSUME ParallelParseAssumption ==
  /\ NumRels \in Nat
  /\ NumWorkers \in Nat \ {0}
  /\ {WriterMayFail, WorkerMayDie} \subseteq BOOLEAN

RelIx == 1..NumRels
MaxInFlight == Max({2, 2 * NumWorkers})

(***************************************************************************)
(* The life of a file: not submitted, in the executor's pending table, in  *)
(* the call queue (past cancelling), in a worker; then parsed to the end,  *)
(* stopped at a chunk boundary, lost with the pool, or cancelled unstarted.*)
(***************************************************************************)
Stages == {"waiting", "pending", "queued", "running",
           "parsed", "stopped", "broken", "dropped"}
Ended  == {"parsed", "stopped", "broken"}

VARIABLES
  stage,    \* of each file
  inFlight, \* the keys of in_flight
  finished, \* what wait() returned and the for loop has not reached yet
  cur,      \* the file whose result is in hand, 0 when there is none
  nextRel,  \* rel_iter: the next file to submit
  handled,  \* history: how often each file's rows were written (2: too often)
  wpc,      \* where parallel_parse is
  raising,  \* is it leaving with an exception?
  token,    \* the caller's CancelToken
  event,    \* the workers' cancel_event
  mirror,   \* the mirror thread: "polling" or "over"
  broken    \* the pool has lost a worker

main == <<inFlight, finished, cur, nextRel, handled, wpc, raising>>
scheduler == <<stage, main, token, event, mirror, broken>>
signals == <<token, event, mirror>>

In(s) == {f \in RelIx : stage[f] = s}
Busy == In("pending") \cup In("queued") \cup In("running")

PoolTypeOK ==
  /\ stage \in [RelIx -> Stages]
  /\ inFlight \subseteq RelIx /\ finished \subseteq RelIx
  /\ cur \in 0..NumRels /\ nextRel \in 1..NumRels + 1
  /\ handled \in [RelIx -> 0..2]
  /\ wpc \in {"wait", "each", "handle", "refill", "drain", "join", "out"}
  /\ {raising, token, event, broken} \subseteq BOOLEAN
  /\ mirror \in {"polling", "over"}

\* The window is submitted at once: islice(rel_iter, max_in_flight).
PoolInit ==
  /\ inFlight = {f \in RelIx : f <= MaxInFlight}
  /\ stage = [f \in RelIx |-> IF f \in inFlight THEN "pending" ELSE "waiting"]
  /\ nextRel = Cardinality(inFlight) + 1
  /\ finished = {} /\ cur = 0
  /\ handled = [f \in RelIx |-> 0]
  /\ wpc = "wait" /\ raising = FALSE
  /\ token = FALSE /\ event = FALSE /\ mirror = "polling" /\ broken = FALSE

-----------------------------------------------------------------------------
(* parallel_parse *)

\* wait(in_flight, FIRST_COMPLETED) returns every future that has ended.
Wait ==
  /\ wpc = "wait" /\ inFlight # {}
  /\ finished' = {f \in inFlight : stage[f] \in Ended}
  /\ finished' # {}
  /\ wpc' = "each"
  /\ UNCHANGED <<stage, inFlight, cur, nextRel, handled, raising, signals, broken>>

\* Mutant of WaitOver: with the window empty the loop goes on waiting for it.
WaitOverEndless ==
  /\ \/ wpc = "each" /\ finished = {} /\ wpc' = "wait"
     \/ wpc = "wait" /\ inFlight = {} /\ wpc' = "each"
  /\ UNCHANGED <<stage, inFlight, finished, cur, nextRel, handled, raising,
                 signals, broken>>

\* The futures of one round are used up; with the window empty the loop is over.
WaitOver ==
  /\ \/ wpc = "each" /\ finished = {} /\ wpc' = "wait"
     \/ wpc = "wait" /\ inFlight = {} /\ wpc' = "join"
  /\ UNCHANGED <<stage, inFlight, finished, cur, nextRel, handled, raising,
                 signals, broken>>

\* Mutants of TakeResult: the future stays in the window; OperationCancelled
\* is drained but not raised again.
TakeResultKeeps ==
  /\ wpc = "each"
  /\ \E f \in finished :
       /\ finished' = finished \ {f}
       /\ cur' = f
       /\ wpc' = CASE stage[f] = "parsed" -> "handle"
                  [] stage[f] = "stopped" -> "drain"
                  [] stage[f] = "broken" -> "join"
       /\ raising' = (stage[f] # "parsed")
  /\ UNCHANGED <<stage, inFlight, nextRel, handled, signals, broken>>
TakeResultSwallows ==
  /\ wpc = "each"
  /\ \E f \in finished :
       /\ finished' = finished \ {f}
       /\ inFlight' = inFlight \ {f}
       /\ cur' = f
       /\ wpc' = CASE stage[f] = "parsed" -> "handle"
                  [] stage[f] = "stopped" -> "drain"
                  [] stage[f] = "broken" -> "join"
       /\ raising' = (stage[f] = "broken")
  /\ UNCHANGED <<stage, nextRel, handled, signals, broken>>

\* in_flight.pop(fut) and fut.result(), which re-raises what the worker
\* raised: OperationCancelled is drained, anything else leaves the block.
TakeResult ==
  /\ wpc = "each"
  /\ \E f \in finished :
       /\ finished' = finished \ {f}
       /\ inFlight' = inFlight \ {f}
       /\ cur' = f
       /\ wpc' = CASE stage[f] = "parsed" -> "handle"
                  [] stage[f] = "stopped" -> "drain"
                  [] stage[f] = "broken" -> "join"
       /\ raising' = (stage[f] # "parsed")
  /\ UNCHANGED <<stage, nextRel, handled, signals, broken>>

\* handle_result: add_batch, flush, mark_file_parsed.
HandleResult ==
  /\ wpc = "handle" /\ wpc' = "refill"
  /\ handled' = [handled EXCEPT ![cur] = Min({@ + 1, 2})]
  /\ UNCHANGED <<stage, inFlight, finished, cur, nextRel, raising, signals, broken>>

HandleFails ==
  /\ WriterMayFail
  /\ wpc = "handle" /\ wpc' = "join" /\ raising' = TRUE
  /\ UNCHANGED <<stage, inFlight, finished, cur, nextRel, handled, signals, broken>>

\* cancel.check(), then one more file keeps the window full; a broken pool
\* refuses it.
Refill ==
  /\ wpc = "refill"
  /\ IF token
     THEN wpc' = "drain" /\ raising' = TRUE /\ UNCHANGED <<stage, inFlight, nextRel>>
     ELSE IF nextRel > NumRels
     THEN wpc' = "each" /\ UNCHANGED <<raising, stage, inFlight, nextRel>>
     ELSE IF broken
     THEN wpc' = "join" /\ raising' = TRUE /\ nextRel' = nextRel + 1
          /\ UNCHANGED <<stage, inFlight>>
     ELSE /\ wpc' = "each"
          /\ stage' = [stage EXCEPT ![nextRel] = "pending"]
          /\ inFlight' = inFlight \cup {nextRel}
          /\ nextRel' = nextRel + 1
          /\ UNCHANGED raising
  /\ cur' = 0
  /\ UNCHANGED <<finished, handled, signals, broken>>

\* shutdown(cancel_futures=True): only what is not in the call queue yet.
DropPending ==
  /\ wpc = "drain" /\ wpc' = "join"
  /\ stage' = [f \in RelIx |-> IF stage[f] = "pending" THEN "dropped" ELSE stage[f]]
  /\ UNCHANGED <<inFlight, finished, cur, nextRel, handled, raising, signals, broken>>

\* Leaving the with block joins every process.
Join ==
  /\ wpc = "join" /\ wpc' = "out"
  /\ Busy = {}
  /\ UNCHANGED <<stage, inFlight, finished, cur, nextRel, handled, raising,
                 signals, broken>>

-----------------------------------------------------------------------------
(* The mirror thread and the worker processes *)

\* Mutant of MirrorCancel: the thread only ever ends.
MirrorCancelDeaf ==
  /\ mirror = "polling"
  /\ wpc = "out"
  /\ mirror' = "over"
  /\ UNCHANGED <<stage, main, token, event, broken>>

\* _mirror_cancel: copies the token until mirror_stop, which leaving
\* parallel_parse sets.
MirrorCancel ==
  /\ mirror = "polling"
  /\ \/ token /\ event' = TRUE
     \/ wpc = "out" /\ UNCHANGED event
  /\ mirror' = "over"
  /\ UNCHANGED <<stage, main, token, broken>>

\* The executor moves work in submission order into a call queue of one more
\* than its workers, and an idle worker takes the oldest.
Feed ==
  /\ In("pending") # {} /\ Cardinality(In("queued")) <= NumWorkers
  /\ stage' = [stage EXCEPT ![Min(In("pending"))] = "queued"]
  /\ UNCHANGED <<main, signals, broken>>

StartWork ==
  /\ In("queued") # {} /\ Cardinality(In("running")) < NumWorkers
  /\ stage' = [stage EXCEPT ![Min(In("queued"))] = "running"]
  /\ UNCHANGED <<main, signals, broken>>

\* worker_parse reaches the end of its file and returns the entries.
FinishFile(f) ==
  /\ stage[f] = "running"
  /\ stage' = [stage EXCEPT ![f] = "parsed"]
  /\ UNCHANGED <<main, signals, broken>>

\* process_tracev3 checks the event at a chunk boundary and raises.
StopAtChunk(f) ==
  /\ stage[f] = "running" /\ event
  /\ stage' = [stage EXCEPT ![f] = "stopped"]
  /\ UNCHANGED <<main, signals, broken>>

\* A killed worker breaks the pool: every unfinished future fails.
WorkerDies ==
  /\ WorkerMayDie
  /\ In("running") # {}
  /\ broken' = TRUE
  /\ stage' = [f \in RelIx |-> IF f \in Busy THEN "broken" ELSE stage[f]]
  /\ UNCHANGED <<main, signals>>

Cancel ==
  /\ ~token /\ wpc # "out"
  /\ token' = TRUE
  /\ UNCHANGED <<stage, main, event, mirror, broken>>

AllOver == wpc = "out" /\ mirror = "over" /\ UNCHANGED scheduler

Writer == Wait \/ WaitOver \/ TakeResult \/ HandleResult \/ Refill
            \/ DropPending \/ Join

PoolNext ==
  \/ Writer \/ HandleFails \/ MirrorCancel \/ Feed \/ StartWork \/ Cancel
  \/ \E f \in RelIx : FinishFile(f) \/ StopAtChunk(f)
  \/ WorkerDies \/ AllOver

PoolSpec == PoolInit /\ [][PoolNext]_scheduler

\* Threads and processes are scheduled, and a worker reaches its next chunk;
\* that it ever reaches the end of its file is not assumed.
Scheduling ==
  /\ WF_scheduler(Writer) /\ WF_scheduler(MirrorCancel)
  /\ WF_scheduler(Feed) /\ WF_scheduler(StartWork)
  /\ \A f \in RelIx : WF_scheduler(StopAtChunk(f))

-----------------------------------------------------------------------------
(* What must hold *)

\* However results, failures and cancellation interleave, no file's rows go
\* to the writer twice, only those of a file parsed to its end do, and the
\* submitted files whose rows are not yet written never exceed the window: the
\* memory bound (parallel_parse).
HandledOnce ==
  /\ PoolTypeOK
  /\ Cardinality(Busy \cup {f \in In("parsed") : handled[f] = 0}) <= MaxInFlight
  /\ \A f \in RelIx :
       handled[f] <= 1 /\ (handled[f] = 1 => stage[f] = "parsed" /\ f \notin inFlight)

\* However the caller regains control, no worker still reads the evidence while it marks
\* the database; and a normal return means every file was handled: none is forgotten in
\* the refill, whatever batch of futures wait() returned together.
ReturnMeansAllHandled ==
  wpc = "out" => Busy = {} /\ (~raising => \A f \in RelIx : handled[f] = 1)

\* A token set while the writer is blocked on workers ends the parse without
\* any of them having to finish its file.
CancelEndsTheParse == token ~> wpc = "out"

\* Without a cancellation too, the scheduler never waits for ever, provided
\* that no worker stays in one file for ever.
ParseReturns == (\A f \in RelIx : []<>(stage[f] # "running")) => <>(wpc = "out")
=============================================================================
