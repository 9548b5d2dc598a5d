------------------------------ MODULE Extract ------------------------------
(***************************************************************************)
(* The extraction pipeline (ops/extraction/extract.py): successive calls   *)
(* of run_extract on one output path.  A call guards the output names,     *)
(* prepares the source, clears the names when it may, writes its database  *)
(* under "<db_path>.partial" in committed steps and renames it to db_path  *)
(* at the very end.  Each action is one stretch of the pipeline between    *)
(* two commits, so a kill can fall between any two things that reach disk. *)
(***************************************************************************)
EXTENDS Naturals, FiniteSets

CONSTANTS
  TraceFiles,          \* the tracev3 files of the source
  MaxRuns,        \* bound: calls of run_extract on this output
  NoDb,           \* "there is no file of that name"
  NoFile,         \* no tracev3 file is being written
  FastFts,        \* opts.fast_fts and ctx.fts5_ok
  FullIntegrity,  \* opts.integrity = "full"
  Parallel,       \* opts.jobs > 1
  StorageFaults,  \* may SQLite refuse a batch while rows are being written?
  Bystander,      \* may another program hold one of the databases open?
  Deletes         \* may the analyst delete db_path between two calls?

Phases     == {"prepare", "parse", "ordering", "index", "fts", "stats"}
NoPhase    == "none"
Milestones == {"schema", "sources", "shutdown", "ordering", "index", "fts",
               "integrity", "bounds", "summary"}
Statuses   == {"none", "running", "cancelled", "complete"}
Runs       == 1..MaxRuns

(***************************************************************************)
(* A database file: the acquisitions written into it (one case_metadata    *)
(* row each), the newest extract_status ("none": no row), what the         *)
(* pipeline has committed, the extract_phases ledger, how many of each     *)
(* file's rows are stored, the files carrying parse_completed_at, and      *)
(* whether some of that is still only in the -wal sidecar.                 *)
(***************************************************************************)
Database == [ runs   : SUBSET Runs,
              status : Statuses,
              done   : SUBSET Milestones,
              open   : SUBSET Phases,
              closed : SUBSET Phases,
              rows   : [TraceFiles -> {"none", "some", "all"}],
              parsed : SUBSET TraceFiles,
              walled : BOOLEAN ]

EmptyDatabase == [ runs |-> {}, status |-> "none", done |-> {}, open |-> {},
                   closed |-> {}, rows |-> [f \in TraceFiles |-> "none"],
                   parsed |-> {}, walled |-> FALSE ]

ASSUME ExtractAssumption ==
  /\ MaxRuns \in Nat
  /\ NoDb \notin Database
  /\ NoFile \notin TraceFiles
  /\ {FastFts, FullIntegrity, Parallel, StorageFaults, Bystander, Deletes}
       \subseteq BOOLEAN

VARIABLES
  final,       \* the database at db_path
  finalWal,    \* the acquisition whose frames db_path-wal holds, 0 when absent
  partial,     \* the database at db_path.partial
  partialWal,  \* the same for db_path.partial-wal
  pc,          \* where the current call is, "idle" when there is none
  target,      \* the phase _enter_phase is entering
  attempt,     \* how many calls have been made; names the current acquisition
  overwrite,   \* opts.overwrite
  cancelled,   \* the CancelToken
  phase,       \* ctx.phase_id: the ledger row this call has open
  bar,         \* the phase the ProgressReporter shows
  cur,         \* the file whose rows are being written
  outcome,     \* how the last call ended, or is about to
  heard        \* history: where the call was when the token was set

disk == <<final, finalWal, partial, partialWal>>
call == <<target, attempt, overwrite, phase, bar, cur, outcome>>
extract == <<disk, pc, call, cancelled, heard>>

Steps == {"idle", "prepare", "clearFinal", "clearFinalWal", "clearPartial",
          "clearPartialWal", "connect", "schema", "prepareOpen",
          "prepareClose", "metadata", "sources", "oversize", "leave", "begin",
          "parse", "mark", "shutdown", "ordering", "index", "fts", "verify",
          "bounds", "stats", "statsLeave", "complete", "recheck", "close",
          "promoteWal", "promoteMain", "unwind"}

Outcomes == {"none", "refused", "running", "ok", "failed", "cancelled",
             "killed"}

TypeOK ==
  /\ final \in Database \cup {NoDb}
  /\ partial \in Database \cup {NoDb}
  /\ finalWal \in 0..MaxRuns
  /\ partialWal \in 0..MaxRuns
  /\ pc \in Steps
  /\ target \in Phases
  /\ attempt \in 0..MaxRuns
  /\ overwrite \in BOOLEAN
  /\ cancelled \in BOOLEAN
  /\ phase \in Phases \cup {NoPhase}
  /\ bar \in Phases
  /\ cur \in TraceFiles \cup {NoFile}
  /\ outcome \in Outcomes
  /\ heard \in Steps \cup {"never"}

ExtractInit ==
  /\ final = NoDb
  /\ finalWal = 0
  /\ partial = NoDb
  /\ partialWal = 0
  /\ pc = "idle"
  /\ target = "parse"
  /\ attempt = 0
  /\ overwrite = FALSE
  /\ cancelled = FALSE
  /\ phase = NoPhase
  /\ bar = "prepare"
  /\ cur = NoFile
  /\ outcome = "none"
  /\ heard = "never"

\* Control moves from p to q.
Go(p, q) == pc = p /\ pc' = q

\* The token is only ever set from outside the pipeline.
Quiet == UNCHANGED <<cancelled, heard>>

\* A committed change of the database being written, nothing else moving.
Commit(db) == partial' = db /\ UNCHANGED <<final, finalWal, partialWal>>

-----------------------------------------------------------------------------
(* The call, source preparation, and the output names *)

\* run_extract is called: the guard runs before anything is touched.
StartGuarding(taken) ==
  /\ pc = "idle"
  /\ attempt < MaxRuns
  /\ attempt' = attempt + 1
  /\ overwrite' \in BOOLEAN
  /\ cancelled' = FALSE
  /\ heard' = "never"
  /\ bar' = "prepare"
  /\ phase' = NoPhase
  /\ cur' = NoFile
  /\ IF ~overwrite' /\ taken
     THEN pc' = "idle" /\ outcome' = "refused"
     ELSE pc' = "prepare" /\ outcome' = "running"
  /\ UNCHANGED <<disk, target>>

\* Mutant of Start: the final name is not guarded.
StartGuardsPartialOnly == StartGuarding(partial # NoDb)

\* Both names are guarded.
Start == StartGuarding(final # NoDb \/ partial # NoDb)

\* prepare_source succeeds; the clearing of the names was deferred to here.
Prepare ==
  /\ pc = "prepare"
  /\ pc' = IF overwrite THEN "clearFinal" ELSE "connect"
  /\ UNCHANGED <<disk, call>> /\ Quiet

\* The unlink loop, one directory entry at a time: db_path and its sidecars,
\* then .partial and its sidecars (-wal and -shm go as one).
ClearFinal ==
  /\ Go("clearFinal", "clearFinalWal")
  /\ final' = NoDb
  /\ UNCHANGED <<finalWal, partial, partialWal, call>> /\ Quiet

ClearFinalWal ==
  /\ Go("clearFinalWal", "clearPartial")
  /\ finalWal' = 0
  /\ UNCHANGED <<final, partial, partialWal, call>> /\ Quiet

ClearPartial ==
  /\ Go("clearPartial", "clearPartialWal")
  /\ partial' = NoDb
  /\ UNCHANGED <<final, finalWal, partialWal, call>> /\ Quiet

ClearPartialWal ==
  /\ Go("clearPartialWal", "connect")
  /\ partialWal' = 0
  /\ UNCHANGED <<final, finalWal, partial, call>> /\ Quiet

\* sqlite3.connect opens what is there, or creates an empty file.
ConnectPartial ==
  /\ Go("connect", "schema")
  /\ Commit(IF partial = NoDb THEN EmptyDatabase ELSE partial)
  /\ UNCHANGED call /\ Quiet

\* apply_pragmas (WAL mode: SQLite drops a foreign -wal beside an empty file
\* and starts its own) and init_schema, every statement IF NOT EXISTS.
InitSchema ==
  /\ Go("schema", "prepareOpen")
  /\ partial' = [partial EXCEPT !.done = @ \cup {"schema"}, !.walled = TRUE]
  /\ partialWal' = attempt
  /\ UNCHANGED <<final, finalWal, call>> /\ Quiet

-----------------------------------------------------------------------------
(* The phase ledger *)

\* _record_prepare_phase: begin_phase and complete_phase, a commit each.
RecordPrepareOpen ==
  /\ Go("prepareOpen", "prepareClose")
  /\ Commit([partial EXCEPT !.open = @ \cup {"prepare"}])
  /\ UNCHANGED call /\ Quiet

RecordPrepareClose ==
  /\ Go("prepareClose", "metadata")
  /\ Commit([partial EXCEPT !.open = @ \ {"prepare"},
                            !.closed = @ \cup {"prepare"}])
  /\ UNCHANGED call /\ Quiet

\* complete_phase on the row this call has open, if it has one.
Closed(db) ==
  IF phase = NoPhase THEN db
  ELSE [db EXCEPT !.open = @ \ {phase}, !.closed = @ \cup {phase}]

\* Mutant of LeavePhase: the row of the phase that ends is not completed.
LeavePhaseOpen ==
  /\ Go("leave", "begin")
  /\ phase' = NoPhase
  /\ bar' = target
  /\ UNCHANGED <<disk, target, attempt, overwrite, cur, outcome>> /\ Quiet

\* _enter_phase, first half: _leave_phase, then the bar moves.
LeavePhase ==
  /\ Go("leave", "begin")
  /\ Commit(Closed(partial))
  /\ phase' = NoPhase
  /\ bar' = target
  /\ UNCHANGED <<target, attempt, overwrite, cur, outcome>> /\ Quiet

\* Mutant of BeginPhase: no cancel.check() at the phase boundary.
BeginPhaseUnchecked ==
  /\ Go("begin", target)
  /\ Commit([partial EXCEPT !.open = @ \cup {target}])
  /\ phase' = target
  /\ UNCHANGED <<target, attempt, overwrite, bar, cur, outcome>> /\ Quiet

\* _enter_phase, second half: the row is committed before cancel.check(),
\* so a call that stops here leaves the phase it was entering open.
BeginPhase ==
  /\ pc = "begin"
  /\ Commit([partial EXCEPT !.open = @ \cup {target}])
  /\ IF cancelled
     THEN /\ pc' = "unwind"
          /\ outcome' = "cancelled"
     ELSE /\ pc' = target
          /\ UNCHANGED outcome
  /\ phase' = target
  /\ UNCHANGED <<target, attempt, overwrite, bar, cur>> /\ Quiet

\* Control reaches _enter_phase(next) from step p.
Enter(p, next) == Go(p, "leave") /\ target' = next

-----------------------------------------------------------------------------
(* _run_parse *)

\* insert_case_metadata and its commit; ctx.metadata_id is published.
InsertMetadata ==
  /\ Go("metadata", "sources")
  /\ Commit([partial EXCEPT !.runs = @ \cup {attempt}, !.status = "running"])
  /\ UNCHANGED call /\ Quiet

\* Timesync, string cache and tracev3 registration: one transaction, so
\* nothing of it is on disk before the commit that ends it.
RegisterSources ==
  /\ Go("sources", "oversize")
  /\ Commit([partial EXCEPT !.done = @ \cup {"sources"}])
  /\ UNCHANGED call /\ Quiet

CollectOversize ==
  /\ Enter("oversize", "parse")
  /\ UNCHANGED <<disk, attempt, overwrite, phase, bar, cur, outcome>> /\ Quiet

\* The next file whose rows reach the single writer: in the serial loop's
\* order or, with workers, in whatever order they finish.
TakeFile ==
  /\ pc = "parse"
  /\ cur = NoFile
  /\ \E f \in TraceFiles \ partial.parsed : cur' = f
  /\ UNCHANGED <<disk, pc, target, attempt, overwrite, phase, bar, outcome>>
  /\ Quiet

\* A full batch is committed before the end of the file.
StoreBatch ==
  /\ pc = "parse"
  /\ cur # NoFile
  /\ partial.rows[cur] = "none"
  /\ Commit([partial EXCEPT !.rows[cur] = "some"])
  /\ UNCHANGED <<pc, call>> /\ Quiet

\* The last batch: writer.flush() after the file's last entry.
FlushFile ==
  /\ Go("parse", "mark")
  /\ cur # NoFile
  /\ Commit([partial EXCEPT !.rows[cur] = "all"])
  /\ UNCHANGED call /\ Quiet

\* Serial only: writer.add raises inside process_tracev3, whose catch-all
\* counts the refusal as a parse error and returns normally.
SwallowStorageFault ==
  /\ StorageFaults /\ ~Parallel
  /\ Go("parse", "mark")
  /\ cur # NoFile
  /\ UNCHANGED <<disk, call>> /\ Quiet

\* mark_file_parsed.
MarkParsed ==
  /\ Go("mark", "parse")
  /\ Commit([partial EXCEPT !.parsed = @ \cup {cur}])
  /\ cur' = NoFile
  /\ UNCHANGED <<target, attempt, overwrite, phase, bar, outcome>> /\ Quiet

\* Mutant of ParseLoopDone: the loop is left at any file.
ParseDoneEarly ==
  /\ Go("parse", "shutdown")
  /\ cur = NoFile
  /\ UNCHANGED <<disk, call>> /\ Quiet

ParseLoopDone ==
  /\ Go("parse", "shutdown")
  /\ cur = NoFile
  /\ TraceFiles \subseteq partial.parsed
  /\ UNCHANGED <<disk, call>> /\ Quiet

IngestShutdownLog ==
  /\ Enter("shutdown", "ordering")
  /\ Commit([partial EXCEPT !.done = @ \cup {"shutdown"}])
  /\ UNCHANGED <<attempt, overwrite, phase, bar, cur, outcome>> /\ Quiet

-----------------------------------------------------------------------------
(* _finalise, the end of the call, and the rename *)

AssignOrdering ==
  /\ Enter("ordering", "index")
  /\ Commit([partial EXCEPT !.done = @ \cup {"ordering"}])
  /\ UNCHANGED <<attempt, overwrite, phase, bar, cur, outcome>> /\ Quiet

AfterIndex == IF FastFts THEN "leave"
              ELSE IF FullIntegrity THEN "verify" ELSE "bounds"

FinalizeIndexes ==
  /\ Go("index", AfterIndex)
  /\ target' = IF FastFts THEN "fts" ELSE target
  /\ Commit([partial EXCEPT !.done = @ \cup {"index"}])
  /\ UNCHANGED <<attempt, overwrite, phase, bar, cur, outcome>> /\ Quiet

FinalizeFts ==
  /\ Go("fts", IF FullIntegrity THEN "verify" ELSE "bounds")
  /\ Commit([partial EXCEPT !.done = @ \cup {"fts"}])
  /\ UNCHANGED call /\ Quiet

VerifySourceFiles ==
  /\ Go("verify", "bounds")
  /\ Commit([partial EXCEPT !.done = @ \cup {"integrity"}])
  /\ UNCHANGED call /\ Quiet

\* The time range, then update_case_metadata and its commit.
UpdateMetadata ==
  /\ Enter("bounds", "stats")
  /\ Commit([partial EXCEPT !.done = @ \cup {"bounds"}])
  /\ UNCHANGED <<attempt, overwrite, phase, bar, cur, outcome>> /\ Quiet

\* refresh_summary: the summary is stored, or whatever went wrong is
\* swallowed and the cache cleared; the call goes on either way.
RefreshSummary ==
  /\ Go("stats", "statsLeave")
  /\ \/ Commit([partial EXCEPT !.done = @ \cup {"summary"}])
     \/ UNCHANGED disk
  /\ UNCHANGED call /\ Quiet

\* Mutant of LeaveStats: the last phase is left open.
LeaveStatsOpen ==
  /\ Go("statsLeave", "complete")
  /\ phase' = NoPhase
  /\ UNCHANGED <<disk, target, attempt, overwrite, bar, cur, outcome>> /\ Quiet

LeaveStats ==
  /\ Go("statsLeave", "complete")
  /\ Commit(Closed(partial))
  /\ phase' = NoPhase
  /\ UNCHANGED <<target, attempt, overwrite, bar, cur, outcome>> /\ Quiet

SetComplete ==
  /\ Go("complete", "recheck")
  /\ Commit([partial EXCEPT !.status = "complete"])
  /\ UNCHANGED call /\ Quiet

\* verify_unchanged re-reads the archive; only its exception matters here.
Recheck ==
  /\ Go("recheck", "close")
  /\ UNCHANGED <<disk, call>> /\ Quiet

\* conn.close() checkpoints and drops the -wal, unless another program has
\* the file open too.
Checkpoint ==
  \/ /\ partialWal' = 0
     /\ partial' = [partial EXCEPT !.walled = FALSE]
  \/ Bystander /\ UNCHANGED <<partial, partialWal>>

Close ==
  /\ Go("close", "promoteWal")
  /\ Checkpoint
  /\ UNCHANGED <<final, finalWal, call>> /\ Quiet

\* Mutant of PromoteWal: the sidecars stay under their old name.
PromoteWalForgotten ==
  /\ Go("promoteWal", "promoteMain")
  /\ UNCHANGED <<disk, call>> /\ Quiet

\* _promote_partial: the sidecars first, then the file itself.
PromoteWal ==
  /\ Go("promoteWal", "promoteMain")
  /\ finalWal' = IF partialWal # 0 THEN partialWal ELSE finalWal
  /\ partialWal' = 0
  /\ UNCHANGED <<final, partial, call>> /\ Quiet

PromoteMain ==
  /\ Go("promoteMain", "idle")
  /\ final' = partial
  /\ partial' = NoDb
  /\ outcome' = "ok"
  /\ UNCHANGED <<finalWal, partialWal, target, attempt, overwrite, phase, bar,
                 cur>> /\ Quiet

-----------------------------------------------------------------------------
(* Whatever ends a call early *)

\* Steps under the try block of run_extract: what they raise is handled.
Guarded == {"schema", "prepareOpen", "prepareClose", "metadata", "sources",
            "oversize", "leave", "begin", "parse", "mark", "shutdown",
            "ordering", "index", "fts", "verify", "bounds", "stats",
            "statsLeave", "complete", "recheck"}

\* Steps outside it: what they raise leaves run_extract as it is.
Unguarded == {"prepare", "clearFinal", "clearFinalWal", "clearPartial",
              "clearPartialWal", "connect", "close", "promoteWal",
              "promoteMain"}

\* Where a set token can stop the call: a check point (per archive member,
\* source file or chunk), a statement the progress handler aborts, or any
\* OperationalError, which _handle_interruption takes for one.  In "stats"
\* that is only what clear_summary raises, refresh_summary swallowing the
\* rest; after the status was written nothing checks the token any more.
Stoppable == (Guarded \ {"recheck"}) \cup {"prepare"}

\* An exception raised at the current step leaves the disk as it is.
FailWith(kind) ==
  /\ pc' = IF pc \in Guarded THEN "unwind" ELSE "idle"
  /\ outcome' = kind
  /\ UNCHANGED <<disk, target, attempt, overwrite, phase, bar, cur>> /\ Quiet

Fail == pc \in Guarded \cup Unguarded /\ FailWith("failed")

CancelStops == cancelled /\ pc \in Stoppable /\ FailWith("cancelled")

\* Mutants of HandleInterruption: the rename is in a finally clause; a set
\* token is taken for the cause of whatever ended the call.
PromoteAlways ==
  /\ Go("unwind", "promoteWal")
  /\ partial' = [partial EXCEPT !.walled = FALSE]
  /\ partialWal' = 0
  /\ UNCHANGED <<final, finalWal, call>> /\ Quiet
MarkWheneverCancelled ==
  /\ Go("unwind", "idle")
  /\ partial' = [partial EXCEPT !.status = IF cancelled THEN "cancelled" ELSE @,
                               !.walled = FALSE]
  /\ partialWal' = 0
  /\ UNCHANGED <<final, finalWal, call>> /\ Quiet

\* _handle_interruption and the close that follows it.  The cancellation is
\* recorded once this call has its metadata row; the write is best effort.
HandleInterruption ==
  /\ Go("unwind", "idle")
  /\ LET published == attempt \in partial.runs
         marked    == IF outcome = "cancelled" /\ published
                      THEN {"cancelled", partial.status}
                      ELSE {partial.status}
     IN \E s \in marked :
          \/ /\ partial' = [partial EXCEPT !.status = s, !.walled = FALSE]
             /\ partialWal' = 0
          \/ /\ Bystander
             /\ partial' = [partial EXCEPT !.status = s]
             /\ UNCHANGED partialWal
  /\ UNCHANGED <<final, finalWal, call>> /\ Quiet

\* SIGKILL or a crash: every commit survives, in the -wal if need be.
Kill ==
  /\ pc # "idle"
  /\ pc' = "idle"
  /\ outcome' = "killed"
  /\ UNCHANGED <<disk, target, attempt, overwrite, phase, bar, cur>> /\ Quiet

\* Ctrl+C or the CancelCall button, at any moment of a call.
CancelCall ==
  /\ pc # "idle" /\ ~cancelled
  /\ cancelled' = TRUE
  /\ heard' = pc
  /\ UNCHANGED <<disk, pc, call>>

-----------------------------------------------------------------------------
(* The neighbours *)

\* A program that writes to the finished database (annotation, a SQLite
\* browser) is killed, or still has it open: its frames stay in db_path-wal.
ReaderLeavesWal ==
  /\ Bystander
  /\ pc = "idle" /\ final # NoDb /\ finalWal = 0
  /\ \E r \in final.runs : finalWal' = r
  /\ final' = [final EXCEPT !.walled = TRUE]
  /\ UNCHANGED <<partial, partialWal, pc, call>> /\ Quiet

\* "delete the file to force a fresh extract".
DeleteFinal ==
  /\ Deletes
  /\ pc = "idle" /\ final # NoDb
  /\ final' = NoDb
  /\ UNCHANGED <<finalWal, partial, partialWal, pc, call>> /\ Quiet

AllDone == pc = "idle" /\ attempt = MaxRuns /\ UNCHANGED extract

Parse == \/ TakeFile \/ StoreBatch \/ FlushFile \/ SwallowStorageFault
         \/ MarkParsed \/ ParseLoopDone

Pipeline ==
  \/ Prepare \/ ClearFinal \/ ClearFinalWal \/ ClearPartial \/ ClearPartialWal
  \/ ConnectPartial \/ InitSchema \/ RecordPrepareOpen \/ RecordPrepareClose
  \/ InsertMetadata \/ RegisterSources \/ CollectOversize
  \/ LeavePhase \/ BeginPhase \/ Parse \/ IngestShutdownLog
  \/ AssignOrdering \/ FinalizeIndexes \/ FinalizeFts \/ VerifySourceFiles
  \/ UpdateMetadata \/ RefreshSummary \/ LeaveStats \/ SetComplete \/ Recheck
  \/ Close \/ PromoteWal \/ PromoteMain \/ HandleInterruption

Environment == \/ Start \/ Fail \/ CancelStops \/ Kill \/ CancelCall
               \/ ReaderLeavesWal \/ DeleteFinal

ExtractNext == Pipeline \/ Environment \/ AllDone

ExtractSpec == ExtractInit /\ [][ExtractNext]_extract

-----------------------------------------------------------------------------
(* What must hold *)

Required == {"schema", "sources", "shutdown", "ordering", "index", "bounds"}
              \cup (IF FastFts THEN {"fts"} ELSE {})
              \cup (IF FullIntegrity THEN {"integrity"} ELSE {})

LedgerPhases == IF FastFts THEN Phases ELSE Phases \ {"fts"}

\* One acquisition, parsed to its last file and finalised, that says so.
Whole(db) ==
  /\ \E r \in Runs : db.runs = {r}
  /\ db.status = "complete"
  /\ Required \subseteq db.done
  /\ db.parsed = TraceFiles
  /\ db.open = {}
  /\ db.closed = LedgerPhases

\* A file at the final name is a finished extract, whatever was killed,
\* cancelled or refused before: the promise of the .partial scheme.
FinalIsWhole == final # NoDb => Whole(final)

\* No database, under either name, claims the status "complete" before
\* everything a reader relies on is committed in it.
CompleteIsWhole ==
  \A db \in {final, partial} :
    db # NoDb => (db.status = "complete" => Whole(db))

\* Two acquisitions are never merged into one file, whatever an earlier call
\* left under either name.
OneAcquisition ==
  \A db \in {final, partial} : db # NoDb => Cardinality(db.runs) <= 1

\* parse_completed_at: every row of a marked file is in the database.  Violated
\* in the serial path, whose catch-all swallows a refused batch.
ParsedIsStored ==
  \A db \in {final, partial} :
    db # NoDb => \A f \in db.parsed : db.rows[f] = "all"

\* The extract_phases ledger is truthful: a closed phase did its work, and a
\* row left open names the phase the operator's bar shows.
LedgerIsTruthful ==
  partial # NoDb /\ attempt \in partial.runs =>
    /\ partial.closed \cap {"ordering", "index", "fts"} \subseteq partial.done
    /\ "parse" \in partial.closed => partial.parsed = TraceFiles
    /\ partial.open \subseteq {bar}
    /\ partial.open \cap partial.closed = {}

\* open_analysis_database: the logs table is there, and the newest metadata
\* row, when there is one, says "complete".
Opens(db) == "schema" \in db.done /\ db.status \in {"none", "complete"}

\* A call told to stop before it opened its last phase never succeeds; only
\* a token set after that phase's check comes too late.  What a cancelled call
\* leaves behind is refused by every reader, even when the cancelled status
\* could not be written.
CancelHonoured ==
  /\ outcome = "ok" =>
       heard \in {"never", "stats", "statsLeave", "complete", "recheck", "close",
                  "promoteWal", "promoteMain"}
  /\ pc = "idle" /\ outcome = "cancelled" /\ partial # NoDb /\ attempt \in partial.runs
       => ~Opens(partial)

\* A finished database whose last commits are still in a -wal has that -wal
\* beside it under its own name.
FinalHasItsWal ==
  final # NoDb /\ final.walled => finalWal \in final.runs

\* The terminal status stands: what happens to the call after it was written
\* (a failing re-check, a late token) never takes it back.
CompleteStands ==
  [][partial # NoDb /\ partial.status = "complete"
       => partial' = NoDb \/ partial'.status = "complete"]_extract

-----------------------------------------------------------------------------
(* The abstract promise this pipeline implements *)

FinalRun ==
  IF final = NoDb THEN 0
  ELSE IF Whole(final) THEN CHOOSE r \in Runs : final.runs = {r}
  ELSE MaxRuns + 1

Output == INSTANCE OutputStore
  WITH final   <- FinalRun,
       busy    <- IF pc = "idle" THEN 0 ELSE attempt,
       replace <- overwrite,
       last    <- attempt

OutputSpec == Output!Spec
=============================================================================
