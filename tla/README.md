# forensic-AUL: specifications, model checking and proofs

forensic-AUL (FAUL) turns an Apple unified-log archive into a SQLite database
that may be used as evidence.  What the program promises is that the artefact
can be relied on: a file at the output path is one complete acquisition, an
incomplete one says so, every entry is stored or counted, a digest attests what
was really read, a comparison or an annotation means what it shows, and a
cancellation, a failure or a `SIGKILL` anywhere leaves something that cannot be
mistaken for a finished result.  These modules state those promises of the code
and check them.

## 1. Inventory

### 1.1 Parts of the system

| Part | State it keeps | Operations | Interacts with |
|---|---|---|---|
| Acquisition (`ops/acquisition/`, `engine/faul_format.py`) | a lockdown session, `<name>.partial`, `.faul.tmp`, the sidecar | connect, confirm, collect, hash, pack or rename, report | the device; before everything else |
| Source preparation (`ops/extraction/sources/`, `engine/integrity.py`) | the work root, fingerprints and digests | `prepare_source`, `claim_work_root`, `mirror_tree`, unpacking, `verify_unchanged` | first and last steps of the pipeline |
| Extract pipeline (`ops/extraction/extract.py`) | `db_path`, `db_path.partial`, their `-wal`; the phase ledger; `extract_status` | `run_extract`, `_enter_phase`, `_finalise`, `_promote_partial` | everything below |
| Parallel workers (`ops/extraction/workers.py`) | the window of futures, a mirror thread, a process pool | `parallel_parse`, `_mirror_cancel` | results go to the one writer; the token goes to the workers |
| tracev3 parser (`engine/parser/`, `oversize_pass.py`, `tracev3_parse.py`, `entry_builder.py`) | catalog, header, oversize cache, string tables and their memos | chunks, sub-chunks, entries, items, format strings | called by the pipeline or by workers |
| Time (`timesync_setup.py`, `engine/utils/time.py`, `engine/database/ordering.py`) | boots, anchors, ranks, `logs_order` | register, resolve, order | parser and writer |
| Batch writer (`engine/database/writer.py`) | pending rows, lookup caches, the open transaction | `add`, `flush`, `mark_file_parsed`, phases, statuses | called by the pipeline and the parser's `emit` |
| Cancellation (`engine/utils/cancellation.py`) | one flag | `cancel`, `check`, `wait` | GUI, Ctrl+C, SQLite's progress handler |
| Session (`app/extract_session.py`, `launcher/`) | the log file and its seal, the SIGINT handler | `run_extract_session`, `_seal` | wraps the pipeline |
| Verification (`ops/verify/`) | none | `verify_hash` | a database and a tree, later |
| Validation (`forensic_aul/validation/`) | temporary directories, spills, a report | the pipeline's modes, `build_logarchive`, comparison | the whole way, with Apple's tool beside it |
| Annotation, summary (`ops/annotation/`, `ops/summary/`) | annotation tables, one cached summary | annotate, clear, refresh | finished databases |
| Knowledge base (`ops/knowledge_base/`) | signature files | load, lint, write and undo | annotation |
| Query, export (`ops/query/`, `ops/export/`) | an open store, a filter | count, page, export | finished databases, annotated meanwhile |
| Identify (`ops/identify/`) | two archives, two databases, a result database | the two collections, `run_diff`, hide | device, pipeline, annotation |
| GUI (`src/gui/`) | screens with worker threads, the close sequence, a log panel | `ShutdownCoordinator`, the screens | runs and cancels the operations above |

### 1.2 What is hard here

* **Crashes.**  There is no recovery code: names and committed rows alone must
  tell a finished artefact from an unfinished one.  So every pair of commits,
  unlinks and renames is a place where a kill matters.
* **Cancellation.**  It arrives on another thread at any moment, as a token
  check, as an aborted SQL statement that looks like any `OperationalError`, or
  in a worker process through a polled mirror.  Some handlers swallow
  exceptions, and a cancellation among them.
* **Partial failure.**  A batch can be refused row by row, or its transaction be
  rolled back by SQLite while in-memory caches survive it; damaged bytes must
  cost what they hold and no more; a written file is taken back when it does not
  load.
* **Interleaving.**  Worker processes, the mirror thread and the executor run
  against one writer; another program may have the database open; two annotators
  and readers share a database; GUI threads speak through queued signals.
* **Stale state.**  Caches, memos, pickers and counts outlive what they describe.
* **Order.**  Files are parsed in any order, yet the timeline must not show it;
  references are sorted on disk and walked in step.

`PROJECT.json` lists each hazard at its line with the properties about it.

### 1.3 What makes each part correct

* *Pipeline:* a file at `db_path` is one finished acquisition; "complete" is
  never claimed early and never taken back; two acquisitions never share a
  file; a cancel accepted in time is honoured; the ledger is truthful; only a
  permitted overwrite destroys anything.
* *Workers:* memory is bounded by the window; each result is written exactly
  once; a normal return means all were; no process outlives the call; a cancel
  never waits for a file to end.
* *Writer:* every entry is stored, queued or counted, in file order; a row
  resolves to the name its entry carried.
* *Parser:* damage costs what it covers and is counted; a field, an item and a
  text come from the bytes meant for them; memos never change an answer; times
  come from the right anchor and the order depends on the archive alone.
* *Custody:* an output name holds a whole collection; what is attested was read;
  originals are only read; the seal covers the session; verification blames the
  right thing; a validation passes only what it compared.
* *Analysis:* annotations are exactly what signatures select; cached statistics
  are current; what is written to the knowledge base loads and is what was
  drafted; pages and exports are the stored answer; the operator's action is in
  the result of identify.
* *GUI:* the window closes only when nothing it shows is running, and does
  close; every screen shows the database it names; a worker that waits for the
  operator can be answered.

## 2. Modules

| Run module | Composes | Proofs |
|---|---|---|
| `ChainMC` (`CustodyMC` with the invariant of `ExtractMC`) | `Acquire`, `Source`, `Extract`, which implements `OutputStore`, `Session`, `Verify`, `Validate` | `ExtractProofs`, `CustodyProofs` |
| `ParserMC` | `Timeline`, `Chunks`, `Items`, `Strings`, `ParallelParse`, `BatchWriter`, `Compare` | `TimelineProofs`, `ParserProofs`, `ParallelParseProofs` |
| `AnalysisMC` | `Annotation`, `KnowledgeBase`, `Identify`, `Query` | `AnalysisProofs` |
| `GuiMC` | `GuiShutdown` (through `GuiShutdownMC`), `AnalysisScreen`, `Wizard`, `ResultsScreen`, `LogPanel` | `GuiProofs` |

*Reading them.*  An action is one stretch of code that nothing can come between:
up to the next commit, rename, chunk, callback or Qt event.  A module's type
invariant is the first conjunct of its main property.  Operators whose comment
starts with "Mutant of" are wrong variants of the definition below them; no
specification uses them, they document which mistake each property would catch.
`Listing` holds the orders several modules need, that of `ORDER BY` and that
of a `for` loop that skips some of its items, by definitions without recursion;
`ListingProofs` proves what they list.

*Composition.*  Inside a run module the components hand each other
files, not variables.  A behaviour therefore moves one of them, from any state
the one before may have left it, while the others stay at one initial state;
the run is the union of their state spaces and each property sees its own part.
Within a component everything interleaves freely.  `ExtractMC`, `GuiShutdownMC`
and `Wizard` are also run alone, to refute one sentence each (section 3).

`Extract` sees the writer, the workers and the parser through what they do to
the database: rows of a file are "none", "some" or "all", files are taken in any
order, and a storage failure either ends the call (workers) or is swallowed
(serial).  `BatchWriter`, `ParallelParse` and the parser modules open those
boxes.

### 2.1 Extract and OutputStore

*State.*  `final`, `partial` are the databases under the two names (`NoDb` when
absent), as records of what is **committed**: `runs` (one `case_metadata` row
per acquisition), `status` (newest `extract_status`), `done` (the pipeline's
milestones), `open`/`closed` (the `extract_phases` ledger), `rows`, `parsed`
(`parse_completed_at`) and `walled` (some of it is still only in the `-wal`).
`finalWal`, `partialWal` say which acquisition's frames the sidecar holds.
`pc` is the next step of the call; `phase`, `bar`, `cur`, `overwrite`,
`cancelled` are `ctx.phase_id`, the reporter's phase, the file being written,
the option and the token.  `heard` and `outcome` are history.

*Actions.*  One per stretch of code between two commits (or unlinks, or
renames), named after the function: `Start` (guard), `Prepare`, `ClearFinal` ...
`ClearPartialWal` (the unlink loop), `ConnectPartial`, `InitSchema`,
`RecordPrepareOpen/Close`, `InsertMetadata`, `RegisterSources`,
`CollectOversize`, `LeavePhase`/`BeginPhase` (`_enter_phase`, which commits
twice), the parse loop (`TakeFile`, `StoreBatch`, `FlushFile`, `MarkParsed`,
`ParseLoopDone`), `IngestShutdownLog`, `AssignOrdering`, `FinalizeIndexes`,
`FinalizeFts`, `VerifySourceFiles`, `UpdateMetadata`, `RefreshSummary`,
`LeaveStats`, `SetComplete`, `Recheck`, `Close`, `PromoteWal`, `PromoteMain`.
`Fail` and `CancelStops` raise at any step; `HandleInterruption` is the except
clause and the close.  `Kill` ends the process anywhere.  Uncommitted work is
not represented, so an exception or a kill between two commits is an exception
or a kill at the step before the second one.

`OutputStore` is the abstract promise about `db_path`: a whole acquisition
appears in one step and goes away only by a permitted overwrite or a deletion.

### 2.2 ParallelParse

A file is waiting, pending in the executor, in its call queue, running, or
ended (parsed, stopped at a chunk, broken with the pool, dropped).  `wpc` walks
`parallel_parse`; the executor's feeder, the workers, the mirror thread and
`Cancel` interleave with it freely.  The `for` loop over the finished futures
is modelled one future at a time in any order (it iterates over a set).

### 2.3 From bytes to rows (ParserMC)

* `Timeline`: the timesync files are walked in name order (`WalkFile` and its
  failures), their boots and anchors registered, the entries of the tracev3
  files resolved in any order of files, then one pass numbers all rows.  An
  offset is a position in a file; a kernel time may exceed what SQLite holds.
* `Chunks`: both passes over the tracev3 files, one chunk a step, with the
  catalog and header in force, the oversize cache, the outcomes of
  decompression, damage at each level, and the token looked at per chunk.
* `Items`: one firehose entry as a cursor over bytes, each byte known by what it
  belongs to: optional fields by flags, item headers, the backtrace, the string
  pool and the private section, whole or cut.
* `Strings`: UUIDText and DSC tables, read by each process for itself, the ids
  the main one hands out, the resolution of a format string by its place, the
  memos, and the filling of the message.
* `BatchWriter`: `add`/`flush` with the lookup cache against SQLite's
  transaction.  The table exists on disk (`committed`), in the open transaction
  (`table`) and in memory (`cache`); ids are positions, as SQLite reissues the
  highest free rowid.  `Rejects` lets SQLite refuse any subset of a batch row by
  row; `Aborts` lets a statement roll the whole transaction back, which is what
  disk-full and I/O errors do: the savepoint is then gone, `ROLLBACK TO` raises
  and the `finally` clause empties the batch.  `parallel`, chosen initially,
  decides what the caller makes of the exception: the end of the run with
  workers, a parse error in the serial path.
* `Compare`: the reference ndjson of Apple's tool is spilled in sorted chunks,
  reduced by a bounded fan-in, and walked in step with the ordered database; the
  reference definition is the in-RAM comparator (`InRam`).

### 2.4 From the device to the court (CustodyMC)

* `Acquire`: a call from connect to report, packed or loose, with a token set at
  any step, failures and kills; `place` is where the collection is, `faulTmp`
  and `faul` the container before and after its rename, `report` the sidecar.
* `Source`: successive `prepare_source` calls on a kept or a temporary work
  root; members are linked, copied or unpacked one by one, the archive
  fingerprinted, files hashed, parsed and hashed again, while `Tamper` changes
  evidence or root from outside and `KillSource` leaves what is there.
* `Session`: successive sessions on one log file and two output names: the
  handler for Ctrl+C, the routing of the first one to the token, the result
  coming back or not, closing the log and storing its digest.
* `Verify`: a tree is hashed, changes, and is checked; a digest is modelled by
  what it is injective in, the paths and digests it is fed, as a set of pairs.  A
  file that cannot be read is left out of the digest, as `hash_logarchive` does
  with a warning, so what a passing check speaks of is the files that could be read.
* `Validate`: every mode the arguments select, as the list of steps it plans
  (`todo`), with the device changing between its two collections, Apple's tool
  failing, and the temporary directories whose files were to be kept.

### 2.5 What is done with a database (AnalysisMC)

* `Annotation`: calls of two processes, row by row: SQL preselection,
  constraints, version window, extraction, one commit, then the refresh of the
  cached summary in its three statements, each of which may be interrupted.
  Signatures are told apart by their place in the knowledge base, and a call
  takes those it has left (`todo`) in the order of the knowledge base.
* `KnowledgeBase`: drafts rendered as YAML, written, reloaded with all the other
  files, taken back on failure.  A text is one of a few kinds, told apart by
  what YAML does to them: a block keeps its lines but for the last newline, and a
  pattern in single quotes has its lines folded into one.
* `Identify`: the device with its clock, the host with another, level with it or
  off by `skew`; the two collections, whose windows begin at whole seconds of the
  host's clock and take lines by the device's; both extracts, the annotation, and `run_diff` in batches
  with one commit, repeated or broken off; then hiding, listing and exporting.
* `Query`: a store that counts once and pages by offset, and a one-shot export
  in separate statements, while another process commits annotations.  The joined
  rows are listed in their `ORDER BY`; the loop that rolls them up is the places
  where a row of another log begins and the rows between two of them.

### 2.6 The window (GuiMC)

* `GuiShutdown`: a task is a `Worker` on its own `QThread`: working, reported
  (its outcome signal is emitted; the screen's handler and `thread.quit` are
  queued, in that order), leaving, gone.  `isRunning()` is true for the first
  three.  A screen has one handle (`_thread`) and one set of callbacks, both
  replaced by every `run_task`, so one variable, `latest`, stands for both;
  `current` is the run whose token the controller holds; `startable` is the
  start button and `device` the picker's selection.  Each action is one event
  served by the GUI thread, except `WorkEnds` and `ThreadEnds`.  Dialogs are
  window-modal, so no screen button works under one.  `CloseWindow` stands for
  the tail of `_recheck` with the `closeEvent` it re-enters: `_cleared` is set,
  so `may_close` answers yes.  A thread that ends while `_begin_drain` runs is
  noticed by its last `_recheck` or, with the same effect, by the poll.
* `AnalysisScreen`: one store held open, a dozen controls that each become a
  filter, a table that counts once and pages, the worker for whose sake the
  store is closed and opened again, and another screen that opens another
  database at any time.  Time stands still; the "last" box is an input of
  `ApplyTimes`, which alone reads it.
* `Wizard`: jobs of one screen, identify runs with their two pauses and device
  scans, each a thread of its own.  What a job reports goes to the callbacks of the
  newest (`jobs`), as `run_task` replaces them; the controller holds the events and
  the token of the newest *run* (`latestRun`), and a worker reads them as it enters
  or leaves a pause (`hears`).  The panels learn of all this through queued signals.
  `misled` records that a run's `on_failed` was told the failure of a scan.
* `ResultsScreen`: the viewer's boxes, search, pages and panel of hidden keys
  over two result databases.
* `LogPanel`: records made on the GUI thread (`LogHere`) or posted from another
  (`Log`, `DeliverRecord`), kept to a maximum, shown by levels; the count and the
  text are kept by increments.

## 3. Runs

Bounds were chosen so that each interesting case occurs and every action of
every module fires in a passing run.

| Run | Distinct states | Instance | Shows |
|---|---|---|---|
| `Parser` | 240,309 | archives of up to three timesync files, four trees of tracev3 files, firehose entries with every set of flags at every place and with item lists of every kind whole or cut, shelves of string tables, a pool of 2 workers over 5 files (a window of 4) with workers that die and a writer that fails, 5 entries of 2 files in batches of 2, references of up to 3 lines against databases of up to 2 rows | times, order, containment and accounting of damage, items, texts, exactly-once within the memory bound, that a parse returns and that a cancel needs no file to end, the writer's books, agreement of both comparators |
| `Custody` | 1,707,135 | 2 device files, 2 preparations with a kept root and one change from outside, 3 calls of the pipeline over 2 files (serial, deferred FTS, full integrity, storage faults, another program on the files, deletions), 2 sessions, a tree of 3 paths, fourteen argument sets on two hosts with up to two devices | each stage leaves, attests or passes what it says; the pipeline over successive calls, the `-wal` following its file, the inductive invariant of the proofs, refinement of `OutputStore` |
| `Analysis` | 1,936,763 | 2 annotators over 4 rows and 4 signatures (2 calls), 2 writes into a knowledge base of 2 files, 3 device events seen from a host whose clock agrees or is ahead, 2 diffs, 4 lines with 6 filters and 2 commits of another process | annotations, statistics, knowledge base, result and readers are true |
| `Gui` | 408,769 | Acquire, Identify, Verify hash and Exploit with 3 operations or scans; 2 cases; 2 results; 3 runs or scans of the wizard; a log of 2 records | the close sequence is safe and completes; the screens show what is there |

Three calls are the least in which a partial is left, replaced and refused, or
a database is finished, deleted and made again.  Five files against a window of
four and two workers give a refill, a full call queue and a pending rest.  Five
entries in batches of two give a full batch, one that spans two files, and a
rest flushed at the end of a file.  Two preparations are a killed one and the
one that finds its root.  Two annotators with two calls give overlapping
refreshes and a clear under a reader.  Two diffs are a result and one that
replaces it.  Three tasks give a scan, a run and a second scan on one screen, or
three screens busy at once.  In the wizard three
jobs are two scans and the run that is told of the second one's failure;
`WizardLosesAbort` has the fourth, the second run that this makes possible.  Parsers are given every kind of damage at every
kind of place once, not every combination.  Files (`ExtractSwallowed`) and
process names (the parser's violation runs) are interchangeable where a run
declares symmetry; no liveness run uses symmetry.

`CHECK_DEADLOCK FALSE` stands where the program stops by itself: an archive is
parsed, a validation over, the bounds of an analysis used up.  In `Gui` the close
sequence is checked for deadlock (the other parts may rest); a pool of workers that
waits for ever is what `ParseReturns` would show.

Runs that *refute* a sentence of the repository, each a finding in
`PROJECT.json`:

| Run | Sentence | What the code does |
|---|---|---|
| `ExtractSwallowed` | "a storage failure is never silently miscounted as a parse error" | the catch-all of `process_tracev3` does just that, and the file is then marked parsed |
| `BatchWriterStaleIds` | lookup rows "survive and the cached ids stay valid" | not when SQLite rolled the transaction back |
| `GuiClosesOnWork` | "an in-flight operation must be stopped before the window goes" | Exploit's annotation runs on a thread no `is_busy` asks about, and a device scan hides a running acquisition in the same way |
| `CustodyOverwrites` | "The originals are only ever read" | a path that both trees hold is copied through the first one's hard link into the original |
| `ValidatePackaged` | "The evidence is COPIED, never moved or modified" | the bundle is built under the name the package was unpacked to, which is removed first |
| `WizardLosesAbort` | whichever pause the worker is in, an abort "unblocks, reaches its `cancel.check()`, and raises `OperationCancelled`" | not once the failure of a device scan was told to a run's callbacks: setup is shown, a second run replaces the token, and the aborted worker reads the new one |
| `SignatureFoldsPattern` | "The regex starts escaped, matching this line exactly" | a pattern of several lines is folded into one by YAML, and loads |
| `ParserPrecision` | "one typed value per format specifier" | the length of a `%.16P` or `%.*s` is taken for the value of its specifier |

`ParsedIsStored` is refuted for the serial path; with workers a refused batch
ends the call.

### 3.1 Fairness

`ParallelParse!Scheduling`, which `ParserMC!FairSpec` adds to its `Spec`, assumes
that the writer thread, the mirror thread, the executor's feeder and idle
workers are scheduled and that a running worker reaches its next chunk boundary
*after the event was set*; it does not assume that a worker ever finishes its
file, which is what the mirror thread exists for; `ParseReturns` has the finiteness
of files as its premise instead.  It speaks of the behaviours of the pool; the other
parts of `ParserMC` are checked for safety only.  `GuiShutdown!Fairness`, which `GuiMC` uses
too, assumes that the event loop serves posted events and the poll, that threads
whose loop was told to quit return, that a run stops once its token is set (the
pipeline's own promise), and that scans and operations without a cancel handler
end by themselves, which is what the comment in `_begin_drain` assumes.  No
other run need ever end, and none of these actions is enabled before a task was
started, so nothing is assumed of the other parts of the window.  No strong
fairness is used.  Nothing is assumed of the pipeline, the wizard's workers or an
operator: that straight-line code with bounded loops ends is not worth a check.

## 4. Proofs

`ExtractProofs` proves, for every set of files, every number of calls and every
option:

* `TypeCorrect`: `ExtractSpec => []TypeOK`
* `Invariant`: `ExtractSpec => []IInv`
* `FinalWhole`: `ExtractSpec => []FinalIsWhole`
* `CompleteWhole`: `ExtractSpec => []CompleteIsWhole`
* `NeverMerged`: `ExtractSpec => []OneAcquisition`
* `Implements`: `ExtractSpec => OutputSpec`, the refinement of `OutputStore`

The assumptions are those of `ExtractAssumption`: the bound is a natural
number, the two "nothing" values are not ordinary ones, options are Boolean.

*The argument.*  None of the properties is inductive: that the file renamed at
the end is whole depends on everything the call did since its guard.  `IInv`
is the conjunction of the properties and six facts: `NothingToMerge` (past the
clearing steps nothing is at `db_path`, and before `ConnectPartial` nothing is at the
working name unless overwriting is about to remove it), `OwnDatabase` (runs in a
partial belong to calls already made, and an open call owns its partial alone),
`TargetSteps` and `LedgerSteps` (which phase each step works in and which
ledger rows are closed by then), `CommittedSteps` (at each `pc`, the milestones
of the steps before it are in `partial`) and `StatusSteps` (which status it
carries).  A step preserves them because it adds its own milestone and moves
`pc` by one; an exception or a kill only weakens what is claimed.  `FinalIsWhole`
then follows at `PromoteMain`, the only step that writes `final`, from what
`CommittedSteps` says at that `pc`.  For the refinement, the steps of a call
stutter in `OutputStore`, except that `ClearFinal` and `DeleteFinal` take the
result away and `PromoteMain` publishes one: its guard is `NothingToMerge` again.

Its second part proves, in the same generality, what one call leaves:

* `LedgerTruthful`: `ExtractSpec => []LedgerIsTruthful`
* `CancelIsHonoured`: `ExtractSpec => []CancelHonoured`
* `WalFollows`: `ExtractSpec => []FinalHasItsWal`
* `CompleteIsKept`: `ExtractSpec => CompleteStands`

*The argument.*  `CallInv`, inductive relative to `IInv`, has four parts, proved
action by action: `TokenFacts` (when the token was set, and that a call gets to
its last steps only with it unset), `RunFacts` (which acquisitions the working
file may hold, that each has a status, and that a cancelled one's is not
"complete"), `LedgerFacts` (the ledger property with the phase being entered)
and `WalFacts` (whose frames each sidecar holds: the call's own, renamed before
its database).  The last theorem is an action property, proved step by step:
once "complete" is written, what may still happen to the call - a failing
re-check, a late token, a kill - leaves it.

`ParallelParseProofs` proves, for any number of files and of workers, whether or
not the writer may fail and workers may die (`ParallelParseAssumption`):

* `RowsWrittenOnce`: `PoolSpec => []HandledOnce`
* `ReturnIsComplete`: `PoolSpec => []ReturnMeansAllHandled`

*The argument.*  `IInv` says where a file may be: submitted in order, out of the
window when its result is in hand (`InHand`), written at most once and only when
parsed (`Written`); that the files whose rows exist but are not written are in
the window or in hand, which leaves room for itself (`Window`); and that without
an exception no submitted file is lost between window, hand and database, and
the window is not empty while there is a file left (`NoneForgotten`).  The bound
on memory then follows from the size of the window, completeness from its being
empty.

`ListingProofs` proves what the other modules need of `Listing`: a finite set in
an order is listed once each, in order, and in one way only (`ListedListsAll`,
`OneListing`; `EnumeratedListsAll` for numbers), counting what is below a member
tells its place (`BelowCounts`), and what is left of a sequence keeps its order
(`WithoutKeepsOrder`).  `CountingUp` is induction up to a number, for a set instead
of an operator.

`CustodyProofs` proves the five stages of the chain, for any sets of files,
devices, outputs, contents and arguments, any number of calls and any change
from outside, from the assumption of each module (the "nothing" values are not
ordinary ones, bounds and sizes are numbers, `Acquire` has a finite nonempty set
of files; for `Validate`, that a file which was rewritten is not a prefix of what
it was, nor the reverse: its first byte tells the two apart):

* `AcquisitionIsWhole`: `AcquireSpec => []OutputIsWhole`
* `StoppedEarlyLeavesNothing`: `AcquireSpec => []CancelLeavesNoOutput`
* `OnlyThisCallsEvidence`: `SourceSpec => []NoForeignEvidence`
* `AttestationHolds`: `SourceSpec => []AttestationIsTrue`
* `SealsCover`: `SessionSpec => []SealCoversSession`
* `VerificationIsTrue`: `VerifySpec => []VerifyTellsTheTruth`
* `ValidationTellsTheTruth`: `ValidateSpec => []ValidationIsHonest`
* `CustodyHolds`: `Spec` of `CustodyMC` implies all seven and the `ExtractSpec` of the
  pipeline, of which `ExtractProofs` speaks

*The argument.*  `AcquireInv`: the collection is whole when hashing begins, a
name is taken last, and a token set before hashing is still set at the first
file.  `SourceInv`: from the moment the root is filled all that is in it is of
this call and of the chosen zip root, and the versions of a path's bytes at the
hash, at the parse and now are in that order; equal digests at both ends
therefore pin the one in the middle.  The archive's fingerprint covers it when
its two windows do, which is arithmetic on sizes.  `SessionInv`: the log only
grows, a number is never used again, and a session is sealed after its log was
closed, so no line of its own can follow.  `VerifyInv`: what the extraction left
is of the tree as it was, and what the file comparison found holds until the
global one; that two trees with one digest agree on every file that can be read is
`HashTreeInjective`.
`ValidateInv`: which steps may follow which (`AfterStep`, over the plans
`_dispatch` makes), which collection exists at each of them, and what the device
did to each file in between (`Became`); that `_prefix_verdict` names it is
`VerdictMeans`.  The composed specification moves one stage at a time, so its
behaviours are behaviours of each.

`AnalysisProofs` proves what is done with a database, for any rows, signatures,
drafts and bounds, from the assumptions of the modules (`KbAssumption`: a draft's
rendering is neither absent nor broken; `AnnotationAssumption`: rows and
signatures are finite sequences, a batch is not empty; `IdentifyAssumption`;
`QueryAssumption`: finitely many logs with their times and annotations, each of a
log and a signature):

* `KnowledgeBaseIsSound`: `KbSpec => []KbIsSound`
* `ActionIsFound`: `IdentifySpec => []ResultIsTrue`
* `AnnotationsAreExact`: `AnnotationSpec => []AnnotatedExactly`
* `SummaryNeverStale`: `AnnotationSpec => []SummaryIsCurrent`
* `ReadersHold`: `QuerySpec => []ReadersAreTrue`, from `LogsAreYieldedWhole` (the
  rollup undoes the joins) and `PageIsPartOfAnswer`
* `AnalysisHolds`: `Spec` of `AnalysisMC` implies all five

*The argument.*  `KbInv`: while a write is open its file is the only difference
to the directory before it.  `IdentifyInv`: what the operator caused is carried
from the log, where it is inside the second window (rounding to whole seconds
goes the right way, unless the host's clock is ahead of the device's: then it is said
only of what carries a time inside), to the archive to the database; what is committed of a diff
is nothing or all.  `AnnotatingInv`: no two calls write under one id, and an open
transaction is exact for each signature but the one in the cursor, for which the
matches among the rows passed are those stored or in the batch.  The commit is
then exact because the cursor's set is empty.  `RefreshInv`: unless a refresh was
killed or met another, there is one refresher and what it has seen is still so.
The joined rows of a log are next to each other because they are ordered by log
first, so the places where the log changes list the logs in time order; there is
only one such list (`OneListing`), and between two places are all rows of one log
(`RolledUpByLog`).  `QueryInv`: until something is committed, the pages are the
beginning of the answer that was counted, and an export has the columns of the
rows it will write.

`TimelineProofs` proves, for any archives whose files are sequences of items of the
known kinds, kernel times and deltas being unsigned (`TimelineAssumption`):

* `OrderIsThatOfTheBytes`: `TimelineSpec => []TimelineIsCanonical`
* `TimesAreThoseOfTheBytes`: `TimelineSpec => []TimesAreExact`

`ParserProofs` proves, for any number of files and entries, any batch size and
whichever of `Rejects` and `Aborts` is allowed (`BatchWriterAssumption`), for
any string tables (`ShelvesAssumption`: a path names one file, the ranges of a DSC
file do not overlap, as `find_range` says, and the uuid of a shared cache is that
of no binary), and for any archives of tracev3 files (`TreesAssumption`: finitely
many, each with one place, made of chunks of the known kinds, damage included):

* `WriterHolds`: `WriterSpec => []WriterInv`
* `StoredNamesHold`: `WriterSpec => []NamesAreTrue`
* `NothingLostSilently`: `WriterSpec => []EveryEntryAccounted`
* `StringsAreTheirs`: `StringsSpec => []StringsAreSound`
* `ChunksAreThoseOfTheBytes`: `ChunksSpec => []ChunksAreSound`
* `ParserHolds`: `Spec` of `ParserMC` implies these four properties and the two of
  the timeline

*The argument.*  `WriterInv` keeps the books of the entries handed over: stored,
queued and dropped ones are disjoint, in order, and all of them until a
transaction is lost (`Books`, `AllBooked`); and cache, open transaction and disk
agree on the meaning of every id until then (`LookupHolds`).  With workers the run
ends when a transaction is lost, so what is stored keeps its names.  In the serial
path it goes on, and a stored row may then name another process: that is the run
`BatchWriterStaleIds`.

The order rests on one relation between a list of boots and a set of places in
the timesync files (`InOrderSeen`): each boot named there is listed once, by its
first place, and the list is in the order of these places.  It holds item after
item of a file (`WalkHolds`, with the boots already merged and the open one), for
a merge puts new names last (`MergeNames`) and a list joined by those of a later
set of places, less the ones it has, keeps it (`SeenJoined`); the walk of a file is
a recursive function, followed by `CountingUp`.  By the same lemma it holds of the
ranks file after file (`RanksHold`): nothing about a file that was skipped, or that
lies past damage, enters.  When all is walked a rank therefore points to the boot's
first readable header (`RanksArePlaces`); rows differ in file or place
(`RowsHold`), so that the keys of `assign_ordering` and those of the bytes order
them alike (`SameOrder`), and counting the rows below a row numbers them in that
order (`BelowCounts`).

The times need more than the names: where each record of each boot went.  `TimesInv`
adds to `TimelineInv` that the dict tells the bytes (`BookTold`): a boot's header is
its earliest readable one, and the records kept for it, read as places, follow the
readable records it owns there (`Follows`).  That is not "are, in order": a bad
signature commits the open boot a second time, so a stretch of records may be
repeated.  What survives the repetition, and is what a search needs, is that no place
comes before the first mention of an earlier one, and that each is the latest so far
unless the stretch it ends is repeated next.  The relation holds of the open boot and
the dict after each item (`WalkTells`), of the dict of a file (`FileIsTold`), and of
the merged one file after file (`MergedTold`, `WalkKeepsBooks`).  The rest of
`TimesInv` is that each header and record has an anchor row (`AnchorsHold`) and that
each stored row is what the dict, which no longer changes, says of its entry
(`LogsHold`), whichever worker stored it.  Bisection and the walk find the same place
(`FoundIsLastAtOrBefore`); in records that ascend it is the latest at or before the
entry, the only one to look for (`Selected`, `AnchorIsExpected`).

`StringsInv` says that what a process has read, the ids it was given and each of
its memos are functions of what is on disk alone (`ReadersAgree`, `MemosHold`), so
that it does not matter which process resolves an entry, nor when.  That a lookup
finds the string at the entry's cell is then a matter of the tables: ranges that
lie back to back begin behind the bytes of those before (`BackToBack`), and the
binary search finds the one range that holds an offset (`OwnerIsFound`).  The loop
of `format_message` and the pieces of the reference are both loops over the tokens
(`LoopsEnd`, `Flattened`); after each token they agree, the index of the next item
being the number of specifiers so far while there are items (`FormatIsFilled`).

`ChunksInv` says what either pass has taken from the archive before the chunk it
reads next.  In the oversize pass: the catalog in force (`CatalogFor`) and, for each
process and reference, the newest text among the sub-chunks behind it
(`GatheredIn`), which at the end is that of the archive (`AllGathered`).  In the
parse pass: the catalog and the boot in force, and that the rows and the count are
*told* up to this place (`Told`): the rows are those of the records of the archive
(`Places`) ahead of it, in their order, and the count is the number of `Damages` ahead
of it.  Places and damage are both marks in one ordered address space (file, chunk,
sub-chunk, entry), so each loop of `process_tracev3` is a walk over marks, and three
laws carry it: a stretch without marks changes nothing (`NothingPassed`), a record
adds its row (`RecordPassed`), a damage adds one (`DamagePassed`).  The loops over
entries and sub-chunks are functions on 0..n whose values are told up to the next
place (`EntriesTold`, `SetTold`).  What ends a file leaves no mark behind it
(`NoneBehind`): that is why damage takes nothing else with it.  A listing told up to
any place is the beginning of the whole one (`BeginningOfListing`), which gives the
prefix of a cancelled run and, at the last place, equality.  That a row built with
`get_process_info` and the cache is the row read off the archive is
`FirehoseRowsAreExpected` and `DumpRowsAreExpected`.

`GuiProofs` proves, for any set of screens, number of operations, databases,
results and pages (`GuiShutdownAssumption`, which screens are hosts and which of
them have a cancel handler or a picker; `ResultsAssumption`; `ScreenAssumption`:
the databases are finite tables with their times, and no database is the one that
stands for "none"; `LogPanelAssumption`: the panel holds at least one record):

* `Invariant`: `Spec => []IInv` of `GuiShutdown`
* `ShownWorkOver`: `Spec => []ShownWorkIsOver`
* `DrainReachesTheRun`: `Spec => []DrainStopsTheRun`
* `WizardAgrees`: `WizardSpec => []WizardIsHonest`
* `ViewerAgrees`: `ResultsSpec => []ResultsAreShown`
* `ScreenAgrees`: `ScreenSpec => []ScreenIsTrue`
* `PanelAgrees`: `LogPanelSpec => []LogPanelIsTrue`
* `WindowHolds`: `GuiSpec` of `GuiMC` implies these six properties of its parts

*The argument.*  `IInv`: a thread is told to quit only after its outcome was
delivered (the order of two connections in `start_worker`), a screen's handle was
started, and the window closes only while no screen is busy; the first is what
turns "no longer busy" into "outcome delivered".  `DrainInv`: a controller holds
the token of the newest run of its screen even when a scan has taken its place as
the screen's thread, and what is busy in the drain was asked when it began.
`WizardInv`: which runs and scans were started (`JobsInOrder`), where `abort()` may
stand between its three calls, that nobody is woken in the action pause of the newest
run before the token is set (`PromiseHolds`), that an outcome is
the last word of its job in the queue (`QueueInOrder`), and, unless a run's callbacks were told the
failure of a scan, that one run is alive while its panels show, and which signal is
still queued when a pause shows the wrong one (`OneRunShown`).  `ResultsInv`: the table is the page of
a listing under the controls as they are.  `ScreenInv`: the widgets hold what the
open database offers, the filters are those of the controls and the store can
answer them (`Agree`), and the table is the head of that answer unless a worker
writes into that very database; annotation is offered only for one that has none
and is off while a worker runs.  That a picked span keeps its rows although the
pickers cut to whole seconds rests on the second more the seeded span is given
(`SpanIsSeeded`).  `LogPanelInv`: the text ends with the lines a redraw would show
and the count is theirs, unless the panel is paused.  That one record more, and one
evicted, changes both as the increments do is a law of the filter
(`WithoutAppend`, `WithoutTail`); that the text, which drops its own oldest block,
cannot cut into those lines follows from there being at most as many as records.

Only model-checked:

* Liveness (`CancelEndsTheParse`, `ParseReturns`, `QuitCompletes`), which the proof
  system does not support.
* `ItemsAreSound`, `ComparisonIsSound`: what they compare is computed by folds and
  filters over sequences, whose laws are inductions over data with an operator as
  parameter.

To re-run: `tlc -config Custody.cfg ChainMC`, `tlc -config Gui.cfg GuiMC`
and likewise for the others (`PROJECT.json` names each run's module); `tlapm` on
each of `ExtractProofs`, `ParallelParseProofs`, `ListingProofs`, `CustodyProofs`,
`AnalysisProofs`, `TimelineProofs`, `ParserProofs`, `GuiProofs`.

## 5. Not modelled

* Power loss with `synchronous=OFF`, which loses commits: `Kill` keeps every
  commit, as a process kill does.
* Two *concurrent* calls on one output (a hazard without a property: nothing in
  the code or its documentation says what should happen).
* `-shm` files: they carry no content and move with the `-wal`.
* Printed forms: the textual timestamps, the three export formats, reports,
  consoles, the decoders' tables (`decoder_tables.py`), statedump contents, and
  the record fields no property tells apart.
* `shutdown.log`: a line-by-line text parser whose rows are one commit of
  `Extract`.
* `app/diagnostics.py`: reports on Python's own frames, on which nothing else in
  the program depends.
* Widgets, styling and forms that only show; the benchmark, the scripts and the
  command line's option parsing.
* Evidence that is changed and changed back between a digest and its re-check:
  `Tamper` always leaves bytes that were not there before, since no digest taken at
  two moments can tell.
* A spill cut exactly between two lines (`merge_compare.py:138`): `SpillTorn` cuts
  inside a line, which the reader notices; it would take the other for a shorter spill.
* A `count()` that fails as a result is opened (section 5.1).
* Which of the source kinds a path is, and what a device answers: inputs of
  `Source` and `Acquire`.

`PROJECT.json` gives each part's status and reason.

### 5.1 Seen while modelling

Behaviour of the code that the modules had to follow, none of it a checked
finding.  Where a property makes an exception, it is for one of these.

* `launcher/cmds/extract_cmd.py:406` passes `reset_work_dir=` to
  `run_extract_session`, which has no such parameter.
* The log is "sealed on every exit path" (`docs/cli/extract.md:236`), but a
  session without a result has no row to seal.  Appending a second session to a
  log makes the first one's digest outdated; `SealCoversSession` is about what
  was sealed.
* `access.py:96` accepts a partial without a metadata row
  (`docs/cli/extract.md:225`); a stale `-wal` beside a deleted database is
  adopted (`extract.py:570`).
* A rescan during an acquisition takes its callbacks, and the start button stays
  off (`screen_base.py:223`).  In the wizard a scan that ends over a run is told to
  the run's callbacks; what follows its failure (setup is shown over a live worker, a
  second run, a pause nobody can answer) is exempted from `WizardIsHonest` by
  `misled`, except for the abort of the newest run, and is the finding of
  `WizardLosesAbort`.
* The windows of identify begin at the host's clock and the lines carry the device's
  (`workflow.py:264`, `:281`): with the host ahead, what the operator did may be cut
  away.  Nothing in the repository says the two agree; `ResultIsTrue` claims every
  line only where the host is not ahead.
* A file that cannot be read is left out of an archive's digest with a warning
  (`integrity.py:98-100`), so a check may pass over it.
* `acquire.py:274` swallows a failure to hash; a kill after the rename at 277
  leaves no report.  An acquisition from a temporary work root cannot be verified
  later: the recorded paths are gone.
* A kept work root is claimed by looking and then filling it, so two runs may
  both claim it (`sources/base.py:221`).
* A timesync record with a bad signature commits its boot twice; a kernel time
  of 2^63 or more raises `OverflowError` out of the set-up
  (`timesync_setup.py`).
* An entry whose format is dynamic is filled using its own text as the format
  (`format_string.py:64-67`), and such entries and those of a missing DSC have
  an empty process UUID, unlike `entry_builder.py:241-242` says.
* The oversize cache is kept over boots, so where a key is used again the later
  chunk wins; a short compressed chunkset raises where the docstring promises
  `None`; truncated chunks are warnings, not parse errors; of two string tables
  with one UUID the last UUIDText and the first DSC are taken.
* `format_timestamp` of a local time rounds through a float and may show the
  next second.
* The out-of-core comparison counts user actions differently from the in-RAM
  one; kept files of a validation are deleted with the resources that own them
  (`validation/pipeline.py:79-97`).
* `write_signature` takes back a file only on `KnowledgeBaseError`; a YAML block
  drops a trailing newline, and a pattern of several lines is folded
  (`SignatureFoldsPattern`; both are exceptions of `WrittenIsDraft`); `on` and `off` are not among the reserved words.
* A summary may be stale after a kill or after two overlapping refreshes; a diff
  removes the previous result before the new one is committed; rows at the very
  instant of the cutoff are taken for baseline; CSV labels are discovered before
  the rows are read.
* In the analysis screen, "Remove and annotate again" without a knowledge base
  leaves the store closed, a failing removal does too, and the end of an
  annotation jumps back to the database that was annotated.
* In the wizard, the "still" panel stays during the first collection, and an
  abort after the second pause was checked lets the run complete.
* The log panel's header count is of records; its text drops its own oldest
  blocks, so more lines can be on screen than counted (`log_panel.py:226-228`).
* When `count()` raises after the store was swapped (`screen_identify_results.py:200-208`),
  the table of the database opened before stays over the new store.
* The results viewer keeps the search box, its pending debounce and the panel of
  hidden rules of the database opened before.

## 6. Plan

Done: the pipeline with its refinement and proofs; the workers, the writer, the
chain of custody, annotation, knowledge base and identification, and the window's
close sequence, wizard, viewer, analysis screen and log, each modelled, checked and proved.  Next, in
this order:

1. Proofs: the other properties of the parser, their folds written as recursive
   functions where that says the same.
2. `SharedOutput`: two concurrent `run_extract` calls on one output, once the
   program says what should happen.
3. The remaining decoders as functions on bounded inputs, where they have a
   reference to be compared with.
