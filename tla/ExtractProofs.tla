--------------------------- MODULE ExtractProofs ---------------------------
(***************************************************************************)
(* Theorems about Extract, for every set of files, every number of calls   *)
(* and every choice of the options.                                        *)
(***************************************************************************)
EXTENDS Extract, FiniteSetTheorems, TLAPS

\* Where the database of the current call exists under the .partial name.
Live == Guarded \cup {"close", "promoteWal", "promoteMain", "unwind"}

\* The phases entered before t, and what was committed by then.
Before(t) ==
  CASE t = "prepare"  -> {}
    [] t = "parse"    -> {"prepare"}
    [] t = "ordering" -> {"prepare", "parse"}
    [] t = "index"    -> {"prepare", "parse", "ordering"}
    [] t = "fts"      -> {"prepare", "parse", "ordering", "index"}
    [] t = "stats"    -> LedgerPhases \ {"stats"}

Have(t) ==
  CASE t = "prepare"  -> {}
    [] t = "parse"    -> {"schema", "sources"}
    [] t = "ordering" -> {"schema", "sources", "shutdown"}
    [] t = "index"    -> {"schema", "sources", "shutdown", "ordering"}
    [] t = "fts"      -> {"schema", "sources", "shutdown", "ordering", "index"}
    [] t = "stats"    -> Required

\* Neither name is occupied when the database is created, nor db_path when
\* it is renamed.
NothingToMerge ==
  /\ pc \notin {"idle", "prepare", "clearFinal"} => final = NoDb
  /\ pc = "clearFinal" => overwrite
  /\ pc = "prepare" /\ ~overwrite => final = NoDb /\ partial = NoDb
  /\ pc \in {"clearPartialWal", "connect"} => partial = NoDb

\* The current call's metadata row is the only one of its database.
OwnDatabase ==
  /\ pc \in Live => partial # NoDb
  /\ pc # "idle" => attempt \in Runs
  /\ pc \in {"schema", "prepareOpen", "prepareClose", "metadata"}
       => partial.runs = {} /\ partial.status = "none" /\ partial.parsed = {}
  /\ pc \in Live \ {"schema", "prepareOpen", "prepareClose", "metadata", "unwind"}
       => partial.runs = {attempt}
  /\ pc = "mark" => cur \in TraceFiles

\* The ledger at each step: the phase being worked on is the open row.
LedgerSteps ==
  /\ pc \in {"prepare", "clearFinal", "clearFinalWal", "clearPartial",
             "clearPartialWal", "connect"} => phase = NoPhase
  /\ pc = "schema"
       => phase = NoPhase /\ partial.open = {} /\ partial.closed = {}
  /\ pc = "prepareOpen"
       => phase = NoPhase /\ partial.open = {} /\ partial.closed = {}
  /\ pc = "prepareClose"
       => phase = NoPhase /\ partial.open = {"prepare"} /\ partial.closed = {}
  /\ pc \in {"metadata", "sources", "oversize"}
       => phase = NoPhase /\ partial.open = {} /\ partial.closed = {"prepare"}
  /\ pc = "leave"
       => /\ phase # target /\ phase \in Before(target) \cup {NoPhase}
          /\ partial.open = (IF phase = NoPhase THEN {} ELSE {phase})
          /\ partial.closed = Before(target) \ {phase}
  /\ pc = "begin"
       => phase = NoPhase /\ partial.open = {} /\ partial.closed = Before(target)
  /\ pc \in {"parse", "mark", "shutdown", "ordering", "index", "fts", "verify",
             "bounds", "stats", "statsLeave"}
       => /\ phase = target /\ partial.open = {target}
          /\ partial.closed = Before(target)
  /\ pc \in {"complete", "recheck", "close", "promoteWal", "promoteMain"}
       => phase = NoPhase /\ partial.open = {} /\ partial.closed = LedgerPhases

\* Which phase the pipeline is in at each of its steps.
TargetSteps ==
  /\ pc \in {"leave", "begin"} => target # "prepare" /\ (target = "fts" => FastFts)
  /\ pc \in {"parse", "mark", "shutdown"} => target = "parse"
  /\ pc \in {"ordering", "index", "fts"} => target = pc
  /\ pc = "fts" => FastFts
  /\ pc \in {"verify", "bounds"} => target = (IF FastFts THEN "fts" ELSE "index")
  /\ pc \in {"stats", "statsLeave"} => target = "stats"

\* What is committed when the pipeline is at each of its steps.
CommittedSteps ==
  /\ pc \in {"prepareOpen", "prepareClose", "metadata", "sources"}
       => "schema" \in partial.done
  /\ pc = "oversize" => Have("parse") \subseteq partial.done
  /\ pc \in {"leave", "begin", "parse", "mark", "shutdown", "ordering", "index",
             "fts", "stats", "statsLeave"}
       => Have(target) \subseteq partial.done
  /\ pc = "verify" => Required \ {"integrity", "bounds"} \subseteq partial.done
  /\ pc = "bounds" => Required \ {"bounds"} \subseteq partial.done
  /\ pc \in {"complete", "recheck", "close", "promoteWal", "promoteMain"}
       => Required \subseteq partial.done
  /\ pc \in {"leave", "begin"} => (target # "parse" => partial.parsed = TraceFiles)
  /\ pc \in {"shutdown", "ordering", "index", "fts", "verify", "bounds",
             "stats", "statsLeave", "complete", "recheck", "close",
             "promoteWal", "promoteMain"}
       => partial.parsed = TraceFiles

\* The status says "complete" from the last commit of a call on.
StatusSteps ==
  /\ pc \in Guarded \ {"recheck"} => partial.status # "complete"
  /\ pc \in {"recheck", "close", "promoteWal", "promoteMain"}
       => partial.status = "complete"

\* The inductive invariant: FinalIsWhole and CompleteIsWhole hold after the
\* rename because, step by step, the ledger, the milestones and the owner of
\* the .partial are those its place in the pipeline implies.
IInv ==
  /\ TypeOK
  /\ FinalIsWhole /\ CompleteIsWhole
  /\ NothingToMerge /\ OwnDatabase
  /\ LedgerSteps /\ TargetSteps /\ CommittedSteps /\ StatusSteps

-----------------------------------------------------------------------------
USE DEF Phases, NoPhase, Milestones, Statuses, Runs, Steps, Outcomes, Database,
        Guarded, Unguarded, Stoppable

\* _handle_interruption: of the database the status changes at most, and whether its -wal
\* holds frames it needs.
LEMMA MarkedOnTheWay ==
  ASSUME HandleInterruption
  PROVE  \E s \in {"cancelled", partial.status} :
           partial' \in {[partial EXCEPT !.status = s, !.walled = FALSE],
                        [partial EXCEPT !.status = s]}
<1> QED
  BY DEF HandleInterruption

\* Every step keeps every variable in its type.
LEMMA TypeStep ==
  ASSUME TypeOK, OwnDatabase, [ExtractNext]_extract
  PROVE  TypeOK'
<1> USE ExtractAssumption DEF TypeOK, OwnDatabase, Live, extract, disk, call, Quiet, Commit, Go,
        EmptyDatabase
<1>1. CASE Start
  <2>1. attempt' \in 0..MaxRuns /\ pc' \in Steps /\ outcome' \in Outcomes
    BY <1>1 DEF Start, StartGuarding
  <2>2. overwrite' \in BOOLEAN /\ cancelled' \in BOOLEAN
    BY <1>1 DEF Start, StartGuarding
  <2>3. /\ phase' \in Phases \cup {NoPhase} /\ bar' \in Phases
        /\ cur' \in TraceFiles \cup {NoFile} /\ heard' \in Steps \cup {"never"}
    BY <1>1 DEF Start, StartGuarding
  <2>4. UNCHANGED <<disk, target>>
    BY <1>1 DEF Start, StartGuarding
  <2> QED
    BY <2>1, <2>2, <2>3, <2>4
<1>2. CASE Prepare
  BY <1>2 DEF Prepare
<1>3. CASE ClearFinal
  BY <1>3 DEF ClearFinal
<1>4. CASE ClearFinalWal
  BY <1>4 DEF ClearFinalWal
<1>5. CASE ClearPartial
  BY <1>5 DEF ClearPartial
<1>6. CASE ClearPartialWal
  BY <1>6 DEF ClearPartialWal
<1>7. CASE ConnectPartial
  BY <1>7 DEF ConnectPartial
<1>8. CASE InitSchema
  <2>1. partial \in Database
    BY <1>8 DEF InitSchema
  <2>2. partial' \in Database
    BY <1>8, <2>1 DEF InitSchema
  <2> QED
    BY <1>8, <2>2 DEF InitSchema
<1>9. CASE RecordPrepareOpen
  BY <1>9 DEF RecordPrepareOpen
<1>10. CASE RecordPrepareClose
  <2>1. partial \in Database
    BY <1>10 DEF RecordPrepareClose
  <2>2. partial' \in Database
    BY <1>10, <2>1 DEF RecordPrepareClose
  <2> QED
    BY <1>10, <2>2 DEF RecordPrepareClose
<1>11. CASE InsertMetadata
  <2>1. partial \in Database
    BY <1>11 DEF InsertMetadata
  <2>2. partial' \in Database
    BY <1>11, <2>1 DEF InsertMetadata
  <2> QED
    BY <1>11, <2>2 DEF InsertMetadata
<1>12. CASE RegisterSources
  BY <1>12 DEF RegisterSources
<1>13. CASE CollectOversize
  BY <1>13 DEF CollectOversize, Enter
<1>14. CASE LeavePhase
  <2>1. partial \in Database
    BY <1>14 DEF LeavePhase
  <2>2. partial' \in Database
    BY <1>14, <2>1 DEF LeavePhase, Closed
  <2> QED
    BY <1>14, <2>2 DEF LeavePhase, Closed
<1>15. CASE BeginPhase
  BY <1>15 DEF BeginPhase
<1>16. CASE TakeFile
  BY <1>16 DEF TakeFile
<1>17. CASE StoreBatch
  BY <1>17 DEF StoreBatch
<1>18. CASE FlushFile
  BY <1>18 DEF FlushFile
<1>19. CASE SwallowStorageFault
  BY <1>19 DEF SwallowStorageFault
<1>20. CASE MarkParsed
  <2>1. partial \in Database
    BY <1>20 DEF MarkParsed
  <2>2. partial' \in Database
    BY <1>20, <2>1 DEF MarkParsed
  <2> QED
    BY <1>20, <2>2 DEF MarkParsed
<1>21. CASE ParseLoopDone
  BY <1>21 DEF ParseLoopDone
<1>22. CASE IngestShutdownLog
  BY <1>22 DEF IngestShutdownLog, Enter
<1>23. CASE AssignOrdering
  BY <1>23 DEF AssignOrdering, Enter
<1>24. CASE FinalizeIndexes
  BY <1>24 DEF FinalizeIndexes, AfterIndex
<1>25. CASE FinalizeFts
  BY <1>25 DEF FinalizeFts
<1>26. CASE VerifySourceFiles
  BY <1>26 DEF VerifySourceFiles
<1>27. CASE UpdateMetadata
  BY <1>27 DEF UpdateMetadata, Enter
<1>28. CASE RefreshSummary
  BY <1>28 DEF RefreshSummary
<1>29. CASE LeaveStats
  <2>1. partial \in Database
    BY <1>29 DEF LeaveStats
  <2>2. partial' \in Database
    BY <1>29, <2>1 DEF LeaveStats, Closed
  <2> QED
    BY <1>29, <2>2 DEF LeaveStats, Closed
<1>30. CASE SetComplete
  BY <1>30 DEF SetComplete
<1>31. CASE Recheck
  BY <1>31 DEF Recheck
<1>32. CASE Close
  <2>1. partial \in Database
    BY <1>32 DEF Close
  <2>2. [partial EXCEPT !.walled = FALSE] \in Database
    BY <2>1
  <2>3. partial' \in Database
    BY <1>32, <2>1, <2>2 DEF Close, Checkpoint
  <2>4. partialWal' \in 0..MaxRuns
    BY <1>32 DEF Close, Checkpoint
  <2> QED
    BY <1>32, <2>3, <2>4 DEF Close
<1>33. CASE PromoteWal
  BY <1>33 DEF PromoteWal
<1>34. CASE PromoteMain
  BY <1>34 DEF PromoteMain
<1>35. CASE HandleInterruption
  <2>1. partial \in Database
    BY <1>35 DEF HandleInterruption
  <2>2. PICK s \in {"cancelled", partial.status} :
          partial' \in {[partial EXCEPT !.status = s, !.walled = FALSE],
                       [partial EXCEPT !.status = s]}
    BY ONLY <1>35, MarkedOnTheWay
  <2>3. partial' \in Database
    <3>1. /\ [partial EXCEPT !.status = s, !.walled = FALSE] \in Database
          /\ [partial EXCEPT !.status = s] \in Database
      BY <2>1
    <3> QED
      BY <2>2, <3>1
  <2>4. partialWal' \in 0..MaxRuns
    BY <1>35 DEF HandleInterruption
  <2> QED
    BY <1>35, <2>3, <2>4 DEF HandleInterruption
<1>36. CASE Fail
  BY <1>36 DEF Fail, FailWith
<1>37. CASE CancelStops
  BY <1>37 DEF CancelStops, FailWith
<1>38. CASE Kill
  BY <1>38 DEF Kill
<1>39. CASE CancelCall
  BY <1>39 DEF CancelCall
<1>40. CASE ReaderLeavesWal
  <2>1. final \in Database
    BY <1>40 DEF ReaderLeavesWal
  <2>2. final' \in Database
    BY <1>40, <2>1 DEF ReaderLeavesWal
  <2>3. finalWal' \in 0..MaxRuns
    BY <1>40, <2>1 DEF ReaderLeavesWal
  <2> QED
    BY <1>40, <2>2, <2>3 DEF ReaderLeavesWal
<1>41. CASE DeleteFinal
  BY <1>41 DEF DeleteFinal
<1>42. CASE AllDone
  BY <1>42 DEF AllDone
<1>43. CASE UNCHANGED extract
  BY <1>43
<1>44. QED
  BY <1>1, <1>2, <1>3, <1>4, <1>5, <1>6, <1>7, <1>8, <1>9, <1>10, <1>11,
     <1>12, <1>13, <1>14, <1>15, <1>16, <1>17, <1>18, <1>19, <1>20, <1>21,
     <1>22, <1>23, <1>24, <1>25, <1>26, <1>27, <1>28, <1>29, <1>30, <1>31,
     <1>32, <1>33, <1>34, <1>35, <1>36, <1>37, <1>38, <1>39, <1>40, <1>41,
     <1>42, <1>43 DEF ExtractNext, Pipeline, Environment, Parse

\* The steps that create, own or close the database, or touch its ledger
\* more than once: one part of the invariant after the other.
LEMMA OwningSteps ==
  ASSUME IInv, TypeOK',
         \/ ConnectPartial \/ InitSchema \/ RecordPrepareClose \/ InsertMetadata
         \/ LeavePhase \/ BeginPhase \/ UpdateMetadata \/ LeaveStats
         \/ Close \/ HandleInterruption \/ ReaderLeavesWal
  PROVE  IInv'
<1> USE ExtractAssumption DEF IInv, TypeOK, Live, extract, disk, call, Quiet,
        Commit, Go, EmptyDatabase
<1>1. CASE ConnectPartial
  <2>1. (FinalIsWhole /\ CompleteIsWhole)'
    BY <1>1, SMTT(20) DEF ConnectPartial, FinalIsWhole, CompleteIsWhole, Whole,
       OwnDatabase, NothingToMerge, StatusSteps
  <2>2. NothingToMerge'
    BY <1>1, SMTT(20) DEF ConnectPartial, NothingToMerge, OwnDatabase
  <2>3. OwnDatabase'
    <3>1. partial' = EmptyDatabase
      BY <1>1 DEF ConnectPartial, NothingToMerge
    <3>2. EmptyDatabase \in Database
      OBVIOUS
    <3>3. partial' # NoDb /\ partial'.runs = {} /\ partial'.status = "none" /\ partial'.parsed = {}
      BY <3>1, <3>2
    <3> QED
      BY <1>1, <3>3 DEF ConnectPartial, OwnDatabase
  <2>4. LedgerSteps'
    BY <1>1, SMTT(20) DEF ConnectPartial, LedgerSteps, OwnDatabase,
       NothingToMerge, TargetSteps, Before, LedgerPhases
  <2>5. TargetSteps'
    BY <1>1, SMTT(20) DEF ConnectPartial, TargetSteps
  <2>6. CommittedSteps'
    BY <1>1, SMTT(20) DEF ConnectPartial, CommittedSteps, OwnDatabase,
       TargetSteps, Have, Required
  <2>7. StatusSteps'
    BY <1>1, SMTT(20) DEF ConnectPartial, StatusSteps, OwnDatabase, NothingToMerge
  <2> QED
    BY <2>1, <2>2, <2>3, <2>4, <2>5, <2>6, <2>7
<1>2. CASE InitSchema
  <2>1. (FinalIsWhole /\ CompleteIsWhole)'
    BY <1>2, SMTT(20) DEF InitSchema, FinalIsWhole, CompleteIsWhole,
       Whole, OwnDatabase, NothingToMerge, StatusSteps
  <2>2. NothingToMerge'
    BY <1>2, SMTT(20) DEF InitSchema, NothingToMerge, OwnDatabase
  <2>3. OwnDatabase'
    <3>1. partial \in Database
      BY <1>2 DEF InitSchema, OwnDatabase
    <3>2. partial' \in Database
      BY <1>2, <3>1 DEF InitSchema, OwnDatabase
    <3>3. partial' # NoDb
      BY <3>2
    <3> QED
      BY <1>2, <3>1, <3>3 DEF InitSchema, OwnDatabase, NothingToMerge,
         TargetSteps
  <2>4. LedgerSteps'
    BY <1>2, SMTT(20) DEF InitSchema, LedgerSteps, OwnDatabase,
       NothingToMerge, TargetSteps, Before, LedgerPhases
  <2>5. TargetSteps'
    BY <1>2, SMTT(20) DEF InitSchema, TargetSteps
  <2>6. CommittedSteps'
    BY <1>2, SMTT(20) DEF InitSchema, CommittedSteps, OwnDatabase,
       TargetSteps, Have, Required
  <2>7. StatusSteps'
    BY <1>2, SMTT(20) DEF InitSchema, StatusSteps, OwnDatabase, NothingToMerge
  <2> QED
    BY <2>1, <2>2, <2>3, <2>4, <2>5, <2>6, <2>7
<1>3. CASE RecordPrepareClose
  <2>1. (FinalIsWhole /\ CompleteIsWhole)'
    BY <1>3, SMTT(20) DEF RecordPrepareClose, FinalIsWhole,
       CompleteIsWhole, Whole, OwnDatabase, NothingToMerge, StatusSteps
  <2>2. NothingToMerge'
    BY <1>3, SMTT(20) DEF RecordPrepareClose, NothingToMerge, OwnDatabase
  <2>3. OwnDatabase'
    <3>1. partial \in Database
      BY <1>3 DEF RecordPrepareClose, OwnDatabase
    <3>2. partial' \in Database
      BY <1>3, <3>1 DEF RecordPrepareClose, OwnDatabase
    <3>3. partial' # NoDb
      BY <3>2
    <3> QED
      BY <1>3, <3>1, <3>3 DEF RecordPrepareClose, OwnDatabase,
         NothingToMerge, TargetSteps
  <2>4. LedgerSteps'
    BY <1>3, SMTT(20) DEF RecordPrepareClose, LedgerSteps, OwnDatabase,
       NothingToMerge, TargetSteps, Before, LedgerPhases
  <2>5. TargetSteps'
    BY <1>3, SMTT(20) DEF RecordPrepareClose, TargetSteps
  <2>6. CommittedSteps'
    BY <1>3, SMTT(20) DEF RecordPrepareClose, CommittedSteps, OwnDatabase,
       TargetSteps, Have, Required
  <2>7. StatusSteps'
    BY <1>3, SMTT(20) DEF RecordPrepareClose, StatusSteps, OwnDatabase,
       NothingToMerge
  <2> QED
    BY <2>1, <2>2, <2>3, <2>4, <2>5, <2>6, <2>7
<1>4. CASE InsertMetadata
  <2>1. (FinalIsWhole /\ CompleteIsWhole)'
    BY <1>4, SMTT(20) DEF InsertMetadata, FinalIsWhole, CompleteIsWhole,
       Whole, OwnDatabase, NothingToMerge, StatusSteps
  <2>2. NothingToMerge'
    BY <1>4, SMTT(20) DEF InsertMetadata, NothingToMerge, OwnDatabase
  <2>3. OwnDatabase'
    <3>1. partial \in Database /\ attempt \in Runs
      BY <1>4 DEF InsertMetadata, OwnDatabase
    <3>2. partial' \in Database
      <4>1. partial' = [partial EXCEPT !.runs = @ \cup {attempt}, !.status = "running"]
        BY <1>4 DEF InsertMetadata
      <4>2. partial.runs \cup {attempt} \in SUBSET Runs
        BY <3>1
      <4> QED
        BY <3>1, <4>1, <4>2
    <3>3. partial'.runs = partial.runs \cup {attempt}
      BY <1>4, <3>1 DEF InsertMetadata
    <3>4. partial' # NoDb
      BY <3>2
    <3> QED
      BY <1>4, <3>1, <3>3, <3>4 DEF InsertMetadata, OwnDatabase
  <2>4. LedgerSteps'
    BY <1>4, SMTT(20) DEF InsertMetadata, LedgerSteps, OwnDatabase,
       NothingToMerge, TargetSteps, Before, LedgerPhases
  <2>5. TargetSteps'
    BY <1>4, SMTT(20) DEF InsertMetadata, TargetSteps
  <2>6. CommittedSteps'
    BY <1>4, SMTT(20) DEF InsertMetadata, CommittedSteps, OwnDatabase,
       TargetSteps, Have, Required
  <2>7. StatusSteps'
    BY <1>4, SMTT(20) DEF InsertMetadata, StatusSteps, OwnDatabase,
       NothingToMerge
  <2> QED
    BY <2>1, <2>2, <2>3, <2>4, <2>5, <2>6, <2>7
<1>5. CASE LeavePhase
  <2>1. (FinalIsWhole /\ CompleteIsWhole)'
    BY <1>5, SMTT(20) DEF LeavePhase, Closed, FinalIsWhole,
       CompleteIsWhole, Whole, OwnDatabase, NothingToMerge, StatusSteps
  <2>2. NothingToMerge'
    BY <1>5, SMTT(20) DEF LeavePhase, Closed, NothingToMerge, OwnDatabase
  <2>3. OwnDatabase'
    <3>1. partial \in Database
      BY <1>5 DEF LeavePhase, OwnDatabase
    <3>2. partial' \in Database
      BY <1>5, <3>1 DEF LeavePhase, Closed, OwnDatabase
    <3>3. partial' # NoDb
      BY <3>2
    <3> QED
      BY <1>5, <3>1, <3>3 DEF LeavePhase, Closed, OwnDatabase,
         NothingToMerge, TargetSteps
  <2>4. LedgerSteps'
    BY <1>5, SMTT(20) DEF LeavePhase, Closed, LedgerSteps, OwnDatabase,
       NothingToMerge, TargetSteps, Before, LedgerPhases
  <2>5. TargetSteps'
    BY <1>5, SMTT(20) DEF LeavePhase, Closed, TargetSteps
  <2>6. CommittedSteps'
    BY <1>5, SMTT(20) DEF LeavePhase, Closed, CommittedSteps, OwnDatabase,
       TargetSteps, Have, Required
  <2>7. StatusSteps'
    BY <1>5, SMTT(20) DEF LeavePhase, Closed, StatusSteps, OwnDatabase,
       NothingToMerge
  <2> QED
    BY <2>1, <2>2, <2>3, <2>4, <2>5, <2>6, <2>7
<1>6. CASE BeginPhase
  <2>1. (FinalIsWhole /\ CompleteIsWhole)'
    BY <1>6, SMTT(20) DEF BeginPhase, FinalIsWhole, CompleteIsWhole,
       Whole, OwnDatabase, NothingToMerge, StatusSteps
  <2>2. NothingToMerge'
    BY <1>6, SMTT(20) DEF BeginPhase, NothingToMerge, OwnDatabase, TargetSteps
  <2>3. OwnDatabase'
    BY <1>6, SMTT(20) DEF BeginPhase, OwnDatabase, NothingToMerge, TargetSteps
  <2>4. LedgerSteps'
    BY <1>6, SMTT(20) DEF BeginPhase, LedgerSteps, OwnDatabase,
       NothingToMerge, TargetSteps, Before, LedgerPhases
  <2>5. TargetSteps'
    BY <1>6, SMTT(20) DEF BeginPhase, TargetSteps
  <2>6. CommittedSteps'
    <3>1. partial \in Database
      BY <1>6 DEF BeginPhase, OwnDatabase
    <3>2. partial'.done = partial.done /\ partial'.parsed = partial.parsed
      BY <1>6, <3>1 DEF BeginPhase
    <3>3. /\ Have(target) \subseteq partial'.done
          /\ target # "parse" => partial'.parsed = TraceFiles
      BY <1>6, <3>2 DEF BeginPhase, CommittedSteps
    <3>4. target \in {"parse", "ordering", "index", "fts", "stats"} /\ target' = target
      BY <1>6 DEF BeginPhase, TargetSteps
    <3>5. pc' \in {"unwind", target}
      BY <1>6 DEF BeginPhase
    <3> QED
      BY <3>3, <3>4, <3>5 DEF CommittedSteps, Have
  <2>7. StatusSteps'
    BY <1>6, SMTT(20) DEF BeginPhase, StatusSteps, OwnDatabase, NothingToMerge
  <2> QED
    BY <2>1, <2>2, <2>3, <2>4, <2>5, <2>6, <2>7
<1>7. CASE UpdateMetadata
  <2>1. (FinalIsWhole /\ CompleteIsWhole)'
    BY <1>7, SMTT(20) DEF UpdateMetadata, Enter, FinalIsWhole,
       CompleteIsWhole, Whole, OwnDatabase, NothingToMerge, StatusSteps
  <2>2. NothingToMerge'
    BY <1>7, SMTT(20) DEF UpdateMetadata, Enter, NothingToMerge, OwnDatabase
  <2>3. OwnDatabase'
    BY <1>7, SMTT(20) DEF UpdateMetadata, Enter, OwnDatabase,
       NothingToMerge, TargetSteps
  <2>4. LedgerSteps'
    BY <1>7, SMTT(20) DEF UpdateMetadata, Enter, LedgerSteps, OwnDatabase,
       NothingToMerge, TargetSteps, Before, LedgerPhases
  <2>5. TargetSteps'
    BY <1>7, SMTT(20) DEF UpdateMetadata, Enter, TargetSteps
  <2>6. CommittedSteps'
    BY <1>7, SMTT(20) DEF UpdateMetadata, Enter, CommittedSteps,
       OwnDatabase, TargetSteps, Have, Required
  <2>7. StatusSteps'
    BY <1>7, SMTT(20) DEF UpdateMetadata, Enter, StatusSteps, OwnDatabase,
       NothingToMerge
  <2> QED
    BY <2>1, <2>2, <2>3, <2>4, <2>5, <2>6, <2>7
<1>8. CASE LeaveStats
  <2>1. (FinalIsWhole /\ CompleteIsWhole)'
    BY <1>8, SMTT(20) DEF LeaveStats, Closed, FinalIsWhole,
       CompleteIsWhole, Whole, OwnDatabase, NothingToMerge, StatusSteps
  <2>2. NothingToMerge'
    BY <1>8, SMTT(20) DEF LeaveStats, Closed, NothingToMerge, OwnDatabase
  <2>3. OwnDatabase'
    <3>1. partial \in Database
      BY <1>8 DEF LeaveStats, OwnDatabase
    <3>2. partial' \in Database
      BY <1>8, <3>1 DEF LeaveStats, Closed, OwnDatabase
    <3>3. partial' # NoDb
      BY <3>2
    <3> QED
      BY <1>8, <3>1, <3>3 DEF LeaveStats, Closed, OwnDatabase,
         NothingToMerge, TargetSteps
  <2>4. LedgerSteps'
    BY <1>8, SMTT(20) DEF LeaveStats, Closed, LedgerSteps, OwnDatabase,
       NothingToMerge, TargetSteps, Before, LedgerPhases
  <2>5. TargetSteps'
    BY <1>8, SMTT(20) DEF LeaveStats, Closed, TargetSteps
  <2>6. CommittedSteps'
    BY <1>8, SMTT(20) DEF LeaveStats, Closed, CommittedSteps, OwnDatabase,
       TargetSteps, Have, Required
  <2>7. StatusSteps'
    BY <1>8, SMTT(20) DEF LeaveStats, Closed, StatusSteps, OwnDatabase,
       NothingToMerge
  <2> QED
    BY <2>1, <2>2, <2>3, <2>4, <2>5, <2>6, <2>7
<1>9. CASE Close
  <2>1. (FinalIsWhole /\ CompleteIsWhole)'
    BY <1>9, SMTT(20) DEF Close, Checkpoint, FinalIsWhole,
       CompleteIsWhole, Whole, OwnDatabase, NothingToMerge, StatusSteps
  <2>2. NothingToMerge'
    BY <1>9, SMTT(20) DEF Close, Checkpoint, NothingToMerge, OwnDatabase
  <2>3. OwnDatabase'
    <3>1. partial \in Database
      BY <1>9 DEF Close, OwnDatabase
    <3>2. [partial EXCEPT !.walled = FALSE] \in Database
      BY <3>1
    <3>5. [partial EXCEPT !.walled = FALSE].runs = partial.runs
      BY <3>1
    <3>6. partial' \in {partial, [partial EXCEPT !.walled = FALSE]}
      BY <1>9, Zenon DEF Close, Checkpoint
    <3>3. partial' \in Database /\ partial'.runs = partial.runs
      BY <3>1, <3>2, <3>5, <3>6
    <3>4. partial' # NoDb
      BY <3>3
    <3> QED
      BY <1>9, <3>3, <3>4 DEF Close, OwnDatabase
  <2>4. LedgerSteps'
    BY <1>9, SMTT(20) DEF Close, Checkpoint, LedgerSteps, OwnDatabase,
       NothingToMerge, TargetSteps, Before, LedgerPhases
  <2>5. TargetSteps'
    BY <1>9, SMTT(20) DEF Close, Checkpoint, TargetSteps
  <2>6. CommittedSteps'
    BY <1>9, SMTT(20) DEF Close, Checkpoint, CommittedSteps, OwnDatabase,
       TargetSteps, Have, Required
  <2>7. StatusSteps'
    BY <1>9, SMTT(20) DEF Close, Checkpoint, StatusSteps, OwnDatabase,
       NothingToMerge
  <2> QED
    BY <2>1, <2>2, <2>3, <2>4, <2>5, <2>6, <2>7
<1>10. CASE HandleInterruption
  <2>1. partial \in Database
    BY <1>10 DEF HandleInterruption, OwnDatabase
  <2>2. PICK s \in {"cancelled", partial.status} :
          partial' \in {[partial EXCEPT !.status = s, !.walled = FALSE],
                       [partial EXCEPT !.status = s]}
    BY <1>10 DEF HandleInterruption
  <2>3. /\ partial'.status \in {"cancelled", partial.status}
        /\ partial'.runs = partial.runs /\ partial'.done = partial.done
        /\ partial'.parsed = partial.parsed /\ partial'.open = partial.open
        /\ partial'.closed = partial.closed
    <3>1. CASE partial' = [partial EXCEPT !.status = s, !.walled = FALSE]
      BY <2>1, <3>1
    <3>2. CASE partial' = [partial EXCEPT !.status = s]
      BY <2>1, <3>2
    <3> QED
      BY <2>2, <3>1, <3>2
  <2>4. pc' = "idle" /\ final' = final
    BY <1>10 DEF HandleInterruption
  <2>5. partial # NoDb
    BY <2>1
  <2>6. (FinalIsWhole /\ CompleteIsWhole)'
    BY <2>3, <2>4, <2>5 DEF FinalIsWhole, CompleteIsWhole, Whole,
       Required, LedgerPhases
  <2>7. (NothingToMerge /\ OwnDatabase /\ LedgerSteps /\ TargetSteps)'
    BY <2>4 DEF NothingToMerge, OwnDatabase, LedgerSteps, TargetSteps
  <2>8. (CommittedSteps /\ StatusSteps)'
    BY <2>4 DEF CommittedSteps, StatusSteps
  <2> QED
    BY <2>6, <2>7, <2>8
<1>11. CASE ReaderLeavesWal
  <2>1. (FinalIsWhole /\ CompleteIsWhole)'
    BY <1>11, SMTT(20) DEF ReaderLeavesWal, FinalIsWhole, CompleteIsWhole,
       Whole, OwnDatabase, NothingToMerge, StatusSteps
  <2>2. NothingToMerge'
    BY <1>11, SMTT(20) DEF ReaderLeavesWal, NothingToMerge, OwnDatabase
  <2>3. OwnDatabase'
    BY <1>11, SMTT(20) DEF ReaderLeavesWal, OwnDatabase, NothingToMerge,
       TargetSteps
  <2>4. LedgerSteps'
    BY <1>11, SMTT(20) DEF ReaderLeavesWal, LedgerSteps, OwnDatabase,
       NothingToMerge, TargetSteps, Before, LedgerPhases
  <2>5. TargetSteps'
    BY <1>11, SMTT(20) DEF ReaderLeavesWal, TargetSteps
  <2>6. CommittedSteps'
    BY <1>11, SMTT(20) DEF ReaderLeavesWal, CommittedSteps, OwnDatabase,
       TargetSteps, Have, Required
  <2>7. StatusSteps'
    BY <1>11, SMTT(20) DEF ReaderLeavesWal, StatusSteps, OwnDatabase,
       NothingToMerge
  <2> QED
    BY <2>1, <2>2, <2>3, <2>4, <2>5, <2>6, <2>7
<1> QED
  BY <1>1, <1>2, <1>3, <1>4, <1>5, <1>6, <1>7, <1>8, <1>9, <1>10, <1>11

\* The other steps move the pipeline on by one commit, or only end the call.
LEMMA SimpleSteps ==
  ASSUME IInv, TypeOK',
         \/ Start \/ Prepare \/ ClearFinal \/ ClearFinalWal \/ ClearPartial
         \/ ClearPartialWal \/ RecordPrepareOpen \/ RegisterSources
         \/ CollectOversize \/ TakeFile \/ StoreBatch \/ FlushFile
         \/ SwallowStorageFault \/ MarkParsed \/ ParseLoopDone
         \/ IngestShutdownLog \/ AssignOrdering \/ FinalizeIndexes
         \/ FinalizeFts \/ VerifySourceFiles \/ RefreshSummary \/ SetComplete
         \/ Recheck \/ PromoteWal \/ PromoteMain \/ Fail \/ CancelStops
         \/ Kill \/ CancelCall \/ DeleteFinal \/ AllDone
  PROVE  IInv'
<1> USE ExtractAssumption
    DEF IInv, TypeOK, FinalIsWhole, CompleteIsWhole, Whole, OwnDatabase,
        NothingToMerge, LedgerSteps, TargetSteps, CommittedSteps, StatusSteps,
        Before, LedgerPhases, Have, Required, Live, extract, disk, call, Quiet,
        Commit, Go, EmptyDatabase
<1>1. CASE Start
  BY <1>1, SMTT(60) DEF Start, StartGuarding
<1>2. CASE Prepare
  BY <1>2, SMTT(60) DEF Prepare
<1>3. CASE ClearFinal
  BY <1>3, SMTT(60) DEF ClearFinal
<1>4. CASE ClearFinalWal
  BY <1>4, SMTT(60) DEF ClearFinalWal
<1>5. CASE ClearPartial
  BY <1>5, SMTT(60) DEF ClearPartial
<1>6. CASE ClearPartialWal
  BY <1>6, SMTT(60) DEF ClearPartialWal
<1>7. CASE RecordPrepareOpen
  BY <1>7, SMTT(60) DEF RecordPrepareOpen
<1>8. CASE RegisterSources
  BY <1>8, SMTT(60) DEF RegisterSources
<1>9. CASE CollectOversize
  BY <1>9, SMTT(60) DEF CollectOversize, Enter
<1>10. CASE TakeFile
  BY <1>10, SMTT(60) DEF TakeFile
<1>11. CASE StoreBatch
  BY <1>11, SMTT(60) DEF StoreBatch
<1>12. CASE FlushFile
  BY <1>12, SMTT(60) DEF FlushFile
<1>13. CASE SwallowStorageFault
  BY <1>13, SMTT(60) DEF SwallowStorageFault
<1>14. CASE MarkParsed
  BY <1>14, SMTT(60) DEF MarkParsed
<1>15. CASE ParseLoopDone
  BY <1>15, SMTT(60) DEF ParseLoopDone
<1>16. CASE IngestShutdownLog
  BY <1>16, SMTT(60) DEF IngestShutdownLog, Enter
<1>17. CASE AssignOrdering
  BY <1>17, SMTT(60) DEF AssignOrdering, Enter
<1>18. CASE FinalizeIndexes
  BY <1>18, SMTT(60) DEF FinalizeIndexes, AfterIndex
<1>19. CASE FinalizeFts
  BY <1>19, SMTT(60) DEF FinalizeFts
<1>20. CASE VerifySourceFiles
  BY <1>20, SMTT(60) DEF VerifySourceFiles
<1>21. CASE RefreshSummary
  BY <1>21, SMTT(60) DEF RefreshSummary
<1>22. CASE SetComplete
  BY <1>22, SMTT(60) DEF SetComplete
<1>23. CASE Recheck
  BY <1>23, SMTT(60) DEF Recheck
<1>24. CASE PromoteWal
  BY <1>24, SMTT(60) DEF PromoteWal
<1>25. CASE PromoteMain
  BY <1>25, SMTT(60) DEF PromoteMain
<1>26. CASE Fail
  BY <1>26, SMTT(60) DEF Fail, FailWith
<1>27. CASE CancelStops
  BY <1>27, SMTT(60) DEF CancelStops, FailWith
<1>28. CASE Kill
  BY <1>28, SMTT(60) DEF Kill
<1>29. CASE CancelCall
  BY <1>29, SMTT(60) DEF CancelCall
<1>30. CASE DeleteFinal
  BY <1>30, SMTT(60) DEF DeleteFinal
<1>31. CASE AllDone
  BY <1>31, SMTT(60) DEF AllDone
<1> QED
  BY <1>1, <1>2, <1>3, <1>4, <1>5, <1>6, <1>7, <1>8, <1>9, <1>10, <1>11,
     <1>12, <1>13, <1>14, <1>15, <1>16, <1>17, <1>18, <1>19, <1>20, <1>21,
     <1>22, <1>23, <1>24, <1>25, <1>26, <1>27, <1>28, <1>29, <1>30, <1>31

\* IInv is inductive.
LEMMA InvariantStep ==
  ASSUME IInv, [ExtractNext]_extract
  PROVE  IInv'
<1>1. TypeOK /\ OwnDatabase
  BY DEF IInv
<1>2. TypeOK'
  BY <1>1, TypeStep
<1>3. CASE UNCHANGED extract
  <2>1. /\ UNCHANGED <<final, partial, pc, target, attempt, overwrite>>
        /\ UNCHANGED <<phase, cur>>
    BY <1>3 DEF extract, disk, call
  <2> QED
    BY <1>2, <2>1 DEF IInv, FinalIsWhole, CompleteIsWhole, NothingToMerge,
       OwnDatabase,
           LedgerSteps, TargetSteps, CommittedSteps, StatusSteps
<1>4. CASE ExtractNext
  BY <1>2, <1>4, OwningSteps, SimpleSteps DEF ExtractNext, Pipeline, Environment,
     Parse
<1> QED
  BY <1>3, <1>4

\* Nothing exists before the first call.
LEMMA InvariantInit ==
  ASSUME ExtractInit
  PROVE  IInv
<1> USE ExtractAssumption DEF ExtractInit, Live
<1>1. TypeOK
  <2>1. final \in Database \cup {NoDb} /\ partial \in Database \cup {NoDb}
    BY Zenon
  <2>2. finalWal \in 0..MaxRuns /\ partialWal \in 0..MaxRuns /\ attempt \in 0..MaxRuns
    OBVIOUS
  <2>3. /\ pc \in Steps /\ target \in Phases /\ bar \in Phases
        /\ phase \in Phases \cup {NoPhase} /\ cur \in TraceFiles \cup {NoFile}
        /\ overwrite \in BOOLEAN /\ cancelled \in BOOLEAN
        /\ outcome \in Outcomes /\ heard \in Steps \cup {"never"}
    OBVIOUS
  <2> QED
    BY <2>1, <2>2, <2>3 DEF TypeOK
<1>2. FinalIsWhole /\ CompleteIsWhole
  BY DEF FinalIsWhole, CompleteIsWhole
<1>3. NothingToMerge /\ OwnDatabase /\ LedgerSteps /\ TargetSteps
  BY DEF NothingToMerge, OwnDatabase, LedgerSteps, TargetSteps
<1>4. CommittedSteps /\ StatusSteps
  BY DEF CommittedSteps, StatusSteps
<1> QED
  BY <1>1, <1>2, <1>3, <1>4 DEF IInv

\* The invariant holds in every reachable state of the pipeline.
THEOREM Invariant == ExtractSpec => []IInv
<1>1. ExtractInit => IInv
  BY InvariantInit
<1>2. IInv /\ [ExtractNext]_extract => IInv'
  BY InvariantStep
<1> QED
  BY <1>1, <1>2, PTL DEF ExtractSpec

\* Every variable of the pipeline keeps its type.
THEOREM TypeCorrect == ExtractSpec => []TypeOK
<1>1. IInv => TypeOK
  BY DEF IInv
<1> QED
  BY <1>1, Invariant, PTL

\* run_extract: however many calls are made, and wherever they are cancelled,
\* fail or are killed, a database at db_path is one whole acquisition.
THEOREM FinalWhole == ExtractSpec => []FinalIsWhole
<1>1. IInv => FinalIsWhole
  BY DEF IInv
<1> QED
  BY <1>1, Invariant, PTL

\* set_extract_status: a database that says "complete" is whole, under
\* whichever name it is.
THEOREM CompleteWhole == ExtractSpec => []CompleteIsWhole
<1>1. IInv => CompleteIsWhole
  BY DEF IInv
<1> QED
  BY <1>1, Invariant, PTL

\* At most one acquisition was ever written into a database.
Owned(db) == db = NoDb \/ db.runs = {} \/ \E r \in Runs : db.runs = {r}
OneOwner == Owned(final) /\ Owned(partial)

\* Only InsertMetadata adds an acquisition, and to a database without any:
\* Start refused every name that was taken, or the clearing emptied it.
LEMMA OwnedStep ==
  ASSUME IInv, TypeOK', OneOwner, [ExtractNext]_extract
  PROVE  OneOwner'
<1> USE DEF OneOwner, Owned, IInv, TypeOK, OwnDatabase, Live, extract, disk, call, Quiet, Commit,
        Go, EmptyDatabase
<1>1. CASE Start
  BY <1>1 DEF Start, StartGuarding
<1>2. CASE Prepare
  BY <1>2 DEF Prepare
<1>3. CASE ClearFinal
  BY <1>3 DEF ClearFinal
<1>4. CASE ClearFinalWal
  BY <1>4 DEF ClearFinalWal
<1>5. CASE ClearPartial
  BY <1>5 DEF ClearPartial
<1>6. CASE ClearPartialWal
  BY <1>6 DEF ClearPartialWal
<1>7. CASE ConnectPartial
  BY <1>7 DEF ConnectPartial
<1>8. CASE InitSchema
  BY <1>8 DEF InitSchema
<1>9. CASE RecordPrepareOpen
  BY <1>9 DEF RecordPrepareOpen
<1>10. CASE RecordPrepareClose
  BY <1>10 DEF RecordPrepareClose
<1>11. CASE InsertMetadata
  BY <1>11 DEF InsertMetadata
<1>12. CASE RegisterSources
  BY <1>12 DEF RegisterSources
<1>13. CASE CollectOversize
  BY <1>13 DEF CollectOversize, Enter
<1>14. CASE LeavePhase
  BY <1>14 DEF LeavePhase, Closed
<1>15. CASE BeginPhase
  BY <1>15 DEF BeginPhase
<1>16. CASE TakeFile
  BY <1>16 DEF TakeFile
<1>17. CASE StoreBatch
  BY <1>17 DEF StoreBatch
<1>18. CASE FlushFile
  BY <1>18 DEF FlushFile
<1>19. CASE SwallowStorageFault
  BY <1>19 DEF SwallowStorageFault
<1>20. CASE MarkParsed
  BY <1>20 DEF MarkParsed
<1>21. CASE ParseLoopDone
  BY <1>21 DEF ParseLoopDone
<1>22. CASE IngestShutdownLog
  BY <1>22 DEF IngestShutdownLog, Enter
<1>23. CASE AssignOrdering
  BY <1>23 DEF AssignOrdering, Enter
<1>24. CASE FinalizeIndexes
  BY <1>24 DEF FinalizeIndexes, AfterIndex
<1>25. CASE FinalizeFts
  BY <1>25 DEF FinalizeFts
<1>26. CASE VerifySourceFiles
  BY <1>26 DEF VerifySourceFiles
<1>27. CASE UpdateMetadata
  BY <1>27 DEF UpdateMetadata, Enter
<1>28. CASE RefreshSummary
  BY <1>28 DEF RefreshSummary
<1>29. CASE LeaveStats
  BY <1>29 DEF LeaveStats, Closed
<1>30. CASE SetComplete
  BY <1>30 DEF SetComplete
<1>31. CASE Recheck
  BY <1>31 DEF Recheck
<1>32. CASE Close
  BY <1>32 DEF Close, Checkpoint
<1>33. CASE PromoteWal
  BY <1>33 DEF PromoteWal
<1>34. CASE PromoteMain
  BY <1>34 DEF PromoteMain
<1>35. CASE HandleInterruption
  <2>1. partial \in Database /\ final' = final
    BY <1>35 DEF HandleInterruption
  <2>2. PICK s \in {"cancelled", partial.status} :
          partial' \in {[partial EXCEPT !.status = s, !.walled = FALSE],
                       [partial EXCEPT !.status = s]}
    BY ONLY <1>35, MarkedOnTheWay
  <2>3. partial'.runs = partial.runs
    <3>1. CASE partial' = [partial EXCEPT !.status = s, !.walled = FALSE]
      BY <2>1, <3>1
    <3>2. CASE partial' = [partial EXCEPT !.status = s]
      BY <2>1, <3>2
    <3> QED
      BY <2>2, <3>1, <3>2
  <2>4. partial # NoDb
    BY <2>1, ExtractAssumption
  <2> QED
    BY <2>1, <2>3, <2>4
<1>36. CASE Fail
  BY <1>36 DEF Fail, FailWith
<1>37. CASE CancelStops
  BY <1>37 DEF CancelStops, FailWith
<1>38. CASE Kill
  BY <1>38 DEF Kill
<1>39. CASE CancelCall
  BY <1>39 DEF CancelCall
<1>40. CASE ReaderLeavesWal
  BY <1>40 DEF ReaderLeavesWal
<1>41. CASE DeleteFinal
  BY <1>41 DEF DeleteFinal
<1>42. CASE AllDone
  BY <1>42 DEF AllDone
<1>43. CASE UNCHANGED extract
  BY <1>43
<1> QED
  BY <1>1, <1>2, <1>3, <1>4, <1>5, <1>6, <1>7, <1>8, <1>9, <1>10, <1>11,
     <1>12, <1>13, <1>14, <1>15, <1>16, <1>17, <1>18, <1>19, <1>20, <1>21,
     <1>22, <1>23, <1>24, <1>25, <1>26, <1>27, <1>28, <1>29, <1>30, <1>31,
     <1>32, <1>33, <1>34, <1>35, <1>36, <1>37, <1>38, <1>39, <1>40, <1>41,
     <1>42, <1>43 DEF ExtractNext, Pipeline,
     Environment, Parse

\* No sequence of calls, under any name, ever merges two acquisitions into
\* one database: the guard of run_extract covers the .partial name too.
THEOREM NeverMerged == ExtractSpec => []OneAcquisition
<1>1. ExtractInit => OneOwner
  BY DEF ExtractInit, OneOwner, Owned
<1>2. IInv /\ IInv' /\ OneOwner /\ [ExtractNext]_extract => OneOwner'
  BY OwnedStep DEF IInv
<1>3. OneOwner => OneAcquisition
  <2>1. ASSUME NEW db, Owned(db), db # NoDb
        PROVE  Cardinality(db.runs) <= 1
    BY <2>1, FS_EmptySet, FS_Singleton DEF Owned
  <2> QED
    BY <2>1 DEF OneAcquisition, OneOwner
<1> QED
  BY <1>1, <1>2, <1>3, Invariant, PTL DEF ExtractSpec

-----------------------------------------------------------------------------
(* The pipeline implements the promise of OutputStore. *)

\* What OutputStore sees depends on the file at db_path alone.
LEMMA SameFinal ==
  ASSUME UNCHANGED final
  PROVE  UNCHANGED FinalRun
BY DEF FinalRun, Whole, Required, LedgerPhases

\* Within a call, a step that leaves db_path alone is invisible.
LEMMA InnerStutters ==
  ASSUME IInv,
         \/ ClearFinalWal \/ ClearPartial \/ ClearPartialWal \/ ConnectPartial
         \/ InitSchema \/ RecordPrepareOpen \/ RecordPrepareClose
         \/ InsertMetadata \/ RegisterSources \/ CollectOversize \/ LeavePhase
         \/ TakeFile \/ StoreBatch \/ FlushFile \/ SwallowStorageFault
         \/ MarkParsed \/ ParseLoopDone \/ IngestShutdownLog \/ AssignOrdering
         \/ FinalizeIndexes \/ FinalizeFts \/ VerifySourceFiles
         \/ UpdateMetadata \/ RefreshSummary \/ LeaveStats \/ SetComplete
         \/ Recheck \/ Close \/ PromoteWal
  PROVE  UNCHANGED <<final, attempt, overwrite>> /\ pc # "idle" /\ pc' # "idle"
<1> USE DEF IInv, TypeOK, TargetSteps, extract, disk, call, Quiet, Commit, Go
<1>1. CASE ClearFinalWal
  BY <1>1 DEF ClearFinalWal
<1>2. CASE ClearPartial
  BY <1>2 DEF ClearPartial
<1>3. CASE ClearPartialWal
  BY <1>3 DEF ClearPartialWal
<1>4. CASE ConnectPartial
  BY <1>4 DEF ConnectPartial
<1>5. CASE InitSchema
  BY <1>5 DEF InitSchema
<1>6. CASE RecordPrepareOpen
  BY <1>6 DEF RecordPrepareOpen
<1>7. CASE RecordPrepareClose
  BY <1>7 DEF RecordPrepareClose
<1>8. CASE InsertMetadata
  BY <1>8 DEF InsertMetadata
<1>9. CASE RegisterSources
  BY <1>9 DEF RegisterSources
<1>10. CASE CollectOversize
  BY <1>10 DEF CollectOversize, Enter
<1>11. CASE LeavePhase
  BY <1>11 DEF LeavePhase, Closed
<1>12. CASE TakeFile
  BY <1>12 DEF TakeFile
<1>13. CASE StoreBatch
  BY <1>13 DEF StoreBatch
<1>14. CASE FlushFile
  BY <1>14 DEF FlushFile
<1>15. CASE SwallowStorageFault
  BY <1>15 DEF SwallowStorageFault
<1>16. CASE MarkParsed
  BY <1>16 DEF MarkParsed
<1>17. CASE ParseLoopDone
  BY <1>17 DEF ParseLoopDone
<1>18. CASE IngestShutdownLog
  BY <1>18 DEF IngestShutdownLog, Enter
<1>19. CASE AssignOrdering
  BY <1>19 DEF AssignOrdering, Enter
<1>20. CASE FinalizeIndexes
  BY <1>20 DEF FinalizeIndexes, AfterIndex
<1>21. CASE FinalizeFts
  BY <1>21 DEF FinalizeFts
<1>22. CASE VerifySourceFiles
  BY <1>22 DEF VerifySourceFiles
<1>23. CASE UpdateMetadata
  BY <1>23 DEF UpdateMetadata, Enter
<1>24. CASE RefreshSummary
  BY <1>24 DEF RefreshSummary
<1>25. CASE LeaveStats
  BY <1>25 DEF LeaveStats, Closed
<1>26. CASE SetComplete
  BY <1>26 DEF SetComplete
<1>27. CASE Recheck
  BY <1>27 DEF Recheck
<1>28. CASE Close
  BY <1>28 DEF Close, Checkpoint
<1>29. CASE PromoteWal
  BY <1>29 DEF PromoteWal
<1> QED
  BY <1>1, <1>2, <1>3, <1>4, <1>5, <1>6, <1>7, <1>8, <1>9, <1>10, <1>11,
     <1>12, <1>13, <1>14, <1>15, <1>16, <1>17, <1>18, <1>19, <1>20, <1>21,
     <1>22, <1>23, <1>24, <1>25, <1>26, <1>27, <1>28, <1>29

\* Every step of the pipeline is a step of OutputStore or a stutter of it.
LEMMA RefinementStep ==
  ASSUME IInv, IInv', [ExtractNext]_extract
  PROVE  [Output!Next]_(Output!store)
<1> DEFINE busy == IF pc = "idle" THEN 0 ELSE attempt
<1> USE ExtractAssumption DEF Output!store, Output!Next
<1>1. TypeOK /\ (pc # "idle" => attempt \in Runs)
  BY DEF IInv, OwnDatabase
<1>2. CASE Start
  <2>1. UNCHANGED FinalRun
    BY <1>2, SameFinal DEF Start, StartGuarding, disk
  <2>2. final = NoDb => FinalRun = 0
    BY DEF FinalRun
  <2>3. /\ pc = "idle" /\ attempt < MaxRuns /\ attempt' = attempt + 1
        /\ overwrite' \in BOOLEAN /\ pc' \in {"idle", "prepare"}
        /\ ~overwrite' /\ final # NoDb => pc' = "idle"
    BY <1>2 DEF Start, StartGuarding
  <2>4. Output!Begin
    BY <1>1, <2>1, <2>2, <2>3 DEF Output!Begin, TypeOK
  <2> QED
    BY <2>4
<1>3. CASE ClearFinal
  <2>1. FinalRun' = 0
    BY <1>3 DEF ClearFinal, FinalRun
  <2>2. Output!Clear
    BY <1>1, <1>3, <2>1 DEF ClearFinal, Go, call, Output!Clear, IInv, NothingToMerge
  <2> QED
    BY <2>2
<1>4. CASE PromoteMain
  <2>1. /\ final' # NoDb /\ final'.runs = {attempt} /\ attempt \in Runs
        /\ pc = "promoteMain" /\ pc' = "idle" /\ final = NoDb
        /\ UNCHANGED <<attempt, overwrite>>
    BY <1>1, <1>4 DEF PromoteMain, Go, IInv, OwnDatabase, NothingToMerge, Live
  <2>2. Whole(final)'
    BY <2>1 DEF IInv, FinalIsWhole
  <2>3. FinalRun = 0 /\ FinalRun' = attempt
    BY <2>1, <2>2 DEF FinalRun
  <2>4. Output!Publish
    BY <2>1, <2>3 DEF Output!Publish
  <2> QED
    BY <2>4
<1>5. CASE HandleInterruption \/ Fail \/ CancelStops \/ Kill
  <2>1. UNCHANGED <<final, attempt, overwrite>> /\ pc # "idle"
    BY <1>5 DEF HandleInterruption, Fail, CancelStops, Kill, FailWith, disk, call, Go,
              Guarded, Unguarded, Stoppable
  <2>2. UNCHANGED FinalRun
    BY <2>1, SameFinal
  <2>3. CASE pc' = "idle"
    BY <1>1, <2>1, <2>2, <2>3 DEF Output!Abandon
  <2>4. CASE pc' # "idle"
    BY <2>1, <2>2, <2>4
  <2> QED
    BY <2>3, <2>4
<1>6. CASE BeginPhase
  <2>1. UNCHANGED <<final, attempt, overwrite>> /\ pc # "idle" /\ pc' # "idle"
    BY <1>1, <1>6 DEF BeginPhase, Commit, TypeOK
  <2> QED
    BY <2>1, SameFinal
<1>7. CASE ReaderLeavesWal
  <2>1. /\ pc = "idle" /\ pc' = "idle" /\ UNCHANGED <<attempt, overwrite>>
        /\ final # NoDb /\ final \in Database
        /\ final' = [final EXCEPT !.walled = TRUE]
    BY <1>1, <1>7 DEF ReaderLeavesWal, call, TypeOK
  <2>2. final'.runs = final.runs
    BY <2>1
  <2>3. final' # NoDb /\ Whole(final) /\ Whole(final)'
    <3>1. [final EXCEPT !.walled = TRUE] \in Database
      BY <2>1 DEF Database
    <3>2. final' # NoDb
      BY <2>1, <3>1
    <3> QED
      BY <2>1, <3>2 DEF IInv, FinalIsWhole
  <2>4. UNCHANGED FinalRun
    BY <2>1, <2>2, <2>3 DEF FinalRun
  <2> QED
    BY <2>1, <2>4
<1>8. CASE DeleteFinal
  <2>1. FinalRun' = 0
    BY <1>8 DEF DeleteFinal, FinalRun
  <2>2. Output!Remove
    BY <1>8, <2>1 DEF DeleteFinal, call, Output!Remove
  <2> QED
    BY <2>2
<1>9. CASE Prepare \/ CancelCall \/ AllDone \/ UNCHANGED extract
  <2>1. UNCHANGED <<final, attempt, overwrite>> /\ (pc' = "idle" <=> pc = "idle")
    BY <1>9 DEF Prepare, CancelCall, AllDone, extract, disk, call
  <2> QED
    BY <2>1, SameFinal
<1>10. CASE
         \/ ClearFinalWal \/ ClearPartial \/ ClearPartialWal \/ ConnectPartial
         \/ InitSchema \/ RecordPrepareOpen \/ RecordPrepareClose
         \/ InsertMetadata \/ RegisterSources \/ CollectOversize \/ LeavePhase
         \/ TakeFile \/ StoreBatch \/ FlushFile \/ SwallowStorageFault
         \/ MarkParsed \/ ParseLoopDone \/ IngestShutdownLog \/ AssignOrdering
         \/ FinalizeIndexes \/ FinalizeFts \/ VerifySourceFiles
         \/ UpdateMetadata \/ RefreshSummary \/ LeaveStats \/ SetComplete
         \/ Recheck \/ Close \/ PromoteWal
  BY <1>10, InnerStutters, SameFinal
<1> QED
  BY <1>2, <1>3, <1>4, <1>5, <1>6, <1>7, <1>8, <1>9, <1>10 DEF ExtractNext, Pipeline,
     Environment, Parse

\* run_extract keeps the promise of OutputStore: at db_path whole acquisitions
\* appear in one step, and go away only where a call may replace them.
THEOREM Implements == ExtractSpec => OutputSpec
<1>1. ExtractInit => Output!Init
  BY DEF ExtractInit, Output!Init, FinalRun
<1>2. IInv /\ IInv' /\ [ExtractNext]_extract => [Output!Next]_(Output!store)
  BY RefinementStep
<1> QED
  BY <1>1, <1>2, Invariant, PTL DEF ExtractSpec, OutputSpec, Output!Spec

-----------------------------------------------------------------------------
(* One call of run_extract and what it leaves: the phase ledger, the token, *)
(* the -wal and the terminal status, from the invariant and some facts more. *)

\* From the check at the door of the last phase on, a token comes too late.
TooLate == {"stats", "statsLeave", "complete", "recheck", "close", "promoteWal",
            "promoteMain"}

\* The token and the moment it was set; a call gets past TooLate's door only unset.
TokenFacts ==
  /\ cancelled <=> heard # "never"
  /\ heard \in TooLate \cup {"never"} \/ pc \notin TooLate
  /\ outcome = "ok" => pc = "idle" /\ heard \in TooLate \cup {"never"}

\* The acquisitions in the working file belong to calls made so far, and to this one
\* only once it has connected; a database with an acquisition has a status, which is
\* not "complete" where a cancellation stopped the call.
RunFacts ==
  partial # NoDb =>
    /\ partial.runs \subseteq 1..attempt
    /\ pc \in {"prepare", "clearFinal", "clearFinalWal", "clearPartial", "clearPartialWal",
               "connect"}
         => attempt \notin partial.runs
    /\ partial.runs # {} => partial.status # "none"
    /\ pc \in {"unwind", "idle"} /\ outcome = "cancelled" /\ attempt \in partial.runs
         => partial.status # "complete"

\* The bar names the phase that is being entered.
LedgerFacts == LedgerIsTruthful /\ (pc = "begin" => bar = target)

\* The frames of the working file are this call's, and go before it when it is renamed.
WalFacts ==
  /\ FinalHasItsWal
  /\ pc \in Live \ {"schema", "unwind", "promoteMain"} =>
       (partial.walled => partialWal = attempt)
  /\ pc = "promoteMain" => (partial.walled => finalWal = attempt)

CallInv == TokenFacts /\ RunFacts /\ LedgerFacts /\ WalFacts

-----------------------------------------------------------------------------
USE DEF Phases, NoPhase, Milestones, Statuses, Runs, Steps, Outcomes, Database,
        Guarded, Unguarded, Stoppable

\* Only BeginPhase opens the last phase, and it looks at the token first.
LEMMA TokenStep ==
  ASSUME IInv, IInv', RunFacts, TokenFacts, [ExtractNext]_extract
  PROVE  TokenFacts'
<1> USE ExtractAssumption DEF IInv, TypeOK, TargetSteps, TokenFacts, TooLate, extract,
        disk, call, Quiet, Commit, Go
<1>1. CASE Start
  BY <1>1 DEF Start, StartGuarding
<1>2. CASE Prepare
  BY <1>2 DEF Prepare
<1>3. CASE ClearFinal
  BY <1>3 DEF ClearFinal
<1>4. CASE ClearFinalWal
  BY <1>4 DEF ClearFinalWal
<1>5. CASE ClearPartial
  BY <1>5 DEF ClearPartial
<1>6. CASE ClearPartialWal
  BY <1>6 DEF ClearPartialWal
<1>7. CASE ConnectPartial
  BY <1>7 DEF ConnectPartial
<1>8. CASE InitSchema
  BY <1>8 DEF InitSchema
<1>9. CASE RecordPrepareOpen
  BY <1>9 DEF RecordPrepareOpen
<1>10. CASE RecordPrepareClose
  BY <1>10 DEF RecordPrepareClose
<1>11. CASE InsertMetadata
  BY <1>11 DEF InsertMetadata
<1>12. CASE RegisterSources
  BY <1>12 DEF RegisterSources
<1>13. CASE CollectOversize
  BY <1>13 DEF CollectOversize, Enter
<1>14. CASE LeavePhase
  BY <1>14 DEF LeavePhase, Closed
<1>15. CASE BeginPhase
  <2>1. CASE cancelled
    BY <1>15, <2>1 DEF BeginPhase
  <2>2. CASE ~cancelled
    <3>1. heard = "never" /\ outcome # "ok"
      BY <1>15, <2>2 DEF BeginPhase
    <3>2. UNCHANGED <<cancelled, heard, outcome>>
      BY <1>15, <2>2 DEF BeginPhase
    <3> QED
      BY <2>2, <3>1, <3>2
  <2> QED
    BY <2>1, <2>2
<1>16. CASE TakeFile
  BY <1>16 DEF TakeFile
<1>17. CASE StoreBatch
  BY <1>17 DEF StoreBatch
<1>18. CASE FlushFile
  BY <1>18 DEF FlushFile
<1>19. CASE SwallowStorageFault
  BY <1>19 DEF SwallowStorageFault
<1>20. CASE MarkParsed
  BY <1>20 DEF MarkParsed
<1>21. CASE ParseLoopDone
  BY <1>21 DEF ParseLoopDone
<1>22. CASE IngestShutdownLog
  BY <1>22 DEF IngestShutdownLog, Enter
<1>23. CASE AssignOrdering
  BY <1>23 DEF AssignOrdering, Enter
<1>24. CASE FinalizeIndexes
  BY <1>24 DEF FinalizeIndexes, AfterIndex
<1>25. CASE FinalizeFts
  BY <1>25 DEF FinalizeFts
<1>26. CASE VerifySourceFiles
  BY <1>26 DEF VerifySourceFiles
<1>27. CASE UpdateMetadata
  BY <1>27 DEF UpdateMetadata, Enter
<1>28. CASE RefreshSummary
  BY <1>28 DEF RefreshSummary
<1>29. CASE LeaveStats
  BY <1>29 DEF LeaveStats, Closed
<1>30. CASE SetComplete
  BY <1>30 DEF SetComplete
<1>31. CASE Recheck
  BY <1>31 DEF Recheck
<1>32. CASE Close
  BY <1>32 DEF Close, Checkpoint
<1>33. CASE PromoteWal
  BY <1>33 DEF PromoteWal
<1>34. CASE PromoteMain
  BY <1>34 DEF PromoteMain
<1>35. CASE HandleInterruption
  BY <1>35 DEF HandleInterruption
<1>36. CASE Fail
  BY <1>36 DEF Fail, FailWith
<1>37. CASE CancelStops
  BY <1>37 DEF CancelStops, FailWith
<1>38. CASE Kill
  BY <1>38 DEF Kill
<1>39. CASE CancelCall
  BY <1>39 DEF CancelCall
<1>40. CASE ReaderLeavesWal
  BY <1>40 DEF ReaderLeavesWal
<1>41. CASE DeleteFinal
  BY <1>41 DEF DeleteFinal
<1>42. CASE AllDone
  BY <1>42 DEF AllDone
<1>43. CASE UNCHANGED extract
  BY <1>43
<1> QED
  BY <1>1, <1>2, <1>3, <1>4, <1>5, <1>6, <1>7, <1>8, <1>9, <1>10, <1>11,
     <1>12, <1>13, <1>14, <1>15, <1>16, <1>17, <1>18, <1>19, <1>20, <1>21,
     <1>22, <1>23, <1>24, <1>25, <1>26, <1>27, <1>28, <1>29, <1>30, <1>31,
     <1>32, <1>33, <1>34, <1>35, <1>36, <1>37, <1>38, <1>39, <1>40, <1>41,
     <1>42, <1>43 DEF ExtractNext, Pipeline, Environment,
     Parse

\* Only InsertMetadata writes an acquisition, and a status with it.
LEMMA RunStep ==
  ASSUME IInv, IInv', RunFacts, [ExtractNext]_extract
  PROVE  RunFacts'
<1> USE ExtractAssumption DEF IInv, TypeOK, OwnDatabase, NothingToMerge,
        StatusSteps, RunFacts, EmptyDatabase, Live, extract, disk, call, Quiet, Commit,
        Go
<1>1. CASE Start
  BY <1>1 DEF Start, StartGuarding
<1>2. CASE Prepare
  BY <1>2 DEF Prepare
<1>3. CASE ClearFinal
  BY <1>3 DEF ClearFinal
<1>4. CASE ClearFinalWal
  BY <1>4 DEF ClearFinalWal
<1>5. CASE ClearPartial
  BY <1>5 DEF ClearPartial
<1>6. CASE ClearPartialWal
  BY <1>6 DEF ClearPartialWal
<1>7. CASE ConnectPartial
  BY <1>7 DEF ConnectPartial
<1>8. CASE InitSchema
  BY <1>8 DEF InitSchema
<1>9. CASE RecordPrepareOpen
  BY <1>9 DEF RecordPrepareOpen
<1>10. CASE RecordPrepareClose
  BY <1>10 DEF RecordPrepareClose
<1>11. CASE InsertMetadata
  BY <1>11 DEF InsertMetadata
<1>12. CASE RegisterSources
  BY <1>12 DEF RegisterSources
<1>13. CASE CollectOversize
  BY <1>13 DEF CollectOversize, Enter
<1>14. CASE LeavePhase
  BY <1>14 DEF LeavePhase, Closed
<1>15. CASE BeginPhase
  <2>1. partial \in Database /\ pc = "begin"
    BY <1>15 DEF BeginPhase
  <2>2. partial' = [partial EXCEPT !.open = @ \cup {target}]
    BY <1>15 DEF BeginPhase
  <2>3. partial # NoDb /\ partial'.runs = partial.runs /\ partial'.status = partial.status
    BY <2>1, <2>2
  <2>4. attempt' = attempt /\ pc' \in {"unwind", target}
    BY <1>15 DEF BeginPhase
  <2>5. partial.status # "complete"
    BY <2>1
  <2>6. pc' \notin {"prepare", "clearFinal", "clearFinalWal", "clearPartial",
                  "clearPartialWal", "connect"}
    BY <2>1, <2>4 DEF TargetSteps
  <2> QED
    BY <2>1, <2>3, <2>4, <2>5, <2>6
<1>16. CASE TakeFile
  BY <1>16 DEF TakeFile
<1>17. CASE StoreBatch
  BY <1>17 DEF StoreBatch
<1>18. CASE FlushFile
  BY <1>18 DEF FlushFile
<1>19. CASE SwallowStorageFault
  BY <1>19 DEF SwallowStorageFault
<1>20. CASE MarkParsed
  BY <1>20 DEF MarkParsed
<1>21. CASE ParseLoopDone
  BY <1>21 DEF ParseLoopDone
<1>22. CASE IngestShutdownLog
  BY <1>22 DEF IngestShutdownLog, Enter
<1>23. CASE AssignOrdering
  BY <1>23 DEF AssignOrdering, Enter
<1>24. CASE FinalizeIndexes
  BY <1>24 DEF FinalizeIndexes, AfterIndex
<1>25. CASE FinalizeFts
  BY <1>25 DEF FinalizeFts
<1>26. CASE VerifySourceFiles
  BY <1>26 DEF VerifySourceFiles
<1>27. CASE UpdateMetadata
  BY <1>27 DEF UpdateMetadata, Enter
<1>28. CASE RefreshSummary
  BY <1>28 DEF RefreshSummary
<1>29. CASE LeaveStats
  BY <1>29 DEF LeaveStats, Closed
<1>30. CASE SetComplete
  BY <1>30 DEF SetComplete
<1>31. CASE Recheck
  BY <1>31 DEF Recheck
<1>32. CASE Close
  BY <1>32 DEF Close, Checkpoint
<1>33. CASE PromoteWal
  BY <1>33 DEF PromoteWal
<1>34. CASE PromoteMain
  BY <1>34 DEF PromoteMain
<1>35. CASE HandleInterruption
  <2>1. partial \in Database
    BY <1>35 DEF HandleInterruption
  <2>2. PICK s \in IF outcome = "cancelled" /\ attempt \in partial.runs
                   THEN {"cancelled", partial.status} ELSE {partial.status} :
          partial' \in {[partial EXCEPT !.status = s, !.walled = FALSE],
                       [partial EXCEPT !.status = s]}
    BY <1>35 DEF HandleInterruption
  <2>3. /\ partial'.runs = partial.runs /\ partial'.status = s
        /\ partial'.open = partial.open /\ partial'.closed = partial.closed
        /\ partial'.done = partial.done /\ partial'.parsed = partial.parsed
    <3>1. CASE partial' = [partial EXCEPT !.status = s, !.walled = FALSE]
      BY <2>1, <3>1
    <3>2. CASE partial' = [partial EXCEPT !.status = s]
      BY <2>1, <3>2
    <3> QED
      BY <2>2, <3>1, <3>2
  <2>4. pc = "unwind" /\ pc' = "idle" /\ UNCHANGED <<attempt, outcome, bar, target>>
    BY <1>35 DEF HandleInterruption
  <2>5. partial # NoDb
    BY <2>1
  <2>6. s \in {"cancelled", partial.status}
    BY <2>2
  <2>7. outcome = "cancelled" /\ attempt \in partial.runs /\ partial.status # "complete"
          => s # "complete"
    BY <2>6
  <2> QED
    BY <2>3, <2>4, <2>5, <2>6, <2>7
<1>36. CASE Fail
  BY <1>36 DEF Fail, FailWith
<1>37. CASE CancelStops
  BY <1>37 DEF CancelStops, FailWith
<1>38. CASE Kill
  BY <1>38 DEF Kill
<1>39. CASE CancelCall
  BY <1>39 DEF CancelCall
<1>40. CASE ReaderLeavesWal
  BY <1>40 DEF ReaderLeavesWal
<1>41. CASE DeleteFinal
  BY <1>41 DEF DeleteFinal
<1>42. CASE AllDone
  BY <1>42 DEF AllDone
<1>43. CASE UNCHANGED extract
  BY <1>43
<1> QED
  BY <1>1, <1>2, <1>3, <1>4, <1>5, <1>6, <1>7, <1>8, <1>9, <1>10, <1>11,
     <1>12, <1>13, <1>14, <1>15, <1>16, <1>17, <1>18, <1>19, <1>20, <1>21,
     <1>22, <1>23, <1>24, <1>25, <1>26, <1>27, <1>28, <1>29, <1>30, <1>31,
     <1>32, <1>33, <1>34, <1>35, <1>36, <1>37, <1>38, <1>39, <1>40, <1>41,
     <1>42, <1>43 DEF ExtractNext, Pipeline, Environment,
     Parse

\* A phase is closed when its milestones are committed, and one row is open at a time.
LEMMA LedgerStep ==
  ASSUME IInv, IInv', RunFacts, LedgerFacts, [ExtractNext]_extract
  PROVE  LedgerFacts'
<1> USE ExtractAssumption DEF IInv, TypeOK, OwnDatabase, NothingToMerge,
        LedgerSteps, TargetSteps, CommittedSteps, RunFacts, LedgerFacts,
        LedgerIsTruthful, Live, Before, Have, Required, LedgerPhases, extract, disk,
        call, Quiet, Commit, Go
<1>1. CASE Start
  BY <1>1 DEF Start, StartGuarding
<1>2. CASE Prepare
  BY <1>2 DEF Prepare
<1>3. CASE ClearFinal
  BY <1>3 DEF ClearFinal
<1>4. CASE ClearFinalWal
  BY <1>4 DEF ClearFinalWal
<1>5. CASE ClearPartial
  BY <1>5 DEF ClearPartial
<1>6. CASE ClearPartialWal
  BY <1>6 DEF ClearPartialWal
<1>7. CASE ConnectPartial
  BY <1>7 DEF ConnectPartial
<1>8. CASE InitSchema
  BY <1>8 DEF InitSchema
<1>9. CASE RecordPrepareOpen
  BY <1>9 DEF RecordPrepareOpen
<1>10. CASE RecordPrepareClose
  BY <1>10 DEF RecordPrepareClose
<1>11. CASE InsertMetadata
  BY <1>11 DEF InsertMetadata
<1>12. CASE RegisterSources
  BY <1>12 DEF RegisterSources
<1>13. CASE CollectOversize
  BY <1>13 DEF CollectOversize, Enter
<1>14. CASE LeavePhase
  BY <1>14 DEF LeavePhase, Closed
<1>15. CASE BeginPhase
  BY <1>15 DEF BeginPhase
<1>16. CASE TakeFile
  BY <1>16 DEF TakeFile
<1>17. CASE StoreBatch
  BY <1>17 DEF StoreBatch
<1>18. CASE FlushFile
  BY <1>18 DEF FlushFile
<1>19. CASE SwallowStorageFault
  BY <1>19 DEF SwallowStorageFault
<1>20. CASE MarkParsed
  BY <1>20 DEF MarkParsed
<1>21. CASE ParseLoopDone
  BY <1>21 DEF ParseLoopDone
<1>22. CASE IngestShutdownLog
  BY <1>22 DEF IngestShutdownLog, Enter
<1>23. CASE AssignOrdering
  BY <1>23 DEF AssignOrdering, Enter
<1>24. CASE FinalizeIndexes
  BY <1>24 DEF FinalizeIndexes, AfterIndex
<1>25. CASE FinalizeFts
  BY <1>25 DEF FinalizeFts
<1>26. CASE VerifySourceFiles
  BY <1>26 DEF VerifySourceFiles
<1>27. CASE UpdateMetadata
  BY <1>27 DEF UpdateMetadata, Enter
<1>28. CASE RefreshSummary
  BY <1>28 DEF RefreshSummary
<1>29. CASE LeaveStats
  BY <1>29 DEF LeaveStats, Closed
<1>30. CASE SetComplete
  BY <1>30 DEF SetComplete
<1>31. CASE Recheck
  BY <1>31 DEF Recheck
<1>32. CASE Close
  BY <1>32 DEF Close, Checkpoint
<1>33. CASE PromoteWal
  BY <1>33 DEF PromoteWal
<1>34. CASE PromoteMain
  BY <1>34 DEF PromoteMain
<1>35. CASE HandleInterruption
  <2>1. partial \in Database
    BY <1>35 DEF HandleInterruption
  <2>2. PICK s \in {"cancelled", partial.status} :
          partial' \in {[partial EXCEPT !.status = s, !.walled = FALSE],
                       [partial EXCEPT !.status = s]}
    BY ONLY <1>35, MarkedOnTheWay
  <2>3. /\ partial'.runs = partial.runs /\ partial'.status = s
        /\ partial'.open = partial.open /\ partial'.closed = partial.closed
        /\ partial'.done = partial.done /\ partial'.parsed = partial.parsed
    <3>1. CASE partial' = [partial EXCEPT !.status = s, !.walled = FALSE]
      BY <2>1, <3>1
    <3>2. CASE partial' = [partial EXCEPT !.status = s]
      BY <2>1, <3>2
    <3> QED
      BY <2>2, <3>1, <3>2
  <2>4. pc = "unwind" /\ pc' = "idle" /\ UNCHANGED <<attempt, outcome, bar, target>>
    BY <1>35 DEF HandleInterruption
  <2>5. partial # NoDb
    BY <2>1
  <2> QED
    BY <2>3, <2>4, <2>5
<1>36. CASE Fail
  BY <1>36 DEF Fail, FailWith
<1>37. CASE CancelStops
  BY <1>37 DEF CancelStops, FailWith
<1>38. CASE Kill
  BY <1>38 DEF Kill
<1>39. CASE CancelCall
  BY <1>39 DEF CancelCall
<1>40. CASE ReaderLeavesWal
  BY <1>40 DEF ReaderLeavesWal
<1>41. CASE DeleteFinal
  BY <1>41 DEF DeleteFinal
<1>42. CASE AllDone
  BY <1>42 DEF AllDone
<1>43. CASE UNCHANGED extract
  BY <1>43
<1> QED
  BY <1>1, <1>2, <1>3, <1>4, <1>5, <1>6, <1>7, <1>8, <1>9, <1>10, <1>11,
     <1>12, <1>13, <1>14, <1>15, <1>16, <1>17, <1>18, <1>19, <1>20, <1>21,
     <1>22, <1>23, <1>24, <1>25, <1>26, <1>27, <1>28, <1>29, <1>30, <1>31,
     <1>32, <1>33, <1>34, <1>35, <1>36, <1>37, <1>38, <1>39, <1>40, <1>41,
     <1>42, <1>43 DEF ExtractNext, Pipeline, Environment,
     Parse

\* The sidecar is renamed before the file whose frames it holds.
LEMMA WalStep ==
  ASSUME IInv, IInv', RunFacts, WalFacts, [ExtractNext]_extract
  PROVE  WalFacts'
<1> USE ExtractAssumption DEF IInv, TypeOK, OwnDatabase, NothingToMerge, WalFacts,
        FinalHasItsWal, Live, extract, disk, call, Quiet, Commit, Go
<1>1. CASE Start
  BY <1>1 DEF Start, StartGuarding
<1>2. CASE Prepare
  BY <1>2 DEF Prepare
<1>3. CASE ClearFinal
  BY <1>3 DEF ClearFinal
<1>4. CASE ClearFinalWal
  BY <1>4 DEF ClearFinalWal
<1>5. CASE ClearPartial
  BY <1>5 DEF ClearPartial
<1>6. CASE ClearPartialWal
  BY <1>6 DEF ClearPartialWal
<1>7. CASE ConnectPartial
  BY <1>7 DEF ConnectPartial
<1>8. CASE InitSchema
  BY <1>8 DEF InitSchema
<1>9. CASE RecordPrepareOpen
  BY <1>9 DEF RecordPrepareOpen
<1>10. CASE RecordPrepareClose
  BY <1>10 DEF RecordPrepareClose
<1>11. CASE InsertMetadata
  BY <1>11 DEF InsertMetadata
<1>12. CASE RegisterSources
  BY <1>12 DEF RegisterSources
<1>13. CASE CollectOversize
  BY <1>13 DEF CollectOversize, Enter
<1>14. CASE LeavePhase
  BY <1>14 DEF LeavePhase, Closed
<1>15. CASE BeginPhase
  BY <1>15 DEF BeginPhase
<1>16. CASE TakeFile
  BY <1>16 DEF TakeFile
<1>17. CASE StoreBatch
  BY <1>17 DEF StoreBatch
<1>18. CASE FlushFile
  BY <1>18 DEF FlushFile
<1>19. CASE SwallowStorageFault
  BY <1>19 DEF SwallowStorageFault
<1>20. CASE MarkParsed
  BY <1>20 DEF MarkParsed
<1>21. CASE ParseLoopDone
  BY <1>21 DEF ParseLoopDone
<1>22. CASE IngestShutdownLog
  BY <1>22 DEF IngestShutdownLog, Enter
<1>23. CASE AssignOrdering
  BY <1>23 DEF AssignOrdering, Enter
<1>24. CASE FinalizeIndexes
  BY <1>24 DEF FinalizeIndexes, AfterIndex
<1>25. CASE FinalizeFts
  BY <1>25 DEF FinalizeFts
<1>26. CASE VerifySourceFiles
  BY <1>26 DEF VerifySourceFiles
<1>27. CASE UpdateMetadata
  BY <1>27 DEF UpdateMetadata, Enter
<1>28. CASE RefreshSummary
  BY <1>28 DEF RefreshSummary
<1>29. CASE LeaveStats
  BY <1>29 DEF LeaveStats, Closed
<1>30. CASE SetComplete
  BY <1>30 DEF SetComplete
<1>31. CASE Recheck
  BY <1>31 DEF Recheck
<1>32. CASE Close
  BY <1>32 DEF Close, Checkpoint
<1>33. CASE PromoteWal
  BY <1>33 DEF PromoteWal
<1>34. CASE PromoteMain
  BY <1>34 DEF PromoteMain
<1>35. CASE HandleInterruption
  BY <1>35 DEF HandleInterruption
<1>36. CASE Fail
  BY <1>36 DEF Fail, FailWith
<1>37. CASE CancelStops
  BY <1>37 DEF CancelStops, FailWith
<1>38. CASE Kill
  BY <1>38 DEF Kill
<1>39. CASE CancelCall
  BY <1>39 DEF CancelCall
<1>40. CASE ReaderLeavesWal
  BY <1>40 DEF ReaderLeavesWal
<1>41. CASE DeleteFinal
  BY <1>41 DEF DeleteFinal
<1>42. CASE AllDone
  BY <1>42 DEF AllDone
<1>43. CASE UNCHANGED extract
  BY <1>43
<1> QED
  BY <1>1, <1>2, <1>3, <1>4, <1>5, <1>6, <1>7, <1>8, <1>9, <1>10, <1>11,
     <1>12, <1>13, <1>14, <1>15, <1>16, <1>17, <1>18, <1>19, <1>20, <1>21,
     <1>22, <1>23, <1>24, <1>25, <1>26, <1>27, <1>28, <1>29, <1>30, <1>31,
     <1>32, <1>33, <1>34, <1>35, <1>36, <1>37, <1>38, <1>39, <1>40, <1>41,
     <1>42, <1>43 DEF ExtractNext, Pipeline, Environment,
     Parse

\* The four facts hold in every reachable state.
LEMMA CallInvariant == ExtractSpec => []CallInv
<1>1. ExtractInit => CallInv
  BY DEF ExtractInit, CallInv, TokenFacts, RunFacts, LedgerFacts, LedgerIsTruthful, WalFacts,
     FinalHasItsWal, Live
<1>2. IInv /\ IInv' /\ CallInv /\ [ExtractNext]_extract => CallInv'
  BY TokenStep, RunStep, LedgerStep, WalStep DEF CallInv
<1> QED
  BY <1>1, <1>2, Invariant, PTL DEF ExtractSpec

\* _enter_phase: in every state, kills included, a closed row of extract_phases stands for
\* work that is committed, and the open one is the phase the progress bar shows.
THEOREM LedgerTruthful == ExtractSpec => []LedgerIsTruthful
<1>1. CallInv => LedgerIsTruthful
  BY DEF CallInv, LedgerFacts
<1> QED
  BY <1>1, CallInvariant, PTL

\* cancel.check: a call told to stop before its last phase never returns its result, and a
\* database a cancelled call leaves behind is refused by open_analysis_database.
THEOREM CancelIsHonoured == ExtractSpec => []CancelHonoured
<1>1. CallInv => CancelHonoured
  BY DEF CallInv, TokenFacts, RunFacts, TooLate, CancelHonoured, Opens
<1> QED
  BY <1>1, CallInvariant, PTL

\* _promote_partial: whoever keeps the -wal alive, it is beside the finished database.
THEOREM WalFollows == ExtractSpec => []FinalHasItsWal
<1>1. CallInv => FinalHasItsWal
  BY DEF CallInv, WalFacts
<1> QED
  BY <1>1, CallInvariant, PTL

\* Only InsertMetadata and a marked cancellation change a status, neither one that says
\* "complete".
LEMMA StatusStep ==
  ASSUME IInv, IInv', RunFacts, [ExtractNext]_extract,
         partial # NoDb, partial.status = "complete"
  PROVE  partial' = NoDb \/ partial'.status = "complete"
<1> USE ExtractAssumption DEF IInv, TypeOK, OwnDatabase, NothingToMerge,
        StatusSteps, RunFacts, Live, extract, disk, call, Quiet, Commit, Go
<1>1. CASE Start
  BY <1>1 DEF Start, StartGuarding
<1>2. CASE Prepare
  BY <1>2 DEF Prepare
<1>3. CASE ClearFinal
  BY <1>3 DEF ClearFinal
<1>4. CASE ClearFinalWal
  BY <1>4 DEF ClearFinalWal
<1>5. CASE ClearPartial
  BY <1>5 DEF ClearPartial
<1>6. CASE ClearPartialWal
  BY <1>6 DEF ClearPartialWal
<1>7. CASE ConnectPartial
  BY <1>7 DEF ConnectPartial
<1>8. CASE InitSchema
  BY <1>8 DEF InitSchema
<1>9. CASE RecordPrepareOpen
  BY <1>9 DEF RecordPrepareOpen
<1>10. CASE RecordPrepareClose
  BY <1>10 DEF RecordPrepareClose
<1>11. CASE InsertMetadata
  BY <1>11 DEF InsertMetadata
<1>12. CASE RegisterSources
  BY <1>12 DEF RegisterSources
<1>13. CASE CollectOversize
  BY <1>13 DEF CollectOversize, Enter
<1>14. CASE LeavePhase
  BY <1>14 DEF LeavePhase, Closed
<1>15. CASE BeginPhase
  BY <1>15 DEF BeginPhase
<1>16. CASE TakeFile
  BY <1>16 DEF TakeFile
<1>17. CASE StoreBatch
  BY <1>17 DEF StoreBatch
<1>18. CASE FlushFile
  BY <1>18 DEF FlushFile
<1>19. CASE SwallowStorageFault
  BY <1>19 DEF SwallowStorageFault
<1>20. CASE MarkParsed
  BY <1>20 DEF MarkParsed
<1>21. CASE ParseLoopDone
  BY <1>21 DEF ParseLoopDone
<1>22. CASE IngestShutdownLog
  BY <1>22 DEF IngestShutdownLog, Enter
<1>23. CASE AssignOrdering
  BY <1>23 DEF AssignOrdering, Enter
<1>24. CASE FinalizeIndexes
  BY <1>24 DEF FinalizeIndexes, AfterIndex
<1>25. CASE FinalizeFts
  BY <1>25 DEF FinalizeFts
<1>26. CASE VerifySourceFiles
  BY <1>26 DEF VerifySourceFiles
<1>27. CASE UpdateMetadata
  BY <1>27 DEF UpdateMetadata, Enter
<1>28. CASE RefreshSummary
  BY <1>28 DEF RefreshSummary
<1>29. CASE LeaveStats
  BY <1>29 DEF LeaveStats, Closed
<1>30. CASE SetComplete
  BY <1>30 DEF SetComplete
<1>31. CASE Recheck
  BY <1>31 DEF Recheck
<1>32. CASE Close
  BY <1>32 DEF Close, Checkpoint
<1>33. CASE PromoteWal
  BY <1>33 DEF PromoteWal
<1>34. CASE PromoteMain
  BY <1>34 DEF PromoteMain
<1>35. CASE HandleInterruption
  <2>1. partial \in Database
    BY <1>35 DEF HandleInterruption
  <2>2. PICK s \in IF outcome = "cancelled" /\ attempt \in partial.runs
                   THEN {"cancelled", partial.status} ELSE {partial.status} :
          partial' \in {[partial EXCEPT !.status = s, !.walled = FALSE],
                       [partial EXCEPT !.status = s]}
    BY <1>35 DEF HandleInterruption
  <2>3. /\ partial'.runs = partial.runs /\ partial'.status = s
        /\ partial'.open = partial.open /\ partial'.closed = partial.closed
        /\ partial'.done = partial.done /\ partial'.parsed = partial.parsed
    <3>1. CASE partial' = [partial EXCEPT !.status = s, !.walled = FALSE]
      BY <2>1, <3>1
    <3>2. CASE partial' = [partial EXCEPT !.status = s]
      BY <2>1, <3>2
    <3> QED
      BY <2>2, <3>1, <3>2
  <2>4. pc = "unwind" /\ pc' = "idle" /\ UNCHANGED <<attempt, outcome, bar, target>>
    BY <1>35 DEF HandleInterruption
  <2>5. partial # NoDb
    BY <2>1
  <2>6. s \in {"cancelled", partial.status}
    BY <2>2
  <2>7. outcome = "cancelled" /\ attempt \in partial.runs /\ partial.status # "complete"
          => s # "complete"
    BY <2>6
  <2> QED
    BY <2>3, <2>4, <2>5, <2>6, <2>7
<1>36. CASE Fail
  BY <1>36 DEF Fail, FailWith
<1>37. CASE CancelStops
  BY <1>37 DEF CancelStops, FailWith
<1>38. CASE Kill
  BY <1>38 DEF Kill
<1>39. CASE CancelCall
  BY <1>39 DEF CancelCall
<1>40. CASE ReaderLeavesWal
  BY <1>40 DEF ReaderLeavesWal
<1>41. CASE DeleteFinal
  BY <1>41 DEF DeleteFinal
<1>42. CASE AllDone
  BY <1>42 DEF AllDone
<1>43. CASE UNCHANGED extract
  BY <1>43
<1> QED
  BY <1>1, <1>2, <1>3, <1>4, <1>5, <1>6, <1>7, <1>8, <1>9, <1>10, <1>11,
     <1>12, <1>13, <1>14, <1>15, <1>16, <1>17, <1>18, <1>19, <1>20, <1>21,
     <1>22, <1>23, <1>24, <1>25, <1>26, <1>27, <1>28, <1>29, <1>30, <1>31,
     <1>32, <1>33, <1>34, <1>35, <1>36, <1>37, <1>38, <1>39, <1>40, <1>41,
     <1>42, <1>43 DEF ExtractNext, Pipeline, Environment,
     Parse

\* set_extract_status: nothing that happens to a call, late tokens included, takes the
\* status "complete" back.
THEOREM CompleteIsKept == ExtractSpec => CompleteStands
<1>1. IInv /\ IInv' /\ CallInv /\ [ExtractNext]_extract =>
        [partial # NoDb /\ partial.status = "complete"
           => partial' = NoDb \/ partial'.status = "complete"]_extract
  BY StatusStep DEF CallInv
<1> QED
  BY <1>1, CallInvariant, Invariant, PTL DEF ExtractSpec, CompleteStands
=============================================================================
