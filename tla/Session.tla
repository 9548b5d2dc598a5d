------------------------------ MODULE Session ------------------------------
(***************************************************************************)
(* Extract sessions (app/extract_session.py, the extract command and       *)
(* `acquire --extract`).  Each session appends to the operational log of   *)
(* the case, runs the pipeline, and seals: it closes the log, hashes it    *)
(* and stores the digest in the database it made.  A Ctrl+C may fall       *)
(* anywhere, and a second one with it.                                     *)
(***************************************************************************)
EXTENDS Naturals, Sequences, FiniteSetsExt

CONSTANTS
  Outputs,      \* database names beside one log file: same case, same IMEI
  MaxSessions,  \* bound: sessions
  Absent,       \* no file
  Hollow        \* the empty database sqlite3.connect creates

Sessions == 1..MaxSessions

ASSUME SessionAssumption ==
  /\ MaxSessions \in Nat
  /\ {Absent, Hollow} \cap Sessions = {} /\ Absent # Hollow

VARIABLES
  epc,       \* the next step of the session
  session,   \* the number of the session
  out,       \* its db_path
  routed,    \* _sigint_cancels is installed (extract), or not (acquire)
  handler,   \* what Ctrl+C does: "default" or "cancel"
  asked,     \* the CancelToken
  overwrites,\* opts.overwrite
  atFinal,   \* the session whose database is at each output name, or Hollow
  atPartial, \* the session whose database is at each .partial name
  seal,      \* log_file_sha256 stored in the database of a session: the log it digests
  logOpen,   \* the file handler is attached
  lines,     \* the operational log: the sessions that wrote its lines
  metadata,  \* metadata_id: the result came back
  exit,      \* the exit code, "none" while the session runs
  raced      \* history: a database was deleted between the look and the connect

sessions == <<epc, session, out, routed, handler, asked, overwrites, atFinal,
              atPartial, seal, logOpen, lines, metadata, exit, raced>>

ESteps == {"idle", "guard", "write", "promoted", "returned", "cancelled",
           "interrupted", "failed", "seal", "store"}

SessionTypeOK ==
  /\ epc \in ESteps /\ session \in 0..MaxSessions /\ out \in Outputs
  /\ routed \in BOOLEAN /\ handler \in {"default", "cancel"} /\ asked \in BOOLEAN
  /\ overwrites \in BOOLEAN
  /\ atFinal \in [Outputs -> Sessions \cup {Absent, Hollow}]
  /\ atPartial \in [Outputs -> Sessions \cup {Absent}]
  /\ seal \in [Sessions -> Seq(Sessions)]
  /\ logOpen \in BOOLEAN /\ lines \in Seq(Sessions) /\ metadata \in BOOLEAN
  /\ exit \in {"none", "0", "1", "130", "killed"} /\ raced \in BOOLEAN

SessionInit ==
  /\ epc = "idle" /\ session = 0 /\ out \in Outputs
  /\ routed = FALSE /\ handler = "default" /\ asked = FALSE /\ overwrites = FALSE
  /\ atFinal = [o \in Outputs |-> Absent] /\ atPartial = [o \in Outputs |-> Absent]
  /\ seal = [s \in Sessions |-> <<>>]
  /\ logOpen = FALSE /\ lines = <<>> /\ metadata = FALSE /\ exit = "none"
  /\ raced = FALSE

\* Control moves, everything not named in a step stays.
Step(p, q) == epc = p /\ epc' = q

\* A line goes to the file while its handler is attached, else only to the console.
Write == lines' = IF logOpen THEN Append(lines, session) ELSE lines

-----------------------------------------------------------------------------
(* The session *)

\* The command checks its arguments, routes Ctrl+C, and the session opens the
\* log for appending and writes its banner.
StartSession ==
  /\ Step("idle", "guard") /\ session < MaxSessions
  /\ session' = session + 1
  /\ out' \in Outputs
  /\ routed' \in BOOLEAN
  /\ overwrites' \in IF routed' THEN BOOLEAN ELSE {TRUE}
  /\ handler' = IF routed' THEN "cancel" ELSE "default"
  /\ asked' = FALSE /\ metadata' = FALSE /\ exit' = "none"
  /\ logOpen' = TRUE /\ lines' = Append(lines, session')
  /\ UNCHANGED <<atFinal, atPartial, seal, raced>>

\* run_extract, seen from the session: the output names are guarded and
\* cleared, the database is built under .partial, ...
GuardOutput ==
  /\ epc = "guard"
  /\ IF ~overwrites /\ (atFinal[out] # Absent \/ atPartial[out] # Absent)
     THEN epc' = "failed" /\ UNCHANGED <<atFinal, atPartial>>
     ELSE /\ epc' = "write"
          /\ atFinal' = [atFinal EXCEPT ![out] = Absent]
          /\ atPartial' = [atPartial EXCEPT ![out] = session]
  /\ UNCHANGED <<session, out, routed, handler, asked, overwrites, seal, logOpen,
                 lines, metadata, exit, raced>>

\* ... its progress is logged and it is renamed at the very end ...
PromoteOutput ==
  /\ Step("write", "promoted") /\ ~asked
  /\ atFinal' = [atFinal EXCEPT ![out] = session]
  /\ atPartial' = [atPartial EXCEPT ![out] = Absent]
  /\ Write
  /\ UNCHANGED <<session, out, routed, handler, asked, overwrites, seal, logOpen,
                 metadata, exit, raced>>

\* ... and the result names its row.
ReturnResult ==
  /\ Step("promoted", "returned")
  /\ metadata' = TRUE
  /\ UNCHANGED <<session, out, routed, handler, asked, overwrites, atFinal,
                 atPartial, seal, logOpen, lines, exit, raced>>

\* OperationCancelled, an error, or KeyboardInterrupt leave run_extract.
ExtractEnds ==
  /\ \/ epc \in {"guard", "write"} /\ asked /\ epc' = "cancelled"
     \/ epc \in {"guard", "write"} /\ epc' = "failed"
  /\ UNCHANGED <<session, out, routed, handler, asked, overwrites, atFinal,
                 atPartial, seal, logOpen, lines, metadata, exit, raced>>

\* Mutant of CloseLog: the handler is left attached while the log is hashed.
CloseLogLate ==
  /\ epc \in {"returned", "cancelled", "interrupted", "failed"}
  /\ epc' = "seal"
  /\ exit' = CASE epc = "returned" -> "0"
               [] epc = "failed"   -> "1"
               [] OTHER            -> "130"
  /\ Write /\ UNCHANGED logOpen
  /\ UNCHANGED <<session, out, routed, handler, asked, overwrites, atFinal,
                 atPartial, seal, metadata, raced>>

\* Each exit path writes its last lines and goes to _seal, which closes the
\* handler before anything is hashed and gives up the row when its database is
\* not there.
CloseLog ==
  /\ epc \in {"returned", "cancelled", "interrupted", "failed"}
  /\ epc' = "seal"
  /\ exit' = CASE epc = "returned" -> "0"
               [] epc = "failed"   -> "1"
               [] OTHER            -> "130"
  /\ Write /\ logOpen' = FALSE
  /\ UNCHANGED <<session, out, routed, handler, asked, overwrites, atFinal,
                 atPartial, seal, metadata, raced>>

\* The row is given up when its database is not there (the existence guard).
GuardSeal ==
  /\ Step("seal", "store")
  /\ metadata' = (metadata /\ atFinal[out] # Absent)
  /\ UNCHANGED <<session, out, routed, handler, asked, overwrites, atFinal,
                 atPartial, seal, logOpen, lines, exit, raced>>

\* seal_log_file hashes the log and, with a row, connects, which creates a file
\* that is not there, and updates it; a database that refuses stays unsealed.
\* The command restores the disposition of Ctrl+C and returns.
StoreSeal ==
  /\ Step("store", "idle")
  /\ seal' \in IF metadata /\ atFinal[out] \in Sessions
               THEN {seal, [seal EXCEPT ![atFinal[out]] = lines]} ELSE {seal}
  /\ atFinal' = IF metadata /\ atFinal[out] = Absent
                THEN [atFinal EXCEPT ![out] = Hollow] ELSE atFinal
  /\ Write
  /\ handler' = "default"
  /\ UNCHANGED <<session, out, routed, asked, overwrites, atPartial, logOpen,
                 metadata, exit, raced>>

-----------------------------------------------------------------------------
(* The outside *)

\* The process is gone: what was on disk stays.
Die ==
  /\ epc' = "idle" /\ exit' = "killed" /\ handler' = "default" /\ logOpen' = FALSE
  /\ UNCHANGED <<session, out, routed, asked, overwrites, atFinal, atPartial,
                 seal, lines, metadata, raced>>

\* Ctrl+C.  Routed, the first one cancels and restores the default; a default
\* one raises KeyboardInterrupt, which the session catches inside run_extract
\* and nowhere else.
CtrlC ==
  /\ epc # "idle"
  /\ \/ /\ handler = "cancel" /\ handler' = "default" /\ asked' = TRUE
        /\ UNCHANGED <<epc, session, out, routed, overwrites, atFinal, atPartial,
                       seal, logOpen, lines, metadata, exit, raced>>
     \/ /\ handler = "default" /\ epc \in {"guard", "write", "promoted"}
        /\ epc' = "interrupted"
        /\ UNCHANGED <<session, out, routed, handler, asked, overwrites, atFinal,
                       atPartial, seal, logOpen, lines, metadata, exit, raced>>
     \/ /\ handler = "default" /\ epc \notin {"guard", "write", "promoted"}
        /\ Die

KillSession == epc # "idle" /\ Die

\* The analyst deletes a database.
DeleteOutput ==
  /\ \E o \in Outputs :
       /\ atFinal[o] # Absent
       /\ atFinal' = [atFinal EXCEPT ![o] = Absent]
       /\ raced' = (raced \/ (epc = "store" /\ o = out))
  /\ UNCHANGED <<epc, session, out, routed, handler, asked, overwrites, atPartial,
                 seal, logOpen, lines, metadata, exit>>

SessionNext ==
  \/ StartSession \/ GuardOutput \/ PromoteOutput \/ ReturnResult \/ ExtractEnds
  \/ CloseLog \/ GuardSeal \/ StoreSeal \/ CtrlC \/ KillSession \/ DeleteOutput

SessionSpec == SessionInit /\ [][SessionNext]_sessions

-----------------------------------------------------------------------------
(* What a seal promises *)

LinesOf(s, log) == Cardinality({ i \in DOMAIN log : log[i] = s })

\* The digest stored in a database is of a log that holds everything the session
\* that made the database ever wrote to it, whatever interrupts the sealing
\* (_seal, close_file_handler).
SealCoversSession ==
  /\ SessionTypeOK
  /\ \A s \in Sessions :
       seal[s] # <<>> => /\ seal[s] = SubSeq(lines, 1, Len(seal[s]))
                         /\ LinesOf(s, seal[s]) = LinesOf(s, lines)

=============================================================================
