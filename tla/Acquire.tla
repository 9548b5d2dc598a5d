------------------------------ MODULE Acquire ------------------------------
(***************************************************************************)
(* The acquisition of one device (ops/acquisition/, engine/faul_format.py  *)
(* and the acquire command): connect, name the output, confirm, collect a  *)
(* logarchive, hash it, and deliver it as one .faul container or as a      *)
(* loose directory with its sidecar.  A file or a directory under an       *)
(* output name is what the rest of the case is built on.                   *)
(***************************************************************************)
EXTENDS Naturals, FiniteSets

CONSTANTS
  DeviceFiles,   \* the files OsTraceService.collect delivers
  Devices,       \* the connected devices
  None           \* no device, no directory, no file

ASSUME AcquireAssumption ==
  /\ DeviceFiles # {} /\ IsFiniteSet(DeviceFiles)
  /\ None \notin Devices
  /\ \A s \in SUBSET DeviceFiles : s # None

VARIABLES
  apc,        \* the next step of the call
  pack,       \* pack: one .faul, or the loose layout
  token,      \* the CancelToken: "null" (NEVER_CANCELLED), "clear", "set"
  udid,       \* the device asked for, None for "the first one"
  device,     \* the device the lockdown session is with
  lockdown,   \* is a lockdown session open?
  task,       \* the collection: "none", "running", "done", "failed"
  place,      \* where the collection is: "none", "temp", "partial", "final"
  collected,  \* the files in it
  hashes,     \* file_hashes: the files hashed so far
  faulTmp,    \* the entries of <stem>.faul.tmp, None when absent
  faul,       \* the container at <stem>.faul, None when absent
  report,     \* the sidecar beside the loose directory, None when absent
  reportTmp,  \* its temporary file exists
  aend,       \* how the call ended
  told        \* history: the step at which the token was set

acquisition == <<apc, pack, token, udid, device, lockdown, task, place,
                 collected, hashes, faulTmp, faul, report, reportTmp, aend, told>>

ASteps == {"idle", "connect", "name", "confirm", "collect", "hash", "pack",
           "replace", "promote", "report", "reportReplace", "ended"}
AEnds  == {"none", "ok", "aborted", "cancelled", "failed", "killed"}

\* A container: its entries and the hashes its sidecar lists.
Container == [ entries : SUBSET DeviceFiles, sidecar : SUBSET DeviceFiles ]

AcquireTypeOK ==
  /\ apc \in ASteps /\ pack \in BOOLEAN /\ token \in {"null", "clear", "set"}
  /\ udid \in Devices \cup {None} /\ device \in Devices \cup {None}
  /\ lockdown \in BOOLEAN /\ task \in {"none", "running", "done", "failed"}
  /\ place \in {"none", "temp", "partial", "final"}
  /\ collected \subseteq DeviceFiles /\ hashes \subseteq DeviceFiles
  /\ faulTmp = None \/ faulTmp \subseteq DeviceFiles
  /\ faul \in Container \cup {None}
  /\ report = None \/ report \subseteq DeviceFiles
  /\ reportTmp \in BOOLEAN /\ aend \in AEnds /\ told \in ASteps \cup {"never"}

AcquireInit ==
  /\ apc = "idle" /\ pack = TRUE /\ token = "null" /\ udid = None
  /\ device = None /\ lockdown = FALSE /\ task = "none" /\ place = "none"
  /\ collected = {} /\ hashes = {} /\ faulTmp = None /\ faul = None
  /\ report = None /\ reportTmp = FALSE /\ aend = "none" /\ told = "never"

-----------------------------------------------------------------------------
(* Ending a call *)

\* The ExitStack removes the temporary directory; a .partial stays.
DropTemporary ==
  IF place = "temp" THEN place' = "none" /\ collected' = {}
                    ELSE UNCHANGED <<place, collected>>

\* An exception leaves the call: the lockdown session is closed on the way out
\* when the step is inside the try block, and a half-written container is
\* unlinked.
Raise(how, closes) ==
  /\ apc' = "ended" /\ aend' = how
  /\ lockdown' = (lockdown /\ ~closes)
  /\ faulTmp' = None
  /\ DropTemporary
  /\ UNCHANGED <<pack, token, udid, device, task, hashes, faul, report, reportTmp, told>>

\* Mutant of Checked: the token is not looked at.
CheckedDeaf(q) == apc' = q

\* The step goes on to q when the token is clear.
Checked(q) == token # "set" /\ apc' = q

-----------------------------------------------------------------------------
(* Connecting *)

\* acquire is called.  The command gives no token; a front-end does.
Call ==
  /\ apc = "idle"
  /\ apc' = "connect"
  /\ pack' \in BOOLEAN
  /\ token' \in {"null", "clear"}
  /\ udid' \in Devices \cup {None}
  /\ UNCHANGED <<device, lockdown, task, place, collected, hashes, faulTmp,
                 faul, report, reportTmp, aend, told>>

\* create_using_usbmux and LockdownClient(udid=...) reach the device asked for.
\* An old library without the keyword reaches any device, and is refused when
\* one was asked for.
OpenLockdown(d) == udid = None \/ d = udid

\* connect_device opens the session and reads who the device is.
Connect(d) ==
  /\ apc = "connect" /\ OpenLockdown(d)
  /\ Checked("name")
  /\ device' = d /\ lockdown' = TRUE
  /\ UNCHANGED <<pack, token, udid, task, place, collected, hashes, faulTmp,
                 faul, report, reportTmp, aend, told>>

\* No device, no library, a cancelled token, or a device that cannot be chosen.
ConnectFails ==
  /\ apc = "connect"
  /\ Raise(IF token = "set" THEN "cancelled" ELSE "failed", FALSE)

\* The output path under output_dir, and the place the collection is written to.
NameOutput ==
  /\ apc = "name"
  /\ apc' = "confirm"
  /\ place' = IF pack THEN "temp" ELSE "partial"
  /\ collected' = {}
  /\ UNCHANGED <<pack, token, udid, device, lockdown, task, hashes, faulTmp,
                 faul, report, reportTmp, aend, told>>

\* The case number yields no file name or the path escapes output_dir: the
\* session is closed.  output_dir cannot be created: it is not.
NameFails ==
  /\ apc = "name"
  /\ \E closes \in BOOLEAN : Raise("failed", closes)

\* The operator's confirmation and the token, inside the try block that closes
\* the session.
Confirm ==
  /\ apc = "confirm"
  /\ Checked("collect")
  /\ task' = "running"
  /\ UNCHANGED <<pack, token, udid, device, lockdown, place, collected, hashes,
                 faulTmp, faul, report, reportTmp, aend, told>>

Declined ==
  /\ apc = "confirm"
  /\ \/ Raise("aborted", TRUE)
     \/ token = "set" /\ Raise("cancelled", TRUE)

-----------------------------------------------------------------------------
(* Collecting and hashing *)

\* The device service writes one file, while the caller polls.
CollectFile(f) ==
  /\ apc = "collect" /\ task = "running" /\ f \notin collected
  /\ collected' = collected \cup {f}
  /\ UNCHANGED <<apc, pack, token, udid, device, lockdown, task, place, hashes,
                 faulTmp, faul, report, reportTmp, aend, told>>

\* The task ends: with everything, or with an error.
CollectionEnds ==
  /\ apc = "collect" /\ task = "running"
  /\ \/ collected = DeviceFiles /\ task' = "done"
     \/ task' = "failed"
  /\ UNCHANGED <<apc, pack, token, udid, device, lockdown, place, collected,
                 hashes, faulTmp, faul, report, reportTmp, aend, told>>

\* The poll sees the token while the task runs: it cancels the task, waits for
\* it to unwind and raises.
CollectionCancelled ==
  /\ apc = "collect" /\ task = "running" /\ token = "set"
  /\ Raise("cancelled", TRUE)

\* The await returns: the loop is left, whatever the token says by now.
Collected ==
  /\ apc = "collect" /\ task = "done"
  /\ apc' = "hash" /\ lockdown' = FALSE
  /\ UNCHANGED <<pack, token, udid, device, task, place, collected, hashes,
                 faulTmp, faul, report, reportTmp, aend, told>>

CollectionFailed ==
  /\ apc = "collect" /\ task = "failed"
  /\ Raise("failed", TRUE)

\* hash_logarchive takes the files in order and checks the token before each.
HashFile(f) ==
  /\ apc = "hash" /\ f \in collected \ hashes
  /\ Checked("hash")
  /\ hashes' = hashes \cup {f}
  /\ UNCHANGED <<pack, token, udid, device, lockdown, task, place, collected,
                 faulTmp, faul, report, reportTmp, aend, told>>

HashCancelled ==
  /\ apc = "hash" /\ hashes # collected /\ token = "set"
  /\ Raise("cancelled", TRUE)

\* A file that cannot be read is passed over; any other failure of the pass is
\* survived, with no hashes at all.
HashingDone ==
  /\ apc = "hash"
  /\ hashes = collected \/ token # "set"
  /\ hashes' \in {hashes, {}}
  /\ apc' = IF pack THEN "pack" ELSE "promote"
  /\ UNCHANGED <<pack, token, udid, device, lockdown, task, place, collected,
                 faulTmp, faul, report, reportTmp, aend, told>>

-----------------------------------------------------------------------------
(* The container *)

\* Mutant of PackEntry: the entries are written under the final name.
PackInPlace ==
  /\ apc = "pack"
  /\ LET seen == IF faul = None THEN {} ELSE faul.entries
     IN \/ /\ \E f \in collected \ seen :
                faul' = [entries |-> seen \cup {f}, sidecar |-> hashes]
           /\ UNCHANGED <<apc, faulTmp>>
        \/ seen = collected /\ apc' = "replace" /\ faulTmp' = seen /\ UNCHANGED faul
  /\ UNCHANGED <<pack, token, udid, device, lockdown, task, place, collected,
                 hashes, report, reportTmp, aend, told>>

\* pack_faul writes the manifest and the sidecar, then one entry per file, into
\* <stem>.faul.tmp.
PackEntry ==
  /\ apc = "pack"
  /\ \/ faulTmp = None /\ faulTmp' = {} /\ UNCHANGED apc
     \/ /\ faulTmp # None
        /\ \E f \in collected \ faulTmp : faulTmp' = faulTmp \cup {f}
        /\ UNCHANGED apc
     \/ faulTmp = collected /\ apc' = "replace" /\ UNCHANGED faulTmp
  /\ UNCHANGED <<pack, token, udid, device, lockdown, task, place, collected,
                 hashes, faul, report, reportTmp, aend, told>>

\* os.replace, the log line, and the ExitStack.
ReplaceContainer ==
  /\ apc = "replace"
  /\ faul' = [entries |-> faulTmp, sidecar |-> hashes]
  /\ faulTmp' = None
  /\ apc' = "ended" /\ aend' = "ok"
  /\ DropTemporary
  /\ UNCHANGED <<pack, token, udid, device, lockdown, task, hashes, report,
                 reportTmp, told>>

\* The disk is full, or the directory is gone: the temporary file is unlinked.
PackFails ==
  /\ apc \in {"pack", "replace"}
  /\ Raise("failed", TRUE)

-----------------------------------------------------------------------------
(* The loose layout *)

Promote ==
  /\ apc = "promote"
  /\ place' = "final"
  /\ apc' = "report"
  /\ UNCHANGED <<pack, token, udid, device, lockdown, task, collected, hashes,
                 faulTmp, faul, report, reportTmp, aend, told>>

\* The rename fails: the .partial directory stays.
PromoteFails ==
  /\ apc = "promote"
  /\ Raise("failed", TRUE)

\* write_acquisition_report writes a temporary file ...
WriteReport ==
  /\ apc = "report"
  /\ reportTmp' = TRUE
  /\ apc' = "reportReplace"
  /\ UNCHANGED <<pack, token, udid, device, lockdown, task, place, collected,
                 hashes, faulTmp, faul, report, aend, told>>

\* ... and renames it.
ReplaceReport ==
  /\ apc = "reportReplace"
  /\ reportTmp' = FALSE /\ report' = hashes
  /\ apc' = "ended" /\ aend' = "ok"
  /\ UNCHANGED <<pack, token, udid, device, lockdown, task, place, collected,
                 hashes, faulTmp, faul, told>>

\* A failing report is logged: the archive is kept without one.
ReportFails ==
  /\ apc \in {"report", "reportReplace"}
  /\ reportTmp' = FALSE
  /\ apc' = "ended" /\ aend' = "ok"
  /\ UNCHANGED <<pack, token, udid, device, lockdown, task, place, collected,
                 hashes, faulTmp, faul, report, told>>

-----------------------------------------------------------------------------
(* The outside *)

Cancel ==
  /\ apc \notin {"idle", "ended"} /\ token = "clear"
  /\ token' = "set" /\ told' = apc
  /\ UNCHANGED <<apc, pack, udid, device, lockdown, task, place, collected,
                 hashes, faulTmp, faul, report, reportTmp, aend>>

\* The process is killed: nothing is cleaned up, the session goes with it.
KillAcquire ==
  /\ apc \notin {"idle", "ended"}
  /\ apc' = "ended" /\ aend' = "killed" /\ lockdown' = FALSE
  /\ UNCHANGED <<pack, token, udid, device, task, place, collected, hashes,
                 faulTmp, faul, report, reportTmp, told>>

AcquireNext ==
  \/ Call
  \/ \E d \in Devices : Connect(d)
  \/ ConnectFails \/ NameOutput \/ NameFails \/ Confirm \/ Declined
  \/ \E f \in DeviceFiles : CollectFile(f) \/ HashFile(f)
  \/ CollectionEnds \/ CollectionCancelled \/ Collected \/ CollectionFailed
  \/ HashCancelled \/ HashingDone
  \/ PackEntry \/ ReplaceContainer \/ PackFails
  \/ Promote \/ PromoteFails \/ WriteReport \/ ReplaceReport \/ ReportFails
  \/ Cancel \/ KillAcquire

AcquireSpec == AcquireInit /\ [][AcquireNext]_acquisition

-----------------------------------------------------------------------------
(* What an acquisition promises *)

\* Whatever a kill, a failure or a cancellation interrupts, a file under the
\* container's name holds the whole collection, a directory under the loose name
\* holds the whole collection, and a sidecar stands beside nothing else
\* (pack_faul, the rename in acquire, write_acquisition_report).
OutputIsWhole ==
  /\ AcquireTypeOK
  /\ faul # None => faul.entries = DeviceFiles
  /\ place = "final" => collected = DeviceFiles
  /\ report # None => place = "final"

\* A cancellation that arrives before hashing begins leaves nothing under an
\* output name, however late the device stops (_collect_cancellable, the check
\* before each hashed file).
CancelLeavesNoOutput ==
  told \in {"connect", "name", "confirm", "collect"} => faul = None /\ place # "final"
=============================================================================
