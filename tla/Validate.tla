------------------------------ MODULE Validate ------------------------------
(***************************************************************************)
(* The self-check run (validation/pipeline.py): from what its arguments    *)
(* name, it collects a device twice, has Apple's tool make a reference,    *)
(* extracts a database and compares, through temporary directories some of *)
(* whose files the analyst asked to keep.  The device is live while it is  *)
(* collected; every outside tool may fail.                                 *)
(***************************************************************************)
EXTENDS Integers, SequencesExt

CONSTANTS
  Arguments,  \* [acquisition, source, device, regen, reference, dbOutput, keep, export, allow]
  Hosts,      \* [mac, root]
  Connected,  \* what usbmux may list: sets of [udid, name]
  NotGiven,     \* an argument left out, a file that is not there
  Entries,    \* the log entries of the archive
  LogFiles    \* device files, and the initial bytes of each

FileBytes == Seq(Nat) \cup {NotGiven}

\* Nothing that is there passes for what is not; a file rewritten begins with another byte (8).
ASSUME ValidateAssumption ==
  /\ LogFiles \in [DOMAIN LogFiles -> FileBytes]
  /\ \A f \in DOMAIN LogFiles : LogFiles[f] \notin {NotGiven, <<>>} => LogFiles[f][1] # 8
  /\ NotGiven \notin Seq(Nat) \cup {"pass", "fail", "raised"}
  /\ NotGiven \notin [DOMAIN LogFiles -> FileBytes]
  /\ \A S \in SUBSET DOMAIN LogFiles :
       NotGiven \notin [S -> {"only_a", "only_b", "identical", "append", "shrunk", "diverged"}]

VARIABLES
  args, host, devices,
  todo,         \* the steps still to run
  temps,        \* temporary directories on disk
  lasting,         \* artefacts marked to be kept
  live, second, \* the device's files now, and how each differs from the first collection
  archives,     \* the two collections: [first, second], NotGiven before they are made
  verdicts,     \* the archive comparison: NotGiven, or a verdict for each log file
  trees,        \* trees in the work directory of a packaged acquisition: [name, whole]
  shown, dbEntries,  \* the reference and the database: NotGiven, or the entries in them
  showing,      \* Apple's tool is writing the reference
  exported,     \* the requested export: "none", "part" (a .tmp beside it) or "whole"
  code          \* the exit status, "raised" for an error that leaves run(), or NotGiven

validate == <<args, host, devices, todo, temps, lasting, live, second, archives, verdicts,
              trees, shown, dbEntries, showing, exported, code>>

Files == DOMAIN LogFiles
ValidateTypeOK ==
  /\ temps \subseteq {"collect", "pmd3", "ref", "pkg", "db"}
  /\ lasting \subseteq {"ref", "db", "archive"}
  /\ shown = NotGiven \/ shown \subseteq Entries
  /\ dbEntries = NotGiven \/ dbEntries \subseteq Entries
  /\ code = NotGiven \/ code \in {"pass", "fail", "raised"}

ValidateInit ==
  /\ args \in Arguments /\ host \in Hosts /\ devices \in Connected
  /\ todo = <<"dispatch">> /\ temps = {} /\ lasting = {}
  /\ live = LogFiles /\ second = [f \in Files |-> "same"]
  /\ archives = [first |-> NotGiven, second |-> NotGiven] /\ verdicts = NotGiven /\ trees = {}
  /\ shown = NotGiven /\ dbEntries = NotGiven /\ showing = FALSE /\ exported = "none" /\ code = NotGiven

Now(s) == todo # <<>> /\ Head(todo) = s /\ code = NotGiven
Done == todo' = Tail(todo)
RaiseError == code' = "raised" /\ UNCHANGED todo

inputs == <<args, host, devices>>
phone == <<live, second, archives, verdicts>>
product == <<trees, shown, dbEntries, showing, exported>>

------------------------------------------------------------------------------
\* Dispatching on the shape of the arguments.

\* resolve_device: the only device when none is named; else the one with that UDID, else the
\* one of that name.
Resolved(name) ==
  LET byUdid == { d \in devices : d.udid = name }
      byName == { d \in devices : d.name = name }
  IN IF name = "" THEN IF Cardinality(devices) = 1 THEN devices ELSE {}
     ELSE IF Cardinality(byUdid) = 1 THEN byUdid
     ELSE IF Cardinality(byName) = 1 THEN byName ELSE {}

\* _dispatch and its modes, in order: what each will run, <<>> for a refusal.
GivenReference == args.reference = "file"
PackagedPlan ==
  IF (args.reference = NotGiven /\ ~host.mac) \/ args.reference = "dangling" THEN <<>>
  ELSE IF GivenReference THEN <<"unpack", "build", "extract", "compare">>
  ELSE <<"unpack", "build", "show", "extract", "compare">>
Plan ==
  CASE args.acquisition -> <<"first", "second", "files">>
    [] ~args.acquisition /\ args.device # NotGiven ->
         IF host.mac /\ host.root
         THEN <<"resolve", "first", "second", "files", "show", "extract", "compare">> ELSE <<>>
    [] ~args.acquisition /\ args.device = NotGiven ->
         CASE args.source = "db" /\ args.regen -> <<"show", "compare">>
           [] args.source = "archive" /\ args.reference # NotGiven ->
                IF GivenReference THEN <<"extract", "compare">> ELSE <<>>
           [] args.source = "db" /\ ~args.regen /\ GivenReference -> <<"compare">>
           [] args.source = "archive" /\ args.reference = NotGiven ->
                IF host.mac THEN <<"show", "extract", "compare">> ELSE <<>>
           [] args.source = "package" -> PackagedPlan
           [] OTHER -> <<>>

\* A database or reference that will be compared is there, and holds what it holds.
Dispatch ==
  /\ Now("dispatch")
  /\ todo' = Plan /\ code' = IF Plan = <<>> THEN "fail" ELSE NotGiven
  /\ \E r \in SUBSET Entries : dbEntries' = IF args.source = "db" /\ ~args.acquisition THEN r ELSE NotGiven
  /\ shown' = IF GivenReference /\ Plan # <<>> /\ "show" \notin Range(Plan) THEN Entries ELSE NotGiven
  /\ UNCHANGED <<inputs, phone, temps, lasting, trees, showing, exported>>

ResolveDevice ==
  /\ Now("resolve")
  /\ IF Resolved(args.device) = {} THEN RaiseError ELSE Done /\ UNCHANGED code
  /\ UNCHANGED <<inputs, phone, temps, lasting, product>>

------------------------------------------------------------------------------
\* The two collections of a live device, and their comparison file by file.

\* The device, between the collections: a live file grows, loses its tail or is written
\* anew; a file is rotated away or appears.
DeviceWrites(f) ==
  /\ archives.first # NotGiven /\ archives.second = NotGiven /\ second[f] = "same"
  /\ \/ /\ live[f] # NotGiven /\ live' = [live EXCEPT ![f] = Append(@, 9)]
        /\ second' = [second EXCEPT ![f] = "grown"]
     \/ /\ live[f] \notin {NotGiven, <<>>} /\ live' = [live EXCEPT ![f] = Front(@)]
        /\ second' = [second EXCEPT ![f] = "purged"]
     \/ /\ live[f] \notin {NotGiven, <<>>}
        /\ \E more \in {<<>>, <<9>>} : live' = [live EXCEPT ![f] = [@ EXCEPT ![1] = 8] \o more]
        /\ second' = [second EXCEPT ![f] = "rewritten"]
     \/ /\ live[f] # NotGiven /\ live' = [live EXCEPT ![f] = NotGiven]
        /\ second' = [second EXCEPT ![f] = "gone"]
     \/ /\ live[f] = NotGiven /\ live' = [live EXCEPT ![f] = <<9>>]
        /\ second' = [second EXCEPT ![f] = "new"]
  /\ UNCHANGED <<inputs, todo, temps, lasting, archives, verdicts, product, code>>

\* _acquire_pymobiledevice3 into a temporary directory, or an archive that was given.  The
\* wrapper around the log files is the tool's own.
CollectFirst ==
  /\ Now("first")
  /\ temps' = IF args.acquisition THEN temps ELSE temps \cup {"pmd3"}
  /\ \/ archives' = [archives EXCEPT !.first = live] /\ Done /\ UNCHANGED code
     \/ ~args.acquisition /\ RaiseError /\ UNCHANGED archives
  /\ UNCHANGED <<inputs, lasting, live, second, verdicts, product>>

\* _collect_from_device, through log collect: an exit status or an empty directory raises.
CollectSecond ==
  /\ Now("second")
  /\ temps' = IF args.acquisition THEN temps ELSE temps \cup {"collect"}
  /\ \/ archives' = [archives EXCEPT !.second = live] /\ Done /\ UNCHANGED code
     \/ ~args.acquisition /\ RaiseError /\ UNCHANGED archives
  /\ UNCHANGED <<inputs, lasting, live, second, verdicts, product>>

\* _is_log_data: trace and timesync files and the string tables; the rest is wrapper.
IsLogData(f) == f # "Info.plist"

PrefixEitherWay(a, b) ==  \* Mutant of PrefixVerdict: whichever side is longer has grown.
  IF IsPrefix(a, b) \/ IsPrefix(b, a) THEN "append" ELSE "diverged"

\* _prefix_verdict: which collection holds the extra bytes, if either.
PrefixVerdict(a, b) ==
  IF Len(a) <= Len(b) /\ IsPrefix(a, b) THEN "append"
  ELSE IF Len(a) > Len(b) /\ IsPrefix(b, a) THEN "shrunk" ELSE "diverged"

VerdictOf(a, b) ==
  IF a = NotGiven THEN "only_b" ELSE IF b = NotGiven THEN "only_a"
  ELSE IF a = b THEN "identical" ELSE PrefixVerdict(a, b)

\* compare_archives and _run_acquisition_compare, over the log data of either collection.
InEither == { f \in Files : /\ IsLogData(f)
                            /\ archives.first[f] # NotGiven \/ archives.second[f] # NotGiven }

CompareArchives ==
  /\ Now("files")
  /\ verdicts' = [f \in InEither |-> VerdictOf(archives.first[f], archives.second[f])]
  /\ Done
  /\ code' = IF Len(todo) > 1 THEN NotGiven
             ELSE IF \E f \in DOMAIN verdicts' : verdicts'[f] = "diverged" THEN "fail" ELSE "pass"
  /\ UNCHANGED <<inputs, temps, lasting, live, second, archives, product>>

FilesPassed == verdicts = NotGiven \/ \A f \in DOMAIN verdicts : verdicts[f] # "diverged"

------------------------------------------------------------------------------
\* The reference, the database and the comparison.

\* make_work_root, and the name build_logarchive gives its bundle: both the stem of SOURCE,
\* both in the same directory.
Stem == "acquisition"
WorkRoot == Stem
Bundle == Stem

\* prepare_source unpacks into the work root; what it refuses ends the run.
Unpack ==
  /\ Now("unpack")
  /\ temps' = temps \cup {"pkg"}
  /\ \/ trees' = trees \cup {WorkRoot} /\ Done /\ UNCHANGED code
     \/ RaiseError /\ UNCHANGED trees
  /\ UNCHANGED <<inputs, phone, lasting, shown, dbEntries, showing, exported>>

\* build_logarchive: a bundle in its place is removed, then the prepared tree is copied and
\* gets its Info.plist.
BuildLogarchive ==
  /\ Now("build")
  /\ LET cleared == trees \ {Bundle}
     IN IF WorkRoot \in cleared
        THEN /\ trees' = cleared \cup {Bundle} /\ Done /\ UNCHANGED code
             /\ lasting' = IF "archive" \in args.keep THEN lasting \cup {"archive"} ELSE lasting
        ELSE trees' = cleared /\ RaiseError /\ UNCHANGED lasting
  /\ UNCHANGED <<inputs, phone, temps, shown, dbEntries, showing, exported>>

\* _make_reference: a directory for it, then log show, which needs macOS and writes as it
\* goes; what a failed one wrote is removed.
ShowStarts ==
  /\ Now("show") /\ ~showing
  /\ temps' = temps \cup {"ref"}
  /\ IF host.mac THEN showing' = TRUE /\ shown' = {} /\ UNCHANGED <<todo, code>>
     ELSE RaiseError /\ UNCHANGED <<showing, shown>>
  /\ UNCHANGED <<inputs, phone, lasting, trees, dbEntries, exported>>

ShowWrites ==
  /\ showing
  /\ \E e \in Entries \ shown : shown' = shown \cup {e}
  /\ UNCHANGED <<inputs, phone, todo, temps, lasting, trees, dbEntries, showing, exported, code>>

ShowFails ==
  /\ showing /\ showing' = FALSE
  /\ shown' = NotGiven /\ RaiseError
  /\ UNCHANGED <<inputs, phone, temps, lasting, trees, dbEntries, exported>>

ShowEnds ==
  /\ showing /\ shown = Entries /\ showing' = FALSE
  /\ lasting' = IF "ref" \in args.keep THEN lasting \cup {"ref"} ELSE lasting
  /\ Done
  /\ UNCHANGED <<inputs, phone, temps, trees, shown, dbEntries, exported, code>>

\* _extract_logarchive: run_extract returns a whole database of what the parser finds, or
\* raises.
ExtractLogarchive ==
  /\ Now("extract")
  /\ temps' = IF args.dbOutput THEN temps ELSE temps \cup {"db"}
  /\ \/ /\ \E r \in SUBSET Entries : dbEntries' = r
        /\ lasting' = IF "db" \in args.keep THEN lasting \cup {"db"} ELSE lasting
        /\ Done /\ UNCHANGED code
     \/ RaiseError /\ UNCHANGED <<dbEntries, lasting>>
  /\ UNCHANGED <<inputs, phone, trees, shown, showing, exported>>

\* export_db_to_ndjson: written beside its name and renamed; a full disk is logged and the
\* comparison goes on.
ExportStarts ==
  /\ Now("compare") /\ args.export /\ exported = "none"
  /\ exported' = "part"
  /\ UNCHANGED <<inputs, phone, todo, temps, lasting, trees, shown, dbEntries, showing, code>>
ExportEnds ==
  /\ Now("compare") /\ exported = "part"
  /\ exported' \in {"whole", "failed"}
  /\ UNCHANGED <<inputs, phone, todo, temps, lasting, trees, shown, dbEntries, showing, code>>

\* _run_compare, and the two results of a device run together.
Passes(missing) == missing <= args.allow /\ FilesPassed

CompareBoth ==
  /\ Now("compare") /\ (args.export => exported \in {"whole", "failed"})
  /\ code' = IF Passes(Cardinality(shown \ dbEntries)) THEN "pass" ELSE "fail"
  /\ Done
  /\ UNCHANGED <<inputs, phone, temps, lasting, product>>

------------------------------------------------------------------------------
\* The end of a run.

\* Where a kept artefact lies, if in a temporary directory.
DirOf(a) == CASE a = "ref" -> {"ref"} [] a = "archive" -> {"pkg"}
              [] a = "db" -> IF args.dbOutput THEN {} ELSE {"db"}

\* _Resources.cleanup, in a finally: directories that hold a kept artefact stay.
Cleanup == temps' = UNION { DirOf(a) : a \in lasting }

\* run.
Return ==
  /\ code # NotGiven /\ todo # <<"over">>
  /\ Cleanup /\ todo' = <<"over">>
  /\ UNCHANGED <<inputs, phone, lasting, product, code>>

\* The handles of the directories die with the run, and each removes its directory.
Finalise ==
  /\ todo = <<"over">> /\ temps # {}
  /\ temps' = {}
  /\ UNCHANGED <<inputs, phone, todo, lasting, product, code>>

ValidateNext ==
  \/ Dispatch \/ ResolveDevice \/ CollectFirst \/ CollectSecond \/ CompareArchives
  \/ \E f \in Files : DeviceWrites(f)
  \/ Unpack \/ BuildLogarchive \/ ShowStarts \/ ShowWrites \/ ShowFails \/ ShowEnds
  \/ ExtractLogarchive \/ ExportStarts \/ ExportEnds \/ CompareBoth \/ Return \/ Finalise

ValidateSpec == ValidateInit /\ [][ValidateNext]_validate

------------------------------------------------------------------------------
\* A pass means what it says: the reference was whole when it was compared and the database
\* lacks no more of it than was allowed, and no log file was written anew between the two
\* collections of a device.
PassIsEarned ==
  code = "pass" =>
    /\ dbEntries # NotGiven => shown = Entries /\ Cardinality(Entries \ dbEntries) <= args.allow
    /\ archives.second # NotGiven =>
         \A f \in Files : IsLogData(f) => second[f] # "rewritten"

\* Whatever the device does to a log file between the collections, its verdict is what was
\* done, and in the direction it was done.
Meant == [same |-> {"identical"}, grown |-> {"append"}, purged |-> {"shrunk"},
          rewritten |-> {"diverged"}, gone |-> {"only_a"}, new |-> {"only_b"}]
VerdictsAreTrue ==
  verdicts # NotGiven => \A f \in DOMAIN verdicts : verdicts[f] \in Meant[second[f]]

\* However a run ends, it leaves no temporary directory but those of what was to be kept.
NothingLeftBehind == todo = <<"over">> => temps \subseteq UNION { DirOf(a) : a \in lasting }

ValidationIsHonest ==
  ValidateTypeOK /\ PassIsEarned /\ VerdictsAreTrue /\ NothingLeftBehind

\* logarchive_build.py: "The evidence is COPIED, never moved or modified": once unpacked, the
\* prepared tree is there for the rest of the run.  Violated: the bundle is built under the
\* very name the tree was unpacked to, and what stands there is removed first.
PreparedIsCopied ==
  "pkg" \in temps /\ todo # <<>> /\ Head(todo) # "unpack" => WorkRoot \in trees

=============================================================================
