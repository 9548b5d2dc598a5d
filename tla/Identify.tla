------------------------------ MODULE Identify ------------------------------
(***************************************************************************)
(* identify (ops/identify/): a baseline is collected from a device left    *)
(* alone, the operator performs an action, a second archive is collected,  *)
(* both are extracted, and the rows of the second that are newer than the  *)
(* first and say something it did not are what the action did.  The viewer *)
(* opens the result and hides lines in it.  The windows of the two         *)
(* collections are read from the clock of the host, the lines they take    *)
(* carry the device's.                                                     *)
(***************************************************************************)
EXTENDS Integers, FiniteSetsExt, Sequences

CONSTANTS
  Keys,       \* (message, process) pairs a device may log
  Nothing,    \* no message; no result; no archive
  Second,     \* ticks of a clock in one second
  Skews,      \* by how much the host's clock may be ahead of the device's
  BatchRows,  \* the code's 1_000
  MaxEvents, MaxClock, MaxDiffs   \* bounds

ASSUME IdentifyAssumption ==
  /\ {Second, BatchRows} \subseteq Nat \ {0} /\ {MaxEvents, MaxClock, MaxDiffs} \subseteq Nat
  /\ Skews \subseteq Int /\ Nothing \notin Keys

VARIABLES
  clock, events,   \* the device: its clock, and what it has logged
  skew,            \* the host's clock is so far ahead, behind when negative
  ipc,             \* the next step of _run_identify_async, or "over"
  lockdown,        \* the connection is open
  window,          \* the start of the next collection, a second of the host's
  archives,        \* the two .logarchive: sets of events, Nothing until collected
  dbs,             \* the two databases
  known,           \* rows of the action database a signature matched
  acted,           \* history: events logged while the operator acted
  out,             \* <prefix>-identified.db: Nothing, or its committed rows and flags
  pending, scanned,\* run_diff: rows not yet committed, events looked at
  csv,             \* the rows written to the CSV
  diffs, returned, \* runs of the diff; the last one returned
  hidden           \* hidden_keys of the result

identify == <<clock, events, skew, ipc, lockdown, window, archives, dbs, known, acted, out,
              pending, scanned, csv, diffs, returned, hidden>>
device  == <<clock, events, skew>>
outputs == <<out, pending, scanned, csv, diffs, returned, hidden>>

Steps    == {"connect", "confirm", "t0", "still", "baseline", "wait", "action", "close",
              "extractBaseline", "extractAction", "annotate", "diff", "scan", "over"}
Labelled == {"baseline", "action"}
Row      == 1..MaxEvents

IdentifyTypeOK ==
  /\ clock \in 0..MaxClock /\ Len(events) \in 0..MaxEvents
  /\ ipc \in Steps
  /\ lockdown \in BOOLEAN /\ skew \in Skews /\ window \in Int
  /\ \A l \in Labelled : /\ archives[l] = Nothing \/ archives[l] \subseteq Row
                         /\ dbs[l] = Nothing \/ dbs[l] \subseteq Row
  /\ known \cup acted \cup scanned \cup csv \subseteq Row
  /\ out = Nothing \/ (out.kept \subseteq Row /\ out.noise \subseteq Row)
  /\ diffs \in 0..MaxDiffs /\ returned \in BOOLEAN /\ hidden \subseteq Keys

Empty == [kept |-> {}, noise |-> {}]

IdentifyInit ==
  /\ clock = 0 /\ events = <<>> /\ skew \in Skews /\ ipc = "connect" /\ lockdown = FALSE /\ window = 0
  /\ archives = [l \in Labelled |-> Nothing] /\ dbs = [l \in Labelled |-> Nothing]
  /\ known = {} /\ acted = {} /\ out = Nothing /\ pending = Empty /\ scanned = {}
  /\ csv = {} /\ diffs = 0 /\ returned = FALSE /\ hidden = {}

------------------------------------------------------------------------------
\* The device logs on its own, a key or a message-less line, its time resolved or not.
\* What it logs before the run or after the last collection is left out, and what it logs
\* while it stands still comes just before the collection that follows.
Logging == ipc \in {"t0", "baseline", "wait", "action"}

Tick == /\ Logging /\ clock < MaxClock /\ clock' = clock + 1
        /\ UNCHANGED <<events, skew, ipc, lockdown, window, archives, dbs, known, acted, outputs>>

Emit(k, resolved) ==
  /\ Logging /\ Len(events) < MaxEvents
  /\ events' = Append(events, [key |-> k, at |-> clock, resolved |-> resolved])
  /\ acted' = IF ipc = "wait" THEN acted \cup {Len(events) + 1} ELSE acted
  /\ UNCHANGED <<clock, skew, ipc, lockdown, window, archives, dbs, known, outputs>>

\* Mutant of SecondOf: rounded up.
NextSecondOf(t) == t + ((Second - (t % Second)) % Second)

\* int(datetime.timestamp()): the second a clock is in.
SecondOf(t) == t - (t % Second)

\* datetime.now() of the host.
Now == SecondOf(clock + skew)

At(step, next) == ipc = step /\ ipc' = next

Connect ==
  /\ At("connect", "confirm") /\ lockdown' = TRUE
  /\ UNCHANGED <<device, window, archives, dbs, known, acted, outputs>>

\* Declining, a callback that raises, a collection that fails or leaves no archive: the
\* connection is closed and the run is over.
GiveUp ==
  /\ ipc \in {"confirm", "t0", "still", "baseline", "wait", "action"}
  /\ ipc' = "over" /\ lockdown' = FALSE
  /\ UNCHANGED <<device, window, archives, dbs, known, acted, outputs>>

Confirm ==
  /\ At("confirm", "t0") /\ UNCHANGED <<device, lockdown, window, archives, dbs, known, acted, outputs>>

\* t0 is taken before the pause, so the pause is in the baseline.
TakeT0 ==
  /\ At("t0", "still") /\ window' = Now
  /\ UNCHANGED <<device, lockdown, archives, dbs, known, acted, outputs>>

\* wait_still, or no pause at all.
StandStill ==
  /\ At("still", "baseline") /\ UNCHANGED <<device, lockdown, window, archives, dbs, known, acted, outputs>>

\* _collect: what the device logged, by its own clock, from the start of the window on.
Collected == { i \in DOMAIN events : events[i].at >= window }

CollectBaseline ==
  /\ At("baseline", "wait")
  /\ archives' = [archives EXCEPT !["baseline"] = Collected]
  /\ window' = Now
  /\ UNCHANGED <<device, lockdown, dbs, known, acted, outputs>>

WaitForAction ==
  /\ At("wait", "action") /\ UNCHANGED <<device, lockdown, window, archives, dbs, known, acted, outputs>>

CollectAction ==
  /\ At("action", "close")
  /\ archives' = [archives EXCEPT !["action"] = Collected]
  /\ UNCHANGED <<device, lockdown, window, dbs, known, acted, outputs>>

\* close_lockdown; hashing and the reports, when asked for, never stop the run.
Close ==
  /\ At("close", "extractBaseline") /\ lockdown' = FALSE
  /\ UNCHANGED <<device, window, archives, dbs, known, acted, outputs>>

\* run_extract of one archive, or its error, which ends the run.
ExtractArchive(label) ==
  /\ \/ /\ label = "baseline" /\ At("extractBaseline", "extractAction")
        /\ dbs' = [dbs EXCEPT ![label] = archives[label]]
     \/ /\ label = "action" /\ At("extractAction", "annotate")
        /\ dbs' = [dbs EXCEPT ![label] = archives[label]]
     \/ /\ ipc = (IF label = "baseline" THEN "extractBaseline" ELSE "extractAction")
        /\ ipc' = "over" /\ UNCHANGED dbs
  /\ UNCHANGED <<device, lockdown, window, archives, known, acted, outputs>>

\* annotate_database on the action database; no knowledge base, or a failure, is no obstacle.
AnnotateAction ==
  /\ At("annotate", "diff")
  /\ \/ known' = { i \in dbs["action"] : events[i].key # Nothing /\ i % 2 = 0 }
     \/ UNCHANGED known
  /\ UNCHANGED <<device, lockdown, window, archives, dbs, acted, outputs>>

------------------------------------------------------------------------------
\* run_diff.

Resolved(rows) == { i \in rows : events[i].resolved }

\* _baseline_cutoff_ns: the last resolved time of the baseline; none raises.
Cutoff == Max({ events[i].at : i \in Resolved(dbs["baseline"]) })

\* _load_baseline_keys: what the baseline says, message by message.
BaselineKeys == { events[i].key : i \in dbs["baseline"] } \ {Nothing}

\* The rows run_diff classifies: newer than the baseline, or of unknown time.
Newer ==
  LET cutoff == Cutoff IN { i \in dbs["action"] : ~events[i].resolved \/ events[i].at > cutoff }

\* A row is noise when its time is known, it has a message, and the baseline said it.
IsNoise(i) == events[i].resolved /\ events[i].key \in BaselineKeys

\* The previous result goes, hidden keys and all; tables are made, each on its own.
DiffStart ==
  /\ ipc = "diff" /\ diffs < MaxDiffs
  /\ diffs' = diffs + 1 /\ returned' = FALSE
  /\ IF Resolved(dbs["baseline"]) = {}
     THEN ipc' = "over" /\ UNCHANGED <<out, pending, scanned, csv, hidden>>
     ELSE ipc' = "scan" /\ out' = Empty /\ pending' = Empty /\ scanned' = {} /\ csv' = {}
          /\ hidden' = {}
  /\ UNCHANGED <<device, lockdown, window, archives, dbs, known, acted>>

\* A batch of rows: to the database's transaction, and to the CSV when retained.
DiffBatch ==
  /\ ipc = "scan"
  /\ \E b \in SUBSET (Newer \ scanned) :
    /\ b # {} /\ Cardinality(b) <= BatchRows
    /\ scanned' = scanned \cup b
    /\ pending' = [kept  |-> pending.kept \cup { i \in b : ~IsNoise(i) },
                   noise |-> pending.noise \cup { i \in b : IsNoise(i) }]
    /\ csv' = csv \cup { i \in b : ~IsNoise(i) }
    /\ UNCHANGED <<out, diffs, returned, hidden>>
    /\ UNCHANGED <<device, ipc, lockdown, window, archives, dbs, known, acted>>

\* dst.commit, and the result.
DiffCommit ==
  /\ At("scan", "over") /\ scanned = Newer
  /\ out' = pending /\ returned' = TRUE
  /\ UNCHANGED <<pending, scanned, csv, diffs, hidden>>
  /\ UNCHANGED <<device, lockdown, window, archives, dbs, known, acted>>

\* Killed, or a row that raises: the transaction is gone, the files stay.
DiffBreaks ==
  /\ At("scan", "over") /\ pending' = Empty
  /\ UNCHANGED <<out, scanned, csv, diffs, returned, hidden>>
  /\ UNCHANGED <<device, lockdown, window, archives, dbs, known, acted>>

\* run_diff is called again, on the databases that are there.
DiffAgain ==
  /\ At("over", "diff") /\ Nothing \notin { dbs[l] : l \in Labelled } /\ diffs < MaxDiffs
  /\ UNCHANGED <<device, lockdown, window, archives, dbs, known, acted, outputs>>

------------------------------------------------------------------------------
\* IdentifyResults.

KeyOf(i) == events[i].key

\* rows(): what the flags let through.
Listed(noise, kbKnown, withHidden) ==
  { i \in out.kept \cup out.noise :
      /\ noise \/ i \in out.kept
      /\ kbKnown \/ i \notin known
      /\ withHidden \/ KeyOf(i) \notin hidden }

\* hide(): a line with a message; unhide() takes it back.
Hide(i) ==
  /\ ipc = "over" /\ returned /\ i \in out.kept \cup out.noise /\ KeyOf(i) # Nothing
  /\ hidden' = hidden \cup {KeyOf(i)}
  /\ UNCHANGED <<out, pending, scanned, csv, diffs, returned>>
  /\ UNCHANGED <<device, ipc, lockdown, window, archives, dbs, known, acted>>

Unhide(k) ==
  /\ ipc = "over" /\ returned /\ k \in hidden
  /\ hidden' = hidden \ {k}
  /\ UNCHANGED <<out, pending, scanned, csv, diffs, returned>>
  /\ UNCHANGED <<device, ipc, lockdown, window, archives, dbs, known, acted>>

\* export_csv(): the listing as it stands, hidden lines left out.
ExportResults(noise) ==
  /\ ipc = "over" /\ returned /\ csv' = Listed(noise, TRUE, FALSE)
  /\ UNCHANGED <<out, pending, scanned, diffs, returned, hidden>>
  /\ UNCHANGED <<device, ipc, lockdown, window, archives, dbs, known, acted>>

IdentifyNext ==
  \/ Tick \/ \E k \in Keys \cup {Nothing}, r \in BOOLEAN : Emit(k, r)
  \/ Connect \/ GiveUp \/ Confirm \/ TakeT0 \/ StandStill \/ CollectBaseline
  \/ WaitForAction \/ CollectAction \/ Close \/ AnnotateAction
  \/ \E l \in Labelled : ExtractArchive(l)
  \/ DiffStart \/ DiffBatch \/ DiffCommit \/ DiffBreaks \/ DiffAgain
  \/ \E i \in Row : Hide(i)
  \/ \E k \in Keys : Unhide(k)
  \/ \E noise \in BOOLEAN : ExportResults(noise)

IdentifySpec == IdentifyInit /\ [][IdentifyNext]_identify

------------------------------------------------------------------------------
\* What the device logged while the operator acted is in the result, whatever second the
\* second collection began in: retained when the baseline never said it, kept aside as
\* noise when it did, retained when it has no message or no time.  With the host's clock
\* ahead of the device's that is said only of what carries a time of the window or later:
\* the lines before it were never collected.  An event at the very instant of the
\* baseline's last one is taken for baseline.
ActionIsKept ==
  ipc = "over" /\ returned =>
    \A i \in acted :
      /\ skew <= 0 \/ events[i].at >= window
      /\ events[i].resolved => events[i].at > Cutoff
      =>
        IF /\ events[i].resolved /\ events[i].key # Nothing
           /\ \E j \in dbs["baseline"] : events[j].key = events[i].key
        THEN i \in out.noise ELSE i \in out.kept

\* A result database holds every classified row or none, and no row twice: a diff that
\* was killed or failed shows an empty result, never a part of one.
ResultIsAllOrNothing ==
  out # Nothing /\ out # Empty =>
    out.kept \cap out.noise = {} /\ out.kept \cup out.noise = Newer

\* Both: the operator's action is in the result, and the result is whole.
ResultIsTrue == IdentifyTypeOK /\ ActionIsKept /\ ResultIsAllOrNothing
=============================================================================
