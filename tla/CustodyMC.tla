----------------------------- MODULE CustodyMC -----------------------------
(***************************************************************************)
(* The chain of custody: a device is acquired, its archive is prepared and *)
(* extracted, the session is sealed, the archive is verified later; and    *)
(* the whole way is tried against a live device (validate-tool).  The      *)
(* stages share no state but what one leaves on disk for the next, so one  *)
(* of them moves in a behaviour, from any state the stage before may have  *)
(* left.                                                                   *)
(***************************************************************************)
EXTENDS Acquire, Source, Extract, Session, Verify, Validate

VARIABLE stage
custody == <<stage, acquisition, source, extract, sessions, verify, validate>>

Paths3 == <<"a", "b", "c">>

\* validate-tool: every mode its arguments select, on a Mac or not, with none, one or two
\* devices; a log file that is there from the start, one that appears, and a file of no log.
Sparing == [acquisition |-> FALSE, source |-> NotGiven, device |-> NotGiven, regen |-> FALSE,
            reference |-> NotGiven, dbOutput |-> FALSE, keep |-> {"db"}, export |-> FALSE, allow |-> 0]
Arguments14 ==
  { Sparing, [Sparing EXCEPT !.acquisition = TRUE],
    [Sparing EXCEPT !.device = ""], [Sparing EXCEPT !.device = "n1", !.keep = {"ref", "db"}],
    [Sparing EXCEPT !.device = "u2"],
    [Sparing EXCEPT !.source = "archive", !.reference = "file", !.allow = 1],
    [Sparing EXCEPT !.source = "archive", !.reference = "dangling"],
    [Sparing EXCEPT !.source = "archive", !.keep = {"ref"}, !.dbOutput = TRUE],
    [Sparing EXCEPT !.source = "db"], [Sparing EXCEPT !.source = "db", !.reference = "file", !.export = TRUE],
    [Sparing EXCEPT !.source = "db", !.regen = TRUE, !.reference = "file"],
    [Sparing EXCEPT !.source = "package", !.keep = {"archive"}],
    [Sparing EXCEPT !.source = "package", !.reference = "file"],
    [Sparing EXCEPT !.source = "package", !.reference = "dangling"] }
TwoHosts == { [mac |-> FALSE, root |-> FALSE], [mac |-> TRUE, root |-> TRUE] }
Phone(u, n) == [udid |-> u, name |-> n]
UpToTwo == { {}, {Phone("u1", "n1")}, {Phone("u1", "n1"), Phone("u2", "n1")} }
Files3 == [f \in {"live", "rotated", "Info.plist"} |-> IF f = "rotated" THEN NotGiven ELSE <<1, 2>>]

Init ==
  /\ AcquireInit /\ SourceInit /\ ExtractInit /\ SessionInit
  /\ \/ /\ stage \in {"acquire", "prepare", "extract", "session", "validate"}
        /\ VerifyInit /\ tree = [p \in Relative |-> Missing] /\ ~skipFiles
     \/ /\ stage = "verify" /\ VerifyInit /\ out = CHOOSE o \in Outputs : TRUE
  /\ stage # "session" => out = CHOOSE o \in Outputs : TRUE
  /\ ValidateInit
  /\ stage # "validate" => args = Sparing /\ host.mac /\ devices = {}

Next ==
  /\ UNCHANGED stage
  /\ \/ stage = "acquire" /\ AcquireNext
        /\ UNCHANGED <<source, extract, sessions, verify, validate>>
     \/ stage = "prepare" /\ SourceNext
        /\ UNCHANGED <<acquisition, extract, sessions, verify, validate>>
     \/ stage = "extract" /\ ExtractNext
        /\ UNCHANGED <<acquisition, source, sessions, verify, validate>>
     \/ stage = "session" /\ SessionNext
        /\ UNCHANGED <<acquisition, source, extract, verify, validate>>
     \/ stage = "verify"  /\ VerifyNext
        /\ UNCHANGED <<acquisition, source, extract, sessions, validate>>
     \/ stage = "validate" /\ ValidateNext
        /\ UNCHANGED <<acquisition, source, extract, sessions, verify>>

Spec == Init /\ [][Next]_custody
=============================================================================
