----------------------------- MODULE AnalysisMC -----------------------------
(***************************************************************************)
(* What is done with an analysis database once it is there: annotated,     *)
(* summarised, queried, exported, compared with a baseline; and the        *)
(* knowledge base it is annotated against.  The parts share no state but   *)
(* the database, of which each models what it reads: one moves in a        *)
(* behaviour, the others stand at one initial state.                       *)
(***************************************************************************)
EXTENDS Annotation, KnowledgeBase, Identify, Query, TLC

VARIABLE part
analysis == <<part, annotation, kb, identify, query>>

\* Four rows: two processes, a message a NULL, one library path under two UUIDs.
LogRow4(f, p, l, lib, m) ==
  [format |-> f, process |-> p, level |-> l, library |-> lib, message |-> m]
Rows4 == << LogRow4("f1", "p1", "hi", 1, "m1"), LogRow4("f1", "p1", "lo", 2, "m2"),
            LogRow4("f2", "p2", "hi", 3, "m1"), LogRow4("f1", "p1", "lo", 3, None) >>
Libraries3 == 1 :> "libA" @@ 2 :> "libB" @@ 3 :> "libA"

\* A template with one absent alternative and an upper version; a dynamic one with an
\* unreadable upper version and an extraction; one with no indexed filter; a full match.
Signature(id, dyn, fs, p, l, lib, re, ex, low, high) ==
  [id |-> id, tags |-> {"t"}, dynamic |-> dyn, formats |-> fs,
   match |-> [process |-> p, level |-> l], library |-> lib, regex |-> re, extract |-> ex,
   platform |-> "ios", low |-> low, high |-> high]
Kb4 == << Signature("s1", FALSE, {"f1", "f9"}, "p1", None, None, None, {}, None, 17),
          Signature("s2", TRUE, {}, None, None, "libA", None, {"m1"}, 17, Unparsed),
          Signature("s3", TRUE, {}, None, None, None, "m1", {}, None, None),
          Signature("s4", FALSE, {"f1"}, None, "hi", None, "m1", {}, None, None) >>

\* Drafts with one anchor or two, a process YAML may take for a boolean, a pattern of one
\* line or several or that does not compile; a knowledge base that is empty, broken or holds one of their ids.
TwoFiles == <<"a", "b">>
Drafts0 ==
  { [id |-> i, action |-> "phrase", description |-> t, anchors |-> an, process |-> p,
     regex |-> r, tags |-> {p}, choices |-> "listed", labels |-> {"l1"}] :
      i \in {"a", "b"}, t \in {"phrase", "lines", "lines+"},
      an \in {{"dynamic"}, {"format", "dynamic"}}, p \in {"no", "on"}, r \in {"ok", "lines", "bad"} }
Shipped == [id |-> "b", action |-> "phrase", description |-> "", anchors |-> {"format"},
            process |-> "word", regex |-> "", tags |-> {}, choices |-> "listed",
            labels |-> {"l2"}]
Initial3 == { [n \in Names |-> IF n = "a" THEN c ELSE NoFile] : c \in {NoFile, Broken, {Shipped}} }

\* The host's clock agrees with the device's, or is ahead of it.
Skews2 == {0, 1}

\* Four logs, one without a time; two signatures on one of them.
Line(t, n, fts) == [at |-> t, name |-> n, fts |-> fts]
Lines4 == << Line(2, "a", {"x"}), Line(0, "a", {}), Line(1, "b", {"x"}), Line(1, "a", {}) >>
Mark(i, s, l, v) == [line |-> i, sig |-> s, label |-> l, value |-> v]
Marks4 == { Mark(1, "s1", "ssid", 1), Mark(1, "s2", "mac", 2), Mark(4, "s1", Unset, Unset) }
Filter(f, t, n, s, m, o) ==
  [from |-> f, to |-> t, names |-> n, sigs |-> s, match |-> m, annotatedOnly |-> o]
Filters6 ==
  { Filter(Unset, Unset, Unset, Unset, Unset, FALSE), Filter(Unset, 2, {"a", "zz"}, Unset, Unset, FALSE),
    Filter(1, Unset, Unset, {"s1"}, Unset, FALSE), Filter(Unset, Unset, {"zz"}, Unset, Unset, FALSE),
    Filter(Unset, Unset, Unset, Unset, "x", FALSE), Filter(1, 3, Unset, Unset, Unset, TRUE) }

Parts == {"annotate", "kb", "identify", "query"}
Still(p) == part # p

Init ==
  /\ part \in Parts
  /\ AnnotationInit /\ (Still("annotate") => cache = None /\ version = None)
  /\ KbInit /\ (Still("kb") => \A n \in Names : files[n] = NoFile)
  /\ IdentifyInit /\ (Still("identify") => skew = 0)
  /\ QueryInit /\ (Still("query") => ~tables /\ indexed = "absent")

Next ==
  /\ UNCHANGED part
  /\ \/ part = "annotate" /\ AnnotationNext
        /\ UNCHANGED <<kb, identify, query>>
     \/ part = "kb" /\ KbNext
        /\ UNCHANGED <<annotation, identify, query>>
     \/ part = "identify" /\ IdentifyNext
        /\ UNCHANGED <<annotation, kb, query>>
     \/ part = "query" /\ QueryNext
        /\ UNCHANGED <<annotation, kb, identify>>

Spec == Init /\ [][Next]_analysis
=============================================================================
