------------------------------- MODULE GuiMC -------------------------------
(***************************************************************************)
(* The window: its closing over running operations, and what goes on in it *)
(* meanwhile - the analysis screen, the viewer of results, the wizard that *)
(* asks for an identification, and the log at the bottom.  The parts share *)
(* no state: one moves in a behaviour, the others stand at one initial     *)
(* state.                                                                  *)
(***************************************************************************)
EXTENDS GuiShutdownMC, AnalysisScreen, Wizard, ResultsScreen, LogPanel, TLC

VARIABLE part
shutdown == vars
window == <<part, shutdown, screen, wizard, results, logging>>

\* Two cases: one with a full-text index, statistics and a row without a time, one with none.
CaseRow(at, n, t) == [at |-> at, names |-> [f \in Facets |-> n], terms |-> t]
Cases2 ==
  "a" :> [rows |-> << CaseRow(0, "q", {}), CaseRow(5, "p", {"x"}), CaseRow(7, "p", {}) >>,
          marked |-> {2}, fts |-> TRUE, stats |-> TRUE]
  @@ "b" :> [rows |-> << CaseRow(2, "q", {"x"}) >>, marked |-> {1}, fts |-> FALSE, stats |-> FALSE]
Cutoffs2 == "1h" :> 6 @@ "1x" :> Malformed

\* Two results: two logs of one kind, one without a message, noise and known lines.
Hit(k, n, w, kn) == [key |-> k, noise |-> n, known |-> kn, words |-> w]
Results2 ==
  "a" :> << Hit("k1", FALSE, {"x"}, FALSE), Hit("k2", TRUE, {"x"}, FALSE),
            Hit(Blank, FALSE, {}, TRUE), Hit("k1", FALSE, {}, TRUE) >>
  @@ "b" :> << Hit("k2", FALSE, {}, FALSE), Hit("k1", TRUE, {"x"}, TRUE) >>

Still(p) == part # p

GuiInit ==
  /\ part \in {"shutdown", "screen", "wizard", "results", "logging"}
  /\ Init
  /\ ScreenInit /\ (Still("screen") => ui.cap = Max(Caps))
  /\ WizardInit
  /\ ResultsInit /\ (Still("results") => \A d \in DOMAIN Results : hiddenKeys[d] = {})
  /\ LogPanelInit

\* Only the closing window must never be stuck; elsewhere the bounds end a behaviour.
Rest == part # "shutdown" /\ UNCHANGED window

GuiNext ==
  \/ Rest
  \/ /\ UNCHANGED part
     /\ \/ part = "shutdown" /\ Next /\ UNCHANGED <<screen, wizard, results, logging>>
        \/ part = "screen" /\ ScreenNext /\ UNCHANGED <<shutdown, wizard, results, logging>>
        \/ part = "wizard" /\ WizardNext /\ UNCHANGED <<shutdown, screen, results, logging>>
        \/ part = "results" /\ ResultsNext /\ UNCHANGED <<shutdown, screen, wizard, logging>>
        \/ part = "logging" /\ LogPanelNext /\ UNCHANGED <<shutdown, screen, wizard, results>>

\* The fairness of GuiShutdown, none of whose actions is enabled before a task was started.
GuiSpec == GuiInit /\ [][GuiNext]_window /\ Fairness
=============================================================================
