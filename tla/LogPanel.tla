------------------------------ MODULE LogPanel ------------------------------
(***************************************************************************)
(* The application log under the window (gui/widgets/log_panel.py).  Any   *)
(* thread may log; a handler brings the record to the GUI thread, at once  *)
(* when it is made there and queued otherwise.  There the panel keeps the  *)
(* newest of them and shows those of the enabled levels.                   *)
(* Nothing is recounted or redrawn per record, since that once starved the *)
(* writer thread: the count and the text are kept by increments, while the *)
(* analyst pauses, filters and clears.                                     *)
(***************************************************************************)
EXTENDS Naturals, SequencesExt, Listing

CONSTANTS
  LogLevels,   \* the levels in play, "DEBUG" among them
  MaxRecords,  \* the code's _MAX_RECORDS
  MaxLogged    \* bound: records logged in a behaviour

ASSUME LogPanelAssumption ==
  "DEBUG" \in LogLevels /\ {MaxRecords, MaxLogged} \subseteq Nat \ {0}

VARIABLES
  root,     \* the root logger lets DEBUG records through
  logged,   \* how many records were logged; a record is [at, level]
  posted,   \* queued signals: records on their way to the GUI thread
  display,  \* the panel: records, enabled levels, paused, count; body: the lines of
            \* text; blocks: of how many blocks they are, all but the first one line long
  received  \* history: every record delivered since the display was cleared, in that order

logging == <<root, logged, posted, display, received>>

PanelStart == [records |-> <<>>, enabled |-> LogLevels \ {"DEBUG"}, paused |-> FALSE,
               count |-> 0, body |-> <<>>, blocks |-> 0]

LogPanelInit ==
  root = FALSE /\ logged = 0 /\ posted = <<>> /\ display = PanelStart /\ received = <<>>

LogPanelTypeOK ==
  /\ root \in BOOLEAN /\ logged \in 0..MaxLogged
  /\ Len(display.records) <= MaxRecords /\ display.blocks \in 0..MaxRecords
  /\ display.enabled \subseteq LogLevels /\ display.count \in Nat

Newest(s) == IF Len(s) > MaxRecords THEN Tail(s) ELSE s

------------------------------------------------------------------------------
\* A record below the root level is never made.
Made(level) == logged < MaxLogged /\ (level = "DEBUG" => root) /\ logged' = logged + 1

\* _PanelLogHandler.emit on another thread.
Log(level) ==
  /\ Made(level)
  /\ posted' = Append(posted, [at |-> logged', level |-> level])
  /\ UNCHANGED <<root, display, received>>

\* One more block of one line; past _MAX_RECORDS the text drops its first block, which
\* leaves one line of each of the others.
AppendLine(p, r) ==
  LET body == Append(p.body, r)
  IN IF p.blocks < MaxRecords THEN [p EXCEPT !.body = body, !.blocks = @ + 1]
     ELSE [p EXCEPT !.body = SubSeq(body, Len(body) - MaxRecords + 1, Len(body))]

\* The record that is pushed out was counted.
Evicted(p) ==
  IF Len(p.records) = MaxRecords /\ p.records[1].level \in p.enabled THEN 1 ELSE 0

\* _append_record, of a panel that is not paused: counted and shown, or only kept.
Shown(p, r) ==
  LET kept == [p EXCEPT !.records = Newest(Append(@, r))]
  IN IF r.level \in p.enabled
     THEN AppendLine([kept EXCEPT !.count = @ - Evicted(p) + 1], r)
     ELSE [kept EXCEPT !.count = @ - Evicted(p)]

\* Mutant of AppendRecord: a paused panel drops what arrives.
AppendUnlessPaused(p, r) == IF p.paused THEN p ELSE Shown(p, r)

\* _append_record: kept in any case.
AppendRecord(p, r) ==
  IF p.paused THEN [p EXCEPT !.records = Newest(Append(@, r))] ELSE Shown(p, r)

Arrives(r) == display' = AppendRecord(display, r) /\ received' = Append(received, r)

DeliverRecord ==
  /\ posted # <<>> /\ posted' = Tail(posted)
  /\ Arrives(Head(posted))
  /\ UNCHANGED <<root, logged>>

\* _PanelLogHandler.emit on the GUI thread: ahead of what is posted.
LogHere(level) ==
  /\ Made(level)
  /\ Arrives([at |-> logged', level |-> level])
  /\ UNCHANGED <<root, posted>>

\* The retained records of the enabled levels.
Enabled(p) == Without(p.records, [at : 1..MaxLogged, level : LogLevels \ p.enabled])

\* _rerender: the lines are joined by <br>, which is one block of text; no lines, no block.
Rerender(p) ==
  [p EXCEPT !.count = Len(Enabled(p)), !.body = Enabled(p),
            !.blocks = IF Enabled(p) = <<>> THEN 0 ELSE 1]

\* _toggle_level, and attach_log_panel's answer to debugRequested.
ToggleLevel(level) ==
  LET on == IF level \in display.enabled THEN display.enabled \ {level}
            ELSE display.enabled \cup {level}
  IN /\ display' = Rerender([display EXCEPT !.enabled = on])
     /\ root' = IF level = "DEBUG" THEN level \in on ELSE root
     /\ UNCHANGED <<logged, posted, received>>

\* _toggle_pause: resuming catches up.
TogglePause ==
  /\ display' = IF display.paused THEN Rerender([display EXCEPT !.paused = FALSE])
              ELSE [display EXCEPT !.paused = TRUE]
  /\ UNCHANGED <<root, logged, posted, received>>

\* clear; what is still posted arrives afterwards.
ClearDisplay ==
  /\ display.records # <<>>
  /\ display' = [display EXCEPT !.records = <<>>, !.count = 0, !.body = <<>>, !.blocks = 0]
  /\ received' = <<>>
  /\ UNCHANGED <<root, logged, posted>>

LogPanelNext ==
  \/ \E level \in LogLevels : Log(level) \/ LogHere(level) \/ ToggleLevel(level)
  \/ DeliverRecord \/ TogglePause \/ ClearDisplay

LogPanelSpec == LogPanelInit /\ [][LogPanelNext]_logging

------------------------------------------------------------------------------
\* The panel keeps the newest records since the last clear, whether they came while it was
\* paused or filtered.
NothingIsMissed ==
  /\ display.records = SubSeq(received, Len(received) - Len(display.records) + 1, Len(received))
  /\ Len(display.records) < MaxRecords => display.records = received

\* Unless it is paused, the count and the last lines of the text are those of a full redraw,
\* although neither was ever recomputed.
ViewIsCurrent ==
  ~display.paused =>
    display.count = Len(Enabled(display)) /\ IsSuffix(Enabled(display), display.body)

\* DEBUG records are made while their button is on, and only then.
DebugCostsOnlyWhenAsked == root <=> "DEBUG" \in display.enabled

\* The panel (LogPanel): through evictions, pauses, filters and clears it misses no record,
\* its incremental count and text agree with what it keeps, and the root level with its button.
LogPanelIsTrue ==
  LogPanelTypeOK /\ NothingIsMissed /\ ViewIsCurrent /\ DebugCostsOnlyWhenAsked
=============================================================================
