--------------------------- MODULE AnalysisScreen ---------------------------
(***************************************************************************)
(* The screen that browses an analysis database (gui/views/screen_exploit, *)
(* gui/widgets/log_table and facet_filter): a store held open, filters set *)
(* through half a dozen controls, a table that counts once and then pages, *)
(* and an annotation worker for whose sake the store is closed and opened  *)
(* again, while another screen may open another database.                  *)
(***************************************************************************)
EXTENDS Naturals, SequencesExt, Listing

CONSTANTS
  Cases,        \* the databases: name -> [rows, marked, fts, stats]; rows: a sequence of
                \* [at, names, terms]; marked: the rows the knowledge base matches;
                \* stats: the cached statistics are there
  Facets,       \* the faceted columns (process, category, subsystem)
  SearchTexts,  \* what may be typed into the search box
  Cutoffs,      \* what may be typed into "last": text -> the lower bound it stands for
                \* (the clock stands still), or Malformed
  PickerTimes,  \* times the analyst may pick
  Caps,         \* values of the rowCap preference
  Batch,        \* rows of one page
  PerSecond,    \* instants in a second: the pickers hold milliseconds, a filter seconds
  Unbound,      \* no value
  Malformed,
  MaxSets       \* bound: sets of annotations in one file

ASSUME ScreenAssumption ==
  /\ Caps \cup PickerTimes \subseteq Nat /\ {Batch, PerSecond} \subseteq Nat \ {0} /\ MaxSets \in Nat
  /\ \A c \in DOMAIN Cases :
       /\ c # Unbound /\ Cases[c].fts \in BOOLEAN /\ Cases[c].stats \in BOOLEAN
       /\ Len(Cases[c].rows) \in Nat /\ DOMAIN Cases[c].rows = 1..Len(Cases[c].rows)
       /\ \A i \in DOMAIN Cases[c].rows : Cases[c].rows[i].at \in Nat
       /\ \A state \in {"running", "done", "failed"} : [case |-> c, state |-> state] # Unbound
       /\ \A hasKb \in BOOLEAN : [case |-> c, hasKb |-> hasKb] # Unbound

VARIABLES
  ui,      \* the screen and its widgets
  disk,    \* case -> [tables, sets]: annotation tables, and how many times it is annotated
  worker   \* Unbound, or [case, state]: the annotate thread

screen == <<ui, disk, worker>>

NoNames == [f \in Facets |-> {}]
NoFilters == [names |-> NoNames, match |-> Unbound, annotated |-> FALSE,
              from |-> Unbound, to |-> Unbound, last |-> Unbound]

RowsOf(c) == DOMAIN Cases[c].rows
FacetNames == UNION {{Cases[c].rows[i].names[f] : i \in RowsOf(c), f \in Facets} : c \in DOMAIN Cases}

\* The pickers of a screen on which nothing was opened show 2000-01-01.
ScreenStart ==
  [db |-> Unbound, store |-> Unbound, cap |-> 0, filters |-> NoFilters, real |-> 0,
   total |-> 0, rows |-> <<>>, workbench |-> FALSE,
   text |-> Unbound, pending |-> FALSE, searchable |-> TRUE,
   selected |-> NoNames,
   from |-> 0, to |-> 0, untouched |-> FALSE, onlyAnnotated |-> FALSE,
   enabled |-> TRUE, annotated |-> FALSE]

ScreenTypeOK ==
  /\ DOMAIN ui = DOMAIN ScreenStart
  /\ ui.db = Unbound \/ ui.db \in DOMAIN Cases
  /\ ui.real \in Nat /\ ui.total \in Nat /\ Len(ui.rows) <= ui.total
  /\ \A f \in Facets : ui.selected[f] \subseteq FacetNames
  /\ disk \in [DOMAIN Cases -> [tables : BOOLEAN, sets : 0..MaxSets]]

ScreenInit ==
  /\ ui \in {[ScreenStart EXCEPT !.cap = p] : p \in Caps}
  /\ disk = [c \in DOMAIN Cases |-> [tables |-> FALSE, sets |-> 0]]
  /\ worker = Unbound

------------------------------------------------------------------------------
\* What a filter selects (ops/query/reader, in the fields this screen sets).
Selects(c, f, d, i) ==
  LET row == Cases[c].rows[i]
  IN /\ \A k \in Facets : f.names[k] # {} => row.names[k] \in f.names[k]
     /\ f.match # Unbound => f.match \in row.terms
     /\ f.annotated => d[c].sets > 0 /\ i \in Cases[c].marked
     /\ f.from # Unbound => row.at >= f.from
     /\ f.to # Unbound => row.at < f.to
     /\ f.last # Unbound => row.at >= Cutoffs[f.last]

Matching(c, f, d) == {i \in RowsOf(c) : Selects(c, f, d, i)}

\* A row is its place in the file, which is timeline order.
AnswerTo(c, f, d) == Enumerated(Matching(c, f, d))

\* A query raises ValueError on a malformed duration, on annotations a store does not have
\* and on a search without an index.
Refused(s, f) ==
  \/ f.last # Unbound /\ Cutoffs[f.last] = Malformed
  \/ f.annotated /\ ~s.hasKb
  \/ f.match # Unbound /\ ~Cases[s.case].fts

\* _AnalysisRowSource.count: the cached total stands for the count nobody filters.
RealCount(u, d) ==
  IF Cases[u.store.case].stats /\ u.filters = NoFilters
  THEN Len(Cases[u.store.case].rows)
  ELSE Cardinality(Matching(u.store.case, u.filters, d))

AtMost(n, m) == IF n < m THEN n ELSE m

\* LogTableModel.reset_source.
Reset(u, d) ==
  LET n == RealCount(u, d)
  IN [u EXCEPT !.real = n, !.total = AtMost(n, u.cap), !.rows = <<>>]

\* A control sets the filters to f and reloads; a refusal takes them back to `back` and
\* leaves the table as it was.  Without a store nothing happens.
ReloadTable(u, f, back, d) ==
  IF u.store = Unbound THEN u
  ELSE IF Refused(u.store, f) THEN [u EXCEPT !.filters = back]
  ELSE Reset([u EXCEPT !.filters = f], d)

------------------------------------------------------------------------------
\* _seed_time_bounds: the case's own span; a filter's end is exclusive and of whole
\* seconds, hence the second more.
SeedBounds(u, c) ==
  LET times == {Cases[c].rows[i].at : i \in RowsOf(c)} \ {0}
  IN IF ~Cases[c].stats \/ times = {} THEN u
     ELSE [u EXCEPT !.from = Min(times), !.to = Max(times) + PerSecond, !.untouched = TRUE]

\* _iso_bound.
IsoBound(t) == t - (t % PerSecond)

\* clear_search stops the debounce its own clearing started.
ClearSearch(u) == [u EXCEPT !.text = Unbound, !.pending = FALSE]

\* Mutant of ClearFacets: the pickers of the new database keep the selection.
KeepSelection(u) == u

\* FacetFilter.set_entries.
ClearFacets(u) == [u EXCEPT !.selected = NoNames]

\* _populate_facets: without statistics there is nothing to pick.
Entries(c, f) == IF Cases[c].stats THEN {Cases[c].rows[i].names[f] : i \in RowsOf(c)} ELSE {}

\* release: the table goes, then the store.
Release(u) == [u EXCEPT !.store = Unbound, !.rows = <<>>, !.total = 0,
                        !.filters = NoFilters]

\* _open_path: another store, source and model; every control but the "last" box
\* starts over.
OpenPath(u, c, d) ==
  LET opened == [Release(u) EXCEPT !.db = c, !.store = [case |-> c, hasKb |-> d[c].tables],
                                   !.workbench = TRUE, !.onlyAnnotated = FALSE,
                                   !.searchable = Cases[c].fts,
                                   !.annotated = d[c].sets > 0]
  IN Reset(ClearFacets(ClearSearch(SeedBounds(opened, c))), d)

------------------------------------------------------------------------------
\* The analyst.

SameWorld == UNCHANGED <<disk, worker>>

\* OpenDbPanel is shown until the first open; prefill comes from another screen at any time.
Prefill(c) ==
  /\ ui' = OpenPath(ui, c, disk)
  /\ SameWorld

\* Typing restarts the debounce; the box is dead without an index.
Type(text) ==
  /\ ui.workbench /\ ui.searchable /\ text # ui.text
  /\ ui' = [ui EXCEPT !.text = text, !.pending = TRUE]
  /\ SameWorld

\* _fire_search, _on_search.
FireSearch ==
  /\ ui.pending
  /\ ui' = ReloadTable([ui EXCEPT !.pending = FALSE], [ui.filters EXCEPT !.match = ui.text],
                  [ui.filters EXCEPT !.match = Unbound], disk)
  /\ SameWorld

Facet(u, f) ==
  ReloadTable(u, [u.filters EXCEPT !.names[f] = u.selected[f]], [u.filters EXCEPT !.names[f] = {}],
         disk)

\* _on_box_toggled, with the state the box now shows.  A box may still be unticked while
\* its value is selected: _select_all ticks only the boxes that were toggled before.
Toggle(f, v, on) ==
  /\ ui.store # Unbound /\ v \in Entries(ui.db, f) /\ (~on => v \in ui.selected[f])
  /\ ui' = Facet([ui EXCEPT !.selected[f] = IF on THEN @ \cup {v} ELSE @ \ {v}], f)
  /\ SameWorld

\* _select_all.
SelectAll(f) ==
  /\ ui.store # Unbound /\ Entries(ui.db, f) # {}
  /\ ui' = Facet([ui EXCEPT !.selected[f] = Entries(ui.db, f)], f)
  /\ SameWorld

\* FacetFilter.clear.
SelectNone(f) ==
  /\ ui.store # Unbound /\ ui.selected[f] # {}
  /\ ui' = Facet([ui EXCEPT !.selected[f] = {}], f)
  /\ SameWorld

\* _on_annotated_toggled: a refusal unticks the box again.
ToggleAnnotated ==
  LET on == ~ui.onlyAnnotated
      f == [ui.filters EXCEPT !.annotated = on]
  IN /\ ui.workbench
     /\ ui' = ReloadTable([ui EXCEPT !.onlyAnnotated = on
                                  /\ (ui.store # Unbound => ~Refused(ui.store, f))],
                     f, [f EXCEPT !.annotated = FALSE], disk)
     /\ SameWorld

PickTimes(from, to) ==
  /\ ui.workbench /\ <<from, to>> # <<ui.from, ui.to>>
  /\ ui' = [ui EXCEPT !.from = from, !.to = to, !.untouched = FALSE]
  /\ SameWorld

\* _apply_time_filters, whatever the "last" box holds by then: nothing else reads it.
ApplyTimes(last) ==
  LET f == [ui.filters EXCEPT !.from = IsoBound(ui.from), !.to = IsoBound(ui.to),
                              !.last = last]
  IN /\ ui.store # Unbound
     /\ ui' = ReloadTable(ui, f, ui.filters, disk)
     /\ SameWorld

\* _clear_filters.
ClearFilters ==
  /\ ui.store # Unbound
  /\ LET cleared == [ui EXCEPT !.filters = NoFilters, !.onlyAnnotated = FALSE,
                               !.selected = NoNames]
     IN ui' = Reset(ClearSearch(SeedBounds(cleared, ui.db)), disk)
  /\ SameWorld

\* The view asks for the next page (LogTableModel.fetchMore): from the row it has reached,
\* of what the filters select now.
FetchMore ==
  /\ ui.store # Unbound /\ Len(ui.rows) < ui.total
  /\ LET offset == Len(ui.rows)
         answer == AnswerTo(ui.store.case, ui.filters, disk)
         page == SubSeq(answer, offset + 1,
                        AtMost(offset + AtMost(Batch, ui.total - offset), Len(answer)))
     IN page # <<>> /\ ui' = [ui EXCEPT !.rows = @ \o page]
  /\ SameWorld

\* _on_setting_changed: the table is counted again, under the same filters.
ChangeCap(p) ==
  /\ p # ui.cap
  /\ ui' = ReloadTable([ui EXCEPT !.cap = p], ui.filters, ui.filters, disk)
  /\ SameWorld

------------------------------------------------------------------------------
\* Annotating.

\* _run_annotate: the store is closed while the worker writes.
StartWorker ==
  /\ ui' = [Release(ui) EXCEPT !.enabled = FALSE]
  /\ worker' = [case |-> ui.db, state |-> "running"]

\* _on_annotate_clicked on a database that is not annotated; without a knowledge base a
\* message and no more.
StartAnnotating ==
  /\ ui.db # Unbound /\ ui.enabled /\ ~ui.annotated
  /\ StartWorker
  /\ UNCHANGED disk

\* _confirm_reannotate, "Remove": clear_annotations, then the database is opened again.
Cleared == [disk EXCEPT ![ui.db].sets = 0]

MayRemove == ui.db # Unbound /\ ui.enabled /\ ui.annotated

RemoveAnnotations ==
  /\ MayRemove
  /\ disk' = Cleared
  /\ ui' = OpenPath(Release(ui), ui.db, Cleared)
  /\ UNCHANGED worker

\* "Remove and annotate again".
RemoveAndRedo ==
  /\ MayRemove
  /\ disk' = Cleared
  /\ StartWorker

\* The same with no knowledge base where the preference points: the annotations are gone,
\* the store is closed and _run_annotate returns.
RemoveWithoutKb ==
  /\ MayRemove
  /\ disk' = Cleared
  /\ ui' = Release(ui)
  /\ UNCHANGED worker

\* clear_annotations raises (another process holds the database): nothing catches it.
RemoveFails ==
  /\ MayRemove
  /\ ui' = Release(ui)
  /\ SameWorld

\* annotate_database commits once, at its end.
WorkerCommits ==
  /\ worker # Unbound /\ worker.state = "running" /\ disk[worker.case].sets < MaxSets
  /\ disk' = [disk EXCEPT ![worker.case] = [tables |-> TRUE, sets |-> @.sets + 1]]
  /\ worker' = [worker EXCEPT !.state = "done"]
  /\ UNCHANGED ui

\* It may have created the tables by then.
WorkerFails ==
  /\ worker # Unbound /\ worker.state = "running"
  /\ worker' = [worker EXCEPT !.state = "failed"]
  /\ \E made \in BOOLEAN : disk' = [disk EXCEPT ![worker.case].tables = @ \/ made]
  /\ UNCHANGED ui

\* _on_annotated, _on_annotate_failed: back to the database that was annotated, whatever
\* is open by now.
AnnotateEnds ==
  /\ worker # Unbound /\ worker.state \in {"done", "failed"}
  /\ ui' = OpenPath([ui EXCEPT !.enabled = TRUE], worker.case, disk)
  /\ worker' = Unbound
  /\ UNCHANGED disk

ScreenNext ==
  \/ \E c \in DOMAIN Cases : Prefill(c)
  \/ \E t \in SearchTexts \cup {Unbound} : Type(t)
  \/ FireSearch
  \/ \E f \in Facets : \/ \E v \in FacetNames, on \in BOOLEAN : Toggle(f, v, on)
                      \/ SelectAll(f) \/ SelectNone(f)
  \/ ToggleAnnotated
  \/ \E from, to \in PickerTimes : PickTimes(from, to)
  \/ \E t \in DOMAIN Cutoffs \cup {Unbound} : ApplyTimes(t)
  \/ ClearFilters \/ FetchMore
  \/ \E p \in Caps : ChangeCap(p)
  \/ StartAnnotating \/ RemoveAnnotations \/ RemoveAndRedo \/ RemoveWithoutKb \/ RemoveFails
  \/ WorkerCommits \/ WorkerFails \/ AnnotateEnds

ScreenSpec == ScreenInit /\ [][ScreenNext]_screen

------------------------------------------------------------------------------
\* Properties.

\* Whether the open store reads a database nobody is writing.
Settled == ui.store # Unbound /\ (worker = Unbound \/ worker.case # ui.store.case)

\* What the table holds is the head of what the filters select, no more of it than the cap,
\* and the count on the tab is the whole of it.
TableIsTheAnswer ==
  Settled =>
    LET answer == AnswerTo(ui.store.case, ui.filters, disk)
    IN /\ ui.real = Len(answer) /\ ui.total = AtMost(ui.cap, Len(answer))
       /\ IsPrefix(ui.rows, answer)

\* The filters are those the controls show: the picked values, the search (once the
\* debounce is over) and the tick.
ControlsAreApplied ==
  ui.store # Unbound =>
    /\ ui.filters.names = ui.selected
    /\ ~ui.pending => ui.filters.match = ui.text
    /\ ui.filters.annotated = ui.onlyAnnotated

\* Nothing an earlier database offered is a filter of this one, and the table is never left
\* under filters no query can answer.
FiltersAreOfTheCase ==
  ui.store # Unbound =>
    /\ \A f \in Facets : ui.selected[f] \subseteq Entries(ui.store.case, f)
    /\ ~Refused(ui.store, ui.filters)

\* Apply with pickers nobody touched selects every entry that has a time.
SeedIsTheWholeCase ==
  ui.store # Unbound /\ ui.untouched /\ Cases[ui.store.case].stats =>
    \A i \in RowsOf(ui.store.case) :
      Cases[ui.store.case].rows[i].at # 0 =>
        Selects(ui.store.case, [NoFilters EXCEPT !.from = IsoBound(ui.from),
                                                 !.to = IsoBound(ui.to)], disk, i)

\* No database is annotated over its annotations.
NeverAnnotatedTwice == \A c \in DOMAIN Cases : disk[c].sets <= 1

\* The analysis screen (screen_exploit.py, log_table.py, facet_filter.py): whatever is
\* filtered, paged, opened, annotated and removed, in whatever order the worker and other
\* screens come in, the table, the counts and the controls agree with each other
\* and with the database, and no database is annotated twice.
ScreenIsTrue ==
  /\ ScreenTypeOK
  /\ TableIsTheAnswer /\ ControlsAreApplied /\ FiltersAreOfTheCase
  /\ SeedIsTheWholeCase /\ NeverAnnotatedTwice
=============================================================================
