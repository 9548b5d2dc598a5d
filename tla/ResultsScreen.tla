---------------------------- MODULE ResultsScreen ----------------------------
(***************************************************************************)
(* The viewer of identify results (gui/views/screen_identify_results.py    *)
(* over ops/identify/results.py and the table of gui/widgets/log_table):   *)
(* two check boxes, a debounced search, pages, and a panel of hidden keys  *)
(* that stays as it was built until something rebuilds it.  Another screen *)
(* may open another result at any time.                                    *)
(***************************************************************************)
EXTENDS Naturals, SequencesExt, Listing

CONSTANTS
  Results,   \* the result databases: name -> sequence of [key, noise, known, words], in the
             \* order of time and id; key: its (message, process), Blank without a message
  Words,     \* what may be typed into the search box
  PageRows,  \* rows of one page
  Blank      \* no database, no text, no message

ASSUME ResultsAssumption ==
  /\ PageRows \in Nat \ {0} /\ Blank \notin DOMAIN Results
  /\ \A d \in DOMAIN Results : Len(Results[d]) \in Nat /\ DOMAIN Results[d] = 1..Len(Results[d])

VARIABLES
  view,         \* the screen and its widgets
  hiddenKeys    \* hidden_keys of each database

results == <<view, hiddenKeys>>

KeysIn(d) == {Results[d][i].key : i \in DOMAIN Results[d]} \ {Blank}

\* box, pending: the search box and its debounce; keys: what the panel of hidden keys shows.
\* typed and built are history: the box was edited, the panel built, for the open database.
ViewStart ==
  [db |-> Blank, noise |-> FALSE, known |-> FALSE, search |-> Blank, total |-> 0,
   rows |-> <<>>, box |-> Blank, pending |-> FALSE, typed |-> FALSE,
   open |-> FALSE, keys |-> {}, built |-> FALSE, button |-> 0]

ResultsTypeOK ==
  /\ (view.db = Blank \/ view.db \in DOMAIN Results) /\ Len(view.rows) <= view.total
  /\ \A d \in DOMAIN Results : \A k \in hiddenKeys[d] : k \in KeysIn(d)

\* Keys hidden in an earlier session are in the file.
ResultsInit ==
  /\ view = ViewStart
  /\ hiddenKeys \in [DOMAIN Results -> {{}}] \cup {[d \in DOMAIN Results |-> KeysIn(d)]}

------------------------------------------------------------------------------
\* _build_where: what the flags, the hidden keys and the search let through.
Passes(r, v, keys) ==
  /\ r.noise => v.noise
  /\ r.known => v.known
  /\ r.key \notin keys
  /\ v.search # Blank => v.search \in r.words

\* rows() without a limit: the places of the rows in the file.
ListedRows(v, h) ==
  Enumerated({i \in DOMAIN Results[v.db] : Passes(Results[v.db][i], v, h[v.db])})

\* Mutant of ReloadRows: the rows already loaded are kept.
ReloadCount(v, h) == [v EXCEPT !.total = Len(ListedRows(v, h))]

\* reset_source: the count again, and no rows.
ReloadRows(v, h) == [v EXCEPT !.total = Len(ListedRows(v, h)), !.rows = <<>>]

BuildPanel(v, h) == [v EXCEPT !.keys = h[v.db], !.built = TRUE]

\* After a key was hidden or shown again: table, counts and button.
AfterHiding(v, h) == [ReloadRows(v, h) EXCEPT !.button = Cardinality(h[v.db])]

\* _open_path: another store, source and model, boxes unticked.  The search box, its
\* debounce and the panel of hidden keys are left as they are.  Left out: a database that
\* opens and then cannot be counted, which leaves the old table over the new store.
OpenResults(d) ==
  /\ view' = AfterHiding([view EXCEPT !.db = d, !.noise = FALSE, !.known = FALSE,
                                      !.search = Blank,
                                      !.typed = FALSE, !.built = FALSE], hiddenKeys)
  /\ UNCHANGED hiddenKeys

\* The table panel is there once a database is open; every edit restarts the debounce.
TypeWord(w) ==
  /\ view.db # Blank /\ w # view.box
  /\ view' = [view EXCEPT !.box = w, !.pending = TRUE, !.typed = TRUE]
  /\ UNCHANGED hiddenKeys

\* _on_search, when the debounce is over.
SearchFires ==
  /\ view.pending
  /\ view' = ReloadRows([view EXCEPT !.pending = FALSE, !.search = view.box], hiddenKeys)
  /\ UNCHANGED hiddenKeys

ToggleNoise ==
  /\ view.db # Blank
  /\ view' = ReloadRows([view EXCEPT !.noise = ~@], hiddenKeys)
  /\ UNCHANGED hiddenKeys

ToggleKnown ==
  /\ view.db # Blank
  /\ view' = ReloadRows([view EXCEPT !.known = ~@], hiddenKeys)
  /\ UNCHANGED hiddenKeys

\* fetchMore, through rows() with a limit and an offset.
NextPage ==
  /\ view.db # Blank /\ Len(view.rows) < view.total
  /\ LET answer == ListedRows(view, hiddenKeys)
         offset == Len(view.rows)
         last   == Min({offset + PageRows, view.total, Len(answer)})
     IN view' = [view EXCEPT !.rows = @ \o SubSeq(answer, offset + 1, last)]
  /\ UNCHANGED hiddenKeys

\* _hide_row, of a loaded row; one without a message only brings a notice.
HideIdentical(i) ==
  LET key == Results[view.db][view.rows[i]].key
      h   == [hiddenKeys EXCEPT ![view.db] = @ \cup {key}]
      v   == AfterHiding(view, h)
  IN /\ i \in DOMAIN view.rows /\ key # Blank
     /\ hiddenKeys' = h
     /\ view' = IF view.open THEN BuildPanel(v, h) ELSE v

\* _toggle_hidden_panel
ToggleHiddenPanel ==
  /\ view.db # Blank
  /\ view' = IF view.open THEN [view EXCEPT !.open = FALSE]
             ELSE BuildPanel([view EXCEPT !.open = TRUE], hiddenKeys)
  /\ UNCHANGED hiddenKeys

\* _unhide: a button of the panel, on the database that is open now.
UnhideKey(k) ==
  /\ view.open /\ k \in view.keys
  /\ LET h == [hiddenKeys EXCEPT ![view.db] = @ \ {k}]
     IN hiddenKeys' = h /\ view' = BuildPanel(AfterHiding(view, h), h)

ResultsNext ==
  \/ \E d \in DOMAIN Results : OpenResults(d)
  \/ \E w \in Words \cup {Blank} : TypeWord(w)
  \/ SearchFires \/ ToggleNoise \/ ToggleKnown \/ NextPage \/ ToggleHiddenPanel
  \/ \E i \in DOMAIN view.rows : HideIdentical(i)
  \/ \E k \in UNION {KeysIn(d) : d \in DOMAIN Results} : UnhideKey(k)

ResultsSpec == ResultsInit /\ [][ResultsNext]_results

------------------------------------------------------------------------------
\* The loaded rows are the head of what the flags, the search and the hidden keys let
\* through now, and the table ends where that does: no hidden line is on the screen.
RowsAreTheListing ==
  view.db # Blank =>
    LET answer == ListedRows(view, hiddenKeys)
    IN view.total = Len(answer) /\ IsPrefix(view.rows, answer)

\* The controls are those of the open database: always the button, the search box and the
\* panel once they were edited or built for it.
ControlsAreTheirs ==
  view.db # Blank =>
    /\ view.button = Cardinality(hiddenKeys[view.db])
    /\ ~view.pending /\ view.typed => view.search = view.box
    /\ view.open /\ view.built => view.keys = hiddenKeys[view.db]

\* The viewer (IdentifyResultsScreen): however hiding, filtering, searching, paging and
\* opening alternate, the table is the listing of the open database.
ResultsAreShown == ResultsTypeOK /\ RowsAreTheListing /\ ControlsAreTheirs
=============================================================================
