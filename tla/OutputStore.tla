---------------------------- MODULE OutputStore ----------------------------
(***************************************************************************)
(* What run_extract promises about the path db_path, whatever happens to   *)
(* the calls: a file there is always one whole acquisition, it appears in  *)
(* a single step at the end of the call that made it, and it goes away     *)
(* only when a call that may replace it does so or the analyst deletes it. *)
(***************************************************************************)
EXTENDS Naturals

CONSTANT MaxRuns   \* bound: calls of run_extract on this output

VARIABLES
  final,    \* the acquisition the file at db_path holds, 0 when there is none
  busy,     \* the call in progress, 0 when there is none
  replace,  \* may that call replace what is at db_path?
  last      \* calls made so far

store == <<final, busy, replace, last>>

Init == final = 0 /\ busy = 0 /\ replace = FALSE /\ last = 0

\* A call is accepted, or refused at once: always, when it would replace a
\* file and may not.
Begin ==
  /\ busy = 0 /\ last < MaxRuns
  /\ last' = last + 1
  /\ replace' \in BOOLEAN
  /\ busy' \in IF final # 0 /\ ~replace' THEN {0} ELSE {0, last'}
  /\ UNCHANGED final

\* The call removes what it is allowed to replace.
Clear ==
  /\ busy # 0 /\ replace
  /\ final' = 0
  /\ UNCHANGED <<busy, replace, last>>

\* Success: the whole acquisition appears at once, where nothing was.
Publish ==
  /\ busy # 0 /\ final = 0
  /\ final' = busy
  /\ busy' = 0
  /\ UNCHANGED <<replace, last>>

\* Failed, cancelled or killed: db_path is not written.
Abandon == busy # 0 /\ busy' = 0 /\ UNCHANGED <<final, replace, last>>

\* The analyst deletes the file between two calls.
Remove == busy = 0 /\ final' = 0 /\ UNCHANGED <<busy, replace, last>>

Next == Begin \/ Clear \/ Publish \/ Abandon \/ Remove

Spec == Init /\ [][Next]_store
=============================================================================
