------------------------------ MODULE Listing ------------------------------
(***************************************************************************)
(* Orders that the code gets from ORDER BY and from for loops, as they     *)
(* are used by several modules.                                            *)
(***************************************************************************)
EXTENDS Naturals, Sequences, FiniteSets

\* The members of a finite set in an order, which is a set of pairs.
ListedBy(S, order) ==
  [n \in 1..Cardinality(S) |-> CHOOSE x \in S : Cardinality({ y \in S : <<y, x>> \in order }) = n - 1]

\* The members of a finite set of numbers, ascending.
Enumerated(S) == ListedBy(S, { p \in S \X S : p[1] < p[2] })

\* A sequence without what is in bad: what is left keeps its order.
Without(s, bad) ==
  LET left == Enumerated({ i \in DOMAIN s : s[i] \notin bad })
  IN [n \in DOMAIN left |-> s[left[n]]]
=============================================================================
