------------------------------ MODULE ChainMC ------------------------------
(* The chain of custody with the invariant the proofs of Extract use, for TLC. *)
EXTENDS CustodyMC, ExtractMC
=============================================================================
