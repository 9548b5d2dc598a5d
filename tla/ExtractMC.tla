------------------------------ MODULE ExtractMC ------------------------------
(* Extract, with the invariant its proofs use, on small sources, for TLC. *)
EXTENDS ExtractProofs, TLC

\* The tracev3 files are interchangeable: nothing orders them in Extract.
FileSymmetry == Permutations(TraceFiles)
=============================================================================
