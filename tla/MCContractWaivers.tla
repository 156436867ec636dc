------------------------- MODULE MCContractWaivers --------------------------
(* Values for TLC.                                                         *)
EXTENDS ContractWaivers, TLC

\* Processes and warnings are interchangeable.
Symmetry == Permutations(Proc) \cup Permutations(Key)
=============================================================================
