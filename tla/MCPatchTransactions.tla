------------------------ MODULE MCPatchTransactions -------------------------
(* Values for TLC.                                                         *)
EXTENDS PatchTransactions, TLC

\* Processes, transaction ids and regions are interchangeable.
Symmetry == Permutations(Proc) \cup Permutations(Txn) \cup Permutations(Region)
=============================================================================
