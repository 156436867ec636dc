---------------------------- MODULE MCGateStore -----------------------------
(* Values for TLC.                                                         *)
EXTENDS GateStore, TLC

CONSTANT preflight  \* the gate whose definition limits the age of a record

MCTTL == [g \in Gate |-> IF g = preflight THEN 1 ELSE 0]

\* No gate has a default limit: then all gates are interchangeable.
MCNoTTL == [g \in Gate |-> 0]

\* Processes, gates and contents are interchangeable; only for runs without
\* liveness and without preflight.
Symmetry == Permutations(Proc) \cup Permutations(Gate) \cup Permutations(Token)
=============================================================================
