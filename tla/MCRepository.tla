---------------------------- MODULE MCRepository ----------------------------
(***************************************************************************)
(* Two processes and two requests at two features, with one more number,   *)
(* slug and uid to move to.                                                *)
(***************************************************************************)
EXTENDS Repository, TLC

MCUid == {1, 2, 3}
MCInfra == {1, 2}
MCLate == {3}
MCVersion == {1, 2}
\* Commands are alike whichever process runs them, and so are requests.
Symmetric == Permutations(Process) \cup Permutations(Request)

\* The first feature has a contract; so has the second where a generated file was replaced by hand.
MCInit ==
  /\ Init
  /\ \A i \in Id : specs[i] # Absent =>
       (specs[i].contract # Absent <=> i[1] = 1 \/ (manifest # NoManifest /\ spent.faults = MaxFaults))
MCSpec == MCInit /\ [][Next]_vars
=============================================================================
