---------------------------- MODULE Invalidation ----------------------------
(***************************************************************************)
(* Which cached results a change makes worthless: computeInvalidation of   *)
(* lib/scan-scheduler-next/invalidation.mjs over files, and                *)
(* propagateProjectInvalidation of project-cache-plan.mjs over projects.   *)
(* Both walk the reversed edges with a queue.                              *)
(***************************************************************************)
EXTENDS Integers, FiniteSets

CONSTANTS Node,     \* files, or projects
          Digest,   \* what a file index records of a file
          Absent    \* the file is not in the index

ASSUME NodesAssumption == IsFiniteSet(Node) /\ Absent \notin Digest

FileIndex == [Node -> Digest \cup {Absent}]

\* Added, deleted and modified files; every file of either index when the global inputs changed.
ChangedFiles(previous, next, global) ==
  LET known == {f \in Node : previous[f] # Absent \/ next[f] # Absent}
  IN  IF global THEN known ELSE {f \in known : previous[f] # next[f]}

\* Those that an edge <<dependent, dependency>> ties to this node.
Dependents(edges, node) == {d \in Node : <<d, node>> \in edges}

\* Mutant of Propagate: one level of dependents.
PropagateOnce(edges, changed) == changed \cup UNION {Dependents(edges, c) : c \in changed}

\* One round of the loop: a node leaves the queue and brings its dependents.
Visit(before, edges) ==
  LET current == CHOOSE n \in before.queue : TRUE
      new     == Dependents(edges, current) \ before.invalidated
  IN  IF before.queue = {} THEN before
      ELSE [invalidated |-> before.invalidated \cup new,
            queue |-> (before.queue \ {current}) \cup new]

\* The loop over the queue: every node enters it once.
Propagate(edges, changed) ==
  LET walk[i \in 0..Cardinality(Node)] ==
        IF i = 0 THEN [invalidated |-> changed, queue |-> changed] ELSE Visit(walk[i - 1], edges)
  IN  walk[Cardinality(Node)].invalidated

\* The result is the least set with the changed nodes that is closed under "depends on", and a file
\* is changed when its entry differs.
LeastClosed ==
  /\ \A edges \in SUBSET (Node \X Node), changed \in SUBSET Node :
       LET closed == {S \in SUBSET Node : /\ changed \subseteq S
                                          /\ \A e \in edges : e[2] \in S => e[1] \in S}
       IN  Propagate(edges, changed) = {n \in Node : \A S \in closed : n \in S}
  /\ \A previous, next \in FileIndex :
       \A f \in Node : previous[f] # next[f] <=> f \in ChangedFiles(previous, next, FALSE)
=============================================================================
