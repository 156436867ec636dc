------------------------------ MODULE ScanRun -------------------------------
(***************************************************************************)
(* runProjectGraphCached: the task graph is run with one cached scan per   *)
(* task.  All tasks share the event loop of one process: a scan keeps it   *)
(* from the fingerprint to the scan, and again from the put to the release *)
(* of the index lock.  Other processes use the same cache meanwhile.       *)
(***************************************************************************)
EXTENDS ScanScheduler, ScanCache, Invalidation

ASSUME WorkersAssumption == Task \subseteq Worker

Others == Worker \ Task

runVars == <<schedulerVars, cacheVars>>

Init == SchedulerInit /\ CacheInit

\* No task but these holds the event loop.
LoopFreeFor(S) == \A t \in Task \ S : work[t].at \notin Segment

Schedule ==
  /\ LoopFreeFor({})
  /\ UNCHANGED cacheVars
  /\ Validate \/ Finish \/ Iterate \/ \E t \in Task : Finalise(t)

\* The worker of a started task.
Scan(t) ==
  /\ status[t] = "running"
  /\ LoopFreeFor({t})
  /\ \/ Fingerprint(t) /\ UNCHANGED outside
     \/ Lookup(t) \/ ReadHit(t) \/ Compute(t) \/ ComputeThrows(t) \/ Put(t) \/ ReadBack(t)
     \/ AcquireIndex(t) \/ IndexTimeout(t) \/ LoadIndex(t) \/ SaveIndex(t) \/ ReleaseIndex(t)
  /\ UNCHANGED schedulerVars

\* Its promise settles.
Settle(t) ==
  /\ status[t] = "running"
  /\ LoopFreeFor({})
  /\ \/ work[t].at = "returned" /\ WorkerSettles(t, "passed")
     \/ work[t].at = "threw" /\ WorkerSettles(t, "failed")
  /\ UNCHANGED cacheVars

ProcessStep == Schedule \/ \E t \in Task : Scan(t) \/ Settle(t)

Outside ==
  /\ \/ \E w \in Others : WorkerStep(w) \/ Crash(w)
     \/ JanitorStep \/ CollectorStep \/ CacheEnvironment
  /\ UNCHANGED schedulerVars

Next == ProcessStep \/ Outside

\* The event loop runs whatever is ready.  Nobody else is obliged to do anything.
Spec == Init /\ [][Next]_runVars /\ WF_runVars(ProcessStep)

-----------------------------------------------------------------------------

\* Every variable of the scheduler and of the cache has its type.
TypeOK == SchedulerTypeOK /\ CacheTypeOK

\* Invalidation drops everything that could have seen a change and nothing else, along chains, cycles
\* and edges from a node to itself.  (About the operators, so looked at where a run starts.)
ExactlyTheDependents == (loop = "check" /\ outside = 0) => LeastClosed

\* The run ends whatever the other processes do, a crash inside the index lock included: every wait
\* for that lock is bounded, and the loop never waits for a promise that is already finalised.
RunEnds == <>(loop \in Ended)
=============================================================================
