--------------------------- MODULE ScanScheduler ---------------------------
(***************************************************************************)
(* runTaskGraph of lib/scan-scheduler-next/scheduler.mjs: one asynchronous *)
(* loop admits tasks in the order of their ids, within a number of tasks   *)
(* and of reserved bytes; the workers' promises settle at their own pace.  *)
(* A pass of the loop runs without an await and is one action.             *)
(***************************************************************************)
EXTENDS Integers, FiniteSets

CONSTANTS N,               \* number of tasks; ids are compared as numbers
          MaxConcurrency,  \* maxConcurrency
          MaxBytes,        \* maxEstimatedBytesInFlight
          TaskGraphs       \* the inputs: dependsOn and estimatedBytes of each task

Task == 1..N
Unknown == 0               \* an id in dependsOn that no task has

ASSUME CountsAssumption == N \in Nat \ {0} /\ MaxConcurrency \in Nat \ {0} /\ MaxBytes \in Nat \ {0}
ASSUME GraphsAssumption ==
    TaskGraphs \subseteq [deps : [Task -> SUBSET (Task \cup {Unknown})], bytes : [Task -> Nat]]

VARIABLES graph,      \* the tasks given to this call
          status,     \* state: what the result says of each task so far
          running,    \* running: tasks whose promise has not been finalised
          bytes,      \* bytesInFlight
          loop,       \* where the loop waits, or how the call ended
          raced       \* the promises the loop awaits in Promise.race

schedulerVars == <<graph, status, running, bytes, loop, raced>>

Terminal == {"passed", "failed", "blocked"}
Ended == {"refused", "done", "stuck"}

SchedulerTypeOK ==
    /\ graph \in TaskGraphs
    /\ status \in [Task -> {"pending", "running"} \cup Terminal]
    /\ running \in SUBSET Task
    /\ raced \in SUBSET Task
    /\ bytes \in Int
    /\ loop \in {"check", "top", "tick", "race"} \cup Ended

SchedulerInit ==
    /\ graph \in TaskGraphs
    /\ status = [t \in Task |-> "pending"]
    /\ running = {} /\ raced = {} /\ bytes = 0
    /\ loop = "check"

-----------------------------------------------------------------------------
(* Validation of the graph. *)

LeastOf(S) == CHOOSE t \in S : \A u \in S : t <= u

\* The queue of assertAcyclic: each round takes the least task without an unseen dependency.
See(before, deps) ==
    LET free == {t \in Task \ before : deps[t] \subseteq before}
    IN  IF free = {} THEN before ELSE before \cup {LeastOf(free)}

Seen(deps) ==
    LET seen[k \in 0..N] == IF k = 0 THEN {} ELSE See(seen[k - 1], deps)
    IN  seen[N]

Malformed(deps) == \E t \in Task : t \in deps[t] \/ Unknown \in deps[t]

\* Mutant of AcceptsGraph: no check for cycles.
AcceptsCycles(deps) == ~Malformed(deps)

AcceptsGraph(deps) == ~Malformed(deps) /\ Seen(deps) = Task

Validate ==
    /\ loop = "check"
    /\ loop' = IF AcceptsGraph(graph.deps) THEN "top" ELSE "refused"
    /\ UNCHANGED <<graph, status, running, bytes, raced>>

-----------------------------------------------------------------------------
(* One pass of the loop. *)

\* Mutant of Mark: only failures block.
MarkBehindFailed(now, t) ==
    IF now[t] = "pending" /\ \E d \in graph.deps[t] : now[d] = "failed"
    THEN [now EXCEPT ![t] = "blocked"] ELSE now

Mark(now, t) ==
    IF now[t] = "pending" /\ \E d \in graph.deps[t] : now[d] \in {"failed", "blocked"}
    THEN [now EXCEPT ![t] = "blocked"] ELSE now

\* markBlockedDependencies: a single pass over the tasks, in the order of the ids.
MarkBlocked(before) ==
    LET pass[t \in 0..N] == IF t = 0 THEN before ELSE Mark(pass[t - 1], t)
    IN  pass[N]

\* Mutant of Ready: running dependencies are not waited for.
ReadyEarly(now) == {t \in Task : now[t] = "pending"}

Ready(now) == {t \in Task : now[t] = "pending" /\ \A d \in graph.deps[t] : now[d] = "passed"}

\* A ready task that is started or blocked, with the reservations from then on.
Take(a, t, as, run, sum) ==
    [status |-> [a.status EXCEPT ![t] = as], running |-> run, bytes |-> sum,
     none |-> a.none, admitted |-> TRUE, full |-> a.full]

\* The admission loop over the ready tasks. `full` is its break.
Admit(a, t, ready) ==
    IF t \notin ready \/ a.full THEN a
    ELSE IF Cardinality(a.running) >= MaxConcurrency THEN [a EXCEPT !.full = TRUE]
    ELSE IF graph.bytes[t] > MaxBytes THEN Take(a, t, "blocked", a.running, a.bytes)
    ELSE IF a.bytes + graph.bytes[t] > MaxBytes THEN a
    ELSE Take(a, t, "running", a.running \cup {t}, a.bytes + graph.bytes[t])

NothingAdmitted(now) == [status |-> now, running |-> running, bytes |-> bytes,
                         none |-> Ready(now) = {}, admitted |-> FALSE, full |-> FALSE]

Admission(now) ==
    LET ready == Ready(now)
        admit[t \in 0..N] == IF t = 0 THEN NothingAdmitted(now) ELSE Admit(admit[t - 1], t, ready)
    IN  admit[N]

\* Mutant of Resumed: a race over promises that are already finalised waits for a new one.
ResumedByChange == loop \in {"top", "tick"} \/ (loop = "race" /\ raced \ running # {} /\ running # {})

\* Promise.race resolves when a promise it was given is finalised; Promise.resolve() at once.
Resumed == loop \in {"top", "tick"} \/ (loop = "race" /\ raced \ running # {})

Finish ==
    /\ Resumed
    /\ \A t \in Task : status[t] \in Terminal
    /\ loop' = "done"
    /\ UNCHANGED <<graph, status, running, bytes, raced>>

Iterate ==
    /\ Resumed
    /\ \E t \in Task : status[t] \notin Terminal
    /\ \E a \in {Admission(MarkBlocked(status))} :   \* bound, so that TLC evaluates it once
       LET last  == MarkBlocked(a.status)
           waits == ~a.admitted \/ Cardinality(a.running) >= MaxConcurrency \/ a.none
       IN  /\ running' = a.running /\ bytes' = a.bytes /\ raced' = a.running
           /\ IF a.running # {}
              THEN status' = a.status /\ loop' = IF waits THEN "race" ELSE "tick"
              ELSE /\ status' = last
                   /\ loop' = IF \E t \in Task : last[t] = "pending" THEN "stuck" ELSE "top"
    /\ UNCHANGED graph

-----------------------------------------------------------------------------
(* The promise of a started task. *)

WorkerSettles(t, outcome) ==
    /\ status[t] = "running"
    /\ status' = [status EXCEPT ![t] = outcome]
    /\ UNCHANGED <<graph, running, bytes, loop, raced>>

\* Mutant of Finalise: the reservation is not given back.
FinaliseKeeps(t) ==
    /\ t \in running /\ status[t] # "running"
    /\ running' = running \ {t}
    /\ UNCHANGED <<graph, status, bytes, loop, raced>>

Finalise(t) ==
    /\ t \in running /\ status[t] # "running"
    /\ running' = running \ {t}
    /\ bytes' = bytes - graph.bytes[t]
    /\ UNCHANGED <<graph, status, loop, raced>>

SchedulerNext ==
    \/ Validate
    \/ Finish
    \/ Iterate
    \/ \E t \in Task : WorkerSettles(t, "passed") \/ WorkerSettles(t, "failed") \/ Finalise(t)

SchedulerSpec == SchedulerInit /\ [][SchedulerNext]_schedulerVars

-----------------------------------------------------------------------------
(* What the scheduler promises. *)

SumOfBytes(sizes, S) ==
    LET sum[t \in 0..N] == IF t = 0 THEN 0
                           ELSE sum[t - 1] + (IF t \in S THEN sizes[t] ELSE 0)
    IN  sum[N]

\* Admission stays inside both budgets at every moment, and the reservation account is exactly
\* what the unfinished promises reserved, whatever order they settle and are finalised in.
WithinBudget ==
    /\ bytes = SumOfBytes(graph.bytes, running) /\ bytes <= MaxBytes
    /\ Cardinality(running) <= MaxConcurrency

\* No task ever runs against missing inputs: one that was started had all its dependencies passed,
\* and one that is blocked has a reason of its own or a dependency that did not pass.
DependenciesFirst ==
    \A t \in Task :
        /\ status[t] \in {"running", "passed", "failed"} => \A d \in graph.deps[t] : status[d] = "passed"
        /\ status[t] = "blocked" => \/ graph.bytes[t] > MaxBytes
                                    \/ \E d \in graph.deps[t] : status[d] \in {"failed", "blocked"}

\* A cycle: tasks that each wait for one of them.
Cyclic(deps) == \E S \in (SUBSET Task) \ {{}} : \A t \in S : deps[t] \cap S # {}

\* The loop is entered for exactly the graphs in which every dependency exists and none is its own
\* consequence: with any other it would wait for ever, and none of these may be turned away.
RefusesExactlyBadGraphs ==
    loop # "check" =>
        (loop = "refused" <=> \/ \E t \in Task : Unknown \in graph.deps[t]
                              \/ Cyclic(graph.deps))

\* A call gives up with tasks still pending for one reason only: the pass that blocks dependents goes
\* in the order of ids and is not repeated, so it misses a task whose dependency has a larger id and
\* is blocked by the same pass.  Every other task behind one that did not pass is reported blocked.
GivesUpOnlyOutOfOrder ==
    loop = "stuck" =>
        \A t \in Task : status[t] = "pending" =>
            /\ \A d \in graph.deps[t] : d < t => status[d] \in {"passed", "pending"}
            /\ \E d \in graph.deps[t] : status[d] = "blocked" \/ status[d] = "pending"
=============================================================================
