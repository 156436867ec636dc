------------------------- MODULE ScanSchedulerProofs -------------------------
(***************************************************************************)
(* Proofs about ScanScheduler, for any number of tasks, any graphs and any *)
(* budgets.  The passes of the scheduler over its tasks are recursive      *)
(* functions, so the module begins with induction, from the least element  *)
(* of a set of natural numbers, and with what it gives about each pass.    *)
(***************************************************************************)
EXTENDS ScanScheduler, FiniteSetTheorems, WellFoundedInduction, TLAPS

\* A set of natural numbers has a least element.
LEMMA LeastExists ==
  ASSUME NEW T, T \subseteq Nat, T # {}
  PROVE  \E x \in T : \A y \in T : x <= y
<1> DEFINE R == OpToRel(<, Nat)
<1>1. IsWellFoundedOn(R, Nat)
  BY NatLessThanWellFounded
<1>2. \A x, y \in Nat : y < x => <<y, x>> \in R
  BY DEF OpToRel
<1> HIDE DEF R
<1>3. PICK x \in T : \A y \in T : ~(<<y, x>> \in R)
  BY <1>1, WFMin
<1>4. \A y \in T : y \in Nat /\ x \in Nat /\ ~(y < x)
  BY <1>2, <1>3
<1>5. \A y \in T : x <= y
  BY <1>4
<1> QED
  BY <1>5

\* Induction, for a set in place of a predicate.
LEMMA SetInduction ==
  ASSUME NEW S, 0 \in S, \A n \in Nat : n \in S => n + 1 \in S
  PROVE  Nat \subseteq S
<1> DEFINE T == Nat \ S
<1>1. ASSUME T # {} PROVE FALSE
  <2>1. PICK x \in T : \A y \in T : x <= y
    BY <1>1, LeastExists
  <2>2. x # 0 /\ x - 1 \in Nat /\ x = (x - 1) + 1
    BY <2>1
  <2>3. x - 1 \notin S
    BY <2>2, <2>1
  <2>4. x - 1 \in T
    BY <2>2, <2>3
  <2>5. x <= x - 1
    BY <2>1, <2>4
  <2> QED
    BY <2>2, <2>5
<1> QED
  BY <1>1

\* The same up to a bound.
LEMMA BoundedInduction ==
  ASSUME NEW n \in Nat, NEW S, 0 \in S, \A k \in 1..n : k - 1 \in S => k \in S
  PROVE  0..n \subseteq S
<1> DEFINE T == S \cup {k \in Nat : k > n}
<1>1. ASSUME NEW k \in Nat, k \in T PROVE k + 1 \in T
  BY <1>1
<1>2. Nat \subseteq T
  <2>1. 0 \in T
    OBVIOUS
  <2> HIDE DEF T
  <2> QED
    BY <1>1, <2>1, SetInduction
<1> QED
  BY <1>2

\* What defines a function by recursion along 0..n, a set at a time.
Recursive(f, n, base, step) ==
  f = [k \in 0..n |-> IF k = 0 THEN base ELSE step[<<f[k - 1], k>>]]

\* Such a function exists, and stays in a set that holds its base and is closed under its step.
LEMMA Recursion ==
  ASSUME NEW n \in Nat, NEW V, NEW base \in V, NEW step,
         \A v \in V, k \in 1..n : step[<<v, k>>] \in V
  PROVE  \E f \in [0..n -> V] : Recursive(f, n, base, step)
<1> DEFINE S == {m \in 0..n : \E f \in [0..m -> V] : Recursive(f, m, base, step)}
<1>1. 0 \in S
  <2> DEFINE f == [k \in 0..0 |-> base]
  <2>1. f \in [0..0 -> V] /\ Recursive(f, 0, base, step)
    BY DEF Recursive
  <2> QED
    BY <2>1
<1>2. ASSUME NEW m \in 1..n, m - 1 \in S PROVE m \in S
  <2>1. PICK f \in [0..(m - 1) -> V] : Recursive(f, m - 1, base, step)
    BY <1>2
  <2> DEFINE g == [k \in 0..m |-> IF k = m THEN step[<<f[m - 1], m>>] ELSE f[k]]
  <2>2. ASSUME NEW k \in 0..m PROVE g[k] = (IF k = 0 THEN base ELSE step[<<g[k - 1], k>>]) /\ g[k] \in V
    <3>1. CASE k = m
      <4>1. k # 0 /\ k - 1 # m /\ k - 1 \in 0..m /\ k - 1 \in 0..(m - 1)
        BY <3>1
      <4>2. g[k] = step[<<f[m - 1], m>>] /\ g[k - 1] = f[m - 1]
        BY <3>1, <4>1
      <4>3. f[m - 1] \in V
        BY <2>1, <3>1, <4>1
      <4>4. step[<<f[m - 1], m>>] \in V
        BY <4>3
      <4> HIDE DEF g
      <4> QED
        BY <3>1, <4>1, <4>2, <4>4
    <3>2. CASE k \in 0..(m - 1)
      <4>1. g[k] = f[k] /\ (k # 0 => g[k - 1] = f[k - 1])
        BY <3>2
      <4> QED
        BY <2>1, <3>2, <4>1 DEF Recursive
    <3> QED
      BY <3>1, <3>2
  <2>3. DOMAIN g = 0..m /\ g = [k \in 0..m |-> g[k]]
    OBVIOUS
  <2> HIDE DEF g
  <2>4. g \in [0..m -> V]
    BY <2>2, <2>3
  <2>5. Recursive(g, m, base, step)
    BY <2>2, <2>3 DEF Recursive
  <2> QED
    BY <2>4, <2>5
<1> HIDE DEF S
<1>3. 0..n \subseteq S
  BY <1>1, <1>2, BoundedInduction
<1> QED
  BY <1>3 DEF S

-----------------------------------------------------------------------------
(* The check of the graph. *)

Shape == [Task -> SUBSET (Task \cup {Unknown})]

\* The tasks that the next round may take.
Unblocked(v, deps) == {t \in Task \ v : deps[t] \subseteq v}

\* A round takes one of them, or nothing if there is none.
LEMMA SeesOne ==
  ASSUME NEW v \in SUBSET Task, NEW deps
  PROVE  \/ Unblocked(v, deps) = {} /\ See(v, deps) = v
         \/ \E t \in Unblocked(v, deps) : t \in Task /\ t \notin v /\ See(v, deps) = v \cup {t}
<1> DEFINE free == Unblocked(v, deps)
<1>1. free \subseteq Nat /\ \A t \in free : t \in Task /\ t \notin v
  BY DEF Task, Unblocked
<1>2. See(v, deps) = IF free = {} THEN v ELSE v \cup {LeastOf(free)}
  BY DEF See, Unblocked
<1> HIDE DEF free
<1>3. ASSUME free # {} PROVE LeastOf(free) \in free
  <2>1. \E t \in free : \A u \in free : t <= u
    BY <1>1, <1>3, LeastExists
  <2> QED
    BY <2>1 DEF LeastOf
<1>4. CASE free # {}
  <2>1. LeastOf(free) \in free /\ See(v, deps) = v \cup {LeastOf(free)}
    BY <1>2, <1>3, <1>4
  <2> QED
    BY <1>1, <2>1 DEF free
<1>5. CASE free = {}
  BY <1>2, <1>5 DEF free
<1> QED
  BY <1>4, <1>5

\* The rounds of assertAcyclic.
LEMMA SeenRounds ==
  ASSUME NEW deps \in Shape
  PROVE  \E f \in [0..N -> SUBSET Task] :
            /\ f[0] = {} /\ \A k \in 1..N : f[k] = See(f[k - 1], deps)
            /\ Seen(deps) = f[N]
<1> DEFINE P(f) == f = [k \in 0..N |-> IF k = 0 THEN {} ELSE See(f[k - 1], deps)]
           step == [p \in (SUBSET Task) \X (1..N) |-> See(p[1], deps)]
<1>1. N \in Nat
  BY CountsAssumption
<1>2. ASSUME NEW v \in SUBSET Task PROVE See(v, deps) \in SUBSET Task
  BY SeesOne
<1>3. \A v \in SUBSET Task, k \in 1..N : step[<<v, k>>] = See(v, deps) /\ step[<<v, k>>] \in SUBSET Task
  BY <1>2
<1> HIDE DEF step
<1>4. PICK f \in [0..N -> SUBSET Task] : Recursive(f, N, {}, step)
  BY <1>1, <1>3, Recursion
<1>5. P(f)
  <2>1. \A k \in 0..N : k # 0 => f[k - 1] \in SUBSET Task /\ k \in 1..N
    BY <1>1, <1>4
  <2> QED
    BY <1>3, <1>4, <2>1 DEF Recursive
<1>6. PICK g : P(g) /\ Seen(deps) = g[N]
  <2>1. P(CHOOSE g : P(g))
    BY <1>5
  <2>2. Seen(deps) = (CHOOSE g : P(g))[N]
    BY DEF Seen
  <2> QED
    BY <2>1, <2>2
<1>7. ASSUME NEW h, P(h) PROVE h[0] = {} /\ \A k \in 1..N : h[k] = See(h[k - 1], deps)
  <2>1. 0 \in 0..N /\ \A k \in 1..N : k \in 0..N /\ k # 0
    BY <1>1
  <2> QED
    BY <1>7, <2>1
<1>8. g[N] = f[N]
  <2> DEFINE S == {k \in 0..N : g[k] = f[k]}
  <2>1. 0 \in S
    BY <1>1, <1>5, <1>6, <1>7
  <2>2. ASSUME NEW k \in 1..N, k - 1 \in S PROVE k \in S
    <3>1. f[k] = See(f[k - 1], deps) /\ g[k] = See(g[k - 1], deps)
      BY <1>5, <1>6, <1>7
    <3>2. f[k - 1] = g[k - 1] /\ k \in 0..N
      BY <1>1, <2>2
    <3> QED
      BY <3>1, <3>2
  <2> HIDE DEF S
  <2>3. 0..N \subseteq S
    BY <1>1, <2>1, <2>2, BoundedInduction
  <2> QED
    BY <1>1, <2>3 DEF S
<1> QED
  BY <1>5, <1>6, <1>7, <1>8

\* The tasks are finitely many.
LEMMA TasksFinite ==
  /\ N \in Nat /\ IsFiniteSet(Task) /\ Cardinality(Task) = N
  /\ \A S \in SUBSET Task : IsFiniteSet(S) /\ Cardinality(S) \in Nat /\ (Cardinality(S) = N => S = Task)
<1>1. N \in Nat /\ IsFiniteSet(1..N) /\ Cardinality(1..N) = N
  BY CountsAssumption, FS_Interval
<1>2. ASSUME NEW S \in SUBSET (1..N)
      PROVE  IsFiniteSet(S) /\ Cardinality(S) \in Nat /\ (Cardinality(S) = N => S = 1..N)
  BY <1>1, FS_Subset, FS_CardinalityType
<1> QED
  BY <1>1, <1>2 DEF Task

\* assertAcyclic sees every task, or what it does not see waits for itself.
LEMMA SeenOrStuck ==
  ASSUME NEW deps \in Shape
  PROVE  Seen(deps) \in SUBSET Task /\ (Seen(deps) = Task \/ Unblocked(Seen(deps), deps) = {})
<1>1. PICK f \in [0..N -> SUBSET Task] :
            /\ f[0] = {} /\ \A k \in 1..N : f[k] = See(f[k - 1], deps)
            /\ Seen(deps) = f[N]
  BY SeenRounds
<1> DEFINE S == {k \in 0..N : Unblocked(f[k], deps) = {} \/ Cardinality(f[k]) = k}
<1>2. 0 \in S
  BY <1>1, TasksFinite, FS_EmptySet
<1>3. ASSUME NEW k \in 1..N, k - 1 \in S PROVE k \in S
  <2>0. k \in 0..N /\ k - 1 \in 0..N /\ f[k - 1] \in SUBSET Task /\ f[k] = See(f[k - 1], deps)
    BY <1>1, TasksFinite
  <2>1. CASE Unblocked(f[k - 1], deps) = {} /\ f[k] = f[k - 1]
    BY <2>0, <2>1
  <2>2. CASE \E t \in Unblocked(f[k - 1], deps) : t \notin f[k - 1] /\ f[k] = f[k - 1] \cup {t}
    <3>1. PICK t : t \notin f[k - 1] /\ f[k] = f[k - 1] \cup {t}
      BY <2>2
    <3>2. Cardinality(f[k - 1]) = k - 1
      BY <1>3, <2>2
    <3>3. Cardinality(f[k]) = Cardinality(f[k - 1]) + 1
      BY <2>0, <3>1, TasksFinite, FS_AddElement
    <3> QED
      BY <2>0, <3>2, <3>3
  <2> QED
    BY <2>0, <2>1, <2>2, SeesOne
<1> HIDE DEF S
<1>4. 0..N \subseteq S
  BY <1>2, <1>3, TasksFinite, BoundedInduction
<1>5. N \in S /\ f[N] \in SUBSET Task
  BY <1>4, TasksFinite
<1> QED
  BY <1>1, <1>5, TasksFinite DEF S

\* What waits for itself is never seen.
LEMMA CycleUnseen ==
  ASSUME NEW deps \in Shape, NEW C \in SUBSET Task, \A t \in C : deps[t] \cap C # {}
  PROVE  Seen(deps) \cap C = {}
<1>1. PICK f \in [0..N -> SUBSET Task] :
            /\ f[0] = {} /\ \A k \in 1..N : f[k] = See(f[k - 1], deps)
            /\ Seen(deps) = f[N]
  BY SeenRounds
<1> DEFINE S == {k \in 0..N : f[k] \cap C = {}}
<1>2. 0 \in S
  BY <1>1, TasksFinite
<1>3. ASSUME NEW k \in 1..N, k - 1 \in S PROVE k \in S
  <2>0. k \in 0..N /\ f[k - 1] \in SUBSET Task /\ f[k] = See(f[k - 1], deps) /\ f[k - 1] \cap C = {}
    BY <1>1, <1>3, TasksFinite
  <2>1. CASE f[k] = f[k - 1]
    BY <2>0, <2>1
  <2>2. ASSUME NEW t \in Unblocked(f[k - 1], deps), f[k] = f[k - 1] \cup {t} PROVE k \in S
    <3>1. deps[t] \subseteq f[k - 1]
      BY DEF Unblocked
    <3>2. t \notin C
      BY <2>0, <3>1
    <3> QED
      BY <2>0, <2>2, <3>2
  <2>3. \/ f[k] = f[k - 1]
        \/ \E t \in Unblocked(f[k - 1], deps) : f[k] = f[k - 1] \cup {t}
    BY <2>0, SeesOne
  <2> HIDE DEF S
  <2> QED
    BY <2>1, <2>2, <2>3
<1> HIDE DEF S
<1>4. 0..N \subseteq S
  BY <1>2, <1>3, TasksFinite, BoundedInduction
<1>5. N \in S
  BY <1>4, TasksFinite
<1> QED
  BY <1>1, <1>5 DEF S

\* The call goes on for exactly the graphs whose dependencies all exist and none of which is
\* its own consequence.
LEMMA AcceptsExactly ==
  ASSUME NEW deps \in Shape
  PROVE  AcceptsGraph(deps) <=> ~((\E t \in Task : Unknown \in deps[t]) \/ Cyclic(deps))
<1>1. ASSUME AcceptsGraph(deps), Cyclic(deps) PROVE FALSE
  <2>1. PICK C \in (SUBSET Task) \ {{}} : \A t \in C : deps[t] \cap C # {}
    BY <1>1 DEF Cyclic
  <2>2. Seen(deps) \cap C = {}
    BY <2>1, CycleUnseen
  <2>3. Seen(deps) = Task
    BY <1>1 DEF AcceptsGraph
  <2> QED
    BY <2>1, <2>2, <2>3
<1>2. ASSUME NEW t \in Task, t \in deps[t] PROVE Cyclic(deps)
  <2>1. {t} \in (SUBSET Task) \ {{}} /\ \A u \in {t} : deps[u] \cap {t} # {}
    BY <1>2
  <2> QED
    BY <2>1 DEF Cyclic
<1>3. ASSUME ~Malformed(deps), Seen(deps) # Task PROVE Cyclic(deps)
  <2> DEFINE C == Task \ Seen(deps)
  <2>0. Seen(deps) \in SUBSET Task /\ Unblocked(Seen(deps), deps) = {}
    BY <1>3, SeenOrStuck
  <2>1. C \in (SUBSET Task) \ {{}}
    BY <1>3, <2>0
  <2>2. ASSUME NEW t \in C PROVE deps[t] \cap C # {}
    <3>1. ~(deps[t] \subseteq Seen(deps)) /\ deps[t] \subseteq Task
      BY <1>3, <2>0 DEF Unblocked, Malformed, Shape
    <3> QED
      BY <3>1
  <2> QED
    BY <2>1, <2>2 DEF Cyclic
<1> QED
  BY <1>1, <1>2, <1>3 DEF AcceptsGraph, Malformed

-----------------------------------------------------------------------------
(* The pass that blocks dependents. *)

Status == {"pending", "running"} \cup Terminal

\* The tasks of this call depend on each other only.
WellFormed == graph.deps \in [Task -> SUBSET Task]

\* The steps of markBlockedDependencies.
LEMMA MarkSteps ==
  ASSUME NEW before \in [Task -> Status]
  PROVE  \E f \in [0..N -> [Task -> Status]] :
            /\ f[0] = before /\ \A k \in 1..N : f[k] = Mark(f[k - 1], k)
            /\ MarkBlocked(before) = f[N]
<1> DEFINE P(f) == f = [k \in 0..N |-> IF k = 0 THEN before ELSE Mark(f[k - 1], k)]
           step == [p \in [Task -> Status] \X (1..N) |-> Mark(p[1], p[2])]
<1>1. N \in Nat
  BY CountsAssumption
<1>2. ASSUME NEW v \in [Task -> Status], NEW k \in 1..N PROVE Mark(v, k) \in [Task -> Status]
  BY DEF Mark, Status, Terminal, Task
<1>3. \A v \in [Task -> Status], k \in 1..N : step[<<v, k>>] = Mark(v, k) /\ step[<<v, k>>] \in [Task -> Status]
  BY <1>2
<1> HIDE DEF step
<1>4. PICK f \in [0..N -> [Task -> Status]] : Recursive(f, N, before, step)
  BY <1>1, <1>3, Recursion
<1>5. P(f)
  <2>1. \A k \in 0..N : k # 0 => f[k - 1] \in [Task -> Status] /\ k \in 1..N
    BY <1>1, <1>4
  <2> QED
    BY <1>3, <1>4, <2>1 DEF Recursive
<1>6. PICK g : P(g) /\ MarkBlocked(before) = g[N]
  <2>1. P(CHOOSE g : P(g))
    BY <1>5
  <2>2. MarkBlocked(before) = (CHOOSE g : P(g))[N]
    BY DEF MarkBlocked
  <2> QED
    BY <2>1, <2>2
<1>7. ASSUME NEW h, P(h) PROVE h[0] = before /\ \A k \in 1..N : h[k] = Mark(h[k - 1], k)
  <2>1. 0 \in 0..N /\ \A k \in 1..N : k \in 0..N /\ k # 0
    BY <1>1
  <2> QED
    BY <1>7, <2>1
<1>8. g[N] = f[N]
  <2> DEFINE S == {k \in 0..N : g[k] = f[k]}
  <2>1. 0 \in S
    BY <1>1, <1>5, <1>6, <1>7
  <2>2. ASSUME NEW k \in 1..N, k - 1 \in S PROVE k \in S
    <3>1. f[k] = Mark(f[k - 1], k) /\ g[k] = Mark(g[k - 1], k)
      BY <1>5, <1>6, <1>7
    <3>2. f[k - 1] = g[k - 1] /\ k \in 0..N
      BY <1>1, <2>2
    <3> QED
      BY <3>1, <3>2
  <2> HIDE DEF S
  <2>3. 0..N \subseteq S
    BY <1>1, <2>1, <2>2, BoundedInduction
  <2> QED
    BY <1>1, <2>3 DEF S
<1> QED
  BY <1>5, <1>6, <1>7, <1>8

\* A task as the pass finds it: those with smaller ids are marked, the others are not.
Passed(before, after, t, d) == IF d < t THEN after[d] ELSE before[d]

\* What the pass over the ids makes of each task.
LEMMA MarkIs ==
  ASSUME NEW before \in [Task -> Status], WellFormed
  PROVE  /\ MarkBlocked(before) \in [Task -> Status]
         /\ \A t \in Task : MarkBlocked(before)[t] =
              IF before[t] = "pending" /\ \E d \in graph.deps[t] :
                    Passed(before, MarkBlocked(before), t, d) \in {"failed", "blocked"}
              THEN "blocked" ELSE before[t]
<1> DEFINE M == MarkBlocked(before)
<1>1. PICK f \in [0..N -> [Task -> Status]] :
            /\ f[0] = before /\ \A k \in 1..N : f[k] = Mark(f[k - 1], k)
            /\ M = f[N]
  BY MarkSteps
<1> HIDE DEF M
<1>2. ASSUME NEW k \in 1..N
      PROVE  /\ \A t \in Task : t # k => f[k][t] = f[k - 1][t]
             /\ f[k][k] = IF f[k - 1][k] = "pending" /\ \E d \in graph.deps[k] : f[k - 1][d] \in {"failed", "blocked"}
                          THEN "blocked" ELSE f[k - 1][k]
  <2>1. f[k] = Mark(f[k - 1], k) /\ f[k - 1] \in [Task -> Status] /\ k \in Task
    BY <1>1, TasksFinite DEF Task
  <2> QED
    BY <2>1 DEF Mark
<1> DEFINE Early(k) == \A t \in Task : k < t => f[k][t] = before[t]
           Late(k) == \A t \in Task : t <= k => f[k][t] = f[t][t]
           S == {k \in 0..N : Early(k) /\ Late(k)}
<1>3. 0 \in S
  BY <1>1, TasksFinite DEF Task
<1>4. ASSUME NEW k \in 1..N, k - 1 \in S PROVE k \in S
  <2>0. k \in 0..N /\ Early(k - 1) /\ Late(k - 1) /\ \A t \in Task : t \in Nat
    BY <1>4, TasksFinite DEF Task
  <2> HIDE DEF S
  <2>1. Early(k)
    BY <1>2, <2>0, TasksFinite
  <2>2. Late(k)
    <3>1. ASSUME NEW t \in Task, t <= k PROVE f[k][t] = f[t][t]
      <4>1. CASE t = k
        BY <4>1
      <4>2. CASE t <= k - 1
        BY <1>2, <2>0, <4>2
      <4> QED
        BY <2>0, <3>1, <4>1, <4>2
    <3> QED
      BY <3>1
  <2> QED
    BY <2>0, <2>1, <2>2 DEF S
<1> HIDE DEF S
<1>5. 0..N \subseteq S
  BY <1>3, <1>4, TasksFinite, BoundedInduction
<1>6. \A k \in 0..N : Early(k) /\ Late(k)
  BY <1>5 DEF S
<1> HIDE DEF Early, Late
<1>7. ASSUME NEW t \in Task PROVE t \in 1..N /\ t \in 0..N /\ t - 1 \in 0..N /\ M[t] = f[t][t]
  BY <1>1, <1>6, TasksFinite DEF Task, Late
<1>8. ASSUME NEW t \in Task, NEW d \in Task PROVE f[t - 1][d] = Passed(before, M, t, d)
  <2>1. CASE d < t
    <3>1. d <= t - 1 /\ d < t
      BY <2>1 DEF Task
    <3>2. f[t - 1][d] = f[d][d]
      BY <1>6, <1>7, <3>1 DEF Late
    <3> QED
      BY <1>7, <2>1, <3>2 DEF Passed
  <2>2. CASE ~(d < t)
    <3>1. t - 1 < d
      BY <2>2 DEF Task
    <3> QED
      BY <1>6, <1>7, <2>2, <3>1 DEF Early, Passed
  <2> QED
    BY <2>1, <2>2
<1>9. ASSUME NEW t \in Task PROVE f[t - 1][t] = before[t] /\ graph.deps[t] \subseteq Task
  <2>1. ~(t < t)
    BY DEF Task
  <2> QED
    BY <1>8, <2>1 DEF Passed, WellFormed
<1>10. ASSUME NEW t \in Task
       PROVE  M[t] = IF before[t] = "pending" /\ \E d \in graph.deps[t] : Passed(before, M, t, d) \in {"failed", "blocked"}
                     THEN "blocked" ELSE before[t]
  BY <1>2, <1>7, <1>8, <1>9
<1>11. M \in [Task -> Status]
  BY <1>1, TasksFinite
<1> QED
  BY <1>10, <1>11 DEF M

-----------------------------------------------------------------------------
(* The account of the reserved bytes. *)

Sizes == [Task -> Nat]

\* The steps of the sum.
LEMMA SumSteps ==
  ASSUME NEW sizes \in Sizes, NEW S
  PROVE  \E f \in [0..N -> Nat] :
            /\ f[0] = 0 /\ \A k \in 1..N : f[k] = f[k - 1] + (IF k \in S THEN sizes[k] ELSE 0)
            /\ SumOfBytes(sizes, S) = f[N]
<1> DEFINE P(f) == f = [k \in 0..N |-> IF k = 0 THEN 0 ELSE f[k - 1] + (IF k \in S THEN sizes[k] ELSE 0)]
           step == [p \in Nat \X (1..N) |-> p[1] + (IF p[2] \in S THEN sizes[p[2]] ELSE 0)]
<1>1. N \in Nat
  BY CountsAssumption
<1>2. \A v \in Nat, k \in 1..N :
         step[<<v, k>>] = v + (IF k \in S THEN sizes[k] ELSE 0) /\ step[<<v, k>>] \in Nat
  BY DEF Sizes, Task
<1> HIDE DEF step
<1>4. PICK f \in [0..N -> Nat] : Recursive(f, N, 0, step)
  <2>1. \A v \in Nat, k \in 1..N : step[<<v, k>>] \in Nat
    BY <1>2
  <2> QED
    BY <1>1, <2>1, Recursion
<1>5. P(f)
  <2>1. \A k \in 0..N : k # 0 => f[k - 1] \in Nat /\ k \in 1..N
    BY <1>1, <1>4
  <2> QED
    BY <1>2, <1>4, <2>1 DEF Recursive
<1>6. PICK g : P(g) /\ SumOfBytes(sizes, S) = g[N]
  <2>1. P(CHOOSE g : P(g))
    BY <1>5
  <2>2. SumOfBytes(sizes, S) = (CHOOSE g : P(g))[N]
    BY DEF SumOfBytes
  <2> QED
    BY <2>1, <2>2
<1>7. ASSUME NEW h, P(h)
      PROVE  h[0] = 0 /\ \A k \in 1..N : h[k] = h[k - 1] + (IF k \in S THEN sizes[k] ELSE 0)
  <2>1. 0 \in 0..N /\ \A k \in 1..N : k \in 0..N /\ k # 0
    BY <1>1
  <2> QED
    BY <1>7, <2>1
<1>8. g[N] = f[N]
  <2> DEFINE E == {k \in 0..N : g[k] = f[k]}
  <2>1. 0 \in E
    BY <1>1, <1>5, <1>6, <1>7
  <2>2. ASSUME NEW k \in 1..N, k - 1 \in E PROVE k \in E
    <3>1. /\ f[k] = f[k - 1] + (IF k \in S THEN sizes[k] ELSE 0)
          /\ g[k] = g[k - 1] + (IF k \in S THEN sizes[k] ELSE 0)
      BY <1>5, <1>6, <1>7
    <3>2. f[k - 1] = g[k - 1] /\ k \in 0..N
      BY <1>1, <2>2
    <3> QED
      BY <3>1, <3>2
  <2> HIDE DEF E
  <2>3. 0..N \subseteq E
    BY <1>1, <2>1, <2>2, BoundedInduction
  <2> QED
    BY <1>1, <2>3 DEF E
<1> QED
  BY <1>5, <1>6, <1>7, <1>8

\* Nothing reserved; and what one more task reserves.
LEMMA SumEmpty ==
  ASSUME NEW sizes \in Sizes
  PROVE  SumOfBytes(sizes, {}) = 0 /\ \A S : SumOfBytes(sizes, S) \in Nat
<1>1. PICK f \in [0..N -> Nat] :
            /\ f[0] = 0 /\ \A k \in 1..N : f[k] = f[k - 1] + (IF k \in {} THEN sizes[k] ELSE 0)
            /\ SumOfBytes(sizes, {}) = f[N]
  BY SumSteps
<1> DEFINE E == {k \in 0..N : f[k] = 0}
<1>2. 0 \in E
  BY <1>1, TasksFinite
<1>3. ASSUME NEW k \in 1..N, k - 1 \in E PROVE k \in E
  <2>1. f[k] = f[k - 1] + 0 /\ f[k - 1] = 0 /\ k \in 0..N
    BY <1>1, <1>3, TasksFinite
  <2> QED
    BY <2>1
<1> HIDE DEF E
<1>4. 0..N \subseteq E
  BY <1>2, <1>3, TasksFinite, BoundedInduction
<1>5. f[N] = 0
  BY <1>4, TasksFinite DEF E
<1>6. ASSUME NEW S PROVE SumOfBytes(sizes, S) \in Nat
  <2>1. PICK h \in [0..N -> Nat] : SumOfBytes(sizes, S) = h[N]
    BY SumSteps
  <2> QED
    BY <2>1, TasksFinite
<1> QED
  BY <1>1, <1>5, <1>6

\* A task that joins or leaves changes the sum by what it reserved.
LEMMA SumAdd ==
  ASSUME NEW sizes \in Sizes, NEW S, NEW t \in Task, t \notin S
  PROVE  SumOfBytes(sizes, S \cup {t}) = SumOfBytes(sizes, S) + sizes[t]
<1>1. PICK f \in [0..N -> Nat] :
            /\ f[0] = 0 /\ \A k \in 1..N : f[k] = f[k - 1] + (IF k \in S THEN sizes[k] ELSE 0)
            /\ SumOfBytes(sizes, S) = f[N]
  BY SumSteps
<1> DEFINE U == S \cup {t}
<1>2. \A k \in 1..N : (k # t => (k \in U <=> k \in S)) /\ t \in U
  OBVIOUS
<1> HIDE DEF U
<1>3. PICK g \in [0..N -> Nat] :
            /\ g[0] = 0 /\ \A k \in 1..N : g[k] = g[k - 1] + (IF k \in U THEN sizes[k] ELSE 0)
            /\ SumOfBytes(sizes, U) = g[N]
  BY SumSteps
<1> DEFINE E == {k \in 0..N : g[k] = f[k] + (IF t <= k THEN sizes[t] ELSE 0)}
<1>4. t \in Nat /\ 1 <= t /\ t <= N /\ sizes[t] \in Nat /\ \A k \in 1..N : sizes[k] \in Nat
  BY TasksFinite DEF Task, Sizes
<1>5. 0 \in E
  BY <1>1, <1>3, <1>4, TasksFinite
<1>6. ASSUME NEW k \in 1..N, k - 1 \in E PROVE k \in E
  <2>1. /\ f[k] = f[k - 1] + (IF k \in S THEN sizes[k] ELSE 0)
        /\ g[k] = g[k - 1] + (IF k \in U THEN sizes[k] ELSE 0)
        /\ g[k - 1] = f[k - 1] + (IF t <= k - 1 THEN sizes[t] ELSE 0)
        /\ k \in 0..N /\ f[k - 1] \in Nat /\ g[k - 1] \in Nat
    BY <1>1, <1>3, <1>6, TasksFinite
  <2>2. CASE k = t
    <3>1. f[k] = f[k - 1] + 0 /\ g[k] = g[k - 1] + sizes[t] /\ g[k - 1] = f[k - 1] + 0 /\ t <= k
      BY <1>2, <1>4, <2>1, <2>2
    <3> QED
      BY <1>4, <2>1, <3>1
  <2>3. CASE k # t
    <3>1. (k \in U <=> k \in S) /\ (t <= k <=> t <= k - 1)
      BY <1>2, <1>4, <2>3
    <3> QED
      BY <1>4, <2>1, <3>1
  <2> QED
    BY <2>2, <2>3
<1> HIDE DEF E
<1>7. 0..N \subseteq E
  BY <1>5, <1>6, TasksFinite, BoundedInduction
<1>8. g[N] = f[N] + sizes[t]
  BY <1>4, <1>7, TasksFinite DEF E
<1> QED
  BY <1>1, <1>3, <1>8 DEF U

-----------------------------------------------------------------------------
(* The inductive invariant. *)

\* The states of the tasks agree with the promises that are not finalised.
Books(st, run) ==
  /\ \A t \in Task : st[t] = "running" => t \in run
  /\ \A t \in run : st[t] \in {"running", "passed", "failed"}

\* What DependenciesFirst says, of any states of the tasks.
Ordered(st) ==
  \A t \in Task :
    /\ st[t] \in {"running", "passed", "failed"} => \A d \in graph.deps[t] : st[d] = "passed"
    /\ st[t] = "blocked" => \/ graph.bytes[t] > MaxBytes
                            \/ \E d \in graph.deps[t] : st[d] \in {"failed", "blocked"}

\* A reservation that is exact and inside the budgets.
Reserved(run, sum) ==
  /\ sum = SumOfBytes(graph.bytes, run) /\ sum <= MaxBytes
  /\ Cardinality(run) <= MaxConcurrency

\* Nothing starts before the check; the loop is entered for the graphs it accepts; at the end nothing runs.
Gatekept ==
  /\ loop \in {"check", "refused"} => running = {} /\ \A t \in Task : status[t] = "pending"
  /\ loop = "refused" => ~AcceptsGraph(graph.deps)
  /\ loop \notin {"check", "refused"} => AcceptsGraph(graph.deps)
  /\ loop \in {"stuck", "done"} => \A t \in Task : status[t] # "running"

\* What a call that gives up leaves pending.
GivesUp(st) ==
  \A t \in Task : st[t] = "pending" =>
    /\ \A d \in graph.deps[t] : d < t => st[d] \in {"passed", "pending"}
    /\ \E d \in graph.deps[t] : st[d] = "blocked" \/ st[d] = "pending"

SInv ==
  /\ SchedulerTypeOK
  /\ Books(status, running)
  /\ Reserved(running, bytes)
  /\ Ordered(status)
  /\ Gatekept
  /\ loop = "stuck" => GivesUp(status)

-----------------------------------------------------------------------------
(* The admission loop. *)

Admissions == [status : [Task -> Status], running : SUBSET Task, bytes : Nat,
               none : BOOLEAN, admitted : BOOLEAN, full : BOOLEAN]


\* A step of the loop, and the fields it leaves.
LEMMA AdmitSteps ==
  ASSUME NEW a \in Admissions, NEW t \in Task, NEW ready, graph.bytes \in Sizes
  PROVE  /\ Admit(a, t, ready) \in Admissions
         /\ LET r == Admit(a, t, ready) IN
            \/ r = a /\ (\/ t \notin ready \/ a.full
                         \/ ~(graph.bytes[t] > MaxBytes) /\ a.bytes + graph.bytes[t] > MaxBytes)
            \/ /\ r.full /\ Cardinality(a.running) >= MaxConcurrency
               /\ r.status = a.status /\ r.running = a.running /\ r.bytes = a.bytes
            \/ /\ t \in ready /\ graph.bytes[t] > MaxBytes /\ r.full = a.full
               /\ r.status = [a.status EXCEPT ![t] = "blocked"] /\ r.running = a.running /\ r.bytes = a.bytes
            \/ /\ t \in ready /\ ~(Cardinality(a.running) >= MaxConcurrency)
               /\ ~(a.bytes + graph.bytes[t] > MaxBytes) /\ r.full = a.full
               /\ r.status = [a.status EXCEPT ![t] = "running"]
               /\ r.running = a.running \cup {t} /\ r.bytes = a.bytes + graph.bytes[t]
<1> DEFINE r == Admit(a, t, ready)
<1>1. CASE t \notin ready \/ a.full
  BY <1>1 DEF Admit
<1>2. CASE ~(t \notin ready \/ a.full) /\ Cardinality(a.running) >= MaxConcurrency
  <2>1. r = [a EXCEPT !.full = TRUE]
    BY <1>2 DEF Admit
  <2> HIDE DEF r
  <2>2. /\ r \in Admissions /\ r.full /\ r.status = a.status
        /\ r.running = a.running /\ r.bytes = a.bytes
    BY <2>1 DEF Admissions
  <2> QED
    BY <1>2, <2>2 DEF r
<1>3. CASE ~(t \notin ready \/ a.full) /\ ~(Cardinality(a.running) >= MaxConcurrency)
  <2>1. CASE graph.bytes[t] > MaxBytes
    <3>1. r = Take(a, t, "blocked", a.running, a.bytes)
      BY <1>3, <2>1 DEF Admit
    <3> HIDE DEF r
    <3>2. [a.status EXCEPT ![t] = "blocked"] \in [Task -> Status]
      BY DEF Admissions, Status, Terminal
    <3>3. /\ r \in Admissions /\ r.full = a.full /\ r.status = [a.status EXCEPT ![t] = "blocked"]
          /\ r.running = a.running /\ r.bytes = a.bytes
      BY <3>1, <3>2 DEF Admissions, Take
    <3> QED
      BY <1>3, <2>1, <3>3 DEF r
  <2>2. CASE ~(graph.bytes[t] > MaxBytes) /\ a.bytes + graph.bytes[t] > MaxBytes
    BY <1>3, <2>2 DEF Admit
  <2>3. CASE ~(graph.bytes[t] > MaxBytes) /\ ~(a.bytes + graph.bytes[t] > MaxBytes)
    <3>1. r = Take(a, t, "running", a.running \cup {t}, a.bytes + graph.bytes[t])
      BY <1>3, <2>3 DEF Admit
    <3> HIDE DEF r
    <3>2. /\ [a.status EXCEPT ![t] = "running"] \in [Task -> Status]
          /\ a.running \cup {t} \in SUBSET Task /\ a.bytes + graph.bytes[t] \in Nat
      BY DEF Admissions, Status, Sizes
    <3>3. /\ r \in Admissions /\ r.full = a.full /\ r.status = [a.status EXCEPT ![t] = "running"]
          /\ r.running = a.running \cup {t} /\ r.bytes = a.bytes + graph.bytes[t]
      BY <3>1, <3>2 DEF Admissions, Take
    <3> QED
      BY <1>3, <2>3, <3>3 DEF r
  <2> QED
    BY <2>1, <2>2, <2>3
<1> QED
  BY <1>1, <1>2, <1>3

\* The steps of the loop.
LEMMA AdmissionSteps ==
  ASSUME NEW now \in [Task -> Status], graph.bytes \in Sizes, running \in SUBSET Task, bytes \in Nat
  PROVE  \E f \in [0..N -> Admissions] :
            /\ f[0] = NothingAdmitted(now) /\ \A k \in 1..N : f[k] = Admit(f[k - 1], k, Ready(now))
            /\ Admission(now) = f[N]
<1> DEFINE P(f) == f = [k \in 0..N |-> IF k = 0 THEN NothingAdmitted(now) ELSE Admit(f[k - 1], k, Ready(now))]
           step == [p \in Admissions \X (1..N) |-> Admit(p[1], p[2], Ready(now))]
<1>1. N \in Nat /\ NothingAdmitted(now) \in Admissions
  BY CountsAssumption DEF NothingAdmitted, Admissions
<1>2. ASSUME NEW v \in Admissions, NEW k \in 1..N PROVE Admit(v, k, Ready(now)) \in Admissions
  BY AdmitSteps DEF Task
<1>3. \A v \in Admissions, k \in 1..N :
         step[<<v, k>>] = Admit(v, k, Ready(now)) /\ step[<<v, k>>] \in Admissions
  BY <1>2
<1> HIDE DEF step
<1>4. PICK f \in [0..N -> Admissions] : Recursive(f, N, NothingAdmitted(now), step)
  BY <1>1, <1>3, Recursion
<1>5. P(f)
  <2>1. \A k \in 0..N : k # 0 => f[k - 1] \in Admissions /\ k \in 1..N
    BY <1>1, <1>4
  <2> QED
    BY <1>3, <1>4, <2>1 DEF Recursive
<1>6. PICK g : P(g) /\ Admission(now) = g[N]
  <2>1. P(CHOOSE g : P(g))
    BY <1>5
  <2>2. Admission(now) = (CHOOSE g : P(g))[N]
    BY DEF Admission
  <2> QED
    BY <2>1, <2>2
<1>7. ASSUME NEW h, P(h)
      PROVE  h[0] = NothingAdmitted(now) /\ \A k \in 1..N : h[k] = Admit(h[k - 1], k, Ready(now))
  <2>1. 0 \in 0..N /\ \A k \in 1..N : k \in 0..N /\ k # 0
    BY <1>1
  <2> QED
    BY <1>7, <2>1
<1>8. g[N] = f[N]
  <2> DEFINE S == {k \in 0..N : g[k] = f[k]}
  <2>1. 0 \in S
    BY <1>1, <1>5, <1>6, <1>7
  <2>2. ASSUME NEW k \in 1..N, k - 1 \in S PROVE k \in S
    <3>1. f[k] = Admit(f[k - 1], k, Ready(now)) /\ g[k] = Admit(g[k - 1], k, Ready(now))
      BY <1>5, <1>6, <1>7
    <3>2. f[k - 1] = g[k - 1] /\ k \in 0..N
      BY <1>1, <2>2
    <3> QED
      BY <3>1, <3>2
  <2> HIDE DEF S
  <2>3. 0..N \subseteq S
    BY <1>1, <2>1, <2>2, BoundedInduction
  <2> QED
    BY <1>1, <2>3 DEF S
<1> QED
  BY <1>5, <1>6, <1>7, <1>8

\* What holds after each step: the reservations are exact, only ready tasks are started or blocked,
\* and a task is passed over for want of room only.
Chosen(now, t, st) ==
  t \in Ready(now) /\ (st = "running" \/ (st = "blocked" /\ graph.bytes[t] > MaxBytes))

Admitting(now, k, a) ==
  /\ a \in Admissions
  /\ Books(a.status, a.running)
  /\ Reserved(a.running, a.bytes)
  /\ \A t \in Task : a.status[t] = now[t] \/ (t <= k /\ Chosen(now, t, a.status[t]))
  /\ a.full => Cardinality(a.running) >= MaxConcurrency
  /\ a.running = {} => \A t \in Ready(now) : t <= k => a.status[t] = "blocked"

\* Each step keeps it.
LEMMA AdmitKeeps ==
  ASSUME NEW now \in [Task -> Status], graph.bytes \in Sizes,
         NEW k \in 1..N, NEW a, Admitting(now, k - 1, a)
  PROVE  Admitting(now, k, Admit(a, k, Ready(now)))
<1> DEFINE r == Admit(a, k, Ready(now))
<1> SUFFICES Admitting(now, k, r)
  OBVIOUS
<1>0. /\ a \in Admissions /\ k \in Task /\ k \in Nat
      /\ MaxConcurrency \in Nat \ {0} /\ MaxBytes \in Nat \ {0}
      /\ a.status \in [Task -> Status] /\ a.running \in SUBSET Task /\ a.bytes \in Nat
      /\ graph.bytes[k] \in Nat
      /\ \A t \in Task : t \in Nat
      /\ Ready(now) \subseteq Task /\ Ready(now) \subseteq Nat
      /\ IsFiniteSet(a.running) /\ Cardinality(a.running) \in Nat
  <2>1. a \in Admissions /\ a.status \in [Task -> Status] /\ a.running \in SUBSET Task /\ a.bytes \in Nat
    BY DEF Admitting, Admissions
  <2>2. IsFiniteSet(a.running) /\ Cardinality(a.running) \in Nat
    BY <2>1, TasksFinite
  <2>3. k \in Task /\ k \in Nat /\ \A t \in Task : t \in Nat
    BY DEF Task
  <2>4. graph.bytes[k] \in Nat
    BY <2>3 DEF Sizes
  <2>5. Ready(now) \subseteq Task
    BY DEF Ready
  <2>6. Ready(now) \subseteq Nat
    BY <2>3, <2>5
  <2> QED
    BY <2>1, <2>2, <2>3, <2>4, <2>5, <2>6, CountsAssumption
<1>1. \A t \in Task : t <= k - 1 => t <= k
  BY DEF Task
<1>2. k \in Ready(now) => a.status[k] = "pending" /\ k \notin a.running
  <2>1. a.status[k] = now[k]
    <3>1. ~(k <= k - 1)
      BY <1>0
    <3> QED
      BY <1>0, <3>1 DEF Admitting
  <2> QED
    BY <2>1 DEF Ready, Admitting, Books
<1>3. CASE r = a /\ (\/ k \notin Ready(now) \/ a.full
                     \/ ~(graph.bytes[k] > MaxBytes) /\ a.bytes + graph.bytes[k] > MaxBytes)
  <2>1. ASSUME a.running = {}, NEW t \in Ready(now), t <= k PROVE a.status[t] = "blocked"
    <3>1. CASE t <= k - 1
      BY <2>1, <3>1 DEF Admitting
    <3>2. CASE t = k /\ a.full
      <4>1. Cardinality(a.running) = 0
        BY <2>1, FS_EmptySet
      <4> QED
        BY <1>0, <3>2, <4>1 DEF Admitting
    <3>3. CASE ~(graph.bytes[k] > MaxBytes) /\ a.bytes + graph.bytes[k] > MaxBytes
      <4>1. a.bytes = 0
        BY <2>1, SumEmpty DEF Admitting, Reserved
      <4> QED
        BY <1>0, <3>3, <4>1
    <3>4. t <= k - 1 \/ t = k
      BY <1>0, <2>1
    <3> HIDE DEF r
    <3> QED
      BY <1>3, <2>1, <3>1, <3>2, <3>3, <3>4
  <2>2. \A t \in Task : a.status[t] = now[t] \/ (t <= k /\ Chosen(now, t, a.status[t]))
    BY <1>1 DEF Admitting
  <2>3. Admitting(now, k, a)
    BY <2>1, <2>2 DEF Admitting
  <2> QED
    BY <1>3, <2>3
<1> HIDE DEF r
<1>4. CASE /\ r \in Admissions /\ r.full /\ Cardinality(a.running) >= MaxConcurrency
           /\ r.status = a.status /\ r.running = a.running /\ r.bytes = a.bytes
  <2>1. r.running # {}
    <3>1. Cardinality({}) = 0
      BY FS_EmptySet
    <3>2. Cardinality(a.running) # 0 /\ r.running = a.running
      BY <1>0, <1>4
    <3> QED
      BY <3>1, <3>2
  <2>2. \A t \in Task : r.status[t] = now[t] \/ (t <= k /\ Chosen(now, t, r.status[t]))
    BY <1>1, <1>4 DEF Admitting
  <2> QED
    BY <1>4, <2>1, <2>2 DEF Admitting
<1>5. CASE /\ r \in Admissions /\ k \in Ready(now) /\ graph.bytes[k] > MaxBytes /\ r.full = a.full
           /\ r.status = [a.status EXCEPT ![k] = "blocked"] /\ r.running = a.running /\ r.bytes = a.bytes
  <2>1. r.status[k] = "blocked" /\ \A t \in Task : t # k => r.status[t] = a.status[t]
    BY <1>0, <1>5
  <2>2. Books(r.status, r.running)
    BY <1>0, <1>2, <1>5, <2>1 DEF Admitting, Books
  <2>3. ASSUME NEW t \in Task PROVE r.status[t] = now[t] \/ (t <= k /\ Chosen(now, t, r.status[t]))
    <3>1. CASE t = k
      BY <1>0, <1>5, <2>1, <3>1 DEF Chosen
    <3>2. CASE t # k
      BY <1>1, <2>1, <3>2 DEF Admitting
    <3> QED
      BY <3>1, <3>2
  <2>4. ASSUME r.running = {}, NEW t \in Ready(now), t <= k PROVE r.status[t] = "blocked"
    <3>1. t = k \/ (t # k /\ t <= k - 1 /\ t \in Task)
      BY <1>0, <2>4
    <3> QED
      BY <1>5, <2>1, <2>4, <3>1 DEF Admitting
  <2> QED
    BY <1>5, <2>2, <2>3, <2>4 DEF Admitting
<1>6. CASE /\ r \in Admissions /\ k \in Ready(now) /\ ~(Cardinality(a.running) >= MaxConcurrency)
           /\ ~(a.bytes + graph.bytes[k] > MaxBytes) /\ r.full = a.full
           /\ r.status = [a.status EXCEPT ![k] = "running"]
           /\ r.running = a.running \cup {k} /\ r.bytes = a.bytes + graph.bytes[k]
  <2>1. r.status[k] = "running" /\ \A t \in Task : t # k => r.status[t] = a.status[t]
    BY <1>0, <1>6
  <2>2. Books(r.status, r.running)
    BY <1>0, <1>6, <2>1 DEF Admitting, Books
  <2>3. ASSUME NEW t \in Task PROVE r.status[t] = now[t] \/ (t <= k /\ Chosen(now, t, r.status[t]))
    <3>1. CASE t = k
      BY <1>0, <1>6, <2>1, <3>1 DEF Chosen
    <3>2. CASE t # k
      BY <1>1, <2>1, <3>2 DEF Admitting
    <3> QED
      BY <3>1, <3>2
  <2>4. Reserved(r.running, r.bytes)
    <3>1. SumOfBytes(graph.bytes, r.running) = SumOfBytes(graph.bytes, a.running) + graph.bytes[k]
      BY <1>0, <1>2, <1>6, SumAdd
    <3>2. Cardinality(r.running) = Cardinality(a.running) + 1
      BY <1>0, <1>2, <1>6, FS_AddElement
    <3>3. a.bytes = SumOfBytes(graph.bytes, a.running)
      BY DEF Admitting, Reserved
    <3> QED
      BY <1>0, <1>6, <3>1, <3>2, <3>3 DEF Reserved
  <2>5. ~r.full
    BY <1>6 DEF Admitting
  <2>6. r.running # {}
    BY <1>6
  <2> QED
    BY <1>6, <2>2, <2>3, <2>4, <2>5, <2>6 DEF Admitting
<1>7. /\ r \in Admissions
      /\ \/ r = a /\ (\/ k \notin Ready(now) \/ a.full
                      \/ ~(graph.bytes[k] > MaxBytes) /\ a.bytes + graph.bytes[k] > MaxBytes)
         \/ /\ r.full /\ Cardinality(a.running) >= MaxConcurrency
            /\ r.status = a.status /\ r.running = a.running /\ r.bytes = a.bytes
         \/ /\ k \in Ready(now) /\ graph.bytes[k] > MaxBytes /\ r.full = a.full
            /\ r.status = [a.status EXCEPT ![k] = "blocked"] /\ r.running = a.running /\ r.bytes = a.bytes
         \/ /\ k \in Ready(now) /\ ~(Cardinality(a.running) >= MaxConcurrency)
            /\ ~(a.bytes + graph.bytes[k] > MaxBytes) /\ r.full = a.full
            /\ r.status = [a.status EXCEPT ![k] = "running"]
            /\ r.running = a.running \cup {k} /\ r.bytes = a.bytes + graph.bytes[k]
  BY <1>0, AdmitSteps DEF r
<1> QED
  BY <1>3, <1>4, <1>5, <1>6, <1>7

\* What the admission loop leaves: the books and the budgets are kept, and with nothing admitted
\* into an idle scheduler every ready task was blocked.
LEMMA AdmissionIs ==
  ASSUME NEW now \in [Task -> Status], graph.bytes \in Sizes,
         running \in SUBSET Task, bytes \in Nat, Books(now, running), Reserved(running, bytes)
  PROVE  Admitting(now, N, Admission(now))
<1>1. PICK f \in [0..N -> Admissions] :
            /\ f[0] = NothingAdmitted(now) /\ \A k \in 1..N : f[k] = Admit(f[k - 1], k, Ready(now))
            /\ Admission(now) = f[N]
  BY AdmissionSteps
<1> DEFINE S == {k \in 0..N : Admitting(now, k, f[k])}
<1>2. 0 \in S
  <2> DEFINE a == NothingAdmitted(now)
  <2>1. a.status = now /\ a.running = running /\ a.bytes = bytes /\ ~a.full
    BY DEF NothingAdmitted
  <2>2. a \in Admissions /\ a = f[0]
    BY <1>1, TasksFinite
  <2> HIDE DEF a
  <2>3. \A t \in Ready(now) : ~(t <= 0)
    BY DEF Ready, Task
  <2>4. Admitting(now, 0, a)
    BY <2>1, <2>2, <2>3 DEF Admitting
  <2> QED
    BY <2>2, <2>4, TasksFinite
<1>3. ASSUME NEW k \in 1..N, k - 1 \in S PROVE k \in S
  <2>1. k \in 0..N /\ Admitting(now, k - 1, f[k - 1]) /\ f[k] = Admit(f[k - 1], k, Ready(now))
    BY <1>1, <1>3, TasksFinite
  <2>2. Admitting(now, k, f[k])
    BY <2>1, AdmitKeeps
  <2> QED
    BY <2>1, <2>2
<1> HIDE DEF S
<1>4. 0..N \subseteq S
  BY <1>2, <1>3, TasksFinite, BoundedInduction
<1> QED
  BY <1>1, <1>4, TasksFinite DEF S

-----------------------------------------------------------------------------
(* The passes keep the order of the tasks and the books. *)

\* Blocking the dependents.
LEMMA MarkKeeps ==
  ASSUME NEW before \in [Task -> Status], WellFormed, NEW run \in SUBSET Task,
         Books(before, run), Ordered(before)
  PROVE  Books(MarkBlocked(before), run) /\ Ordered(MarkBlocked(before))
<1> DEFINE M == MarkBlocked(before)
<1>1. M \in [Task -> Status]
  BY MarkIs
<1>2. \A t \in Task : M[t] = IF before[t] = "pending" /\ \E d \in graph.deps[t] :
                                Passed(before, M, t, d) \in {"failed", "blocked"}
                             THEN "blocked" ELSE before[t]
  BY MarkIs
<1> HIDE DEF M
<1>3. \A t \in Task : before[t] # "pending" => M[t] = before[t]
  BY <1>2
<1>4. \A t \in Task : M[t] # "blocked" => M[t] = before[t]
  BY <1>2
<1>5. \A t \in Task : graph.deps[t] \subseteq Task
  BY DEF WellFormed
<1>6. Books(M, run)
  BY <1>3, <1>4 DEF Books
<1>7. ASSUME NEW t \in Task, M[t] \in {"running", "passed", "failed"}, NEW d \in graph.deps[t]
      PROVE  M[d] = "passed"
  <2>1. before[t] \in {"running", "passed", "failed"} /\ d \in Task
    BY <1>4, <1>5, <1>7
  <2>2. before[d] = "passed"
    BY <1>7, <2>1 DEF Ordered
  <2> QED
    BY <1>3, <2>1, <2>2
<1>8. ASSUME NEW t \in Task, M[t] = "blocked"
      PROVE  graph.bytes[t] > MaxBytes \/ \E d \in graph.deps[t] : M[d] \in {"failed", "blocked"}
  <2>1. CASE before[t] = "blocked"
    <3>1. graph.bytes[t] > MaxBytes \/ \E d \in graph.deps[t] : before[d] \in {"failed", "blocked"}
      BY <2>1 DEF Ordered
    <3>2. \A d \in graph.deps[t] : before[d] \in {"failed", "blocked"} => M[d] = before[d]
      BY <1>3, <1>5
    <3> QED
      BY <3>1, <3>2
  <2>2. CASE before[t] # "blocked"
    <3>1. PICK d \in graph.deps[t] : Passed(before, M, t, d) \in {"failed", "blocked"}
      BY <1>2, <1>8, <2>2
    <3>2. M[d] \in {"failed", "blocked"}
      BY <1>3, <1>5, <3>1 DEF Passed
    <3> QED
      BY <3>2
  <2> QED
    BY <2>1, <2>2
<1>9. Ordered(M)
  BY <1>7, <1>8 DEF Ordered
<1> QED
  BY <1>6, <1>9 DEF M

\* Admission.
LEMMA AdmissionKeeps ==
  ASSUME NEW now \in [Task -> Status], WellFormed, Ordered(now), NEW a, Admitting(now, N, a)
  PROVE  Ordered(a.status)
<1> DEFINE st == a.status
<1>1. \A t \in Task : st[t] = now[t] \/ Chosen(now, t, st[t])
  BY DEF Admitting
<1> HIDE DEF st
<1>2. \A t \in Task : now[t] # "pending" => st[t] = now[t]
  BY <1>1 DEF Chosen, Ready
<1>3. \A t \in Task : graph.deps[t] \subseteq Task
  BY DEF WellFormed
<1>4. ASSUME NEW t \in Task, st[t] \in {"running", "passed", "failed"}, NEW d \in graph.deps[t]
      PROVE  st[d] = "passed"
  <2>1. now[d] = "passed"
    BY <1>1, <1>4 DEF Chosen, Ready, Ordered
  <2> QED
    BY <1>2, <1>3, <2>1
<1>5. ASSUME NEW t \in Task, st[t] = "blocked"
      PROVE  graph.bytes[t] > MaxBytes \/ \E d \in graph.deps[t] : st[d] \in {"failed", "blocked"}
  <2>1. CASE Chosen(now, t, st[t])
    BY <1>5, <2>1 DEF Chosen
  <2>2. CASE st[t] = now[t]
    <3>1. graph.bytes[t] > MaxBytes \/ \E d \in graph.deps[t] : now[d] \in {"failed", "blocked"}
      BY <1>5, <2>2 DEF Ordered
    <3>2. \A d \in graph.deps[t] : now[d] \in {"failed", "blocked"} => st[d] = now[d]
      BY <1>2, <1>3
    <3> QED
      BY <3>1, <3>2
  <2> QED
    BY <1>1, <2>1, <2>2
<1> QED
  BY <1>4, <1>5 DEF Ordered, st

\* What is left pending when nothing could be started: all of it waits for something blocked or
\* pending, and nothing failed or blocked has a smaller id.
LEMMA IdleLeaves ==
  ASSUME NEW now \in [Task -> Status], WellFormed, NEW a, Admitting(now, N, a), a.running = {}
  PROVE  /\ \A t \in Task : MarkBlocked(a.status)[t] # "running"
         /\ GivesUp(MarkBlocked(a.status))
<1> DEFINE st == a.status
           M == MarkBlocked(st)
<1>1. st \in [Task -> Status] /\ \A t \in Task : st[t] # "running"
  BY DEF Admitting, Admissions, Books
<1>2. \A t \in Ready(now) : st[t] = "blocked"
  <2>1. \A t \in Ready(now) : t <= N
    BY TasksFinite DEF Ready, Task
  <2> QED
    BY <2>1 DEF Admitting
<1>3. \A t \in Task : st[t] = now[t] \/ Chosen(now, t, st[t])
  BY DEF Admitting
<1> HIDE DEF st
<1>4. /\ M \in [Task -> Status]
      /\ \A t \in Task : M[t] = IF st[t] = "pending" /\ \E d \in graph.deps[t] :
                                   Passed(st, M, t, d) \in {"failed", "blocked"}
                                THEN "blocked" ELSE st[t]
  BY <1>1, MarkIs
<1> HIDE DEF M
<1>5. \A t \in Task : graph.deps[t] \subseteq Task
  BY DEF WellFormed
<1>6. \A t \in Task : M[t] \in Status /\ M[t] # "running"
  BY <1>1, <1>4
<1>7. ASSUME NEW t \in Task, M[t] = "pending", NEW d \in graph.deps[t]
      PROVE  d < t => M[d] \in {"passed", "pending"}
  <2>1. ~(Passed(st, M, t, d) \in {"failed", "blocked"})
    BY <1>4, <1>7
  <2>2. d < t => ~(M[d] \in {"failed", "blocked"})
    BY <2>1 DEF Passed
  <2> QED
    BY <1>5, <1>6, <2>2 DEF Status, Terminal
<1>8. ASSUME NEW t \in Task, M[t] = "pending", \A d \in graph.deps[t] : M[d] # "blocked" /\ M[d] # "pending"
      PROVE  FALSE
  <2>1. st[t] = "pending" /\ now[t] = "pending"
    BY <1>3, <1>4, <1>8 DEF Chosen
  <2>2. ASSUME NEW d \in graph.deps[t] PROVE now[d] = "passed"
    <3>1. d \in Task /\ M[d] \in {"passed", "failed"}
      BY <1>5, <1>6, <1>8 DEF Status, Terminal
    <3>2. st[d] = M[d]
      BY <1>4, <3>1
    <3>3. Passed(st, M, t, d) = M[d]
      BY <3>2 DEF Passed
    <3>4. M[d] # "failed"
      BY <1>4, <1>8, <3>3
    <3>5. st[d] = "passed"
      BY <3>1, <3>2, <3>4
    <3> QED
      BY <1>3, <3>1, <3>5 DEF Chosen
  <2>3. t \in Ready(now)
    BY <2>1, <2>2 DEF Ready
  <2> QED
    BY <1>2, <2>1, <2>3
<1>9. GivesUp(M)
  BY <1>7, <1>8 DEF GivesUp
<1> QED
  BY <1>6, <1>9 DEF M, st

-----------------------------------------------------------------------------
(* The invariant holds at first and is kept by every step. *)

\* What the type and the check say of the graph.
LEMMA GraphFacts ==
  ASSUME SchedulerTypeOK
  PROVE  /\ graph.deps \in Shape /\ graph.bytes \in Sizes /\ status \in [Task -> Status]
         /\ AcceptsGraph(graph.deps) => WellFormed
<1>1. graph.deps \in Shape /\ graph.bytes \in Sizes
  <2>1. graph \in [deps : [Task -> SUBSET (Task \cup {Unknown})], bytes : [Task -> Nat]]
    BY GraphsAssumption DEF SchedulerTypeOK
  <2> QED
    BY <2>1 DEF Shape, Sizes
<1>2. ASSUME AcceptsGraph(graph.deps) PROVE WellFormed
  <2>1. \A t \in Task : Unknown \notin graph.deps[t] /\ graph.deps[t] \in SUBSET (Task \cup {Unknown})
    BY <1>1, <1>2 DEF AcceptsGraph, Malformed, Shape
  <2>2. \A t \in Task : graph.deps[t] \in SUBSET Task
    BY <2>1
  <2> QED
    BY <1>1, <2>2 DEF WellFormed, Shape
<1>3. status \in [Task -> Status]
  BY DEF SchedulerTypeOK, Status
<1> QED
  BY <1>1, <1>2, <1>3

\* At first.
LEMMA SInitially ==
  ASSUME SchedulerInit
  PROVE  SInv
<1>1. SchedulerTypeOK
  BY DEF SchedulerInit, SchedulerTypeOK
<1>2. /\ loop = "check" /\ running = {} /\ bytes = 0
      /\ \A t \in Task : status[t] = "pending"
  BY DEF SchedulerInit
<1>3. Books(status, running) /\ Ordered(status) /\ Gatekept
  BY <1>2 DEF Books, Ordered, Gatekept
<1>4. Reserved(running, bytes)
  <2>1. SumOfBytes(graph.bytes, {}) = 0
    BY <1>1, GraphFacts, SumEmpty
  <2>2. Cardinality({}) = 0
    BY FS_EmptySet
  <2> QED
    BY <1>2, <2>1, <2>2, CountsAssumption DEF Reserved
<1> QED
  BY <1>1, <1>2, <1>3, <1>4 DEF SInv

\* One pass of the loop.
LEMMA IterateKeeps ==
  ASSUME SInv, Iterate
  PROVE  SInv'
<1> DEFINE now == MarkBlocked(status)
           a == Admission(now)
           last == MarkBlocked(a.status)
<1>1. /\ loop \in {"top", "tick", "race"} /\ AcceptsGraph(graph.deps) /\ WellFormed
      /\ graph.bytes \in Sizes /\ status \in [Task -> Status] /\ running \in SUBSET Task
      /\ bytes \in Nat
  <2>1. loop \in {"top", "tick", "race"} /\ AcceptsGraph(graph.deps)
    BY DEF Iterate, Resumed, SInv, Gatekept
  <2>2. bytes \in Nat
    BY GraphFacts, SumEmpty DEF SInv, Reserved
  <2>3. running \in SUBSET Task
    BY DEF SInv, SchedulerTypeOK
  <2> QED
    BY <2>1, <2>2, <2>3, GraphFacts DEF SInv
<1>2. now \in [Task -> Status] /\ Books(now, running) /\ Ordered(now)
  BY <1>1, MarkIs, MarkKeeps DEF SInv
<1> HIDE DEF now
<1>3. Admitting(now, N, a)
  BY <1>1, <1>2, AdmissionIs DEF SInv
<1>4. Ordered(a.status)
  BY <1>1, <1>2, <1>3, AdmissionKeeps
<1>5. /\ running' = a.running /\ bytes' = a.bytes /\ raced' = a.running /\ graph' = graph
      /\ IF a.running # {}
         THEN status' = a.status /\ loop' \in {"race", "tick"}
         ELSE status' = last /\ loop' \in {"stuck", "top"}
  BY DEF Iterate, now
<1> HIDE DEF a
<1>6. /\ a.status \in [Task -> Status] /\ a.running \in SUBSET Task /\ a.bytes \in Nat
      /\ Books(a.status, a.running) /\ Reserved(a.running, a.bytes)
  BY <1>3 DEF Admitting, Admissions
<1>7. last \in [Task -> Status] /\ Books(last, a.running) /\ Ordered(last)
  BY <1>1, <1>4, <1>6, MarkIs, MarkKeeps
<1>8. a.running = {} => (\A t \in Task : last[t] # "running") /\ GivesUp(last)
  BY <1>1, <1>2, <1>3, IdleLeaves
<1> HIDE DEF last
<1>9. /\ status' \in [Task -> Status] /\ Books(status', a.running) /\ Ordered(status')
      /\ loop' \in {"race", "tick", "stuck", "top"}
      /\ loop' = "stuck" => (\A t \in Task : status'[t] # "running") /\ GivesUp(status')
  BY <1>4, <1>5, <1>6, <1>7, <1>8
<1>10. SchedulerTypeOK'
  <2>1. graph' \in TaskGraphs
    BY <1>5 DEF SInv, SchedulerTypeOK
  <2>2. bytes' \in Int
    BY <1>5, <1>6
  <2> QED
    BY <1>5, <1>6, <1>9, <2>1, <2>2 DEF SchedulerTypeOK, Status, Ended
<1>11. Books(status, running)' /\ Reserved(running, bytes)'
  BY <1>5, <1>6, <1>9 DEF Books, Reserved
<1>12. Ordered(status)'
  BY <1>5, <1>9 DEF Ordered
<1>13. Gatekept'
  BY <1>1, <1>5, <1>9 DEF Gatekept
<1>14. (loop = "stuck" => GivesUp(status))'
  BY <1>5, <1>9 DEF GivesUp
<1> QED
  BY <1>10, <1>11, <1>12, <1>13, <1>14 DEF SInv

\* A promise settles.
LEMMA SettlesKeeps ==
  ASSUME SInv, NEW t \in Task, NEW outcome \in {"passed", "failed"}, WorkerSettles(t, outcome)
  PROVE  SInv'
<1>1. /\ status[t] = "running" /\ status' = [status EXCEPT ![t] = outcome]
      /\ UNCHANGED <<graph, running, bytes, loop, raced>>
  BY DEF WorkerSettles
<1>2. status \in [Task -> Status]
  BY GraphFacts DEF SInv
<1>3. status'[t] = outcome /\ \A u \in Task : u # t => status'[u] = status[u]
  BY <1>1, <1>2
<1>4. loop \notin {"check", "refused", "stuck", "done"}
  BY <1>1 DEF SInv, Gatekept
<1>5. SchedulerTypeOK'
  BY <1>1 DEF SInv, SchedulerTypeOK, Terminal
<1>6. Books(status, running)'
  <2>1. running \in SUBSET Task
    BY DEF SInv, SchedulerTypeOK
  <2> QED
    BY <1>1, <1>3, <2>1 DEF SInv, Books
<1>7. Reserved(running, bytes)'
  BY <1>1 DEF SInv, Reserved
<1>8. Ordered(status)'
  <2>0. WellFormed
    BY <1>4, GraphFacts DEF SInv, Gatekept
  <2>1. \A u \in Task : graph.deps[u] \subseteq Task
    BY <2>0 DEF WellFormed
  <2>2. ASSUME NEW u \in Task, status'[u] \in {"running", "passed", "failed"}, NEW d \in graph.deps[u]
        PROVE  status'[d] = "passed"
    <3>1. status[u] \in {"running", "passed", "failed"}
      BY <1>1, <1>3, <2>2
    <3>2. status[d] = "passed"
      BY <2>2, <3>1 DEF SInv, Ordered
    <3> QED
      BY <1>1, <1>3, <2>1, <3>2
  <2>3. ASSUME NEW u \in Task, status'[u] = "blocked"
        PROVE  graph.bytes[u] > MaxBytes \/ \E d \in graph.deps[u] : status'[d] \in {"failed", "blocked"}
    <3>1. status[u] = "blocked"
      BY <1>3, <2>3
    <3>2. graph.bytes[u] > MaxBytes \/ \E d \in graph.deps[u] : status[d] \in {"failed", "blocked"}
      BY <3>1 DEF SInv, Ordered
    <3>3. \A d \in graph.deps[u] : status[d] \in {"failed", "blocked"} => status'[d] = status[d]
      BY <1>1, <1>3, <2>1
    <3> QED
      BY <3>2, <3>3
  <2> QED
    BY <1>1, <2>2, <2>3 DEF Ordered
<1>9. Gatekept'
  BY <1>1, <1>4 DEF SInv, Gatekept
<1> QED
  BY <1>1, <1>4, <1>5, <1>6, <1>7, <1>8, <1>9 DEF SInv

\* A promise is finalised: exactly its reservation is given back.
LEMMA FinalisingKeeps ==
  ASSUME SInv, NEW t \in Task, Finalise(t)
  PROVE  SInv'
<1>1. /\ t \in running /\ status[t] # "running" /\ running' = running \ {t}
      /\ bytes' = bytes - graph.bytes[t]
      /\ UNCHANGED <<graph, status, loop, raced>>
  BY DEF Finalise
<1>2. running \in SUBSET Task /\ graph.bytes \in Sizes /\ graph.bytes[t] \in Nat /\ bytes \in Int
  <2>1. graph.bytes \in Sizes
    BY GraphFacts DEF SInv
  <2>2. graph.bytes[t] \in Nat
    BY <2>1 DEF Sizes
  <2> QED
    BY <2>1, <2>2 DEF SInv, SchedulerTypeOK
<1>3. SchedulerTypeOK'
  BY <1>1, <1>2 DEF SInv, SchedulerTypeOK
<1>4. Books(status, running)'
  BY <1>1 DEF SInv, Books
<1>5. Reserved(running, bytes)'
  <2> DEFINE rest == running \ {t}
  <2>1. t \notin rest /\ running = rest \cup {t} /\ rest \in SUBSET Task
    BY <1>1, <1>2
  <2> HIDE DEF rest
  <2>2. SumOfBytes(graph.bytes, running) = SumOfBytes(graph.bytes, rest) + graph.bytes[t]
    BY <1>2, <2>1, SumAdd
  <2>3. Cardinality(running) = Cardinality(rest) + 1 /\ Cardinality(rest) \in Nat
    BY <2>1, TasksFinite, FS_AddElement
  <2>4. /\ bytes = SumOfBytes(graph.bytes, running) /\ bytes <= MaxBytes
        /\ Cardinality(running) <= MaxConcurrency
    BY DEF SInv, Reserved
  <2>5. SumOfBytes(graph.bytes, rest) \in Nat
    BY <1>2, SumEmpty
  <2>6. bytes' = SumOfBytes(graph.bytes, rest) /\ bytes' <= MaxBytes
    BY <1>1, <1>2, <2>2, <2>4, <2>5, CountsAssumption
  <2>7. Cardinality(rest) <= MaxConcurrency
    BY <2>3, <2>4, CountsAssumption
  <2>8. running' = rest
    BY <1>1 DEF rest
  <2> QED
    BY <1>1, <2>6, <2>7, <2>8 DEF Reserved
<1>6. Ordered(status)' /\ Gatekept' /\ (loop = "stuck" => GivesUp(status))'
  BY <1>1 DEF SInv, Ordered, Gatekept, GivesUp
<1> QED
  BY <1>3, <1>4, <1>5, <1>6 DEF SInv

\* Every step.
LEMMA SKept ==
  ASSUME SInv, [SchedulerNext]_schedulerVars
  PROVE  SInv'
<1>1. CASE Validate
  <2>1. /\ loop = "check" /\ UNCHANGED <<graph, status, running, bytes, raced>>
        /\ loop' = IF AcceptsGraph(graph.deps) THEN "top" ELSE "refused"
    BY <1>1 DEF Validate
  <2>2. /\ SchedulerTypeOK' /\ Books(status, running)' /\ Reserved(running, bytes)' /\ Ordered(status)'
    BY <2>1 DEF SInv, SchedulerTypeOK, Ended, Books, Reserved, Ordered
  <2>3. Gatekept'
    BY <2>1 DEF SInv, Gatekept
  <2> QED
    BY <2>1, <2>2, <2>3 DEF SInv
<1>2. CASE Finish
  <2>1. /\ loop \in {"top", "tick", "race"} /\ loop' = "done" /\ \A t \in Task : status[t] \in Terminal
        /\ UNCHANGED <<graph, status, running, bytes, raced>>
    BY <1>2 DEF Finish, Resumed
  <2>2. /\ SchedulerTypeOK' /\ Books(status, running)' /\ Reserved(running, bytes)' /\ Ordered(status)'
    BY <2>1 DEF SInv, SchedulerTypeOK, Ended, Books, Reserved, Ordered
  <2>3. Gatekept'
    BY <2>1 DEF SInv, Gatekept, Terminal
  <2> QED
    BY <2>1, <2>2, <2>3 DEF SInv
<1>3. CASE Iterate
  BY <1>3, IterateKeeps
<1>4. ASSUME NEW t \in Task, WorkerSettles(t, "passed") \/ WorkerSettles(t, "failed") PROVE SInv'
  BY <1>4, SettlesKeeps
<1>5. ASSUME NEW t \in Task, Finalise(t) PROVE SInv'
  BY <1>5, FinalisingKeeps
<1>6. CASE UNCHANGED schedulerVars
  BY <1>6 DEF schedulerVars, SInv, SchedulerTypeOK, Books, Reserved, Ordered, Gatekept, GivesUp
<1> QED
  BY <1>1, <1>2, <1>3, <1>4, <1>5, <1>6 DEF SchedulerNext

\* What the invariant implies.
LEMMA SInvImplies ==
  ASSUME SInv
  PROVE  WithinBudget /\ DependenciesFirst /\ GivesUpOnlyOutOfOrder /\ RefusesExactlyBadGraphs
<1>1. WithinBudget
  BY DEF SInv, Reserved, WithinBudget
<1>2. DependenciesFirst
  BY DEF SInv, Ordered, DependenciesFirst
<1>3. GivesUpOnlyOutOfOrder
  BY DEF SInv, GivesUp, GivesUpOnlyOutOfOrder
<1>4. AcceptsGraph(graph.deps) <=> ~((\E t \in Task : Unknown \in graph.deps[t]) \/ Cyclic(graph.deps))
  BY GraphFacts, AcceptsExactly DEF SInv
<1>5. loop # "check" => (loop = "refused" <=> ~AcceptsGraph(graph.deps))
  BY DEF SInv, Gatekept
<1>6. RefusesExactlyBadGraphs
  BY <1>4, <1>5 DEF RefusesExactlyBadGraphs
<1> QED
  BY <1>1, <1>2, <1>3, <1>6

\* The scheduler on its own, with workers that settle whenever they like.
THEOREM SchedulerInductive == SchedulerSpec => []SInv
<1>1. SchedulerInit => SInv
  BY SInitially
<1>2. SInv /\ [SchedulerNext]_schedulerVars => SInv'
  BY SKept
<1> QED
  BY <1>1, <1>2, PTL DEF SchedulerSpec

\* Admission stays inside both budgets, and the account of the reserved bytes is exact.
THEOREM WithinBudgetCorrect == SchedulerSpec => []WithinBudget
<1>1. SInv => WithinBudget
  BY SInvImplies
<1> QED
  BY <1>1, SchedulerInductive, PTL

\* No task is started before all its dependencies passed, and none is blocked without a reason.
THEOREM DependenciesFirstCorrect == SchedulerSpec => []DependenciesFirst
<1>1. SInv => DependenciesFirst
  BY SInvImplies
<1> QED
  BY <1>1, SchedulerInductive, PTL

\* A call gives up only over tasks that wait for something the last pass blocked out of order.
THEOREM GivesUpOnlyOutOfOrderCorrect == SchedulerSpec => []GivesUpOnlyOutOfOrder
<1>1. SInv => GivesUpOnlyOutOfOrder
  BY SInvImplies
<1> QED
  BY <1>1, SchedulerInductive, PTL

\* The queue of assertAcyclic turns away the cyclic and dangling graphs and no other.
THEOREM RefusesExactlyBadGraphsCorrect == SchedulerSpec => []RefusesExactlyBadGraphs
<1>1. SInv => RefusesExactlyBadGraphs
  BY SInvImplies
<1> QED
  BY <1>1, SchedulerInductive, PTL
-----------------------------------------------------------------------------
(* How far a call is from its end.                                         *)

\* The tasks that the result says this of.
Those(what) == {t \in Task : status[t] = what}

Stage == IF loop = "check" THEN 4 ELSE IF loop = "top" THEN 3 ELSE IF loop = "tick" THEN 2
         ELSE IF loop = "race" THEN 1 ELSE 0

\* A bound on the passes of the loop and the settlements of promises that are still to come.
StepsToCome ==
  7 * Cardinality(Those("pending")) + Cardinality(Those("running"))
    + 4 * Cardinality(running) + 3 * Cardinality(raced \ running) + Stage

\* A race has promises, and all of tasks that were started.
RacesPromises ==
  loop = "race" => raced # {} /\ \A t \in raced : status[t] \in {"running", "passed", "failed"}

\* Started by an admission.
Started(now, st) == {t \in Task : now[t] = "pending" /\ st[t] = "running"}

\* What an admission adds: the promises of what it started, and it says so only if a task changed.
Growing(now, a) ==
  /\ a.running = running \cup Started(now, a.status)
  /\ a.admitted => \E t \in Task : now[t] = "pending" /\ a.status[t] # "pending"

\* Each step of the admission loop.
LEMMA AdmitGrows ==
  ASSUME NEW now \in [Task -> Status], graph.bytes \in Sizes,
         NEW k \in 1..N, NEW a, Admitting(now, k - 1, a), Growing(now, a)
  PROVE  Growing(now, Admit(a, k, Ready(now)))
<1> DEFINE r == Admit(a, k, Ready(now))
<1>0. a \in Admissions /\ a.status \in [Task -> Status] /\ k \in Task /\ k \in Nat
  BY DEF Admitting, Admissions, Task
<1>1. k \in Ready(now) => now[k] = "pending" /\ a.status[k] = "pending"
  <2>1. a.status[k] = now[k]
    <3>1. ~(k <= k - 1)
      BY <1>0
    <3> QED
      BY <1>0, <3>1 DEF Admitting
  <2> QED
    BY <2>1 DEF Ready
<1>2. CASE k \notin Ready(now) \/ a.full
  BY <1>2 DEF Admit
<1>3. CASE k \in Ready(now) /\ ~a.full /\ Cardinality(a.running) >= MaxConcurrency
  <2>1. r = [a EXCEPT !.full = TRUE]
    BY <1>3 DEF Admit
  <2> HIDE DEF r
  <2>2. r.status = a.status /\ r.running = a.running /\ r.admitted = a.admitted
    BY <1>0, <2>1 DEF Admissions
  <2> QED
    BY <2>2 DEF Growing, r
<1>4. CASE k \in Ready(now) /\ ~a.full /\ ~(Cardinality(a.running) >= MaxConcurrency)
  <2>1. CASE graph.bytes[k] > MaxBytes
    <3>1. r = Take(a, k, "blocked", a.running, a.bytes)
      BY <1>4, <2>1 DEF Admit
    <3> HIDE DEF r
    <3>2. /\ r.running = a.running /\ r.status[k] = "blocked"
          /\ \A t \in Task : t # k => r.status[t] = a.status[t]
      BY <1>0, <3>1 DEF Take
    <3>3. Started(now, r.status) = Started(now, a.status)
      BY <1>1, <1>4, <3>2 DEF Started
    <3> QED
      BY <1>0, <1>1, <1>4, <3>2, <3>3 DEF Growing, r
  <2>2. CASE ~(graph.bytes[k] > MaxBytes) /\ a.bytes + graph.bytes[k] > MaxBytes
    BY <1>4, <2>2 DEF Admit
  <2>3. CASE ~(graph.bytes[k] > MaxBytes) /\ ~(a.bytes + graph.bytes[k] > MaxBytes)
    <3>1. r = Take(a, k, "running", a.running \cup {k}, a.bytes + graph.bytes[k])
      BY <1>4, <2>3 DEF Admit
    <3> HIDE DEF r
    <3>2. /\ r.running = a.running \cup {k} /\ r.status[k] = "running"
          /\ \A t \in Task : t # k => r.status[t] = a.status[t]
      BY <1>0, <3>1 DEF Take
    <3>3. Started(now, r.status) = Started(now, a.status) \cup {k}
      BY <1>0, <1>1, <1>4, <3>2 DEF Started
    <3> QED
      BY <1>0, <1>1, <1>4, <3>2, <3>3 DEF Growing, r
  <2> QED
    BY <2>1, <2>2, <2>3
<1> QED
  BY <1>2, <1>3, <1>4

\* All of it.
LEMMA AdmissionGrows ==
  ASSUME NEW now \in [Task -> Status], graph.bytes \in Sizes,
         running \in SUBSET Task, bytes \in Nat, Books(now, running), Reserved(running, bytes)
  PROVE  Growing(now, Admission(now))
<1>1. PICK f \in [0..N -> Admissions] :
            /\ f[0] = NothingAdmitted(now) /\ \A k \in 1..N : f[k] = Admit(f[k - 1], k, Ready(now))
            /\ Admission(now) = f[N]
  BY AdmissionSteps
<1> DEFINE S == {k \in 0..N : Admitting(now, k, f[k]) /\ Growing(now, f[k])}
<1>2. 0 \in S
  <2> DEFINE a == NothingAdmitted(now)
  <2>1. a.status = now /\ a.running = running /\ a.bytes = bytes /\ ~a.full /\ ~a.admitted
    BY DEF NothingAdmitted
  <2>2. a \in Admissions /\ a = f[0]
    BY <1>1, TasksFinite
  <2> HIDE DEF a
  <2>3. \A t \in Ready(now) : ~(t <= 0)
    BY DEF Ready, Task
  <2>4. Admitting(now, 0, a)
    BY <2>1, <2>2, <2>3 DEF Admitting
  <2>5. Started(now, now) = {}
    BY DEF Started
  <2>6. Growing(now, a)
    BY <2>1, <2>5 DEF Growing
  <2> QED
    BY <2>2, <2>4, <2>6, TasksFinite
<1>3. ASSUME NEW k \in 1..N, k - 1 \in S PROVE k \in S
  <2>1. /\ k \in 0..N /\ Admitting(now, k - 1, f[k - 1]) /\ Growing(now, f[k - 1])
        /\ f[k] = Admit(f[k - 1], k, Ready(now))
    BY <1>1, <1>3, TasksFinite
  <2>2. Admitting(now, k, f[k]) /\ Growing(now, f[k])
    BY <2>1, AdmitKeeps, AdmitGrows
  <2> QED
    BY <2>1, <2>2
<1> HIDE DEF S
<1>4. 0..N \subseteq S
  BY <1>2, <1>3, TasksFinite, BoundedInduction
<1> QED
  BY <1>1, <1>4, TasksFinite DEF S

\* What a pass of the loop does with the tasks.
LEMMA PassOf ==
  ASSUME SInv, Iterate
  PROVE  \E S \in SUBSET Those("pending") :
           /\ Those("pending")' \subseteq Those("pending") \ S
           /\ Those("running")' = Those("running") \cup S
           /\ running' = running \cup S /\ raced' = running'
           /\ loop' \in {"race", "tick", "stuck", "top"}
           /\ loop' \in {"tick", "top"} => Those("pending")' # Those("pending")
           /\ loop' = "race" => running' # {} /\ \A t \in raced' : status'[t] \in {"running", "passed", "failed"}
<1> DEFINE now == MarkBlocked(status)
           a == Admission(now)
           last == MarkBlocked(a.status)
<1>1. /\ WellFormed /\ graph.bytes \in Sizes /\ status \in [Task -> Status]
      /\ running \in SUBSET Task /\ bytes \in Nat
  <2>1. AcceptsGraph(graph.deps)
    BY DEF Iterate, Resumed, SInv, Gatekept
  <2>2. bytes \in Nat
    BY GraphFacts, SumEmpty DEF SInv, Reserved
  <2> QED
    BY <2>1, <2>2, GraphFacts DEF SInv, SchedulerTypeOK
<1>2. /\ now \in [Task -> Status] /\ Books(now, running)
      /\ \A t \in Task : now[t] = status[t] \/ (status[t] = "pending" /\ now[t] = "blocked")
  BY <1>1, MarkIs, MarkKeeps DEF SInv
<1>3. PICK t \in Task : status[t] \notin Terminal
  BY DEF Iterate
<1>4. /\ running' = a.running /\ raced' = a.running
      /\ IF a.running # {}
         THEN status' = a.status /\ (loop' = "race" \/ (loop' = "tick" /\ a.admitted))
         ELSE /\ status' = last
              /\ IF \E u \in Task : last[u] = "pending" THEN loop' = "stuck" ELSE loop' = "top"
  BY DEF Iterate
<1> HIDE DEF now
<1>5. Admitting(now, N, a) /\ Growing(now, a)
  BY <1>1, <1>2, AdmissionIs, AdmissionGrows DEF SInv
<1> HIDE DEF a
<1>6. /\ a.status \in [Task -> Status] /\ Books(a.status, a.running)
      /\ \A u \in Task : a.status[u] = now[u] \/ (now[u] = "pending" /\ a.status[u] \in {"running", "blocked"})
  BY <1>5 DEF Admitting, Admissions, Chosen, Ready
<1>7. \A u \in Task : last[u] = a.status[u] \/ (a.status[u] = "pending" /\ last[u] = "blocked")
  BY <1>1, <1>6, MarkIs
<1> HIDE DEF last
<1> DEFINE S == Started(now, a.status)
<1>8. S \subseteq Those("pending") /\ running' = running \cup S /\ raced' = running'
  BY <1>2, <1>4, <1>5 DEF Started, Growing, Those
<1>9. CASE a.running # {}
  <2>1. status' = a.status /\ (loop' = "race" \/ (loop' = "tick" /\ a.admitted))
    BY <1>4, <1>9
  <2>2. Those("pending")' \subseteq Those("pending") \ S
    BY <1>2, <1>6, <2>1 DEF Those, Started
  <2>3. Those("running")' = Those("running") \cup S
    <3>1. \A u \in Task : a.status[u] = "running" <=> status[u] = "running" \/ (now[u] = "pending" /\ a.status[u] = "running")
      BY <1>2, <1>6
    <3> QED
      BY <2>1, <3>1 DEF Those, Started
  <2>4. loop' = "tick" => Those("pending")' # Those("pending")
    <3>1. ASSUME a.admitted PROVE \E u \in Task : status[u] = "pending" /\ status'[u] # "pending"
      BY <1>2, <1>5, <2>1, <3>1 DEF Growing
    <3> QED
      BY <2>1, <3>1 DEF Those
  <2>5. \A u \in raced' : status'[u] \in {"running", "passed", "failed"}
    BY <1>4, <1>6, <2>1 DEF Books
  <2> QED
    BY <1>4, <1>8, <1>9, <2>1, <2>2, <2>3, <2>4, <2>5
<1>10. CASE a.running = {}
  <2>1. /\ status' = last /\ running = {} /\ S = {}
        /\ IF \E u \in Task : last[u] = "pending" THEN loop' = "stuck" ELSE loop' = "top"
    BY <1>4, <1>8, <1>10
  <2>2. Those("pending")' \subseteq Those("pending") \ S
    BY <1>2, <1>6, <1>7, <2>1 DEF Those
  <2>3. \A u \in Task : status[u] # "running" /\ last[u] # "running"
    <3>1. \A u \in Task : status[u] # "running" /\ a.status[u] # "running"
      BY <1>6, <1>10, <2>1 DEF SInv, Books
    <3> QED
      BY <1>7, <3>1
  <2>4. Those("running")' = Those("running") \cup S
    BY <2>1, <2>3 DEF Those
  <2>5. loop' = "top" => Those("pending")' # Those("pending")
    <3>1. status[t] = "pending"
      BY <1>1, <1>3, <2>3 DEF Status, Terminal
    <3>2. loop' = "top" => last[t] # "pending"
      BY <2>1
    <3> QED
      BY <2>1, <3>1, <3>2 DEF Those
  <2> QED
    BY <1>8, <2>1, <2>2, <2>4, <2>5
<1> QED
  BY <1>9, <1>10

\* Sizes of sets of tasks.
LEMMA TaskSets ==
  ASSUME NEW P \in SUBSET Task, NEW Q \in SUBSET P, NEW S \in SUBSET (P \ Q), NEW R \in SUBSET Task
  PROVE  /\ Cardinality(Q) + Cardinality(S) <= Cardinality(P)
         /\ Q # P => Cardinality(Q) < Cardinality(P)
         /\ Cardinality(R \cup S) <= Cardinality(R) + Cardinality(S)
<1>1. /\ IsFiniteSet(P) /\ IsFiniteSet(Q) /\ IsFiniteSet(S) /\ IsFiniteSet(R)
      /\ Cardinality(P) \in Nat /\ Cardinality(Q) \in Nat /\ Cardinality(S) \in Nat /\ Cardinality(R) \in Nat
  BY TasksFinite
<1>2. Q \cup S \in SUBSET P /\ Q \cap S = {} /\ R \cap S \in SUBSET Task
  OBVIOUS
<1>3. Cardinality(Q \cup S) = Cardinality(Q) + Cardinality(S)
  <2>1. Cardinality(Q \cup S) = Cardinality(Q) + Cardinality(S) - Cardinality(Q \cap S)
    BY <1>1, FS_Union
  <2>2. Cardinality(Q \cap S) = 0
    BY <1>2, FS_EmptySet
  <2> QED
    BY <1>1, <2>1, <2>2
<1>4. Cardinality(Q \cup S) <= Cardinality(P) /\ Cardinality(Q) <= Cardinality(P)
      /\ (Cardinality(P) = Cardinality(Q) => P = Q)
  BY <1>1, <1>2, FS_Subset
<1>5. Cardinality(R \cup S) = Cardinality(R) + Cardinality(S) - Cardinality(R \cap S)
      /\ Cardinality(R \cap S) \in Nat
  BY <1>1, <1>2, FS_Union, TasksFinite
<1> QED
  BY <1>1, <1>3, <1>4, <1>5

\* The parts of the bound.
LEMMA PartsOf ==
  ASSUME SchedulerTypeOK
  PROVE  /\ Those("pending") \in SUBSET Task /\ Those("running") \in SUBSET Task
         /\ running \in SUBSET Task /\ raced \ running \in SUBSET Task /\ Stage \in 0..4
         /\ \A S \in SUBSET Task : IsFiniteSet(S) /\ Cardinality(S) \in Nat
         /\ StepsToCome \in Nat
<1>1. /\ Those("pending") \in SUBSET Task /\ Those("running") \in SUBSET Task
      /\ running \in SUBSET Task /\ raced \ running \in SUBSET Task /\ Stage \in 0..4
      /\ \A S \in SUBSET Task : IsFiniteSet(S) /\ Cardinality(S) \in Nat
  BY TasksFinite DEF SchedulerTypeOK, Those, Stage
<1>2. /\ Cardinality(Those("pending")) \in Nat /\ Cardinality(Those("running")) \in Nat
      /\ Cardinality(running) \in Nat /\ Cardinality(raced \ running) \in Nat
  BY <1>1
<1> QED
  BY <1>1, <1>2 DEF StepsToCome

\* A pass of the loop.
LEMMA PassNearer ==
  ASSUME SInv, Iterate
  PROVE  StepsToCome' < StepsToCome
<1>0. SchedulerTypeOK /\ SchedulerTypeOK'
  BY IterateKeeps DEF SInv
<1>1. PICK S \in SUBSET Those("pending") :
           /\ Those("pending")' \subseteq Those("pending") \ S
           /\ Those("running")' = Those("running") \cup S
           /\ running' = running \cup S /\ raced' = running'
           /\ loop' \in {"race", "tick", "stuck", "top"}
           /\ loop' \in {"tick", "top"} => Those("pending")' # Those("pending")
  BY PassOf
<1> DEFINE p == Cardinality(Those("pending"))
           p2 == Cardinality(Those("pending")')
           r == Cardinality(Those("running"))
           r2 == Cardinality(Those("running")')
           q == Cardinality(running)
           q2 == Cardinality(running')
           e == Cardinality(raced \ running)
           s == Cardinality(S)
<1>2. /\ p \in Nat /\ p2 \in Nat /\ r \in Nat /\ r2 \in Nat /\ q \in Nat /\ q2 \in Nat /\ e \in Nat /\ s \in Nat
      /\ Those("pending") \in SUBSET Task /\ Those("running") \in SUBSET Task /\ running \in SUBSET Task
  <2>1. Those("pending")' \in SUBSET Task /\ Those("running")' \in SUBSET Task /\ running' \in SUBSET Task
    BY <1>0 DEF Those, SchedulerTypeOK
  <2> QED
    BY <1>0, <1>1, <2>1, PartsOf
<1>3. /\ p2 + s <= p /\ r2 <= r + s /\ q2 <= q + s
      /\ Those("pending")' # Those("pending") => p2 < p
  <2>1. Those("pending")' \in SUBSET Those("pending") /\ S \in SUBSET (Those("pending") \ Those("pending")')
    BY <1>1
  <2> QED
    BY <1>1, <1>2, <2>1, TaskSets
<1>4. raced' \ running' = {} /\ Cardinality({}) = 0
  BY <1>1, FS_EmptySet
<1>5. loop = "race" => e >= 1
  <2>1. loop = "race" => raced \ running # {}
    BY DEF Iterate, Resumed
  <2>2. raced \ running # {} => e # 0
    BY <1>0, PartsOf, FS_EmptySet
  <2> QED
    BY <1>2, <2>1, <2>2
<1>6. StepsToCome = 7 * p + r + 4 * q + 3 * e + Stage
  BY DEF StepsToCome
<1>7. StepsToCome' = 7 * p2 + r2 + 4 * q2 + 3 * 0 + Stage'
  BY <1>4 DEF StepsToCome
<1>8. /\ loop \in {"race", "tick", "top"}
      /\ Stage = IF loop = "top" THEN 3 ELSE IF loop = "tick" THEN 2 ELSE 1
      /\ Stage' = IF loop' = "top" THEN 3 ELSE IF loop' = "tick" THEN 2 ELSE IF loop' = "race" THEN 1 ELSE 0
  BY <1>1 DEF Iterate, Resumed, Stage
<1>9. loop' \in {"tick", "top"} => p2 < p
  BY <1>1, <1>3
<1> HIDE DEF p, p2, r, r2, q, q2, e, s
<1> DEFINE m == 7 * p + r + 4 * q
           m2 == 7 * p2 + r2 + 4 * q2
<1>10. m \in Nat /\ m2 \in Nat /\ StepsToCome = m + 3 * e + Stage /\ StepsToCome' = m2 + Stage'
  <2>1. m \in Nat /\ m2 \in Nat
    BY <1>2
  <2>2. m2 + 3 * 0 + Stage' = m2 + Stage'
    BY <2>1
  <2> QED
    BY <1>6, <1>7, <2>1, <2>2
<1>11. CASE p2 < p
  <2>1. m2 + 2 <= m
    BY <1>2, <1>3, <1>11
  <2>2. Stage' < Stage + 2 + 3 * e /\ Stage \in Nat /\ Stage' \in Nat
    BY <1>2, <1>5, <1>8
  <2> HIDE DEF m, m2
  <2>3. \A i, i2, j, j2, k \in Nat : i2 + 2 <= i /\ j2 < j + 2 + 3 * k => i2 + j2 < i + 3 * k + j
    OBVIOUS
  <2>4. m2 + Stage' < m + 3 * e + Stage
    BY <1>2, <1>10, <2>1, <2>2, <2>3
  <2> QED
    BY <1>10, <2>4
<1>12. CASE ~(p2 < p)
  <2>1. m2 <= m
    BY <1>2, <1>3
  <2>2. Stage' < Stage + 3 * e /\ Stage \in Nat /\ Stage' \in Nat
    BY <1>1, <1>2, <1>5, <1>8, <1>9, <1>12
  <2> HIDE DEF m, m2
  <2>3. \A i, i2, j, j2, k \in Nat : i2 <= i /\ j2 < j + 3 * k => i2 + j2 < i + 3 * k + j
    OBVIOUS
  <2>4. m2 + Stage' < m + 3 * e + Stage
    BY <1>2, <1>10, <2>1, <2>2, <2>3
  <2> QED
    BY <1>10, <2>4
<1> QED
  BY <1>11, <1>12

\* A promise that settles, and one that is finalised.
LEMMA PromisesNearer ==
  ASSUME SInv, NEW t \in Task, WorkerSettles(t, "passed") \/ WorkerSettles(t, "failed") \/ Finalise(t)
  PROVE  StepsToCome' < StepsToCome
<1>0. SchedulerTypeOK
  BY DEF SInv
<1>1. ASSUME NEW outcome \in {"passed", "failed"}, WorkerSettles(t, outcome) PROVE StepsToCome' < StepsToCome
  <2>1. /\ status[t] = "running" /\ status'[t] = outcome /\ \A u \in Task : u # t => status'[u] = status[u]
        /\ UNCHANGED <<running, raced, loop>>
    BY <1>0, <1>1 DEF WorkerSettles, SchedulerTypeOK
  <2>2. Those("pending")' = Those("pending") /\ Those("running")' = Those("running") \ {t} /\ t \in Those("running")
    BY <2>1 DEF Those
  <2>3. Cardinality(Those("running")') = Cardinality(Those("running")) - 1
    BY <1>0, <2>2, PartsOf, FS_RemoveElement
  <2>4. Stage' = Stage
    BY <2>1 DEF Stage
  <2>5. /\ Cardinality(Those("pending")) \in Nat /\ Cardinality(Those("running")) \in Nat
        /\ Cardinality(running) \in Nat /\ Cardinality(raced \ running) \in Nat /\ Stage \in Nat
    BY <1>0, PartsOf
  <2> QED
    BY <2>1, <2>2, <2>3, <2>4, <2>5 DEF StepsToCome
<1>2. CASE Finalise(t)
  <2>1. /\ t \in running /\ running' = running \ {t} /\ UNCHANGED <<status, raced, loop>>
    BY <1>2 DEF Finalise
  <2>2. Those("pending")' = Those("pending") /\ Those("running")' = Those("running") /\ Stage' = Stage
    BY <2>1 DEF Those, Stage
  <2>3. Cardinality(running') = Cardinality(running) - 1
    BY <1>0, <2>1, PartsOf, FS_RemoveElement
  <2>4. Cardinality(raced' \ running') \in Nat /\ Cardinality(raced' \ running') <= Cardinality(raced \ running) + 1
    <3> DEFINE E == raced \ running
    <3>1. IsFiniteSet(E) /\ Cardinality(E) \in Nat
      BY <1>0, PartsOf
    <3>2. raced' \ running' = E \/ raced' \ running' = E \cup {t}
      BY <2>1
    <3> HIDE DEF E
    <3>3. Cardinality(E \cup {t}) \in {Cardinality(E), Cardinality(E) + 1}
      BY <3>1, FS_AddElement
    <3> QED
      BY <3>1, <3>2, <3>3 DEF E
  <2>5. /\ Cardinality(Those("pending")) \in Nat /\ Cardinality(Those("running")) \in Nat
        /\ Cardinality(running) \in Nat /\ Cardinality(raced \ running) \in Nat /\ Stage \in Nat
    BY <1>0, PartsOf
  <2> QED
    BY <2>2, <2>3, <2>4, <2>5 DEF StepsToCome
<1> QED
  BY <1>1, <1>2

\* Every step of a call, the settlement of a promise too, brings it nearer to its end: the loop never
\* turns round for nothing.  A call takes at most 7 * N + 4 steps, whatever the order of the settlements.
THEOREM CallIsBounded ==
  SchedulerSpec => /\ [](StepsToCome \in 0..(7 * N + 4))
                   /\ [][StepsToCome' < StepsToCome]_schedulerVars
<1>1. SchedulerInit => StepsToCome \in 0..(7 * N + 4)
  <2>1. SUFFICES ASSUME SchedulerInit PROVE StepsToCome \in 0..(7 * N + 4)
    OBVIOUS
  <2>2. Those("pending") = Task /\ Those("running") = {} /\ running = {} /\ raced \ running = {} /\ Stage = 4
    BY <2>1 DEF SchedulerInit, Those, Stage
  <2>3. StepsToCome = 7 * N + 0 + 4 * 0 + 3 * 0 + 4
    BY <2>2, TasksFinite, FS_EmptySet DEF StepsToCome
  <2> QED
    BY <2>3, TasksFinite
<1>2. SInv /\ [SchedulerNext]_schedulerVars => [StepsToCome' < StepsToCome]_schedulerVars
  <2>1. SUFFICES ASSUME SInv, SchedulerNext PROVE StepsToCome' < StepsToCome
    OBVIOUS
  <2>2. CASE Validate \/ Finish
    <3>1. /\ UNCHANGED <<status, running, raced>>
          /\ \/ loop = "check" /\ loop' \in {"top", "refused"}
             \/ loop \in {"top", "tick", "race"} /\ loop' = "done"
      BY <2>2 DEF Validate, Finish, Resumed
    <3>2. Stage' < Stage /\ Stage \in Nat /\ Stage' \in Nat
      BY <3>1 DEF Stage
    <3>3. Those("pending")' = Those("pending") /\ Those("running")' = Those("running")
      BY <3>1 DEF Those
    <3>4. /\ Cardinality(Those("pending")) \in Nat /\ Cardinality(Those("running")) \in Nat
          /\ Cardinality(running) \in Nat /\ Cardinality(raced \ running) \in Nat
      BY <2>1, PartsOf DEF SInv
    <3> HIDE DEF Stage
    <3> QED
      BY <3>1, <3>2, <3>3, <3>4 DEF StepsToCome
  <2>3. CASE Iterate
    BY <2>1, <2>3, PassNearer
  <2>4. ASSUME NEW t \in Task, WorkerSettles(t, "passed") \/ WorkerSettles(t, "failed") \/ Finalise(t)
        PROVE  StepsToCome' < StepsToCome
    BY <2>1, <2>4, PromisesNearer
  <2> QED
    BY <2>1, <2>2, <2>3, <2>4 DEF SchedulerNext
<1>3. SInv => StepsToCome \in Nat
  BY PartsOf DEF SInv
<1>4. (StepsToCome \in Nat)' /\ StepsToCome \in 0..(7 * N + 4) /\ [StepsToCome' < StepsToCome]_schedulerVars
        => (StepsToCome \in 0..(7 * N + 4))'
  <2>1. SUFFICES ASSUME StepsToCome' \in Nat, StepsToCome \in 0..(7 * N + 4), StepsToCome' < StepsToCome \/ UNCHANGED schedulerVars
                 PROVE  StepsToCome' \in 0..(7 * N + 4)
    OBVIOUS
  <2>2. UNCHANGED schedulerVars => StepsToCome' = StepsToCome
    BY DEF schedulerVars, StepsToCome, Those, Stage
  <2> QED
    BY <2>1, <2>2, TasksFinite
<1> QED
  BY <1>1, <1>2, <1>3, <1>4, SchedulerInductive, PTL DEF SchedulerSpec

\* Promise.race of nothing would never resolve: when the loop waits, it waits for at least one promise,
\* and for none whose worker was never started.
THEOREM RacesPromisesCorrect == SchedulerSpec => []RacesPromises
<1>1. SchedulerInit => RacesPromises
  BY DEF SchedulerInit, RacesPromises
<1>2. ASSUME SInv, RacesPromises, [SchedulerNext]_schedulerVars PROVE RacesPromises'
  <2>1. CASE Validate \/ Finish
    BY <2>1 DEF Validate, Finish, RacesPromises
  <2>2. CASE Iterate
    BY <1>2, <2>2, PassOf DEF RacesPromises
  <2>3. ASSUME NEW t \in Task, NEW outcome \in {"passed", "failed"}, WorkerSettles(t, outcome) PROVE RacesPromises'
    <3>1. /\ status[t] = "running" /\ status' = [status EXCEPT ![t] = outcome] /\ UNCHANGED <<raced, loop>>
      BY <2>3 DEF WorkerSettles
    <3>2. status \in [Task -> {"pending", "running"} \cup Terminal] /\ raced \in SUBSET Task
      BY <1>2 DEF SInv, SchedulerTypeOK
    <3>3. \A u \in raced : status'[u] = status[u] \/ status'[u] = outcome
      BY <3>1, <3>2
    <3> QED
      BY <1>2, <2>3, <3>1, <3>3 DEF RacesPromises
  <2>4. CASE UNCHANGED <<status, raced, loop>>
    BY <1>2, <2>4 DEF RacesPromises
  <2>5. (\E t \in Task : Finalise(t)) \/ UNCHANGED schedulerVars => UNCHANGED <<status, raced, loop>>
    BY DEF Finalise, schedulerVars
  <2> QED
    BY <1>2, <2>1, <2>2, <2>3, <2>4, <2>5 DEF SchedulerNext
<1>3. SInv /\ RacesPromises /\ [SchedulerNext]_schedulerVars => RacesPromises'
  BY <1>2
<1> QED
  BY <1>1, <1>3, SchedulerInductive, PTL DEF SchedulerSpec
=============================================================================
