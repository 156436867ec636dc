-------------------------- MODULE GateStoreProofs ---------------------------
(***************************************************************************)
(* Proofs about GateStore, for any number of processes and gates.          *)
(*                                                                         *)
(* Mutual exclusion alone is not inductive: that a process is inside must  *)
(* be tied to the directory it made (LockDiscipline).  From TypeOK and     *)
(* LockDiscipline together follow mutual exclusion, the agreement of the   *)
(* snapshot with the log, and that the store implements GateRegister.      *)
(***************************************************************************)
EXTENDS GateStore, TLAPS

IInv == TypeOK /\ LockDiscipline

-----------------------------------------------------------------------------
(* Facts about the data.                                                   *)

\* The four ways to write a gate differ only in the record they prepare; each
\* prepares a well-typed one.
LEMMA StartIsTyped ==
  ASSUME TypeOK, NEW p \in Proc, NEW g \in Gate,
         PassGate(p, g) \/ AwaitDispositionGate(p, g)
           \/ ForceGate(p, g) \/ RevokeGate(p, g)
  PROVE  /\ pc[p] = "idle"
         /\ pc' = [pc EXCEPT ![p] = "waiting"]
         /\ \E r \in Record : job' = [job EXCEPT ![p] = <<g, r>>]
         /\ UNCHANGED <<files, loaded, env, torn>>
<1>1. ASSUME NEW s \in Status, NEW f \in BOOLEAN, NEW a \in Ages \cup {NoAge},
             Start(p, g, s, f, a)
      PROVE  /\ pc[p] = "idle"
             /\ pc' = [pc EXCEPT ![p] = "waiting"]
             /\ \E r \in Record : job' = [job EXCEPT ![p] = <<g, r>>]
             /\ UNCHANGED <<files, loaded, env, torn>>
  <2> DEFINE r == [status |-> s, token |-> inputs[g], at |-> now,
                   forced |-> f, maxAge |-> a]
  <2>1. r \in Record
    BY <1>1 DEF TypeOK, Record
  <2>2. job' = [job EXCEPT ![p] = <<g, r>>]
    BY <1>1 DEF Start
  <2> QED
    BY <1>1, <2>1, <2>2 DEF Start
<1>2. CASE PassGate(p, g)
  BY <1>1, <1>2 DEF PassGate, Status
<1>3. CASE AwaitDispositionGate(p, g)
  BY <1>1, <1>3 DEF AwaitDispositionGate, Status
<1>4. CASE ForceGate(p, g)
  BY <1>1, <1>4 DEF ForceGate, Status
<1>5. CASE RevokeGate(p, g)
  BY <1>1, <1>5 DEF RevokeGate, Status
<1> QED
  BY <1>2, <1>3, <1>4, <1>5

\* A scope without a file loads as a well-typed snapshot.
LEMMA EmptySnapshotTyped == EmptySnapshot \in Snapshot
BY DEF EmptySnapshot, Snapshot

\* A record that is not there carries no status, so requireGate answers
\* "pass" exactly when all of its checks succeed.
LEMMA VerdictPass ==
  ASSUME NEW g \in Gate
  PROVE  Verdict(g) = "pass" <=>
           /\ snapshot[g] # NoRecord
           /\ snapshot[g].status = "pass"
           /\ snapshot[g].token = inputs[g]
           /\ ~Expired(g, snapshot[g])
BY DEF Verdict

-----------------------------------------------------------------------------
(* Type correctness and the lock.                                          *)

\* The store starts in an inductive state.
LEMMA InitIInv == Init => IInv
<1> SUFFICES ASSUME Init PROVE IInv
  OBVIOUS
<1>1. TypeOK
  BY BoundAssumption, EmptySnapshotTyped
     DEF Init, TypeOK, Where, Critical, EmptySnapshot, Snapshot
<1>2. LockDiscipline
  BY NoProcAssumption DEF Init, LockDiscipline, Critical
<1> QED
  BY <1>1, <1>2 DEF IInv

\* Every step keeps the types.
LEMMA StepTypeOK == IInv /\ [Next]_vars => TypeOK'
<1> SUFFICES ASSUME TypeOK, LockDiscipline, [Next]_vars PROVE TypeOK'
  BY DEF IInv
<1> USE EmptySnapshotTyped
<1>1. ASSUME NEW p \in Proc, NEW g \in Gate,
             PassGate(p, g) \/ AwaitDispositionGate(p, g)
               \/ ForceGate(p, g) \/ RevokeGate(p, g)
      PROVE  TypeOK'
  BY <1>1, StartIsTyped DEF TypeOK, files, env, Where
<1>2. ASSUME NEW p \in Proc, TryAcquire(p) PROVE TypeOK'
  BY <1>2 DEF TypeOK, TryAcquire, Where, Critical, env
<1>3. ASSUME NEW p \in Proc, AcquireTimeout(p) PROVE TypeOK'
  BY <1>3 DEF TypeOK, AcquireTimeout, Finish, Where, files, env
<1>4. ASSUME NEW p \in Proc, LoadState(p) PROVE TypeOK'
  BY <1>4 DEF TypeOK, LoadState, Where, Critical, files, env
<1>5. ASSUME NEW p \in Proc, SaveState(p) PROVE TypeOK'
  <2>1. job[p] \in Gate \X Record
    BY <1>5 DEF LockDiscipline, SaveState, Critical
  <2>2. job[p][1] \in Gate /\ job[p][2] \in Record
    BY <2>1
  <2>3. snapshot' \in Snapshot
    BY <1>5, <2>2 DEF SaveState, TypeOK, Snapshot
  <2> QED
    BY <1>5, <2>3 DEF TypeOK, SaveState, Where, Critical, env
<1>6. ASSUME NEW p \in Proc, AppendGateEvent(p) PROVE TypeOK'
  <2>1. job[p] \in Gate \X Record
    BY <1>6 DEF LockDiscipline, AppendGateEvent, Critical
  <2> QED
    BY <1>6, <2>1 DEF TypeOK, AppendGateEvent, Where, Critical, env
<1>7. ASSUME NEW p \in Proc, SetGateThrows(p) PROVE TypeOK'
  <2>1. job[p] \in Gate \X Record
    BY <1>7 DEF LockDiscipline, SetGateThrows, Critical
  <2>2. torn' \subseteq Gate
    BY <1>7, <2>1 DEF SetGateThrows, TypeOK
  <2> QED
    BY <1>7, <2>2 DEF TypeOK, SetGateThrows, Where, Critical, files, env
<1>8. ASSUME NEW p \in Proc, Release(p) PROVE TypeOK'
  BY <1>8 DEF TypeOK, Release, Finish, Where, env
<1>9. ASSUME NEW p \in Proc, Crash(p) PROVE TypeOK'
  <2>1. job[p] \in Gate \X Record
    BY <1>9 DEF LockDiscipline, Crash
  <2>2. torn' \subseteq Gate
    BY <1>9, <2>1 DEF Crash, TypeOK
  <2> QED
    BY <1>9, <2>2 DEF TypeOK, Crash, Where, files, env
<1>10. ASSUME NEW p \in Proc, RemoveStaleLock(p) PROVE TypeOK'
  BY <1>10 DEF TypeOK, RemoveStaleLock, Where, env
<1>11. ASSUME NEW g \in Gate, Edit(g) PROVE TypeOK'
  BY <1>11 DEF TypeOK, Edit, files
<1>12. CASE Clock
  BY <1>12 DEF TypeOK, Clock, files
<1>13. CASE UNCHANGED vars
  BY <1>13 DEF TypeOK, vars
<1> QED
  BY <1>1, <1>2, <1>3, <1>4, <1>5, <1>6, <1>7, <1>8, <1>9, <1>10, <1>11,
     <1>12, <1>13 DEF Next, SetGateStep

\* Every step keeps the tie between a process and the directory it made.
LEMMA StepLockDiscipline == IInv /\ [Next]_vars => LockDiscipline'
<1> SUFFICES ASSUME TypeOK, LockDiscipline, [Next]_vars PROVE LockDiscipline'
  BY DEF IInv
<1> USE NoProcAssumption DEF Critical
<1>1. ASSUME NEW p \in Proc, NEW g \in Gate,
             PassGate(p, g) \/ AwaitDispositionGate(p, g)
               \/ ForceGate(p, g) \/ RevokeGate(p, g)
      PROVE  LockDiscipline'
  <2>1. PICK r \in Record : job' = [job EXCEPT ![p] = <<g, r>>]
    BY <1>1, StartIsTyped
  <2>2. /\ pc[p] = "idle" /\ pc' = [pc EXCEPT ![p] = "waiting"]
        /\ UNCHANGED <<lock, snapshot, loaded>>
    BY <1>1, StartIsTyped DEF files
  <2> QED
    BY <2>1, <2>2 DEF LockDiscipline, TypeOK
<1>2. ASSUME NEW p \in Proc, TryAcquire(p) PROVE LockDiscipline'
  BY <1>2 DEF LockDiscipline, TypeOK, TryAcquire
<1>3. ASSUME NEW p \in Proc, AcquireTimeout(p) PROVE LockDiscipline'
  BY <1>3 DEF LockDiscipline, TypeOK, AcquireTimeout, Finish, files
<1>4. ASSUME NEW p \in Proc, LoadState(p) PROVE LockDiscipline'
  BY <1>4 DEF LockDiscipline, TypeOK, LoadState, files
<1>5. ASSUME NEW p \in Proc, SaveState(p) PROVE LockDiscipline'
  <2>1. lock = p /\ job[p] \in Gate \X Record
    BY <1>5 DEF LockDiscipline, SaveState
  <2>2. snapshot'[job[p][1]] = job[p][2]
    BY <1>5, <2>1 DEF SaveState, TypeOK, Snapshot
  <2>3. \A q \in Proc \ {p} : pc[q] \notin Critical
    BY <2>1 DEF LockDiscipline
  <2> QED
    BY <1>5, <2>1, <2>2, <2>3 DEF LockDiscipline, TypeOK, SaveState
<1>6. ASSUME NEW p \in Proc, AppendGateEvent(p) PROVE LockDiscipline'
  BY <1>6 DEF LockDiscipline, TypeOK, AppendGateEvent
<1>7. ASSUME NEW p \in Proc, SetGateThrows(p) PROVE LockDiscipline'
  BY <1>7 DEF LockDiscipline, TypeOK, SetGateThrows, files
<1>8. ASSUME NEW p \in Proc, Release(p) PROVE LockDiscipline'
  BY <1>8 DEF LockDiscipline, TypeOK, Release, Finish
<1>9. ASSUME NEW p \in Proc, Crash(p) PROVE LockDiscipline'
  BY <1>9 DEF LockDiscipline, TypeOK, Crash, files
<1>10. ASSUME NEW p \in Proc, RemoveStaleLock(p) PROVE LockDiscipline'
  BY <1>10 DEF LockDiscipline, TypeOK, RemoveStaleLock
<1>11. ASSUME NEW g \in Gate, Edit(g) PROVE LockDiscipline'
  BY <1>11 DEF LockDiscipline, Edit, files
<1>12. CASE Clock
  BY <1>12 DEF LockDiscipline, Clock, files
<1>13. CASE UNCHANGED vars
  BY <1>13 DEF LockDiscipline, vars
<1> QED
  BY <1>1, <1>2, <1>3, <1>4, <1>5, <1>6, <1>7, <1>8, <1>9, <1>10, <1>11,
     <1>12, <1>13 DEF Next, SetGateStep

\* The inductive invariant holds in every reachable state.
THEOREM Inductive == Spec => []IInv
<1>1. IInv /\ [Next]_vars => IInv'
  BY StepTypeOK, StepLockDiscipline DEF IInv
<1> QED
  BY InitIInv, <1>1, PTL DEF Spec

\* Type correctness: the snapshot always maps every gate of the scope to a
\* record of the schema, and the log holds only such records.
THEOREM TypeCorrect == Spec => []TypeOK
BY Inductive, PTL DEF IInv

\* The lock directory: nobody is inside without it.
THEOREM LockCorrect == Spec => []LockDiscipline
BY Inductive, PTL DEF IInv

\* Two processes inside would both be the maker of one directory.
LEMMA Exclusive == LockDiscipline => MutualExclusion
BY DEF LockDiscipline, MutualExclusion

\* lock.mjs: at most one process at a time is between its mkdir and its
\* rmdir, however many processes share the repository, die or time out.
THEOREM MutexCorrect == Spec => []MutualExclusion
BY Inductive, Exclusive, PTL DEF IInv

-----------------------------------------------------------------------------
(* How long the directory stays.                                           *)

\* A bound on the steps of a process until the directory it made is gone: its own, and the removal
\* by hand if it dies.
HoldLeft(p) ==
  IF pc[p] = "locked" THEN 5 ELSE IF pc[p] = "loaded" THEN 4 ELSE IF pc[p] = "saved" THEN 3
  ELSE IF pc[p] = "done" THEN 2 ELSE IF pc[p] = "dead" THEN 1 ELSE 0

\* The directory is handed on by nobody and taken away by nobody but its maker or, after the maker
\* died, by hand; while it stays, each step of the maker brings its removal nearer.
Held(p) ==
  \/ lock' = NoProc /\ (Release(p) \/ RemoveStaleLock(p))
  \/ /\ lock' = p
     /\ \/ HoldLeft(p)' < HoldLeft(p)
        \/ HoldLeft(p)' = HoldLeft(p) /\ ~(SetGateStep(p) \/ Crash(p) \/ RemoveStaleLock(p))

\* A step of the maker, or of a person for it.
LEMMA OwnStepHeld ==
  ASSUME IInv, NEW p \in Proc, lock = p, SetGateStep(p) \/ Crash(p) \/ RemoveStaleLock(p)
  PROVE  Held(p)
<1>0. pc \in [Proc -> Where] /\ pc[p] \in Critical \cup {"dead"}
  BY DEF IInv, TypeOK, LockDiscipline
<1>1. CASE Release(p) \/ RemoveStaleLock(p)
  BY <1>1 DEF Held, Release, RemoveStaleLock
<1>2. ASSUME NEW place \in Where, pc' = [pc EXCEPT ![p] = place], lock' = lock,
             \/ pc[p] = "locked" /\ place \in {"loaded", "done", "dead"}
             \/ pc[p] = "loaded" /\ place \in {"saved", "done", "dead"}
             \/ pc[p] = "saved" /\ place \in {"done", "dead"}
             \/ pc[p] = "done" /\ place = "dead"
      PROVE  Held(p)
  <2>1. pc'[p] = place
    BY <1>0, <1>2
  <2>2. HoldLeft(p)' < HoldLeft(p)
    BY <1>2, <2>1 DEF HoldLeft
  <2> QED
    BY <1>2, <2>2 DEF Held
<1>3. CASE LoadState(p)
  BY <1>2, <1>3 DEF LoadState, files, Where, Critical
<1>4. CASE SaveState(p)
  BY <1>2, <1>4 DEF SaveState, Where, Critical
<1>5. CASE AppendGateEvent(p)
  BY <1>2, <1>5 DEF AppendGateEvent, Where, Critical
<1>6. CASE SetGateThrows(p)
  BY <1>2, <1>6 DEF SetGateThrows, files, Where, Critical
<1>7. CASE Crash(p)
  BY <1>0, <1>2, <1>7 DEF Crash, files, Where, Critical
<1>8. ~TryAcquire(p) /\ ~AcquireTimeout(p)
  BY <1>0 DEF TryAcquire, AcquireTimeout, Critical
<1> QED
  BY <1>1, <1>3, <1>4, <1>5, <1>6, <1>7, <1>8 DEF SetGateStep

\* A step of another process finds the directory made and leaves it, and its maker, alone.
LEMMA OtherStepHeld ==
  ASSUME IInv, NEW p \in Proc, lock = p, NEW q \in Proc \ {p},
         SetGateStep(q) \/ Crash(q) \/ RemoveStaleLock(q)
  PROVE  lock' = p /\ pc'[p] = pc[p]
<1>0. pc[q] \notin Critical \cup {"dead"} /\ pc \in [Proc -> Where] /\ lock # NoProc
  BY NoProcAssumption DEF IInv, TypeOK, LockDiscipline
<1>1. AcquireTimeout(q) \/ Crash(q)
  BY <1>0 DEF SetGateStep, TryAcquire, LoadState, SaveState, AppendGateEvent, SetGateThrows, Release,
              RemoveStaleLock, Critical
<1>2. lock' = lock /\ \E place : pc' = [pc EXCEPT ![q] = place]
  BY <1>1 DEF AcquireTimeout, Crash, Finish, files
<1> QED
  BY <1>0, <1>2

\* lock.mjs: who holds the directory keeps it for at most five steps of its own and of the person who
\* clears up after it, and no waiting process, timeout or crash elsewhere takes it away or over.
THEOREM HoldsAreCounted == Spec => [][\A p \in Proc : lock = p => Held(p)]_vars
<1>1. ASSUME IInv, Next, NEW p \in Proc, lock = p PROVE Held(p)
  <2>0. pc \in [Proc -> Where] /\ pc[p] \in Critical \cup {"dead"}
    BY <1>1 DEF IInv, TypeOK, LockDiscipline
  <2>1. CASE SetGateStep(p) \/ Crash(p) \/ RemoveStaleLock(p)
    BY <1>1, <2>1, OwnStepHeld
  <2>2. ASSUME lock' = p, pc'[p] = pc[p], ~(SetGateStep(p) \/ Crash(p) \/ RemoveStaleLock(p)) PROVE Held(p)
    <3>1. HoldLeft(p)' = HoldLeft(p)
      BY <2>2 DEF HoldLeft
    <3> QED
      BY <2>2, <3>1 DEF Held
  <2>3. ASSUME NEW q \in Proc \ {p}, SetGateStep(q) \/ Crash(q) \/ RemoveStaleLock(q) PROVE Held(p)
    BY <1>1, <2>1, <2>2, <2>3, OtherStepHeld
  <2>4. ASSUME NEW q \in Proc, NEW g \in Gate,
               PassGate(q, g) \/ AwaitDispositionGate(q, g) \/ ForceGate(q, g) \/ RevokeGate(q, g)
        PROVE  Held(p)
    <3>1. pc[q] = "idle" /\ pc' = [pc EXCEPT ![q] = "waiting"] /\ lock' = lock
      BY <1>1, <2>4, StartIsTyped DEF IInv, files
    <3>2. pc'[p] = pc[p]
      BY <2>0, <3>1 DEF Critical
    <3> QED
      BY <1>1, <2>1, <2>2, <3>1, <3>2
  <2>5. CASE Clock \/ \E g \in Gate : Edit(g)
    BY <1>1, <2>1, <2>2, <2>5 DEF Clock, Edit, files
  <2> QED
    BY <1>1, <2>1, <2>3, <2>4, <2>5 DEF Next
<1>2. IInv /\ [Next]_vars => [\A p \in Proc : lock = p => Held(p)]_vars
  BY <1>1
<1> QED
  BY <1>2, Inductive, PTL DEF Spec

-----------------------------------------------------------------------------
(* The snapshot and the log.                                               *)

\* What NoLostGateWrite says of one gate.
Kept(g) ==
  \/ Logged(g)
  \/ g \in torn
  \/ \E p \in Proc : pc[p] = "saved" /\ job[p][1] = g

\* A gate whose own record and whose log entries did not change stays logged.
LEMMA LoggedStays ==
  ASSUME NEW g \in Gate, snapshot'[g] = snapshot[g],
         UNCHANGED history, Logged(g)
  PROVE  Logged(g)'
BY DEF Logged

\* An event about one gate does not hide the latest event about another, and
\* becomes itself the latest about its own.
LEMMA LoggedAppend ==
  ASSUME TypeOK, NEW g \in Gate, NEW e \in Gate \X Record,
         UNCHANGED snapshot, history' = Append(history, e),
         (e = <<g, snapshot[g]>>) \/ (e[1] # g /\ Logged(g))
  PROVE  Logged(g)'
<1>1. /\ history \in Seq(Gate \X Record)
      /\ Len(history') = Len(history) + 1
      /\ history'[Len(history) + 1] = e
      /\ \A i \in 1..Len(history) : history'[i] = history[i]
  BY DEF TypeOK
<1>2. Len(history) \in Nat
  BY <1>1
<1>3. CASE e = <<g, snapshot[g]>>
  BY <1>1, <1>2, <1>3 DEF Logged
<1>4. CASE e[1] # g /\ Logged(g)
  <2>1. CASE snapshot[g] = NoRecord /\ \A i \in 1..Len(history) : history[i][1] # g
    BY <1>1, <1>2, <1>4, <2>1 DEF Logged
  <2>2. CASE \E i \in 1..Len(history) :
               /\ history[i] = <<g, snapshot[g]>>
               /\ \A j \in (i + 1)..Len(history) : history[j][1] # g
    <3>1. PICK i \in 1..Len(history) :
            /\ history[i] = <<g, snapshot[g]>>
            /\ \A j \in (i + 1)..Len(history) : history[j][1] # g
      BY <2>2
    <3>2. i \in 1..Len(history') /\ history'[i] = <<g, snapshot'[g]>>
      BY <1>1, <1>2, <3>1
    <3>3. ASSUME NEW j \in (i + 1)..Len(history') PROVE history'[j][1] # g
      <4>1. j = Len(history) + 1 \/ j \in (i + 1)..Len(history)
        <5>1. Len(history') = Len(history) + 1
          BY <1>1
        <5> QED
          BY <1>2, <5>1
      <4>2. CASE j = Len(history) + 1
        BY <1>1, <1>4, <4>2
      <4>3. CASE j \in (i + 1)..Len(history)
        <5>1. j \in 1..Len(history)
          BY <1>2, <4>3
        <5> QED
          BY <1>1, <3>1, <4>3, <5>1
      <4> QED
        BY <4>1, <4>2, <4>3
    <3> QED
      BY <3>2, <3>3 DEF Logged
  <2> QED
    BY <1>4, <2>1, <2>2 DEF Logged
<1> QED
  BY <1>3, <1>4

\* A step that touches neither file, takes no process out of "saved" and
\* forgets no torn write keeps what is kept.
LEMMA KeptStays ==
  ASSUME NEW g \in Gate, Kept(g), UNCHANGED <<snapshot, history>>,
         torn \subseteq torn',
         \A q \in Proc : pc[q] = "saved" =>
           (pc'[q] = "saved" /\ job'[q] = job[q]) \/ job[q][1] \in torn'
  PROVE  Kept(g)'
BY LoggedStays DEF Kept

\* Every step keeps every gate's record in agreement with the log.
LEMMA StepKept ==
  ASSUME IInv, [Next]_vars, NEW g \in Gate, Kept(g)
  PROVE  Kept(g)'
<1> USE DEF IInv
<1>1. ASSUME NEW p \in Proc, NEW h \in Gate,
             PassGate(p, h) \/ AwaitDispositionGate(p, h)
               \/ ForceGate(p, h) \/ RevokeGate(p, h)
      PROVE  Kept(g)'
  <2>1. PICK r \in Record : job' = [job EXCEPT ![p] = <<h, r>>]
    BY <1>1, StartIsTyped
  <2>2. /\ pc[p] = "idle" /\ pc' = [pc EXCEPT ![p] = "waiting"]
        /\ UNCHANGED <<snapshot, history, torn>>
    BY <1>1, StartIsTyped DEF files
  <2> QED
    BY <2>1, <2>2, KeptStays DEF TypeOK
<1>2. ASSUME NEW p \in Proc, TryAcquire(p) PROVE Kept(g)'
  BY <1>2, KeptStays DEF TryAcquire, TypeOK
<1>3. ASSUME NEW p \in Proc, AcquireTimeout(p) PROVE Kept(g)'
  BY <1>3, KeptStays DEF AcquireTimeout, Finish, files, TypeOK
<1>4. ASSUME NEW p \in Proc, LoadState(p) PROVE Kept(g)'
  BY <1>4, KeptStays DEF LoadState, files, TypeOK
<1>5. ASSUME NEW p \in Proc, SaveState(p) PROVE Kept(g)'
  <2>1. lock = p /\ job[p] \in Gate \X Record /\ loaded[p] = snapshot
    BY <1>5 DEF LockDiscipline, SaveState, Critical
  <2>2. pc'[p] = "saved" /\ job'[p] = job[p]
    BY <1>5 DEF SaveState, TypeOK
  <2>3. CASE job[p][1] = g
    BY <2>2, <2>3 DEF Kept
  <2>4. CASE job[p][1] # g
    <3>1. snapshot'[g] = snapshot[g]
      BY <1>5, <2>1, <2>4 DEF SaveState, TypeOK, Snapshot
    <3>2. \A q \in Proc : pc[q] # "saved"
      BY <1>5, <2>1 DEF LockDiscipline, SaveState, Critical
    <3>3. Logged(g) \/ g \in torn
      BY <3>2 DEF Kept
    <3> QED
      BY <1>5, <3>1, <3>3, LoggedStays DEF SaveState, Kept
  <2> QED
    BY <2>3, <2>4
<1>6. ASSUME NEW p \in Proc, AppendGateEvent(p) PROVE Kept(g)'
  <2>1. /\ lock = p /\ job[p] \in Gate \X Record
        /\ snapshot[job[p][1]] = job[p][2]
    BY <1>6 DEF LockDiscipline, AppendGateEvent, Critical
  <2>2. \A q \in Proc : pc[q] = "saved" => q = p
    BY <2>1 DEF LockDiscipline, Critical
  <2>3. CASE job[p][1] = g
    <3>1. job[p] = <<g, snapshot[g]>>
      BY <2>1, <2>3
    <3> QED
      BY <1>6, <2>1, <3>1, LoggedAppend DEF AppendGateEvent, Kept
  <2>4. CASE job[p][1] # g
    <3>1. Logged(g) \/ g \in torn
      BY <2>2, <2>4 DEF Kept
    <3>2. CASE Logged(g)
      BY <1>6, <2>1, <2>4, <3>2, LoggedAppend DEF AppendGateEvent, Kept
    <3>3. CASE g \in torn
      BY <1>6, <2>4, <3>3 DEF AppendGateEvent, Kept
    <3> QED
      BY <3>1, <3>2, <3>3
  <2> QED
    BY <2>3, <2>4
<1>7. ASSUME NEW p \in Proc, SetGateThrows(p) PROVE Kept(g)'
  BY <1>7, KeptStays DEF SetGateThrows, files, TypeOK
<1>8. ASSUME NEW p \in Proc, Release(p) PROVE Kept(g)'
  BY <1>8, KeptStays DEF Release, Finish, TypeOK
<1>9. ASSUME NEW p \in Proc, Crash(p) PROVE Kept(g)'
  BY <1>9, KeptStays DEF Crash, files, TypeOK
<1>10. ASSUME NEW p \in Proc, RemoveStaleLock(p) PROVE Kept(g)'
  BY <1>10, KeptStays DEF RemoveStaleLock, TypeOK
<1>11. ASSUME NEW h \in Gate, Edit(h) PROVE Kept(g)'
  BY <1>11, KeptStays DEF Edit, files
<1>12. CASE Clock
  BY <1>12, KeptStays DEF Clock, files
<1>13. CASE UNCHANGED vars
  BY <1>13, KeptStays DEF vars
<1> QED
  BY <1>1, <1>2, <1>3, <1>4, <1>5, <1>6, <1>7, <1>8, <1>9, <1>10, <1>11,
     <1>12, <1>13 DEF Next, SetGateStep

\* state.mjs setGate: no write of a gate is lost, and none is undone by
\* another process; the snapshot says of a gate what the log said last, but
\* for a write in progress or stopped between the two files.
THEOREM NoLostGateWriteCorrect == Spec => []NoLostGateWrite
<1>1. Init => NoLostGateWrite
  BY DEF Init, NoLostGateWrite, Logged, EmptySnapshot
<1>2. IInv /\ NoLostGateWrite /\ [Next]_vars => NoLostGateWrite'
  <2> SUFFICES ASSUME IInv, NoLostGateWrite, [Next]_vars PROVE NoLostGateWrite'
    OBVIOUS
  <2>1. \A g \in Gate : Kept(g)
    BY DEF NoLostGateWrite, Kept
  <2>2. \A g \in Gate : Kept(g)'
    BY <2>1, StepKept
  <2> QED
    BY <2>2 DEF NoLostGateWrite, Kept
<1> QED
  BY <1>1, <1>2, Inductive, PTL DEF Spec

-----------------------------------------------------------------------------
(* A pass is earned.                                                       *)

\* Nothing that a verdict reads has changed.
LEMMA VerdictStays ==
  ASSUME NEW g \in Gate, snapshot'[g] = snapshot[g],
         inputs'[g] = inputs[g], now' = now
  PROVE  Verdict(g)' = Verdict(g)
BY DEF Verdict, Expired, MaxAge

\* As time passes a record only ages.
LEMMA OnlyAges ==
  ASSUME TypeOK, TypeOK', NEW g \in Gate, UNCHANGED <<snapshot, inputs>>,
         now' >= now, Verdict(g)' = "pass"
  PROVE  Verdict(g) = "pass"
<1>1. /\ snapshot[g] # NoRecord
      /\ snapshot[g].status = "pass"
      /\ snapshot[g].token = inputs[g]
      /\ ~Expired(g, snapshot[g])'
  BY DEF Verdict
<1>2. snapshot[g] \in Record
  BY <1>1 DEF TypeOK, Snapshot
<1>3. /\ snapshot[g].at \in Nat
      /\ MaxAge(g, snapshot[g]) \in Int
      /\ now \in Nat /\ now' \in Nat
  <2>1. /\ snapshot[g].at \in 0..MaxTime
        /\ snapshot[g].maxAge \in Ages \cup {NoAge}
    BY <1>2 DEF Record
  <2>2. MaxAge(g, snapshot[g]) \in Int
    <3>1. TTL[g] \in Int
      BY BoundAssumption
    <3>2. snapshot[g].maxAge \in Int
      <4>1. NoAge \in Int
        BY DEF NoAge
      <4>2. \A a \in Ages : a \in Int
        BY BoundAssumption
      <4> QED
        BY <2>1, <4>1, <4>2
    <3> QED
      BY <3>1, <3>2 DEF MaxAge
  <2>3. now \in 0..MaxTime /\ now' \in 0..MaxTime
    BY DEF TypeOK
  <2> QED
    BY <2>1, <2>2, <2>3, BoundAssumption
<1>4. MaxAge(g, snapshot[g])' = MaxAge(g, snapshot[g])
  BY DEF MaxAge
<1>5. ~Expired(g, snapshot[g])
  BY <1>1, <1>3, <1>4 DEF Expired
<1> QED
  BY <1>1, <1>5, VerdictPass

\* What PassIsEarned says of one step and one gate.
Earned(g) ==
  Verdict(g) # "pass" /\ Verdict(g)' = "pass" =>
    \/ \E p \in Proc : /\ pc[p] = "loaded" /\ pc'[p] = "saved"
                       /\ job[p][1] = g /\ job[p][2].status = "pass"
    \/ inputs'[g] # inputs[g]
    \/ now' < now

\* A gate that turns "pass" in a step owes it to one of the three causes: a save
\* changes one gate, all other steps of bskel leave every record alone.
LEMMA StepEarned ==
  ASSUME IInv, IInv', [Next]_vars, NEW g \in Gate
  PROVE  Earned(g)
<1> USE DEF IInv
<1>1. ASSUME NEW p \in Proc, SaveState(p) PROVE Earned(g)
  <2>1. job[p] \in Gate \X Record /\ loaded[p] = snapshot
    BY <1>1 DEF LockDiscipline, SaveState, Critical
  <2>2. UNCHANGED <<inputs, now>> /\ pc[p] = "loaded" /\ pc'[p] = "saved"
    BY <1>1 DEF SaveState, env, TypeOK
  <2>3. CASE job[p][1] # g
    <3>1. snapshot'[g] = snapshot[g]
      BY <1>1, <2>1, <2>3 DEF SaveState, TypeOK, Snapshot
    <3> QED
      BY <2>2, <3>1, VerdictStays DEF Earned
  <2>4. CASE job[p][1] = g
    <3>1. snapshot'[g] = job[p][2] /\ job[p][2] \in Record
      BY <1>1, <2>1, <2>4 DEF SaveState, TypeOK, Snapshot
    <3>2. Verdict(g)' = "pass" => job[p][2].status = "pass"
      BY <3>1, NoRecordAssumption DEF Verdict
    <3> QED
      BY <2>2, <2>4, <3>2 DEF Earned
  <2> QED
    BY <2>3, <2>4
<1>2. ASSUME NEW h \in Gate, Edit(h) PROVE Earned(g)
  <2>1. UNCHANGED <<snapshot, now>>
    BY <1>2 DEF Edit, files
  <2>2. CASE inputs'[g] = inputs[g]
    BY <2>1, <2>2, VerdictStays DEF Earned
  <2>3. CASE inputs'[g] # inputs[g]
    BY <2>3 DEF Earned
  <2> QED
    BY <2>2, <2>3
<1>3. CASE Clock
  <2>1. UNCHANGED <<snapshot, inputs>> /\ now \in Int /\ now' \in Int
    BY <1>3, BoundAssumption DEF Clock, files, TypeOK
  <2>2. CASE now' < now
    BY <2>2 DEF Earned
  <2>3. CASE now' >= now
    BY <2>1, <2>3, OnlyAges DEF Earned
  <2> QED
    BY <2>1, <2>2, <2>3
<1>4. CASE UNCHANGED <<snapshot, inputs, now>>
  BY <1>4, VerdictStays DEF Earned
<1>5. ASSUME NEW p \in Proc, NEW h \in Gate,
             PassGate(p, h) \/ AwaitDispositionGate(p, h)
               \/ ForceGate(p, h) \/ RevokeGate(p, h)
      PROVE  UNCHANGED <<snapshot, inputs, now>>
  BY <1>5, StartIsTyped DEF files, env
<1>6. ASSUME NEW p \in Proc,
             \/ TryAcquire(p) \/ AcquireTimeout(p) \/ LoadState(p)
             \/ AppendGateEvent(p) \/ SetGateThrows(p) \/ Release(p)
             \/ Crash(p) \/ RemoveStaleLock(p)
      PROVE  UNCHANGED <<snapshot, inputs, now>>
  BY <1>6 DEF TryAcquire, AcquireTimeout, LoadState, AppendGateEvent,
              SetGateThrows, Release, Crash, RemoveStaleLock, files, env
<1> QED
  BY <1>1, <1>2, <1>3, <1>4, <1>5, <1>6 DEF Next, SetGateStep, vars

\* gates.mjs requireGate: a gate turns "pass" only by a pass written for that
\* gate, by its own inputs changing back, or by the clock going back.
THEOREM PassIsEarnedCorrect == Spec => PassIsEarned
<1>1. IInv /\ IInv' /\ [Next]_vars => [\A g \in Gate : Earned(g)]_vars
  BY StepEarned
<1>2. [\A g \in Gate : Earned(g)]_vars =>
        [\A g \in Gate :
           Verdict(g) # "pass" /\ Verdict(g)' = "pass" =>
             \/ \E p \in Proc : /\ pc[p] = "loaded" /\ pc'[p] = "saved"
                                /\ job[p][1] = g /\ job[p][2].status = "pass"
             \/ inputs'[g] # inputs[g]
             \/ now' < now]_vars
  BY DEF Earned
<1> QED
  BY <1>1, <1>2, Inductive, PTL DEF Spec, PassIsEarned

-----------------------------------------------------------------------------
(* The store implements one register per gate with an ordered log.         *)

\* Only one process can be between its rename and its append.
LEMMA OwedValue ==
  LockDiscipline =>
    /\ \A p \in Proc : pc[p] = "saved" => Owed = job[p]
    /\ (\A p \in Proc : pc[p] # "saved") => Owed = NoEvent
<1> SUFFICES ASSUME LockDiscipline, NEW p \in Proc, pc[p] = "saved"
             PROVE  Owed = job[p]
  BY DEF Owed
<1>1. \A q \in Proc : pc[q] = "saved" => q = p
  BY DEF LockDiscipline, Critical
<1>2. p = CHOOSE q \in Proc : pc[q] = "saved"
  BY <1>1
<1> QED
  BY <1>2 DEF Owed

\* A step that leaves alone the two files and the process that has saved, if
\* there is one, changes nothing of the abstract register.
LEMMA Stutters ==
  ASSUME UNCHANGED <<snapshot, history>>,
         \A q \in Proc : (pc'[q] = "saved") = (pc[q] = "saved"),
         \A q \in Proc : pc[q] = "saved" => job'[q] = job[q]
  PROVE  UNCHANGED Register!rvars
<1>1. CASE \E p \in Proc : pc[p] = "saved"
  <2>1. (CHOOSE q \in Proc : pc'[q] = "saved") = CHOOSE q \in Proc : pc[q] = "saved"
    OBVIOUS
  <2>2. (CHOOSE q \in Proc : pc[q] = "saved") \in Proc
        /\ pc[CHOOSE q \in Proc : pc[q] = "saved"] = "saved"
    BY <1>1
  <2> QED
    BY <1>1, <2>1, <2>2 DEF Owed, Register!rvars
<1>2. CASE ~ \E p \in Proc : pc[p] = "saved"
  BY <1>2 DEF Owed, Register!rvars
<1> QED
  BY <1>1, <1>2

\* Losing a write to the log: its writer leaves "saved" and nothing else.
LEMMA Loses ==
  ASSUME IInv, IInv', NEW p \in Proc, pc[p] = "saved", pc'[p] # "saved",
         \A q \in Proc \ {p} : pc'[q] = pc[q], UNCHANGED <<snapshot, history>>
  PROVE  Register!RLose
<1>1. /\ Owed = job[p] /\ job[p] \in Gate \X Record
      /\ \A q \in Proc \ {p} : pc[q] # "saved"
  BY OwedValue DEF IInv, LockDiscipline, Critical
<1>2. Owed' = NoEvent
  BY <1>1 DEF Owed
<1> QED
  BY <1>1, <1>2, NoEventAssumption DEF Register!RLose

\* Every step of the store is a step of the register or invisible to it.
LEMMA StepRegister ==
  ASSUME IInv, IInv', [Next]_vars
  PROVE  [Register!RNext]_(Register!rvars)
<1> USE DEF IInv
<1>1. ASSUME NEW p \in Proc, SaveState(p) PROVE Register!RNext
  <2>1. lock = p /\ job[p] \in Gate \X Record /\ loaded[p] = snapshot
    BY <1>1 DEF LockDiscipline, SaveState, Critical
  <2>2. job[p] = <<job[p][1], job[p][2]>> /\ job[p][1] \in Gate /\ job[p][2] \in Record
    BY <2>1
  <2>3. /\ \A q \in Proc : pc[q] # "saved"
        /\ pc'[p] = "saved" /\ \A q \in Proc \ {p} : pc'[q] # "saved"
    BY <1>1, <2>1 DEF LockDiscipline, SaveState, Critical, TypeOK
  <2>4. Owed = NoEvent
    BY <2>3, OwedValue
  <2>5. (CHOOSE q \in Proc : pc'[q] = "saved") = p
    BY <2>3
  <2>6. Owed' = job[p]
    BY <1>1, <2>3, <2>5 DEF Owed, SaveState
  <2>7. snapshot' = [snapshot EXCEPT ![job[p][1]] = job[p][2]] /\ UNCHANGED history
    BY <1>1, <2>1 DEF SaveState
  <2>8. Register!RWrite(job[p][1], job[p][2])
    BY <2>2, <2>4, <2>6, <2>7 DEF Register!RWrite
  <2> QED
    BY <2>2, <2>8 DEF Register!RNext
<1>2. ASSUME NEW p \in Proc, AppendGateEvent(p) PROVE Register!RNext
  <2>1. lock = p /\ job[p] \in Gate \X Record /\ Owed = job[p]
    BY <1>2, OwedValue DEF LockDiscipline, AppendGateEvent, Critical
  <2>2. \A q \in Proc : pc'[q] # "saved"
    BY <1>2, <2>1 DEF LockDiscipline, AppendGateEvent, Critical, TypeOK
  <2>3. Owed' = NoEvent
    BY <2>2 DEF Owed
  <2>4. Register!RLog
    BY <1>2, <2>1, <2>3, NoEventAssumption DEF AppendGateEvent, Register!RLog
  <2> QED
    BY <2>4 DEF Register!RNext
<1>3. ASSUME NEW p \in Proc, SetGateThrows(p) \/ Crash(p), pc[p] = "saved"
      PROVE  Register!RNext
  <2>1. /\ pc'[p] # "saved" /\ UNCHANGED <<snapshot, history>>
        /\ \A q \in Proc \ {p} : pc'[q] = pc[q]
    BY <1>3 DEF SetGateThrows, Crash, files, TypeOK
  <2> QED
    BY <1>3, <2>1, Loses DEF Register!RNext
<1>4. ASSUME NEW p \in Proc, SetGateThrows(p) \/ Crash(p), pc[p] # "saved"
      PROVE  UNCHANGED Register!rvars
  BY <1>4, Stutters DEF SetGateThrows, Crash, files, TypeOK
<1>5. ASSUME NEW p \in Proc, NEW g \in Gate,
             PassGate(p, g) \/ AwaitDispositionGate(p, g)
               \/ ForceGate(p, g) \/ RevokeGate(p, g)
      PROVE  UNCHANGED Register!rvars
  <2>1. PICK r \in Record : job' = [job EXCEPT ![p] = <<g, r>>]
    BY <1>5, StartIsTyped
  <2>2. /\ pc[p] = "idle" /\ pc' = [pc EXCEPT ![p] = "waiting"]
        /\ UNCHANGED <<snapshot, history>>
    BY <1>5, StartIsTyped DEF files
  <2> QED
    BY <2>1, <2>2, Stutters DEF TypeOK
<1>6. ASSUME NEW p \in Proc, TryAcquire(p) PROVE UNCHANGED Register!rvars
  BY <1>6, Stutters DEF TryAcquire, TypeOK
<1>7. ASSUME NEW p \in Proc, AcquireTimeout(p) PROVE UNCHANGED Register!rvars
  BY <1>7, Stutters DEF AcquireTimeout, Finish, files, TypeOK
<1>8. ASSUME NEW p \in Proc, LoadState(p) PROVE UNCHANGED Register!rvars
  BY <1>8, Stutters DEF LoadState, files, TypeOK
<1>9. ASSUME NEW p \in Proc, Release(p) PROVE UNCHANGED Register!rvars
  BY <1>9, Stutters DEF Release, Finish, TypeOK
<1>10. ASSUME NEW p \in Proc, RemoveStaleLock(p) PROVE UNCHANGED Register!rvars
  BY <1>10, Stutters DEF RemoveStaleLock, TypeOK
<1>11. ASSUME NEW g \in Gate, Edit(g) PROVE UNCHANGED Register!rvars
  BY <1>11, Stutters DEF Edit, files
<1>12. CASE Clock
  BY <1>12, Stutters DEF Clock, files
<1>13. CASE UNCHANGED vars
  BY <1>13, Stutters DEF vars
<1> QED
  BY <1>1, <1>2, <1>3, <1>4, <1>5, <1>6, <1>7, <1>8, <1>9, <1>10, <1>11,
     <1>12, <1>13 DEF Next, SetGateStep

\* lib/state.mjs over lib/lock.mjs implements GateRegister: a gate write takes
\* effect at one instant, and the log shows writes in the order they took.
THEOREM Implements == Spec => RefinesRegister
<1>1. Init => Register!RInit
  BY DEF Init, Register!RInit, Owed, EmptySnapshot
<1>2. IInv /\ IInv' /\ [Next]_vars => [Register!RNext]_(Register!rvars)
  BY StepRegister
<1> QED
  BY <1>1, <1>2, Inductive, PTL DEF Spec, RefinesRegister, Register!RSpec
=============================================================================
