----------------------------- MODULE GateStore ------------------------------
(***************************************************************************)
(* The gate store of one scope: .sbf/<scope>.json (the snapshot),          *)
(* .sbf/<scope>.history.jsonl (the log) and the lock directory             *)
(* .sbf/.locks/state.lock that serialises the processes writing them.      *)
(* Every process is one bskel command.  It reads the gate's inputs from    *)
(* the working tree BEFORE it asks for the lock (passNamedGate evaluates   *)
(* gateInputs first), then runs setGate: mkdir, load, change one gate,     *)
(* write a temporary file and rename it, append to the log, rmdir.         *)
(* A process can be killed between any two of these steps; the directory   *)
(* it leaves behind stays until a person removes it.                       *)
(***************************************************************************)
EXTENDS Integers, Sequences, FiniteSets

CONSTANTS
  Proc,       \* bskel processes that may be running
  Gate,       \* gates of the scope
  Token,      \* contents the inputs of a gate may have (their hash)
  Ages,       \* values given to --max-age-minutes; 0 disables the limit
  TTL,        \* [Gate -> Nat] default limit of the gate definition, 0: none
  MaxTime,    \* bound on the clock
  MaxWrites,  \* bound on the number of writes logged, torn or in progress
  NoProc,     \* the lock directory does not exist
  NoRecord,   \* the gate is absent from the snapshot
  NoEvent     \* no write in progress

NoAge == -1   \* the record carries no limit of its own

Status == {"pass", "awaiting_disposition", "revoked"}

Record == [status : Status, token : Token, at : 0..MaxTime,
           forced : BOOLEAN, maxAge : Ages \cup {NoAge}]

ASSUME NoProcAssumption == NoProc \notin Proc
ASSUME NoRecordAssumption == NoRecord \notin Record
ASSUME NoEventAssumption == NoEvent \notin Gate \X Record
ASSUME BoundAssumption ==
  /\ MaxTime \in Nat
  /\ MaxWrites \in Nat
  /\ Ages \subseteq Nat
  /\ TTL \in [Gate -> Nat]

VARIABLES
  \* files shared by all processes
  lock,      \* the process whose mkdir made the lock directory, or NoProc
  snapshot,  \* [Gate -> Record or NoRecord]
  history,   \* the log, a sequence of <<gate, record>>
  \* one per process
  pc,        \* where its setGate stands
  job,       \* the gate and the record it is going to write, or NoEvent
  loaded,    \* the snapshot its callback has read
  \* the environment
  inputs,    \* what the files behind each gate contain now
  now,       \* wall clock
  \* ghost
  torn       \* gates whose latest write will never reach the log

files == <<lock, snapshot, history>>
env == <<inputs, now>>
vars == <<lock, snapshot, history, pc, job, loaded, inputs, now, torn>>

\* Between the successful mkdir and the rmdir.
Critical == {"locked", "loaded", "saved", "done"}
Where == {"idle", "waiting", "dead"} \cup Critical

Snapshot == [Gate -> Record \cup {NoRecord}]

\* loadState of a scope that has no file yet.
EmptySnapshot == [g \in Gate |-> NoRecord]

TypeOK ==
  /\ lock \in Proc \cup {NoProc}
  /\ snapshot \in Snapshot
  /\ history \in Seq(Gate \X Record)
  /\ pc \in [Proc -> Where]
  /\ job \in [Proc -> Gate \X Record \cup {NoEvent}]
  /\ loaded \in [Proc -> Snapshot]
  /\ inputs \in [Gate -> Token]
  /\ now \in 0..MaxTime
  /\ torn \subseteq Gate

Init ==
  /\ lock = NoProc
  /\ snapshot = EmptySnapshot
  /\ history = <<>>
  /\ pc = [p \in Proc |-> "idle"]
  /\ job = [p \in Proc |-> NoEvent]
  /\ loaded = [p \in Proc |-> EmptySnapshot]
  /\ inputs \in [Gate -> Token]
  /\ now = 0
  /\ torn = {}

-----------------------------------------------------------------------------
(* gates.mjs: what a recorded gate is worth now.                           *)

\* The limit on a record's age; 0 means none.  A forced record never takes
\* the limit of the gate's definition.
MaxAge(g, r) ==
  IF r.maxAge # NoAge THEN r.maxAge ELSE IF r.forced THEN 0 ELSE TTL[g]

\* Mutant of Expired: a record from the future counts as old.
ExpiredFuture(g, r) ==
  MaxAge(g, r) > 0 /\ (now - r.at > MaxAge(g, r) \/ r.at - now > MaxAge(g, r))

\* A record from the future (the clock was set back) is fresh.
Expired(g, r) == MaxAge(g, r) > 0 /\ now - r.at > MaxAge(g, r)

\* requireGate: the answer of `bskel gate require`, and of every command that
\* asks for a gate first.
Verdict(g) ==
  LET r == snapshot[g] IN
  IF r = NoRecord THEN "not_run"
  ELSE IF r.status # "pass" THEN r.status
  ELSE IF r.token # inputs[g] \/ Expired(g, r) THEN "stale"
  ELSE "pass"

-----------------------------------------------------------------------------
(* gates.mjs: the four ways to write a gate.  Token and timestamp are taken *)
(* here, before the lock.                                                   *)

Active == {p \in Proc : pc[p] \in {"waiting"} \cup Critical}

\* A command has decided what to write about gate g and calls setGate.
Start(p, g, status, forced, age) ==
  /\ pc[p] = "idle"
  /\ Len(history) + Cardinality(torn) + Cardinality(Active) < MaxWrites
  /\ pc' = [pc EXCEPT ![p] = "waiting"]
  /\ job' = [job EXCEPT ![p] =
       <<g, [status |-> status, token |-> inputs[g], at |-> now,
             forced |-> forced, maxAge |-> age]>>]
  /\ UNCHANGED <<files, loaded, env, torn>>

PassGate(p, g) ==
  \E age \in Ages \cup {NoAge} : Start(p, g, "pass", FALSE, age)

AwaitDispositionGate(p, g) == Start(p, g, "awaiting_disposition", FALSE, NoAge)

ForceGate(p, g) ==
  \E age \in Ages \cup {NoAge} : Start(p, g, "pass", TRUE, age)

\* Mutant of RevokeGate: the name of the event is recorded as the status.
RevokeGateEvent(p, g) == Start(p, g, "revoke", FALSE, NoAge)

RevokeGate(p, g) == Start(p, g, "revoked", FALSE, NoAge)

-----------------------------------------------------------------------------
(* lock.mjs: the directory.                                                *)

\* The command is over; its local variables are gone.
Finish(p) ==
  /\ pc' = [pc EXCEPT ![p] = "idle"]
  /\ job' = [job EXCEPT ![p] = NoEvent]

\* Mutant of TryAcquire: mkdir with recursive: true succeeds on a directory
\* that exists.
TryAcquireRecursive(p) ==
  /\ pc[p] = "waiting"
  /\ lock' = p
  /\ pc' = [pc EXCEPT ![p] = "locked"]
  /\ UNCHANGED <<snapshot, history, job, loaded, env, torn>>

\* mkdir succeeds only if the directory is not there.
TryAcquire(p) ==
  /\ pc[p] = "waiting"
  /\ lock = NoProc
  /\ lock' = p
  /\ pc' = [pc EXCEPT ![p] = "locked"]
  /\ UNCHANGED <<snapshot, history, job, loaded, env, torn>>

\* mkdir failed with EEXIST and the deadline has passed: the command fails.
AcquireTimeout(p) ==
  /\ pc[p] = "waiting"
  /\ lock # NoProc
  /\ Finish(p)
  /\ UNCHANGED <<files, loaded, env, torn>>

\* The finally of withLockSync: rmdir, whatever the callback did.
Release(p) ==
  /\ pc[p] = "done"
  /\ lock' = NoProc
  /\ Finish(p)
  /\ UNCHANGED <<snapshot, history, loaded, env, torn>>

-----------------------------------------------------------------------------
(* state.mjs: setGate under the lock.                                      *)

LoadState(p) ==
  /\ pc[p] = "locked"
  /\ loaded' = [loaded EXCEPT ![p] = snapshot]
  /\ pc' = [pc EXCEPT ![p] = "loaded"]
  /\ UNCHANGED <<files, job, env, torn>>

\* Mutant of SaveState: the lock covers load and save, not the append.
SaveStateUnlock(p) ==
  /\ pc[p] = "loaded"
  /\ snapshot' = [loaded[p] EXCEPT ![job[p][1]] = job[p][2]]
  /\ loaded' = [loaded EXCEPT ![p] = EmptySnapshot]
  /\ pc' = [pc EXCEPT ![p] = "saved"]
  /\ lock' = NoProc
  /\ UNCHANGED <<history, job, env, torn>>

\* The whole snapshot the process read, with its own gate replaced, is
\* written to a temporary file and renamed over the old one.
SaveState(p) ==
  /\ pc[p] = "loaded"
  /\ snapshot' = [loaded[p] EXCEPT ![job[p][1]] = job[p][2]]
  /\ loaded' = [loaded EXCEPT ![p] = EmptySnapshot]
  /\ pc' = [pc EXCEPT ![p] = "saved"]
  /\ UNCHANGED <<lock, history, job, env, torn>>

AppendGateEvent(p) ==
  /\ pc[p] = "saved"
  /\ history' = Append(history, job[p])
  /\ torn' = torn \ {job[p][1]}
  /\ pc' = [pc EXCEPT ![p] = "done"]
  /\ UNCHANGED <<lock, snapshot, job, loaded, env>>

\* Mutant of SetGateThrows: no finally, the exception leaves the lock.
SetGateThrowsNoFinally(p) ==
  /\ pc[p] \in {"locked", "loaded", "saved"}
  /\ torn' = IF pc[p] = "saved" THEN torn \cup {job[p][1]} ELSE torn
  /\ Finish(p)
  /\ loaded' = [loaded EXCEPT ![p] = EmptySnapshot]
  /\ UNCHANGED <<files, env>>

\* An unreadable or schema-invalid file, or a failed write: the callback
\* throws and the finally still runs.  When it is the append that fails the
\* snapshot has already changed.
SetGateThrows(p) ==
  /\ pc[p] \in {"locked", "loaded", "saved"}
  /\ torn' = IF pc[p] = "saved" THEN torn \cup {job[p][1]} ELSE torn
  /\ pc' = [pc EXCEPT ![p] = "done"]
  /\ loaded' = [loaded EXCEPT ![p] = EmptySnapshot]
  /\ UNCHANGED <<files, job, env>>

-----------------------------------------------------------------------------
(* Crashes and the environment.                                            *)

\* The process is killed.  Only inside the critical section does it leave
\* something behind.
Crash(p) ==
  /\ pc[p] \in {"waiting"} \cup Critical
  /\ pc' = [pc EXCEPT ![p] = IF pc[p] = "waiting" THEN "idle" ELSE "dead"]
  /\ torn' = IF pc[p] = "saved" THEN torn \cup {job[p][1]} ELSE torn
  /\ job' = [job EXCEPT ![p] = NoEvent]
  /\ loaded' = [loaded EXCEPT ![p] = EmptySnapshot]
  /\ UNCHANGED <<files, env>>

\* A person follows the timeout message: nothing is running any more, so
\* the directory the crash left is removed.
RemoveStaleLock(p) ==
  /\ pc[p] = "dead"
  /\ lock' = NoProc
  /\ pc' = [pc EXCEPT ![p] = "idle"]
  /\ UNCHANGED <<snapshot, history, job, loaded, env, torn>>

\* Someone edits the files a gate depends on.
Edit(g) ==
  /\ inputs' \in {[inputs EXCEPT ![g] = t] : t \in Token \ {inputs[g]}}
  /\ UNCHANGED <<files, pc, job, loaded, now, torn>>

\* The wall clock moves, sometimes backwards.
Clock ==
  /\ now' \in 0..MaxTime \ {now}
  /\ UNCHANGED <<files, pc, job, loaded, inputs, torn>>

SetGateStep(p) ==
  \/ TryAcquire(p)
  \/ AcquireTimeout(p)
  \/ LoadState(p)
  \/ SaveState(p)
  \/ AppendGateEvent(p)
  \/ SetGateThrows(p)
  \/ Release(p)

Next ==
  \/ \E p \in Proc, g \in Gate :
       \/ PassGate(p, g)
       \/ AwaitDispositionGate(p, g)
       \/ ForceGate(p, g)
       \/ RevokeGate(p, g)
  \/ \E p \in Proc : SetGateStep(p) \/ Crash(p) \/ RemoveStaleLock(p)
  \/ \E g \in Gate : Edit(g)
  \/ Clock

Spec == Init /\ [][Next]_vars

\* A process that is not killed keeps executing, and a person does remove a
\* directory left by a dead process.  Nothing obliges anybody to start a
\* command, to edit a file or to set the clock.
Fairness ==
  \A p \in Proc : WF_vars(SetGateStep(p)) /\ WF_vars(RemoveStaleLock(p))

FairSpec == Spec /\ Fairness

-----------------------------------------------------------------------------
(* Properties.                                                             *)

\* lock.mjs: at most one process is between its mkdir and its rmdir, even
\* when processes die holding the directory and time out waiting for it.
MutualExclusion ==
  \A p, q \in Proc : pc[p] \in Critical /\ pc[q] \in Critical => p = q

\* What makes mutual exclusion and the log work, step by step: a process
\* inside, or one that died inside, is the one whose mkdir made the directory;
\* nobody changed the snapshot since a process that is about to save read it;
\* a process that has saved still finds its own record there.
LockDiscipline ==
  \A p \in Proc :
    /\ pc[p] \in Critical \cup {"dead"} <=> lock = p
    /\ pc[p] \in {"waiting"} \cup Critical => job[p] \in Gate \X Record
    /\ pc[p] = "loaded" => loaded[p] = snapshot
    /\ pc[p] = "saved" => snapshot[job[p][1]] = job[p][2]

\* The record that the latest event about g carries is the one in the
\* snapshot (or neither exists).
Logged(g) ==
  \/ /\ snapshot[g] = NoRecord
     /\ \A i \in 1..Len(history) : history[i][1] # g
  \/ \E i \in 1..Len(history) :
       /\ history[i] = <<g, snapshot[g]>>
       /\ \A j \in (i + 1)..Len(history) : history[j][1] # g

\* state.mjs setGate: no write is lost and none is undone by another process.
\* What the snapshot says of a gate is what the log last said of it, unless
\* the writer is right now between its rename and its append, or was stopped
\* there.
NoLostGateWrite ==
  \A g \in Gate :
    \/ Logged(g)
    \/ g \in torn
    \/ \E p \in Proc : pc[p] = "saved" /\ job[p][1] = g

\* gates.mjs requireGate: a gate becomes "pass" only because somebody wrote a
\* pass for that very gate, or because its input files went back to exactly
\* the content the record was bound to, or because the clock was set back.
\* In particular no write to another gate brings back a revoked or stale one.
PassIsEarned ==
  [][\A g \in Gate :
       Verdict(g) # "pass" /\ Verdict(g)' = "pass" =>
         \/ \E p \in Proc : /\ pc[p] = "loaded" /\ pc'[p] = "saved"
                            /\ job[p][1] = g /\ job[p][2].status = "pass"
         \/ inputs'[g] # inputs[g]
         \/ now' < now]_vars

\* lock.mjs withLockSync: the lock directory never stays for good.  A live
\* holder removes it on every path out of its callback, and a dead one's is
\* removed by hand.
LockComesFree == lock # NoProc ~> lock = NoProc

\* The register view: a write counts from its rename on, and its event is
\* owed until the append.
Owed ==
  IF \E p \in Proc : pc[p] = "saved"
  THEN job[CHOOSE p \in Proc : pc[p] = "saved"]
  ELSE NoEvent

\* The store behaves as one atomic register per gate with an ordered log.
Register == INSTANCE GateRegister
  WITH reg <- snapshot, log <- history, owed <- Owed

RefinesRegister == Register!RSpec
=============================================================================
