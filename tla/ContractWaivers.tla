-------------------------- MODULE ContractWaivers ---------------------------
(***************************************************************************)
(* The contract gate of one feature and the waivers that let it pass:      *)
(* contract emit, contract waive and contract unwaive (bin/bskel.mjs,      *)
(* contracts/completeness.mjs), run by several bskel processes.            *)
(*                                                                         *)
(* waive and unwaive read the contract without a lock, change the waivers  *)
(* and the decision log under the state lock, release it, decide from what *)
(* they have read whether the gate passes, recompute the gate's inputs     *)
(* from the files, and write the gate (one step, see GateStore).  emit     *)
(* writes the contract and reads the waivers without any lock.             *)
(* The clock goes forward; waivers expire.                                 *)
(***************************************************************************)
EXTENDS Integers, FiniteSets

CONSTANTS
  Proc,         \* bskel processes
  Key,          \* names of error warnings: warningKey(code, subject)
  MaxTwins,     \* bound on the warnings of one contract with the same key
  MaxTime,      \* bound on the clock
  MaxCommands,  \* bound on the commands started
  MaxChanges,   \* bound on the re-scans that change what emit finds
  MaxCrashes,   \* bound on the processes killed
  None

Never == MaxTime + 1  \* a waiver without --expires

ASSUME WaiverAssumption ==
  /\ {MaxTwins, MaxTime, MaxCommands, MaxChanges, MaxCrashes} \subseteq Nat
  /\ MaxTwins > 0
  /\ None \notin Proc

\* The nth error warning with this key: buildContract() adds one per endpoint
\* that repeats an operationId, all with the same code and subject.
Warning == [key : Key, nth : 1..MaxTwins]

\* A contract: has it no operation, and its error warnings.  One without
\* operations blocks whatever its errors, and they cannot be waived: none here.
Contract ==
  {c \in [empty : BOOLEAN, errors : SUBSET Warning] :
     /\ c.empty => c.errors = {}
     /\ \A w \in c.errors : w.nth > 1 => [w EXCEPT !.nth = @ - 1] \in c.errors}

\* An entry of the resolution file; one call writes one for each warning that
\* it names, twins included.
Waiver == [key : Key, nth : 1..MaxTwins, expires : 1..Never]
Event == [key : Key, action : {"record", "renew", "withdraw"}, expires : 1..Never]

ASSUME NothingAssumption == None \notin Event

\* What the token of the gate is computed from.
Inputs == Contract \X Contract \X SUBSET Waiver

\* What a command keeps while it runs.
JobRecord == [op : {"emit", "waive", "unwaive"}, contract : Contract,
              named : SUBSET Warning, expires : 1..Never,
              waivers : SUBSET Waiver, events : SUBSET Event,
              blocking : BOOLEAN, token : Inputs \cup {None}]

VARIABLES
  source,    \* the scan report: the contract that emit would build from it
  contract,  \* the contract file
  waivers,   \* the resolution file, as a set of its entries
  log,       \* the decision log: the last event about each key, or None
  gate,      \* status and inputs recorded, or None
  lock,      \* maker of the state lock directory, or None
  pc,        \* where each process stands
  job,       \* what it has read and decided, or None
  now,
  torn,      \* ghost: keys whose last change a crash kept out of the log
  count      \* commands, changes and crashes so far: the bounds

files == <<source, contract, waivers, log, gate>>
vars == <<source, contract, waivers, log, gate, lock, pc, job, now, torn, count>>

\* Inside the lock, or gone without removing its directory.
Inside == {"logging", "crashed", "exited"}

TypeOK ==
  /\ source \in Contract /\ contract \in Contract
  /\ waivers \subseteq Waiver
  /\ log \in [Key -> Event \cup {None}]
  /\ gate = None \/
       (gate.status \in {"pass", "awaiting_disposition"}
        /\ gate.token \in Inputs)
  /\ lock \in Proc \cup {None}
  /\ pc \in [Proc -> {"idle", "planned", "evaluating", "deciding", "gating"} \cup Inside]
  /\ job \in [Proc -> JobRecord \cup {None}]
  /\ now \in 0..MaxTime
  /\ torn \subseteq Key

Init ==
  /\ source \in Contract
  /\ contract = [empty |-> TRUE, errors |-> {}]
  /\ waivers = {}
  /\ log = [k \in Key |-> None]
  /\ gate = None
  /\ lock = None
  /\ pc = [p \in Proc |-> "idle"]
  /\ job = [p \in Proc |-> None]
  /\ now = 0
  /\ torn = {}
  /\ count = [commands |-> 0, changes |-> 0, crashes |-> 0]

-----------------------------------------------------------------------------
(* completeness.mjs                                                        *)

\* isWaiverExpired: at its very instant a waiver is expired.
Expired(w) == w.expires # Never /\ w.expires <= now

Live == {w \in waivers : ~Expired(w)}

KeysOf(ws) == {w.key : w \in ws}

\* evaluateResolution: an expired waiver covers nothing, and no waiver covers
\* a contract without operations.
Blocking(c, ws) ==
  c.empty \/ ~(KeysOf(c.errors) \subseteq KeysOf({w \in ws : ~Expired(w)}))

\* gate-definitions.mjs, contract: what the token is computed from.
GateInputs == <<source, contract, waivers>>

\* requireGate("contract").
Passes == gate # None /\ gate.status = "pass" /\ gate.token = GateInputs

-----------------------------------------------------------------------------
(* The commands.                                                           *)

Goto(p, where) == pc' = [pc EXCEPT ![p] = where]

Job(op, c, named, expires) ==
  [op |-> op, contract |-> c, named |-> named, expires |-> expires,
   waivers |-> {}, events |-> {}, blocking |-> FALSE, token |-> None]

Begin(p, where, j) ==
  /\ pc[p] = "idle"
  /\ count.commands < MaxCommands
  /\ Goto(p, where)
  /\ job' = [job EXCEPT ![p] = j]
  /\ count' = [count EXCEPT !.commands = @ + 1]

\* The verdict is all that a command keeps of what it has read.
Decide(p, c, ws) ==
  /\ job' = [job EXCEPT ![p] = [Job(@.op, c, {}, Never) EXCEPT !.blocking = Blocking(c, ws)]]
  /\ Goto(p, "deciding")

\* cmdContractEmit writes the contract ...
EmitContract(p) ==
  /\ Begin(p, "evaluating", Job("emit", source, {}, Never))
  /\ contract' = source
  /\ UNCHANGED <<source, waivers, log, gate, lock, now, torn>>

\* ... then reads the waivers.
LoadResolution(p) ==
  /\ pc[p] = "evaluating"
  /\ Decide(p, job[p].contract, waivers)
  /\ UNCHANGED <<files, lock, now, torn, count>>

\* cmdContractWaive reads the contract and finds what the person names in it:
\* the first warning of a key or, with --all, every one there is.
Waive(p, named, expires) ==
  /\ ~contract.empty
  /\ named # {}
  /\ \/ named = contract.errors
     \/ \E w \in contract.errors : w.nth = 1 /\ named = {w}
  /\ expires > now
  /\ Begin(p, "planned", Job("waive", contract, named, expires))
  /\ UNCHANGED <<files, lock, now, torn>>

\* cmdContractUnwaive; any key can be named.
Unwaive(p, key) ==
  /\ Begin(p, "planned", Job("unwaive", contract, {[key |-> key, nth |-> 1]}, Never))
  /\ UNCHANGED <<files, lock, now, torn>>

\* The lock is taken, the new waivers are saved; the events are still owed.
Save(p, ws, events) ==
  /\ pc[p] = "planned"
  /\ lock = None
  /\ lock' = p
  /\ waivers' = ws
  /\ job' = [job EXCEPT ![p].waivers = ws, ![p].events = events]
  /\ Goto(p, "logging")
  /\ UNCHANGED <<source, contract, log, gate, now, torn, count>>

\* The entries a waive writes for some warnings, and the events it logs.
Entries(p, ws) == {[key |-> w.key, nth |-> w.nth, expires |-> job[p].expires] : w \in ws}
Told(p, keys, action) == {[key |-> k, action |-> action, expires |-> job[p].expires] : k \in keys}

\* Mutant of SaveWaivers: renewing appends beside the expired entry.
SaveWaiversAppend(p) ==
  LET toRecord == {w \in job[p].named : w.key \notin KeysOf(Live)} IN
  /\ job[p] # None /\ job[p].op = "waive"
  /\ Save(p, waivers \cup Entries(p, toRecord), Told(p, KeysOf(toRecord), "record"))

\* Mutant of SaveWaivers: the entries replace the live ones of the same key.
SaveWaiversReplace(p) ==
  LET keys == KeysOf(job[p].named) IN
  /\ job[p] # None /\ job[p].op = "waive"
  /\ Save(p, {w \in Live : w.key \notin keys} \cup Entries(p, job[p].named),
       Told(p, keys, "record"))

\* cmdContractWaive under the lock: live waivers stay as they are, EVERY
\* expired one goes, and each named warning whose key has no live waiver gets
\* an entry.  The events of twins are the same but for their count.
SaveWaivers(p) ==
  LET toRecord == {w \in job[p].named : w.key \notin KeysOf(Live)}
      renewed == KeysOf(toRecord) \cap KeysOf(waivers \ Live)
  IN
  /\ job[p] # None /\ job[p].op = "waive"
  /\ Save(p, Live \cup Entries(p, toRecord),
       Told(p, KeysOf(toRecord) \ renewed, "record") \cup Told(p, renewed, "renew"))

\* cmdContractUnwaive under the lock: every entry of the key goes, expired or
\* not; the event tells of the one found first.
RemoveWaiver(p) ==
  LET found == {w \in waivers : w.key \in KeysOf(job[p].named)} IN
  /\ job[p] # None /\ job[p].op = "unwaive"
  /\ \E w \in found :
       Save(p, waivers \ found, {[key |-> w.key, action |-> "withdraw", expires |-> w.expires]})

\* No such waiver: fail() calls process.exit() inside the callback, the
\* finally of withLockSync never runs and the directory stays.
ExitInsideLock(p) ==
  /\ pc[p] = "planned" /\ job[p].op = "unwaive"
  /\ lock = None
  /\ KeysOf(waivers) \cap KeysOf(job[p].named) = {}
  /\ lock' = p
  /\ Goto(p, "exited")
  /\ job' = [job EXCEPT ![p] = None]
  /\ UNCHANGED <<files, now, torn, count>>

\* Mutant of AppendDecisionEvent: the events go to the log after the lock.
AppendDecisionEventUnlocked(p, e) ==
  /\ pc[p] = "logging" /\ e \in job[p].events
  /\ log' = [log EXCEPT ![e.key] = e]
  /\ job' = [job EXCEPT ![p].events = @ \ {e}]
  /\ torn' = torn \ {e.key}
  /\ lock' = None
  /\ UNCHANGED <<source, contract, waivers, gate, pc, now, count>>

\* appendDecisionEvent, once per key: repeating it changes no last event.
AppendDecisionEvent(p, e) ==
  /\ pc[p] = "logging" /\ e \in job[p].events
  /\ log' = [log EXCEPT ![e.key] = e]
  /\ job' = [job EXCEPT ![p].events = @ \ {e}]
  /\ torn' = torn \ {e.key}
  /\ UNCHANGED <<source, contract, waivers, gate, lock, pc, now, count>>

\* The lock is released and the verdict taken: on the contract read before the
\* lock and the waivers written under it.
Evaluate(p) ==
  /\ pc[p] = "logging" /\ job[p].events = {}
  /\ lock' = None
  /\ Decide(p, job[p].contract, job[p].waivers)
  /\ UNCHANGED <<files, now, torn, count>>

\* passNamedGate, awaitNamedGateDisposition: the inputs are those of now ...
RecomputeGate(p) ==
  /\ pc[p] = "deciding"
  /\ job' = [job EXCEPT ![p].token = GateInputs]
  /\ Goto(p, "gating")
  /\ UNCHANGED <<files, lock, now, torn, count>>

\* Mutant of SetGate: a status that the state schema does not have.
SetGateAlways(p) ==
  /\ pc[p] = "gating"
  /\ lock = None
  /\ gate' = [status |-> "passed", token |-> job[p].token]
  /\ job' = [job EXCEPT ![p] = None]
  /\ Goto(p, "idle")
  /\ UNCHANGED <<source, contract, waivers, log, lock, now, torn, count>>

\* ... and are recorded with the verdict.
SetGate(p) ==
  /\ pc[p] = "gating"
  /\ lock = None
  /\ gate' = [status |-> IF job[p].blocking THEN "awaiting_disposition" ELSE "pass",
              token |-> job[p].token]
  /\ job' = [job EXCEPT ![p] = None]
  /\ Goto(p, "idle")
  /\ UNCHANGED <<source, contract, waivers, log, lock, now, torn, count>>

\* acquireOrThrow gives up.
LockTimeout(p) ==
  /\ pc[p] \in {"planned", "gating"}
  /\ lock # None
  /\ job' = [job EXCEPT ![p] = None]
  /\ Goto(p, "idle")
  /\ UNCHANGED <<files, lock, now, torn, count>>

-----------------------------------------------------------------------------
(* The environment.                                                        *)

\* The process is killed.
Crash(p) ==
  /\ count.crashes < MaxCrashes
  /\ pc[p] \notin {"idle", "crashed", "exited"}
  /\ Goto(p, IF lock = p THEN "crashed" ELSE "idle")
  /\ torn' = torn \cup (IF job[p].events = {} THEN {} ELSE {e.key : e \in job[p].events})
  /\ job' = [job EXCEPT ![p] = None]
  /\ count' = [count EXCEPT !.crashes = @ + 1]
  /\ UNCHANGED <<files, lock, now>>

\* A person follows the timeout message and removes the directory.
RemoveStaleLock(p) ==
  /\ pc[p] \in {"crashed", "exited"}
  /\ lock' = None
  /\ Goto(p, "idle")
  /\ UNCHANGED <<files, job, now, torn, count>>

\* The code base changes and is scanned: the next emit finds other warnings.
ChangeSource ==
  /\ count.changes < MaxChanges
  /\ source' \in Contract \ {source}
  /\ count' = [count EXCEPT !.changes = @ + 1]
  /\ UNCHANGED <<contract, waivers, log, gate, lock, pc, job, now, torn>>

Tick ==
  /\ now < MaxTime
  /\ now' = now + 1
  /\ UNCHANGED <<files, lock, pc, job, torn, count>>

Step(p) ==
  \/ LoadResolution(p)
  \/ SaveWaivers(p)
  \/ RemoveWaiver(p)
  \/ ExitInsideLock(p)
  \/ (job[p] # None /\ \E e \in job[p].events : AppendDecisionEvent(p, e))
  \/ Evaluate(p)
  \/ RecomputeGate(p)
  \/ SetGate(p)
  \/ LockTimeout(p)

Next ==
  \/ \E p \in Proc :
       \/ EmitContract(p)
       \/ \E named \in SUBSET Warning, expires \in 1..Never : Waive(p, named, expires)
       \/ \E key \in Key : Unwaive(p, key)
       \/ Step(p)
       \/ Crash(p)
       \/ RemoveStaleLock(p)
  \/ ChangeSource
  \/ Tick

Spec == Init /\ [][Next]_vars

-----------------------------------------------------------------------------
(* Properties that hold.                                                   *)

\* D-waiver-renewal: a renewal replaces the expired entries of its key, so that
\* evaluateResolution never counts one warning as waived and as expired.  Twins
\* are entries of the same key that one call wrote, and expire together.
RenewalReplaces == KeysOf(Live) \cap KeysOf(waivers \ Live) = {}

\* waive never changes a waiver that is still live, not even one that another
\* process has just written; only unwaive of that key removes it.
LiveWaiversStay ==
  [][\A w \in Live \ waivers' :
       \E p \in Proc : pc[p] = "planned" /\ job[p].op = "unwaive" /\ w.key \in KeysOf(job[p].named)]_vars

\* The last event about a key says that a live waiver was given.
GrantedByLog(k) == log[k] # None /\ log[k].action # "withdraw" /\ ~Expired(log[k])

\* decision-log.mjs: "the decision write and the log append can never observe
\* each other out of order".  Except while a process holds the lock, or after
\* one died in there, a key has a live waiver exactly when its last event
\* grants one.
LogAgrees ==
  \A k \in Key :
    \/ k \in KeysOf(Live) <=> GrantedByLog(k)
    \/ k \in torn
    \/ \E p \in Proc : pc[p] = "logging" /\ \E e \in job[p].events : e.key = k

-----------------------------------------------------------------------------
(* What the comments and documents say and the code does not do.           *)

\* cmdContractEmit: a partial or blocked contract awaits a human decision,
\* "not a silent pass".  So while the gate passes, the contract on disk has
\* operations and a waiver on disk, expired or not, for each of its errors.
NoSilentPass ==
  Passes => ~contract.empty /\ KeysOf(contract.errors) \subseteq KeysOf(waivers)

\* lock.mjs: a directory that stays means that another process "is stuck or
\* crashed".
LockMeansBusyOrCrashed == \A p \in Proc : lock = p => pc[p] \in {"logging", "crashed"}
=============================================================================
