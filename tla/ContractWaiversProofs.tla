----------------------- MODULE ContractWaiversProofs ------------------------
(***************************************************************************)
(* Proofs about ContractWaivers, for any number of processes and warnings  *)
(* and any bounds.                                                         *)
(*                                                                         *)
(* That the log agrees with the file NOW is not inductive: the clock moves *)
(* and a waiver that expires must expire in the log as well.  The log and  *)
(* the file agree on the time at which a waiver expires (Agrees), and an   *)
(* event that is still owed tells what the file already says (EventsTrue). *)
(* Nor is it inductive that no warning has a live entry beside an expired  *)
(* one: all its entries have one time of expiry (OneExpiryPerKey).         *)
(***************************************************************************)
EXTENDS ContractWaivers, TLAPS

\* Who stands inside, or died or exited there, made the lock directory.
LockIsHeld == \A p \in Proc : pc[p] \in Inside <=> lock = p

\* A running command has its job, one about to write the gate its token, and an
\* unwaive a single key.
HasJob ==
  \A p \in Proc :
    /\ pc[p] \notin {"idle", "crashed", "exited"} => job[p] \in JobRecord
    /\ pc[p] = "gating" => job[p].token \in Inputs
    /\ pc[p] = "planned" /\ job[p].op = "unwaive" => \E k \in Key : KeysOf(job[p].named) = {k}

\* Entries of one warning expire together.
OneExpiryPerKey == \A v, w \in waivers : v.key = w.key => v.expires = w.expires

\* An event that is owed tells of the waivers as they are: nobody else changes
\* them before it is logged.
EventsTrue ==
  \A p \in Proc : pc[p] = "logging" =>
    \A e \in job[p].events :
      IF e.action = "withdraw" THEN e.key \notin KeysOf(waivers)
      ELSE \E w \in waivers : w.key = e.key /\ w.expires = e.expires

\* An event about the key is owed.
Pending(k) == \E p \in Proc : pc[p] = "logging" /\ \E e \in job[p].events : e.key = k

\* A waiver in the file, expired or not, is the one its last event gave; and
\* what the last event gives is in the file for as long as it is live.
Agrees(k) ==
  /\ \A w \in waivers : w.key = k =>
       log[k] # None /\ log[k].action # "withdraw" /\ log[k].expires = w.expires
  /\ GrantedByLog(k) => k \in KeysOf(waivers)

Agreement == \A k \in Key : k \in torn \/ Pending(k) \/ Agrees(k)

IInv == TypeOK /\ LockIsHeld /\ HasJob /\ OneExpiryPerKey /\ EventsTrue /\ Agreement

-----------------------------------------------------------------------------
(* What most steps leave alone.                                            *)

\* The waivers, the log and the clock stay, nobody comes to owe an event, and
\* who stops owing events has logged them or left them torn.
Quiet ==
  /\ waivers' = waivers /\ log' = log /\ now' = now
  /\ torn \subseteq torn'
  /\ \A q \in Proc : pc'[q] = "logging" => pc[q] = "logging" /\ job'[q] = job[q]
  /\ \A q \in Proc : pc[q] = "logging" =>
       \/ pc'[q] = "logging" /\ job'[q] = job[q]
       \/ \A e \in job[q].events : e.key \in torn'

\* The steps that neither save waivers nor log an event are quiet, but for the
\* clock's.
LEMMA QuietSteps ==
  ASSUME IInv,
         \/ \E p \in Proc :
              \/ EmitContract(p)
              \/ \E named \in SUBSET Warning, expires \in 1..Never : Waive(p, named, expires)
              \/ \E key \in Key : Unwaive(p, key)
              \/ LoadResolution(p) \/ ExitInsideLock(p) \/ Evaluate(p) \/ RecomputeGate(p)
              \/ SetGate(p) \/ LockTimeout(p) \/ Crash(p) \/ RemoveStaleLock(p)
         \/ ChangeSource \/ UNCHANGED vars
  PROVE  Quiet
<1> USE DEF IInv, TypeOK, Goto, files
<1>1. ASSUME NEW p \in Proc,
             \/ EmitContract(p)
             \/ \E named \in SUBSET Warning, expires \in 1..Never : Waive(p, named, expires)
             \/ \E key \in Key : Unwaive(p, key)
      PROVE  Quiet
  BY <1>1 DEF Quiet, EmitContract, Waive, Unwaive, Begin
<1>2. ASSUME NEW p \in Proc, LoadResolution(p) \/ Evaluate(p) PROVE Quiet
  BY <1>2 DEF Quiet, LoadResolution, Evaluate, Decide
<1>3. ASSUME NEW p \in Proc,
             ExitInsideLock(p) \/ RecomputeGate(p) \/ SetGate(p) \/ LockTimeout(p) \/ RemoveStaleLock(p)
      PROVE  Quiet
  BY <1>3 DEF Quiet, ExitInsideLock, RecomputeGate, SetGate, LockTimeout, RemoveStaleLock
<1>4. ASSUME NEW p \in Proc, Crash(p) PROVE Quiet
  BY <1>4 DEF Quiet, Crash
<1>5. CASE ChangeSource \/ UNCHANGED vars
  BY <1>5 DEF Quiet, ChangeSource, vars
<1> QED
  BY <1>1, <1>2, <1>3, <1>4, <1>5

\* Every step is quiet, or of the clock, or changes the waivers or the log.
LEMMA KindsOfStep ==
  ASSUME IInv, Next
  PROVE  \/ Quiet \/ Tick
         \/ \E p \in Proc : SaveWaivers(p) \/ RemoveWaiver(p)
         \/ \E p \in Proc : \E e \in job[p].events : AppendDecisionEvent(p, e)
<1>1. CASE Tick \/ ChangeSource
  BY <1>1, QuietSteps
<1>2. ASSUME NEW p \in Proc, Step(p)
      PROVE  \/ Quiet \/ SaveWaivers(p) \/ RemoveWaiver(p)
             \/ \E e \in job[p].events : AppendDecisionEvent(p, e)
  BY <1>2, QuietSteps DEF Step
<1>3. ASSUME NEW p \in Proc,
             \/ EmitContract(p)
             \/ \E named \in SUBSET Warning, expires \in 1..Never : Waive(p, named, expires)
             \/ \E key \in Key : Unwaive(p, key)
             \/ Crash(p) \/ RemoveStaleLock(p)
      PROVE  Quiet
  BY <1>3, QuietSteps
<1> QED
  BY <1>1, <1>2, <1>3 DEF Next

\* A quiet step keeps file and log as they agreed: what was pending is pending
\* still, or torn.
LEMMA QuietKeeps ==
  ASSUME IInv, Quiet
  PROVE  OneExpiryPerKey' /\ EventsTrue' /\ Agreement'
<1>1. OneExpiryPerKey'
  BY DEF IInv, Quiet, OneExpiryPerKey
<1>2. EventsTrue'
  BY DEF IInv, Quiet, EventsTrue, KeysOf
<1>3. ASSUME NEW k \in Key PROVE (k \in torn \/ Pending(k) \/ Agrees(k))'
  <2>1. CASE k \in torn
    BY <2>1 DEF Quiet
  <2>2. CASE Pending(k)
    BY <2>2 DEF Quiet, Pending
  <2>3. CASE Agrees(k)
    BY <2>3 DEF Quiet, Agrees, GrantedByLog, Expired, KeysOf
  <2> QED
    BY <1>3, <2>1, <2>2, <2>3 DEF IInv, Agreement
<1> QED
  BY <1>1, <1>2, <1>3 DEF Agreement

\* The clock goes on: what the log grants after the tick it granted before.
LEMMA TickKeeps ==
  ASSUME IInv, Tick
  PROVE  OneExpiryPerKey' /\ EventsTrue' /\ Agreement'
<1> USE DEF Tick, files
<1>1. OneExpiryPerKey' /\ EventsTrue'
  BY DEF IInv, OneExpiryPerKey, EventsTrue, KeysOf
<1>2. ASSUME NEW k \in Key PROVE (k \in torn \/ Pending(k) \/ Agrees(k))'
  <2>1. GrantedByLog(k)' => GrantedByLog(k)
    <3>1. log[k] # None => log[k].expires \in Int
      BY WaiverAssumption DEF IInv, TypeOK, Event, Never
    <3> QED
      BY <3>1, WaiverAssumption DEF GrantedByLog, Expired, Never, IInv, TypeOK
  <2>2. Agrees(k) => Agrees(k)'
    BY <2>1 DEF Agrees, KeysOf
  <2> QED
    BY <2>2 DEF IInv, Agreement, Pending
<1> QED
  BY <1>1, <1>2 DEF Agreement

-----------------------------------------------------------------------------
(* Changing the waivers, and logging the change.                           *)

\* The job of a command that has saved, and of one that has decided.
Saved(j, ws, es) == [[j EXCEPT !.waivers = ws] EXCEPT !.events = es]
Decided(op, c, b) == [Job(op, c, {}, Never) EXCEPT !.blocking = b]

\* Saving changes nothing in a job but its waivers and its events.
LEMMA SavedJob ==
  ASSUME NEW j \in JobRecord, NEW ws \in SUBSET Waiver, NEW es \in SUBSET Event
  PROVE  Saved(j, ws, es) \in JobRecord /\ Saved(j, ws, es).events = es
BY DEF JobRecord, Saved

\* Both commands save under the lock, and the events they then owe tell what
\* they did: a waiver of a key they name, and nothing else, comes or goes.
LEMMA SavesAreOwed ==
  ASSUME IInv, NEW p \in Proc, SaveWaivers(p) \/ RemoveWaiver(p)
  PROVE  /\ waivers' \subseteq Waiver
         /\ job[p] \in JobRecord /\ job'[p] \in JobRecord
         /\ lock = None /\ pc[p] = "planned" /\ pc'[p] = "logging"
         /\ UNCHANGED <<log, now, torn>>
         /\ \A q \in Proc \ {p} : pc'[q] = pc[q] /\ job'[q] = job[q]
         /\ OneExpiryPerKey'
         /\ \A e \in job'[p].events :
              IF e.action = "withdraw" THEN e.key \notin KeysOf(waivers')
              ELSE \E w \in waivers' : w.key = e.key /\ w.expires = e.expires
         /\ \A k \in Key :
              \/ \E e \in job'[p].events : e.key = k
              \/ /\ {w \in waivers' : w.key = k} \subseteq waivers
                 /\ {w \in waivers : w.key = k /\ ~Expired(w)} \subseteq waivers'
<1> USE DEF IInv, TypeOK
<1>1. /\ job[p] \in JobRecord
      /\ \A ws, es : Save(p, ws, es) =>
           /\ lock = None /\ pc[p] = "planned" /\ pc'[p] = "logging" /\ waivers' = ws
           /\ job' = [job EXCEPT ![p].waivers = ws, ![p].events = es]
           /\ UNCHANGED <<log, now, torn>>
           /\ \A q \in Proc \ {p} : pc'[q] = pc[q] /\ job'[q] = job[q]
           /\ job'[p] = Saved(job[p], ws, es)
  BY DEF Saved, SaveWaivers, RemoveWaiver, Save, Goto
<1>2. CASE SaveWaivers(p)
  <2> DEFINE toRecord == {w \in job[p].named : w.key \notin KeysOf(Live)}
             keys == KeysOf(toRecord)
             renewed == keys \cap KeysOf(waivers \ Live)
             entries == Entries(p, toRecord)
             events == Told(p, keys \ renewed, "record") \cup Told(p, renewed, "renew")
  <2>1. Save(p, Live \cup entries, events)
    BY <1>2 DEF SaveWaivers
  <2>2. toRecord \subseteq Warning /\ keys \subseteq Key /\ job[p].expires \in 1..Never
    BY <1>1 DEF JobRecord, Warning, KeysOf
  <2>3. entries \subseteq Waiver /\ events \subseteq Event /\ Live \subseteq Waiver
    <3>1. entries \subseteq Waiver
      BY <2>2 DEF Entries, Warning, Waiver
    <3>2. \A k \in keys, a \in {"record", "renew"} :
            [key |-> k, action |-> a, expires |-> job[p].expires] \in Event
      BY <2>2 DEF Event
    <3>3. events \subseteq Event
      BY <3>2 DEF Told
    <3> QED
      BY <3>1, <3>3 DEF Live
  <2>4. waivers' = Live \cup entries /\ job'[p] \in JobRecord /\ job'[p].events = events
    <3> HIDE DEF entries, events
    <3>1. /\ waivers' = Live \cup entries
          /\ job'[p] = Saved(job[p], Live \cup entries, events)
      BY <1>1, <2>1
    <3>2. Live \cup entries \in SUBSET Waiver /\ events \in SUBSET Event
      BY <2>3
    <3> QED
      BY <1>1, <3>1, <3>2, SavedJob
  <2>5. /\ \A w \in entries : w.key \in keys /\ w.expires = job[p].expires
        /\ \A k \in keys : k \notin KeysOf(Live) /\ \E w \in entries : w.key = k
        /\ \A e \in events : e.key \in keys /\ e.expires = job[p].expires /\ e.action # "withdraw"
        /\ \A k \in keys : \E e \in events : e.key = k
    <3>1. \A w \in entries : w.key \in keys /\ w.expires = job[p].expires
      BY DEF Entries, KeysOf
    <3>2. ASSUME NEW k \in keys PROVE k \notin KeysOf(Live) /\ \E w \in entries : w.key = k
      <4>1. PICK w \in toRecord : w.key = k
        BY DEF KeysOf
      <4>2. [key |-> w.key, nth |-> w.nth, expires |-> job[p].expires] \in entries
        BY DEF Entries
      <4> QED
        BY <4>1, <4>2
    <3>3. \A e \in events : e.key \in keys /\ e.expires = job[p].expires /\ e.action # "withdraw"
      BY DEF Told
    <3>4. ASSUME NEW k \in keys PROVE \E e \in events : e.key = k
      <4>1. CASE k \in renewed
        <5>1. [key |-> k, action |-> "renew", expires |-> job[p].expires] \in events
          BY <4>1 DEF Told
        <5> QED
          BY <5>1
      <4>2. CASE k \notin renewed
        <5>1. [key |-> k, action |-> "record", expires |-> job[p].expires] \in events
          BY <4>2 DEF Told
        <5> QED
          BY <5>1
      <4> QED
        BY <4>1, <4>2
    <3> QED
      BY <3>1, <3>2, <3>3, <3>4
  <2> HIDE DEF events, entries, keys
  <2>6. OneExpiryPerKey'
    <3>1. \A w \in Live : w \in waivers /\ w.key \notin keys
      BY <2>5 DEF Live, KeysOf
    <3> QED
      BY <2>4, <2>5, <3>1 DEF OneExpiryPerKey
  <2>7. ASSUME NEW k \in Key
        PROVE  \/ \E e \in events : e.key = k
               \/ /\ {w \in waivers' : w.key = k} \subseteq waivers
                  /\ {w \in waivers : w.key = k /\ ~Expired(w)} \subseteq waivers'
    <3>1. CASE k \in keys
      BY <2>5, <3>1
    <3>2. CASE k \notin keys
      BY <3>2, <2>4, <2>5 DEF Live
    <3> QED
      BY <3>1, <3>2
  <2>8. \A e \in events : e.action # "withdraw" /\ \E w \in waivers' : w.key = e.key /\ w.expires = e.expires
    BY <2>4, <2>5
  <2> QED
    BY <1>1, <2>1, <2>3, <2>4, <2>6, <2>7, <2>8
<1>3. CASE RemoveWaiver(p)
  <2> DEFINE found == {w \in waivers : w.key \in KeysOf(job[p].named)}
  <2>1. PICK v \in found :
          Save(p, waivers \ found, {[key |-> v.key, action |-> "withdraw", expires |-> v.expires]})
    BY <1>3 DEF RemoveWaiver
  <2> DEFINE event == [key |-> v.key, action |-> "withdraw", expires |-> v.expires]
  <2>2. event \in Event
    BY DEF Waiver, Event
  <2>3. waivers' = waivers \ found /\ job'[p] \in JobRecord /\ job'[p].events = {event}
    <3> HIDE DEF event
    <3>1. /\ waivers' = waivers \ found
          /\ job'[p] = Saved(job[p], waivers \ found, {event})
      BY <1>1, <2>1 DEF event
    <3>2. waivers \ found \in SUBSET Waiver /\ {event} \in SUBSET Event
      BY <2>2
    <3> QED
      BY <1>1, <3>1, <3>2, SavedJob
  <2>4. OneExpiryPerKey'
    BY <2>3 DEF OneExpiryPerKey
  <2>5. \A w \in waivers : w \in found <=> w.key = v.key
    <3>1. \E k \in Key : KeysOf(job[p].named) = {k}
      BY <1>1, <1>3 DEF RemoveWaiver, Save, IInv, HasJob
    <3> QED
      BY <3>1
  <2>6. ASSUME NEW k \in Key
        PROVE  \/ event.key = k
               \/ /\ {w \in waivers' : w.key = k} \subseteq waivers
                  /\ {w \in waivers : w.key = k /\ ~Expired(w)} \subseteq waivers'
    BY <2>3, <2>5
  <2>7. event.action = "withdraw" /\ event.key \notin KeysOf(waivers')
    BY <2>3, <2>5 DEF KeysOf
  <2> HIDE DEF event
  <2> QED
    BY <1>1, <2>1, <2>2, <2>3, <2>4, <2>6, <2>7
<1> QED
  BY <1>2, <1>3

\* Nobody else stands in the lock when waivers are saved, so only the saver owes
\* events; keys it does not touch agree as before, but that their expired
\* waivers may be gone, which the log does not grant any more.
LEMMA SaveKeeps ==
  ASSUME IInv, NEW p \in Proc, SaveWaivers(p) \/ RemoveWaiver(p)
  PROVE  OneExpiryPerKey' /\ EventsTrue' /\ Agreement'
<1>1. \A q \in Proc : pc[q] # "logging"
  BY SavesAreOwed, WaiverAssumption DEF IInv, LockIsHeld, Inside
<1>2. \A q \in Proc : pc'[q] = "logging" => q = p
  BY <1>1, SavesAreOwed
<1>3. EventsTrue'
  BY <1>2, SavesAreOwed DEF EventsTrue
<1>4. ASSUME NEW k \in Key PROVE (k \in torn \/ Pending(k) \/ Agrees(k))'
  <2>1. CASE \E e \in job'[p].events : e.key = k
    BY <2>1, SavesAreOwed DEF Pending
  <2>2. CASE k \in torn
    BY <2>2, SavesAreOwed
  <2>3. CASE Agrees(k) /\ ~ \E e \in job'[p].events : e.key = k
    <3>1. /\ {w \in waivers' : w.key = k} \subseteq waivers
          /\ {w \in waivers : w.key = k /\ ~Expired(w)} \subseteq waivers'
          /\ log' = log /\ now' = now
      BY <2>3, SavesAreOwed
    <3>2. GrantedByLog(k)' = GrantedByLog(k)
      BY <3>1 DEF GrantedByLog, Expired
    <3>3. ASSUME GrantedByLog(k) PROVE k \in KeysOf(waivers')
      <4>1. PICK w \in waivers : w.key = k
        BY <2>3, <3>3 DEF Agrees, KeysOf
      <4>2. ~Expired(w)
        BY <4>1, <2>3, <3>3 DEF Agrees, GrantedByLog, Expired
      <4> QED
        BY <4>1, <4>2, <3>1 DEF KeysOf
    <3>4. Agrees(k)'
      BY <2>3, <3>1, <3>2, <3>3 DEF Agrees
    <3> QED
      BY <3>4
  <2>4. ~Pending(k)
    BY <1>1 DEF Pending
  <2> QED
    BY <2>1, <2>2, <2>3, <2>4 DEF IInv, Agreement
<1> QED
  BY <1>3, <1>4, SavesAreOwed DEF Agreement

\* Logging an event makes its key agree: the file has one waiver of the key, the
\* one that the event tells of, or none.
LEMMA AppendKeeps ==
  ASSUME IInv, NEW p \in Proc, NEW e \in job[p].events, AppendDecisionEvent(p, e)
  PROVE  OneExpiryPerKey' /\ EventsTrue' /\ Agreement'
<1> USE DEF AppendDecisionEvent
<1>1. job[p] \in JobRecord /\ e \in Event
  BY DEF IInv, HasJob, JobRecord
<1>2. job'[p].events = job[p].events \ {e} /\ \A q \in Proc \ {p} : job'[q] = job[q]
  BY <1>1 DEF IInv, TypeOK, JobRecord
<1>3. OneExpiryPerKey' /\ EventsTrue'
  BY <1>2 DEF IInv, OneExpiryPerKey, EventsTrue, KeysOf
<1>4. ASSUME NEW k \in Key PROVE (k \in torn \/ Pending(k) \/ Agrees(k))'
  <2>1. CASE k = e.key
    <3>1. log'[k] = e /\ e # None
      BY <1>1, <2>1, NothingAssumption DEF IInv, TypeOK
    <3>2. CASE e.action = "withdraw"
      <4>1. k \notin KeysOf(waivers)
        BY <2>1, <3>2 DEF IInv, EventsTrue
      <4>2. Agrees(k)'
        BY <3>1, <3>2, <4>1 DEF Agrees, GrantedByLog, KeysOf
      <4> QED
        BY <4>2
    <3>3. CASE e.action # "withdraw"
      <4>1. PICK w \in waivers : w.key = e.key /\ w.expires = e.expires
        BY <3>3 DEF IInv, EventsTrue
      <4>2. \A v \in waivers : v.key = k => v.expires = e.expires
        BY <2>1, <4>1 DEF IInv, OneExpiryPerKey
      <4>3. k \in KeysOf(waivers)
        BY <2>1, <4>1 DEF KeysOf
      <4>4. Agrees(k)'
        BY <3>1, <3>3, <4>1, <4>2, <4>3 DEF Agrees, KeysOf
      <4> QED
        BY <4>4
    <3> QED
      BY <3>2, <3>3
  <2>2. CASE k # e.key
    <3>1. log'[k] = log[k] /\ (k \in torn => k \in torn')
      BY <1>1, <2>2 DEF IInv, TypeOK
    <3>2. Pending(k) => Pending(k)'
      BY <1>2, <2>2 DEF Pending
    <3>3. Agrees(k) => Agrees(k)'
      BY <3>1 DEF Agrees, GrantedByLog, Expired, KeysOf
    <3> QED
      BY <3>1, <3>2, <3>3 DEF IInv, Agreement
  <2> QED
    BY <2>1, <2>2
<1> QED
  BY <1>3, <1>4 DEF Agreement

-----------------------------------------------------------------------------
(* Types, the lock and the jobs.                                           *)

\* Never is a time a waiver can have.
LEMMA NeverIsATime == Never \in 1..Never
BY WaiverAssumption DEF Never

\* A job that a command starts or ends its reading with.
LEMMA JobType ==
  ASSUME NEW op \in {"emit", "waive", "unwaive"}, NEW c \in Contract,
         NEW named \in SUBSET Warning, NEW expires \in 1..Never, NEW b \in BOOLEAN
  PROVE  Job(op, c, named, expires) \in JobRecord /\ Decided(op, c, b) \in JobRecord
BY WaiverAssumption DEF Job, JobRecord, Decided, Never

\* A step of one process that starts, goes on with or ends its command.
Moves(p, where, j) ==
  /\ pc' = [pc EXCEPT ![p] = where]
  /\ job' = [job EXCEPT ![p] = j]
  /\ where \in {"idle", "planned", "evaluating", "deciding", "gating"} \cup Inside
  /\ j \in JobRecord \cup {None}
  /\ where \notin {"idle", "crashed", "exited"} => j \in JobRecord
  /\ where = "gating" => j.token \in Inputs
  /\ where = "planned" /\ j.op = "unwaive" => \E k \in Key : KeysOf(j.named) = {k}
  /\ \/ pc[p] \notin Inside /\ where \notin Inside /\ lock' = lock
     \/ lock = None /\ where \in Inside /\ lock' = p
     \/ pc[p] \in Inside /\ where \notin Inside /\ lock' = None
     \/ pc[p] \in Inside /\ where \in Inside /\ lock' = lock

\* Such a step keeps the lock and the jobs in order.
LEMMA MovesKeep ==
  ASSUME IInv, NEW p \in Proc, NEW where, NEW j, Moves(p, where, j)
  PROVE  /\ pc' \in [Proc -> {"idle", "planned", "evaluating", "deciding", "gating"} \cup Inside]
         /\ job' \in [Proc -> JobRecord \cup {None}]
         /\ lock' \in Proc \cup {None}
         /\ LockIsHeld' /\ HasJob'
<1> USE DEF Moves, IInv, TypeOK
<1>1. LockIsHeld'
  BY WaiverAssumption DEF LockIsHeld
<1>2. HasJob'
  BY DEF HasJob
<1> QED
  BY <1>1, <1>2

\* Every command makes such steps.
LEMMA CommandsMove ==
  ASSUME IInv, NEW p \in Proc,
         \/ EmitContract(p)
         \/ \E named \in SUBSET Warning, expires \in 1..Never : Waive(p, named, expires)
         \/ \E key \in Key : Unwaive(p, key)
         \/ Step(p) \/ Crash(p) \/ RemoveStaleLock(p)
  PROVE  \E where, j : Moves(p, where, j)
<1> USE DEF IInv, TypeOK, Inside
<1>1. CASE EmitContract(p)
  <2>1. Job("emit", source, {}, Never) \in JobRecord
    BY JobType, NeverIsATime
  <2>2. Moves(p, "evaluating", Job("emit", source, {}, Never))
    BY <1>1, <2>1 DEF EmitContract, Begin, Goto, Moves
  <2> QED
    BY <2>2
<1>2. ASSUME NEW named \in SUBSET Warning, NEW expires \in 1..Never, Waive(p, named, expires)
      PROVE  \E where, j : Moves(p, where, j)
  <2>1. /\ Job("waive", contract, named, expires) \in JobRecord
        /\ Job("waive", contract, named, expires).op = "waive"
    BY JobType DEF Job
  <2>2. Moves(p, "planned", Job("waive", contract, named, expires))
    BY <1>2, <2>1 DEF Waive, Begin, Goto, Moves
  <2> QED
    BY <2>2
<1>3. ASSUME NEW key \in Key, Unwaive(p, key) PROVE \E where, j : Moves(p, where, j)
  <2> DEFINE j == Job("unwaive", contract, {[key |-> key, nth |-> 1]}, Never)
  <2>1. j \in JobRecord
    <3>1. {[key |-> key, nth |-> 1]} \in SUBSET Warning
      BY WaiverAssumption DEF Warning
    <3> QED
      BY <3>1, JobType, NeverIsATime
  <2>2. KeysOf(j.named) = {key}
    BY DEF Job, KeysOf
  <2> HIDE DEF j
  <2>3. Moves(p, "planned", j)
    BY <1>3, <2>1, <2>2 DEF Unwaive, Begin, Goto, Moves, j
  <2> QED
    BY <2>3
<1>4. CASE LoadResolution(p) \/ Evaluate(p)
  <2>1. job[p] \in JobRecord
    BY <1>4 DEF LoadResolution, Evaluate, HasJob
  <2>2. PICK ws : Decide(p, job[p].contract, ws)
    BY <1>4 DEF LoadResolution, Evaluate
  <2> DEFINE j == Decided(job[p].op, job[p].contract, Blocking(job[p].contract, ws))
  <2>3. Blocking(job[p].contract, ws) \in BOOLEAN
    BY <2>1 DEF Blocking, JobRecord, Contract
  <2>4. j \in JobRecord
    <3>1. job[p].op \in {"emit", "waive", "unwaive"} /\ job[p].contract \in Contract
      BY <2>1 DEF JobRecord
    <3>2. {} \in SUBSET Warning
      OBVIOUS
    <3> QED
      BY <2>3, <3>1, <3>2, JobType, NeverIsATime
  <2>5. Moves(p, "deciding", j)
    BY <1>4, <2>2, <2>4 DEF LoadResolution, Evaluate, Decide, Decided, Goto, Moves
  <2> QED
    BY <2>5
<1>5. CASE SaveWaivers(p) \/ RemoveWaiver(p)
  <2>1. Moves(p, "logging", job'[p])
    BY <1>5, SavesAreOwed DEF SaveWaivers, RemoveWaiver, Save, Goto, Moves
  <2> QED
    BY <2>1
<1>6. CASE ExitInsideLock(p)
  <2>1. Moves(p, "exited", None)
    BY <1>6 DEF ExitInsideLock, Goto, Moves
  <2> QED
    BY <2>1
<1>7. ASSUME NEW e \in job[p].events, AppendDecisionEvent(p, e) PROVE \E where, j : Moves(p, where, j)
  <2>1. job[p] \in JobRecord
    BY <1>7 DEF AppendDecisionEvent, HasJob
  <2>2. [job[p] EXCEPT !.events = @ \ {e}] \in JobRecord
    BY <2>1 DEF JobRecord
  <2>3. Moves(p, "logging", [job[p] EXCEPT !.events = @ \ {e}])
    BY <1>7, <2>2 DEF AppendDecisionEvent, Moves
  <2> QED
    BY <2>3
<1>8. CASE RecomputeGate(p)
  <2>1. job[p] \in JobRecord /\ GateInputs \in Inputs
    BY <1>8 DEF RecomputeGate, HasJob, GateInputs, Inputs
  <2>2. /\ [job[p] EXCEPT !.token = GateInputs] \in JobRecord
        /\ [job[p] EXCEPT !.token = GateInputs].token = GateInputs
    BY <2>1 DEF JobRecord
  <2>3. Moves(p, "gating", [job[p] EXCEPT !.token = GateInputs])
    BY <1>8, <2>1, <2>2 DEF RecomputeGate, Goto, Moves, files
  <2> QED
    BY <2>3
<1>9. CASE SetGate(p) \/ LockTimeout(p)
  <2>1. Moves(p, "idle", None)
    BY <1>9 DEF SetGate, LockTimeout, Goto, Moves
  <2> QED
    BY <2>1
<1>10. CASE Crash(p)
  <2>1. Moves(p, IF lock = p THEN "crashed" ELSE "idle", None)
    BY <1>10 DEF Crash, Goto, Moves, LockIsHeld
  <2> QED
    BY <2>1
<1>11. CASE RemoveStaleLock(p)
  <2>1. Moves(p, "idle", job[p])
    BY <1>11 DEF RemoveStaleLock, Goto, Moves
  <2> QED
    BY <2>1
<1> QED
  BY <1>1, <1>2, <1>3, <1>4, <1>5, <1>6, <1>7, <1>8, <1>9, <1>10, <1>11 DEF Step

\* The files keep their types.
LEMMA FilesKeepType ==
  ASSUME IInv, Next
  PROVE  /\ source' \in Contract /\ contract' \in Contract /\ waivers' \subseteq Waiver
         /\ log' \in [Key -> Event \cup {None}]
         /\ gate' = None \/
              (gate'.status \in {"pass", "awaiting_disposition"} /\ gate'.token \in Inputs)
         /\ now' \in 0..MaxTime /\ torn' \subseteq Key
<1> USE DEF IInv, TypeOK, files
<1>1. ASSUME NEW p \in Proc,
             \/ EmitContract(p)
             \/ \E named \in SUBSET Warning, expires \in 1..Never : Waive(p, named, expires)
             \/ \E key \in Key : Unwaive(p, key)
             \/ LoadResolution(p) \/ ExitInsideLock(p) \/ Evaluate(p) \/ RecomputeGate(p)
             \/ LockTimeout(p) \/ RemoveStaleLock(p)
      PROVE  source' \in Contract /\ contract' \in Contract /\ UNCHANGED <<waivers, log, gate, now, torn>>
  BY <1>1 DEF EmitContract, Waive, Unwaive, LoadResolution, ExitInsideLock, Evaluate, RecomputeGate,
              LockTimeout, RemoveStaleLock
<1>2. ASSUME NEW p \in Proc, SaveWaivers(p) \/ RemoveWaiver(p)
      PROVE  waivers' \subseteq Waiver /\ UNCHANGED <<source, contract, log, gate, now, torn>>
  BY <1>2, SavesAreOwed DEF SaveWaivers, RemoveWaiver, Save
<1>3. ASSUME NEW p \in Proc, NEW e \in job[p].events, AppendDecisionEvent(p, e)
      PROVE  /\ log' \in [Key -> Event \cup {None}] /\ torn' \subseteq Key
             /\ UNCHANGED <<source, contract, waivers, gate, now>>
  BY <1>3 DEF AppendDecisionEvent, HasJob, JobRecord
<1>4. ASSUME NEW p \in Proc, SetGate(p)
      PROVE  /\ gate'.status \in {"pass", "awaiting_disposition"} /\ gate'.token \in Inputs
             /\ UNCHANGED <<source, contract, waivers, log, now, torn>>
  BY <1>4 DEF SetGate, HasJob
<1>5. ASSUME NEW p \in Proc, Crash(p)
      PROVE  torn' \subseteq Key /\ UNCHANGED <<source, contract, waivers, log, gate, now>>
  BY <1>5 DEF Crash, HasJob, JobRecord, Event
<1>6. CASE ChangeSource
  BY <1>6 DEF ChangeSource
<1>7. CASE Tick
  BY <1>7, WaiverAssumption DEF Tick
<1> QED
  BY <1>1, <1>2, <1>3, <1>4, <1>5, <1>6, <1>7 DEF Next, Step

-----------------------------------------------------------------------------
(* The theorems.                                                           *)

\* The initial states satisfy the invariant.
LEMMA InitHolds ==
  ASSUME Init
  PROVE  IInv
<1> USE DEF Init
<1>1. TypeOK
  BY WaiverAssumption DEF TypeOK, Contract
<1>2. LockIsHeld /\ HasJob /\ OneExpiryPerKey /\ EventsTrue
  BY WaiverAssumption DEF LockIsHeld, HasJob, OneExpiryPerKey, EventsTrue, Inside
<1>3. Agreement
  BY DEF Agreement, Agrees, GrantedByLog
<1> QED
  BY <1>1, <1>2, <1>3 DEF IInv

\* Every step keeps it.
LEMMA StepKeeps ==
  ASSUME IInv, [Next]_vars
  PROVE  IInv'
<1>1. CASE Next
  <2>1. TypeOK' /\ LockIsHeld' /\ HasJob'
    <3>1. ASSUME NEW p \in Proc, NEW where, NEW j, Moves(p, where, j)
          PROVE  TypeOK' /\ LockIsHeld' /\ HasJob'
      BY <1>1, <3>1, FilesKeepType, MovesKeep DEF TypeOK, Inside
    <3>2. CASE ChangeSource \/ Tick
      BY <1>1, <3>2, FilesKeepType DEF ChangeSource, Tick, files, IInv, TypeOK, LockIsHeld, HasJob, Inside
    <3> QED
      BY <1>1, <3>1, <3>2, CommandsMove DEF Next
  <2>2. OneExpiryPerKey' /\ EventsTrue' /\ Agreement'
    <3>1. CASE Quiet
      BY <3>1, QuietKeeps
    <3>2. CASE Tick
      BY <3>2, TickKeeps
    <3>3. CASE \E p \in Proc : SaveWaivers(p) \/ RemoveWaiver(p)
      BY <3>3, SaveKeeps
    <3>4. CASE \E p \in Proc : \E e \in job[p].events : AppendDecisionEvent(p, e)
      BY <3>4, AppendKeeps
    <3> QED
      BY <1>1, <3>1, <3>2, <3>3, <3>4, KindsOfStep
  <2> QED
    BY <2>1, <2>2 DEF IInv
<1>2. CASE UNCHANGED vars
  <2> USE <1>2 DEF vars, files
  <2>1. TypeOK' /\ LockIsHeld'
    BY DEF IInv, TypeOK, LockIsHeld, Inside
  <2>2. HasJob'
    BY DEF IInv, HasJob, KeysOf
  <2>3. OneExpiryPerKey' /\ EventsTrue'
    BY DEF IInv, OneExpiryPerKey, EventsTrue, KeysOf
  <2>4. Agreement'
    BY DEF IInv, Agreement, Agrees, Pending, GrantedByLog, Expired, KeysOf
  <2> QED
    BY <2>1, <2>2, <2>3, <2>4 DEF IInv
<1> QED
  BY <1>1, <1>2

\* The inductive invariant: file, log and owed events are in step, under a lock
\* that one process holds.
THEOREM Inductive == Spec => []IInv
<1>1. Init => IInv
  BY InitHolds
<1>2. IInv /\ [Next]_vars => IInv'
  BY StepKeeps
<1> QED
  BY <1>1, <1>2, PTL DEF Spec

\* The state keeps its types.
THEOREM TypeCorrect == Spec => []TypeOK
<1>1. IInv => TypeOK
  BY DEF IInv
<1> QED
  BY <1>1, Inductive, PTL

\* No warning has an expired entry beside a live one.
THEOREM RenewalReplacesCorrect == Spec => []RenewalReplaces
<1>1. IInv => RenewalReplaces
  BY DEF IInv, OneExpiryPerKey, RenewalReplaces, KeysOf, Live, Expired
<1> QED
  BY <1>1, Inductive, PTL

\* A warning has a live waiver exactly when the last event about it grants one,
\* but while the change is being logged or when a crash tore the two.
THEOREM LogAgreesCorrect == Spec => []LogAgrees
<1>1. IInv => LogAgrees
  <2> SUFFICES ASSUME IInv, NEW k \in Key, Agrees(k)
               PROVE  k \in KeysOf(Live) <=> GrantedByLog(k)
    BY DEF LogAgrees, IInv, Agreement, Pending
  <2>1. ASSUME k \in KeysOf(Live) PROVE GrantedByLog(k)
    BY <2>1 DEF KeysOf, Live, Agrees, GrantedByLog, Expired
  <2>2. ASSUME GrantedByLog(k) PROVE k \in KeysOf(Live)
    BY <2>2 DEF KeysOf, Live, Agrees, GrantedByLog, Expired
  <2> QED
    BY <2>1, <2>2
<1> QED
  BY <1>1, Inductive, PTL

\* A waiver that is live goes only by an unwaive of its warning.
THEOREM LiveWaiversStayCorrect == Spec => LiveWaiversStay
<1> DEFINE Stay == \A w \in Live \ waivers' :
       \E p \in Proc : pc[p] = "planned" /\ job[p].op = "unwaive" /\ w.key \in KeysOf(job[p].named)
<1>1. ASSUME IInv, Next PROVE Stay
  <2>1. CASE waivers' = waivers
    BY <2>1 DEF Live
  <2>2. ASSUME NEW p \in Proc, SaveWaivers(p) PROVE Stay
    BY <2>2 DEF SaveWaivers, Save, Live
  <2>3. ASSUME NEW p \in Proc, RemoveWaiver(p) PROVE Stay
    BY <2>3 DEF RemoveWaiver, Save, Live
  <2>4. CASE \E p \in Proc : \E e \in job[p].events : AppendDecisionEvent(p, e)
    BY <2>1, <2>4 DEF AppendDecisionEvent
  <2> QED
    BY <1>1, <2>1, <2>2, <2>3, <2>4, KindsOfStep DEF Quiet, Tick, files
<1>2. IInv /\ [Next]_vars => [Stay]_vars
  BY <1>1
<1> QED
  BY <1>2, Inductive, PTL DEF Spec, LiveWaiversStay
=============================================================================
