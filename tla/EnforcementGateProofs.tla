------------------------ MODULE EnforcementGateProofs ------------------------
(***************************************************************************)
(* Proofs about EnforcementGate, for any number of requests, also          *)
(* infinitely many, and any capacities and bounds.                         *)
(*                                                                         *)
(* What the verifier computes from the whole log has to be said entry by   *)
(* entry (Entries, Debts), and what links a request that runs to the       *)
(* decision it owes an outcome for (Claims).                               *)
(*                                                                         *)
(* The last part is the safety half of RequestsEnd: a bound on the steps   *)
(* of a request, and that what it waits for can come.                      *)
(***************************************************************************)
EXTENDS EnforcementGate, FiniteSetTheorems, SequenceTheorems, TLAPS

\* Places in which a request has its decision.
Decided == {"host", "address", "file"} \cup Segment \cup Spawned

\* What a request does where it stands; only shadow mode looks up an address or
\* a file after its decision.
PlaceOK(c) ==
  /\ c.at \in {"pinning", "address", "unreachable"} => c.op = "connect"
  /\ c.at \in {"resolving", "file", "spawning", "child", "reaping"} => c.op = "spawn"
  /\ c.at = "canonical" => c.op = "read"
  /\ c.at \in {"address", "file"} => mode = "shadow"

Places == \A r \in Request : PlaceOK(call[r])

\* Between two awaits one request runs.
OneSegment == \A q, r \in Request : {call[q].at, call[r].at} \subseteq Segment => q = r

\* A request that is decided owes the outcome of a decision of its own.
Claims ==
  /\ \A r \in Request : call[r].at \in Decided =>
       call[r].seq \in pending /\ log[call[r].seq].op = call[r].op
  /\ \A q, r \in Request : {call[q].at, call[r].at} \subseteq Decided /\ call[q].seq = call[r].seq => q = r

\* Entry i of a log is none that the verifier rejects: an outcome follows a decision
\* that it settles and that is not among the open ones, and is the first to do so.
EntryOK(entries, i, open, boundMode) ==
  LET e == entries[i] IN
  /\ e.phase = "outcome" =>
       /\ e.seq \in 1..(i - 1) /\ e.seq \notin open
       /\ OwesOutcome(entries[e.seq]) /\ entries[e.seq].op = e.op
       /\ \A j \in 1..(i - 1) : entries[j].phase = "outcome" => entries[j].seq # e.seq
  /\ e.what = "would-deny" => boundMode = "shadow" /\ e.op \in PassThrough
  /\ e.op = "none" => e.what = "deny"

Entries == \A i \in 1..Len(log) : EntryOK(log, i, pending \cup unwritten, mode)

\* A decision that owes an outcome has it, or is in flight, or lost it to the clock.
Debts ==
  /\ pending \cap unwritten = {}
  /\ \A i \in pending \cup unwritten : OwesOutcome(log[i])
  /\ \A i \in 1..Len(log) : OwesOutcome(log[i]) =>
       \/ i \in pending \cup unwritten
       \/ \E j \in 1..Len(log) : log[j].phase = "outcome" /\ log[j].seq = i

\* The log has room for what is owed.
RoomKept == Len(log) + Cardinality(pending) <= maxAuditEntries

\* Who is about to spawn has a slot, and what was reported has ended.
Slots ==
  /\ IsFiniteSet({r \in Request : call[r].at \in Spawned})
  /\ \A r \in Request :
       /\ mode = "enforce" /\ call[r].at = "spawning" => activeChildren < MaxChildren
       /\ child[r] = "reported" => call[r].at = "ended"

IInv ==
  /\ TypeOK /\ Places /\ OneSegment /\ Claims /\ Entries /\ Debts /\ RoomKept
  /\ Slots /\ ChildrenAccounted

-----------------------------------------------------------------------------
(* How the log grows.                                                      *)

\* Appending leaves the entries before where they are.
LEMMA Appending ==
  ASSUME TypeOK, NEW e \in LogEntry, log' = Append(log, e)
  PROVE  /\ log' \in Seq(LogEntry) /\ Len(log) \in Nat /\ Len(log') = Len(log) + 1
         /\ \A i \in 1..Len(log) : log'[i] = log[i]
         /\ log'[Len(log) + 1] = e
BY DEF TypeOK

\* What is pending is finite.
LEMMA PendingFinite ==
  ASSUME TypeOK
  PROVE  /\ IsFiniteSet(pending) /\ Cardinality(pending) \in Nat /\ Len(log) \in Nat
         /\ maxAuditEntries \in Nat
<1>1. Len(log) \in Nat /\ IsFiniteSet(1..Len(log))
  BY FS_Interval DEF TypeOK
<1> QED
  BY <1>1, FS_Subset, FS_CardinalityType, BoundsAssumption DEF TypeOK

\* An entry stays good when the log grows and nothing before it is opened again.
LEMMA EntryStays ==
  ASSUME NEW l, NEW k, NEW n \in Nat, \A j \in 1..n : k[j] = l[j],
         NEW i \in 1..n, NEW open, NEW open2, open2 \cap 1..n \subseteq open,
         NEW m, EntryOK(l, i, open, m)
  PROVE  EntryOK(k, i, open2, m)
<1>1. k[i] = l[i] /\ \A j \in 1..(i - 1) : j \in 1..n /\ k[j] = l[j]
  OBVIOUS
<1> QED
  BY <1>1 DEF EntryOK

\* The part of the invariant that is about the log.
LogOK ==
  /\ log \in Seq(LogEntry) /\ pending \subseteq 1..Len(log) /\ unwritten \subseteq 1..Len(log)
  /\ Entries /\ Debts /\ RoomKept

fixed == <<mode, maxAuditEntries>>

\* An entry that owes nothing: a refusal, or an environment read.
Denied(e) ==
  /\ e \in LogEntry /\ e.phase = "decision" /\ ~OwesOutcome(e)
  /\ e.what # "would-deny"
  /\ e.op = "none" => e.what = "deny"

\* It needs one free slot.
LEMMA DeniedKeeps ==
  ASSUME TypeOK, LogOK, UNCHANGED <<fixed, pending, unwritten>>,
         NEW e, Denied(e), Room(1), log' = Append(log, e)
  PROVE  LogOK'
<1>1. /\ log' \in Seq(LogEntry) /\ Len(log) \in Nat /\ Len(log') = Len(log) + 1
      /\ \A i \in 1..Len(log) : log'[i] = log[i]
      /\ log'[Len(log) + 1] = e
  BY Appending DEF Denied
<1>2. Entries'
  <2>1. EntryOK(log', Len(log) + 1, pending' \cup unwritten', mode')
    BY <1>1 DEF EntryOK, Denied
  <2>2. \A i \in 1..Len(log) : EntryOK(log', i, pending' \cup unwritten', mode')
    BY <1>1, EntryStays DEF LogOK, Entries, fixed
  <2> QED
    BY <1>1, <2>1, <2>2 DEF Entries, EntryOK, OwesOutcome
<1>3. Debts'
  BY <1>1 DEF LogOK, Debts, Denied, OwesOutcome
<1>4. RoomKept'
  BY <1>1, PendingFinite DEF RoomKept, Room, fixed, TypeOK
<1> QED
  BY <1>1, <1>2, <1>3, <1>4 DEF LogOK

\* A decision with an effect: allowed, or let through in shadow mode.
Effect(op, what) ==
  /\ op \in PassThrough \cup {"secret"} /\ what \in {"allow", "would-deny"}
  /\ what = "would-deny" => mode = "shadow" /\ op \in PassThrough

\* It needs two: the one for its outcome is pending.
LEMMA DecidedKeeps ==
  ASSUME TypeOK, LogOK, UNCHANGED <<fixed, unwritten>>, NEW op, NEW what, Effect(op, what), Room(2),
         log' = Append(log, Entry("decision", op, what, 0)), pending' = pending \cup {Len(log) + 1}
  PROVE  LogOK'
<1> DEFINE e == Entry("decision", op, what, 0)
<1>0. /\ e \in LogEntry /\ e.phase = "decision" /\ e.op = op /\ e.what = what
      /\ OwesOutcome(e)
  BY DEF Entry, LogEntry, Effect, Operation, PassThrough, OwesOutcome
<1>1. /\ log' \in Seq(LogEntry) /\ Len(log) \in Nat /\ Len(log') = Len(log) + 1
      /\ \A i \in 1..Len(log) : log'[i] = log[i]
      /\ log'[Len(log) + 1] = e
  BY <1>0, Appending
<1> HIDE DEF e
<1>2. Entries'
  <2>1. EntryOK(log', Len(log) + 1, pending' \cup unwritten', mode')
    BY <1>0, <1>1 DEF EntryOK, Effect, fixed, PassThrough
  <2>2. (pending' \cup unwritten') \cap 1..Len(log) \subseteq pending \cup unwritten
    BY <1>1
  <2>3. \A i \in 1..Len(log) : EntryOK(log', i, pending' \cup unwritten', mode')
    <3> SUFFICES ASSUME NEW i \in 1..Len(log)
                 PROVE  EntryOK(log', i, pending' \cup unwritten', mode')
      OBVIOUS
    <3>1. mode' = mode /\ EntryOK(log, i, pending \cup unwritten, mode)
      BY DEF LogOK, Entries, fixed
    <3> DEFINE open == pending' \cup unwritten'
    <3>2. open \cap 1..Len(log) \subseteq pending \cup unwritten
      BY <2>2
    <3> HIDE DEF open
    <3>3. EntryOK(log', i, open, mode)
      <4> DEFINE n == Len(log)
                 before == pending \cup unwritten
      <4>1. /\ n \in Nat /\ i \in 1..n /\ \A j \in 1..n : log'[j] = log[j]
            /\ open \cap 1..n \subseteq before /\ EntryOK(log, i, before, mode)
        BY <1>1, <3>1, <3>2
      <4> HIDE DEF n, before
      <4> QED
        BY <4>1, EntryStays
    <3> QED
      BY <3>1, <3>3 DEF open
  <2> QED
    BY <1>1, <2>1, <2>3 DEF Entries, EntryOK, OwesOutcome
<1>3. Debts'
  <2>1. pending' \cap unwritten' = {} /\ \A i \in pending' \cup unwritten' : OwesOutcome(log'[i])
    <3>1. \A i \in pending \cup unwritten : i \in 1..Len(log) /\ OwesOutcome(log'[i])
      BY <1>1 DEF LogOK, Debts
    <3>2. OwesOutcome(log'[Len(log) + 1]) /\ Len(log) + 1 \notin unwritten
      BY <1>0, <1>1, <3>1
    <3>3. pending \cap unwritten = {}
      BY DEF LogOK, Debts
    <3> QED
      BY <3>1, <3>2, <3>3
  <2>2. ASSUME NEW i \in 1..Len(log'), OwesOutcome(log'[i])
        PROVE  \/ i \in pending' \cup unwritten'
               \/ \E j \in 1..Len(log') : log'[j].phase = "outcome" /\ log'[j].seq = i
    <3>1. CASE i \in 1..Len(log)
      <4>1. \/ i \in pending \cup unwritten
            \/ \E j \in 1..Len(log) : log[j].phase = "outcome" /\ log[j].seq = i
        BY <1>1, <2>2, <3>1 DEF LogOK, Debts
      <4> QED
        BY <1>1, <4>1
    <3>2. CASE i = Len(log) + 1
      BY <3>2
    <3> QED
      BY <1>1, <3>1, <3>2
  <2> QED
    BY <2>1, <2>2 DEF Debts, OwesOutcome
<1>4. RoomKept'
  <2>1. Len(log) + 1 \notin pending
    BY <1>1 DEF LogOK
  <2>2. Cardinality(pending') = Cardinality(pending) + 1
    BY <2>1, PendingFinite, FS_AddElement
  <2> QED
    BY <1>1, <2>2, PendingFinite DEF RoomKept, Room, fixed, TypeOK
<1> QED
  BY <1>1, <1>2, <1>3, <1>4 DEF LogOK

\* The outcome takes the slot that was pending for it, or is lost to the clock.
LEMMA OutcomeKeeps ==
  ASSUME TypeOK, LogOK, UNCHANGED fixed, NEW r \in Request, NEW what \in {"ok", "failed"}, Outcome(r, what),
         call[r].seq \in pending, log[call[r].seq].op = call[r].op
  PROVE  LogOK'
<1> DEFINE s == call[r].seq
           e == Entry("outcome", call[r].op, what, s)
<1>0. s \in 1..Len(log) /\ OwesOutcome(log[s]) /\ s \notin unwritten /\ Len(log) \in Nat
  BY PendingFinite DEF LogOK, Debts
<1>1. /\ e \in LogEntry /\ e.phase = "outcome" /\ e.op = call[r].op /\ e.seq = s /\ e.what = what
      /\ ~OwesOutcome(e) /\ e.op # "none"
  BY <1>0 DEF Entry, LogEntry, OwesOutcome, TypeOK, CallRecord, Operation, PassThrough
<1>2. /\ IsFiniteSet(pending) /\ IsFiniteSet(pending') /\ Cardinality(pending) \in Nat
      /\ Cardinality(pending') = Cardinality(pending) - 1 /\ Cardinality(pending') \in Nat
      /\ pending' = pending \ {s} /\ unwritten' = IF clock THEN unwritten ELSE unwritten \cup {s}
  BY PendingFinite, FS_RemoveElement, FS_CardinalityType DEF Outcome
<1>3. Len(log) < maxAuditEntries
  BY <1>0, <1>2, BoundsAssumption DEF LogOK, RoomKept, TypeOK
<1>4. CASE clock
  <2>1. log' = Append(log, e)
    BY <1>3, <1>4 DEF Outcome
  <2> HIDE DEF e
  <2>2. /\ log' \in Seq(LogEntry) /\ Len(log') = Len(log) + 1
        /\ \A i \in 1..Len(log) : log'[i] = log[i]
        /\ log'[Len(log) + 1] = e
    BY <1>1, <2>1, Appending
  <2>3. \A j \in 1..Len(log) : log[j].phase = "outcome" => log[j].seq # s
    BY DEF LogOK, Entries, EntryOK
  <2> HIDE DEF s
  <2>4. Entries'
    <3>1. EntryOK(log', Len(log) + 1, pending' \cup unwritten', mode')
      <4>1. s \in 1..Len(log) /\ s \notin pending' \cup unwritten' /\ OwesOutcome(log'[s]) /\ log'[s].op = e.op
        BY <1>0, <1>1, <1>2, <1>4, <2>2 DEF s
      <4>2. \A j \in 1..Len(log) : log'[j].phase = "outcome" => log'[j].seq # s
        BY <2>2, <2>3
      <4>3. e.what # "would-deny" /\ (Len(log) + 1) - 1 = Len(log)
        BY <1>0, <1>1
      <4> QED
        BY <1>1, <2>2, <4>1, <4>2, <4>3 DEF EntryOK
    <3>2. \A i \in 1..Len(log) : EntryOK(log', i, pending' \cup unwritten', mode')
      BY <1>0, <1>2, <1>4, <2>2, EntryStays DEF LogOK, Entries, fixed
    <3>3. \A i \in 1..Len(log') : i \in 1..Len(log) \/ i = Len(log) + 1
      BY <1>0, <2>2
    <3> QED
      BY <3>1, <3>2, <3>3 DEF Entries, EntryOK, OwesOutcome
  <2>5. Debts'
    <3>1. pending' \cap unwritten' = {} /\ \A i \in pending' \cup unwritten' : OwesOutcome(log'[i])
      BY <1>2, <1>4, <2>2 DEF LogOK, Debts
    <3>2. ASSUME NEW i \in 1..Len(log'), OwesOutcome(log'[i])
          PROVE  \/ i \in pending' \cup unwritten'
                 \/ \E j \in 1..Len(log') : log'[j].phase = "outcome" /\ log'[j].seq = i
      <4>1. CASE i = s
        <5>1. log'[Len(log) + 1].phase = "outcome" /\ log'[Len(log) + 1].seq = s
          BY <1>1, <2>2
        <5> QED
          BY <1>0, <2>2, <4>1, <5>1
      <4>2. CASE i # s /\ i \in 1..Len(log)
        <5>1. \/ i \in pending \cup unwritten
              \/ \E j \in 1..Len(log) : log[j].phase = "outcome" /\ log[j].seq = i
          BY <2>2, <3>2, <4>2 DEF LogOK, Debts
        <5> QED
          BY <1>2, <1>4, <2>2, <4>2, <5>1
      <4>3. CASE i = Len(log) + 1
        BY <1>1, <2>2, <3>2, <4>3
      <4> QED
        BY <1>0, <2>2, <4>1, <4>2, <4>3
    <3> QED
      BY <3>1, <3>2 DEF Debts, OwesOutcome
  <2>6. RoomKept'
    BY <1>0, <1>2, <1>3, <2>2, BoundsAssumption DEF LogOK, RoomKept, fixed, TypeOK
  <2> QED
    BY <1>0, <1>2, <1>4, <2>2, <2>4, <2>5, <2>6 DEF LogOK
<1>5. CASE ~clock
  <2>1. log' = log
    BY <1>5 DEF Outcome
  <2>2. \A j \in 1..Len(log) : log[j].phase = "outcome" => log[j].seq # s
    BY DEF LogOK, Entries, EntryOK
  <2> HIDE DEF s, e
  <2>3. Entries'
    <3>1. ASSUME NEW i \in 1..Len(log)
          PROVE  EntryOK(log, i, pending' \cup unwritten', mode)
      BY <1>2, <1>5, <2>2, <3>1 DEF LogOK, Entries, EntryOK
    <3> QED
      BY <2>1, <3>1 DEF Entries, EntryOK, OwesOutcome, fixed
  <2>4. Debts'
    BY <1>0, <1>2, <1>5, <2>1 DEF LogOK, Debts
  <2>5. RoomKept'
    BY <1>0, <1>2, <2>1, BoundsAssumption DEF LogOK, RoomKept, fixed, TypeOK
  <2> QED
    BY <1>0, <1>2, <1>5, <2>1, <2>3, <2>4, <2>5 DEF LogOK
<1> QED
  BY <1>4, <1>5, TypeOK DEF TypeOK

-----------------------------------------------------------------------------
(* What a step does to the requests and to the log.                        *)

\* The next record of a request: of its type, in a place that fits, and in a
\* segment only when nothing else is in one.
Turn(r, c) ==
  /\ call' = [call EXCEPT ![r] = c]
  /\ c \in CallRecord /\ c.seq <= maxAuditEntries /\ PlaceOK(c)
  /\ c.at \in Segment => Free(r)

\* The log and what is open stay; who is decided has been.
Quiet(r, c) ==
  /\ UNCHANGED <<log, pending, unwritten>>
  /\ c.at \in Decided => call[r].at \in Decided /\ c.seq = call[r].seq /\ c.op = call[r].op

\* A refusal, or an environment read, is logged, and the request is over.
Denies(c) ==
  /\ \E e : Denied(e) /\ log' = Append(log, e)
  /\ Room(1) /\ UNCHANGED <<pending, unwritten>> /\ c.at \notin Decided

\* A decision is logged, and the request owes its outcome.
Grants(c) ==
  /\ \E what : Effect(c.op, what) /\ log' = Append(log, Entry("decision", c.op, what, 0))
  /\ pending' = pending \cup {Len(log) + 1} /\ c.seq = Len(log) + 1
  /\ Room(2) /\ UNCHANGED unwritten

\* An outcome is logged, or lost, and the request is over.
Settles(r, c) ==
  /\ \E what \in {"ok", "failed"} : Outcome(r, what)
  /\ call[r].at \in Decided /\ c.at \notin Decided

Logs(r, c) == Quiet(r, c) \/ Denies(c) \/ Grants(c) \/ Settles(r, c)

\* A request that is over.
LEMMA OverIsOver ==
  /\ Over \in CallRecord /\ Over.at = "ended" /\ Over.seq = 0 /\ PlaceOK(Over)
  /\ Over.at \notin Decided /\ Over.at \notin Segment
BY DEF Over, Nothing, CallRecord, PlaceOK, Decided, Segment, Spawned

\* refuse logs at most a refusal.
LEMMA Refusing ==
  ASSUME TypeOK, NEW r \in Request, NEW op \in Operation \cup {"none"}, Refuse(r, op), UNCHANGED unwritten
  PROVE  Turn(r, Over) /\ Logs(r, Over)
<1>1. Denied(Entry("decision", op, "deny", 0))
  BY DEF Denied, Entry, LogEntry, OwesOutcome
<1>2. 0 <= maxAuditEntries
  BY PendingFinite
<1> QED
  BY <1>1, <1>2, OverIsOver DEF Refuse, Ends, Turn, Logs, Quiet, Denies

\* allow, and the would-deny of shadow mode, log a decision or end the request.
LEMMA Deciding ==
  ASSUME TypeOK, NEW r \in Request, NEW op, NEW what, Effect(op, what), NEW place \in Decided,
         Decide(r, op, what, place), UNCHANGED unwritten, Free(r),
         \A c : c.at = place /\ c.op = op => PlaceOK(c)
  PROVE  \E c : Turn(r, c) /\ Logs(r, c) /\ (c = Over \/ (c.at = place /\ c.op = op))
<1>1. CASE Room(2) /\ clock
  <2> DEFINE c == [at |-> place, op |-> op, seq |-> Len(log) + 1, failed |-> call[r].failed]
  <2>1. call' = [call EXCEPT ![r] = c]
    BY <1>1 DEF Decide, TypeOK, CallRecord
  <2>2. c \in CallRecord
    BY PendingFinite DEF CallRecord, TypeOK, Effect, Operation, PassThrough, Decided, Segment, Lookups, Spawned
  <2>3. c.seq <= maxAuditEntries
    BY <1>1, PendingFinite DEF Room
  <2>4. Turn(r, c)
    BY <2>1, <2>2, <2>3 DEF Turn
  <2>5. Grants(c)
    BY <1>1 DEF Grants, Decide
  <2> QED
    BY <2>4, <2>5 DEF Logs
<1>2. CASE ~(Room(2) /\ clock)
  <2>1. Turn(r, Over) /\ Quiet(r, Over)
    BY <1>2, OverIsOver, PendingFinite DEF Decide, Ends, Turn, Quiet
  <2> QED
    BY <2>1 DEF Logs
<1> QED
  BY <1>1, <1>2

\* grantFailure refuses, or lets shadow mode pass.
LEMMA Failing ==
  ASSUME TypeOK, NEW r \in Request, NEW op \in PassThrough \cup {"secret"}, NEW place \in Decided,
         GrantFailure(r, op, place), UNCHANGED unwritten, Free(r),
         mode = "shadow" => \A c : c.at = place /\ c.op = op => PlaceOK(c)
  PROVE  \E c : Turn(r, c) /\ Logs(r, c) /\ (c = Over \/ (mode = "shadow" /\ c.at = place /\ c.op = op))
<1>1. CASE mode = "enforce" \/ op \notin PassThrough
  <2>1. op \in Operation \cup {"none"}
    BY DEF Operation
  <2> QED
    BY <1>1, <2>1, Refusing DEF GrantFailure
<1>2. CASE ~(mode = "enforce" \/ op \notin PassThrough)
  <2>1. mode = "shadow" /\ Effect(op, "would-deny") /\ Decide(r, op, "would-deny", place)
    BY <1>2 DEF GrantFailure, Effect, TypeOK
  <2> QED
    BY <2>1, Deciding
<1> QED
  BY <1>1, <1>2

\* An outcome ends the request.
LEMMA Settling ==
  ASSUME TypeOK, NEW r \in Request, NEW what \in {"ok", "failed"}, Outcome(r, what), Ends(r), call[r].at \in Decided
  PROVE  Turn(r, Over) /\ Logs(r, Over)
BY OverIsOver, PendingFinite DEF Turn, Logs, Settles, Ends

\* A step that only moves a request, or marks it as failed.
LEMMA Moving ==
  ASSUME TypeOK, NEW r \in Request, NEW c, call' = [call EXCEPT ![r] = c], c \in CallRecord, c.seq = call[r].seq,
         UNCHANGED <<log, pending, unwritten>>, PlaceOK(c), c.at \in Segment => Free(r),
         c.at \in Decided => call[r].at \in Decided /\ c.op = call[r].op
  PROVE  Turn(r, c) /\ Logs(r, c)
BY DEF Turn, Logs, Quiet, TypeOK

\* A record with one field changed, field by field.
LEMMA OneField ==
  ASSUME NEW x, NEW at, NEW op, NEW seq, NEW failed,
         x = [at |-> at, op |-> op, seq |-> seq, failed |-> failed], NEW v
  PROVE  /\ [x EXCEPT !.at = v] = [at |-> v, op |-> op, seq |-> seq, failed |-> failed]
         /\ [x EXCEPT !.op = v] = [at |-> at, op |-> v, seq |-> seq, failed |-> failed]
         /\ [x EXCEPT !.failed = v] = [at |-> at, op |-> op, seq |-> seq, failed |-> v]
OBVIOUS

\* A request's record with a new place and operation.
LEMMA PlaceAndOp ==
  ASSUME TypeOK, NEW r \in Request, NEW v, NEW w
  PROVE  [call[r] EXCEPT !.at = v, !.op = w] =
           [at |-> v, op |-> w, seq |-> call[r].seq, failed |-> call[r].failed]
<1> DEFINE x == call[r]
           y == [x EXCEPT !.at = v]
<1>1. x = [at |-> x.at, op |-> x.op, seq |-> x.seq, failed |-> x.failed]
  BY DEF TypeOK, CallRecord
<1>2. [x EXCEPT !.at = v, !.op = w] = [y EXCEPT !.op = w]
  BY Zenon DEF y
<1> HIDE DEF x
<1>3. y = [at |-> v, op |-> x.op, seq |-> x.seq, failed |-> x.failed]
  BY <1>1, OneField
<1> HIDE DEF y
<1>4. [y EXCEPT !.op = w] = [at |-> v, op |-> w, seq |-> x.seq, failed |-> x.failed]
  BY <1>3, OneField
<1> QED
  BY <1>2, <1>4, Zenon DEF x

\* A request's record with a new place and verdict.
LEMMA PlaceAndFailed ==
  ASSUME TypeOK, NEW r \in Request, NEW v, NEW w
  PROVE  [call[r] EXCEPT !.at = v, !.failed = w] =
           [at |-> v, op |-> call[r].op, seq |-> call[r].seq, failed |-> w]
<1> DEFINE x == call[r]
           y == [x EXCEPT !.at = v]
<1>1. x = [at |-> x.at, op |-> x.op, seq |-> x.seq, failed |-> x.failed]
  BY DEF TypeOK, CallRecord
<1>2. [x EXCEPT !.at = v, !.failed = w] = [y EXCEPT !.failed = w]
  BY Zenon DEF y
<1> HIDE DEF x
<1>3. y = [at |-> v, op |-> x.op, seq |-> x.seq, failed |-> x.failed]
  BY <1>1, OneField
<1> HIDE DEF y
<1>4. [y EXCEPT !.failed = w] = [at |-> v, op |-> x.op, seq |-> x.seq, failed |-> w]
  BY <1>3, OneField
<1> QED
  BY <1>2, <1>4, Zenon DEF x

\* The record of a request that goes to a place.
LEMMA Going ==
  ASSUME TypeOK, NEW r \in Request, NEW op \in Operation, NEW place, Goes(r, op, place),
         place \in {"host"} \cup Segment \cup Lookups \cup Spawned
  PROVE  \E c \in CallRecord : /\ call' = [call EXCEPT ![r] = c]
                              /\ c.at = place /\ c.op = op /\ c.seq = call[r].seq
<1> DEFINE c == [at |-> place, op |-> op, seq |-> call[r].seq, failed |-> call[r].failed]
<1>1. call' = [call EXCEPT ![r] = c]
  <2>1. call' = [call EXCEPT ![r] = [call[r] EXCEPT !.at = place, !.op = op]]
    BY DEF Goes, TypeOK
  <2>2. [call[r] EXCEPT !.at = place, !.op = op] = c
    BY PlaceAndOp, Zenon
  <2> QED
    BY <2>1, <2>2
<1>2. c \in CallRecord
  BY DEF TypeOK, CallRecord
<1> QED
  BY <1>1, <1>2

\* Whatever happens, one request takes one turn, or none does.
Turns ==
  /\ UNCHANGED fixed
  /\ \/ UNCHANGED <<call, log, pending, unwritten>>
     \/ \E r \in Request : \E c : Turn(r, c) /\ Logs(r, c)

\* Before the first await.
LEMMA InvokingTurns ==
  ASSUME IInv, NEW r \in Request,
         \/ \E op \in Operation \cup {"none"} : InvokeUnknown(r, op)
         \/ InvokeEnv(r)
         \/ \E op \in PassThrough \cup {"secret"}, granted \in BOOLEAN : Invoke(r, op, granted)
  PROVE  Turns
<1>0. TypeOK
  BY DEF IInv
<1>1. ASSUME NEW op \in Operation \cup {"none"}, InvokeUnknown(r, op) PROVE Turns
  BY <1>0, <1>1, Refusing DEF InvokeUnknown, Turns, fixed, rest
<1>2. CASE InvokeEnv(r)
  <2>1. Denied(Entry("decision", "env", "allow", 0))
    BY DEF Denied, Entry, LogEntry, OwesOutcome, Operation
  <2>2. Turn(r, Over) /\ Logs(r, Over)
    BY <1>0, <1>2, <2>1, OverIsOver, PendingFinite DEF InvokeEnv, Ends, Turn, Logs, Quiet, Denies
  <2> QED
    BY <1>2, <2>2 DEF InvokeEnv, Turns, fixed, rest
<1>3. ASSUME NEW op \in PassThrough \cup {"secret"}, NEW granted \in BOOLEAN, Invoke(r, op, granted)
      PROVE  Turns
  <2>0. UNCHANGED <<fixed, unwritten>> /\ Free(r) /\ op \in Operation
    BY <1>3 DEF Invoke, fixed, rest, Operation
  <2>1. CASE ~Room(2)
    <3>1. Turn(r, Over) /\ Logs(r, Over)
      BY <1>0, <1>3, <2>0, <2>1, OverIsOver, PendingFinite DEF Invoke, Ends, Turn, Logs, Quiet
    <3> QED
      BY <2>0, <3>1 DEF Turns
  <2>2. CASE Room(2) /\ ~granted
    <3>1. GrantFailure(r, op, PassedTo(op)) /\ PassedTo(op) \in Decided
      BY <1>3, <2>2 DEF Invoke, PassedTo, Decided
    <3>2. mode = "shadow" => \A c : c.at = PassedTo(op) /\ c.op = op => PlaceOK(c)
      BY DEF PassedTo, PlaceOK
    <3> QED
      BY <1>0, <2>0, <3>1, <3>2, Failing DEF Turns
  <2>3. CASE Room(2) /\ granted /\ LookupOf(op) = "none"
    <3>1. Decide(r, op, "allow", "host") /\ Effect(op, "allow") /\ "host" \in Decided
      BY <1>3, <2>3 DEF Invoke, Effect, Decided
    <3>2. \A c : c.at = "host" /\ c.op = op => PlaceOK(c)
      BY DEF PlaceOK
    <3> QED
      BY <1>0, <2>0, <3>1, <3>2, Deciding DEF Turns
  <2>4. CASE Room(2) /\ granted /\ LookupOf(op) # "none"
    <3>1. Goes(r, op, LookupOf(op)) /\ UNCHANGED <<log, pending>>
      BY <1>3, <2>4 DEF Invoke
    <3>2. \/ op = "read" /\ LookupOf(op) = "canonical"
          \/ op = "connect" /\ LookupOf(op) = "pinning"
          \/ op = "spawn" /\ LookupOf(op) = "resolving"
      BY <2>4 DEF LookupOf, PassThrough
    <3>3. PICK c \in CallRecord : /\ call' = [call EXCEPT ![r] = c]
                                 /\ c.at = LookupOf(op) /\ c.op = op /\ c.seq = call[r].seq
      BY <1>0, <2>0, <3>1, <3>2, Going DEF Lookups
    <3>4. PlaceOK(c) /\ c.at \notin Segment /\ c.at \notin Decided
      BY <3>2, <3>3 DEF PlaceOK, Segment, Decided, Spawned
    <3> QED
      BY <1>0, <2>0, <3>1, <3>3, <3>4, Moving DEF Turns
  <2> QED
    BY <2>1, <2>2, <2>3, <2>4
<1> QED
  BY <1>1, <1>2, <1>3

\* Lookups and effects of the host, other than children.
LEMMA HostTurns ==
  ASSUME IInv, NEW r \in Request,
         Checked(r) \/ ShadowAddress(r) \/ Unreachable(r) \/ HostAnswers(r)
  PROVE  Turns
<1>0. TypeOK /\ PlaceOK(call[r])
  BY DEF IInv, Places
<1>1. CASE Checked(r)
  <2>0. UNCHANGED <<fixed, unwritten>> /\ Free(r)
    BY <1>1 DEF Checked, fixed, rest
  <2> DEFINE op == call[r].op
  <2>1. op \in {"read", "connect"} /\ op \in PassThrough /\ (call[r].at = "pinning" => op = "connect")
    BY <1>0, <1>1 DEF Checked, PlaceOK, PassThrough
  <2>2. {"host", "unreachable"} \subseteq Decided
    BY DEF Decided, Segment
  <2>3. (\A c : c.at = "host" => PlaceOK(c)) /\ (\A c : c.at = "unreachable" /\ c.op = "connect" => PlaceOK(c))
    BY DEF PlaceOK
  <2>4. CASE Decide(r, op, "allow", "host")
    <3>1. Effect(op, "allow")
      BY <2>1 DEF Effect
    <3> HIDE DEF op
    <3> QED
      BY <1>0, <2>0, <2>2, <2>3, <2>4, <3>1, Deciding DEF Turns
  <2>5. CASE GrantFailure(r, op, "host")
    <3> HIDE DEF op
    <3> QED
      BY <1>0, <2>0, <2>1, <2>2, <2>3, <2>5, Failing DEF Turns
  <2>6. CASE GrantFailure(r, "connect", "unreachable")
    BY <1>0, <2>0, <2>2, <2>3, <2>6, Failing DEF Turns, PassThrough
  <2> QED
    BY <1>1, <2>4, <2>5, <2>6 DEF Checked
<1>2. CASE ShadowAddress(r)
  <2>1. PICK place \in {"host", "unreachable"} : Goes(r, "connect", place)
    BY <1>2 DEF ShadowAddress
  <2>2. PICK c \in CallRecord : /\ call' = [call EXCEPT ![r] = c]
                               /\ c.at = place /\ c.op = "connect" /\ c.seq = call[r].seq
    BY <1>0, <2>1, Going DEF Operation, PassThrough, Segment
  <2>3. PlaceOK(c) /\ call[r].op = "connect" /\ call[r].at \in Decided
    BY <1>0, <1>2, <2>2 DEF PlaceOK, ShadowAddress, Decided
  <2> QED
    BY <1>0, <1>2, <2>2, <2>3, Moving DEF ShadowAddress, Turns, fixed, rest
<1>3. CASE Unreachable(r) \/ HostAnswers(r)
  <2>1. call[r].at \in Decided
    BY <1>3 DEF Unreachable, HostAnswers, Decided, Segment
  <2> QED
    BY <1>0, <1>3, <2>1, Settling DEF Unreachable, HostAnswers, Turns, fixed, rest
<1> QED
  BY <1>1, <1>2, <1>3

\* Children.
LEMMA SpawnTurns ==
  ASSUME IInv, NEW r \in Request,
         \/ \E found \in BOOLEAN : ResolveExecutable(r, found) \/ ShadowFile(r, found)
         \/ SpawnThrows(r) \/ SpawnStarts(r) \/ SpawnFails(r)
         \/ \E readable \in BOOLEAN : Output(r, readable)
         \/ \E armed \in BOOLEAN : TimerFires(r, armed)
         \/ DoneResolves(r) \/ DoneRejects(r) \/ Reaped(r)
  PROVE  Turns
<1>0. TypeOK /\ PlaceOK(call[r]) /\ call[r] \in CallRecord /\ "spawn" \in Operation
  BY DEF IInv, Places, TypeOK, Operation, PassThrough
<1>1. ASSUME NEW found \in BOOLEAN, ResolveExecutable(r, found) PROVE Turns
  <2>0. UNCHANGED <<fixed, unwritten>> /\ Free(r) /\ "spawn" \in PassThrough
    BY <1>1 DEF ResolveExecutable, fixed, rest, PassThrough
  <2>1. {"spawning", "file"} \subseteq Decided
    BY DEF Decided, Segment
  <2>2. /\ \A c : c.at = "spawning" /\ c.op = "spawn" => PlaceOK(c)
        /\ mode = "shadow" => \A c : c.at = "file" /\ c.op = "spawn" => PlaceOK(c)
    BY DEF PlaceOK
  <2>3. CASE Decide(r, "spawn", "allow", "spawning")
    <3>1. Effect("spawn", "allow")
      BY DEF Effect, PassThrough
    <3> QED
      BY <1>0, <2>0, <2>1, <2>2, <2>3, <3>1, Deciding DEF Turns
  <2>4. CASE GrantFailure(r, "spawn", "spawning") \/ GrantFailure(r, "spawn", "file")
    BY <1>0, <2>0, <2>1, <2>2, <2>4, Failing DEF Turns
  <2> QED
    BY <1>1, <2>3, <2>4 DEF ResolveExecutable
<1>2. ASSUME NEW found \in BOOLEAN, ShadowFile(r, found) PROVE Turns
  <2>0. call[r].at \in Decided /\ call[r].op = "spawn" /\ UNCHANGED fixed /\ Free(r)
    BY <1>0, <1>2 DEF ShadowFile, Decided, PlaceOK, fixed, rest
  <2>1. CASE found
    <3>1. PICK c \in CallRecord : /\ call' = [call EXCEPT ![r] = c]
                                 /\ c.at = "spawning" /\ c.op = "spawn" /\ c.seq = call[r].seq
      BY <1>0, <1>2, <2>1, Going DEF ShadowFile, Segment
    <3>2. PlaceOK(c)
      BY <3>1 DEF PlaceOK
    <3> QED
      BY <1>0, <1>2, <2>0, <2>1, <3>1, <3>2, Moving DEF ShadowFile, Turns
  <2>2. CASE ~found
    BY <1>0, <1>2, <2>0, <2>2, Settling DEF ShadowFile, Turns
  <2> QED
    BY <2>1, <2>2
<1>3. CASE SpawnThrows(r) \/ DoneResolves(r) \/ Reaped(r)
  <2>1. call[r].at \in Decided
    BY <1>3 DEF SpawnThrows, DoneResolves, Reaped, Decided, Segment, Spawned
  <2>2. Ends(r) /\ UNCHANGED fixed /\ \E what \in {"ok", "failed"} : Outcome(r, what)
    BY <1>3 DEF SpawnThrows, DoneResolves, Reaped, Releases, fixed, rest
  <2> QED
    BY <1>0, <2>1, <2>2, Settling DEF Turns
<1>4. CASE SpawnStarts(r) \/ SpawnFails(r)
  <2>0. call[r].at = "spawning" /\ UNCHANGED <<fixed, log, pending, unwritten>>
    BY <1>4 DEF SpawnStarts, SpawnFails, fixed, rest
  <2>1. call[r].at \in Decided /\ call[r].op = "spawn"
    BY <1>0, <2>0 DEF Decided, Segment, PlaceOK
  <2>2. PICK place \in Spawned : Goes(r, "spawn", place)
    BY <1>4 DEF SpawnStarts, SpawnFails, Spawned
  <2>3. PICK c \in CallRecord : /\ call' = [call EXCEPT ![r] = c]
                               /\ c.at = place /\ c.op = "spawn" /\ c.seq = call[r].seq
    BY <1>0, <2>2, Going
  <2>4. PlaceOK(c) /\ c.at \notin Segment
    BY <2>3 DEF PlaceOK, Segment, Spawned
  <2> QED
    BY <1>0, <2>0, <2>1, <2>3, <2>4, Moving DEF Turns
<1>5. ASSUME NEW failed \in BOOLEAN, NEW place \in {call[r].at, "reaping"},
             call' = [call EXCEPT ![r].at = place, ![r].failed = failed], call[r].at \in Spawned,
             UNCHANGED <<fixed, log, pending, unwritten>>
      PROVE  Turns
  <2> DEFINE c == [at |-> place, op |-> call[r].op, seq |-> call[r].seq, failed |-> failed]
  <2>1. call' = [call EXCEPT ![r] = c]
    <3>1. call' = [call EXCEPT ![r] = [call[r] EXCEPT !.at = place, !.failed = failed]]
      BY <1>0, <1>5 DEF TypeOK
    <3>2. [call[r] EXCEPT !.at = place, !.failed = failed] = c
      BY <1>0, PlaceAndFailed, Zenon
    <3> QED
      BY <3>1, <3>2
  <2>2. c \in CallRecord /\ PlaceOK(c) /\ c.at \notin Segment /\ call[r].at \in Decided
    BY <1>0, <1>5 DEF CallRecord, PlaceOK, Segment, Spawned, Decided
  <2>3. c.seq = call[r].seq /\ c.op = call[r].op
    OBVIOUS
  <2> HIDE DEF c
  <2> QED
    BY <1>0, <1>5, <2>1, <2>2, <2>3, Moving DEF Turns
<1>6. ASSUME NEW failed \in BOOLEAN, call' = [call EXCEPT ![r].failed = failed]
      PROVE  call' = [call EXCEPT ![r].at = call[r].at, ![r].failed = failed]
  BY <1>0, <1>6 DEF TypeOK, CallRecord
<1>7. ASSUME NEW readable \in BOOLEAN, Output(r, readable) PROVE Turns
  <2> DEFINE failed == call[r].failed \/ ~readable
  <2>1. failed \in BOOLEAN /\ call' = [call EXCEPT ![r].failed = failed] /\ call[r].at \in Spawned
        /\ UNCHANGED <<fixed, log, pending, unwritten>>
    BY <1>0, <1>7 DEF Output, fixed, rest, CallRecord
  <2> HIDE DEF failed
  <2> QED
    BY <2>1, <1>5, <1>6
<1>8. ASSUME NEW armed \in BOOLEAN, TimerFires(r, armed) PROVE Turns
  <2> DEFINE failed == call[r].failed \/ (timer[r] > 1 /\ ~armed)
  <2>0. UNCHANGED <<fixed, log, pending, unwritten>>
    BY <1>8 DEF TimerFires, fixed, rest
  <2>1. CASE call[r].at \in Spawned
    <3>1. failed \in BOOLEAN /\ call' = [call EXCEPT ![r].failed = failed]
      BY <1>0, <1>8, <2>1 DEF TimerFires, CallRecord
    <3> HIDE DEF failed
    <3> QED
      BY <2>0, <2>1, <3>1, <1>5, <1>6
  <2>2. CASE call[r].at \notin Spawned
    BY <1>8, <2>0, <2>2 DEF TimerFires, Turns
  <2> QED
    BY <2>1, <2>2
<1>9. CASE DoneRejects(r)
  <2>1. call' = [call EXCEPT ![r].at = "reaping", ![r].failed = TRUE] /\ call[r].at \in Spawned
        /\ UNCHANGED <<fixed, log, pending, unwritten>>
    BY <1>9 DEF DoneRejects, fixed, rest, Spawned
  <2> QED
    BY <2>1, <1>5
<1> QED
  BY <1>1, <1>2, <1>3, <1>4, <1>7, <1>8, <1>9

\* Every step.
LEMMA StepTurns ==
  ASSUME IInv, Next
  PROVE  Turns
<1>1. ASSUME NEW r \in Request, ChildEnds(r, "running") \/ ChildEnds(r, "killed") \/ ReportsEnd(r) PROVE Turns
  BY <1>1 DEF ChildEnds, ReportsEnd, Turns, fixed, rest
<1>2. CASE ClockChanges
  BY <1>2 DEF ClockChanges, Turns, fixed
<1> QED
  BY <1>1, <1>2, InvokingTurns, HostTurns, SpawnTurns DEF Next, Proceeds

\* The log stays as the verifier wants it.
LEMMA LogStays ==
  ASSUME IInv, Turns
  PROVE  LogOK'
<1>1. TypeOK /\ LogOK /\ Claims /\ UNCHANGED fixed
  BY DEF IInv, LogOK, TypeOK, Turns
<1>2. CASE UNCHANGED <<call, log, pending, unwritten>>
  BY <1>1, <1>2 DEF LogOK, Entries, EntryOK, OwesOutcome, Debts, RoomKept, fixed
<1>3. ASSUME NEW r \in Request, NEW c, Turn(r, c), Logs(r, c)
      PROVE  LogOK'
  <2>1. CASE Quiet(r, c)
    <3>1. UNCHANGED <<log, pending, unwritten, mode, maxAuditEntries>>
      BY <1>1, <2>1 DEF Quiet, fixed
    <3>2. Entries' /\ Debts'
      BY <1>1, <3>1 DEF LogOK, Entries, EntryOK, OwesOutcome, Debts
    <3> QED
      BY <1>1, <3>1, <3>2 DEF LogOK, RoomKept
  <2>2. CASE Denies(c)
    BY <1>1, <2>2, DeniedKeeps DEF Denies
  <2>3. CASE Grants(c)
    <3>1. PICK what : Effect(c.op, what) /\ log' = Append(log, Entry("decision", c.op, what, 0))
      BY <2>3 DEF Grants
    <3> QED
      BY <1>1, <2>3, <3>1, DecidedKeeps DEF Grants
  <2>4. CASE Settles(r, c)
    <3>1. PICK what \in {"ok", "failed"} : Outcome(r, what)
      BY <2>4 DEF Settles
    <3>2. call[r].seq \in pending /\ log[call[r].seq].op = call[r].op
      BY <1>1, <2>4 DEF Settles, Claims
    <3> QED
      BY <1>1, <3>1, <3>2, OutcomeKeeps
  <2> QED
    BY <1>3, <2>1, <2>2, <2>3, <2>4 DEF Logs
<1> QED
  BY <1>2, <1>3 DEF Turns

\* Requests stay in fitting places, and one at a time in a segment.
LEMMA CallsStay ==
  ASSUME IInv, Turns
  PROVE  /\ call' \in [Request -> CallRecord]
         /\ \A r \in Request : call'[r].seq <= maxAuditEntries'
         /\ Places' /\ OneSegment'
<1>1. TypeOK /\ Places /\ OneSegment /\ UNCHANGED fixed
  BY DEF IInv, Turns
<1>2. CASE UNCHANGED <<call, log, pending, unwritten>>
  BY <1>1, <1>2 DEF TypeOK, Places, PlaceOK, OneSegment, fixed
<1>3. ASSUME NEW r \in Request, NEW c, Turn(r, c)
      PROVE  /\ call' \in [Request -> CallRecord]
             /\ \A q \in Request : call'[q].seq <= maxAuditEntries'
             /\ Places' /\ OneSegment'
  <2>1. /\ call' \in [Request -> CallRecord] /\ call'[r] = c
        /\ \A q \in Request \ {r} : call'[q] = call[q]
    BY <1>1, <1>3 DEF Turn, TypeOK
  <2>2. \A q \in Request : call'[q].seq <= maxAuditEntries'
    BY <1>1, <1>3, <2>1 DEF Turn, TypeOK, fixed
  <2>3. Places'
    BY <1>1, <1>3, <2>1 DEF Turn, Places, PlaceOK, fixed
  <2>4. OneSegment'
    BY <1>1, <1>3, <2>1 DEF Turn, OneSegment, Free
  <2> QED
    BY <2>1, <2>2, <2>3, <2>4
<1> QED
  BY <1>2, <1>3 DEF Turns

\* A request that is decided keeps its claim, and shares it with nobody.
LEMMA ClaimsStay ==
  ASSUME IInv, Turns
  PROVE  Claims'
<1>1. TypeOK /\ Claims /\ Len(log) \in Nat
  BY PendingFinite DEF IInv
<1>2. CASE UNCHANGED <<call, log, pending, unwritten>>
  BY <1>1, <1>2 DEF Claims
<1>3. ASSUME NEW r \in Request, NEW c, Turn(r, c), Logs(r, c)
      PROVE  Claims'
  <2>1. /\ call'[r] = c
        /\ \A q \in Request \ {r} : call'[q] = call[q]
    BY <1>1, <1>3 DEF Turn, TypeOK
  <2>2. CASE Quiet(r, c)
    <3>1. c.at \in Decided => call[r].at \in Decided /\ c.seq = call[r].seq /\ c.op = call[r].op
      BY <2>2 DEF Quiet
    <3> QED
      BY <1>1, <2>1, <2>2, <3>1 DEF Quiet, Claims
  <2>3. CASE Denies(c)
    <3>1. c.at \notin Decided /\ pending' = pending /\ \A i \in 1..Len(log) : log'[i] = log[i]
      BY <1>1, <2>3, Appending DEF Denies, Denied
    <3>2. \A i \in pending : i \in 1..Len(log)
      BY <1>1 DEF TypeOK
    <3> QED
      BY <1>1, <2>1, <3>1, <3>2 DEF Claims
  <2>4. CASE Grants(c)
    <3>1. PICK what : Effect(c.op, what) /\ log' = Append(log, Entry("decision", c.op, what, 0))
      BY <2>4 DEF Grants
    <3> DEFINE e == Entry("decision", c.op, what, 0)
    <3>2. e \in LogEntry /\ e.op = c.op
      BY <3>1 DEF Entry, LogEntry, Effect, Operation, PassThrough
    <3>3. log'[Len(log) + 1] = e /\ \A i \in 1..Len(log) : log'[i] = log[i]
      BY <1>1, <3>1, <3>2, Appending
    <3>4. pending' = pending \cup {Len(log) + 1} /\ c.seq = Len(log) + 1
      BY <2>4 DEF Grants
    <3>5. \A i \in pending : i \in 1..Len(log) /\ i # Len(log) + 1
      BY <1>1 DEF TypeOK
    <3> HIDE DEF e
    <3> QED
      BY <1>1, <2>1, <3>2, <3>3, <3>4, <3>5 DEF Claims
  <2>5. CASE Settles(r, c)
    <3>1. PICK what \in {"ok", "failed"} : Outcome(r, what)
      BY <2>5 DEF Settles
    <3>2. \A i \in pending : i \in 1..Len(log)
      BY <1>1 DEF TypeOK
    <3>3. /\ pending' = pending \ {call[r].seq} /\ c.at \notin Decided /\ call[r].at \in Decided
          /\ \A i \in 1..Len(log) : log'[i] = log[i]
      <4>1. pending' = pending \ {call[r].seq} /\ c.at \notin Decided /\ call[r].at \in Decided
        BY <2>5, <3>1 DEF Settles, Outcome
      <4>2. log' = log \/ \E e : log' = Append(log, e)
        BY <3>1 DEF Outcome
      <4>3. ASSUME NEW e, log' = Append(log, e) PROVE \A i \in 1..Len(log) : log'[i] = log[i]
        BY <1>1, <4>3 DEF TypeOK
      <4> QED
        BY <4>1, <4>2, <4>3
    <3>4. \A q \in Request \ {r} : call[q].at \in Decided => call[q].seq # call[r].seq
      BY <1>1, <3>3 DEF Claims
    <3> QED
      BY <1>1, <2>1, <3>2, <3>3, <3>4 DEF Claims
  <2> QED
    BY <1>3, <2>2, <2>3, <2>4, <2>5 DEF Logs
<1> QED
  BY <1>2, <1>3 DEF Turns

-----------------------------------------------------------------------------
(* What a step does to the children.                                       *)

\* One request may begin or end a child, or begin to spawn one, with a slot in enforce mode.
Account(r) ==
  /\ UNCHANGED <<mode, late>>
  /\ \A q \in Request \ {r} : call'[q].at = call[q].at /\ child'[q] = child[q]
  /\ activeChildren' = activeChildren + (IF call'[r].at \in Spawned THEN 1 ELSE 0)
                                      - (IF call[r].at \in Spawned THEN 1 ELSE 0)
  /\ child'[r] \in {"running", "killed", "ended"} => call'[r].at \in Spawned
  /\ child'[r] = "reported" => call'[r].at = "ended"
  /\ call'[r].at \in Spawned /\ call[r].at \notin Spawned => call[r].at = "spawning"
  /\ mode = "enforce" /\ call'[r].at = "spawning" =>
       activeChildren < MaxChildren /\ call[r].at \notin Spawned

\* Then every child has its slot.
LEMMA Accounting ==
  ASSUME IInv, NEW r \in Request, Account(r)
  PROVE  Slots' /\ ChildrenAccounted'
<1> DEFINE S == {q \in Request : call[q].at \in Spawned}
           T == {q \in Request : call'[q].at \in Spawned}
<1>0. TypeOK /\ OneSegment /\ Slots /\ ChildrenAccounted
  BY DEF IInv
<1>1. IsFiniteSet(S) /\ Cardinality(S) \in Nat /\ activeChildren = Cardinality(S)
  BY <1>0, FS_CardinalityType DEF Slots, ChildrenAccounted
<1>2. T = IF call'[r].at \in Spawned THEN S \cup {r} ELSE S \ {r}
  BY DEF Account
<1>3. IsFiniteSet(T) /\ Cardinality(T) = activeChildren'
  <2>1. /\ r \in S <=> call[r].at \in Spawned
        /\ activeChildren' = activeChildren + (IF call'[r].at \in Spawned THEN 1 ELSE 0)
                                            - (IF call[r].at \in Spawned THEN 1 ELSE 0)
    BY DEF Account
  <2> HIDE DEF S, T
  <2>2. /\ IsFiniteSet(S \cup {r}) /\ IsFiniteSet(S \ {r})
        /\ Cardinality(S \cup {r}) = IF r \in S THEN Cardinality(S) ELSE Cardinality(S) + 1
        /\ Cardinality(S \ {r}) = IF r \in S THEN Cardinality(S) - 1 ELSE Cardinality(S)
    BY <1>1, FS_AddElement, FS_RemoveElement
  <2> QED
    BY <1>1, <1>2, <2>1, <2>2
<1>4. mode' = "enforce" => activeChildren' <= MaxChildren
  BY <1>0, <1>1, BoundsAssumption DEF Account, Slots, ChildrenAccounted
<1>5. ASSUME mode' = "enforce", NEW q \in Request, call'[q].at = "spawning"
      PROVE  activeChildren' < MaxChildren
  <2>1. CASE q = r
    BY <1>1, <1>5, <2>1 DEF Account, Spawned
  <2>2. CASE q # r
    <3>1. call[q].at = "spawning" /\ call[r].at # "spawning"
      BY <1>0, <1>5, <2>2 DEF Account, OneSegment, Segment
    <3> QED
      BY <1>0, <1>1, <1>5, <3>1, BoundsAssumption DEF Account, Slots
  <2> QED
    BY <2>1, <2>2
<1>6. Slots'
  BY <1>0, <1>3, <1>5 DEF Slots, Account
<1>7. ChildrenAccounted'
  BY <1>0, <1>3, <1>4 DEF ChildrenAccounted, Account
<1> QED
  BY <1>6, <1>7

\* The step is about one request, which goes to one of these places.
Lands(r, places) ==
  /\ \A q \in Request \ {r} : call'[q] = call[q]
  /\ call'[r].at \in places

\* Where the ways to go on lead.
LEMMA Landing ==
  ASSUME TypeOK, NEW r \in Request
  PROVE  /\ Ends(r) => Lands(r, {"ended"})
         /\ \A op, place : Goes(r, op, place) => Lands(r, {place})
         /\ \A op, what, place : Decide(r, op, what, place) => Lands(r, {place, "ended"})
         /\ \A op, place : GrantFailure(r, op, place) =>
              Lands(r, {place, "ended"}) /\ (mode = "enforce" => Lands(r, {"ended"}))
<1>1. Ends(r) => Lands(r, {"ended"})
  BY DEF Ends, Over, Nothing, Lands, TypeOK
<1>2. ASSUME NEW op, NEW place, Goes(r, op, place) PROVE Lands(r, {place})
  BY <1>2 DEF Goes, Lands, TypeOK, CallRecord
<1>3. ASSUME NEW op, NEW what, NEW place, Decide(r, op, what, place) PROVE Lands(r, {place, "ended"})
  <2>1. CASE Room(2) /\ clock
    BY <1>3, <2>1 DEF Decide, Lands, TypeOK, CallRecord
  <2>2. CASE ~(Room(2) /\ clock)
    BY <1>1, <1>3, <2>2 DEF Decide, Lands
  <2> QED
    BY <2>1, <2>2
<1>4. ASSUME NEW op, NEW place, GrantFailure(r, op, place)
      PROVE  Lands(r, {place, "ended"}) /\ (mode = "enforce" => Lands(r, {"ended"}))
  BY <1>1, <1>3, <1>4 DEF GrantFailure, Refuse, Lands
<1> QED
  BY <1>1, <1>2, <1>3, <1>4

\* A step outside of the life of a child.
LEMMA Bystanding ==
  ASSUME IInv, NEW r \in Request, UNCHANGED <<mode, children>>, NEW places, Lands(r, places),
         places \cap Spawned = {}, call[r].at \notin Spawned \cup {"ended"},
         mode = "enforce" /\ "spawning" \in places => activeChildren < MaxChildren
  PROVE  Account(r)
<1>1. TypeOK /\ Slots /\ ChildrenAccounted
  BY DEF IInv
<1>2. child'[r] \notin {"running", "killed", "ended", "reported"}
  BY <1>1 DEF Slots, ChildrenAccounted, children
<1>3. activeChildren \in Nat
  BY <1>1 DEF TypeOK
<1> QED
  BY <1>1, <1>2, <1>3 DEF Account, Lands, children

\* Before the first await.
LEMMA InvokingAccounts ==
  ASSUME IInv, NEW r \in Request,
         \/ \E op \in Operation \cup {"none"} : InvokeUnknown(r, op)
         \/ InvokeEnv(r)
         \/ \E op \in PassThrough \cup {"secret"}, granted \in BOOLEAN : Invoke(r, op, granted)
  PROVE  Account(r)
<1>0. TypeOK
  BY DEF IInv
<1> DEFINE places == {"ended", "host"} \cup Lookups
<1>1. Lands(r, places)
  <2>1. ASSUME NEW op \in Operation \cup {"none"}, InvokeUnknown(r, op) PROVE Lands(r, places)
    BY <1>0, <2>1, Landing DEF InvokeUnknown, Refuse, Lands
  <2>2. CASE InvokeEnv(r)
    BY <1>0, <2>2, Landing DEF InvokeEnv, Lands
  <2>3. ASSUME NEW op \in PassThrough \cup {"secret"}, NEW granted \in BOOLEAN, Invoke(r, op, granted)
        PROVE  Lands(r, places)
    <3>1. PassedTo(op) \in places
      BY DEF PassedTo, Lookups
    <3>2. LookupOf(op) # "none" => LookupOf(op) \in places
      BY DEF LookupOf, Lookups
    <3>3. CASE Ends(r)
      BY <1>0, <3>3, Landing DEF Lands
    <3>4. CASE GrantFailure(r, op, PassedTo(op))
      <4>1. Lands(r, {PassedTo(op), "ended"})
        BY <1>0, <3>4, Landing
      <4> QED
        BY <3>1, <4>1 DEF Lands
    <3>5. CASE Decide(r, op, "allow", "host")
      <4>1. Lands(r, {"host", "ended"})
        BY <1>0, <3>5, Landing
      <4> QED
        BY <4>1 DEF Lands
    <3>6. CASE Goes(r, op, LookupOf(op)) /\ LookupOf(op) # "none"
      <4>1. Lands(r, {LookupOf(op)})
        BY <1>0, <3>6, Landing
      <4> QED
        BY <3>2, <3>6, <4>1 DEF Lands
    <3> QED
      BY <2>3, <3>3, <3>4, <3>5, <3>6 DEF Invoke
  <2> QED
    BY <2>1, <2>2, <2>3
<1>2. call[r].at = "idle" /\ UNCHANGED <<mode, children>>
  BY DEF InvokeUnknown, InvokeEnv, Invoke, rest
<1>3. places \cap Spawned = {} /\ "spawning" \notin places /\ "idle" \notin Spawned \cup {"ended"}
  BY DEF Lookups, Spawned
<1> HIDE DEF places
<1> QED
  BY <1>1, <1>2, <1>3, Bystanding

\* Lookups and effects of the host, other than children.
LEMMA HostAccounts ==
  ASSUME IInv, NEW r \in Request,
         Checked(r) \/ ShadowAddress(r) \/ Unreachable(r) \/ HostAnswers(r)
  PROVE  Account(r)
<1>0. TypeOK
  BY DEF IInv
<1> DEFINE places == {"ended", "host", "unreachable"}
<1>1. Lands(r, places)
  <2>1. CASE Checked(r)
    BY <1>0, <2>1, Landing DEF Checked, Lands
  <2>2. CASE ShadowAddress(r)
    BY <1>0, <2>2, Landing DEF ShadowAddress, Lands
  <2>3. CASE Unreachable(r) \/ HostAnswers(r)
    BY <1>0, <2>3, Landing DEF Unreachable, HostAnswers, Lands
  <2> QED
    BY <2>1, <2>2, <2>3
<1>2. call[r].at \in {"canonical", "pinning", "address", "unreachable", "host"} /\ UNCHANGED <<mode, children>>
  BY DEF Checked, ShadowAddress, Unreachable, HostAnswers, rest
<1>3. /\ places \cap Spawned = {} /\ "spawning" \notin places
      /\ call[r].at \notin Spawned \cup {"ended"}
  BY <1>2 DEF Spawned
<1> HIDE DEF places
<1> QED
  BY <1>1, <1>2, <1>3, Bystanding

\* On the way to a child: enforce mode starts one only with a slot.
LEMMA SpawningAccounts ==
  ASSUME IInv, NEW r \in Request,
         \/ \E found \in BOOLEAN : ResolveExecutable(r, found) \/ ShadowFile(r, found)
         \/ SpawnThrows(r)
  PROVE  Account(r)
<1>0. TypeOK /\ PlaceOK(call[r]) /\ activeChildren \in Nat
  BY DEF IInv, Places, TypeOK
<1>1. call[r].at \in {"resolving", "file", "spawning"} /\ UNCHANGED <<mode, children>>
  BY DEF ResolveExecutable, ShadowFile, SpawnThrows, rest
<1>2. call[r].at \notin Spawned \cup {"ended"} /\ {"file", "spawning", "ended"} \cap Spawned = {}
  BY <1>1 DEF Spawned
<1>3. \/ Lands(r, {"file", "ended"})
      \/ Lands(r, {"spawning", "file", "ended"}) /\ (mode = "shadow" \/ activeChildren < MaxChildren)
  <2>1. ASSUME NEW found \in BOOLEAN, ResolveExecutable(r, found)
        PROVE  \/ Lands(r, {"file", "ended"})
               \/ Lands(r, {"spawning", "file", "ended"}) /\ (mode = "shadow" \/ activeChildren < MaxChildren)
    <3>1. CASE Decide(r, "spawn", "allow", "spawning") /\ activeChildren < MaxChildren
      <4>1. Lands(r, {"spawning", "ended"})
        BY <1>0, <3>1, Landing
      <4> QED
        BY <3>1, <4>1 DEF Lands
    <3>2. ASSUME NEW place \in {"spawning", "file"}, GrantFailure(r, "spawn", place)
          PROVE  \/ Lands(r, {"file", "ended"})
                 \/ Lands(r, {"spawning", "file", "ended"}) /\ mode = "shadow"
      <4>1. Lands(r, {place, "ended"}) /\ (mode = "enforce" => Lands(r, {"ended"}))
        BY <1>0, <3>2, Landing
      <4> QED
        BY <1>0, <4>1 DEF Lands, TypeOK
    <3> QED
      BY <2>1, <3>1, <3>2 DEF ResolveExecutable
  <2>2. ASSUME NEW found \in BOOLEAN, ShadowFile(r, found)
        PROVE  Lands(r, {"spawning", "file", "ended"}) /\ mode = "shadow"
    <3>1. Lands(r, {"spawning"}) \/ Lands(r, {"ended"})
      BY <1>0, <2>2, Landing DEF ShadowFile
    <3>2. mode = "shadow"
      BY <1>0, <2>2 DEF ShadowFile, PlaceOK
    <3> QED
      BY <3>1, <3>2 DEF Lands
  <2>3. CASE SpawnThrows(r)
    BY <1>0, <2>3, Landing DEF SpawnThrows, Lands
  <2> QED
    BY <2>1, <2>2, <2>3
<1>4. CASE Lands(r, {"file", "ended"})
  BY <1>1, <1>2, <1>4, Bystanding
<1>5. CASE Lands(r, {"spawning", "file", "ended"}) /\ (mode = "shadow" \/ activeChildren < MaxChildren)
  BY <1>1, <1>2, <1>5, Bystanding
<1> QED
  BY <1>3, <1>4, <1>5

\* A child begins, lives and ends.
LEMMA ChildAccounts ==
  ASSUME IInv, NEW r \in Request,
         \/ SpawnStarts(r) \/ SpawnFails(r)
         \/ \E readable \in BOOLEAN : Output(r, readable)
         \/ \E armed \in BOOLEAN : TimerFires(r, armed)
         \/ DoneResolves(r) \/ DoneRejects(r) \/ Reaped(r)
         \/ ChildEnds(r, "running") \/ ChildEnds(r, "killed") \/ ReportsEnd(r)
  PROVE  Account(r)
<1>0. /\ TypeOK /\ Slots /\ ChildrenAccounted /\ activeChildren \in Nat
      /\ \A q \in Request : call[q] \in CallRecord
  BY DEF IInv, TypeOK
<1>1. CASE SpawnStarts(r) \/ SpawnFails(r)
  <2>1. Lands(r, {"child", "reaping"})
    BY <1>0, <1>1, Landing DEF SpawnStarts, SpawnFails, Lands
  <2>2. /\ call[r].at = "spawning" /\ activeChildren' = activeChildren + 1
        /\ UNCHANGED <<mode, late>> /\ child'[r] # "reported"
        /\ \A q \in Request \ {r} : child'[q] = child[q]
    BY <1>0, <1>1 DEF SpawnStarts, SpawnFails, rest, TypeOK
  <2> QED
    BY <1>0, <2>1, <2>2 DEF Account, Lands, Spawned
<1>2. CASE DoneResolves(r) \/ Reaped(r)
  <2>1. Lands(r, {"ended"})
    BY <1>0, <1>2, Landing DEF DoneResolves, Reaped, Releases
  <2>2. /\ call[r].at \in Spawned /\ activeChildren' = activeChildren - 1
        /\ UNCHANGED <<mode, late>> /\ child'[r] \in {"reported", "lost"}
        /\ \A q \in Request \ {r} : child'[q] = child[q]
    BY <1>0, <1>2 DEF DoneResolves, Reaped, Releases, rest, TypeOK, Spawned
  <2> QED
    BY <1>0, <2>1, <2>2 DEF Account, Lands, Spawned
<1>3. ASSUME \A q \in Request : call'[q].at \in Spawned <=> call[q].at \in Spawned,
             \A q \in Request : call'[q].at = call[q].at \/ (q = r /\ call[r].at \in Spawned),
             UNCHANGED <<mode, late, activeChildren>>,
             \A q \in Request \ {r} : child'[q] = child[q],
             child'[r] = child[r] \/ (call[r].at \in Spawned /\ child'[r] # "reported")
      PROVE  Account(r)
  <2>1. child'[r] \in {"running", "killed", "ended"} => call'[r].at \in Spawned
    BY <1>0, <1>3 DEF ChildrenAccounted
  <2>2. child'[r] = "reported" => call'[r].at = "ended"
    BY <1>0, <1>3 DEF Slots, Spawned
  <2>3. call'[r].at = "spawning" => call[r].at = "spawning"
    BY <1>3 DEF Spawned
  <2>4. \A q \in Request \ {r} : call'[q].at = call[q].at
    BY <1>3
  <2>5. mode = "enforce" /\ call'[r].at = "spawning" => activeChildren < MaxChildren /\ call[r].at \notin Spawned
    BY <1>0, <2>3 DEF Slots, Spawned
  <2> QED
    BY <1>0, <1>3, <2>1, <2>2, <2>4, <2>5 DEF Account
<1>4. call[r].at \in Spawned => child[r] # "reported"
  BY <1>0 DEF Slots, Spawned
<1>5. ASSUME NEW readable \in BOOLEAN, Output(r, readable) PROVE Account(r)
  <2>1. call[r].at \in Spawned /\ \A q \in Request : call'[q].at = call[q].at
    BY <1>0, <1>5 DEF Output, TypeOK, CallRecord
  <2>2. /\ UNCHANGED <<mode, late, activeChildren>> /\ child'[r] # "reported"
        /\ \A q \in Request \ {r} : child'[q] = child[q]
    BY <1>0, <1>4, <1>5 DEF Output, Kill, rest, TypeOK
  <2> QED
    BY <1>3, <2>1, <2>2
<1>6. ASSUME NEW armed \in BOOLEAN, TimerFires(r, armed) PROVE Account(r)
  <2>1. \A q \in Request : call'[q].at = call[q].at
    <3>1. CASE call[r].at \in Spawned
      BY <1>0, <1>6, <3>1 DEF TimerFires, TypeOK, CallRecord
    <3>2. CASE call[r].at \notin Spawned
      BY <1>6, <3>2 DEF TimerFires
    <3> QED
      BY <3>1, <3>2
  <2>2. UNCHANGED <<mode, activeChildren>>
    BY <1>6 DEF TimerFires, rest
  <2>3. \/ UNCHANGED <<child, late>>
        \/ call[r].at \in Spawned /\ Kill(r, child[r])
    BY <1>6 DEF TimerFires
  <2>4. CASE call[r].at \in Spawned /\ Kill(r, child[r])
    <3>1. /\ UNCHANGED late /\ child'[r] # "reported"
          /\ \A q \in Request \ {r} : child'[q] = child[q]
      BY <1>0, <1>4, <2>4 DEF Kill, TypeOK
    <3> QED
      BY <1>3, <2>1, <2>2, <2>4, <3>1
  <2>5. CASE UNCHANGED <<child, late>>
    BY <1>3, <2>1, <2>2, <2>5
  <2> QED
    BY <2>3, <2>4, <2>5
<1>7. CASE DoneRejects(r)
  <2>1. /\ call[r].at = "child" /\ call'[r].at = "reaping"
        /\ \A q \in Request \ {r} : call'[q].at = call[q].at
    BY <1>0, <1>7 DEF DoneRejects, TypeOK, CallRecord
  <2>2. /\ UNCHANGED <<mode, late, activeChildren>> /\ child'[r] # "reported"
        /\ \A q \in Request \ {r} : child'[q] = child[q]
    BY <1>0, <1>4, <1>7, <2>1 DEF DoneRejects, Kill, rest, TypeOK, Spawned
  <2> QED
    BY <1>3, <2>1, <2>2 DEF Spawned
<1>8. CASE ChildEnds(r, "running") \/ ChildEnds(r, "killed") \/ ReportsEnd(r)
  <2>1. call[r].at \in Spawned
    BY <1>0, <1>8 DEF ChildEnds, ReportsEnd, ChildrenAccounted
  <2>2. /\ UNCHANGED <<mode, late, activeChildren, call>> /\ child'[r] # "reported"
        /\ \A q \in Request \ {r} : child'[q] = child[q]
    BY <1>0, <1>8 DEF ChildEnds, ReportsEnd, rest, TypeOK
  <2> QED
    BY <1>3, <2>1, <2>2
<1> QED
  BY <1>1, <1>2, <1>5, <1>6, <1>7, <1>8

\* Whatever happens, every child has its slot.
LEMMA SlotsStay ==
  ASSUME IInv, Next
  PROVE  Slots' /\ ChildrenAccounted'
<1>1. CASE ClockChanges
  BY <1>1 DEF ClockChanges, children, IInv, Slots, ChildrenAccounted
<1>2. ASSUME NEW r \in Request, Account(r) PROVE Slots' /\ ChildrenAccounted'
  BY <1>2, Accounting
<1>3. ASSUME NEW r \in Request,
             \/ \E op \in Operation \cup {"none"} : InvokeUnknown(r, op)
             \/ InvokeEnv(r)
             \/ \E op \in PassThrough \cup {"secret"}, granted \in BOOLEAN : Invoke(r, op, granted)
             \/ Proceeds(r)
             \/ \E readable \in BOOLEAN : Output(r, readable)
             \/ ChildEnds(r, "running") \/ DoneRejects(r) \/ ReportsEnd(r)
      PROVE  Account(r)
  BY <1>3, InvokingAccounts, HostAccounts, SpawningAccounts, ChildAccounts DEF Proceeds
<1> QED
  BY <1>1, <1>2, <1>3 DEF Next

\* What the steps leave of the other variables' types.
LEMMA RestStays ==
  ASSUME IInv, Next
  PROVE  /\ mode' = mode /\ maxAuditEntries' = maxAuditEntries /\ clock' \in BOOLEAN /\ faults' \in 0..MaxFaults
         /\ child' \in [Request -> {"none", "running", "killed", "ended", "reported", "lost"}]
         /\ timer' \in [Request -> 0..Links]
         /\ late' \subseteq Request
<1> DEFINE Good == /\ mode' = mode /\ maxAuditEntries' = maxAuditEntries
                   /\ clock' \in BOOLEAN /\ faults' \in 0..MaxFaults
                   /\ child' \in [Request -> {"none", "running", "killed", "ended", "reported", "lost"}]
                   /\ timer' \in [Request -> 0..Links]
                   /\ late' \subseteq Request
<1>0. TypeOK /\ Links \in Nat \ {0} /\ MaxFaults \in Nat
  BY BoundsAssumption DEF IInv
<1>1. CASE ClockChanges
  BY <1>0, <1>1 DEF ClockChanges, children, TypeOK
<1>2. ASSUME UNCHANGED <<rest, children>> PROVE Good
  BY <1>0, <1>2 DEF rest, children, TypeOK
<1>3. ASSUME NEW r \in Request,
             \/ \E op \in Operation \cup {"none"} : InvokeUnknown(r, op)
             \/ InvokeEnv(r)
             \/ \E op \in PassThrough \cup {"secret"}, granted \in BOOLEAN : Invoke(r, op, granted)
             \/ Checked(r) \/ ShadowAddress(r) \/ Unreachable(r) \/ HostAnswers(r)
             \/ \E found \in BOOLEAN : ResolveExecutable(r, found) \/ ShadowFile(r, found)
             \/ SpawnThrows(r)
      PROVE  Good
  <2>1. UNCHANGED <<rest, children>>
    BY <1>3 DEF InvokeUnknown, InvokeEnv, Invoke, Checked, ShadowAddress, Unreachable, HostAnswers,
                ResolveExecutable, ShadowFile, SpawnThrows
  <2> QED
    BY <1>2, <2>1
<1>4. ASSUME NEW r \in Request, SpawnStarts(r) \/ SpawnFails(r) PROVE Good
  <2>1. \/ timer' = timer
        \/ timer' = [timer EXCEPT ![r] = Links]
    BY <1>4 DEF SpawnStarts, SpawnFails
  <2>2. timer' \in [Request -> 0..Links]
    <3>1. Links \in 0..Links
      BY <1>0
    <3> QED
      BY <1>0, <2>1, <3>1 DEF TypeOK
  <2>3. PICK now \in {"running", "killed", "lost"} : child' = [child EXCEPT ![r] = now]
    BY <1>4 DEF SpawnStarts, SpawnFails
  <2>4. UNCHANGED <<rest, late>>
    BY <1>4 DEF SpawnStarts, SpawnFails
  <2> QED
    BY <1>0, <2>2, <2>3, <2>4 DEF rest, TypeOK
<1>5. ASSUME NEW r \in Request, NEW now \in {"lost", child[r]}, Kill(r, now), UNCHANGED rest,
             timer' = timer \/ \E left \in 0..Links : timer' = [timer EXCEPT ![r] = left]
      PROVE  Good
  <2>1. child' \in [Request -> {"none", "running", "killed", "ended", "reported", "lost"}] /\ late' \subseteq Request
    BY <1>0, <1>5 DEF Kill, TypeOK
  <2> QED
    BY <1>0, <1>5, <2>1 DEF rest, TypeOK
<1>6. ASSUME NEW r \in Request, NEW armed \in BOOLEAN, TimerFires(r, armed) PROVE Good
  <2>1. \E left \in 0..Links : timer' = [timer EXCEPT ![r] = left]
    <3>1. CASE call[r].at \notin Spawned
      BY <1>0, <1>6, <3>1 DEF TimerFires
    <3>2. CASE call[r].at \in Spawned
      <4>1. timer' = [timer EXCEPT ![r] = IF armed THEN timer[r] - 1 ELSE 0]
        BY <1>6, <3>2 DEF TimerFires
      <4>2. (IF armed THEN timer[r] - 1 ELSE 0) \in 0..Links
        BY <1>0, <1>6 DEF TimerFires, TypeOK
      <4> QED
        BY <4>1, <4>2
    <3> QED
      BY <3>1, <3>2
  <2>2. CASE Kill(r, child[r])
    BY <1>5, <1>6, <2>1, <2>2 DEF TimerFires
  <2>3. CASE UNCHANGED <<child, late>>
    BY <1>0, <1>6, <2>1, <2>3 DEF TimerFires, rest, TypeOK
  <2> QED
    BY <1>6, <2>2, <2>3 DEF TimerFires
<1>7. ASSUME NEW r \in Request, (\E readable \in BOOLEAN : Output(r, readable)) \/ DoneRejects(r) PROVE Good
  <2>1. (Kill(r, child[r]) \/ Kill(r, "lost")) /\ UNCHANGED <<rest, timer>>
    BY <1>7 DEF Output, DoneRejects
  <2> QED
    BY <1>5, <2>1
<1>8. ASSUME NEW r \in Request, DoneResolves(r) \/ Reaped(r) PROVE Good
  <2>1. timer' \in [Request -> 0..Links]
    <3>1. PICK left \in {0, timer[r]} : timer' = [timer EXCEPT ![r] = left]
      BY <1>8 DEF DoneResolves, Reaped, Releases
    <3>2. left \in 0..Links
      BY <1>0 DEF TypeOK
    <3> QED
      BY <1>0, <3>1, <3>2 DEF TypeOK
  <2>2. child' \in [Request -> {"none", "running", "killed", "ended", "reported", "lost"}]
    BY <1>0, <1>8 DEF DoneResolves, Reaped, TypeOK
  <2>3. UNCHANGED <<rest, late>>
    BY <1>8 DEF DoneResolves, Reaped
  <2> QED
    BY <1>0, <2>1, <2>2, <2>3 DEF rest, TypeOK
<1>9. ASSUME NEW r \in Request, ChildEnds(r, "running") \/ ChildEnds(r, "killed") \/ ReportsEnd(r) PROVE Good
  BY <1>0, <1>9 DEF ChildEnds, ReportsEnd, rest, TypeOK
<1> HIDE DEF Good
<1>10. Good
  BY <1>1, <1>3, <1>4, <1>6, <1>7, <1>8, <1>9 DEF Next, Proceeds, Good
<1> QED
  BY <1>10 DEF Good

-----------------------------------------------------------------------------
(* The theorems.                                                           *)

\* At the start nothing is logged, owed or held.
LEMMA InitHolds ==
  ASSUME Init
  PROVE  IInv
<1>1. log \in Seq(LogEntry) /\ Len(log) = 0
  BY DEF Init
<1>2. {r \in Request : call[r].at \in Spawned} = {}
  BY DEF Init, Nothing, Spawned
<1>3. IsFiniteSet({}) /\ Cardinality({}) = 0
  BY FS_EmptySet
<1>4. TypeOK
  <2>1. call \in [Request -> CallRecord] /\ \A r \in Request : call[r].seq = 0
    BY DEF Init, Nothing, CallRecord
  <2>2. 0 <= maxAuditEntries /\ 0 \in 0..MaxFaults /\ 0 \in 0..Links
    BY BoundsAssumption DEF Init
  <2> QED
    BY <1>1, <2>1, <2>2 DEF Init, TypeOK
<1>5. Places /\ OneSegment /\ Claims
  BY DEF Init, Nothing, Places, PlaceOK, OneSegment, Claims, Segment, Decided, Spawned
<1>6. Entries /\ Debts
  BY <1>1 DEF Init, Entries, Debts
<1>7. RoomKept
  BY <1>1, <1>3, BoundsAssumption DEF Init, RoomKept
<1>8. Slots /\ ChildrenAccounted
  <2> DEFINE S == {r \in Request : call[r].at \in Spawned}
  <2>1. S = {} /\ IsFiniteSet(S) /\ Cardinality(S) = 0
    BY <1>2, <1>3
  <2>2. activeChildren = 0 /\ late = {} /\ 0 <= MaxChildren
    BY BoundsAssumption DEF Init
  <2>3. \A r \in Request : call[r].at = "idle" /\ child[r] = "none"
    BY DEF Init, Nothing
  <2>4. Slots
    BY <2>1, <2>3 DEF Slots
  <2>5. ChildrenAccounted
    BY <2>1, <2>2, <2>3 DEF ChildrenAccounted
  <2> QED
    BY <2>4, <2>5
<1> QED
  BY <1>4, <1>5, <1>6, <1>7, <1>8 DEF IInv

\* Every step keeps the invariant.
LEMMA StepKeeps ==
  ASSUME IInv, [Next]_gateVars
  PROVE  IInv'
<1>1. CASE UNCHANGED gateVars
  BY <1>1 DEF gateVars, IInv, TypeOK, Places, PlaceOK, OneSegment, Claims, Entries, EntryOK, OwesOutcome, Debts,
              RoomKept, Slots, ChildrenAccounted
<1>2. CASE Next
  <2>1. Turns
    BY <1>2, StepTurns
  <2>2. LogOK' /\ Claims' /\ Places' /\ OneSegment' /\ Slots' /\ ChildrenAccounted'
    BY <1>2, <2>1, LogStays, CallsStay, ClaimsStay, SlotsStay
  <2>3. activeChildren' \in Nat
    BY <2>2, FS_CardinalityType DEF Slots, ChildrenAccounted
  <2>4. TypeOK'
    <3>1. mode' \in {"enforce", "shadow"} /\ maxAuditEntries' \in Capacities
      BY <1>2, RestStays DEF IInv, TypeOK
    <3> QED
      BY <1>2, <2>1, <2>2, <2>3, <3>1, CallsStay, RestStays DEF TypeOK, LogOK
  <2> QED
    BY <2>2, <2>4 DEF IInv, LogOK
<1> QED
  BY <1>1, <1>2

\* The invariant holds in every state that the gate reaches.
THEOREM Inductive == Spec => []IInv
<1>1. Init => IInv
  BY InitHolds
<1>2. IInv /\ [Next]_gateVars => IInv'
  BY StepKeeps
<1> QED
  BY <1>1, <1>2, PTL DEF Spec

\* The gate's variables keep their types: no slot is ever released twice, and no sequence
\* number leaves the capacity of the log.
THEOREM TypeCorrect == Spec => []TypeOK
<1>1. IInv => TypeOK
  BY DEF IInv
<1> QED
  BY <1>1, Inductive, PTL

\* The verifier, run over the log at any moment, rejects nothing and misses only what the clock took.
LEMMA VerifierAgrees ==
  ASSUME IInv
  PROVE  AuditVerifies
<1> DEFINE all      == 1..Len(log)
           owed     == {i \in all : OwesOutcome(log[i])}
           outcomes == {i \in all : log[i].phase = "outcome"}
           orphans  == {i \in outcomes : LET s == log[i].seq IN s >= i \/ s \notin owed \/ log[s].op # log[i].op}
           duplicates == {i \in outcomes : \E j \in outcomes : j < i /\ log[j].seq = log[i].seq}
           softened == {i \in all : log[i].what = "would-deny" /\ (mode # "shadow" \/ log[i].op \notin PassThrough)}
           unknown  == {i \in all : log[i].op = "none" /\ log[i].what # "deny"}
           settled  == {log[i].seq : i \in outcomes \ orphans}
<1>0. TypeOK /\ Entries /\ Debts /\ RoomKept /\ Len(log) \in Nat
  BY PendingFinite DEF IInv
<1>1. ASSUME NEW i \in outcomes
      PROVE  /\ log[i].seq \in 1..(i - 1) /\ log[i].seq \in owed /\ log[i].seq \notin pending \cup unwritten
             /\ log[log[i].seq].op = log[i].op
             /\ \A j \in outcomes : j < i => log[j].seq # log[i].seq
  BY <1>0 DEF Entries, EntryOK
<1>2. orphans = {} /\ duplicates = {}
  BY <1>0, <1>1
<1>3. softened = {} /\ unknown = {}
  BY <1>0 DEF Entries, EntryOK
<1>4. owed \ (settled \cup pending) = unwritten
  <2>1. ASSUME NEW i \in owed, i \notin settled \cup pending PROVE i \in unwritten
    <3>1. \A j \in outcomes : log[j].seq # i
      BY <1>2, <2>1
    <3> QED
      BY <1>0, <2>1, <3>1 DEF Debts
  <2>2. ASSUME NEW i \in unwritten PROVE i \in owed /\ i \notin settled /\ i \notin pending
    <3>1. i \in owed /\ i \notin pending
      BY <1>0 DEF Debts, TypeOK
    <3>2. i \notin settled
      BY <1>1
    <3> QED
      BY <3>1, <3>2
  <2> QED
    BY <2>1, <2>2
<1>5. /\ Rejected(log, pending, mode).wrong = orphans \cup duplicates \cup softened \cup unknown
      /\ Rejected(log, pending, mode).missing = owed \ (settled \cup pending)
  BY DEF Rejected
<1> HIDE DEF orphans, duplicates, softened, unknown, owed, settled
<1> QED
  BY <1>0, <1>2, <1>3, <1>4, <1>5 DEF AuditVerifies, RoomKept

\* Whatever runs at the same time and whatever fails, the audit log has room for every outcome
\* that is owed and verifies at every moment.
THEOREM AuditVerifiesCorrect == Spec => []AuditVerifies
<1>1. IInv => AuditVerifies
  BY VerifierAgrees
<1> QED
  BY <1>1, Inductive, PTL

\* A slot is held exactly while a child may run, on every path of errors, and nothing is killed
\* after the host reported it gone.
THEOREM ChildrenAccountedCorrect == Spec => []ChildrenAccounted
<1>1. IInv => ChildrenAccounted
  BY DEF IInv
<1> QED
  BY <1>1, Inductive, PTL

-----------------------------------------------------------------------------
(* How far a request is from its end.                                      *)

\* Places by their distance from the end.
Rank(place) ==
  IF place \in {"canonical", "pinning", "resolving"} THEN 6
  ELSE IF place \in {"address", "file"} THEN 5
  ELSE IF place = "spawning" THEN 4
  ELSE IF place = "child" THEN 3
  ELSE IF place \in {"host", "unreachable", "reaping"} THEN 2 ELSE 0

Alive(c) == IF c = "running" THEN 2 ELSE IF c = "killed" THEN 1 ELSE 0

\* A bound on the steps that the gate, its timers and the host take for a request from now on.
StepsLeft(r) == (Links + 3) * Rank(call[r].at) + timer[r] + Alive(child[r])

\* A wait for a child has something that ends it: the timer of one that runs is armed, and one
\* that is gone is not waited for.
EndInSight(place, now, links) ==
  /\ place = "child" => now \in {"running", "killed", "ended"}
  /\ place = "child" /\ now = "running" => links > 0
  /\ place = "reaping" => now \in {"killed", "ended", "lost"}

Stoppable == \A r \in Request : EndInSight(call[r].at, child[r], timer[r])

Others(r) ==
  \A q \in Request \ {r} : call'[q].at = call[q].at /\ child'[q] = child[q] /\ timer'[q] = timer[q]

Enters(r) == call[r].at = "idle" /\ call'[r].at \notin Spawned

\* It gets to a place further on, without a child or with none any more.
Passes(r) ==
  /\ Rank(call'[r].at) < Rank(call[r].at) /\ call'[r].at \notin Spawned
  /\ timer'[r] <= timer[r]

\* It gets a child.
Starts(r) ==
  /\ call[r].at = "spawning"
  /\ \/ call'[r].at = "child" /\ child'[r] \in {"running", "killed"} /\ timer'[r] = Links
     \/ call'[r].at = "reaping" /\ child'[r] \in {"killed", "lost"} /\ timer'[r] = timer[r]

\* Its timer or its child comes nearer to the end.
Wears(r) ==
  /\ call'[r].at = call[r].at
  /\ timer'[r] + Alive(child'[r]) < timer[r] + Alive(child[r])
  /\ child'[r] \in {child[r], "killed", "ended"}
  /\ call[r].at = "child" /\ child'[r] = "running" => timer'[r] > 0

\* Its child changes by itself, or because of its output or its reports.
Slips(r) ==
  /\ timer'[r] = timer[r] /\ Alive(child'[r]) <= Alive(child[r])
  /\ \/ call'[r].at = call[r].at /\ child'[r] \in {"killed", "ended"}
     \/ call[r].at \in Spawned /\ call'[r].at = "reaping" /\ child'[r] = "lost"

\* What the gate, the timers and the host do for a request brings it nearer to its end.
LEMMA ProceedsNearer ==
  ASSUME IInv, NEW r \in Request, Proceeds(r)
  PROVE  Others(r) /\ (Passes(r) \/ Starts(r) \/ Wears(r))
<1>0. /\ TypeOK /\ call[r] \in CallRecord /\ timer[r] \in Nat /\ Links \in Nat
  BY BoundsAssumption DEF IInv, TypeOK
<1>1. ASSUME NEW places, Lands(r, places), UNCHANGED <<child, timer>>,
             \A place \in places : Rank(place) < Rank(call[r].at) /\ place \notin Spawned
      PROVE  Others(r) /\ Passes(r)
  BY <1>0, <1>1 DEF Lands, Others, Passes
<1>2. CASE Checked(r) \/ ShadowAddress(r) \/ Unreachable(r) \/ HostAnswers(r)
  <2> DEFINE places == IF call[r].at \in {"host", "unreachable"} THEN {"ended"} ELSE {"ended", "host", "unreachable"}
  <2>1. Lands(r, places)
    <3>1. CASE Checked(r)
      BY <1>0, <3>1, Landing DEF Checked, Lands
    <3>2. CASE ShadowAddress(r)
      BY <1>0, <3>2, Landing DEF ShadowAddress, Lands
    <3>3. CASE Unreachable(r) \/ HostAnswers(r)
      BY <1>0, <3>3, Landing DEF Unreachable, HostAnswers, Lands
    <3> QED
      BY <1>2, <3>1, <3>2, <3>3
  <2>2. /\ call[r].at \in {"canonical", "pinning", "address", "unreachable", "host"}
        /\ UNCHANGED <<child, timer>>
    BY <1>2 DEF Checked, ShadowAddress, Unreachable, HostAnswers, children
  <2>3. \A place \in places : Rank(place) < Rank(call[r].at) /\ place \notin Spawned
    BY <2>2 DEF Rank, Spawned
  <2> HIDE DEF places
  <2> QED
    BY <1>1, <2>1, <2>2, <2>3
<1>3. CASE (\E found \in BOOLEAN : ResolveExecutable(r, found) \/ ShadowFile(r, found)) \/ SpawnThrows(r)
  <2>0. UNCHANGED <<child, timer>>
    BY <1>3 DEF ResolveExecutable, ShadowFile, SpawnThrows, children
  <2>1. CASE \E found \in BOOLEAN : ResolveExecutable(r, found)
    <3>1. call[r].at = "resolving" /\ Lands(r, {"spawning", "file", "ended"})
      BY <1>0, <2>1, Landing DEF ResolveExecutable, Lands
    <3>2. \A place \in {"spawning", "file", "ended"} : Rank(place) < Rank(call[r].at) /\ place \notin Spawned
      BY <3>1 DEF Rank, Spawned
    <3> QED
      BY <1>1, <2>0, <3>1, <3>2
  <2>2. CASE \E found \in BOOLEAN : ShadowFile(r, found)
    <3>1. call[r].at = "file" /\ Lands(r, {"spawning", "ended"})
      BY <1>0, <2>2, Landing DEF ShadowFile, Lands
    <3>2. \A place \in {"spawning", "ended"} : Rank(place) < Rank(call[r].at) /\ place \notin Spawned
      BY <3>1 DEF Rank, Spawned
    <3> QED
      BY <1>1, <2>0, <3>1, <3>2
  <2>3. CASE SpawnThrows(r)
    <3>1. call[r].at = "spawning" /\ Lands(r, {"ended"})
      BY <1>0, <2>3, Landing DEF SpawnThrows, Lands
    <3>2. \A place \in {"ended"} : Rank(place) < Rank(call[r].at) /\ place \notin Spawned
      BY <3>1 DEF Rank, Spawned
    <3> QED
      BY <1>1, <2>0, <3>1, <3>2
  <2> QED
    BY <1>3, <2>1, <2>2, <2>3
<1>4. CASE SpawnStarts(r)
  <2>1. call[r].at = "spawning" /\ Lands(r, {"child"})
    BY <1>0, <1>4, Landing DEF SpawnStarts
  <2>2. /\ child'[r] \in {"running", "killed"} /\ timer'[r] = Links
        /\ \A q \in Request \ {r} : child'[q] = child[q] /\ timer'[q] = timer[q]
    BY <1>0, <1>4 DEF SpawnStarts, TypeOK
  <2> QED
    BY <2>1, <2>2 DEF Lands, Others, Starts
<1>5. CASE SpawnFails(r)
  <2>1. call[r].at = "spawning" /\ Lands(r, {"reaping"})
    BY <1>0, <1>5, Landing DEF SpawnFails
  <2>2. /\ child'[r] \in {"killed", "lost"} /\ timer' = timer
        /\ \A q \in Request \ {r} : child'[q] = child[q]
    BY <1>0, <1>5 DEF SpawnFails, TypeOK
  <2> QED
    BY <2>1, <2>2 DEF Lands, Others, Starts
<1>6. ASSUME NEW armed \in BOOLEAN, TimerFires(r, armed) PROVE Others(r) /\ Wears(r)
  <2>1. \A q \in Request : call'[q].at = call[q].at
    <3>1. CASE call[r].at \in Spawned
      BY <1>0, <1>6, <3>1 DEF TimerFires, TypeOK, CallRecord
    <3>2. CASE call[r].at \notin Spawned
      BY <1>6, <3>2 DEF TimerFires
    <3> QED
      BY <3>1, <3>2
  <2>2. /\ timer[r] > 0 /\ timer'[r] \in {0, timer[r] - 1}
        /\ \A q \in Request \ {r} : timer'[q] = timer[q]
    BY <1>0, <1>6 DEF TimerFires, TypeOK
  <2>3. \/ child' = child
        \/ child' = [child EXCEPT ![r] = IF child[r] = "running" THEN "killed" ELSE child[r]]
    BY <1>6 DEF TimerFires, Kill
  <2>4. /\ child'[r] = child[r] \/ (child[r] = "running" /\ child'[r] = "killed")
        /\ \A q \in Request \ {r} : child'[q] = child[q]
    BY <1>0, <2>3 DEF TypeOK
  <2>5. call[r].at = "child" /\ child'[r] = "running" => timer'[r] > 0
    <3>1. SUFFICES ASSUME call[r].at = "child", child'[r] = "running" PROVE timer'[r] > 0
      OBVIOUS
    <3>2. timer[r] # 1 /\ armed
      BY <1>0, <1>6, <3>1 DEF TimerFires, Kill, Spawned, TypeOK
    <3>3. timer'[r] = timer[r] - 1
      BY <1>0, <1>6, <3>1, <3>2 DEF TimerFires, Spawned, TypeOK
    <3> QED
      BY <1>0, <2>2, <3>2, <3>3
  <2> QED
    BY <1>0, <2>1, <2>2, <2>4, <2>5 DEF Others, Wears, Alive
<1>7. CASE DoneResolves(r) \/ Reaped(r)
  <2>1. call[r].at \in Spawned /\ Lands(r, {"ended"})
    BY <1>0, <1>7, Landing DEF DoneResolves, Reaped, Releases, Spawned
  <2>2. /\ timer'[r] \in {0, timer[r]}
        /\ \A q \in Request \ {r} : child'[q] = child[q] /\ timer'[q] = timer[q]
    BY <1>0, <1>7 DEF DoneResolves, Reaped, Releases, TypeOK
  <2> QED
    BY <1>0, <2>1, <2>2 DEF Lands, Others, Passes, Rank, Spawned
<1>8. CASE ChildEnds(r, "killed")
  <2>1. /\ child[r] = "killed" /\ child'[r] = "ended" /\ UNCHANGED <<call, timer>>
        /\ \A q \in Request \ {r} : child'[q] = child[q]
    BY <1>0, <1>8 DEF ChildEnds, TypeOK
  <2> QED
    BY <1>0, <2>1 DEF Others, Wears, Alive
<1> QED
  BY <1>2, <1>3, <1>4, <1>5, <1>6, <1>7, <1>8 DEF Proceeds

\* Whatever else happens to a request does not take it further away.
LEMMA OtherwiseSlips ==
  ASSUME IInv, NEW r \in Request,
         \/ \E readable \in BOOLEAN : Output(r, readable)
         \/ ChildEnds(r, "running") \/ DoneRejects(r) \/ ReportsEnd(r)
  PROVE  Others(r) /\ Slips(r)
<1>0. TypeOK /\ call[r] \in CallRecord
  BY DEF IInv, TypeOK
<1>1. ASSUME NEW readable \in BOOLEAN, Output(r, readable) PROVE Others(r) /\ Slips(r)
  <2>1. timer' = timer /\ \A q \in Request : call'[q].at = call[q].at
    BY <1>0, <1>1 DEF Output, TypeOK, CallRecord
  <2>2. /\ child[r] \in {"running", "killed", "ended"}
        /\ child'[r] = IF child[r] = "running" THEN "killed" ELSE child[r]
        /\ \A q \in Request \ {r} : child'[q] = child[q]
    BY <1>0, <1>1 DEF Output, Kill, TypeOK
  <2> QED
    BY <2>1, <2>2 DEF Others, Slips, Alive
<1>2. CASE DoneRejects(r)
  <2>1. /\ call[r].at = "child" /\ call'[r].at = "reaping" /\ timer' = timer
        /\ \A q \in Request \ {r} : call'[q].at = call[q].at
    BY <1>0, <1>2 DEF DoneRejects, TypeOK, CallRecord
  <2>2. child'[r] = "lost" /\ \A q \in Request \ {r} : child'[q] = child[q]
    BY <1>0, <1>2 DEF DoneRejects, Kill, TypeOK
  <2> QED
    BY <2>1, <2>2 DEF Others, Slips, Alive, Spawned
<1>3. CASE ChildEnds(r, "running")
  BY <1>0, <1>3 DEF ChildEnds, Others, Slips, Alive, TypeOK
<1>4. CASE ReportsEnd(r)
  BY <1>0, <1>4 DEF ReportsEnd, Others, Slips, Alive, Spawned, TypeOK
<1> QED
  BY <1>1, <1>2, <1>3, <1>4

\* A request that begins has no child yet.
LEMMA InvokeEnters ==
  ASSUME IInv, NEW r \in Request,
         \/ \E op \in Operation \cup {"none"} : InvokeUnknown(r, op)
         \/ InvokeEnv(r)
         \/ \E op \in PassThrough \cup {"secret"}, granted \in BOOLEAN : Invoke(r, op, granted)
  PROVE  Others(r) /\ Enters(r)
<1>1. call[r].at = "idle" /\ UNCHANGED <<child, timer>> /\ activeChildren' = activeChildren
  BY DEF InvokeUnknown, InvokeEnv, Invoke, children
<1>2. Account(r) /\ activeChildren \in Nat
  BY InvokingAccounts DEF IInv, TypeOK
<1>3. call'[r].at \notin Spawned
  BY <1>1, <1>2 DEF Account, Spawned
<1> QED
  BY <1>1, <1>2, <1>3 DEF Others, Enters, Account

\* A step is about one request, or about none.
LEMMA StepFates ==
  ASSUME IInv, [Next]_gateVars
  PROVE  \/ UNCHANGED <<call, child, timer>>
         \/ \E r \in Request : Others(r) /\ (Enters(r) \/ Passes(r) \/ Starts(r) \/ Wears(r) \/ Slips(r))
<1>1. CASE UNCHANGED gateVars \/ ClockChanges
  BY <1>1 DEF gateVars, ClockChanges, children
<1> QED
  BY <1>1, ProceedsNearer, OtherwiseSlips, InvokeEnters DEF Next

\* What it means for the bound.
LEMMA Nearer ==
  ASSUME TypeOK, TypeOK', NEW r \in Request
  PROVE  /\ Passes(r) \/ Starts(r) \/ Wears(r) => StepsLeft(r)' < StepsLeft(r)
         /\ Slips(r) => StepsLeft(r)' <= StepsLeft(r)
<1> DEFINE W == Links + 3
           k == Rank(call[r].at)
           m == Rank(call'[r].at)
<1>1. W \in Nat /\ W = Links + 3 /\ timer[r] \in 0..Links /\ timer'[r] \in 0..Links
  BY BoundsAssumption DEF TypeOK
<1>2. k \in 0..6 /\ m \in 0..6
  BY DEF Rank
<1>3. Alive(child[r]) \in 0..2 /\ Alive(child'[r]) \in 0..2
  BY DEF Alive
<1>4. /\ StepsLeft(r) = W * k + timer[r] + Alive(child[r])
      /\ StepsLeft(r)' = W * m + timer'[r] + Alive(child'[r])
  BY DEF StepsLeft
<1>5. /\ Passes(r) \/ Starts(r) => m < k
      /\ Wears(r) => m = k
      /\ Slips(r) => m <= k
  BY DEF Passes, Starts, Wears, Slips, Rank, Spawned
<1>6. Wears(r) => timer'[r] + Alive(child'[r]) < timer[r] + Alive(child[r])
  BY DEF Wears
<1>7. Slips(r) => timer'[r] = timer[r] /\ Alive(child'[r]) <= Alive(child[r])
  BY DEF Slips
<1> HIDE DEF W, k, m
<1>8. m < k => W * m + W <= W * k
  <2>1. ASSUME NEW a \in 0..6, NEW b \in 0..6, a < b PROVE W * a + W <= W * b
    <3>1. W * 0 = 0 /\ W * 1 = W /\ W * 2 = W + W
      BY <1>1
    <3>2. W * b = W * a + W * (b - a)
      BY <1>1
    <3>3. W * (b - a) >= W
      BY <1>1, <2>1
    <3>4. W * a \in Nat /\ W * b \in Nat /\ W * (b - a) \in Nat
      BY <1>1, <2>1
    <3> QED
      BY <1>1, <3>2, <3>3, <3>4
  <2> QED
    BY <1>2, <2>1
<1>9. W * m \in Nat /\ W * k \in Nat
  BY <1>1, <1>2
<1>10. ASSUME Passes(r) \/ Starts(r) PROVE StepsLeft(r)' < StepsLeft(r)
  <2>1. timer'[r] + Alive(child'[r]) < W
    BY <1>1, <1>3, BoundsAssumption
  <2>2. StepsLeft(r)' < W * m + W
    BY <1>1, <1>3, <1>4, <1>9, <2>1
  <2>3. W * k <= StepsLeft(r)
    BY <1>1, <1>3, <1>4, <1>9
  <2>4. W * m + W <= W * k
    BY <1>5, <1>8, <1>10
  <2>5. StepsLeft(r)' \in Nat /\ StepsLeft(r) \in Nat
    BY <1>1, <1>3, <1>4, <1>9
  <2> HIDE DEF StepsLeft
  <2> QED
    BY <1>1, <1>9, <2>2, <2>3, <2>4, <2>5
<1>11. Wears(r) => StepsLeft(r)' < StepsLeft(r)
  BY <1>1, <1>3, <1>4, <1>5, <1>6, <1>9
<1>12. Slips(r) => StepsLeft(r)' <= StepsLeft(r)
  <2>1. m = k => W * m = W * k
    OBVIOUS
  <2> QED
    BY <1>1, <1>2, <1>3, <1>4, <1>5, <1>7, <1>8, <1>9, <2>1
<1> QED
  BY <1>10, <1>11, <1>12

\* A running child has an armed timer whatever fails: a timer that fires and cannot arm the next link
\* kills the child, so does the last one, and a child whose timer could not be armed was killed at once.
THEOREM StoppableCorrect == Spec => []Stoppable
<1>1. Init => Stoppable
  BY DEF Init, Nothing, Stoppable, EndInSight
<1>2. ASSUME IInv, Stoppable, [Next]_gateVars PROVE Stoppable'
  <2>1. CASE UNCHANGED <<call, child, timer>>
    BY <1>2, <2>1 DEF Stoppable
  <2>2. ASSUME NEW r \in Request, Others(r), Enters(r) \/ Passes(r) \/ Starts(r) \/ Wears(r) \/ Slips(r)
        PROVE  Stoppable'
    <3>1. ASSUME NEW q \in Request \ {r} PROVE EndInSight(call'[q].at, child'[q], timer'[q])
      BY <1>2, <2>2, <3>1 DEF Others, Stoppable
    <3>2. ASSUME Enters(r) \/ Passes(r) PROVE EndInSight(call'[r].at, child'[r], timer'[r])
      BY <3>2 DEF Enters, Passes, Spawned, EndInSight
    <3>3. ASSUME Starts(r) PROVE EndInSight(call'[r].at, child'[r], timer'[r])
      BY <3>3, BoundsAssumption DEF Starts, EndInSight
    <3>4. ASSUME Wears(r) PROVE EndInSight(call'[r].at, child'[r], timer'[r])
      <4>1. EndInSight(call[r].at, child[r], timer[r])
        BY <1>2 DEF Stoppable
      <4> QED
        BY <3>4, <4>1 DEF Wears, EndInSight
    <3>5. ASSUME Slips(r) PROVE EndInSight(call'[r].at, child'[r], timer'[r])
      BY <3>5 DEF Slips, Spawned, EndInSight
    <3>6. EndInSight(call'[r].at, child'[r], timer'[r])
      BY <2>2, <3>2, <3>3, <3>4, <3>5
    <3> QED
      BY <3>1, <3>6 DEF Stoppable
  <2> QED
    BY <1>2, <2>1, <2>2, StepFates
<1>3. IInv /\ Stoppable /\ [Next]_gateVars => Stoppable'
  BY <1>2
<1> QED
  BY <1>1, <1>3, Inductive, PTL DEF Spec

\* Every step that the gate, its timers or the host take for a request leaves it fewer of them, and
\* nothing else that happens gives it more.  So after it was invoked it takes no more than
\* 7 * (Links + 3) of them, and RequestsEnd comes down to that each of them is taken.
THEOREM StepsAreCounted ==
  Spec => [][\A r \in Request : call[r].at # "idle" =>
               /\ StepsLeft(r)' \in 0..StepsLeft(r) /\ StepsLeft(r) <= 7 * (Links + 3)
               /\ Proceeds(r) => StepsLeft(r)' < StepsLeft(r)]_gateVars
<1> DEFINE Counted(r) == /\ StepsLeft(r)' \in 0..StepsLeft(r) /\ StepsLeft(r) <= 7 * (Links + 3)
                         /\ Proceeds(r) => StepsLeft(r)' < StepsLeft(r)
<1>1. ASSUME IInv, IInv', Next, NEW r \in Request, call[r].at # "idle" PROVE Counted(r)
  <2>0. TypeOK /\ TypeOK'
    BY <1>1 DEF IInv
  <2>1. StepsLeft(r) \in 0..(7 * (Links + 3))
    <3>1. timer[r] \in 0..Links /\ Links \in Nat
      BY <2>0, BoundsAssumption DEF TypeOK
    <3> QED
      BY <3>1 DEF StepsLeft, Rank, Alive
  <2>2. StepsLeft(r)' \in Nat
    <3>1. timer'[r] \in 0..Links /\ Links \in Nat
      BY <2>0, BoundsAssumption DEF TypeOK
    <3> QED
      BY <3>1 DEF StepsLeft, Rank, Alive
  <2>3. Proceeds(r) => StepsLeft(r)' < StepsLeft(r)
    BY <1>1, <2>0, ProceedsNearer, Nearer
  <2>4. StepsLeft(r)' <= StepsLeft(r)
    <3>1. CASE call'[r].at = call[r].at /\ child'[r] = child[r] /\ timer'[r] = timer[r]
      <4>1. StepsLeft(r)' = StepsLeft(r)
        BY <3>1 DEF StepsLeft
      <4> QED
        BY <2>1, <4>1
    <3>2. CASE Enters(r) \/ Passes(r) \/ Starts(r) \/ Wears(r) \/ Slips(r)
      <4>1. ~Enters(r)
        BY <1>1 DEF Enters
      <4> QED
        BY <2>0, <2>1, <2>2, <3>2, <4>1, Nearer
    <3> QED
      BY <1>1, <3>1, <3>2, StepFates DEF Others
  <2> QED
    BY <2>1, <2>2, <2>3, <2>4
<1>2. IInv /\ IInv' /\ [Next]_gateVars => [\A r \in Request : call[r].at # "idle" => Counted(r)]_gateVars
  BY <1>1
<1> QED
  BY <1>2, Inductive, PTL DEF Spec
=============================================================================
