--------------------------- MODULE EnforcementGate --------------------------
(***************************************************************************)
(* createEnforcementGate of lib/trust-next/enforcement-gate.mjs: requests  *)
(* of one process reach an injected host only after a decision is on the   *)
(* audit log, and what the host did is logged as its outcome.  The log has *)
(* a capacity, a spawned child a slot and a wall timer, and every step of  *)
(* the host, the timers and the clock may fail.  What runs between two     *)
(* awaits is one action, or several with nothing else between them.        *)
(***************************************************************************)
EXTENDS Integers, Sequences, FiniteSets

CONSTANTS
  Request,      \* calls of invoke
  Capacities,   \* values of maxAuditEntries
  MaxChildren,  \* max_children of the manifest
  Links,        \* timers that add up to wall_ms
  MaxFaults     \* bound on failures of the clock

ASSUME BoundsAssumption ==
  Capacities \subseteq Nat \ {0, 1} /\ MaxChildren \in Nat /\ Links \in Nat \ {0} /\ MaxFaults \in Nat

VARIABLES
  mode, maxAuditEntries, \* of the gate
  log,             \* entries
  pending,         \* decisions that owe an outcome
  activeChildren,
  call,            \* one record per request
  child,           \* the child of a spawn, as the host knows it
  timer,           \* links of its wall timer that are still to come
  clock,           \* whether clock() answers
  faults,
  \* ghosts
  unwritten,       \* decisions whose outcome the clock kept from the log
  late             \* requests that killed a child which the host had reported gone

gateVars == <<mode, maxAuditEntries, log, pending, activeChildren, call, child, timer, clock, faults, unwritten, late>>

\* write goes as read does, and device as secret.
PassThrough == {"read", "connect", "listen", "spawn"}
Operation == PassThrough \cup {"secret", "env"}

Nothing == [at |-> "idle", op |-> "none", seq |-> 0, failed |-> FALSE]
Over == [Nothing EXCEPT !.at = "ended"]

\* Places that are left before anything else runs.
Segment == {"unreachable", "spawning"}
Lookups == {"canonical", "pinning", "address", "resolving", "file"}
Spawned == {"child", "reaping"}

CallRecord == [at : {"idle", "host", "ended"} \cup Segment \cup Lookups \cup Spawned,
               op : Operation \cup {"none"}, seq : Nat, failed : BOOLEAN]

LogEntry == [phase : {"decision", "outcome"}, op : Operation \cup {"none"},
             what : {"allow", "deny", "would-deny", "ok", "failed"}, seq : Nat]

TypeOK ==
  /\ mode \in {"enforce", "shadow"} /\ maxAuditEntries \in Capacities /\ clock \in BOOLEAN /\ faults \in 0..MaxFaults
  /\ log \in Seq(LogEntry)
  /\ pending \subseteq 1..Len(log) /\ unwritten \subseteq 1..Len(log)
  /\ activeChildren \in Nat
  /\ call \in [Request -> CallRecord] /\ \A r \in Request : call[r].seq <= maxAuditEntries
  /\ child \in [Request -> {"none", "running", "killed", "ended", "reported", "lost"}]
  /\ timer \in [Request -> 0..Links]
  /\ late \subseteq Request

Init ==
  /\ mode \in {"enforce", "shadow"} /\ maxAuditEntries \in Capacities
  /\ log = <<>> /\ pending = {} /\ activeChildren = 0
  /\ call = [r \in Request |-> Nothing]
  /\ child = [r \in Request |-> "none"] /\ timer = [r \in Request |-> 0]
  /\ clock = TRUE /\ faults = 0
  /\ unwritten = {} /\ late = {}

-----------------------------------------------------------------------------
(* The audit log. *)

\* Mutant of Room: running requests hold no room.
RoomNow(slots) == Len(log) + slots <= maxAuditEntries

\* reserve: what is written and what is owed count.
Room(slots) == Len(log) + Cardinality(pending) + slots <= maxAuditEntries

\* The log takes an entry while the clock answers.
Entry(phase, op, what, seq) == [phase |-> phase, op |-> op, what |-> what, seq |-> seq]

OwesOutcome(e) == e.phase = "decision" /\ e.what \in {"allow", "would-deny"} /\ e.op \in Operation \ {"env"}

\* verifyAuditLog: entries it rejects, and decisions without an outcome that are not in flight.
Rejected(entries, inFlight, boundMode) ==
  LET all        == 1..Len(entries)
      owed       == {i \in all : OwesOutcome(entries[i])}
      outcomes   == {i \in all : entries[i].phase = "outcome"}
      orphans    == {i \in outcomes : LET s == entries[i].seq IN s >= i \/ s \notin owed \/ entries[s].op # entries[i].op}
      duplicates == {i \in outcomes : \E j \in outcomes : j < i /\ entries[j].seq = entries[i].seq}
      softened   == {i \in all : entries[i].what = "would-deny" /\ (boundMode # "shadow" \/ entries[i].op \notin PassThrough)}
      unknown    == {i \in all : entries[i].op = "none" /\ entries[i].what # "deny"}
      settled    == {entries[i].seq : i \in outcomes \ orphans}
  IN  [wrong |-> orphans \cup duplicates \cup softened \cup unknown, missing |-> owed \ (settled \cup inFlight)]

-----------------------------------------------------------------------------
(* How a request goes on. *)

\* Nothing else runs between two awaits.
Free(r) == \A q \in Request \ {r} : call[q].at \notin Segment

Goes(r, op, place) == call' = [call EXCEPT ![r].at = place, ![r].op = op]
Ends(r) == call' = [call EXCEPT ![r] = Over]

\* refuse: one entry if there is room for it; the request is over in any case.
Refuse(r, op) ==
  /\ log' = IF Room(1) /\ clock THEN Append(log, Entry("decision", op, "deny", 0)) ELSE log
  /\ Ends(r)
  /\ UNCHANGED pending

\* allow, and the would-deny of grantFailure: room for the decision and its outcome, or no effect.
Decide(r, op, what, place) ==
  IF Room(2) /\ clock
  THEN /\ log' = Append(log, Entry("decision", op, what, 0))
       /\ pending' = pending \cup {Len(log) + 1}
       /\ call' = [call EXCEPT ![r].at = place, ![r].op = op, ![r].seq = Len(log) + 1]
  ELSE Ends(r) /\ UNCHANGED <<log, pending>>

\* grantFailure: only shadow mode goes on, and only with what it passes through.
GrantFailure(r, op, place) ==
  IF mode = "enforce" \/ op \notin PassThrough THEN Refuse(r, op) ELSE Decide(r, op, "would-deny", place)

\* outcome: the decision is not in flight any more, whether or not the log took the entry.
Outcome(r, what) ==
  /\ log' = IF Len(log) < maxAuditEntries /\ clock
            THEN Append(log, Entry("outcome", call[r].op, what, call[r].seq)) ELSE log
  /\ unwritten' = IF clock THEN unwritten ELSE unwritten \cup {call[r].seq}
  /\ pending' = pending \ {call[r].seq}

\* kill('SIGKILL') of the handle.
Kill(r, now) ==
  /\ child' = [child EXCEPT ![r] = IF now = "running" THEN "killed" ELSE now]
  /\ late' = IF child[r] = "reported" THEN late \cup {r} ELSE late

rest == <<mode, maxAuditEntries, clock, faults>>
children == <<activeChildren, child, timer, late>>

-----------------------------------------------------------------------------
(* invoke: the checks before the first await. *)

\* Where a granted request waits for the host's lookup, and where one goes that only shadow mode lets by.
LookupOf(op) == CASE op = "read" -> "canonical" [] op = "connect" -> "pinning" [] op = "spawn" -> "resolving"
                  [] OTHER -> "none"
PassedTo(op) == CASE op = "connect" -> "address" [] op = "spawn" -> "file" [] OTHER -> "host"

\* An operation the gate does not know, or for which the host has no method, or an invalid argument.
InvokeUnknown(r, op) ==
  /\ call[r].at = "idle" /\ Free(r)
  /\ Refuse(r, op)
  /\ UNCHANGED <<rest, children, unwritten>>

\* An environment read has no effect, so it owes nothing.
InvokeEnv(r) ==
  /\ call[r].at = "idle" /\ Free(r)
  /\ log' = IF Room(1) /\ clock THEN Append(log, Entry("decision", "env", "allow", 0)) ELSE log
  /\ Ends(r)
  /\ UNCHANGED <<rest, pending, children, unwritten>>

\* Without two free slots no host method is called, not even a lookup.
Invoke(r, op, granted) ==
  /\ call[r].at = "idle" /\ Free(r)
  /\ IF ~Room(2) THEN Ends(r) /\ UNCHANGED <<log, pending>>
     ELSE IF ~granted THEN GrantFailure(r, op, PassedTo(op))
     ELSE IF LookupOf(op) = "none" THEN Decide(r, op, "allow", "host")
     ELSE Goes(r, op, LookupOf(op)) /\ UNCHANGED <<log, pending>>
  /\ UNCHANGED <<rest, children, unwritten>>

-----------------------------------------------------------------------------
(* checkedPath, runConnect and finish. *)

\* The canonical path, or the resolved address, is checked again.
Checked(r) ==
  /\ call[r].at \in {"canonical", "pinning"} /\ Free(r)
  /\ \/ Decide(r, call[r].op, "allow", "host")
     \/ GrantFailure(r, call[r].op, "host")
     \/ call[r].at = "pinning" /\ GrantFailure(r, "connect", "unreachable")
  /\ UNCHANGED <<rest, children, unwritten>>

\* shadowAddress; a literal is its own address and needs no wait.
ShadowAddress(r) ==
  /\ call[r].at = "address" /\ Free(r)
  /\ \E place \in {"host", "unreachable"} : Goes(r, "connect", place)
  /\ UNCHANGED <<rest, log, pending, children, unwritten>>

\* No address: the decision is closed as failed and the host is not called.
Unreachable(r) ==
  /\ call[r].at = "unreachable"
  /\ Outcome(r, "failed") /\ Ends(r)
  /\ UNCHANGED <<rest, children>>

\* finish: the host answered, or failed, or its answer cannot be described.
HostAnswers(r) ==
  /\ call[r].at = "host" /\ Free(r)
  /\ \E what \in {"ok", "failed"} : Outcome(r, what)
  /\ Ends(r)
  /\ UNCHANGED <<rest, children>>

-----------------------------------------------------------------------------
(* runSpawn. *)

\* The capacity is looked at when the file is known; a child over it runs only in shadow mode.
ResolveExecutable(r, found) ==
  /\ call[r].at = "resolving" /\ Free(r)
  /\ IF found /\ activeChildren < MaxChildren THEN Decide(r, "spawn", "allow", "spawning")
     ELSE GrantFailure(r, "spawn", IF found THEN "spawning" ELSE "file")
  /\ UNCHANGED <<rest, children, unwritten>>

\* Shadow mode still needs a file to run.
ShadowFile(r, found) ==
  /\ call[r].at = "file" /\ Free(r)
  /\ IF found THEN Goes(r, "spawn", "spawning") /\ UNCHANGED <<log, pending, unwritten>>
     ELSE Outcome(r, "failed") /\ Ends(r)
  /\ UNCHANGED <<rest, children>>

\* Mutant of SpawnThrows: the slot is released twice, by the catch and by the finally.
SpawnThrowsTwice(r) ==
  /\ call[r].at = "spawning"
  /\ activeChildren' = activeChildren - 1
  /\ Outcome(r, "failed") /\ Ends(r)
  /\ UNCHANGED <<rest, child, timer, late>>

\* host.spawn throws: nothing was started, and the slot is taken and released.
SpawnThrows(r) ==
  /\ call[r].at = "spawning"
  /\ Outcome(r, "failed") /\ Ends(r)
  /\ UNCHANGED <<rest, children>>

\* A child with a handle and its wall timer; too much output may have come before the handle.
SpawnStarts(r) ==
  /\ call[r].at = "spawning"
  /\ activeChildren' = activeChildren + 1
  /\ \E now \in {"running", "killed"} : child' = [child EXCEPT ![r] = now]
  /\ timer' = [timer EXCEPT ![r] = Links]
  /\ Goes(r, "spawn", "child")
  /\ UNCHANGED <<rest, log, pending, unwritten, late>>

\* The timer cannot be armed: the child is killed and waited for.  A handle without `done`: it is killed
\* if it can be, and there is nothing to wait for.
SpawnFails(r) ==
  /\ call[r].at = "spawning"
  /\ activeChildren' = activeChildren + 1
  /\ \E now \in {"killed", "lost"} : child' = [child EXCEPT ![r] = now]
  /\ Goes(r, "spawn", "reaping")
  /\ UNCHANGED <<rest, log, pending, timer, unwritten, late>>

\* stop: output beyond its limit kills the child.  abort: output that cannot be read also makes it a failure.
Output(r, readable) ==
  /\ call[r].at \in Spawned /\ child[r] \in {"running", "killed", "ended"} /\ Free(r)
  /\ call' = [call EXCEPT ![r].failed = @ \/ ~readable]
  /\ Kill(r, child[r])
  /\ UNCHANGED <<rest, log, pending, activeChildren, timer, unwritten>>

\* Mutant of TimerFires: a timer that is still armed kills after the end.
TimerKillsLate(r, armed) ==
  /\ timer[r] > 0 /\ Free(r)
  /\ timer' = [timer EXCEPT ![r] = IF armed THEN @ - 1 ELSE 0]
  /\ call' = [call EXCEPT ![r].failed = call[r].at \in Spawned /\ (@ \/ (timer[r] > 1 /\ ~armed))]
  /\ IF timer[r] = 1 \/ ~armed THEN Kill(r, child[r]) ELSE UNCHANGED <<child, late>>
  /\ UNCHANGED <<rest, log, pending, activeChildren, unwritten>>

\* Mutant of TimerFires: the next link is never armed.
TimerStops(r, armed) ==
  /\ timer[r] > 0 /\ Free(r)
  /\ timer' = [timer EXCEPT ![r] = 0]
  /\ call' = call
  /\ IF call[r].at \in Spawned /\ timer[r] = 1 THEN Kill(r, child[r]) ELSE UNCHANGED <<child, late>>
  /\ UNCHANGED <<rest, log, pending, activeChildren, unwritten>>

\* armWall: the last link kills the child, an earlier one arms the next or, failing that, aborts.
\* After the end it does nothing.
TimerFires(r, armed) ==
  /\ timer[r] > 0 /\ Free(r)
  /\ IF call[r].at \notin Spawned
     THEN timer' = [timer EXCEPT ![r] = 0] /\ UNCHANGED <<call, child, late>>
     ELSE /\ timer' = [timer EXCEPT ![r] = IF armed THEN @ - 1 ELSE 0]
          /\ call' = [call EXCEPT ![r].failed = @ \/ (timer[r] > 1 /\ ~armed)]
          /\ IF timer[r] = 1 \/ ~armed THEN Kill(r, child[r]) ELSE UNCHANGED <<child, late>>
  /\ UNCHANGED <<rest, log, pending, activeChildren, unwritten>>

\* What every end of a spawn does: the timer is cleared, unless that fails, and the slot released.
Releases(r) ==
  /\ \E left \in {0, timer[r]} : timer' = [timer EXCEPT ![r] = left]
  /\ activeChildren' = activeChildren - 1
  /\ Ends(r)

\* The host reports the child gone.
DoneResolves(r) ==
  /\ call[r].at = "child" /\ child[r] = "ended" /\ Free(r)
  /\ child' = [child EXCEPT ![r] = "reported"]
  /\ Outcome(r, IF call[r].failed THEN "failed" ELSE "ok")
  /\ Releases(r)
  /\ UNCHANGED <<rest, late>>

\* The host cannot report on the child any longer: it is killed all the same.
DoneRejects(r) ==
  /\ call[r].at = "child" /\ Free(r)
  /\ Kill(r, "lost")
  /\ call' = [call EXCEPT ![r].at = "reaping", ![r].failed = TRUE]
  /\ UNCHANGED <<rest, log, pending, activeChildren, timer, unwritten>>

\* Mutant of Reaped: a killed child is not waited for.
ReapedAtOnce(r) ==
  /\ call[r].at = "reaping" /\ Free(r)
  /\ child' = child
  /\ Outcome(r, "failed")
  /\ Releases(r)
  /\ UNCHANGED <<rest, late>>

\* reported: the end of the child, or of its reports, is waited for.
Reaped(r) ==
  /\ call[r].at = "reaping" /\ child[r] \in {"ended", "lost"} /\ Free(r)
  /\ child' = [child EXCEPT ![r] = IF @ = "ended" THEN "reported" ELSE "lost"]
  /\ Outcome(r, "failed")
  /\ Releases(r)
  /\ UNCHANGED <<rest, late>>

-----------------------------------------------------------------------------
(* The host's child and the clock. *)

ChildEnds(r, how) ==
  /\ child[r] = how
  /\ child' = [child EXCEPT ![r] = "ended"]
  /\ UNCHANGED <<rest, log, pending, activeChildren, call, timer, unwritten, late>>

\* `done` rejects while the gate waits for a child it has killed.
ReportsEnd(r) ==
  /\ call[r].at = "reaping" /\ child[r] \in {"killed", "ended"}
  /\ child' = [child EXCEPT ![r] = "lost"]
  /\ UNCHANGED <<rest, log, pending, activeChildren, call, timer, unwritten, late>>

ClockChanges ==
  /\ faults < MaxFaults /\ faults' = faults + 1
  /\ clock' = ~clock
  /\ UNCHANGED <<mode, maxAuditEntries, log, pending, children, call, unwritten>>

\* What the event loop, the timers and the host do with a request that was invoked.
Proceeds(r) ==
  \/ Checked(r) \/ ShadowAddress(r) \/ Unreachable(r) \/ HostAnswers(r)
  \/ \E found \in BOOLEAN : ResolveExecutable(r, found) \/ ShadowFile(r, found)
  \/ SpawnThrows(r) \/ SpawnStarts(r) \/ SpawnFails(r)
  \/ \E armed \in BOOLEAN : TimerFires(r, armed)
  \/ DoneResolves(r) \/ Reaped(r) \/ ChildEnds(r, "killed")

Next ==
  \/ \E r \in Request :
       \/ \E op \in Operation \cup {"none"} : InvokeUnknown(r, op)
       \/ InvokeEnv(r)
       \/ \E op \in PassThrough \cup {"secret"}, granted \in BOOLEAN : Invoke(r, op, granted)
       \/ Proceeds(r)
       \/ \E readable \in BOOLEAN : Output(r, readable)
       \/ ChildEnds(r, "running") \/ DoneRejects(r) \/ ReportsEnd(r)
  \/ ClockChanges

\* The host contract: lookups and effects are answered, kill() ends a child, and its end is reported.
\* No child is obliged to end by itself, and no `done` to reject.
Spec == Init /\ [][Next]_gateVars /\ \A r \in Request : WF_gateVars(Proceeds(r))

-----------------------------------------------------------------------------
(* What the gate promises. *)

\* Whatever runs at the same time, an effect never starts without room for its outcome, the log never
\* outgrows its capacity, and the gate's own verifier accepts it at every moment: no outcome without
\* its decision, none twice, and none missing but those of running requests and those that a failing
\* clock kept from the log.
AuditVerifies ==
  LET found == Rejected(log, pending, mode) IN
  /\ Len(log) + Cardinality(pending) <= maxAuditEntries
  /\ found.wrong = {} /\ found.missing = unwritten

\* A slot is held exactly as long as a child may run, from the start until the host has reported on it
\* for the last time, on every path of errors; in enforce mode there are never more than max_children;
\* and nothing is killed after the host reported it gone (its pid may be another process by then).
ChildrenAccounted ==
  /\ activeChildren = Cardinality({r \in Request : call[r].at \in Spawned})
  /\ \A r \in Request : child[r] \in {"running", "killed", "ended"} => call[r].at \in Spawned
  /\ mode = "enforce" => activeChildren <= MaxChildren
  /\ late = {}

\* With a host that keeps its contract every request ends, a child that never ends by itself included:
\* the chain of wall timers, or the failure to arm one of its links, stops it.
RequestsEnd == \A r \in Request : call[r].at # "idle" ~> call[r].at = "ended"
=============================================================================
