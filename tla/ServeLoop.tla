------------------------------ MODULE ServeLoop -----------------------------
(***************************************************************************)
(* The requests of bskel serve that write (lib/http-server.mjs): one event *)
(* loop, on which dependencies and gates wait for the lock `state` with    *)
(* the loop blocked, and patch transactions wait and run with it free.     *)
(***************************************************************************)
EXTENDS HandlesEmit

VARIABLE req   \* one record per request

NoRequest == [kind |-> "none", at |-> "none"]

Kinds == {"none", "dependency", "patch"}
Places == {"none", "asked", "waiting", "holding", "polling", "executing", "gateWaiting", "gateHolding",
           "answered", "refused"}

ServeTypeOK == req \in [Request -> [kind : Kinds, at : Places]]

\* Requests that keep the loop to themselves, waiting or not.
Blocking == {r \in Request : req[r].at \in {"waiting", "holding", "gateWaiting", "gateHolding"}}
LoopFree == Blocking = {}

Serves(r, place) == req' = [req EXCEPT ![r].at = place]
Untouched == UNCHANGED <<manifest, files, index, featureLock, proc, ghosts>>

Ask(r, kind) ==
  /\ req[r].at = "none" /\ Spend
  /\ req' = [req EXCEPT ![r] = [kind |-> kind, at |-> "asked"]]
  /\ Untouched /\ UNCHANGED stateLock

\* A handler runs to its first await: declareDependency and removeDependency have none.
Begin(r) ==
  /\ req[r].at = "asked" /\ LoopFree
  /\ Serves(r, IF req[r].kind = "dependency" THEN "waiting" ELSE "polling")
  /\ Untouched /\ UNCHANGED <<stateLock, spent>>

\* withLockSync: the retry loop sleeps without giving the loop away.
AcquireSync(r) ==
  /\ req[r].at \in {"waiting", "gateWaiting"}
  /\ stateLock = NoHolder /\ stateLock' = r
  /\ Serves(r, IF req[r].at = "waiting" THEN "holding" ELSE "gateHolding")
  /\ Untouched /\ UNCHANGED spent

\* The deadline is checked between two sleeps, so it passes even when the holder needs the loop to go on.
TimeoutSync(r) ==
  /\ req[r].at \in {"waiting", "gateWaiting"} /\ stateLock # NoHolder
  /\ Serves(r, "refused")
  /\ Untouched /\ UNCHANGED <<stateLock, spent>>

\* The dependencies are saved and the lock is released; the gate takes it again.
Declare(r) ==
  /\ req[r].at = "holding"
  /\ stateLock' = NoHolder
  /\ Serves(r, "gateWaiting")
  /\ Untouched /\ UNCHANGED spent

Answer(r) ==
  /\ req[r].at = "gateHolding"
  /\ stateLock' = NoHolder
  /\ Serves(r, "answered")
  /\ Untouched /\ UNCHANGED spent

\* withLockAsync: every retry is a turn of the loop.
AcquireAsync(r) ==
  /\ req[r].at = "polling" /\ LoopFree
  /\ stateLock = NoHolder /\ stateLock' = r
  /\ Serves(r, "executing")
  /\ Untouched /\ UNCHANGED spent

TimeoutAsync(r) ==
  /\ req[r].at = "polling" /\ LoopFree /\ stateLock # NoHolder
  /\ Serves(r, "refused")
  /\ Untouched /\ UNCHANGED <<stateLock, spent>>

\* The executor's promise settles in a turn of the loop; the lock is released, and unless it failed
\* the same turn goes on to wait for the gate.
Execute(r) ==
  /\ req[r].at = "executing" /\ LoopFree
  /\ stateLock' = NoHolder
  /\ \E place \in {"gateWaiting", "refused"} : Serves(r, place)
  /\ Untouched /\ UNCHANGED spent

ServerStep(r) ==
  \/ Begin(r) \/ AcquireSync(r) \/ TimeoutSync(r) \/ Declare(r) \/ Answer(r)
  \/ AcquireAsync(r) \/ TimeoutAsync(r) \/ Execute(r)

RequestStep == \E r \in Request : ServerStep(r) \/ \E kind \in Kinds \ {"none"} : Ask(r, kind)
=============================================================================
