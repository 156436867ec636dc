---------------------------- MODULE FeatureImpact ----------------------------
(***************************************************************************)
(* Features that read each other's fields: dependency declare and remove   *)
(* (lib/field-dependencies.mjs), impact check, accept, disposition and ack *)
(* (lib/impact*.mjs), scan and its disposition, and what bskel verify says *)
(* of a feature whose surface has changed.                                 *)
(*                                                                         *)
(* Every feature has one class with one field; a wire <<g, f>> says that   *)
(* the field of g is derived from the field of f, so that f is upstream.   *)
(* impact accept reads the surface, the wires and the dispositions, writes *)
(* the report, reads the surface AGAIN into the baseline, releases the     *)
(* lock, recomputes the inputs of the gate, and writes the gate (one step, *)
(* see GateStore).  The classes are edited without any lock, and impact    *)
(* check writes its report without one.                                    *)
(***************************************************************************)
EXTENDS Integers, FiniteSets

CONSTANTS
  Feature,
  Wire,         \* the wires that may be declared, a set of pairs of features
  Proc,         \* bskel processes
  Version,      \* texts of a class; a change is named by the text it leads to
  MaxTime,      \* bound on the clock
  MaxCommands,  \* bound on the commands started
  MaxEdits,     \* bound on the edits of classes
  None

ASSUME ImpactAssumption ==
  /\ {MaxTime, MaxCommands, MaxEdits} \subseteq Nat
  /\ Wire \subseteq {w \in Feature \X Feature : w[1] # w[2]}
  /\ None \notin Proc \cup Version

Mode == {"compatible", "migrate", "waive"}

Gate == {"scan", "dependencies", "impact"}

\* What a check found out: the change, or None, and the features on either side.
ImpactReport == [change : Version \cup {None}, out : SUBSET Feature, in : SUBSET Feature]

\* What a person decided about one change and one downstream feature.
Disposition == [key : Version, to : Feature, mode : Mode, acked : BOOLEAN, expires : 0..MaxTime]

\* The scan report carries the time at which it was made: writes counts them, so
\* that no two are alike.  The times in the other files are left out: a gate
\* whose inputs are put back as they were passes again, which only adds to the
\* states in which one passes.
VARIABLES
  file,        \* the class of a feature
  scan,        \* the scan report: is it disposed
  deps,        \* dependencies.json: the features whose fields this one reads
  baseline,    \* impact-baseline.json: the surface, or None
  report,      \* impact-report.json: the change, who is downstream, who obliges
  resolution,  \* impact-resolution.json: the dispositions
  gate,        \* the records of the scan, dependencies and impact gates
  lock,        \* maker of the state lock directory, or None
  pc,          \* where each process stands
  job,         \* what it has read, or None
  now,
  blurred,     \* ghost: features whose pass covers what its check did not see
  count        \* commands and edits so far: the bounds

files == <<file, scan, deps, baseline, report, resolution, gate>>
vars == <<files, lock, pc, job, now, blurred, count>>

-----------------------------------------------------------------------------
(* impact-surface.mjs, impact-graph.mjs                                    *)

Downstream(f) == {g \in Feature : f \in deps[g]}

\* computeSurface: a field is on the surface when some wire names it, at either
\* end.
OnSurface(f) == Downstream(f) \cup deps[f] # {}

Surface(f) == IF OnSurface(f) THEN file[f] ELSE None

\* diffSurface: only a field that is on both sides can have moved.
Change(f) ==
  IF baseline[f] # None /\ None \notin {baseline[f].surface, Surface(f)}
     /\ baseline[f].surface # Surface(f)
  THEN Surface(f) ELSE None

-----------------------------------------------------------------------------
(* impact.mjs                                                              *)

\* isDispositionActive.
Active(d, t) == d.mode = "waive" => t < d.expires

\* Mutant of Disposed: a disposition covers every change of the field.
DisposedForGood(f, g, t) ==
  \E d \in resolution[f] : d.to = g /\ Active(d, t)

\* findDisposition: the change is named by what the field has become.
Disposed(f, g, t) ==
  \E d \in resolution[f] : d.key = Change(f) /\ d.to = g /\ Active(d, t)

\* findOutboundImpacts: one hop along derives_from, which is always proven.
Outbound(f) == IF Change(f) = None THEN {} ELSE Downstream(f)

Obligations(f, g) ==
  {d \in resolution[f] : d.mode = "migrate" /\ d.to = g}

Obliging(f) == {g \in Feature \ {f} : Obligations(g, f) # {}}

\* Mutant of Settled: only what goes out is looked at.
SettledOutbound(f, t) == \A g \in Outbound(f) : Disposed(f, g, t)

\* evaluateImpacts: nothing goes out undisposed or comes in unacknowledged.
Settled(f, t) ==
  /\ \A g \in Outbound(f) : Disposed(f, g, t)
  /\ \A g \in Obliging(f) : \A d \in Obligations(g, f) : d.acked

\* checkImpact: the report.
Report(f) ==
  [change |-> Change(f), out |-> Outbound(f), in |-> Obliging(f)]

-----------------------------------------------------------------------------
(* gate-definitions.mjs, gates.mjs, verify.mjs                             *)

\* The features that the last report names.
Named(f) == IF report[f] = None THEN {} ELSE report[f].out \cup report[f].in

\* Mutant of ImpactInputs: the other side of the handshake is not watched.
ImpactInputsOwn(f) == <<baseline[f], report[f], resolution[f], deps[f], scan[f]>>

\* Mutant of ImpactInputs: neither contract nor scan report is watched.
ImpactInputsNoScan(f) ==
  <<baseline[f], report[f], resolution[f], deps[f],
    [g \in Named(f) |-> <<deps[g], resolution[g]>>]>>

\* impact: the class of the field is not among the inputs.
ImpactInputs(f) ==
  <<baseline[f], report[f], resolution[f], deps[f], scan[f],
    [g \in Named(f) |-> <<deps[g], resolution[g]>>]>>

\* dependencies: the classes of both ends of every wire.
DependencyInputs(f) ==
  <<deps[f], [g \in IF deps[f] = {} THEN {} ELSE deps[f] \cup {f} |-> file[g]]>>

\* scan: the whole read set of the adapter, classes of other features included.
ScanInputs(f) == <<scan[f], file>>

Passes(f, name, inputs) ==
  gate[f][name] # None /\ gate[f][name].status = "pass" /\ gate[f][name].token = inputs

ScanPasses(f) == Passes(f, "scan", ScanInputs(f))

ImpactPasses(f) == Passes(f, "impact", ImpactInputs(f))

\* evaluateFeatureVerification: scan is required, the others once they ran.
Verified(f) ==
  /\ ScanPasses(f)
  /\ gate[f].dependencies # None => Passes(f, "dependencies", DependencyInputs(f))
  /\ gate[f].impact # None => ImpactPasses(f)

-----------------------------------------------------------------------------

Pass(token) == [status |-> "pass", token |-> token]

\* Every feature is scanned and its wires are declared.  There is no baseline
\* yet, or one of each feature: of now, or of before an edit, a re-scan and an
\* impact check.
Init ==
  /\ \E v \in Version : file = [f \in Feature |-> v]
  /\ scan = [f \in Feature |-> [disposed |-> TRUE, writes |-> 0]]
  /\ deps = [f \in Feature |-> {w[2] : w \in {v \in Wire : v[1] = f}}]
  /\ resolution = [f \in Feature |-> {}]
  /\ \E was \in Version \cup {None} :
       /\ baseline = [f \in Feature |->
            IF was = None THEN None
            ELSE [surface |-> IF OnSurface(f) THEN was ELSE None]]
       /\ report = [f \in Feature |-> IF was = None THEN None ELSE Report(f)]
       /\ gate = [f \in Feature |->
            [scan |-> Pass(ScanInputs(f)),
             dependencies |-> IF deps[f] = {} THEN None ELSE Pass(DependencyInputs(f)),
             impact |-> IF was = None THEN None
                        ELSE Pass(IF was = file[f] THEN ImpactInputs(f) ELSE <<>>)]]
  /\ lock = None
  /\ pc = [p \in Proc |-> "idle"]
  /\ job = [p \in Proc |-> None]
  /\ now = 0
  /\ blurred = {}
  /\ count = [commands |-> 0, edits |-> 0]

\* No two dispositions are about the same change and feature, only what is to
\* be migrated is acknowledged, and only what is waived expires.
TypeOK ==
  /\ file \in [Feature -> Version]
  /\ scan \in [Feature -> [disposed : BOOLEAN, writes : Nat]]
  /\ deps \in [Feature -> SUBSET Feature]
  /\ baseline \in [Feature -> [surface : Version \cup {None}] \cup {None}]
  /\ report \in [Feature -> ImpactReport \cup {None}]
  /\ resolution \in [Feature -> SUBSET Disposition]
  /\ DOMAIN gate = Feature
  /\ \A f \in Feature :
       /\ {<<f, g>> : g \in deps[f]} \subseteq Wire
       /\ Named(f) \subseteq Feature \ {f}
       /\ \A d, e \in resolution[f] : d.key = e.key /\ d.to = e.to => d = e
       /\ \A d \in resolution[f] :
            /\ d.acked => d.mode = "migrate"
            /\ d.mode = "waive" <=> d.expires # 0
       /\ DOMAIN gate[f] = Gate
       /\ \A name \in Gate :
            gate[f][name] = None \/ gate[f][name].status \in {"pass", "awaiting_disposition"}
  /\ lock \in Proc \cup {None}
  /\ pc \in [Proc -> {"idle", "reporting", "capturing", "vouching", "gating"}]
  /\ DOMAIN job = Proc
  /\ \A p \in Proc :
       /\ IF pc[p] = "idle" THEN job[p] = None
          ELSE job[p].name \in Gate \ {"scan"} /\ job[p].feature \in Feature
       /\ lock = p <=> pc[p] = "capturing"
  /\ now \in 0..MaxTime

-----------------------------------------------------------------------------
(* The commands.  A section under the lock that replaces one file is one   *)
(* step; one that waits for the lock and gives up changes nothing.         *)

Goto(p, where) == pc' = [pc EXCEPT ![p] = where]

Job(name, f) ==
  [name |-> name, feature |-> f, at |-> None, seen |-> None, view |-> None,
   report |-> None, token |-> None, blurred |-> FALSE]

Counted ==
  /\ count.commands < MaxCommands
  /\ count' = [count EXCEPT !.commands = @ + 1]

Begin(p, where, j) ==
  /\ pc[p] = "idle"
  /\ Counted
  /\ Goto(p, where)
  /\ job' = [job EXCEPT ![p] = j]

Done(p) ==
  /\ Goto(p, "idle")
  /\ job' = [job EXCEPT ![p] = None]

Resolve(f, ds) ==
  resolution' = [resolution EXCEPT ![f] = ds]

\* A command that is one section under the lock, of whichever process.
Section ==
  /\ lock = None
  /\ Counted
  /\ UNCHANGED <<file, scan, deps, baseline, report, gate, lock, pc, job, now, blurred>>

\* recordDisposition, whatever change and feature it is given and whatever was
\* reported: the new disposition replaces the one for the same change and
\* feature, acknowledged or not.
RecordDisposition(f, g, key, mode, expires) ==
  /\ Section
  /\ mode = "waive" <=> expires # 0
  /\ mode = "waive" => expires > now
  /\ Resolve(f, {d \in resolution[f] : ~(d.key = key /\ d.to = g)}
                \cup {[key |-> key, to |-> g, mode |-> mode,
                       acked |-> FALSE, expires |-> expires]})

\* withdrawDisposition.
WithdrawDisposition(f, d) ==
  /\ Section
  /\ d \in resolution[f]
  /\ Resolve(f, resolution[f] \ {d})

\* Mutant of AcknowledgeInbound: whatever names this feature is acknowledged.
AcknowledgeAny(g, f, d) ==
  /\ Section
  /\ d \in resolution[f] /\ d.to = g
  /\ Resolve(f, (resolution[f] \ {d}) \cup {[d EXCEPT !.acked = TRUE]})

\* acknowledgeInbound writes the file of the feature that obliges.
AcknowledgeInbound(g, f, d) ==
  /\ Section
  /\ d \in Obligations(f, g)
  /\ Resolve(f, (resolution[f] \ {d}) \cup {[d EXCEPT !.acked = TRUE]})

\* cmdImpactCheck: all is read, without the lock ...
CheckImpact(p, f) ==
  /\ Begin(p, "reporting", [Job("impact", f) EXCEPT !.report = Report(f)])
  /\ UNCHANGED <<files, lock, now, blurred>>

\* ... and the report is written; the gate is not.
SaveImpactReport(p) ==
  LET f == job[p].feature IN
  /\ pc[p] = "reporting"
  /\ report' = [report EXCEPT ![f] = job[p].report]
  /\ Done(p)
  /\ UNCHANGED <<file, scan, deps, baseline, resolution, gate, lock, now, blurred, count>>

\* What the verdict about f is taken from, and the report on it.
View(f, rep) == <<rep, file[f], scan[f], deps, resolution>>

Accepting(f) ==
  [Job("impact", f) EXCEPT !.at = now, !.seen = Surface(f), !.view = View(f, Report(f))]

\* acceptImpact under the lock: the check, whose report stays in any case.
\* What is not settled is refused.
AcceptRefused(f) ==
  /\ lock = None
  /\ ~Settled(f, now)
  /\ Counted
  /\ report' = [report EXCEPT ![f] = Report(f)]
  /\ UNCHANGED <<file, scan, deps, baseline, resolution, gate, lock, pc, job, now, blurred>>

\* Mutant of AcceptChecked: the lock is only taken to save.
AcceptCheckedUnlocked(p, f) ==
  /\ lock = None
  /\ Settled(f, now)
  /\ report' = [report EXCEPT ![f] = Report(f)]
  /\ Begin(p, "capturing", Accepting(f))
  /\ UNCHANGED <<file, scan, deps, baseline, resolution, gate, lock, now, blurred>>

AcceptChecked(p, f) ==
  /\ lock = None
  /\ Settled(f, now)
  /\ lock' = p
  /\ report' = [report EXCEPT ![f] = Report(f)]
  /\ Begin(p, "capturing", Accepting(f))
  /\ UNCHANGED <<file, scan, deps, baseline, resolution, gate, now, blurred>>

\* The second computeSurface, saveBaseline, and the end of the lock.
SaveBaseline(p) ==
  LET f == job[p].feature IN
  /\ pc[p] = "capturing"
  /\ baseline' = [baseline EXCEPT ![f] = [surface |-> Surface(f)]]
  /\ lock' = None
  /\ Goto(p, "vouching")
  /\ UNCHANGED <<file, scan, deps, report, resolution, gate, job, now, blurred, count>>

\* declareDependency and removeDependency: the wire is saved under the lock.
SaveWire(p, g, edges) ==
  /\ lock = None
  /\ Begin(p, "vouching", Job("dependencies", g))
  /\ deps' = [deps EXCEPT ![g] = edges]
  /\ UNCHANGED <<file, scan, baseline, report, resolution, gate, lock, now, blurred>>

DeclareDependency(p, w) == w \in Wire /\ SaveWire(p, w[1], deps[w[1]] \cup {w[2]})

RemoveDependency(p, w) ==
  w[2] \in deps[w[1]] /\ SaveWire(p, w[1], deps[w[1]] \ {w[2]})

\* passNamedGate: the inputs are those of now ...
RecomputeGate(p) ==
  LET f == job[p].feature
      impact == job[p].name = "impact"
  IN
  /\ pc[p] = "vouching"
  /\ job' = [job EXCEPT ![p] = [Job(@.name, f) EXCEPT
       !.token = IF impact THEN ImpactInputs(f) ELSE DependencyInputs(f),
       !.blurred = impact /\ ~(/\ job[p].view = View(f, report[f])
                               /\ baseline[f] = [surface |-> job[p].seen]
                               /\ ScanPasses(f))]]
  /\ Goto(p, "gating")
  /\ UNCHANGED <<files, lock, now, blurred, count>>

\* ... and are recorded.
SetGate(p) ==
  /\ pc[p] = "gating"
  /\ lock = None
  /\ gate' = [gate EXCEPT ![job[p].feature][job[p].name] = Pass(job[p].token)]
  /\ blurred' = IF job[p].name # "impact" THEN blurred
                ELSE IF job[p].blurred THEN blurred \cup {job[p].feature}
                ELSE blurred \ {job[p].feature}
  /\ Done(p)
  /\ UNCHANGED <<file, scan, deps, baseline, report, resolution, lock, now, count>>

\* acquireOrThrow gives up.
LockTimeout(p) ==
  /\ pc[p] = "gating"
  /\ lock # None
  /\ Done(p)
  /\ UNCHANGED <<files, lock, now, blurred, count>>

SetScan(f, disposed, status) ==
  /\ lock = None
  /\ Counted
  /\ scan' = [scan EXCEPT ![f] = [disposed |-> disposed, writes |-> @.writes + 1]]
  /\ gate' = [gate EXCEPT ![f].scan = [status |-> status, token |-> <<scan'[f], file>>]]
  /\ UNCHANGED <<file, deps, baseline, report, resolution, lock, pc, job, now, blurred>>

\* cmdScan of a feature with related modules, cmdScanDisposition: the report and
\* the gate in one step.
Scan(f) == SetScan(f, FALSE, "awaiting_disposition")
ScanDisposition(f) == SetScan(f, TRUE, "pass")

-----------------------------------------------------------------------------
(* The environment.                                                        *)

Edit(f, v) ==
  /\ count.edits < MaxEdits
  /\ v # file[f]
  /\ file' = [file EXCEPT ![f] = v]
  /\ count' = [count EXCEPT !.edits = @ + 1]
  /\ UNCHANGED <<scan, deps, baseline, report, resolution, gate, lock, pc, job, now, blurred>>

Tick ==
  /\ now < MaxTime
  /\ now' = now + 1
  /\ UNCHANGED <<files, lock, pc, job, blurred, count>>

Step(p) ==
  \/ SaveImpactReport(p)
  \/ SaveBaseline(p)
  \/ RecomputeGate(p)
  \/ SetGate(p)
  \/ LockTimeout(p)

Next ==
  \/ \E f, g \in Feature, key \in Version, mode \in Mode, expires \in 0..MaxTime :
       RecordDisposition(f, g, key, mode, expires)
  \/ \E f \in Feature : \E d \in resolution[f] :
       \/ WithdrawDisposition(f, d)
       \/ \E g \in Feature : AcknowledgeInbound(g, f, d)
  \/ \E f \in Feature :
       AcceptRefused(f) \/ Scan(f) \/ ScanDisposition(f) \/ \E v \in Version : Edit(f, v)
  \/ \E p \in Proc :
       \/ \E f \in Feature : CheckImpact(p, f) \/ AcceptChecked(p, f)
       \/ \E w \in Wire : DeclareDependency(p, w) \/ RemoveDependency(p, w)
       \/ Step(p)
  \/ Tick

Spec == Init /\ [][Next]_vars

-----------------------------------------------------------------------------
(* Properties.                                                             *)

\* D-cross-feature-impact-graph IG5: accept never launders a change into the
\* baseline.  Whatever move of the field the new baseline takes in was
\* disposed of for every feature downstream, and every obligation of the
\* feature was acknowledged, when it is written - unless the class was edited
\* between the two readings of the surface.
BaselineIsEarned ==
  [][\A f \in Feature : baseline'[f] # baseline[f] =>
       \E p \in Proc :
         /\ pc[p] = "capturing" /\ job[p].feature = f
         /\ job[p].seen = Surface(f) =>
              /\ \A g \in Outbound(f) :
                   \E d \in resolution[f] :
                     d.key = file[f] /\ d.to = g /\ Active(d, job[p].at)
              /\ \A g \in Obliging(f) : \A d \in Obligations(g, f) : d.acked]_vars

\* IG6, the handshake: while the impact gate of a feature passes, it has
\* acknowledged all that the features its report names oblige it to - unless
\* something changed between the verdict of accept and the token of its pass.
ObligationsHeld ==
  \A f \in Feature : ImpactPasses(f) /\ f \notin blurred =>
    \A g \in Named(f) : \A d \in Obligations(g, f) : d.acked

\* IG4, IG7: verify blocks the feature that changed.  Where impact has ever been
\* accepted and verify passes, no field that is read downstream differs from the
\* baseline: the class is no input of the impact gate, the scan report is.  The
\* exception is that of ObligationsHeld, and a pass given while the scan gate
\* did not pass.
VerifiedIsAccepted ==
  \A f \in Feature :
    gate[f].impact # None /\ Verified(f) /\ f \notin blurred => Outbound(f) = {}
=============================================================================
