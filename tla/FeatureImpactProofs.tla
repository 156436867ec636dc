------------------------- MODULE FeatureImpactProofs -------------------------
(***************************************************************************)
(* Proofs about FeatureImpact, for any number of features and processes,   *)
(* any wires and any bounds.                                               *)
(*                                                                         *)
(* A pass says something about the moment its token was computed; what it  *)
(* says now follows from the token alone.  So the invariant follows what   *)
(* the verdict of accept was taken from (Captured, Vouched) into the token *)
(* (TokenGood), and the token into the gate.                               *)
(***************************************************************************)
EXTENDS FeatureImpact, TLAPS

\* Only impact reads or captures a surface.
Places == \A p \in Proc : pc[p] \in {"reporting", "capturing"} => job[p].name = "impact"

\* A report that is not saved yet is as good as one that is.
Reporting ==
  \A p \in Proc : pc[p] = "reporting" =>
    /\ job[p].report \in ImpactReport
    /\ job[p].report.out \cup job[p].report.in \subseteq Feature \ {job[p].feature}

\* Under the lock: the move from the baseline to what accept has seen is disposed
\* of for everyone downstream.  The class may change, and change back.
Captured ==
  \A p \in Proc : pc[p] = "capturing" =>
    LET f == job[p].feature
        seen == job[p].seen
    IN  /\ seen \in Version \cup {None}
        /\ \A g \in Obliging(f) : \A d \in Obligations(g, f) : d.acked
        /\ baseline[f] # None /\ None \notin {baseline[f].surface, seen} /\ baseline[f].surface # seen =>
             \A g \in Downstream(f) :
               \E d \in resolution[f] : d.key = seen /\ d.to = g /\ Active(d, job[p].at)

\* All obligations of f in some resolutions are acknowledged.
Acknowledged(f, ds) == \A d \in ds : d.mode = "migrate" /\ d.to = f => d.acked

\* What the verdict was taken from: the class it has seen, and resolutions of
\* other features in which every obligation is acknowledged.
Vouched ==
  \A p \in Proc : pc[p] \in {"capturing", "vouching"} /\ job[p].name = "impact" =>
    /\ job[p].seen \in {None, job[p].view[2]}
    /\ \A g \in Feature \ {job[p].feature} : Acknowledged(job[p].feature, job[p].view[5][g])

\* What a token of a pass that is not blurred tells: if it is of the last scan, its
\* baseline is of the class that scan has read; and the features it watches had
\* their obligations acknowledged.
TokenGood(f, t, last, read) ==
  t # <<>> =>
    /\ t[5] \in [disposed : BOOLEAN, writes : Nat] /\ t[5].writes <= last.writes
    /\ t[5] = last => t[1].surface \in {None, read[2][f]}
    /\ \A g \in DOMAIN t[6] : Acknowledged(f, t[6][g][2])

Good(f, t) == TokenGood(f, t, scan[f], gate[f].scan.token)

TokensGood ==
  /\ \A p \in Proc : pc[p] = "gating" /\ job[p].name = "impact" /\ ~job[p].blurred =>
       Good(job[p].feature, job[p].token)
  /\ \A f \in Feature \ blurred : gate[f].impact # None => Good(f, gate[f].impact.token)

IInv ==
  TypeOK /\ Places /\ Reporting /\ Captured /\ Vouched /\ TokensGood

-----------------------------------------------------------------------------
(* What reports and dispositions look like.                                *)

\* None is no class text.
LEMMA SurfaceType ==
  ASSUME TypeOK, NEW f \in Feature
  PROVE  /\ Surface(f) \in {None, file[f]} /\ Surface(f) \in Version \cup {None}
         /\ file[f] # None
         /\ Change(f) \in {None, Surface(f)}
         /\ f \notin Downstream(f) /\ Downstream(f) \subseteq Feature
<1>1. Downstream(f) \subseteq Feature
  BY DEF Downstream
<1>2. f \notin Downstream(f)
  <2> SUFFICES ASSUME f \in deps[f] PROVE FALSE
    BY DEF Downstream
  <2>1. <<f, f>> \in Wire
    BY DEF TypeOK
  <2> QED
    BY <2>1, ImpactAssumption
<1>3. file[f] \in Version /\ file[f] # None
  BY ImpactAssumption DEF TypeOK
<1> QED
  BY <1>1, <1>2, <1>3 DEF Surface, Change

\* A report names other features only.
LEMMA ReportGood ==
  ASSUME TypeOK, NEW f \in Feature
  PROVE  /\ Report(f) \in ImpactReport
         /\ Report(f).out \cup Report(f).in \subseteq Feature \ {f}
<1>1. Outbound(f) \subseteq Feature \ {f} /\ Change(f) \in Version \cup {None}
  BY SurfaceType DEF Outbound
<1>2. Obliging(f) \subseteq Feature \ {f}
  BY DEF Obliging
<1> QED
  BY <1>1, <1>2 DEF Report, ImpactReport

\* A file of dispositions as TypeOK has it.
GoodResolution(ds) ==
  /\ ds \subseteq Disposition
  /\ \A d, e \in ds : d.key = e.key /\ d.to = e.to => d = e
  /\ \A d \in ds :
       /\ d.acked => d.mode = "migrate"
       /\ d.mode = "waive" <=> d.expires # 0

\* The three ways to change dispositions change one file, into a good one.
LEMMA ResolutionSteps ==
  ASSUME TypeOK, NEW f \in Feature,
         \/ \E g \in Feature, key \in Version, mode \in Mode, expires \in 0..MaxTime :
              RecordDisposition(f, g, key, mode, expires)
         \/ \E d \in resolution[f] : WithdrawDisposition(f, d)
         \/ \E d \in resolution[f], g \in Feature : AcknowledgeInbound(g, f, d)
  PROVE  Section /\ \E ds : Resolve(f, ds) /\ GoodResolution(ds)
<1>0. GoodResolution(resolution[f])
  BY DEF GoodResolution, TypeOK
<1>1. ASSUME NEW g \in Feature, NEW key \in Version, NEW mode \in Mode, NEW expires \in 0..MaxTime,
             RecordDisposition(f, g, key, mode, expires)
      PROVE  Section /\ \E ds : Resolve(f, ds) /\ GoodResolution(ds)
  <2> DEFINE new == [key |-> key, to |-> g, mode |-> mode, acked |-> FALSE, expires |-> expires]
             ds == {d \in resolution[f] : ~(d.key = key /\ d.to = g)} \cup {new}
  <2>2. new \in Disposition
    BY DEF Disposition
  <2>3. GoodResolution(ds)
    <3>1. new.key = key /\ new.to = g /\ ~new.acked /\ (new.mode = "waive" <=> new.expires # 0)
      BY <1>1 DEF RecordDisposition
    <3>2. ds \subseteq Disposition
      BY <1>0, <2>2 DEF GoodResolution
    <3> HIDE DEF new
    <3>3. \A d, e \in ds : d.key = e.key /\ d.to = e.to => d = e
      BY <1>0, <3>1 DEF GoodResolution
    <3> QED
      BY <1>0, <3>1, <3>2, <3>3 DEF GoodResolution
  <2> QED
    BY <1>1, <2>3 DEF RecordDisposition
<1>2. ASSUME NEW d \in resolution[f], WithdrawDisposition(f, d)
      PROVE  Section /\ \E ds : Resolve(f, ds) /\ GoodResolution(ds)
  BY <1>0, <1>2 DEF GoodResolution, WithdrawDisposition
<1>3. ASSUME NEW d \in resolution[f], NEW g \in Feature, AcknowledgeInbound(g, f, d)
      PROVE  Section /\ \E ds : Resolve(f, ds) /\ GoodResolution(ds)
  <2> DEFINE new == [d EXCEPT !.acked = TRUE]
             ds == (resolution[f] \ {d}) \cup {new}
  <2>1. d \in Disposition /\ d.mode = "migrate"
    BY <1>3 DEF AcknowledgeInbound, Obligations, TypeOK
  <2>2. /\ new \in Disposition /\ new.key = d.key /\ new.to = d.to
        /\ new.mode = "migrate" /\ new.expires = d.expires
    BY <2>1 DEF Disposition
  <2>3. GoodResolution(ds)
    <3> HIDE DEF new
    <3>1. ds \subseteq Disposition
      BY <1>0, <2>2 DEF GoodResolution
    <3>2. \A e, h \in ds : e.key = h.key /\ e.to = h.to => e = h
      BY <1>0, <2>2 DEF GoodResolution
    <3>3. d.mode = "waive" <=> d.expires # 0
      BY <1>0 DEF GoodResolution
    <3>4. new.mode = "waive" <=> new.expires # 0
      BY <1>0, <2>1, <2>2, <3>3 DEF GoodResolution
    <3> QED
      BY <1>0, <2>1, <2>2, <3>1, <3>2, <3>4 DEF GoodResolution
  <2> QED
    BY <1>3, <2>3 DEF AcknowledgeInbound
<1> QED
  BY <1>1, <1>2, <1>3

\* What a step of process p on the lock and its job may be.
Moves(p, where, j) ==
  /\ pc' = [pc EXCEPT ![p] = where]
  /\ DOMAIN job' = Proc /\ job'[p] = j /\ \A q \in Proc \ {p} : job'[q] = job[q]
  /\ where \in {"idle", "reporting", "capturing", "vouching", "gating"}
  /\ IF where = "idle" THEN j = None ELSE j.name \in Gate \ {"scan"} /\ j.feature \in Feature
  /\ where \in {"reporting", "capturing"} => j.name = "impact"
  /\ \/ pc[p] # "capturing" /\ where # "capturing" /\ lock' = lock
     \/ lock = None /\ where = "capturing" /\ lock' = p
     \/ pc[p] = "capturing" /\ where # "capturing" /\ lock' = None

\* Types and places of processes.
ProcsOK ==
  /\ lock \in Proc \cup {None}
  /\ pc \in [Proc -> {"idle", "reporting", "capturing", "vouching", "gating"}]
  /\ DOMAIN job = Proc
  /\ \A p \in Proc :
       /\ IF pc[p] = "idle" THEN job[p] = None
          ELSE job[p].name \in Gate \ {"scan"} /\ job[p].feature \in Feature
       /\ lock = p <=> pc[p] = "capturing"
  /\ Places

\* Every step of a command is such a move.
LEMMA CommandsMove ==
  ASSUME IInv, NEW p \in Proc,
         \/ \E f \in Feature : CheckImpact(p, f) \/ AcceptChecked(p, f)
         \/ \E w \in Wire : DeclareDependency(p, w) \/ RemoveDependency(p, w)
         \/ Step(p)
  PROVE  \E where, j : Moves(p, where, j)
<1> USE DEF IInv, TypeOK, Gate
<1>1. ASSUME NEW f \in Feature, CheckImpact(p, f) PROVE \E where, j : Moves(p, where, j)
  <2>1. Moves(p, "reporting", [Job("impact", f) EXCEPT !.report = Report(f)])
    BY <1>1 DEF CheckImpact, Begin, Goto, Moves, Job
  <2> QED
    BY <2>1
<1>2. ASSUME NEW f \in Feature, AcceptChecked(p, f) PROVE \E where, j : Moves(p, where, j)
  <2>1. Moves(p, "capturing", Accepting(f))
    BY <1>2 DEF AcceptChecked, Begin, Goto, Moves, Accepting, Job
  <2> QED
    BY <2>1
<1>3. ASSUME NEW g \in Feature, NEW edges, SaveWire(p, g, edges) PROVE \E where, j : Moves(p, where, j)
  <2>1. Moves(p, "vouching", Job("dependencies", g))
    BY <1>3 DEF SaveWire, Begin, Goto, Moves, Job
  <2> QED
    BY <2>1
<1>4. CASE SaveImpactReport(p) \/ SetGate(p) \/ LockTimeout(p)
  <2>1. Moves(p, "idle", None)
    BY <1>4 DEF SaveImpactReport, SetGate, LockTimeout, Done, Goto, Moves
  <2> QED
    BY <2>1
<1>5. CASE SaveBaseline(p)
  <2>1. Moves(p, "vouching", job[p])
    BY <1>5 DEF SaveBaseline, Goto, Moves
  <2> QED
    BY <2>1
<1>6. CASE RecomputeGate(p)
  <2>1. job'[p].name = job[p].name /\ job'[p].feature = job[p].feature
    BY <1>6 DEF RecomputeGate, Job
  <2>2. Moves(p, "gating", job'[p])
    BY <1>6, <2>1 DEF RecomputeGate, Goto, Moves
  <2> QED
    BY <2>2
<1>7. \A w \in Wire : w[1] \in Feature
  BY ImpactAssumption
<1> QED
  BY <1>1, <1>2, <1>3, <1>4, <1>5, <1>6, <1>7 DEF Step, DeclareDependency, RemoveDependency

\* Processes keep their types and the lock has one holder.
LEMMA ProcsKeep ==
  ASSUME IInv, Next
  PROVE  ProcsOK'
<1>0. ProcsOK
  BY DEF ProcsOK, IInv, TypeOK
<1>1. ASSUME NEW p \in Proc, NEW where, NEW j, Moves(p, where, j) PROVE ProcsOK'
  BY <1>0, <1>1, ImpactAssumption DEF ProcsOK, Places, Moves
<1>2. CASE UNCHANGED <<pc, job, lock>>
  BY <1>0, <1>2 DEF ProcsOK, Places
<1>3. \/ UNCHANGED <<pc, job, lock>>
      \/ \E p \in Proc :
           \/ \E f \in Feature : CheckImpact(p, f) \/ AcceptChecked(p, f)
           \/ \E w \in Wire : DeclareDependency(p, w) \/ RemoveDependency(p, w)
           \/ Step(p)
  <2>1. /\ \A f, g, key, mode, expires : RecordDisposition(f, g, key, mode, expires) => UNCHANGED <<pc, job, lock>>
        /\ \A f, d : WithdrawDisposition(f, d) => UNCHANGED <<pc, job, lock>>
        /\ \A g, f, d : AcknowledgeInbound(g, f, d) => UNCHANGED <<pc, job, lock>>
    BY DEF RecordDisposition, WithdrawDisposition, AcknowledgeInbound, Section
  <2>2. /\ \A f : AcceptRefused(f) \/ Scan(f) \/ ScanDisposition(f) => UNCHANGED <<pc, job, lock>>
        /\ \A f, v : Edit(f, v) => UNCHANGED <<pc, job, lock>>
        /\ Tick => UNCHANGED <<pc, job, lock>>
    BY DEF AcceptRefused, Scan, ScanDisposition, SetScan, Edit, Tick
  <2> QED
    BY <2>1, <2>2 DEF Next
<1> QED
  BY <1>1, <1>2, <1>3, CommandsMove

-----------------------------------------------------------------------------
(* The files and the verdicts.                                             *)

\* The steps that change dispositions, and all the others.
Decides(f) ==
  \/ \E g \in Feature, key \in Version, mode \in Mode, expires \in 0..MaxTime :
       RecordDisposition(f, g, key, mode, expires)
  \/ \E d \in resolution[f] : WithdrawDisposition(f, d)
  \/ \E d \in resolution[f], g \in Feature : AcknowledgeInbound(g, f, d)

Others ==
  \/ Tick
  \/ \E f \in Feature : AcceptRefused(f) \/ Scan(f) \/ ScanDisposition(f) \/ \E v \in Version : Edit(f, v)
  \/ \E p \in Proc, f \in Feature : CheckImpact(p, f) \/ AcceptChecked(p, f)
  \/ \E p \in Proc, w \in Wire : DeclareDependency(p, w) \/ RemoveDependency(p, w)
  \/ \E p \in Proc : Step(p)

\* There are no more, and the others leave the dispositions alone.
LEMMA KindsOfStep ==
  /\ Next => Others \/ \E f \in Feature : Decides(f)
  /\ Others => resolution' = resolution
<1>1. Next => Others \/ \E f \in Feature : Decides(f)
  BY DEF Next, Others, Decides
<1>2. Others => resolution' = resolution
  BY DEF Others, Tick, AcceptRefused, Scan, ScanDisposition, SetScan, Edit, CheckImpact, AcceptChecked,
         DeclareDependency, RemoveDependency, SaveWire, Step, SaveImpactReport, SaveBaseline,
         RecomputeGate, SetGate, LockTimeout, files
<1> QED
  BY <1>1, <1>2

\* The files keep their types.
LEMMA FilesKeep ==
  ASSUME IInv, Next
  PROVE  TypeOK' /\ Places'
<1> USE DEF IInv
<1>1. CASE \E f \in Feature : Decides(f)
  <2>1. PICK f \in Feature : Decides(f)
    BY <1>1
  <2>2. PICK ds : Resolve(f, ds) /\ GoodResolution(ds)
    BY <2>1, ResolutionSteps DEF Decides
  <2>3. /\ resolution' = [resolution EXCEPT ![f] = ds]
        /\ UNCHANGED <<file, scan, deps, baseline, report, gate, lock, pc, job, now>>
    BY <2>1, <2>2, ResolutionSteps DEF Section, Resolve, Decides
  <2>4. \A g \in Feature : GoodResolution(resolution'[g])
    BY <2>2, <2>3 DEF GoodResolution, TypeOK
  <2>5. resolution' \in [Feature -> SUBSET Disposition]
    BY <2>3, <2>4 DEF TypeOK, GoodResolution
  <2>6. TypeOK'
    BY <2>3, <2>4, <2>5 DEF TypeOK, GoodResolution, Named
  <2>7. Places'
    BY <2>3 DEF Places
  <2> QED
    BY <2>6, <2>7
<1>2. CASE Others
  <2>0. resolution' = resolution /\ ProcsOK'
    BY <1>2, KindsOfStep, ProcsKeep
  <2> DEFINE
       Types ==
         /\ file \in [Feature -> Version]
         /\ scan \in [Feature -> [disposed : BOOLEAN, writes : Nat]]
         /\ deps \in [Feature -> SUBSET Feature]
         /\ baseline \in [Feature -> [surface : Version \cup {None}] \cup {None}]
         /\ report \in [Feature -> ImpactReport \cup {None}]
         /\ \A f \in Feature : {<<f, g>> : g \in deps[f]} \subseteq Wire /\ Named(f) \subseteq Feature \ {f}
         /\ now \in 0..MaxTime
       Gates ==
         /\ DOMAIN gate = Feature
         /\ \A f \in Feature :
              /\ DOMAIN gate[f] = Gate
              /\ \A name \in Gate :
                   gate[f][name] = None \/ gate[f][name].status \in {"pass", "awaiting_disposition"}
  <2>1. Types /\ Gates
    BY DEF TypeOK
  <2>2. ASSUME Types', Gates' PROVE TypeOK' /\ Places'
    BY <2>2, <2>0 DEF TypeOK, ProcsOK
  <2>3. ASSUME NEW f \in Feature, NEW rep \in ImpactReport, rep.out \cup rep.in \subseteq Feature \ {f},
               report' = [report EXCEPT ![f] = rep], UNCHANGED <<file, scan, deps, baseline, gate, now>>
        PROVE  Types' /\ Gates'
    <3>1. Gates'
      BY <2>1, <2>3
    <3>2. Types'
      BY <2>1, <2>3 DEF Named
    <3> QED
      BY <3>1, <3>2
  <2>4. ASSUME NEW f \in Feature, AcceptRefused(f) PROVE Types' /\ Gates'
    BY <2>3, <2>4, ReportGood DEF AcceptRefused
  <2>5. ASSUME NEW f \in Feature, NEW p \in Proc, AcceptChecked(p, f) PROVE Types' /\ Gates'
    BY <2>3, <2>5, ReportGood DEF AcceptChecked
  <2>6. ASSUME NEW p \in Proc, SaveImpactReport(p) PROVE Types' /\ Gates'
    BY <2>3, <2>6 DEF SaveImpactReport, Reporting, TypeOK
  <2>7. ASSUME NEW p \in Proc, (\E f \in Feature : CheckImpact(p, f)) \/ LockTimeout(p) \/ RecomputeGate(p)
        PROVE  Types' /\ Gates'
    <3>1. UNCHANGED <<file, scan, deps, baseline, report, gate, now>>
      BY <2>7 DEF CheckImpact, LockTimeout, RecomputeGate, files
    <3> QED
      BY <2>1, <3>1 DEF Named
  <2>8. ASSUME NEW p \in Proc, SaveBaseline(p) PROVE Types' /\ Gates'
    <3>1. job[p].feature \in Feature
      BY <2>8 DEF SaveBaseline, TypeOK
    <3>2. [surface |-> Surface(job[p].feature)] \in [surface : Version \cup {None}]
      BY <3>1, SurfaceType
    <3>3. Types'
      BY <2>1, <2>8, <3>1, <3>2 DEF SaveBaseline, Named
    <3>4. Gates'
      BY <2>1, <2>8 DEF SaveBaseline
    <3> QED
      BY <3>3, <3>4
  <2>9. ASSUME NEW p \in Proc, NEW w \in Wire, DeclareDependency(p, w) \/ RemoveDependency(p, w)
        PROVE  Types' /\ Gates'
    <3>1. /\ w[1] \in Feature /\ w[2] \in Feature /\ w = <<w[1], w[2]>>
          /\ {<<w[1], g>> : g \in deps[w[1]] \cup {w[2]}} \subseteq Wire
      <4>1. PICK g \in Feature, h \in Feature : w = <<g, h>>
        BY ImpactAssumption
      <4>2. w[1] = g /\ w[2] = h
        BY <4>1
      <4>3. \A k \in deps[g] : <<g, k>> \in Wire
        BY <2>1
      <4>4. \A k \in deps[g] \cup {h} : <<g, k>> \in Wire
        BY <4>1, <4>3
      <4> QED
        BY <4>1, <4>2, <4>4
    <3>2. PICK edges \in SUBSET (deps[w[1]] \cup {w[2]}) : SaveWire(p, w[1], edges)
      BY <2>9 DEF DeclareDependency, RemoveDependency
    <3>3. Gates'
      BY <2>1, <3>2 DEF SaveWire
    <3>4. deps' \in [Feature -> SUBSET Feature] /\ \A f \in Feature : {<<f, g>> : g \in deps'[f]} \subseteq Wire
      BY <2>1, <3>1, <3>2 DEF SaveWire
    <3>5. Types'
      BY <2>1, <3>2, <3>4 DEF SaveWire, Named
    <3> QED
      BY <3>3, <3>5
  <2>10. ASSUME NEW p \in Proc, SetGate(p) PROVE Types' /\ Gates'
    <3>1. Types'
      BY <2>1, <2>10 DEF SetGate, Named
    <3>2. Gates'
      BY <2>1, <2>10 DEF SetGate, Pass, TypeOK, Gate
    <3> QED
      BY <3>1, <3>2
  <2>11. ASSUME NEW f \in Feature, Scan(f) \/ ScanDisposition(f) PROVE Types' /\ Gates'
    <3>1. PICK disposed \in BOOLEAN, status \in {"pass", "awaiting_disposition"} : SetScan(f, disposed, status)
      BY <2>11 DEF Scan, ScanDisposition
    <3>2. scan' \in [Feature -> [disposed : BOOLEAN, writes : Nat]]
      BY <2>1, <3>1 DEF SetScan
    <3>3. Types'
      BY <2>1, <3>1, <3>2 DEF SetScan, Named
    <3>4. Gates'
      BY <2>1, <3>1 DEF SetScan, Gate
    <3> QED
      BY <3>3, <3>4
  <2>12. ASSUME Tick \/ \E f \in Feature, v \in Version : Edit(f, v) PROVE Types' /\ Gates'
    BY <2>1, <2>12, ImpactAssumption DEF Tick, Edit, files, Named
  <2> HIDE DEF Types, Gates
  <2> QED
    BY <2>2, <2>4, <2>5, <2>6, <2>7, <2>8, <2>9, <2>10, <2>11, <2>12, <1>2 DEF Step, Others
<1> QED
  BY <1>1, <1>2, KindsOfStep

-----------------------------------------------------------------------------
(* From the verdict to the gate.                                           *)

\* How the place and the job of a process may change.
LEMMA JobsStay ==
  ASSUME IInv, Next, NEW p \in Proc
  PROVE  \/ pc'[p] = pc[p] /\ job'[p] = job[p]
         \/ pc'[p] = "idle"
         \/ pc'[p] = "vouching" /\ job'[p].name = "dependencies"
         \/ pc'[p] = "reporting" /\ \E f \in Feature : CheckImpact(p, f)
         \/ pc'[p] = "capturing" /\ \E f \in Feature : AcceptChecked(p, f)
         \/ pc[p] = "capturing" /\ pc'[p] = "vouching" /\ job'[p] = job[p]
         \/ pc'[p] = "gating" /\ RecomputeGate(p)
<1> USE DEF IInv, TypeOK
<1>1. ASSUME NEW q \in Proc, NEW where, NEW j, Moves(q, where, j), q # p
      PROVE  pc'[p] = pc[p] /\ job'[p] = job[p]
  BY <1>1 DEF Moves
<1>2. CASE \E w \in Wire : DeclareDependency(p, w) \/ RemoveDependency(p, w)
  BY <1>2 DEF DeclareDependency, RemoveDependency, SaveWire, Begin, Goto, Job
<1>3. CASE SaveImpactReport(p) \/ SetGate(p) \/ LockTimeout(p)
  BY <1>3 DEF SaveImpactReport, SetGate, LockTimeout, Done, Goto
<1>4. CASE \E f \in Feature :
             \/ Decides(f) \/ AcceptRefused(f) \/ Scan(f) \/ ScanDisposition(f) \/ \E v \in Version : Edit(f, v)
  BY <1>4, ResolutionSteps DEF Decides, Section, AcceptRefused, Scan, ScanDisposition, SetScan, Edit
<1>5. CASE Tick
  BY <1>5 DEF Tick
<1>6. ASSUME NEW f \in Feature, CheckImpact(p, f) PROVE pc'[p] = "reporting"
  BY <1>6 DEF CheckImpact, Begin, Goto
<1>7. ASSUME NEW f \in Feature, AcceptChecked(p, f) PROVE pc'[p] = "capturing"
  BY <1>7 DEF AcceptChecked, Begin, Goto
<1>8. CASE SaveBaseline(p)
  BY <1>8 DEF SaveBaseline, Goto
<1>9. ASSUME RecomputeGate(p) PROVE pc'[p] = "gating"
  BY <1>9 DEF RecomputeGate, Goto
<1> HIDE DEF IInv, TypeOK
<1> QED
  BY <1>1, <1>2, <1>3, <1>4, <1>5, <1>6, <1>7, <1>8, <1>9, KindsOfStep, CommandsMove DEF Others, Step

\* While accept holds the lock, wires, dispositions and baselines stay.
LEMMA LockedFiles ==
  ASSUME IInv, Next, NEW p \in Proc, pc[p] = "capturing", pc'[p] = "capturing"
  PROVE  UNCHANGED <<deps, resolution, baseline>>
<1>1. lock = p /\ lock # None
  BY ImpactAssumption DEF IInv, TypeOK
<1>2. Others
  BY <1>1, KindsOfStep, ResolutionSteps DEF IInv, Decides, Section
<1>3. ~ \E q \in Proc : SaveBaseline(q)
  BY <1>1 DEF IInv, TypeOK, SaveBaseline, Goto
<1> QED
  BY <1>1, <1>2, <1>3, KindsOfStep
  DEF Others, Tick, AcceptRefused, Scan, ScanDisposition, SetScan, Edit, CheckImpact, AcceptChecked,
      DeclareDependency, RemoveDependency, SaveWire, Step, SaveImpactReport, RecomputeGate, SetGate,
      LockTimeout, files

\* What accept knows when it has checked.
LEMMA CheckKnows ==
  ASSUME IInv, NEW f \in Feature, NEW p \in Proc, AcceptChecked(p, f)
  PROVE  /\ job'[p].feature = f /\ job'[p].name = "impact"
         /\ job'[p].seen = Surface(f) /\ job'[p].at = now
         /\ job'[p].view[2] = file[f] /\ job'[p].view[5] = resolution
         /\ UNCHANGED <<deps, resolution, baseline, file>>
         /\ \A g \in Feature \ {f} : Acknowledged(f, resolution[g])
         /\ \A g \in Obliging(f) : \A d \in Obligations(g, f) : d.acked
         /\ \A g \in Outbound(f) : Disposed(f, g, now)
<1>1. job'[p] = Accepting(f) /\ Settled(f, now) /\ UNCHANGED <<deps, resolution, baseline, file>>
  BY DEF AcceptChecked, Begin, IInv, TypeOK
<1>2. \A g \in Feature \ {f} : Acknowledged(f, resolution[g])
  BY <1>1 DEF Settled, Acknowledged, Obliging, Obligations
<1> QED
  BY <1>1, <1>2 DEF Accepting, Job, View, Settled

\* A report that waits to be saved is good.
LEMMA ReportingKeeps ==
  ASSUME IInv, Next
  PROVE  Reporting'
<1> SUFFICES ASSUME NEW p \in Proc, pc'[p] = "reporting"
             PROVE  /\ job'[p].report \in ImpactReport
                    /\ job'[p].report.out \cup job'[p].report.in \subseteq Feature \ {job'[p].feature}
  BY DEF Reporting
<1>1. ASSUME NEW f \in Feature, CheckImpact(p, f)
      PROVE  job'[p].report = Report(f) /\ job'[p].feature = f
  BY <1>1 DEF CheckImpact, Begin, Job, IInv, TypeOK
<1>2. \/ pc'[p] = pc[p] /\ job'[p] = job[p]
      \/ \E f \in Feature : CheckImpact(p, f)
  BY JobsStay
<1> QED
  BY <1>1, <1>2, ReportGood DEF IInv, Reporting

\* What accept has checked stays so until it saves.
LEMMA CapturedKeeps ==
  ASSUME IInv, Next
  PROVE  Captured'
<1> SUFFICES ASSUME NEW p \in Proc, pc'[p] = "capturing"
             PROVE  (LET f == job[p].feature
                         seen == job[p].seen
                     IN  /\ seen \in Version \cup {None}
                         /\ \A g \in Obliging(f) : \A d \in Obligations(g, f) : d.acked
                         /\ baseline[f] # None /\ None \notin {baseline[f].surface, seen}
                              /\ baseline[f].surface # seen =>
                              \A g \in Downstream(f) :
                                \E d \in resolution[f] : d.key = seen /\ d.to = g /\ Active(d, job[p].at))'
  BY DEF Captured
<1>1. \/ pc[p] = "capturing" /\ job'[p] = job[p]
      \/ \E f \in Feature : AcceptChecked(p, f)
  BY JobsStay
<1>2. CASE pc[p] = "capturing" /\ job'[p] = job[p]
  <2>1. UNCHANGED <<deps, resolution, baseline>>
    BY <1>2, LockedFiles
  <2> QED
    BY <1>2, <2>1 DEF IInv, Captured, Obliging, Obligations, Downstream, Active
<1>3. ASSUME NEW f \in Feature, AcceptChecked(p, f)
      PROVE  /\ job'[p].feature = f /\ job'[p].seen \in Version \cup {None}
             /\ \A g \in Obliging(f)' : \A d \in Obligations(g, f)' : d.acked
             /\ baseline'[f] # None /\ None \notin {baseline'[f].surface, job'[p].seen}
                /\ baseline'[f].surface # job'[p].seen =>
                  \A g \in Downstream(f)' :
                    \E d \in resolution'[f] : d.key = job'[p].seen /\ d.to = g /\ Active(d, job'[p].at)
  <2>1. job'[p].seen \in Version \cup {None}
    BY <1>3, CheckKnows, SurfaceType DEF IInv
  <2>2. \A g \in Obliging(f)' : \A d \in Obligations(g, f)' : d.acked
    BY <1>3, CheckKnows DEF Obliging, Obligations
  <2>3. ASSUME baseline[f] # None, None \notin {baseline[f].surface, Surface(f)}, baseline[f].surface # Surface(f),
               NEW g \in Downstream(f)
        PROVE  \E d \in resolution[f] : d.key = Surface(f) /\ d.to = g /\ Active(d, now)
    <3>1. Change(f) = Surface(f) /\ g \in Outbound(f)
      BY <2>3 DEF Change, Outbound
    <3> QED
      BY <1>3, <3>1, CheckKnows DEF Disposed
  <2> QED
    BY <1>3, <2>1, <2>2, <2>3, CheckKnows DEF Downstream
<1> QED
  BY <1>1, <1>2, <1>3

\* The verdict travels with the job.
LEMMA VouchedKeeps ==
  ASSUME IInv, Next
  PROVE  Vouched'
<1> SUFFICES ASSUME NEW p \in Proc, pc'[p] \in {"capturing", "vouching"}, job'[p].name = "impact"
             PROVE  /\ job'[p].seen \in {None, job'[p].view[2]}
                    /\ \A g \in Feature \ {job'[p].feature} : Acknowledged(job'[p].feature, job'[p].view[5][g])
  BY DEF Vouched, Acknowledged
<1>1. \/ pc[p] \in {"capturing", "vouching"} /\ job'[p] = job[p]
      \/ \E f \in Feature : AcceptChecked(p, f)
  BY JobsStay
<1>2. ASSUME NEW f \in Feature, AcceptChecked(p, f)
      PROVE  /\ job'[p].seen \in {None, job'[p].view[2]}
             /\ \A g \in Feature \ {job'[p].feature} : Acknowledged(job'[p].feature, job'[p].view[5][g])
  BY <1>2, CheckKnows, SurfaceType DEF IInv
<1> QED
  BY <1>1, <1>2 DEF IInv, Vouched

\* Whoever scans writes a report like none before.
LEMMA ScansCount ==
  ASSUME IInv, Next, NEW f \in Feature
  PROVE  \/ scan'[f] = scan[f] /\ gate'[f].scan = gate[f].scan
         \/ scan'[f].writes > scan[f].writes
<1> USE DEF IInv, TypeOK
<1>1. ASSUME NEW g \in Feature, Scan(g) \/ ScanDisposition(g)
      PROVE  \/ scan'[f] = scan[f] /\ gate'[f].scan = gate[f].scan
             \/ scan'[f].writes > scan[f].writes
  <2>1. PICK disposed \in BOOLEAN, status \in {"pass", "awaiting_disposition"} : SetScan(g, disposed, status)
    BY <1>1 DEF Scan, ScanDisposition
  <2>2. CASE f = g
    <3>1. scan'[f].writes = scan[f].writes + 1 /\ scan[f].writes \in Nat
      BY <2>1, <2>2 DEF SetScan
    <3> QED
      BY <3>1
  <2>3. CASE f # g
    BY <2>1, <2>3 DEF SetScan
  <2> QED
    BY <2>2, <2>3
<1>2. ASSUME NEW p \in Proc, SetGate(p)
      PROVE  scan'[f] = scan[f] /\ gate'[f].scan = gate[f].scan
  <2>1. job[p].name # "scan" /\ gate' = [gate EXCEPT ![job[p].feature][job[p].name] = Pass(job[p].token)]
        /\ scan' = scan
    BY <1>2 DEF SetGate
  <2> QED
    BY <2>1
<1> HIDE DEF IInv, TypeOK
<1>3. CASE UNCHANGED <<scan, gate>>
  BY <1>3
<1>4. \/ UNCHANGED <<scan, gate>>
      \/ \E g \in Feature : Scan(g) \/ ScanDisposition(g)
      \/ \E p \in Proc : SetGate(p)
  BY KindsOfStep, ResolutionSteps
  DEF IInv, Decides, Section, Others, Tick, AcceptRefused, Edit, CheckImpact, AcceptChecked, DeclareDependency,
      RemoveDependency, SaveWire, Step, SaveImpactReport, SaveBaseline, RecomputeGate, LockTimeout, files
<1> QED
  BY <1>1, <1>2, <1>3, <1>4

\* A token that is good after the step.
GoodNext(f, t) == TokenGood(f, t, scan'[f], gate'[f].scan.token)

\* A good token stays good: a scan makes it one of an earlier scan.
LEMMA TokenStays ==
  ASSUME IInv, Next, TypeOK', NEW f \in Feature, NEW t, Good(f, t)
  PROVE  GoodNext(f, t)
<1> USE DEF Good, GoodNext
<1>1. CASE scan'[f] = scan[f] /\ gate'[f].scan = gate[f].scan
  BY <1>1
<1>2. CASE scan'[f].writes > scan[f].writes
  <2>1. scan[f].writes \in Nat /\ scan'[f].writes \in Nat
    BY DEF IInv, TypeOK
  <2> QED
    BY <1>2, <2>1 DEF TokenGood
<1> QED
  BY <1>1, <1>2, ScansCount

\* The token that is computed is good, unless it is blurred: then the wires, the
\* dispositions and the class are still those of the verdict, and the scan gate
\* passes, so that the last scan has read this class.
LEMMA NewTokenGood ==
  ASSUME IInv, NEW p \in Proc, RecomputeGate(p), job'[p].name = "impact", ~job'[p].blurred
  PROVE  GoodNext(job'[p].feature, job'[p].token)
<1> DEFINE f == job[p].feature
<1>1. /\ pc[p] = "vouching" /\ job[p].name = "impact" /\ f \in Feature /\ job'[p].feature = f
      /\ job'[p].token = ImpactInputs(f) /\ UNCHANGED <<scan, gate>>
      /\ job[p].view = View(f, report[f]) /\ baseline[f] = [surface |-> job[p].seen] /\ ScanPasses(f)
  BY DEF RecomputeGate, Job, IInv, TypeOK, files
<1> HIDE DEF f
<1>2. job[p].view[2] = file[f] /\ job[p].view[5] = resolution
  BY <1>1 DEF View
<1>3. /\ job[p].seen \in {None, file[f]}
      /\ \A g \in Feature \ {f} : Acknowledged(f, resolution[g])
  BY <1>1, <1>2 DEF IInv, Vouched, f
<1>4. gate[f].scan.token[2] = file
  BY <1>1 DEF ScanPasses, Passes, ScanInputs
<1>5. baseline[f].surface \in {None, gate[f].scan.token[2][f]}
  BY <1>1, <1>3, <1>4
<1>6. Named(f) \subseteq Feature
  BY <1>1 DEF IInv, TypeOK
<1>7. Good(f, ImpactInputs(f))
  BY <1>1, <1>3, <1>5, <1>6 DEF Good, TokenGood, ImpactInputs, IInv, TypeOK
<1> QED
  BY <1>1, <1>7 DEF Good, GoodNext

\* The tokens of passes that are not blurred stay good.
LEMMA TokensKeep ==
  ASSUME IInv, Next, TypeOK'
  PROVE  TokensGood'
<1>1. ASSUME NEW p \in Proc, pc'[p] = "gating", job'[p].name = "impact", ~job'[p].blurred
      PROVE  GoodNext(job'[p].feature, job'[p].token)
  <2>1. \/ pc[p] = "gating" /\ job'[p] = job[p]
        \/ RecomputeGate(p)
    BY <1>1, JobsStay
  <2>2. CASE pc[p] = "gating" /\ job'[p] = job[p]
    <3>1. job[p].feature \in Feature /\ Good(job[p].feature, job[p].token)
      BY <1>1, <2>2 DEF IInv, TypeOK, TokensGood
    <3> QED
      BY <2>2, <3>1, TokenStays
  <2> QED
    BY <1>1, <2>1, <2>2, NewTokenGood
<1>2. ASSUME NEW f \in Feature \ blurred', gate'[f].impact # None
      PROVE  GoodNext(f, gate'[f].impact.token)
  <2>1. CASE gate'[f].impact = gate[f].impact /\ f \notin blurred
    <3>1. Good(f, gate[f].impact.token)
      BY <1>2, <2>1 DEF IInv, TokensGood
    <3> QED
      BY <2>1, <3>1, TokenStays
  <2>2. ASSUME NEW p \in Proc, SetGate(p), f = job[p].feature, job[p].name = "impact"
        PROVE  GoodNext(f, gate'[f].impact.token)
    <3>1. gate'[f].impact.token = job[p].token /\ ~job[p].blurred /\ pc[p] = "gating"
      BY <1>2, <2>2 DEF SetGate, Pass, IInv, TypeOK, Gate
    <3>2. Good(f, job[p].token)
      BY <2>2, <3>1 DEF IInv, TokensGood
    <3> QED
      BY <3>1, <3>2, TokenStays
  <2>3. \/ gate'[f].impact = gate[f].impact /\ f \notin blurred
        \/ \E p \in Proc : SetGate(p) /\ f = job[p].feature /\ job[p].name = "impact"
    <3>1. ASSUME NEW p \in Proc, SetGate(p), ~(f = job[p].feature /\ job[p].name = "impact")
          PROVE  gate'[f].impact = gate[f].impact /\ f \notin blurred
      BY <1>2, <3>1 DEF SetGate, IInv, TypeOK, Gate
    <3>2. ASSUME NEW g \in Feature, Scan(g) \/ ScanDisposition(g)
          PROVE  gate'[f].impact = gate[f].impact /\ f \notin blurred
      BY <1>2, <3>2 DEF Scan, ScanDisposition, SetScan, IInv, TypeOK, Gate
    <3>3. \/ UNCHANGED <<gate, blurred>>
          \/ \E g \in Feature : Scan(g) \/ ScanDisposition(g)
          \/ \E p \in Proc : SetGate(p)
      BY KindsOfStep, ResolutionSteps
      DEF IInv, Decides, Section, Others, Tick, AcceptRefused, Edit, CheckImpact, AcceptChecked, DeclareDependency,
          RemoveDependency, SaveWire, Step, SaveImpactReport, SaveBaseline, RecomputeGate, LockTimeout, files
    <3> QED
      BY <1>2, <3>1, <3>2, <3>3
  <2> QED
    BY <2>1, <2>2, <2>3
<1> QED
  BY <1>1, <1>2 DEF TokensGood, Good, GoodNext

-----------------------------------------------------------------------------
(* The theorems.                                                           *)

\* The initial states satisfy the invariant: what was accepted before was of the
\* class as it is, or its token is of no use any more.
LEMMA InitHolds ==
  ASSUME Init
  PROVE  IInv
<1> USE DEF Init
<1>1. /\ file \in [Feature -> Version]
      /\ scan \in [Feature -> [disposed : BOOLEAN, writes : Nat]]
      /\ resolution \in [Feature -> SUBSET Disposition]
  OBVIOUS
<1>2. deps \in [Feature -> SUBSET Feature] /\ \A f \in Feature : {<<f, g>> : g \in deps[f]} \subseteq Wire
  <2>1. \A w \in Wire : w[1] \in Feature /\ w[2] \in Feature /\ w = <<w[1], w[2]>>
    <3> SUFFICES ASSUME NEW w \in Wire PROVE w[1] \in Feature /\ w[2] \in Feature /\ w = <<w[1], w[2]>>
      OBVIOUS
    <3>1. PICK g \in Feature, h \in Feature : w = <<g, h>>
      BY ImpactAssumption
    <3> QED
      BY <3>1
  <2>2. \A f \in Feature : deps[f] = {w[2] : w \in {v \in Wire : v[1] = f}}
    OBVIOUS
  <2>3. ASSUME NEW f \in Feature, NEW g \in deps[f] PROVE <<f, g>> \in Wire /\ g \in Feature
    <3>1. PICK w \in Wire : w[1] = f /\ w[2] = g
      BY <2>2, <2>3
    <3> QED
      BY <2>1, <3>1
  <2>4. \A f \in Feature : {<<f, g>> : g \in deps[f]} \subseteq Wire
    BY <2>3
  <2>5. deps \in [Feature -> SUBSET Feature]
    <3>1. \A f \in Feature : {w[2] : w \in {v \in Wire : v[1] = f}} \in SUBSET Feature
      BY <2>1
    <3> QED
      BY <3>1
  <2> QED
    BY <2>4, <2>5
<1>4. \A f \in Feature : f \notin Downstream(f) /\ Downstream(f) \subseteq Feature
  <2> SUFFICES ASSUME NEW f \in Feature, f \in deps[f] PROVE FALSE
    BY DEF Downstream
  <2>1. <<f, f>> \in Wire
    BY <1>2
  <2> QED
    BY <2>1, ImpactAssumption
<1>5. \A f \in Feature : Surface(f) \in Version \cup {None} /\ Obliging(f) = {}
  BY <1>1 DEF Surface, Obliging, Obligations
<1>6. PICK was \in Version \cup {None} :
       /\ baseline = [f \in Feature |->
            IF was = None THEN None
            ELSE [surface |-> IF OnSurface(f) THEN was ELSE None]]
       /\ report = [f \in Feature |-> IF was = None THEN None ELSE Report(f)]
       /\ gate = [f \in Feature |->
            [scan |-> Pass(ScanInputs(f)),
             dependencies |-> IF deps[f] = {} THEN None ELSE Pass(DependencyInputs(f)),
             impact |-> IF was = None THEN None
                        ELSE Pass(IF was = file[f] THEN ImpactInputs(f) ELSE <<>>)]]
  OBVIOUS
<1>7. baseline \in [Feature -> [surface : Version \cup {None}] \cup {None}]
  BY <1>6
<1>8. ASSUME NEW f \in Feature
      PROVE  Report(f) \in ImpactReport /\ Report(f).out \cup Report(f).in \subseteq Feature \ {f}
  <2>1. Change(f) \in Version \cup {None} /\ Outbound(f) \subseteq Feature \ {f}
    BY <1>4, <1>5 DEF Change, Outbound
  <2> QED
    BY <1>5, <2>1 DEF Report, ImpactReport
<1>9. report \in [Feature -> ImpactReport \cup {None}] /\ \A f \in Feature : Named(f) \subseteq Feature \ {f}
  BY <1>6, <1>8 DEF Named
<1>10. /\ DOMAIN gate = Feature
       /\ \A f \in Feature :
            /\ DOMAIN gate[f] = Gate
            /\ \A name \in Gate :
                 gate[f][name] = None \/ gate[f][name].status \in {"pass", "awaiting_disposition"}
  BY <1>6 DEF Gate, Pass
<1>11. TypeOK
  <2>1. /\ lock \in Proc \cup {None} /\ DOMAIN job = Proc /\ now \in 0..MaxTime
        /\ pc \in [Proc -> {"idle", "reporting", "capturing", "vouching", "gating"}]
        /\ \A p \in Proc : pc[p] = "idle" /\ job[p] = None /\ lock # p
    BY ImpactAssumption
  <2>2. \A f \in Feature : resolution[f] = {}
    OBVIOUS
  <2> HIDE DEF Init
  <2> QED
    BY <1>1, <1>2, <1>7, <1>9, <1>10, <2>1, <2>2 DEF TypeOK
<1>12. Places /\ Reporting /\ Captured /\ Vouched
  BY ImpactAssumption DEF Places, Reporting, Captured, Vouched
<1>13. TokensGood
  <2> SUFFICES ASSUME NEW f \in Feature, gate[f].impact # None PROVE Good(f, gate[f].impact.token)
    BY DEF TokensGood
  <2>1. was # None /\ gate[f].scan.token = <<scan[f], file>>
    BY <1>6 DEF Pass, ScanInputs
  <2>2. gate[f].impact.token = IF was = file[f] THEN ImpactInputs(f) ELSE <<>>
    BY <1>6, <2>1 DEF Pass
  <2>3. CASE was = file[f]
    <3>1. baseline[f].surface \in {None, file[f]}
      BY <1>6, <2>1, <2>3
    <3>2. \A g \in Named(f) : resolution[g] = {}
      BY <1>9
    <3> QED
      <4> HIDE DEF Init
      <4> DEFINE t == ImpactInputs(f)
      <4>1. /\ t[1] = baseline[f] /\ t[5] = scan[f]
            /\ t[6] = [g \in Named(f) |-> <<deps[g], resolution[g]>>]
        BY DEF ImpactInputs
      <4>2. \A g \in DOMAIN t[6] : t[6][g][2] = {}
        BY <3>2, <4>1
      <4>3. scan[f] \in [disposed : BOOLEAN, writes : Nat]
        BY <1>1
      <4> HIDE DEF t
      <4>4. TokenGood(f, t, scan[f], gate[f].scan.token)
        BY <2>1, <3>1, <4>1, <4>2, <4>3 DEF TokenGood, Acknowledged
      <4> QED
        BY <2>2, <2>3, <4>4 DEF Good, t
  <2>4. CASE was # file[f]
    BY <2>2, <2>4 DEF Good, TokenGood
  <2> QED
    BY <2>3, <2>4
<1> QED
  BY <1>11, <1>12, <1>13 DEF IInv

\* Every step keeps it.
LEMMA StepKeeps ==
  ASSUME IInv, [Next]_vars
  PROVE  IInv'
<1>1. CASE Next
  BY <1>1, FilesKeep, ReportingKeeps, CapturedKeeps, VouchedKeeps, TokensKeep DEF IInv
<1>2. CASE UNCHANGED vars
  <2> USE <1>2 DEF vars, files, IInv
  <2>1. TypeOK'
    BY DEF TypeOK, Named
  <2>2. Places' /\ Reporting'
    BY DEF Places, Reporting
  <2>3. Captured'
    BY DEF Captured, Obliging, Obligations, Downstream, Active
  <2>4. Vouched' /\ TokensGood'
    BY DEF Vouched, TokensGood, Good
  <2> QED
    BY <2>1, <2>2, <2>3, <2>4
<1> QED
  BY <1>1, <1>2

\* The inductive invariant: every verdict, token and pass tells what was so when
\* it was taken.
THEOREM Inductive == Spec => []IInv
<1>1. Init => IInv
  BY InitHolds
<1>2. IInv /\ [Next]_vars => IInv'
  BY StepKeeps
<1> QED
  BY <1>1, <1>2, PTL DEF Spec

\* The state keeps its types.
THEOREM TypeCorrect == Spec => []TypeOK
<1>1. IInv => TypeOK
  BY DEF IInv
<1> QED
  BY <1>1, Inductive, PTL

\* While the impact gate of a feature passes, it has acknowledged what it is
\* obliged to, unless the pass is blurred.
THEOREM ObligationsHeldCorrect == Spec => []ObligationsHeld
<1>1. IInv => ObligationsHeld
  <2> SUFFICES ASSUME IInv, NEW f \in Feature, ImpactPasses(f), f \notin blurred,
                      NEW g \in Named(f), NEW d \in Obligations(g, f)
               PROVE  d.acked
    BY DEF ObligationsHeld
  <2>1. gate[f].impact.token = ImpactInputs(f) /\ Good(f, gate[f].impact.token)
    BY DEF ImpactPasses, Passes, IInv, TokensGood
  <2>2. Acknowledged(f, resolution[g])
    BY <2>1 DEF Good, TokenGood, ImpactInputs
  <2> QED
    BY <2>2 DEF Acknowledged, Obligations
<1> QED
  BY <1>1, Inductive, PTL

\* Where impact was accepted and verify passes, nothing has changed that a
\* feature downstream reads, unless the pass is blurred.
THEOREM VerifiedIsAcceptedCorrect == Spec => []VerifiedIsAccepted
<1>1. IInv => VerifiedIsAccepted
  <2> SUFFICES ASSUME IInv, NEW f \in Feature, gate[f].impact # None, Verified(f), f \notin blurred
               PROVE  Change(f) = None
    BY DEF VerifiedIsAccepted, Outbound
  <2>1. gate[f].impact.token = ImpactInputs(f) /\ Good(f, gate[f].impact.token)
    BY DEF Verified, ImpactPasses, Passes, IInv, TokensGood
  <2>2. gate[f].scan.token[2] = file
    BY DEF Verified, ScanPasses, Passes, ScanInputs
  <2>3. baseline[f].surface \in {None, file[f]}
    BY <2>1, <2>2 DEF Good, TokenGood, ImpactInputs
  <2> QED
    BY <2>3, SurfaceType DEF Change, IInv
<1> QED
  BY <1>1, Inductive, PTL

\* Accept never launders a change into the baseline.
THEOREM BaselineIsEarnedCorrect == Spec => BaselineIsEarned
<1> DEFINE Earned(f, p) ==
             /\ pc[p] = "capturing" /\ job[p].feature = f
             /\ job[p].seen = Surface(f) =>
                  /\ \A g \in Outbound(f) :
                       \E d \in resolution[f] :
                         d.key = file[f] /\ d.to = g /\ Active(d, job[p].at)
                  /\ \A g \in Obliging(f) : \A d \in Obligations(g, f) : d.acked
           Step1 == \A f \in Feature : baseline'[f] # baseline[f] => \E p \in Proc : Earned(f, p)
<1>1. ASSUME IInv, Next, NEW f \in Feature, baseline'[f] # baseline[f]
      PROVE  \E p \in Proc : Earned(f, p)
  <2>1. PICK p \in Proc : SaveBaseline(p)
    BY <1>1, KindsOfStep, ResolutionSteps
    DEF IInv, Decides, Section, Others, Tick, AcceptRefused, Scan, ScanDisposition, SetScan, Edit, CheckImpact,
        AcceptChecked, DeclareDependency, RemoveDependency, SaveWire, Step, SaveImpactReport, RecomputeGate,
        SetGate, LockTimeout, files
  <2>2. pc[p] = "capturing" /\ job[p].feature = f
    BY <1>1, <2>1 DEF SaveBaseline, IInv, TypeOK
  <2>3. ASSUME job[p].seen = Surface(f), NEW g \in Outbound(f)
        PROVE  \E d \in resolution[f] : d.key = file[f] /\ d.to = g /\ Active(d, job[p].at)
    <3>1. Change(f) # None /\ g \in Downstream(f)
      BY <2>3 DEF Outbound
    <3>2. /\ baseline[f] # None /\ None \notin {baseline[f].surface, Surface(f)}
          /\ baseline[f].surface # Surface(f) /\ Surface(f) = file[f]
      BY <3>1, SurfaceType, <1>1 DEF Change, IInv
    <3> QED
      BY <1>1, <2>2, <2>3, <3>1, <3>2 DEF IInv, Captured
  <2>4. \A g \in Obliging(f) : \A d \in Obligations(g, f) : d.acked
    BY <1>1, <2>2 DEF IInv, Captured
  <2> QED
    BY <2>2, <2>3, <2>4
<1>2. IInv /\ [Next]_vars => [Step1]_vars
  BY <1>1
<1> QED
  BY <1>2, Inductive, PTL DEF Spec, BaselineIsEarned
=============================================================================
