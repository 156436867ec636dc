-------------------------- MODULE RepositoryProofs ---------------------------
(***************************************************************************)
(* Proofs about Repository and the modules it composes, for any features,  *)
(* processes, requests, files and bounds.  First types, what an id names,  *)
(* what an emit knows of the files it has read, and how the manifest       *)
(* follows them (IInv); then where the parts of a feature are while it is  *)
(* renamed (RInv).                                                         *)
(***************************************************************************)
EXTENDS Repository, FiniteSetTheorems, FunctionTheorems, WellFoundedInduction, TLAPS

-----------------------------------------------------------------------------
(* The inductive invariant: commands on features.                          *)

Indexing == {"init", "rename", "link"}

\* Where a command stands and what it has found out by then, x being the record of its process.
JobOK(x) ==
  /\ x.cmd = "none" <=> x.at \in {"idle", "dead"}
  /\ x.cmd # "none" => x.id \in Id
  /\ x.cmd = "archive" <=> x.at = "read"
  /\ x.cmd = "emit" <=> x.at = "emitting"
  /\ x.cmd \in {"rename", "link"} => x.to \in Id
  /\ x.cmd = "rename" => x.to[1] = x.id[1]
  /\ x.at \in Moving => x.cmd = "rename" /\ x.to # x.id
  /\ x.at = "numbered" => x.cmd = "init"
  /\ x.cmd = "init" /\ x.at \in {"numbered", "saved"} => x.to \in Id
  /\ x.cmd \in {"archive", "gate", "emit"} \/ x.at \in Moving \cup {"numbered", "saved"} => x.uid \in Uid
  /\ x.cmd = "gate" => x.gate \in Gate
  /\ x.cmd = "init" => x.feature = Absent
  /\ x.at \in {"read", "featureRead"} => x.feature \in Record
  /\ x.at \in {"loaded", "stateRead"} => x.state \in State

Jobs == \A p \in Process : JobOK(proc[p])

\* The holder of the lock feature-index is the one that changes the index; a rename goes by the index as
\* it is, in which nobody has the new id; and the state file is where it has moved it.
Indexers ==
  \A p \in Process :
    /\ proc[p].cmd \in Indexing /\ proc[p].at # "waiting" => featureLock = p
    /\ proc[p].at \in Moving => proc[p].index = index /\ \A u \in Uid : proc[p].to \notin Ids(u, index)
    /\ proc[p].at = "stateMoved" => sbf[proc[p].to] # Absent

\* Ids a feature lists are different.
Distinct == \A u \in Uid : \A i, j \in 1..Len(index.by_uid[u]) : index.by_uid[u][i] = index.by_uid[u][j] => i = j

\* What a number stands for, without a feature whose number is only chosen.
SettledBy(n) ==
  {u \in Uid : \E i \in Ids(u, index) : i[1] = n}
  \cup {specs[i].uid : i \in {j \in Id : j[1] = n /\ specs[j] # Absent}}
  \cup {u \in Uid : \E p \in Process : proc[p].at # "numbered" /\ AtWorkOn(p, u, n)}

\* The features that lost the directory of a number to a person.
Left(n) == {u \in Uid : <<u, n>> \in removed}

\* A number stands for one feature, unless a person took its directory away, and that has a directory.
Numbered ==
  \A n \in 1..MaxNumber :
    /\ \A u, v \in KnownBy(n) \ Left(n) : u = v
    /\ SettledBy(n) \subseteq Left(n) \/ n \in Numbers

-----------------------------------------------------------------------------
(* The inductive invariant: emits.                                         *)

\* The manifest records generated files only.
Renders(m) == \A f \in Path : m.files[f] # Absent => m.files[f].hash \in Generated

\* Files the emit e has not dealt with.
Ahead(e) == IF e.at = "written" THEN e.left \ {First(e.left)} ELSE e.left

\* What an emit knows by itself: a file of the repository is not among those to come when it is in a
\* conflict that is not forced.
EmitOK(e) ==
  /\ Renders(e.mem)
  /\ e.at \in {"planning", "units", "classified", "written"} => e.id \in Id
  /\ e.at \in {"classified", "written"} => e.left # {}
  /\ e.at \in {"idle", "planning", "flag", "flagLoaded", "verdict"} => e.left = {}
  /\ e.at = "classified" /\ ~e.force => Action(e, First(e.left)) # "conflict"
  /\ ~e.force => \A f \in Ahead(e) \cap Infra : Action(e, f) # "conflict"

Emits ==
  /\ Renders(manifest)
  /\ \A p \in Process : /\ EmitOK(emit[p]) /\ Renders(proc[p].manifest)
                        /\ emit[p].at # "idle" <=> proc[p].cmd = "emit"
  /\ cut <= spent.faults

\* One process at a time goes by a manifest it has loaded.
OneHolder == ~overlap => \A p, q \in Process : Holds(p) /\ Holds(q) => p = q

\* It is the manifest on disk, but for the entry of the file that has just been written; and no file
\* yet to come was generated since it was read.
FollowsFiles(e) ==
  /\ e.at \in {"units", "classified", "flagLoaded"} => e.mem = manifest
  /\ e.at = "written" =>
       LET f == First(e.left) IN
       /\ e.mem.enforce = manifest.enforce
       /\ e.mem.files[f] # Absent /\ e.mem.files[f].hash = Fresh(e, f)
       /\ \A g \in Path \ {f} : e.mem.files[g] = manifest.files[g]
       /\ disk[f] \in Generated => disk[f] = Fresh(e, f)
  /\ \A f \in Ahead(e) \cap Infra : disk[f] \in Generated => disk[f] = e.seen[f]
  /\ e.at = "classified" => LET f == First(e.left) IN disk[f] \in Generated => disk[f] = e.seen[f]

Following ==
  ~overlap => \A p \in Process : /\ FollowsFiles(emit[p])
                                 /\ proc[p].at = "manifestRead" => proc[p].manifest = manifest

\* All unvouched files but the one of an emit that stands at it are accounted for by killed emits.
Written == {First(emit[p].left) : p \in {q \in Process : emit[q].at = "written"}}

Vouching == ~overlap => \E S \in SUBSET Path : Cardinality(S) <= cut /\ Unvouched \subseteq S \cup Written

\* The flag a generated file of the repository may carry while the emit e runs.
FlagOK(e, f) ==
  IF e.at = "planning" \/ f \in Ahead(e) THEN disk[f].enforce = e.prior
  ELSE disk[f].enforce = e.enforce \/ (e.conflicts \cap Infra # {} /\ disk[f].enforce = e.prior)

Running == {"planning", "units", "classified", "written", "flag", "flagLoaded"}

Flagged ==
  (~overlap /\ ~blocked /\ cut = 0) =>
    /\ \A p \in Process : emit[p].at \in Running =>
         emit[p].prior = manifest.enforce /\ \A f \in Infra : disk[f] \in Generated => FlagOK(emit[p], f)
    /\ (\A p \in Process : emit[p].at \notin Running) =>
         \A f \in Infra : disk[f] \in Generated => disk[f].enforce = manifest.enforce

IInv ==
  /\ TypeOK /\ Jobs /\ Indexers /\ Distinct /\ Numbered
  /\ Emits /\ OneHolder /\ Following /\ Vouching /\ Flagged
-----------------------------------------------------------------------------
(* Least elements.                                                         *)

\* A set of natural numbers has a least element.
LEMMA LeastExists ==
  ASSUME NEW T, T \subseteq Nat, T # {}
  PROVE  \E x \in T : \A y \in T : x <= y
<1> DEFINE R == OpToRel(<, Nat)
<1>1. IsWellFoundedOn(R, Nat)
  BY NatLessThanWellFounded
<1>2. \A x, y \in Nat : y < x => <<y, x>> \in R
  BY DEF OpToRel
<1> HIDE DEF R
<1>3. PICK x \in T : \A y \in T : ~(<<y, x>> \in R)
  BY <1>1, WFMin
<1>4. \A y \in T : y \in Nat /\ x \in Nat /\ ~(y < x)
  BY <1>2, <1>3
<1>5. \A y \in T : x <= y
  BY <1>4
<1> QED
  BY <1>5

\* And a greatest one when it is bounded.
LEMMA GreatestExists ==
  ASSUME NEW T, NEW b \in Nat, T \subseteq 0..b, T # {}
  PROVE  \E x \in T : \A y \in T : y <= x
<1> DEFINE S == {b - y : y \in T}
<1>0. \A y \in T : b - y \in Nat
  OBVIOUS
<1>1. S \subseteq Nat /\ S # {}
  BY <1>0
<1> HIDE DEF S
<1>2. PICK x \in S : \A y \in S : x <= y
  BY <1>1, LeastExists
<1>3. PICK t \in T : x = b - t
  BY <1>2 DEF S
<1>4. ASSUME NEW y \in T PROVE y <= t
  <2>1. b - y \in S
    BY DEF S
  <2>2. b - t <= b - y
    BY <2>1, <1>2, <1>3
  <2> QED
    BY <2>2
<1> QED
  BY <1>4

\* The next file of an emit is one of those left.
LEMMA FirstIn ==
  ASSUME NEW S \in SUBSET Path, S # {}
  PROVE  First(S) \in S
<1>1. \E f \in S : \A g \in S : f <= g
  BY LeastExists, PathsAssumption
<1> QED
  BY <1>1 DEF First

-----------------------------------------------------------------------------
(* The record of the process that takes a step.                            *)

\* The process p goes on with a record that is as it should be, and no other does.
JobStep(p) ==
  /\ proc' \in [Process -> Job] /\ JobOK(proc'[p])
  /\ \A q \in Process \ {p} : proc'[q] = proc[q]

\* Going on to another place leaves the other fields alone.
LEMMA AtSet ==
  ASSUME TypeOK, NEW p \in Process,
         NEW place \in {"idle", "dead", "waiting", "locked", "numbered", "saved", "read", "loaded",
                        "emitting", "done"} \cup Moving,
         Goes(p, place)
  PROVE  /\ proc' \in [Process -> Job] /\ \A q \in Process \ {p} : proc'[q] = proc[q]
         /\ proc'[p].at = place
         /\ proc'[p].cmd = proc[p].cmd /\ proc'[p].id = proc[p].id /\ proc'[p].to = proc[p].to
         /\ proc'[p].gate = proc[p].gate /\ proc'[p].uid = proc[p].uid
         /\ proc'[p].feature = proc[p].feature /\ proc'[p].state = proc[p].state
         /\ proc'[p].index = proc[p].index /\ proc'[p].manifest = proc[p].manifest
<1> DEFINE y == [proc[p] EXCEPT !.at = place]
<1>1. proc \in [Process -> Job] /\ proc[p] \in Job
  BY DEF TypeOK, LifecycleTypeOK
<1>2. y \in Job
  BY <1>1 DEF Job
<1>3. /\ y.at = place /\ y.cmd = proc[p].cmd /\ y.id = proc[p].id /\ y.to = proc[p].to
      /\ y.gate = proc[p].gate /\ y.uid = proc[p].uid
  BY <1>1 DEF Job
<1>4. /\ y.feature = proc[p].feature /\ y.state = proc[p].state
      /\ y.index = proc[p].index /\ y.manifest = proc[p].manifest
  BY <1>1 DEF Job
<1>5. proc' = [proc EXCEPT ![p] = y]
  BY DEF Goes
<1> HIDE DEF y
<1>6. proc'[p] = y /\ proc' \in [Process -> Job] /\ \A q \in Process \ {p} : proc'[q] = proc[q]
  BY <1>1, <1>2, <1>5
<1> QED
  BY <1>3, <1>4, <1>6

\* An empty manifest and an idle process are what their types say.
LEMMA IdleIsJob == NoManifest \in Manifest /\ Idle \in Job
<1>1. NoManifest \in Manifest
  BY DEF NoManifest, Manifest
<1> QED
  BY <1>1 DEF Idle, Job, Commands

\* Ending, or being killed.
LEMMA EndSet ==
  ASSUME TypeOK, NEW p \in Process,
         Ends(p) \/ proc' = [proc EXCEPT ![p] = [Idle EXCEPT !.at = "dead"]]
  PROVE  /\ JobStep(p) /\ proc'[p].cmd = "none" /\ proc'[p].at \in {"idle", "dead"}
         /\ proc'[p].uid = Absent /\ proc'[p].feature = Absent
         /\ proc'[p].manifest = NoManifest
<1>1. [Idle EXCEPT !.at = "dead"] \in Job
  BY IdleIsJob DEF Job
<1>2. \A x \in {Idle, [Idle EXCEPT !.at = "dead"]} :
        /\ x \in Job /\ JobOK(x) /\ x.cmd = "none" /\ x.at \in {"idle", "dead"}
        /\ x.uid = Absent /\ x.feature = Absent /\ x.manifest = NoManifest
  BY <1>1, IdleIsJob DEF Idle, JobOK, Moving
<1>3. \E x \in {Idle, [Idle EXCEPT !.at = "dead"]} : proc' = [proc EXCEPT ![p] = x]
  BY DEF Ends
<1> QED
  BY <1>2, <1>3 DEF JobStep, TypeOK, LifecycleTypeOK

\* The commands that start.
Starts(p) ==
  \/ \E slug \in Slug : StartInit(p, slug) \/ \E id \in Id : StartRename(p, id, slug)
  \/ \E id, alias \in Id : StartLink(p, id, alias)
  \/ \E id \in Id : StartArchive(p, id) \/ \E gate \in Gate : StartGate(p, id, gate)
  \/ \E id \in Id, force, enforce \in BOOLEAN : StartEmit(p, id, force, enforce)

\* A feature that exists has a record.
LEMMA RecordIs ==
  ASSUME TypeOK, NEW id \in Id
  PROVE  /\ specs[id] # Absent <=> specs[id] \in Record
         /\ specs[id] # Absent => specs[id].uid \in Uid
BY RecordsAssumption DEF TypeOK, LifecycleTypeOK, Record

\* Each begins with a record for its command.
LEMMA StartSteps ==
  ASSUME TypeOK, NEW p \in Process, Starts(p)
  PROVE  /\ JobStep(p) /\ proc[p].at = "idle"
         /\ proc'[p].at \in {"waiting", "read", "emitting"} /\ proc'[p].manifest = NoManifest
         /\ proc'[p].id \in Id
         /\ \/ proc'[p].uid = Absent /\ proc'[p].feature = Absent
            \/ /\ specs[proc'[p].id] # Absent /\ proc'[p].uid = specs[proc'[p].id].uid
               /\ proc'[p].feature \in {Absent, specs[proc'[p].id]} /\ proc'[p].cmd # "init"
<1> DEFINE Good(x) == /\ x \in Job /\ JobOK(x)
                      /\ x.at \in {"waiting", "read", "emitting"} /\ x.manifest = NoManifest
                      /\ x.id \in Id
                      /\ \/ x.uid = Absent /\ x.feature = Absent
                         \/ /\ specs[x.id] # Absent /\ x.uid = specs[x.id].uid
                            /\ x.feature \in {Absent, specs[x.id]} /\ x.cmd # "init"
<1>0. SUFFICES \E x : Begins(p, x) /\ Good(x)
  <2>1. PICK x : Begins(p, x) /\ Good(x)
    BY <1>0
  <2>2. proc[p].at = "idle" /\ proc' = [proc EXCEPT ![p] = x]
    BY <2>1 DEF Begins
  <2>3. proc' \in [Process -> Job] /\ proc'[p] = x /\ \A q \in Process \ {p} : proc'[q] = proc[q]
    BY <2>1, <2>2 DEF TypeOK, LifecycleTypeOK
  <2> QED
    BY <2>1, <2>2, <2>3 DEF JobStep
<1>1. ASSUME NEW slug \in Slug, StartInit(p, slug) PROVE \E x : Begins(p, x) /\ Good(x)
  <2> DEFINE x == [Idle EXCEPT !.cmd = "init", !.at = "waiting", !.id = <<1, slug>>]
  <2>1. <<1, slug>> \in Id
    BY FeaturesAssumption, PathsAssumption DEF Id
  <2>2. x \in Job
    BY <2>1, IdleIsJob DEF Job, Commands
  <2>3. Good(x)
    BY <2>1, <2>2 DEF Idle, JobOK, Moving
  <2> QED
    BY <2>3, <1>1 DEF StartInit
<1>2. ASSUME NEW id \in Id, NEW slug \in Slug, StartRename(p, id, slug) PROVE \E x : Begins(p, x) /\ Good(x)
  <2> DEFINE x == [Idle EXCEPT !.cmd = "rename", !.at = "waiting", !.id = id, !.to = <<id[1], slug>>]
  <2>1. <<id[1], slug>> \in Id
    BY DEF Id
  <2>2. x \in Job
    BY <2>1, IdleIsJob DEF Job, Commands
  <2>3. Good(x)
    BY <2>1, <2>2 DEF Idle, JobOK, Moving
  <2> QED
    BY <2>3, <1>2 DEF StartRename
<1>3. ASSUME NEW id \in Id, NEW alias \in Id, StartLink(p, id, alias) PROVE \E x : Begins(p, x) /\ Good(x)
  <2> DEFINE x == [Idle EXCEPT !.cmd = "link", !.at = "waiting", !.id = alias, !.to = id]
  <2>2. x \in Job
    BY IdleIsJob DEF Job, Commands
  <2>3. Good(x)
    BY <2>2 DEF Idle, JobOK, Moving
  <2> QED
    BY <2>3, <1>3 DEF StartLink
<1>4. ASSUME NEW id \in Id, StartArchive(p, id) PROVE \E x : Begins(p, x) /\ Good(x)
  <2> DEFINE x == [Idle EXCEPT !.cmd = "archive", !.at = "read", !.id = id, !.uid = specs[id].uid,
                               !.feature = specs[id]]
  <2>1. specs[id] # Absent /\ specs[id] \in Record /\ specs[id].uid \in Uid
    BY <1>4, RecordIs DEF StartArchive
  <2>2. x \in Job
    BY <2>1, IdleIsJob DEF Job, Commands
  <2>3. Good(x)
    BY <2>1, <2>2 DEF Idle, JobOK, Moving
  <2> QED
    BY <2>3, <1>4 DEF StartArchive
<1>5. ASSUME NEW id \in Id, NEW gate \in Gate, StartGate(p, id, gate) PROVE \E x : Begins(p, x) /\ Good(x)
  <2> DEFINE x == [Idle EXCEPT !.cmd = "gate", !.at = "waiting", !.id = id, !.gate = gate,
                               !.uid = specs[id].uid]
  <2>1. specs[id] # Absent /\ specs[id] \in Record /\ specs[id].uid \in Uid
    BY <1>5, RecordIs DEF StartGate
  <2>2. x \in Job
    BY <2>1, IdleIsJob DEF Job, Commands
  <2>3. Good(x)
    BY <2>1, <2>2 DEF Idle, JobOK, Moving
  <2> QED
    BY <2>3, <1>5 DEF StartGate
<1>6. ASSUME NEW id \in Id, NEW force \in BOOLEAN, NEW enforce \in BOOLEAN, StartEmit(p, id, force, enforce)
      PROVE  \E x : Begins(p, x) /\ Good(x)
  <2> DEFINE x == [Idle EXCEPT !.cmd = "emit", !.at = "emitting", !.id = id, !.uid = specs[id].uid]
  <2>1. specs[id] # Absent /\ specs[id] \in Record /\ specs[id].uid \in Uid
    BY <1>6, RecordIs DEF StartEmit
  <2>2. x \in Job
    BY <2>1, IdleIsJob DEF Job, Commands
  <2>3. Good(x)
    BY <2>1, <2>2 DEF Idle, JobOK, Moving
  <2> QED
    BY <2>3, <1>6 DEF StartEmit
<1> QED
  BY <1>1, <1>2, <1>3, <1>4, <1>5, <1>6 DEF Starts

\* The next number is one that no directory has.
LEMMA NextNumberIs ==
  ASSUME TypeOK
  PROVE  Numbers \subseteq 1..MaxNumber /\ NextNumber \in Nat \ {0} /\ NextNumber \notin Numbers
<1>1. Numbers \subseteq 1..MaxNumber
  BY DEF Numbers, Id
<1>2. CASE Numbers = {}
  BY <1>1, <1>2 DEF NextNumber
<1>3. CASE Numbers # {}
  <2> DEFINE n == CHOOSE n \in Numbers : \A m \in Numbers : m <= n
  <2>1. Numbers \subseteq 0..MaxNumber /\ MaxNumber \in Nat
    BY <1>1, PathsAssumption
  <2>2. \E x \in Numbers : \A m \in Numbers : m <= x
    BY <2>1, <1>3, GreatestExists
  <2>3. n \in Numbers /\ \A m \in Numbers : m <= n
    BY <2>2
  <2>4. NextNumber = 1 + n
    BY <1>3 DEF NextNumber
  <2> HIDE DEF n
  <2>5. n \in Nat /\ ~(1 + n <= n)
    BY <2>1, <2>3
  <2> QED
    BY <1>1, <2>3, <2>4, <2>5
<1> QED
  BY <1>2, <1>3

\* What a process that takes up a place has, when the rest of its record stays.
LEMMA Going ==
  ASSUME TypeOK, Jobs, NEW p \in Process,
         \/ /\ proc[p].at = "waiting" /\ proc[p].cmd \in Indexing \cup {"gate"} /\ Goes(p, "locked")
         \/ /\ proc[p].cmd = "init" /\ proc[p].at = "numbered" /\ Goes(p, "saved")
         \/ /\ proc[p].cmd \in Indexing /\ proc[p].at \in {"locked", "saved", "ownersDone", "checked", "contracts"}
            /\ Goes(p, "done")
         \/ /\ proc[p].at \in Moving
            /\ \E place \in {"moved", "contracts", "featureWritten", "stateMoved", "stateDone",
                             "historyDone", "ownersDone"} : Goes(p, place)
         \/ /\ proc[p].cmd = "gate" /\ proc[p].at \in {"loaded", "saved"}
            /\ \E place \in {"saved", "done"} : Goes(p, place)
  PROVE  JobStep(p)
<1>0. PICK place \in {"locked", "saved", "done", "moved", "contracts", "featureWritten", "stateMoved",
                      "stateDone", "historyDone", "ownersDone"} : Goes(p, place)
  OBVIOUS
<1>1. /\ proc' \in [Process -> Job] /\ \A q \in Process \ {p} : proc'[q] = proc[q]
      /\ proc'[p].at = place
      /\ proc'[p].cmd = proc[p].cmd /\ proc'[p].id = proc[p].id /\ proc'[p].to = proc[p].to
      /\ proc'[p].gate = proc[p].gate /\ proc'[p].uid = proc[p].uid
      /\ proc'[p].feature = proc[p].feature /\ proc'[p].state = proc[p].state
  BY <1>0, AtSet DEF Moving
<1>2. JobOK(proc[p])
  BY DEF Jobs
<1>3. \A r \in {"locked", "saved", "done", "moved", "contracts", "featureWritten", "stateMoved",
                      "stateDone", "historyDone", "ownersDone"} : Goes(p, r) => r = place
  <2> SUFFICES ASSUME NEW r \in {"locked", "saved", "done", "moved", "contracts", "featureWritten", "stateMoved",
                      "stateDone", "historyDone", "ownersDone"}, Goes(p, r)
               PROVE  r = place
    OBVIOUS
  <2>1. proc'[p].at = r
    BY AtSet DEF Moving
  <2> QED
    BY <2>1, <1>1
<1>4. CASE proc[p].at = "waiting" /\ proc[p].cmd \in Indexing \cup {"gate"} /\ place = "locked"
  BY <1>1, <1>2, <1>4 DEF JobStep, JobOK, Moving, Indexing
<1>5. CASE proc[p].cmd = "init" /\ proc[p].at = "numbered" /\ place = "saved"
  BY <1>1, <1>2, <1>5 DEF JobStep, JobOK, Moving, Indexing
<1>6. CASE /\ proc[p].cmd \in Indexing /\ proc[p].at \in {"locked", "saved", "ownersDone", "checked", "contracts"}
           /\ place = "done"
  BY <1>1, <1>2, <1>6 DEF JobStep, JobOK, Moving, Indexing
<1>7. CASE /\ proc[p].at \in Moving
           /\ place \in {"moved", "contracts", "featureWritten", "stateMoved", "stateDone", "historyDone", "ownersDone"}
  BY <1>1, <1>2, <1>7 DEF JobStep, JobOK, Moving, Indexing
<1>8. CASE proc[p].cmd = "gate" /\ proc[p].at \in {"loaded", "saved"} /\ place \in {"saved", "done"}
  BY <1>1, <1>2, <1>8 DEF JobStep, JobOK, Moving, Indexing
<1> QED
  BY <1>3, <1>4, <1>5, <1>6, <1>7, <1>8

\* Steps that read or choose something: what the record has from then on.
LEMMA ReadingSteps ==
  ASSUME TypeOK, Jobs, Indexers, NEW p \in Process
  PROVE  /\ InitNumbers(p) => JobStep(p)
         /\ RenameChecks(p) => JobStep(p)
         /\ RenameReadsFeature(p) => JobStep(p)
         /\ RenameReadsState(p) => JobStep(p)
         /\ RenameReadsManifest(p) => JobStep(p)
         /\ LoadGates(p) => JobStep(p)
<1> DEFINE x == proc[p]
<1>0. x \in Job /\ JobOK(x) /\ proc \in [Process -> Job]
  BY DEF Jobs, TypeOK, LifecycleTypeOK
<1>1. ASSUME InitNumbers(p) PROVE JobStep(p)
  <2> DEFINE n == NextNumber
             u == Uid \ minted
             v == CHOOSE v \in u : \A w \in u : v <= w
  <2>1. CASE n > MaxNumber \/ u = {}
    <3>1. Goes(p, "done")
      BY <1>1, <2>1 DEF InitNumbers
    <3> QED
      BY <3>1, <1>1, Going DEF InitNumbers, Indexing
  <2>2. CASE ~(n > MaxNumber \/ u = {})
    <3>1. n \in 1..MaxNumber
      BY <2>2, NextNumberIs, PathsAssumption
    <3>2. v \in Uid
      <4>1. \E y \in u : \A w \in u : y <= w
        BY <2>2, LeastExists, UidsAssumption
      <4>2. v \in u
        BY <4>1
      <4> QED
        BY <4>2
    <3>3. x.cmd = "init" /\ x.at = "locked" /\ x.id \in Id /\ x.feature = Absent
      BY <1>0, <1>1 DEF InitNumbers, JobOK
    <3>4. <<n, x.id[2]>> \in Id
      BY <3>1, <3>3 DEF Id
    <3>5. proc' = [proc EXCEPT ![p] = [proc[p] EXCEPT !.at = "numbered", !.to = <<n, x.id[2]>>, !.uid = v]]
      BY <1>1, <2>2 DEF InitNumbers
    <3> HIDE DEF n, v
    <3> DEFINE y == [proc[p] EXCEPT !.at = "numbered", !.to = <<n, x.id[2]>>, !.uid = v]
    <3>6. /\ y.at = "numbered" /\ y.to = <<n, x.id[2]>> /\ y.uid = v
          /\ y.cmd = x.cmd /\ y.id = x.id /\ y.feature = x.feature
      BY <1>0 DEF Job
    <3>7. y \in Job
      BY <3>2, <3>4, <1>0 DEF Job
    <3> HIDE DEF y
    <3>8. JobOK(y)
      BY <3>2, <3>3, <3>4, <3>6 DEF JobOK, Moving
    <3> QED
      BY <3>5, <3>7, <3>8, <1>0 DEF JobStep, y
  <2> QED
    BY <2>1, <2>2
<1>2. ASSUME RenameChecks(p) PROVE JobStep(p)
  <2>1. CASE Goes(p, "done")
    BY <2>1, <1>2, Going DEF RenameChecks, Indexing
  <2>2. CASE ~Goes(p, "done")
    <3> DEFINE y == [proc[p] EXCEPT !.at = "checked", !.uid = specs[proc[p].id].uid, !.index = index]
    <3>1. /\ proc' = [proc EXCEPT ![p] = y]
          /\ x.cmd = "rename" /\ specs[x.id] # Absent /\ x.to # x.id
      BY <1>2, <2>2 DEF RenameChecks
    <3>2. x.id \in Id /\ x.to \in Id /\ x.to[1] = x.id[1]
      BY <1>0, <3>1 DEF JobOK
    <3>3. specs[x.id].uid \in Uid /\ index \in Index
      BY <3>1, <3>2, RecordIs DEF TypeOK, LifecycleTypeOK
    <3>4. y.at = "checked" /\ y.uid \in Uid /\ y.cmd = "rename" /\ y.id = x.id /\ y.to = x.to
      BY <3>1, <3>3, <1>0 DEF Job
    <3>5. y \in Job
      BY <3>3, <1>0 DEF Job, Moving
    <3>6. JobOK(y)
      BY <3>1, <3>2, <3>4 DEF JobOK, Moving
    <3> QED
      BY <3>1, <3>5, <3>6, <1>0 DEF JobStep
  <2> QED
    BY <2>1, <2>2
<1>3. ASSUME RenameReadsFeature(p) PROVE JobStep(p)
  <2>1. CASE specs[x.to] = Absent
    <3>1. Goes(p, "done") /\ x.at = "contracts"
      BY <1>3, <2>1 DEF RenameReadsFeature
    <3>2. x.cmd = "rename"
      BY <3>1, <1>0 DEF JobOK, Moving
    <3> QED
      BY <3>1, <3>2, Going DEF Indexing
  <2>2. CASE specs[x.to] # Absent
    <3> DEFINE y == [proc[p] EXCEPT !.at = "featureRead", !.feature = specs[proc[p].to]]
    <3>1. proc' = [proc EXCEPT ![p] = y] /\ x.at = "contracts"
      BY <1>3, <2>2 DEF RenameReadsFeature
    <3>2. x.cmd = "rename" /\ x.to \in Id
      BY <3>1, <1>0 DEF JobOK, Moving
    <3>3. specs[x.to] \in Record
      BY <2>2, <3>2, RecordIs
    <3>4. /\ y.at = "featureRead" /\ y.uid = x.uid /\ y.cmd = "rename"
          /\ y.id = x.id /\ y.to = x.to /\ y.feature \in Record
      BY <3>2, <3>3, <1>0 DEF Job
    <3>5. y \in Job
      BY <3>3, <1>0 DEF Job, Moving
    <3>6. JobOK(y)
      BY <1>0, <3>1, <3>2, <3>4 DEF JobOK, Moving
    <3> QED
      BY <3>1, <3>5, <3>6, <1>0 DEF JobStep
  <2> QED
    BY <2>1, <2>2
<1>4. ASSUME RenameReadsState(p) PROVE JobStep(p)
  <2> DEFINE y == [proc[p] EXCEPT !.at = "stateRead", !.state = sbf[proc[p].to]]
  <2>1. proc' = [proc EXCEPT ![p] = y] /\ x.at = "stateMoved"
    BY <1>4 DEF RenameReadsState
  <2>2. x.cmd = "rename" /\ x.to \in Id
    BY <2>1, <1>0 DEF JobOK, Moving
  <2>3. sbf[x.to] \in State
    BY <2>1, <2>2 DEF Indexers, TypeOK, LifecycleTypeOK
  <2>4. y.at = "stateRead" /\ y.uid = x.uid /\ y.cmd = "rename" /\ y.id = x.id /\ y.to = x.to /\ y.state \in State
    BY <2>2, <2>3, <1>0 DEF Job
  <2>5. y \in Job
    BY <2>2, <2>3, <1>0 DEF Job, Moving
  <2>6. JobOK(y)
    BY <1>0, <2>1, <2>2, <2>4 DEF JobOK, Moving
  <2> QED
    BY <2>1, <2>5, <2>6, <1>0 DEF JobStep
<1>5. ASSUME RenameReadsManifest(p) PROVE JobStep(p)
  <2> DEFINE y == [proc[p] EXCEPT !.at = "manifestRead", !.manifest = manifest]
  <2>1. proc' = [proc EXCEPT ![p] = y] /\ x.at = "historyDone"
    BY <1>5 DEF RenameReadsManifest
  <2>2. x.cmd = "rename" /\ manifest \in Manifest
    BY <2>1, <1>0 DEF JobOK, Moving, TypeOK, LifecycleTypeOK
  <2>3. y.at = "manifestRead" /\ y.uid = x.uid /\ y.cmd = "rename" /\ y.id = x.id /\ y.to = x.to
    BY <2>2, <1>0 DEF Job
  <2>4. y \in Job
    BY <2>2, <1>0 DEF Job, Moving
  <2>5. JobOK(y)
    BY <1>0, <2>1, <2>2, <2>3 DEF JobOK, Moving
  <2> QED
    BY <2>1, <2>4, <2>5, <1>0 DEF JobStep
<1>6. ASSUME LoadGates(p) PROVE JobStep(p)
  <2> DEFINE state == IF sbf[proc[p].id] # Absent THEN sbf[proc[p].id]
                      ELSE [feature_id |-> proc[p].id, gates |-> {}]
             y == [proc[p] EXCEPT !.at = "loaded", !.state = state]
  <2>1. proc' = [proc EXCEPT ![p] = y] /\ x.at = "locked" /\ x.cmd = "gate"
    BY <1>6 DEF LoadGates
  <2>2. x.id \in Id /\ x.uid \in Uid
    BY <2>1, <1>0 DEF JobOK
  <2>3. state \in State
    BY <2>2 DEF TypeOK, LifecycleTypeOK, State
  <2> HIDE DEF state
  <2>4. y.at = "loaded" /\ y.uid = x.uid /\ y.cmd = "gate" /\ y.id = x.id /\ y.gate = x.gate /\ y.state \in State
    BY <2>1, <2>3, <1>0 DEF Job
  <2>5. y \in Job
    BY <2>3, <1>0 DEF Job
  <2>6. JobOK(y)
    BY <1>0, <2>1, <2>2, <2>4 DEF JobOK, Moving
  <2> QED
    BY <2>1, <2>5, <2>6, <1>0 DEF JobStep
<1> QED
  BY <1>1, <1>2, <1>3, <1>4, <1>5, <1>6

-----------------------------------------------------------------------------
(* Types.                                                                  *)

\* Counting a command or a fault.
LEMMA SpendType ==
  ASSUME TypeOK, Spend \/ Fault
  PROVE  /\ spent' \in [commands : 0..MaxCommands, faults : 0..MaxFaults]
         /\ spent.faults <= spent'.faults
         /\ Fault => spent'.faults = spent.faults + 1
BY UidsAssumption DEF TypeOK, LifecycleTypeOK, Spend, Fault

\* What a start does beside the record.
LEMMA BeginsType ==
  ASSUME TypeOK, NEW p \in Process, NEW r, Begins(p, r), JobStep(p)
  PROVE  /\ torn' \in SUBSET Uid
         /\ spent' \in [commands : 0..MaxCommands, faults : 0..MaxFaults]
         /\ spent.faults <= spent'.faults
<1>1. proc'[p] = r
  BY DEF Begins, TypeOK, LifecycleTypeOK
<1>2. r.cmd \in {"archive", "gate", "emit"} => r.uid \in Uid
  BY <1>1 DEF JobStep, JobOK
<1>3. torn' \in SUBSET Uid
  BY <1>2 DEF Begins, TypeOK, LifecycleTypeOK
<1> QED
  BY <1>3, SpendType DEF Begins

\* A record with a changed field.
LEMMA RecordSet ==
  ASSUME NEW r \in Record
  PROVE  /\ [r EXCEPT !.archived = TRUE] \in Record /\ [r EXCEPT !.archived = TRUE].uid = r.uid
         /\ \A i \in Id : [r EXCEPT !.feature_id = i] \in Record /\ [r EXCEPT !.feature_id = i].uid = r.uid
         /\ \A c \in Id \cup {Absent} : [r EXCEPT !.contract = c] \in Record /\ [r EXCEPT !.contract = c].uid = r.uid
BY DEF Record

\* Writing a record to a directory.
LEMMA WithFeatureIs ==
  ASSUME TypeOK, NEW id \in Id, NEW r \in Record
  PROVE  /\ WithFeature(id, r) \in [Id -> Record \cup {Absent}]
         /\ WithFeature(id, r)[id] \in Record /\ WithFeature(id, r)[id].uid = r.uid
         /\ \A i \in Id \ {id} : WithFeature(id, r)[i] = specs[i]
<1> DEFINE c == IF specs[id] = Absent THEN Absent ELSE specs[id].contract
<1>1. c \in Id \cup {Absent}
  BY RecordIs DEF Record
<1>2. [r EXCEPT !.contract = c] \in Record /\ [r EXCEPT !.contract = c].uid = r.uid
  BY <1>1, RecordSet
<1>3. WithFeature(id, r) = [specs EXCEPT ![id] = [r EXCEPT !.contract = c]]
  BY DEF WithFeature
<1> HIDE DEF c
<1> QED
  BY <1>2, <1>3 DEF TypeOK, LifecycleTypeOK

\* New owners are owners.
LEMMA ReownedIs ==
  ASSUME NEW m \in Manifest, NEW old \in Id, NEW new \in Id
  PROVE  /\ Reowned(m, old, new) \in Manifest /\ Reowned(m, old, new).enforce = m.enforce
         /\ \A f \in Path : /\ Reowned(m, old, new).files[f] = Absent <=> m.files[f] = Absent
                            /\ m.files[f] # Absent => Reowned(m, old, new).files[f].hash = m.files[f].hash
<1> DEFINE Moved(f) == IF m.files[f] # Absent /\ m.files[f].owner = old
                       THEN [m.files[f] EXCEPT !.owner = new] ELSE m.files[f]
           fs == [f \in Path |-> Moved(f)]
<1>1. \A f \in Path : /\ Moved(f) \in Entry \cup {Absent}
                      /\ Moved(f) = Absent <=> m.files[f] = Absent
                      /\ m.files[f] # Absent => Moved(f).hash = m.files[f].hash
  BY ContentsAssumption DEF Manifest, Entry, Owner
<1>2. Reowned(m, old, new) = [m EXCEPT !.files = fs]
  BY DEF Reowned
<1>3. \A f \in Path : fs[f] = Moved(f)
  OBVIOUS
<1> HIDE DEF Moved
<1>4. fs \in [Path -> Entry \cup {Absent}]
  BY <1>1
<1> HIDE DEF fs
<1>5. /\ Reowned(m, old, new) \in Manifest /\ Reowned(m, old, new).enforce = m.enforce
      /\ Reowned(m, old, new).files = fs
  BY <1>2, <1>4 DEF Manifest
<1> QED
  BY <1>1, <1>3, <1>5

\* Of a step of p, the types of what it does to the files.
FilesOK ==
  /\ manifest' \in Manifest
  /\ specs' \in [Id -> Record \cup {Absent}]
  /\ sbf' \in [Id -> State \cup {Absent}]
  /\ history' \in [Id -> SUBSET Gate]
  /\ index' \in Index
  /\ featureLock' \in Process \cup {NoHolder} /\ stateLock' \in Process \cup Request \cup {NoHolder}
  /\ spent' \in [commands : 0..MaxCommands, faults : 0..MaxFaults]
  /\ minted' \in SUBSET Uid /\ told' \in [Uid -> SUBSET Gate] /\ torn' \in SUBSET Uid /\ removed' \in SUBSET (Uid \X (1..MaxNumber))

\* A feature that init makes gets a uid that none has had, unless there is no number or uid for it.
LEMMA Mints ==
  ASSUME TypeOK, NEW p \in Process, InitNumbers(p)
  PROVE  \/ Goes(p, "done") /\ minted' = minted
         \/ \E u \in Uid \ minted :
              /\ minted' = minted \cup {u} /\ NextNumber \in 1..MaxNumber
              /\ proc' = [proc EXCEPT ![p] = [proc[p] EXCEPT !.at = "numbered",
                                                    !.to = <<NextNumber, proc[p].id[2]>>, !.uid = u]]
<1> DEFINE n == NextNumber
           u == CHOOSE v \in Uid \ minted : \A w \in Uid \ minted : v <= w
<1>1. CASE n > MaxNumber \/ Uid \subseteq minted
  BY <1>1 DEF InitNumbers
<1>2. CASE ~(n > MaxNumber \/ Uid \subseteq minted)
  <2>1. n \in 1..MaxNumber
    BY <1>2, NextNumberIs, PathsAssumption
  <2>2. u \in Uid \ minted
    <3>1. \E y \in Uid \ minted : \A w \in Uid \ minted : y <= w
      BY <1>2, LeastExists, UidsAssumption
    <3> QED
      BY <3>1
  <2>3. minted' = minted \cup {u} /\ proc' = [proc EXCEPT ![p] = [proc[p] EXCEPT !.at = "numbered",
                                                    !.to = <<n, proc[p].id[2]>>, !.uid = u]]
    BY <1>2 DEF InitNumbers
  <2> HIDE DEF u
  <2> QED
    BY <2>1, <2>2, <2>3
<1> QED
  BY <1>1, <1>2

\* The commands init, link and archive.
LEMMA InitLinkArchiveTypes ==
  ASSUME TypeOK, Jobs, Indexers, NEW p \in Process,
         \/ AcquireFeatures(p) \/ TimeoutFeatures(p) \/ ReleaseFeatures(p)
         \/ InitNumbers(p) \/ InitSaves(p) \/ InitIndexes(p) \/ Link(p) \/ ArchiveSaves(p)
  PROVE  JobStep(p) /\ FilesOK
<1> DEFINE x == proc[p]
<1> USE DEF files, locks, ghosts
<1>0. x \in Job /\ JobOK(x) /\ proc \in [Process -> Job]
  BY DEF Jobs, TypeOK, LifecycleTypeOK
<1>1. CASE AcquireFeatures(p)
  <2>1. JobStep(p)
    BY <1>1, Going DEF AcquireFeatures, Indexing
  <2> QED
    BY <2>1, <1>1 DEF AcquireFeatures, FilesOK, TypeOK, LifecycleTypeOK
<1>2. CASE TimeoutFeatures(p) \/ ReleaseFeatures(p)
  <2>1. JobStep(p)
    BY <1>2, EndSet DEF TimeoutFeatures, ReleaseFeatures
  <2> QED
    BY <2>1, <1>2 DEF TimeoutFeatures, ReleaseFeatures, FilesOK, TypeOK, LifecycleTypeOK
<1>3. CASE InitNumbers(p)
  <2>1. JobStep(p)
    BY <1>3, ReadingSteps
  <2>2. minted' \in SUBSET Uid
    BY <1>3, Mints DEF TypeOK, LifecycleTypeOK
  <2> QED
    BY <2>1, <2>2, <1>3 DEF InitNumbers, FilesOK, TypeOK, LifecycleTypeOK
<1>4. CASE InitSaves(p)
  <2>1. JobStep(p)
    BY <1>4, Going DEF InitSaves
  <2>2. x.to \in Id /\ x.uid \in Uid
    BY <1>0, <1>4 DEF InitSaves, JobOK
  <2>3. [uid |-> x.uid, feature_id |-> x.to, archived |-> FALSE, contract |-> Absent] \in Record
    BY <2>2 DEF Record
  <2>4. specs' \in [Id -> Record \cup {Absent}]
    BY <2>2, <2>3, <1>4 DEF InitSaves, TypeOK, LifecycleTypeOK
  <2> QED
    BY <2>1, <2>4, <1>4 DEF InitSaves, FilesOK, TypeOK, LifecycleTypeOK
<1>5. CASE InitIndexes(p)
  <2>1. JobStep(p)
    BY <1>5, Going DEF InitIndexes, Indexing
  <2>2. x.to \in Id /\ x.uid \in Uid
    BY <1>0, <1>5 DEF InitIndexes, JobOK
  <2>3. [index.by_uid EXCEPT ![x.uid] = <<x.to>>] \in [Uid -> Seq(Id)]
    BY <2>2 DEF TypeOK, LifecycleTypeOK, Index
  <2>4. index' \in Index
    BY <2>3, <1>5 DEF InitIndexes, TypeOK, LifecycleTypeOK, Index
  <2> QED
    BY <2>1, <2>4, <1>5 DEF InitIndexes, FilesOK, TypeOK, LifecycleTypeOK
<1>6. CASE Link(p)
  <2>1. JobStep(p)
    BY <1>6, Going DEF Link, Indexing
  <2>2. x.to \in Id /\ x.id \in Id
    BY <1>0, <1>6 DEF Link, JobOK
  <2>3. [index.merged EXCEPT ![x.id] = x.to] \in [Id -> Id \cup {Absent}]
    BY <2>2 DEF TypeOK, LifecycleTypeOK, Index
  <2>4. index' \in Index
    BY <2>3, <1>6 DEF Link, TypeOK, LifecycleTypeOK, Index
  <2> QED
    BY <2>1, <2>4, <1>6 DEF Link, FilesOK, TypeOK, LifecycleTypeOK
<1>7. CASE ArchiveSaves(p)
  <2>1. JobStep(p)
    BY <1>7, EndSet DEF ArchiveSaves
  <2>2. x.id \in Id /\ x.feature \in Record
    BY <1>0, <1>7 DEF ArchiveSaves, JobOK
  <2>3. [x.feature EXCEPT !.archived = TRUE] \in Record
    BY <2>2, RecordSet
  <2>4. specs' \in [Id -> Record \cup {Absent}]
    BY <2>2, <2>3, <1>7, WithFeatureIs DEF ArchiveSaves
  <2> QED
    BY <2>1, <2>4, <1>7 DEF ArchiveSaves, FilesOK, TypeOK, LifecycleTypeOK
<1> QED
  BY <1>1, <1>2, <1>3, <1>4, <1>5, <1>6, <1>7

\* Rename.
LEMMA RenameTypes ==
  ASSUME TypeOK, Jobs, Indexers, NEW p \in Process,
         \/ RenameChecks(p) \/ RenameDirectory(p) \/ RenameContracts(p) \/ RenameReadsFeature(p)
         \/ RenameWritesFeature(p) \/ RenameState(p) \/ RenameReadsState(p) \/ RenameWritesState(p)
         \/ RenameHistory(p) \/ RenameReadsManifest(p) \/ RenameWritesOwners(p) \/ RenameIndexes(p)
  PROVE  JobStep(p) /\ FilesOK
<1> DEFINE x == proc[p]
<1> USE DEF files, locks, ghosts
<1>0. x \in Job /\ JobOK(x) /\ proc \in [Process -> Job]
  BY DEF Jobs, TypeOK, LifecycleTypeOK
<1>a. x.at \in Moving => x.cmd = "rename" /\ x.id \in Id /\ x.to \in Id /\ x.uid \in Uid
  BY <1>0 DEF JobOK
<1>1. CASE RenameChecks(p)
  <2>1. JobStep(p)
    BY <1>1, ReadingSteps
  <2>2. x.id \in Id
    BY <1>0, <1>1 DEF RenameChecks, JobOK
  <2>3. torn' \in SUBSET Uid
    BY <1>1, <2>2, RecordIs DEF RenameChecks, TypeOK, LifecycleTypeOK
  <2> QED
    BY <2>1, <2>3, <1>1 DEF RenameChecks, FilesOK, TypeOK, LifecycleTypeOK
<1>2. CASE RenameDirectory(p)
  <2>1. JobStep(p)
    BY <1>2, <1>a, Going DEF RenameDirectory, Moving, Indexing
  <2>2. specs' \in [Id -> Record \cup {Absent}]
    BY <1>2, <1>a DEF RenameDirectory, Moving, TypeOK, LifecycleTypeOK
  <2> QED
    BY <2>1, <2>2, <1>2 DEF RenameDirectory, FilesOK, TypeOK, LifecycleTypeOK
<1>3. CASE RenameContracts(p)
  <2>1. JobStep(p)
    BY <1>3, <1>a, Going DEF RenameContracts, Moving, Indexing
  <2>2. x.to \in Id
    BY <1>3, <1>a DEF RenameContracts, Moving
  <2>3. specs[x.to] # Absent => [specs[x.to] EXCEPT !.contract = x.to] \in Record
    BY <2>2, RecordIs, RecordSet
  <2>4. specs' \in [Id -> Record \cup {Absent}]
    BY <1>3, <2>2, <2>3 DEF RenameContracts, TypeOK, LifecycleTypeOK
  <2> QED
    BY <2>1, <2>4, <1>3 DEF RenameContracts, FilesOK, TypeOK, LifecycleTypeOK
<1>4. CASE RenameReadsFeature(p)
  <2>1. JobStep(p)
    BY <1>4, ReadingSteps
  <2>2. x.uid \in Uid
    BY <1>4, <1>a DEF RenameReadsFeature, Moving
  <2> QED
    BY <2>1, <2>2, <1>4 DEF RenameReadsFeature, FilesOK, TypeOK, LifecycleTypeOK
<1>5. CASE RenameWritesFeature(p)
  <2>1. JobStep(p)
    BY <1>5, <1>a, Going DEF RenameWritesFeature, Moving, Indexing
  <2>2. x.to \in Id /\ x.feature \in Record
    BY <1>0, <1>5, <1>a DEF RenameWritesFeature, Moving, JobOK
  <2>3. [x.feature EXCEPT !.feature_id = x.to] \in Record
    BY <2>2, RecordSet
  <2>4. specs' \in [Id -> Record \cup {Absent}]
    BY <1>5, <2>2, <2>3, WithFeatureIs DEF RenameWritesFeature, TypeOK, LifecycleTypeOK
  <2> QED
    BY <2>1, <2>4, <1>5 DEF RenameWritesFeature, FilesOK, TypeOK, LifecycleTypeOK
<1>6. CASE RenameState(p)
  <2>1. JobStep(p)
    BY <1>6, <1>a, Going DEF RenameState, Moving, Indexing
  <2>2. sbf' \in [Id -> State \cup {Absent}]
    BY <1>6, <1>a DEF RenameState, Moving, TypeOK, LifecycleTypeOK
  <2> QED
    BY <2>1, <2>2, <1>6 DEF RenameState, FilesOK, TypeOK, LifecycleTypeOK
<1>7. CASE RenameReadsState(p) \/ RenameReadsManifest(p)
  <2>1. JobStep(p)
    BY <1>7, ReadingSteps
  <2> QED
    BY <2>1, <1>7 DEF RenameReadsState, RenameReadsManifest, FilesOK, TypeOK, LifecycleTypeOK
<1>8. CASE RenameWritesState(p)
  <2>1. JobStep(p)
    BY <1>8, <1>a, Going DEF RenameWritesState, Moving, Indexing
  <2>2. x.to \in Id /\ x.state \in State
    BY <1>0, <1>8, <1>a DEF RenameWritesState, Moving, JobOK
  <2>3. [x.state EXCEPT !.feature_id = x.to] \in State
    BY <2>2 DEF State
  <2>4. sbf' \in [Id -> State \cup {Absent}]
    BY <1>8, <2>2, <2>3 DEF RenameWritesState, TypeOK, LifecycleTypeOK
  <2> QED
    BY <2>1, <2>4, <1>8 DEF RenameWritesState, FilesOK, TypeOK, LifecycleTypeOK
<1>9. CASE RenameHistory(p)
  <2>1. JobStep(p)
    BY <1>9, <1>a, Going DEF RenameHistory, Moving, Indexing
  <2>2. history' \in [Id -> SUBSET Gate]
    BY <1>9, <1>a DEF RenameHistory, Moving, TypeOK, LifecycleTypeOK
  <2> QED
    BY <2>1, <2>2, <1>9 DEF RenameHistory, FilesOK, TypeOK, LifecycleTypeOK
<1>10. CASE RenameWritesOwners(p)
  <2>1. JobStep(p)
    BY <1>10, <1>a, Going DEF RenameWritesOwners, Moving, Indexing
  <2>2. Reowned(x.manifest, x.id, x.to) \in Manifest
    BY <1>0, <1>10, <1>a, ReownedIs DEF RenameWritesOwners, Moving, Job
  <2> QED
    BY <2>1, <2>2, <1>10 DEF RenameWritesOwners, FilesOK, TypeOK, LifecycleTypeOK
<1>11. CASE RenameIndexes(p)
  <2>1. JobStep(p)
    BY <1>11, <1>a, Going DEF RenameIndexes, Moving, Indexing
  <2>2. x.to \in Id /\ x.id \in Id /\ x.uid \in Uid /\ x.index \in Index
    BY <1>11, <1>a DEF RenameIndexes, Moving, Indexers, TypeOK, LifecycleTypeOK
  <2> DEFINE known == x.index.by_uid[x.uid]
             ids == Append(IF known = <<>> THEN <<x.id>> ELSE known, x.to)
  <2>3. ids \in Seq(Id)
    BY <2>2 DEF Index
  <2>4. index' = [x.index EXCEPT !.by_uid = [x.index.by_uid EXCEPT ![x.uid] = ids]]
    BY <1>11 DEF RenameIndexes
  <2> HIDE DEF ids
  <2>5. index' \in Index
    BY <2>2, <2>3, <2>4 DEF Index
  <2> QED
    BY <2>1, <2>5, <1>11 DEF RenameIndexes, FilesOK, TypeOK, LifecycleTypeOK
<1> QED
  BY <1>1, <1>2, <1>3, <1>4, <1>5, <1>6, <1>7, <1>8, <1>9, <1>10, <1>11

\* Gate writes and kills.
LEMMA GateTypes ==
  ASSUME TypeOK, Jobs, Indexers, NEW p \in Process,
         \/ AcquireState(p) \/ TimeoutState(p) \/ LoadGates(p) \/ SaveGates(p) \/ AppendGate(p) \/ ReleaseState(p)
         \/ Crash(p)
  PROVE  JobStep(p) /\ FilesOK
<1> DEFINE x == proc[p]
<1> USE DEF files, locks, ghosts
<1>0. x \in Job /\ JobOK(x) /\ proc \in [Process -> Job]
  BY DEF Jobs, TypeOK, LifecycleTypeOK
<1>a. x.cmd = "gate" => x.id \in Id /\ x.gate \in Gate /\ x.uid \in Uid
  BY <1>0 DEF JobOK
<1>1. CASE AcquireState(p)
  <2>1. JobStep(p)
    BY <1>1, Going DEF AcquireState
  <2> QED
    BY <2>1, <1>1 DEF AcquireState, FilesOK, TypeOK, LifecycleTypeOK
<1>2. CASE TimeoutState(p) \/ ReleaseState(p)
  <2>1. JobStep(p)
    BY <1>2, EndSet DEF TimeoutState, ReleaseState
  <2> QED
    BY <2>1, <1>2 DEF TimeoutState, ReleaseState, FilesOK, TypeOK, LifecycleTypeOK
<1>3. CASE LoadGates(p)
  <2>1. JobStep(p)
    BY <1>3, ReadingSteps
  <2> QED
    BY <2>1, <1>3 DEF LoadGates, FilesOK, TypeOK, LifecycleTypeOK
<1>4. CASE SaveGates(p)
  <2>1. JobStep(p)
    BY <1>4, Going DEF SaveGates
  <2>2. x.state \in State
    BY <1>0, <1>4 DEF SaveGates, JobOK
  <2>3. [x.state EXCEPT !.gates = @ \cup {x.gate}] \in State
    BY <2>2, <1>a, <1>4 DEF SaveGates, State
  <2>4. sbf' \in [Id -> State \cup {Absent}]
    BY <2>3, <1>a, <1>4 DEF SaveGates, TypeOK, LifecycleTypeOK
  <2> QED
    BY <2>1, <2>4, <1>4 DEF SaveGates, FilesOK, TypeOK, LifecycleTypeOK
<1>5. CASE AppendGate(p)
  <2>1. JobStep(p)
    BY <1>5, Going DEF AppendGate
  <2>2. history' \in [Id -> SUBSET Gate] /\ told' \in [Uid -> SUBSET Gate]
    BY <1>a, <1>5 DEF AppendGate, TypeOK, LifecycleTypeOK
  <2> QED
    BY <2>1, <2>2, <1>5 DEF AppendGate, FilesOK, TypeOK, LifecycleTypeOK
<1>6. CASE Crash(p)
  <2>1. JobStep(p)
    BY <1>6, EndSet DEF Crash
  <2>2. x.at \in Moving => x.uid \in Uid
    BY <1>0 DEF JobOK
  <2>3. torn' \in SUBSET Uid
    BY <2>2, <1>6 DEF Crash, TypeOK, LifecycleTypeOK
  <2>4. spent' \in [commands : 0..MaxCommands, faults : 0..MaxFaults]
    BY <1>6, SpendType DEF Crash
  <2> QED
    BY <2>1, <2>3, <2>4, <1>6 DEF Crash, FilesOK, TypeOK, LifecycleTypeOK
<1> QED
  BY <1>1, <1>2, <1>3, <1>4, <1>5, <1>6

\* Starts.
LEMMA StartTypes ==
  ASSUME TypeOK, NEW p \in Process, Starts(p)
  PROVE  /\ JobStep(p) /\ FilesOK /\ spent.faults <= spent'.faults
         /\ UNCHANGED <<manifest, files, index, locks, minted, told, removed>>
<1>1. JobStep(p)
  BY StartSteps
<1>2. UNCHANGED <<manifest, files, index, locks, minted, told, removed>> /\ \E r : Begins(p, r)
  BY DEF Starts, StartInit, StartRename, StartLink, StartArchive, StartGate, StartEmit
<1>3. /\ torn' \in SUBSET Uid /\ spent.faults <= spent'.faults
      /\ spent' \in [commands : 0..MaxCommands, faults : 0..MaxFaults]
  BY <1>1, <1>2, BeginsType
<1> QED
  BY <1>1, <1>2, <1>3 DEF FilesOK, TypeOK, LifecycleTypeOK, files, locks

\* What the environment does to the features.
LEMMA EnvironmentTypes ==
  ASSUME TypeOK, RemoveStaleLock \/ \E id \in Id : RemoveDirectory(id)
  PROVE  FilesOK /\ proc' = proc /\ spent.faults <= spent'.faults
<1> USE DEF files, locks, ghosts
<1>1. CASE RemoveStaleLock
  BY <1>1 DEF RemoveStaleLock, FilesOK, TypeOK, LifecycleTypeOK
<1>2. ASSUME NEW id \in Id, RemoveDirectory(id) PROVE FilesOK /\ proc' = proc /\ spent.faults <= spent'.faults
  <2>1. spent' \in [commands : 0..MaxCommands, faults : 0..MaxFaults] /\ spent.faults <= spent'.faults
    BY <1>2, SpendType DEF RemoveDirectory
  <2>2. specs' \in [Id -> Record \cup {Absent}]
    BY <1>2 DEF RemoveDirectory, TypeOK, LifecycleTypeOK
  <2>3. KnownBy(id[1]) \subseteq Uid
    BY RecordIs DEF KnownBy
  <2>4. removed' \in SUBSET (Uid \X (1..MaxNumber))
    BY <2>3, <1>2 DEF RemoveDirectory, TypeOK, LifecycleTypeOK, Id
  <2> QED
    BY <2>1, <2>2, <2>4, <1>2 DEF RemoveDirectory, FilesOK, TypeOK, LifecycleTypeOK
<1> QED
  BY <1>1, <1>2

\* Every step of a command on features.
LEMMA FeatureTypes ==
  ASSUME TypeOK, Jobs, Indexers, NEW p \in Process, FeatureStep(p)
  PROVE  JobStep(p) /\ FilesOK
BY InitLinkArchiveTypes, RenameTypes, GateTypes, StartTypes DEF FeatureStep, Starts

-----------------------------------------------------------------------------
(* What an emit renders and how it stands to a file.                       *)

\* A version is the one that runs.
LEMMA CurrentIs == Current \in Version
BY VersionsAssumption DEF Current

\* What is rendered is a generated file of the right flag.
LEMMA FreshIs ==
  ASSUME NEW e \in Emission, e.id \in Id, NEW f \in Path
  PROVE  /\ Fresh(e, f) \in Generated /\ Fresh(e, f) \in Content /\ Fresh(e, f) # Absent
         /\ Fresh(e, f).owner \in Owner
         /\ f \in Infra => Fresh(e, f).enforce = e.enforce
<1>1. Fresh(e, f) \in Generated /\ Fresh(e, f).owner \in Owner /\ (f \in Infra => Fresh(e, f).enforce = e.enforce)
  BY CurrentIs DEF Fresh, Render, Generated, Owner, Emission
<1> QED
  BY <1>1, ContentsAssumption DEF Content

\* What goes into the classification of a file, and nothing else.
LEMMA ActionSame ==
  ASSUME NEW e, NEW d, NEW f, d.seen[f] = e.seen[f], d.mem.files[f] = e.mem.files[f],
         d.id = e.id, d.enforce = e.enforce
  PROVE  Action(d, f) = Action(e, f) /\ Fresh(d, f) = Fresh(e, f)
BY DEF Action, Fresh, Pristine, Recorded

\* A file that needs no write is the fresh one, as far as the emit has seen; one that no entry
\* vouches for and no render explains is in a conflict.
LEMMA ActionIs ==
  ASSUME NEW e \in Emission, e.id \in Id, Renders(e.mem), NEW f \in Path
  PROVE  /\ Action(e, f) \in {"unchanged", "adoptUnchanged"} => e.seen[f] = Fresh(e, f)
         /\ e.seen[f] \in Hand => Action(e, f) = "conflict"
<1> DEFINE c == e.seen[f]
           m == e.mem.files[f]
<1>1. c \in Content \cup {Absent} /\ m \in Entry \cup {Absent} /\ Absent \notin Content
  BY ContentsAssumption DEF Emission, Manifest
<1>2. Recorded(e.mem, f) = Absent \/ Recorded(e.mem, f) \in Generated
  BY DEF Recorded, Renders
<1>3. c \in Hand => c \notin Generated /\ c # Absent /\ c # Fresh(e, f)
  BY FreshIs, ContentsAssumption DEF Content
<1>4. c \in Hand => ~Pristine(e, f)
  BY <1>3 DEF Pristine
<1>5. Action(e, f) \in {"unchanged", "adoptUnchanged"} => c = Fresh(e, f)
  BY DEF Action, Classify
<1>6. c \in Hand => Action(e, f) = "conflict"
  BY <1>2, <1>3, <1>4 DEF Action, Classify
<1> QED
  BY <1>5, <1>6

-----------------------------------------------------------------------------
(* The record of an emit that takes a step.                                *)

\* The emit of p goes on with the record y, and no other does.
EmitTo(p, y) == /\ emit' \in [Process -> Emission] /\ emit'[p] = y
                /\ \A q \in Process \ {p} : emit'[q] = emit[q]

LEMMA EmitSet ==
  ASSUME TypeOK, NEW p \in Process, NEW y \in Emission, emit' = [emit EXCEPT ![p] = y]
  PROVE  EmitTo(p, y)
BY DEF EmitTo, TypeOK, HandlesTypeOK

\* The fields that stay when a file has been dealt with.
LEMMA SkipIs ==
  ASSUME TypeOK, NEW p \in Process, NEW f \in Path, NEW cs \in SUBSET Path, Skip(p, f, cs)
  PROVE  \E y \in Emission :
           /\ EmitTo(p, y)
           /\ y.at = "units" /\ y.left = emit[p].left \ {f} /\ y.conflicts = emit[p].conflicts \cup cs
           /\ \A g \in Path \ {f} : y.seen[g] = emit[p].seen[g]
           /\ y.id = emit[p].id /\ y.force = emit[p].force /\ y.enforce = emit[p].enforce
           /\ y.prior = emit[p].prior /\ y.mem = emit[p].mem
<1> DEFINE e == emit[p]
           s == [e.seen EXCEPT ![f] = Absent]
           l == e.left \ {f}
           c == e.conflicts \cup cs
           y == [e EXCEPT !.at = "units", !.left = l, !.seen = s, !.conflicts = c]
<1>1. e \in Emission
  BY DEF TypeOK, HandlesTypeOK
<1>2. /\ s \in [Path -> Content \cup {Absent}] /\ \A g \in Path \ {f} : s[g] = e.seen[g]
      /\ l \in SUBSET Path /\ c \in SUBSET Path
  BY <1>1 DEF Emission
<1>3. emit' = [emit EXCEPT ![p] = y]
  BY DEF Skip
<1> HIDE DEF s, l, c
<1>4. /\ y \in Emission /\ y.at = "units" /\ y.left = l /\ y.seen = s /\ y.conflicts = c
      /\ y.id = e.id /\ y.force = e.force /\ y.enforce = e.enforce /\ y.prior = e.prior /\ y.mem = e.mem
  BY <1>1, <1>2 DEF Emission
<1> HIDE DEF y
<1>5. EmitTo(p, y)
  BY <1>3, <1>4, EmitSet
<1>6. y.left = e.left \ {f} /\ y.conflicts = e.conflicts \cup cs
  BY <1>4 DEF l, c
<1> QED
  BY <1>2, <1>4, <1>5, <1>6

\* Planning: the manifest and the files of the repository are read.
LEMMA PlanIs ==
  ASSUME TypeOK, NEW p \in Process, PlanInfra(p)
  PROVE  \E y \in Emission :
           /\ EmitTo(p, y)
           /\ y.at = "units" /\ y.mem = manifest /\ \A f \in Infra : y.seen[f] = disk[f]
           /\ \/ y.left = Late /\ y.conflicts = Infra
              \/ /\ y.left = Path /\ y.conflicts = {}
                 /\ y.force \/ \A f \in Infra : Action(y, f) # "conflict"
           /\ y.id = emit[p].id /\ y.force = emit[p].force /\ y.enforce = emit[p].enforce
           /\ y.prior = emit[p].prior
<1> DEFINE infra == [f \in Path |-> IF f \in Infra THEN disk[f] ELSE Absent]
           e == [emit[p] EXCEPT !.mem = manifest, !.seen = infra]
           stuck == ~e.force /\ \E f \in Infra : Action(e, f) = "conflict"
           l == IF stuck THEN Late ELSE Path
           c == IF stuck THEN Infra ELSE {}
           y == [e EXCEPT !.at = "units", !.left = l, !.conflicts = c]
<1>1. emit[p] \in Emission /\ manifest \in Manifest
  BY DEF TypeOK, HandlesTypeOK, LifecycleTypeOK
<1>2. infra \in [Path -> Content \cup {Absent}] /\ \A f \in Infra : infra[f] = disk[f]
  BY DEF TypeOK, HandlesTypeOK, Path
<1>3. emit' = [emit EXCEPT ![p] = y]
  BY DEF PlanInfra
<1> HIDE DEF infra
<1>4. /\ e \in Emission /\ e.mem = manifest /\ e.seen = infra
      /\ e.id = emit[p].id /\ e.force = emit[p].force /\ e.enforce = emit[p].enforce /\ e.prior = emit[p].prior
  BY <1>1, <1>2 DEF Emission
<1> HIDE DEF e
<1>5. l \in SUBSET Path /\ c \in SUBSET Path
  BY DEF Path
<1>6. \/ l = Late /\ c = Infra
      \/ l = Path /\ c = {} /\ (e.force \/ \A f \in Infra : Action(e, f) # "conflict")
  OBVIOUS
<1> HIDE DEF stuck, l, c
<1>7. /\ y \in Emission /\ y.at = "units" /\ y.left = l /\ y.seen = infra /\ y.conflicts = c /\ y.mem = manifest
      /\ y.id = emit[p].id /\ y.force = emit[p].force /\ y.enforce = emit[p].enforce /\ y.prior = emit[p].prior
  BY <1>4, <1>5 DEF Emission
<1> HIDE DEF y
<1>8. EmitTo(p, y)
  BY <1>3, <1>7, EmitSet
<1>9. \A f \in Infra : Action(y, f) = Action(e, f)
  BY <1>4, <1>7, ActionSame
<1> QED
  BY <1>2, <1>4, <1>6, <1>7, <1>8, <1>9

\* A file that is to be written.
LEMMA ClassifiedIs ==
  ASSUME TypeOK, Emits, NEW p \in Process, ReadUnit(p)
  PROVE  LET f == First(emit[p].left) IN
         \/ Action(emit[p], f) = "unchanged" /\ f \in Infra /\ Skip(p, f, {})
         \/ f \notin Infra /\ (Skip(p, f, {}) \/ Skip(p, f, {f}))
         \/ Action(emit[p], f) = "conflict" /\ f \in Infra /\ ~emit[p].force /\ Skip(p, f, {f})
         \/ \E y \in Emission :
              /\ EmitTo(p, y) /\ y.at = "classified" /\ y.left = emit[p].left
              /\ \A g \in Path \ {f} : y.seen[g] = emit[p].seen[g]
              /\ y.seen[f] = (IF f \in Infra THEN emit[p].seen[f] ELSE disk[f])
              /\ y.force \/ Action(y, f) # "conflict"
              /\ y.conflicts = emit[p].conflicts
              /\ y.id = emit[p].id /\ y.force = emit[p].force /\ y.enforce = emit[p].enforce
              /\ y.prior = emit[p].prior /\ y.mem = emit[p].mem
<1> DEFINE f == First(emit[p].left)
           s == [emit[p].seen EXCEPT ![f] = disk[f]]
           e == IF f \in Infra THEN emit[p] ELSE [emit[p] EXCEPT !.seen = s]
           y == [e EXCEPT !.at = "classified"]
           a == Action(e, f)
<1>0. emit[p] \in Emission /\ emit[p].left # {} /\ emit[p].left \in SUBSET Path
  BY DEF TypeOK, HandlesTypeOK, ReadUnit, Emission
<1>1. f \in emit[p].left /\ f \in Path
  BY <1>0, FirstIn
<1>2. \/ a = "unchanged" /\ Skip(p, f, {})
      \/ a = "conflict" /\ ~e.force /\ Skip(p, f, {f})
      \/ ~(a = "conflict" /\ ~e.force) /\ emit' = [emit EXCEPT ![p] = y]
  BY DEF ReadUnit
<1> HIDE DEF f
<1>3. /\ s \in [Path -> Content \cup {Absent}] /\ \A g \in Path \ {f} : s[g] = emit[p].seen[g]
      /\ s[f] = disk[f]
  BY <1>0, <1>1 DEF Emission, TypeOK, HandlesTypeOK
<1> HIDE DEF s
<1>4. /\ e \in Emission /\ e.left = emit[p].left /\ e.conflicts = emit[p].conflicts
      /\ e.id = emit[p].id /\ e.force = emit[p].force /\ e.enforce = emit[p].enforce
      /\ e.prior = emit[p].prior /\ e.mem = emit[p].mem
  BY <1>0, <1>3 DEF Emission
<1>5. e.seen = (IF f \in Infra THEN emit[p].seen ELSE s)
  BY <1>0, <1>3 DEF Emission
<1>6. f \in Infra => e = emit[p]
  OBVIOUS
<1> HIDE DEF e
<1>7. /\ y \in Emission /\ y.at = "classified" /\ y.left = e.left /\ y.seen = e.seen /\ y.conflicts = e.conflicts
      /\ y.id = e.id /\ y.force = e.force /\ y.enforce = e.enforce /\ y.prior = e.prior /\ y.mem = e.mem
  BY <1>4 DEF Emission
<1> HIDE DEF y
<1>8. Action(y, f) = Action(e, f)
  BY <1>7, ActionSame
<1>9. CASE emit' = [emit EXCEPT ![p] = y] /\ ~(a = "conflict" /\ ~e.force)
  <2>1. EmitTo(p, y)
    BY <1>7, <1>9, EmitSet
  <2> QED
    BY <2>1, <1>3, <1>4, <1>5, <1>7, <1>8, <1>9 DEF f
<1>10. CASE a = "unchanged" /\ Skip(p, f, {})
  BY <1>6, <1>10 DEF f
<1>11. CASE a = "conflict" /\ ~e.force /\ Skip(p, f, {f})
  BY <1>4, <1>6, <1>11 DEF f
<1> QED
  BY <1>2, <1>9, <1>10, <1>11

\* The entry of a file that has been written.
LEMMA WrittenIs ==
  ASSUME TypeOK, Emits, NEW p \in Process, WriteUnit(p)
  PROVE  LET e == emit[p]
             f == First(e.left)
         IN  \E y \in Emission :
               /\ EmitTo(p, y) /\ y.at = "written" /\ y.left = e.left
               /\ y.mem.enforce = e.mem.enforce
               /\ y.mem.files[f] # Absent /\ y.mem.files[f].hash = Fresh(e, f)
               /\ y.mem.files[f].owner = Fresh(e, f).owner
               /\ \A g \in Path \ {f} : y.mem.files[g] = e.mem.files[g]
               /\ y.seen = e.seen /\ y.conflicts = e.conflicts
               /\ y.id = e.id /\ y.force = e.force /\ y.enforce = e.enforce /\ y.prior = e.prior
<1> DEFINE e == emit[p]
           f == First(e.left)
           entry == [owner |-> Fresh(e, f).owner, hash |-> Fresh(e, f)]
           m == [files |-> [e.mem.files EXCEPT ![f] = entry], enforce |-> e.mem.enforce]
           z == [e EXCEPT !.mem = m, !.changed = TRUE]
           y == [z EXCEPT !.at = "written"]
<1>0. e \in Emission /\ e.at = "classified" /\ EmitOK(e)
  BY DEF TypeOK, HandlesTypeOK, WriteUnit, Emitting, Emits
<1>1. e.left # {} /\ e.left \in SUBSET Path /\ e.id \in Id
  BY <1>0 DEF EmitOK, Emission
<1>2. f \in e.left /\ f \in Path
  BY <1>1, FirstIn
<1>3. emit' = [emit EXCEPT ![p] = y]
  BY DEF WriteUnit, WithEntry
<1> HIDE DEF f
<1>4. Fresh(e, f) \in Content /\ Fresh(e, f).owner \in Owner
  BY <1>0, <1>1, <1>2, FreshIs
<1>5. entry \in Entry /\ entry.hash = Fresh(e, f) /\ entry.owner = Fresh(e, f).owner /\ entry # Absent
  BY <1>4, ContentsAssumption DEF Entry
<1> HIDE DEF entry
<1>6. /\ m \in Manifest /\ m.enforce = e.mem.enforce /\ m.files[f] = entry
      /\ \A g \in Path \ {f} : m.files[g] = e.mem.files[g]
  BY <1>0, <1>2, <1>5 DEF Manifest, Emission
<1> HIDE DEF m
<1>7. /\ z \in Emission /\ z.mem = m /\ z.left = e.left /\ z.seen = e.seen /\ z.conflicts = e.conflicts
      /\ z.id = e.id /\ z.force = e.force /\ z.enforce = e.enforce /\ z.prior = e.prior
  BY <1>0, <1>6 DEF Emission
<1> HIDE DEF z
<1>8. /\ y \in Emission /\ y.at = "written" /\ y.mem = m /\ y.left = e.left /\ y.seen = e.seen
      /\ y.conflicts = e.conflicts
      /\ y.id = e.id /\ y.force = e.force /\ y.enforce = e.enforce /\ y.prior = e.prior
  BY <1>7 DEF Emission
<1> HIDE DEF y
<1>9. EmitTo(p, y)
  BY <1>3, <1>8, EmitSet
<1> QED
  BY <1>5, <1>6, <1>8, <1>9 DEF f

\* An emit that is not under way, and one that has nothing to do any more but its flag and verdict.
LEMMA NoEmitIs ==
  /\ NoEmit \in Emission /\ NoEmit.at = "idle" /\ NoEmit.left = {} /\ NoEmit.mem = NoManifest
  /\ NoEmit.conflicts = {}
  /\ Renders(NoManifest)
<1>1. NoManifest \in Manifest
  BY IdleIsJob
<1> QED
  BY <1>1 DEF NoEmit, Emission, NoManifest, Renders

\* The emit of p has no files left, goes on at the place with the flags, and holds no manifest.
Rests(p, place, enforce, prior, conflicts) ==
  \E y \in Emission :
    /\ EmitTo(p, y)
    /\ y.at = place /\ y.left = {} /\ y.mem = NoManifest
    /\ y.enforce = enforce /\ y.prior = prior /\ y.conflicts = conflicts

\* The steps before the first file and after the last one.
LEMMA RestIs ==
  ASSUME TypeOK, NEW p \in Process
  PROVE  /\ FinishUnits(p) => Rests(p, "flag", emit[p].enforce, emit[p].prior, emit[p].conflicts)
         /\ SaveFlag(p) => Rests(p, "verdict", FALSE, FALSE, emit[p].conflicts)
         /\ LoadFlag(p) =>
              \/ /\ emit[p].enforce = emit[p].prior
                 /\ Rests(p, "verdict", FALSE, FALSE, emit[p].conflicts)
              \/ /\ emit[p].enforce # emit[p].prior
                 /\ \E y \in Emission :
                      /\ EmitTo(p, y)
                      /\ y.at = "flagLoaded" /\ y.left = emit[p].left /\ y.mem = manifest
                      /\ y.enforce = emit[p].enforce /\ y.prior = emit[p].prior
                      /\ y.conflicts = emit[p].conflicts
         /\ Verdict(p) \/ KillEmit(p) => EmitTo(p, NoEmit)
<1>0. emit[p] \in Emission /\ NoEmit \in Emission /\ manifest \in Manifest
  BY NoEmitIs DEF TypeOK, HandlesTypeOK, LifecycleTypeOK
<1>1. ASSUME FinishUnits(p)
      PROVE  Rests(p, "flag", emit[p].enforce, emit[p].prior, emit[p].conflicts)
  <2> DEFINE y == [NoEmit EXCEPT !.at = "flag", !.enforce = emit[p].enforce,
                     !.prior = emit[p].prior, !.conflicts = emit[p].conflicts]
  <2>1. /\ y \in Emission /\ y.at = "flag" /\ y.left = {} /\ y.mem = NoManifest
        /\ y.enforce = emit[p].enforce /\ y.prior = emit[p].prior /\ y.conflicts = emit[p].conflicts
    BY <1>0, NoEmitIs DEF Emission
  <2>2. emit' = [emit EXCEPT ![p] = y]
    BY <1>1 DEF FinishUnits
  <2> HIDE DEF y
  <2>3. EmitTo(p, y)
    BY <2>1, <2>2, EmitSet
  <2> QED
    BY <2>1, <2>3 DEF Rests
<1> DEFINE z == [NoEmit EXCEPT !.at = "verdict", !.conflicts = emit[p].conflicts]
<1>2. ASSUME emit' = [emit EXCEPT ![p] = z] PROVE Rests(p, "verdict", FALSE, FALSE, emit[p].conflicts)
  <2>0. NoEmit.enforce = FALSE /\ NoEmit.prior = FALSE
    BY DEF NoEmit
  <2>1. /\ z \in Emission /\ z.at = "verdict" /\ z.left = {} /\ z.mem = NoManifest
        /\ z.enforce = FALSE /\ z.prior = FALSE /\ z.conflicts = emit[p].conflicts
    BY <1>0, <2>0, NoEmitIs DEF Emission
  <2> HIDE DEF z
  <2>3. EmitTo(p, z)
    BY <2>1, <1>2, EmitSet
  <2> QED
    BY <2>1, <2>3 DEF Rests
<1>3. SaveFlag(p) => emit' = [emit EXCEPT ![p] = z]
  BY DEF SaveFlag
<1>4. ASSUME LoadFlag(p), emit[p].enforce = emit[p].prior PROVE emit' = [emit EXCEPT ![p] = z]
  BY <1>4 DEF LoadFlag
<1>5. ASSUME LoadFlag(p), emit[p].enforce # emit[p].prior
      PROVE  \E y \in Emission :
               /\ EmitTo(p, y)
               /\ y.at = "flagLoaded" /\ y.left = emit[p].left /\ y.mem = manifest
               /\ y.enforce = emit[p].enforce /\ y.prior = emit[p].prior
               /\ y.conflicts = emit[p].conflicts
  <2> DEFINE y == [emit[p] EXCEPT !.at = "flagLoaded", !.mem = manifest]
  <2>1. /\ y \in Emission /\ y.at = "flagLoaded" /\ y.left = emit[p].left /\ y.mem = manifest
        /\ y.enforce = emit[p].enforce /\ y.prior = emit[p].prior /\ y.conflicts = emit[p].conflicts
    BY <1>0 DEF Emission
  <2>2. emit' = [emit EXCEPT ![p] = y]
    BY <1>5 DEF LoadFlag
  <2> HIDE DEF y
  <2>3. EmitTo(p, y)
    BY <2>1, <2>2, EmitSet
  <2> QED
    BY <2>1, <2>3
<1>6. Verdict(p) \/ KillEmit(p) => EmitTo(p, NoEmit)
  BY <1>0, EmitSet DEF Verdict, KillEmit
<1> HIDE DEF z
<1> QED
  BY <1>1, <1>2, <1>3, <1>4, <1>5, <1>6

\* The start of an emit.
LEMMA StartEmitIs ==
  ASSUME TypeOK, NEW p \in Process, NEW id \in Id, NEW force \in BOOLEAN, NEW enforce \in BOOLEAN,
         StartEmit(p, id, force, enforce)
  PROVE  \E y \in Emission :
           /\ EmitTo(p, y)
           /\ y.at = "planning" /\ y.id = id /\ y.left = {} /\ y.mem = NoManifest /\ y.conflicts = {}
           /\ y.enforce = enforce /\ y.prior = manifest.enforce
<1> DEFINE y == [NoEmit EXCEPT !.at = "planning", !.id = id, !.force = force,
                   !.prior = manifest.enforce, !.enforce = enforce]
<1>0. manifest.enforce \in BOOLEAN
  BY DEF TypeOK, LifecycleTypeOK, Manifest
<1>1. /\ y \in Emission /\ y.at = "planning" /\ y.id = id /\ y.left = {} /\ y.mem = NoManifest /\ y.conflicts = {}
      /\ y.enforce = enforce /\ y.prior = manifest.enforce
  BY <1>0, NoEmitIs DEF Emission
<1>2. emit' = [emit EXCEPT ![p] = y]
  BY DEF StartEmit
<1> HIDE DEF y
<1>3. EmitTo(p, y)
  BY <1>1, <1>2, EmitSet
<1> QED
  BY <1>1, <1>3

\* What an emit knows by itself stays true when it has dealt with a file.
LEMMA SkipKeeps ==
  ASSUME TypeOK, NEW p \in Process, EmitOK(emit[p]), emit[p].left # {},
         emit[p].at \in {"units", "classified", "written"}, NEW cs \in SUBSET Path,
         Skip(p, First(emit[p].left), cs)
  PROVE  EmitTo(p, emit'[p]) /\ EmitOK(emit'[p])
<1> DEFINE e == emit[p]
           f == First(e.left)
<1>0. e \in Emission
  BY DEF TypeOK, HandlesTypeOK
<1>1. f \in e.left /\ f \in Path /\ e.left \in SUBSET Path
  BY <1>0, FirstIn DEF Emission
<1>2. PICK y \in Emission :
           /\ EmitTo(p, y)
           /\ y.at = "units" /\ y.left = e.left \ {f}
           /\ \A g \in Path \ {f} : y.seen[g] = e.seen[g]
           /\ y.id = e.id /\ y.force = e.force /\ y.enforce = e.enforce
           /\ y.mem = e.mem
  BY <1>1, SkipIs
<1>3. Ahead(y) \subseteq Ahead(e) /\ Ahead(y) \subseteq Path \ {f}
  BY <1>1, <1>2 DEF Ahead
<1>4. \A g \in Ahead(y) : Action(y, g) = Action(e, g)
  BY <1>2, <1>3, ActionSame
<1>5. EmitOK(y)
  BY <1>2, <1>3, <1>4 DEF EmitOK
<1> QED
  BY <1>2, <1>5 DEF EmitTo

\* It stays true along a step of the emit.
LEMMA EmitKeeps ==
  ASSUME TypeOK, Jobs, Emits, NEW p \in Process, EmitStep(p)
  PROVE  EmitTo(p, emit'[p]) /\ EmitOK(emit'[p])
<1> DEFINE e == emit[p]
           f == First(e.left)
<1>0. e \in Emission /\ EmitOK(e) /\ Renders(manifest) /\ Renders(NoManifest)
  BY NoEmitIs DEF TypeOK, HandlesTypeOK, Emits
<1>1. e.left # {} => f \in e.left /\ f \in Path /\ e.left \in SUBSET Path
  BY <1>0, FirstIn DEF Emission
<1>2. ASSUME NEW y \in Emission, EmitTo(p, y), EmitOK(y) PROVE EmitTo(p, emit'[p]) /\ EmitOK(emit'[p])
  BY <1>2 DEF EmitTo
<1>3. ASSUME NEW y \in Emission, y.left = {}, Renders(y.mem), y.at \in {"idle", "planning", "flag", "flagLoaded", "verdict"},
             y.at = "planning" => y.id \in Id
      PROVE  EmitOK(y)
  BY <1>3 DEF EmitOK, Ahead
<1>4. CASE \E id \in Id, force, enforce \in BOOLEAN : StartEmit(p, id, force, enforce)
  <2>1. \E y \in Emission : EmitTo(p, y) /\ y.at = "planning" /\ y.id \in Id /\ y.left = {} /\ y.mem = NoManifest
    BY <1>4, StartEmitIs
  <2> QED
    BY <2>1, <1>0, <1>2, <1>3
<1>5. CASE FinishUnits(p) \/ LoadFlag(p) \/ SaveFlag(p) \/ Verdict(p) \/ KillEmit(p)
  <2>1. e.at = "flag" => e.left = {}
    BY <1>0 DEF EmitOK
  <2>2. LoadFlag(p) => e.at = "flag"
    BY DEF LoadFlag, Emitting
  <2>3. \E y \in Emission : /\ EmitTo(p, y) /\ y.at \in {"idle", "flag", "flagLoaded", "verdict"}
                            /\ y.left = {} /\ y.mem \in {NoManifest, manifest}
    BY <2>1, <2>2, <1>5, RestIs, NoEmitIs DEF Rests
  <2> QED
    BY <2>3, <1>0, <1>2, <1>3
<1>6. CASE PlanInfra(p)
  <2>1. PICK y \in Emission :
           /\ EmitTo(p, y)
           /\ y.at = "units" /\ y.mem = manifest
           /\ \/ y.left = Late
              \/ y.left = Path /\ (y.force \/ \A g \in Infra : Action(y, g) # "conflict")
           /\ y.id = emit[p].id
    BY <1>6, PlanIs
  <2>2. y.id \in Id
    BY <2>1, <1>0, <1>6 DEF PlanInfra, Emitting, EmitOK
  <2>3. Infra \cap Late = {} /\ Path = Infra \cup Late
    BY PathsAssumption DEF Path
  <2>4. EmitOK(y)
    BY <2>1, <2>2, <2>3, <1>0 DEF EmitOK, Ahead
  <2> QED
    BY <2>1, <2>4, <1>2
<1>7. CASE ReadUnit(p)
  <2>0. e.at = "units" /\ e.left # {}
    BY <1>7 DEF ReadUnit, Emitting
  <2>1. CASE \E cs \in SUBSET Path : Skip(p, f, cs)
    BY <2>0, <2>1, <1>0, SkipKeeps
  <2>2. CASE \A cs \in SUBSET Path : ~Skip(p, f, cs)
    <3>1. {} \in SUBSET Path /\ {f} \in SUBSET Path
      BY <1>1, <2>0
    <3>2. PICK y \in Emission :
              /\ EmitTo(p, y) /\ y.at = "classified" /\ y.left = emit[p].left
              /\ \A g \in Path \ {f} : y.seen[g] = emit[p].seen[g]
              /\ y.seen[f] = (IF f \in Infra THEN emit[p].seen[f] ELSE disk[f])
              /\ y.force \/ Action(y, f) # "conflict"
              /\ y.id = emit[p].id /\ y.force = emit[p].force /\ y.enforce = emit[p].enforce
              /\ y.mem = emit[p].mem
      <4>1. ~Skip(p, f, {}) /\ ~Skip(p, f, {f})
        BY <3>1, <2>2
      <4> QED
        BY <4>1, <1>7, ClassifiedIs
    <3>3. \A g \in Path \cap Infra : y.seen[g] = e.seen[g]
      BY <3>2
    <3>4. \A g \in Path \cap Infra : Action(y, g) = Action(e, g)
      BY <3>2, <3>3, ActionSame
    <3>5. Ahead(y) = e.left /\ Ahead(e) = e.left /\ e.left \subseteq Path
      BY <3>2, <2>0, <1>1 DEF Ahead
    <3>6. EmitOK(y)
      BY <2>0, <3>2, <3>4, <3>5, <1>0 DEF EmitOK
    <3> QED
      BY <3>2, <3>6, <1>2
  <2> QED
    BY <2>1, <2>2
<1>8. CASE PassUnit(p) \/ RecordUnit(p)
  <2>1. e.at \in {"classified", "written"} /\ e.left # {}
    BY <1>0, <1>8 DEF PassUnit, RecordUnit, Emitting, EmitOK
  <2>2. {} \in SUBSET Path /\ {f} \in SUBSET Path
    BY <1>1, <2>1
  <2>3. \E cs \in SUBSET Path : Skip(p, f, cs)
    BY <2>2, <1>8 DEF PassUnit, RecordUnit
  <2> QED
    BY <2>1, <2>3, <1>0, SkipKeeps
<1>9. CASE WriteUnit(p)
  <2>0. e.at = "classified" /\ e.left # {} /\ e.id \in Id
    BY <1>0, <1>9 DEF WriteUnit, Emitting, EmitOK
  <2>1. PICK y \in Emission :
               /\ EmitTo(p, y) /\ y.at = "written" /\ y.left = e.left
               /\ y.mem.files[f] # Absent /\ y.mem.files[f].hash = Fresh(e, f)
               /\ y.mem.files[f].owner = Fresh(e, f).owner
               /\ \A g \in Path \ {f} : y.mem.files[g] = e.mem.files[g]
               /\ y.seen = e.seen
               /\ y.id = e.id /\ y.force = e.force /\ y.enforce = e.enforce
    BY <1>9, WrittenIs
  <2>2. Fresh(e, f) \in Generated
    BY <2>0, <1>0, <1>1, FreshIs
  <2>3. Renders(y.mem)
    BY <2>1, <2>2, <1>0 DEF EmitOK, Renders
  <2>4. Ahead(y) = e.left \ {f} /\ Ahead(e) = e.left
    BY <2>0, <2>1 DEF Ahead
  <2>5. \A g \in Ahead(y) : Action(y, g) = Action(e, g)
    BY <2>0, <2>1, <2>4, <1>1, ActionSame
  <2>6. EmitOK(y)
    BY <2>0, <2>1, <2>3, <2>4, <2>5, <1>0 DEF EmitOK
  <2> QED
    BY <2>1, <2>6, <1>2
<1> QED
  BY <1>4, <1>5, <1>6, <1>7, <1>8, <1>9 DEF EmitStep

-----------------------------------------------------------------------------
(* Types of what an emit and a person do.                                  *)

\* Steps of an emit that leave the commands alone.
LEMMA UnderWay ==
  ASSUME TypeOK, Emits, NEW p \in Process,
         \/ PlanInfra(p) \/ ReadUnit(p) \/ PassUnit(p) \/ WriteUnit(p) \/ RecordUnit(p) \/ FinishUnits(p)
         \/ LoadFlag(p) \/ SaveFlag(p)
  PROVE  /\ proc' = proc /\ emit[p].at # "idle" /\ emit'[p].at # "idle" /\ proc[p].cmd = "emit"
         /\ UNCHANGED <<files, index, locks, spent, ghosts, head, cut>>
<1> DEFINE f == First(emit[p].left)
<1> USE DEF lifecycleVars, files, locks, ghosts
<1>1. /\ proc' = proc /\ emit[p].at # "idle" /\ UNCHANGED <<files, index, locks, spent, ghosts, head, cut>>
  BY DEF PlanInfra, ReadUnit, PassUnit, WriteUnit, RecordUnit, FinishUnits, LoadFlag, SaveFlag, Emitting
<1>2. proc[p].cmd = "emit"
  BY <1>1 DEF Emits
<1>3. ASSUME NEW cs \in SUBSET Path, Skip(p, f, cs), f \in Path PROVE emit'[p].at # "idle"
  BY <1>3, SkipIs DEF EmitTo
<1>4. emit[p].left # {} => f \in Path /\ {} \in SUBSET Path /\ {f} \in SUBSET Path
  <2>1. emit[p].left \in SUBSET Path
    BY DEF TypeOK, HandlesTypeOK, Emission
  <2> QED
    BY <2>1, FirstIn
<1>5. CASE PlanInfra(p)
  BY <1>1, <1>2, <1>5, PlanIs DEF EmitTo
<1>6. CASE ReadUnit(p)
  <2>1. emit[p].left # {}
    BY <1>6 DEF ReadUnit
  <2>2. \/ \E cs \in SUBSET Path : Skip(p, f, cs)
        \/ \E y \in Emission : EmitTo(p, y) /\ y.at = "classified"
    BY <2>1, <1>4, <1>6, ClassifiedIs
  <2> QED
    BY <2>1, <2>2, <1>1, <1>2, <1>3, <1>4 DEF EmitTo
<1>7. CASE PassUnit(p) \/ RecordUnit(p)
  <2>1. emit[p].left # {}
    BY <1>7 DEF PassUnit, RecordUnit, Emitting, Emits, EmitOK
  <2>2. \E cs \in SUBSET Path : Skip(p, f, cs)
    BY <2>1, <1>4, <1>7 DEF PassUnit, RecordUnit
  <2> QED
    BY <2>1, <2>2, <1>1, <1>2, <1>3, <1>4
<1>8. CASE WriteUnit(p)
  BY <1>1, <1>2, <1>8, WrittenIs DEF EmitTo
<1>9. CASE FinishUnits(p) \/ LoadFlag(p) \/ SaveFlag(p)
  BY <1>1, <1>2, <1>9, RestIs DEF EmitTo, Rests
<1> QED
  BY <1>5, <1>6, <1>7, <1>8, <1>9

\* The end of an emit: it goes on as a gate write, or not at all.
LEMMA VerdictJob ==
  ASSUME TypeOK, Jobs, Emits, NEW p \in Process, Verdict(p)
  PROVE  /\ JobStep(p) /\ proc[p].cmd = "emit" /\ proc'[p].cmd \in {"none", "gate"}
         /\ proc'[p].at \in {"idle", "dead", "waiting"}
         /\ proc'[p].manifest \in {NoManifest, proc[p].manifest}
         /\ proc'[p].feature \in {Absent, proc[p].feature}
         /\ proc'[p].uid \in {Absent, proc[p].uid}
         /\ proc'[p].cmd # "none" => proc'[p].id = proc[p].id
<1> DEFINE x == proc[p]
<1>0. x \in Job /\ JobOK(x) /\ x.cmd = "emit" /\ proc \in [Process -> Job]
  BY DEF Verdict, Emitting, Emits, TypeOK, LifecycleTypeOK, Jobs
<1>1. CASE Ends(p)
  BY <1>0, <1>1, EndSet
<1>2. CASE proc' = [proc EXCEPT ![p] = [proc[p] EXCEPT !.cmd = "gate", !.at = "waiting", !.gate = "handles"]]
  <2> DEFINE y == [proc[p] EXCEPT !.cmd = "gate", !.at = "waiting", !.gate = "handles"]
  <2>1. "handles" \in Gate /\ x.id \in Id /\ x.uid \in Uid
    BY <1>0, GatesAssumption DEF JobOK
  <2>2. /\ y \in Job /\ y.cmd = "gate" /\ y.at = "waiting" /\ y.gate \in Gate /\ y.id = x.id
        /\ y.uid = x.uid /\ y.manifest = x.manifest /\ y.feature = x.feature
    BY <1>0, <2>1 DEF Job, Commands
  <2>3. proc' = [proc EXCEPT ![p] = y]
    BY <1>2
  <2> HIDE DEF y
  <2>4. JobOK(y)
    BY <2>1, <2>2 DEF JobOK, Moving
  <2>5. proc' \in [Process -> Job] /\ proc'[p] = y /\ \A q \in Process \ {p} : proc'[q] = proc[q]
    BY <1>0, <2>2, <2>3
  <2> QED
    BY <1>0, <2>2, <2>4, <2>5 DEF JobStep
<1> QED
  BY <1>1, <1>2 DEF Verdict

\* What a step of an emit does to the files and the commands.
LEMMA EmitTypes ==
  ASSUME TypeOK, Jobs, Emits, NEW p \in Process, EmitStep(p)
  PROVE  /\ JobStep(p) /\ FilesOK
         /\ disk' \in [Path -> Content \cup {Absent}] /\ head' = head
         /\ cut' \in 0..MaxFaults /\ blocked' \in BOOLEAN
         /\ Renders(manifest') /\ Renders(proc'[p].manifest)
         /\ emit'[p].at # "idle" <=> proc'[p].cmd = "emit"
         /\ cut' <= spent'.faults
<1> DEFINE e == emit[p]
           f == First(e.left)
<1> USE DEF lifecycleVars, files, locks, ghosts
<1>0. /\ e \in Emission /\ EmitOK(e) /\ Renders(manifest) /\ Renders(proc[p].manifest)
      /\ Renders(NoManifest) /\ cut <= spent.faults
      /\ cut \in 0..MaxFaults /\ blocked \in BOOLEAN /\ disk \in [Path -> Content \cup {Absent}]
      /\ JobOK(proc[p]) /\ proc \in [Process -> Job] /\ manifest \in Manifest
      /\ spent \in [commands : 0..MaxCommands, faults : 0..MaxFaults]
  BY NoEmitIs DEF TypeOK, HandlesTypeOK, LifecycleTypeOK, Emits, Jobs
<1>1. CASE \E id \in Id, force, enforce \in BOOLEAN : StartEmit(p, id, force, enforce)
  <2>0. PICK id \in Id, force \in BOOLEAN, enforce \in BOOLEAN : StartEmit(p, id, force, enforce)
    BY <1>1
  <2>1. Starts(p)
    BY <1>1 DEF Starts
  <2>2. /\ JobStep(p) /\ FilesOK /\ spent.faults <= spent'.faults /\ manifest' = manifest
    BY <2>1, StartTypes
  <2>3. proc'[p].manifest = NoManifest
    BY <2>1, StartSteps
  <2>4. emit'[p].at # "idle"
    BY <2>0, StartEmitIs DEF EmitTo
  <2>5. proc'[p].cmd = "emit"
    <3>1. proc' = [proc EXCEPT ![p] = [Idle EXCEPT !.cmd = "emit", !.at = "emitting", !.id = id, !.uid = specs[id].uid]]
      BY <2>0 DEF StartEmit, Begins
    <3> QED
      BY <3>1, <1>0 DEF Idle
  <2>6. spent'.faults \in Nat /\ spent.faults \in Nat /\ cut \in Nat
    BY <2>2, <1>0 DEF FilesOK
  <2>7. cut <= spent'.faults
    BY <2>2, <2>6, <1>0
  <2> QED
    BY <2>0, <2>2, <2>3, <2>4, <2>5, <2>7, <1>0 DEF StartEmit
<1>2. CASE \/ PlanInfra(p) \/ ReadUnit(p) \/ PassUnit(p) \/ WriteUnit(p) \/ RecordUnit(p) \/ FinishUnits(p)
           \/ LoadFlag(p) \/ SaveFlag(p)
  <2>1. /\ proc' = proc /\ e.at # "idle" /\ emit'[p].at # "idle" /\ proc[p].cmd = "emit"
        /\ UNCHANGED <<files, index, locks, spent, ghosts, head, cut>>
    BY <1>2, UnderWay
  <2>2. manifest' \in {manifest, e.mem, [e.mem EXCEPT !.enforce = e.enforce]} /\ blocked' \in BOOLEAN
    BY <1>0, <1>2 DEF PlanInfra, ReadUnit, PassUnit, WriteUnit, RecordUnit, FinishUnits, LoadFlag, SaveFlag
  <2>3. /\ e.mem \in Manifest /\ [e.mem EXCEPT !.enforce = e.enforce] \in Manifest
        /\ [e.mem EXCEPT !.enforce = e.enforce].files = e.mem.files
    BY <1>0 DEF Emission, Manifest
  <2>4. manifest' \in Manifest /\ Renders(manifest')
    BY <2>2, <2>3, <1>0 DEF EmitOK, Renders
  <2>5. FilesOK /\ JobStep(p)
    BY <2>1, <2>4, <1>0 DEF FilesOK, JobStep, TypeOK, LifecycleTypeOK
  <2>6. disk' \in [Path -> Content \cup {Absent}]
    <3>1. CASE WriteUnit(p)
      <4>1. e.left # {} /\ e.left \in SUBSET Path /\ e.id \in Id
        BY <3>1, <1>0 DEF WriteUnit, Emitting, EmitOK, Emission
      <4>2. f \in Path
        BY <4>1, FirstIn
      <4>3. Fresh(e, f) \in Content
        BY <4>1, <4>2, <1>0, FreshIs
      <4> QED
        BY <3>1, <4>3, <1>0 DEF WriteUnit
    <3>2. CASE ~WriteUnit(p)
      BY <1>0, <1>2, <3>2 DEF PlanInfra, ReadUnit, PassUnit, RecordUnit, FinishUnits, LoadFlag, SaveFlag
    <3> QED
      BY <3>1, <3>2
  <2> QED
    BY <2>1, <2>2, <2>4, <2>5, <2>6, <1>0
<1>3. CASE Verdict(p)
  <2>1. JobStep(p) /\ proc'[p].cmd \in {"none", "gate"} /\ proc'[p].manifest \in {NoManifest, proc[p].manifest}
    BY <1>3, VerdictJob
  <2>2. emit'[p] = NoEmit
    BY <1>3, RestIs DEF EmitTo
  <2> QED
    BY <2>1, <2>2, <1>0, <1>3, NoEmitIs DEF Verdict, FilesOK, TypeOK, LifecycleTypeOK
<1>4. CASE KillEmit(p)
  <2>1. JobStep(p) /\ proc'[p].cmd = "none" /\ proc'[p].manifest = NoManifest
    BY <1>4, EndSet DEF KillEmit
  <2>2. emit'[p] = NoEmit
    BY <1>4, RestIs DEF EmitTo
  <2>3. spent' \in [commands : 0..MaxCommands, faults : 0..MaxFaults] /\ spent'.faults = spent.faults + 1
    BY <1>4, SpendType DEF KillEmit
  <2>4. cut' = cut + 1
    BY <1>4 DEF KillEmit
  <2>5. cut' \in 0..MaxFaults /\ cut' <= spent'.faults
    <3>1. spent.faults \in Nat /\ spent'.faults \in 0..MaxFaults /\ MaxFaults \in Nat /\ cut \in Nat
      BY <2>3, <1>0, UidsAssumption
    <3> QED
      BY <3>1, <2>3, <2>4, <1>0
  <2> QED
    BY <2>1, <2>2, <2>3, <2>5, <1>0, <1>4, NoEmitIs DEF KillEmit, FilesOK, TypeOK, LifecycleTypeOK
<1> QED
  BY <1>1, <1>2, <1>3, <1>4 DEF EmitStep

\* Commands on features leave emits and, but for a rename, the manifest alone.
LEMMA FeatureFrame ==
  ASSUME TypeOK, Jobs, Indexers, NEW p \in Process, FeatureStep(p)
  PROVE  /\ proc[p].cmd # "emit" /\ proc'[p].cmd # "emit"
         /\ \/ RenameReadsManifest(p) \/ RenameWritesOwners(p)
            \/ /\ manifest' = manifest /\ proc'[p].manifest \in {NoManifest, proc[p].manifest}
               /\ proc'[p].at # "manifestRead"
<1> DEFINE x == proc[p]
           Quiet == /\ manifest' = manifest /\ proc'[p].manifest \in {NoManifest, proc[p].manifest}
                    /\ proc'[p].at # "manifestRead"
<1> SUFFICES x.cmd # "emit" /\ proc'[p].cmd # "emit" /\ (RenameReadsManifest(p) \/ RenameWritesOwners(p) \/ Quiet)
  OBVIOUS
<1> USE DEF files, locks, ghosts
<1>0. x \in Job /\ JobOK(x) /\ proc \in [Process -> Job]
  BY DEF TypeOK, LifecycleTypeOK, Jobs
<1>b. x.cmd = "emit" <=> x.at = "emitting"
  BY <1>0 DEF JobOK
<1> DEFINE Begun == \/ \E slug \in Slug : StartInit(p, slug) \/ \E id \in Id : StartRename(p, id, slug)
                    \/ \E id, alias \in Id : StartLink(p, id, alias)
                    \/ \E id \in Id : StartArchive(p, id) \/ \E gate \in Gate : StartGate(p, id, gate)
<1>1. CASE Begun
  <2>0. Starts(p)
    BY <1>1 DEF Starts
  <2>1. /\ x.at = "idle" /\ proc'[p].manifest = NoManifest /\ manifest' = manifest
        /\ proc'[p].at \in {"waiting", "read", "emitting"}
    BY <2>0, StartSteps, StartTypes
  <2>a. ASSUME NEW slug \in Slug, StartInit(p, slug) PROVE proc'[p].cmd # "emit"
    BY <1>0, <2>a DEF StartInit, Begins, Idle
  <2>b. ASSUME NEW id \in Id, NEW slug \in Slug, StartRename(p, id, slug) PROVE proc'[p].cmd # "emit"
    BY <1>0, <2>b DEF StartRename, Begins, Idle
  <2>c. ASSUME NEW id \in Id, NEW alias \in Id, StartLink(p, id, alias) PROVE proc'[p].cmd # "emit"
    BY <1>0, <2>c DEF StartLink, Begins, Idle
  <2>d. ASSUME NEW id \in Id, StartArchive(p, id) PROVE proc'[p].cmd # "emit"
    BY <1>0, <2>d DEF StartArchive, Begins, Idle
  <2>e. ASSUME NEW id \in Id, NEW gate \in Gate, StartGate(p, id, gate) PROVE proc'[p].cmd # "emit"
    BY <1>0, <2>e DEF StartGate, Begins, Idle
  <2>3. proc'[p].cmd # "emit"
    BY <2>a, <2>b, <2>c, <2>d, <2>e, <1>1
  <2> QED
    BY <2>1, <2>3, <1>b
<1>2. ASSUME NEW place \in {"locked", "saved", "done", "moved", "contracts", "featureWritten", "stateMoved",
                            "stateDone", "historyDone", "ownersDone"},
             Goes(p, place), x.cmd # "emit", manifest' = manifest
      PROVE  x.cmd # "emit" /\ proc'[p].cmd # "emit" /\ Quiet
  BY <1>2, AtSet DEF Moving
<1>3. ASSUME Ends(p) \/ proc' = [proc EXCEPT ![p] = [Idle EXCEPT !.at = "dead"]], x.cmd # "emit", manifest' = manifest
      PROVE  x.cmd # "emit" /\ proc'[p].cmd # "emit" /\ Quiet
  BY <1>3, EndSet
<1> DEFINE Same == proc'[p].cmd = x.cmd /\ proc'[p].manifest = x.manifest /\ proc'[p].at # "manifestRead"
<1>c. Same /\ x.cmd # "emit" /\ manifest' = manifest => x.cmd # "emit" /\ proc'[p].cmd # "emit" /\ Quiet
  OBVIOUS
<1>4. CASE \/ AcquireFeatures(p) \/ InitSaves(p) \/ InitIndexes(p) \/ Link(p) \/ AcquireState(p)
           \/ SaveGates(p) \/ AppendGate(p)
  <2>1. x.cmd # "emit" /\ manifest' = manifest /\ \E place \in {"locked", "saved", "done"} : Goes(p, place)
    BY <1>4 DEF AcquireFeatures, InitSaves, InitIndexes, Link, AcquireState, SaveGates, AppendGate
  <2> QED
    BY <2>1, <1>2
<1>5. CASE \/ TimeoutFeatures(p) \/ ReleaseFeatures(p) \/ ArchiveSaves(p) \/ TimeoutState(p)
           \/ ReleaseState(p) \/ Crash(p)
  BY <1>5, <1>3 DEF TimeoutFeatures, ReleaseFeatures, ArchiveSaves, TimeoutState, ReleaseState, Crash
<1>6. CASE \/ RenameDirectory(p) \/ RenameContracts(p) \/ RenameWritesFeature(p) \/ RenameState(p)
           \/ RenameWritesState(p) \/ RenameHistory(p) \/ RenameIndexes(p)
  <2>1. /\ x.at \in Moving /\ manifest' = manifest
        /\ \E place \in {"done", "moved", "contracts", "featureWritten", "stateMoved",
                         "stateDone", "historyDone"} : Goes(p, place)
    BY <1>6 DEF RenameDirectory, RenameContracts, RenameWritesFeature, RenameState,
                RenameWritesState, RenameHistory, RenameIndexes, Moving
  <2>2. x.cmd # "emit"
    BY <2>1, <1>b DEF Moving
  <2> QED
    BY <2>1, <2>2, <1>2
<1>7. CASE RenameReadsManifest(p) \/ RenameWritesOwners(p)
  <2>1. x.cmd # "emit"
    BY <1>7, <1>b DEF RenameReadsManifest, RenameWritesOwners
  <2>2. CASE RenameReadsManifest(p)
    <3>1. proc' = [proc EXCEPT ![p] = [proc[p] EXCEPT !.at = "manifestRead", !.manifest = manifest]]
      BY <2>2 DEF RenameReadsManifest
    <3>2. proc'[p].cmd = x.cmd
      BY <3>1, <1>0 DEF Job
    <3> QED
      BY <2>1, <2>2, <3>2
  <2>3. CASE RenameWritesOwners(p)
    <3>1. Goes(p, "ownersDone")
      BY <2>3 DEF RenameWritesOwners
    <3>2. proc'[p].cmd = x.cmd
      BY <3>1, AtSet DEF Moving
    <3> QED
      BY <2>1, <2>3, <3>2
  <2> QED
    BY <1>7, <2>2, <2>3
<1>8. CASE InitNumbers(p)
  <2>0. x.cmd # "emit" /\ manifest' = manifest
    BY <1>8 DEF InitNumbers
  <2>1. \/ Goes(p, "done")
        \/ \E to, uid : proc' = [proc EXCEPT ![p] = [proc[p] EXCEPT !.at = "numbered", !.to = to, !.uid = uid]]
    BY <1>8 DEF InitNumbers
  <2>2. ASSUME NEW to, NEW uid, proc' = [proc EXCEPT ![p] = [proc[p] EXCEPT !.at = "numbered", !.to = to, !.uid = uid]]
        PROVE  Same
    BY <1>0, <2>2 DEF Job
  <2> HIDE DEF Same, Quiet
  <2> QED
    BY <2>0, <2>1, <2>2, <1>2, <1>c
<1>9. CASE RenameChecks(p)
  <2>0. x.cmd # "emit" /\ manifest' = manifest
    BY <1>9 DEF RenameChecks
  <2>1. \/ Goes(p, "done")
        \/ \E u : proc' = [proc EXCEPT ![p] = [proc[p] EXCEPT !.at = "checked", !.uid = u, !.index = index]]
    BY <1>9 DEF RenameChecks
  <2>2. ASSUME NEW u, proc' = [proc EXCEPT ![p] = [proc[p] EXCEPT !.at = "checked", !.uid = u, !.index = index]]
        PROVE  Same
    BY <1>0, <2>2 DEF Job
  <2> HIDE DEF Same, Quiet
  <2> QED
    BY <2>0, <2>1, <2>2, <1>2, <1>c
<1>10. CASE RenameReadsFeature(p) \/ RenameReadsState(p) \/ LoadGates(p)
  <2>0. x.cmd # "emit" /\ manifest' = manifest
    BY <1>10, <1>b DEF RenameReadsFeature, RenameReadsState, LoadGates
  <2>1. \/ Goes(p, "done")
        \/ \E r : proc' = [proc EXCEPT ![p] = [proc[p] EXCEPT !.at = "featureRead", !.feature = r]]
        \/ \E s : proc' = [proc EXCEPT ![p] = [proc[p] EXCEPT !.at = "stateRead", !.state = s]]
        \/ \E s : proc' = [proc EXCEPT ![p] = [proc[p] EXCEPT !.at = "loaded", !.state = s]]
    BY <1>10 DEF RenameReadsFeature, RenameReadsState, LoadGates
  <2>2. ASSUME NEW r, proc' = [proc EXCEPT ![p] = [proc[p] EXCEPT !.at = "featureRead", !.feature = r]]
        PROVE  Same
    BY <1>0, <2>2 DEF Job
  <2>3. ASSUME NEW s, proc' = [proc EXCEPT ![p] = [proc[p] EXCEPT !.at = "stateRead", !.state = s]]
        PROVE  Same
    BY <1>0, <2>3 DEF Job
  <2>4. ASSUME NEW s, proc' = [proc EXCEPT ![p] = [proc[p] EXCEPT !.at = "loaded", !.state = s]]
        PROVE  Same
    BY <1>0, <2>4 DEF Job
  <2> HIDE DEF Same, Quiet
  <2> QED
    BY <2>0, <2>1, <2>2, <2>3, <2>4, <1>2, <1>c
<1>11. x.cmd # "emit" /\ proc'[p].cmd # "emit" /\ (RenameReadsManifest(p) \/ RenameWritesOwners(p) \/ Quiet)
  <2>1. ~Begun => \/ AcquireFeatures(p) \/ InitSaves(p) \/ InitIndexes(p) \/ Link(p) \/ AcquireState(p)
                      \/ SaveGates(p) \/ AppendGate(p)
                      \/ TimeoutFeatures(p) \/ ReleaseFeatures(p) \/ ArchiveSaves(p) \/ TimeoutState(p)
                      \/ ReleaseState(p) \/ Crash(p)
                      \/ RenameDirectory(p) \/ RenameContracts(p) \/ RenameWritesFeature(p) \/ RenameState(p)
                      \/ RenameWritesState(p) \/ RenameHistory(p) \/ RenameIndexes(p)
                      \/ RenameReadsManifest(p) \/ RenameWritesOwners(p)
                      \/ InitNumbers(p) \/ RenameChecks(p)
                      \/ RenameReadsFeature(p) \/ RenameReadsState(p) \/ LoadGates(p)
    BY DEF FeatureStep
  <2> HIDE DEF Begun, Quiet
  <2> QED
    BY <2>1, <1>1, <1>4, <1>5, <1>6, <1>7, <1>8, <1>9, <1>10
<1> QED
  BY <1>11

\* Requests of the server move the lock of the state and themselves.
LEMMA RequestTypes ==
  ASSUME TypeOK, RequestStep
  PROVE  /\ ServeTypeOK' /\ stateLock' \in Process \cup Request \cup {NoHolder}
         /\ spent' \in [commands : 0..MaxCommands, faults : 0..MaxFaults] /\ spent'.faults = spent.faults
         /\ Untouched
<1>1. PICK r \in Request : ServerStep(r) \/ \E kind \in Kinds \ {"none"} : Ask(r, kind)
  BY DEF RequestStep
<1>2. req \in [Request -> [kind : Kinds, at : Places]]
  BY DEF TypeOK, ServeTypeOK
<1>3. ASSUME NEW place \in Places, Serves(r, place) PROVE ServeTypeOK'
  BY <1>2, <1>3 DEF Serves, ServeTypeOK
<1>4. CASE \E kind \in Kinds \ {"none"} : Ask(r, kind)
  <2>1. PICK kind \in Kinds : Ask(r, kind)
    BY <1>4
  <2>2. ServeTypeOK'
    BY <2>1, <1>2 DEF Ask, ServeTypeOK, Places
  <2>3. spent' \in [commands : 0..MaxCommands, faults : 0..MaxFaults] /\ spent'.faults = spent.faults
    BY <2>1, SpendType DEF Ask, Spend, TypeOK, LifecycleTypeOK
  <2> QED
    BY <2>1, <2>2, <2>3 DEF Ask, TypeOK, LifecycleTypeOK
<1>5. CASE ServerStep(r)
  <2>1. \E place \in Places : Serves(r, place)
    BY <1>5 DEF ServerStep, Begin, AcquireSync, TimeoutSync, Declare, Answer, AcquireAsync, TimeoutAsync,
                Execute, Places
  <2>2. spent' = spent /\ stateLock' \in {stateLock, r, NoHolder} /\ Untouched
    BY <1>5 DEF ServerStep, Begin, AcquireSync, TimeoutSync, Declare, Answer, AcquireAsync, TimeoutAsync, Execute
  <2> QED
    BY <2>1, <2>2, <1>3 DEF TypeOK, LifecycleTypeOK
<1> QED
  BY <1>1, <1>4, <1>5

\* Types, and what an emit and a command know by themselves.
LEMMA TypesKept ==
  ASSUME IInv, [Next]_vars
  PROVE  TypeOK' /\ Jobs' /\ Emits'
<1> USE DEF files, locks, ghosts
<1>0. TypeOK /\ Jobs /\ Indexers /\ Emits
  BY DEF IInv
<1>1. CASE UNCHANGED vars
  BY <1>0, <1>1 DEF TypeOK, LifecycleTypeOK, HandlesTypeOK, ServeTypeOK, Jobs, Emits, Renders, vars, lifecycleVars,
                    handlesVars
<1>2. CASE Next
  <2>0. lost' = lost /\ overlap' \in BOOLEAN /\ lost \in SUBSET Path
    BY <1>0, <1>2 DEF Next, TypeOK, HandlesTypeOK
  <2> DEFINE Rest == /\ disk' \in [Path -> Content \cup {Absent}] /\ head' \in [Path -> Content \cup {Absent}]
                     /\ blocked' \in BOOLEAN /\ cut' \in 0..MaxFaults /\ emit' \in [Process -> Emission]
  <2>a. ASSUME FilesOK, Rest, ServeTypeOK', proc' \in [Process -> Job] PROVE TypeOK'
    BY <2>0, <2>a DEF FilesOK, TypeOK, LifecycleTypeOK, HandlesTypeOK
  <2>b. ASSUME NEW p \in Process, JobStep(p) PROVE proc' \in [Process -> Job] /\ Jobs'
    BY <1>0, <2>b DEF JobStep, Jobs
  <2>c. ASSUME UNCHANGED <<emit, cut>>, Renders(manifest'), spent.faults <= spent'.faults, FilesOK,
               \A p \in Process : Renders(proc'[p].manifest) /\ (proc'[p].cmd = "emit" <=> proc[p].cmd = "emit")
        PROVE  Emits'
    <3>1. cut <= spent.faults /\ cut \in Nat /\ spent.faults \in Nat /\ spent'.faults \in Nat
      BY <1>0, <2>c DEF Emits, TypeOK, LifecycleTypeOK, HandlesTypeOK, FilesOK
    <3>2. cut <= spent'.faults
      BY <3>1, <2>c
    <3> QED
      BY <1>0, <2>c, <3>2 DEF Emits
  <2>d. UNCHANGED <<disk, head, emit, cut, blocked>> => Rest
    BY <1>0 DEF TypeOK, HandlesTypeOK
  <2>1. CASE Features
    <3>0. UNCHANGED <<disk, head, emit, cut, blocked, req>>
      BY <2>1 DEF Features
    <3>1. Rest /\ ServeTypeOK'
      BY <3>0, <2>d, <1>0 DEF TypeOK, ServeTypeOK
    <3>2. CASE RemoveStaleLock \/ \E id \in Id : RemoveDirectory(id)
      <4>1. FilesOK /\ proc' = proc /\ spent.faults <= spent'.faults
        BY <1>0, <3>2, EnvironmentTypes
      <4>2. manifest' = manifest
        BY <3>2 DEF RemoveStaleLock, RemoveDirectory
      <4>3. TypeOK' /\ Jobs'
        BY <1>0, <2>a, <3>1, <4>1 DEF TypeOK, LifecycleTypeOK, Jobs
      <4>4. Emits'
        BY <1>0, <2>c, <3>0, <4>1, <4>2 DEF Emits
      <4> QED
        BY <4>3, <4>4
    <3>3. ASSUME NEW p \in Process, FeatureStep(p) PROVE TypeOK' /\ Jobs' /\ Emits'
      <4>1. JobStep(p) /\ FilesOK
        BY <1>0, <3>3, FeatureTypes
      <4>2. TypeOK' /\ Jobs'
        BY <2>a, <2>b, <3>1, <4>1
      <4>3. /\ proc[p].cmd # "emit" /\ proc'[p].cmd # "emit"
            /\ \/ RenameReadsManifest(p) \/ RenameWritesOwners(p)
               \/ manifest' = manifest /\ proc'[p].manifest \in {NoManifest, proc[p].manifest}
        BY <1>0, <3>3, FeatureFrame
      <4>4. Renders(manifest') /\ Renders(proc'[p].manifest)
        <5>0. Renders(manifest) /\ Renders(proc[p].manifest) /\ Renders(NoManifest) /\ proc[p] \in Job /\ JobOK(proc[p])
          BY <1>0, NoEmitIs DEF Emits, Jobs, TypeOK, LifecycleTypeOK
        <5>1. CASE RenameReadsManifest(p)
          BY <5>0, <5>1, <1>0 DEF RenameReadsManifest, TypeOK, LifecycleTypeOK, Job
        <5>2. CASE RenameWritesOwners(p)
          <6>1. Goes(p, "ownersDone") /\ proc[p].at = "manifestRead"
            BY <5>2 DEF RenameWritesOwners
          <6>2. proc[p].id \in Id /\ proc[p].to \in Id /\ proc[p].manifest \in Manifest
            BY <5>0, <6>1 DEF JobOK, Moving, Job
          <6>3. Renders(Reowned(proc[p].manifest, proc[p].id, proc[p].to))
            BY <5>0, <6>2, ReownedIs DEF Renders
          <6>4. proc'[p].manifest = proc[p].manifest
            BY <6>1, <1>0, AtSet DEF Moving
          <6> QED
            BY <5>0, <5>2, <6>3, <6>4 DEF RenameWritesOwners
        <5> QED
          BY <5>0, <5>1, <5>2, <4>3
      <4>5. spent.faults <= spent'.faults
        <5>1. \/ Spend \/ Fault \/ spent' = spent
          BY <3>3 DEF FeatureStep, StartInit, StartRename, StartLink, StartArchive, StartGate, Begins,
               AcquireFeatures, TimeoutFeatures, ReleaseFeatures, InitNumbers, InitSaves, InitIndexes, Link, ArchiveSaves,
               RenameChecks, RenameDirectory, RenameContracts, RenameReadsFeature, RenameWritesFeature,
               RenameState, RenameReadsState, RenameWritesState, RenameHistory, RenameReadsManifest,
               RenameWritesOwners, RenameIndexes, AcquireState, TimeoutState, LoadGates, SaveGates, AppendGate,
               ReleaseState, Crash
        <5>2. spent.faults \in Nat
          BY <1>0 DEF TypeOK, LifecycleTypeOK
        <5>3. spent' = spent => spent.faults <= spent'.faults
          BY <5>2
        <5> QED
          BY <5>1, <5>3, <1>0, SpendType
      <4>6. Emits'
        <5>1. \A q \in Process : Renders(proc'[q].manifest) /\ (proc'[q].cmd = "emit" <=> proc[q].cmd = "emit")
          BY <1>0, <4>1, <4>3, <4>4 DEF JobStep, Emits
        <5> QED
          BY <5>1, <2>c, <3>0, <4>1, <4>4, <4>5
      <4> QED
        BY <4>2, <4>6
    <3> QED
      BY <2>1, <3>2, <3>3 DEF Features
  <2>2. CASE Handles
    <3>0. ServeTypeOK'
      BY <1>0, <2>2 DEF Handles, TypeOK, ServeTypeOK
    <3>1. CASE HandStep
      <4>1. /\ UNCHANGED <<manifest, files, index, locks, proc, ghosts, emit, cut, blocked>> /\ Fault
        BY <3>1 DEF HandStep, Edit, Commit
      <4>2. /\ spent' \in [commands : 0..MaxCommands, faults : 0..MaxFaults] /\ spent.faults <= spent'.faults
        BY <4>1, <1>0, SpendType
      <4>3. FilesOK
        BY <4>1, <4>2, <1>0 DEF FilesOK, TypeOK, LifecycleTypeOK
      <4>4. Rest
        BY <4>1, <3>1, <1>0 DEF HandStep, Edit, Commit, TypeOK, HandlesTypeOK, Content
      <4>5. TypeOK' /\ Jobs'
        BY <2>a, <3>0, <4>1, <4>3, <4>4, <1>0 DEF TypeOK, LifecycleTypeOK, Jobs
      <4>6. Emits'
        BY <2>c, <4>1, <4>2, <4>3, <1>0 DEF Emits
      <4> QED
        BY <4>5, <4>6
    <3>2. ASSUME NEW p \in Process, EmitStep(p) PROVE TypeOK' /\ Jobs' /\ Emits'
      <4>1. EmitTo(p, emit'[p]) /\ EmitOK(emit'[p])
        BY <1>0, <3>2, EmitKeeps
      <4>2. /\ JobStep(p) /\ FilesOK
            /\ disk' \in [Path -> Content \cup {Absent}] /\ head' = head
            /\ cut' \in 0..MaxFaults /\ blocked' \in BOOLEAN
            /\ Renders(manifest') /\ Renders(proc'[p].manifest)
            /\ emit'[p].at # "idle" <=> proc'[p].cmd = "emit"
            /\ cut' <= spent'.faults
        BY <1>0, <3>2, EmitTypes
      <4>3. Rest
        BY <4>1, <4>2, <1>0 DEF EmitTo, TypeOK, HandlesTypeOK
      <4>4. TypeOK' /\ Jobs'
        BY <2>a, <2>b, <3>0, <4>2, <4>3
      <4>5. Emits'
        BY <4>1, <4>2, <1>0 DEF Emits, EmitTo, JobStep
      <4> QED
        BY <4>4, <4>5
    <3> QED
      BY <2>2, <3>1, <3>2 DEF Handles
  <2>3. CASE Requests
    <3>1. UNCHANGED <<disk, head, emit, cut, blocked>> /\ RequestStep
      BY <2>3 DEF Requests
    <3>2. /\ ServeTypeOK' /\ stateLock' \in Process \cup Request \cup {NoHolder}
          /\ spent' \in [commands : 0..MaxCommands, faults : 0..MaxFaults] /\ spent'.faults = spent.faults
          /\ UNCHANGED <<manifest, files, index, featureLock, proc, ghosts>>
      BY <3>1, <1>0, RequestTypes DEF Untouched
    <3>3. FilesOK /\ proc' \in [Process -> Job] /\ Jobs'
      BY <3>2, <1>0 DEF FilesOK, TypeOK, LifecycleTypeOK, Jobs
    <3>4. spent.faults <= spent'.faults
      BY <3>2, <1>0 DEF TypeOK, LifecycleTypeOK
    <3>5. Emits'
      BY <2>c, <3>1, <3>2, <3>3, <3>4, <1>0 DEF Emits
    <3> QED
      BY <2>a, <2>d, <3>1, <3>2, <3>3, <3>5
  <2> QED
    BY <1>2, <2>1, <2>2, <2>3 DEF Next
<1> QED
  BY <1>1, <1>2

-----------------------------------------------------------------------------
(* The steps of an emit, by what they do to its record, the manifest and   *)
(* the files.                                                              *)

Steady == UNCHANGED <<manifest, disk, cut, blocked>>
Keeps(e, y) == y.id = e.id /\ y.enforce = e.enforce /\ y.prior = e.prior

Started(p) ==
  /\ Steady /\ emit[p].at = "idle"
  /\ emit'[p].at = "planning" /\ emit'[p].left = {} /\ emit'[p].prior = manifest.enforce

Planned(p) ==
  LET e == emit[p]
      y == emit'[p]
  IN  /\ Steady /\ e.at = "planning" /\ y.at = "units" /\ Keeps(e, y)
      /\ y.mem = manifest /\ \A f \in Infra : y.seen[f] = disk[f]
      /\ y.left = Path \/ (y.left = Late /\ y.conflicts = Infra)

\* The file f at hand is done with.
Done(e, y, f) ==
  /\ y.at = "units" /\ Keeps(e, y) /\ f \in e.left /\ y.left = e.left \ {f} /\ y.mem = e.mem
  /\ \A g \in Path \ {f} : y.seen[g] = e.seen[g]

Passed(p) ==
  LET e == emit[p]
      y == emit'[p]
      f == First(e.left)
  IN  /\ Steady /\ e.at \in {"units", "classified"} /\ Done(e, y, f)
      /\ e.conflicts \subseteq y.conflicts
      /\ f \in Infra => e.seen[f] = Fresh(e, f) \/ f \in y.conflicts

Found(p) ==
  LET e == emit[p]
      y == emit'[p]
      f == First(e.left)
  IN  /\ Steady /\ e.at = "units" /\ y.at = "classified" /\ Keeps(e, y)
      /\ f \in e.left /\ y.left = e.left /\ y.mem = e.mem /\ y.conflicts = e.conflicts
      /\ \A g \in Path \ {f} : y.seen[g] = e.seen[g]
      /\ y.seen[f] = IF f \in Infra THEN e.seen[f] ELSE disk[f]

Wrote(p) ==
  LET e == emit[p]
      y == emit'[p]
      f == First(e.left)
  IN  /\ UNCHANGED <<manifest, cut, blocked>>
      /\ e.at = "classified" /\ y.at = "written" /\ Keeps(e, y)
      /\ f \in e.left /\ y.left = e.left /\ y.seen = e.seen /\ y.conflicts = e.conflicts
      /\ y.mem.enforce = e.mem.enforce /\ y.mem.files[f] # Absent /\ y.mem.files[f].hash = Fresh(e, f)
      /\ \A g \in Path \ {f} : y.mem.files[g] = e.mem.files[g] /\ disk'[g] = disk[g]
      /\ disk'[f] = Fresh(e, f) \/ (disk'[f] = disk[f] /\ e.seen[f] = Fresh(e, f))

Saved(p) ==
  /\ manifest' = emit[p].mem /\ UNCHANGED <<disk, cut, blocked>>
  /\ emit[p].at = "written" /\ Done(emit[p], emit'[p], First(emit[p].left))
  /\ emit'[p].conflicts = emit[p].conflicts

Finished(p) ==
  LET e == emit[p]
      y == emit'[p]
  IN  /\ manifest' \in {manifest, e.mem} /\ UNCHANGED <<disk, cut, blocked>>
      /\ e.at = "units" /\ e.left = {} /\ y.at = "flag" /\ y.left = {}
      /\ y.enforce = e.enforce /\ y.prior = e.prior /\ y.conflicts = e.conflicts

FlagRead(p) ==
  LET e == emit[p]
      y == emit'[p]
  IN  /\ Steady /\ e.at = "flag" /\ e.left = {} /\ y.at = "flagLoaded" /\ y.left = {} /\ y.mem = manifest
      /\ y.enforce = e.enforce /\ y.prior = e.prior /\ y.conflicts = e.conflicts

FlagKept(p) ==
  /\ Steady /\ emit[p].at = "flag" /\ emit[p].left = {} /\ emit[p].enforce = emit[p].prior
  /\ emit'[p].at = "verdict" /\ emit'[p].left = {}

FlagSaved(p) ==
  /\ UNCHANGED <<disk, cut>> /\ emit[p].at = "flagLoaded" /\ emit[p].left = {}
  /\ manifest' = [emit[p].mem EXCEPT !.enforce = emit[p].enforce]
  /\ blocked' = (blocked \/ emit[p].conflicts \cap Infra # {})
  /\ emit'[p].at = "verdict" /\ emit'[p].left = {}

Ended(p) ==
  Steady /\ emit[p].at = "verdict" /\ emit'[p].at = "idle" /\ emit'[p].left = {}

Killed(p) ==
  /\ UNCHANGED <<manifest, disk, blocked>> /\ cut' = cut + 1
  /\ emit[p].at # "idle" /\ emit'[p].at = "idle" /\ emit'[p].left = {}

\* Every step of an emit is one of them.
LEMMA EmitCases ==
  ASSUME TypeOK, Jobs, Emits, NEW p \in Process, EmitStep(p)
  PROVE  /\ emit' \in [Process -> Emission] /\ \A q \in Process \ {p} : emit'[q] = emit[q]
         /\ \/ Started(p) \/ Planned(p) \/ Passed(p) \/ Found(p) \/ Wrote(p) \/ Saved(p) \/ Finished(p)
            \/ FlagRead(p) \/ FlagKept(p) \/ FlagSaved(p) \/ Ended(p) \/ Killed(p)
<1> DEFINE e == emit[p]
           f == First(e.left)
<1> USE DEF lifecycleVars
<1>0. /\ e \in Emission /\ EmitOK(e)
      /\ emit' \in [Process -> Emission] /\ \A q \in Process \ {p} : emit'[q] = emit[q]
  BY EmitKeeps DEF TypeOK, HandlesTypeOK, Emits, EmitTo
<1>1. e.left # {} => f \in e.left /\ f \in Path
  <2>1. e.left \in SUBSET Path
    BY <1>0 DEF Emission
  <2> QED
    BY <2>1, FirstIn
<1>s. ASSUME NEW cs \in SUBSET Path, e.left # {}, Skip(p, f, cs)
      PROVE  Done(e, emit'[p], f) /\ emit'[p].conflicts = e.conflicts \cup cs
  BY <1>s, <1>1, SkipIs DEF Done, Keeps, EmitTo
<1>p. e.left # {} => {} \in SUBSET Path /\ {f} \in SUBSET Path
  BY <1>1
<1>2. CASE \E id \in Id, force, enforce \in BOOLEAN : StartEmit(p, id, force, enforce)
  <2>1. PICK id \in Id, force \in BOOLEAN, enforce \in BOOLEAN : StartEmit(p, id, force, enforce)
    BY <1>2
  <2>2. emit'[p].at = "planning" /\ emit'[p].left = {} /\ emit'[p].prior = manifest.enforce
    BY <2>1, StartEmitIs DEF EmitTo
  <2>3. e.at = "idle"
    <3>1. proc[p].at = "idle" /\ JobOK(proc[p])
      BY <2>1 DEF StartEmit, Begins, Jobs
    <3> QED
      BY <3>1 DEF JobOK, Emits
  <2> QED
    BY <1>0, <2>1, <2>2, <2>3 DEF Started, Steady, StartEmit
<1>3. CASE PlanInfra(p)
  <2>1. Steady /\ e.at = "planning"
    BY <1>3 DEF PlanInfra, Emitting, Steady
  <2>2. PICK y \in Emission :
           /\ EmitTo(p, y)
           /\ y.at = "units" /\ y.mem = manifest /\ \A g \in Infra : y.seen[g] = disk[g]
           /\ (y.left = Late /\ y.conflicts = Infra) \/ y.left = Path
           /\ y.id = e.id /\ y.force = e.force /\ y.enforce = e.enforce /\ y.prior = e.prior
    BY <1>3, PlanIs
  <2>3. emit'[p] = y
    BY <2>2 DEF EmitTo
  <2>4. Planned(p)
    BY <2>1, <2>2, <2>3 DEF Planned, Keeps
  <2> QED
    BY <1>0, <2>4
<1>4. CASE ReadUnit(p)
  <2>0. Steady /\ e.at = "units" /\ e.left # {}
    BY <1>4 DEF ReadUnit, Steady, Emitting
  <2>1. CASE Action(e, f) = "unchanged" /\ f \in Infra /\ Skip(p, f, {})
    <3>1. e.seen[f] = Fresh(e, f)
      BY <1>0, <1>1, <2>0, <2>1, ActionIs DEF EmitOK
    <3>2. Passed(p)
      BY <2>0, <2>1, <3>1, <1>s, <1>p DEF Passed
    <3> QED
      BY <1>0, <3>2
  <2>2. CASE f \notin Infra /\ (Skip(p, f, {}) \/ Skip(p, f, {f}))
    <3>2. Passed(p)
      BY <2>0, <2>2, <1>s, <1>p DEF Passed
    <3> QED
      BY <1>0, <3>2
  <2>3. CASE Skip(p, f, {f})
    <3>2. Passed(p)
      BY <2>0, <2>3, <1>s, <1>p DEF Passed
    <3> QED
      BY <1>0, <3>2
  <2>4. CASE \E y \in Emission :
              /\ EmitTo(p, y) /\ y.at = "classified" /\ y.left = emit[p].left
              /\ \A g \in Path \ {f} : y.seen[g] = emit[p].seen[g]
              /\ y.seen[f] = (IF f \in Infra THEN emit[p].seen[f] ELSE disk[f])
              /\ y.conflicts = emit[p].conflicts
              /\ y.id = emit[p].id /\ y.enforce = emit[p].enforce
              /\ y.prior = emit[p].prior /\ y.mem = emit[p].mem
    <3>2. Found(p)
      BY <2>0, <2>4, <1>1 DEF Found, Keeps, EmitTo
    <3> QED
      BY <1>0, <3>2
  <2> QED
    BY <1>4, <2>1, <2>2, <2>3, <2>4, ClassifiedIs
<1>5. CASE PassUnit(p)
  <2>0. Steady /\ e.at = "classified" /\ e.left # {} /\ Skip(p, f, {f})
    BY <1>5, <1>0 DEF PassUnit, Steady, Emitting, EmitOK
  <2>1. Passed(p)
    BY <2>0, <1>s, <1>p DEF Passed
  <2> QED
    BY <1>0, <2>1
<1>6. CASE WriteUnit(p)
  <2>0. UNCHANGED <<manifest, cut, blocked>> /\ e.at = "classified" /\ e.left # {} /\ e.id \in Id
    BY <1>6, <1>0 DEF WriteUnit, Emitting, EmitOK
  <2>1. /\ \A g \in Path \ {f} : disk'[g] = disk[g]
        /\ disk'[f] = Fresh(e, f) \/ (disk'[f] = disk[f] /\ Action(e, f) = "adoptUnchanged")
    BY <1>1, <1>6, <2>0 DEF WriteUnit, TypeOK, HandlesTypeOK
  <2>2. Action(e, f) = "adoptUnchanged" => e.seen[f] = Fresh(e, f)
    BY <1>0, <1>1, <2>0, ActionIs DEF EmitOK
  <2>3. PICK y \in Emission :
               /\ EmitTo(p, y) /\ y.at = "written" /\ y.left = e.left
               /\ y.mem.enforce = e.mem.enforce
               /\ y.mem.files[f] # Absent /\ y.mem.files[f].hash = Fresh(e, f)
               /\ y.mem.files[f].owner = Fresh(e, f).owner
               /\ \A g \in Path \ {f} : y.mem.files[g] = e.mem.files[g]
               /\ y.seen = e.seen /\ y.conflicts = e.conflicts
               /\ y.id = e.id /\ y.force = e.force /\ y.enforce = e.enforce /\ y.prior = e.prior
    BY <1>6, WrittenIs
  <2>4. Wrote(p)
    BY <2>0, <2>1, <2>2, <2>3, <1>1 DEF Wrote, Keeps, EmitTo
  <2> QED
    BY <1>0, <2>4
<1>7. CASE RecordUnit(p)
  <2>0. /\ manifest' = e.mem /\ UNCHANGED <<disk, cut, blocked>> /\ e.at = "written" /\ e.left # {}
        /\ Skip(p, f, {})
    BY <1>7, <1>0 DEF RecordUnit, Emitting, EmitOK
  <2>1. Saved(p)
    BY <2>0, <1>s, <1>p DEF Saved
  <2> QED
    BY <1>0, <2>1
<1>8. CASE FinishUnits(p)
  <2>1. Finished(p)
    BY <1>8, RestIs DEF FinishUnits, Finished, Emitting, Rests, EmitTo
  <2> QED
    BY <1>0, <2>1
<1>9. CASE LoadFlag(p)
  <2>0. Steady /\ e.at = "flag" /\ e.left = {}
    BY <1>9, <1>0 DEF LoadFlag, Steady, Emitting, EmitOK
  <2>1. FlagRead(p) \/ FlagKept(p)
    BY <1>9, <2>0, RestIs DEF FlagRead, FlagKept, Rests, EmitTo
  <2> QED
    BY <1>0, <2>1
<1>10. CASE SaveFlag(p)
  <2>1. FlagSaved(p)
    BY <1>0, <1>10, RestIs DEF SaveFlag, FlagSaved, Emitting, Rests, EmitTo, EmitOK
  <2> QED
    BY <1>0, <2>1
<1>11. CASE Verdict(p)
  <2>1. Ended(p)
    BY <1>11, RestIs, NoEmitIs DEF Verdict, Ended, Steady, Emitting, EmitTo
  <2> QED
    BY <1>0, <2>1
<1>12. CASE KillEmit(p)
  <2>1. Killed(p)
    BY <1>12, RestIs, NoEmitIs DEF KillEmit, Killed, EmitTo
  <2> QED
    BY <1>0, <2>1
<1> QED
  BY <1>2, <1>3, <1>4, <1>5, <1>6, <1>7, <1>8, <1>9, <1>10, <1>11, <1>12 DEF EmitStep

\* What the other steps do to what emits go by: nothing, but for an edit and a rename at the owners.
LEMMA OtherCases ==
  ASSUME IInv, [Next]_vars
  PROVE  /\ lost' = lost
         /\ \/ \E p \in Process : EmitStep(p)
            \/ /\ UNCHANGED <<emit, cut, blocked>>
               /\ \/ /\ UNCHANGED <<manifest, disk>>
                     /\ \A q \in Process : proc'[q].at = "manifestRead" =>
                          proc[q].at = "manifestRead" /\ proc'[q].manifest = proc[q].manifest
                  \/ UNCHANGED <<manifest, proc>> /\ \E f \in Path, c \in Hand \cup {Absent} : Edit(f, c)
                  \/ \E p \in Process : RenameReadsManifest(p) /\ disk' = disk /\ JobStep(p)
                  \/ \E p \in Process : RenameWritesOwners(p) /\ disk' = disk /\ JobStep(p)
<1>0. TypeOK /\ Jobs /\ Indexers
  BY DEF IInv
<1>1. CASE UNCHANGED vars
  BY <1>1 DEF vars, handlesVars, lifecycleVars
<1>2. CASE Next
  <2>0. lost' = lost
    BY <1>2 DEF Next
  <2>1. CASE Features
    <3>0. UNCHANGED <<disk, emit, cut, blocked>>
      BY <2>1 DEF Features
    <3>1. CASE RemoveStaleLock \/ \E id \in Id : RemoveDirectory(id)
      BY <2>0, <3>0, <3>1 DEF RemoveStaleLock, RemoveDirectory
    <3>2. ASSUME NEW p \in Process, FeatureStep(p)
          PROVE  \/ /\ UNCHANGED <<manifest, disk>>
                    /\ \A q \in Process : proc'[q].at = "manifestRead" =>
                         proc[q].at = "manifestRead" /\ proc'[q].manifest = proc[q].manifest
                 \/ RenameReadsManifest(p) /\ disk' = disk /\ JobStep(p)
                 \/ RenameWritesOwners(p) /\ disk' = disk /\ JobStep(p)
      <4>1. JobStep(p)
        BY <1>0, <3>2, FeatureTypes
      <4>2. \/ RenameReadsManifest(p) \/ RenameWritesOwners(p)
            \/ manifest' = manifest /\ proc'[p].at # "manifestRead"
        BY <1>0, <3>2, FeatureFrame
      <4> QED
        BY <4>1, <4>2, <3>0 DEF JobStep
    <3> QED
      BY <2>0, <2>1, <3>0, <3>1, <3>2 DEF Features
  <2>2. CASE Handles /\ HandStep
    BY <2>0, <2>2 DEF HandStep, Commit, Edit
  <2>3. CASE Handles /\ \E p \in Process : EmitStep(p)
    BY <2>0, <2>3
  <2>4. CASE Requests
    BY <2>0, <2>4, <1>0, RequestTypes DEF Requests, Untouched
  <2> QED
    BY <1>2, <2>1, <2>2, <2>3, <2>4 DEF Next, Handles
<1> QED
  BY <1>1, <1>2

\* A command that goes by a manifest it has loaded is no emit, and an emit is at no rename.
LEMMA HoldsIs ==
  ASSUME Jobs, Emits, NEW p \in Process
  PROVE  /\ proc[p].at = "manifestRead" => emit[p].at = "idle"
         /\ emit[p].at # "idle" => proc[p].at # "manifestRead"
BY DEF Jobs, JobOK, Emits, Moving

\* One step makes at most one process go by a manifest.
LEMMA HoldersGrow ==
  ASSUME IInv, [Next]_vars
  PROVE  \/ \A q \in Process : Holds(q)' => Holds(q)
         \/ \E p \in Process : \A q \in Process \ {p} : Holds(q)' => Holds(q)
<1>0. TypeOK /\ Jobs /\ Emits
  BY DEF IInv
<1>1. ASSUME NEW p \in Process, EmitStep(p) PROVE \A q \in Process \ {p} : Holds(q)' => Holds(q)
  BY <1>0, <1>1, EmitCases, EmitTypes DEF JobStep, Holds
<1>2. ASSUME NEW p \in Process, JobStep(p), emit' = emit PROVE \A q \in Process \ {p} : Holds(q)' => Holds(q)
  BY <1>2 DEF JobStep, Holds
<1>3. CASE ~\E p \in Process : EmitStep(p)
  <2>1. emit' = emit
    BY <1>3, OtherCases
  <2>2. CASE \A q \in Process : proc'[q].at = "manifestRead" => proc[q].at = "manifestRead"
    BY <2>1, <2>2 DEF Holds
  <2>3. CASE proc' = proc
    BY <2>1, <2>3 DEF Holds
  <2>4. CASE \E p \in Process : JobStep(p)
    BY <2>1, <2>4, <1>2
  <2> QED
    BY <1>3, <2>2, <2>3, <2>4, OtherCases
<1> QED
  BY <1>1, <1>3

\* The ghost sees every overlap.
LEMMA OneHolderKept ==
  ASSUME IInv, [Next]_vars
  PROVE  OneHolder' /\ (overlap => overlap')
<1> DEFINE S == {p \in Process : Holds(p)}
           T == {p \in Process : Holds(p)'}
<1>1. CASE UNCHANGED vars
  BY <1>1 DEF IInv, OneHolder, Holds, vars, handlesVars, lifecycleVars
<1>2. CASE Next
  <2>1. overlap' = (overlap \/ Cardinality(T) > 1)
    BY <1>2 DEF Next
  <2>2. SUFFICES ASSUME ~overlap' PROVE \A p, q \in Process : Holds(p)' /\ Holds(q)' => p = q
    BY <2>1 DEF OneHolder
  <2>3. ~overlap /\ ~(Cardinality(T) > 1)
    BY <2>1, <2>2
  <2>4. \A p, q \in S : p = q
    BY <2>3 DEF IInv, OneHolder
  <2>5. IsFiniteSet(S)
    <3>1. S = {} \/ \E s \in S : S = {s}
      BY <2>4
    <3> HIDE DEF S
    <3>2. ASSUME NEW s, S = {s} PROVE IsFiniteSet(S)
      BY <3>2, FS_Singleton
    <3> QED
      BY <3>1, <3>2, FS_EmptySet
  <2>6. IsFiniteSet(T)
    <3>1. T \subseteq S \/ \E p \in Process : T \subseteq S \cup {p}
      BY HoldersGrow
    <3>2. \A p : IsFiniteSet(S \cup {p})
      BY <2>5, FS_AddElement
    <3> QED
      BY <2>5, <3>1, <3>2, FS_Subset
  <2> HIDE DEF S, T
  <2>7. SUFFICES ASSUME NEW p \in T, NEW q \in T, p # q PROVE FALSE
    BY DEF T
  <2>8. {p, q} \subseteq T /\ Cardinality({p, q}) = 2
    <3>1. IsFiniteSet({p}) /\ Cardinality({p}) = 1
      BY FS_Singleton
    <3>2. {p, q} = {p} \cup {q} /\ q \notin {p}
      BY <2>7
    <3> QED
      BY <3>1, <3>2, FS_AddElement
  <2>9. Cardinality({p, q}) <= Cardinality(T)
    BY <2>6, <2>8, FS_Subset
  <2>10. Cardinality(T) \in Nat
    BY <2>6, FS_CardinalityType
  <2> QED
    BY <2>3, <2>8, <2>9, <2>10
<1> QED
  BY <1>1, <1>2

-----------------------------------------------------------------------------
(* Emits and the manifest on disk.                                         *)

\* A process that goes by no manifest follows whatever is there.
LEMMA FollowsAway ==
  ASSUME Emits, NEW p \in Process, ~Holds(p)
  PROVE  emit[p].at \in {"idle", "verdict"} /\ emit[p].left = {} /\ proc[p].at # "manifestRead"
BY DEF Emits, EmitOK, Holds

\* An emit that follows the manifest still does after a step of its own.
LEMMA FollowsStep ==
  ASSUME TypeOK, Jobs, Emits, NEW p \in Process, EmitStep(p), FollowsFiles(emit[p])
  PROVE  FollowsFiles(emit[p])'
<1> DEFINE e == emit[p]
           y == emit'[p]
           f == First(e.left)
<1>0. e \in Emission /\ EmitOK(e) /\ disk \in [Path -> Content \cup {Absent}] /\ e.left \in SUBSET Path
  BY DEF TypeOK, HandlesTypeOK, Emits, Emission
<1>1. CASE Started(p) \/ Finished(p) \/ FlagKept(p) \/ FlagSaved(p) \/ Ended(p) \/ Killed(p)
  <2>1. y.left = {} /\ y.at \in {"planning", "flag", "verdict", "idle"}
    BY <1>1 DEF Started, Finished, FlagKept, FlagSaved, Ended, Killed
  <2> QED
    BY <2>1 DEF FollowsFiles, Ahead
<1>2. CASE FlagRead(p)
  BY <1>2 DEF FlagRead, Steady, FollowsFiles, Ahead
<1>3. CASE Planned(p)
  BY <1>3 DEF Planned, Steady, FollowsFiles, Ahead
<1>4. CASE Passed(p)
  <2>1. Ahead(y) \subseteq Ahead(e) \ {f} /\ Ahead(e) \subseteq Path
    BY <1>0, <1>4 DEF Passed, Done, Ahead
  <2>2. \A g \in Ahead(y) : y.seen[g] = e.seen[g]
    BY <2>1, <1>4 DEF Passed, Done
  <2> QED
    BY <1>4, <2>1, <2>2 DEF Passed, Done, Steady, FollowsFiles
<1>5. CASE Found(p)
  <2>1. Ahead(y) = e.left /\ Ahead(e) = e.left
    BY <1>5 DEF Found, Ahead
  <2>2. \A g \in e.left \cap Infra : y.seen[g] = e.seen[g]
    BY <1>0, <1>5 DEF Found
  <2>3. disk[f] \in Generated => disk[f] = y.seen[f]
    BY <1>5, <2>1 DEF Found, FollowsFiles
  <2>4. First(y.left) = f /\ y.mem = manifest' /\ disk' = disk /\ y.at = "classified"
    BY <1>5 DEF Found, Steady, FollowsFiles
  <2> QED
    BY <2>1, <2>2, <2>3, <2>4 DEF FollowsFiles
<1>6. CASE Wrote(p)
  <2>1. Ahead(y) = e.left \ {f} /\ Ahead(e) = e.left /\ First(y.left) = f /\ y.at = "written"
    BY <1>6 DEF Wrote, Ahead
  <2>2. Fresh(y, f) = Fresh(e, f)
    BY <1>6 DEF Wrote, Keeps, Fresh
  <2>3. disk'[f] \in Generated => disk'[f] = Fresh(y, f)
    BY <1>6, <2>2 DEF Wrote, FollowsFiles
  <2>4. \A g \in Ahead(y) \cap Infra : disk'[g] \in Generated => disk'[g] = y.seen[g]
    BY <1>0, <1>6, <2>1 DEF Wrote, FollowsFiles
  <2>5. /\ y.mem.enforce = manifest'.enforce /\ y.mem.files[f] # Absent /\ y.mem.files[f].hash = Fresh(y, f)
        /\ \A g \in Path \ {f} : y.mem.files[g] = manifest'.files[g]
    BY <1>6, <2>2 DEF Wrote, FollowsFiles
  <2> QED
    BY <2>1, <2>3, <2>4, <2>5 DEF FollowsFiles
<1>7. CASE Saved(p)
  <2>1. Ahead(y) = Ahead(e) /\ Ahead(e) \subseteq Path \ {f}
    BY <1>0, <1>7 DEF Saved, Done, Ahead
  <2>2. \A g \in Ahead(y) : y.seen[g] = e.seen[g]
    BY <2>1, <1>7 DEF Saved, Done
  <2> QED
    BY <1>7, <2>1, <2>2 DEF Saved, Done, FollowsFiles
<1> QED
  BY <1>1, <1>2, <1>3, <1>4, <1>5, <1>6, <1>7, EmitCases

\* New owners do not change what the manifest says of the files.
LEMMA OwnersMoved ==
  ASSUME TypeOK, Jobs, NEW p \in Process, RenameWritesOwners(p), proc[p].manifest = manifest
  PROVE  /\ manifest'.enforce = manifest.enforce
         /\ \A f \in Path : Recorded(manifest', f) = Recorded(manifest, f)
<1>1. proc[p].at = "manifestRead" /\ JobOK(proc[p]) /\ manifest \in Manifest
  BY DEF RenameWritesOwners, Jobs, TypeOK, LifecycleTypeOK
<1>2. proc[p].id \in Id /\ proc[p].to \in Id
  BY <1>1 DEF JobOK, Moving
<1>3. manifest' \in {manifest, Reowned(manifest, proc[p].id, proc[p].to)}
  BY DEF RenameWritesOwners
<1>4. /\ Reowned(manifest, proc[p].id, proc[p].to).enforce = manifest.enforce
      /\ \A f \in Path : /\ Reowned(manifest, proc[p].id, proc[p].to).files[f] = Absent <=> manifest.files[f] = Absent
                         /\ manifest.files[f] # Absent =>
                              Reowned(manifest, proc[p].id, proc[p].to).files[f].hash = manifest.files[f].hash
  BY <1>1, <1>2, ReownedIs
<1> QED
  BY <1>3, <1>4 DEF Recorded

\* Who goes by a manifest is alone with it.
LEMMA OnlyHolder ==
  ASSUME OneHolder, ~overlap, NEW p \in Process, NEW q \in Process, Holds(p), q # p
  PROVE  ~Holds(q)
BY DEF OneHolder

\* A step of an emit that changes the manifest or the files is one of a process that goes by a manifest.
LEMMA EmitHolds ==
  ASSUME TypeOK, Jobs, Emits, NEW p \in Process, EmitStep(p), ~Holds(p)
  PROVE  UNCHANGED <<manifest, disk>>
BY EmitCases DEF Started, Planned, Passed, Found, Wrote, Saved, Finished, FlagRead, FlagKept, FlagSaved, Ended,
                 Killed, Steady, Holds

\* Emits and renames follow the manifest on disk.
LEMMA FollowingKept ==
  ASSUME IInv, [Next]_vars
  PROVE  Following'
<1>0. TypeOK /\ Jobs /\ Emits /\ OneHolder /\ Following
  BY DEF IInv
<1>1. SUFFICES ASSUME ~overlap', NEW q \in Process
               PROVE  FollowsFiles(emit[q])' /\ (proc'[q].at = "manifestRead" => proc'[q].manifest = manifest')
  BY DEF Following
<1>2. ~overlap
  BY <1>1, OneHolderKept
<1>3. FollowsFiles(emit[q]) /\ (proc[q].at = "manifestRead" => proc[q].manifest = manifest)
  BY <1>0, <1>2 DEF Following
<1>4. /\ emit[q] \in Emission /\ emit[q].left \in SUBSET Path
      /\ emit[q].at \in {"classified", "written"} => emit[q].left # {}
  BY <1>0 DEF TypeOK, HandlesTypeOK, Emits, EmitOK, Emission
<1>5. ASSUME emit'[q] = emit[q], ~Holds(q) PROVE FollowsFiles(emit[q])'
  <2>1. emit'[q].at \in {"idle", "verdict"} /\ emit'[q].left = {}
    BY <1>0, <1>5, FollowsAway
  <2> QED
    BY <2>1 DEF FollowsFiles, Ahead
<1>6. ASSUME emit'[q] = emit[q], UNCHANGED manifest, \A f \in Path : disk'[f] \in Generated => disk'[f] = disk[f]
      PROVE  FollowsFiles(emit[q])'
  <2> DEFINE e == emit[q]
  <2>1. FollowsFiles(e) /\ emit'[q] = e
    BY <1>3, <1>6
  <2>2. \A f \in Path : disk'[f] \in Generated => disk'[f] = disk[f]
    BY <1>6
  <2>3. e.at \in {"classified", "written"} => First(e.left) \in Path
    BY <1>4, FirstIn
  <2>4. Ahead(e) \subseteq Path
    BY <1>4 DEF Ahead
  <2> HIDE DEF e
  <2> QED
    BY <2>1, <2>2, <2>3, <2>4, <1>6 DEF FollowsFiles
<1>7. CASE \E p \in Process : EmitStep(p)
  <2>1. PICK p \in Process : EmitStep(p)
    BY <1>7
  <2>2. JobStep(p) /\ (emit'[p].at # "idle" <=> proc'[p].cmd = "emit")
    BY <1>0, <2>1, EmitTypes
  <2>3. /\ emit' \in [Process -> Emission] /\ \A r \in Process \ {p} : emit'[r] = emit[r]
    BY <1>0, <2>1, EmitCases
  <2>4. CASE q = p
    <3>1. FollowsFiles(emit[q])'
      BY <1>0, <1>3, <2>1, <2>4, FollowsStep
    <3>2. proc'[q].at # "manifestRead"
      <4>1. CASE Verdict(p) \/ KillEmit(p)
        BY <4>1, <2>4, <1>0, VerdictJob, EndSet DEF KillEmit
      <4>2. CASE ~(Verdict(p) \/ KillEmit(p))
        <5>a. \/ \E id \in Id, force, enforce \in BOOLEAN : StartEmit(p, id, force, enforce)
              \/ PlanInfra(p) \/ ReadUnit(p) \/ PassUnit(p) \/ WriteUnit(p) \/ RecordUnit(p) \/ FinishUnits(p)
              \/ LoadFlag(p) \/ SaveFlag(p)
          BY <4>2, <2>1 DEF EmitStep
        <5>b. (\E id \in Id, force, enforce \in BOOLEAN : StartEmit(p, id, force, enforce)) => Starts(p)
          BY DEF Starts
        <5>1. Starts(p) \/ (proc' = proc /\ proc[p].cmd = "emit")
          BY <5>a, <5>b, <1>0, UnderWay
        <5>2. Starts(p) => proc'[p].at # "manifestRead"
          BY <1>0, StartSteps
        <5>3. proc[p].cmd = "emit" => proc[p].at = "emitting"
          BY <1>0 DEF Jobs, JobOK
        <5> QED
          BY <5>1, <5>2, <5>3, <2>4
      <4> QED
        BY <4>1, <4>2
    <3> QED
      BY <3>1, <3>2
  <2>5. CASE q # p
    <3>1. emit'[q] = emit[q] /\ proc'[q] = proc[q]
      BY <2>2, <2>3, <2>5 DEF JobStep
    <3>2. CASE Holds(q)
      <4>1. UNCHANGED <<manifest, disk>>
        BY <1>0, <1>2, <2>1, <2>5, <3>2, OnlyHolder, EmitHolds
      <4> QED
        BY <1>3, <1>6, <3>1, <4>1
    <3>3. CASE ~Holds(q)
      BY <1>0, <1>5, <3>1, <3>3, FollowsAway
    <3> QED
      BY <3>2, <3>3
  <2> QED
    BY <2>4, <2>5
<1>8. CASE ~\E p \in Process : EmitStep(p)
  <2>0. emit' = emit
    BY <1>8, OtherCases
  <2>1. CASE /\ UNCHANGED <<manifest, disk>>
             /\ \A r \in Process : proc'[r].at = "manifestRead" =>
                  proc[r].at = "manifestRead" /\ proc'[r].manifest = proc[r].manifest
    BY <1>3, <1>6, <2>0, <2>1
  <2>2. CASE UNCHANGED <<manifest, proc>> /\ \E f \in Path, c \in Hand \cup {Absent} : Edit(f, c)
    <3>1. PICK f \in Path, c \in Hand \cup {Absent} : Edit(f, c)
      BY <2>2
    <3>2. c \notin Generated
      BY ContentsAssumption DEF Content
    <3>3. \A g \in Path : disk'[g] \in Generated => disk'[g] = disk[g]
      BY <1>0, <3>1, <3>2 DEF Edit, TypeOK, HandlesTypeOK
    <3> QED
      BY <1>3, <1>6, <2>0, <2>2, <3>3
  <2>3. CASE \E p \in Process : RenameReadsManifest(p) /\ disk' = disk /\ JobStep(p)
    <3>1. PICK p \in Process : RenameReadsManifest(p) /\ disk' = disk /\ JobStep(p)
      BY <2>3
    <3>2. UNCHANGED <<manifest, disk>>
      BY <3>1 DEF RenameReadsManifest
    <3>3. proc'[p].manifest = manifest
      BY <3>1, <1>0 DEF RenameReadsManifest, TypeOK, LifecycleTypeOK, Job
    <3> QED
      BY <1>3, <1>6, <2>0, <3>1, <3>2, <3>3 DEF JobStep
  <2>4. CASE \E p \in Process : RenameWritesOwners(p) /\ disk' = disk /\ JobStep(p)
    <3>1. PICK p \in Process : RenameWritesOwners(p) /\ disk' = disk /\ JobStep(p)
      BY <2>4
    <3>2. proc[p].at = "manifestRead" /\ Goes(p, "ownersDone")
      BY <3>1 DEF RenameWritesOwners
    <3>3. emit[p].at = "idle" /\ Holds(p)
      BY <1>0, <3>2, HoldsIs DEF Holds
    <3>4. proc'[p].at = "ownersDone"
      BY <1>0, <3>2, AtSet DEF Moving
    <3>5. CASE q = p
      <4>1. emit'[q].at = "idle" /\ emit'[q].left = {}
        BY <1>0, <2>0, <3>3, <3>5 DEF Emits, EmitOK
      <4> QED
        BY <4>1, <3>4, <3>5 DEF FollowsFiles, Ahead
    <3>6. CASE q # p
      <4>1. ~Holds(q)
        BY <1>0, <1>2, <3>3, <3>6, OnlyHolder
      <4>2. proc'[q] = proc[q]
        BY <3>1, <3>6 DEF JobStep
      <4> QED
        BY <1>0, <1>5, <2>0, <4>1, <4>2, FollowsAway
    <3> QED
      BY <3>5, <3>6
  <2> QED
    BY <1>8, <2>1, <2>2, <2>3, <2>4, OtherCases
<1> QED
  BY <1>7, <1>8

\* Files are unvouched for by killed emits only, and by the one that stands at its file.
LEMMA VouchingKept ==
  ASSUME IInv, [Next]_vars
  PROVE  Vouching'
<1>0. TypeOK /\ Jobs /\ Emits /\ OneHolder /\ Following /\ Vouching
  BY DEF IInv
<1>1. SUFFICES ASSUME ~overlap'
               PROVE  \E T \in SUBSET Path : Cardinality(T) <= cut' /\ Unvouched' \subseteq T \cup Written'
  BY DEF Vouching
<1>2. ~overlap /\ lost' = lost
  BY <1>1, OneHolderKept, OtherCases
<1>3. PICK S \in SUBSET Path : Cardinality(S) <= cut /\ Unvouched \subseteq S \cup Written
  BY <1>0, <1>2 DEF Vouching
<1>4. Unvouched \subseteq Path /\ manifest \in Manifest
  BY <1>0 DEF Unvouched, TypeOK, LifecycleTypeOK
<1>5. ASSUME \A f \in Path : disk'[f] \in Generated => disk'[f] = disk[f] /\ Recorded(manifest', f) = Recorded(manifest, f)
      PROVE  Unvouched' \subseteq Unvouched
  BY <1>2, <1>5 DEF Unvouched
<1>6. CASE ~\E p \in Process : EmitStep(p)
  <2>0. UNCHANGED <<emit, cut>>
    BY <1>6, OtherCases
  <2>1. Written' = Written
    BY <2>0 DEF Written
  <2>2. \A f \in Path : disk'[f] \in Generated => disk'[f] = disk[f] /\ Recorded(manifest', f) = Recorded(manifest, f)
    <3>1. CASE UNCHANGED <<manifest, disk>>
      BY <3>1
    <3>2. CASE UNCHANGED <<manifest, proc>> /\ \E f \in Path, c \in Hand \cup {Absent} : Edit(f, c)
      <4>1. PICK f \in Path, c \in Hand \cup {Absent} : Edit(f, c)
        BY <3>2
      <4>2. c \notin Generated
        BY ContentsAssumption DEF Content
      <4> QED
        BY <1>0, <3>2, <4>1, <4>2 DEF Edit, TypeOK, HandlesTypeOK
    <3>3. CASE \E p \in Process : RenameReadsManifest(p) /\ disk' = disk
      BY <3>3 DEF RenameReadsManifest
    <3>4. CASE \E p \in Process : RenameWritesOwners(p) /\ disk' = disk
      <4>1. PICK p \in Process : RenameWritesOwners(p) /\ disk' = disk
        BY <3>4
      <4>2. proc[p].manifest = manifest
        BY <1>0, <1>2, <4>1 DEF RenameWritesOwners, Following
      <4> QED
        BY <1>0, <4>1, <4>2, OwnersMoved
    <3> QED
      BY <1>6, <3>1, <3>2, <3>3, <3>4, OtherCases
  <2> QED
    BY <1>3, <1>5, <2>0, <2>1, <2>2
<1>7. ASSUME NEW p \in Process, EmitStep(p)
      PROVE  \E T \in SUBSET Path : Cardinality(T) <= cut' /\ Unvouched' \subseteq T \cup Written'
  <2> DEFINE e == emit[p]
             f == First(e.left)
  <2>0. e \in Emission /\ EmitOK(e) /\ FollowsFiles(e) /\ e.left \in SUBSET Path
    BY <1>0, <1>2 DEF TypeOK, HandlesTypeOK, Emits, Following, Emission
  <2>1. /\ emit' \in [Process -> Emission] /\ \A q \in Process \ {p} : emit'[q] = emit[q]
    BY <1>0, <1>7, EmitCases
  <2>2. Written \subseteq Written' \cup {f} /\ (e.at # "written" => Written \subseteq Written')
    BY <2>1 DEF Written
  <2>3. ASSUME e.at # "written", UNCHANGED <<disk, cut>>, \A g \in Path : Recorded(manifest', g) = Recorded(manifest, g)
        PROVE  \E T \in SUBSET Path : Cardinality(T) <= cut' /\ Unvouched' \subseteq T \cup Written'
    BY <1>3, <1>5, <2>2, <2>3
  <2>4. CASE \/ Started(p) \/ Planned(p) \/ Passed(p) \/ Found(p) \/ FlagRead(p) \/ FlagKept(p) \/ Ended(p)
    <3>1. Steady /\ e.at # "written"
      BY <2>4 DEF Started, Planned, Passed, Found, FlagRead, FlagKept, Ended
    <3> QED
      BY <2>3, <3>1 DEF Steady
  <2>5. CASE Finished(p) \/ FlagSaved(p)
    <3>1. /\ e.at \in {"units", "flagLoaded"} /\ UNCHANGED <<disk, cut>>
          /\ manifest' \in {manifest, e.mem, [e.mem EXCEPT !.enforce = e.enforce]}
      BY <2>5 DEF Finished, FlagSaved
    <3>2. e.mem = manifest
      BY <2>0, <3>1 DEF FollowsFiles
    <3>3. manifest'.files = manifest.files
      BY <1>4, <3>1, <3>2 DEF Manifest
    <3> QED
      BY <2>3, <3>1, <3>3 DEF Recorded
  <2>6. CASE Wrote(p)
    <3>1. e.at = "classified" /\ f \in e.left /\ UNCHANGED <<manifest, cut>> /\ \A g \in Path \ {f} : disk'[g] = disk[g]
      BY <2>6 DEF Wrote
    <3>2. f \in Written'
      <4>1. emit'[p].at = "written" /\ emit'[p].left = e.left
        BY <2>6 DEF Wrote
      <4> QED
        BY <4>1 DEF Written
    <3>3. Unvouched' \subseteq Unvouched \cup {f}
      BY <1>2, <3>1 DEF Unvouched
    <3> QED
      BY <1>3, <2>2, <3>1, <3>2, <3>3
  <2>7. CASE Saved(p)
    <3>1. e.at = "written" /\ f \in e.left /\ manifest' = e.mem /\ UNCHANGED <<disk, cut>>
      BY <2>7 DEF Saved, Done
    <3>2. /\ e.mem.files[f] # Absent /\ e.mem.files[f].hash = Fresh(e, f)
          /\ \A g \in Path \ {f} : e.mem.files[g] = manifest.files[g]
          /\ disk[f] \in Generated => disk[f] = Fresh(e, f)
      BY <2>0, <3>1 DEF FollowsFiles
    <3>3. /\ Recorded(manifest', f) = Fresh(e, f)
          /\ \A g \in Path \ {f} : Recorded(manifest', g) = Recorded(manifest, g)
      BY <3>1, <3>2 DEF Recorded
    <3>4. Unvouched' \subseteq Unvouched \ {f}
      BY <1>2, <3>1, <3>2, <3>3 DEF Unvouched
    <3> QED
      BY <1>3, <2>2, <3>1, <3>4
  <2>8. CASE Killed(p)
    <3>1. UNCHANGED <<manifest, disk>> /\ cut' = cut + 1
      BY <2>8 DEF Killed
    <3>2. Unvouched' \subseteq Unvouched
      BY <1>5, <3>1
    <3>3. cut \in Nat /\ IsFiniteSet(S) /\ Cardinality(S) \in Nat
      <4>1. IsFiniteSet(S)
        BY PathsAssumption, FS_Subset
      <4> QED
        BY <1>0, <4>1, FS_CardinalityType DEF TypeOK, HandlesTypeOK
    <3>4. CASE e.at # "written"
      <4>1. Cardinality(S) <= cut'
        BY <1>3, <3>1, <3>3
      <4> QED
        BY <1>3, <2>2, <3>2, <3>4, <4>1
    <3>5. CASE e.at = "written"
      <4>1. f \in Path
        BY <2>0, <3>5, FirstIn DEF EmitOK
      <4>2. Cardinality(S \cup {f}) = Cardinality(S) \/ Cardinality(S \cup {f}) = Cardinality(S) + 1
        BY <3>3, FS_AddElement
      <4>3. Cardinality(S \cup {f}) <= cut'
        BY <1>3, <3>1, <3>3, <4>2
      <4> QED
        BY <1>3, <2>2, <3>2, <4>1, <4>3
    <3> QED
      BY <3>4, <3>5
  <2> QED
    BY <1>0, <1>7, <2>4, <2>5, <2>6, <2>7, <2>8, EmitCases
<1> QED
  BY <1>6, <1>7

\* The registry flag of the manifest is the one of the files, or the one that an emit is about to save.
LEMMA FlaggedKept ==
  ASSUME IInv, [Next]_vars
  PROVE  Flagged'
<1>0. TypeOK /\ Jobs /\ Emits /\ OneHolder /\ Following /\ Flagged /\ Infra \subseteq Path /\ OneHolder'
  BY OneHolderKept DEF IInv, Path
<1> DEFINE Agree == \A f \in Infra : disk[f] \in Generated => disk[f].enforce = manifest.enforce
           Runs(q) == emit[q].at \in Running
           OK(q) == /\ emit[q].prior = manifest.enforce
                    /\ \A f \in Infra : disk[f] \in Generated => FlagOK(emit[q], f)
           Goal == (\A q \in Process : Runs(q) => OK(q)) /\ ((\A q \in Process : ~Runs(q)) => Agree)
<1>1. SUFFICES ASSUME ~overlap', ~blocked', cut' = 0 PROVE Goal'
  BY DEF Flagged
<1>2. ~overlap /\ ~(\E p \in Process : Killed(p)) /\ cut = 0 /\ ~blocked
  <2>1. ~overlap
    BY <1>1, OneHolderKept
  <2>2. cut \in Nat
    BY <1>0 DEF TypeOK, HandlesTypeOK
  <2>3. CASE ~\E p \in Process : EmitStep(p)
    <3>1. cut' = cut /\ blocked' = blocked
      BY <2>3, OtherCases
    <3> QED
      BY <2>1, <2>2, <3>1, <1>1 DEF Killed
  <2>4. ASSUME NEW p \in Process, EmitStep(p) PROVE cut' \in {cut, cut + 1} /\ (blocked => blocked')
    BY <1>0, <2>4, EmitCases DEF Started, Planned, Passed, Found, Wrote, Saved, Finished, FlagRead, FlagKept,
                                 FlagSaved, Ended, Killed, Steady
  <2>5. \A p \in Process : Killed(p) => cut' = cut + 1
    BY DEF Killed
  <2> QED
    BY <2>1, <2>2, <2>3, <2>4, <2>5, <1>1
<1>3. Goal
  BY <1>0, <1>2 DEF Flagged
<1>4. ASSUME emit' = emit, manifest'.enforce = manifest.enforce,
             \A f \in Infra : disk'[f] \in Generated => disk'[f] = disk[f]
      PROVE  Goal'
  <2>1. Agree => Agree'
    BY <1>4
  <2>2. ASSUME NEW q \in Process, OK(q) PROVE OK(q)'
    <3>1. emit'[q] = emit[q]
      BY <1>4
    <3>2. \A f \in Infra : disk'[f] \in Generated => FlagOK(emit[q], f)'
      BY <1>4, <2>2 DEF FlagOK
    <3> QED
      BY <3>1, <3>2, <1>4, <2>2
  <2> HIDE DEF Agree, OK
  <2> QED
    BY <1>3, <1>4, <2>1, <2>2
<1>5. CASE ~\E p \in Process : EmitStep(p)
  <2>0. emit' = emit
    BY <1>5, OtherCases
  <2>1. CASE UNCHANGED <<manifest, disk>>
    BY <1>4, <2>0, <2>1
  <2>2. CASE UNCHANGED <<manifest, proc>> /\ \E f \in Path, c \in Hand \cup {Absent} : Edit(f, c)
    <3>1. PICK f \in Path, c \in Hand \cup {Absent} : Edit(f, c)
      BY <2>2
    <3>2. c \notin Generated
      BY ContentsAssumption DEF Content
    <3>3. \A g \in Infra : disk'[g] \in Generated => disk'[g] = disk[g]
      BY <1>0, <3>1, <3>2 DEF Edit, TypeOK, HandlesTypeOK
    <3> HIDE DEF Goal
    <3> QED
      BY <1>4, <2>0, <2>2, <3>3
  <2>3. CASE \E p \in Process : RenameReadsManifest(p) /\ disk' = disk
    <3>1. manifest' = manifest
      BY <2>3 DEF RenameReadsManifest
    <3> QED
      BY <1>4, <2>0, <2>3, <3>1
  <2>4. CASE \E p \in Process : RenameWritesOwners(p) /\ disk' = disk
    <3>1. PICK p \in Process : RenameWritesOwners(p) /\ disk' = disk
      BY <2>4
    <3>2. proc[p].manifest = manifest
      BY <1>0, <1>2, <3>1 DEF RenameWritesOwners, Following
    <3>3. manifest'.enforce = manifest.enforce
      BY <1>0, <3>1, <3>2, OwnersMoved
    <3> QED
      BY <1>4, <2>0, <3>1, <3>3
  <2> HIDE DEF Goal
  <2> QED
    BY <1>5, <2>1, <2>2, <2>3, <2>4, OtherCases
<1>6. ASSUME NEW p \in Process, EmitStep(p) PROVE Goal'
  <2> DEFINE e == emit[p]
             y == emit'[p]
             f == First(e.left)
  <2>0. /\ e \in Emission /\ EmitOK(e) /\ FollowsFiles(e) /\ e.left \in SUBSET Path
        /\ disk \in [Path -> Content \cup {Absent}] /\ manifest \in Manifest
    BY <1>0, <1>2 DEF TypeOK, HandlesTypeOK, LifecycleTypeOK, Emits, Following, Emission
  <2>1. /\ emit' \in [Process -> Emission] /\ \A q \in Process \ {p} : emit'[q] = emit[q]
    BY <1>0, <1>6, EmitCases
  <2>2. ASSUME e.at \in Running \/ y.at \in Running, NEW q \in Process, q # p
        PROVE  emit[q].at \notin Running /\ emit'[q].at \notin Running
    <3>1. emit'[q] = emit[q]
      BY <2>1, <2>2
    <3>2. (Holds(p) /\ Holds(q) => p = q) /\ (Holds(p)' /\ Holds(q)' => p = q)
      BY <1>0, <1>1, <1>2 DEF OneHolder
    <3> QED
      BY <2>2, <3>1, <3>2 DEF Holds, Running
  <2>3. ASSUME y.at \in Running, OK(p)' PROVE Goal'
    <3>1. \A q \in Process : Runs(q)' => q = p
      BY <2>2, <2>3
    <3> HIDE DEF OK, Agree
    <3> QED
      BY <2>3, <3>1
  <2>4. ASSUME e.at \in Running, y.at \notin Running, Agree' PROVE Goal'
    <3>1. \A q \in Process : ~Runs(q)'
      BY <2>2, <2>4
    <3> HIDE DEF OK, Agree, Runs
    <3> QED
      BY <2>4, <3>1
  <2>5. e.at \in Running => OK(p)
    BY <1>3
  <2>a. \A g \in Infra : Fresh(e, g).enforce = e.enforce
    BY DEF Fresh, Render
  <2> HIDE DEF Goal
  <2>6. CASE Started(p)
    <3>1. y.at = "planning" /\ y.prior = manifest.enforce /\ e.at = "idle" /\ UNCHANGED <<manifest, disk>>
      BY <2>6 DEF Started, Steady
    <3>2. \A q \in Process : ~Runs(q)
      BY <2>2, <3>1 DEF Running
    <3>3. Agree
      BY <1>3, <3>2 DEF Goal
    <3>4. OK(p)'
      BY <3>1, <3>3 DEF FlagOK
    <3> HIDE DEF OK
    <3> QED
      BY <2>3, <3>1, <3>4 DEF Running
  <2>7. CASE Planned(p)
    <3>1. OK(p) /\ y.at = "units" /\ UNCHANGED <<manifest, disk>> /\ y.prior = e.prior /\ e.at = "planning"
      BY <2>5, <2>7 DEF Planned, Steady, Keeps, Running
    <3>2. (y.left = Path \/ (y.left = Late /\ y.conflicts = Infra)) /\ Ahead(y) = y.left
      BY <2>7, <3>1 DEF Planned, Ahead
    <3>3. \A g \in Infra : disk[g] \in Generated => disk[g].enforce = y.prior
      BY <3>1 DEF FlagOK
    <3>4. OK(p)'
      BY <1>0, <3>1, <3>2, <3>3 DEF FlagOK
    <3> HIDE DEF OK
    <3> QED
      BY <2>3, <3>1, <3>4 DEF Running
  <2>8. CASE Passed(p)
    <3>1. /\ OK(p) /\ y.at = "units" /\ UNCHANGED <<manifest, disk>> /\ y.prior = e.prior /\ y.enforce = e.enforce
          /\ e.at \in {"units", "classified"} /\ f \in e.left
      BY <2>5, <2>8 DEF Passed, Done, Steady, Keeps, Running
    <3>2. /\ Ahead(y) = e.left \ {f} /\ Ahead(e) = e.left /\ e.conflicts \subseteq y.conflicts
          /\ f \in Infra => e.seen[f] = Fresh(e, f) \/ f \in y.conflicts
      BY <2>8, <3>1 DEF Passed, Done, Ahead
    <3>3. f \in Infra /\ disk[f] \in Generated => disk[f] = e.seen[f] /\ disk[f].enforce = e.prior
      BY <2>0, <3>1, <3>2 DEF FollowsFiles, FlagOK
    <3>4. ASSUME NEW g \in Infra, disk[g] \in Generated PROVE FlagOK(emit[p], g)'
      <4>1. CASE g = f
        <5>1. disk[g].enforce = e.enforce \/ (g \in y.conflicts /\ disk[g].enforce = e.prior)
          BY <2>a, <3>2, <3>3, <3>4, <4>1
        <5>2. g \notin Ahead(y) /\ y.at # "planning"
          BY <3>1, <3>2, <4>1
        <5> QED
          BY <3>1, <3>4, <5>1, <5>2 DEF FlagOK
      <4>2. CASE g # f
        <5>1. FlagOK(e, g)
          BY <3>1, <3>4
        <5>2. g \in Ahead(y) <=> g \in Ahead(e)
          BY <3>2, <4>2
        <5> QED
          BY <3>1, <3>2, <5>1, <5>2 DEF FlagOK
      <4> QED
        BY <4>1, <4>2
    <3>5. OK(p)'
      BY <3>1, <3>4
    <3> HIDE DEF OK
    <3> QED
      BY <2>3, <3>1, <3>5 DEF Running
  <2>9. CASE Found(p)
    <3>1. /\ OK(p) /\ y.at = "classified" /\ UNCHANGED <<manifest, disk>> /\ y.prior = e.prior /\ y.enforce = e.enforce
          /\ e.at = "units" /\ y.left = e.left /\ y.conflicts = e.conflicts
      BY <2>5, <2>9 DEF Found, Steady, Keeps, Running
    <3>2. Ahead(y) = Ahead(e)
      BY <3>1 DEF Ahead
    <3>3. OK(p)'
      BY <3>1, <3>2 DEF FlagOK
    <3> HIDE DEF OK
    <3> QED
      BY <2>3, <3>1, <3>3 DEF Running
  <2>10. CASE Wrote(p)
    <3>1. /\ OK(p) /\ y.at = "written" /\ manifest' = manifest /\ y.prior = e.prior /\ y.enforce = e.enforce
          /\ e.at = "classified" /\ y.left = e.left /\ y.conflicts = e.conflicts /\ f \in e.left
          /\ \A g \in Path \ {f} : disk'[g] = disk[g]
          /\ disk'[f] = Fresh(e, f) \/ (disk'[f] = disk[f] /\ e.seen[f] = Fresh(e, f))
      BY <2>5, <2>10 DEF Wrote, Keeps, Running
    <3>2. Ahead(y) = e.left \ {f} /\ Ahead(e) = e.left
      BY <3>1 DEF Ahead
    <3>3. disk[f] \in Generated => disk[f] = e.seen[f]
      BY <2>0, <3>1 DEF FollowsFiles
    <3>4. ASSUME NEW g \in Infra, disk'[g] \in Generated PROVE FlagOK(emit[p], g)'
      <4>1. CASE g = f
        <5>1. disk'[g] = Fresh(e, g)
          BY <3>1, <3>3, <3>4, <4>1
        <5>2. g \notin Ahead(y) /\ y.at # "planning"
          BY <3>1, <3>2, <4>1
        <5>3. disk'[g].enforce = e.enforce
          BY <2>a, <5>1
        <5> QED
          BY <3>1, <5>3, <5>2 DEF FlagOK
      <4>2. CASE g # f
        <5>0. disk'[g] = disk[g]
          BY <1>0, <3>1, <4>2
        <5>1. FlagOK(e, g)
          BY <3>1, <3>4, <5>0
        <5>2. g \in Ahead(y) <=> g \in Ahead(e)
          BY <3>2, <4>2
        <5> QED
          BY <3>1, <3>2, <5>0, <5>1, <5>2 DEF FlagOK
      <4> QED
        BY <4>1, <4>2
    <3>5. OK(p)'
      BY <3>1, <3>4
    <3> HIDE DEF OK
    <3> QED
      BY <2>3, <3>1, <3>5 DEF Running
  <2>11. CASE Saved(p)
    <3>1. /\ OK(p) /\ y.at = "units" /\ disk' = disk /\ y.prior = e.prior /\ y.enforce = e.enforce
          /\ e.at = "written" /\ y.left = e.left \ {f} /\ y.conflicts = e.conflicts /\ manifest' = e.mem
      BY <2>5, <2>11 DEF Saved, Done, Keeps, Running
    <3>2. Ahead(y) = Ahead(e)
      BY <3>1 DEF Ahead
    <3>3. manifest'.enforce = manifest.enforce
      BY <2>0, <3>1 DEF FollowsFiles
    <3>4. OK(p)'
      BY <3>1, <3>2, <3>3 DEF FlagOK
    <3> HIDE DEF OK
    <3> QED
      BY <2>3, <3>1, <3>4 DEF Running
  <2>12. CASE Finished(p) \/ FlagRead(p)
    <3>1. /\ OK(p) /\ y.at \in {"flag", "flagLoaded"} /\ disk' = disk /\ y.prior = e.prior /\ y.enforce = e.enforce
          /\ e.at \in {"units", "flag"} /\ y.left = {} /\ e.left = {} /\ y.conflicts = e.conflicts
      BY <2>5, <2>12 DEF Finished, FlagRead, Steady, Running
    <3>2. Ahead(y) = {} /\ Ahead(e) = {}
      BY <3>1 DEF Ahead
    <3>3. manifest' = manifest
      BY <2>0, <2>12 DEF FollowsFiles, Finished, FlagRead, Steady
    <3>4. OK(p)'
      BY <3>1, <3>2, <3>3 DEF FlagOK
    <3> HIDE DEF OK
    <3> QED
      BY <2>3, <3>1, <3>4 DEF Running
  <2>13. CASE FlagKept(p)
    <3>1. /\ OK(p) /\ y.at = "verdict" /\ UNCHANGED <<manifest, disk>> /\ e.at = "flag" /\ e.left = {}
          /\ e.enforce = e.prior
      BY <2>5, <2>13 DEF FlagKept, Steady, Running
    <3>2. Ahead(e) = {}
      BY <3>1 DEF Ahead
    <3>3. Agree'
      BY <3>1, <3>2 DEF FlagOK
    <3> HIDE DEF Agree
    <3> QED
      BY <2>4, <3>1, <3>3 DEF Running
  <2>14. CASE FlagSaved(p)
    <3>1. /\ OK(p) /\ y.at = "verdict" /\ disk' = disk /\ e.at = "flagLoaded" /\ e.left = {}
          /\ manifest' = [e.mem EXCEPT !.enforce = e.enforce]
          /\ e.conflicts \cap Infra = {}
      BY <1>1, <2>5, <2>14 DEF FlagSaved, Running
    <3>2. Ahead(e) = {}
      BY <3>1 DEF Ahead
    <3>3. manifest'.enforce = e.enforce
      BY <2>0, <3>1 DEF Emission, Manifest
    <3>4. Agree'
      BY <3>1, <3>2, <3>3 DEF FlagOK
    <3> HIDE DEF Agree
    <3> QED
      BY <2>4, <3>1, <3>4 DEF Running
  <2>15. CASE Ended(p)
    <3>1. UNCHANGED <<manifest, disk>> /\ e.at \notin Running /\ y.at \notin Running
      BY <2>15 DEF Ended, Steady, Running
    <3>2. \A q \in Process : Runs(q)' => q # p /\ emit'[q] = emit[q] /\ Runs(q)
      BY <2>1, <3>1
    <3>3. \A q \in Process : Runs(q) => q # p /\ emit'[q] = emit[q] /\ Runs(q)'
      BY <2>1, <3>1
    <3>4. ASSUME NEW q \in Process, Runs(q)' PROVE OK(q)'
      <4>1. OK(q) /\ emit'[q] = emit[q]
        BY <1>3, <3>2, <3>4 DEF Goal
      <4> QED
        BY <3>1, <4>1 DEF FlagOK
    <3>5. Agree => Agree'
      BY <3>1
    <3> HIDE DEF OK, Agree, Runs
    <3> QED
      BY <1>3, <3>3, <3>4, <3>5 DEF Goal
  <2> QED
    BY <1>0, <1>2, <1>6, <2>6, <2>7, <2>8, <2>9, <2>10, <2>11, <2>12, <2>13, <2>14, <2>15, EmitCases
<1> QED
  BY <1>5, <1>6

-----------------------------------------------------------------------------
(* Commands on features: what their records keep, and the lock.            *)

\* The command of p goes on with what it goes by unchanged.
Stays(p) ==
  LET x == proc[p]
      y == proc'[p]
  IN  y.cmd = x.cmd /\ y.id = x.id /\ y.to = x.to /\ y.uid = x.uid /\ y.feature = x.feature /\ y.index = x.index

\* A rename at work, apart from the steps that read the index, the record or write the index.
RenameStays(p) ==
  \/ RenameDirectory(p) \/ RenameContracts(p) \/ RenameWritesFeature(p) \/ RenameState(p) \/ RenameReadsState(p)
  \/ RenameWritesState(p) \/ RenameHistory(p) \/ RenameReadsManifest(p) \/ RenameWritesOwners(p)

GateStays(p) == AcquireState(p) \/ LoadGates(p) \/ SaveGates(p) \/ AppendGate(p)

\* These steps leave the record alone, but for the place and what was read of the state or the manifest.
LEMMA StaysIs ==
  ASSUME TypeOK, NEW p \in Process,
         \/ AcquireFeatures(p) \/ InitSaves(p) \/ InitIndexes(p) \/ Link(p) \/ RenameIndexes(p)
         \/ RenameStays(p) \/ GateStays(p)
  PROVE  /\ Stays(p)
         /\ AcquireFeatures(p) => proc'[p].at = "locked"
         /\ InitSaves(p) \/ InitIndexes(p) \/ Link(p) \/ RenameIndexes(p) \/ GateStays(p) =>
              proc'[p].at \in {"saved", "done", "locked", "loaded"}
         /\ proc'[p].at = "stateMoved" => RenameState(p) /\ sbf[proc[p].id] # Absent
<1> DEFINE x == proc[p]
<1>0. x \in Job /\ proc \in [Process -> Job]
  BY DEF TypeOK, LifecycleTypeOK
<1>1. CASE AcquireFeatures(p)
  <2>1. Goes(p, "locked")
    BY <1>1 DEF AcquireFeatures
  <2>2. Stays(p) /\ proc'[p].at = "locked"
    BY <2>1, AtSet DEF Stays
  <2> QED
    BY <2>2
<1>2. CASE InitSaves(p) \/ InitIndexes(p) \/ Link(p) \/ RenameIndexes(p) \/ AcquireState(p) \/ SaveGates(p) \/ AppendGate(p)
  <2>1. PICK place \in {"saved", "done", "locked"} : Goes(p, place)
    BY <1>2 DEF InitSaves, InitIndexes, Link, RenameIndexes, AcquireState, SaveGates, AppendGate
  <2>2. Stays(p) /\ proc'[p].at = place
    BY <2>1, AtSet DEF Stays
  <2>3. ~AcquireFeatures(p)
    BY <1>2 DEF AcquireFeatures, InitSaves, InitIndexes, Link, RenameIndexes, AcquireState, SaveGates, AppendGate
  <2> QED
    BY <2>1, <2>2, <2>3
<1>3. CASE LoadGates(p)
  <2>1. PICK s : proc' = [proc EXCEPT ![p] = [proc[p] EXCEPT !.at = "loaded", !.state = s]]
    BY <1>3 DEF LoadGates
  <2>2. Stays(p) /\ proc'[p].at = "loaded"
    BY <1>0, <2>1 DEF Stays, Job
  <2>3. ~AcquireFeatures(p)
    BY <1>3 DEF AcquireFeatures, LoadGates
  <2> QED
    BY <2>2, <2>3
<1>4. CASE RenameReadsState(p) \/ RenameReadsManifest(p)
  <2>0. x.at \in {"stateMoved", "historyDone"}
    BY <1>4 DEF RenameReadsState, RenameReadsManifest
  <2>1. ASSUME NEW s, proc' = [proc EXCEPT ![p] = [proc[p] EXCEPT !.at = "stateRead", !.state = s]]
        PROVE  Stays(p) /\ proc'[p].at = "stateRead"
    BY <1>0, <2>1 DEF Stays, Job
  <2>r. ASSUME NEW m, proc' = [proc EXCEPT ![p] = [proc[p] EXCEPT !.at = "manifestRead", !.manifest = m]]
        PROVE  Stays(p) /\ proc'[p].at = "manifestRead"
    BY <1>0, <2>r DEF Stays, Job
  <2>2. Stays(p) /\ proc'[p].at \in {"stateRead", "manifestRead"}
    BY <1>4, <2>1, <2>r DEF RenameReadsState, RenameReadsManifest
  <2>3. ~AcquireFeatures(p) /\ ~InitSaves(p) /\ ~InitIndexes(p) /\ ~Link(p) /\ ~RenameIndexes(p) /\ ~GateStays(p)
    BY <2>0 DEF AcquireFeatures, InitSaves, InitIndexes, Link, RenameIndexes, GateStays, AcquireState, LoadGates,
                SaveGates, AppendGate
  <2> QED
    BY <2>2, <2>3
<1>5. CASE /\ RenameStays(p) /\ ~(RenameReadsState(p) \/ RenameReadsManifest(p))
  <2>0. x.at \in {"checked", "moved", "featureRead", "featureWritten", "stateRead", "stateDone", "manifestRead"}
    BY <1>5 DEF RenameStays, RenameDirectory, RenameContracts, RenameWritesFeature, RenameState,
                RenameWritesState, RenameHistory, RenameWritesOwners
  <2>1. PICK place \in {"done", "moved", "contracts", "featureWritten", "stateDone", "stateMoved", "historyDone", "ownersDone"} :
          Goes(p, place) /\ (place = "stateMoved" => RenameState(p) /\ sbf[x.id] # Absent)
    BY <1>5 DEF RenameStays, RenameDirectory, RenameContracts, RenameWritesFeature, RenameState,
                RenameWritesState, RenameHistory, RenameWritesOwners
  <2>2. Stays(p) /\ proc'[p].at = place
    BY <2>1, AtSet DEF Stays, Moving
  <2>3. ~AcquireFeatures(p) /\ ~InitSaves(p) /\ ~InitIndexes(p) /\ ~Link(p) /\ ~RenameIndexes(p) /\ ~GateStays(p)
    BY <2>0 DEF AcquireFeatures, InitSaves, InitIndexes, Link, RenameIndexes, GateStays, AcquireState, LoadGates,
                SaveGates, AppendGate
  <2> QED
    BY <2>1, <2>2, <2>3
<1> QED
  BY <1>1, <1>2, <1>3, <1>4, <1>5 DEF RenameStays, GateStays

\* The steps that choose or read what a command goes by.
LEMMA ChoosesIs ==
  ASSUME TypeOK, NEW p \in Process
  PROVE  /\ InitNumbers(p) =>
              \/ Stays(p) /\ proc'[p].at = "done"
              \/ /\ proc'[p].at = "numbered" /\ proc'[p].cmd = "init" /\ proc'[p].to[1] = NextNumber
                 /\ proc'[p].feature = proc[p].feature /\ NextNumber <= MaxNumber
         /\ RenameChecks(p) =>
              \/ Stays(p) /\ proc'[p].at = "done"
              \/ /\ proc'[p].at = "checked" /\ proc'[p].cmd = proc[p].cmd /\ proc'[p].id = proc[p].id
                 /\ proc'[p].to = proc[p].to /\ proc'[p].feature = proc[p].feature /\ proc'[p].index = index
                 /\ specs[proc[p].id] # Absent /\ proc'[p].uid = specs[proc[p].id].uid
                 /\ ~InUse(proc[p].to, index)
         /\ RenameReadsFeature(p) =>
              \/ Stays(p) /\ proc'[p].at = "done"
              \/ /\ proc'[p].at = "featureRead" /\ proc'[p].cmd = proc[p].cmd /\ proc'[p].id = proc[p].id
                 /\ proc'[p].to = proc[p].to /\ proc'[p].index = proc[p].index /\ proc'[p].uid = proc[p].uid
                 /\ specs[proc[p].to] # Absent /\ proc'[p].feature = specs[proc[p].to]
<1> DEFINE x == proc[p]
<1>0. x \in Job /\ proc \in [Process -> Job]
  BY DEF TypeOK, LifecycleTypeOK
<1>1. Goes(p, "done") => Stays(p) /\ proc'[p].at = "done"
  BY AtSet DEF Stays
<1>2. ASSUME InitNumbers(p), ~Goes(p, "done")
      PROVE  /\ proc'[p].at = "numbered" /\ proc'[p].cmd = "init" /\ proc'[p].to[1] = NextNumber
             /\ proc'[p].feature = proc[p].feature /\ NextNumber <= MaxNumber
  <2> DEFINE n == NextNumber
  <2>1. PICK u : proc' = [proc EXCEPT ![p] = [proc[p] EXCEPT !.at = "numbered", !.to = <<n, x.id[2]>>, !.uid = u]]
    BY <1>2 DEF InitNumbers
  <2>2. x.cmd = "init" /\ ~(n > MaxNumber)
    BY <1>2 DEF InitNumbers
  <2>3. n \in Nat /\ MaxNumber \in Nat
    BY NextNumberIs, PathsAssumption
  <2> HIDE DEF n
  <2>4. /\ proc'[p].at = "numbered" /\ proc'[p].cmd = "init" /\ proc'[p].to = <<n, x.id[2]>>
        /\ proc'[p].feature = proc[p].feature
    BY <1>0, <2>1, <2>2 DEF Job
  <2>5. n <= MaxNumber
    BY <2>2, <2>3
  <2> QED
    BY <2>4, <2>5 DEF n
<1>3. ASSUME RenameChecks(p), ~Goes(p, "done")
      PROVE  /\ proc'[p].at = "checked" /\ proc'[p].cmd = proc[p].cmd /\ proc'[p].id = proc[p].id
             /\ proc'[p].to = proc[p].to /\ proc'[p].feature = proc[p].feature /\ proc'[p].index = index
             /\ specs[proc[p].id] # Absent /\ proc'[p].uid = specs[proc[p].id].uid
             /\ ~InUse(proc[p].to, index)
  <2>1. /\ proc' = [proc EXCEPT ![p] = [proc[p] EXCEPT !.at = "checked", !.uid = specs[x.id].uid, !.index = index]]
        /\ specs[x.id] # Absent /\ ~InUse(x.to, index)
    BY <1>3 DEF RenameChecks
  <2> QED
    BY <1>0, <2>1 DEF Job
<1>4. ASSUME RenameReadsFeature(p), ~Goes(p, "done")
      PROVE  /\ proc'[p].at = "featureRead" /\ proc'[p].cmd = proc[p].cmd /\ proc'[p].id = proc[p].id
             /\ proc'[p].to = proc[p].to /\ proc'[p].index = proc[p].index /\ proc'[p].uid = proc[p].uid
             /\ specs[proc[p].to] # Absent /\ proc'[p].feature = specs[proc[p].to]
  <2>1. /\ proc' = [proc EXCEPT ![p] = [proc[p] EXCEPT !.at = "featureRead", !.feature = specs[x.to]]]
        /\ specs[x.to] # Absent
    BY <1>4 DEF RenameReadsFeature
  <2> QED
    BY <1>0, <2>1 DEF Job
<1> QED
  BY <1>1, <1>2, <1>3, <1>4

\* Steps that end a command, or kill it.
Overs(p) ==
  \/ TimeoutFeatures(p) \/ ReleaseFeatures(p) \/ ArchiveSaves(p) \/ TimeoutState(p) \/ ReleaseState(p) \/ Crash(p)

LEMMA OversIs ==
  ASSUME TypeOK, NEW p \in Process, Overs(p)
  PROVE  /\ proc'[p].cmd = "none" /\ proc'[p].at \in {"idle", "dead"}
         /\ proc'[p].uid = Absent /\ proc'[p].feature = Absent
BY EndSet DEF Overs, TimeoutFeatures, ReleaseFeatures, ArchiveSaves, TimeoutState, ReleaseState, Crash

\* All steps of commands on features.
LEMMA FeatureCases ==
  ASSUME NEW p \in Process, FeatureStep(p)
  PROVE  \/ Starts(p) /\ UNCHANGED <<manifest, files, index, locks, minted, told, removed>>
         \/ Overs(p) \/ AcquireFeatures(p) \/ InitNumbers(p) \/ InitSaves(p) \/ InitIndexes(p)
         \/ Link(p) \/ RenameChecks(p) \/ RenameReadsFeature(p) \/ RenameIndexes(p) \/ RenameStays(p) \/ GateStays(p)
BY DEF FeatureStep, Overs, RenameStays, GateStays, Starts, StartInit, StartRename, StartLink, StartArchive, StartGate

\* Of two commands that change or read the index one waits.
LEMMA LockedOut ==
  ASSUME Indexers, NEW p \in Process, NEW q \in Process,
         proc[p].cmd \in Indexing, proc[p].at # "waiting", proc[q].cmd \in Indexing, proc[q].at # "waiting"
  PROVE  p = q
BY DEF Indexers

\* Who takes a step on features while another one holds the lock leaves it what it needs.
LEMMA IndexersOfOther ==
  ASSUME TypeOK, Jobs, Indexers, NEW p \in Process, FeatureStep(p), NEW q \in Process, q # p
  PROVE  /\ featureLock = q => featureLock' = q
         /\ proc[q].cmd \in Indexing /\ proc[q].at # "waiting" => index' = index
         /\ proc[q].at = "stateMoved" => sbf'[proc[q].to] # Absent
<1> DEFINE x == proc[p]
           Past == x.cmd \in Indexing /\ x.at # "waiting"
<1> USE DEF files, locks, ghosts
<1>0. /\ JobOK(x) /\ JobOK(proc[q]) /\ featureLock \in Process \cup {NoHolder} /\ NoHolder \notin Process
      /\ sbf \in [Id -> State \cup {Absent}]
  BY HoldersAssumption DEF Jobs, TypeOK, LifecycleTypeOK
<1>1. Past => featureLock = p
  BY DEF Indexers
<1>2. proc[q].cmd \in Indexing /\ proc[q].at # "waiting" => ~Past
  BY LockedOut
<1>3. proc[q].at = "stateMoved" => /\ proc[q].cmd = "rename" /\ proc[q].to \in Id /\ sbf[proc[q].to] # Absent
                                   /\ ~Past
  BY <1>0, <1>2 DEF JobOK, Moving, Indexers, Indexing
<1>4. featureLock' = featureLock \/ (featureLock = NoHolder) \/ Past
  BY <1>0 DEF FeatureStep, StartInit, StartRename, StartLink, StartArchive, StartGate, AcquireFeatures, TimeoutFeatures,
     ReleaseFeatures, InitNumbers, InitSaves, InitIndexes, Link, ArchiveSaves,
     RenameChecks, RenameDirectory, RenameContracts, RenameReadsFeature, RenameWritesFeature,
     RenameState, RenameReadsState, RenameWritesState, RenameHistory, RenameReadsManifest,
     RenameWritesOwners, RenameIndexes, AcquireState, TimeoutState, LoadGates, SaveGates, AppendGate,
     ReleaseState, Crash, Indexing
<1>5. index' = index \/ Past
  <2>1. x.at = "ownersDone" => Past
    BY <1>0 DEF JobOK, Moving, Indexing
  <2> QED
    BY <2>1 DEF FeatureStep, StartInit, StartRename, StartLink, StartArchive, StartGate, AcquireFeatures, TimeoutFeatures,
     ReleaseFeatures, InitNumbers, InitSaves, InitIndexes, Link, ArchiveSaves,
     RenameChecks, RenameDirectory, RenameContracts, RenameReadsFeature, RenameWritesFeature,
     RenameState, RenameReadsState, RenameWritesState, RenameHistory, RenameReadsManifest,
     RenameWritesOwners, RenameIndexes, AcquireState, TimeoutState, LoadGates, SaveGates, AppendGate,
     ReleaseState, Crash, Indexing
<1>6. sbf' = sbf \/ Past \/ SaveGates(p)
  <2>1. x.at \in {"featureWritten", "stateRead"} => Past
    BY <1>0 DEF JobOK, Moving, Indexing
  <2> QED
    BY <2>1 DEF FeatureStep, StartInit, StartRename, StartLink, StartArchive, StartGate, AcquireFeatures, TimeoutFeatures,
     ReleaseFeatures, InitNumbers, InitSaves, InitIndexes, Link, ArchiveSaves,
     RenameChecks, RenameDirectory, RenameContracts, RenameReadsFeature, RenameWritesFeature,
     RenameState, RenameReadsState, RenameWritesState, RenameHistory, RenameReadsManifest,
     RenameWritesOwners, RenameIndexes, AcquireState, TimeoutState, LoadGates, SaveGates, AppendGate,
     ReleaseState, Crash, Indexing
<1>7. ASSUME SaveGates(p), NEW i \in Id, sbf[i] # Absent PROVE sbf'[i] # Absent
  <2>1. x.state \in State /\ x.gate \in Gate
    BY <1>0, <1>7 DEF SaveGates, JobOK
  <2>2. [x.state EXCEPT !.gates = @ \cup {x.gate}] \in State
    BY <2>1 DEF State
  <2>3. [x.state EXCEPT !.gates = @ \cup {x.gate}] # Absent
    BY <2>2, RecordsAssumption
  <2>4. sbf' = [sbf EXCEPT ![x.id] = [x.state EXCEPT !.gates = @ \cup {x.gate}]]
    BY <1>7 DEF SaveGates
  <2> DEFINE s == [x.state EXCEPT !.gates = @ \cup {x.gate}]
  <2>5. s # Absent /\ sbf' = [sbf EXCEPT ![x.id] = s]
    BY <2>3, <2>4
  <2> HIDE DEF s
  <2> QED
    BY <1>0, <1>7, <2>5
<1> QED
  BY <1>0, <1>1, <1>2, <1>3, <1>4, <1>5, <1>6, <1>7

\* And what it needs itself.
LEMMA IndexersOfOwn ==
  ASSUME TypeOK, Jobs, Indexers, NEW p \in Process, FeatureStep(p)
  PROVE  /\ proc'[p].cmd \in Indexing /\ proc'[p].at # "waiting" => featureLock' = p
         /\ proc'[p].at \in Moving => proc'[p].index = index' /\ \A u \in Uid : proc'[p].to \notin Ids(u, index')
         /\ proc'[p].at = "stateMoved" => sbf'[proc'[p].to] # Absent
<1> DEFINE x == proc[p]
           y == proc'[p]
<1> USE DEF files, locks, ghosts
<1>0. JobOK(x) /\ JobOK(y) /\ JobStep(p) /\ sbf \in [Id -> State \cup {Absent}]
  BY FeatureTypes DEF Jobs, JobStep, TypeOK, LifecycleTypeOK
<1>1. x.cmd \in Indexing /\ x.at # "waiting" => featureLock = p
  BY DEF Indexers
<1>2. x.at \in Moving => /\ x.index = index /\ \A u \in Uid : x.to \notin Ids(u, index)
                         /\ x.cmd = "rename" /\ x.id \in Id /\ x.to \in Id /\ x.to # x.id
  BY <1>0 DEF Indexers, JobOK
<1>3. CASE Starts(p)
  <2>1. y.at \in {"waiting", "read", "emitting"}
    BY <1>3, StartSteps
  <2> QED
    BY <1>0, <2>1 DEF JobOK, Moving, Indexing
<1>4. CASE Overs(p)
  <2>1. y.cmd = "none" /\ y.at \in {"idle", "dead"}
    BY <1>4, OversIs
  <2> QED
    BY <2>1 DEF Moving, Indexing
<1>5. CASE AcquireFeatures(p)
  BY <1>5, StaysIs DEF AcquireFeatures, Moving
<1>6. CASE InitSaves(p) \/ InitIndexes(p) \/ Link(p) \/ RenameIndexes(p)
  <2>1. Stays(p) /\ y.at \in {"saved", "done", "locked", "loaded"}
    BY <1>6, StaysIs
  <2>2. x.cmd \in Indexing /\ x.at # "waiting" /\ featureLock' = featureLock
    BY <1>0, <1>6 DEF InitSaves, InitIndexes, Link, RenameIndexes, Indexing, JobOK, Moving
  <2> QED
    BY <1>1, <2>1, <2>2 DEF Moving
<1>7. CASE GateStays(p)
  <2>1. Stays(p) /\ y.at \in {"saved", "done", "locked", "loaded"} /\ x.cmd = "gate"
    BY <1>7, StaysIs DEF GateStays, AcquireState, LoadGates, SaveGates, AppendGate
  <2> QED
    BY <2>1 DEF Moving, Indexing, Stays
<1>8. CASE RenameStays(p)
  <2>1. Stays(p) /\ (y.at = "stateMoved" => RenameState(p) /\ sbf[x.id] # Absent)
    BY <1>8, StaysIs
  <2>2. x.at \in Moving /\ featureLock' = featureLock /\ index' = index
    BY <1>8 DEF RenameStays, RenameDirectory, RenameContracts, RenameWritesFeature, RenameState, RenameReadsState,
                RenameWritesState, RenameHistory, RenameReadsManifest, RenameWritesOwners, Moving
  <2>3. RenameState(p) /\ sbf[x.id] # Absent => sbf'[x.to] # Absent
    BY <1>0, <1>2, <2>2 DEF RenameState
  <2>4. featureLock = p
    BY <1>1, <1>2, <2>2 DEF Indexing, Moving
  <2> QED
    BY <1>2, <2>1, <2>2, <2>3, <2>4 DEF Stays
<1>9. CASE InitNumbers(p)
  <2>1. y.at \in {"done", "numbered"}
    BY <1>9, ChoosesIs
  <2>2. featureLock' = p
    BY <1>1, <1>9 DEF InitNumbers, Indexing
  <2> QED
    BY <2>1, <2>2 DEF Moving
<1>10. CASE RenameChecks(p)
  <2>1. \/ y.at = "done"
        \/ y.at = "checked" /\ y.to = x.to /\ y.index = index /\ ~InUse(x.to, index)
    BY <1>10, ChoosesIs
  <2>2. featureLock' = p /\ index' = index
    BY <1>1, <1>10 DEF RenameChecks, Indexing
  <2> QED
    BY <2>1, <2>2 DEF Moving, InUse
<1>11. CASE RenameReadsFeature(p)
  <2>1. \/ y.at = "done"
        \/ y.at = "featureRead" /\ y.to = x.to /\ y.index = x.index
    BY <1>11, ChoosesIs
  <2>2. x.at \in Moving /\ featureLock' = featureLock /\ index' = index
    BY <1>11 DEF RenameReadsFeature, Moving
  <2>3. featureLock = p
    BY <1>1, <1>2, <2>2 DEF Indexing, Moving
  <2> QED
    BY <1>2, <2>1, <2>2, <2>3 DEF Moving
<1> QED
  BY <1>3, <1>4, <1>5, <1>6, <1>7, <1>8, <1>9, <1>10, <1>11, FeatureCases

\* Emits leave features, the index and the lock feature-index alone; where their commands stand.
LEMMA EmitJobs ==
  ASSUME TypeOK, Jobs, Emits, NEW p \in Process, EmitStep(p)
  PROVE  /\ UNCHANGED <<specs, sbf, index, featureLock, removed>> /\ JobStep(p)
         /\ \/ proc' = proc
            \/ Starts(p)
            \/ /\ proc[p].cmd = "emit" /\ proc'[p].cmd = "gate" /\ proc'[p].at = "waiting"
               /\ proc'[p].id = proc[p].id /\ proc'[p].uid = proc[p].uid /\ proc'[p].feature = proc[p].feature
            \/ /\ proc'[p].cmd = "none" /\ proc'[p].at \in {"idle", "dead"}
               /\ proc'[p].uid = Absent /\ proc'[p].feature = Absent
<1> USE DEF files, locks, ghosts
<1>0. JobStep(p) /\ proc[p] \in Job /\ proc \in [Process -> Job]
  BY EmitTypes DEF TypeOK, LifecycleTypeOK
<1>1. CASE \E id \in Id, force, enforce \in BOOLEAN : StartEmit(p, id, force, enforce)
  BY <1>0, <1>1 DEF StartEmit, Starts
<1>2. CASE \/ PlanInfra(p) \/ ReadUnit(p) \/ PassUnit(p) \/ WriteUnit(p) \/ RecordUnit(p) \/ FinishUnits(p)
           \/ LoadFlag(p) \/ SaveFlag(p)
  BY <1>0, <1>2, UnderWay
<1>3. CASE Verdict(p)
  <2>1. UNCHANGED <<specs, sbf, index, featureLock, removed>> /\ proc[p].cmd = "emit"
    BY <1>3, VerdictJob DEF Verdict
  <2>2. CASE Ends(p)
    BY <1>0, <2>1, <2>2, EndSet
  <2>3. CASE proc' = [proc EXCEPT ![p] = [proc[p] EXCEPT !.cmd = "gate", !.at = "waiting", !.gate = "handles"]]
    BY <1>0, <2>1, <2>3 DEF Job
  <2> QED
    BY <1>3, <2>2, <2>3 DEF Verdict
<1>4. CASE KillEmit(p)
  BY <1>0, <1>4, EndSet DEF KillEmit
<1> QED
  BY <1>1, <1>2, <1>3, <1>4 DEF EmitStep

\* What steps without a command do to features.
LEMMA IdleSteps ==
  ASSUME IInv, [Next]_vars, ~\E p \in Process : FeatureStep(p) \/ EmitStep(p)
  PROVE  /\ UNCHANGED <<proc, index, sbf>>
         /\ \/ UNCHANGED <<specs, featureLock, removed>>
            \/ RemoveStaleLock /\ UNCHANGED <<specs, removed>>
            \/ (\E id \in Id : RemoveDirectory(id)) /\ UNCHANGED featureLock
<1> USE DEF files, locks, ghosts
<1>1. CASE UNCHANGED vars
  BY <1>1 DEF vars, lifecycleVars
<1>2. CASE Features
  BY <1>2 DEF Features, RemoveStaleLock, RemoveDirectory
<1>3. CASE Handles
  BY <1>3 DEF Handles, HandStep, Commit, Edit
<1>4. CASE Requests
  BY <1>4, RequestTypes DEF Requests, Untouched, IInv
<1> QED
  BY <1>1, <1>2, <1>3, <1>4 DEF Next

\* The lock feature-index protects the index and who goes by it.
LEMMA IndexersKept ==
  ASSUME IInv, [Next]_vars
  PROVE  Indexers'
<1>0. TypeOK /\ Jobs /\ Indexers /\ Emits
  BY DEF IInv
<1>1. SUFFICES ASSUME NEW q \in Process
               PROVE  /\ proc'[q].cmd \in Indexing /\ proc'[q].at # "waiting" => featureLock' = q
                      /\ proc'[q].at \in Moving => proc'[q].index = index' /\ \A u \in Uid : proc'[q].to \notin Ids(u, index')
                      /\ proc'[q].at = "stateMoved" => sbf'[proc'[q].to] # Absent
  BY DEF Indexers
<1>2. /\ proc[q].cmd \in Indexing /\ proc[q].at # "waiting" => featureLock = q
      /\ proc[q].at \in Moving => /\ proc[q].index = index /\ \A u \in Uid : proc[q].to \notin Ids(u, index)
                                  /\ proc[q].cmd \in Indexing /\ proc[q].at # "waiting"
      /\ proc[q].at = "stateMoved" => sbf[proc[q].to] # Absent
  BY <1>0 DEF Indexers, Jobs, JobOK, Moving, Indexing
<1>3. ASSUME NEW p \in Process, FeatureStep(p)
      PROVE  /\ proc'[q].cmd \in Indexing /\ proc'[q].at # "waiting" => featureLock' = q
             /\ proc'[q].at \in Moving => proc'[q].index = index' /\ \A u \in Uid : proc'[q].to \notin Ids(u, index')
             /\ proc'[q].at = "stateMoved" => sbf'[proc'[q].to] # Absent
  <2>1. CASE q = p
    BY <1>0, <1>3, <2>1, IndexersOfOwn
  <2>2. CASE q # p
    <3>1. proc'[q] = proc[q]
      BY <1>0, <1>3, <2>2, FeatureTypes DEF JobStep
    <3> QED
      BY <1>0, <1>2, <1>3, <2>2, <3>1, IndexersOfOther
  <2> QED
    BY <2>1, <2>2
<1>4. ASSUME NEW p \in Process, EmitStep(p)
      PROVE  /\ proc'[q].cmd \in Indexing /\ proc'[q].at # "waiting" => featureLock' = q
             /\ proc'[q].at \in Moving => proc'[q].index = index' /\ \A u \in Uid : proc'[q].to \notin Ids(u, index')
             /\ proc'[q].at = "stateMoved" => sbf'[proc'[q].to] # Absent
  <2>1. /\ UNCHANGED <<sbf, index, featureLock>> /\ JobStep(p)
        /\ \/ proc' = proc
           \/ Starts(p)
           \/ proc'[p].cmd = "gate" /\ proc'[p].at = "waiting"
           \/ proc'[p].cmd = "none" /\ proc'[p].at \in {"idle", "dead"}
    BY <1>0, <1>4, EmitJobs
  <2>2. CASE q # p
    BY <1>2, <2>1, <2>2 DEF JobStep
  <2>3. CASE q = p /\ Starts(p)
    <3>1. proc'[p].at \in {"waiting", "read", "emitting"} /\ JobOK(proc'[p])
      BY <1>0, <2>1, <2>3, StartSteps DEF JobStep
    <3> QED
      BY <2>3, <3>1 DEF JobOK, Moving, Indexing
  <2>4. CASE proc' = proc
    BY <1>2, <2>1, <2>4
  <2>5. CASE \/ proc'[p].cmd = "gate" /\ proc'[p].at = "waiting"
             \/ proc'[p].cmd = "none" /\ proc'[p].at \in {"idle", "dead"}
    BY <2>2, <2>5 DEF Moving, Indexing
  <2> QED
    BY <2>1, <2>2, <2>3, <2>4, <2>5
<1>5. CASE ~\E p \in Process : FeatureStep(p) \/ EmitStep(p)
  <2>1. /\ UNCHANGED <<proc, index, sbf>> /\ (UNCHANGED featureLock \/ RemoveStaleLock)
    BY <1>5, IdleSteps
  <2>2. CASE UNCHANGED featureLock
    BY <1>2, <2>1, <2>2
  <2>3. CASE RemoveStaleLock /\ featureLock' # featureLock
    <3>1. featureLock \in Process /\ proc[featureLock].at = "dead"
      BY <2>3 DEF RemoveStaleLock
    <3>2. proc[featureLock].cmd = "none"
      BY <1>0, <3>1 DEF Jobs, JobOK
    <3>3. ~(proc[q].cmd \in Indexing /\ proc[q].at # "waiting")
      BY <1>2, <3>2 DEF Indexing
    <3> QED
      BY <1>2, <2>1, <3>3
  <2> QED
    BY <2>1, <2>2, <2>3
<1> QED
  BY <1>3, <1>4, <1>5

-----------------------------------------------------------------------------
(* What a number stands for.                                               *)

\* The feature u has or had an id with the number n; a directory with the number holds its record.
Listed(u, n) == \E i \in Ids(u, index) : i[1] = n
Stored(u, n) == \E i \in Id : i[1] = n /\ specs[i] # Absent /\ specs[i].uid = u

\* The parts of what a number stands for, now and after a step.
LEMMA KnownIs ==
  ASSUME TypeOK, TypeOK', NEW n, NEW u \in Uid
  PROVE  /\ u \in SettledBy(n) <=>
              Listed(u, n) \/ Stored(u, n) \/ \E q \in Process : proc[q].at # "numbered" /\ AtWorkOn(q, u, n)
         /\ u \in KnownBy(n) <=> Listed(u, n) \/ Stored(u, n) \/ \E q \in Process : AtWorkOn(q, u, n)
         /\ u \in SettledBy(n)' <=>
              Listed(u, n)' \/ Stored(u, n)' \/ \E q \in Process : proc'[q].at # "numbered" /\ AtWorkOn(q, u, n)'
         /\ u \in KnownBy(n)' <=> Listed(u, n)' \/ Stored(u, n)' \/ \E q \in Process : AtWorkOn(q, u, n)'
<1>1. u \in SettledBy(n) <=>
              Listed(u, n) \/ Stored(u, n) \/ \E q \in Process : proc[q].at # "numbered" /\ AtWorkOn(q, u, n)
  BY DEF SettledBy, Listed, Stored
<1>2. u \in KnownBy(n) <=> Listed(u, n) \/ Stored(u, n) \/ \E q \in Process : AtWorkOn(q, u, n)
  BY DEF KnownBy, Listed, Stored
<1>3. u \in SettledBy(n)' <=>
              Listed(u, n)' \/ Stored(u, n)' \/ \E q \in Process : proc'[q].at # "numbered" /\ AtWorkOn(q, u, n)'
  BY DEF SettledBy, Listed, Stored
<1>4. u \in KnownBy(n)' <=> Listed(u, n)' \/ Stored(u, n)' \/ \E q \in Process : AtWorkOn(q, u, n)'
  BY DEF KnownBy, Listed, Stored
<1> QED
  BY <1>1, <1>2, <1>3, <1>4

\* They are features.
LEMMA KnownTypes ==
  ASSUME TypeOK, NEW n
  PROVE  KnownBy(n) \subseteq Uid /\ SettledBy(n) \subseteq KnownBy(n)
<1>1. KnownBy(n) \subseteq Uid
  BY RecordIs DEF KnownBy
<1>2. SettledBy(n) \subseteq KnownBy(n)
  BY DEF KnownBy, SettledBy
<1> QED
  BY <1>1, <1>2

\* And after a step.
LEMMA NextKnownTypes ==
  ASSUME TypeOK', NEW n
  PROVE  KnownBy(n)' \subseteq Uid /\ SettledBy(n)' \subseteq KnownBy(n)'
<1>1. KnownBy(n)' \subseteq Uid
  <2>1. \A i \in Id : specs'[i] # Absent => specs'[i].uid \in Uid
    BY DEF TypeOK, LifecycleTypeOK, Record
  <2> QED
    BY <2>1 DEF KnownBy
<1>2. SettledBy(n)' \subseteq KnownBy(n)'
  BY DEF KnownBy, SettledBy
<1> QED
  BY <1>1, <1>2

\* A command that goes by the same as before is at work on the same.
LEMMA WorksSame ==
  ASSUME NEW p \in Process, NEW u, NEW n,
         /\ proc'[p].cmd = proc[p].cmd \/ (proc[p].cmd # "init" /\ proc'[p].cmd # "init")
         /\ proc'[p].id = proc[p].id /\ (proc'[p].to = proc[p].to \/ proc[p].cmd # "init"),
         proc'[p].uid = proc[p].uid, proc'[p].feature = proc[p].feature
  PROVE  AtWorkOn(p, u, n)' <=> AtWorkOn(p, u, n)
BY DEF AtWorkOn

\* The records of directories are those that were there, or one that the command is at work on.
LEMMA TraceStored ==
  ASSUME TypeOK, Jobs, NEW p \in Process, FeatureStep(p), NEW u \in Uid, NEW n, Stored(u, n)'
  PROVE  Stored(u, n) \/ AtWorkOn(p, u, n)
<1> DEFINE x == proc[p]
<1> USE DEF files, locks, ghosts
<1>0. /\ x \in Job /\ JobOK(x) /\ specs \in [Id -> Record \cup {Absent}] /\ Absent \notin Record
      /\ Absent \notin Uid
  BY RecordsAssumption DEF Jobs, TypeOK, LifecycleTypeOK
<1>1. PICK i \in Id : i[1] = n /\ specs'[i] # Absent /\ specs'[i].uid = u
  BY DEF Stored
<1>2. CASE specs'[i] = specs[i]
  BY <1>1, <1>2 DEF Stored
<1>3. CASE InitSaves(p)
  <2>1. x.cmd = "init" /\ x.to \in Id /\ x.uid \in Uid
    BY <1>0, <1>3 DEF InitSaves, JobOK
  <2>2. i # x.to => specs'[i] = specs[i]
    BY <1>0, <1>3 DEF InitSaves
  <2>3. specs'[x.to].uid = x.uid
    BY <1>0, <1>3, <2>1 DEF InitSaves
  <2> QED
    BY <1>1, <1>2, <2>1, <2>2, <2>3 DEF AtWorkOn
<1>4. CASE ArchiveSaves(p)
  <2>1. x.cmd = "archive" /\ x.id \in Id /\ x.feature \in Record
    BY <1>0, <1>4 DEF ArchiveSaves, JobOK
  <2> DEFINE r == [x.feature EXCEPT !.archived = TRUE]
  <2>2. r \in Record /\ r.uid = x.feature.uid /\ specs' = WithFeature(x.id, r)
    BY <1>4, <2>1, RecordSet DEF ArchiveSaves
  <2> HIDE DEF r
  <2>3. specs'[x.id].uid = x.feature.uid /\ (i # x.id => specs'[i] = specs[i])
    BY <2>1, <2>2, WithFeatureIs
  <2> QED
    BY <1>0, <1>1, <1>2, <2>1, <2>3 DEF AtWorkOn
<1>5. CASE RenameDirectory(p)
  <2>1. x.id \in Id /\ x.to \in Id /\ x.to[1] = x.id[1] /\ x.to # x.id
    BY <1>0, <1>5 DEF RenameDirectory, JobOK, Moving
  <2>2. \/ specs' = specs
        \/ specs[x.id] # Absent /\ specs' = [specs EXCEPT ![x.to] = specs[x.id], ![x.id] = Absent]
    BY <1>5 DEF RenameDirectory
  <2>3. specs'[i] = specs[i] \/ (i = x.to /\ specs'[i] = specs[x.id])
    BY <1>0, <1>1, <2>1, <2>2
  <2> QED
    BY <1>1, <1>2, <2>1, <2>3 DEF Stored
<1>6. CASE RenameContracts(p)
  <2>1. x.to \in Id
    BY <1>0, <1>6 DEF RenameContracts, JobOK, Moving
  <2>2. \/ specs' = specs
        \/ specs[x.to] # Absent /\ specs' = [specs EXCEPT ![x.to] = [specs[x.to] EXCEPT !.contract = x.to]]
    BY <1>6 DEF RenameContracts
  <2>3. specs[x.to] # Absent => [specs[x.to] EXCEPT !.contract = x.to].uid = specs[x.to].uid
    BY <2>1, RecordIs, RecordSet
  <2>4. specs'[i] = specs[i] \/ (i = x.to /\ specs[i] # Absent /\ specs'[i].uid = specs[i].uid)
    BY <1>0, <1>1, <2>1, <2>2, <2>3
  <2> QED
    BY <1>1, <1>2, <2>1, <2>4 DEF Stored
<1>7. CASE RenameWritesFeature(p)
  <2>1. x.cmd = "rename" /\ x.id \in Id /\ x.to \in Id /\ x.to[1] = x.id[1] /\ x.feature \in Record
    BY <1>0, <1>7 DEF RenameWritesFeature, JobOK, Moving
  <2> DEFINE r == [x.feature EXCEPT !.feature_id = x.to]
  <2>2. r \in Record /\ r.uid = x.feature.uid
    BY <2>1, RecordSet
  <2>3. specs' = specs \/ specs' = WithFeature(x.to, r)
    BY <1>7 DEF RenameWritesFeature
  <2> HIDE DEF r
  <2>4. WithFeature(x.to, r)[x.to].uid = x.feature.uid /\ \A j \in Id \ {x.to} : WithFeature(x.to, r)[j] = specs[j]
    BY <2>1, <2>2, WithFeatureIs
  <2>5. specs'[i] = specs[i] \/ (i = x.to /\ specs'[i].uid = x.feature.uid)
    BY <2>3, <2>4
  <2> QED
    BY <1>0, <1>1, <1>2, <2>1, <2>5 DEF AtWorkOn
<1>8. CASE ~(InitSaves(p) \/ ArchiveSaves(p) \/ RenameDirectory(p) \/ RenameContracts(p) \/ RenameWritesFeature(p))
  <2>1. specs' = specs
    BY <1>8 DEF FeatureStep, StartInit, StartRename, StartLink, StartArchive, StartGate, AcquireFeatures, TimeoutFeatures,
     ReleaseFeatures, InitNumbers, InitIndexes, Link,
     RenameChecks, RenameReadsFeature,
     RenameState, RenameReadsState, RenameWritesState, RenameHistory, RenameReadsManifest,
     RenameWritesOwners, RenameIndexes, AcquireState, TimeoutState, LoadGates, SaveGates, AppendGate,
     ReleaseState, Crash
  <2> QED
    BY <1>2, <2>1
<1> QED
  BY <1>3, <1>4, <1>5, <1>6, <1>7, <1>8

\* Ids are listed for a feature that had one with the number, or that the command is at work on.
LEMMA TraceListed ==
  ASSUME TypeOK, Jobs, Indexers, NEW p \in Process, FeatureStep(p), NEW u \in Uid, NEW n, Listed(u, n)'
  PROVE  Listed(u, n) \/ AtWorkOn(p, u, n)
<1> DEFINE x == proc[p]
<1> USE DEF files, locks, ghosts
<1>0. x \in Job /\ JobOK(x) /\ index \in Index
  BY DEF Jobs, TypeOK, LifecycleTypeOK
<1>1. CASE index'.by_uid[u] = index.by_uid[u]
  BY <1>1 DEF Listed, Ids
<1>2. CASE InitIndexes(p)
  <2>1. x.cmd = "init" /\ x.to \in Id /\ x.uid \in Uid
    BY <1>0, <1>2 DEF InitIndexes, JobOK
  <2> DEFINE b == [index.by_uid EXCEPT ![x.uid] = <<x.to>>]
  <2>2. index' = [index EXCEPT !.by_uid = b]
    BY <1>2 DEF InitIndexes
  <2>3. b \in [Uid -> Seq(Id)] /\ b[x.uid] = <<x.to>> /\ (u # x.uid => b[u] = index.by_uid[u])
    BY <1>0, <2>1 DEF Index
  <2> HIDE DEF b
  <2>4. index'.by_uid = b
    BY <1>0, <2>2, <2>3 DEF Index
  <2>5. CASE u = x.uid
    <3>1. PICK j \in 1..Len(b[u]) : b[u][j][1] = n
      BY <2>4 DEF Listed, Ids
    <3>2. b[u] = <<x.to>>
      BY <2>3, <2>5
    <3>3. x.to[1] = n
      BY <3>1, <3>2
    <3> QED
      BY <2>1, <2>5, <3>3 DEF AtWorkOn
  <2> QED
    BY <1>1, <2>3, <2>4, <2>5
<1>3. CASE RenameIndexes(p)
  <2>1. /\ x.cmd = "rename" /\ x.to \in Id /\ x.id \in Id /\ x.uid \in Uid /\ x.to[1] = x.id[1]
        /\ x.index = index
    BY <1>0, <1>3 DEF RenameIndexes, JobOK, Moving, Indexers
  <2> DEFINE known == index.by_uid[x.uid]
             ids == Append(IF known = <<>> THEN <<x.id>> ELSE known, x.to)
             b == [index.by_uid EXCEPT ![x.uid] = ids]
  <2>2. index' = [index EXCEPT !.by_uid = b]
    BY <1>3, <2>1 DEF RenameIndexes
  <2>3. known \in Seq(Id)
    BY <1>0, <2>1 DEF Index
  <2>4. ids \in Seq(Id) /\ \A j \in 1..Len(ids) : ids[j] \in {x.to, x.id} \/ \E k \in 1..Len(known) : ids[j] = known[k]
    BY <2>1, <2>3
  <2> HIDE DEF ids
  <2>5. b \in [Uid -> Seq(Id)] /\ b[x.uid] = ids /\ (u # x.uid => b[u] = index.by_uid[u])
    BY <1>0, <2>1, <2>4 DEF Index
  <2> HIDE DEF b
  <2>6. index'.by_uid = b
    BY <1>0, <2>2, <2>5 DEF Index
  <2>7. CASE u = x.uid
    <3>1. PICK j \in 1..Len(ids) : ids[j][1] = n
      BY <2>5, <2>6, <2>7 DEF Listed, Ids
    <3>2. ids[j] \in {x.to, x.id} => AtWorkOn(p, u, n)
      BY <2>1, <2>7, <3>1 DEF AtWorkOn
    <3>3. (\E k \in 1..Len(known) : ids[j] = known[k]) => Listed(u, n)
      BY <2>7, <3>1 DEF Listed, Ids
    <3> QED
      BY <2>4, <3>1, <3>2, <3>3
  <2> QED
    BY <1>1, <2>5, <2>6, <2>7
<1>4. CASE Link(p)
  <2>1. index'.by_uid = index.by_uid
    BY <1>0, <1>4 DEF Link, Index
  <2> QED
    BY <1>1, <2>1
<1>5. CASE ~(InitIndexes(p) \/ RenameIndexes(p) \/ Link(p))
  <2>1. index' = index
    BY <1>5 DEF FeatureStep, StartInit, StartRename, StartLink, StartArchive, StartGate, AcquireFeatures, TimeoutFeatures,
     ReleaseFeatures, InitNumbers, InitSaves, ArchiveSaves,
     RenameChecks, RenameDirectory, RenameContracts, RenameReadsFeature, RenameWritesFeature,
     RenameState, RenameReadsState, RenameWritesState, RenameHistory, RenameReadsManifest,
     RenameWritesOwners, AcquireState, TimeoutState, LoadGates, SaveGates, AppendGate,
     ReleaseState, Crash
  <2> QED
    BY <1>1, <2>1
<1> QED
  BY <1>2, <1>3, <1>4, <1>5

\* A feature that a command takes up is one that a directory with the number has; but init chooses one.
LEMMA TraceWorks ==
  ASSUME TypeOK, Jobs, Indexers, NEW p \in Process, FeatureStep(p), NEW u \in Uid, NEW n, AtWorkOn(p, u, n)'
  PROVE  Stored(u, n) \/ AtWorkOn(p, u, n) \/ (InitNumbers(p) /\ proc'[p].at = "numbered" /\ n = NextNumber)
<1> DEFINE x == proc[p]
           y == proc'[p]
<1>0. JobOK(x) /\ JobOK(y) /\ Absent \notin Uid
  BY FeatureTypes, RecordsAssumption DEF Jobs, JobStep
<1>1. /\ u = y.uid \/ (y.feature # Absent /\ u = y.feature.uid)
      /\ n = (IF y.cmd = "init" THEN y.to ELSE y.id)[1]
  BY DEF AtWorkOn
<1>2. CASE Starts(p)
  <2>1. y.id \in Id /\ specs[y.id] # Absent /\ u = specs[y.id].uid /\ y.cmd # "init"
    BY <1>0, <1>1, <1>2, StartSteps
  <2> QED
    BY <1>1, <2>1 DEF Stored
<1>3. CASE Overs(p)
  BY <1>0, <1>1, <1>3, OversIs
<1>4. CASE Stays(p)
  BY <1>4, WorksSame DEF Stays
<1>5. CASE InitNumbers(p)
  BY <1>1, <1>4, <1>5, ChoosesIs
<1>6. CASE RenameChecks(p)
  <2>1. x.cmd = "rename" /\ x.id \in Id
    BY <1>0, <1>6 DEF RenameChecks, JobOK
  <2>2. CASE /\ y.cmd = x.cmd /\ y.id = x.id /\ y.feature = x.feature
             /\ specs[x.id] # Absent /\ y.uid = specs[x.id].uid
    BY <1>1, <2>1, <2>2 DEF Stored, AtWorkOn
  <2> QED
    BY <1>4, <1>6, <2>2, ChoosesIs
<1>7. CASE RenameReadsFeature(p)
  <2>1. x.cmd = "rename" /\ x.id \in Id /\ x.to \in Id /\ x.to[1] = x.id[1]
    BY <1>0, <1>7 DEF RenameReadsFeature, JobOK, Moving
  <2>2. CASE /\ y.cmd = x.cmd /\ y.id = x.id /\ y.uid = x.uid
             /\ specs[x.to] # Absent /\ y.feature = specs[x.to]
    BY <1>1, <2>1, <2>2 DEF Stored, AtWorkOn
  <2> QED
    BY <1>4, <1>7, <2>2, ChoosesIs
<1> QED
  BY <1>2, <1>3, <1>4, <1>5, <1>6, <1>7, FeatureCases, StaysIs

\* A feature that an emit takes up has a directory with the number.
LEMMA TraceEmits ==
  ASSUME TypeOK, Jobs, Emits, NEW p \in Process, EmitStep(p), NEW u \in Uid, NEW n, AtWorkOn(p, u, n)'
  PROVE  Stored(u, n) \/ AtWorkOn(p, u, n)
<1> DEFINE x == proc[p]
           y == proc'[p]
<1>0. JobOK(x) /\ Absent \notin Uid
  BY RecordsAssumption DEF Jobs
<1>1. /\ u = y.uid \/ (y.feature # Absent /\ u = y.feature.uid)
      /\ n = (IF y.cmd = "init" THEN y.to ELSE y.id)[1]
  BY DEF AtWorkOn
<1>2. CASE Starts(p)
  <2>1. y.id \in Id /\ specs[y.id] # Absent /\ u = specs[y.id].uid /\ y.cmd # "init"
    BY <1>0, <1>1, <1>2, StartSteps
  <2> QED
    BY <1>1, <2>1 DEF Stored
<1>3. CASE proc' = proc
  BY <1>3 DEF AtWorkOn
<1>4. CASE /\ x.cmd = "emit" /\ y.cmd = "gate" /\ y.id = x.id /\ y.uid = x.uid /\ y.feature = x.feature
  BY <1>4, WorksSame
<1>5. CASE y.uid = Absent /\ y.feature = Absent
  BY <1>0, <1>1, <1>5
<1> QED
  BY <1>2, <1>3, <1>4, <1>5, EmitJobs

\* A number that is only chosen is settled by the step that saves it, or given up.
LEMMA AtNumbered ==
  ASSUME TypeOK, Jobs, Emits, NEW p \in Process, proc[p].at = "numbered", FeatureStep(p) \/ EmitStep(p)
  PROVE  \/ InitSaves(p)
         \/ UNCHANGED <<specs, index>> /\ proc'[p].uid = Absent /\ proc'[p].feature = Absent
<1> USE DEF files, locks, ghosts
<1>1. proc[p].cmd = "init"
  BY DEF Jobs, JobOK
<1>2. CASE FeatureStep(p)
  <2>1. InitSaves(p) \/ Crash(p)
    BY <1>1, <1>2 DEF FeatureStep, StartInit, StartRename, StartLink, StartArchive, StartGate, Begins,
     AcquireFeatures, TimeoutFeatures, ReleaseFeatures, InitNumbers, InitIndexes, Link, ArchiveSaves,
     RenameChecks, RenameDirectory, RenameContracts, RenameReadsFeature, RenameWritesFeature,
     RenameState, RenameReadsState, RenameWritesState, RenameHistory, RenameReadsManifest,
     RenameWritesOwners, RenameIndexes, AcquireState, TimeoutState, LoadGates, SaveGates, AppendGate, ReleaseState
  <2> QED
    BY <2>1, OversIs DEF Crash, Overs
<1>3. ~EmitStep(p)
  <2>1. emit[p].at = "idle"
    BY <1>1 DEF Emits
  <2> QED
    BY <2>1 DEF EmitStep, StartEmit, Begins, PlanInfra, ReadUnit, PassUnit, WriteUnit, RecordUnit, FinishUnits,
                LoadFlag, SaveFlag, Verdict, KillEmit, Emitting
<1> QED
  BY <1>2, <1>3


\* No step of a command takes away the last directory with a number.
LEMMA NumbersKept ==
  ASSUME TypeOK, Jobs, NEW p \in Process, FeatureStep(p)
  PROVE  Numbers \subseteq Numbers'
<1> DEFINE x == proc[p]
<1> USE DEF files, locks, ghosts
<1>0. x \in Job /\ JobOK(x) /\ specs \in [Id -> Record \cup {Absent}] /\ Absent \notin Record
  BY RecordsAssumption DEF Jobs, TypeOK, LifecycleTypeOK
<1>1. ASSUME NEW id \in Id, specs'[id] # Absent, \A i \in Id \ {id} : specs'[i] = specs[i]
      PROVE  Numbers \subseteq Numbers'
  BY <1>1 DEF Numbers
<1>2. ASSUME specs' = specs PROVE Numbers \subseteq Numbers'
  BY <1>2 DEF Numbers
<1>3. CASE InitSaves(p)
  <2>1. x.to \in Id /\ x.uid \in Uid
    BY <1>0, <1>3 DEF InitSaves, JobOK
  <2> DEFINE r == [uid |-> x.uid, feature_id |-> x.to, archived |-> FALSE, contract |-> Absent]
  <2>2. r \in Record
    BY <2>1 DEF Record
  <2>3. specs' = [specs EXCEPT ![x.to] = r]
    BY <1>3 DEF InitSaves
  <2> HIDE DEF r
  <2>4. specs'[x.to] # Absent /\ \A i \in Id \ {x.to} : specs'[i] = specs[i]
    BY <1>0, <2>1, <2>2, <2>3
  <2> QED
    BY <1>1, <2>1, <2>4
<1>4. CASE ArchiveSaves(p)
  <2>1. x.id \in Id /\ [x.feature EXCEPT !.archived = TRUE] \in Record
    BY <1>0, <1>4, RecordSet DEF ArchiveSaves, JobOK
  <2>2. specs'[x.id] # Absent /\ \A i \in Id \ {x.id} : specs'[i] = specs[i]
    BY <1>0, <1>4, <2>1, WithFeatureIs DEF ArchiveSaves
  <2> QED
    BY <1>1, <2>1, <2>2
<1>5. CASE RenameDirectory(p)
  <2>1. x.id \in Id /\ x.to \in Id /\ x.to[1] = x.id[1] /\ x.to # x.id
    BY <1>0, <1>5 DEF RenameDirectory, JobOK, Moving
  <2>2. CASE specs[x.id] # Absent /\ specs' = [specs EXCEPT ![x.to] = specs[x.id], ![x.id] = Absent]
    <3>1. specs'[x.to] # Absent /\ \A i \in Id \ {x.id, x.to} : specs'[i] = specs[i]
      BY <1>0, <2>1, <2>2
    <3> QED
      BY <2>1, <3>1 DEF Numbers
  <2> QED
    BY <1>2, <1>5, <2>2 DEF RenameDirectory
<1>6. CASE RenameContracts(p)
  <2>1. x.to \in Id
    BY <1>0, <1>6 DEF RenameContracts, JobOK, Moving
  <2>2. CASE specs[x.to] # Absent /\ specs' = [specs EXCEPT ![x.to] = [specs[x.to] EXCEPT !.contract = x.to]]
    <3> DEFINE r == [specs[x.to] EXCEPT !.contract = x.to]
    <3>1. r \in Record
      BY <2>1, <2>2, RecordIs, RecordSet
    <3>2. specs' = [specs EXCEPT ![x.to] = r]
      BY <2>2
    <3> HIDE DEF r
    <3>3. specs'[x.to] # Absent /\ \A i \in Id \ {x.to} : specs'[i] = specs[i]
      BY <1>0, <2>1, <3>1, <3>2
    <3> QED
      BY <1>1, <2>1, <3>3
  <2> QED
    BY <1>2, <1>6, <2>2 DEF RenameContracts
<1>7. CASE RenameWritesFeature(p)
  <2>1. x.to \in Id /\ [x.feature EXCEPT !.feature_id = x.to] \in Record
    BY <1>0, <1>7, RecordSet DEF RenameWritesFeature, JobOK, Moving
  <2>2. specs' = specs \/ (specs'[x.to] # Absent /\ \A i \in Id \ {x.to} : specs'[i] = specs[i])
    BY <1>0, <1>7, <2>1, WithFeatureIs DEF RenameWritesFeature
  <2> QED
    BY <1>1, <1>2, <2>1, <2>2
<1>8. CASE ~(InitSaves(p) \/ ArchiveSaves(p) \/ RenameDirectory(p) \/ RenameContracts(p) \/ RenameWritesFeature(p))
  <2>1. specs' = specs
    BY <1>8 DEF FeatureStep, StartInit, StartRename, StartLink, StartArchive, StartGate, AcquireFeatures, TimeoutFeatures,
     ReleaseFeatures, InitNumbers, InitIndexes, Link,
     RenameChecks, RenameReadsFeature,
     RenameState, RenameReadsState, RenameWritesState, RenameHistory, RenameReadsManifest,
     RenameWritesOwners, RenameIndexes, AcquireState, TimeoutState, LoadGates, SaveGates, AppendGate,
     ReleaseState, Crash
  <2> QED
    BY <1>2, <2>1
<1> QED
  BY <1>3, <1>4, <1>5, <1>6, <1>7, <1>8

\* The step of init that chooses a number.
Chooses(p) == InitNumbers(p) /\ proc'[p].at = "numbered"

\* A step of a command or an emit makes a number stand for no other feature than before, but when it is
\* chosen; and settles it for none but when it is saved.
LEMMA KnownGrows ==
  ASSUME TypeOK, Jobs, Indexers, Emits, TypeOK', NEW p \in Process, FeatureStep(p) \/ EmitStep(p),
         NEW u \in Uid, NEW n
  PROVE  /\ u \in KnownBy(n)' => u \in KnownBy(n) \/ (Chooses(p) /\ n = NextNumber)
         /\ u \in SettledBy(n)' => u \in SettledBy(n) \/ (InitSaves(p) /\ n = proc[p].to[1])
<1>1. JobStep(p)
  BY FeatureTypes, EmitTypes
<1>2. \A q \in Process \ {p} : proc'[q] = proc[q] /\ (AtWorkOn(q, u, n)' <=> AtWorkOn(q, u, n))
  BY <1>1, WorksSame DEF JobStep
<1>3. Listed(u, n)' => Listed(u, n) \/ AtWorkOn(p, u, n)
  <2>1. CASE FeatureStep(p)
    BY <2>1, TraceListed
  <2>2. CASE EmitStep(p)
    <3>1. index' = index
      BY <2>2, EmitJobs
    <3> QED
      BY <3>1 DEF Listed
  <2> QED
    BY <2>1, <2>2
<1>4. Stored(u, n)' => Stored(u, n) \/ AtWorkOn(p, u, n)
  <2>1. CASE FeatureStep(p)
    BY <2>1, TraceStored
  <2>2. CASE EmitStep(p)
    <3>1. specs' = specs
      BY <2>2, EmitJobs
    <3> QED
      BY <3>1 DEF Stored
  <2> QED
    BY <2>1, <2>2
<1>5. AtWorkOn(p, u, n)' => Stored(u, n) \/ AtWorkOn(p, u, n) \/ (Chooses(p) /\ n = NextNumber)
  BY TraceWorks, TraceEmits DEF Chooses
<1>6. u \in KnownBy(n)' => u \in KnownBy(n) \/ (Chooses(p) /\ n = NextNumber)
  BY <1>2, <1>3, <1>4, <1>5, KnownIs
<1>7. ASSUME u \in SettledBy(n)' PROVE u \in SettledBy(n) \/ (InitSaves(p) /\ n = proc[p].to[1])
  <2>1. Listed(u, n)' \/ Stored(u, n)' \/ \E q \in Process : proc'[q].at # "numbered" /\ AtWorkOn(q, u, n)'
    BY <1>7, KnownIs
  <2>2. CASE proc[p].at # "numbered"
    <3>1. Listed(u, n) \/ Stored(u, n) \/ AtWorkOn(p, u, n)
          \/ \E q \in Process : proc[q].at # "numbered" /\ AtWorkOn(q, u, n)
      BY <2>1, <1>2, <1>3, <1>4, <1>5 DEF Chooses
    <3> QED
      BY <2>2, <3>1, KnownIs
  <2>3. CASE proc[p].at = "numbered" /\ InitSaves(p)
    <3>1. AtWorkOn(p, u, n) => n = proc[p].to[1]
      BY <2>3 DEF InitSaves, AtWorkOn
    <3>2. ~Chooses(p)
      BY <2>3 DEF Chooses, InitNumbers
    <3>3. \/ Listed(u, n) \/ Stored(u, n) \/ AtWorkOn(p, u, n)
          \/ \E q \in Process : proc[q].at # "numbered" /\ AtWorkOn(q, u, n)
      BY <2>1, <1>2, <1>3, <1>4, <1>5, <3>2
    <3> QED
      BY <2>3, <3>1, <3>3, KnownIs
  <2>4. CASE /\ UNCHANGED <<specs, index>> /\ proc'[p].uid = Absent /\ proc'[p].feature = Absent
    <3>1. ~AtWorkOn(p, u, n)'
      BY <2>4, RecordsAssumption DEF AtWorkOn
    <3>2. (Listed(u, n)' => Listed(u, n)) /\ (Stored(u, n)' => Stored(u, n))
      BY <2>4 DEF Listed, Stored
    <3>3. \/ Listed(u, n) \/ Stored(u, n)
          \/ \E q \in Process : proc[q].at # "numbered" /\ AtWorkOn(q, u, n)
      BY <2>1, <1>2, <3>1, <3>2
    <3> QED
      BY <3>3, KnownIs
  <2> QED
    BY <2>2, <2>3, <2>4, AtNumbered
<1> QED
  BY <1>6, <1>7


\* What commands do to the ghost of numbers: only a person takes a directory away.
LEMMA RemovedSame ==
  ASSUME NEW p \in Process, FeatureStep(p)
  PROVE  removed' = removed
BY DEF FeatureStep, StartInit, StartRename, StartLink, StartArchive, StartGate, AcquireFeatures, TimeoutFeatures,
     ReleaseFeatures, InitNumbers, InitSaves, InitIndexes, Link, ArchiveSaves,
     RenameChecks, RenameDirectory, RenameContracts, RenameReadsFeature, RenameWritesFeature,
     RenameState, RenameReadsState, RenameWritesState, RenameHistory, RenameReadsManifest,
     RenameWritesOwners, RenameIndexes, AcquireState, TimeoutState, LoadGates, SaveGates, AppendGate,
     ReleaseState, Crash, ghosts

\* A number that is chosen stands for the feature it is chosen for and those whose directory was taken away.
LEMMA ChosenIsNew ==
  ASSUME IInv, TypeOK', NEW p \in Process, Chooses(p), NEW n \in 1..MaxNumber, n = NextNumber,
         NEW u, u \in KnownBy(n)', u \notin Left(n)
  PROVE  u = proc'[p].uid
<1> USE DEF files, locks, ghosts
<1>0. TypeOK /\ Jobs /\ Indexers
  BY DEF IInv
<1>1. SettledBy(n) \subseteq Left(n)
  BY NextNumberIs, <1>0 DEF IInv, Numbered
<1>2. UNCHANGED <<specs, index>> /\ InitNumbers(p) /\ proc[p].cmd = "init" /\ proc[p].at = "locked"
  BY DEF Chooses, InitNumbers
<1>3. JobStep(p) /\ proc'[p].feature = Absent
  <2>1. JobStep(p)
    BY <1>0, <1>2, ReadingSteps
  <2>2. proc'[p].cmd = "init"
    BY <1>0, <1>2, ChoosesIs DEF Chooses
  <2> QED
    BY <2>1, <2>2 DEF JobStep, JobOK
<1>4. \A m, w : (Listed(w, m)' => Listed(w, m)) /\ (Stored(w, m)' => Stored(w, m))
  BY <1>2 DEF Listed, Stored, Ids
<1>5. u \in Uid
  <2>1. KnownBy(n)' \subseteq Uid
    BY NextKnownTypes
  <2> QED
    BY <2>1
<1>6. ~Listed(u, n)' /\ ~Stored(u, n)'
  BY <1>0, <1>1, <1>4, <1>5, KnownIs
<1>7. ASSUME NEW q \in Process, AtWorkOn(q, u, n)' PROVE q = p
  <2>1. SUFFICES ASSUME q # p PROVE FALSE
    OBVIOUS
  <2>2. proc'[q] = proc[q]
    BY <1>3, <2>1 DEF JobStep
  <2>3. AtWorkOn(q, u, n)
    BY <1>7, <2>2, WorksSame
  <2>4. proc[q].at = "numbered"
    BY <2>3, <1>0, <1>1, <1>5, KnownIs
  <2>5. proc[q].cmd = "init"
    BY <2>4, <1>0 DEF Jobs, JobOK
  <2> QED
    BY <1>0, <1>2, <2>1, <2>4, <2>5, LockedOut DEF Indexing
<1>8. AtWorkOn(p, u, n)'
  <2>1. \E q \in Process : AtWorkOn(q, u, n)'
    BY <1>0, <1>5, <1>6, KnownIs
  <2> QED
    BY <1>7, <2>1
<1> QED
  BY <1>3, <1>8 DEF AtWorkOn

\* A number stands for one feature.
LEMMA NumberedKept ==
  ASSUME IInv, [Next]_vars
  PROVE  Numbered'
<1> USE DEF files, locks, ghosts
<1>0. TypeOK /\ Jobs /\ Indexers /\ Emits /\ Numbered /\ TypeOK'
  BY TypesKept DEF IInv
<1>1. SUFFICES ASSUME NEW n \in 1..MaxNumber
               PROVE  /\ \A u, v \in KnownBy(n)' \ Left(n)' : u = v
                      /\ SettledBy(n)' \subseteq Left(n)' \/ n \in Numbers'
  BY DEF Numbered
<1>2. /\ \A u, v \in KnownBy(n) \ Left(n) : u = v
      /\ SettledBy(n) \subseteq Left(n) \/ n \in Numbers
  BY <1>0 DEF Numbered
<1>3. KnownBy(n)' \subseteq Uid /\ SettledBy(n)' \subseteq KnownBy(n)'
  BY <1>0, NextKnownTypes
<1>4. ASSUME NEW p \in Process, FeatureStep(p) \/ EmitStep(p)
      PROVE  /\ \A u, v \in KnownBy(n)' \ Left(n)' : u = v
             /\ SettledBy(n)' \subseteq Left(n)' \/ n \in Numbers'
  <2>1. Left(n)' = Left(n) /\ Numbers \subseteq Numbers'
    <3>0. removed' = removed => Left(n)' = Left(n)
      BY DEF Left
    <3>1. CASE FeatureStep(p)
      BY <1>0, <3>0, <3>1, RemovedSame, NumbersKept
    <3>2. CASE EmitStep(p)
      <4>1. removed' = removed /\ specs' = specs
        BY <1>0, <3>2, EmitJobs
      <4> QED
        BY <3>0, <4>1 DEF Numbers
    <3> QED
      BY <1>4, <3>1, <3>2
  <2>2. \A u \in Uid : /\ u \in KnownBy(n)' => u \in KnownBy(n) \/ (Chooses(p) /\ n = NextNumber)
                       /\ u \in SettledBy(n)' => u \in SettledBy(n) \/ (InitSaves(p) /\ n = proc[p].to[1])
    BY <1>0, <1>4, KnownGrows
  <2>3. \A u, v \in KnownBy(n)' \ Left(n)' : u = v
    <3>1. CASE Chooses(p) /\ n = NextNumber
      BY <1>0, <2>1, <3>1, ChosenIsNew
    <3>2. CASE ~(Chooses(p) /\ n = NextNumber)
      <4>1. KnownBy(n)' \subseteq KnownBy(n)
        BY <1>3, <2>2, <3>2
      <4> QED
        BY <1>2, <2>1, <4>1
    <3> QED
      BY <3>1, <3>2
  <2>4. SettledBy(n)' \subseteq Left(n)' \/ n \in Numbers'
    <3>1. CASE InitSaves(p) /\ n = proc[p].to[1]
      <4> DEFINE x == proc[p]
                 r == [uid |-> x.uid, feature_id |-> x.to, archived |-> FALSE, contract |-> Absent]
      <4>1. x.to \in Id /\ x.uid \in Uid
        BY <1>0, <3>1 DEF InitSaves, Jobs, JobOK
      <4>2. r \in Record /\ specs' = [specs EXCEPT ![x.to] = r]
        BY <3>1, <4>1 DEF Record, InitSaves
      <4> HIDE DEF r
      <4>3. specs'[x.to] # Absent
        BY <1>0, <4>1, <4>2, RecordsAssumption DEF TypeOK, LifecycleTypeOK
      <4> QED
        BY <3>1, <4>1, <4>3 DEF Numbers
    <3>2. CASE ~(InitSaves(p) /\ n = proc[p].to[1])
      <4>1. SettledBy(n)' \subseteq SettledBy(n)
        BY <1>3, <2>2, <3>2
      <4> QED
        BY <1>2, <2>1, <4>1
    <3> QED
      BY <3>1, <3>2
  <2> QED
    BY <2>3, <2>4
<1>5. CASE ~\E p \in Process : FeatureStep(p) \/ EmitStep(p)
  <2>1. UNCHANGED <<proc, index>>
    BY <1>5, IdleSteps
  <2>2. CASE UNCHANGED <<specs, removed>>
    <3>1. KnownBy(n)' = KnownBy(n) /\ SettledBy(n)' = SettledBy(n) /\ Numbers' = Numbers /\ Left(n)' = Left(n)
      BY <2>1, <2>2 DEF KnownBy, SettledBy, Numbers, AtWorkOn, Ids, Left
    <3> QED
      BY <1>2, <2>2, <3>1
  <2>3. ASSUME NEW id \in Id, RemoveDirectory(id)
        PROVE  /\ \A u, v \in KnownBy(n)' \ Left(n)' : u = v
               /\ SettledBy(n)' \subseteq Left(n)' \/ n \in Numbers'
    <3>1. specs' = [specs EXCEPT ![id] = Absent] /\ removed' = removed \cup (KnownBy(id[1]) \X {id[1]})
      BY <2>3 DEF RemoveDirectory
    <3>2. \A i \in Id : specs'[i] = specs[i] \/ (i = id /\ specs'[i] = Absent)
      BY <1>0, <3>1 DEF TypeOK, LifecycleTypeOK
    <3>3. \A u \in Uid : \A m :
            /\ Listed(u, m)' => Listed(u, m)
            /\ Stored(u, m)' => Stored(u, m)
            /\ \A q \in Process : AtWorkOn(q, u, m)' => AtWorkOn(q, u, m)
      BY <2>1, <3>2 DEF Listed, Stored, AtWorkOn, Ids
    <3>4. KnownBy(n)' \subseteq KnownBy(n) /\ SettledBy(n)' \subseteq SettledBy(n)
      BY <1>0, <1>3, <2>1, <3>3, KnownIs
    <3>5. n # id[1] => (n \in Numbers => n \in Numbers')
      BY <3>2 DEF Numbers
    <3>6. Left(n) \subseteq Left(n)' /\ (n = id[1] => KnownBy(n) \cap Uid \subseteq Left(n)')
      BY <3>1 DEF Left
    <3>7. CASE n = id[1]
      BY <1>3, <3>4, <3>6, <3>7
    <3> QED
      BY <1>2, <3>4, <3>5, <3>6, <3>7
  <2> QED
    BY <1>5, <2>2, <2>3, IdleSteps
<1> QED
  BY <1>4, <1>5

-----------------------------------------------------------------------------
(* The ids of a feature.                                                   *)

\* A feature gets an id that it has not had.
LEMMA DistinctKept ==
  ASSUME IInv, [Next]_vars
  PROVE  Distinct'
<1> USE DEF files, locks, ghosts
<1>0. TypeOK /\ Jobs /\ Indexers /\ Emits /\ Distinct
  BY DEF IInv
<1>1. CASE index'.by_uid = index.by_uid
  BY <1>0, <1>1 DEF Distinct
<1>2. CASE index' = index
  BY <1>1, <1>2
<1>3. ASSUME NEW p \in Process, FeatureStep(p) PROVE Distinct'
  <2> DEFINE x == proc[p]
  <2>0. x \in Job /\ JobOK(x) /\ index \in Index
    BY <1>0 DEF Jobs, TypeOK, LifecycleTypeOK
  <2>1. CASE InitIndexes(p)
    <3>1. x.cmd = "init" /\ x.to \in Id /\ x.uid \in Uid
      BY <2>0, <2>1 DEF InitIndexes, JobOK
    <3> DEFINE b == [index.by_uid EXCEPT ![x.uid] = <<x.to>>]
    <3>2. index' = [index EXCEPT !.by_uid = b]
      BY <2>1 DEF InitIndexes
    <3>3. b \in [Uid -> Seq(Id)] /\ b[x.uid] = <<x.to>> /\ \A u \in Uid \ {x.uid} : b[u] = index.by_uid[u]
      BY <2>0, <3>1 DEF Index
    <3> HIDE DEF b
    <3>4. index'.by_uid = b
      BY <2>0, <3>2, <3>3 DEF Index
    <3> QED
      BY <1>0, <3>3, <3>4 DEF Distinct
  <2>2. CASE RenameIndexes(p)
    <3>1. /\ x.to \in Id /\ x.id \in Id /\ x.uid \in Uid /\ x.to # x.id
          /\ x.index = index /\ x.to \notin Ids(x.uid, index)
      BY <1>0, <2>0, <2>2 DEF RenameIndexes, JobOK, Moving, Indexers
    <3> DEFINE known == index.by_uid[x.uid]
               old == IF known = <<>> THEN <<x.id>> ELSE known
               ids == Append(old, x.to)
               b == [index.by_uid EXCEPT ![x.uid] = ids]
    <3>2. index' = [index EXCEPT !.by_uid = b]
      BY <2>2, <3>1 DEF RenameIndexes
    <3>3. known \in Seq(Id) /\ \A i \in 1..Len(known) : known[i] # x.to
      BY <2>0, <3>1 DEF Index, Ids
    <3>4. \A i, j \in 1..Len(known) : known[i] = known[j] => i = j
      BY <1>0, <3>1 DEF Distinct
    <3>5. /\ old \in Seq(Id) /\ \A i \in 1..Len(old) : old[i] # x.to
          /\ \A i, j \in 1..Len(old) : old[i] = old[j] => i = j
      BY <3>1, <3>3, <3>4
    <3> HIDE DEF old
    <3>6. ids \in Seq(Id) /\ \A i, j \in 1..Len(ids) : ids[i] = ids[j] => i = j
      BY <3>1, <3>5
    <3> HIDE DEF ids
    <3>7. b \in [Uid -> Seq(Id)] /\ b[x.uid] = ids /\ \A u \in Uid \ {x.uid} : b[u] = index.by_uid[u]
      BY <2>0, <3>1, <3>6 DEF Index
    <3> HIDE DEF b
    <3>8. index'.by_uid = b
      BY <2>0, <3>2, <3>7 DEF Index
    <3> QED
      BY <1>0, <3>6, <3>7, <3>8 DEF Distinct
  <2>3. CASE Link(p)
    BY <1>1, <2>0, <2>3 DEF Link, Index
  <2>4. CASE ~(InitIndexes(p) \/ RenameIndexes(p) \/ Link(p))
    <3>1. index' = index
      BY <1>3, <2>4 DEF FeatureStep, StartInit, StartRename, StartLink, StartArchive, StartGate, AcquireFeatures,
     TimeoutFeatures, ReleaseFeatures, InitNumbers, InitSaves, ArchiveSaves,
     RenameChecks, RenameDirectory, RenameContracts, RenameReadsFeature, RenameWritesFeature,
     RenameState, RenameReadsState, RenameWritesState, RenameHistory, RenameReadsManifest,
     RenameWritesOwners, AcquireState, TimeoutState, LoadGates, SaveGates, AppendGate, ReleaseState, Crash
    <3> QED
      BY <1>2, <3>1
  <2> QED
    BY <2>1, <2>2, <2>3, <2>4
<1>4. ASSUME NEW p \in Process, EmitStep(p) PROVE Distinct'
  BY <1>0, <1>2, <1>4, EmitJobs
<1>5. CASE ~\E p \in Process : FeatureStep(p) \/ EmitStep(p)
  BY <1>2, <1>5, IdleSteps
<1> QED
  BY <1>3, <1>4, <1>5


-----------------------------------------------------------------------------
(* The initial states.                                                     *)

\* What two features of the beginning have.
Beginning(one, two, first, second) ==
  /\ \E bare \in SUBSET {one, two} :
       specs = [i \in Id |->
         IF i \in {one, two}
         THEN [uid |-> IF i = one THEN first ELSE second, feature_id |-> i, archived |-> FALSE,
               contract |-> IF i \in bare THEN Absent ELSE i]
         ELSE Absent]
  /\ sbf = [i \in Id |-> IF i \in {one, two} THEN [feature_id |-> i, gates |-> Needed] ELSE Absent]
  /\ history = [i \in Id |-> IF i \in {one, two} THEN Needed ELSE {}]
  /\ index = [by_uid |-> [u \in Uid |-> IF u = first THEN <<one>> ELSE IF u = second THEN <<two>> ELSE <<>>],
              merged |-> [i \in Id |-> Absent]]
  /\ told = [u \in Uid |-> IF u \in {first, second} THEN Needed ELSE {}]
  /\ minted = {first, second}
  /\ HandlesInit(one)

\* The ids and features of the beginning are there and differ.
LEMMA BeginningIs ==
  ASSUME Init
  PROVE  \E one, two \in Id, first, second \in Uid :
           one[1] = 1 /\ two[1] = 2 /\ first # second /\ Beginning(one, two, first, second)
<1> DEFINE a      == CHOOSE s \in Slug : TRUE
           b      == CHOOSE s \in Slug : s # a
           one    == <<1, a>>
           two    == <<2, b>>
           first  == CHOOSE u \in Uid : \A v \in Uid : u <= v
           second == CHOOSE u \in Uid \ {first} : \A v \in Uid \ {first} : u <= v
<1>1. a \in Slug /\ b \in Slug
  <2>1. a \in Slug
    BY FeaturesAssumption
  <2> HIDE DEF a
  <2>2. b \in Slug
    BY FeaturesAssumption
  <2> QED
    BY <2>1, <2>2
<1>2. first \in Uid /\ second \in Uid /\ first # second
  <2>1. \E u \in Uid : \A v \in Uid : u <= v
    BY LeastExists, FeaturesAssumption, UidsAssumption
  <2>2. first \in Uid
    BY <2>1
  <2> HIDE DEF first
  <2>3. Uid \ {first} # {} /\ Uid \ {first} \subseteq Nat
    <3>1. \E w \in Uid : w # first
      BY FeaturesAssumption
    <3>2. Uid \ {first} # {}
      BY <3>1
    <3>3. Uid \subseteq Nat
      BY UidsAssumption
    <3> QED
      BY <3>2, <3>3
  <2>4. \E u \in Uid \ {first} : \A v \in Uid \ {first} : u <= v
    BY <2>3, LeastExists
  <2>5. second \in Uid \ {first}
    BY <2>4
  <2> HIDE DEF second
  <2> QED
    BY <2>2, <2>5
<1>3. Beginning(one, two, first, second)
  BY DEF Init, Beginning
<1> HIDE DEF a, b, first, second
<1>4. one \in Id /\ two \in Id /\ one[1] = 1 /\ two[1] = 2
  BY <1>1, FeaturesAssumption, PathsAssumption DEF Id
<1> HIDE DEF one, two
<1> QED
  BY <1>2, <1>3, <1>4

\* What the files and the manifest of the beginning are.
LEMMA HandlesBegin ==
  ASSUME NEW one \in Id, HandlesInit(one)
  PROVE  /\ manifest \in Manifest /\ Renders(manifest)
         /\ disk \in [Path -> Content \cup {Absent}] /\ lost \in SUBSET Path
         /\ spent \in [commands : 0..MaxCommands, faults : 0..MaxFaults]
         /\ Unvouched = {}
         /\ \A f \in Path : disk[f] \in Generated => disk[f].enforce = manifest.enforce
<1>0. /\ Absent \notin Content /\ Absent \notin Entry /\ Absent \notin Generated
      /\ \A c \in Hand : c \notin Generated /\ c \in Content
      /\ \A g \in Generated : g \in Content
      /\ MaxFaults \in Nat \ {0} /\ MaxCommands \in Nat
  BY ContentsAssumption, UidsAssumption DEF Content
<1>1. /\ NoManifest \in Manifest /\ Renders(NoManifest) /\ NoManifest.enforce = FALSE
      /\ \A f \in Path : NoManifest.files[f] = Absent
  BY IdleIsJob DEF NoManifest, Renders
<1>2. CASE disk = [f \in Path |-> Absent] /\ manifest = NoManifest /\ lost = {}
           /\ spent = [commands |-> 0, faults |-> 0]
  <2>1. \A f \in Path : disk[f] = Absent
    BY <1>2
  <2> QED
    BY <1>0, <1>1, <1>2, <2>1 DEF Unvouched
<1>3. ASSUME NEW v \in Version,
             LET made   == [f \in Path |-> Render(f, one, FALSE, v)]
                 entry  == [f \in Path |-> [owner |-> made[f].owner, hash |-> made[f]]]
                 faulty == [commands |-> 0, faults |-> 1]
             IN  \/ /\ disk = made /\ v # Current /\ spent = [faulty EXCEPT !.faults = 0]
                    /\ manifest = [files |-> entry, enforce |-> FALSE] /\ lost = {}
                 \/ /\ \E c \in Hand : disk = [made EXCEPT ![First(Path)] = c]
                    /\ v = Current /\ spent = faulty
                    /\ manifest = [files |-> entry, enforce |-> FALSE] /\ lost = {}
                 \/ disk = made /\ spent = faulty /\ manifest = NoManifest /\ lost = Path
      PROVE  /\ manifest \in Manifest /\ Renders(manifest)
             /\ disk \in [Path -> Content \cup {Absent}] /\ lost \in SUBSET Path
             /\ spent \in [commands : 0..MaxCommands, faults : 0..MaxFaults]
             /\ Unvouched = {}
             /\ \A f \in Path : disk[f] \in Generated => disk[f].enforce = manifest.enforce
  <2> DEFINE made   == [f \in Path |-> Render(f, one, FALSE, v)]
             entry  == [f \in Path |-> [owner |-> made[f].owner, hash |-> made[f]]]
             faulty == [commands |-> 0, faults |-> 1]
             m      == [files |-> entry, enforce |-> FALSE]
  <2>1. \A f \in Path : Render(f, one, FALSE, v) \in Generated /\ Render(f, one, FALSE, v).enforce = FALSE
    BY DEF Render, Generated, Owner
  <2>2. \A f \in Path : made[f] \in Generated /\ made[f].enforce = FALSE /\ made[f].owner \in Owner
    BY <2>1 DEF Generated
  <2>3. made \in [Path -> Content \cup {Absent}]
    BY <1>0, <2>1
  <2>4. /\ faulty \in [commands : 0..MaxCommands, faults : 0..MaxFaults]
        /\ [faulty EXCEPT !.faults = 0] \in [commands : 0..MaxCommands, faults : 0..MaxFaults]
    BY <1>0
  <2>5. \/ /\ disk = made /\ spent = [faulty EXCEPT !.faults = 0]
           /\ manifest = m /\ lost = {}
        \/ /\ \E c \in Hand : disk = [made EXCEPT ![First(Path)] = c]
           /\ spent = faulty /\ manifest = m /\ lost = {}
        \/ disk = made /\ spent = faulty /\ manifest = NoManifest /\ lost = Path
    BY <1>3
  <2> HIDE DEF faulty, made
  <2>6. \A f \in Path : entry[f] \in Entry /\ entry[f].hash = made[f]
    BY <1>0, <2>2 DEF Entry
  <2>7. m \in Manifest /\ m.files = entry /\ m.enforce = FALSE
    BY <2>6 DEF Manifest
  <2> HIDE DEF entry, m
  <2>8. Renders(m) /\ \A f \in Path : Recorded(m, f) = made[f]
    BY <1>0, <2>2, <2>6, <2>7 DEF Renders, Recorded
  <2>9. CASE disk = made /\ manifest = m /\ lost = {} /\ spent = [faulty EXCEPT !.faults = 0]
    BY <2>2, <2>3, <2>4, <2>7, <2>8, <2>9 DEF Unvouched
  <2>10. ASSUME NEW c \in Hand, disk = [made EXCEPT ![First(Path)] = c], manifest = m, lost = {}, spent = faulty
         PROVE  /\ disk \in [Path -> Content \cup {Absent}] /\ Unvouched = {}
                /\ \A f \in Path : disk[f] \in Generated => disk[f].enforce = manifest.enforce
    <3>1. \A f \in Path : disk[f] = made[f] \/ disk[f] = c
      BY <2>3, <2>10
    <3> QED
      BY <1>0, <2>2, <2>3, <2>7, <2>8, <2>10, <3>1 DEF Unvouched
  <2>11. CASE disk = made /\ spent = faulty /\ manifest = NoManifest /\ lost = Path
    BY <1>1, <2>2, <2>3, <2>4, <2>11 DEF Unvouched
  <2> QED
    BY <2>4, <2>5, <2>7, <2>8, <2>9, <2>10, <2>11
<1> QED
  BY <1>2, <1>3 DEF HandlesInit


\* The directories of the beginning, and who is known by which number then.
LEMMA BeginningKnown ==
  ASSUME TypeOK, proc = [p \in Process |-> Idle], NEW one \in Id, NEW two \in Id, NEW first \in Uid, NEW second \in Uid,
         one[1] = 1, two[1] = 2, first # second, Beginning(one, two, first, second)
  PROVE  /\ \A i \in Id \ {one, two} : specs[i] = Absent
         /\ \A i \in {one, two} : /\ specs[i] # Absent /\ specs[i].uid = IF i = one THEN first ELSE second
                                  /\ specs[i].feature_id = i /\ specs[i].contract \in {i, Absent}
         /\ \A n \in 1..MaxNumber : \A u \in KnownBy(n) : (u = first /\ n = 1) \/ (u = second /\ n = 2)
<1> DEFINE W(i, bare) == [uid |-> IF i = one THEN first ELSE second, feature_id |-> i, archived |-> FALSE,
                          contract |-> IF i \in bare THEN Absent ELSE i]
<1>1. PICK bare \in SUBSET {one, two} :
        specs = [i \in Id |-> IF i \in {one, two} THEN W(i, bare) ELSE Absent]
  BY DEF Beginning
<1>2. \A i \in {one, two} : /\ W(i, bare) \in Record
                            /\ W(i, bare).uid = IF i = one THEN first ELSE second
                            /\ W(i, bare).feature_id = i /\ W(i, bare).contract \in {i, Absent}
  BY DEF Record
<1> HIDE DEF W
<1>3. /\ \A i \in Id \ {one, two} : specs[i] = Absent
      /\ \A i \in {one, two} : specs[i] = W(i, bare)
  BY <1>1
<1>4. \A i \in {one, two} : /\ specs[i] # Absent /\ specs[i].uid = IF i = one THEN first ELSE second
                            /\ specs[i].feature_id = i /\ specs[i].contract \in {i, Absent}
  BY <1>2, <1>3, RecordsAssumption
<1>5. /\ index.by_uid[first] = <<one>> /\ index.by_uid[second] = <<two>>
      /\ \A u \in Uid \ {first, second} : index.by_uid[u] = <<>>
  <2> DEFINE b == [u \in Uid |-> IF u = first THEN <<one>> ELSE IF u = second THEN <<two>> ELSE <<>>]
  <2>1. b[first] = <<one>> /\ b[second] = <<two>> /\ \A u \in Uid \ {first, second} : b[u] = <<>>
    OBVIOUS
  <2>2. index.by_uid = b
    BY DEF Beginning
  <2> HIDE DEF b
  <2> QED
    BY <2>1, <2>2
<1>6. ASSUME NEW n \in 1..MaxNumber, NEW u \in KnownBy(n)
      PROVE  (u = first /\ n = 1) \/ (u = second /\ n = 2)
  <2>1. \A p \in Process : ~AtWorkOn(p, u, n)
    <3>1. u \in Uid
      BY KnownTypes
    <3> QED
      BY <3>1, RecordsAssumption DEF AtWorkOn, Idle
  <2>2. CASE \E i \in Ids(u, index) : i[1] = n /\ u \in Uid
    BY <1>5, <2>2 DEF Ids
  <2>3. CASE \E i \in Id : i[1] = n /\ specs[i] # Absent /\ u = specs[i].uid
    BY <1>3, <1>4, <2>3
  <2> QED
    BY <2>1, <2>2, <2>3 DEF KnownBy
<1> QED
  BY <1>3, <1>4, <1>6

\* Every initial state is as the invariant says.
LEMMA InitOK ==
  ASSUME Init
  PROVE  IInv
<1>1. PICK one, two \in Id, first, second \in Uid :
           one[1] = 1 /\ two[1] = 2 /\ first # second /\ Beginning(one, two, first, second)
  BY BeginningIs
<1>2. /\ proc = [p \in Process |-> Idle] /\ emit = [p \in Process |-> NoEmit]
      /\ req = [r \in Request |-> NoRequest]
      /\ torn = {} /\ removed = {} /\ featureLock = NoHolder /\ stateLock = NoHolder
      /\ overlap = FALSE /\ cut = 0 /\ blocked = FALSE /\ head = disk
  BY <1>1 DEF Init, HandlesInit, Beginning
<1>3. /\ manifest \in Manifest /\ Renders(manifest)
      /\ disk \in [Path -> Content \cup {Absent}] /\ lost \in SUBSET Path
      /\ spent \in [commands : 0..MaxCommands, faults : 0..MaxFaults]
      /\ Unvouched = {}
      /\ \A f \in Path : disk[f] \in Generated => disk[f].enforce = manifest.enforce
  BY <1>1, HandlesBegin DEF Beginning
<1>4. /\ one # two
      /\ specs[one] # Absent /\ specs[one].uid = first /\ specs[two] # Absent /\ specs[two].uid = second
      /\ \A i \in Id : \/ specs[i] = Absent \/ (i \in {one, two} /\ specs[i] \in Record)
  <2> DEFINE W(i, bare) == [uid |-> IF i = one THEN first ELSE second, feature_id |-> i, archived |-> FALSE,
                            contract |-> IF i \in bare THEN Absent ELSE i]
  <2>1. PICK bare \in SUBSET {one, two} :
          specs = [i \in Id |-> IF i \in {one, two} THEN W(i, bare) ELSE Absent]
    BY <1>1 DEF Beginning
  <2>2. /\ \A i \in {one, two} : W(i, bare) \in Record
        /\ W(one, bare).uid = first /\ W(two, bare).uid = (IF two = one THEN first ELSE second)
    BY DEF Record
  <2>3. one # two
    BY <1>1 DEF Beginning
  <2> HIDE DEF W
  <2>4. specs[one] = W(one, bare) /\ specs[two] = W(two, bare) /\ \A i \in Id \ {one, two} : specs[i] = Absent
    BY <2>1
  <2> QED
    BY <2>2, <2>3, <2>4, RecordsAssumption
<1>5. /\ index \in Index
      /\ index.by_uid[first] = <<one>> /\ index.by_uid[second] = <<two>>
      /\ \A u \in Uid \ {first, second} : index.by_uid[u] = <<>>
  <2> DEFINE b == [u \in Uid |-> IF u = first THEN <<one>> ELSE IF u = second THEN <<two>> ELSE <<>>]
             m == [i \in Id |-> Absent]
  <2>1. b[first] = <<one>> /\ b[second] = <<two>> /\ \A u \in Uid \ {first, second} : b[u] = <<>>
    BY <1>1 DEF Beginning
  <2>2. b \in [Uid -> Seq(Id)]
    <3>1. \A u \in Uid : b[u] \in Seq(Id)
      BY <2>1
    <3> QED
      BY <3>1
  <2>3. m \in [Id -> Id \cup {Absent}]
    OBVIOUS
  <2>4. index = [by_uid |-> b, merged |-> m]
    BY <1>1 DEF Beginning
  <2> HIDE DEF b, m
  <2> QED
    BY <2>1, <2>2, <2>3, <2>4 DEF Index
<1>6. LifecycleTypeOK
  <2>1. specs \in [Id -> Record \cup {Absent}]
    BY <1>1, <1>4 DEF Beginning
  <2>2. Needed \subseteq Gate
    BY GatesAssumption
  <2>3. /\ sbf \in [Id -> State \cup {Absent}] /\ history \in [Id -> SUBSET Gate]
        /\ told \in [Uid -> SUBSET Gate] /\ minted \in SUBSET Uid
    BY <1>1, <2>2 DEF State, Beginning
  <2>4. proc \in [Process -> Job]
    BY <1>2, IdleIsJob
  <2> QED
    BY <1>2, <1>3, <1>5, <2>1, <2>3, <2>4 DEF LifecycleTypeOK
<1>7. HandlesTypeOK /\ ServeTypeOK
  <2>1. NoEmit \in Emission
    BY IdleIsJob DEF NoEmit, Emission
  <2>2. emit \in [Process -> Emission] /\ cut \in 0..MaxFaults
    BY <1>2, <2>1, UidsAssumption
  <2>3. req \in [Request -> [kind : Kinds, at : Places]]
    BY <1>2 DEF NoRequest, Kinds, Places
  <2> QED
    BY <1>2, <1>3, <2>2, <2>3 DEF HandlesTypeOK, ServeTypeOK
<1>8. Jobs /\ Indexers
  <2>1. \A p \in Process : proc[p] = Idle
    BY <1>2
  <2>2. JobOK(Idle) /\ Idle.cmd = "none" /\ Idle.at = "idle"
    BY DEF Idle, JobOK, Moving
  <2> QED
    BY <2>1, <2>2 DEF Jobs, Indexers, Moving, Indexing
<1>9. Distinct
  <2>1. Len(<<>>) = 0 /\ Len(<<one>>) = 1 /\ Len(<<two>>) = 1
    OBVIOUS
  <2>2. \A u \in Uid : Len(index.by_uid[u]) \in {0, 1}
    BY <1>5, <2>1
  <2>3. ASSUME NEW u \in Uid, NEW i \in 1..Len(index.by_uid[u]), NEW j \in 1..Len(index.by_uid[u])
        PROVE  i = j
    <3> DEFINE l == Len(index.by_uid[u])
    <3>1. l = 0 \/ l = 1
      BY <2>2
    <3>2. i \in 1..l /\ j \in 1..l
      OBVIOUS
    <3> HIDE DEF l
    <3> QED
      BY <3>1, <3>2
  <2> QED
    BY <2>3 DEF Distinct
<1>10. Numbered
  <2>1. \A n \in 1..MaxNumber : \A u \in KnownBy(n) : (u = first /\ n = 1) \/ (u = second /\ n = 2)
    BY <1>1, <1>2, <1>6, <1>7, BeginningKnown DEF TypeOK
  <2>2. 1 \in Numbers /\ 2 \in Numbers
    BY <1>1, <1>4 DEF Numbers
  <2>3. \A n : SettledBy(n) \subseteq KnownBy(n)
    BY <1>6, <1>7, KnownTypes DEF TypeOK
  <2>4. \A n \in 1..MaxNumber : SettledBy(n) = {} \/ n \in Numbers
    BY <2>1, <2>2, <2>3
  <2>5. \A n \in 1..MaxNumber : \A u, v \in KnownBy(n) : u = v
    BY <2>1
  <2> QED
    BY <2>4, <2>5 DEF Numbered
<1>11. Emits
  <2>1. \A p \in Process : emit[p] = NoEmit /\ proc[p] = Idle
    BY <1>2
  <2>2. Renders(NoManifest)
    BY DEF Renders, NoManifest
  <2>3. EmitOK(NoEmit)
    BY <2>2 DEF NoEmit, EmitOK, Ahead
  <2>4. NoEmit.at = "idle" /\ Idle.cmd = "none" /\ Idle.manifest = NoManifest
    BY DEF NoEmit, Idle
  <2>5. cut <= spent.faults
    BY <1>2, <1>3
  <2> QED
    BY <1>3, <2>1, <2>2, <2>3, <2>4, <2>5 DEF Emits
<1>12. OneHolder /\ Following
  <2>1. \A p \in Process : emit[p] = NoEmit /\ proc[p] = Idle
    BY <1>2
  <2>2. NoEmit.at = "idle" /\ NoEmit.left = {} /\ Idle.at = "idle"
    BY DEF NoEmit, Idle
  <2>3. FollowsFiles(NoEmit)
    BY <2>2 DEF FollowsFiles, Ahead
  <2> QED
    BY <2>1, <2>2, <2>3 DEF OneHolder, Holds, Following
<1>13. Vouching
  <2>1. {} \in SUBSET Path /\ Cardinality({}) <= cut
    BY <1>2, FS_EmptySet
  <2> QED
    BY <1>3, <2>1 DEF Vouching
<1>14. Flagged
  <2>1. \A p \in Process : emit[p].at = "idle"
    BY <1>2 DEF NoEmit
  <2> QED
    BY <1>3, <2>1 DEF Flagged, Running, Path
<1> QED
  BY <1>6, <1>7, <1>8, <1>9, <1>10, <1>11, <1>12, <1>13, <1>14 DEF IInv, TypeOK


-----------------------------------------------------------------------------
(* The theorems.                                                           *)

\* Everything that IInv says of features, commands, emits and the manifest holds in every state.
THEOREM Inductive == Spec => []IInv
<1>1. ASSUME Init PROVE IInv
  BY <1>1, InitOK
<1>2. ASSUME IInv, [Next]_vars PROVE IInv'
  <2>1. TypeOK' /\ Jobs' /\ Emits'
    BY <1>2, TypesKept
  <2>2. Indexers' /\ Distinct' /\ Numbered'
    BY <1>2, IndexersKept, DistinctKept, NumberedKept
  <2>3. OneHolder' /\ Following' /\ Vouching' /\ Flagged'
    BY <1>2, OneHolderKept, FollowingKept, VouchingKept, FlaggedKept
  <2> QED
    BY <2>1, <2>2, <2>3 DEF IInv
<1> QED
  BY <1>1, <1>2, PTL DEF Spec

\* Every variable of the repository has its type.
THEOREM TypeCorrect == Spec => []TypeOK
<1>1. IInv => TypeOK
  BY DEF IInv
<1> QED
  BY <1>1, Inductive, PTL

\* The ids of a feature are counted by their list when none is listed twice.
LEMMA IdsCounted ==
  ASSUME TypeOK, Distinct, NEW u \in Uid
  PROVE  Cardinality(Ids(u, index)) = Len(index.by_uid[u])
<1> DEFINE s == index.by_uid[u]
           f == [i \in 1..Len(s) |-> s[i]]
           T == {s[i] : i \in 1..Len(s)}
<1>1. s \in Seq(Id) /\ \A i, j \in 1..Len(s) : s[i] = s[j] => i = j
  BY DEF TypeOK, LifecycleTypeOK, Index, Distinct
<1>2. Ids(u, index) = T
  BY DEF Ids
<1> HIDE DEF s
<1>3. Len(s) \in Nat
  BY <1>1
<1>4. f \in [1..Len(s) -> T] /\ \A i, j \in 1..Len(s) : f[i] = f[j] => i = j
  BY <1>1
<1>5. \A t \in T : \E i \in 1..Len(s) : f[i] = t
  OBVIOUS
<1>6. ExistsBijection(1..Len(s), T)
  BY <1>4, <1>5, Fun_IsBij DEF ExistsBijection
<1>7. Cardinality(T) = Len(s)
  BY <1>3, <1>6, FS_CountingElements
<1> QED
  BY <1>2, <1>7 DEF s

\* Whatever commands race, crash or time out, an id names one feature and is given to it once, unless
\* a person took a directory with its number away.
THEOREM IdsNameOneFeatureCorrect == Spec => []IdsNameOneFeature
<1>1. ASSUME IInv PROVE IdsNameOneFeature
  <2>0. TypeOK /\ Distinct /\ Numbered
    BY <1>1 DEF IInv
  <2>1. \A u \in Uid : Cardinality(Ids(u, index)) = Len(index.by_uid[u])
    BY <2>0, IdsCounted
  <2>2. ASSUME NEW u \in Uid, NEW v \in Uid \ {u}, NEW i \in Ids(u, index), i \in Ids(v, index)
        PROVE  removed \cap ({u, v} \X {i[1]}) # {}
    <3>1. i \in Id
      BY <2>0 DEF TypeOK, LifecycleTypeOK, Index, Ids
    <3>2. i[1] \in 1..MaxNumber
      BY <3>1 DEF Id
    <3>3. u \in KnownBy(i[1]) /\ v \in KnownBy(i[1])
      BY <2>2 DEF KnownBy
    <3>4. u \in Left(i[1]) \/ v \in Left(i[1])
      BY <2>0, <2>2, <3>2, <3>3 DEF Numbered
    <3> QED
      BY <3>4 DEF Left
  <2> QED
    BY <2>1, <2>2 DEF IdsNameOneFeature
<1>2. IInv => IdsNameOneFeature
  BY <1>1
<1> QED
  BY <1>2, Inductive, PTL

\* As long as no two commands went by copies of the manifest at once, it records every generated file
\* on disk but one for each emit that was killed or stands between its two writes.
THEOREM RecordsFollowWritesCorrect == Spec => []RecordsFollowWrites
<1>1. ASSUME IInv PROVE RecordsFollowWrites
  <2> DEFINE W == {p \in Process : emit[p].at = "written"}
  <2>1. SUFFICES ASSUME ~overlap PROVE Cardinality(Unvouched) <= cut + Cardinality(W)
    BY DEF RecordsFollowWrites
  <2>2. PICK S \in SUBSET Path : Cardinality(S) <= cut /\ Unvouched \subseteq S \cup Written
    BY <1>1, <2>1 DEF IInv, Vouching
  <2>3. \A p, q \in W : p = q
    BY <1>1, <2>1 DEF IInv, OneHolder, Holds
  <2>4. IsFiniteSet(S) /\ Cardinality(S) \in Nat /\ cut \in Nat
    <3>1. IsFiniteSet(S)
      BY PathsAssumption, FS_Subset
    <3> QED
      BY <1>1, <3>1, FS_CardinalityType DEF IInv, TypeOK, HandlesTypeOK
  <2>5. Written = {First(emit[p].left) : p \in W}
    BY DEF Written
  <2> HIDE DEF W
  <2>6. CASE W = {}
    <3>1. Unvouched \subseteq S
      BY <2>2, <2>5, <2>6
    <3>2. IsFiniteSet(Unvouched) /\ Cardinality(Unvouched) <= Cardinality(S)
      BY <2>4, <3>1, FS_Subset
    <3>3. Cardinality(W) = 0 /\ Cardinality(Unvouched) \in Nat
      BY <2>6, <3>2, FS_EmptySet, FS_CardinalityType
    <3> QED
      BY <2>2, <2>4, <3>2, <3>3
  <2>7. ASSUME NEW p \in W PROVE Cardinality(Unvouched) <= cut + Cardinality(W)
    <3> DEFINE f == First(emit[p].left)
    <3>1. W = {p} /\ Written = {f}
      BY <2>3, <2>5
    <3> HIDE DEF f
    <3>2. IsFiniteSet(S \cup {f}) /\ Cardinality(S \cup {f}) \in {Cardinality(S), Cardinality(S) + 1}
      BY <2>4, FS_AddElement
    <3>3. Unvouched \subseteq S \cup {f}
      BY <2>2, <3>1
    <3>4. IsFiniteSet(Unvouched) /\ Cardinality(Unvouched) <= Cardinality(S \cup {f})
      BY <3>2, <3>3, FS_Subset
    <3>5. Cardinality(W) = 1 /\ Cardinality(Unvouched) \in Nat
      BY <3>1, <3>4, FS_Singleton, FS_CardinalityType
    <3> QED
      BY <2>2, <2>4, <3>2, <3>4, <3>5
  <2> QED
    BY <2>6, <2>7
<1>2. IInv => RecordsFollowWrites
  BY <1>1
<1> QED
  BY <1>2, Inductive, PTL

\* Between emits the registry flag is the one the files of the repository were generated with, unless
\* one was killed, ran beside another command at the manifest, or had them in conflict.
THEOREM FlagTracksInfraCorrect == Spec => []FlagTracksInfra
<1>1. ASSUME IInv PROVE FlagTracksInfra
  BY <1>1 DEF IInv, Flagged, FlagTracksInfra, Running
<1>2. IInv => FlagTracksInfra
  BY <1>1
<1> QED
  BY <1>2, Inductive, PTL

\* No run of handles emit replaces what a person wrote, but a forced one where it is committed, or one
\* that classified the file before it was edited.
THEOREM HumanEditsSurviveCorrect == Spec => HumanEditsSurvive
<1> DEFINE Spared == \A f \in Path :
             disk[f] \in Hand /\ disk'[f] \in Generated =>
               \E p \in Process : /\ emit[p].at = "classified" /\ f = First(emit[p].left)
                                  /\ emit[p].seen[f] = disk[f] => emit[p].force /\ disk[f] = head[f]
<1>1. ASSUME IInv, [Next]_vars PROVE Spared
  <2>0. TypeOK /\ Jobs /\ Emits
    BY <1>1 DEF IInv
  <2>1. SUFFICES ASSUME NEW f \in Path, disk[f] \in Hand, disk'[f] \in Generated
                 PROVE  \E p \in Process : /\ emit[p].at = "classified" /\ f = First(emit[p].left)
                                           /\ emit[p].seen[f] = disk[f] => emit[p].force /\ disk[f] = head[f]
    OBVIOUS
  <2>2. disk'[f] # disk[f] /\ disk'[f] \notin Hand \cup {Absent}
    BY <2>1, ContentsAssumption DEF Content
  <2>3. PICK p \in Process : EmitStep(p)
    <3>1. ~\E g \in Path, c \in Hand \cup {Absent} : Edit(g, c)
      BY <2>0, <2>2 DEF Edit, TypeOK, HandlesTypeOK
    <3> QED
      BY <1>1, <2>2, <3>1, OtherCases DEF RenameReadsManifest, RenameWritesOwners
  <2> DEFINE e == emit[p]
             g == First(e.left)
  <2>4. WriteUnit(p)
    BY <2>2, <2>3 DEF EmitStep, StartEmit, PlanInfra, ReadUnit, PassUnit, RecordUnit, FinishUnits, LoadFlag, SaveFlag,
                      Verdict, KillEmit
  <2>5. e.at = "classified" /\ (Action(e, g) = "conflict" => disk[g] = head[g])
    BY <2>4 DEF WriteUnit, Emitting
  <2>6. f = g
    <3>1. disk' = disk \/ disk' = [disk EXCEPT ![g] = Fresh(e, g)]
      BY <2>4 DEF WriteUnit
    <3> QED
      BY <2>0, <2>2, <3>1 DEF TypeOK, HandlesTypeOK
  <2>7. e \in Emission /\ e.id \in Id /\ Renders(e.mem) /\ (~e.force => Action(e, g) # "conflict")
    BY <2>0, <2>5 DEF TypeOK, HandlesTypeOK, Emits, EmitOK
  <2>8. e.seen[f] = disk[f] => Action(e, f) = "conflict"
    BY <2>1, <2>7, ActionIs
  <2>9. e.force \in BOOLEAN
    BY <2>7 DEF Emission
  <2> QED
    BY <2>5, <2>6, <2>7, <2>8, <2>9
<1>2. IInv /\ [Next]_vars => [Spared]_disk
  BY <1>1
<1> HIDE DEF Spared
<1>3. Spec => [][Spared]_disk
  BY <1>2, Inductive, PTL DEF Spec
<1> QED
  BY <1>3 DEF HumanEditsSurvive, Spared

-----------------------------------------------------------------------------
(* The inductive invariant: what a rename keeps.                           *)

\* Commands at work on one feature without the lock feature-index.
Attending == {"archive", "gate", "emit"}

\* A number of which nobody took a directory away.
Clean(n) == n \notin Vacated

\* A uid is given once and to one number; a number that is chosen stands for nobody else.
Minted ==
  /\ torn \subseteq minted /\ \A u \in Uid : told[u] # {} => u \in minted
  /\ \A n \in 1..MaxNumber : KnownBy(n) \subseteq minted
  /\ \A m, n \in 1..MaxNumber : KnownBy(m) \cap KnownBy(n) # {} => m = n
  /\ \A p \in Process : proc[p].at = "numbered" => SettledBy(proc[p].to[1]) \subseteq Left(proc[p].to[1])

\* The lock state is with the one command or request that is between its acquisition and its release.
Gating(p) == proc[p].cmd = "gate" /\ proc[p].at \in {"locked", "loaded", "saved", "done"}
Serving(r) == req[r].at \in {"holding", "gateHolding", "executing"}

StateHolders ==
  /\ \A p \in Process : Gating(p) => stateLock = p
  /\ \A r \in Request : Serving(r) => stateLock = r

\* An emit generates for the feature of its command, and the entry of what it has written says so.
EmitsFor ==
  \A p \in Process :
    /\ emit[p].at \in {"planning", "units", "classified", "written"} => emit[p].id = proc[p].id
    /\ emit[p].at = "written" =>
         LET f == First(emit[p].left) IN
         /\ emit[p].mem.files[f] # Absent
         /\ emit[p].mem.files[f].owner = IF f \in Infra THEN Repo ELSE emit[p].id

\* Where the parts of a feature u are: its one directory with the id in its record and the one its
\* contract files are named after, its one state file with the id in it, its one log, its last id.
DirectoryAt(u, dir, id, contract) ==
  /\ specs[dir] # Absent /\ specs[dir].uid = u
  /\ specs[dir].feature_id = id /\ specs[dir].contract \in {contract, Absent}
  /\ \A i \in Id : i[1] = dir[1] /\ i # dir => specs[i] = Absent

StateAt(u, file, id) ==
  /\ \A i \in Id : i[1] = file[1] /\ i # file => sbf[i] = Absent
  /\ sbf[file] # Absent => sbf[file].feature_id = id /\ told[u] \subseteq sbf[file].gates
  /\ told[u] # {} => sbf[file] # Absent

LogAt(u, file) ==
  /\ told[u] \subseteq history[file]
  /\ \A i \in Id : i[1] = file[1] /\ i # file => history[i] = {}

LastIs(u, id) == index.by_uid[u] # <<>> => Last(index.by_uid[u]) = id

\* What a command at work on the feature u with the id h has in hand.
Fits(x, u, h) ==
  /\ x.cmd \in Attending /\ x.id[1] = h[1] =>
       /\ x.id = h /\ x.uid = u
       /\ x.cmd = "archive" => x.feature.uid = u /\ x.feature.feature_id = h
       /\ x.at = "loaded" => x.state.feature_id = h /\ told[u] \subseteq x.state.gates
       /\ x.cmd = "gate" /\ x.at = "saved" => sbf[h] # Absent /\ x.gate \in sbf[h].gates
  /\ x.cmd = "init" /\ x.at = "saved" /\ x.to[1] = h[1] => x.to = h /\ x.uid = u

MovesAt(p, n) == proc[p].at \in Moving /\ proc[p].id[1] = n

\* Nothing lies under a clean number without a directory, and a feature that gets one is told nothing.
Untaken ==
  /\ \A i \in Id : Clean(i[1]) /\ i[1] \notin Numbers => sbf[i] = Absent /\ history[i] = {}
  /\ \A p \in Process : proc[p].at = "numbered" /\ Clean(proc[p].to[1]) => told[proc[p].uid] = {}

\* A directory that no rename is at or has torn, under a clean number.
Quiet(h) == specs[h] # Absent /\ Clean(h[1]) /\ specs[h].uid \notin torn /\ \A p \in Process : ~MovesAt(p, h[1])

\* The feature u is in one place.
InPlace(u, h) ==
  /\ DirectoryAt(u, h, h, h) /\ StateAt(u, h, h) /\ LogAt(u, h) /\ LastIs(u, h)
  /\ \A p \in Process : Fits(proc[p], u, h)

Placed == \A h \in Id : Quiet(h) => InPlace(specs[h].uid, h)

\* One that is being renamed has the parts under its new id that the rename has moved, and nobody
\* else is at it.
MoveOK(x) ==
  /\ x.at = "checked" => DirectoryAt(x.uid, x.id, x.id, x.id)
  /\ x.at = "moved" => DirectoryAt(x.uid, x.to, x.id, x.id)
  /\ x.at \in {"contracts", "featureRead"} => DirectoryAt(x.uid, x.to, x.id, x.to)
  /\ x.at \in {"featureWritten", "stateMoved", "stateRead", "stateDone", "historyDone", "manifestRead", "ownersDone"}
       => DirectoryAt(x.uid, x.to, x.to, x.to)
  /\ x.at = "featureRead" => x.feature = specs[x.to]
  /\ x.at \in {"checked", "moved", "contracts", "featureRead", "featureWritten"} => StateAt(x.uid, x.id, x.id)
  /\ x.at \in {"stateMoved", "stateRead"} => StateAt(x.uid, x.to, x.id)
  /\ x.at = "stateRead" => x.state = sbf[x.to]
  /\ x.at \in {"stateDone", "historyDone", "manifestRead", "ownersDone"} => StateAt(x.uid, x.to, x.to)
  /\ x.at \notin {"historyDone", "manifestRead", "ownersDone"} => LogAt(x.uid, x.id)
  /\ x.at \in {"historyDone", "manifestRead", "ownersDone"} => LogAt(x.uid, x.to)
  /\ LastIs(x.uid, x.id)

Moved ==
  \A p \in Process :
    proc[p].at \in Moving /\ Clean(proc[p].id[1]) /\ proc[p].uid \notin torn =>
      /\ MoveOK(proc[p])
      /\ \A q \in Process : proc[q].cmd \in Attending => proc[q].id[1] # proc[p].id[1]

\* The owner o of an entry of the manifest is where its feature is.
OwnerOK(o) ==
  /\ o[1] \in Numbers
  /\ \A h \in Id : Quiet(h) /\ h[1] = o[1] => o = h
  /\ \A p \in Process :
       MovesAt(p, o[1]) /\ proc[p].uid \notin torn
         => o = IF proc[p].at = "ownersDone" THEN proc[p].to ELSE proc[p].id

Owners ==
  ~overlap => \A f \in Path : LET o == manifest.files[f].owner IN
                manifest.files[f] # Absent /\ o # Repo /\ Clean(o[1]) => OwnerOK(o)

RInv == Minted /\ StateHolders /\ EmitsFor /\ Untaken /\ Placed /\ Moved /\ Owners

-----------------------------------------------------------------------------
(* Where commands write.                                                   *)

\* A clean number stands for one feature, which has a directory unless it is only chosen.
LEMMA OneUid ==
  ASSUME Numbered, NEW n \in 1..MaxNumber, Clean(n)
  PROVE  /\ Left(n) = {} /\ \A u, v \in KnownBy(n) : u = v
         /\ SettledBy(n) # {} => n \in Numbers
<1>1. ASSUME NEW u \in Left(n) PROVE FALSE
  <2>1. <<u, n>> \in removed
    BY <1>1 DEF Left
  <2>2. <<u, n>>[2] \in Vacated
    BY <2>1 DEF Vacated
  <2> QED
    BY <2>2 DEF Clean
<1>2. Left(n) = {}
  BY <1>1
<1> QED
  BY <1>2 DEF Numbered

\* Features with a directory, and those that commands are at work on, are known.
LEMMA Known ==
  ASSUME TypeOK, Jobs
  PROVE  /\ \A i \in Id : i[1] \in 1..MaxNumber
         /\ \A i \in Id : specs[i] # Absent => specs[i].uid \in Uid /\ specs[i].uid \in SettledBy(i[1]) /\ i[1] \in Numbers
         /\ \A p \in Process :
              /\ proc[p].cmd \in Attending \/ proc[p].at \in Moving =>
                   proc[p].uid \in Uid /\ proc[p].id \in Id /\ proc[p].uid \in SettledBy(proc[p].id[1])
              /\ proc[p].cmd = "init" /\ proc[p].at \in {"numbered", "saved"} =>
                   /\ proc[p].uid \in Uid /\ proc[p].to \in Id /\ proc[p].uid \in KnownBy(proc[p].to[1])
                   /\ proc[p].at = "saved" => proc[p].uid \in SettledBy(proc[p].to[1])
<1>1. \A i \in Id : i[1] \in 1..MaxNumber
  BY DEF Id
<1>2. ASSUME NEW i \in Id, specs[i] # Absent
      PROVE  specs[i].uid \in Uid /\ specs[i].uid \in SettledBy(i[1]) /\ i[1] \in Numbers
  BY <1>2, RecordIs DEF SettledBy, Numbers
<1>3. ASSUME NEW p \in Process, proc[p].cmd \in Attending \/ proc[p].at \in Moving
      PROVE  proc[p].uid \in Uid /\ proc[p].id \in Id /\ proc[p].uid \in SettledBy(proc[p].id[1])
  <2>1. proc[p].uid \in Uid /\ proc[p].id \in Id /\ proc[p].cmd # "init" /\ proc[p].at # "numbered"
    BY <1>3 DEF Jobs, JobOK, Attending, Moving
  <2>2. AtWorkOn(p, proc[p].uid, proc[p].id[1])
    BY <2>1 DEF AtWorkOn
  <2> QED
    BY <2>1, <2>2 DEF SettledBy
<1>4. ASSUME NEW p \in Process, proc[p].cmd = "init", proc[p].at \in {"numbered", "saved"}
      PROVE  /\ proc[p].uid \in Uid /\ proc[p].to \in Id /\ proc[p].uid \in KnownBy(proc[p].to[1])
             /\ proc[p].at = "saved" => proc[p].uid \in SettledBy(proc[p].to[1])
  <2>1. proc[p].uid \in Uid /\ proc[p].to \in Id
    BY <1>4 DEF Jobs, JobOK
  <2>2. AtWorkOn(p, proc[p].uid, proc[p].to[1])
    BY <1>4 DEF AtWorkOn
  <2> QED
    BY <1>4, <2>1, <2>2 DEF KnownBy, SettledBy
<1> QED
  BY <1>1, <1>2, <1>3, <1>4

\* The command of p is where it writes to files of the number n.
WritesAt(p, n) ==
  \/ proc[p].at \in {"read"} \cup Moving /\ proc[p].id[1] = n
  \/ proc[p].cmd = "gate" /\ proc[p].at \in {"loaded", "saved"} /\ proc[p].id[1] = n
  \/ proc[p].cmd = "init" /\ proc[p].at \in {"numbered", "saved"} /\ proc[p].to[1] = n

\* What a step does to files when it is none of these.
LEMMA WriteCases ==
  ASSUME TypeOK, Jobs, NEW p \in Process, FeatureStep(p)
  PROVE  \/ UNCHANGED <<specs, sbf, history, told, index>>
         \/ Link(p)
         \/ InitSaves(p) \/ InitIndexes(p) \/ ArchiveSaves(p) \/ RenameDirectory(p) \/ RenameContracts(p)
         \/ RenameWritesFeature(p) \/ RenameState(p) \/ RenameWritesState(p) \/ RenameHistory(p)
         \/ RenameIndexes(p) \/ SaveGates(p) \/ AppendGate(p)
BY DEF FeatureStep, StartInit, StartRename, StartLink, StartArchive, StartGate, AcquireFeatures, TimeoutFeatures,
     ReleaseFeatures, InitNumbers, RenameChecks, RenameReadsFeature, RenameReadsState, RenameReadsManifest,
     RenameWritesOwners, AcquireState, TimeoutState, LoadGates, ReleaseState, Crash, ghosts, files

\* Files that a step touches are of a number that its command is at, and the gates and ids of a feature
\* that change are those of its own.
LEMMA Touches ==
  ASSUME TypeOK, Jobs, Indexers, NEW p \in Process, FeatureStep(p)
  PROVE  /\ \A i \in Id : ~WritesAt(p, i[1]) => specs'[i] = specs[i] /\ sbf'[i] = sbf[i] /\ history'[i] = history[i]
         /\ \A u \in Uid : ~(\E n \in 1..MaxNumber : WritesAt(p, n)) \/ u # proc[p].uid =>
                             told'[u] = told[u] /\ index'.by_uid[u] = index.by_uid[u]
<1> DEFINE x == proc[p]
           Away(i) == specs'[i] = specs[i] /\ sbf'[i] = sbf[i] /\ history'[i] = history[i]
           Own(u) == told'[u] = told[u] /\ index'.by_uid[u] = index.by_uid[u]
           AtSome == \E n \in 1..MaxNumber : WritesAt(p, n)
<1> USE DEF files, locks, ghosts
<1>0. /\ JobOK(x) /\ specs \in [Id -> Record \cup {Absent}] /\ sbf \in [Id -> State \cup {Absent}]
      /\ history \in [Id -> SUBSET Gate] /\ told \in [Uid -> SUBSET Gate]
      /\ index \in Index /\ \A i \in Id : i[1] \in 1..MaxNumber
  BY Known DEF Jobs, TypeOK, LifecycleTypeOK
<1>1. CASE UNCHANGED <<specs, sbf, history, told, index>>
  BY <1>1
<1>2. CASE Link(p)
  <2>1. UNCHANGED <<specs, sbf, history, told>>
    BY <1>2 DEF Link
  <2>2. index'.by_uid = index.by_uid
    BY <1>0, <1>2 DEF Link, Index
  <2> QED
    BY <2>1, <2>2
<1>3. CASE InitSaves(p) \/ InitIndexes(p)
  <2>1. x.to \in Id /\ x.uid \in Uid /\ x.cmd = "init" /\ x.at \in {"numbered", "saved"} /\ WritesAt(p, x.to[1])
    BY <1>0, <1>3 DEF InitSaves, InitIndexes, JobOK, WritesAt
  <2>2. \A i \in Id : i[1] # x.to[1] => Away(i)
    BY <1>0, <1>3, <2>1 DEF InitSaves, InitIndexes
  <2>3. \A u \in Uid : u # x.uid => Own(u)
    <3>1. CASE InitSaves(p)
      BY <3>1 DEF InitSaves
    <3>2. CASE InitIndexes(p)
      <4>1. told' = told /\ index'.by_uid = [index.by_uid EXCEPT ![x.uid] = <<x.to>>]
        BY <1>0, <3>2 DEF InitIndexes, Index
      <4>2. index.by_uid \in [Uid -> Seq(Id)]
        BY <1>0 DEF Index
      <4> QED
        BY <4>1, <4>2
    <3> QED
      BY <1>3, <3>1, <3>2
  <2>4. AtSome
    BY <1>0, <2>1
  <2> QED
    BY <2>1, <2>2, <2>3, <2>4
<1>4. CASE \/ ArchiveSaves(p) \/ SaveGates(p) \/ AppendGate(p)
  <2>1. x.id \in Id /\ x.uid \in Uid /\ WritesAt(p, x.id[1])
    BY <1>0, <1>4 DEF ArchiveSaves, SaveGates, AppendGate, JobOK, WritesAt
  <2>2. \A i \in Id : i[1] # x.id[1] => Away(i)
    BY <1>0, <1>4, <2>1 DEF ArchiveSaves, SaveGates, AppendGate, WithFeature
  <2>3. \A u \in Uid : u # x.uid => Own(u)
    BY <1>0, <1>4, <2>1 DEF ArchiveSaves, SaveGates, AppendGate
  <2>4. AtSome
    BY <1>0, <2>1
  <2> QED
    BY <2>1, <2>2, <2>3, <2>4
<1>5. CASE \/ RenameDirectory(p) \/ RenameContracts(p) \/ RenameWritesFeature(p) \/ RenameState(p)
           \/ RenameWritesState(p) \/ RenameHistory(p) \/ RenameIndexes(p)
  <2>1. x.at \in Moving
    BY <1>5 DEF RenameDirectory, RenameContracts, RenameWritesFeature, RenameState, RenameWritesState,
                RenameHistory, RenameIndexes, Moving
  <2>2. x.id \in Id /\ x.to \in Id /\ x.to[1] = x.id[1] /\ x.uid \in Uid /\ WritesAt(p, x.id[1]) /\ x.index = index
    BY <1>0, <2>1 DEF JobOK, WritesAt, Indexers
  <2>3. \A i \in Id : i[1] # x.id[1] => Away(i)
    BY <1>0, <1>5, <2>2 DEF RenameDirectory, RenameContracts, RenameWritesFeature, RenameState, RenameWritesState,
                RenameHistory, RenameIndexes, WithFeature
  <2>4. \A u \in Uid : u # x.uid => Own(u)
    <3>1. CASE RenameIndexes(p)
      <4> DEFINE ids == Append(IF x.index.by_uid[x.uid] = <<>> THEN <<x.id>> ELSE x.index.by_uid[x.uid], x.to)
      <4>1. told' = told /\ index' = [x.index EXCEPT !.by_uid = [x.index.by_uid EXCEPT ![x.uid] = ids]]
        BY <3>1 DEF RenameIndexes
      <4> HIDE DEF ids
      <4>2. index'.by_uid = [index.by_uid EXCEPT ![x.uid] = ids] /\ index.by_uid \in [Uid -> Seq(Id)]
        BY <1>0, <2>2, <4>1 DEF Index
      <4> QED
        BY <4>1, <4>2
    <3>2. CASE ~RenameIndexes(p)
      BY <1>5, <3>2 DEF RenameDirectory, RenameContracts, RenameWritesFeature, RenameState, RenameWritesState,
                RenameHistory
    <3> QED
      BY <3>1, <3>2
  <2>5. AtSome
    BY <1>0, <2>2
  <2> QED
    BY <2>2, <2>3, <2>4, <2>5
<1> QED
  BY <1>1, <1>2, <1>3, <1>4, <1>5, WriteCases

\* Emits and what happens without a command leave the parts of features alone.
LEMMA EmitsAway ==
  ASSUME NEW p \in Process, EmitStep(p)
  PROVE  UNCHANGED <<specs, sbf, history, told, index, minted, removed, stateLock, featureLock>> /\ torn \subseteq torn'
<1> USE DEF files, locks, ghosts
<1>1. CASE \E id \in Id, force, enforce \in BOOLEAN : StartEmit(p, id, force, enforce)
  BY <1>1 DEF StartEmit, Begins
<1>2. CASE ~\E id \in Id, force, enforce \in BOOLEAN : StartEmit(p, id, force, enforce)
  BY <1>2 DEF EmitStep, PlanInfra, ReadUnit, PassUnit, WriteUnit, RecordUnit, FinishUnits, LoadFlag, SaveFlag, Verdict,
              KillEmit, lifecycleVars
<1> QED
  BY <1>1, <1>2

\* What a step of no process leaves alone: a request, a person, a stale lock that is removed.
LEMMA OthersAway ==
  ASSUME IInv, [Next]_vars, ~\E p \in Process : FeatureStep(p) \/ EmitStep(p)
  PROVE  /\ UNCHANGED <<proc, index, sbf, history, told, torn, minted, manifest, emit>>
         /\ UNCHANGED <<specs, removed>> \/ \E id \in Id : RemoveDirectory(id)
<1> USE DEF files, locks, ghosts
<1>1. CASE UNCHANGED vars
  BY <1>1 DEF vars, lifecycleVars, handlesVars
<1>2. CASE Features
  BY <1>2 DEF Features, RemoveStaleLock, RemoveDirectory
<1>3. CASE Handles
  BY <1>3 DEF Handles, HandStep, Commit, Edit
<1>4. CASE Requests
  BY <1>4, RequestTypes DEF Requests, RequestStep, ServerStep, Begin, AcquireSync, TimeoutSync, Declare, Answer,
     AcquireAsync, TimeoutAsync, Execute, Ask, Untouched, IInv
<1> QED
  BY <1>1, <1>2, <1>3, <1>4 DEF Next

\* What happened stays happened.
LEMMA GhostsGrow ==
  ASSUME IInv, [Next]_vars
  PROVE  /\ torn \subseteq torn' /\ removed \subseteq removed'
         /\ \A n : Clean(n)' => Clean(n)
         /\ ~overlap' => ~overlap
<1> USE DEF files, locks, ghosts
<1>1. ASSUME NEW p \in Process, FeatureStep(p) PROVE torn \subseteq torn' /\ removed' = removed
  <2>1. removed' = removed
    BY <1>1, RemovedSame
  <2>2. torn \subseteq torn'
    BY <1>1 DEF FeatureStep, StartInit, StartRename, StartLink, StartArchive, StartGate, AcquireFeatures, TimeoutFeatures,
     ReleaseFeatures, InitNumbers, InitSaves, InitIndexes, Link, ArchiveSaves,
     RenameChecks, RenameDirectory, RenameContracts, RenameReadsFeature, RenameWritesFeature,
     RenameState, RenameReadsState, RenameWritesState, RenameHistory, RenameReadsManifest,
     RenameWritesOwners, RenameIndexes, AcquireState, TimeoutState, LoadGates, SaveGates, AppendGate,
     ReleaseState, Crash, Begins
  <2> QED
    BY <2>1, <2>2
<1>2. torn \subseteq torn' /\ removed \subseteq removed'
  <2>1. CASE \E p \in Process : FeatureStep(p) \/ EmitStep(p)
    BY <1>1, <2>1, EmitsAway
  <2>2. CASE ~\E p \in Process : FeatureStep(p) \/ EmitStep(p)
    BY <2>2, OthersAway DEF RemoveDirectory
  <2> QED
    BY <2>1, <2>2
<1>3. ~overlap' => ~overlap
  BY DEF Next, vars, handlesVars, IInv, TypeOK, HandlesTypeOK
<1>4. ASSUME NEW n, n \in Vacated PROVE n \in Vacated'
  BY <1>2, <1>4 DEF Vacated
<1> QED
  BY <1>2, <1>3, <1>4 DEF Clean

\* The records of processes: one of them takes the step.
LEMMA OneGoes ==
  ASSUME IInv, [Next]_vars
  PROVE  \/ \E p \in Process : FeatureStep(p) /\ JobStep(p)
         \/ \E p \in Process : EmitStep(p) /\ JobStep(p)
         \/ UNCHANGED proc /\ ~\E p \in Process : FeatureStep(p) \/ EmitStep(p)
<1>1. TypeOK /\ Jobs /\ Indexers /\ Emits
  BY DEF IInv
<1> QED
  BY <1>1, FeatureTypes, EmitJobs, OthersAway

\* A step leaves alone what lies under a number and belongs to its features.
Still(n) ==
  /\ \A i \in Id : i[1] = n => specs'[i] = specs[i] /\ sbf'[i] = sbf[i] /\ history'[i] = history[i]
  /\ \A u \in KnownBy(n) : told'[u] = told[u] /\ index'.by_uid[u] = index.by_uid[u]

\* That is so for a clean number unless a command writes to its files.
LEMMA StillAway ==
  ASSUME IInv, Minted, [Next]_vars, NEW n \in 1..MaxNumber, Clean(n)',
         ~\E p \in Process : FeatureStep(p) /\ WritesAt(p, n)
  PROVE  Still(n)
<1>0. TypeOK /\ Jobs /\ Indexers /\ KnownBy(n) \subseteq Uid
  BY KnownTypes DEF IInv
<1>1. ASSUME NEW p \in Process, FeatureStep(p) PROVE Still(n)
  <2>1. ~WritesAt(p, n)
    BY <1>1
  <2>2. \A i \in Id : i[1] = n => specs'[i] = specs[i] /\ sbf'[i] = sbf[i] /\ history'[i] = history[i]
    BY <1>0, <1>1, <2>1, Touches
  <2>3. ASSUME NEW u \in KnownBy(n) PROVE told'[u] = told[u] /\ index'.by_uid[u] = index.by_uid[u]
    <3>1. CASE u # proc[p].uid \/ ~\E m \in 1..MaxNumber : WritesAt(p, m)
      BY <1>0, <1>1, <3>1, Touches
    <3>2. ASSUME u = proc[p].uid, NEW m \in 1..MaxNumber, WritesAt(p, m) PROVE FALSE
      <4>1. u \in KnownBy(m)
        <5>1. CASE proc[p].cmd = "init"
          <6>1. proc[p].at \in {"numbered", "saved"} /\ proc[p].to[1] = m
            BY <1>0, <3>2, <5>1 DEF WritesAt, Jobs, JobOK, Moving
          <6> QED
            BY <1>0, <3>2, <5>1, <6>1, Known
        <5>2. CASE proc[p].cmd # "init"
          <6>1. (proc[p].cmd \in Attending \/ proc[p].at \in Moving) /\ proc[p].id[1] = m
            BY <1>0, <3>2, <5>2 DEF WritesAt, Jobs, JobOK, Attending, Moving
          <6> QED
            BY <1>0, <3>2, <6>1, Known, KnownTypes
        <5> QED
          BY <5>1, <5>2
      <4>2. m = n
        BY <4>1, <2>3 DEF Minted
      <4> QED
        BY <2>1, <3>2, <4>2
    <3> QED
      BY <3>1, <3>2
  <2> QED
    BY <2>2, <2>3 DEF Still
<1>2. ASSUME NEW p \in Process, EmitStep(p) PROVE Still(n)
  BY <1>2, EmitsAway DEF Still
<1>3. CASE ~\E p \in Process : FeatureStep(p) \/ EmitStep(p)
  <2>1. UNCHANGED <<index, sbf, history, told>>
    BY <1>3, OthersAway
  <2>2. CASE UNCHANGED specs
    BY <2>1, <2>2 DEF Still
  <2>3. ASSUME NEW id \in Id, RemoveDirectory(id) PROVE Still(n)
    <3>1. /\ specs' = [specs EXCEPT ![id] = Absent] /\ removed' = removed \cup (KnownBy(id[1]) \X {id[1]})
          /\ specs[id] # Absent
      BY <2>3 DEF RemoveDirectory
    <3>2. n # id[1]
      <4>1. SUFFICES ASSUME n = id[1] PROVE FALSE
        OBVIOUS
      <4>2. specs[id].uid \in KnownBy(n)
        BY <1>0, <3>1, <4>1, Known, KnownTypes
      <4>3. <<specs[id].uid, n>> \in removed'
        BY <3>1, <4>1, <4>2
      <4>4. <<specs[id].uid, n>>[2] \in Vacated'
        BY <4>3 DEF Vacated
      <4> QED
        BY <4>4 DEF Clean
    <3>3. \A i \in Id : i # id => specs'[i] = specs[i]
      BY <1>0, <3>1 DEF TypeOK, LifecycleTypeOK
    <3> QED
      BY <2>1, <3>2, <3>3 DEF Still
  <2> QED
    BY <1>3, <2>2, <2>3, OthersAway
<1> QED
  BY <1>1, <1>2, <1>3

\* What loadState leaves in the hands of a gate writer.
LEMMA LoadSet ==
  ASSUME TypeOK, Jobs, NEW p \in Process, LoadGates(p)
  PROVE  /\ proc'[p].cmd = proc[p].cmd /\ proc'[p].id = proc[p].id /\ proc'[p].to = proc[p].to
         /\ proc'[p].gate = proc[p].gate /\ proc'[p].uid = proc[p].uid /\ proc'[p].at = "loaded"
         /\ sbf[proc[p].id] # Absent => proc'[p].state = sbf[proc[p].id]
         /\ sbf[proc[p].id] = Absent => proc'[p].state.feature_id = proc[p].id /\ proc'[p].state.gates = {}
<1> DEFINE empty == [feature_id |-> proc[p].id, gates |-> {}]
           s == IF sbf[proc[p].id] # Absent THEN sbf[proc[p].id] ELSE empty
<1>0. proc[p] \in Job /\ proc[p].id \in Id /\ sbf \in [Id -> State \cup {Absent}] /\ proc \in [Process -> Job]
  BY DEF TypeOK, LifecycleTypeOK, LoadGates, Jobs, JobOK
<1>1. empty \in State /\ empty.feature_id = proc[p].id /\ empty.gates = {}
  BY <1>0 DEF State
<1>2. proc' = [proc EXCEPT ![p] = [proc[p] EXCEPT !.at = "loaded", !.state = s]]
  BY DEF LoadGates
<1> HIDE DEF empty
<1>3. s \in State
  BY <1>0, <1>1
<1>4. /\ sbf[proc[p].id] # Absent => s = sbf[proc[p].id]
      /\ sbf[proc[p].id] = Absent => s.feature_id = proc[p].id /\ s.gates = {}
  BY <1>1
<1> HIDE DEF s
<1> QED
  BY <1>0, <1>2, <1>3, <1>4 DEF Job

\* A command at work on a feature has just started, or goes on with what it had; a gate has then got the
\* lock or read the state.
LEMMA AttendingFrom ==
  ASSUME IInv, NEW p \in Process, FeatureStep(p) \/ EmitStep(p), proc'[p].cmd \in Attending
  PROVE  \/ /\ Starts(p) /\ proc'[p].at \in {"waiting", "read", "emitting"}
            /\ proc'[p].id \in Id /\ specs[proc'[p].id] # Absent /\ proc'[p].uid = specs[proc'[p].id].uid
            /\ proc'[p].cmd = "archive" => proc'[p].feature = specs[proc'[p].id]
         \/ proc'[p] = proc[p]
         \/ /\ proc[p].cmd \in Attending /\ proc'[p].id = proc[p].id /\ proc'[p].uid = proc[p].uid
            /\ proc'[p].cmd = "gate"
            /\ \/ proc'[p].at \in {"waiting", "locked"}
               \/ LoadGates(p) /\ proc'[p].at = "loaded"
               \/ SaveGates(p) /\ proc'[p].at = "saved" /\ proc'[p].gate = proc[p].gate
               \/ AppendGate(p) /\ proc'[p].at = "done"
<1>0. TypeOK /\ Jobs /\ Emits /\ Indexers /\ JobOK(proc[p])
  BY DEF IInv, Jobs
<1>1. JobStep(p) /\ JobOK(proc'[p])
  BY <1>0, FeatureTypes, EmitJobs DEF JobStep
<1>2. CASE Starts(p)
  <2>1. /\ proc'[p].at \in {"waiting", "read", "emitting"} /\ proc'[p].id \in Id
        /\ \/ proc'[p].uid = Absent
           \/ /\ specs[proc'[p].id] # Absent /\ proc'[p].uid = specs[proc'[p].id].uid
              /\ proc'[p].feature \in {Absent, specs[proc'[p].id]}
    BY <1>0, <1>2, StartSteps
  <2>2. proc'[p].uid # Absent /\ (proc'[p].cmd = "archive" => proc'[p].feature # Absent)
    BY <1>1, RecordsAssumption DEF JobOK, Attending
  <2> QED
    BY <1>2, <2>1, <2>2
<1>3. CASE EmitStep(p) /\ ~Starts(p)
  BY <1>0, <1>3, EmitJobs DEF Attending
<1>4. CASE FeatureStep(p) /\ ~Starts(p)
  <2>1. CASE Overs(p)
    BY <2>1, <1>0, OversIs DEF Attending
  <2>2. CASE AcquireState(p)
    BY <1>0, <2>2, AtSet DEF AcquireState, Attending
  <2>3. CASE LoadGates(p)
    BY <1>0, <2>3, LoadSet DEF LoadGates, Attending
  <2>4. CASE SaveGates(p) \/ AppendGate(p)
    BY <1>0, <2>4, AtSet DEF SaveGates, AppendGate, Attending
  <2>5. CASE \/ AcquireFeatures(p) \/ InitSaves(p) \/ InitIndexes(p)
             \/ Link(p) \/ RenameIndexes(p) \/ RenameStays(p)
    <3>1. proc[p].cmd \in Indexing
      BY <1>0, <2>5 DEF AcquireFeatures, InitSaves, InitIndexes, Link, RenameIndexes, RenameStays, JobOK,
         RenameDirectory, RenameContracts, RenameWritesFeature, RenameState, RenameReadsState,
         RenameWritesState, RenameHistory, RenameReadsManifest, RenameWritesOwners, Moving, Indexing
    <3>2. proc'[p].cmd = proc[p].cmd
      BY <1>0, <2>5, StaysIs DEF Stays
    <3> QED
      BY <3>1, <3>2 DEF Indexing, Attending
  <2>6. CASE InitNumbers(p) \/ RenameChecks(p) \/ RenameReadsFeature(p)
    <3>1. proc[p].cmd \in Indexing
      BY <1>0, <2>6 DEF InitNumbers, RenameChecks, RenameReadsFeature, JobOK, Moving, Indexing
    <3>2. proc'[p].cmd = proc[p].cmd
      BY <1>0, <2>6, <3>1, ChoosesIs DEF Stays, InitNumbers
    <3> QED
      BY <3>1, <3>2 DEF Indexing, Attending
  <2> QED
    BY <1>4, <2>1, <2>2, <2>3, <2>4, <2>5, <2>6, FeatureCases DEF GateStays
<1> QED
  BY <1>2, <1>3, <1>4

\* A feature that init has saved: the step that saves it keeps what was chosen.
LEMMA SavedFrom ==
  ASSUME IInv, NEW p \in Process, FeatureStep(p) \/ EmitStep(p), proc'[p].cmd = "init", proc'[p].at = "saved"
  PROVE  \/ proc'[p] = proc[p]
         \/ InitSaves(p) /\ proc'[p].to = proc[p].to /\ proc'[p].uid = proc[p].uid
<1>0. TypeOK /\ Jobs /\ Emits /\ Indexers /\ JobOK(proc[p])
  BY DEF IInv, Jobs
<1>1. CASE EmitStep(p)
  BY <1>0, <1>1, EmitJobs, StartSteps
<1>2. CASE FeatureStep(p)
  <2>1. ~Starts(p) /\ ~Overs(p) /\ ~AcquireFeatures(p) /\ ~InitNumbers(p)
    <3>1. ~Starts(p) /\ ~Overs(p)
      BY <1>0, StartSteps, OversIs
    <3>2. ~AcquireFeatures(p)
      BY <1>0, StaysIs
    <3>3. ~InitNumbers(p)
      <4>1. SUFFICES ASSUME InitNumbers(p) PROVE FALSE
        OBVIOUS
      <4>2. proc'[p].at \in {"done", "numbered"}
        BY <1>0, <4>1, ChoosesIs
      <4> QED
        BY <4>2
    <3> QED
      BY <3>1, <3>2, <3>3
  <2>2. ~InitIndexes(p) /\ ~Link(p) /\ ~RenameIndexes(p)
    BY <1>0, AtSet DEF InitIndexes, Link, RenameIndexes
  <2>3. ~RenameStays(p) /\ ~GateStays(p)
    <3>1. RenameStays(p) \/ GateStays(p) => proc[p].cmd \in {"rename", "gate"}
      BY <1>0 DEF RenameStays, GateStays, AcquireState, LoadGates, SaveGates, AppendGate, JobOK,
         RenameDirectory, RenameContracts, RenameWritesFeature, RenameState, RenameReadsState,
         RenameWritesState, RenameHistory, RenameReadsManifest, RenameWritesOwners, Moving
    <3>2. RenameStays(p) \/ GateStays(p) => proc'[p].cmd = proc[p].cmd
      BY <1>0, StaysIs DEF Stays
    <3> QED
      BY <3>1, <3>2
  <2>4. ~RenameChecks(p) /\ ~RenameReadsFeature(p)
    <3>1. RenameChecks(p) \/ RenameReadsFeature(p) => proc[p].cmd = "rename"
      BY <1>0 DEF RenameChecks, RenameReadsFeature, JobOK, Moving
    <3>2. RenameChecks(p) \/ RenameReadsFeature(p) => proc'[p].cmd = proc[p].cmd
      BY <1>0, <3>1, ChoosesIs DEF Stays
    <3> QED
      BY <3>1, <3>2
  <2>5. InitSaves(p)
    BY <1>2, <2>1, <2>2, <2>3, <2>4, FeatureCases
  <2> QED
    BY <1>0, <2>5, AtSet DEF InitSaves
<1> QED
  BY <1>1, <1>2

\* What a command has in hand still fits as long as the state file is the same.
LEMMA FitsKept ==
  ASSUME IInv, NEW q \in Process, NEW h \in Id, NEW u \in Uid, NEW y, y = proc'[q],
         DirectoryAt(u, h, h, h), StateAt(u, h, h), Fits(proc[q], u, h),
         told'[u] = told[u], sbf'[h] = sbf[h],
         y = proc[q] \/ EmitStep(q) \/ (FeatureStep(q) /\ ~WritesAt(q, h[1])) \/ Crash(q)
  PROVE  Fits(y, u, h)'
<1> DEFINE x == proc[q]
<1>0. TypeOK /\ Jobs /\ Emits /\ Indexers /\ JobOK(x) /\ sbf \in [Id -> State \cup {Absent}]
  BY DEF IInv, Jobs, TypeOK, LifecycleTypeOK
<1>1. CASE y = x
  BY <1>1 DEF Fits
<1>2. CASE Crash(q)
  <2>1. y.cmd = "none"
    BY <1>0, <1>2, OversIs DEF Overs
  <2> QED
    BY <2>1 DEF Fits, Attending
<1>3. CASE y # x /\ ~Crash(q)
  <2>0. FeatureStep(q) \/ EmitStep(q)
    BY <1>3
  <2>1. ~(y.cmd = "init" /\ y.at = "saved" /\ y.to[1] = h[1])
    <3>1. SUFFICES ASSUME y.cmd = "init", y.at = "saved", y.to[1] = h[1] PROVE FALSE
      OBVIOUS
    <3>2. InitSaves(q) /\ x.to = y.to
      BY <1>3, <2>0, <3>1, SavedFrom
    <3>3. WritesAt(q, h[1])
      BY <3>1, <3>2 DEF InitSaves, WritesAt
    <3>4. ~EmitStep(q)
      BY <1>0, <1>3, <3>1, EmitJobs, StartSteps
    <3> QED
      BY <1>3, <3>3, <3>4
  <2>2. CASE y.cmd \in Attending /\ y.id[1] = h[1]
    <3>1. CASE /\ y.at \in {"waiting", "read", "emitting"}
               /\ y.id \in Id /\ specs[y.id] # Absent /\ y.uid = specs[y.id].uid
               /\ y.cmd = "archive" => y.feature = specs[y.id]
      <4>1. y.id = h
        BY <2>2, <3>1 DEF DirectoryAt
      <4> QED
        BY <2>1, <3>1, <4>1 DEF Fits, DirectoryAt
    <3>2. CASE /\ x.cmd \in Attending /\ y.id = x.id /\ y.uid = x.uid /\ y.cmd = "gate"
               /\ y.at \in {"waiting", "locked"}
      BY <2>1, <2>2, <3>2 DEF Fits
    <3>3. CASE x.cmd \in Attending /\ y.id = x.id /\ y.uid = x.uid /\ y.cmd = "gate" /\ LoadGates(q) /\ y.at = "loaded"
      <4>1. x.id = h /\ x.uid = u
        BY <2>2, <3>3 DEF Fits
      <4>2. y.state.feature_id = h /\ told[u] \subseteq y.state.gates
        <5>1. CASE sbf[h] # Absent
          BY <1>0, <3>3, <4>1, <5>1, LoadSet DEF StateAt
        <5>2. CASE sbf[h] = Absent
          BY <1>0, <3>3, <4>1, <5>2, LoadSet DEF StateAt
        <5> QED
          BY <5>1, <5>2
      <4> QED
        BY <2>1, <3>3, <4>1, <4>2 DEF Fits
    <3>4. ~SaveGates(q) /\ ~AppendGate(q)
      <4>1. SUFFICES ASSUME SaveGates(q) \/ AppendGate(q) PROVE FALSE
        OBVIOUS
      <4>2. x.cmd = "gate" /\ x.at \in {"loaded", "saved"} /\ y.id = x.id
        BY <1>0, <4>1, AtSet DEF SaveGates, AppendGate
      <4>3. WritesAt(q, h[1])
        BY <2>2, <4>2 DEF WritesAt
      <4>4. ~EmitStep(q)
        <5>1. y.at \in {"saved", "done"} /\ y.cmd = "gate"
          BY <1>0, <4>1, <4>2, AtSet DEF SaveGates, AppendGate
        <5> QED
          BY <1>0, <1>3, <5>1, EmitJobs, StartSteps
      <4> QED
        BY <1>3, <4>3, <4>4
    <3> QED
      BY <1>3, <2>0, <2>2, <3>1, <3>2, <3>3, <3>4, AttendingFrom
  <2> QED
    BY <2>1, <2>2 DEF Fits
<1> QED
  BY <1>1, <1>2, <1>3

\* An emit is begun by an idle process, and goes on where there is one.
LEMMA EmitsWhere ==
  ASSUME IInv, NEW p \in Process, EmitStep(p)
  PROVE  proc[p].at = "idle" \/ proc[p].cmd = "emit"
<1>1. proc[p].at = "idle" \/ emit[p].at # "idle"
  BY DEF EmitStep, StartEmit, Begins, PlanInfra, ReadUnit, PassUnit, WriteUnit, RecordUnit, FinishUnits, LoadFlag,
         SaveFlag, Verdict, KillEmit, Emitting
<1> QED
  BY <1>1 DEF IInv, Emits

\* What a command does where it writes.
LEMMA WritesWhat ==
  ASSUME IInv, NEW p \in Process, FeatureStep(p), NEW n, WritesAt(p, n)
  PROVE  \/ Crash(p)
         \/ proc[p].cmd = "init" /\ (InitSaves(p) \/ InitIndexes(p))
         \/ proc[p].cmd \in Attending /\ proc[p].id[1] = n /\ (ArchiveSaves(p) \/ SaveGates(p) \/ AppendGate(p))
         \/ /\ proc[p].cmd = "rename" /\ proc[p].at \in Moving /\ proc[p].id[1] = n
            /\ RenameReadsFeature(p) \/ RenameStays(p) \/ RenameIndexes(p)
<1>0. JobOK(proc[p])
  BY DEF IInv, Jobs
<1>1. proc[p].at \notin {"idle", "waiting", "locked"} /\ (proc[p].at = "done" => FALSE)
  BY DEF WritesAt, Moving
<1>2. CASE Starts(p) \/ AcquireFeatures(p) \/ TimeoutFeatures(p) \/ ReleaseFeatures(p) \/ InitNumbers(p)
           \/ Link(p) \/ RenameChecks(p) \/ AcquireState(p) \/ TimeoutState(p) \/ LoadGates(p) \/ ReleaseState(p)
  <2>1. Starts(p) => proc[p].at = "idle"
    BY DEF Starts, StartInit, StartRename, StartLink, StartArchive, StartGate, StartEmit, Begins
  <2> QED
    BY <1>1, <1>2, <2>1 DEF AcquireFeatures, TimeoutFeatures, ReleaseFeatures, InitNumbers, Link, RenameChecks,
       AcquireState, TimeoutState, LoadGates, ReleaseState
<1>3. CASE InitSaves(p) \/ InitIndexes(p)
  BY <1>3 DEF InitSaves, InitIndexes
<1>4. CASE ArchiveSaves(p) \/ SaveGates(p) \/ AppendGate(p)
  BY <1>0, <1>4 DEF ArchiveSaves, SaveGates, AppendGate, Attending, WritesAt, Moving
<1>5. CASE RenameReadsFeature(p) \/ RenameStays(p) \/ RenameIndexes(p)
  <2>1. proc[p].at \in Moving
    BY <1>5 DEF RenameReadsFeature, RenameStays, RenameIndexes, RenameDirectory, RenameContracts, RenameWritesFeature,
       RenameState, RenameReadsState, RenameWritesState, RenameHistory, RenameReadsManifest, RenameWritesOwners, Moving
  <2> QED
    BY <1>0, <1>5, <2>1 DEF WritesAt, JobOK, Moving
<1> QED
  BY <1>2, <1>3, <1>4, <1>5, FeatureCases DEF Overs, GateStays

\* A command at a rename's number, or in a rename, goes on or ends by itself only.
LEMMA MoverGoes ==
  ASSUME IInv, [Next]_vars, NEW q \in Process, proc[q].at \in Moving
  PROVE  \/ proc'[q] = proc[q]
         \/ FeatureStep(q) /\ WritesAt(q, proc[q].id[1])
<1>0. TypeOK /\ Jobs /\ JobOK(proc[q])
  BY DEF IInv, Jobs
<1>1. WritesAt(q, proc[q].id[1]) /\ proc[q].cmd = "rename" /\ proc[q].at # "idle"
  BY <1>0 DEF WritesAt, JobOK, Moving
<1>2. ~EmitStep(q)
  BY <1>1, EmitsWhere
<1> QED
  BY <1>1, <1>2, OneGoes DEF JobStep

\* A command that is in a rename was in it, with the same ids, or has just checked what it is about to do.
LEMMA MoverFrom ==
  ASSUME IInv, [Next]_vars, NEW q \in Process, proc'[q].at \in Moving
  PROVE  \/ proc'[q] = proc[q]
         \/ RenameChecks(q) /\ proc'[q].at = "checked"
         \/ /\ FeatureStep(q) /\ proc[q].at \in Moving /\ proc[q].cmd = "rename"
            /\ proc'[q].id = proc[q].id /\ proc'[q].to = proc[q].to /\ proc'[q].uid = proc[q].uid
            /\ RenameReadsFeature(q) \/ RenameStays(q)
<1>0. TypeOK /\ Jobs /\ Emits /\ Indexers /\ JobOK(proc[q])
  BY DEF IInv, Jobs
<1>1. CASE FeatureStep(q)
  <2>1. ~Starts(q) /\ ~Overs(q)
    BY <1>0, StartSteps, OversIs DEF Moving
  <2>2. ~AcquireFeatures(q) /\ ~InitSaves(q) /\ ~InitIndexes(q) /\ ~Link(q) /\ ~RenameIndexes(q) /\ ~GateStays(q)
    BY <1>0, StaysIs DEF Moving
  <2>3. ~InitNumbers(q)
    BY <1>0, ChoosesIs DEF Moving
  <2>4. CASE RenameChecks(q)
    BY <1>0, <2>4, ChoosesIs DEF Moving
  <2>5. CASE RenameReadsFeature(q) \/ RenameStays(q)
    <3>1. proc[q].at \in Moving
      BY <2>5 DEF RenameReadsFeature, RenameStays, RenameDirectory, RenameContracts, RenameWritesFeature,
         RenameState, RenameReadsState, RenameWritesState, RenameHistory, RenameReadsManifest, RenameWritesOwners, Moving
    <3>2. proc[q].cmd = "rename"
      BY <1>0, <3>1 DEF JobOK
    <3>3. proc'[q].id = proc[q].id /\ proc'[q].to = proc[q].to /\ proc'[q].uid = proc[q].uid
      BY <1>0, <2>5, StaysIs, ChoosesIs DEF Stays
    <3> QED
      BY <1>1, <2>5, <3>1, <3>2, <3>3
  <2> QED
    BY <1>1, <2>1, <2>2, <2>3, <2>4, <2>5, FeatureCases
<1>2. CASE EmitStep(q)
  BY <1>0, <1>2, EmitJobs, StartSteps DEF Moving
<1>3. CASE ~FeatureStep(q) /\ ~EmitStep(q)
  BY <1>3, OneGoes DEF JobStep
<1> QED
  BY <1>1, <1>2, <1>3

-----------------------------------------------------------------------------
(* A feature that no rename is at.                                         *)

\* Nobody writes under its number.
LEMMA PlacedStill ==
  ASSUME IInv, Minted, Placed, [Next]_vars, NEW h \in Id, Quiet(h)', NEW u, u = specs'[h].uid,
         ~\E p \in Process : FeatureStep(p) /\ WritesAt(p, h[1])
  PROVE  /\ InPlace(u, h)' /\ Quiet(h)
<1> DEFINE n == h[1]
<1>0. TypeOK /\ Jobs /\ Emits /\ Indexers /\ n \in 1..MaxNumber /\ Clean(n)' /\ Clean(n)
  BY Known, GhostsGrow DEF IInv, Quiet
<1>1. Still(n)
  BY <1>0, StillAway
<1>2. specs'[h] = specs[h] /\ specs[h] # Absent /\ u \notin torn /\ u = specs[h].uid
  BY <1>1, GhostsGrow DEF Still, Quiet
<1>3. ASSUME NEW q \in Process, MovesAt(q, n) PROVE FALSE
  <2>1. proc'[q] = proc[q]
    BY <1>3, MoverGoes DEF MovesAt
  <2> QED
    BY <1>3, <2>1 DEF Quiet, MovesAt
<1>4. Quiet(h)
  BY <1>0, <1>2, <1>3 DEF Quiet
<1>5. InPlace(u, h) /\ u \in Uid /\ u \in KnownBy(n)
  BY <1>0, <1>2, <1>4, Known, KnownTypes DEF Placed
<1>6. told'[u] = told[u] /\ index'.by_uid[u] = index.by_uid[u] /\ sbf'[h] = sbf[h] /\ history'[h] = history[h]
  BY <1>1, <1>5 DEF Still
<1>7. DirectoryAt(u, h, h, h)'
  BY <1>1, <1>5 DEF Still, DirectoryAt, InPlace
<1>8. StateAt(u, h, h)'
  BY <1>1, <1>5, <1>6 DEF Still, StateAt, InPlace
<1>9. LogAt(u, h)' /\ LastIs(u, h)'
  BY <1>1, <1>5, <1>6 DEF Still, LogAt, LastIs, InPlace
<1>10. ASSUME NEW q \in Process, NEW y, y = proc'[q] PROVE Fits(y, u, h)'
  <2>1. y = proc[q] \/ EmitStep(q) \/ (FeatureStep(q) /\ ~WritesAt(q, n))
    BY <1>10, OneGoes DEF JobStep
  <2> QED
    BY <1>5, <1>6, <1>10, <2>1, FitsKept DEF InPlace
<1> QED
  BY <1>4, <1>7, <1>8, <1>9, <1>10 DEF InPlace

\* Who writes under a clean number does so for the one feature there is.
LEMMA WriterUid ==
  ASSUME IInv, [Next]_vars, NEW p \in Process, FeatureStep(p), NEW n \in 1..MaxNumber, WritesAt(p, n), Clean(n)
  PROVE  /\ proc[p].uid \in Uid /\ proc[p].uid \in KnownBy(n)
         /\ \A i \in Id : i[1] = n /\ specs[i] # Absent => specs[i].uid = proc[p].uid
         /\ \A i \in Id : i[1] = n /\ specs'[i] # Absent => specs'[i].uid = proc[p].uid
         /\ \A q \in Process : MovesAt(q, n) => proc[q].uid = proc[p].uid
<1>0. TypeOK /\ Jobs /\ Emits /\ Indexers /\ Numbered /\ TypeOK' /\ JobOK(proc[p])
  BY TypesKept DEF IInv, Jobs
<1>1. proc[p].uid \in Uid /\ proc[p].uid \in KnownBy(n)
  <2>1. CASE proc[p].cmd = "init"
    <3>1. proc[p].at \in {"numbered", "saved"} /\ proc[p].to[1] = n
      BY <1>0, <2>1 DEF WritesAt, JobOK, Moving
    <3> QED
      BY <1>0, <2>1, <3>1, Known
  <2>2. CASE proc[p].cmd # "init"
    <3>1. (proc[p].cmd \in Attending \/ proc[p].at \in Moving) /\ proc[p].id[1] = n
      BY <1>0, <2>2 DEF WritesAt, JobOK, Attending, Moving
    <3> QED
      BY <1>0, <3>1, Known, KnownTypes
  <2> QED
    BY <2>1, <2>2
<1>2. \A v \in KnownBy(n) : v = proc[p].uid
  BY <1>0, <1>1, OneUid
<1>3. ASSUME NEW i \in Id, i[1] = n, specs[i] # Absent PROVE specs[i].uid = proc[p].uid
  BY <1>0, <1>2, <1>3, Known, KnownTypes
<1>4. ASSUME NEW i \in Id, i[1] = n, specs'[i] # Absent PROVE specs'[i].uid = proc[p].uid
  <2>1. specs'[i].uid \in Uid
    BY <1>0, <1>4, RecordsAssumption DEF TypeOK, LifecycleTypeOK, Record
  <2>2. PICK u \in Uid : u = specs'[i].uid
    BY <2>1
  <2>3. Stored(u, n)'
    BY <1>4, <2>2 DEF Stored
  <2>4. u \in KnownBy(n)'
    BY <1>0, <2>3, KnownIs
  <2>5. ~Chooses(p)
    BY DEF Chooses, InitNumbers, WritesAt, Moving
  <2>6. u \in KnownBy(n)
    BY <1>0, <2>4, <2>5, KnownGrows
  <2> QED
    BY <1>2, <2>2, <2>6
<1>5. ASSUME NEW q \in Process, MovesAt(q, n) PROVE proc[q].uid = proc[p].uid
  <2>1. proc[q].uid \in KnownBy(n)
    BY <1>0, <1>5, Known, KnownTypes DEF MovesAt
  <2> QED
    BY <1>2, <2>1
<1> QED
  BY <1>1, <1>3, <1>4, <1>5

\* A command at work on a feature that is not torn finds it where it was when the command was given.
LEMMA WriterInPlace ==
  ASSUME IInv, Placed, Moved, NEW p \in Process, proc[p].cmd \in Attending, Clean(proc[p].id[1]), proc[p].uid \notin torn
  PROVE  /\ proc[p].id \in Id /\ proc[p].uid \in Uid /\ Quiet(proc[p].id) /\ specs[proc[p].id].uid = proc[p].uid
         /\ InPlace(proc[p].uid, proc[p].id)
<1> DEFINE x == proc[p]
           n == x.id[1]
<1>0. TypeOK /\ Jobs /\ Emits /\ Indexers /\ Numbered /\ JobOK(x)
  BY DEF IInv, Jobs
<1>1. x.uid \in Uid /\ x.id \in Id /\ x.uid \in SettledBy(n) /\ n \in 1..MaxNumber
  BY <1>0, Known
<1>2. n \in Numbers /\ \A u, v \in KnownBy(n) : u = v
  BY <1>0, <1>1, OneUid
<1>3. x.uid \in KnownBy(n)
  BY <1>0, <1>1, KnownTypes
<1>4. PICK h \in Id : specs[h] # Absent /\ h[1] = n
  BY <1>2 DEF Numbers
<1>5. specs[h].uid = x.uid
  BY <1>0, <1>2, <1>3, <1>4, Known, KnownTypes
<1>6. ASSUME NEW q \in Process, MovesAt(q, n) PROVE FALSE
  <2>1. proc[q].uid \in KnownBy(n)
    BY <1>0, <1>6, Known, KnownTypes DEF MovesAt
  <2>2. proc[q].uid = x.uid
    BY <1>2, <1>3, <2>1
  <2> QED
    BY <1>6, <2>2 DEF Moved, MovesAt
<1>7. Quiet(h)
  BY <1>4, <1>5, <1>6 DEF Quiet
<1>8. InPlace(x.uid, h)
  BY <1>5, <1>7 DEF Placed
<1>9. x.id = h
  BY <1>4, <1>8 DEF InPlace, Fits
<1> QED
  BY <1>1, <1>5, <1>7, <1>8, <1>9

\* A rename or an init is at one number by itself.
LEMMA OneIndexer ==
  ASSUME IInv, NEW p \in Process, NEW q \in Process,
         proc[p].at \in Moving \/ (proc[p].cmd = "init" /\ proc[p].at \in {"numbered", "saved"}),
         proc[q].at \in Moving \/ (proc[q].cmd = "init" /\ proc[q].at \in {"numbered", "saved"})
  PROVE  p = q
<1>1. \A r \in {p, q} : proc[r].cmd \in Indexing /\ proc[r].at # "waiting"
  BY DEF IInv, Jobs, JobOK, Indexing, Moving
<1> QED
  BY <1>1, LockedOut DEF IInv

\* When a step of p leaves a directory quiet, no rename was at it but that of p.
LEMMA QuietBefore ==
  ASSUME IInv, [Next]_vars, NEW p \in Process, FeatureStep(p), NEW h \in Id, Quiet(h)', WritesAt(p, h[1])
  PROVE  /\ \A q \in Process : MovesAt(q, h[1]) => q = p
         /\ specs'[h].uid = proc[p].uid /\ proc[p].uid \in Uid /\ proc[p].uid \in KnownBy(h[1])
         /\ proc[p].uid \notin torn' /\ proc[p].uid \notin torn /\ Clean(h[1])
<1>0. TypeOK /\ Jobs /\ Emits /\ Indexers /\ h[1] \in 1..MaxNumber /\ Clean(h[1])
  BY Known, GhostsGrow DEF IInv, Quiet
<1>1. specs'[h].uid = proc[p].uid /\ proc[p].uid \in Uid /\ proc[p].uid \in KnownBy(h[1])
  BY <1>0, WriterUid DEF Quiet
<1>2. proc[p].uid \notin torn' /\ proc[p].uid \notin torn
  BY <1>1, GhostsGrow DEF Quiet
<1>3. ASSUME NEW q \in Process, MovesAt(q, h[1]), q # p PROVE FALSE
  <2>1. proc'[q] = proc[q]
    BY <1>0, <1>3, FeatureTypes DEF JobStep
  <2> QED
    BY <1>3, <2>1 DEF MovesAt, Quiet
<1> QED
  BY <1>0, <1>1, <1>2, <1>3

\* The fields of a record as it is written.
LEMMA SavedFields ==
  ASSUME TypeOK, NEW id \in Id, NEW r \in Record
  PROVE  /\ WithFeature(id, r)[id].feature_id = r.feature_id
         /\ WithFeature(id, r)[id].contract = IF specs[id] = Absent THEN Absent ELSE specs[id].contract
         /\ [r EXCEPT !.archived = TRUE].feature_id = r.feature_id
         /\ \A i \in Id : [r EXCEPT !.feature_id = i].feature_id = i
<1> DEFINE c == IF specs[id] = Absent THEN Absent ELSE specs[id].contract
           s == [r EXCEPT !.contract = c]
<1>1. s.feature_id = r.feature_id /\ s.contract = c
  BY DEF Record
<1>2. WithFeature(id, r) = [specs EXCEPT ![id] = s]
  BY DEF WithFeature
<1>3. [r EXCEPT !.archived = TRUE].feature_id = r.feature_id
  BY DEF Record
<1>4. \A i \in Id : [r EXCEPT !.feature_id = i].feature_id = i
  BY DEF Record
<1>5. c = IF specs[id] = Absent THEN Absent ELSE specs[id].contract
  OBVIOUS
<1> HIDE DEF s, c
<1>6. specs \in [Id -> Record \cup {Absent}]
  BY DEF TypeOK, LifecycleTypeOK
<1>7. WithFeature(id, r)[id] = s
  BY <1>2, <1>6
<1> QED
  BY <1>1, <1>3, <1>4, <1>5, <1>7

\* An archive writes the record it has read.
LEMMA PlacedArchive ==
  ASSUME IInv, Placed, Moved, [Next]_vars, NEW p \in Process, FeatureStep(p), ArchiveSaves(p), WritesAt(p, proc[p].id[1]),
         proc[p].cmd \in Attending, NEW h \in Id, Quiet(h)', h[1] = proc[p].id[1], NEW u, u = specs'[h].uid
  PROVE  InPlace(u, h)'
<1> DEFINE x == proc[p]
           r == [x.feature EXCEPT !.archived = TRUE]
<1>0. TypeOK /\ Jobs /\ Emits /\ Indexers /\ JobOK(x)
  BY DEF IInv, Jobs
<1>1. u = x.uid /\ u \in Uid /\ u \notin torn /\ Clean(h[1])
  BY QuietBefore
<1>2. x.id \in Id /\ InPlace(u, x.id)
  BY <1>1, WriterInPlace
<1>3. x.cmd = "archive" /\ x.feature \in Record /\ x.feature.uid = u /\ x.feature.feature_id = x.id
  BY <1>0, <1>2 DEF ArchiveSaves, JobOK, InPlace, Fits
<1>4. /\ UNCHANGED <<sbf, history, index, told>> /\ specs' = WithFeature(x.id, r)
      /\ r \in Record /\ r.uid = u /\ r.feature_id = x.id
  BY <1>2, <1>3, RecordSet, SavedFields, <1>0 DEF ArchiveSaves, ghosts
<1> HIDE DEF r
<1>5. /\ specs'[x.id] # Absent /\ specs'[x.id].uid = u /\ specs'[x.id].feature_id = x.id
      /\ specs'[x.id].contract = specs[x.id].contract /\ \A i \in Id \ {x.id} : specs'[i] = specs[i]
  BY <1>0, <1>2, <1>4, WithFeatureIs, SavedFields, RecordsAssumption DEF InPlace, DirectoryAt
<1>6. h = x.id
  BY <1>2, <1>5 DEF InPlace, DirectoryAt, Quiet
<1>7. DirectoryAt(u, h, h, h)'
  BY <1>2, <1>5, <1>6 DEF InPlace, DirectoryAt
<1>8. StateAt(u, h, h)' /\ LogAt(u, h)' /\ LastIs(u, h)'
  BY <1>2, <1>4, <1>6 DEF InPlace, StateAt, LogAt, LastIs
<1>9. ASSUME NEW q \in Process, NEW y, y = proc'[q] PROVE Fits(y, u, h)'
  <2>1. CASE q = p
    <3>1. y.cmd = "none"
      BY <1>0, <1>9, <2>1, OversIs DEF Overs
    <3> QED
      BY <3>1 DEF Fits, Attending
  <2>2. CASE q # p
    <3>1. y = proc[q]
      BY <1>0, <1>9, <2>2, FeatureTypes DEF JobStep
    <3>2. Fits(y, u, h)
      BY <1>2, <1>6, <3>1 DEF InPlace
    <3> QED
      BY <1>4, <3>2 DEF Fits
  <2> QED
    BY <2>1, <2>2
<1> QED
  BY <1>7, <1>8, <1>9 DEF InPlace

\* A gate writer saves the state it has loaded, with its gate.
LEMMA PlacedSave ==
  ASSUME IInv, Placed, Moved, StateHolders, [Next]_vars, NEW p \in Process, FeatureStep(p), SaveGates(p),
         WritesAt(p, proc[p].id[1]),
         proc[p].cmd \in Attending, NEW h \in Id, Quiet(h)', h[1] = proc[p].id[1], NEW u, u = specs'[h].uid
  PROVE  InPlace(u, h)'
<1> DEFINE x == proc[p]
           s == [x.state EXCEPT !.gates = x.state.gates \cup {x.gate}]
<1>0. TypeOK /\ Jobs /\ Emits /\ Indexers /\ JobOK(x) /\ sbf \in [Id -> State \cup {Absent}]
  BY DEF IInv, Jobs, TypeOK, LifecycleTypeOK
<1>1. u = x.uid /\ u \in Uid /\ u \notin torn /\ Clean(h[1])
  BY QuietBefore
<1>2. x.id \in Id /\ InPlace(u, x.id)
  BY <1>1, WriterInPlace
<1>3. x.cmd = "gate" /\ x.at = "loaded" /\ x.state \in State /\ x.gate \in Gate
  BY <1>0 DEF SaveGates, JobOK
<1>4. x.state.feature_id = x.id /\ told[u] \subseteq x.state.gates
  BY <1>2, <1>3 DEF InPlace, Fits, Attending
<1>5. s \in State /\ s.feature_id = x.id /\ s.gates = x.state.gates \cup {x.gate}
  BY <1>3, <1>4 DEF State
<1>6. UNCHANGED <<specs, history, index, told>> /\ sbf' = [sbf EXCEPT ![x.id] = s]
  BY DEF SaveGates, ghosts
<1> HIDE DEF s
<1>7. sbf'[x.id] = s /\ s # Absent /\ \A i \in Id \ {x.id} : sbf'[i] = sbf[i]
  BY <1>0, <1>2, <1>5, <1>6, RecordsAssumption
<1>8. h = x.id
  BY <1>2, <1>6 DEF InPlace, DirectoryAt, Quiet
<1>9. DirectoryAt(u, h, h, h)' /\ LogAt(u, h)' /\ LastIs(u, h)'
  BY <1>2, <1>6, <1>8 DEF InPlace, DirectoryAt, LogAt, LastIs
<1>10. StateAt(u, h, h)'
  BY <1>2, <1>4, <1>5, <1>6, <1>7, <1>8 DEF InPlace, StateAt
<1>11. ASSUME NEW q \in Process, NEW y, y = proc'[q] PROVE Fits(y, u, h)'
  <2>1. CASE q = p
    <3>1. y.cmd = "gate" /\ y.at = "saved" /\ y.id = x.id /\ y.uid = x.uid /\ y.gate = x.gate
      BY <1>0, <1>3, <1>11, <2>1, AtSet DEF SaveGates
    <3> QED
      BY <1>1, <1>5, <1>7, <1>8, <3>1 DEF Fits
  <2>2. CASE q # p
    <3>1. y = proc[q]
      BY <1>0, <1>11, <2>2, FeatureTypes DEF JobStep
    <3>2. Fits(y, u, h)
      BY <1>2, <1>8, <3>1 DEF InPlace
    <3>3. ~(y.cmd = "gate" /\ y.at = "saved")
      BY <1>3, <2>2, <3>1 DEF StateHolders, Gating
    <3> QED
      BY <1>6, <3>2, <3>3 DEF Fits
  <2> QED
    BY <2>1, <2>2
<1> QED
  BY <1>9, <1>10, <1>11 DEF InPlace

\* It tells of the gate when the state has it, and logs it.
LEMMA PlacedAppend ==
  ASSUME IInv, Placed, Moved, StateHolders, [Next]_vars, NEW p \in Process, FeatureStep(p), AppendGate(p),
         WritesAt(p, proc[p].id[1]),
         proc[p].cmd \in Attending, NEW h \in Id, Quiet(h)', h[1] = proc[p].id[1], NEW u, u = specs'[h].uid
  PROVE  InPlace(u, h)'
<1> DEFINE x == proc[p]
<1>0. /\ TypeOK /\ Jobs /\ Emits /\ Indexers /\ JobOK(x)
      /\ history \in [Id -> SUBSET Gate] /\ told \in [Uid -> SUBSET Gate]
  BY DEF IInv, Jobs, TypeOK, LifecycleTypeOK
<1>1. u = x.uid /\ u \in Uid /\ u \notin torn /\ Clean(h[1])
  BY QuietBefore
<1>2. x.id \in Id /\ InPlace(u, x.id)
  BY <1>1, WriterInPlace
<1>3. x.cmd = "gate" /\ x.at = "saved" /\ sbf[x.id] # Absent /\ x.gate \in sbf[x.id].gates
  BY <1>2 DEF AppendGate, InPlace, Fits, Attending
<1>4. /\ UNCHANGED <<specs, sbf, index>>
      /\ history' = [history EXCEPT ![x.id] = history[x.id] \cup {x.gate}]
      /\ told' = [told EXCEPT ![u] = told[u] \cup {x.gate}]
  BY <1>1 DEF AppendGate
<1>5. /\ told'[u] = told[u] \cup {x.gate} /\ history'[x.id] = history[x.id] \cup {x.gate}
      /\ \A i \in Id \ {x.id} : history'[i] = history[i]
  BY <1>0, <1>1, <1>2, <1>4
<1>6. h = x.id
  BY <1>2, <1>4 DEF InPlace, DirectoryAt, Quiet
<1>7. DirectoryAt(u, h, h, h)' /\ LastIs(u, h)'
  BY <1>2, <1>4, <1>6 DEF InPlace, DirectoryAt, LastIs
<1>8. StateAt(u, h, h)'
  BY <1>2, <1>3, <1>4, <1>5, <1>6 DEF InPlace, StateAt
<1>9. LogAt(u, h)'
  BY <1>2, <1>5, <1>6 DEF InPlace, LogAt
<1>10. ASSUME NEW q \in Process, NEW y, y = proc'[q] PROVE Fits(y, u, h)'
  <2>1. CASE q = p
    <3>1. y.cmd = "gate" /\ y.at = "done" /\ y.id = x.id /\ y.uid = x.uid
      BY <1>0, <1>3, <1>10, <2>1, AtSet DEF AppendGate
    <3> QED
      BY <1>1, <1>6, <3>1 DEF Fits
  <2>2. CASE q # p
    <3>1. y = proc[q]
      BY <1>0, <1>10, <2>2, FeatureTypes DEF JobStep
    <3>2. Fits(y, u, h)
      BY <1>2, <1>6, <3>1 DEF InPlace
    <3>3. ~(y.cmd = "gate" /\ y.at = "loaded")
      BY <1>3, <2>2, <3>1 DEF StateHolders, Gating
    <3>4. y.cmd \in Attending /\ y.at = "loaded" => FALSE
      BY <1>0, <3>1, <3>3 DEF Jobs, JobOK, Attending
    <3> QED
      BY <1>4, <3>2, <3>4 DEF Fits
  <2> QED
    BY <2>1, <2>2
<1> QED
  BY <1>7, <1>8, <1>9, <1>10 DEF InPlace

\* A number that is chosen has nothing under it when the feature is saved.
LEMMA PlacedInit ==
  ASSUME IInv, Minted, Untaken, [Next]_vars, NEW p \in Process, FeatureStep(p), InitSaves(p), WritesAt(p, proc[p].to[1]),
         NEW h \in Id, Quiet(h)', h[1] = proc[p].to[1], NEW u, u = specs'[h].uid
  PROVE  InPlace(u, h)'
<1> DEFINE x == proc[p]
           n == h[1]
           r == [uid |-> x.uid, feature_id |-> x.to, archived |-> FALSE, contract |-> Absent]
<1>0. /\ TypeOK /\ Jobs /\ Emits /\ Indexers /\ JobOK(x) /\ Numbered /\ n \in 1..MaxNumber
      /\ specs \in [Id -> Record \cup {Absent}] /\ index.by_uid \in [Uid -> Seq(Id)]
  BY Known DEF IInv, Jobs, TypeOK, LifecycleTypeOK, Index
<1>1. u = x.uid /\ u \in Uid /\ u \in KnownBy(n) /\ Clean(n)
  BY QuietBefore
<1>2. x.cmd = "init" /\ x.at = "numbered" /\ x.to \in Id
  BY <1>0 DEF InitSaves, JobOK
<1>3. SettledBy(n) = {}
  BY <1>0, <1>1, <1>2, OneUid DEF Minted
<1>4. \A i \in Id : i[1] = n => specs[i] = Absent
  BY <1>0, <1>3, Known
<1>5. \A i \in Id : i[1] = n => sbf[i] = Absent /\ history[i] = {}
  <2>1. n \notin Numbers
    BY <1>4 DEF Numbers
  <2> QED
    BY <1>1, <2>1 DEF Untaken
<1>6. /\ UNCHANGED <<sbf, history, index, told>> /\ specs' = [specs EXCEPT ![x.to] = r]
      /\ r \in Record /\ r.uid = u /\ r.feature_id = x.to /\ r.contract = Absent
  BY <1>1, <1>2 DEF InitSaves, ghosts, Record
<1> HIDE DEF r
<1>7. specs'[x.to] = r /\ r # Absent /\ \A i \in Id \ {x.to} : specs'[i] = specs[i]
  BY <1>0, <1>2, <1>6, RecordsAssumption
<1>8. h = x.to
  BY <1>4, <1>7 DEF Quiet
<1>9. DirectoryAt(u, h, h, h)'
  BY <1>4, <1>6, <1>7, <1>8 DEF DirectoryAt
<1>10. told'[u] = {}
  BY <1>1, <1>2, <1>6, <1>8 DEF Untaken
<1>11. StateAt(u, h, h)' /\ LogAt(u, h)'
  BY <1>5, <1>6, <1>10 DEF StateAt, LogAt
<1>12. index.by_uid[u] = <<>>
  <2>1. SUFFICES ASSUME index.by_uid[u] # <<>> PROVE FALSE
    OBVIOUS
  <2>2. index.by_uid[u] \in Seq(Id) /\ 1 \in 1..Len(index.by_uid[u])
    BY <1>0, <1>1, <2>1
  <2>3. PICK i \in Id : i \in Ids(u, index)
    BY <2>2 DEF Ids
  <2>4. Listed(u, i[1]) /\ i[1] \in 1..MaxNumber
    BY <1>0, <2>3, Known DEF Listed
  <2>5. u \in SettledBy(i[1]) /\ u \in KnownBy(i[1])
    BY <1>1, <2>4 DEF SettledBy, KnownBy, Listed
  <2>6. i[1] = n
    BY <1>0, <1>1, <2>4, <2>5 DEF Minted
  <2> QED
    BY <1>3, <2>5, <2>6
<1>13. LastIs(u, h)'
  BY <1>6, <1>12 DEF LastIs
<1>14. ASSUME NEW q \in Process, NEW y, y = proc'[q] PROVE Fits(y, u, h)'
  <2>1. CASE q = p
    <3>1. y.cmd = "init" /\ y.to = x.to /\ y.uid = x.uid
      BY <1>0, <1>2, <1>14, <2>1, AtSet DEF InitSaves
    <3> QED
      BY <1>1, <1>8, <3>1 DEF Fits, Attending
  <2>2. CASE q # p
    <3>1. y = proc[q]
      BY <1>0, <1>14, <2>2, FeatureTypes DEF JobStep
    <3>2. ~(y.cmd \in Attending /\ y.id[1] = n)
      BY <1>0, <1>3, <3>1, Known
    <3>3. ~(y.cmd = "init" /\ y.at = "saved" /\ y.to[1] = n)
      BY <1>0, <1>3, <3>1, Known
    <3> QED
      BY <3>2, <3>3 DEF Fits
  <2> QED
    BY <2>1, <2>2
<1> QED
  BY <1>9, <1>11, <1>13, <1>14 DEF InPlace

\* Then it is listed.
LEMMA PlacedIndexed ==
  ASSUME IInv, Placed, [Next]_vars, NEW p \in Process, FeatureStep(p), InitIndexes(p), WritesAt(p, proc[p].to[1]),
         NEW h \in Id, Quiet(h)', h[1] = proc[p].to[1], NEW u, u = specs'[h].uid
  PROVE  InPlace(u, h)'
<1> DEFINE x == proc[p]
           n == h[1]
<1>0. /\ TypeOK /\ Jobs /\ Emits /\ Indexers /\ JobOK(x) /\ index \in Index
  BY DEF IInv, Jobs, TypeOK, LifecycleTypeOK
<1>1. u = x.uid /\ u \in Uid /\ Clean(n) /\ u \notin torn /\ \A q \in Process : MovesAt(q, n) => q = p
  BY QuietBefore
<1>2. x.cmd = "init" /\ x.at = "saved" /\ UNCHANGED <<specs, sbf, history, told>>
  BY DEF InitIndexes, ghosts, files
<1>3. Quiet(h) /\ InPlace(u, h)
  <2>1. ~MovesAt(p, n)
    BY <1>2 DEF MovesAt, Moving
  <2>2. Quiet(h)
    BY <1>1, <1>2, <2>1 DEF Quiet
  <2> QED
    BY <1>2, <2>2 DEF Placed
<1>4. x.to = h
  BY <1>2, <1>3 DEF InPlace, Fits
<1>5. index'.by_uid[u] = <<h>>
  <2>1. index.by_uid \in [Uid -> Seq(Id)]
    BY <1>0 DEF Index
  <2>2. index'.by_uid = [index.by_uid EXCEPT ![u] = <<h>>]
    BY <1>0, <1>1, <1>4 DEF InitIndexes, Index
  <2> QED
    BY <1>1, <2>1, <2>2
<1>6. LastIs(u, h)'
  BY <1>5 DEF LastIs, Last
<1>7. DirectoryAt(u, h, h, h)' /\ StateAt(u, h, h)' /\ LogAt(u, h)'
  BY <1>2, <1>3 DEF InPlace, DirectoryAt, StateAt, LogAt
<1>8. ASSUME NEW q \in Process, NEW y, y = proc'[q] PROVE Fits(y, u, h)'
  <2>1. CASE q = p
    <3>1. y.cmd = "init" /\ y.at = "done"
      BY <1>0, <1>2, <1>8, <2>1, AtSet DEF InitIndexes
    <3> QED
      BY <3>1 DEF Fits, Attending
  <2>2. CASE q # p
    <3>1. y = proc[q]
      BY <1>0, <1>8, <2>2, FeatureTypes DEF JobStep
    <3> QED
      BY <1>2, <1>3, <3>1 DEF InPlace, Fits
  <2> QED
    BY <2>1, <2>2
<1> QED
  BY <1>6, <1>7, <1>8 DEF InPlace

\* The last of a sequence is what was appended.
LEMMA LastOfAppend ==
  ASSUME NEW S, NEW s \in Seq(S), NEW e \in S
  PROVE  Last(Append(s, e)) = e
BY DEF Last

\* A rename ends with everything under the new id.
LEMMA PlacedRenamed ==
  ASSUME IInv, Moved, [Next]_vars, NEW p \in Process, FeatureStep(p), RenameIndexes(p), WritesAt(p, proc[p].id[1]),
         NEW h \in Id, Quiet(h)', h[1] = proc[p].id[1], NEW u, u = specs'[h].uid
  PROVE  InPlace(u, h)'
<1> DEFINE x == proc[p]
           n == h[1]
           known == index.by_uid[u]
           ids == Append(IF known = <<>> THEN <<x.id>> ELSE known, x.to)
<1>0. /\ TypeOK /\ Jobs /\ Emits /\ Indexers /\ JobOK(x) /\ index \in Index /\ index.by_uid \in [Uid -> Seq(Id)]
  BY DEF IInv, Jobs, TypeOK, LifecycleTypeOK, Index
<1>1. u = x.uid /\ u \in Uid /\ Clean(n) /\ u \notin torn
  BY QuietBefore
<1>2. /\ x.at = "ownersDone" /\ x.at \in Moving /\ x.id \in Id /\ x.to \in Id /\ x.to[1] = n /\ x.index = index
      /\ UNCHANGED <<specs, sbf, history, told>>
  BY <1>0 DEF RenameIndexes, JobOK, Moving, Indexers, ghosts, files
<1>3. MoveOK(x) /\ \A q \in Process : proc[q].cmd \in Attending => proc[q].id[1] # n
  BY <1>1, <1>2 DEF Moved
<1>4. DirectoryAt(u, x.to, x.to, x.to) /\ StateAt(u, x.to, x.to) /\ LogAt(u, x.to)
  BY <1>1, <1>2, <1>3 DEF MoveOK
<1>5. h = x.to
  BY <1>2, <1>4 DEF DirectoryAt, Quiet
<1>6. known \in Seq(Id) /\ Last(ids) = h
  <2>1. known \in Seq(Id)
    BY <1>0, <1>1
  <2>2. (IF known = <<>> THEN <<x.id>> ELSE known) \in Seq(Id)
    BY <1>2, <2>1
  <2> QED
    BY <1>2, <1>5, <2>1, <2>2, LastOfAppend
<1>7. index'.by_uid[u] = ids
  <2>1. index' = [index EXCEPT !.by_uid = [index.by_uid EXCEPT ![u] = ids]]
    BY <1>1, <1>2 DEF RenameIndexes
  <2> HIDE DEF ids
  <2>2. index'.by_uid = [index.by_uid EXCEPT ![u] = ids]
    BY <1>0, <2>1 DEF Index
  <2> QED
    BY <1>0, <1>1, <2>2
<1>8. LastIs(u, h)'
  BY <1>6, <1>7 DEF LastIs
<1>9. DirectoryAt(u, h, h, h)' /\ StateAt(u, h, h)' /\ LogAt(u, h)'
  BY <1>2, <1>4, <1>5 DEF DirectoryAt, StateAt, LogAt
<1>10. ASSUME NEW q \in Process, NEW y, y = proc'[q] PROVE Fits(y, u, h)'
  <2>1. CASE q = p
    <3>1. y.cmd = "rename"
      BY <1>0, <1>2, <1>10, <2>1, AtSet DEF RenameIndexes, JobOK
    <3> QED
      BY <3>1 DEF Fits, Attending
  <2>2. CASE q # p
    <3>1. y = proc[q]
      BY <1>0, <1>10, <2>2, FeatureTypes DEF JobStep
    <3>2. ~(y.cmd \in Attending /\ y.id[1] = n)
      BY <1>3, <3>1
    <3>3. ~(y.cmd = "init" /\ y.at = "saved")
      BY <1>2, <2>2, <3>1, OneIndexer
    <3> QED
      BY <3>2, <3>3 DEF Fits
  <2> QED
    BY <2>1, <2>2
<1> QED
  BY <1>8, <1>9, <1>10 DEF InPlace

\* A rename at work stays at work, unless its directory is not there or the new one is.
LEMMA StaysMoving ==
  ASSUME IInv, NEW p \in Process, RenameStays(p)
  PROVE  /\ proc'[p].id = proc[p].id /\ proc'[p].to = proc[p].to /\ proc'[p].uid = proc[p].uid
         /\ proc'[p].cmd = proc[p].cmd /\ proc'[p].feature = proc[p].feature
         /\ \/ proc'[p].at \in Moving
            \/ RenameDirectory(p) /\ (specs[proc[p].id] = Absent \/ specs[proc[p].to] # Absent)
<1>0. TypeOK /\ proc[p] \in Job /\ proc \in [Process -> Job] /\ manifest \in Manifest /\ JobOK(proc[p])
      /\ sbf \in [Id -> State \cup {Absent}]
  BY DEF IInv, TypeOK, LifecycleTypeOK, Jobs
<1>1. /\ proc'[p].id = proc[p].id /\ proc'[p].to = proc[p].to /\ proc'[p].uid = proc[p].uid
      /\ proc'[p].cmd = proc[p].cmd /\ proc'[p].feature = proc[p].feature
  BY <1>0, StaysIs DEF Stays
<1>2. CASE RenameReadsState(p)
  BY <1>0, <1>1, <1>2 DEF RenameReadsState, Job, Moving, JobOK
<1>3. CASE RenameReadsManifest(p)
  BY <1>0, <1>1, <1>3 DEF RenameReadsManifest, Job, Moving
<1>4. CASE RenameDirectory(p) /\ ~(specs[proc[p].id] = Absent \/ specs[proc[p].to] # Absent)
  BY <1>0, <1>1, <1>4, AtSet DEF RenameDirectory, Moving
<1>5. CASE RenameContracts(p) \/ RenameWritesFeature(p) \/ RenameState(p) \/ RenameWritesState(p)
           \/ RenameHistory(p) \/ RenameWritesOwners(p)
  BY <1>0, <1>1, <1>5, AtSet DEF RenameContracts, RenameWritesFeature, RenameState, RenameWritesState, RenameHistory,
     RenameWritesOwners, Moving
<1> QED
  BY <1>1, <1>2, <1>3, <1>4, <1>5 DEF RenameStays

\* What a killed command leaves is as it was; of a rename it is torn.
LEMMA PlacedCrash ==
  ASSUME IInv, Placed, [Next]_vars, NEW p \in Process, FeatureStep(p), Crash(p),
         NEW h \in Id, Quiet(h)', WritesAt(p, h[1]), NEW u, u = specs'[h].uid
  PROVE  InPlace(u, h)'
<1> DEFINE x == proc[p]
           n == h[1]
<1>0. /\ TypeOK /\ Jobs /\ Emits /\ Indexers /\ JobOK(x)
  BY DEF IInv, Jobs
<1>1. /\ u = x.uid /\ u \in Uid /\ Clean(n) /\ u \notin torn' /\ u \notin torn
      /\ \A q \in Process : MovesAt(q, n) => q = p
  BY QuietBefore
<1>2. UNCHANGED <<specs, sbf, history, index, told>>
  BY DEF Crash, files
<1>3. ~(x.at \in Moving)
  BY <1>0, <1>1 DEF Crash, JobOK
<1>4. Quiet(h)
  BY <1>1, <1>2, <1>3 DEF Quiet, MovesAt
<1>5. InPlace(u, h)
  BY <1>2, <1>4 DEF Placed
<1>6. DirectoryAt(u, h, h, h)' /\ StateAt(u, h, h)' /\ LogAt(u, h)' /\ LastIs(u, h)'
  BY <1>2, <1>5 DEF InPlace, DirectoryAt, StateAt, LogAt, LastIs
<1>7. ASSUME NEW q \in Process, NEW y, y = proc'[q] PROVE Fits(y, u, h)'
  <2>1. y = proc[q] \/ Crash(q)
    BY <1>0, <1>7, FeatureTypes DEF JobStep
  <2> QED
    BY <1>1, <1>2, <1>5, <1>7, <2>1, FitsKept DEF InPlace
<1> QED
  BY <1>6, <1>7 DEF InPlace

\* A quiet directory stays the one place of its feature, or becomes it, whatever the step.
LEMMA PlacedKept ==
  ASSUME IInv, Minted, StateHolders, Untaken, Placed, Moved, [Next]_vars
  PROVE  Placed'
<1>0. TypeOK /\ Jobs /\ Emits /\ Indexers
  BY DEF IInv
<1>1. SUFFICES ASSUME NEW h \in Id, Quiet(h)', NEW u, u = specs'[h].uid PROVE InPlace(u, h)'
  BY DEF Placed, InPlace, DirectoryAt, StateAt, LogAt, LastIs, Fits
<1>2. CASE ~\E p \in Process : FeatureStep(p) /\ WritesAt(p, h[1])
  BY <1>1, <1>2, PlacedStill
<1>3. ASSUME NEW p \in Process, FeatureStep(p), WritesAt(p, h[1]) PROVE InPlace(u, h)'
  <2> DEFINE x == proc[p]
  <2>1. CASE Crash(p)
    BY <1>1, <1>3, <2>1, PlacedCrash
  <2>2. CASE x.cmd = "init" /\ (InitSaves(p) \/ InitIndexes(p))
    <3>1. x.to[1] = h[1]
      BY <1>0, <1>3, <2>2 DEF WritesAt, Jobs, JobOK, Moving
    <3> QED
      BY <1>1, <1>3, <2>2, <3>1, PlacedInit, PlacedIndexed
  <2>3. CASE x.cmd \in Attending /\ x.id[1] = h[1] /\ (ArchiveSaves(p) \/ SaveGates(p) \/ AppendGate(p))
    BY <1>1, <1>3, <2>3, PlacedArchive, PlacedSave, PlacedAppend
  <2>4. CASE x.at \in Moving /\ x.id[1] = h[1] /\ RenameIndexes(p)
    BY <1>1, <1>3, <2>4, PlacedRenamed
  <2>5. CASE x.cmd = "rename" /\ x.at \in Moving /\ x.id[1] = h[1] /\ (RenameReadsFeature(p) \/ RenameStays(p))
    <3>1. u = x.uid /\ u \notin torn' /\ u \notin torn /\ Clean(h[1])
      BY <1>1, <1>3, QuietBefore
    <3>2. ~(proc'[p].at \in Moving /\ proc'[p].id = x.id)
      BY <1>1, <2>5 DEF Quiet, MovesAt
    <3>3. CASE RenameReadsFeature(p)
      <4>1. specs[x.to] # Absent
        BY <3>1, <3>3 DEF RenameReadsFeature
      <4>2. proc'[p].at = "featureRead" /\ proc'[p].id = x.id
        <5>1. proc' = [proc EXCEPT ![p] = [proc[p] EXCEPT !.at = "featureRead", !.feature = specs[proc[p].to]]]
          BY <3>3, <4>1 DEF RenameReadsFeature
        <5>2. proc \in [Process -> Job] /\ x \in Job
          BY <1>0 DEF TypeOK, LifecycleTypeOK
        <5> QED
          BY <5>1, <5>2 DEF Job
      <4> QED
        BY <3>2, <4>2 DEF Moving
    <3>4. CASE RenameStays(p)
      <4>1. RenameDirectory(p) /\ (specs[x.id] = Absent \/ specs[x.to] # Absent)
        BY <3>2, <3>4, StaysMoving
      <4>2. MoveOK(x) /\ x.at = "checked"
        BY <2>5, <3>1, <4>1 DEF Moved, RenameDirectory
      <4>3. DirectoryAt(x.uid, x.id, x.id, x.id)
        BY <4>2 DEF MoveOK
      <4>4. x.to \in Id /\ x.to[1] = x.id[1] /\ x.to # x.id
        BY <1>0, <2>5 DEF Jobs, JobOK
      <4> QED
        BY <4>1, <4>3, <4>4 DEF DirectoryAt
    <3> QED
      BY <2>5, <3>3, <3>4
  <2> QED
    BY <1>3, <2>1, <2>2, <2>3, <2>4, <2>5, WritesWhat
<1> QED
  BY <1>2, <1>3

-----------------------------------------------------------------------------
(* A feature that is being renamed.                                        *)

\* Who starts on a feature that is being renamed tears it.
LEMMA StartTears ==
  ASSUME IInv, NEW q \in Process, Starts(q), proc'[q].cmd \in Attending, NEW p \in Process, p # q,
         proc[p].cmd = "rename", proc[p].at \in Moving, proc'[q].id \in {proc[p].id, proc[p].to}
  PROVE  proc'[q].uid \in torn'
<1>0. proc \in [Process -> Job]
  BY DEF IInv, TypeOK, LifecycleTypeOK
<1>1. ASSUME NEW r, r \in Job, Begins(q, r) PROVE proc'[q].uid \in torn'
  <2>1. proc'[q] = r
    BY <1>0, <1>1 DEF Begins
  <2>2. p \in Working(q, {r.id}, {"rename"})
    BY <2>1 DEF Working
  <2> QED
    BY <1>1, <2>1, <2>2 DEF Begins, Attending
<1>2. ASSUME NEW r \in Job, proc' = [proc EXCEPT ![q] = r] PROVE proc'[q] = r
  BY <1>0, <1>2
<1>3. CASE \E id \in Id : StartArchive(q, id)
  <2>1. PICK id \in Id : StartArchive(q, id)
    BY <1>3
  <2> DEFINE r == [Idle EXCEPT !.cmd = "archive", !.at = "read", !.id = id, !.uid = specs[id].uid, !.feature = specs[id]]
  <2>2. specs[id] \in Record /\ specs[id].uid \in Uid
    BY <2>1, RecordIs DEF StartArchive, IInv
  <2>3. r \in Job
    BY <2>2, IdleIsJob DEF Job, Commands
  <2>4. Begins(q, r)
    BY <2>1 DEF StartArchive
  <2> HIDE DEF r
  <2> QED
    BY <1>1, <2>3, <2>4
<1>4. CASE \E id \in Id, gate \in Gate : StartGate(q, id, gate)
  <2>1. PICK id \in Id, gate \in Gate : StartGate(q, id, gate)
    BY <1>4
  <2> DEFINE r == [Idle EXCEPT !.cmd = "gate", !.at = "waiting", !.id = id, !.gate = gate, !.uid = specs[id].uid]
  <2>2. specs[id] \in Record /\ specs[id].uid \in Uid
    BY <2>1, RecordIs DEF StartGate, IInv
  <2>3. r \in Job
    BY <2>2, IdleIsJob DEF Job, Commands
  <2>4. Begins(q, r)
    BY <2>1 DEF StartGate
  <2> HIDE DEF r
  <2> QED
    BY <1>1, <2>3, <2>4
<1>5. CASE \E id \in Id, force, enforce \in BOOLEAN : StartEmit(q, id, force, enforce)
  <2>1. PICK id \in Id, force \in BOOLEAN, enforce \in BOOLEAN : StartEmit(q, id, force, enforce)
    BY <1>5
  <2> DEFINE r == [Idle EXCEPT !.cmd = "emit", !.at = "emitting", !.id = id, !.uid = specs[id].uid]
  <2>2. specs[id] \in Record /\ specs[id].uid \in Uid
    BY <2>1, RecordIs DEF StartEmit, IInv
  <2>3. r \in Job
    BY <2>2, IdleIsJob DEF Job, Commands
  <2>4. Begins(q, r)
    BY <2>1 DEF StartEmit
  <2> HIDE DEF r
  <2> QED
    BY <1>1, <2>3, <2>4
<1>6. CASE \/ \E slug \in Slug : StartInit(q, slug) \/ \E id \in Id : StartRename(q, id, slug)
           \/ \E id, alias \in Id : StartLink(q, id, alias)
  <2>1. proc'[q].cmd \in {"init", "rename", "link"}
    <3>1. ASSUME NEW r, Begins(q, r) PROVE proc'[q] = r
      BY <1>0, <3>1 DEF Begins
    <3>2. ASSUME NEW slug \in Slug, StartInit(q, slug) PROVE proc'[q].cmd = "init"
      <4> DEFINE r == [Idle EXCEPT !.cmd = "init", !.at = "waiting", !.id = <<1, slug>>]
      <4>1. r.cmd = "init" /\ Begins(q, r)
        BY <3>2 DEF StartInit, Idle
      <4> HIDE DEF r
      <4> QED
        BY <3>1, <4>1
    <3>3. ASSUME NEW slug \in Slug, NEW id \in Id, StartRename(q, id, slug) PROVE proc'[q].cmd = "rename"
      <4> DEFINE r == [Idle EXCEPT !.cmd = "rename", !.at = "waiting", !.id = id, !.to = <<id[1], slug>>]
      <4>1. r.cmd = "rename" /\ Begins(q, r)
        BY <3>3 DEF StartRename, Idle
      <4> HIDE DEF r
      <4> QED
        BY <3>1, <4>1
    <3>4. ASSUME NEW id \in Id, NEW alias \in Id, StartLink(q, id, alias) PROVE proc'[q].cmd = "link"
      <4> DEFINE r == [Idle EXCEPT !.cmd = "link", !.at = "waiting", !.id = alias, !.to = id]
      <4>1. r.cmd = "link" /\ Begins(q, r)
        BY <3>4 DEF StartLink, Idle
      <4> HIDE DEF r
      <4> QED
        BY <3>1, <4>1
    <3> QED
      BY <1>6, <3>2, <3>3, <3>4
  <2> QED
    BY <2>1 DEF Attending
<1> QED
  BY <1>3, <1>4, <1>5, <1>6 DEF Starts

\* While nobody writes under its number it stays as it is.
LEMMA MovedStill ==
  ASSUME IInv, Minted, Moved, [Next]_vars, NEW p \in Process, ~FeatureStep(p), NEW x, x = proc[p], x.at \in Moving,
         Clean(x.id[1])', x.uid \notin torn'
  PROVE  /\ MoveOK(x)'
         /\ \A q \in Process : proc'[q].cmd \in Attending => proc'[q].id[1] # x.id[1]
<1> DEFINE n == x.id[1]
<1>0. TypeOK /\ Jobs /\ Emits /\ Indexers /\ JobOK(x)
  BY DEF IInv, Jobs
<1>1. /\ x.cmd = "rename" /\ x.id \in Id /\ x.to \in Id /\ x.to[1] = n /\ n \in 1..MaxNumber /\ x.uid \in Uid
      /\ x.uid \in KnownBy(n)
  BY <1>0, Known, KnownTypes DEF JobOK
<1>2. x.uid \notin torn /\ Clean(n)
  BY GhostsGrow
<1>3. MoveOK(x) /\ \A q \in Process : proc[q].cmd \in Attending => proc[q].id[1] # n
  BY <1>2 DEF Moved
<1>4. ~\E q \in Process : FeatureStep(q) /\ WritesAt(q, n)
  <2>1. SUFFICES ASSUME NEW q \in Process, FeatureStep(q), WritesAt(q, n) PROVE FALSE
    OBVIOUS
  <2>2. q # p
    BY <2>1
  <2>3. ~(proc[q].at \in Moving) /\ ~(proc[q].cmd = "init" /\ proc[q].at \in {"numbered", "saved"})
    BY <2>2, OneIndexer
  <2>4. proc[q].cmd \in Attending /\ proc[q].id[1] = n
    BY <1>0, <2>1, <2>3 DEF WritesAt, Jobs, JobOK, Attending
  <2> QED
    BY <1>3, <2>4
<1>5. Still(n)
  BY <1>1, <1>4, StillAway
<1>6. told'[x.uid] = told[x.uid] /\ index'.by_uid[x.uid] = index.by_uid[x.uid]
  BY <1>1, <1>5 DEF Still
<1>7. MoveOK(x)'
  <2>1. \A i, j, k \in Id : i[1] = n /\ DirectoryAt(x.uid, i, j, k) => DirectoryAt(x.uid, i, j, k)'
    BY <1>5 DEF Still, DirectoryAt
  <2>2. \A i, j \in Id : i[1] = n /\ StateAt(x.uid, i, j) => StateAt(x.uid, i, j)'
    BY <1>5, <1>6 DEF Still, StateAt
  <2>3. \A i \in Id : i[1] = n /\ LogAt(x.uid, i) => LogAt(x.uid, i)'
    BY <1>5, <1>6 DEF Still, LogAt
  <2>4. \A i \in Id : LastIs(x.uid, i) => LastIs(x.uid, i)'
    BY <1>6 DEF LastIs
  <2>5. specs'[x.to] = specs[x.to] /\ sbf'[x.to] = sbf[x.to]
    BY <1>1, <1>5 DEF Still
  <2> QED
    BY <1>1, <1>3, <2>1, <2>2, <2>3, <2>4, <2>5 DEF MoveOK
<1>8. ASSUME NEW q \in Process, proc'[q].cmd \in Attending, proc'[q].id[1] = n PROVE FALSE
  <2>1. proc'[q] # proc[q]
    BY <1>3, <1>8
  <2>2. proc'[p] = proc[p]
    <3>1. ~EmitStep(p)
      BY <1>1, EmitsWhere DEF Moving
    <3> QED
      BY <3>1, OneGoes DEF JobStep
  <2>3. q # p /\ (FeatureStep(q) \/ EmitStep(q))
    BY <2>1, <2>2, OneGoes DEF JobStep
  <2>4. Starts(q) /\ proc'[q].id \in Id /\ specs[proc'[q].id] # Absent /\ proc'[q].uid = specs[proc'[q].id].uid
    BY <1>3, <1>8, <2>1, <2>3, AttendingFrom
  <2>5. proc'[q].id \in {x.id, x.to} /\ specs[proc'[q].id].uid = x.uid
    <3>1. DirectoryAt(x.uid, x.id, x.id, x.id) \/ DirectoryAt(x.uid, x.to, x.id, x.id)
          \/ DirectoryAt(x.uid, x.to, x.id, x.to) \/ DirectoryAt(x.uid, x.to, x.to, x.to)
      BY <1>3 DEF MoveOK, Moving
    <3> QED
      BY <1>1, <1>8, <2>4, <3>1 DEF DirectoryAt
  <2>6. proc'[q].uid \in torn'
    BY <1>1, <1>8, <2>3, <2>4, <2>5, StartTears
  <2> QED
    BY <2>4, <2>5, <2>6
<1> QED
  BY <1>7, <1>8

\* The step of a rename that moves or rewrites one file brings the feature from one shape to the next.
LEMMA MovedStep ==
  ASSUME IInv, NEW p \in Process, NEW x, x = proc[p], x.at \in Moving, MoveOK(x), NEW y, y = proc'[p], y.at \in Moving,
         RenameReadsFeature(p) \/ RenameStays(p)
  PROVE  MoveOK(y)'
<1> DEFINE u == x.uid
           n == x.id[1]
<1> USE DEF files, locks, ghosts
<1>0. /\ TypeOK /\ JobOK(x) /\ x \in Job /\ proc \in [Process -> Job] /\ manifest \in Manifest
      /\ specs \in [Id -> Record \cup {Absent}] /\ sbf \in [Id -> State \cup {Absent}] /\ history \in [Id -> SUBSET Gate]
  BY DEF IInv, TypeOK, LifecycleTypeOK, Jobs
<1>1. /\ x.cmd = "rename" /\ x.id \in Id /\ x.to \in Id /\ x.to[1] = n /\ x.to # x.id /\ u \in Uid
      /\ x.at = "featureRead" => x.feature \in Record
      /\ x.at = "stateRead" => x.state \in State
  BY <1>0 DEF JobOK
<1>2. y.id = x.id /\ y.to = x.to /\ y.uid = u
  <2>1. CASE RenameStays(p)
    BY <2>1, StaysMoving
  <2>2. CASE RenameReadsFeature(p)
    BY <1>0, <2>2, ChoosesIs DEF Moving, Stays
  <2> QED
    BY <2>1, <2>2
<1>3. UNCHANGED <<index, told>>
  BY DEF RenameStays, RenameDirectory, RenameContracts, RenameReadsFeature, RenameWritesFeature, RenameState,
     RenameReadsState, RenameWritesState, RenameHistory, RenameReadsManifest, RenameWritesOwners
<1>4. LastIs(u, x.id)'
  BY <1>3 DEF LastIs, MoveOK
<1>5. /\ specs' = specs => \A i, j, k \in Id : DirectoryAt(u, i, j, k) => DirectoryAt(u, i, j, k)'
      /\ sbf' = sbf => \A i, j \in Id : StateAt(u, i, j) => StateAt(u, i, j)'
      /\ history' = history => \A i \in Id : LogAt(u, i) => LogAt(u, i)'
  BY <1>3 DEF DirectoryAt, StateAt, LogAt
<1>6. CASE RenameDirectory(p)
  <2>1. x.at = "checked" /\ UNCHANGED <<sbf, history>>
    BY <1>6 DEF RenameDirectory
  <2>2. specs[x.id] # Absent /\ specs[x.to] = Absent
    <3>1. DirectoryAt(u, x.id, x.id, x.id)
      BY <2>1 DEF MoveOK
    <3> QED
      BY <1>1, <3>1 DEF DirectoryAt
  <2>3. specs' = [specs EXCEPT ![x.to] = specs[x.id], ![x.id] = Absent] /\ y.at = "moved"
    BY <1>0, <1>6, <2>2, AtSet DEF RenameDirectory, Moving
  <2>4. specs'[x.to] = specs[x.id] /\ specs'[x.id] = Absent /\ \A i \in Id \ {x.id, x.to} : specs'[i] = specs[i]
    BY <1>0, <1>1, <2>3
  <2>5. DirectoryAt(u, x.to, x.id, x.id)'
    BY <1>1, <2>1, <2>4 DEF MoveOK, DirectoryAt
  <2>6. StateAt(u, x.id, x.id)' /\ LogAt(u, x.id)'
    BY <1>1, <1>5, <2>1 DEF MoveOK
  <2> QED
    BY <1>2, <1>4, <2>3, <2>5, <2>6 DEF MoveOK
<1>7. CASE RenameContracts(p)
  <2> DEFINE now == specs[x.to]
             new == [now EXCEPT !.contract = x.to]
  <2>1. x.at = "moved" /\ UNCHANGED <<sbf, history>> /\ y.at = "contracts"
    BY <1>0, <1>7, AtSet DEF RenameContracts, Moving
  <2>2. DirectoryAt(u, x.to, x.id, x.id)
    BY <2>1 DEF MoveOK
  <2>3. now \in Record /\ now.uid = u /\ now.feature_id = x.id /\ now.contract \in {x.id, Absent}
    BY <1>0, <1>1, <2>2 DEF DirectoryAt
  <2>4. specs' = IF now.contract = x.id THEN [specs EXCEPT ![x.to] = new] ELSE specs
    BY <1>7, <2>2 DEF RenameContracts, DirectoryAt
  <2>5. new \in Record /\ new.uid = u /\ new.feature_id = x.id /\ new.contract = x.to
    BY <1>1, <2>3 DEF Record
  <2>6. new # Absent
    BY <2>5, RecordsAssumption
  <2> HIDE DEF new
  <2>7. /\ specs'[x.to] # Absent /\ specs'[x.to].uid = u /\ specs'[x.to].feature_id = x.id
        /\ specs'[x.to].contract \in {x.to, Absent} /\ \A i \in Id \ {x.to} : specs'[i] = specs[i]
    <3>1. CASE now.contract = x.id
      BY <1>0, <1>1, <2>4, <2>5, <2>6, <3>1
    <3>2. CASE now.contract # x.id
      BY <2>2, <2>3, <2>4, <3>2 DEF DirectoryAt
    <3> QED
      BY <3>1, <3>2
  <2>8. DirectoryAt(u, x.to, x.id, x.to)'
    BY <2>2, <2>7 DEF DirectoryAt
  <2>9. StateAt(u, x.id, x.id)' /\ LogAt(u, x.id)'
    BY <1>1, <1>5, <2>1 DEF MoveOK
  <2> QED
    BY <1>2, <1>4, <2>1, <2>8, <2>9 DEF MoveOK
<1>8. CASE RenameReadsFeature(p)
  <2>1. x.at = "contracts" /\ UNCHANGED <<specs, sbf, history>>
    BY <1>8 DEF RenameReadsFeature
  <2>2. y.at = "featureRead" /\ y.feature = specs[x.to]
    BY <1>0, <1>8, ChoosesIs DEF Moving
  <2>3. DirectoryAt(u, x.to, x.id, x.to)' /\ StateAt(u, x.id, x.id)' /\ LogAt(u, x.id)'
    BY <1>1, <1>5, <2>1 DEF MoveOK
  <2> QED
    BY <1>2, <1>4, <2>1, <2>2, <2>3 DEF MoveOK
<1>9. CASE RenameWritesFeature(p)
  <2> DEFINE r == [x.feature EXCEPT !.feature_id = x.to]
  <2>1. x.at = "featureRead" /\ UNCHANGED <<sbf, history>> /\ y.at = "featureWritten"
    BY <1>0, <1>9, AtSet DEF RenameWritesFeature, Moving
  <2>2. DirectoryAt(u, x.to, x.id, x.to) /\ x.feature = specs[x.to] /\ x.feature \in Record
    BY <1>1, <2>1 DEF MoveOK
  <2>3. specs' = WithFeature(x.to, r)
    BY <1>9, <2>2 DEF RenameWritesFeature, DirectoryAt
  <2>4. r \in Record /\ r.uid = u /\ r.feature_id = x.to
    <3>1. x.feature.uid = u
      BY <2>2 DEF DirectoryAt
    <3> QED
      BY <1>1, <2>2, <3>1 DEF Record
  <2> HIDE DEF r
  <2>a. x.to \in Id /\ specs[x.to] # Absent
    BY <1>0, <1>1, <2>2 DEF DirectoryAt
  <2>b. specs'[x.to] \in Record /\ specs'[x.to].uid = u /\ \A i \in Id \ {x.to} : specs'[i] = specs[i]
    BY <1>0, <2>3, <2>4, <2>a, WithFeatureIs
  <2>c. specs'[x.to].feature_id = x.to /\ specs'[x.to].contract = specs[x.to].contract
    BY <1>0, <2>3, <2>4, <2>a, SavedFields
  <2>5. /\ specs'[x.to] # Absent /\ specs'[x.to].uid = u /\ specs'[x.to].feature_id = x.to
        /\ specs'[x.to].contract = specs[x.to].contract /\ \A i \in Id \ {x.to} : specs'[i] = specs[i]
    BY <2>b, <2>c, RecordsAssumption
  <2>6. DirectoryAt(u, x.to, x.to, x.to)'
    BY <2>2, <2>5 DEF DirectoryAt
  <2>7. StateAt(u, x.id, x.id)' /\ LogAt(u, x.id)'
    BY <1>1, <1>5, <2>1 DEF MoveOK
  <2> QED
    BY <1>2, <1>4, <2>1, <2>6, <2>7 DEF MoveOK
<1>10. CASE RenameState(p)
  <2>1. x.at = "featureWritten" /\ UNCHANGED <<specs, history>>
    BY <1>10 DEF RenameState
  <2>2. DirectoryAt(u, x.to, x.to, x.to)' /\ LogAt(u, x.id)' /\ StateAt(u, x.id, x.id)
    BY <1>1, <1>5, <2>1 DEF MoveOK
  <2>3. CASE sbf[x.id] = Absent
    <3>1. y.at = "stateDone" /\ sbf' = sbf
      BY <1>0, <1>10, <2>3, AtSet DEF RenameState, Moving
    <3>2. StateAt(u, x.to, x.to)'
      BY <1>1, <1>3, <2>2, <2>3, <3>1 DEF StateAt
    <3> QED
      BY <1>2, <1>4, <2>2, <3>1, <3>2 DEF MoveOK
  <2>4. CASE sbf[x.id] # Absent
    <3>1. y.at = "stateMoved" /\ sbf' = [sbf EXCEPT ![x.to] = sbf[x.id], ![x.id] = Absent]
      BY <1>0, <1>10, <2>4, AtSet DEF RenameState, Moving
    <3>2. sbf'[x.to] = sbf[x.id] /\ sbf'[x.id] = Absent /\ \A i \in Id \ {x.id, x.to} : sbf'[i] = sbf[i]
      BY <1>0, <1>1, <3>1
    <3>3. StateAt(u, x.to, x.id)'
      BY <1>1, <1>3, <2>2, <3>2 DEF StateAt
    <3> QED
      BY <1>2, <1>4, <2>2, <3>1, <3>3 DEF MoveOK
  <2> QED
    BY <2>3, <2>4
<1>11. CASE RenameReadsState(p)
  <2>1. x.at = "stateMoved" /\ UNCHANGED <<specs, sbf, history>> /\ sbf[x.to] \in State
    BY <1>0, <1>1, <1>11 DEF RenameReadsState, IInv, Indexers
  <2>2. y.at = "stateRead" /\ y.state = sbf[x.to]
    BY <1>0, <1>11, <2>1 DEF RenameReadsState, Job, Moving
  <2>3. DirectoryAt(u, x.to, x.to, x.to)' /\ LogAt(u, x.id)' /\ StateAt(u, x.to, x.id)'
    BY <1>1, <1>5, <2>1 DEF MoveOK
  <2> QED
    BY <1>2, <1>4, <2>1, <2>2, <2>3 DEF MoveOK
<1>12. CASE RenameWritesState(p)
  <2> DEFINE s == [x.state EXCEPT !.feature_id = x.to]
  <2>1. x.at = "stateRead" /\ UNCHANGED <<specs, history>> /\ y.at = "stateDone"
    BY <1>0, <1>12, AtSet DEF RenameWritesState, Moving
  <2>2. x.state = sbf[x.to] /\ x.state \in State /\ StateAt(u, x.to, x.id)
    BY <1>1, <2>1 DEF MoveOK
  <2>3. x.state # Absent
    BY <2>2, RecordsAssumption
  <2>4. x.state.feature_id = x.id /\ told[u] \subseteq x.state.gates
    BY <2>2, <2>3 DEF StateAt
  <2>5. s \in State /\ s.feature_id = x.to /\ s.gates = x.state.gates
    BY <1>1, <2>2 DEF State
  <2>6. sbf' = [sbf EXCEPT ![x.to] = s]
    BY <1>12, <2>4 DEF RenameWritesState
  <2> HIDE DEF s
  <2>7. sbf'[x.to] = s /\ s # Absent /\ \A i \in Id \ {x.to} : sbf'[i] = sbf[i]
    BY <1>0, <1>1, <2>5, <2>6, RecordsAssumption
  <2>8. StateAt(u, x.to, x.to)'
    BY <1>1, <1>3, <2>2, <2>4, <2>5, <2>7 DEF StateAt
  <2>9. DirectoryAt(u, x.to, x.to, x.to)' /\ LogAt(u, x.id)'
    BY <1>1, <1>5, <2>1 DEF MoveOK
  <2> QED
    BY <1>2, <1>4, <2>1, <2>8, <2>9 DEF MoveOK
<1>13. CASE RenameHistory(p)
  <2>1. x.at = "stateDone" /\ UNCHANGED <<specs, sbf>> /\ y.at = "historyDone"
    BY <1>0, <1>13, AtSet DEF RenameHistory, Moving
  <2>2. LogAt(u, x.id)
    BY <2>1 DEF MoveOK
  <2>3. LogAt(u, x.to)'
    <3>1. CASE history[x.id] = {}
      <4>1. history' = history
        BY <1>13, <3>1 DEF RenameHistory
      <4> QED
        BY <1>1, <1>3, <2>2, <3>1, <4>1 DEF LogAt
    <3>2. CASE history[x.id] # {}
      <4>1. history' = [history EXCEPT ![x.to] = history[x.id], ![x.id] = {}]
        BY <1>13, <3>2 DEF RenameHistory
      <4>2. history'[x.to] = history[x.id] /\ history'[x.id] = {} /\ \A i \in Id \ {x.id, x.to} : history'[i] = history[i]
        BY <1>0, <1>1, <4>1
      <4> QED
        BY <1>1, <1>3, <2>2, <4>2 DEF LogAt
    <3> QED
      BY <3>1, <3>2
  <2>4. DirectoryAt(u, x.to, x.to, x.to)' /\ StateAt(u, x.to, x.to)'
    BY <1>1, <1>5, <2>1 DEF MoveOK
  <2> QED
    BY <1>2, <1>4, <2>1, <2>3, <2>4 DEF MoveOK
<1>14. CASE RenameReadsManifest(p) \/ RenameWritesOwners(p)
  <2>1. x.at \in {"historyDone", "manifestRead"} /\ UNCHANGED <<specs, sbf, history>>
    BY <1>14 DEF RenameReadsManifest, RenameWritesOwners
  <2>2. y.at \in {"manifestRead", "ownersDone"}
    <3>1. CASE RenameReadsManifest(p)
      BY <1>0, <3>1 DEF RenameReadsManifest, Job
    <3>2. CASE RenameWritesOwners(p)
      BY <1>0, <3>2, AtSet DEF RenameWritesOwners, Moving
    <3> QED
      BY <1>14, <3>1, <3>2
  <2>3. DirectoryAt(u, x.to, x.to, x.to)' /\ StateAt(u, x.to, x.to)' /\ LogAt(u, x.to)'
    BY <1>1, <1>5, <2>1 DEF MoveOK
  <2> QED
    BY <1>2, <1>4, <2>2, <2>3 DEF MoveOK
<1> QED
  BY <1>6, <1>7, <1>8, <1>9, <1>10, <1>11, <1>12, <1>13, <1>14 DEF RenameStays

\* A rename that starts finds the feature in one place and nobody at it, unless it tears it.
LEMMA MovedStart ==
  ASSUME IInv, Placed, [Next]_vars, NEW p \in Process, RenameChecks(p), FeatureStep(p), NEW y, y = proc'[p], y.at = "checked",
         Clean(y.id[1])', y.uid \notin torn'
  PROVE  /\ MoveOK(y)'
         /\ \A q \in Process : proc'[q].cmd \in Attending => proc'[q].id[1] # y.id[1]
<1> DEFINE x == proc[p]
           h == x.id
           n == h[1]
           u == specs[h].uid
<1>0. TypeOK /\ Jobs /\ Emits /\ Indexers /\ JobOK(x) /\ JobStep(p)
  BY FeatureTypes DEF IInv, Jobs
<1>1. x.cmd = "rename" /\ x.at = "locked" /\ x.id \in Id /\ x.to \in Id
  BY <1>0 DEF RenameChecks, JobOK
<1>2. /\ y.cmd = "rename" /\ y.id = h /\ y.to = x.to /\ specs[h] # Absent /\ y.uid = u
      /\ ~InUse(x.to, index)
  BY <1>0, <1>1, ChoosesIs
<1>3. UNCHANGED <<specs, sbf, history, index, told>>
  BY DEF RenameChecks, files
<1>4. u \notin torn /\ Clean(n)
  BY <1>2, GhostsGrow
<1>5. ASSUME NEW q \in Process, MovesAt(q, n) PROVE FALSE
  <2>1. proc[q].cmd \in Indexing /\ proc[q].at # "waiting"
    BY <1>0, <1>5 DEF Jobs, JobOK, MovesAt, Moving, Indexing
  <2>2. q = p
    BY <1>0, <1>1, <2>1, LockedOut DEF Indexing
  <2> QED
    BY <1>1, <1>5, <2>2 DEF MovesAt, Moving
<1>6. InPlace(u, h)
  BY <1>1, <1>2, <1>4, <1>5 DEF Placed, Quiet
<1>7. ASSUME NEW q \in Process, q # p, proc[q].cmd \in Attending PROVE proc[q].id # h
  <2>1. SUFFICES ASSUME proc[q].id = h PROVE FALSE
    OBVIOUS
  <2>2. q \in Working(p, {h, x.to}, {"archive", "gate", "emit"})
    BY <1>7, <2>1 DEF Working, Attending
  <2>3. x.to # h
    BY <1>2 DEF InUse
  <2>4. torn' = torn \cup {u}
    BY <1>2, <2>2, <2>3 DEF RenameChecks
  <2> QED
    BY <1>2, <2>4
<1>8. ASSUME NEW q \in Process, proc'[q].cmd \in Attending PROVE proc'[q].id[1] # n
  <2>1. q # p
    BY <1>2, <1>8 DEF Attending
  <2>2. proc'[q] = proc[q]
    BY <1>0, <2>1 DEF JobStep
  <2> QED
    BY <1>6, <1>7, <1>8, <2>1, <2>2 DEF InPlace, Fits
<1>9. MoveOK(y)'
  <2>1. DirectoryAt(y.uid, y.id, y.id, y.id)' /\ StateAt(y.uid, y.id, y.id)' /\ LogAt(y.uid, y.id)' /\ LastIs(y.uid, y.id)'
    BY <1>2, <1>3, <1>6 DEF InPlace, DirectoryAt, StateAt, LogAt, LastIs
  <2> QED
    BY <2>1 DEF MoveOK
<1> QED
  BY <1>2, <1>8, <1>9

\* A rename under way stays where its place says, whatever the step.
LEMMA MovedKept ==
  ASSUME IInv, Minted, Placed, Moved, [Next]_vars
  PROVE  Moved'
<1>0. TypeOK /\ Jobs /\ Emits /\ Indexers
  BY DEF IInv
<1>1. SUFFICES ASSUME NEW p \in Process, NEW y, y = proc'[p], y.at \in Moving, Clean(y.id[1])', y.uid \notin torn'
               PROVE  /\ MoveOK(y)'
                      /\ \A q \in Process : proc'[q].cmd \in Attending => proc'[q].id[1] # y.id[1]
  <2>1. SUFFICES ASSUME NEW p \in Process, proc'[p].at \in Moving, Clean(proc[p].id[1])', proc'[p].uid \notin torn'
                 PROVE  /\ MoveOK(proc[p])'
                        /\ \A q \in Process : proc'[q].cmd \in Attending => proc'[q].id[1] # proc'[p].id[1]
    BY DEF Moved
  <2>2. PICK y : y = proc'[p]
    OBVIOUS
  <2>3. Clean(y.id[1])'
    BY <2>1, <2>2 DEF Clean
  <2>4. MoveOK(y)' /\ \A q \in Process : proc'[q].cmd \in Attending => proc'[q].id[1] # y.id[1]
    BY <1>1, <2>1, <2>2, <2>3
  <2>5. MoveOK(proc[p])'
    BY <2>2, <2>4, SMTT(30) DEF MoveOK, DirectoryAt, StateAt, LogAt, LastIs
  <2> QED
    BY <2>2, <2>4, <2>5
<1> DEFINE x == proc[p]
<1>2. CASE ~FeatureStep(p)
  <2>1. y = x
    BY <1>1, <1>2, MoverFrom DEF RenameChecks, FeatureStep
  <2> QED
    BY <1>1, <1>2, <2>1, MovedStill
<1>3. CASE FeatureStep(p) /\ x.at \in Moving
  <2>1. x.cmd = "rename" /\ WritesAt(p, x.id[1])
    BY <1>0, <1>3 DEF Jobs, JobOK, WritesAt
  <2>2. ~Crash(p) /\ ~RenameIndexes(p)
    BY <1>0, <1>1, OversIs, StaysIs DEF Overs, Moving
  <2>3. RenameReadsFeature(p) \/ RenameStays(p)
    BY <1>3, <2>1, <2>2, WritesWhat DEF Attending
  <2>4. y.id = x.id /\ y.uid = x.uid
    BY <1>0, <1>1, <2>3, StaysMoving, ChoosesIs DEF Moving, Stays
  <2>5. Clean(x.id[1]) /\ x.uid \notin torn
    BY <1>1, <2>4, GhostsGrow
  <2>6. MoveOK(x) /\ \A q \in Process : proc[q].cmd \in Attending => proc[q].id[1] # x.id[1]
    BY <1>3, <2>5 DEF Moved
  <2>7. MoveOK(y)'
    BY <1>1, <1>3, <2>3, <2>6, MovedStep
  <2>8. ASSUME NEW q \in Process, proc'[q].cmd \in Attending PROVE proc'[q].id[1] # y.id[1]
    <3>1. y.cmd = "rename"
      BY <1>0, <1>1, <1>3, <2>1, <2>3, StaysMoving, ChoosesIs DEF Moving, Stays
    <3>2. q # p
      BY <1>1, <2>8, <3>1 DEF Attending
    <3>3. proc'[q] = proc[q]
      BY <1>0, <1>3, <3>2, FeatureTypes DEF JobStep
    <3> QED
      BY <2>4, <2>6, <2>8, <3>3
  <2> QED
    BY <2>7, <2>8
<1>4. CASE FeatureStep(p) /\ x.at \notin Moving
  <2>1. RenameChecks(p) /\ y.at = "checked"
    BY <1>1, <1>4, MoverFrom
  <2> QED
    BY <1>1, <1>4, <2>1, MovedStart
<1> QED
  BY <1>2, <1>3, <1>4

-----------------------------------------------------------------------------
(* What a uid stands for, and what a chosen number does not.               *)

\* A command is known where it writes.
LEMMA WriterKnown ==
  ASSUME TypeOK, Jobs, NEW p \in Process, NEW n, WritesAt(p, n)
  PROVE  /\ proc[p].uid \in Uid /\ proc[p].uid \in KnownBy(n) /\ n \in 1..MaxNumber
         /\ proc[p].at # "numbered" => proc[p].uid \in SettledBy(n)
<1>1. CASE proc[p].cmd = "init"
  <2>1. proc[p].at \in {"numbered", "saved"} /\ proc[p].to[1] = n
    BY <1>1 DEF WritesAt, Jobs, JobOK, Moving
  <2> QED
    BY <1>1, <2>1, Known
<1>2. CASE proc[p].cmd # "init"
  <2>1. (proc[p].cmd \in Attending \/ proc[p].at \in Moving) /\ proc[p].id[1] = n
    BY <1>2 DEF WritesAt, Jobs, JobOK, Attending, Moving
  <2> QED
    BY <2>1, Known, KnownTypes
<1> QED
  BY <1>1, <1>2

\* Nothing gets known without a command.
LEMMA OthersKnown ==
  ASSUME IInv, [Next]_vars, ~\E p \in Process : FeatureStep(p) \/ EmitStep(p), NEW n
  PROVE  KnownBy(n)' \subseteq KnownBy(n) /\ SettledBy(n)' \subseteq SettledBy(n)
<1>0. TypeOK /\ TypeOK' /\ UNCHANGED <<proc, index>>
  BY TypesKept, OthersAway DEF IInv
<1>1. \A i \in Id : specs'[i] # Absent => specs'[i] = specs[i]
  <2>1. CASE UNCHANGED specs
    BY <2>1
  <2>2. ASSUME NEW id \in Id, RemoveDirectory(id) PROVE \A i \in Id : specs'[i] # Absent => specs'[i] = specs[i]
    BY <1>0, <2>2 DEF RemoveDirectory, TypeOK, LifecycleTypeOK
  <2> QED
    BY <2>1, <2>2, OthersAway
<1>2. \A u \in Uid : /\ Listed(u, n)' => Listed(u, n)
                     /\ Stored(u, n)' => Stored(u, n)
                     /\ \A q \in Process : AtWorkOn(q, u, n)' => AtWorkOn(q, u, n)
  BY <1>0, <1>1 DEF Listed, Stored, AtWorkOn, Ids
<1>3. KnownBy(n)' \subseteq Uid /\ SettledBy(n)' \subseteq KnownBy(n)'
  BY <1>0, NextKnownTypes
<1> QED
  BY <1>0, <1>2, <1>3, KnownIs

\* A number is settled by the step that saves its feature only.
LEMMA SettledStep ==
  ASSUME IInv, [Next]_vars, NEW n \in 1..MaxNumber
  PROVE  SettledBy(n)' \subseteq SettledBy(n) \/ \E p \in Process : FeatureStep(p) /\ InitSaves(p) /\ n = proc[p].to[1]
<1>0. TypeOK /\ Jobs /\ Indexers /\ Emits /\ TypeOK'
  BY TypesKept DEF IInv
<1>1. SettledBy(n)' \subseteq Uid
  BY <1>0, NextKnownTypes
<1>2. ASSUME NEW p \in Process, FeatureStep(p) \/ EmitStep(p), ~(InitSaves(p) /\ n = proc[p].to[1])
      PROVE  SettledBy(n)' \subseteq SettledBy(n)
  BY <1>0, <1>1, <1>2, KnownGrows
<1>3. ASSUME NEW p \in Process, EmitStep(p) PROVE ~InitSaves(p)
  <2>1. proc[p].at = "idle" \/ proc[p].cmd = "emit"
    BY <1>3, EmitsWhere
  <2> QED
    BY <2>1 DEF InitSaves
<1>4. CASE ~\E p \in Process : FeatureStep(p) \/ EmitStep(p)
  BY <1>4, OthersKnown
<1> QED
  BY <1>2, <1>3, <1>4

\* A step makes nothing known, or a new uid under a new number.
LEMMA KnownStep ==
  ASSUME IInv, [Next]_vars
  PROVE  /\ minted \subseteq minted'
         /\ \/ \A n \in 1..MaxNumber : KnownBy(n)' \subseteq KnownBy(n)
            \/ \E v \in Uid \ minted :
                 /\ minted' = minted \cup {v}
                 /\ \A n \in 1..MaxNumber : KnownBy(n)' \subseteq KnownBy(n) \cup (IF n = NextNumber THEN {v} ELSE {})
<1> USE DEF files, locks, ghosts
<1>0. TypeOK /\ Jobs /\ Indexers /\ Emits /\ TypeOK'
  BY TypesKept DEF IInv
<1>1. \A n : KnownBy(n)' \subseteq Uid
  BY <1>0, NextKnownTypes
<1>2. ASSUME NEW p \in Process, FeatureStep(p) \/ EmitStep(p), ~Chooses(p)
      PROVE  \A n \in 1..MaxNumber : KnownBy(n)' \subseteq KnownBy(n)
  BY <1>0, <1>1, <1>2, KnownGrows
<1>3. ASSUME NEW p \in Process, FeatureStep(p), Chooses(p)
      PROVE  \E v \in Uid \ minted :
               /\ minted' = minted \cup {v}
               /\ \A n \in 1..MaxNumber : KnownBy(n)' \subseteq KnownBy(n) \cup (IF n = NextNumber THEN {v} ELSE {})
  <2>1. InitNumbers(p) /\ proc'[p].at = "numbered" /\ UNCHANGED <<specs, index>> /\ JobStep(p)
    BY <1>0, <1>3, FeatureTypes DEF Chooses, InitNumbers
  <2>2. proc'[p].feature = Absent
    <3>1. proc'[p].cmd = "init"
      BY <1>0, <2>1, ChoosesIs
    <3> QED
      BY <2>1, <3>1 DEF JobStep, JobOK
  <2>3. PICK v \in Uid \ minted :
          /\ minted' = minted \cup {v} /\ NextNumber \in 1..MaxNumber
          /\ proc' = [proc EXCEPT ![p] = [proc[p] EXCEPT !.at = "numbered",
                                                !.to = <<NextNumber, proc[p].id[2]>>, !.uid = v]]
    <3>1. ~Goes(p, "done")
      BY <1>0, <2>1, AtSet
    <3> QED
      BY <1>0, <2>1, <3>1, Mints
  <2>4. proc'[p].uid = v
    <3> DEFINE t == <<NextNumber, proc[p].id[2]>>
    <3>1. proc' = [proc EXCEPT ![p] = [proc[p] EXCEPT !.at = "numbered", !.to = t, !.uid = v]]
      BY <2>3
    <3> HIDE DEF t
    <3> QED
      BY <1>0, <3>1 DEF TypeOK, LifecycleTypeOK, Job
  <2>5. ASSUME NEW n \in 1..MaxNumber, NEW u \in KnownBy(n)', u \notin KnownBy(n)
        PROVE  u = v /\ n = NextNumber
    <3>1. u \in Uid /\ n = NextNumber
      BY <1>0, <1>1, <1>3, <2>5, KnownGrows
    <3>2. ~Listed(u, n)' /\ ~Stored(u, n)'
      <4>1. (Listed(u, n)' => Listed(u, n)) /\ (Stored(u, n)' => Stored(u, n))
        BY <2>1 DEF Listed, Stored, Ids
      <4> QED
        BY <1>0, <2>5, <3>1, <4>1, KnownIs
    <3>3. PICK q \in Process : AtWorkOn(q, u, n)'
      BY <1>0, <2>5, <3>1, <3>2, KnownIs
    <3>4. q = p
      <4>1. SUFFICES ASSUME q # p PROVE FALSE
        OBVIOUS
      <4>2. proc'[q] = proc[q]
        BY <2>1, <4>1 DEF JobStep
      <4>3. AtWorkOn(q, u, n)
        BY <3>3, <4>2, WorksSame
      <4> QED
        BY <1>0, <2>5, <3>1, <4>3, KnownIs
    <3> QED
      BY <2>2, <2>4, <3>1, <3>3, <3>4 DEF AtWorkOn
  <2> QED
    BY <2>3, <2>5
<1>4. minted \subseteq minted'
  <2>1. ASSUME NEW p \in Process, FeatureStep(p) PROVE minted \subseteq minted'
    <3>1. CASE InitNumbers(p)
      BY <1>0, <3>1, Mints
    <3>2. CASE ~InitNumbers(p)
      BY <2>1, <3>2 DEF FeatureStep, StartInit, StartRename, StartLink, StartArchive, StartGate, AcquireFeatures, TimeoutFeatures,
     ReleaseFeatures, InitSaves, InitIndexes, Link, ArchiveSaves,
     RenameChecks, RenameDirectory, RenameContracts, RenameReadsFeature, RenameWritesFeature,
     RenameState, RenameReadsState, RenameWritesState, RenameHistory, RenameReadsManifest,
     RenameWritesOwners, RenameIndexes, AcquireState, TimeoutState, LoadGates, SaveGates, AppendGate,
     ReleaseState, Crash
    <3> QED
      BY <3>1, <3>2
  <2> QED
    BY <2>1, EmitsAway, OthersAway
<1>5. ASSUME NEW p \in Process, EmitStep(p) PROVE ~Chooses(p)
  <2>1. proc[p].at = "idle" \/ proc[p].cmd = "emit"
    BY <1>5, EmitsWhere
  <2> QED
    BY <2>1 DEF Chooses, InitNumbers
<1>6. CASE ~\E p \in Process : FeatureStep(p) \/ EmitStep(p)
  BY <1>6, <1>4, OthersKnown
<1> QED
  BY <1>2, <1>3, <1>4, <1>5, <1>6

\* A feature that a step tears is known.
LEMMA TornFrom ==
  ASSUME IInv, [Next]_vars, NEW t \in torn', t \notin torn
  PROVE  \E n \in 1..MaxNumber : t \in KnownBy(n)
<1> USE DEF files, locks, ghosts
<1>0. TypeOK /\ Jobs /\ Indexers /\ Emits
  BY DEF IInv
<1>1. ASSUME NEW p \in Process, FeatureStep(p) \/ EmitStep(p), Starts(p) PROVE \E n \in 1..MaxNumber : t \in KnownBy(n)
  <2>1. JobStep(p)
    BY <1>0, <1>1, StartSteps
  <2>2. PICK r : Begins(p, r)
    BY <1>1 DEF Starts, StartInit, StartRename, StartLink, StartArchive, StartGate, StartEmit
  <2>3. proc'[p] = r
    BY <1>0, <2>2 DEF Begins, TypeOK, LifecycleTypeOK
  <2>4. r.cmd \in Attending /\ t = r.uid
    BY <2>2 DEF Begins, Attending
  <2>5. \/ /\ proc'[p].id \in Id /\ specs[proc'[p].id] # Absent /\ proc'[p].uid = specs[proc'[p].id].uid
        \/ proc'[p] = proc[p]
        \/ proc[p].cmd \in Attending
    BY <1>1, <2>3, <2>4, AttendingFrom
  <2>6. proc[p].cmd = "none"
    BY <1>0, <1>1, StartSteps DEF Jobs, JobOK
  <2>7. proc'[p].id \in Id /\ specs[proc'[p].id] # Absent /\ t = specs[proc'[p].id].uid
    BY <2>3, <2>4, <2>5, <2>6 DEF Attending
  <2> QED
    BY <1>0, <2>7, Known, KnownTypes
<1>2. ASSUME NEW p \in Process, RenameChecks(p) PROVE \E n \in 1..MaxNumber : t \in KnownBy(n)
  <2>1. proc[p].id \in Id /\ specs[proc[p].id] # Absent /\ t = specs[proc[p].id].uid
    BY <1>0, <1>2 DEF RenameChecks, Jobs, JobOK
  <2> QED
    BY <1>0, <2>1, Known, KnownTypes
<1>3. ASSUME NEW p \in Process, RenameReadsFeature(p) \/ Crash(p) PROVE \E n \in 1..MaxNumber : t \in KnownBy(n)
  <2>1. proc[p].at \in Moving /\ t = proc[p].uid
    BY <1>3 DEF RenameReadsFeature, Crash, Moving
  <2> QED
    BY <1>0, <2>1, Known, KnownTypes
<1>4. ASSUME NEW p \in Process, FeatureStep(p), ~Starts(p), ~RenameChecks(p), ~RenameReadsFeature(p), ~Crash(p)
      PROVE  torn' = torn
  BY <1>4 DEF FeatureStep, Starts, AcquireFeatures, TimeoutFeatures,
     ReleaseFeatures, InitNumbers, InitSaves, InitIndexes, Link, ArchiveSaves,
     RenameDirectory, RenameContracts, RenameWritesFeature,
     RenameState, RenameReadsState, RenameWritesState, RenameHistory, RenameReadsManifest,
     RenameWritesOwners, RenameIndexes, AcquireState, TimeoutState, LoadGates, SaveGates, AppendGate,
     ReleaseState
<1>5. ASSUME NEW p \in Process, EmitStep(p), ~Starts(p) PROVE torn' = torn
  BY <1>5 DEF EmitStep, Starts, PlanInfra, ReadUnit, PassUnit, WriteUnit, RecordUnit, FinishUnits, LoadFlag, SaveFlag, Verdict,
              KillEmit, lifecycleVars
<1>6. CASE ~\E p \in Process : FeatureStep(p) \/ EmitStep(p)
  BY <1>6, OthersAway
<1> QED
  BY <1>1, <1>2, <1>3, <1>4, <1>5, <1>6

\* A feature whose gates change is known.
LEMMA ToldFrom ==
  ASSUME IInv, [Next]_vars, NEW u \in Uid, told'[u] # told[u]
  PROVE  \E p \in Process, n \in 1..MaxNumber : FeatureStep(p) /\ WritesAt(p, n) /\ u = proc[p].uid /\ u \in KnownBy(n)
<1>0. TypeOK /\ Jobs /\ Indexers /\ Emits
  BY DEF IInv
<1>1. PICK p \in Process : FeatureStep(p)
  BY EmitsAway, OthersAway
<1>2. u = proc[p].uid /\ \E n \in 1..MaxNumber : WritesAt(p, n)
  BY <1>0, <1>1, Touches
<1> QED
  BY <1>0, <1>1, <1>2, WriterKnown

\* A number is chosen by the step that looks at the directories.
LEMMA NumberedFrom ==
  ASSUME IInv, [Next]_vars, NEW p \in Process, proc'[p].at = "numbered"
  PROVE  proc'[p] = proc[p] \/ (FeatureStep(p) /\ InitNumbers(p))
<1>0. TypeOK /\ Jobs /\ Indexers /\ Emits /\ TypeOK' /\ Jobs'
  BY TypesKept DEF IInv
<1>1. proc'[p].cmd = "init"
  BY <1>0 DEF Jobs, JobOK
<1>2. CASE proc'[p] # proc[p]
  <2>1. FeatureStep(p) \/ EmitStep(p)
    BY <1>2, OneGoes DEF JobStep
  <2>2. ~EmitStep(p)
    BY <1>0, <1>2, EmitJobs, StartSteps
  <2>3. ~Starts(p) /\ ~Overs(p)
    BY <1>0, StartSteps, OversIs
  <2>4. ~(AcquireFeatures(p) \/ InitSaves(p) \/ InitIndexes(p) \/ Link(p) \/ RenameIndexes(p) \/ GateStays(p))
    BY <1>0, StaysIs
  <2>5. ~RenameStays(p) /\ ~RenameChecks(p) /\ ~RenameReadsFeature(p)
    <3>1. RenameStays(p) \/ RenameChecks(p) \/ RenameReadsFeature(p) => proc[p].cmd = "rename"
      BY <1>0 DEF RenameChecks, RenameReadsFeature, RenameStays, JobOK, Jobs,
         RenameDirectory, RenameContracts, RenameWritesFeature, RenameState, RenameReadsState,
         RenameWritesState, RenameHistory, RenameReadsManifest, RenameWritesOwners, Moving
    <3>2. RenameStays(p) \/ RenameChecks(p) \/ RenameReadsFeature(p) => proc'[p].cmd = proc[p].cmd
      BY <1>0, <3>1, StaysIs, ChoosesIs DEF Stays
    <3> QED
      BY <1>1, <3>1, <3>2
  <2> QED
    BY <2>1, <2>2, <2>3, <2>4, <2>5, FeatureCases
<1> QED
  BY <1>2

\* What is chosen stays so.
LEMMA ChosenKept ==
  ASSUME IInv, Minted, [Next]_vars, NEW p \in Process, proc'[p].at = "numbered", NEW n, n = proc'[p].to[1]
  PROVE  SettledBy(n)' \subseteq Left(n)'
<1>0. TypeOK /\ Jobs /\ Indexers /\ Emits /\ Numbered /\ TypeOK' /\ Jobs'
  BY TypesKept DEF IInv
<1>1. n \in 1..MaxNumber /\ proc'[p].cmd = "init"
  <2>1. proc'[p].cmd = "init" /\ proc'[p].to \in Id
    BY <1>0 DEF Jobs, JobOK
  <2> QED
    BY <2>1 DEF Id
<1>2. Left(n) \subseteq Left(n)'
  BY GhostsGrow DEF Left
<1>3. CASE proc'[p] = proc[p]
  <2>1. proc[p].at = "numbered" /\ proc[p].cmd = "init" /\ SettledBy(n) \subseteq Left(n)
    BY <1>0, <1>3 DEF Minted, Jobs, JobOK
  <2>2. ASSUME NEW q \in Process, FeatureStep(q), InitSaves(q) PROVE FALSE
    <3>1. q = p
      BY <2>1, <2>2, OneIndexer DEF InitSaves
    <3>2. proc'[q].at = "saved"
      BY <1>0, <2>2, AtSet DEF InitSaves
    <3> QED
      BY <3>1, <3>2
  <2>3. SettledBy(n)' \subseteq SettledBy(n)
    BY <1>1, <2>2, SettledStep
  <2> QED
    BY <1>2, <2>1, <2>3
<1>4. CASE proc'[p] # proc[p]
  <2>2. InitNumbers(p)
    BY <1>4, NumberedFrom
  <2>3. n = NextNumber
    <3>1. proc'[p].at = "done" \/ proc'[p].to[1] = NextNumber
      BY <1>0, <2>2, ChoosesIs
    <3> QED
      BY <3>1
  <2>4. n \notin Numbers
    BY <1>0, <2>3, NextNumberIs
  <2>5. SettledBy(n) \subseteq Left(n)
    BY <1>1, <2>4, <1>0 DEF Numbered
  <2>6. ASSUME NEW q \in Process, FeatureStep(q), InitSaves(q), n = proc[q].to[1] PROVE FALSE
    <3>1. proc[q].cmd = "init" /\ proc[q].at = "numbered" /\ proc[p].cmd = "init" /\ proc[p].at = "locked"
      BY <2>2, <2>6 DEF InitSaves, InitNumbers
    <3>2. p = q
      BY <1>0, <3>1, LockedOut DEF Indexing
    <3> QED
      BY <3>1, <3>2
  <2>7. SettledBy(n)' \subseteq SettledBy(n)
    BY <1>1, <2>6, SettledStep
  <2> QED
    BY <1>2, <2>5, <2>7
<1> QED
  BY <1>3, <1>4

\* A uid keeps standing for one number.
LEMMA MintedKept ==
  ASSUME IInv, Minted, [Next]_vars
  PROVE  Minted'
<1>1. minted \subseteq minted'
  BY KnownStep
<1>2. torn' \subseteq minted'
  BY <1>1, TornFrom DEF Minted
<1>3. ASSUME NEW u \in Uid, told'[u] # {} PROVE u \in minted'
  <2>1. CASE told'[u] = told[u]
    BY <1>1, <1>3, <2>1 DEF Minted
  <2>2. CASE told'[u] # told[u]
    BY <1>1, <2>2, ToldFrom DEF Minted
  <2> QED
    BY <2>1, <2>2
<1>4. /\ \A n \in 1..MaxNumber : KnownBy(n)' \subseteq minted'
      /\ \A m, n \in 1..MaxNumber : KnownBy(m)' \cap KnownBy(n)' # {} => m = n
  <2>1. CASE \A n \in 1..MaxNumber : KnownBy(n)' \subseteq KnownBy(n)
    <3>1. \A m, n \in 1..MaxNumber : KnownBy(m)' \cap KnownBy(n)' \subseteq KnownBy(m) \cap KnownBy(n)
      BY <2>1
    <3> QED
      BY <1>1, <2>1, <3>1 DEF Minted
  <2>2. ASSUME NEW v \in Uid \ minted, minted' = minted \cup {v},
               \A n \in 1..MaxNumber : KnownBy(n)' \subseteq KnownBy(n) \cup (IF n = NextNumber THEN {v} ELSE {})
        PROVE  /\ \A n \in 1..MaxNumber : KnownBy(n)' \subseteq minted'
               /\ \A m, n \in 1..MaxNumber : KnownBy(m)' \cap KnownBy(n)' # {} => m = n
    <3>1. \A n \in 1..MaxNumber : KnownBy(n)' \subseteq minted'
      BY <2>2 DEF Minted
    <3>2. ASSUME NEW m \in 1..MaxNumber, NEW n \in 1..MaxNumber, NEW u \in KnownBy(m)', u \in KnownBy(n)' PROVE m = n
      <4>1. CASE u = v
        <5>1. m = NextNumber
          BY <2>2, <4>1, <3>2 DEF Minted
        <5>2. n = NextNumber
          BY <2>2, <4>1, <3>2 DEF Minted
        <5> QED
          BY <5>1, <5>2
      <4>2. CASE u # v
        <5>1. u \in KnownBy(m) /\ u \in KnownBy(n)
          BY <2>2, <4>2, <3>2
        <5> QED
          BY <5>1 DEF Minted
      <4> QED
        BY <4>1, <4>2
    <3> QED
      BY <3>1, <3>2
  <2> QED
    BY <2>1, <2>2, KnownStep
<1>5. ASSUME NEW p \in Process, proc'[p].at = "numbered"
      PROVE  (SettledBy(proc[p].to[1]) \subseteq Left(proc[p].to[1]))'
  <2>1. PICK n : n = proc'[p].to[1]
    OBVIOUS
  <2>2. SettledBy(n)' \subseteq Left(n)'
    BY <1>5, <2>1, ChosenKept
  <2> QED
    BY <2>1, <2>2 DEF SettledBy, Left, Ids, AtWorkOn
<1> QED
  BY <1>2, <1>3, <1>4, <1>5 DEF Minted

-----------------------------------------------------------------------------
(* Who holds the lock of the state.                                        *)

\* A gate that has the lock has got it in this step or had it before.
LEMMA GatingFrom ==
  ASSUME IInv, NEW p \in Process, FeatureStep(p) \/ EmitStep(p), Gating(p)'
  PROVE  (FeatureStep(p) /\ AcquireState(p)) \/ (Gating(p) /\ ~ReleaseState(p))
<1>0. TypeOK /\ Jobs /\ Emits /\ Indexers /\ JobOK(proc[p])
  BY DEF IInv, Jobs
<1>1. proc'[p].cmd = "gate" /\ proc'[p].at \in {"locked", "loaded", "saved", "done"}
  BY DEF Gating
<1>2. ~ReleaseState(p) /\ ~Starts(p) /\ ~Overs(p)
  BY <1>0, <1>1, EndSet, OversIs, StartSteps DEF ReleaseState
<1>3. CASE EmitStep(p)
  BY <1>0, <1>1, <1>2, <1>3, EmitJobs DEF Gating
<1>4. CASE FeatureStep(p)
  <2>1. CASE GateStays(p)
    BY <1>2, <1>4, <2>1 DEF GateStays, LoadGates, SaveGates, AppendGate, Gating
  <2>2. CASE ~GateStays(p)
    <3>1. proc[p].cmd \in Indexing
      BY <1>0, <1>2, <1>4, <2>2, FeatureCases DEF AcquireFeatures, InitSaves, InitIndexes, Link, RenameIndexes, RenameStays, JobOK,
         InitNumbers, RenameChecks, RenameReadsFeature,
         RenameDirectory, RenameContracts, RenameWritesFeature, RenameState, RenameReadsState,
         RenameWritesState, RenameHistory, RenameReadsManifest, RenameWritesOwners, Moving, Indexing
    <3>2. proc'[p].cmd = proc[p].cmd \/ proc'[p].cmd = "init"
      BY <1>0, <1>2, <1>4, <2>2, StaysIs, ChoosesIs, FeatureCases DEF Stays
    <3> QED
      BY <1>1, <3>1, <3>2 DEF Indexing
  <2> QED
    BY <2>1, <2>2
<1> QED
  BY <1>3, <1>4

\* One command or request at a time is between the acquisition and the release.
LEMMA StateHoldersKept ==
  ASSUME IInv, StateHolders, [Next]_vars
  PROVE  StateHolders'
<1> USE DEF files, locks, ghosts
<1>0. TypeOK /\ Jobs /\ Emits /\ Indexers
  BY DEF IInv
<1>h. /\ \A p \in Process : p # NoHolder /\ p \notin Request
      /\ \A r \in Request : r # NoHolder
  BY HoldersAssumption
<1>1. CASE UNCHANGED vars
  BY <1>1 DEF vars, lifecycleVars, StateHolders, Gating, Serving
<1>2. ASSUME NEW p \in Process, FeatureStep(p), req' = req PROVE StateHolders'
  <2>1. \A q \in Process \ {p} : proc'[q] = proc[q]
    BY <1>0, <1>2, FeatureTypes DEF JobStep
  <2>2. \/ AcquireState(p) /\ stateLock = NoHolder /\ stateLock' = p
        \/ ReleaseState(p) /\ Gating(p)
        \/ ~AcquireState(p) /\ ~ReleaseState(p) /\ stateLock' = stateLock
    <3>1. ReleaseState(p) => Gating(p)
      BY DEF ReleaseState, Gating
    <3>2. ~AcquireState(p) /\ ~ReleaseState(p) => stateLock' = stateLock
      BY <1>2 DEF FeatureStep, StartInit, StartRename, StartLink, StartArchive, StartGate, AcquireFeatures, TimeoutFeatures,
         ReleaseFeatures, InitNumbers, InitSaves, InitIndexes, Link, ArchiveSaves,
         RenameChecks, RenameDirectory, RenameContracts, RenameReadsFeature, RenameWritesFeature,
         RenameState, RenameReadsState, RenameWritesState, RenameHistory, RenameReadsManifest,
         RenameWritesOwners, RenameIndexes, TimeoutState, LoadGates, SaveGates, AppendGate, Crash
    <3> QED
      BY <3>1, <3>2 DEF AcquireState
  <2>3. ASSUME NEW q \in Process, Gating(q)' PROVE stateLock' = q
    <3>1. CASE q = p
      <4>1. AcquireState(p) \/ (Gating(p) /\ ~ReleaseState(p))
        BY <1>2, <2>3, <3>1, GatingFrom
      <4> QED
        BY <2>2, <3>1, <4>1 DEF StateHolders, AcquireState
    <3>2. CASE q # p
      <4>1. Gating(q) /\ stateLock = q
        BY <2>1, <2>3, <3>2 DEF Gating, StateHolders
      <4> QED
        BY <1>h, <2>2, <3>2, <4>1 DEF StateHolders
    <3> QED
      BY <3>1, <3>2
  <2>4. ASSUME NEW r \in Request, Serving(r)' PROVE stateLock' = r
    <3>1. stateLock = r
      BY <1>2, <2>4 DEF Serving, StateHolders
    <3> QED
      BY <1>h, <2>2, <3>1 DEF StateHolders
  <2> QED
    BY <2>3, <2>4 DEF StateHolders
<1>3. ASSUME NEW p \in Process, EmitStep(p), req' = req PROVE StateHolders'
  <2>1. \A q \in Process \ {p} : proc'[q] = proc[q]
    BY <1>0, <1>3, EmitJobs DEF JobStep
  <2>2. stateLock' = stateLock
    BY <1>3, EmitsAway
  <2>3. ASSUME NEW q \in Process, Gating(q)' PROVE Gating(q)
    <3>1. CASE q = p
      <4>1. ~AcquireState(p)
        <5>1. proc[p].at = "idle" \/ proc[p].cmd = "emit"
          BY <1>3, EmitsWhere
        <5> QED
          BY <5>1 DEF AcquireState
      <4> QED
        BY <1>3, <2>3, <3>1, <4>1, GatingFrom
    <3>2. CASE q # p
      BY <2>1, <2>3, <3>2 DEF Gating
    <3> QED
      BY <3>1, <3>2
  <2> QED
    BY <1>3, <2>2, <2>3 DEF StateHolders, Serving
<1>4. CASE RemoveStaleLock /\ req' = req
  <2>1. proc' = proc
    BY <1>4 DEF RemoveStaleLock
  <2>2. CASE stateLock' = stateLock
    BY <1>4, <2>1, <2>2 DEF StateHolders, Gating, Serving
  <2>3. CASE stateLock \in Process /\ proc[stateLock].at = "dead"
    <3>1. \A q \in Process : ~Gating(q)
      BY <2>3 DEF StateHolders, Gating
    <3>2. \A r \in Request : ~Serving(r)
      BY <1>h, <2>3 DEF StateHolders
    <3> QED
      BY <1>4, <2>1, <3>1, <3>2 DEF StateHolders, Gating, Serving
  <2> QED
    BY <1>4, <2>2, <2>3 DEF RemoveStaleLock
<1>5. CASE (HandStep \/ \E id \in Id : RemoveDirectory(id)) /\ req' = req
  BY <1>5 DEF HandStep, Commit, Edit, RemoveDirectory, StateHolders, Gating, Serving
<1>6. CASE Requests
  <2>1. proc' = proc /\ req \in [Request -> [kind : Kinds, at : Places]]
    BY <1>0, <1>6, RequestTypes DEF Requests, Untouched, TypeOK, ServeTypeOK
  <2>2. PICK r \in Request : ServerStep(r) \/ \E kind \in Kinds \ {"none"} : Ask(r, kind)
    BY <1>6 DEF Requests, RequestStep
  <2>3. \A s \in Request \ {r} : req'[s] = req[s]
    BY <2>1, <2>2 DEF ServerStep, Begin, AcquireSync, TimeoutSync, Declare, Answer, AcquireAsync, TimeoutAsync,
       Execute, Ask, Serves
  <2>4. \/ stateLock = NoHolder /\ stateLock' = r
        \/ Serving(r) /\ ~Serving(r)'
        \/ stateLock' = stateLock /\ ~Serving(r)'
    <3>1. CASE Begin(r) \/ TimeoutSync(r) \/ TimeoutAsync(r) \/ \E kind \in Kinds \ {"none"} : Ask(r, kind)
      <4>1. stateLock' = stateLock
        BY <3>1 DEF Begin, TimeoutSync, TimeoutAsync, Ask
      <4>2. req'[r].at \in {"waiting", "polling", "refused", "asked"}
        BY <2>1, <3>1 DEF Begin, TimeoutSync, TimeoutAsync, Ask, Serves
      <4> QED
        BY <4>1, <4>2 DEF Serving
    <3>2. CASE AcquireSync(r) \/ AcquireAsync(r)
      BY <3>2 DEF AcquireSync, AcquireAsync
    <3>3. CASE Declare(r) \/ Answer(r) \/ Execute(r)
      <4>1. Serving(r)
        BY <3>3 DEF Declare, Answer, Execute, Serving
      <4>2. req'[r].at \in {"gateWaiting", "answered", "refused"}
        BY <2>1, <3>3 DEF Declare, Answer, Execute, Serves
      <4> QED
        BY <4>1, <4>2 DEF Serving
    <3> QED
      BY <2>2, <3>1, <3>2, <3>3 DEF ServerStep
  <2>5. \A s \in Request \ {r} : Serving(s)' => Serving(s)
    BY <2>3 DEF Serving
  <2>6. \A q \in Process : Gating(q)' => Gating(q)
    BY <2>1 DEF Gating
  <2>7. ASSUME NEW q \in Process, Gating(q)' PROVE stateLock' = q
    <3>1. stateLock = q
      BY <2>6, <2>7 DEF StateHolders
    <3> QED
      BY <1>h, <2>4, <3>1 DEF StateHolders
  <2>8. ASSUME NEW s \in Request, Serving(s)' PROVE stateLock' = s
    <3>1. CASE s = r
      BY <2>4, <2>8, <3>1
    <3>2. CASE s # r
      <4>1. stateLock = s
        BY <2>5, <2>8, <3>2 DEF StateHolders
      <4> QED
        BY <1>h, <2>4, <3>2, <4>1 DEF StateHolders
    <3> QED
      BY <3>1, <3>2
  <2> QED
    BY <2>7, <2>8 DEF StateHolders
<1> QED
  BY <1>1, <1>2, <1>3, <1>4, <1>5, <1>6 DEF Next, Features, Handles

-----------------------------------------------------------------------------
(* What an emit generates for.                                             *)

\* An emit goes on for the feature of its command.
LEMMA EmitsForKept ==
  ASSUME IInv, EmitsFor, [Next]_vars
  PROVE  EmitsFor'
<1> DEFINE Good(e, x) == /\ e.at \in {"planning", "units", "classified", "written"} => e.id = x.id
                         /\ e.at = "written" =>
                              LET f == First(e.left) IN
                              /\ e.mem.files[f] # Absent
                              /\ e.mem.files[f].owner = IF f \in Infra THEN Repo ELSE e.id
<1>0. TypeOK /\ Jobs /\ Emits /\ Indexers
  BY DEF IInv
<1>1. \A q \in Process : Good(emit[q], proc[q])
  BY DEF EmitsFor
<1>2. SUFFICES \A q \in Process : Good(emit'[q], proc'[q])
  BY DEF EmitsFor
<1>3. ASSUME NEW p \in Process, EmitStep(p), NEW q \in Process \ {p} PROVE Good(emit'[q], proc'[q])
  <2>1. emit'[q] = emit[q]
    BY <1>0, <1>3, EmitCases
  <2>2. proc'[q] = proc[q]
    BY <1>0, <1>3, EmitJobs DEF JobStep
  <2> QED
    BY <1>1, <2>1, <2>2
<1>4. ASSUME NEW p \in Process, EmitStep(p) PROVE Good(emit'[p], proc'[p])
  <2>1. CASE \E id \in Id, force, enforce \in BOOLEAN : StartEmit(p, id, force, enforce)
    <3>1. PICK id \in Id, force \in BOOLEAN, enforce \in BOOLEAN : StartEmit(p, id, force, enforce)
      BY <2>1
    <3>2. emit'[p].at = "planning" /\ emit'[p].id = id
      BY <1>0, <3>1, StartEmitIs DEF EmitTo
    <3>3. PICK x : x = [Idle EXCEPT !.cmd = "emit", !.at = "emitting", !.id = id, !.uid = specs[id].uid]
      OBVIOUS
    <3>4. proc' = [proc EXCEPT ![p] = x] /\ x.id = id
      BY <3>1, <3>3 DEF StartEmit, Begins, Idle
    <3>5. proc'[p].id = id
      BY <1>0, <3>4 DEF TypeOK, LifecycleTypeOK
    <3> QED
      BY <3>2, <3>5
  <2>2. CASE PlanInfra(p) \/ ReadUnit(p) \/ PassUnit(p) \/ WriteUnit(p) \/ RecordUnit(p) \/ FinishUnits(p)
             \/ LoadFlag(p) \/ SaveFlag(p)
    <3>1. proc' = proc /\ emit[p].at # "idle"
      BY <1>0, <2>2, UnderWay
    <3>2. CASE WriteUnit(p)
      <4> DEFINE f == First(emit[p].left)
      <4>1. emit[p].at = "classified"
        BY <3>2 DEF WriteUnit, Emitting
      <4>2. PICK y : /\ y = emit'[p] /\ y.left = emit[p].left /\ y.id = emit[p].id
                     /\ y.mem.files[f] # Absent /\ y.mem.files[f].owner = Fresh(emit[p], f).owner
        BY <1>0, <3>2, WrittenIs DEF EmitTo
      <4>3. Fresh(emit[p], f).owner = IF f \in Infra THEN Repo ELSE emit[p].id
        BY DEF Fresh, Render
      <4>4. emit[p].id = proc[p].id
        BY <1>1, <4>1
      <4> QED
        BY <3>1, <4>2, <4>3, <4>4
    <3>3. CASE ~WriteUnit(p)
      <4>1. \/ Keeps(emit[p], emit'[p]) /\ emit[p].at \in {"planning", "units", "classified", "written"} /\ emit'[p].at # "written"
            \/ emit'[p].at \in {"flag", "flagLoaded", "verdict", "idle"}
        <5>1. ~Wrote(p)
          <6>1. emit[p].at = "classified" /\ Wrote(p) => PassUnit(p)
            BY <2>2, <3>3 DEF Emitting, PlanInfra, ReadUnit, RecordUnit, FinishUnits, LoadFlag, SaveFlag
          <6>2. PassUnit(p) => emit'[p].at # "written"
            <7>1. SUFFICES ASSUME PassUnit(p) PROVE emit'[p].at # "written"
              OBVIOUS
            <7>2. emit[p].left # {} /\ emit[p].left \in SUBSET Path
              BY <1>0, <7>1 DEF PassUnit, Emitting, Emits, EmitOK, TypeOK, HandlesTypeOK, Emission
            <7>3. First(emit[p].left) \in Path
              BY <7>2, FirstIn
            <7>4. Skip(p, First(emit[p].left), {First(emit[p].left)})
              BY <7>1 DEF PassUnit
            <7> QED
              BY <1>0, <7>3, <7>4, SkipIs DEF EmitTo
          <6> QED
            BY <6>1, <6>2 DEF Wrote
        <5>2. ~Started(p)
          BY <3>1 DEF Started
        <5> QED
          BY <1>0, <1>4, <5>1, <5>2, EmitCases DEF Planned, Passed, Found, Saved, Finished, FlagRead, FlagKept, FlagSaved, Ended, Killed, Done
      <4> QED
        BY <1>1, <3>1, <4>1 DEF Keeps
    <3> QED
      BY <3>2, <3>3
  <2>3. CASE Verdict(p) \/ KillEmit(p)
    <3>1. emit'[p].at = "idle"
      BY <1>0, <2>3, RestIs, NoEmitIs DEF EmitTo
    <3> QED
      BY <3>1
  <2> QED
    BY <1>4, <2>1, <2>2, <2>3 DEF EmitStep
<1>5. ASSUME ~\E p \in Process : EmitStep(p), NEW q \in Process PROVE Good(emit'[q], proc'[q])
  <2>1. emit' = emit
    BY <1>5, OtherCases
  <2>2. CASE proc'[q] = proc[q]
    BY <1>1, <2>1, <2>2
  <2>3. CASE proc'[q] # proc[q]
    <3>1. FeatureStep(q)
      BY <1>5, <2>3, OneGoes DEF JobStep
    <3>2. proc[q].cmd # "emit"
      BY <1>0, <3>1, FeatureFrame
    <3>3. emit[q].at = "idle"
      BY <1>0, <3>2 DEF Emits
    <3> QED
      BY <2>1, <3>3
  <2> QED
    BY <2>2, <2>3
<1> HIDE DEF Good
<1>6. ASSUME NEW q \in Process PROVE Good(emit'[q], proc'[q])
  BY <1>3, <1>4, <1>5
<1> QED
  BY <1>6

-----------------------------------------------------------------------------
(* Numbers without a directory.                                            *)

\* What lies under a number without a directory stays as it is: nothing.
LEMMA BareKept ==
  ASSUME IInv, Minted, Untaken, [Next]_vars, NEW i \in Id, Clean(i[1])', i[1] \notin Numbers'
  PROVE  sbf'[i] = Absent /\ history'[i] = {}
<1> DEFINE n == i[1]
<1>0. TypeOK /\ Jobs /\ Emits /\ Indexers /\ Numbered /\ n \in 1..MaxNumber /\ Clean(n)
  BY Known, GhostsGrow DEF IInv
<1>1. ASSUME NEW p \in Process, FeatureStep(p), WritesAt(p, n) PROVE sbf'[i] = Absent /\ history'[i] = {}
  <2>1. n \notin Numbers
    BY <1>0, <1>1, NumbersKept
  <2>2. proc[p].at = "numbered"
    BY <1>0, <1>1, <2>1, OneUid, WriterKnown
  <2>3. proc[p].cmd = "init" /\ proc[p].to \in Id /\ proc[p].to[1] = n
    BY <1>0, <1>1, <2>2 DEF WritesAt, Jobs, JobOK, Moving
  <2>4. ~InitSaves(p)
    <3>1. SUFFICES ASSUME InitSaves(p) PROVE FALSE
      OBVIOUS
    <3>2. specs'[proc[p].to] # Absent
      <4> DEFINE r == [uid |-> proc[p].uid, feature_id |-> proc[p].to, archived |-> FALSE, contract |-> Absent]
      <4>1. r \in Record
        BY <1>0, <2>3, <2>2 DEF Jobs, JobOK, Record
      <4>2. specs' = [specs EXCEPT ![proc[p].to] = r]
        BY <3>1 DEF InitSaves
      <4> HIDE DEF r
      <4> QED
        BY <1>0, <2>3, <4>1, <4>2, RecordsAssumption DEF TypeOK, LifecycleTypeOK
    <3> QED
      BY <2>3, <3>2 DEF Numbers
  <2>5. Crash(p)
    BY <1>1, <2>2, <2>3, <2>4, WritesWhat DEF InitIndexes, Attending, Moving
  <2>6. sbf' = sbf /\ history' = history
    BY <2>5 DEF Crash, files
  <2> QED
    BY <1>0, <2>1, <2>6 DEF Untaken
<1>2. CASE ~\E p \in Process : FeatureStep(p) /\ WritesAt(p, n)
  <2>1. Still(n)
    BY <1>0, <1>2, StillAway
  <2>2. n \notin Numbers
    BY <2>1 DEF Still, Numbers
  <2> QED
    BY <1>0, <2>1, <2>2 DEF Still, Untaken
<1> QED
  BY <1>1, <1>2

\* Nothing is told of a feature that is only chosen.
LEMMA ChosenUntold ==
  ASSUME IInv, Minted, Untaken, [Next]_vars, NEW p \in Process, proc'[p].at = "numbered", NEW u, u = proc'[p].uid,
         NEW n, n = proc'[p].to[1], Clean(n)'
  PROVE  told'[u] = {}
<1> USE DEF files, locks, ghosts
<1>0. TypeOK /\ Jobs /\ Emits /\ Indexers /\ Numbered /\ TypeOK' /\ Jobs' /\ Clean(n)
  BY TypesKept, GhostsGrow DEF IInv
<1>1. CASE proc'[p] = proc[p]
  <2>1. proc[p].cmd = "init" /\ u \in Uid /\ u \in KnownBy(n) /\ n \in 1..MaxNumber
    <3>1. proc[p].cmd = "init" /\ proc[p].to \in Id
      BY <1>0, <1>1 DEF Jobs, JobOK
    <3> QED
      BY <1>0, <1>1, <3>1, Known
  <2>2. told[u] = {}
    BY <1>0, <1>1 DEF Untaken
  <2>3. ASSUME told'[u] # told[u] PROVE FALSE
    <3>1. PICK q \in Process, m \in 1..MaxNumber : FeatureStep(q) /\ WritesAt(q, m) /\ u \in KnownBy(m)
      BY <2>1, <2>3, ToldFrom
    <3>2. m = n
      BY <2>1, <3>1 DEF Minted
    <3>3. proc[q].at # "numbered"
      <4>1. SUFFICES ASSUME proc[q].at = "numbered" PROVE FALSE
        OBVIOUS
      <4>2. proc[q].cmd = "init"
        BY <1>0, <4>1 DEF Jobs, JobOK
      <4>3. Crash(q) \/ InitSaves(q) \/ InitIndexes(q)
        BY <3>1, <4>2, WritesWhat DEF Attending
      <4> QED
        BY <2>3, <4>3 DEF Crash, InitSaves, InitIndexes
    <3>4. SettledBy(n) # {}
      BY <1>0, <3>1, <3>2, <3>3, WriterKnown
    <3>5. SettledBy(n) \subseteq Left(n)
      BY <1>1 DEF Minted
    <3> QED
      BY <1>0, <2>1, <3>4, <3>5, OneUid
  <2> QED
    BY <2>2, <2>3
<1>2. CASE FeatureStep(p) /\ InitNumbers(p)
  <2>1. told' = told
    BY <1>2 DEF InitNumbers
  <2>2. PICK v \in Uid \ minted :
          proc' = [proc EXCEPT ![p] = [proc[p] EXCEPT !.at = "numbered", !.to = <<NextNumber, proc[p].id[2]>>, !.uid = v]]
    <3>1. ~Goes(p, "done")
      BY <1>0, AtSet
    <3> QED
      BY <1>0, <1>2, <3>1, Mints
  <2>3. u = v
    <3> DEFINE t == <<NextNumber, proc[p].id[2]>>
    <3>1. proc' = [proc EXCEPT ![p] = [proc[p] EXCEPT !.at = "numbered", !.to = t, !.uid = v]]
      BY <2>2
    <3> HIDE DEF t
    <3> QED
      BY <1>0, <3>1 DEF TypeOK, LifecycleTypeOK, Job
  <2> QED
    BY <2>1, <2>3 DEF Minted
<1> QED
  BY <1>1, <1>2, NumberedFrom

\* Numbers without a directory are as they were.
LEMMA UntakenKept ==
  ASSUME IInv, Minted, Untaken, [Next]_vars
  PROVE  Untaken'
<1>1. ASSUME NEW i \in Id, Clean(i[1])', i[1] \notin Numbers' PROVE sbf'[i] = Absent /\ history'[i] = {}
  BY <1>1, BareKept
<1>2. ASSUME NEW p \in Process, proc'[p].at = "numbered", Clean(proc[p].to[1])' PROVE told'[proc'[p].uid] = {}
  <2>1. PICK n : n = proc'[p].to[1]
    OBVIOUS
  <2>2. Clean(n)'
    BY <1>2, <2>1 DEF Clean, Vacated
  <2> QED
    BY <1>2, <2>1, <2>2, ChosenUntold
<1> QED
  BY <1>1, <1>2 DEF Untaken

-----------------------------------------------------------------------------
(* The owners of the entries of the manifest.                              *)

\* The migration gives entries of the old id the new one.
LEMMA ReownedOwners ==
  ASSUME NEW m \in Manifest, NEW old \in Id, NEW new \in Id, NEW f \in Path, m.files[f] # Absent
  PROVE  Reowned(m, old, new).files[f].owner = IF m.files[f].owner = old THEN new ELSE m.files[f].owner
<1> DEFINE Given(g) == IF m.files[g] # Absent /\ m.files[g].owner = old
                       THEN [m.files[g] EXCEPT !.owner = new] ELSE m.files[g]
           fs == [g \in Path |-> Given(g)]
<1>1. m.files[f] \in Entry
  BY DEF Manifest
<1>2. Given(f).owner = IF m.files[f].owner = old THEN new ELSE m.files[f].owner
  BY <1>1 DEF Entry
<1>3. Reowned(m, old, new) = [m EXCEPT !.files = fs]
  BY DEF Reowned
<1>4. fs[f] = Given(f)
  OBVIOUS
<1> HIDE DEF fs, Given
<1>5. Reowned(m, old, new).files = fs
  BY <1>3 DEF Manifest
<1> QED
  BY <1>2, <1>4, <1>5

\* An entry has the owner it had, or the id an emit was given, or the new id of a rename.
LEMMA OwnerFrom ==
  ASSUME IInv, EmitsFor, [Next]_vars, ~overlap', NEW f \in Path, manifest'.files[f] # Absent,
         NEW o, o = manifest'.files[f].owner, o # Repo
  PROVE  \/ /\ manifest.files[f] # Absent /\ o = manifest.files[f].owner
            /\ ~\E p \in Process : RenameWritesOwners(p)
         \/ /\ \E p \in Process : proc[p].cmd = "emit" /\ o = proc[p].id
            /\ ~\E p \in Process : RenameWritesOwners(p)
         \/ \E p \in Process : /\ RenameWritesOwners(p) /\ manifest.files[f] # Absent
                               /\ o = IF manifest.files[f].owner = proc[p].id THEN proc[p].to ELSE manifest.files[f].owner
<1>0. TypeOK /\ Jobs /\ Emits /\ Indexers /\ ~overlap /\ manifest \in Manifest
  BY GhostsGrow DEF IInv, TypeOK, LifecycleTypeOK
<1>1. ASSUME NEW p \in Process, RenameWritesOwners(p)
      PROVE  /\ manifest.files[f] # Absent
             /\ o = IF manifest.files[f].owner = proc[p].id THEN proc[p].to ELSE manifest.files[f].owner
  <2>1. proc[p].at = "manifestRead" /\ proc[p].id \in Id /\ proc[p].to \in Id
    BY <1>0, <1>1 DEF RenameWritesOwners, Jobs, JobOK, Moving
  <2>2. proc[p].manifest = manifest
    BY <1>0, <2>1 DEF IInv, Following
  <2>3. manifest' = Reowned(manifest, proc[p].id, proc[p].to)
    BY <1>1, <2>2 DEF RenameWritesOwners
  <2>4. manifest.files[f] # Absent
    BY <1>0, <2>1, <2>3, ReownedIs
  <2> QED
    BY <1>0, <2>1, <2>3, <2>4, ReownedOwners
<1>2. ASSUME NEW p \in Process, EmitStep(p)
      PROVE  \/ manifest.files[f] # Absent /\ o = manifest.files[f].owner
             \/ proc[p].cmd = "emit" /\ o = proc[p].id
  <2> DEFINE e == emit[p]
             g == First(e.left)
  <2>0. FollowsFiles(e) /\ e \in Emission
    BY <1>0 DEF IInv, Following, TypeOK, HandlesTypeOK
  <2>1. CASE Saved(p)
    <3>1. e.at = "written" /\ manifest' = e.mem
      BY <2>1 DEF Saved
    <3>2. proc[p].cmd = "emit" /\ e.id = proc[p].id
      BY <1>0, <3>1 DEF Emits, EmitsFor
    <3>3. e.mem.files[g] # Absent /\ e.mem.files[g].owner = IF g \in Infra THEN Repo ELSE e.id
      BY <3>1 DEF EmitsFor
    <3>4. \A i \in Path \ {g} : e.mem.files[i] = manifest.files[i]
      BY <2>0, <3>1 DEF FollowsFiles
    <3> HIDE DEF g
    <3> QED
      BY <3>1, <3>2, <3>3, <3>4
  <2>2. CASE Finished(p)
    <3>1. e.mem = manifest
      BY <2>0, <2>2 DEF Finished, FollowsFiles
    <3> QED
      BY <2>2, <3>1 DEF Finished
  <2>3. CASE FlagSaved(p)
    <3>1. e.mem = manifest
      BY <2>0, <2>3 DEF FlagSaved, FollowsFiles
    <3>2. manifest'.files = manifest.files
      BY <1>0, <2>3, <3>1 DEF FlagSaved, Manifest
    <3> QED
      BY <3>2
  <2>4. CASE manifest' = manifest
    BY <2>4
  <2> QED
    BY <1>0, <1>2, <2>1, <2>2, <2>3, <2>4, EmitCases DEF Started, Planned, Passed, Found, Wrote, FlagRead, FlagKept, Ended, Killed, Steady
<1>3. (\E p \in Process : EmitStep(p)) \/ manifest' = manifest \/ \E p \in Process : RenameWritesOwners(p)
  BY OtherCases DEF RenameReadsManifest
<1>4. CASE \E p \in Process : RenameWritesOwners(p)
  BY <1>1, <1>4
<1>5. CASE (\E p \in Process : EmitStep(p)) /\ ~\E p \in Process : RenameWritesOwners(p)
  BY <1>2, <1>5
<1>6. CASE manifest' = manifest /\ ~\E p \in Process : RenameWritesOwners(p)
  BY <1>6
<1> QED
  BY <1>3, <1>4, <1>5, <1>6

\* The id of a command at work on a feature is the one an entry may have as its owner.
LEMMA WorkerOwns ==
  ASSUME IInv, Placed, Moved, NEW p \in Process, proc[p].cmd \in Attending, Clean(proc[p].id[1])
  PROVE  OwnerOK(proc[p].id)
<1> DEFINE x == proc[p]
           n == x.id[1]
<1>0. TypeOK /\ Jobs /\ Emits /\ Indexers /\ Numbered
  BY DEF IInv
<1>1. x.uid \in Uid /\ x.id \in Id /\ x.uid \in SettledBy(n) /\ n \in 1..MaxNumber
  BY <1>0, Known
<1>2. n \in Numbers /\ x.uid \in KnownBy(n) /\ \A u, v \in KnownBy(n) : u = v
  BY <1>0, <1>1, OneUid, KnownTypes
<1>3. CASE x.uid \notin torn
  <2>1. Quiet(x.id) /\ InPlace(x.uid, x.id)
    BY <1>3, WriterInPlace
  <2>2. \A h \in Id : Quiet(h) /\ h[1] = n => x.id = h
    BY <2>1 DEF InPlace, DirectoryAt, Quiet
  <2> QED
    BY <1>2, <2>1, <2>2 DEF OwnerOK, Quiet
<1>4. CASE x.uid \in torn
  <2>1. ASSUME NEW h \in Id, Quiet(h), h[1] = n PROVE FALSE
    <3>1. specs[h].uid = x.uid
      BY <1>0, <1>2, <2>1, Known, KnownTypes DEF Quiet
    <3> QED
      BY <1>4, <2>1, <3>1 DEF Quiet
  <2>2. ASSUME NEW q \in Process, MovesAt(q, n) PROVE proc[q].uid \in torn
    <3>1. proc[q].uid = x.uid
      BY <1>0, <1>2, <2>2, Known, KnownTypes DEF MovesAt
    <3> QED
      BY <1>4, <3>1
  <2> QED
    BY <1>2, <2>1, <2>2 DEF OwnerOK
<1> QED
  BY <1>3, <1>4

\* A directory that is quiet after a step was quiet, or has been renamed.
LEMMA QuietFrom ==
  ASSUME IInv, Minted, Placed, Moved, [Next]_vars, NEW h \in Id, Quiet(h)', h[1] \in Numbers
  PROVE  \/ Quiet(h)
         \/ \E p \in Process : /\ RenameIndexes(p) /\ MovesAt(p, h[1]) /\ proc[p].uid \notin torn
                               /\ proc[p].at = "ownersDone" /\ h = proc[p].to
<1> DEFINE n == h[1]
<1>0. TypeOK /\ Jobs /\ Emits /\ Indexers /\ Numbered /\ n \in 1..MaxNumber
  BY Known DEF IInv
<1>1. CASE ~\E p \in Process : FeatureStep(p) /\ WritesAt(p, n)
  <2>1. PICK u : u = specs'[h].uid
    OBVIOUS
  <2> QED
    BY <1>1, <2>1, PlacedStill
<1>2. ASSUME NEW p \in Process, FeatureStep(p), WritesAt(p, n), ~Quiet(h)
      PROVE  RenameIndexes(p) /\ MovesAt(p, n) /\ proc[p].uid \notin torn /\ proc[p].at = "ownersDone" /\ h = proc[p].to
  <2> DEFINE x == proc[p]
  <2>1. /\ specs'[h].uid = x.uid /\ x.uid \in Uid /\ Clean(n) /\ x.uid \notin torn' /\ x.uid \notin torn
        /\ \A q \in Process : MovesAt(q, n) => q = p
    BY <1>2, QuietBefore
  <2>2. specs'[h] # Absent
    BY DEF Quiet
  <2>3. JobOK(x)
    BY <1>0 DEF Jobs
  <2>4. CASE x.at \notin Moving
    <3>1. \A q \in Process : ~MovesAt(q, n)
      BY <2>1, <2>4 DEF MovesAt
    <3>2. specs'[h] # specs[h]
      BY <1>2, <2>1, <2>2, <3>1 DEF Quiet
    <3>3. InitSaves(p) \/ ArchiveSaves(p)
      BY <1>2, <2>4, <3>2, WritesWhat DEF Crash, InitIndexes, SaveGates, AppendGate, files
    <3>4. ~InitSaves(p)
      <4>1. SUFFICES ASSUME InitSaves(p) PROVE FALSE
        OBVIOUS
      <4>2. x.at = "numbered" /\ x.to[1] = n
        BY <1>2, <2>3, <4>1 DEF InitSaves, WritesAt, JobOK, Moving
      <4>3. SettledBy(n) \subseteq Left(n)
        BY <4>2 DEF Minted
      <4>4. SettledBy(n) # {}
        <5>1. PICK j \in Id : specs[j] # Absent /\ j[1] = n
          BY DEF Numbers
        <5> QED
          BY <1>0, <5>1, Known
      <4> QED
        BY <1>0, <2>1, <4>3, <4>4, OneUid
    <3>5. ArchiveSaves(p) /\ x.cmd \in Attending /\ x.id[1] = n
      BY <1>2, <2>3, <3>3, <3>4 DEF ArchiveSaves, Attending, WritesAt, Moving
    <3>6. Quiet(x.id) /\ x.id \in Id /\ InPlace(x.uid, x.id)
      BY <2>1, <3>5, WriterInPlace
    <3>7. h # x.id /\ specs[h] = Absent
      BY <1>2, <3>5, <3>6 DEF InPlace, DirectoryAt
    <3>8. specs'[h] = specs[h]
      BY <1>0, <3>5, <3>6, <3>7 DEF ArchiveSaves, WithFeature, TypeOK, LifecycleTypeOK
    <3> QED
      BY <3>2, <3>8
  <2>5. CASE x.at \in Moving
    <3>1. x.cmd = "rename" /\ x.id[1] = n /\ x.to \in Id /\ x.id \in Id /\ x.to[1] = n /\ x.to # x.id
      BY <1>2, <2>3, <2>5 DEF WritesAt, JobOK, Moving
    <3>2. MoveOK(x)
      BY <2>1, <2>5, <3>1 DEF Moved
    <3>3. ~(proc'[p].at \in Moving /\ proc'[p].id = x.id)
      BY <3>1 DEF Quiet, MovesAt
    <3>4. ~Crash(p)
      BY <2>1, <2>5, <3>1 DEF Crash
    <3>5. ~RenameReadsFeature(p)
      <4>1. SUFFICES ASSUME RenameReadsFeature(p) PROVE FALSE
        OBVIOUS
      <4>2. specs[x.to] # Absent
        BY <2>1, <4>1 DEF RenameReadsFeature
      <4>3. proc'[p].at = "featureRead" /\ proc'[p].id = x.id
        <5>1. proc' = [proc EXCEPT ![p] = [proc[p] EXCEPT !.at = "featureRead", !.feature = specs[proc[p].to]]]
          BY <4>1, <4>2 DEF RenameReadsFeature
        <5>2. proc \in [Process -> Job] /\ x \in Job
          BY <1>0 DEF TypeOK, LifecycleTypeOK
        <5> QED
          BY <5>1, <5>2 DEF Job
      <4> QED
        BY <3>3, <4>3 DEF Moving
    <3>6. ~RenameStays(p)
      <4>1. SUFFICES ASSUME RenameStays(p) PROVE FALSE
        OBVIOUS
      <4>2. RenameDirectory(p) /\ (specs[x.id] = Absent \/ specs[x.to] # Absent)
        BY <3>3, <4>1, StaysMoving
      <4>3. DirectoryAt(x.uid, x.id, x.id, x.id)
        BY <3>2, <4>2 DEF MoveOK, RenameDirectory
      <4> QED
        BY <3>1, <4>2, <4>3 DEF DirectoryAt
    <3>7. RenameIndexes(p) /\ x.at = "ownersDone" /\ specs' = specs
      BY <1>2, <3>1, <3>4, <3>5, <3>6, WritesWhat DEF Attending, RenameIndexes, files
    <3>8. DirectoryAt(x.uid, x.to, x.to, x.to)
      BY <3>2, <3>7 DEF MoveOK
    <3>9. h = x.to
      BY <2>2, <3>1, <3>7, <3>8 DEF DirectoryAt
    <3> QED
      BY <2>1, <2>5, <3>1, <3>7, <3>9 DEF MovesAt
  <2> QED
    BY <2>4, <2>5
<1> QED
  BY <1>1, <1>2

\* An owner is still right when the step moves no owners at its number.
LEMMA OwnerStill ==
  ASSUME IInv, Minted, Placed, Moved, [Next]_vars, NEW o \in Id, OwnerOK(o), Clean(o[1])',
         ~\E p \in Process : RenameWritesOwners(p) /\ MovesAt(p, o[1])
  PROVE  OwnerOK(o)'
<1> DEFINE n == o[1]
<1>0. TypeOK /\ Jobs /\ Emits /\ Indexers /\ Numbered /\ n \in 1..MaxNumber /\ Clean(n)
  BY Known, GhostsGrow DEF IInv
<1>1. n \in Numbers'
  <2>1. CASE ~\E p \in Process : FeatureStep(p) /\ WritesAt(p, n)
    <3>1. Still(n)
      BY <1>0, <2>1, StillAway
    <3> QED
      BY <3>1 DEF Still, Numbers, OwnerOK
  <2>2. CASE \E p \in Process : FeatureStep(p) /\ WritesAt(p, n)
    BY <1>0, <2>2, NumbersKept DEF OwnerOK
  <2> QED
    BY <2>1, <2>2
<1>2. ASSUME NEW h \in Id, Quiet(h)', h[1] = n PROVE o = h
  <2>1. CASE Quiet(h)
    BY <1>2, <2>1 DEF OwnerOK
  <2>2. ASSUME NEW p \in Process, MovesAt(p, n), proc[p].uid \notin torn, proc[p].at = "ownersDone", h = proc[p].to PROVE o = h
    BY <2>2 DEF OwnerOK
  <2> QED
    BY <1>2, <2>1, <2>2, QuietFrom DEF OwnerOK
<1>3. ASSUME NEW q \in Process, MovesAt(q, n)', proc'[q].uid \notin torn'
      PROVE  o = IF proc'[q].at = "ownersDone" THEN proc'[q].to ELSE proc'[q].id
  <2> DEFINE x == proc[q]
  <2>0. proc'[q].at \in Moving /\ proc'[q].id[1] = n
    BY <1>3 DEF MovesAt
  <2>1. CASE proc'[q] = x
    <3>1. MovesAt(q, n) /\ x.uid \notin torn
      BY <1>3, <2>0, <2>1, GhostsGrow DEF MovesAt
    <3> QED
      BY <2>1, <3>1 DEF OwnerOK
  <2>2. CASE RenameChecks(q) /\ proc'[q].at = "checked"
    <3>1. /\ x.at = "locked" /\ x.cmd = "rename" /\ x.id \in Id /\ proc'[q].id = x.id /\ specs[x.id] # Absent
          /\ proc'[q].uid = specs[x.id].uid
      BY <1>0, <2>2, ChoosesIs DEF RenameChecks, Jobs, JobOK
    <3>2. ASSUME NEW p \in Process, MovesAt(p, n) PROVE FALSE
      <4>1. proc[p].cmd \in Indexing /\ proc[p].at # "waiting"
        BY <1>0, <3>2 DEF Jobs, JobOK, MovesAt, Moving, Indexing
      <4>2. p = q
        BY <1>0, <3>1, <4>1, LockedOut DEF Indexing
      <4> QED
        BY <3>1, <3>2, <4>2 DEF MovesAt, Moving
    <3>3. specs[x.id].uid \notin torn
      BY <1>3, <3>1, GhostsGrow
    <3>4. Quiet(x.id)
      BY <1>0, <2>0, <3>1, <3>2, <3>3 DEF Quiet
    <3>5. o = x.id
      BY <2>0, <3>1, <3>4 DEF OwnerOK
    <3> QED
      BY <2>2, <3>1, <3>5
  <2>3. CASE /\ FeatureStep(q) /\ x.at \in Moving /\ x.cmd = "rename"
             /\ proc'[q].id = x.id /\ proc'[q].to = x.to /\ proc'[q].uid = x.uid
             /\ RenameReadsFeature(q) \/ RenameStays(q)
    <3>1. MovesAt(q, n) /\ x.uid \notin torn
      BY <1>3, <2>0, <2>3, GhostsGrow DEF MovesAt
    <3>2. ~RenameWritesOwners(q)
      BY <3>1
    <3>3. x.at # "ownersDone"
      BY <2>3 DEF RenameReadsFeature, RenameStays, RenameDirectory, RenameContracts, RenameWritesFeature, RenameState,
         RenameReadsState, RenameWritesState, RenameHistory, RenameReadsManifest, RenameWritesOwners
    <3>4. proc'[q].at # "ownersDone"
      <4>1. CASE RenameReadsFeature(q)
        BY <1>0, <4>1, ChoosesIs
      <4>2. CASE RenameReadsState(q) \/ RenameReadsManifest(q)
        <5>1. x \in Job /\ proc \in [Process -> Job]
          BY <1>0 DEF TypeOK, LifecycleTypeOK
        <5> QED
          BY <4>2, <5>1 DEF RenameReadsState, RenameReadsManifest, Job
      <4>3. CASE \/ RenameDirectory(q) \/ RenameContracts(q) \/ RenameWritesFeature(q) \/ RenameState(q)
                 \/ RenameWritesState(q) \/ RenameHistory(q)
        <5>1. PICK place \in {"done", "moved", "contracts", "featureWritten", "stateDone", "stateMoved", "historyDone"} : Goes(q, place)
          BY <4>3 DEF RenameDirectory, RenameContracts, RenameWritesFeature, RenameState, RenameWritesState, RenameHistory
        <5> QED
          BY <1>0, <5>1, AtSet DEF Moving
      <4> QED
        BY <2>3, <3>2, <4>1, <4>2, <4>3 DEF RenameStays
    <3>5. o = x.id
      BY <3>1, <3>3 DEF OwnerOK
    <3> QED
      BY <2>3, <3>4, <3>5
  <2> QED
    BY <2>0, <2>1, <2>2, <2>3, MoverFrom
<1> QED
  BY <1>1, <1>2, <1>3 DEF OwnerOK

\* The step of a rename that moves the owners gives those of its feature the new id.
LEMMA OwnerMoved ==
  ASSUME IInv, [Next]_vars, NEW p \in Process, RenameWritesOwners(p), NEW w \in Id, OwnerOK(w), w[1] = proc[p].id[1],
         Clean(w[1])', NEW o, o = IF w = proc[p].id THEN proc[p].to ELSE w
  PROVE  OwnerOK(o)'
<1> DEFINE x == proc[p]
<1>n. PICK n : n = x.id[1]
  OBVIOUS
<1>0. TypeOK /\ Jobs /\ Emits /\ Indexers /\ JobOK(x)
  BY DEF IInv, Jobs
<1>1. x.at = "manifestRead" /\ x.cmd = "rename" /\ x.id \in Id /\ x.to \in Id /\ x.to[1] = n /\ MovesAt(p, n) /\ specs' = specs
  BY <1>0, <1>n DEF RenameWritesOwners, JobOK, MovesAt, Moving, files
<1>2. /\ proc'[p].at = "ownersDone" /\ proc'[p].id = x.id /\ proc'[p].to = x.to /\ proc'[p].uid = x.uid
      /\ \A q \in Process \ {p} : proc'[q] = proc[q]
  BY <1>0, AtSet DEF RenameWritesOwners, Moving
<1>3. MovesAt(p, n)' /\ o[1] = n
  BY <1>1, <1>2, <1>n DEF MovesAt, Moving
<1>4. o[1] \in Numbers'
  BY <1>1, <1>3, <1>n DEF Numbers, OwnerOK
<1>5. \A h \in Id : ~(Quiet(h)' /\ h[1] = n)
  BY <1>3 DEF Quiet
<1>6. ASSUME NEW q \in Process, MovesAt(q, n)', proc'[q].uid \notin torn'
      PROVE  o = IF proc'[q].at = "ownersDone" THEN proc'[q].to ELSE proc'[q].id
  <2>1. q = p
    <3>1. SUFFICES ASSUME q # p PROVE FALSE
      OBVIOUS
    <3>2. proc[q].at \in Moving
      BY <1>2, <1>6, <3>1 DEF MovesAt
    <3> QED
      BY <1>1, <3>1, <3>2, OneIndexer DEF Moving
  <2>2. x.uid \notin torn
    BY <1>2, <1>6, <2>1, GhostsGrow
  <2>3. w = x.id
    BY <1>1, <1>n, <2>2 DEF OwnerOK
  <2> QED
    BY <1>2, <2>1, <2>3
<1> QED
  BY <1>3, <1>4, <1>5, <1>6 DEF OwnerOK

\* The owners are right as long as no two processes go by a manifest they have loaded.
LEMMA OwnersKept ==
  ASSUME IInv, Minted, EmitsFor, Placed, Moved, Owners, [Next]_vars
  PROVE  Owners'
<1>0. TypeOK /\ Jobs /\ Emits /\ Indexers /\ TypeOK'
  BY TypesKept DEF IInv
<1>1. SUFFICES ASSUME ~overlap', NEW f \in Path, NEW o, o = manifest'.files[f].owner, manifest'.files[f] # Absent, o # Repo,
                      Clean(o[1])'
               PROVE  OwnerOK(o)'
  <2>1. SUFFICES ASSUME ~overlap', NEW f \in Path, manifest'.files[f] # Absent, manifest'.files[f].owner # Repo,
                        Clean(manifest.files[f].owner[1])'
                 PROVE  OwnerOK(manifest.files[f].owner)'
    BY DEF Owners
  <2>2. PICK o : o = manifest'.files[f].owner
    OBVIOUS
  <2>3. Clean(o[1])'
    BY <2>1, <2>2 DEF Clean, Vacated
  <2>4. OwnerOK(o)'
    BY <1>1, <2>1, <2>2, <2>3
  <2> QED
    BY <2>2, <2>4 DEF OwnerOK
<1>2. ~overlap /\ Clean(o[1])
  BY <1>1, GhostsGrow
<1>3. \A g \in Path : manifest.files[g] # Absent => manifest.files[g].owner \in Id \cup {Repo}
  BY <1>0, ContentsAssumption DEF TypeOK, LifecycleTypeOK, Manifest, Entry, Owner
<1>4. CASE /\ manifest.files[f] # Absent /\ o = manifest.files[f].owner
           /\ ~\E p \in Process : RenameWritesOwners(p)
  <2>1. o \in Id /\ OwnerOK(o)
    BY <1>1, <1>2, <1>3, <1>4 DEF Owners
  <2> QED
    BY <1>1, <1>4, <2>1, OwnerStill
<1>5. ASSUME NEW p \in Process, proc[p].cmd = "emit", o = proc[p].id, ~\E q \in Process : RenameWritesOwners(q)
      PROVE  OwnerOK(o)'
  <2>1. o \in Id
    BY <1>0, <1>5 DEF Jobs, JobOK
  <2>2. OwnerOK(o)
    BY <1>2, <1>5, WorkerOwns DEF Attending
  <2> QED
    BY <1>1, <1>5, <2>1, <2>2, OwnerStill
<1>6. ASSUME NEW p \in Process, RenameWritesOwners(p), manifest.files[f] # Absent,
             o = IF manifest.files[f].owner = proc[p].id THEN proc[p].to ELSE manifest.files[f].owner
      PROVE  OwnerOK(o)'
  <2> DEFINE w == manifest.files[f].owner
  <2>1. proc[p].at = "manifestRead" /\ proc[p].id \in Id /\ proc[p].to \in Id /\ proc[p].to[1] = proc[p].id[1]
    BY <1>0, <1>6 DEF RenameWritesOwners, Jobs, JobOK, Moving
  <2>2. w # Repo /\ w \in Id /\ w[1] = o[1]
    BY <1>1, <1>3, <1>6, <2>1, ContentsAssumption
  <2>3. OwnerOK(w)
    BY <1>2, <1>6, <2>2 DEF Owners
  <2>4. CASE w[1] = proc[p].id[1]
    <3>1. PICK v \in Id : v = w
      BY <2>2
    <3>2. Clean(v[1])' /\ OwnerOK(v)
      BY <1>1, <2>2, <2>3, <3>1
    <3> QED
      BY <1>6, <2>4, <3>1, <3>2, OwnerMoved
  <2>5. CASE w[1] # proc[p].id[1]
    <3>1. o = w
      BY <1>6, <2>5
    <3>2. ~\E q \in Process : RenameWritesOwners(q) /\ MovesAt(q, o[1])
      <4>1. SUFFICES ASSUME NEW q \in Process, RenameWritesOwners(q), MovesAt(q, o[1]) PROVE FALSE
        OBVIOUS
      <4>2. q = p
        BY <2>1, <4>1, OneIndexer DEF MovesAt, Moving
      <4> QED
        BY <2>5, <3>1, <4>1, <4>2 DEF MovesAt
    <3> QED
      BY <1>1, <2>2, <2>3, <3>1, <3>2, OwnerStill
  <2> QED
    BY <2>4, <2>5
<1> QED
  BY <1>1, <1>4, <1>5, <1>6, OwnerFrom

-----------------------------------------------------------------------------
(* The initial states: what a rename keeps.                                 *)

\* An entry of the beginning has the owner one, or belongs to no feature.
LEMMA BeginningOwners ==
  ASSUME NEW one \in Id, HandlesInit(one), NEW f \in Path, manifest.files[f] # Absent
  PROVE  manifest.files[f].owner \in {one, Repo}
<1>1. CASE manifest = NoManifest
  BY <1>1 DEF NoManifest
<1>2. ASSUME NEW v \in Version,
             manifest = [files |-> [g \in Path |-> [owner |-> [h \in Path |-> Render(h, one, FALSE, v)][g].owner,
                                                    hash |-> [h \in Path |-> Render(h, one, FALSE, v)][g]]],
                         enforce |-> FALSE]
      PROVE  manifest.files[f].owner \in {one, Repo}
  <2> DEFINE made == [h \in Path |-> Render(h, one, FALSE, v)]
  <2>1. made[f].owner \in {one, Repo}
    BY DEF Render
  <2> HIDE DEF made
  <2>2. manifest.files = [g \in Path |-> [owner |-> made[g].owner, hash |-> made[g]]]
    BY <1>2 DEF made
  <2> QED
    BY <2>1, <2>2
<1>3. manifest = NoManifest \/
      \E v \in Version : manifest = [files |-> [g \in Path |-> [owner |-> [h \in Path |-> Render(h, one, FALSE, v)][g].owner,
                                                    hash |-> [h \in Path |-> Render(h, one, FALSE, v)][g]]],
                         enforce |-> FALSE]
  BY DEF HandlesInit
<1> QED
  BY <1>1, <1>2, <1>3

\* In every initial state features and entries are in their places.
LEMMA BeginningOK ==
  ASSUME Init
  PROVE  RInv
<1>1. PICK one, two \in Id, first, second \in Uid :
           one[1] = 1 /\ two[1] = 2 /\ first # second /\ Beginning(one, two, first, second)
  BY BeginningIs
<1>2. /\ proc = [p \in Process |-> Idle] /\ emit = [p \in Process |-> NoEmit]
      /\ req = [r \in Request |-> NoRequest] /\ torn = {}
  BY <1>1 DEF Init, HandlesInit, Beginning
<1>3. TypeOK
  BY InitOK DEF IInv
<1>4. /\ \A i \in Id \ {one, two} : specs[i] = Absent
      /\ \A i \in {one, two} : /\ specs[i] # Absent /\ specs[i].uid = IF i = one THEN first ELSE second
                               /\ specs[i].feature_id = i /\ specs[i].contract \in {i, Absent}
      /\ \A n \in 1..MaxNumber : \A u \in KnownBy(n) : (u = first /\ n = 1) \/ (u = second /\ n = 2)
  BY <1>1, <1>2, <1>3, BeginningKnown
<1>5. one # two /\ 1 \in Numbers /\ 2 \in Numbers
  BY <1>1, <1>4 DEF Numbers
<1>6. \A p \in Process : /\ proc[p].cmd = "none" /\ proc[p].at = "idle" /\ emit[p].at = "idle"
  BY <1>2 DEF Idle, NoEmit
<1>7. /\ minted = {first, second} /\ told[first] = Needed /\ told[second] = Needed
      /\ \A u \in Uid \ {first, second} : told[u] = {}
  BY <1>1 DEF Beginning
<1>8. Minted
  <2>1. torn \subseteq minted /\ \A u \in Uid : told[u] # {} => u \in minted
    BY <1>2, <1>7
  <2>2. \A n \in 1..MaxNumber : KnownBy(n) \subseteq minted
    BY <1>4, <1>7
  <2>3. \A m, n \in 1..MaxNumber : KnownBy(m) \cap KnownBy(n) # {} => m = n
    BY <1>1, <1>4
  <2> QED
    BY <1>6, <2>1, <2>2, <2>3 DEF Minted
<1>9. StateHolders /\ EmitsFor
  <2>1. \A r \in Request : req[r].at = "none"
    BY <1>2 DEF NoRequest
  <2> QED
    BY <1>6, <2>1 DEF StateHolders, Gating, Serving, EmitsFor
<1>10. /\ \A i \in Id \ {one, two} : sbf[i] = Absent /\ history[i] = {}
       /\ \A i \in {one, two} : history[i] = Needed
  BY <1>1 DEF Beginning
<1>11. \A i \in {one, two} : sbf[i] # Absent /\ sbf[i].feature_id = i /\ sbf[i].gates = Needed
  <2>1. \A i \in {one, two} : sbf[i] = [feature_id |-> i, gates |-> Needed]
    BY <1>1 DEF Beginning
  <2>2. \A i \in {one, two} : [feature_id |-> i, gates |-> Needed] \in State
    BY GatesAssumption DEF State
  <2> QED
    BY <2>1, <2>2, RecordsAssumption
<1>12. Untaken
  BY <1>1, <1>5, <1>6, <1>10 DEF Untaken
<1>13. \A i \in Id : specs[i] # Absent => i \in {one, two}
  BY <1>4
<1>14. Placed
  <2>1. ASSUME NEW h \in {one, two}, NEW u, u = specs[h].uid PROVE InPlace(u, h)
    <3>1. u = IF h = one THEN first ELSE second
      BY <1>4, <2>1
    <3>2. \A i \in Id : i[1] = h[1] /\ i # h => i \notin {one, two}
      BY <1>1, <2>1
    <3>3. DirectoryAt(u, h, h, h)
      BY <1>4, <2>1, <3>2 DEF DirectoryAt
    <3>4. StateAt(u, h, h) /\ LogAt(u, h)
      BY <1>7, <1>10, <1>11, <2>1, <3>1, <3>2 DEF StateAt, LogAt
    <3>5. LastIs(u, h)
      <4>1. index.by_uid[u] = <<h>>
        BY <1>1, <2>1, <3>1 DEF Beginning
      <4> QED
        BY <4>1 DEF LastIs, Last
    <3>6. \A p \in Process : Fits(proc[p], u, h)
      BY <1>6 DEF Fits, Attending
    <3> QED
      BY <3>3, <3>4, <3>5, <3>6 DEF InPlace
  <2> QED
    BY <1>13, <2>1 DEF Placed, Quiet
<1>15. Moved
  BY <1>6 DEF Moved, Moving
<1>16. Owners
  <2>1. OwnerOK(one)
    <3>1. \A h \in Id : Quiet(h) /\ h[1] = 1 => one = h
      BY <1>1, <1>13 DEF Quiet
    <3>2. \A p \in Process : ~MovesAt(p, 1)
      BY <1>6 DEF MovesAt, Moving
    <3> QED
      BY <1>1, <1>5, <3>1, <3>2 DEF OwnerOK
  <2>2. HandlesInit(one)
    BY <1>1 DEF Beginning
  <2> QED
    BY <2>1, <2>2, BeginningOwners DEF Owners
<1> QED
  BY <1>8, <1>9, <1>12, <1>14, <1>15, <1>16 DEF RInv

-----------------------------------------------------------------------------
(* What a rename keeps.                                                    *)

\* A feature that is whole has a directory, and that is quiet.
LEMMA WholeIsQuiet ==
  ASSUME IInv, NEW u \in Whole
  PROVE  \E h \in Id : /\ Quiet(h) /\ specs[h].uid = u /\ index.by_uid[u] # <<>>
                       /\ Last(index.by_uid[u]) \in Ids(u, index) /\ Last(index.by_uid[u])[1] = h[1]
                       /\ \A i \in Ids(u, index) : i \in Id /\ Clean(i[1]) /\ u \in KnownBy(i[1])
<1> DEFINE l == Last(index.by_uid[u])
<1>0. TypeOK /\ Jobs /\ Numbered
  BY DEF IInv
<1>1. u \in Uid /\ index.by_uid[u] # <<>> /\ u \notin torn /\ u \notin BeingRenamed
  BY DEF Whole
<1>2. l \in Ids(u, index)
  <2>1. index.by_uid[u] \in Seq(Id)
    BY <1>0, <1>1 DEF TypeOK, LifecycleTypeOK, Index
  <2>2. Len(index.by_uid[u]) \in 1..Len(index.by_uid[u])
    BY <1>1, <2>1
  <2> QED
    BY <2>2 DEF Last, Ids
<1>3. \A i \in Ids(u, index) : i \in Id /\ Clean(i[1]) /\ u \in SettledBy(i[1])
  <2>1. ASSUME NEW i \in Ids(u, index) PROVE i \in Id
    BY <1>0, <1>1 DEF TypeOK, LifecycleTypeOK, Index, Ids
  <2>2. \A i \in Ids(u, index) : i[1] \notin Vacated
    BY DEF Whole
  <2> QED
    BY <1>1, <2>1, <2>2 DEF Clean, SettledBy
<1> DEFINE n == l[1]
<1>4. n \in 1..MaxNumber /\ Clean(n) /\ u \in SettledBy(n)
  BY <1>2, <1>3 DEF Id
<1>5. n \in Numbers /\ u \in KnownBy(n) /\ \A v \in KnownBy(n) : v = u
  BY <1>0, <1>4, OneUid, KnownTypes
<1>6. PICK h \in Id : h[1] = n /\ specs[h] # Absent
  BY <1>5 DEF Numbers
<1>7. specs[h].uid = u
  BY <1>0, <1>5, <1>6, Known, KnownTypes
<1>8. ASSUME NEW p \in Process, MovesAt(p, n) PROVE FALSE
  <2>1. proc[p].uid = u
    BY <1>0, <1>5, <1>8, Known, KnownTypes DEF MovesAt
  <2>2. proc[p].cmd = "rename" /\ proc[p].at \in Moving
    BY <1>0, <1>8 DEF MovesAt, Jobs, JobOK
  <2> QED
    BY <1>1, <2>1, <2>2 DEF BeingRenamed
<1>9. Quiet(h)
  BY <1>1, <1>4, <1>6, <1>7, <1>8 DEF Quiet
<1> QED
  BY <1>0, <1>1, <1>2, <1>3, <1>6, <1>7, <1>9, KnownTypes

\* A feature that is whole has everything under its last id, and nothing under those before it.
LEMMA WholeIsFound ==
  ASSUME IInv, RInv
  PROVE  RenameKeepsAll
<1>1. ASSUME NEW u \in Whole, NEW l, l = Last(index.by_uid[u])
      PROVE  FoundUnder(u, l) /\ \A i \in Ids(u, index) \ {l} : Empty(i) /\ (~overlap => OwnsNothing(i))
  <2>1. PICK h \in Id : /\ Quiet(h) /\ specs[h].uid = u /\ index.by_uid[u] # <<>>
                        /\ l \in Ids(u, index) /\ l[1] = h[1]
                        /\ \A i \in Ids(u, index) : i \in Id /\ Clean(i[1]) /\ u \in KnownBy(i[1])
    BY <1>1, WholeIsQuiet
  <2>2. InPlace(u, h)
    BY <2>1 DEF RInv, Placed
  <2>3. l = h
    BY <1>1, <2>1, <2>2 DEF InPlace, LastIs
  <2>4. FoundUnder(u, h)
    BY <2>2 DEF InPlace, DirectoryAt, StateAt, LogAt, FoundUnder
  <2>5. ASSUME NEW i \in Ids(u, index), i # h
        PROVE  Empty(i) /\ (~overlap => OwnsNothing(i))
    <3>1. i \in Id /\ Clean(i[1]) /\ u \in KnownBy(i[1]) /\ u \in KnownBy(h[1])
      BY <2>1, <2>5
    <3>2. i[1] = h[1]
      <4>1. i[1] \in 1..MaxNumber /\ h[1] \in 1..MaxNumber
        BY <3>1 DEF Id
      <4> QED
        BY <3>1, <4>1 DEF RInv, Minted
    <3>3. Empty(i)
      BY <2>2, <2>5, <3>1, <3>2 DEF InPlace, DirectoryAt, StateAt, LogAt, Empty
    <3>4. ASSUME ~overlap, NEW f \in Path, manifest.files[f] # Absent, manifest.files[f].owner = i
          PROVE  FALSE
      <4>1. i # Repo
        BY <3>1, ContentsAssumption
      <4>2. OwnerOK(i)
        BY <3>1, <3>4, <4>1 DEF RInv, Owners
      <4> QED
        BY <2>1, <2>5, <3>2, <4>2 DEF OwnerOK
    <3> QED
      BY <3>3, <3>4 DEF OwnsNothing
  <2> QED
    BY <2>3, <2>4, <2>5
<1> QED
  BY <1>1 DEF RenameKeepsAll

\* Whatever other commands, emits and requests do meanwhile, and whoever crashes: a feature that no
\* rename is at or has torn is found under its last id with its record, contract files, gates and log,
\* and nothing is left under the ids it had, nor in the manifest while no two commands went by copies of it.
THEOREM RenameKeepsAllCorrect == Spec => []RenameKeepsAll
<1>1. Init => IInv /\ RInv
  BY InitOK, BeginningOK
<1>2. ASSUME IInv, RInv, [Next]_vars PROVE RInv'
  <2>1. Minted' /\ StateHolders' /\ EmitsFor'
    BY <1>2, MintedKept, StateHoldersKept, EmitsForKept DEF RInv
  <2>2. Untaken' /\ Placed' /\ Moved' /\ Owners'
    BY <1>2, UntakenKept, PlacedKept, MovedKept, OwnersKept DEF RInv
  <2> QED
    BY <2>1, <2>2 DEF RInv
<1>3. IInv /\ RInv /\ [Next]_vars => RInv'
  BY <1>2
<1>4. IInv /\ RInv => RenameKeepsAll
  BY WholeIsFound
<1> QED
  BY <1>1, <1>3, <1>4, Inductive, PTL DEF Spec
=============================================================================
