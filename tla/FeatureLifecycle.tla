-------------------------- MODULE FeatureLifecycle --------------------------
(***************************************************************************)
(* feature init, rename, link and archive (bin/bskel.mjs and               *)
(* lib/featurelifecycle.mjs), and the gate writes of lib/state.mjs that    *)
(* run beside them.  Init, rename and link hold the lock feature-index;    *)
(* gate writes hold the lock state; archive holds none; and rename moves   *)
(* the files of a feature one after the other, among them the state file   *)
(* and the manifest that its lock does not protect.                        *)
(***************************************************************************)
EXTENDS HandlesManifest

CONSTANTS
  Process,     \* bskel processes
  Request,     \* requests of bskel serve, see ServeLoop
  NoHolder,    \* a lock directory that does not exist
  Uid,         \* feature_uid values, numbered in the order they are minted
  Gate,        \* names of gates
  MaxCommands, \* bound on commands and requests
  MaxFaults    \* bound on crashes, edits and removals

ASSUME UidsAssumption == Uid \subseteq Nat \ {0} /\ IsFiniteSet(Uid) /\ MaxCommands \in Nat /\ MaxFaults \in Nat \ {0}
ASSUME HoldersAssumption == NoHolder \notin Process \cup Request /\ Process \cap Request = {}

VARIABLES
  specs,       \* specs/<id>: feature.json, and the id its contract files are named after
  sbf,         \* .sbf/<id>.json
  history,     \* the gates in .sbf/<id>.history.jsonl
  index,       \* .sbf/feature-index.json
  featureLock, stateLock,
  proc,        \* one record per process
  spent,       \* commands and faults so far
  \* ghosts
  minted,      \* feature_uid values that randomUUID has given: it gives none twice
  told,        \* gates whose write ended, of each feature
  torn,        \* features of which a rename was cut by a crash or ran beside another command on them
  removed      \* directories that a person took away: each feature known by the number, with the number

files == <<specs, sbf, history>>
locks == <<featureLock, stateLock>>
ghosts == <<minted, told, torn, removed>>
lifecycleVars == <<manifest, specs, sbf, history, index, featureLock, stateLock, proc, spent, minted, told, torn, removed>>

Record == [uid : Uid, feature_id : Id, archived : BOOLEAN, contract : Id \cup {Absent}]
State == [feature_id : Id, gates : SUBSET Gate]
Index == [by_uid : [Uid -> Seq(Id)], merged : [Id -> Id \cup {Absent}]]

ASSUME RecordsAssumption == Absent \notin Id \cup Record \cup State \cup Uid

Commands == {"none", "init", "rename", "link", "archive", "gate", "emit"}

\* Between the check and the index a rename goes through these, in this order.
Moving == {"checked", "moved", "contracts", "featureRead", "featureWritten", "stateMoved", "stateRead",
           "stateDone", "historyDone", "manifestRead", "ownersDone"}

\* What a process keeps: its command and where it stands, the ids it goes by, the gate and the
\* feature it is about, and what it has read.
Job == [cmd : Commands, at : {"idle", "dead", "waiting", "locked", "numbered", "saved", "read", "loaded",
                              "emitting", "done"} \cup Moving,
        id : Id \cup {Absent}, to : Id \cup {Absent}, gate : Gate \cup {Absent}, uid : Uid \cup {Absent},
        feature : Record \cup {Absent}, state : State \cup {Absent}, index : Index \cup {Absent},
        manifest : Manifest]

Idle == [cmd |-> "none", at |-> "idle", id |-> Absent, to |-> Absent, gate |-> Absent, uid |-> Absent,
         feature |-> Absent, state |-> Absent, index |-> Absent, manifest |-> NoManifest]

LifecycleTypeOK ==
  /\ manifest \in Manifest
  /\ specs \in [Id -> Record \cup {Absent}]
  /\ sbf \in [Id -> State \cup {Absent}]
  /\ history \in [Id -> SUBSET Gate]
  /\ index \in Index
  /\ featureLock \in Process \cup {NoHolder} /\ stateLock \in Process \cup Request \cup {NoHolder}
  /\ proc \in [Process -> Job]
  /\ spent \in [commands : 0..MaxCommands, faults : 0..MaxFaults]
  /\ minted \in SUBSET Uid /\ told \in [Uid -> SUBSET Gate] /\ torn \in SUBSET Uid
  /\ removed \in SUBSET (Uid \X (1..MaxNumber))

-----------------------------------------------------------------------------
(* What the commands ask of the files. *)

Last(s) == s[Len(s)]
Ids(u, x) == {x.by_uid[u][i] : i \in 1..Len(x.by_uid[u])}

\* Mutant of InUse: ids of the past are free again.
InUseNow(id, x) == specs[id] # Absent

\* featureIdInUse: a directory has it, or some feature had it once.
InUse(id, x) == specs[id] # Absent \/ \E u \in Uid : id \in Ids(u, x)

Numbers == {id[1] : id \in {i \in Id : specs[i] # Absent}}

\* Mutant of NextNumber: the directories are counted.
CountNumber == 1 + Cardinality(Numbers)

\* nextFeatureNumber: one past the largest that a directory has.
NextNumber == IF Numbers = {} THEN 1 ELSE 1 + (CHOOSE n \in Numbers : \A m \in Numbers : m <= n)

\* Processes in these commands that are at work on a feature known by one of these ids.
Working(p, ids, cmds) ==
  {q \in Process \ {p} : proc[q].cmd \in cmds /\ {proc[q].id, proc[q].to} \cap ids # {}}

Spend == spent.commands < MaxCommands /\ spent' = [spent EXCEPT !.commands = @ + 1]
Fault == spent.faults < MaxFaults /\ spent' = [spent EXCEPT !.faults = @ + 1]

\* A command is given for a feature that exists by then (what it finds later may be another matter);
\* it is remembered when it works on a feature that is being renamed.
Begins(p, record) ==
  /\ proc[p].at = "idle" /\ Spend
  /\ proc' = [proc EXCEPT ![p] = record]
  /\ torn' = IF /\ record.cmd \in {"archive", "gate", "emit"}
                /\ \E q \in Working(p, {record.id}, {"rename"}) : proc[q].at \in Moving
             THEN torn \cup {record.uid} ELSE torn

Goes(p, place) == proc' = [proc EXCEPT ![p].at = place]
Ends(p) == proc' = [proc EXCEPT ![p] = Idle]

-----------------------------------------------------------------------------
(* withLockSync of feature-index. *)

AcquireFeatures(p) ==
  /\ proc[p].at = "waiting" /\ proc[p].cmd \in {"init", "rename", "link"}
  /\ featureLock = NoHolder /\ featureLock' = p
  /\ Goes(p, "locked")
  /\ UNCHANGED <<manifest, files, index, stateLock, spent, ghosts>>

TimeoutFeatures(p) ==
  /\ proc[p].at = "waiting" /\ proc[p].cmd \in {"init", "rename", "link"}
  /\ featureLock # NoHolder
  /\ Ends(p)
  /\ UNCHANGED <<manifest, files, index, locks, spent, ghosts>>

ReleaseFeatures(p) ==
  /\ proc[p].at = "done" /\ proc[p].cmd \in {"init", "rename", "link"}
  /\ featureLock' = NoHolder
  /\ Ends(p)
  /\ UNCHANGED <<manifest, files, index, stateLock, spent, ghosts>>

-----------------------------------------------------------------------------
(* feature init, link and archive. *)

\* The slug asked for is kept in `id`; the number comes from the directories.
StartInit(p, slug) ==
  /\ Begins(p, [Idle EXCEPT !.cmd = "init", !.at = "waiting", !.id = <<1, slug>>])
  /\ UNCHANGED <<manifest, files, index, locks, minted, told, removed>>

\* nextFeatureNumber and randomUUID.  A number with more digits than an id has is refused when the
\* record is saved.
InitNumbers(p) ==
  /\ proc[p].cmd = "init" /\ proc[p].at = "locked"
  /\ LET n == NextNumber
         u == CHOOSE v \in Uid \ minted : \A w \in Uid \ minted : v <= w
     IN  IF n > MaxNumber \/ Uid \subseteq minted THEN Goes(p, "done") /\ UNCHANGED minted
         ELSE /\ proc' = [proc EXCEPT ![p] = [proc[p] EXCEPT !.at = "numbered", !.to = <<n, proc[p].id[2]>>, !.uid = u]]
              /\ minted' = minted \cup {u}
  /\ UNCHANGED <<manifest, files, index, locks, spent, told, torn, removed>>

InitSaves(p) ==
  /\ proc[p].cmd = "init" /\ proc[p].at = "numbered"
  /\ specs' = [specs EXCEPT ![proc[p].to] =
                 [uid |-> proc[p].uid, feature_id |-> proc[p].to, archived |-> FALSE, contract |-> Absent]]
  /\ Goes(p, "saved")
  /\ UNCHANGED <<manifest, sbf, history, index, locks, spent, ghosts>>

InitIndexes(p) ==
  /\ proc[p].cmd = "init" /\ proc[p].at = "saved"
  /\ index' = [index EXCEPT !.by_uid = [index.by_uid EXCEPT ![proc[p].uid] = <<proc[p].to>>]]
  /\ Goes(p, "done")
  /\ UNCHANGED <<manifest, files, locks, spent, ghosts>>

StartLink(p, keep, alias) ==
  /\ keep # alias /\ Absent \notin {specs[keep], specs[alias]}
  /\ Begins(p, [Idle EXCEPT !.cmd = "link", !.at = "waiting", !.id = alias, !.to = keep])
  /\ UNCHANGED <<manifest, files, index, locks, minted, told, removed>>

\* Both features must exist; nothing but the index is written.
Link(p) ==
  /\ proc[p].cmd = "link" /\ proc[p].at = "locked"
  /\ index' = IF Absent \in {specs[proc[p].id], specs[proc[p].to]} THEN index
              ELSE [index EXCEPT !.merged = [index.merged EXCEPT ![proc[p].id] = proc[p].to]]
  /\ Goes(p, "done")
  /\ UNCHANGED <<manifest, files, locks, spent, ghosts>>

\* archiveFeature reads the record and takes no lock.
StartArchive(p, id) ==
  /\ specs[id] # Absent
  /\ Begins(p, [Idle EXCEPT !.cmd = "archive", !.at = "read", !.id = id, !.uid = specs[id].uid,
                            !.feature = specs[id]])
  /\ UNCHANGED <<manifest, files, index, locks, minted, told, removed>>

\* feature.json as a process read it, written to a directory that is made if it is gone.
WithFeature(id, feature) ==
  [specs EXCEPT ![id] = [feature EXCEPT !.contract = IF specs[id] = Absent THEN Absent ELSE specs[id].contract]]

\* saveFeatureFile writes what was read.
ArchiveSaves(p) ==
  /\ proc[p].cmd = "archive" /\ proc[p].at = "read"
  /\ specs' = WithFeature(proc[p].id, [proc[p].feature EXCEPT !.archived = TRUE])
  /\ Ends(p)
  /\ UNCHANGED <<manifest, sbf, history, index, locks, spent, ghosts>>

-----------------------------------------------------------------------------
(* feature rename: the checks, renameFeatureArtifacts, and the index.      *)

StartRename(p, id, slug) ==
  /\ specs[id] # Absent
  /\ Begins(p, [Idle EXCEPT !.cmd = "rename", !.at = "waiting", !.id = id, !.to = <<id[1], slug>>])
  /\ UNCHANGED <<manifest, files, index, locks, minted, told, removed>>

\* Refused unless there is such a feature and the new id is another one that nothing uses.
RenameChecks(p) ==
  /\ proc[p].cmd = "rename" /\ proc[p].at = "locked"
  /\ LET old == proc[p].id
         new == proc[p].to
     IN  IF specs[old] = Absent \/ new = old \/ InUse(new, index)
         THEN Goes(p, "done") /\ UNCHANGED torn
         ELSE /\ proc' = [proc EXCEPT ![p] = [proc[p] EXCEPT !.at = "checked", !.uid = specs[old].uid, !.index = index]]
              /\ torn' = IF Working(p, {old, new}, {"archive", "gate", "emit"}) # {}
                         THEN torn \cup {specs[old].uid} ELSE torn
  /\ UNCHANGED <<manifest, files, index, locks, spent, minted, told, removed>>

\* The directory of the feature; it fails when there is none, or one at the new place by now.
RenameDirectory(p) ==
  /\ proc[p].at = "checked"
  /\ IF specs[proc[p].id] = Absent \/ specs[proc[p].to] # Absent THEN Goes(p, "done") /\ UNCHANGED specs
     ELSE /\ specs' = [specs EXCEPT ![proc[p].to] = specs[proc[p].id], ![proc[p].id] = Absent]
          /\ Goes(p, "moved")
  /\ UNCHANGED <<manifest, sbf, history, index, locks, spent, ghosts>>

\* The contract files that carry the old id in their name.
RenameContracts(p) ==
  /\ proc[p].at = "moved"
  /\ LET now == specs[proc[p].to] IN
     specs' = IF now # Absent /\ now.contract = proc[p].id
              THEN [specs EXCEPT ![proc[p].to] = [now EXCEPT !.contract = proc[p].to]] ELSE specs
  /\ Goes(p, "contracts")
  /\ UNCHANGED <<manifest, sbf, history, index, locks, spent, ghosts>>

\* It throws when the directory is gone again.
RenameReadsFeature(p) ==
  /\ proc[p].at = "contracts"
  /\ IF specs[proc[p].to] = Absent THEN Goes(p, "done") /\ torn' = torn \cup {proc[p].uid}
     ELSE /\ proc' = [proc EXCEPT ![p] = [proc[p] EXCEPT !.at = "featureRead", !.feature = specs[proc[p].to]]]
          /\ UNCHANGED torn
  /\ UNCHANGED <<manifest, files, index, locks, spent, minted, told, removed>>

\* rewriteFeatureIdField of feature.json.
RenameWritesFeature(p) ==
  /\ proc[p].at = "featureRead"
  /\ specs' = IF proc[p].feature.feature_id # proc[p].id THEN specs
              ELSE WithFeature(proc[p].to, [proc[p].feature EXCEPT !.feature_id = proc[p].to])
  /\ Goes(p, "featureWritten")
  /\ UNCHANGED <<manifest, sbf, history, index, locks, spent, ghosts>>

\* The state file replaces one that a gate write may have made under the new id.
RenameState(p) ==
  /\ proc[p].at = "featureWritten"
  /\ IF sbf[proc[p].id] = Absent THEN Goes(p, "stateDone") /\ UNCHANGED sbf
     ELSE /\ sbf' = [sbf EXCEPT ![proc[p].to] = sbf[proc[p].id], ![proc[p].id] = Absent]
          /\ Goes(p, "stateMoved")
  /\ UNCHANGED <<manifest, specs, history, index, locks, spent, ghosts>>

RenameReadsState(p) ==
  /\ proc[p].at = "stateMoved"
  /\ proc' = [proc EXCEPT ![p] = [proc[p] EXCEPT !.at = "stateRead", !.state = sbf[proc[p].to]]]
  /\ UNCHANGED <<manifest, files, index, locks, spent, ghosts>>

\* Mutant of RenameWritesState: the state keeps the id it was written for.
RenameKeepsState(p) ==
  /\ proc[p].at = "stateRead"
  /\ Goes(p, "stateDone")
  /\ UNCHANGED <<manifest, files, index, locks, spent, ghosts>>

\* rewriteFeatureIdField of the state, without the lock of the state.
RenameWritesState(p) ==
  /\ proc[p].at = "stateRead"
  /\ sbf' = IF proc[p].state.feature_id # proc[p].id THEN sbf
            ELSE [sbf EXCEPT ![proc[p].to] = [proc[p].state EXCEPT !.feature_id = proc[p].to]]
  /\ Goes(p, "stateDone")
  /\ UNCHANGED <<manifest, specs, history, index, locks, spent, ghosts>>

RenameHistory(p) ==
  /\ proc[p].at = "stateDone"
  /\ history' = IF history[proc[p].id] = {} THEN history
                ELSE [history EXCEPT ![proc[p].to] = history[proc[p].id], ![proc[p].id] = {}]
  /\ Goes(p, "historyDone")
  /\ UNCHANGED <<manifest, specs, sbf, index, locks, spent, ghosts>>

RenameReadsManifest(p) ==
  /\ proc[p].at = "historyDone"
  /\ proc' = [proc EXCEPT ![p] = [proc[p] EXCEPT !.at = "manifestRead", !.manifest = manifest]]
  /\ UNCHANGED <<manifest, files, index, locks, spent, ghosts>>

RenameWritesOwners(p) ==
  /\ proc[p].at = "manifestRead"
  /\ LET moved == Reowned(proc[p].manifest, proc[p].id, proc[p].to) IN
     manifest' = IF moved = proc[p].manifest THEN manifest ELSE moved
  /\ Goes(p, "ownersDone")
  /\ UNCHANGED <<files, index, locks, spent, ghosts>>

\* The new id joins the ids of its uid, in the index as it was read before the files were moved.
RenameIndexes(p) ==
  /\ proc[p].at = "ownersDone"
  /\ LET u     == proc[p].uid
         known == proc[p].index.by_uid[u]
         ids   == Append(IF known = <<>> THEN <<proc[p].id>> ELSE known, proc[p].to)
     IN  index' = [proc[p].index EXCEPT !.by_uid = [proc[p].index.by_uid EXCEPT ![u] = ids]]
  /\ Goes(p, "done")
  /\ UNCHANGED <<manifest, files, locks, spent, ghosts>>

-----------------------------------------------------------------------------
(* setGate of lib/state.mjs, for a gate the feature has not got: what is written is a set. *)

StartGate(p, id, gate) ==
  /\ specs[id] # Absent /\ gate \notin told[specs[id].uid]
  /\ Begins(p, [Idle EXCEPT !.cmd = "gate", !.at = "waiting", !.id = id, !.gate = gate, !.uid = specs[id].uid])
  /\ UNCHANGED <<manifest, files, index, locks, minted, told, removed>>

AcquireState(p) ==
  /\ proc[p].cmd = "gate" /\ proc[p].at = "waiting"
  /\ stateLock = NoHolder /\ stateLock' = p
  /\ Goes(p, "locked")
  /\ UNCHANGED <<manifest, files, index, featureLock, spent, ghosts>>

TimeoutState(p) ==
  /\ proc[p].cmd = "gate" /\ proc[p].at = "waiting" /\ stateLock # NoHolder
  /\ Ends(p)
  /\ UNCHANGED <<manifest, files, index, locks, spent, ghosts>>

\* loadState of an id without a file is an empty state.
LoadGates(p) ==
  /\ proc[p].cmd = "gate" /\ proc[p].at = "locked"
  /\ LET state == IF sbf[proc[p].id] # Absent THEN sbf[proc[p].id]
                  ELSE [feature_id |-> proc[p].id, gates |-> {}]
     IN  proc' = [proc EXCEPT ![p] = [proc[p] EXCEPT !.at = "loaded", !.state = state]]
  /\ UNCHANGED <<manifest, files, index, locks, spent, ghosts>>

SaveGates(p) ==
  /\ proc[p].cmd = "gate" /\ proc[p].at = "loaded"
  /\ sbf' = [sbf EXCEPT ![proc[p].id] = [proc[p].state EXCEPT !.gates = @ \cup {proc[p].gate}]]
  /\ Goes(p, "saved")
  /\ UNCHANGED <<manifest, specs, history, index, locks, spent, ghosts>>

AppendGate(p) ==
  /\ proc[p].cmd = "gate" /\ proc[p].at = "saved"
  /\ history' = [history EXCEPT ![proc[p].id] = @ \cup {proc[p].gate}]
  /\ told' = [told EXCEPT ![proc[p].uid] = @ \cup {proc[p].gate}]
  /\ Goes(p, "done")
  /\ UNCHANGED <<manifest, specs, sbf, index, locks, spent, minted, torn, removed>>

ReleaseState(p) ==
  /\ proc[p].cmd = "gate" /\ proc[p].at = "done"
  /\ stateLock' = NoHolder
  /\ Ends(p)
  /\ UNCHANGED <<manifest, files, index, featureLock, spent, ghosts>>

-----------------------------------------------------------------------------
(* The environment. *)

\* A process is killed; its lock directory stays.
Crash(p) ==
  /\ proc[p].at \notin {"idle", "dead", "waiting"} /\ proc[p].cmd # "emit" /\ Fault
  /\ torn' = IF proc[p].cmd = "rename" /\ proc[p].at \in Moving THEN torn \cup {proc[p].uid} ELSE torn
  /\ proc' = [proc EXCEPT ![p] = [Idle EXCEPT !.at = "dead"]]
  /\ UNCHANGED <<manifest, files, index, locks, minted, told, removed>>

\* A person removes the lock of a dead process, as the message of the time-out says.
RemoveStaleLock ==
  /\ \/ /\ featureLock \in Process /\ proc[featureLock].at = "dead"
        /\ featureLock' = NoHolder /\ UNCHANGED stateLock
     \/ /\ stateLock \in Process /\ proc[stateLock].at = "dead"
        /\ stateLock' = NoHolder /\ UNCHANGED featureLock
  /\ UNCHANGED <<manifest, files, index, proc, spent, ghosts>>

AtWorkOn(p, u, n) ==
  /\ u = proc[p].uid \/ (proc[p].feature # Absent /\ u = proc[p].feature.uid)
  /\ n = (IF proc[p].cmd = "init" THEN proc[p].to ELSE proc[p].id)[1]

BeingRenamed == {proc[p].uid : p \in {q \in Process : proc[q].cmd = "rename" /\ proc[q].at \in Moving}}

\* The features that a number stands for: an id they have or had, a directory with their record, or
\* what a command has read.
KnownBy(n) ==
  {u \in Uid : \E i \in Ids(u, index) : i[1] = n}
  \cup {specs[i].uid : i \in {j \in Id : j[1] = n /\ specs[j] # Absent}}
  \cup {u \in Uid : \E p \in Process : AtWorkOn(p, u, n)}

\* A person takes a directory away, by hand or with another branch, though not from under a rename
\* that has moved it; .sbf stays as it is.
RemoveDirectory(id) ==
  /\ specs[id] # Absent /\ Fault
  /\ \A p \in Process : proc[p].uid = specs[id].uid => proc[p].at \notin Moving \ {"checked"}
  /\ specs' = [specs EXCEPT ![id] = Absent]
  /\ removed' = removed \cup (KnownBy(id[1]) \X {id[1]})
  /\ UNCHANGED <<manifest, sbf, history, index, locks, proc, minted, told, torn>>

FeatureStep(p) ==
  \/ \E slug \in Slug : StartInit(p, slug) \/ \E id \in Id : StartRename(p, id, slug)
  \/ \E id, alias \in Id : StartLink(p, id, alias)
  \/ \E id \in Id : StartArchive(p, id) \/ \E gate \in Gate : StartGate(p, id, gate)
  \/ AcquireFeatures(p) \/ TimeoutFeatures(p) \/ ReleaseFeatures(p)
  \/ InitNumbers(p) \/ InitSaves(p) \/ InitIndexes(p) \/ Link(p) \/ ArchiveSaves(p)
  \/ RenameChecks(p) \/ RenameDirectory(p) \/ RenameContracts(p) \/ RenameReadsFeature(p)
  \/ RenameWritesFeature(p) \/ RenameState(p) \/ RenameReadsState(p) \/ RenameWritesState(p)
  \/ RenameHistory(p) \/ RenameReadsManifest(p) \/ RenameWritesOwners(p) \/ RenameIndexes(p)
  \/ AcquireState(p) \/ TimeoutState(p) \/ LoadGates(p) \/ SaveGates(p) \/ AppendGate(p) \/ ReleaseState(p)
  \/ Crash(p)

-----------------------------------------------------------------------------
(* What the feature store promises. *)

\* Numbers of which a person took a directory away.
Vacated == {r[2] : r \in removed}

\* Features whose files are all in one place: listed under numbers that nobody emptied, and no rename
\* is at them, was cut by a crash or ran beside another command on them.
Whole ==
  {u \in Uid : index.by_uid[u] # <<>> /\ \A i \in Ids(u, index) : i[1] \notin Vacated}
  \ (torn \cup BeingRenamed)

\* A feature is found under its last id with its record, its contract files, every gate that was ever
\* written for it and the log of those.
FoundUnder(u, id) ==
  /\ specs[id] # Absent /\ specs[id].uid = u /\ specs[id].feature_id = id
  /\ specs[id].contract \in {id, Absent}
  /\ told[u] \subseteq history[id]
  /\ told[u] # {} => sbf[id] # Absent /\ sbf[id].feature_id = id /\ told[u] \subseteq sbf[id].gates

\* Nothing is left under an id: no directory, no state, no log; and the manifest has no entry of it.
Empty(id) == specs[id] = Absent /\ sbf[id] = Absent /\ history[id] = {}
OwnsNothing(id) == \A f \in Path : manifest.files[f] # Absent => manifest.files[f].owner # id

\* An id names one feature for ever: no two features have it or had it, and no feature takes it twice,
\* whatever races.  The one exception is an id of a number whose directory a person took away: init
\* looks at the directories only and may give the id, and the gates under it, to a new feature.
IdsNameOneFeature ==
  \A u \in Uid :
    /\ Cardinality(Ids(u, index)) = Len(index.by_uid[u])
    /\ \A v \in Uid \ {u} : \A i \in Ids(u, index) \cap Ids(v, index) :
         removed \cap ({u, v} \X {i[1]}) # {}
=============================================================================
