----------------------------- MODULE HandlesEmit ----------------------------
(***************************************************************************)
(* handles emit: cmdHandlesEmit of bin/bskel.mjs and emitUnits of          *)
(* handles/_engine.mjs.  Generated files are classified and written one by *)
(* one, the manifest is saved after each from the copy loaded at the       *)
(* start, and a person edits and commits the same files meanwhile.         *)
(***************************************************************************)
EXTENDS FeatureLifecycle

VARIABLES
  disk,      \* what each path holds
  head,      \* what is committed of it
  emit,      \* one record per process: its handles emit
  \* ghosts
  overlap,   \* two processes once went by loaded manifests at the same time
  cut,       \* emits that were killed
  lost,      \* paths whose entries were lost before the first command
  blocked    \* an emit saved a new registry flag although the files of the repository were in conflict

handlesVars == <<disk, head, emit, overlap, cut, lost, blocked>>

\* The gates a feature needs before code is generated for it, and the one its emit passes.
Needed == {"contract", "cross_feature"}
ASSUME VersionsAssumption == Version \subseteq Nat /\ \E v \in Version : \A w \in Version : w <= v
ASSUME GatesAssumption == Needed \cup {"handles"} \subseteq Gate

Emission == [at : {"idle", "planning", "units", "classified", "written", "flag", "flagLoaded", "verdict"},
             id : Id \cup {Absent}, force : BOOLEAN, enforce : BOOLEAN, prior : BOOLEAN, mem : Manifest,
             seen : [Path -> Content \cup {Absent}], left : SUBSET Path, conflicts : SUBSET Path,
             changed : BOOLEAN]

NoEmit == [at |-> "idle", id |-> Absent, force |-> FALSE, enforce |-> FALSE, prior |-> FALSE,
           mem |-> NoManifest, seen |-> [f \in Path |-> Absent], left |-> {}, conflicts |-> {}, changed |-> FALSE]

HandlesTypeOK ==
  /\ disk \in [Path -> Content \cup {Absent}] /\ head \in [Path -> Content \cup {Absent}]
  /\ overlap \in BOOLEAN /\ blocked \in BOOLEAN /\ cut \in 0..MaxFaults /\ lost \in SUBSET Path
  /\ emit \in [Process -> Emission]

-----------------------------------------------------------------------------
(* What this run renders, and how it stands to what is on disk.            *)

\* Files of the repository depend on the registry flag, those of a feature on its id.
Render(path, id, enforce, v) ==
  IF path \in Infra THEN [owner |-> Repo, enforce |-> enforce, version |-> v]
  ELSE [owner |-> id, enforce |-> FALSE, version |-> v]

\* The version that runs; files on disk may be of earlier ones.
Current == CHOOSE v \in Version : \A w \in Version : w <= v

Fresh(e, path) == Render(path, e.id, e.enforce, Current)

\* A file of a feature is compared with a render for the owner it names itself.
Pristine(e, path) ==
  LET c == e.seen[path] IN
  IF path \in Infra \/ c \notin Generated THEN c = Fresh(e, path)
  ELSE c = Render(path, c.owner, e.enforce, Current)

Action(e, path) == Classify(e.seen[path], Recorded(e.mem, path), Fresh(e, path), Pristine(e, path))

WithEntry(e, path) ==
  LET entry == [owner |-> Fresh(e, path).owner, hash |-> Fresh(e, path)]
  IN  [e EXCEPT !.mem = [files |-> [e.mem.files EXCEPT ![path] = entry], enforce |-> e.mem.enforce],
                !.changed = TRUE]

First(S) == CHOOSE f \in S : \A g \in S : f <= g

Emitting(p, place) == emit[p].at = place

-----------------------------------------------------------------------------
(* The command. *)

\* The registry flag of the manifest holds unless --enforce-registry says otherwise.  Both gates are
\* required, and the contract file that the id names.
StartEmit(p, id, force, enforce) ==
  /\ specs[id] # Absent /\ specs[id].contract = id
  /\ sbf[id] # Absent /\ Needed \subseteq sbf[id].gates
  /\ Begins(p, [Idle EXCEPT !.cmd = "emit", !.at = "emitting", !.id = id, !.uid = specs[id].uid])
  /\ emit' = [emit EXCEPT ![p] = [NoEmit EXCEPT !.at = "planning", !.id = id, !.force = force,
                !.prior = manifest.enforce, !.enforce = enforce]]
  /\ UNCHANGED <<manifest, files, index, locks, minted, told, removed, disk, head, cut, blocked>>

\* emitUnits loads the manifest and classifies the files of the repository together: one conflict
\* stops all of them unless the run is forced.
PlanInfra(p) ==
  /\ Emitting(p, "planning")
  /\ LET infra == [f \in Path |-> IF f \in Infra THEN disk[f] ELSE Absent]
         e     == [emit[p] EXCEPT !.mem = manifest, !.seen = infra]
         stuck == ~e.force /\ \E f \in Infra : Action(e, f) = "conflict"
     IN  emit' = [emit EXCEPT ![p] = [e EXCEPT !.at = "units",
                    !.left = IF stuck THEN Late ELSE Path, !.conflicts = IF stuck THEN Infra ELSE {}]]
  /\ UNCHANGED <<lifecycleVars, disk, head, cut, blocked>>

\* The next file; what is of no use any more is forgotten, here and below.
Skip(p, f, conflicts) ==
  LET e == emit[p] IN
  emit' = [emit EXCEPT ![p] = [e EXCEPT !.at = "units", !.left = e.left \ {f},
             !.seen = [e.seen EXCEPT ![f] = Absent], !.conflicts = e.conflicts \cup conflicts]]

\* A later file is read when its turn comes, and passed over when there is nothing to do or it is in
\* a conflict that is not forced.
ReadUnit(p) ==
  /\ Emitting(p, "units") /\ emit[p].left # {}
  /\ LET f == First(emit[p].left)
         e == IF f \in Infra THEN emit[p] ELSE [emit[p] EXCEPT !.seen = [emit[p].seen EXCEPT ![f] = disk[f]]]
         a == Action(e, f)
     IN  IF a = "unchanged" THEN Skip(p, f, {})
         ELSE IF a = "conflict" /\ ~e.force THEN Skip(p, f, {f})
         ELSE emit' = [emit EXCEPT ![p] = [e EXCEPT !.at = "classified"]]
  /\ UNCHANGED <<lifecycleVars, disk, head, cut, blocked>>

\* A forced write needs a path that git calls clean.
PassUnit(p) ==
  /\ Emitting(p, "classified")
  /\ LET f == First(emit[p].left) IN
     Action(emit[p], f) = "conflict" /\ disk[f] # head[f] /\ Skip(p, f, {f})
  /\ UNCHANGED <<lifecycleVars, disk, head, cut, blocked>>

\* Mutant of WriteUnit: a forced run does not ask git.
WriteUnitAnyway(p) ==
  /\ Emitting(p, "classified")
  /\ LET e == emit[p]
         f == First(e.left)
         a == Action(e, f)
     IN  /\ disk' = IF a = "adoptUnchanged" THEN disk ELSE [disk EXCEPT ![f] = Fresh(e, f)]
         /\ emit' = [emit EXCEPT ![p] = [WithEntry(e, f) EXCEPT !.at = "written"]]
  /\ UNCHANGED <<lifecycleVars, head, cut, blocked>>

\* The file is written unless it is adopted as it stands; a forced write of a conflict only when git
\* says that the path is clean.
WriteUnit(p) ==
  /\ Emitting(p, "classified")
  /\ LET e == emit[p]
         f == First(e.left)
         a == Action(e, f)
     IN  /\ a = "conflict" => disk[f] = head[f]
         /\ disk' = IF a = "adoptUnchanged" THEN disk ELSE [disk EXCEPT ![f] = Fresh(e, f)]
         /\ emit' = [emit EXCEPT ![p] = [WithEntry(e, f) EXCEPT !.at = "written"]]
  /\ UNCHANGED <<lifecycleVars, head, cut, blocked>>

\* Mutant of RecordUnit: the manifest is saved at the end only.
RecordLater(p) ==
  /\ Emitting(p, "written")
  /\ Skip(p, First(emit[p].left), {})
  /\ UNCHANGED <<lifecycleVars, disk, head, cut, blocked>>

\* saveManifest after every file, from the copy in memory.
RecordUnit(p) ==
  /\ Emitting(p, "written")
  /\ manifest' = emit[p].mem
  /\ Skip(p, First(emit[p].left), {})
  /\ UNCHANGED <<files, index, locks, proc, spent, ghosts, disk, head, cut, blocked>>

\* The last save of emitUnits.
FinishUnits(p) ==
  /\ Emitting(p, "units") /\ emit[p].left = {}
  /\ manifest' = IF emit[p].changed THEN emit[p].mem ELSE manifest
  /\ emit' = [emit EXCEPT ![p] = [NoEmit EXCEPT !.at = "flag", !.enforce = emit[p].enforce,
                !.prior = emit[p].prior, !.conflicts = emit[p].conflicts]]
  /\ UNCHANGED <<files, index, locks, proc, spent, ghosts, disk, head, cut, blocked>>

\* Mutant of LoadFlag: the flag is not kept for the next run.
LoadFlagNever(p) ==
  /\ Emitting(p, "flag")
  /\ emit' = [emit EXCEPT ![p] = [NoEmit EXCEPT !.at = "verdict", !.conflicts = emit[p].conflicts]]
  /\ UNCHANGED <<lifecycleVars, disk, head, cut, blocked>>

\* A changed registry flag is saved into the manifest as it is now, whatever conflicts there were.
LoadFlag(p) ==
  /\ Emitting(p, "flag")
  /\ emit' = [emit EXCEPT ![p] = IF emit[p].enforce # emit[p].prior
                                 THEN [emit[p] EXCEPT !.at = "flagLoaded", !.mem = manifest]
                                 ELSE [NoEmit EXCEPT !.at = "verdict", !.conflicts = emit[p].conflicts]]
  /\ UNCHANGED <<lifecycleVars, disk, head, cut, blocked>>

SaveFlag(p) ==
  /\ Emitting(p, "flagLoaded")
  /\ manifest' = [emit[p].mem EXCEPT !.enforce = emit[p].enforce]
  /\ emit' = [emit EXCEPT ![p] = [NoEmit EXCEPT !.at = "verdict", !.conflicts = emit[p].conflicts]]
  /\ blocked' = (blocked \/ emit[p].conflicts \cap Infra # {})
  /\ UNCHANGED <<files, index, locks, proc, spent, ghosts, disk, head, cut>>

\* Conflicts end the run before its gate; so may a registration gap or an unresolved policy.  Else
\* the gate is passed, under the id the run was given.
Verdict(p) ==
  /\ Emitting(p, "verdict")
  /\ \/ Ends(p)
     \/ /\ emit[p].conflicts = {}
        /\ proc' = [proc EXCEPT ![p] = [proc[p] EXCEPT !.cmd = "gate", !.at = "waiting", !.gate = "handles"]]
  /\ emit' = [emit EXCEPT ![p] = NoEmit]
  /\ UNCHANGED <<manifest, files, index, locks, spent, ghosts, disk, head, cut, blocked>>

KillEmit(p) ==
  /\ emit[p].at # "idle" /\ Fault
  /\ emit' = [emit EXCEPT ![p] = NoEmit]
  /\ proc' = [proc EXCEPT ![p] = [Idle EXCEPT !.at = "dead"]]
  /\ cut' = cut + 1
  /\ UNCHANGED <<manifest, files, index, locks, ghosts, disk, head, blocked>>

-----------------------------------------------------------------------------
(* A person at the same files.  An emit starts without looking at them, so *)
(* what is done to them before is done while it is about to.               *)

SomeEmit == \E p \in Process : emit[p].at # "idle"

Edit(f, c) ==
  /\ SomeEmit /\ disk[f] # c /\ Fault
  /\ disk' = [disk EXCEPT ![f] = c]
  /\ UNCHANGED <<manifest, files, index, locks, proc, ghosts, head, emit, cut, blocked>>

Commit ==
  /\ SomeEmit /\ head # disk /\ Fault
  /\ head' = disk
  /\ UNCHANGED <<manifest, files, index, locks, proc, ghosts, disk, emit, cut, blocked>>

EmitStep(p) ==
  \/ \E id \in Id, force, enforce \in BOOLEAN : StartEmit(p, id, force, enforce)
  \/ PlanInfra(p) \/ ReadUnit(p) \/ PassUnit(p) \/ WriteUnit(p) \/ RecordUnit(p) \/ FinishUnits(p)
  \/ LoadFlag(p) \/ SaveFlag(p) \/ Verdict(p) \/ KillEmit(p)

HandStep == Commit \/ \E f \in Path, c \in Hand \cup {Absent} : Edit(f, c)

\* A process that goes by a manifest it has loaded: its entries, or only its registry flag.
Holds(p) == emit[p].at \notin {"idle", "verdict"} \/ proc[p].at = "manifestRead"

\* What was there before: nothing; the files of an earlier version and their manifest; those of this
\* one, the first replaced by hand and committed; or files without a manifest.  The last two count as
\* faults.  Untouched files of this version are what the first emit leaves.
HandlesInit(id) ==
  /\ emit = [p \in Process |-> NoEmit]
  /\ overlap = FALSE /\ cut = 0 /\ blocked = FALSE
  /\ \/ /\ disk = [f \in Path |-> Absent] /\ manifest = NoManifest /\ lost = {}
        /\ spent = [commands |-> 0, faults |-> 0]
     \/ \E v \in Version :
          LET made   == [f \in Path |-> Render(f, id, FALSE, v)]
              entry  == [f \in Path |-> [owner |-> made[f].owner, hash |-> made[f]]]
              faulty == [commands |-> 0, faults |-> 1]
          IN  \/ /\ disk = made /\ v # Current /\ spent = [faulty EXCEPT !.faults = 0]
                 /\ manifest = [files |-> entry, enforce |-> FALSE] /\ lost = {}
              \/ /\ \E c \in Hand : disk = [made EXCEPT ![First(Path)] = c]
                 /\ v = Current /\ spent = faulty
                 /\ manifest = [files |-> entry, enforce |-> FALSE] /\ lost = {}
              \/ disk = made /\ spent = faulty /\ manifest = NoManifest /\ lost = Path
  /\ head = disk

-----------------------------------------------------------------------------
(* What handles emit promises.                                             *)

\* No run of handles emit destroys what a person wrote into a generated file, whatever the manifest
\* says of it: such a file is replaced only by a forced run when it is committed as it stands, or
\* when it was edited after this run had classified it.
HumanEditsSurvive ==
  [][\A f \in Path :
       disk[f] \in Hand /\ disk'[f] \in Generated =>
         \E p \in Process : /\ emit[p].at = "classified" /\ f = First(emit[p].left)
                            /\ emit[p].seen[f] = disk[f] => emit[p].force /\ disk[f] = head[f]]_disk

Unvouched == {f \in Path : disk[f] \in Generated /\ Recorded(manifest, f) # disk[f]} \ lost

\* The manifest follows the files: as long as no two commands worked on copies of it at once, every
\* generated file on disk is the one the manifest records, except one for each emit that was killed
\* between the two writes or stands between them now.  So a crash costs at most one false conflict.
RecordsFollowWrites ==
  ~overlap => Cardinality(Unvouched) <= cut + Cardinality({p \in Process : emit[p].at = "written"})

\* The registry flag of the manifest is the one the files of the repository were generated with, so
\* that the next run without --enforce-registry repeats it.  Not so while an emit runs, after one
\* was killed, and after one whose files of the repository were in conflict: the flag is saved then
\* too, although the comment at its save says that it tracks what landed on disk.
FlagTracksInfra ==
  (~overlap /\ ~blocked /\ cut = 0 /\ \A p \in Process : emit[p].at = "idle") =>
    \A f \in Infra : disk[f] \in Generated => disk[f].enforce = manifest.enforce
=============================================================================
