# Specifications of `bskel`

`bskel` is a command-line tool that keeps the evidence of a backend project: *gates* (preflight,
scan, contract, ...) that pass only for exact contents of their input files, reviewed *patch
transactions* on files and databases, and *waivers* of contract warnings. There is no daemon:
every command is a process that reads and writes files under `.sbf/` and `specs/`, and several of
them (people, agents, CI, `bskel serve`) run in one repository. This directory specifies that
shared-file core, and the newer parts beside it (a cached parallel scan, an enforcement gate for
plugins), in TLA+, checks them with TLC on small instances and proves most of their safety with TLAPS.

## The system

| part | code | state it keeps | operations | what makes it hard |
|---|---|---|---|---|
| repo lock | `lib/lock.mjs` | the directory `.sbf/.locks/<name>.lock` | `withLockSync`, `withLockAsync` | crash or exit inside; time-out; synchronous wait in an event loop |
| gate store | `lib/state.mjs` | `.sbf/<scope>.json`, `.sbf/<scope>.history.jsonl` | `setGate`, `getGate` | whole-file load-modify-save; two files changed one after the other |
| gates | `lib/gates.mjs`, `lib/gate-definitions.mjs` | records in the gate store | pass, await, force, revoke, require | inputs read before the lock; age limits; clocks |
| patch transactions | `lib/patch-transactions.mjs`, `lib/patch-kinds.mjs`, `stack/config-apply.mjs`, `source-splice.mjs`, `ddl-apply.mjs` | one record per transaction, content-addressed blobs, the target file, a live schema | propose, approve, apply, rollback | plan before the lock; awaits inside; crash between target and record |
| contract and waivers | `contracts/completeness.mjs`, `lib/decision-log.mjs`, `bin/bskel.mjs` | contract, resolution file, decision log | emit, waive, unwaive | verdict and token taken at different times; expiry; log is a second file |
| cross-feature waivers | `lib/cross-feature-collisions.mjs` | report and resolution | check, waive, unwaive | as the waivers |
| feature lifecycle | `lib/featurelifecycle.mjs` | feature records, index of ids, directories | init, rename, link, archive | rename of several files; another lock than the gates' |
| handles | `handles/_engine.mjs`, `lib/handles-manifest.mjs`, `lib/patch-approvals.mjs` | generated files, ownership manifest, approvals | plan, emit, approve, unapprove | crash between files and manifest; no lock; a person edits the same files |
| dependencies, impact | `lib/field-dependencies.mjs`, `lib/impact*.mjs` | declared wires, baseline, report, dispositions | declare, remove, check, accept, disposition, ack | a verdict about files of several features, read in pieces |
| views | `lib/verify.mjs`, `lib/workflow.mjs`, `lib/ci-check.mjs` | none | verify, next step, CI verdict | aggregation of gate verdicts |
| HTTP server | `lib/http-server.mjs` | none of its own | routes over the same functions | many requests, one event loop, one lock |
| scheduler and store (next) | `lib/scan-scheduler-next`, `lib/artifact-store-next` | cache index, blobs | schedule, look up, put, invalidate, collect garbage | promises in any order; readers and the collector without a lock; stale keys |
| enforcement gate (next) | `lib/trust-next/enforcement-gate.mjs` | audit log, child slots, timers | invoke, verify the log | many awaits per request; a log that fills up; children that outlive their time |
| scanners, contract builders, templates, release | `scanners`, `contracts/emit.mjs`, `new`, `release` | output only | parse, render, evaluate a policy | formats, no concurrency |

All parts meet in the gate store: a command does its work, then calls `passNamedGate` (or await,
force, revoke), which *first* recomputes the inputs of the gate from the files and *then* takes the
`state` lock to write the record. `requireGate` recomputes the inputs again and compares. Patch
transactions, contract waivers and patch approvals use the same `state` lock for their own files.

What makes each part correct:

- lock: one process inside; the directory never stays for good;
- gate store: no write is lost or undone by another, log and snapshot tell the same story;
- gates: nothing turns a gate to "pass" but a pass for its present inputs;
- patch transactions: what is written is what was reviewed; what was applied can be undone; the
  record and the target agree;
- waivers: a live waiver is not lost, a renewed one does not stay beside its expired predecessor,
  the log agrees with the file, and no pass vouches for errors nobody waived;
- features: a feature keeps its record, contracts, gates and log through every rename, and an id
  names one feature;
- handles: no run destroys what a person wrote; the manifest tells what is generated;
- server: a writing request takes the lock of the gates as every command does, waiting or not;
- scan: the budgets hold, every run ends, and a cached report belongs to the files it is given for;
- impact: no change enters a baseline undisposed, and `verify` blocks a feature whose field moved;
- enforcement gate: every effect is on the log, every child is accounted for, every request ends.

The hazards that threaten these are listed, with their lines, in `PROJECT.json`.

## Modules

| module | role |
|---|---|
| `GateRegister` | abstract: one register per gate and an ordered log |
| `GateStore` | `lock.mjs`, `state.mjs`, `gates.mjs`, step by step; states all properties of the store and the refinement |
| `PatchTransactions` | the four patch commands over the three kinds |
| `ContractWaivers` | `contract emit`, `waive`, `unwaive` |
| `HandlesManifest` | the manifest: classification of a file, new owners after a rename |
| `FeatureLifecycle` | feature init, link, archive, rename file by file, and a gate writer |
| `HandlesEmit` | `handles emit` and a person at the same files |
| `ServeLoop` | the writing requests of `bskel serve` on one event loop |
| `Repository` | composes these four over one repository |
| `FeatureImpact` | dependencies, impact commands, scans, and what `verify` says |
| `ScanScheduler` | `runTaskGraph`: checks of the graph, admission, budgets |
| `ScanCache` | the cached scan, the cache index, the blob store, garbage collection |
| `Invalidation` | which results a change reaches, as operators with a reference definition |
| `ScanRun` | composes scheduler and cache on one event loop, beside other processes |
| `EnforcementGate` | decisions, audit log, children and wall timers of the enforcement gate |
| `GateStoreProofs`, `PatchTransactionsProofs`, `ContractWaiversProofs`, `FeatureImpactProofs`, `EnforcementGateProofs`, `ScanSchedulerProofs`, `ScanRunProofs`, `RepositoryProofs` | theorems about the module of that name; `ScanRunProofs` also those about `ScanCache` and `Invalidation`, `RepositoryProofs` those about the modules it composes |
| `MC*` | symmetry sets and values for TLC, nothing else |

The definitions named `...Unlocked`, `...Recursive` and so on, each introduced by "Mutant of", are
mistakes somebody could make in the code. No specification uses them; each makes one property fail
when it takes the place of the definition it belongs to.

### GateStore

`lock` is the lock directory with its maker, `snapshot` and `history` are the two files of a scope,
`pc`, `job` and `loaded` are where each process stands inside `setGate`, the record it wants to
write and the state it has read. `inputs` is what the files behind each gate contain, `now` the
clock (which may go back). `torn` is a ghost: gates whose last write never reached the log.

`Start` is the part of `passGate`, `awaitDispositionGate`, `forceGate` and `revokeGate` that comes
before the lock: it fixes token and timestamp. Then `TryAcquire` (mkdir) or `AcquireTimeout`;
`LoadState`, `SaveState` (write and rename of the *whole* snapshot), `AppendGateEvent`, `Release`
(the `finally`). `SetGateThrows` is an exception at any of them; `Crash` a kill between any two;
`RemoveStaleLock` the person who follows the time-out message when nothing runs. That person is
trusted to have checked: a directory whose maker is alive is never removed, as the message demands.
`Verdict` is `requireGate`.

Abstracted: a gate's inputs and their hash are one value per content (a hash without collisions);
a record's reason and evidence other than the age limit are left out; the clock and the ages count
in the same unit, so rounding is not seen. The two ages of a record (its own limit, the gate's) and
the rule that a forced record never takes the gate's are kept.

### PatchTransactions

`content` is the target file and the live schema, each a function from regions to values, so that a
change in one region and the replacement of the whole document can both be told; `txn`, `blobs` and
`gate` are the files. Each process has its command, the document it planned from (`work`) and the
gate inputs it has computed (`seen`). `Start` plans, without the lock. `FreshPreimage` compares the
plan with the record, as the code does. `Enter` and `Refuse` are the two outcomes of the checks
under the lock, which apply and rollback keep over `WriteFile`, `BuildFails`, `CommitDdl`,
`CommitUnreported` (COMMIT is rejected after the server has committed: the edit is live, the command
fails), `DdlFails`, `WriteOriginal` until `SaveApplied` or `SaveRolledBack`; `RecomputeGate` and
`PassGate` follow without and with the lock. `Edit` is an editor or a migration, `Crash` a kill.

Taking the lock is one step here and a section that replaces a single file is one step: that it behaves
so is what is proved of `GateStore`. Hashes are the content itself. A value is a text with a number of
wrappings: `config-apply` wraps the current value in a template, the other kinds replace it. The
template comes from the catalogue of the installed tool, which apply reads again and does not compare
with the record: here it is the same for every command, so an upgrade of the tool between approve and
apply is not seen. The syntax of YAML, Java and SQL, the collateral-diff check and `--confirm` are left
out: they only refuse. A target write is one step (the code uses `writeFileSync`, so a kill in the
middle of it could leave half a file; not modelled).

### ContractWaivers

`source` is the scan report, that is, the contract `emit` would build; `contract`, `waivers`,
`gate` are the files, `log` keeps the last event about each key of the decision log. `Waive` and
`Unwaive` read the contract without the lock; `SaveWaivers` and `RemoveWaiver` change the waivers
under it, `AppendDecisionEvent` logs one entry at a time, `Evaluate` releases the lock and takes
the verdict. `EmitContract` and `LoadResolution` are the two halves of `emit`, without any lock.
`RecomputeGate` and `SetGate` are `passNamedGate`. `ExitInsideLock` is the `fail()` in the locked
callback of `unwaive`. `Tick` moves the clock, forward.

Code and subject of a warning are one key, but a contract can have several errors of one key (the
projection repeats them), so an error is a key with its number (`Warning`, up to `MaxTwins`). A
waiver of a key covers all of them; `waive --all` writes one entry for each error (`Entries`), so
that a key may have several entries from one call, and the log one event each (`Told`, taken
together per key because they say the same).

Abstracted: warnings that cannot block (WARN) and an OpenAPI document are part of nothing; an
entry's reason and the time it was made are left out; `contract` starts as an emitted contract
without operations.

### Repository: FeatureLifecycle, HandlesManifest, HandlesEmit, ServeLoop

`specs`, `sbf`, `history` and `index` are a feature's directory, state file, history file and the
index of ids; `manifest` is the handles manifest, `disk` and `head` the generated files and what is
committed of them. A rename is one action per file: directory, contracts, record, state, history,
owners in the manifest, index, with a read and a write where the code has both. `StartGate` to
`ReleaseState` is `setGate` seen from outside: gates are a set here, as their contents are
`GateStore`'s. An emit is `PlanInfra`, then for each unit `ReadUnit` (classify), `WriteUnit`,
`RecordUnit` (the manifest is saved from the copy loaded at the start), then `LoadFlag`, `SaveFlag`
and the `Verdict`. In `ServeLoop` a request that waits with `withLockSync` is `Blocking`: no other
request and no promise goes on. A patch request waits and executes with the loop free.

Ghosts name what the code does not protect, and the properties except exactly that. What they stand
for is modelled but not caught: a property that names a ghost says that nothing *else* goes wrong,
and `PROJECT.json` lists those scenarios as hazards without a property. They are `overlap` (two
commands worked on copies of the manifest at once), `cut` (emits that were killed), `lost` (entries
missing at the start), `blocked` (the registry flag saved although the files of the repository were
in conflict), `torn` (features of which a rename was killed half way, or
ran beside an archive, a gate or an emit on them, none of which takes the feature lock), `removed`
(pairs of a feature and a number by which it was known, by an id, by the record in another directory or
by what a command has read, when a person took that number's directory away).
The last has to be that wide: an archive that read a record before its directory was taken away
writes it back, beside the feature that has the number by then. So two features may be known by one id
only if one of them is in `removed` with its number, and `RenameKeepsAll` is about features none of whose
numbers was vacated: beside the holder of a vacated number a rename takes files along that are not its
own. The part of `RenameKeepsAll` about the owners of handles is guarded by `~overlap`: an emit beside the
rename of *another* feature saves the owners it loaded, and so gives the handles back to the old id.
`minted` is the uids `randomUUID` has given so far; it gives none twice.

`Init` is a repository with two features, each with or without contracts, and the manifest and templates
in any state they can be in. The run starts from fewer (`MCInit`): the first feature has a contract, the
second only where a generated file was replaced by hand; without that bound the run takes too long.

Abstracted: commands are given for features that exist when they are typed; a gate write is only
started for a gate not yet told; a person edits only while an emit runs; a lost manifest and init
states edited by hand count as faults; `--check` and `--diff` write nothing and are left out. The
check of a forced write (`isDirtyOrUntracked`) and the write are one step, so an edit between them is
not told from one between classification and check, which `HumanEditsSurvive` excepts anyway. Files
that are generated once and then compared with the template only (post-resolver units) are not a
kind of their own.

### FeatureImpact

Each feature has one class with one field; a wire `<<g, f>>` in `deps` derives the field of `g`
from that of `f`. `file`, `scan`, `deps`, `baseline`, `report`, `resolution` and `gate` are the
files. `CheckImpact` reads everything and `SaveImpactReport` writes the report, without a lock.
`AcceptChecked` is the verdict of `acceptImpact`, under the lock; `SaveBaseline` reads the surface a
second time and saves it, `RecomputeGate` and `SetGate` are `passNamedGate` after the lock.
`RecordDisposition`, `WithdrawDisposition` and `AcknowledgeInbound` replace one file under the lock
and are one step. `Verified` is what `verify` makes of the three gates. `Edit` changes a class
without any lock. `blurred` is a ghost: features whose pass was given for something other than its
check saw (a later report, another surface, new wires or dispositions) or while the scan gate did
not pass. Such a pass is excepted from the two invariants, not caught by them. A disposition may
be of any change and to any feature, its own included, as the code checks neither against the report.

Abstracted: operations, tables and heuristic collisions (they are other kinds of change that go through
the same verdict); the log of decisions and `gate force` are the business of `ContractWaivers` and
`GateStore`; a scan finds related modules, and its report and gate are written in one step. The times in
the files are left out, except in the scan report, so a gate may pass again here that is stale in the
code: the properties are of passing gates, so this only makes them harder. Killed processes and
directories that stay are `GateStore`'s.

### ScanRun: ScanScheduler, ScanCache, Invalidation

A pass of the scheduler's loop is `Iterate`; `WorkerSettles` and `Finalise` are the two turns in which a
promise ends and its `finally` gives bytes and slot back. A cached scan is a chain of steps:
fingerprint, look-up, scan, put, read back, lock, load, save, release. `Segment` names the places from
which it goes on without an await, where no other task of the same process can run (`LoopFreeFor`).
`janitor` is `invalidateDependencies` or `remove`, which drop entries under the same lock; `collector`
is the garbage collection, which takes none: index, candidates, then one deletion after the other.
`Edit` changes a project's files at any time, `Crash` kills another process. The passes over the tasks
and over the queue of an invalidation are recursive functions, each with an operator for its step
(`See`, `Mark`, `Admit`, `Visit`). `Invalidation` is compared with a reference definition by closure
over the edges: by TLC for every graph of three nodes, by proof for every finite graph.

`overtaken` and `overlapped` are ghosts of the race that is left to the caller: a blob that was stored
but not yet listed when a collection listed the index may be taken, as the minimum age is 0 unless
the caller gives another. `ListedBlobsSurvive` excepts the entry of such a blob, and no other.

Abstracted: a blob is named by project and content; one content is read atomically; the caller of the
collection passes the blobs of one reading of the index; the minimum age, caps and dry runs are an
arbitrary choice among the candidates; the markers that find projects and the byte estimate are inputs;
the scheduler's own process is not killed. `runProjectGraphCached` itself passes no dependencies; the
graphs are `runTaskGraph`'s.

### EnforcementGate

`log` is the audit log with `maxAuditEntries`, `pending` the reserved outcomes, `call` where each
request stands, `child` and `timer` its process and the chain of timers that adds up to the wall
limit. `Decide` writes a decision and reserves room for its outcome; `Checked`, `ShadowAddress`,
`ResolveExecutable` and `ShadowFile` are the awaits before an effect, after which room may be gone;
`SpawnStarts`, `Output`, `TimerFires`, `DoneResolves`, `DoneRejects` and `Reaped` are the turns of a
spawned child. `ClockChanges` makes the injected clock fail and work again. `Rejected` is
`verifyAuditLog`.

Abstracted: write behaves as read, device as secret; the hash chain, reasons, targets, payloads,
classes of addresses and snapshots of arguments; the closing of handles. A host that gives a handle
with `done` also gives a working `kill`; what runs after an await is not preceded by another timer.

## Runs

| run | result | bounds | shows |
|---|---|---|---|
| `gatestore_safety` | holds | 3 processes, 2 gates, 2 contents, 3 writes, no clock | `LockDiscipline`, `NoLostGateWrite`, `PassIsEarned`, `RefinesRegister` |
| `gatestore_freshness` | holds | 2 processes, 1 gate with an age limit of 1, clock 0..2, 2 writes, fair | `PassIsEarned` with time, `LockComesFree` |
| `patch_safety` | holds | 2 processes, 2 transactions, 3 kinds, 2 regions, 6 commands, 1 edit, 1 crash | `ReviewedWrites`, `RecordHeld`, `BlobBeforeRecord` |
| `patch_final_check` | violated | 2 processes, 2 transactions, no edit, no crash | `FinalCheck` |
| `patch_rollback` | violated | 1 process, 2 transactions | `PassMeansLive` |
| `waivers_safety` | holds | 2 processes, 2 keys with up to 2 errors each, clock 0..1, 3 commands, 1 re-scan, 1 crash | `RenewalReplaces`, `LogAgrees`, `LiveWaiversStay` |
| `waivers_silent_pass` | violated | as above, 4 commands, no clock, no crash | `NoSilentPass` |
| `waivers_exit` | violated | 2 commands | `LockMeansBusyOrCrashed` |
| `repository` | holds | 2 processes, 2 requests, 3 uids, 3 generated files, 2 templates, 2 commands, 1 fault | `RenameKeepsAll`, `IdsNameOneFeature`, `RecordsFollowWrites`, `FlagTracksInfra`, `HumanEditsSurvive` |
| `impact` | holds | 2 features, 1 wire, 2 processes, 2 texts, clock 0..1, 3 commands, 1 edit | `BaselineIsEarned`, `ObligationsHeld`, `VerifiedIsAccepted` |
| `scan_cache` | holds | 8 graphs of 3 tasks, 2 projects, 2 contents, 2 outside steps, fair | `WithinBudget`, `DependenciesFirst`, `GivesUpOnlyOutOfOrder`, `RefusesExactlyBadGraphs`, `ListedBlobsSurvive`, `ReportsMatchKeys`, `NoLostEntry`, `ExactlyTheDependents`, `RunEnds` |
| `enforcement_gate` | holds | 2 requests, logs of 2 to 4 entries, 1 child slot, 2 timers, 1 fault, both modes, fair | `AuditVerifies`, `ChildrenAccounted`, `RequestsEnd` |

Every module's `TypeOK` is checked with the run of the module that holds.

Why the bounds suffice. Two processes race; the third in `gatestore_safety` waits, times out or
comes in after one of the two has died. Three writes are a write of one gate, an overlapping write
of the other, and a later one that could resurrect the first. Two transactions are what it takes
for one to invalidate the other, two regions for a change next to the one reviewed; six commands
are propose, approve and apply of both. A waiver with a limit of 1 expires at the one tick, and the
other limits stand for "later" and "never"; three commands are two waives and an emit or an unwaive,
so that a renewal of an expired waiver meets another command; two errors of a key are what one
call of `waive --all` needs to write two entries of it.

In `repository` two commands overlap in every way (a rename and an emit, a rename and a gate, two emits,
a command and a request), and one fault (a crash, an edit, a removal, a lost manifest) comes between;
the third uid, number and slug are where an init or a rename can go. Two templates are an upgrade of the
generator, two files of the repository and one of the feature are what the registry flag and the order
of writes need. In `impact` the history starts with nothing accepted, with a baseline of now, or with
one from before an edit that was already checked, so that three commands reach a disposition, its
acknowledgement and an accept, or an accept between two dispositions. In `scan_cache` the graphs have no
edge, a chain in both directions of the ids, a cycle, an unknown task, tasks that fill the budget or
exceed it; two outside steps are an edit and an invalidation, or a removal and a collection by another
process, beside the scan. In `enforcement_gate` a log of two entries is full after one effect and one of
four after two, so the second request meets every amount of room, and two timers are the shortest chain
with a link in the middle.

Bounds are in the guards of `Start`, `Begin`, `Edit`, `Crash`, `ChangeSource`, `Tick`, `Clock`, `Spend`,
`Fault` and `Counted` and named as constants; deadlock is not checked where they make the system stop.
The two symmetries that include model values only permute values nothing orders.

Fairness is assumed in three runs.

- `gatestore_freshness`: a process that is not killed keeps executing `setGate`, which has no wait
  but the bounded one for the lock (weak fairness of `SetGateStep`), and a person removes a
  directory whose maker is dead (weak fairness of `RemoveStaleLock`), as the time-out message asks.
  Nobody is obliged to start a command. Without the person, a single crash would block the
  repository for ever: the code has no other way to free the lock.
- `scan_cache`: the process of the scheduler keeps running what is ready on its event loop (weak
  fairness of `ProcessStep`). Nothing is assumed of the other processes: one may die inside the
  index lock, and the wait for it is bounded.
- `enforcement_gate`: each request goes on when its promise is settled or its timer is due, and the
  host reports a child that was killed (weak fairness of `Proceeds` per request). A child need not
  end by itself.

## Where the code does not do what it says

Each of the runs that end in a violation is a counterexample to a sentence in the repository:

1. `FinalCheck`: DECISIONS.md promises that apply re-verifies the region right before it writes.
   The verified hash is that of a plan made before the lock. Two applies that both use the lock
   correctly suffice: the second overwrites what the first has just written in the region.
2. `PassMeansLive`: an applied transaction is "a LIVE edit". The rollback of the transaction
   applied last passes its drift check and restores the file of *propose* time, before the other
   transaction; the gate is passed over a file that lacks an applied edit.
3. `NoSilentPass`: the verdict is taken on what was read, the token on what is there later.
4. `LockMeansBusyOrCrashed`: `unwaive` of an absent waiver exits inside the lock. The comment at
   `LockedCommandFailure` describes exactly this mistake for other commands.
`ReviewedWrites` is the other side of 1: whatever happens, the region receives exactly the value
that was reviewed. It is the rest of the file, and what was in the region, that can be lost.

Other limits of the code are exceptions in the properties that hold, or were met on the way:

- *Waivers.* Waiving one warning drops the expired waivers of all others without an event, so
  waiving one of those again is logged as new, not as renewed (DECISIONS.md, WR3). `waive --all`
  writes one entry per error, so a contract that repeats a key doubles it, against the comment beside
  the filter (bin/bskel.mjs:2098-2099). One sequential call shows it; it does no harm, because
  all entries of a key expire together and go together, which is what `RenewalReplaces` and its
  invariant `OneExpiryPerKey` say. `waive` and
  `unwaive` rebind the token to the files of now: after a re-scan they pass a contract that `scan`
  has overtaken. The same holds for cross-feature waivers and for dependency declare and remove.
- *Features.* `init` numbers by the directories alone: the id of a removed directory, with its
  state and gates, goes to a new feature. `archive` takes no lock and can bring back the record of a
  directory that is being renamed.
- *Handles.* Two overlapping emits, or an emit and a rename, lose entries of the manifest; a crash
  between a write and its entry costs one false conflict; the registry flag is saved although the
  files it belongs to were in conflict.
- *Server.* A dependency request that waits for the lock while a patch request of the same server
  holds it cannot get it, because the holder needs the loop: it always times out, and the loop stands
  still until then. `ServeLoop` has these steps; that the deadline ends the wait is the loop of
  `acquireOrThrow` as it stands, and no property repeats it.
- *Scan.* An edit between fingerprint and scan is cached under the wrong key. The collector can
  take a blob between its put and its entry: with the default minimum age every blob, with a longer
  one a blob that put has found, because put leaves the old modification time. RFC F4 leaves it to
  the caller not to collect while scans run. A chain of
  tasks whose ids run against its dependencies makes the scheduler give up ("no progress") although
  the rest is merely blocked; its comment promises `blocked` with a reason.
- *Impact.* The second reading of the surface puts an edit made in between into the baseline unseen.
  The class is no input of the impact gate, so that a moved field blocks `verify` rests on the scan
  gate: accept while the scan is stale, then put the file back, and `verify` passes over a baseline
  the field does not agree with. A pass can be bound to an obligation recorded after its verdict.
  A feature the last report did not name is not watched until the next check.
- *Views.* `next` advises to verify after a blocking gate was revoked; `ci check` selects features
  by their own files and can miss one that became stale through another's.

## Proofs

Every safety invariant and action property that the runs check is proved for any values of the constants
that satisfy the named `ASSUME`s of its module. Each proof module
has an inductive invariant (`Inductive`, `SchedulerInductive`, `RunInductive`), one step per action, and
the properties as consequences. The invariants were checked with TLC, as invariants of the module's
run, before they were proved.

**`GateStoreProofs`**: `TypeCorrect`, `LockCorrect`, `MutexCorrect`, `NoLostGateWriteCorrect`,
`PassIsEarnedCorrect`, and `Implements`: the store implements `GateRegister`.
Mutual exclusion is not inductive: in a state where a process is inside without the
directory being its own, another could enter. `LockDiscipline` ties a process that is inside, or
died inside, to the directory it made, so two of them would both be the one maker; it also says
that the snapshot is still what the holder read, which is what makes a whole-file save harmless,
and that a saved record is still there when it is logged. `IInv == TypeOK /\ LockDiscipline` is
inductive. From it follow, step by step, the agreement of snapshot and log (`StepKept`), the action
property (`StepEarned`: saving changes one gate, and time only ages records) and the refinement
(`StepRegister`: the rename is the abstract write, the append the abstract log entry, an exception
or a crash in between the abstract loss, everything else a stutter). `Owed` uses `CHOOSE`; mutual
exclusion makes it unique (`OwedValue`). `HoldsAreCounted` is the safety half of `LockComesFree`: a
directory goes only through its maker's release or, after the maker died, by hand, nobody else's
timeout or crash touches it, and `HoldLeft` bounds how long it stays.

**`PatchTransactionsProofs`**: `TypeCorrect`, `RecordHeldCorrect`, `BlobBeforeRecordCorrect`,
`ReviewedWritesCorrect`. Here a process is past its checks exactly when the lock is its own
(`LockIsHeld`). Beside the types the invariant says what a command still knows of its record: a
proposal has its id for itself, any other command has the kind and region of a record that exists
(`RecordKnown`), and between the checks and the save the plan agrees with the record (`Planned`,
`ChecksHold`). The target itself is not in the invariant, because editors and DDL may change it at
any time; that is why `ReviewedWrites` holds of the region and `FinalCheck` does not.

**`ContractWaiversProofs`**: `TypeCorrect`, `RenewalReplacesCorrect`, `LogAgreesCorrect`,
`LiveWaiversStayCorrect`. That no expired entry stays beside a live one is not inductive, because time
alone could make two entries of a key differ; that all entries of a key have one time of expiry
(`OneExpiryPerKey`) is. That the log agrees with the file *now* is not inductive, because the
clock moves. File and log agree on the time of expiry (`Agrees`), an event still to be logged tells
what the file says (`EventsTrue`), and every warning agrees, is pending or was torn by a crash
(`Agreement`).

**`FeatureImpactProofs`**: `TypeCorrect`, `ObligationsHeldCorrect`, `VerifiedIsAcceptedCorrect`,
`BaselineIsEarnedCorrect`. A pass tells of the moment its token was computed. The invariant follows what
the verdict saw under the lock (`Captured`), what it was taken from (`Vouched`, of all features but the
one itself, whose dispositions to itself oblige nobody), and what token and gate say from then on
(`TokensGood`); `blurred` is exactly where this chain breaks.

**`EnforcementGateProofs`**: `TypeCorrect`, `AuditVerifiesCorrect`, `ChildrenAccountedCorrect`, also
for infinitely many requests. The verifier computes over the whole log, so the invariant says it
entry by entry (`Entries`), with what each decision still owes (`Debts`), which request owes it
(`Claims`) and that there is room for it (`RoomKept`). `OneSegment` (between two awaits one request
runs) is what makes the check before a spawn still true when it spawns. The safety half of
`RequestsEnd` is proved too: `StepsAreCounted` gives each request a bound on its steps
(`StepsLeft`: its place, the links of its timer, whether its child is alive) that every step of
`Proceeds` lowers and nothing raises, and `StoppableCorrect` says that the timer of a running child is
armed on every path of errors, so that a child that never ends by itself is always about to be killed.

**`ScanSchedulerProofs`**: `WithinBudgetCorrect`, `DependenciesFirstCorrect`,
`GivesUpOnlyOutOfOrderCorrect`, `RefusesExactlyBadGraphsCorrect`, for any number of tasks. The passes
over the tasks are recursive functions, so the module begins with induction. The library's
induction theorems take an operator as parameter, which the provers cannot instantiate; the module
goes by the least element of a set of numbers instead (`LeastExists`, `SetInduction`,
`BoundedInduction`) and shows that a step operator defines a function (`Recursion`). Then come what
each pass computes: `AcceptsExactly` (the queue of indegrees accepts exactly the graphs without a
cycle or a missing dependency), `MarkIs`, `SumAdd`, `AdmissionIs`. The invariant `SInv` is the two
accounts (`Books`, `Reserved`), a reason for every status (`Ordered`), the graph behind the loop
(`Gatekept`) and what giving up means (`GivesUp`). All are about `SchedulerSpec`. `CallIsBounded` is
the safety half of termination: `StepsToCome` weighs the pending and the running tasks, the promises
to be finalised, those that will resume a race and the place of the loop, and every step of the
scheduler lowers it. It rests on what an admission adds (`AdmissionGrows`): the loop goes on
without a race only if the pass changed a task. `RacesPromisesCorrect` says that a race is never of nothing.

**`ScanRunProofs`**: `RunImplementsScheduler` (`Spec => SchedulerSpec`: the steps of the cache, of other
processes, editors and crashes are steps of the scheduler or stutters), so that the above holds of the
run as well; `TypeCorrect`, `ReportsMatchKeysCorrect`, `ListedBlobsSurviveCorrect`,
`NoLostEntryCorrect`; `RunIsBounded` takes the bound on the loop's steps to the run. The invariant
`CacheInv` says of each worker, of the janitor and of each entry what they know: an index loaded under
the lock is still the one on disk, a value is of the key unless its files were edited since, and a blob
that an entry or an index in hand names is in the store and `Spared` by the collection in progress,
unless that entry was `overtaken` or `overlapped`. `LeastClosedHolds` proves the reference definition of
`Invalidation` by induction over the queue, for every finite graph; `ExactlyTheDependentsCorrect`
restates it for the run.

**`RepositoryProofs`**: `TypeCorrect`, `IdsNameOneFeatureCorrect`, `RecordsFollowWritesCorrect`,
`FlagTracksInfraCorrect`, `HumanEditsSurviveCorrect`, `RenameKeepsAllCorrect`. The invariant `IInv` has
two halves.
Of the commands: what a record holds at each place (`JobOK`); that the holder of `feature-index` is the
one who goes by the index, which is still the one a rename read, and nobody has the new id
(`Indexers`); that a list names no id twice (`Distinct`); and that a number stands for one feature
(`Numbered`). The last is what the property needs and is far from inductive by itself: a feature is known by
its ids, by directories and by what commands carry, so each step is traced back to where the feature it
writes was known before (`TraceStored`, `TraceListed`, `TraceWorks`), and a number that init has chosen but
not saved is apart (`SettledBy`), because only the lock keeps it from being chosen twice (`ChosenIsNew`).
Of the emits: what a record holds (`EmitOK`), that one process goes by a loaded manifest while
`overlap` is false (`OneHolder`, which rests on the ghost seeing every second holder), that this
manifest is the one on disk but for the entry just written (`Following`), and from it which files are
not vouched for (`Vouching`) and which flag each file may carry (`Flagged`). Every step of an emit is
first brought into one of twelve forms (`EmitCases`), so that these proofs do not open the actions again.

`RenameKeepsAll` needs a second invariant on top of that, `RInv`. Under a number of which nobody took a
directory away, a directory that no rename is at or has torn (`Quiet`) is the one place of its feature
(`Placed`): no other directory, state file or log has the number, the state has every gate that was
told, the id is the last in the index, and whatever a command at work on the feature has in hand agrees
with it (`Fits`), so that its late write does no harm. A rename under way that is not torn has, at each
of its eleven places, exactly the parts under the new id that it has moved by then (`MoveOK`), and no
other command is at the feature (`Moved`); a command that starts there tears it. The two hand over to
each other at `RenameChecks` and `RenameIndexes`. They rest on these: a uid is given once and to one
number (`Minted`), so that steps for one feature leave the others alone (`StillAway`); the lock `state`
is with the one that is inside (`StateHolders`), so that a state file that was loaded is still the one
on disk; nothing lies under a clean number without a directory, which is where `init` puts a new feature
(`Untaken`). For the manifest, an emit generates for the feature of its command (`EmitsFor`), and while
no two commands went by copies of it the owner of an entry is where its feature is, or is on the way to
(`Owners`). One lemma carries each part over a step (`PlacedKept`, `MovedKept`, `OwnersKept`, ...), and
most of their cases are that the step writes elsewhere.

What is assumed is what the modules name: the values for "nothing" are not values of the other kind
(`NoProcAssumption`, `NothingAssumption`, `HoldersAssumption`, ...), bounds are natural numbers and
limits that the code refuses below 1 are positive (`BoundAssumption`, `CountsAssumption`,
`BoundsAssumption`), no wire leads from a feature to itself (`ImpactAssumption`: features have one field
here, and `declare` refuses a field that depends on itself), nodes are finitely many
(`NodesAssumption`), the templates have a newest version (`VersionsAssumption`), and two features have a
place to begin at (`FeaturesAssumption`). TLC evaluates them in every run.

Only model-checked:

- liveness (`LockComesFree`, `RunEnds`, `RequestsEnd`): fairness is out of the prover's reach. Of them
  the bounds are proved, `HoldsAreCounted`, `RunIsBounded` and `StepsAreCounted`; that a step is
  possible and taken until the end, and that a worker of the scan comes to its own end, is what the runs
  show.

## Plan

What is left, in this order:

1. cross-feature waivers and patch approvals beside the gates they feed;
2. the workflow's advice and the selection of `ci check` as operators against a reference.

## Not modelled

Scanners, contract builders and code generators (their output is data that the gates only hash),
schema validation other than as an exception, the signing of exports and its files, the evaluators
of permissions, attestations and release policy under `lib/trust-next` and `release`, the stack
catalogue, and the packaged adapters. They keep no shared state in steps. Cross-feature waivers
have the shape of `ContractWaivers`, patch approvals that of a single locked section; the advice of
`workflow` and the selection of `ci check` write nothing.
