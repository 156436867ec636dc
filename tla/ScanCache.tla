----------------------------- MODULE ScanCache ------------------------------
(***************************************************************************)
(* The artifact cache of scans: lib/artifact-store-next (content-addressed *)
(* blobs, an index file, a garbage collector) and runCachedTask of         *)
(* lib/scan-scheduler-next/cache-runtime.mjs, as called by                 *)
(* runLegacyScanCached.  A scan fingerprints the project's files, looks    *)
(* the key up, and on a miss scans, puts the blob and sets the entry under *)
(* the lock of the index.  Readers and the collector take no lock.         *)
(***************************************************************************)
EXTENDS Integers, FiniteSets

CONSTANTS
  Worker,      \* calls of runLegacyScanCached
  Project,     \* projects that share one cache root
  ProjectOf,   \* [Worker -> Project] what each call scans
  Sources,     \* the contents the projects may start with
  Leftover,    \* blobs of entries that were invalidated long ago
  Content,     \* contents of a project's files (the digest of its file index)
  Path,        \* file paths, relative to the project's root
  ChangeSets,  \* what invalidateDependencies is called with: subsets of Path
  Removals,    \* what remove is called with: keys
  FilesOf,     \* [Content -> SUBSET Path] the files of the file index
  Janitor,     \* the caller of invalidateDependencies and remove
  NoHolder,    \* the lock directory does not exist
  NoEntry,     \* the key is absent from the index
  NoContent,   \* nothing fingerprinted yet
  NoReport,    \* nothing read or computed yet
  MaxOutside   \* bound on what others do: scans, edits, crashes, collections, invalidations

Key == Project \X Content
Blob == Key              \* a report, named by what was scanned; it holds the project's paths
Entry == [artifact : Blob, dependencies : SUBSET Path]
Index == [Key -> Entry \cup {NoEntry}]

ASSUME HoldersAssumption == Janitor \notin Worker /\ NoHolder \notin Worker \cup {Janitor}
ASSUME ProjectsAssumption == ProjectOf \in [Worker -> Project]
ASSUME NothingAssumption == NoEntry \notin Entry /\ NoContent \notin Content /\ NoReport \notin Blob
ASSUME FilesAssumption == FilesOf \in [Content -> SUBSET Path] /\ MaxOutside \in Nat
ASSUME StartAssumption ==
  /\ ChangeSets \subseteq SUBSET Path /\ Removals \subseteq Key
  /\ Sources \subseteq [Project -> Content] /\ Leftover \subseteq Blob

VARIABLES
  source,     \* the files of each project
  entries,    \* .sbf/cache-next/index.json
  blobs,      \* .sbf/cache-next/artifacts
  lock,       \* who made t21-cache-index.lock
  work,       \* one record per worker
  janitor,    \* the call of invalidateDependencies or remove
  collector,  \* the call of collectArtifactGarbage
  outside,    \* scans of others, edits, crashes, collections and invalidations so far
  \* ghosts
  overlapped, \* keys whose entry was set while a collection went on that did not spare the blob
  poisoned    \* keys whose entry was set by a scan with an edit after its fingerprint

cacheVars == <<source, entries, blobs, lock, work, janitor, collector, outside, overlapped, poisoned>>

NoLoad == [k \in Key |-> NoEntry]
AtRest == [at |-> "idle", paths |-> {}, keys |-> {}, loaded |-> NoLoad]
Idle == [at |-> "idle", key |-> NoContent,
         value |-> NoReport, overtaken |-> FALSE, edited |-> FALSE, loaded |-> NoLoad]

Locked == {"locked", "loaded", "saved"}

\* From the end of put to the save of the index that names its blob.
Storing == {"stored", "locked", "loaded"}

\* What runs without an await: from the fingerprint to the scan, and from put to the release.
Segment == {"keyed", "hit", "miss", "put", "stored"} \cup Locked

\* Every variable has its type.
CacheTypeOK ==
  /\ source \in [Project -> Content]
  /\ entries \in Index
  /\ blobs \in SUBSET Blob
  /\ lock \in Worker \cup {Janitor, NoHolder}
  /\ work \in [Worker -> [at : {"idle", "computed", "returned", "threw", "dead"} \cup Segment,
                          key : Content \cup {NoContent},
                          value : Blob \cup {NoReport}, overtaken : BOOLEAN, edited : BOOLEAN,
                          loaded : Index]]
  /\ janitor \in [at : {"idle", "waiting"} \cup Locked, paths : SUBSET Path, keys : SUBSET Key, loaded : Index]
  /\ collector \in [at : {"idle", "marked", "sweeping"}, marked : SUBSET Blob, left : SUBSET Blob]
  /\ outside \in 0..MaxOutside
  /\ overlapped \in SUBSET Key /\ poisoned \in SUBSET Key

CacheInit ==
  /\ source \in Sources
  /\ entries = NoLoad
  /\ blobs \in SUBSET Leftover
  /\ lock = NoHolder
  /\ work = [w \in Worker |-> Idle]
  /\ janitor = AtRest
  /\ collector = [at |-> "idle", marked |-> {}, left |-> {}]
  /\ outside = 0
  /\ overlapped = {} /\ poisoned = {}

-----------------------------------------------------------------------------
(* runLegacyScanCached and runCachedTask. *)

KeyOf(w) == <<ProjectOf[w], work[w].key>>

\* buildFileIndex and buildScanCacheKey: the key is fixed by what the files contain now.
Fingerprint(w) ==
  /\ work[w].at = "idle"
  /\ work' = [work EXCEPT ![w] = [@ EXCEPT !.at = "keyed", !.key = source[ProjectOf[w]]]]
  /\ UNCHANGED <<source, entries, blobs, lock, janitor, collector, overlapped, poisoned>>

StartScan(w) ==
  /\ outside < MaxOutside /\ outside' = outside + 1
  /\ Fingerprint(w)

\* Mutant of Lookup: the namespace of the project is not part of the key.
LookupAnyProject(w) ==
  /\ work[w].at = "keyed"
  /\ LET hits == {k \in Key : k[2] = work[w].key /\ entries[k] # NoEntry} IN
     work' = IF hits = {} THEN [work EXCEPT ![w].at = "miss"]
             ELSE [work EXCEPT ![w] = [@ EXCEPT !.at = "hit",
                                             !.value = entries[CHOOSE k \in hits : TRUE].artifact]]
  /\ UNCHANGED <<source, entries, blobs, lock, janitor, collector, outside, overlapped, poisoned>>

\* cacheIndex.get: no lock, the file is replaced as a whole.
Lookup(w) ==
  /\ work[w].at = "keyed"
  /\ LET hit == entries[KeyOf(w)] IN
     work' = IF hit = NoEntry THEN [work EXCEPT ![w].at = "miss"]
             ELSE [work EXCEPT ![w] = [@ EXCEPT !.at = "hit", !.value = hit.artifact,
                                             !.edited = work[w].edited \/ KeyOf(w) \in poisoned]]
  /\ UNCHANGED <<source, entries, blobs, lock, janitor, collector, outside, overlapped, poisoned>>

\* artifactStore.read of a hit; a missing blob is an error and never a miss.
ReadHit(w) ==
  /\ work[w].at = "hit"
  /\ work' = [work EXCEPT ![w].at = IF work[w].value \in blobs THEN "returned" ELSE "threw"]
  /\ UNCHANGED <<source, entries, blobs, lock, janitor, collector, outside, overlapped, poisoned>>

\* compute: runScan reads the files again.
Compute(w) ==
  /\ work[w].at = "miss"
  /\ work' = [work EXCEPT ![w] = [@ EXCEPT !.at = "computed",
                                         !.value = <<ProjectOf[w], source[ProjectOf[w]]>>]]
  /\ UNCHANGED <<source, entries, blobs, lock, janitor, collector, outside, overlapped, poisoned>>

\* Mutant of ComputeThrows: what failed is stored.
ComputeGoesOn(w) ==
  /\ work[w].at = "miss"
  /\ work' = [work EXCEPT ![w].at = "computed"]
  /\ UNCHANGED <<source, entries, blobs, lock, janitor, collector, outside, overlapped, poisoned>>

\* runScan or the validation of its report throws.
ComputeThrows(w) ==
  /\ work[w].at = "miss"
  /\ work' = [work EXCEPT ![w].at = "threw"]
  /\ UNCHANGED <<source, entries, blobs, lock, janitor, collector, outside, overlapped, poisoned>>

\* The collection under way, if there is one, will not delete this blob.
Spared(b) ==
  /\ collector.at = "marked" => b \in collector.marked
  /\ collector.at = "sweeping" => b \notin collector.left

\* artifactStore.put: a blob that is there already is left alone.
Put(w) ==
  /\ work[w].at = "computed"
  /\ LET b == work[w].value IN
     /\ work' = [work EXCEPT ![w].at = "put"]
     /\ blobs' = blobs \cup {b}
  /\ UNCHANGED <<source, entries, lock, janitor, collector, outside, overlapped, poisoned>>

\* put reads the blob back.
ReadBack(w) ==
  /\ work[w].at = "put"
  /\ work' = [work EXCEPT ![w] = [@ EXCEPT !.at = IF work[w].value \in blobs THEN "stored" ELSE "threw",
                                         !.overtaken = ~Spared(work[w].value)]]
  /\ UNCHANGED <<source, entries, blobs, lock, janitor, collector, outside, overlapped, poisoned>>

\* Mutant of AcquireIndex: set takes no lock.
AcquireNothing(w) ==
  /\ work[w].at = "stored"
  /\ work' = [work EXCEPT ![w].at = "locked"]
  /\ UNCHANGED <<source, entries, blobs, lock, janitor, collector, outside, overlapped, poisoned>>

\* cacheIndex.set: mkdir of the lock directory, or the time-out that names it.
AcquireIndex(w) ==
  /\ work[w].at = "stored" /\ lock = NoHolder
  /\ lock' = w
  /\ work' = [work EXCEPT ![w].at = "locked"]
  /\ UNCHANGED <<source, entries, blobs, janitor, collector, outside, overlapped, poisoned>>

\* Mutant of IndexTimeout: a waiter gives up only while the holder is alive.
PatientTimeout(w) ==
  /\ work[w].at = "stored" /\ lock \in Worker /\ work[lock].at # "dead"
  /\ work' = [work EXCEPT ![w].at = "threw"]
  /\ UNCHANGED <<source, entries, blobs, lock, janitor, collector, outside, overlapped, poisoned>>

IndexTimeout(w) ==
  /\ work[w].at = "stored" /\ lock # NoHolder
  /\ work' = [work EXCEPT ![w].at = "threw"]
  /\ UNCHANGED <<source, entries, blobs, lock, janitor, collector, outside, overlapped, poisoned>>

LoadIndex(w) ==
  /\ work[w].at = "locked"
  /\ work' = [work EXCEPT ![w] = [@ EXCEPT !.at = "loaded", !.loaded = entries]]
  /\ UNCHANGED <<source, entries, blobs, lock, janitor, collector, outside, overlapped, poisoned>>

\* save replaces the whole index by what was loaded, with this entry.
SaveIndex(w) ==
  /\ work[w].at = "loaded"
  /\ LET k == KeyOf(w) IN
     /\ entries' = [work[w].loaded EXCEPT ![k] =
                      [artifact |-> work[w].value, dependencies |-> FilesOf[work[w].key]]]
     /\ overlapped' = IF work[w].overtaken THEN overlapped \cup {k} ELSE overlapped \ {k}
     /\ poisoned' = IF work[w].edited THEN poisoned \cup {k} ELSE poisoned \ {k}
  /\ work' = [work EXCEPT ![w] = [@ EXCEPT !.at = "saved", !.loaded = NoLoad, !.overtaken = FALSE]]
  /\ UNCHANGED <<source, blobs, lock, janitor, collector, outside>>

ReleaseIndex(w) ==
  /\ work[w].at = "saved"
  /\ lock' = NoHolder
  /\ work' = [work EXCEPT ![w].at = "returned"]
  /\ UNCHANGED <<source, entries, blobs, janitor, collector, outside, overlapped, poisoned>>
-----------------------------------------------------------------------------
(* invalidateDependencies drops the entries that depend on one of the      *)
(* paths, remove that of a key; both under the same lock.                  *)

Dropped(index, paths, keys) ==
  {k \in Key : index[k] # NoEntry /\ (index[k].dependencies \cap paths # {} \/ k \in keys)}

StartDrop(paths, keys) ==
  /\ janitor.at = "idle" /\ outside < MaxOutside
  /\ outside' = outside + 1
  /\ janitor' = [at |-> "waiting", paths |-> paths, keys |-> keys, loaded |-> NoLoad]
  /\ UNCHANGED <<source, entries, blobs, lock, work, collector, overlapped, poisoned>>

StartInvalidation(paths) == paths # {} /\ StartDrop(paths, {})

StartRemoval(k) == StartDrop({}, {k})

DropAcquires ==
  /\ janitor.at = "waiting" /\ lock = NoHolder
  /\ lock' = Janitor
  /\ janitor' = [janitor EXCEPT !.at = "locked"]
  /\ UNCHANGED <<source, entries, blobs, work, collector, outside, overlapped, poisoned>>

DropTimesOut ==
  /\ janitor.at = "waiting" /\ lock # NoHolder
  /\ janitor' = AtRest
  /\ UNCHANGED <<source, entries, blobs, lock, work, collector, outside, overlapped, poisoned>>

DropLoads ==
  /\ janitor.at = "locked"
  /\ janitor' = [janitor EXCEPT !.at = "loaded", !.loaded = entries]
  /\ UNCHANGED <<source, entries, blobs, lock, work, collector, outside, overlapped, poisoned>>

DropSaves ==
  /\ janitor.at = "loaded"
  /\ LET gone == Dropped(janitor.loaded, janitor.paths, janitor.keys) IN
     /\ entries' = IF gone = {} THEN entries
                   ELSE [k \in Key |-> IF k \in gone THEN NoEntry ELSE janitor.loaded[k]]
     /\ overlapped' = overlapped \ gone /\ poisoned' = poisoned \ gone
  /\ janitor' = [janitor EXCEPT !.at = "saved", !.loaded = NoLoad]
  /\ UNCHANGED <<source, blobs, lock, work, collector, outside>>

DropReleases ==
  /\ janitor.at = "saved"
  /\ lock' = NoHolder
  /\ janitor' = AtRest
  /\ UNCHANGED <<source, entries, blobs, work, collector, outside, overlapped, poisoned>>

-----------------------------------------------------------------------------
(* collectArtifactGarbage with dryRun false: the caller lists the index,    *)
(* then the blobs are listed, then the candidates deleted one by one.       *)

\* Who has stored a blob by now but not listed it is overtaken.
ListReachable ==
  /\ collector.at = "idle" /\ outside < MaxOutside
  /\ outside' = outside + 1
  /\ LET marked == {entries[k].artifact : k \in {j \in Key : entries[j] # NoEntry}} IN
     /\ collector' = [at |-> "marked", left |-> {}, marked |-> marked]
     /\ work' = [w \in Worker |-> IF work[w].at \in Storing /\ work[w].value \notin marked
                                  THEN [work[w] EXCEPT !.overtaken = TRUE] ELSE work[w]]
  /\ UNCHANGED <<source, entries, blobs, lock, janitor, overlapped, poisoned>>

\* By default no blob is too young (minAgeMs = 0); a limit and the caps leave some out.
ListCandidates ==
  /\ collector.at = "marked"
  /\ \E chosen \in SUBSET (blobs \ collector.marked) :
       collector' = [at |-> "sweeping", marked |-> {}, left |-> chosen]
  /\ UNCHANGED <<source, entries, blobs, lock, work, janitor, outside, overlapped, poisoned>>

DeleteBlob ==
  /\ collector.at = "sweeping"
  /\ \E b \in collector.left :
       /\ blobs' = blobs \ {b}
       /\ collector' = [collector EXCEPT !.left = @ \ {b}]
  /\ UNCHANGED <<source, entries, lock, work, janitor, outside, overlapped, poisoned>>

CollectionEnds ==
  /\ collector.at = "sweeping" /\ collector.left = {}
  /\ collector' = [collector EXCEPT !.at = "idle"]
  /\ UNCHANGED <<source, entries, blobs, lock, work, janitor, outside, overlapped, poisoned>>

-----------------------------------------------------------------------------
(* The environment. *)

\* An editor; it is remembered of every scan that stands between its fingerprint and its scan.
Edit(p, c) ==
  /\ source[p] # c /\ outside < MaxOutside
  /\ source' = [source EXCEPT ![p] = c]
  /\ work' = [w \in Worker |-> IF ProjectOf[w] = p /\ work[w].at \in {"keyed", "miss"}
                               THEN [work[w] EXCEPT !.edited = TRUE] ELSE work[w]]
  /\ outside' = outside + 1
  /\ UNCHANGED <<entries, blobs, lock, janitor, collector, overlapped, poisoned>>

\* The process of this worker is killed.
Crash(w) ==
  /\ work[w].at \in Segment \cup {"computed"} /\ outside < MaxOutside
  /\ outside' = outside + 1
  /\ work' = [work EXCEPT ![w] = [Idle EXCEPT !.at = "dead"]]
  /\ UNCHANGED <<source, entries, blobs, lock, janitor, collector, overlapped, poisoned>>

\* A person follows the message of the time-out.
RemoveStaleLock ==
  /\ lock \in Worker /\ work[lock].at = "dead"
  /\ lock' = NoHolder
  /\ UNCHANGED <<source, entries, blobs, work, janitor, collector, outside, overlapped, poisoned>>

WorkerStep(w) ==
  \/ StartScan(w) \/ Lookup(w) \/ ReadHit(w) \/ Compute(w) \/ ComputeThrows(w) \/ Put(w) \/ ReadBack(w)
  \/ AcquireIndex(w) \/ IndexTimeout(w) \/ LoadIndex(w) \/ SaveIndex(w) \/ ReleaseIndex(w)

JanitorStep ==
  \/ \E paths \in ChangeSets : StartInvalidation(paths)
  \/ \E k \in Removals : StartRemoval(k)
  \/ DropAcquires \/ DropTimesOut \/ DropLoads
  \/ DropSaves \/ DropReleases

CollectorStep == ListReachable \/ ListCandidates \/ DeleteBlob \/ CollectionEnds

CacheEnvironment ==
  \/ \E p \in Project, c \in Content : Edit(p, c)
  \/ RemoveStaleLock

-----------------------------------------------------------------------------
(* What the cache promises. *)

\* Collection takes no lock, and yet a blob that it takes is named by no entry, not by one either that
\* a writer of the index brings back from an older reading.  Except an entry whose own blob was
\* stored, but not yet listed, when a collection listed the index: that is left to the caller (F4).
ListedBlobsSurvive ==
  \A k \in Key : entries[k] # NoEntry /\ entries[k].artifact \notin blobs => k \in overlapped

\* Every entry, and every report a caller gets, on a hit or a miss, was made of the project's own
\* files as they were fingerprinted.  The one way out is an edit between a fingerprint and the scan
\* after it, by this call or by the one that set the entry; the key does not tell it.
ReportsMatchKeys ==
  /\ \A k \in Key : entries[k] # NoEntry =>
       entries[k].artifact[1] = k[1] /\ (entries[k].artifact # k => k \in poisoned)
  /\ \A w \in Worker : work[w].at = "returned" =>
       /\ work[w].value[1] = ProjectOf[w]
       /\ work[w].value # KeyOf(w) => work[w].edited

\* Racing writers of the index lose nothing: an entry disappears only when one of its files is
\* invalidated or its key removed, and stays gone until a run that scanned again sets it.
NoLostEntry ==
  [][\A k \in Key :
       /\ entries[k] # NoEntry /\ entries'[k] = NoEntry =>
            k \in Dropped(entries, janitor.paths, janitor.keys)
       /\ entries[k] # entries'[k] /\ entries'[k] # NoEntry =>
            \E w \in Worker : /\ lock = w /\ work[w].at = "loaded"
                              /\ KeyOf(w) = k /\ entries'[k].artifact = work[w].value]_cacheVars
=============================================================================
