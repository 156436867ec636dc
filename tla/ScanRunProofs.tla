---------------------------- MODULE ScanRunProofs ----------------------------
(***************************************************************************)
(* Proofs about ScanCache and ScanRun, for any projects, workers, contents *)
(* and graphs: the cache of scans keeps its promises whatever the workers  *)
(* of the run and of other processes, the collector and the editors do,    *)
(* and a run is a behaviour of the scheduler.                              *)
(***************************************************************************)
EXTENDS ScanRun, ScanSchedulerProofs

-----------------------------------------------------------------------------
(* The inductive invariant of the cache. *)

\* A worker has read or computed a report.
Valued == {"hit", "computed", "returned", "put", "stored"} \cup Locked

WorkRecord == [at : {"idle", "computed", "returned", "threw", "dead"} \cup Segment,
               key : Content \cup {NoContent}, value : Blob \cup {NoReport},
               overtaken : BOOLEAN, edited : BOOLEAN, loaded : Index]

\* The blob is there, and the collection under way will not take it.
Safe(b) == b \in blobs /\ Spared(b)

\* What holds of a worker w whose record is x.
WorkerOK(w, x) ==
  /\ x \in WorkRecord
  /\ x.at \notin {"idle", "dead"} => x.key \in Content
  /\ x.at \in Valued => x.value \in Blob /\ x.value[1] = ProjectOf[w]
  /\ x.at \in Valued => x.edited \/ x.value = <<ProjectOf[w], x.key>>
  /\ x.at \in {"keyed", "miss"} => x.edited \/ source[ProjectOf[w]] = x.key
  /\ x.at \in Locked => lock = w
  /\ x.at = "loaded" => x.loaded = entries
  /\ x.at \in Storing => x.overtaken \/ Safe(x.value)

JanitorOK ==
  /\ janitor.at \in Locked => lock = Janitor
  /\ janitor.at = "loaded" => janitor.loaded = entries

\* What holds of an entry e of the key k.
EntryOK(k, e) ==
  e # NoEntry => /\ e.artifact[1] = k[1]
                 /\ e.artifact = k \/ k \in poisoned
                 /\ k \in overlapped \/ Safe(e.artifact)

CacheInv ==
  /\ CacheTypeOK
  /\ \A w \in Worker : WorkerOK(w, work[w])
  /\ JanitorOK
  /\ \A k \in Key : EntryOK(k, entries[k])
  /\ collector.at = "sweeping" => collector.left \subseteq blobs

-----------------------------------------------------------------------------
(* Records of workers with some fields changed. *)

\* A record with the fields of a worker's.
IsRecord(x) ==
  x = [at |-> x.at, key |-> x.key, value |-> x.value, overtaken |-> x.overtaken, edited |-> x.edited, loaded |-> x.loaded]

\* One field.
LEMMA SetField ==
  ASSUME NEW x, IsRecord(x), NEW v
  PROVE  /\ [x EXCEPT !.at = v] =
              [at |-> v, key |-> x.key, value |-> x.value, overtaken |-> x.overtaken, edited |-> x.edited, loaded |-> x.loaded]
         /\ [x EXCEPT !.key = v] =
              [at |-> x.at, key |-> v, value |-> x.value, overtaken |-> x.overtaken, edited |-> x.edited, loaded |-> x.loaded]
         /\ [x EXCEPT !.value = v] =
              [at |-> x.at, key |-> x.key, value |-> v, overtaken |-> x.overtaken, edited |-> x.edited, loaded |-> x.loaded]
         /\ [x EXCEPT !.overtaken = v] =
              [at |-> x.at, key |-> x.key, value |-> x.value, overtaken |-> v, edited |-> x.edited, loaded |-> x.loaded]
         /\ [x EXCEPT !.edited = v] =
              [at |-> x.at, key |-> x.key, value |-> x.value, overtaken |-> x.overtaken, edited |-> v, loaded |-> x.loaded]
         /\ [x EXCEPT !.loaded = v] =
              [at |-> x.at, key |-> x.key, value |-> x.value, overtaken |-> x.overtaken, edited |-> x.edited, loaded |-> v]
<1> DEFINE at == x.at   key == x.key   value == x.value
           overtaken == x.overtaken   edited == x.edited   loaded == x.loaded
<1>1. x = [at |-> at, key |-> key, value |-> value, overtaken |-> overtaken, edited |-> edited, loaded |-> loaded]
  BY DEF IsRecord
<1> HIDE DEF at, key, value, overtaken, edited, loaded
<1>2. /\ [x EXCEPT !.at = v] =
           [at |-> v, key |-> key, value |-> value, overtaken |-> overtaken, edited |-> edited, loaded |-> loaded]
      /\ [x EXCEPT !.key = v] =
           [at |-> at, key |-> v, value |-> value, overtaken |-> overtaken, edited |-> edited, loaded |-> loaded]
      /\ [x EXCEPT !.value = v] =
           [at |-> at, key |-> key, value |-> v, overtaken |-> overtaken, edited |-> edited, loaded |-> loaded]
      /\ [x EXCEPT !.overtaken = v] =
           [at |-> at, key |-> key, value |-> value, overtaken |-> v, edited |-> edited, loaded |-> loaded]
      /\ [x EXCEPT !.edited = v] =
           [at |-> at, key |-> key, value |-> value, overtaken |-> overtaken, edited |-> v, loaded |-> loaded]
      /\ [x EXCEPT !.loaded = v] =
           [at |-> at, key |-> key, value |-> value, overtaken |-> overtaken, edited |-> edited, loaded |-> v]
  BY <1>1
<1> QED
  BY <1>2 DEF at, key, value, overtaken, edited, loaded

\* The place.
LEMMA SetAt ==
  ASSUME NEW x \in WorkRecord, NEW v
  PROVE  /\ [x EXCEPT !.at = v] = [at |-> v, key |-> x.key, value |-> x.value, overtaken |-> x.overtaken, edited |-> x.edited, loaded |-> x.loaded]
         /\ LET y == [x EXCEPT !.at = v] IN IsRecord(y) /\ y.at = v /\ y.key = x.key /\ y.value = x.value /\ y.overtaken = x.overtaken /\ y.edited = x.edited /\ y.loaded = x.loaded
<1> DEFINE y == [x EXCEPT !.at = v]
<1>1. IsRecord(x)
  BY DEF WorkRecord, IsRecord
<1>2. y = [at |-> v, key |-> x.key, value |-> x.value, overtaken |-> x.overtaken, edited |-> x.edited, loaded |-> x.loaded]
  BY <1>1, SetField
<1> HIDE DEF y
<1>3. IsRecord(y) /\ y.at = v /\ y.key = x.key /\ y.value = x.value /\ y.overtaken = x.overtaken /\ y.edited = x.edited /\ y.loaded = x.loaded
  BY <1>2 DEF IsRecord
<1> QED
  BY <1>2, <1>3 DEF y

\* The place and the field key.
LEMMA SetAtAndKey ==
  ASSUME NEW x \in WorkRecord, NEW v, NEW u
  PROVE  [x EXCEPT !.at = v, !.key = u] =
           [at |-> v, key |-> u, value |-> x.value, overtaken |-> x.overtaken, edited |-> x.edited, loaded |-> x.loaded]
<1> DEFINE y == [x EXCEPT !.at = v]
<1>1. IsRecord(y) /\ y.at = v /\ y.key = x.key /\ y.value = x.value /\ y.overtaken = x.overtaken /\ y.edited = x.edited /\ y.loaded = x.loaded
  BY SetAt
<1>2. [x EXCEPT !.at = v, !.key = u] = [y EXCEPT !.key = u]
  BY Zenon DEF y
<1> HIDE DEF y
<1>3. [y EXCEPT !.key = u] = [at |-> y.at, key |-> u, value |-> y.value, overtaken |-> y.overtaken, edited |-> y.edited, loaded |-> y.loaded]
  BY <1>1, SetField, ZenonT(60)
<1> QED
  BY <1>1, <1>2, <1>3, Zenon

\* The place and the field value.
LEMMA SetAtAndValue ==
  ASSUME NEW x \in WorkRecord, NEW v, NEW u
  PROVE  [x EXCEPT !.at = v, !.value = u] =
           [at |-> v, key |-> x.key, value |-> u, overtaken |-> x.overtaken, edited |-> x.edited, loaded |-> x.loaded]
<1> DEFINE y == [x EXCEPT !.at = v]
<1>1. IsRecord(y) /\ y.at = v /\ y.key = x.key /\ y.value = x.value /\ y.overtaken = x.overtaken /\ y.edited = x.edited /\ y.loaded = x.loaded
  BY SetAt
<1>2. [x EXCEPT !.at = v, !.value = u] = [y EXCEPT !.value = u]
  BY Zenon DEF y
<1> HIDE DEF y
<1>3. [y EXCEPT !.value = u] = [at |-> y.at, key |-> y.key, value |-> u, overtaken |-> y.overtaken, edited |-> y.edited, loaded |-> y.loaded]
  BY <1>1, SetField, ZenonT(60)
<1> QED
  BY <1>1, <1>2, <1>3, Zenon

\* The place and the field overtaken.
LEMMA SetAtAndOvertaken ==
  ASSUME NEW x \in WorkRecord, NEW v, NEW u
  PROVE  [x EXCEPT !.at = v, !.overtaken = u] =
           [at |-> v, key |-> x.key, value |-> x.value, overtaken |-> u, edited |-> x.edited, loaded |-> x.loaded]
<1> DEFINE y == [x EXCEPT !.at = v]
<1>1. IsRecord(y) /\ y.at = v /\ y.key = x.key /\ y.value = x.value /\ y.overtaken = x.overtaken /\ y.edited = x.edited /\ y.loaded = x.loaded
  BY SetAt
<1>2. [x EXCEPT !.at = v, !.overtaken = u] = [y EXCEPT !.overtaken = u]
  BY Zenon DEF y
<1> HIDE DEF y
<1>3. [y EXCEPT !.overtaken = u] = [at |-> y.at, key |-> y.key, value |-> y.value, overtaken |-> u, edited |-> y.edited, loaded |-> y.loaded]
  BY <1>1, SetField, ZenonT(60)
<1> QED
  BY <1>1, <1>2, <1>3, Zenon

\* The place and the field loaded.
LEMMA SetAtAndLoaded ==
  ASSUME NEW x \in WorkRecord, NEW v, NEW u
  PROVE  [x EXCEPT !.at = v, !.loaded = u] =
           [at |-> v, key |-> x.key, value |-> x.value, overtaken |-> x.overtaken, edited |-> x.edited, loaded |-> u]
<1> DEFINE y == [x EXCEPT !.at = v]
<1>1. IsRecord(y) /\ y.at = v /\ y.key = x.key /\ y.value = x.value /\ y.overtaken = x.overtaken /\ y.edited = x.edited /\ y.loaded = x.loaded
  BY SetAt
<1>2. [x EXCEPT !.at = v, !.loaded = u] = [y EXCEPT !.loaded = u]
  BY Zenon DEF y
<1> HIDE DEF y
<1>3. [y EXCEPT !.loaded = u] = [at |-> y.at, key |-> y.key, value |-> y.value, overtaken |-> y.overtaken, edited |-> y.edited, loaded |-> u]
  BY <1>1, SetField, ZenonT(60)
<1> QED
  BY <1>1, <1>2, <1>3, Zenon

\* The place and the fields value and edited.
LEMMA SetAtAndBoth ==
  ASSUME NEW x \in WorkRecord, NEW v, NEW u, NEW z
  PROVE  [x EXCEPT !.at = v, !.value = u, !.edited = z] =
           [at |-> v, key |-> x.key, value |-> u, overtaken |-> x.overtaken, edited |-> z, loaded |-> x.loaded]
<1> DEFINE q == [x EXCEPT !.at = v, !.value = u]
<1>1. [x EXCEPT !.at = v, !.value = u, !.edited = z] = [q EXCEPT !.edited = z]
  BY Zenon DEF q
<1>2. q = [at |-> v, key |-> x.key, value |-> u, overtaken |-> x.overtaken, edited |-> x.edited, loaded |-> x.loaded]
  BY SetAtAndValue, Zenon
<1> HIDE DEF q
<1>3. IsRecord(q) /\ q.at = v /\ q.value = u /\ q.key = x.key /\ q.overtaken = x.overtaken /\ q.edited = x.edited /\ q.loaded = x.loaded
  BY <1>2 DEF IsRecord
<1>4. [q EXCEPT !.edited = z] = [at |-> q.at, key |-> q.key, value |-> q.value, overtaken |-> q.overtaken, edited |-> z, loaded |-> q.loaded]
  BY <1>3, SetField
<1> QED
  BY <1>1, <1>3, <1>4, Zenon

\* A step of one worker that changes its record only.
LEMMA OneWorker ==
  ASSUME CacheInv, NEW w \in Worker, NEW c, WorkerOK(w, c), work' = [work EXCEPT ![w] = c],
         UNCHANGED <<source, entries, blobs, lock, janitor, collector, overlapped, poisoned>>,
         outside' \in 0..MaxOutside
  PROVE  CacheInv'
<1>1. work \in [Worker -> WorkRecord]
  BY DEF CacheInv, CacheTypeOK, WorkRecord
<1>2. work' \in [Worker -> WorkRecord]
  BY <1>1 DEF WorkerOK
<1>3. CacheTypeOK'
  BY <1>2 DEF CacheInv, CacheTypeOK, WorkRecord
<1>4. work'[w] = c /\ \A v \in Worker : v # w => work'[v] = work[v]
  BY <1>1
<1>5. ASSUME NEW v \in Worker PROVE WorkerOK(v, work[v])'
  <2>1. WorkerOK(v, work'[v])
    BY <1>4 DEF CacheInv
  <2> QED
    BY <2>1 DEF WorkerOK, Safe, Spared
<1>6. JanitorOK' /\ \A k \in Key : EntryOK(k, entries[k])'
  BY DEF CacheInv, JanitorOK, EntryOK, Safe, Spared
<1> QED
  BY <1>3, <1>5, <1>6 DEF CacheInv

-----------------------------------------------------------------------------
(* The steps of a worker that change its record only. *)

\* Types of what they read.
LEMMA CacheFacts ==
  ASSUME CacheInv
  PROVE  /\ entries \in Index
         /\ \A w \in Worker : ProjectOf[w] \in Project /\ source[ProjectOf[w]] \in Content
         /\ \A k \in Key : entries[k] # NoEntry => entries[k] \in Entry /\ entries[k].artifact \in Blob
<1>1. entries \in Index /\ source \in [Project -> Content]
  BY DEF CacheInv, CacheTypeOK
<1>2. \A k \in Key : entries[k] # NoEntry => entries[k] \in Entry
  BY <1>1 DEF Index
<1>3. \A e \in Entry : e.artifact \in Blob
  BY DEF Entry
<1> QED
  BY <1>1, <1>2, <1>3, ProjectsAssumption

\* Each worker's record.
LEMMA WorkerFacts ==
  ASSUME CacheInv, NEW w \in Worker
  PROVE  work \in [Worker -> WorkRecord] /\ work[w] \in WorkRecord /\ WorkerOK(w, work[w])
<1>1. work \in [Worker -> WorkRecord]
  BY DEF CacheInv, CacheTypeOK, WorkRecord
<1> QED
  BY <1>1 DEF CacheInv

\* Fingerprint.
LEMMA FingerprintKeeps ==
  ASSUME CacheInv, NEW w \in Worker, Fingerprint(w), outside' \in 0..MaxOutside
  PROVE  CacheInv'
<1> DEFINE x == work[w]
           c == [at |-> "keyed", key |-> source[ProjectOf[w]], value |-> x.value,
                 overtaken |-> x.overtaken, edited |-> x.edited, loaded |-> x.loaded]
<1>1. x \in WorkRecord /\ WorkerOK(w, x)
  BY WorkerFacts
<1>2. work' = [work EXCEPT ![w] = c]
  <2>1. work' = [work EXCEPT ![w] = [x EXCEPT !.at = "keyed", !.key = source[ProjectOf[w]]]]
    BY DEF Fingerprint
  <2>2. [x EXCEPT !.at = "keyed", !.key = source[ProjectOf[w]]] = c
    BY <1>1, SetAtAndKey, Zenon
  <2> QED
    BY <2>1, <2>2, Zenon
<1>3. UNCHANGED <<source, entries, blobs, lock, janitor, collector, overlapped, poisoned>>
  BY DEF Fingerprint
<1>4. WorkerOK(w, c)
  BY <1>1, CacheFacts DEF Fingerprint, WorkerOK, WorkRecord, Valued, Segment, Locked, Storing
<1> HIDE DEF c
<1> QED
  BY <1>2, <1>3, <1>4, OneWorker

\* ReadHit.
LEMMA ReadHitKeeps ==
  ASSUME CacheInv, NEW w \in Worker, ReadHit(w), outside' \in 0..MaxOutside
  PROVE  CacheInv'
<1> DEFINE x == work[w]
           c == [at |-> IF x.value \in blobs THEN "returned" ELSE "threw", key |-> x.key, value |-> x.value,
                 overtaken |-> x.overtaken, edited |-> x.edited, loaded |-> x.loaded]
<1>1. x \in WorkRecord /\ WorkerOK(w, x)
  BY WorkerFacts
<1>2. work' = [work EXCEPT ![w] = c]
  <2>1. work' = [work EXCEPT ![w] = [x EXCEPT !.at = IF x.value \in blobs THEN "returned" ELSE "threw"]]
    BY DEF ReadHit
  <2>2. [x EXCEPT !.at = IF x.value \in blobs THEN "returned" ELSE "threw"] = c
    BY <1>1, SetAt, Zenon
  <2> QED
    BY <2>1, <2>2, Zenon
<1>3. UNCHANGED <<source, entries, blobs, lock, janitor, collector, overlapped, poisoned>>
  BY DEF ReadHit
<1>4. WorkerOK(w, c)
  BY <1>1, CacheFacts DEF ReadHit, WorkerOK, WorkRecord, Valued, Segment, Locked, Storing
<1> HIDE DEF c
<1> QED
  BY <1>2, <1>3, <1>4, OneWorker

\* Compute.
LEMMA ComputeKeeps ==
  ASSUME CacheInv, NEW w \in Worker, Compute(w), outside' \in 0..MaxOutside
  PROVE  CacheInv'
<1> DEFINE x == work[w]
           c == [at |-> "computed", key |-> x.key, value |-> <<ProjectOf[w], source[ProjectOf[w]]>>,
                 overtaken |-> x.overtaken, edited |-> x.edited, loaded |-> x.loaded]
<1>1. x \in WorkRecord /\ WorkerOK(w, x)
  BY WorkerFacts
<1>2. work' = [work EXCEPT ![w] = c]
  <2>1. work' = [work EXCEPT ![w] = [x EXCEPT !.at = "computed", !.value = <<ProjectOf[w], source[ProjectOf[w]]>>]]
    BY DEF Compute
  <2>2. [x EXCEPT !.at = "computed", !.value = <<ProjectOf[w], source[ProjectOf[w]]>>] = c
    BY <1>1, SetAtAndValue, Zenon
  <2> QED
    BY <2>1, <2>2, Zenon
<1>3. UNCHANGED <<source, entries, blobs, lock, janitor, collector, overlapped, poisoned>>
  BY DEF Compute
<1>4. WorkerOK(w, c)
  <2> DEFINE b == <<ProjectOf[w], source[ProjectOf[w]]>>
  <2>1. b \in Blob /\ b[1] = ProjectOf[w]
    BY CacheFacts DEF Blob, Key
  <2>2. x.at = "miss" /\ x.key \in Content /\ (x.edited \/ b = <<ProjectOf[w], x.key>>)
    BY <1>1 DEF Compute, WorkerOK
  <2>3. c = [at |-> "computed", key |-> x.key, value |-> b,
             overtaken |-> x.overtaken, edited |-> x.edited, loaded |-> x.loaded]
    OBVIOUS
  <2> HIDE DEF b, c
  <2>4. c \in WorkRecord
    BY <1>1, <2>1, <2>3 DEF WorkRecord, Segment
  <2> QED
    BY <1>1, <2>1, <2>2, <2>3, <2>4 DEF WorkerOK, Valued, Locked, Storing
<1> HIDE DEF c
<1> QED
  BY <1>2, <1>3, <1>4, OneWorker

\* ComputeThrows.
LEMMA ComputeThrowsKeeps ==
  ASSUME CacheInv, NEW w \in Worker, ComputeThrows(w), outside' \in 0..MaxOutside
  PROVE  CacheInv'
<1> DEFINE x == work[w]
           c == [at |-> "threw", key |-> x.key, value |-> x.value,
                 overtaken |-> x.overtaken, edited |-> x.edited, loaded |-> x.loaded]
<1>1. x \in WorkRecord /\ WorkerOK(w, x)
  BY WorkerFacts
<1>2. work' = [work EXCEPT ![w] = c]
  <2>1. work' = [work EXCEPT ![w] = [x EXCEPT !.at = "threw"]]
    BY DEF ComputeThrows
  <2>2. [x EXCEPT !.at = "threw"] = c
    BY <1>1, SetAt, Zenon
  <2> QED
    BY <2>1, <2>2, Zenon
<1>3. UNCHANGED <<source, entries, blobs, lock, janitor, collector, overlapped, poisoned>>
  BY DEF ComputeThrows
<1>4. WorkerOK(w, c)
  BY <1>1, CacheFacts DEF ComputeThrows, WorkerOK, WorkRecord, Valued, Segment, Locked, Storing
<1> HIDE DEF c
<1> QED
  BY <1>2, <1>3, <1>4, OneWorker

\* ReadBack.
LEMMA ReadBackKeeps ==
  ASSUME CacheInv, NEW w \in Worker, ReadBack(w), outside' \in 0..MaxOutside
  PROVE  CacheInv'
<1> DEFINE x == work[w]
           at == IF x.value \in blobs THEN "stored" ELSE "threw"
           taken == ~Spared(x.value)
           c == [at |-> at, key |-> x.key, value |-> x.value,
                 overtaken |-> taken, edited |-> x.edited, loaded |-> x.loaded]
<1>1. x \in WorkRecord /\ WorkerOK(w, x) /\ x.at = "put"
  BY WorkerFacts DEF ReadBack
<1>2. work' = [work EXCEPT ![w] = c]
  <2>1. work' = [work EXCEPT ![w] = [x EXCEPT !.at = at, !.overtaken = taken]]
    BY Zenon DEF ReadBack
  <2> HIDE DEF x, at, taken
  <2>2. [x EXCEPT !.at = at, !.overtaken = taken] = c
    BY <1>1, SetAtAndOvertaken, ZenonT(60)
  <2> QED
    BY <2>1, <2>2, Zenon
<1>3. UNCHANGED <<source, entries, blobs, lock, janitor, collector, overlapped, poisoned>>
  BY DEF ReadBack
<1>4. WorkerOK(w, c)
  <2>1. /\ at \in {"stored", "threw"} /\ (at = "stored" => x.value \in blobs)
        /\ taken \in BOOLEAN /\ (taken \/ Spared(x.value))
    BY DEF Spared
  <2>2. /\ x.key \in Content /\ x.value \in Blob /\ x.value[1] = ProjectOf[w]
        /\ x.edited \/ x.value = <<ProjectOf[w], x.key>>
    BY <1>1 DEF WorkerOK, Valued
  <2>3. /\ c.at = at /\ c.key = x.key /\ c.value = x.value /\ c.overtaken = taken
        /\ c.edited = x.edited /\ c.loaded = x.loaded
    OBVIOUS
  <2> HIDE DEF at, taken
  <2>4. c \in WorkRecord
    BY <1>1, <2>1, <2>2 DEF WorkRecord, Segment
  <2> HIDE DEF c
  <2> QED
    BY <2>1, <2>2, <2>3, <2>4 DEF WorkerOK, Valued, Locked, Storing, Safe
<1> HIDE DEF c
<1> QED
  BY <1>2, <1>3, <1>4, OneWorker

\* IndexTimeout.
LEMMA IndexTimeoutKeeps ==
  ASSUME CacheInv, NEW w \in Worker, IndexTimeout(w), outside' \in 0..MaxOutside
  PROVE  CacheInv'
<1> DEFINE x == work[w]
           c == [at |-> "threw", key |-> x.key, value |-> x.value,
                 overtaken |-> x.overtaken, edited |-> x.edited, loaded |-> x.loaded]
<1>1. x \in WorkRecord /\ WorkerOK(w, x)
  BY WorkerFacts
<1>2. work' = [work EXCEPT ![w] = c]
  <2>1. work' = [work EXCEPT ![w] = [x EXCEPT !.at = "threw"]]
    BY DEF IndexTimeout
  <2>2. [x EXCEPT !.at = "threw"] = c
    BY <1>1, SetAt, Zenon
  <2> QED
    BY <2>1, <2>2, Zenon
<1>3. UNCHANGED <<source, entries, blobs, lock, janitor, collector, overlapped, poisoned>>
  BY DEF IndexTimeout
<1>4. WorkerOK(w, c)
  BY <1>1, CacheFacts DEF IndexTimeout, WorkerOK, WorkRecord, Valued, Segment, Locked, Storing
<1> HIDE DEF c
<1> QED
  BY <1>2, <1>3, <1>4, OneWorker

\* LoadIndex.
LEMMA LoadIndexKeeps ==
  ASSUME CacheInv, NEW w \in Worker, LoadIndex(w), outside' \in 0..MaxOutside
  PROVE  CacheInv'
<1> DEFINE x == work[w]
           c == [at |-> "loaded", key |-> x.key, value |-> x.value,
                 overtaken |-> x.overtaken, edited |-> x.edited, loaded |-> entries]
<1>1. x \in WorkRecord /\ WorkerOK(w, x)
  BY WorkerFacts
<1>2. work' = [work EXCEPT ![w] = c]
  <2>1. work' = [work EXCEPT ![w] = [x EXCEPT !.at = "loaded", !.loaded = entries]]
    BY DEF LoadIndex
  <2>2. [x EXCEPT !.at = "loaded", !.loaded = entries] = c
    BY <1>1, SetAtAndLoaded, Zenon
  <2> QED
    BY <2>1, <2>2, Zenon
<1>3. UNCHANGED <<source, entries, blobs, lock, janitor, collector, overlapped, poisoned>>
  BY DEF LoadIndex
<1>4. WorkerOK(w, c)
  BY <1>1, CacheFacts DEF LoadIndex, WorkerOK, WorkRecord, Valued, Segment, Locked, Storing
<1> HIDE DEF c
<1> QED
  BY <1>2, <1>3, <1>4, OneWorker

\* Lookup: a hit takes over the report and what is known of it.
LEMMA LookupKeeps ==
  ASSUME CacheInv, NEW w \in Worker, Lookup(w), outside' \in 0..MaxOutside
  PROVE  CacheInv'
<1> DEFINE x == work[w]
           k == KeyOf(w)
<1>1. x \in WorkRecord /\ WorkerOK(w, x) /\ x.at = "keyed" /\ k = <<ProjectOf[w], x.key>>
  BY WorkerFacts DEF Lookup, KeyOf
<1>2. x.key \in Content /\ k \in Key /\ k[1] = ProjectOf[w]
  BY <1>1, CacheFacts DEF WorkerOK, Key
<1>3. UNCHANGED <<source, entries, blobs, lock, janitor, collector, overlapped, poisoned>>
  BY DEF Lookup
<1>4. CASE entries[k] = NoEntry
  <2> DEFINE c == [at |-> "miss", key |-> x.key, value |-> x.value,
                   overtaken |-> x.overtaken, edited |-> x.edited, loaded |-> x.loaded]
  <2>1. work' = [work EXCEPT ![w] = c]
    <3>1. work' = [work EXCEPT ![w] = [x EXCEPT !.at = "miss"]]
      BY <1>4 DEF Lookup
    <3>2. [x EXCEPT !.at = "miss"] = c
      BY <1>1, SetAt, Zenon
    <3> QED
      BY <3>1, <3>2, Zenon
  <2>2. WorkerOK(w, c)
    BY <1>1 DEF WorkerOK, WorkRecord, Valued, Segment, Locked, Storing
  <2> HIDE DEF c
  <2> QED
    BY <1>3, <2>1, <2>2, OneWorker
<1>5. CASE entries[k] # NoEntry
  <2> DEFINE b == entries[k].artifact
             old == x.edited \/ k \in poisoned
             c == [at |-> "hit", key |-> x.key, value |-> b,
                   overtaken |-> x.overtaken, edited |-> old, loaded |-> x.loaded]
  <2>1. work' = [work EXCEPT ![w] = c]
    <3>1. work' = [work EXCEPT ![w] = [x EXCEPT !.at = "hit", !.value = b, !.edited = old]]
      <4> DEFINE Hit == [work EXCEPT ![w] = [x EXCEPT !.at = "hit", !.value = b, !.edited = old]]
                 Miss == [work EXCEPT ![w].at = "miss"]
      <4>1. work' = IF entries[k] = NoEntry THEN Miss ELSE Hit
        BY Zenon DEF Lookup
      <4> HIDE DEF Hit, Miss, k
      <4>2. work' = Hit
        BY <1>5, <4>1
      <4> QED
        BY <4>2, Zenon DEF Hit
    <3> HIDE DEF x, b, old
    <3>2. [x EXCEPT !.at = "hit", !.value = b, !.edited = old] = c
      BY <1>1, SetAtAndBoth, ZenonT(60)
    <3> QED
      BY <3>1, <3>2, Zenon
  <2>2. b \in Blob /\ b[1] = ProjectOf[w] /\ (b = k \/ k \in poisoned)
    BY <1>2, <1>5, CacheFacts DEF CacheInv, EntryOK
  <2>3. old \in BOOLEAN /\ (old \/ b = <<ProjectOf[w], x.key>>)
    BY <1>1, <2>2
  <2> HIDE DEF b, old
  <2>4. WorkerOK(w, c)
    BY <1>1, <1>2, <2>2, <2>3 DEF WorkerOK, WorkRecord, Valued, Segment, Locked, Storing
  <2> HIDE DEF c
  <2> QED
    BY <1>3, <2>1, <2>4, OneWorker
<1> QED
  BY <1>4, <1>5

\* A process is killed: its record is gone, and whatever it locked stays locked.
LEMMA CrashKeeps ==
  ASSUME CacheInv, NEW w \in Worker, Crash(w)
  PROVE  CacheInv'
<1> DEFINE c == [Idle EXCEPT !.at = "dead"]
<1>1. /\ work' = [work EXCEPT ![w] = c] /\ outside' = outside + 1 /\ outside < MaxOutside
      /\ UNCHANGED <<source, entries, blobs, lock, janitor, collector, overlapped, poisoned>>
  BY DEF Crash
<1>2. outside' \in 0..MaxOutside
  BY <1>1, FilesAssumption DEF CacheInv, CacheTypeOK
<1>3. c.at = "dead" /\ c \in WorkRecord
  BY DEF Idle, WorkRecord, NoLoad, Index
<1> HIDE DEF c
<1>4. WorkerOK(w, c)
  BY <1>3 DEF WorkerOK, Valued, Locked, Storing
<1> QED
  BY <1>1, <1>2, <1>4, OneWorker

-----------------------------------------------------------------------------
(* The steps of a worker on the store and on the index. *)

\* Put: the store only grows.
LEMMA PutKeeps ==
  ASSUME CacheInv, NEW w \in Worker, Put(w), outside' \in 0..MaxOutside
  PROVE  CacheInv'
<1> DEFINE x == work[w]
           b == x.value
           c == [at |-> "put", key |-> x.key, value |-> x.value,
                 overtaken |-> x.overtaken, edited |-> x.edited, loaded |-> x.loaded]
<1>1. /\ work \in [Worker -> WorkRecord] /\ x \in WorkRecord /\ WorkerOK(w, x) /\ x.at = "computed"
      /\ b \in Blob
  BY WorkerFacts DEF Put, WorkerOK, Valued
<1>2. /\ UNCHANGED <<source, entries, lock, janitor, collector, overlapped, poisoned>>
      /\ blobs' = blobs \cup {b}
  BY DEF Put
<1>3. work' = [work EXCEPT ![w] = c]
  <2>1. work' = [work EXCEPT ![w] = [x EXCEPT !.at = "put"]]
    BY DEF Put
  <2>2. [x EXCEPT !.at = "put"] = c
    BY <1>1, SetAt, Zenon
  <2> QED
    BY <2>1, <2>2, Zenon
<1>4. /\ c \in WorkRecord /\ c.value = b /\ c.at = "put" /\ c.key = x.key /\ c.edited = x.edited
  BY <1>1 DEF WorkRecord, Segment
<1> HIDE DEF c
<1>5. work'[w] = c /\ (\A v \in Worker : v # w => work'[v] = work[v]) /\ work' \in [Worker -> WorkRecord]
  BY <1>1, <1>3, <1>4
<1>6. CacheTypeOK'
  BY <1>1, <1>2, <1>5 DEF CacheInv, CacheTypeOK, WorkRecord
<1>7. blobs \subseteq blobs'
  BY <1>2
<1>8. ASSUME NEW v \in Worker PROVE WorkerOK(v, work[v])'
  <2>1. CASE v = w
    <3>1. x.key \in Content /\ b[1] = ProjectOf[w] /\ (x.edited \/ b = <<ProjectOf[w], x.key>>)
      BY <1>1 DEF WorkerOK, Valued
    <3> HIDE DEF x, b
    <3> QED
      BY <1>1, <1>4, <1>5, <2>1, <3>1 DEF WorkerOK, Valued, Storing, Locked
  <2>2. CASE v # w
    <3>1. WorkerOK(v, work[v]) /\ work'[v] = work[v]
      BY <1>5, <2>2, WorkerFacts
    <3> QED
      BY <1>2, <1>7, <3>1 DEF WorkerOK, Safe, Spared
  <2> QED
    BY <2>1, <2>2
<1>9. JanitorOK' /\ (collector.at = "sweeping" => collector.left \subseteq blobs)'
  BY <1>2, <1>7 DEF CacheInv, JanitorOK
<1>10. \A k \in Key : EntryOK(k, entries[k])'
  BY <1>2, <1>7 DEF CacheInv, EntryOK, Safe, Spared
<1> QED
  BY <1>6, <1>8, <1>9, <1>10 DEF CacheInv

\* AcquireIndex: nobody was inside.
LEMMA AcquireIndexKeeps ==
  ASSUME CacheInv, NEW w \in Worker, AcquireIndex(w), outside' \in 0..MaxOutside
  PROVE  CacheInv'
<1> DEFINE x == work[w]
           c == [at |-> "locked", key |-> x.key, value |-> x.value,
                 overtaken |-> x.overtaken, edited |-> x.edited, loaded |-> x.loaded]
<1>1. work \in [Worker -> WorkRecord] /\ x \in WorkRecord /\ WorkerOK(w, x) /\ x.at = "stored"
  BY WorkerFacts DEF AcquireIndex
<1>2. /\ UNCHANGED <<source, entries, blobs, janitor, collector, overlapped, poisoned>>
      /\ lock = NoHolder /\ lock' = w
  BY DEF AcquireIndex
<1>3. work' = [work EXCEPT ![w] = c]
  <2>1. work' = [work EXCEPT ![w] = [x EXCEPT !.at = "locked"]]
    BY DEF AcquireIndex
  <2>2. [x EXCEPT !.at = "locked"] = c
    BY <1>1, SetAt, Zenon
  <2> QED
    BY <2>1, <2>2, Zenon
<1>4. /\ c \in WorkRecord /\ c.at = "locked" /\ c.key = x.key /\ c.value = x.value
      /\ c.overtaken = x.overtaken /\ c.edited = x.edited
  BY <1>1 DEF WorkRecord, Segment, Locked
<1> HIDE DEF c
<1>5. work'[w] = c /\ (\A v \in Worker : v # w => work'[v] = work[v]) /\ work' \in [Worker -> WorkRecord]
  BY <1>1, <1>3, <1>4
<1>6. CacheTypeOK'
  BY <1>2, <1>5 DEF CacheInv, CacheTypeOK, WorkRecord
<1>7. ASSUME NEW v \in Worker PROVE WorkerOK(v, work[v])'
  <2>1. CASE v = w
    BY <1>1, <1>2, <1>4, <1>5, <2>1 DEF WorkerOK, Valued, Storing, Locked, Safe, Spared
  <2>2. CASE v # w
    <3>1. WorkerOK(v, work[v]) /\ work'[v] = work[v]
      BY <1>5, <2>2, WorkerFacts
    <3>2. work[v].at \notin Locked
      BY <1>2, <3>1, HoldersAssumption DEF WorkerOK
    <3> QED
      BY <1>2, <3>1, <3>2 DEF WorkerOK, Safe, Spared, Locked
  <2> QED
    BY <2>1, <2>2
<1>8. JanitorOK'
  <2>1. janitor.at \notin Locked
    BY <1>2, HoldersAssumption DEF CacheInv, JanitorOK
  <2> QED
    BY <1>2, <2>1 DEF JanitorOK, Locked
<1>9. (\A k \in Key : EntryOK(k, entries[k])') /\ (collector.at = "sweeping" => collector.left \subseteq blobs)'
  BY <1>2 DEF CacheInv, EntryOK, Safe, Spared
<1> QED
  BY <1>6, <1>7, <1>8, <1>9 DEF CacheInv

\* SaveIndex: what was loaded is still the index, so one entry is set and none is lost.
LEMMA SaveIndexKeeps ==
  ASSUME CacheInv, NEW w \in Worker, SaveIndex(w), outside' \in 0..MaxOutside
  PROVE  CacheInv'
<1> DEFINE x == work[w]
           k == KeyOf(w)
           e == [artifact |-> x.value, dependencies |-> FilesOf[x.key]]
           c == [x EXCEPT !.at = "saved", !.loaded = NoLoad, !.overtaken = FALSE]
<1>1. /\ work \in [Worker -> WorkRecord] /\ x \in WorkRecord /\ WorkerOK(w, x) /\ x.at = "loaded"
      /\ k = <<ProjectOf[w], x.key>>
  BY WorkerFacts DEF SaveIndex, KeyOf
<1>2. /\ x.key \in Content /\ lock = w /\ x.loaded = entries
      /\ x.value \in Blob /\ x.value[1] = ProjectOf[w]
      /\ x.edited \/ x.value = <<ProjectOf[w], x.key>>
      /\ x.overtaken \/ Safe(x.value)
  BY <1>1 DEF WorkerOK, Valued, Locked, Storing
<1>3. k \in Key /\ k[1] = ProjectOf[w]
  BY <1>1, <1>2, CacheFacts DEF Key
<1>4. UNCHANGED <<source, blobs, lock, janitor, collector>>
  BY DEF SaveIndex
<1>5. /\ entries' = [entries EXCEPT ![k] = e]
      /\ overlapped' = IF x.overtaken THEN overlapped \cup {k} ELSE overlapped \ {k}
      /\ poisoned' = IF x.edited THEN poisoned \cup {k} ELSE poisoned \ {k}
  BY <1>2 DEF SaveIndex
<1>6. work' = [work EXCEPT ![w] = c]
  BY Zenon DEF SaveIndex
<1>7. NoLoad \in Index
  BY DEF NoLoad, Index
<1>8. /\ c \in WorkRecord /\ c.at = "saved" /\ c.key = x.key /\ c.value = x.value
      /\ c.edited = x.edited
  <2>1. x \in WorkRecord
    BY <1>1
  <2> HIDE DEF x
  <2> QED
    BY <1>7, <2>1 DEF WorkRecord, Segment, Locked
<1>9. e \in Entry /\ e.artifact = x.value /\ e # NoEntry
  BY <1>2, FilesAssumption, NothingAssumption DEF Entry
<1> HIDE DEF c, e, k
<1>10. work'[w] = c /\ (\A v \in Worker : v # w => work'[v] = work[v]) /\ work' \in [Worker -> WorkRecord]
  BY <1>1, <1>6, <1>8
<1>11. /\ entries' \in Index /\ entries'[k] = e
       /\ \A j \in Key : j # k => entries'[j] = entries[j]
  BY <1>3, <1>5, <1>9, CacheFacts DEF Index
<1>12. CacheTypeOK'
  <2>1. overlapped' \in SUBSET Key /\ poisoned' \in SUBSET Key
    BY <1>3, <1>5 DEF CacheInv, CacheTypeOK
  <2> QED
    BY <1>4, <1>10, <1>11, <2>1 DEF CacheInv, CacheTypeOK, WorkRecord
<1>13. ASSUME NEW v \in Worker PROVE WorkerOK(v, work[v])'
  <2>1. CASE v = w
    BY <1>1, <1>2, <1>4, <1>8, <1>10, <2>1 DEF WorkerOK, Valued, Storing, Locked, Safe, Spared
  <2>2. CASE v # w
    <3>1. WorkerOK(v, work[v]) /\ work'[v] = work[v]
      BY <1>10, <2>2, WorkerFacts
    <3>2. work[v].at \notin Locked
      BY <1>2, <2>2, <3>1 DEF WorkerOK
    <3> QED
      BY <1>4, <3>1, <3>2 DEF WorkerOK, Safe, Spared, Locked
  <2> QED
    BY <2>1, <2>2
<1>14. JanitorOK'
  <2>1. janitor.at \notin Locked
    BY <1>2, HoldersAssumption DEF CacheInv, JanitorOK
  <2> QED
    BY <1>4, <2>1 DEF JanitorOK, Locked
<1>15. ASSUME NEW j \in Key PROVE EntryOK(j, entries[j])'
  <2>1. CASE j = k
    <3>1. e.artifact[1] = k[1] /\ (e.artifact = k \/ k \in poisoned')
      BY <1>1, <1>2, <1>3, <1>5, <1>9
    <3>2. k \in overlapped' \/ Safe(e.artifact)
      BY <1>2, <1>5, <1>9
    <3> QED
      BY <1>4, <1>11, <2>1, <3>1, <3>2 DEF EntryOK, Safe, Spared
  <2>2. CASE j # k
    <3>1. EntryOK(j, entries[j]) /\ entries'[j] = entries[j]
      BY <1>11, <2>2 DEF CacheInv
    <3>2. (j \in overlapped => j \in overlapped') /\ (j \in poisoned => j \in poisoned')
      BY <1>5, <2>2
    <3> QED
      BY <1>4, <3>1, <3>2 DEF EntryOK, Safe, Spared
  <2> QED
    BY <2>1, <2>2
<1>16. (collector.at = "sweeping" => collector.left \subseteq blobs)'
  BY <1>4 DEF CacheInv
<1> QED
  BY <1>12, <1>13, <1>14, <1>15, <1>16 DEF CacheInv

\* ReleaseIndex: nobody else is inside.
LEMMA ReleaseIndexKeeps ==
  ASSUME CacheInv, NEW w \in Worker, ReleaseIndex(w), outside' \in 0..MaxOutside
  PROVE  CacheInv'
<1> DEFINE x == work[w]
           c == [at |-> "returned", key |-> x.key, value |-> x.value,
                 overtaken |-> x.overtaken, edited |-> x.edited, loaded |-> x.loaded]
<1>1. work \in [Worker -> WorkRecord] /\ x \in WorkRecord /\ WorkerOK(w, x) /\ x.at = "saved" /\ lock = w
  BY WorkerFacts DEF ReleaseIndex, WorkerOK, Locked
<1>2. /\ UNCHANGED <<source, entries, blobs, janitor, collector, overlapped, poisoned>>
      /\ lock' = NoHolder
  BY DEF ReleaseIndex
<1>3. work' = [work EXCEPT ![w] = c]
  <2>1. work' = [work EXCEPT ![w] = [x EXCEPT !.at = "returned"]]
    BY DEF ReleaseIndex
  <2>2. [x EXCEPT !.at = "returned"] = c
    BY <1>1, SetAt, Zenon
  <2> QED
    BY <2>1, <2>2, Zenon
<1>4. /\ c \in WorkRecord /\ c.at = "returned" /\ c.key = x.key /\ c.value = x.value
      /\ c.edited = x.edited
  BY <1>1 DEF WorkRecord
<1> HIDE DEF c
<1>5. work'[w] = c /\ (\A v \in Worker : v # w => work'[v] = work[v]) /\ work' \in [Worker -> WorkRecord]
  BY <1>1, <1>3, <1>4
<1>6. CacheTypeOK'
  BY <1>2, <1>5 DEF CacheInv, CacheTypeOK, WorkRecord
<1>7. ASSUME NEW v \in Worker PROVE WorkerOK(v, work[v])'
  <2>1. CASE v = w
    BY <1>1, <1>2, <1>4, <1>5, <2>1 DEF WorkerOK, Valued, Storing, Locked, Safe, Spared
  <2>2. CASE v # w
    <3>1. WorkerOK(v, work[v]) /\ work'[v] = work[v]
      BY <1>5, <2>2, WorkerFacts
    <3>2. work[v].at \notin Locked
      BY <1>1, <2>2, <3>1 DEF WorkerOK
    <3> QED
      BY <1>2, <3>1, <3>2 DEF WorkerOK, Safe, Spared, Locked
  <2> QED
    BY <2>1, <2>2
<1>8. JanitorOK'
  <2>1. janitor.at \notin Locked
    BY <1>1, HoldersAssumption DEF CacheInv, JanitorOK
  <2> QED
    BY <1>2, <2>1 DEF JanitorOK, Locked
<1>9. (\A k \in Key : EntryOK(k, entries[k])') /\ (collector.at = "sweeping" => collector.left \subseteq blobs)'
  BY <1>2 DEF CacheInv, EntryOK, Safe, Spared
<1> QED
  BY <1>6, <1>7, <1>8, <1>9 DEF CacheInv

\* A worker's part of a step.
WorkerActs(w) ==
  \/ Fingerprint(w) \/ Lookup(w) \/ ReadHit(w) \/ Compute(w) \/ ComputeThrows(w) \/ Put(w)
  \/ ReadBack(w) \/ AcquireIndex(w) \/ IndexTimeout(w) \/ LoadIndex(w) \/ SaveIndex(w) \/ ReleaseIndex(w)

\* Whatever a worker does.
LEMMA WorkerKeeps ==
  ASSUME CacheInv, NEW w \in Worker, WorkerActs(w), outside' \in 0..MaxOutside
  PROVE  CacheInv'
BY FingerprintKeeps, LookupKeeps, ReadHitKeeps, ComputeKeeps, ComputeThrowsKeeps, PutKeeps, ReadBackKeeps,
   AcquireIndexKeeps, IndexTimeoutKeeps, LoadIndexKeeps, SaveIndexKeeps, ReleaseIndexKeeps DEF WorkerActs

-----------------------------------------------------------------------------
(* The caller of invalidateDependencies or remove, and who removes a stale lock. *)

JanitorRecord == [at : {"idle", "waiting"} \cup Locked, paths : SUBSET Path, keys : SUBSET Key, loaded : Index]

\* A step that changes the janitor's record and the lock at most.
LEMMA OnlyLock ==
  ASSUME CacheInv, UNCHANGED <<source, entries, blobs, work, collector, overlapped, poisoned>>,
         \A v \in Worker : work[v].at \in Locked => lock' = v,
         janitor' \in JanitorRecord, JanitorOK',
         lock' \in Worker \cup {Janitor, NoHolder}, outside' \in 0..MaxOutside
  PROVE  CacheInv'
<1>1. CacheTypeOK'
  BY DEF CacheInv, CacheTypeOK, JanitorRecord
<1>2. ASSUME NEW v \in Worker PROVE WorkerOK(v, work[v])'
  <2>1. WorkerOK(v, work[v])
    BY WorkerFacts
  <2> QED
    BY <2>1 DEF WorkerOK, Safe, Spared
<1>3. (\A k \in Key : EntryOK(k, entries[k])') /\ (collector.at = "sweeping" => collector.left \subseteq blobs)'
  BY DEF CacheInv, EntryOK, Safe, Spared
<1> QED
  BY <1>1, <1>2, <1>3 DEF CacheInv

\* What the steps below read.
LEMMA LockFacts ==
  ASSUME CacheInv
  PROVE  /\ janitor \in JanitorRecord /\ entries \in Index /\ NoLoad \in Index
         /\ lock \in Worker \cup {Janitor, NoHolder} /\ outside \in 0..MaxOutside
         /\ \A v \in Worker : work[v].at \in Locked => lock = v
         /\ Janitor \notin Worker /\ NoHolder \notin Worker /\ NoHolder # Janitor
<1>1. NoLoad \in Index
  BY DEF NoLoad, Index
<1>2. \A v \in Worker : work[v].at \in Locked => lock = v
  BY DEF CacheInv, WorkerOK
<1> QED
  BY <1>1, <1>2, HoldersAssumption DEF CacheInv, CacheTypeOK, JanitorRecord

\* The janitor's steps but the save.
LEMMA JanitorKeeps ==
  ASSUME CacheInv,
         \/ \E paths \in SUBSET Path, keys \in SUBSET Key : StartDrop(paths, keys)
         \/ DropAcquires \/ DropTimesOut \/ DropLoads \/ DropReleases
  PROVE  CacheInv'
<1>0. /\ janitor \in JanitorRecord /\ entries \in Index /\ NoLoad \in Index
      /\ lock \in Worker \cup {Janitor, NoHolder} /\ outside \in 0..MaxOutside
      /\ \A v \in Worker : work[v].at \in Locked => lock = v
      /\ Janitor \notin Worker /\ NoHolder \notin Worker /\ NoHolder # Janitor
  BY LockFacts
<1>1. JanitorOK
  BY DEF CacheInv
<1>2. ASSUME NEW paths \in SUBSET Path, NEW keys \in SUBSET Key, StartDrop(paths, keys) PROVE CacheInv'
  <2>1. janitor' = [at |-> "waiting", paths |-> paths, keys |-> keys, loaded |-> NoLoad]
    BY <1>2 DEF StartDrop
  <2>2. janitor' \in JanitorRecord /\ JanitorOK'
    BY <1>0, <2>1 DEF JanitorRecord, JanitorOK, Locked
  <2>3. outside' \in 0..MaxOutside /\ lock' = lock
    BY <1>0, <1>2, FilesAssumption DEF StartDrop
  <2> QED
    BY <1>0, <1>2, <2>2, <2>3, OnlyLock DEF StartDrop
<1>3. CASE DropAcquires
  <2>1. /\ janitor' = [janitor EXCEPT !.at = "locked"] /\ lock = NoHolder /\ lock' = Janitor
        /\ outside' = outside
    BY <1>3 DEF DropAcquires
  <2>2. janitor' \in JanitorRecord /\ JanitorOK'
    BY <1>0, <2>1 DEF JanitorRecord, JanitorOK, Locked
  <2>3. \A v \in Worker : work[v].at \in Locked => lock' = v
    BY <1>0, <2>1
  <2> QED
    BY <1>0, <1>3, <2>1, <2>2, <2>3, OnlyLock DEF DropAcquires
<1>4. CASE DropTimesOut
  <2>1. /\ janitor' = AtRest /\ lock' = lock
        /\ outside' = outside
    BY <1>4 DEF DropTimesOut
  <2>2. janitor' \in JanitorRecord /\ JanitorOK'
    BY <1>0, <2>1 DEF AtRest, JanitorRecord, JanitorOK, Locked
  <2> QED
    BY <1>0, <1>4, <2>1, <2>2, OnlyLock DEF DropTimesOut
<1>5. CASE DropLoads
  <2>1. /\ janitor' = [janitor EXCEPT !.at = "loaded", !.loaded = entries] /\ lock' = lock
        /\ outside' = outside /\ entries' = entries /\ janitor.at = "locked"
    BY <1>5 DEF DropLoads
  <2>2. janitor' \in JanitorRecord /\ JanitorOK'
    BY <1>0, <1>1, <2>1 DEF JanitorRecord, JanitorOK, Locked
  <2> QED
    BY <1>0, <1>5, <2>1, <2>2, OnlyLock DEF DropLoads
<1>6. CASE DropReleases
  <2>1. /\ janitor' = AtRest /\ lock' = NoHolder
        /\ outside' = outside /\ janitor.at = "saved"
    BY <1>6 DEF DropReleases
  <2>2. janitor' \in JanitorRecord /\ JanitorOK'
    BY <1>0, <2>1 DEF AtRest, JanitorRecord, JanitorOK, Locked
  <2>3. lock = Janitor
    BY <1>1, <2>1 DEF JanitorOK, Locked
  <2>4. \A v \in Worker : work[v].at \in Locked => lock' = v
    BY <1>0, <2>3
  <2> QED
    BY <1>0, <1>6, <2>1, <2>2, <2>4, OnlyLock DEF DropReleases
<1> QED
  BY <1>2, <1>3, <1>4, <1>5, <1>6

\* A person removes the lock of a dead worker: nobody is inside.
LEMMA RemovalKeeps ==
  ASSUME CacheInv, RemoveStaleLock
  PROVE  CacheInv'
<1>1. /\ lock \in Worker /\ work[lock].at = "dead" /\ lock' = NoHolder
      /\ UNCHANGED <<source, entries, blobs, work, janitor, collector, outside, overlapped, poisoned>>
  BY DEF RemoveStaleLock
<1>2. \A v \in Worker : work[v].at \in Locked => lock' = v
  BY <1>1, LockFacts DEF Locked
<1>3. JanitorOK'
  <2>1. janitor.at \notin Locked
    BY <1>1, LockFacts DEF CacheInv, JanitorOK
  <2> QED
    BY <1>1, <2>1 DEF JanitorOK, Locked
<1> QED
  BY <1>1, <1>2, <1>3, LockFacts, OnlyLock

\* What an invalidation or a removal saves: the index as it is, without the entries it drops.
LEMMA Invalidated ==
  ASSUME CacheInv, DropSaves
  PROVE  /\ lock = Janitor /\ entries' \in Index
         /\ \A k \in Key : \/ entries'[k] = entries[k] /\ k \notin Dropped(entries, janitor.paths, janitor.keys)
                           \/ entries'[k] = NoEntry /\ k \in Dropped(entries, janitor.paths, janitor.keys)
         /\ overlapped' = overlapped \ Dropped(entries, janitor.paths, janitor.keys)
         /\ poisoned' = poisoned \ Dropped(entries, janitor.paths, janitor.keys)
<1>1. lock = Janitor /\ janitor.loaded = entries
  BY DEF DropSaves, CacheInv, JanitorOK, Locked
<1> DEFINE gone == Dropped(entries, janitor.paths, janitor.keys)
<1>2. /\ entries' = IF gone = {} THEN entries ELSE [k \in Key |-> IF k \in gone THEN NoEntry ELSE entries[k]]
      /\ overlapped' = overlapped \ gone /\ poisoned' = poisoned \ gone
  BY <1>1 DEF DropSaves
<1> HIDE DEF gone
<1>3. entries' \in Index
  BY <1>2, LockFacts DEF Index
<1>4. \A k \in Key : \/ entries'[k] = entries[k] /\ k \notin gone
                     \/ entries'[k] = NoEntry /\ k \in gone
  BY <1>2
<1> QED
  BY <1>1, <1>2, <1>3, <1>4 DEF gone

\* The save.
LEMMA DropSavesKeeps ==
  ASSUME CacheInv, DropSaves
  PROVE  CacheInv'
<1> DEFINE gone == Dropped(entries, janitor.paths, janitor.keys)
<1>1. /\ lock = Janitor /\ entries' \in Index
      /\ \A k \in Key : \/ entries'[k] = entries[k] /\ k \notin gone
                        \/ entries'[k] = NoEntry /\ k \in gone
      /\ overlapped' = overlapped \ gone /\ poisoned' = poisoned \ gone
  BY Invalidated
<1> HIDE DEF gone
<1>2. /\ UNCHANGED <<source, blobs, lock, work, collector, outside>>
      /\ janitor' = [janitor EXCEPT !.at = "saved", !.loaded = NoLoad]
  BY DEF DropSaves
<1>3. \A v \in Worker : work[v].at \notin Locked
  BY <1>1, LockFacts
<1>4. CacheTypeOK'
  <2>1. janitor' \in JanitorRecord
    BY <1>2, LockFacts DEF JanitorRecord, Locked
  <2>2. overlapped' \in SUBSET Key /\ poisoned' \in SUBSET Key
    BY <1>1 DEF CacheInv, CacheTypeOK
  <2> QED
    BY <1>1, <1>2, <2>1, <2>2 DEF CacheInv, CacheTypeOK, JanitorRecord
<1>5. ASSUME NEW v \in Worker PROVE WorkerOK(v, work[v])'
  <2>1. WorkerOK(v, work[v]) /\ work[v].at # "loaded"
    BY <1>3, WorkerFacts DEF Locked
  <2> QED
    BY <1>2, <2>1 DEF WorkerOK, Safe, Spared
<1>6. JanitorOK'
  BY <1>1, <1>2 DEF JanitorOK
<1>7. ASSUME NEW k \in Key PROVE EntryOK(k, entries[k])'
  <2>1. EntryOK(k, entries[k])
    BY DEF CacheInv
  <2> QED
    BY <1>1, <1>2, <2>1 DEF EntryOK, Safe, Spared
<1>8. (collector.at = "sweeping" => collector.left \subseteq blobs)'
  BY <1>2 DEF CacheInv
<1> QED
  BY <1>4, <1>5, <1>6, <1>7, <1>8 DEF CacheInv

-----------------------------------------------------------------------------
(* The collector and the editor. *)

CollectorRecord == [at : {"idle", "marked", "sweeping"}, marked : SUBSET Blob, left : SUBSET Blob]

\* A step of the collector: what it may take is still spared.
LEMMA OnlyCollector ==
  ASSUME CacheInv, UNCHANGED <<source, entries, lock, janitor, overlapped, poisoned>>,
         outside' \in 0..MaxOutside, blobs' \in SUBSET Blob,
         work' \in [Worker -> WorkRecord],
         \A v \in Worker : /\ work'[v].at = work[v].at /\ work'[v].key = work[v].key
                           /\ work'[v].value = work[v].value /\ work'[v].edited = work[v].edited
                           /\ work'[v].loaded = work[v].loaded,
         collector' \in CollectorRecord,
         collector'.at = "sweeping" => collector'.left \subseteq blobs',
         \A k \in Key : entries[k] # NoEntry => k \in overlapped \/ Safe(entries[k].artifact)',
         \A v \in Worker : work[v].at \in Storing => work'[v].overtaken \/ Safe(work[v].value)'
  PROVE  CacheInv'
<1>1. CacheTypeOK'
  BY DEF CacheInv, CacheTypeOK, CollectorRecord, WorkRecord
<1>2. ASSUME NEW v \in Worker PROVE WorkerOK(v, work[v])'
  <2>1. WorkerOK(v, work[v])
    BY WorkerFacts
  <2> QED
    BY <2>1 DEF WorkerOK
<1>3. ASSUME NEW k \in Key PROVE EntryOK(k, entries[k])'
  <2>1. EntryOK(k, entries[k])
    BY DEF CacheInv
  <2> QED
    BY <2>1 DEF EntryOK
<1>4. JanitorOK'
  BY DEF CacheInv, JanitorOK
<1> QED
  BY <1>1, <1>2, <1>3, <1>4 DEF CacheInv

\* Every step of the collector.
LEMMA CollectorKeeps ==
  ASSUME CacheInv, CollectorStep
  PROVE  CacheInv'
<1>0. /\ blobs \in SUBSET Blob /\ work \in [Worker -> WorkRecord] /\ collector \in CollectorRecord
      /\ outside \in 0..MaxOutside
      /\ collector.at = "sweeping" => collector.left \subseteq blobs
  BY DEF CacheInv, CacheTypeOK, CollectorRecord, WorkRecord
<1>1. \A k \in Key : entries[k] # NoEntry => k \in overlapped \/ Safe(entries[k].artifact)
  BY DEF CacheInv, EntryOK
<1>2. \A v \in Worker : work[v].at \in Storing => /\ work[v].overtaken \/ Safe(work[v].value)
                                                 /\ work[v].value \in Blob
  BY DEF CacheInv, WorkerOK, Storing, Valued, Locked
<1>3. CASE ListReachable
  <2> DEFINE named == {entries[k].artifact : k \in {j \in Key : entries[j] # NoEntry}}
             late(v) == work[v].at \in Storing /\ work[v].value \notin named
  <2>1. /\ collector' = [at |-> "marked", left |-> {}, marked |-> named]
        /\ work' = [v \in Worker |-> IF late(v) THEN [work[v] EXCEPT !.overtaken = TRUE] ELSE work[v]]
        /\ outside' = outside + 1 /\ outside < MaxOutside
        /\ UNCHANGED <<source, entries, blobs, lock, janitor, overlapped, poisoned>>
    BY <1>3 DEF ListReachable
  <2>2. /\ named \in SUBSET Blob
        /\ \A k \in Key : entries[k] # NoEntry => entries[k].artifact \in named
        /\ \A v \in Worker : work[v].at \in Storing => late(v) \/ work[v].value \in named
    BY CacheFacts
  <2> HIDE DEF named, late
  <2>3. collector' \in CollectorRecord /\ outside' \in 0..MaxOutside
    BY <1>0, <2>1, <2>2, FilesAssumption DEF CollectorRecord
  <2>4. ASSUME NEW v \in Worker
        PROVE  /\ work'[v] \in WorkRecord /\ work'[v].at = work[v].at /\ work'[v].key = work[v].key
               /\ work'[v].value = work[v].value /\ work'[v].edited = work[v].edited
               /\ work'[v].loaded = work[v].loaded
               /\ work[v].overtaken => work'[v].overtaken
               /\ late(v) => work'[v].overtaken
    <3>1. work[v] \in WorkRecord
      BY <1>0
    <3>2. CASE late(v)
      <4>1. work'[v] = [work[v] EXCEPT !.overtaken = TRUE]
        BY <2>1, <3>2
      <4> QED
        BY <3>1, <4>1 DEF WorkRecord
    <3>3. CASE ~late(v)
      <4>1. work'[v] = work[v]
        BY <2>1, <3>3
      <4> QED
        BY <3>1, <3>3, <4>1
    <3> QED
      BY <3>2, <3>3
  <2>5. work' \in [Worker -> WorkRecord]
    BY <2>1, <2>4
  <2>6. \A k \in Key : entries[k] # NoEntry => k \in overlapped \/ Safe(entries[k].artifact)'
    BY <1>1, <2>1, <2>2 DEF Safe, Spared
  <2>7. \A v \in Worker : work[v].at \in Storing => work'[v].overtaken \/ Safe(work[v].value)'
    BY <1>2, <2>1, <2>2, <2>4 DEF Safe, Spared
  <2> QED
    BY <1>0, <2>1, <2>3, <2>4, <2>5, <2>6, <2>7, OnlyCollector
<1>4. CASE ListCandidates
  <2>1. PICK chosen \in SUBSET (blobs \ collector.marked) :
           collector' = [at |-> "sweeping", marked |-> {}, left |-> chosen]
    BY <1>4 DEF ListCandidates
  <2>2. /\ collector.at = "marked"
        /\ UNCHANGED <<source, entries, blobs, lock, work, janitor, outside, overlapped, poisoned>>
    BY <1>4 DEF ListCandidates
  <2>3. collector' \in CollectorRecord /\ chosen \subseteq blobs
    BY <1>0, <2>1 DEF CollectorRecord
  <2>4. \A k \in Key : entries[k] # NoEntry => k \in overlapped \/ Safe(entries[k].artifact)'
    BY <1>1, <2>1, <2>2 DEF Safe, Spared
  <2>5. \A v \in Worker : work[v].at \in Storing => work[v].overtaken \/ Safe(work[v].value)'
    BY <1>2, <2>1, <2>2 DEF Safe, Spared
  <2> QED
    BY <1>0, <2>1, <2>2, <2>3, <2>4, <2>5, OnlyCollector
<1>5. CASE DeleteBlob
  <2>1. PICK b \in collector.left : blobs' = blobs \ {b} /\ collector' = [collector EXCEPT !.left = @ \ {b}]
    BY <1>5 DEF DeleteBlob
  <2>2. /\ collector.at = "sweeping"
        /\ UNCHANGED <<source, entries, lock, work, janitor, outside, overlapped, poisoned>>
    BY <1>5 DEF DeleteBlob
  <2>3. /\ collector' \in CollectorRecord /\ collector'.at = "sweeping"
        /\ collector'.left = collector.left \ {b} /\ collector'.left \subseteq blobs'
    BY <1>0, <2>1, <2>2 DEF CollectorRecord
  <2>4. \A k \in Key : entries[k] # NoEntry => k \in overlapped \/ Safe(entries[k].artifact)'
    BY <1>1, <2>1, <2>2, <2>3 DEF Safe, Spared
  <2>5. \A v \in Worker : work[v].at \in Storing => work[v].overtaken \/ Safe(work[v].value)'
    BY <1>2, <2>1, <2>2, <2>3 DEF Safe, Spared
  <2>6. blobs' \in SUBSET Blob
    BY <1>0, <2>1
  <2> QED
    BY <1>0, <2>2, <2>3, <2>4, <2>5, <2>6, OnlyCollector
<1>6. CASE CollectionEnds
  <2>1. /\ collector' = [collector EXCEPT !.at = "idle"]
        /\ UNCHANGED <<source, entries, blobs, lock, work, janitor, outside, overlapped, poisoned>>
    BY <1>6 DEF CollectionEnds
  <2>2. collector' \in CollectorRecord /\ collector'.at = "idle"
    BY <1>0, <2>1 DEF CollectorRecord
  <2>3. \A k \in Key : entries[k] # NoEntry => k \in overlapped \/ Safe(entries[k].artifact)'
    BY <1>1, <2>1, <2>2 DEF Safe, Spared
  <2>4. \A v \in Worker : work[v].at \in Storing => work[v].overtaken \/ Safe(work[v].value)'
    BY <1>2, <2>1, <2>2 DEF Safe, Spared
  <2> QED
    BY <1>0, <2>1, <2>2, <2>3, <2>4, OnlyCollector
<1> QED
  BY <1>3, <1>4, <1>5, <1>6 DEF CollectorStep

\* An edit is remembered of every worker between its fingerprint and its scan.
LEMMA EditKeeps ==
  ASSUME CacheInv, NEW p \in Project, NEW c \in Content, Edit(p, c)
  PROVE  CacheInv'
<1>1. /\ work \in [Worker -> WorkRecord] /\ source \in [Project -> Content] /\ outside \in 0..MaxOutside
  BY DEF CacheInv, CacheTypeOK, WorkRecord
<1> DEFINE seen(v) == ProjectOf[v] = p /\ work[v].at \in {"keyed", "miss"}
<1>2. /\ source' = [source EXCEPT ![p] = c] /\ outside' = outside + 1 /\ outside < MaxOutside
      /\ work' = [v \in Worker |-> IF seen(v) THEN [work[v] EXCEPT !.edited = TRUE] ELSE work[v]]
      /\ UNCHANGED <<entries, blobs, lock, janitor, collector, overlapped, poisoned>>
  BY DEF Edit
<1> HIDE DEF seen
<1>3. ASSUME NEW v \in Worker
      PROVE  /\ work'[v] \in WorkRecord /\ work'[v].at = work[v].at /\ work'[v].key = work[v].key
             /\ work'[v].value = work[v].value /\ work'[v].overtaken = work[v].overtaken
             /\ work'[v].loaded = work[v].loaded
             /\ work[v].edited => work'[v].edited
             /\ seen(v) => work'[v].edited
  <2>1. work[v] \in WorkRecord
    BY <1>1
  <2>2. CASE seen(v)
    <3>1. work'[v] = [work[v] EXCEPT !.edited = TRUE]
      BY <1>2, <2>2
    <3> QED
      BY <2>1, <3>1 DEF WorkRecord
  <2>3. CASE ~seen(v)
    <3>1. work'[v] = work[v]
      BY <1>2, <2>3
    <3> QED
      BY <2>1, <2>3, <3>1
  <2> QED
    BY <2>2, <2>3
<1>4. source' \in [Project -> Content] /\ \A q \in Project : q # p => source'[q] = source[q]
  BY <1>1, <1>2
<1>5. CacheTypeOK'
  <2>1. work' \in [Worker -> WorkRecord]
    BY <1>2, <1>3
  <2>2. outside' \in 0..MaxOutside
    BY <1>1, <1>2, FilesAssumption
  <2> QED
    BY <1>2, <1>4, <2>1, <2>2 DEF CacheInv, CacheTypeOK, WorkRecord
<1>6. ASSUME NEW v \in Worker PROVE WorkerOK(v, work[v])'
  <2>1. WorkerOK(v, work[v]) /\ ProjectOf[v] \in Project
    BY WorkerFacts, CacheFacts
  <2>2. work[v].at \in {"keyed", "miss"} => work'[v].edited \/ source'[ProjectOf[v]] = work[v].key
    <3>1. CASE ProjectOf[v] = p
      BY <1>3, <3>1 DEF seen
    <3>2. CASE ProjectOf[v] # p
      BY <1>3, <1>4, <2>1, <3>2 DEF WorkerOK
    <3> QED
      BY <3>1, <3>2
  <2> QED
    BY <1>2, <1>3, <2>1, <2>2 DEF WorkerOK, Safe, Spared
<1>7. JanitorOK' /\ (\A k \in Key : EntryOK(k, entries[k])')
      /\ (collector.at = "sweeping" => collector.left \subseteq blobs)'
  BY <1>2 DEF CacheInv, JanitorOK, EntryOK, Safe, Spared
<1> QED
  BY <1>5, <1>6, <1>7 DEF CacheInv

-----------------------------------------------------------------------------
(* The run. *)

\* What the steps of a run do to the cache.
LEMMA RunSteps ==
  ASSUME Next
  PROVE  \/ UNCHANGED cacheVars
         \/ \E w \in Worker : WorkerActs(w) /\ (outside' = outside \/ (outside' = outside + 1 /\ outside < MaxOutside))
         \/ \E w \in Worker : Crash(w)
         \/ JanitorStep \/ CollectorStep \/ CacheEnvironment
<1>1. CASE Schedule
  BY <1>1 DEF Schedule
<1>2. ASSUME NEW t \in Task, Scan(t)
      PROVE  t \in Worker /\ WorkerActs(t) /\ outside' = outside
  <2>1. t \in Worker
    BY WorkersAssumption
  <2>2. CASE Fingerprint(t) /\ UNCHANGED outside
    BY <2>1, <2>2 DEF WorkerActs
  <2>3. CASE Lookup(t) \/ ReadHit(t) \/ Compute(t) \/ ComputeThrows(t)
    BY <2>1, <2>3 DEF WorkerActs, Lookup, ReadHit, Compute, ComputeThrows
  <2>4. CASE Put(t) \/ ReadBack(t) \/ AcquireIndex(t) \/ IndexTimeout(t)
    BY <2>1, <2>4 DEF WorkerActs, Put, ReadBack, AcquireIndex, IndexTimeout
  <2>5. CASE LoadIndex(t) \/ SaveIndex(t) \/ ReleaseIndex(t)
    BY <2>1, <2>5 DEF WorkerActs, LoadIndex, SaveIndex, ReleaseIndex
  <2> QED
    BY <1>2, <2>2, <2>3, <2>4, <2>5 DEF Scan
<1>3. ASSUME NEW t \in Task, Settle(t) PROVE UNCHANGED cacheVars
  BY <1>3 DEF Settle
<1>4. ASSUME NEW w \in Others, WorkerStep(w)
      PROVE  /\ w \in Worker /\ WorkerActs(w)
             /\ outside' = outside \/ (outside' = outside + 1 /\ outside < MaxOutside)
  <2>1. w \in Worker
    BY DEF Others
  <2>2. CASE StartScan(w)
    BY <2>1, <2>2 DEF WorkerActs, StartScan
  <2>3. CASE Lookup(w) \/ ReadHit(w) \/ Compute(w) \/ ComputeThrows(w)
    BY <2>1, <2>3 DEF WorkerActs, Lookup, ReadHit, Compute, ComputeThrows
  <2>4. CASE Put(w) \/ ReadBack(w) \/ AcquireIndex(w) \/ IndexTimeout(w)
    BY <2>1, <2>4 DEF WorkerActs, Put, ReadBack, AcquireIndex, IndexTimeout
  <2>5. CASE LoadIndex(w) \/ SaveIndex(w) \/ ReleaseIndex(w)
    BY <2>1, <2>5 DEF WorkerActs, LoadIndex, SaveIndex, ReleaseIndex
  <2> QED
    BY <1>4, <2>2, <2>3, <2>4, <2>5 DEF WorkerStep
<1>5. ASSUME NEW w \in Others, Crash(w) PROVE w \in Worker /\ Crash(w)
  BY <1>5 DEF Others
<1>6. CASE ProcessStep
  BY <1>1, <1>2, <1>3, <1>6 DEF ProcessStep
<1>7. CASE Outside
  BY <1>4, <1>5, <1>7 DEF Outside
<1> QED
  BY <1>6, <1>7 DEF Next

\* Every step of a run is one of the scheduler or none.
LEMMA SchedulerSteps ==
  ASSUME [Next]_runVars
  PROVE  [SchedulerNext]_schedulerVars
<1>1. CASE Schedule
  BY <1>1 DEF Schedule, SchedulerNext
<1>2. ASSUME NEW t \in Task, Scan(t) PROVE UNCHANGED schedulerVars
  BY <1>2 DEF Scan
<1>3. ASSUME NEW t \in Task, Settle(t) PROVE SchedulerNext
  BY <1>3 DEF Settle, SchedulerNext
<1>4. CASE Outside
  BY <1>4 DEF Outside
<1>5. CASE UNCHANGED runVars
  BY <1>5 DEF runVars
<1> QED
  BY <1>1, <1>2, <1>3, <1>4, <1>5 DEF Next, ProcessStep

\* The invariant of the cache holds at first.
LEMMA CacheInitially ==
  ASSUME CacheInit
  PROVE  CacheInv
<1>1. /\ entries = NoLoad /\ lock = NoHolder /\ work = [w \in Worker |-> Idle]
      /\ janitor = AtRest
      /\ collector = [at |-> "idle", marked |-> {}, left |-> {}]
      /\ source \in [Project -> Content] /\ blobs \in SUBSET Blob /\ outside = 0
      /\ overlapped = {} /\ poisoned = {}
  BY StartAssumption DEF CacheInit
<1>2. NoLoad \in Index
  BY DEF NoLoad, Index
<1>3. Idle \in WorkRecord /\ Idle.at = "idle"
  BY <1>2 DEF Idle, WorkRecord
<1>4. work \in [Worker -> WorkRecord] /\ \A w \in Worker : work[w] = Idle
  BY <1>1, <1>3
<1>5. CacheTypeOK
  <2>1. outside \in 0..MaxOutside
    BY <1>1, FilesAssumption
  <2> QED
    BY <1>1, <1>2, <1>4, <2>1 DEF CacheTypeOK, WorkRecord, AtRest
<1>6. \A w \in Worker : WorkerOK(w, work[w])
  BY <1>3, <1>4 DEF WorkerOK, Valued, Locked, Storing
<1>7. JanitorOK /\ \A k \in Key : EntryOK(k, entries[k])
  BY <1>1 DEF JanitorOK, Locked, EntryOK, NoLoad, AtRest
<1> QED
  BY <1>1, <1>5, <1>6, <1>7 DEF CacheInv

\* And is kept by every step of a run.
LEMMA CacheKept ==
  ASSUME CacheInv, [Next]_runVars
  PROVE  CacheInv'
<1>1. CASE UNCHANGED cacheVars
  BY <1>1 DEF cacheVars, CacheInv, CacheTypeOK, WorkerOK, JanitorOK, EntryOK, Safe, Spared, KeyOf
<1>2. ASSUME NEW w \in Worker, WorkerActs(w),
             outside' = outside \/ (outside' = outside + 1 /\ outside < MaxOutside)
      PROVE  CacheInv'
  <2>1. outside' \in 0..MaxOutside
    BY <1>2, LockFacts, FilesAssumption
  <2> QED
    BY <1>2, <2>1, WorkerKeeps
<1>3. ASSUME NEW w \in Worker, Crash(w) PROVE CacheInv'
  BY <1>3, CrashKeeps
<1>4. CASE JanitorStep
  <2>1. \A paths \in ChangeSets : StartInvalidation(paths) => CacheInv'
    BY JanitorKeeps, StartAssumption DEF StartInvalidation
  <2>2. \A k \in Removals : StartRemoval(k) => CacheInv'
    BY JanitorKeeps, StartAssumption DEF StartRemoval
  <2> QED
    BY <1>4, <2>1, <2>2, JanitorKeeps, DropSavesKeeps DEF JanitorStep
<1>5. CASE CollectorStep
  BY <1>5, CollectorKeeps
<1>6. CASE CacheEnvironment
  BY <1>6, EditKeeps, RemovalKeeps DEF CacheEnvironment
<1>7. CASE UNCHANGED runVars
  BY <1>1, <1>7 DEF runVars
<1> QED
  BY <1>1, <1>2, <1>3, <1>4, <1>5, <1>6, <1>7, RunSteps

\* A run of cached scans is a behaviour of the scheduler.
THEOREM RunImplementsScheduler == Spec => SchedulerSpec
<1>1. Init => SchedulerInit
  BY DEF Init
<1>2. [Next]_runVars => [SchedulerNext]_schedulerVars
  BY SchedulerSteps
<1> QED
  BY <1>1, <1>2, PTL DEF Spec, SchedulerSpec

\* So whatever the cache, the other processes and the crashes do, the loop of a run takes a bounded number
\* of steps and never waits for nothing: RunEnds comes down to that workers and promises go on.
THEOREM RunIsBounded == Spec => [][StepsToCome' < StepsToCome]_schedulerVars /\ []RacesPromises
<1> QED
  BY RunImplementsScheduler, CallIsBounded, RacesPromisesCorrect, PTL

\* The invariants of the scheduler and of the cache are those of a run.
THEOREM RunInductive == Spec => [](SInv /\ CacheInv)
<1>1. Init => CacheInv
  BY CacheInitially DEF Init
<1>2. CacheInv /\ [Next]_runVars => CacheInv'
  BY CacheKept
<1> QED
  BY <1>1, <1>2, RunImplementsScheduler, SchedulerInductive, PTL DEF Spec

\* Every variable of a run has its type.
THEOREM TypeCorrect == Spec => []TypeOK
<1>1. SInv /\ CacheInv => TypeOK
  BY DEF SInv, CacheInv, TypeOK
<1> QED
  BY <1>1, RunInductive, PTL

\* Every entry and every report a caller gets was made of the project's own files as fingerprinted,
\* but for an edit between a fingerprint and the scan after it.
THEOREM ReportsMatchKeysCorrect == Spec => []ReportsMatchKeys
<1>1. ASSUME CacheInv PROVE ReportsMatchKeys
  <2>1. ASSUME NEW k \in Key, entries[k] # NoEntry
        PROVE  entries[k].artifact[1] = k[1] /\ (entries[k].artifact # k => k \in poisoned)
    BY <1>1, <2>1 DEF CacheInv, EntryOK
  <2>2. ASSUME NEW w \in Worker, work[w].at = "returned"
        PROVE  work[w].value[1] = ProjectOf[w] /\ (work[w].value # KeyOf(w) => work[w].edited)
    BY <1>1, <2>2 DEF CacheInv, WorkerOK, Valued, KeyOf
  <2> QED
    BY <2>1, <2>2 DEF ReportsMatchKeys
<1> QED
  BY <1>1, RunInductive, PTL

\* A collection without a lock never takes a blob that some entry names, unless the blob of that entry
\* was stored, but not yet listed, when the collection listed the index.
THEOREM ListedBlobsSurviveCorrect == Spec => []ListedBlobsSurvive
<1>1. CacheInv => ListedBlobsSurvive
  BY DEF CacheInv, EntryOK, Safe, Spared, ListedBlobsSurvive
<1> QED
  BY <1>1, RunInductive, PTL

\* The steps that change the index change it as promised.
LEMMA IndexSteps ==
  ASSUME CacheInv, Next, NEW k \in Key
  PROVE  /\ entries[k] # NoEntry /\ entries'[k] = NoEntry => k \in Dropped(entries, janitor.paths, janitor.keys)
         /\ entries[k] # entries'[k] /\ entries'[k] # NoEntry =>
              \E w \in Worker : /\ lock = w /\ work[w].at = "loaded"
                                /\ KeyOf(w) = k /\ entries'[k].artifact = work[w].value
<1>1. CASE entries' = entries
  BY <1>1
<1>2. CASE DropSaves
  BY <1>2, Invalidated
<1>3. ASSUME NEW w \in Worker, SaveIndex(w)
      PROVE  /\ entries[k] # NoEntry => entries'[k] # NoEntry
             /\ entries[k] # entries'[k] =>
                  /\ lock = w /\ work[w].at = "loaded" /\ KeyOf(w) = k
                  /\ entries'[k].artifact = work[w].value
  <2> DEFINE e == [artifact |-> work[w].value, dependencies |-> FilesOf[work[w].key]]
  <2>1. /\ work[w].at = "loaded" /\ lock = w /\ work[w].loaded = entries
        /\ work[w].key \in Content /\ work[w].value \in Blob
    BY <1>3, WorkerFacts DEF SaveIndex, WorkerOK, Locked, Valued
  <2>2. entries' = [entries EXCEPT ![KeyOf(w)] = e]
    BY <1>3, <2>1 DEF SaveIndex
  <2>3. e # NoEntry /\ e.artifact = work[w].value
    BY <2>1, FilesAssumption, NothingAssumption DEF Entry
  <2> HIDE DEF e
  <2>4. entries'[k] = IF k = KeyOf(w) THEN e ELSE entries[k]
    BY <2>2, CacheFacts DEF Index
  <2> QED
    BY <2>1, <2>3, <2>4
<1>4. \/ entries' = entries \/ DropSaves \/ \E w \in Worker : SaveIndex(w)
  <2>1. CASE UNCHANGED cacheVars
    BY <2>1 DEF cacheVars
  <2>2. ASSUME NEW w \in Worker, WorkerActs(w) PROVE entries' = entries \/ SaveIndex(w)
    BY <2>2 DEF WorkerActs, Fingerprint, Lookup, ReadHit, Compute, ComputeThrows, Put, ReadBack, AcquireIndex,
       IndexTimeout, LoadIndex, ReleaseIndex
  <2>3. CASE JanitorStep
    BY <2>3 DEF JanitorStep, StartInvalidation, StartRemoval, StartDrop, DropAcquires, DropTimesOut, DropLoads,
       DropReleases
  <2>4. CASE CollectorStep
    BY <2>4 DEF CollectorStep, ListReachable, ListCandidates, DeleteBlob, CollectionEnds
  <2>5. CASE CacheEnvironment \/ \E w \in Worker : Crash(w)
    BY <2>5 DEF CacheEnvironment, Edit, RemoveStaleLock, Crash
  <2> QED
    BY <2>1, <2>2, <2>3, <2>4, <2>5, RunSteps
<1> QED
  BY <1>1, <1>2, <1>3, <1>4

\* Racing writers of the index lose nothing: an entry goes only when one of its files is invalidated or
\* its key removed, and comes only from a worker that holds the lock and scanned.
THEOREM NoLostEntryCorrect == Spec => NoLostEntry
<1> DEFINE A == \A k \in Key :
       /\ entries[k] # NoEntry /\ entries'[k] = NoEntry =>
            k \in Dropped(entries, janitor.paths, janitor.keys)
       /\ entries[k] # entries'[k] /\ entries'[k] # NoEntry =>
            \E w \in Worker : /\ lock = w /\ work[w].at = "loaded"
                              /\ KeyOf(w) = k /\ entries'[k].artifact = work[w].value
<1>1. ASSUME CacheInv, [Next]_runVars PROVE [A]_cacheVars
  <2>1. CASE Next
    BY <1>1, <2>1, IndexSteps
  <2>2. CASE UNCHANGED runVars
    BY <2>2 DEF runVars
  <2> QED
    BY <1>1, <2>1, <2>2
<1>2. [][A]_cacheVars => NoLostEntry
  BY DEF NoLostEntry
<1> HIDE DEF A
<1> QED
  BY <1>1, <1>2, RunInductive, PTL DEF Spec

-----------------------------------------------------------------------------
(* Invalidation. *)

Walks == [invalidated : SUBSET Node, queue : SUBSET Node]

\* One round brings the dependents of a node of the queue.
LEMMA VisitIs ==
  ASSUME NEW before \in Walks, NEW edges
  PROVE  /\ Visit(before, edges) \in Walks
         /\ \/ before.queue = {} /\ Visit(before, edges) = before
            \/ \E n \in before.queue : \E new :
                 /\ new = Dependents(edges, n) \ before.invalidated
                 /\ Visit(before, edges).invalidated = before.invalidated \cup new
                 /\ Visit(before, edges).queue = (before.queue \ {n}) \cup new
<1>1. CASE before.queue = {}
  BY <1>1 DEF Visit
<1>2. CASE before.queue # {}
  <2> DEFINE n == CHOOSE n \in before.queue : TRUE
             new == Dependents(edges, n) \ before.invalidated
  <2>1. n \in before.queue
    BY <1>2
  <2>2. Visit(before, edges) = [invalidated |-> before.invalidated \cup new,
                                queue |-> (before.queue \ {n}) \cup new]
    BY <1>2 DEF Visit
  <2> HIDE DEF n
  <2>3. new \in SUBSET Node
    BY DEF Dependents
  <2>4. new = Dependents(edges, n) \ before.invalidated
    OBVIOUS
  <2> HIDE DEF new
  <2> QED
    BY <2>1, <2>2, <2>3, <2>4 DEF Walks
<1> QED
  BY <1>1, <1>2

\* The rounds of the loop.
LEMMA WalkRounds ==
  ASSUME NEW edges, NEW changed \in SUBSET Node
  PROVE  \E f \in [0..Cardinality(Node) -> Walks] :
            /\ f[0] = [invalidated |-> changed, queue |-> changed]
            /\ \A k \in 1..Cardinality(Node) : f[k] = Visit(f[k - 1], edges)
            /\ Propagate(edges, changed) = f[Cardinality(Node)].invalidated
<1> DEFINE n == Cardinality(Node)
           base == [invalidated |-> changed, queue |-> changed]
           P(f) == f = [k \in 0..n |-> IF k = 0 THEN base ELSE Visit(f[k - 1], edges)]
           step == [p \in Walks \X (1..n) |-> Visit(p[1], edges)]
<1>1. n \in Nat /\ base \in Walks
  BY NodesAssumption, FS_CardinalityType DEF Walks
<1>2. Propagate(edges, changed) = (CHOOSE g : P(g))[n].invalidated
  BY DEF Propagate
<1> HIDE DEF n, base
<1>3. \A v \in Walks, k \in 1..n : step[<<v, k>>] = Visit(v, edges) /\ step[<<v, k>>] \in Walks
  BY VisitIs
<1> HIDE DEF step
<1>4. PICK f \in [0..n -> Walks] : Recursive(f, n, base, step)
  BY <1>1, <1>3, Recursion
<1>5. P(f)
  <2>1. \A k \in 0..n : k # 0 => f[k - 1] \in Walks /\ k \in 1..n
    BY <1>1, <1>4
  <2> QED
    BY <1>3, <1>4, <2>1 DEF Recursive
<1>6. PICK g : P(g) /\ Propagate(edges, changed) = g[n].invalidated
  <2>1. P(CHOOSE g : P(g))
    BY <1>5
  <2> QED
    BY <1>2, <2>1
<1>7. ASSUME NEW h, P(h) PROVE h[0] = base /\ \A k \in 1..n : h[k] = Visit(h[k - 1], edges)
  <2>1. 0 \in 0..n /\ \A k \in 1..n : k \in 0..n /\ k # 0
    BY <1>1
  <2> QED
    BY <1>7, <2>1
<1>8. g[n] = f[n]
  <2> DEFINE S == {k \in 0..n : g[k] = f[k]}
  <2>1. 0 \in S
    BY <1>1, <1>5, <1>6, <1>7
  <2>2. ASSUME NEW k \in 1..n, k - 1 \in S PROVE k \in S
    <3>1. f[k] = Visit(f[k - 1], edges) /\ g[k] = Visit(g[k - 1], edges)
      BY <1>5, <1>6, <1>7
    <3>2. f[k - 1] = g[k - 1] /\ k \in 0..n
      BY <1>1, <2>2
    <3> QED
      BY <3>1, <3>2
  <2> HIDE DEF S
  <2>3. 0..n \subseteq S
    BY <1>1, <2>1, <2>2, BoundedInduction
  <2> QED
    BY <1>1, <2>3 DEF S
<1> QED
  BY <1>5, <1>6, <1>7, <1>8 DEF n, base

\* A set that holds the changed nodes and whatever depends on one of its own.
Closed(edges, changed, S) == changed \subseteq S /\ \A e \in edges : e[2] \in S => e[1] \in S

\* What holds after k rounds: the nodes that have left the queue brought their dependents, and
\* nothing was taken that a closed set may lack.
Walked(edges, changed, k, w) ==
  /\ w \in Walks /\ w.queue \subseteq w.invalidated /\ changed \subseteq w.invalidated
  /\ \A e \in edges : e[2] \in w.invalidated \ w.queue => e[1] \in w.invalidated
  /\ \A S \in SUBSET Node : Closed(edges, changed, S) => w.invalidated \subseteq S
  /\ w.queue = {} \/ Cardinality(w.invalidated \ w.queue) = k

\* Each round keeps it.
LEMMA VisitKeeps ==
  ASSUME NEW edges \in SUBSET (Node \X Node), NEW changed \in SUBSET Node, NEW k \in Nat \ {0},
         NEW w, Walked(edges, changed, k - 1, w)
  PROVE  Walked(edges, changed, k, Visit(w, edges))
<1> DEFINE r == Visit(w, edges)
<1> SUFFICES Walked(edges, changed, k, r)
  OBVIOUS
<1>1. w \in Walks /\ r \in Walks
  BY VisitIs DEF Walked
<1>2. CASE w.queue = {} /\ r = w
  BY <1>2 DEF Walked
<1>3. ASSUME NEW n \in w.queue, NEW new, new = Dependents(edges, n) \ w.invalidated,
             r.invalidated = w.invalidated \cup new, r.queue = (w.queue \ {n}) \cup new
      PROVE  Walked(edges, changed, k, r)
  <2> HIDE DEF r
  <2>1. /\ w.queue \subseteq w.invalidated /\ w.invalidated \in SUBSET Node /\ n \in Node
        /\ changed \subseteq w.invalidated
    BY <1>1 DEF Walked, Walks
  <2>2. /\ r.invalidated \ r.queue = (w.invalidated \ w.queue) \cup {n}
        /\ n \notin w.invalidated \ w.queue
    BY <1>3, <2>1
  <2>3. r.queue \subseteq r.invalidated /\ changed \subseteq r.invalidated
    BY <1>3, <2>1
  <2>4. ASSUME NEW e \in edges, e[2] \in r.invalidated \ r.queue PROVE e[1] \in r.invalidated
    <3>1. CASE e[2] \in w.invalidated \ w.queue
      BY <1>3, <3>1 DEF Walked
    <3>2. CASE e[2] = n
      <4>1. e = <<e[1], n>> /\ e[1] \in Node
        BY <3>2
      <4>2. e[1] \in Dependents(edges, n)
        BY <4>1 DEF Dependents
      <4> QED
        BY <1>3, <4>2
    <3> QED
      BY <2>2, <2>4, <3>1, <3>2
  <2>5. ASSUME NEW S \in SUBSET Node, Closed(edges, changed, S) PROVE r.invalidated \subseteq S
    <3>1. w.invalidated \subseteq S /\ n \in S
      BY <2>1, <2>5 DEF Walked
    <3>2. Dependents(edges, n) \subseteq S
      <4>1. ASSUME NEW d \in Node, <<d, n>> \in edges PROVE d \in S
        BY <2>5, <3>1, <4>1 DEF Closed
      <4> QED
        BY <4>1 DEF Dependents
    <3> QED
      BY <1>3, <3>1, <3>2
  <2>6. Cardinality(r.invalidated \ r.queue) = k
    <3>1. Cardinality(w.invalidated \ w.queue) = k - 1
      BY <1>3 DEF Walked
    <3>2. IsFiniteSet(w.invalidated \ w.queue)
      BY <2>1, NodesAssumption, FS_Subset
    <3>3. Cardinality((w.invalidated \ w.queue) \cup {n}) = (k - 1) + 1
      BY <2>2, <3>1, <3>2, FS_AddElement
    <3>4. (k - 1) + 1 = k
      OBVIOUS
    <3> QED
      BY <2>2, <3>3, <3>4, Zenon
  <2>7. \A e \in edges : e[2] \in r.invalidated \ r.queue => e[1] \in r.invalidated
    BY <2>4
  <2>8. \A S \in SUBSET Node : Closed(edges, changed, S) => r.invalidated \subseteq S
    BY <2>5
  <2>9. r \in Walks
    BY <1>1 DEF r
  <2> QED
    BY <2>3, <2>6, <2>7, <2>8, <2>9 DEF Walked
<1>4. \/ w.queue = {} /\ r = w
      \/ \E n \in w.queue : \E new : /\ new = Dependents(edges, n) \ w.invalidated
                                     /\ r.invalidated = w.invalidated \cup new
                                     /\ r.queue = (w.queue \ {n}) \cup new
  BY <1>1, VisitIs
<1> HIDE DEF r
<1> QED
  BY <1>2, <1>3, <1>4

\* The loop ends with an empty queue: the result is the least closed set.
LEMMA PropagateLeast ==
  ASSUME NEW edges \in SUBSET (Node \X Node), NEW changed \in SUBSET Node
  PROVE  /\ Propagate(edges, changed) \in SUBSET Node
         /\ Closed(edges, changed, Propagate(edges, changed))
         /\ \A S \in SUBSET Node : Closed(edges, changed, S) => Propagate(edges, changed) \subseteq S
<1> DEFINE n == Cardinality(Node)
<1>1. PICK f \in [0..n -> Walks] :
            /\ f[0] = [invalidated |-> changed, queue |-> changed]
            /\ \A k \in 1..n : f[k] = Visit(f[k - 1], edges)
            /\ Propagate(edges, changed) = f[n].invalidated
  BY WalkRounds
<1>2. n \in Nat
  BY NodesAssumption, FS_CardinalityType
<1> HIDE DEF n
<1> DEFINE S == {k \in 0..n : Walked(edges, changed, k, f[k])}
<1>3. 0 \in S
  <2> DEFINE w == f[0]
  <2>1. w \in Walks /\ w.invalidated = changed /\ w.queue = changed
    BY <1>1, <1>2
  <2> HIDE DEF w
  <2>2. Cardinality(w.invalidated \ w.queue) = 0
    BY <2>1, FS_EmptySet
  <2>3. Walked(edges, changed, 0, w)
    BY <2>1, <2>2 DEF Walked, Closed
  <2> QED
    BY <1>2, <2>3 DEF w
<1>4. ASSUME NEW k \in 1..n, k - 1 \in S PROVE k \in S
  <2>1. k \in 0..n /\ k \in Nat \ {0} /\ Walked(edges, changed, k - 1, f[k - 1]) /\ f[k] = Visit(f[k - 1], edges)
    BY <1>1, <1>2, <1>4
  <2>2. Walked(edges, changed, k, f[k])
    BY <2>1, VisitKeeps
  <2> QED
    BY <2>1, <2>2
<1> HIDE DEF S
<1>5. 0..n \subseteq S
  BY <1>2, <1>3, <1>4, BoundedInduction
<1> DEFINE w == f[n]
<1>6. Walked(edges, changed, n, w)
  BY <1>2, <1>5 DEF S
<1> HIDE DEF w
<1>7. w.queue = {}
  <2>1. ASSUME w.queue # {} PROVE FALSE
    <3>1. w.invalidated \ w.queue \in SUBSET Node /\ Cardinality(w.invalidated \ w.queue) = Cardinality(Node)
      BY <1>6, <2>1 DEF Walked, Walks, n
    <3>2. w.invalidated \ w.queue = Node
      BY <3>1, NodesAssumption, FS_Subset
    <3> QED
      BY <1>6, <2>1, <3>2 DEF Walked, Walks
  <2> QED
    BY <2>1
<1>8. w.invalidated \in SUBSET Node /\ Closed(edges, changed, w.invalidated)
  BY <1>6, <1>7 DEF Walked, Walks, Closed
<1>9. Propagate(edges, changed) = w.invalidated
  BY <1>1 DEF w
<1> QED
  BY <1>6, <1>8, <1>9 DEF Walked

\* Invalidation drops the least set that holds the changed nodes and is closed under "depends on", for
\* every graph; and a file is changed when its entry differs.
THEOREM LeastClosedHolds == LeastClosed
<1>1. ASSUME NEW edges \in SUBSET (Node \X Node), NEW changed \in SUBSET Node
      PROVE  LET closed == {S \in SUBSET Node : /\ changed \subseteq S
                                                /\ \A e \in edges : e[2] \in S => e[1] \in S}
             IN  Propagate(edges, changed) = {n \in Node : \A S \in closed : n \in S}
  <2> DEFINE closed == {S \in SUBSET Node : /\ changed \subseteq S
                                            /\ \A e \in edges : e[2] \in S => e[1] \in S}
             M == Propagate(edges, changed)
  <2>1. M \in SUBSET Node /\ M \in closed
    BY PropagateLeast DEF Closed
  <2>2. \A S \in closed : M \subseteq S
    BY PropagateLeast DEF Closed
  <2> HIDE DEF M, closed
  <2>3. M = {n \in Node : \A S \in closed : n \in S}
    BY <2>1, <2>2
  <2> QED
    BY <2>3 DEF M, closed
<1>2. ASSUME NEW previous \in FileIndex, NEW next \in FileIndex, NEW x \in Node
      PROVE  previous[x] # next[x] <=> x \in ChangedFiles(previous, next, FALSE)
  BY DEF ChangedFiles
<1> QED
  BY <1>1, <1>2 DEF LeastClosed

\* The same, as the run looks at it.
THEOREM ExactlyTheDependentsCorrect == Spec => []ExactlyTheDependents
<1>1. ExactlyTheDependents
  BY LeastClosedHolds DEF ExactlyTheDependents
<1> QED
  BY <1>1, PTL
=============================================================================
