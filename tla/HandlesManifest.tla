--------------------------- MODULE HandlesManifest --------------------------
(***************************************************************************)
(* .sbf/handles-manifest.json of lib/handles-manifest.mjs: which feature   *)
(* owns a generated file, what was last written to it, and whether the     *)
(* registry is enforced.  The file is loaded and saved as a whole and no   *)
(* lock is taken for it.                                                   *)
(***************************************************************************)
EXTENDS Integers, Sequences, FiniteSets

CONSTANTS
  MaxNumber,   \* the largest feature number (999 in the code)
  Slug,        \* slugs of feature ids
  Infra, Late, \* paths of generated files, numbered in the order they are emitted in
  Version,     \* versions of the templates and of what is rendered into them
  Hand,        \* contents written by hand
  Repo,        \* the owner of files that belong to no feature
  Absent       \* a file that is not there

Id == (1..MaxNumber) \X Slug
Owner == Id \cup {Repo}
Path == Infra \cup Late

\* A generated file names its owner; a hash stands for the content.
Generated == [owner : Owner, enforce : BOOLEAN, version : Version]
Content == Generated \cup Hand
Entry == [owner : Owner, hash : Content]

ASSUME PathsAssumption ==
    MaxNumber \in Nat /\ Path \subseteq Nat /\ IsFiniteSet(Path) /\ Infra \cap Late = {}
ASSUME ContentsAssumption == Absent \notin Content \cup Entry /\ Hand \cap Generated = {} /\ Repo \notin Id

VARIABLE manifest   \* the file: entries and enforceRegistry

Manifest == [files : [Path -> Entry \cup {Absent}], enforce : BOOLEAN]

\* loadManifest of a repository without the file.
NoManifest == [files |-> [p \in Path |-> Absent], enforce |-> FALSE]

Recorded(m, path) == IF m.files[path] = Absent THEN Absent ELSE m.files[path].hash

\* Mutant of Classify: a file without an entry is taken for generated.
ClassifyTrusting(disk, recorded, fresh, pristine) ==
  IF disk = Absent THEN "create"
  ELSE IF recorded \in {Absent, disk} THEN (IF fresh = disk THEN "unchanged" ELSE "update")
  ELSE "conflict"

\* classifyFile: what is on disk, what the manifest recorded, what this run renders, and whether the
\* file is some unedited render.
Classify(disk, recorded, fresh, pristine) ==
  IF disk = Absent THEN "create"
  ELSE IF recorded = disk THEN (IF fresh = disk THEN "unchanged" ELSE "update")
  ELSE IF recorded = Absent /\ pristine THEN (IF fresh = disk THEN "adoptUnchanged" ELSE "adoptUpdate")
  ELSE "conflict"

\* Mutant of Reowned: paths without an entry get one.
ReownedAll(m, old, new) ==
  [m EXCEPT !.files = [p \in Path |-> IF m.files[p] = Absent \/ m.files[p].owner = old
                                      THEN [owner |-> new, hash |-> Recorded(m, p)] ELSE m.files[p]]]

\* The migration of a rename: entries of the old id get the new one.
Reowned(m, old, new) ==
  [m EXCEPT !.files = [p \in Path |-> IF m.files[p] # Absent /\ m.files[p].owner = old
                                      THEN [m.files[p] EXCEPT !.owner = new] ELSE m.files[p]]]
=============================================================================
