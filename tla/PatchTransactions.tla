------------------------- MODULE PatchTransactions --------------------------
(***************************************************************************)
(* Patch transactions: propose, approve, apply, rollback                   *)
(* (lib/patch-transactions.mjs, its three kinds in lib/patch-kinds.mjs and  *)
(* the commands of bin/bskel.mjs).  Several bskel processes and an editor   *)
(* work on one target file and one database schema.                        *)
(*                                                                         *)
(* A command plans first: it reads the target, without any lock.  Then it  *)
(* takes the state lock, loads the record, compares what the PLAN saw with *)
(* the record, and acts.  Apply and rollback hold the lock over several    *)
(* steps (an await, a build); after releasing it they recompute the inputs *)
(* of the patch_transactions gate and write the gate.                      *)
(*                                                                         *)
(* The lock is the one proved in GateStore: to take it is one step, and a  *)
(* section that only replaces one file is one step.                        *)
(***************************************************************************)
EXTENDS Integers, FiniteSets

CONSTANTS
  Proc,         \* bskel processes
  Txn,          \* transaction ids
  Kind,         \* the kinds proposed, among AllKinds
  Region,       \* parts of the target: a key, a method body, a table
  Text,         \* what a region may say
  Replacement,  \* the text a splice or a DDL statement puts there
  ForceFlag,    \* whether rollback may be given --force: {FALSE} or BOOLEAN
  MaxWraps,     \* bound on config-apply wrapping the same value again
  MaxCommands,  \* bound on the commands started
  MaxEdits,     \* bound on the edits made outside bskel
  MaxCrashes,   \* bound on the processes killed
  NoTxn, NoProc, NoDoc, NoGate

AllKinds == {"config-apply", "java-source-splice", "ddl-apply"}

ASSUME PatchAssumption ==
  /\ Kind \subseteq AllKinds
  /\ Replacement \in Text
  /\ ForceFlag \subseteq BOOLEAN
  /\ NoProc \notin Proc
  /\ {MaxWraps, MaxCommands, MaxEdits, MaxCrashes} \subseteq Nat

\* A value is a text in some number of "${VAR:...}" wrappings.
Value == [text : Text, wraps : 0..MaxWraps]
Doc == [Region -> Value]

\* A transaction record.  original stands for preimage.file_hash, preimage
\* and proposed value are functions of it; postimage is set by apply.
Record == [kind : AllKinds, region : Region, original : Doc,
           status : {"proposed", "approved", "applied", "rolled_back"},
           postimage : Doc \cup {NoDoc}]

ASSUME NothingAssumption == NoTxn \notin Record

VARIABLES
  content,  \* [{"file", "db"} -> Doc] the target file and the live schema
  txn,      \* [Txn -> Record or NoTxn] the transaction files
  blobs,    \* the documents saved under their hash
  gate,     \* inputs recorded by the last pass, or NoGate
  lock,     \* holder of the state lock, or NoProc
  pc,       \* where each process stands
  cmd,      \* the command it runs
  work,     \* the document it planned from, later the one it wrote
  seen,     \* the gate inputs it has computed
  count     \* commands started, edits made, processes killed: the bounds

files == <<content, txn, blobs, gate>>
locals == <<pc, cmd, work, seen>>
vars == <<content, txn, blobs, gate, lock, pc, cmd, work, seen, count>>

Command == [op : {"propose", "approve", "apply", "rollback"}, txn : Txn,
            kind : AllKinds, region : Region, force : BOOLEAN]

TargetOf(kind) == IF kind = "ddl-apply" THEN "db" ELSE "file"

\* The inputs of the patch_transactions gate: the record of every applied
\* transaction and, unless it went to the database, the target file.
GateInputs ==
  {<<t, txn[t], IF txn[t].kind = "ddl-apply" THEN NoDoc ELSE content["file"]>> :
     t \in {u \in Txn : txn[u] # NoTxn /\ txn[u].status = "applied"}}

TypeOK ==
  /\ content \in [{"file", "db"} -> Doc]
  /\ txn \in [Txn -> Record \cup {NoTxn}]
  /\ blobs \subseteq Doc
  /\ gate = NoGate \/ gate \subseteq Txn \X Record \X (Doc \cup {NoDoc})
  /\ lock \in Proc \cup {NoProc}
  /\ pc \in [Proc -> {"idle", "planned", "blob", "checked", "written",
                      "saved", "gating", "dead"}]
  /\ cmd \in [Proc -> Command \cup {NoTxn}]
  /\ \A p \in Proc : pc[p] \notin {"idle", "dead"} => cmd[p] \in Command
  /\ work \in [Proc -> Doc \cup {NoDoc}]
  /\ seen \in [Proc -> SUBSET (Txn \X Record \X (Doc \cup {NoDoc}))]
  /\ count \in [commands : 0..MaxCommands, edits : 0..MaxEdits, crashes : 0..MaxCrashes]

Init ==
  /\ \E text \in Text :
       content = [target \in {"file", "db"} |->
                    [r \in Region |-> [text |-> text, wraps |-> 0]]]
  /\ txn = [t \in Txn |-> NoTxn]
  /\ blobs = {}
  /\ gate = NoGate
  /\ lock = NoProc
  /\ pc = [p \in Proc |-> "idle"]
  /\ cmd = [p \in Proc |-> NoTxn]
  /\ work = [p \in Proc |-> NoDoc]
  /\ seen = [p \in Proc |-> {}]
  /\ count = [commands |-> 0, edits |-> 0, crashes |-> 0]

-----------------------------------------------------------------------------
(* Plans.                                                                  *)

\* config-apply puts the current value into its template; the others replace.
Patched(kind, value) ==
  IF kind = "config-apply" THEN [value EXCEPT !.wraps = @ + 1]
  ELSE [text |-> Replacement, wraps |-> 0]

\* renderedContent: the document the plan read, with its region patched.
Rendered(kind, region, doc) == [doc EXCEPT ![region] = Patched(kind, @)]

\* preimage.region_hash: the region, or for DDL the whole schema.
Preimage(kind, region, doc) ==
  IF kind = "ddl-apply" THEN doc ELSE [r \in {region} |-> doc[r]]

\* requireFreshPreimage: the plan against the record, not against the disk.
FreshPreimage(rec, doc) ==
  Preimage(rec.kind, rec.region, doc) = Preimage(rec.kind, rec.region, rec.original)

\* The command fails or is done.
Quit(p) ==
  /\ pc' = [pc EXCEPT ![p] = "idle"]
  /\ cmd' = [cmd EXCEPT ![p] = NoTxn]
  /\ work' = [work EXCEPT ![p] = NoDoc]
  /\ seen' = [seen EXCEPT ![p] = {}]

Goto(p, where) == pc' = [pc EXCEPT ![p] = where]

\* A command starts; all but rollback plan against the target as it is now.
Start(p, c) ==
  /\ pc[p] = "idle"
  /\ count.commands < MaxCommands
  /\ c.op # "propose" =>
       /\ txn[c.txn] # NoTxn
       /\ c.kind = txn[c.txn].kind /\ c.region = txn[c.txn].region
  /\ LET doc == content[TargetOf(c.kind)] IN
     IF c.op = "rollback" THEN UNCHANGED work
     ELSE /\ c.kind = "config-apply" => doc[c.region].wraps < MaxWraps
          /\ work' = [work EXCEPT ![p] = doc]
  /\ cmd' = [cmd EXCEPT ![p] = c]
  /\ Goto(p, "planned")
  /\ count' = [count EXCEPT !.commands = @ + 1]
  /\ UNCHANGED <<files, lock, seen>>

\* cmdPatchPropose; newTransactionId never returns an id twice.
Propose(p, t, kind, region) ==
  /\ txn[t] = NoTxn
  /\ \A q \in Proc : pc[q] \notin {"idle", "dead"} => cmd[q].txn # t
  /\ Start(p, [op |-> "propose", txn |-> t, kind |-> kind,
               region |-> region, force |-> FALSE])

\* cmdPatchApprove, cmdPatchApply, cmdPatchRollback on a recorded transaction.
Invoke(p, t, op, force) ==
  /\ txn[t] # NoTxn
  /\ force => op = "rollback"
  /\ Start(p, [op |-> op, txn |-> t, kind |-> txn[t].kind,
               region |-> txn[t].region, force |-> force])

-----------------------------------------------------------------------------
(* Under the lock.                                                         *)

AtLock(p, op) == pc[p] = "planned" /\ cmd[p].op = op /\ lock = NoProc

\* acquireOrThrow gives up.
LockTimeout(p) ==
  /\ pc[p] \in {"planned", "gating"}
  /\ lock # NoProc
  /\ Quit(p)
  /\ UNCHANGED <<files, lock, count>>

\* Mutant of SaveBlob: the blob keeps what the edit will produce.
SaveBlobRendered(p) ==
  /\ AtLock(p, "propose")
  /\ lock' = p
  /\ blobs' = blobs \cup {Rendered(cmd[p].kind, cmd[p].region, work[p])}
  /\ Goto(p, "blob")
  /\ UNCHANGED <<content, txn, gate, cmd, work, seen, count>>

\* proposeTransaction: first the original content is saved ...
SaveBlob(p) ==
  /\ AtLock(p, "propose")
  /\ lock' = p
  /\ blobs' = blobs \cup {work[p]}
  /\ Goto(p, "blob")
  /\ UNCHANGED <<content, txn, gate, cmd, work, seen, count>>

\* ... then the record.
SaveProposal(p) ==
  /\ pc[p] = "blob"
  /\ txn' = [txn EXCEPT ![cmd[p].txn] =
       [kind |-> cmd[p].kind, region |-> cmd[p].region, original |-> work[p],
        status |-> "proposed", postimage |-> NoDoc]]
  /\ lock' = NoProc
  /\ Quit(p)
  /\ UNCHANGED <<content, blobs, gate, count>>

\* approveTransaction; the status of the record is not looked at.
ApproveTransaction(p) ==
  LET t == cmd[p].txn IN
  /\ AtLock(p, "approve")
  /\ txn' = IF FreshPreimage(txn[t], work[p])
            THEN [txn EXCEPT ![t].status = "approved"] ELSE txn
  /\ Quit(p)
  /\ UNCHANGED <<content, blobs, gate, lock, count>>

\* A check under the lock fails: the command throws, the lock is released.
Refuse(p, op, ok) ==
  /\ AtLock(p, op)
  /\ ~ok
  /\ Quit(p)
  /\ UNCHANGED <<files, lock, count>>

\* Mutant of Enter: withLockSync around the async callback releases the lock at
\* its first await.
EnterUnlocked(p, op, ok) ==
  /\ AtLock(p, op)
  /\ ok
  /\ Goto(p, "checked")
  /\ UNCHANGED <<files, lock, cmd, work, seen, count>>

\* A check under the lock succeeds: the command keeps the lock.
Enter(p, op, ok) ==
  /\ AtLock(p, op)
  /\ ok
  /\ lock' = p
  /\ Goto(p, "checked")
  /\ UNCHANGED <<files, cmd, work, seen, count>>

\* Mutant of Applicable: no requireFreshPreimage in applyTransaction.
ApplicableUnchecked(p) == txn[cmd[p].txn].status = "approved"

\* applyTransaction's checks.
Applicable(p) ==
  /\ txn[cmd[p].txn].status = "approved"
  /\ FreshPreimage(txn[cmd[p].txn], work[p])

\* rollbackTransaction's checks, and those its executor makes before it
\* writes.  DDL is never rolled back.
Reversible(p) ==
  LET rec == txn[cmd[p].txn] IN
  /\ rec.status = "applied"
  /\ rec.kind # "ddl-apply"
  /\ content["file"] = rec.postimage \/ cmd[p].force
  /\ rec.original \in blobs

-----------------------------------------------------------------------------
(* Executors.                                                              *)

\* executeConfigApply and the first half of executeJavaSpliceApply: the plan's
\* document replaces whatever the file holds.
WriteFile(p) ==
  LET c == cmd[p]
      doc == Rendered(c.kind, c.region, work[p])
  IN
  /\ pc[p] = "checked"
  /\ c.op = "apply" /\ c.kind # "ddl-apply"
  /\ content' = [content EXCEPT !["file"] = doc]
  /\ work' = [work EXCEPT ![p] = doc]
  /\ Goto(p, "written")
  /\ UNCHANGED <<txn, blobs, gate, lock, cmd, seen, count>>

\* executeJavaSpliceApply: the build fails, the file is put back to what it
\* was when the transaction was PROPOSED, and the command throws.
BuildFails(p) ==
  /\ pc[p] = "written"
  /\ cmd[p].op = "apply" /\ cmd[p].kind = "java-source-splice"
  /\ txn[cmd[p].txn].original \in blobs
  /\ content' = [content EXCEPT !["file"] = txn[cmd[p].txn].original]
  /\ lock' = NoProc
  /\ Quit(p)
  /\ UNCHANGED <<txn, blobs, gate, count>>

\* executeDdlApply: one database transaction over the schema as it is at
\* BEGIN; it commits only if the result differs from what the plan read.
CommitDdl(p) ==
  LET c == cmd[p]
      after == Rendered(c.kind, c.region, content["db"])
  IN
  /\ pc[p] = "checked"
  /\ c.op = "apply" /\ c.kind = "ddl-apply"
  /\ after # work[p]
  /\ content' = [content EXCEPT !["db"] = after]
  /\ work' = [work EXCEPT ![p] = after]
  /\ Goto(p, "written")
  /\ UNCHANGED <<txn, blobs, gate, lock, cmd, seen, count>>

\* COMMIT reaches the server but its answer does not come back: the catch block
\* rolls back what is committed already, and the command throws.
CommitUnreported(p) ==
  LET c == cmd[p]
      after == Rendered(c.kind, c.region, content["db"])
  IN
  /\ pc[p] = "checked"
  /\ c.op = "apply" /\ c.kind = "ddl-apply"
  /\ after # work[p]
  /\ content' = [content EXCEPT !["db"] = after]
  /\ lock' = NoProc
  /\ Quit(p)
  /\ UNCHANGED <<txn, blobs, gate, count>>

\* The connection, the statement or the postcondition fails: nothing commits.
DdlFails(p) ==
  /\ pc[p] = "checked"
  /\ cmd[p].op = "apply" /\ cmd[p].kind = "ddl-apply"
  /\ lock' = NoProc
  /\ Quit(p)
  /\ UNCHANGED <<files, count>>

\* executeConfigRollback, executeJavaSpliceRollback: the whole file goes back
\* to what it was when the transaction was proposed.
WriteOriginal(p) ==
  /\ pc[p] = "checked"
  /\ cmd[p].op = "rollback"
  /\ content' = [content EXCEPT !["file"] = txn[cmd[p].txn].original]
  /\ Goto(p, "written")
  /\ UNCHANGED <<txn, blobs, gate, lock, cmd, work, seen, count>>

\* Mutant of SaveApplied: a status the schema does not have.
SaveAppliedTypo(p) ==
  /\ pc[p] = "written"
  /\ cmd[p].op = "apply"
  /\ txn' = [txn EXCEPT ![cmd[p].txn].status = "apply",
                        ![cmd[p].txn].postimage = work[p]]
  /\ lock' = NoProc
  /\ Goto(p, "saved")
  /\ UNCHANGED <<content, blobs, gate, cmd, work, seen, count>>

\* The tail of applyTransaction.
SaveApplied(p) ==
  /\ pc[p] = "written"
  /\ cmd[p].op = "apply"
  /\ txn' = [txn EXCEPT ![cmd[p].txn].status = "applied",
                        ![cmd[p].txn].postimage = work[p]]
  /\ lock' = NoProc
  /\ Goto(p, "saved")
  /\ UNCHANGED <<content, blobs, gate, cmd, work, seen, count>>

\* The tail of rollbackTransaction.
SaveRolledBack(p) ==
  /\ pc[p] = "written"
  /\ cmd[p].op = "rollback"
  /\ txn' = [txn EXCEPT ![cmd[p].txn].status = "rolled_back"]
  /\ lock' = NoProc
  /\ Goto(p, "saved")
  /\ UNCHANGED <<content, blobs, gate, cmd, work, seen, count>>

\* passNamedGate: the inputs are computed without the lock ...
RecomputeGate(p) ==
  /\ pc[p] = "saved"
  /\ seen' = [seen EXCEPT ![p] = GateInputs]
  /\ Goto(p, "gating")
  /\ UNCHANGED <<files, lock, cmd, work, count>>

\* ... and recorded under it.
PassGate(p) ==
  /\ pc[p] = "gating"
  /\ lock = NoProc
  /\ gate' = seen[p]
  /\ Quit(p)
  /\ UNCHANGED <<content, txn, blobs, lock, count>>

-----------------------------------------------------------------------------
(* The environment.                                                        *)

\* Somebody edits the file, or migrates the database, outside bskel.
Edit(target, r, text) ==
  /\ count.edits < MaxEdits
  /\ content[target][r].text # text
  /\ content' = [content EXCEPT ![target][r].text = text]
  /\ count' = [count EXCEPT !.edits = @ + 1]
  /\ UNCHANGED <<txn, blobs, gate, lock, locals>>

\* The process is killed; inside the lock it leaves the directory behind.
Crash(p) ==
  /\ count.crashes < MaxCrashes
  /\ pc[p] \notin {"idle", "dead"}
  /\ pc' = [pc EXCEPT ![p] = IF lock = p THEN "dead" ELSE "idle"]
  /\ cmd' = [cmd EXCEPT ![p] = NoTxn]
  /\ work' = [work EXCEPT ![p] = NoDoc]
  /\ seen' = [seen EXCEPT ![p] = {}]
  /\ count' = [count EXCEPT !.crashes = @ + 1]
  /\ UNCHANGED <<files, lock>>

\* Somebody removes the lock directory of a dead process.
RemoveStaleLock(p) ==
  /\ pc[p] = "dead"
  /\ lock' = NoProc
  /\ Goto(p, "idle")
  /\ UNCHANGED <<files, cmd, work, seen, count>>

Step(p) ==
  \/ LockTimeout(p)
  \/ SaveBlob(p)
  \/ SaveProposal(p)
  \/ ApproveTransaction(p)
  \/ Enter(p, "apply", Applicable(p))
  \/ Refuse(p, "apply", Applicable(p))
  \/ Enter(p, "rollback", Reversible(p))
  \/ Refuse(p, "rollback", Reversible(p))
  \/ WriteFile(p)
  \/ BuildFails(p)
  \/ CommitDdl(p)
  \/ CommitUnreported(p)
  \/ DdlFails(p)
  \/ WriteOriginal(p)
  \/ SaveApplied(p)
  \/ SaveRolledBack(p)
  \/ RecomputeGate(p)
  \/ PassGate(p)

Next ==
  \/ \E p \in Proc, t \in Txn :
       \/ \E kind \in Kind, r \in Region : Propose(p, t, kind, r)
       \/ Invoke(p, t, "approve", FALSE)
       \/ Invoke(p, t, "apply", FALSE)
       \/ \E force \in ForceFlag : Invoke(p, t, "rollback", force)
  \/ \E p \in Proc : Step(p) \/ Crash(p) \/ RemoveStaleLock(p)
  \/ \E target \in {"file", "db"}, r \in Region, text \in Text : Edit(target, r, text)

Spec == Init /\ [][Next]_vars

-----------------------------------------------------------------------------
(* Properties that hold.                                                   *)

\* The executor of p writes, and goes on to record it or fails.
Writes(p) == pc'[p] = "written" \/ (pc'[p] # pc[p] /\ content' # content)

\* The value a transaction's reviewer saw for its region.
ProposedValue(rec) == Patched(rec.kind, rec.original[rec.region])

\* config-apply.mjs, source-splice.mjs, ddl-apply.mjs: whatever was edited,
\* applied, rolled back, re-approved or killed in between, apply leaves the
\* transaction's region at exactly the value that was proposed and approved,
\* reported or not, and rollback at exactly the one that was there before.
ReviewedWrites ==
  [][\A p \in Proc :
       pc[p] = "checked" /\ Writes(p) =>
         LET rec == txn[cmd[p].txn] IN
         content'[TargetOf(rec.kind)][rec.region] =
           IF cmd[p].op = "apply" THEN ProposedValue(rec)
           ELSE rec.original[rec.region]]_vars

\* withLockAsync: from the moment apply or rollback has checked a record until
\* it saves it, no other command changes that record, over all the awaits.
RecordHeld ==
  \A p \in Proc :
    pc[p] \in {"checked", "written"} =>
      txn[cmd[p].txn].status = IF cmd[p].op = "apply" THEN "approved" ELSE "applied"

\* proposeTransaction: wherever a process dies, a transaction on disk has its
\* rollback blob on disk, with the content its preimage names.
BlobBeforeRecord ==
  \A t \in Txn : txn[t] # NoTxn => txn[t].original \in blobs

-----------------------------------------------------------------------------
(* What the documentation says and the code does not do.                   *)

\* DECISIONS.md D-patch-transactions: apply re-verifies the region "again (a
\* final check right before the write, since the file could move between
\* approve and apply too)".
FinalCheck ==
  [][\A p \in Proc :
       pc[p] = "checked" /\ pc'[p] = "written" /\ cmd[p].op = "apply" =>
         LET rec == txn[cmd[p].txn] IN
         content[TargetOf(rec.kind)][rec.region] = rec.original[rec.region]]_vars

\* gate-definitions.mjs, patch_transactions: an applied transaction is "a LIVE
\* edit", and a pass vouches for it.
PassMeansLive ==
  gate # NoGate /\ gate = GateInputs =>
    \A t \in Txn :
      txn[t] # NoTxn /\ txn[t].status = "applied" =>
        content[TargetOf(txn[t].kind)][txn[t].region] = ProposedValue(txn[t])
=============================================================================
