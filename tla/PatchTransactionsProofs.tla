----------------------- MODULE PatchTransactionsProofs -----------------------
(***************************************************************************)
(* Proofs about PatchTransactions, for any number of processes,            *)
(* transactions, regions and texts.                                        *)
(*                                                                         *)
(* What has to be said beside the types is who holds the lock, that an id  *)
(* which is being proposed belongs to one process, and what a process that *)
(* is past the checks still knows of its record and of its plan.           *)
(***************************************************************************)
EXTENDS PatchTransactions, TLAPS

Active == {p \in Proc : pc[p] \notin {"idle", "dead"}}

\* A process is between its checks and its save, or died in there, exactly
\* when the lock directory is its own.
LockIsHeld ==
  \A p \in Proc : pc[p] \in {"blob", "checked", "written", "dead"} <=> lock = p

\* Which command can stand where.
Places ==
  \A p \in Active :
    /\ pc[p] = "blob" => cmd[p].op = "propose"
    /\ pc[p] \in {"checked", "written", "saved", "gating"} => cmd[p].op \in {"apply", "rollback"}

\* A proposal has its id for itself; every other command has a record, of the
\* kind and the region it was given for.
RecordKnown ==
  \A p \in Active :
    IF cmd[p].op = "propose"
    THEN txn[cmd[p].txn] = NoTxn /\ \A q \in Active \ {p} : cmd[q].txn # cmd[p].txn
    ELSE /\ txn[cmd[p].txn] # NoTxn
         /\ txn[cmd[p].txn].kind = cmd[p].kind
         /\ txn[cmd[p].txn].region = cmd[p].region

\* All but rollback have a plan, and config-apply has room to wrap.
Planned ==
  \A p \in Active :
    pc[p] \in {"planned", "blob", "checked"} /\ cmd[p].op # "rollback" =>
      /\ work[p] \in Doc
      /\ cmd[p].kind = "config-apply" => work[p][cmd[p].region].wraps < MaxWraps

\* What apply and rollback have checked stays true until they save: the plan of
\* apply agrees with the record, and rollback is never of DDL.
ChecksHold ==
  \A p \in Active :
    pc[p] = "checked" =>
      IF cmd[p].op = "apply"
      THEN cmd[p].kind # "ddl-apply" =>
             work[p][cmd[p].region] = txn[cmd[p].txn].original[cmd[p].region]
      ELSE cmd[p].kind # "ddl-apply"

\* What apply is about to record.
Written ==
  \A p \in Active : pc[p] = "written" /\ cmd[p].op = "apply" => work[p] \in Doc

\* A proposal saves its blob first.
BlobSaved == \A p \in Active : pc[p] = "blob" => work[p] \in blobs

IInv ==
  /\ TypeOK /\ LockIsHeld /\ Places /\ RecordKnown /\ Planned
  /\ ChecksHold /\ Written /\ BlobSaved /\ RecordHeld /\ BlobBeforeRecord

-----------------------------------------------------------------------------
(* What the actions do, without their details.                             *)

\* A command that starts: propose takes an id that nobody uses, the others
\* take kind and region from the record.
Begins(p, c) ==
  /\ Start(p, c)
  /\ IF c.op = "propose"
     THEN txn[c.txn] = NoTxn /\ \A q \in Active : cmd[q].txn # c.txn
     ELSE txn[c.txn] # NoTxn /\ c.kind = txn[c.txn].kind /\ c.region = txn[c.txn].region

\* All that Propose and Invoke do is to start a well-formed command.
LEMMA StartsAreCommands ==
  ASSUME TypeOK, NEW p \in Proc, NEW t \in Txn,
         \/ \E kind \in Kind, r \in Region : Propose(p, t, kind, r)
         \/ Invoke(p, t, "approve", FALSE)
         \/ Invoke(p, t, "apply", FALSE)
         \/ \E force \in ForceFlag : Invoke(p, t, "rollback", force)
  PROVE  \E c \in Command : Begins(p, c)
<1>1. ASSUME NEW kind \in Kind, NEW r \in Region, Propose(p, t, kind, r)
      PROVE  \E c \in Command : Begins(p, c)
  <2> DEFINE c == [op |-> "propose", txn |-> t, kind |-> kind, region |-> r, force |-> FALSE]
  <2>1. c \in Command
    BY PatchAssumption DEF Command
  <2>2. Begins(p, c)
    BY <1>1 DEF Propose, Begins, Active
  <2> QED
    BY <2>1, <2>2
<1>2. ASSUME NEW op \in {"approve", "apply", "rollback"}, NEW force \in BOOLEAN, Invoke(p, t, op, force)
      PROVE  \E c \in Command : Begins(p, c)
  <2> DEFINE c == [op |-> op, txn |-> t, kind |-> txn[t].kind, region |-> txn[t].region, force |-> force]
  <2>1. txn[t] \in Record
    BY <1>2 DEF Invoke, TypeOK
  <2>2. c \in Command
    BY <2>1 DEF Command, Record
  <2>3. Begins(p, c)
    BY <1>2 DEF Invoke, Begins
  <2> QED
    BY <2>2, <2>3
<1> QED
  BY <1>1, <1>2, PatchAssumption

\* A step after which every process that is still at work stands where it stood,
\* and the records and blobs are untouched.
Calm ==
  /\ txn' = txn /\ blobs' = blobs
  /\ \A q \in Active' : q \in Active /\ pc'[q] = pc[q] /\ cmd'[q] = cmd[q] /\ work'[q] = work[q]

\* Commands that end, crashes, the removal of a directory and edits are calm.
LEMMA CalmSteps ==
  ASSUME TypeOK, NEW p \in Proc,
         \/ LockTimeout(p) \/ BuildFails(p) \/ CommitUnreported(p) \/ DdlFails(p) \/ PassGate(p) \/ Crash(p)
         \/ \E op \in {"apply", "rollback"} : Refuse(p, op, Applicable(p)) \/ Refuse(p, op, Reversible(p))
         \/ RemoveStaleLock(p)
         \/ \E target \in {"file", "db"}, r \in Region, text \in Text : Edit(target, r, text)
         \/ UNCHANGED vars
  PROVE  Calm
<1>1. CASE LockTimeout(p) \/ DdlFails(p) \/ \E op \in {"apply", "rollback"} :
             Refuse(p, op, Applicable(p)) \/ Refuse(p, op, Reversible(p))
  BY <1>1 DEF Calm, Active, TypeOK, LockTimeout, DdlFails, Refuse, Quit, files
<1>2. CASE BuildFails(p) \/ CommitUnreported(p) \/ PassGate(p)
  BY <1>2 DEF Calm, Active, TypeOK, BuildFails, CommitUnreported, PassGate, Quit, files
<1>3. CASE Crash(p)
  BY <1>3 DEF Calm, Active, TypeOK, Crash, files
<1>4. CASE RemoveStaleLock(p)
  BY <1>4 DEF Calm, Active, TypeOK, RemoveStaleLock, Goto, files
<1>5. CASE \E target \in {"file", "db"}, r \in Region, text \in Text : Edit(target, r, text)
  BY <1>5 DEF Calm, Active, Edit, locals
<1>6. CASE UNCHANGED vars
  BY <1>6 DEF Calm, Active, vars
<1> QED
  BY <1>1, <1>2, <1>3, <1>4, <1>5, <1>6

\* What is said of processes and records survives a calm step.
LEMMA CalmKeeps ==
  ASSUME IInv, Calm
  PROVE  /\ Places' /\ RecordKnown' /\ Planned' /\ ChecksHold' /\ Written' /\ BlobSaved'
         /\ RecordHeld' /\ BlobBeforeRecord'
<1>1. Places'
  BY DEF IInv, Calm, Places, Active
<1>2. RecordKnown'
  BY DEF IInv, Calm, RecordKnown, Active
<1>3. Planned'
  BY DEF IInv, Calm, Planned, Active
<1>4. ChecksHold'
  BY DEF IInv, Calm, ChecksHold, Active
<1>5. Written' /\ BlobSaved'
  BY DEF IInv, Calm, Written, BlobSaved, Active
<1>6. RecordHeld'
  BY DEF IInv, Calm, RecordHeld, Active
<1>7. BlobBeforeRecord'
  BY DEF IInv, Calm, BlobBeforeRecord
<1> QED
  BY <1>1, <1>2, <1>3, <1>4, <1>5, <1>6, <1>7

-----------------------------------------------------------------------------
(* The other steps, conjunct by conjunct.                                  *)

\* The commands that change the status of a record keep the rest of it, and all
\* other records.
LEMMA RecordsStay ==
  ASSUME IInv, NEW p \in Proc, ApproveTransaction(p) \/ SaveApplied(p) \/ SaveRolledBack(p)
  PROVE  /\ \A t \in Txn \ {cmd[p].txn} : txn'[t] = txn[t]
         /\ \A t \in Txn : txn'[t] = NoTxn <=> txn[t] = NoTxn
         /\ \A t \in Txn : txn[t] # NoTxn =>
              /\ txn'[t].kind = txn[t].kind /\ txn'[t].region = txn[t].region
              /\ txn'[t].original = txn[t].original
         /\ blobs' = blobs /\ lock \in {p, NoProc}
         /\ \A q \in Active' : q \in Active /\ cmd'[q] = cmd[q]
         /\ \A q \in Active' \ {p} : pc'[q] = pc[q] /\ work'[q] = work[q]
         /\ p \in Active' => pc'[p] = "saved" /\ cmd[p].op \in {"apply", "rollback"}
<1> DEFINE t == cmd[p].txn
<1>1. p \in Active /\ cmd[p].op # "propose"
  BY DEF IInv, Active, Places, ApproveTransaction, AtLock, SaveApplied, SaveRolledBack
<1>2. t \in Txn /\ txn[t] \in Record /\ txn[t] # NoTxn
  BY <1>1 DEF IInv, TypeOK, RecordKnown, Active, Command
<1>0. /\ blobs' = blobs /\ lock \in {p, NoProc}
      /\ \A q \in Active' : q \in Active /\ cmd'[q] = cmd[q]
      /\ \A q \in Active' \ {p} : pc'[q] = pc[q] /\ work'[q] = work[q]
      /\ p \in Active' => pc'[p] = "saved" /\ cmd[p].op \in {"apply", "rollback"}
  <2>1. CASE ApproveTransaction(p)
    BY <2>1 DEF IInv, TypeOK, ApproveTransaction, AtLock, Quit, Active
  <2>2. CASE SaveApplied(p) \/ SaveRolledBack(p)
    BY <2>2 DEF IInv, TypeOK, LockIsHeld, SaveApplied, SaveRolledBack, Goto, Active
  <2> QED
    BY <2>1, <2>2
<1>3. CASE UNCHANGED txn
  BY <1>0, <1>3
<1>4. CASE ~UNCHANGED txn
  <2>1. \E s \in {"approved", "applied", "rolled_back"}, d \in {txn[t].postimage, work[p]} :
          txn' = [txn EXCEPT ![t] = [txn[t] EXCEPT !.status = s, !.postimage = d]]
    <3>1. CASE ApproveTransaction(p)
      <4>1. txn' = [txn EXCEPT ![t].status = "approved"]
        BY <1>4, <3>1 DEF ApproveTransaction
      <4>2. [txn[t] EXCEPT !.status = "approved"] = [txn[t] EXCEPT !.status = "approved", !.postimage = txn[t].postimage]
        BY <1>2 DEF Record
      <4> QED
        BY <4>1, <4>2
    <3>2. CASE SaveApplied(p)
      BY <3>2 DEF SaveApplied
    <3>3. CASE SaveRolledBack(p)
      <4>1. txn' = [txn EXCEPT ![t].status = "rolled_back"]
        BY <3>3 DEF SaveRolledBack
      <4>2. [txn[t] EXCEPT !.status = "rolled_back"] = [txn[t] EXCEPT !.status = "rolled_back", !.postimage = txn[t].postimage]
        BY <1>2 DEF Record
      <4> QED
        BY <4>1, <4>2
    <3> QED
      BY <3>1, <3>2, <3>3
  <2>2. PICK s \in {"approved", "applied", "rolled_back"}, d \in {txn[t].postimage, work[p]} :
          txn' = [txn EXCEPT ![t] = [txn[t] EXCEPT !.status = s, !.postimage = d]]
    BY <2>1
  <2> DEFINE new == [txn[t] EXCEPT !.status = s, !.postimage = d]
  <2>3. d \in Doc \cup {NoDoc}
    BY <1>2 DEF IInv, TypeOK, Record
  <2>4. new \in Record /\ new.kind = txn[t].kind /\ new.region = txn[t].region /\ new.original = txn[t].original
    BY <1>2, <2>3 DEF Record
  <2>5. new # NoTxn
    BY <2>4, NothingAssumption
  <2>6. txn' = [txn EXCEPT ![t] = new]
    BY <2>2
  <2> HIDE DEF new
  <2> QED
    BY <1>0, <1>2, <2>4, <2>5, <2>6 DEF IInv, TypeOK
<1> QED
  BY <1>3, <1>4

\* So they leave no process past its checks: nobody else can hold the lock.
LEMMA NobodyInside ==
  ASSUME IInv, NEW p \in Proc, ApproveTransaction(p) \/ SaveApplied(p) \/ SaveRolledBack(p)
  PROVE  \A q \in Proc : pc'[q] \notin {"checked", "written"}
<1> SUFFICES ASSUME NEW q \in Proc, pc'[q] \in {"checked", "written"} PROVE FALSE
  OBVIOUS
<1>1. q \in Active'
  BY DEF Active
<1>2. q # p /\ pc[q] = pc'[q]
  BY <1>1, RecordsStay
<1>3. lock = q
  BY <1>2 DEF IInv, LockIsHeld
<1> QED
  BY <1>2, <1>3, RecordsStay, PatchAssumption

\* A plan that agrees with a record shows the region the proposal was made for.
LEMMA FreshMeans ==
  ASSUME NEW rec, NEW doc, FreshPreimage(rec, doc), rec.kind # "ddl-apply"
  PROVE  doc[rec.region] = rec.original[rec.region]
<1>1. [r \in {rec.region} |-> doc[r]] = [r \in {rec.region} |-> rec.original[r]]
  BY DEF FreshPreimage, Preimage
<1>2. [r \in {rec.region} |-> doc[r]][rec.region] = [r \in {rec.region} |-> rec.original[r]][rec.region]
  BY <1>1
<1> QED
  BY <1>2

\* Patching one region of a document gives a document that differs there.
LEMMA RenderedTyped ==
  ASSUME NEW kind \in AllKinds, NEW region \in Region, NEW doc \in Doc,
         kind = "config-apply" => doc[region].wraps < MaxWraps
  PROVE  /\ Rendered(kind, region, doc) \in Doc
         /\ Rendered(kind, region, doc)[region] = Patched(kind, doc[region])
<1>1. doc[region] \in Value
  BY DEF Doc
<1>2. Patched(kind, doc[region]) \in Value
  <2>1. CASE kind = "config-apply"
    BY <1>1, <2>1, PatchAssumption DEF Patched, Value
  <2>2. CASE kind # "config-apply"
    BY <2>2, PatchAssumption DEF Patched, Value
  <2> QED
    BY <2>1, <2>2
<1> QED
  BY <1>2 DEF Rendered, Doc

\* The steps that are not calm.
Works(p) ==
  \/ \E c \in Command : Begins(p, c)
  \/ SaveBlob(p) \/ SaveProposal(p) \/ ApproveTransaction(p)
  \/ Enter(p, "apply", Applicable(p)) \/ Enter(p, "rollback", Reversible(p))
  \/ WriteFile(p) \/ CommitDdl(p) \/ WriteOriginal(p)
  \/ SaveApplied(p) \/ SaveRolledBack(p) \/ RecomputeGate(p)

\* Each action leaves its process where its command may stand.
LEMMA PlacesStep ==
  ASSUME IInv, NEW p \in Proc, Works(p)
  PROVE  Places'
<1>1. CASE \E c \in Command : Begins(p, c)
  BY <1>1 DEF IInv, TypeOK, Places, Active, Begins, Start, Goto, files
<1>2. CASE SaveBlob(p)
  BY <1>2 DEF IInv, TypeOK, Places, Active, SaveBlob, AtLock, Goto
<1>3. CASE SaveProposal(p)
  BY <1>3 DEF IInv, TypeOK, Places, Active, SaveProposal, Quit
<1>4. CASE Enter(p, "apply", Applicable(p))
  BY <1>4 DEF IInv, TypeOK, Places, Active, Enter, AtLock, Goto, files, Applicable, FreshPreimage, Preimage
<1>5. CASE Enter(p, "rollback", Reversible(p))
  BY <1>5 DEF IInv, TypeOK, Places, Active, Enter, AtLock, Goto, files, Reversible
<1>6. CASE WriteFile(p)
  BY <1>6 DEF IInv, TypeOK, Places, Active, WriteFile, Goto
<1>7. CASE CommitDdl(p)
  BY <1>7 DEF IInv, TypeOK, Places, Active, CommitDdl, Goto
<1>8. CASE WriteOriginal(p)
  BY <1>8 DEF IInv, TypeOK, Places, Active, WriteOriginal, Goto
<1>9. CASE RecomputeGate(p)
  BY <1>9 DEF IInv, TypeOK, Places, Active, RecomputeGate, Goto, files
<1>10. CASE ApproveTransaction(p) \/ SaveApplied(p) \/ SaveRolledBack(p)
  BY <1>10, RecordsStay DEF IInv, TypeOK, Places, Active
<1> QED
  BY <1>1, <1>2, <1>3, <1>4, <1>5, <1>6, <1>7, <1>8, <1>9, <1>10 DEF Works

\* No action of one process takes away the record, or the id, that another works on.
LEMMA RecordKnownStep ==
  ASSUME IInv, NEW p \in Proc, Works(p)
  PROVE  RecordKnown'
<1>1. CASE \E c \in Command : Begins(p, c)
  BY <1>1 DEF IInv, TypeOK, RecordKnown, Record, Active, Begins, Start, Goto, files
<1>2. CASE SaveBlob(p)
  BY <1>2 DEF IInv, TypeOK, RecordKnown, Record, Active, SaveBlob, AtLock, Goto
<1>3. CASE SaveProposal(p)
  <2>1. p \in Active /\ cmd[p].op = "propose"
    BY <1>3 DEF IInv, Active, Places, SaveProposal
  <2>2. \A q \in Active' : q \in Active \ {p} /\ cmd'[q] = cmd[q]
    BY <1>3 DEF IInv, TypeOK, Active, SaveProposal, Quit
  <2>3. \A q \in Active' : cmd[q].txn \in Txn /\ cmd[q].txn # cmd[p].txn
    BY <2>1, <2>2 DEF IInv, TypeOK, RecordKnown, Active, Command
  <2>4. \A q \in Active' : txn'[cmd[q].txn] = txn[cmd[q].txn]
    BY <1>3, <2>3 DEF IInv, TypeOK, SaveProposal
  <2> QED
    BY <2>2, <2>4 DEF IInv, RecordKnown
<1>4. CASE Enter(p, "apply", Applicable(p))
  BY <1>4 DEF IInv, TypeOK, RecordKnown, Record, Active, Enter, AtLock, Goto, files, Applicable, FreshPreimage, Preimage
<1>5. CASE Enter(p, "rollback", Reversible(p))
  BY <1>5 DEF IInv, TypeOK, RecordKnown, Record, Active, Enter, AtLock, Goto, files, Reversible
<1>6. CASE WriteFile(p)
  BY <1>6 DEF IInv, TypeOK, RecordKnown, Record, Active, WriteFile, Goto
<1>7. CASE CommitDdl(p)
  BY <1>7 DEF IInv, TypeOK, RecordKnown, Record, Active, CommitDdl, Goto
<1>8. CASE WriteOriginal(p)
  BY <1>8 DEF IInv, TypeOK, RecordKnown, Record, Active, WriteOriginal, Goto
<1>9. CASE RecomputeGate(p)
  BY <1>9 DEF IInv, TypeOK, RecordKnown, Record, Active, RecomputeGate, Goto, files
<1>10. CASE ApproveTransaction(p) \/ SaveApplied(p) \/ SaveRolledBack(p)
  <2>1. \A q \in Active : cmd[q].txn \in Txn
    BY DEF IInv, TypeOK, Active, Command
  <2> QED
    BY <1>10, <2>1, RecordsStay DEF IInv, RecordKnown
<1> QED
  BY <1>1, <1>2, <1>3, <1>4, <1>5, <1>6, <1>7, <1>8, <1>9, <1>10 DEF Works

\* A plan is not touched until it is written.
LEMMA PlannedStep ==
  ASSUME IInv, NEW p \in Proc, Works(p)
  PROVE  Planned'
<1>1. CASE \E c \in Command : Begins(p, c)
  BY <1>1 DEF IInv, TypeOK, Planned, Active, Begins, Start, Goto, files, TargetOf, Command
<1>2. CASE SaveBlob(p)
  BY <1>2 DEF IInv, TypeOK, Planned, Places, Active, SaveBlob, AtLock, Goto
<1>3. CASE SaveProposal(p)
  BY <1>3 DEF IInv, TypeOK, Planned, Places, Active, SaveProposal, Quit
<1>4. CASE Enter(p, "apply", Applicable(p))
  BY <1>4 DEF IInv, TypeOK, Planned, Places, Active, Enter, AtLock, Goto, files, Applicable, FreshPreimage, Preimage
<1>5. CASE Enter(p, "rollback", Reversible(p))
  BY <1>5 DEF IInv, TypeOK, Planned, Places, Active, Enter, AtLock, Goto, files, Reversible
<1>6. CASE WriteFile(p)
  BY <1>6 DEF IInv, TypeOK, Planned, Places, Active, WriteFile, Goto
<1>7. CASE CommitDdl(p)
  BY <1>7 DEF IInv, TypeOK, Planned, Places, Active, CommitDdl, Goto
<1>8. CASE WriteOriginal(p)
  BY <1>8 DEF IInv, TypeOK, Planned, Places, Active, WriteOriginal, Goto
<1>9. CASE RecomputeGate(p)
  BY <1>9 DEF IInv, TypeOK, Planned, Places, Active, RecomputeGate, Goto, files
<1>10. CASE ApproveTransaction(p) \/ SaveApplied(p) \/ SaveRolledBack(p)
  BY <1>10, RecordsStay DEF IInv, TypeOK, Planned, Places, Active
<1> QED
  BY <1>1, <1>2, <1>3, <1>4, <1>5, <1>6, <1>7, <1>8, <1>9, <1>10 DEF Works

\* What was checked under the lock cannot be changed by who does not hold it.
LEMMA ChecksHoldStep ==
  ASSUME IInv, NEW p \in Proc, Works(p)
  PROVE  ChecksHold'
<1>1. CASE \E c \in Command : Begins(p, c)
  BY <1>1 DEF IInv, TypeOK, ChecksHold, Places, LockIsHeld, Active, Begins, Start, Goto, files
<1>2. CASE SaveBlob(p)
  BY <1>2 DEF IInv, TypeOK, ChecksHold, Places, LockIsHeld, Active, SaveBlob, AtLock, Goto
<1>3. CASE SaveProposal(p)
  BY <1>3 DEF IInv, TypeOK, ChecksHold, Places, LockIsHeld, Active, SaveProposal, Quit
<1>4. CASE Enter(p, "apply", Applicable(p))
  <2>1. p \in Active /\ cmd[p].op = "apply"
    BY <1>4 DEF Active, Enter, AtLock
  <2>2. cmd[p].kind # "ddl-apply" =>
          work[p][cmd[p].region] = txn[cmd[p].txn].original[cmd[p].region]
    BY <1>4, <2>1, FreshMeans DEF IInv, RecordKnown, Enter, Applicable
  <2> QED
    BY <1>4, <2>1, <2>2 DEF IInv, TypeOK, ChecksHold, Active, Enter, Goto, files
<1>5. CASE Enter(p, "rollback", Reversible(p))
  BY <1>5 DEF IInv, TypeOK, ChecksHold, RecordKnown, Active, Enter, AtLock, Goto, files, Reversible
<1>6. CASE WriteFile(p)
  BY <1>6 DEF IInv, TypeOK, ChecksHold, Places, LockIsHeld, Active, WriteFile, Goto
<1>7. CASE CommitDdl(p)
  BY <1>7 DEF IInv, TypeOK, ChecksHold, Places, LockIsHeld, Active, CommitDdl, Goto
<1>8. CASE WriteOriginal(p)
  BY <1>8 DEF IInv, TypeOK, ChecksHold, Places, LockIsHeld, Active, WriteOriginal, Goto
<1>9. CASE RecomputeGate(p)
  BY <1>9 DEF IInv, TypeOK, ChecksHold, Places, LockIsHeld, Active, RecomputeGate, Goto, files
<1>10. CASE ApproveTransaction(p) \/ SaveApplied(p) \/ SaveRolledBack(p)
  BY <1>10, NobodyInside DEF ChecksHold, Active
<1> QED
  BY <1>1, <1>2, <1>3, <1>4, <1>5, <1>6, <1>7, <1>8, <1>9, <1>10 DEF Works

\* What was written is a document.
LEMMA WrittenStep ==
  ASSUME IInv, NEW p \in Proc, Works(p)
  PROVE  Written'
<1>1. CASE \E c \in Command : Begins(p, c)
  BY <1>1 DEF IInv, TypeOK, Written, Active, Begins, Start, Goto, files
<1>2. CASE SaveBlob(p)
  BY <1>2 DEF IInv, TypeOK, Written, Active, SaveBlob, AtLock, Goto
<1>3. CASE SaveProposal(p)
  BY <1>3 DEF IInv, TypeOK, Written, Active, SaveProposal, Quit
<1>4. CASE Enter(p, "apply", Applicable(p))
  BY <1>4 DEF IInv, TypeOK, Written, Active, Enter, AtLock, Goto, files, Applicable, FreshPreimage, Preimage
<1>5. CASE Enter(p, "rollback", Reversible(p))
  BY <1>5 DEF IInv, TypeOK, Written, Active, Enter, AtLock, Goto, files, Reversible
<1>6. CASE WriteFile(p)
  <2>1. /\ cmd[p] \in Command /\ work[p] \in Doc
        /\ cmd[p].kind = "config-apply" => work[p][cmd[p].region].wraps < MaxWraps
    BY <1>6 DEF IInv, TypeOK, Planned, Active, WriteFile
  <2>2. cmd[p].kind \in AllKinds /\ cmd[p].region \in Region
    BY <2>1 DEF Command
  <2>3. Rendered(cmd[p].kind, cmd[p].region, work[p]) \in Doc
    BY <2>1, <2>2, RenderedTyped
  <2> QED
    BY <1>6, <2>3 DEF IInv, TypeOK, Written, Active, WriteFile, Goto
<1>7. CASE CommitDdl(p)
  <2>1. cmd[p] \in Command /\ content["db"] \in Doc
    BY <1>7 DEF IInv, TypeOK, CommitDdl
  <2>2. Rendered(cmd[p].kind, cmd[p].region, content["db"]) \in Doc
    BY <1>7, <2>1, RenderedTyped DEF Command, CommitDdl
  <2> QED
    BY <1>7, <2>2 DEF IInv, TypeOK, Written, Active, CommitDdl, Goto
<1>8. CASE WriteOriginal(p)
  BY <1>8 DEF IInv, TypeOK, Written, Active, WriteOriginal, Goto
<1>9. CASE RecomputeGate(p)
  BY <1>9 DEF IInv, TypeOK, Written, Active, RecomputeGate, Goto, files
<1>10. CASE ApproveTransaction(p) \/ SaveApplied(p) \/ SaveRolledBack(p)
  BY <1>10, RecordsStay DEF IInv, TypeOK, Written, Active
<1> QED
  BY <1>1, <1>2, <1>3, <1>4, <1>5, <1>6, <1>7, <1>8, <1>9, <1>10 DEF Works

\* Blobs are never removed.
LEMMA BlobSavedStep ==
  ASSUME IInv, NEW p \in Proc, Works(p)
  PROVE  BlobSaved'
<1>1. CASE \E c \in Command : Begins(p, c)
  BY <1>1 DEF IInv, TypeOK, BlobSaved, Active, Begins, Start, Goto, files
<1>2. CASE SaveBlob(p)
  BY <1>2 DEF IInv, TypeOK, BlobSaved, Active, SaveBlob, AtLock, Goto
<1>3. CASE SaveProposal(p)
  BY <1>3 DEF IInv, TypeOK, BlobSaved, Active, SaveProposal, Quit
<1>4. CASE Enter(p, "apply", Applicable(p))
  BY <1>4 DEF IInv, TypeOK, BlobSaved, Active, Enter, AtLock, Goto, files, Applicable, FreshPreimage, Preimage
<1>5. CASE Enter(p, "rollback", Reversible(p))
  BY <1>5 DEF IInv, TypeOK, BlobSaved, Active, Enter, AtLock, Goto, files, Reversible
<1>6. CASE WriteFile(p)
  BY <1>6 DEF IInv, TypeOK, BlobSaved, Active, WriteFile, Goto
<1>7. CASE CommitDdl(p)
  BY <1>7 DEF IInv, TypeOK, BlobSaved, Active, CommitDdl, Goto
<1>8. CASE WriteOriginal(p)
  BY <1>8 DEF IInv, TypeOK, BlobSaved, Active, WriteOriginal, Goto
<1>9. CASE RecomputeGate(p)
  BY <1>9 DEF IInv, TypeOK, BlobSaved, Active, RecomputeGate, Goto, files
<1>10. CASE ApproveTransaction(p) \/ SaveApplied(p) \/ SaveRolledBack(p)
  BY <1>10, RecordsStay DEF IInv, TypeOK, BlobSaved, Active
<1> QED
  BY <1>1, <1>2, <1>3, <1>4, <1>5, <1>6, <1>7, <1>8, <1>9, <1>10 DEF Works

\* Only the holder of the lock changes a record.
LEMMA RecordHeldStep ==
  ASSUME IInv, NEW p \in Proc, Works(p)
  PROVE  RecordHeld'
<1>1. CASE \E c \in Command : Begins(p, c)
  BY <1>1 DEF IInv, TypeOK, RecordHeld, Places, LockIsHeld, Active, Begins, Start, Goto, files
<1>2. CASE SaveBlob(p)
  BY <1>2 DEF IInv, TypeOK, RecordHeld, Places, LockIsHeld, Active, SaveBlob, AtLock, Goto
<1>3. CASE SaveProposal(p)
  BY <1>3 DEF IInv, TypeOK, RecordHeld, Places, LockIsHeld, Active, SaveProposal, Quit
<1>4. CASE Enter(p, "apply", Applicable(p))
  BY <1>4 DEF IInv, TypeOK, RecordHeld, Places, LockIsHeld, Active, Enter, AtLock, Goto, files, Applicable, FreshPreimage, Preimage
<1>5. CASE Enter(p, "rollback", Reversible(p))
  BY <1>5 DEF IInv, TypeOK, RecordHeld, Places, LockIsHeld, Active, Enter, AtLock, Goto, files, Reversible
<1>6. CASE WriteFile(p)
  BY <1>6 DEF IInv, TypeOK, RecordHeld, Places, LockIsHeld, Active, WriteFile, Goto
<1>7. CASE CommitDdl(p)
  BY <1>7 DEF IInv, TypeOK, RecordHeld, Places, LockIsHeld, Active, CommitDdl, Goto
<1>8. CASE WriteOriginal(p)
  BY <1>8 DEF IInv, TypeOK, RecordHeld, Places, LockIsHeld, Active, WriteOriginal, Goto
<1>9. CASE RecomputeGate(p)
  BY <1>9 DEF IInv, TypeOK, RecordHeld, Places, LockIsHeld, Active, RecomputeGate, Goto, files
<1>10. CASE ApproveTransaction(p) \/ SaveApplied(p) \/ SaveRolledBack(p)
  BY <1>10, NobodyInside DEF RecordHeld
<1> QED
  BY <1>1, <1>2, <1>3, <1>4, <1>5, <1>6, <1>7, <1>8, <1>9, <1>10 DEF Works

\* Only a proposal makes a record, and its blob is there.
LEMMA BlobBeforeRecordStep ==
  ASSUME IInv, NEW p \in Proc, Works(p)
  PROVE  BlobBeforeRecord'
<1>1. CASE \E c \in Command : Begins(p, c)
  BY <1>1 DEF IInv, TypeOK, BlobBeforeRecord, BlobSaved, Active, Begins, Start, Goto, files
<1>2. CASE SaveBlob(p)
  BY <1>2 DEF IInv, TypeOK, BlobBeforeRecord, BlobSaved, Active, SaveBlob, AtLock, Goto
<1>3. CASE SaveProposal(p)
  BY <1>3 DEF IInv, TypeOK, BlobBeforeRecord, BlobSaved, Active, SaveProposal, Quit
<1>4. CASE Enter(p, "apply", Applicable(p))
  BY <1>4 DEF IInv, TypeOK, BlobBeforeRecord, BlobSaved, Active, Enter, AtLock, Goto, files, Applicable, FreshPreimage, Preimage
<1>5. CASE Enter(p, "rollback", Reversible(p))
  BY <1>5 DEF IInv, TypeOK, BlobBeforeRecord, BlobSaved, Active, Enter, AtLock, Goto, files, Reversible
<1>6. CASE WriteFile(p)
  BY <1>6 DEF IInv, TypeOK, BlobBeforeRecord, BlobSaved, Active, WriteFile, Goto
<1>7. CASE CommitDdl(p)
  BY <1>7 DEF IInv, TypeOK, BlobBeforeRecord, BlobSaved, Active, CommitDdl, Goto
<1>8. CASE WriteOriginal(p)
  BY <1>8 DEF IInv, TypeOK, BlobBeforeRecord, BlobSaved, Active, WriteOriginal, Goto
<1>9. CASE RecomputeGate(p)
  BY <1>9 DEF IInv, TypeOK, BlobBeforeRecord, BlobSaved, Active, RecomputeGate, Goto, files
<1>10. CASE ApproveTransaction(p) \/ SaveApplied(p) \/ SaveRolledBack(p)
  BY <1>10, RecordsStay DEF IInv, TypeOK, BlobBeforeRecord, BlobSaved, Active
<1> QED
  BY <1>1, <1>2, <1>3, <1>4, <1>5, <1>6, <1>7, <1>8, <1>9, <1>10 DEF Works

-----------------------------------------------------------------------------
(* The lock and the types.                                                 *)

\* Who takes the lock stands inside, and who leaves gives it back.
LEMMA LockIsHeldStep ==
  ASSUME IInv, [Next]_vars
  PROVE  LockIsHeld'
<1> USE PatchAssumption DEF IInv, TypeOK, LockIsHeld
<1>1. ASSUME NEW p \in Proc, NEW c \in Command, Begins(p, c) PROVE LockIsHeld'
  BY <1>1 DEF Begins, Start, Goto
<1>2. ASSUME NEW p \in Proc, LockTimeout(p) \/ DdlFails(p) \/ ApproveTransaction(p)
      PROVE  LockIsHeld'
  BY <1>2 DEF LockTimeout, DdlFails, ApproveTransaction, AtLock, Quit
<1>3. ASSUME NEW p \in Proc, SaveBlob(p) \/ SaveProposal(p) PROVE LockIsHeld'
  BY <1>3 DEF SaveBlob, SaveProposal, AtLock, Goto, Quit
<1>4. ASSUME NEW p \in Proc, NEW op \in {"apply", "rollback"}, NEW ok,
             Enter(p, op, ok) \/ Refuse(p, op, ok)
      PROVE  LockIsHeld'
  BY <1>4 DEF Enter, Refuse, AtLock, Goto, Quit
<1>5. ASSUME NEW p \in Proc, WriteFile(p) \/ CommitDdl(p) \/ WriteOriginal(p) \/ BuildFails(p) \/ CommitUnreported(p)
      PROVE  LockIsHeld'
  BY <1>5 DEF WriteFile, CommitDdl, WriteOriginal, BuildFails, CommitUnreported, Goto, Quit
<1>6. ASSUME NEW p \in Proc, SaveApplied(p) \/ SaveRolledBack(p) PROVE LockIsHeld'
  BY <1>6 DEF SaveApplied, SaveRolledBack, Goto
<1>7. ASSUME NEW p \in Proc, RecomputeGate(p) \/ PassGate(p) PROVE LockIsHeld'
  BY <1>7 DEF RecomputeGate, PassGate, Goto, Quit
<1>8. ASSUME NEW p \in Proc, Crash(p) \/ RemoveStaleLock(p) PROVE LockIsHeld'
  BY <1>8 DEF Crash, RemoveStaleLock, Goto
<1>9. CASE (\E target \in {"file", "db"}, r \in Region, text \in Text : Edit(target, r, text)) \/ UNCHANGED vars
  BY <1>9 DEF Edit, locals, vars
<1> QED
  BY <1>1, <1>2, <1>3, <1>4, <1>5, <1>6, <1>7, <1>8, <1>9, StartsAreCommands DEF Next, Step

\* The inputs of the gate are triples of an id, a record and a document.
LEMMA GateInputsTyped ==
  ASSUME TypeOK
  PROVE  GateInputs \subseteq Txn \X Record \X (Doc \cup {NoDoc})
BY DEF TypeOK, GateInputs

\* Every step keeps the types.
LEMMA TypeOKStep ==
  ASSUME IInv, [Next]_vars
  PROVE  TypeOK'
<1> USE PatchAssumption
<1>1. ASSUME NEW p \in Proc, NEW c \in Command, Begins(p, c) PROVE TypeOK'
  <2>1. content[TargetOf(c.kind)] \in Doc
    BY DEF IInv, TypeOK, TargetOf
  <2>2. work' \in [Proc -> Doc \cup {NoDoc}]
    BY <1>1, <2>1 DEF IInv, TypeOK, Begins, Start
  <2>3. count' \in [commands : 0..MaxCommands, edits : 0..MaxEdits, crashes : 0..MaxCrashes]
    BY <1>1 DEF IInv, TypeOK, Begins, Start
  <2> QED
    BY <1>1, <2>2, <2>3 DEF IInv, TypeOK, Begins, Start, Goto, files
<1>2. ASSUME NEW p \in Proc,
             LockTimeout(p) \/ DdlFails(p) \/
             \E op \in {"apply", "rollback"} : Refuse(p, op, Applicable(p)) \/ Refuse(p, op, Reversible(p))
      PROVE  TypeOK'
  BY <1>2 DEF IInv, TypeOK, LockTimeout, DdlFails, Refuse, Quit, files
<1>3. ASSUME NEW p \in Proc, SaveBlob(p) PROVE TypeOK'
  <2>1. work[p] \in Doc
    BY <1>3 DEF IInv, Planned, Active, SaveBlob, AtLock
  <2> QED
    BY <1>3, <2>1 DEF IInv, TypeOK, SaveBlob, AtLock, Goto
<1>4. ASSUME NEW p \in Proc, SaveProposal(p) PROVE TypeOK'
  <2>1. cmd[p] \in Command /\ work[p] \in Doc
    BY <1>4 DEF IInv, TypeOK, Places, Planned, Active, SaveProposal
  <2>2. [kind |-> cmd[p].kind, region |-> cmd[p].region, original |-> work[p],
         status |-> "proposed", postimage |-> NoDoc] \in Record
    BY <2>1 DEF Command, Record
  <2> QED
    BY <1>4, <2>2 DEF IInv, TypeOK, SaveProposal, Quit
<1>5. ASSUME NEW p \in Proc, ApproveTransaction(p) PROVE TypeOK'
  <2>1. cmd[p].txn \in Txn /\ txn[cmd[p].txn] \in Record
    BY <1>5 DEF IInv, TypeOK, RecordKnown, Active, Command, ApproveTransaction, AtLock
  <2>2. [txn[cmd[p].txn] EXCEPT !.status = "approved"] \in Record
    BY <2>1 DEF Record
  <2>3. txn' \in [Txn -> Record \cup {NoTxn}]
    BY <1>5, <2>2 DEF IInv, TypeOK, ApproveTransaction
  <2> QED
    BY <1>5, <2>3 DEF IInv, TypeOK, ApproveTransaction, Quit
<1>6. ASSUME NEW p \in Proc, NEW op \in {"apply", "rollback"}, NEW ok, Enter(p, op, ok) PROVE TypeOK'
  BY <1>6 DEF IInv, TypeOK, Enter, AtLock, Goto, files
<1>7. ASSUME NEW p \in Proc, WriteFile(p) \/ CommitDdl(p) PROVE TypeOK'
  <2>1. p \in Active /\ p \in Active' /\ cmd' = cmd /\ cmd[p].op = "apply" /\ pc'[p] = "written"
    BY <1>7 DEF IInv, TypeOK, Active, WriteFile, CommitDdl, Goto
  <2>2. work'[p] \in Doc
    BY <1>7, <2>1, WrittenStep DEF Works, Written
  <2>3. content' \in [{"file", "db"} -> Doc] /\ work' \in [Proc -> Doc \cup {NoDoc}]
    BY <1>7, <2>2 DEF IInv, TypeOK, WriteFile, CommitDdl
  <2> QED
    BY <1>7, <2>3 DEF IInv, TypeOK, WriteFile, CommitDdl, Goto
<1>8. ASSUME NEW p \in Proc, WriteOriginal(p) \/ BuildFails(p) PROVE TypeOK'
  <2>1. cmd[p].txn \in Txn /\ txn[cmd[p].txn] \in Record
    BY <1>8 DEF IInv, TypeOK, RecordKnown, Active, Command, WriteOriginal, BuildFails
  <2>2. content' \in [{"file", "db"} -> Doc]
    BY <1>8, <2>1 DEF IInv, TypeOK, Record, WriteOriginal, BuildFails
  <2> QED
    BY <1>8, <2>2 DEF IInv, TypeOK, WriteOriginal, BuildFails, Goto, Quit
<1>9. ASSUME NEW p \in Proc, SaveApplied(p) \/ SaveRolledBack(p) PROVE TypeOK'
  <2>1. p \in Active /\ cmd[p].op # "propose" /\ cmd[p] \in Command /\ work[p] \in Doc \cup {NoDoc}
    BY <1>9 DEF IInv, TypeOK, Active, SaveApplied, SaveRolledBack
  <2>2. cmd[p].txn \in Txn /\ txn[cmd[p].txn] \in Record
    BY <2>1 DEF IInv, TypeOK, RecordKnown, Command
  <2>3. /\ [txn[cmd[p].txn] EXCEPT !.status = "applied", !.postimage = work[p]] \in Record
        /\ [txn[cmd[p].txn] EXCEPT !.status = "rolled_back"] \in Record
    BY <2>1, <2>2 DEF Record
  <2>4. txn' \in [Txn -> Record \cup {NoTxn}]
    BY <1>9, <2>2, <2>3 DEF IInv, TypeOK, SaveApplied, SaveRolledBack
  <2> QED
    BY <1>9, <2>4 DEF IInv, TypeOK, SaveApplied, SaveRolledBack, Goto
<1>10. ASSUME NEW p \in Proc, RecomputeGate(p) \/ PassGate(p) PROVE TypeOK'
  BY <1>10, GateInputsTyped DEF IInv, TypeOK, RecomputeGate, PassGate, Goto, Quit, files
<1>11. ASSUME NEW p \in Proc, Crash(p) PROVE TypeOK'
  <2>1. count' \in [commands : 0..MaxCommands, edits : 0..MaxEdits, crashes : 0..MaxCrashes]
    BY <1>11 DEF IInv, TypeOK, Crash
  <2> QED
    BY <1>11, <2>1 DEF IInv, TypeOK, Crash, files
<1>12. ASSUME NEW p \in Proc, RemoveStaleLock(p) PROVE TypeOK'
  BY <1>12 DEF IInv, TypeOK, RemoveStaleLock, Goto, files
<1>13. ASSUME NEW target \in {"file", "db"}, NEW r \in Region, NEW text \in Text, Edit(target, r, text)
       PROVE  TypeOK'
  <2>1. count' \in [commands : 0..MaxCommands, edits : 0..MaxEdits, crashes : 0..MaxCrashes]
    BY <1>13 DEF IInv, TypeOK, Edit
  <2>2. [content[target][r] EXCEPT !.text = text] \in Value
    BY DEF IInv, TypeOK, Doc, Value
  <2>3. content' \in [{"file", "db"} -> Doc]
    BY <1>13, <2>2 DEF IInv, TypeOK, Doc, Edit
  <2> QED
    BY <1>13, <2>1, <2>3 DEF IInv, TypeOK, Edit, locals
<1>14. ASSUME NEW p \in Proc, CommitUnreported(p) PROVE TypeOK'
  <2>1. cmd[p] \in Command /\ content["db"] \in Doc
    BY <1>14 DEF IInv, TypeOK, CommitUnreported
  <2>2. Rendered(cmd[p].kind, cmd[p].region, content["db"]) \in Doc
    BY <1>14, <2>1, RenderedTyped DEF Command, CommitUnreported
  <2>3. content' \in [{"file", "db"} -> Doc]
    BY <1>14, <2>2 DEF IInv, TypeOK, CommitUnreported
  <2> QED
    BY <1>14, <2>3 DEF IInv, TypeOK, CommitUnreported, Quit
<1>15. CASE UNCHANGED vars
  BY <1>15 DEF IInv, TypeOK, vars
<1> QED
  BY <1>1, <1>2, <1>3, <1>4, <1>5, <1>6, <1>7, <1>8, <1>9, <1>10, <1>11, <1>12, <1>13, <1>14, <1>15,
     StartsAreCommands DEF IInv, Next, Step

-----------------------------------------------------------------------------
(* The theorems.                                                           *)

\* Nothing is recorded and nobody works at the start.
LEMMA InitIInv == Init => IInv
<1> SUFFICES ASSUME Init PROVE IInv
  OBVIOUS
<1>1. \A text \in Text : [r \in Region |-> [text |-> text, wraps |-> 0]] \in Doc
  BY PatchAssumption DEF Doc, Value
<1>2. TypeOK
  <2>1. content \in [{"file", "db"} -> Doc]
    BY <1>1 DEF Init
  <2>2. /\ pc = [p \in Proc |-> "idle"] /\ cmd = [p \in Proc |-> NoTxn]
        /\ work = [p \in Proc |-> NoDoc] /\ seen = [p \in Proc |-> {}]
        /\ txn = [t \in Txn |-> NoTxn]
        /\ count = [commands |-> 0, edits |-> 0, crashes |-> 0]
        /\ blobs = {} /\ gate = NoGate /\ lock = NoProc
    BY DEF Init
  <2> QED
    BY <2>1, <2>2, PatchAssumption DEF TypeOK
<1>3. Active = {}
  BY DEF Init, Active
<1>4. LockIsHeld /\ RecordHeld /\ BlobBeforeRecord
  BY PatchAssumption DEF Init, LockIsHeld, RecordHeld, BlobBeforeRecord
<1> QED
  BY <1>2, <1>3, <1>4 DEF IInv, Places, RecordKnown, Planned, ChecksHold, Written, BlobSaved

\* Every step keeps all of it.
LEMMA StepIInv == IInv /\ [Next]_vars => IInv'
<1> SUFFICES ASSUME IInv, [Next]_vars PROVE IInv'
  OBVIOUS
<1>1. CASE \E p \in Proc : Works(p)
  BY <1>1, TypeOKStep, LockIsHeldStep, PlacesStep, RecordKnownStep, PlannedStep, ChecksHoldStep,
     WrittenStep, BlobSavedStep, RecordHeldStep, BlobBeforeRecordStep DEF IInv
<1>2. CASE Calm
  BY <1>2, TypeOKStep, LockIsHeldStep, CalmKeeps DEF IInv
<1>3. (\E p \in Proc : Works(p)) \/ Calm
  <2>1. CASE UNCHANGED vars
    BY <2>1 DEF Calm, Active, vars
  <2>2. CASE \E target \in {"file", "db"}, r \in Region, text \in Text : Edit(target, r, text)
    BY <2>2 DEF Calm, Active, Edit, locals
  <2>3. CASE \E p \in Proc : Step(p) \/ Crash(p) \/ RemoveStaleLock(p)
    BY <2>3, CalmSteps DEF IInv, Works, Step
  <2>4. CASE \E p \in Proc, t \in Txn :
               \/ \E kind \in Kind, r \in Region : Propose(p, t, kind, r)
               \/ Invoke(p, t, "approve", FALSE)
               \/ Invoke(p, t, "apply", FALSE)
               \/ \E force \in ForceFlag : Invoke(p, t, "rollback", force)
    BY <2>4, StartsAreCommands DEF IInv, Works
  <2> QED
    BY <2>1, <2>2, <2>3, <2>4 DEF Next
<1> QED
  BY <1>1, <1>2, <1>3

\* So all of it holds in every reachable state.
THEOREM Inductive == Spec => []IInv
<1> QED
  BY InitIInv, StepIInv, PTL DEF Spec

\* Every variable keeps its type.
THEOREM TypeCorrect == Spec => []TypeOK
<1>1. IInv => TypeOK
  BY DEF IInv
<1> QED
  BY <1>1, Inductive, PTL

\* withLockAsync: no other command changes a record between the checks of apply
\* or rollback and their save, over all the awaits.
THEOREM RecordHeldCorrect == Spec => []RecordHeld
<1>1. IInv => RecordHeld
  BY DEF IInv
<1> QED
  BY <1>1, Inductive, PTL

\* proposeTransaction: wherever a process dies, a transaction on disk can be
\* undone: the document of before is on disk as well.
THEOREM BlobBeforeRecordCorrect == Spec => []BlobBeforeRecord
<1>1. IInv => BlobBeforeRecord
  BY DEF IInv
<1> QED
  BY <1>1, Inductive, PTL

\* The step that writes is one of four.
LEMMA WritingSteps ==
  ASSUME IInv, [Next]_vars, NEW p \in Proc, pc[p] = "checked", Writes(p)
  PROVE  WriteFile(p) \/ CommitDdl(p) \/ CommitUnreported(p) \/ WriteOriginal(p)
<1> USE DEF IInv, TypeOK, Writes
<1>1. ASSUME NEW q \in Proc, NEW c \in Command, Begins(q, c) PROVE FALSE
  BY <1>1 DEF Begins, Start, Goto, files
<1>2. ASSUME NEW q \in Proc, \/ LockTimeout(q) \/ SaveBlob(q) \/ SaveProposal(q) \/ ApproveTransaction(q)
                             \/ BuildFails(q) \/ DdlFails(q) \/ PassGate(q)
      PROVE  FALSE
  BY <1>2 DEF LockTimeout, SaveBlob, SaveProposal, ApproveTransaction, AtLock, BuildFails, DdlFails,
              PassGate, Goto, Quit, files
<1>3. ASSUME NEW q \in Proc, NEW op \in {"apply", "rollback"}, NEW ok, Enter(q, op, ok) \/ Refuse(q, op, ok)
      PROVE  FALSE
  BY <1>3 DEF Enter, Refuse, AtLock, Goto, Quit, files
<1>4. ASSUME NEW q \in Proc, SaveApplied(q) \/ SaveRolledBack(q) \/ RecomputeGate(q) \/ Crash(q) \/ RemoveStaleLock(q)
      PROVE  FALSE
  BY <1>4 DEF SaveApplied, SaveRolledBack, RecomputeGate, Crash, RemoveStaleLock, Goto, files
<1>5. ASSUME NEW q \in Proc \ {p}, WriteFile(q) \/ CommitDdl(q) \/ CommitUnreported(q) \/ WriteOriginal(q)
      PROVE  FALSE
  BY <1>5 DEF WriteFile, CommitDdl, CommitUnreported, WriteOriginal, Goto, Quit
<1>6. CASE (\E target \in {"file", "db"}, r \in Region, text \in Text : Edit(target, r, text)) \/ UNCHANGED vars
  BY <1>6 DEF Edit, locals, vars
<1>7. ASSUME NEW q \in Proc, Step(q) \/ Crash(q) \/ RemoveStaleLock(q)
      PROVE  WriteFile(p) \/ CommitDdl(p) \/ CommitUnreported(p) \/ WriteOriginal(p)
  <2>1. CASE q = p
    BY <1>2, <1>3, <1>4, <1>7, <2>1 DEF Step
  <2>2. CASE q # p
    BY <1>2, <1>3, <1>4, <1>5, <1>7, <2>2 DEF Step
  <2> QED
    BY <2>1, <2>2
<1> HIDE DEF IInv, TypeOK, Writes
<1>8. TypeOK
  BY DEF IInv
<1> QED
  BY <1>1, <1>6, <1>7, <1>8, StartsAreCommands DEF Next

\* One write puts into the region of the record what was reviewed.
LEMMA WritesAsReviewed ==
  ASSUME IInv, [Next]_vars, NEW p \in Proc, pc[p] = "checked", Writes(p)
  PROVE  LET rec == txn[cmd[p].txn] IN
         content'[TargetOf(rec.kind)][rec.region] =
           IF cmd[p].op = "apply" THEN ProposedValue(rec) ELSE rec.original[rec.region]
<1> DEFINE rec == txn[cmd[p].txn]
<1>1. p \in Active /\ cmd[p] \in Command /\ cmd[p].op \in {"apply", "rollback"}
  BY DEF IInv, TypeOK, Active, Places
<1>2. rec \in Record /\ rec.kind = cmd[p].kind /\ rec.region = cmd[p].region
  BY <1>1 DEF IInv, TypeOK, RecordKnown, Command
<1>3. cmd[p].kind \in AllKinds /\ cmd[p].region \in Region
  BY <1>1 DEF Command
<1>4. CASE WriteFile(p)
  <2>1. cmd[p].kind # "ddl-apply" /\ cmd[p].op = "apply"
    BY <1>4 DEF WriteFile
  <2>2. /\ work[p] \in Doc
        /\ cmd[p].kind = "config-apply" => work[p][cmd[p].region].wraps < MaxWraps
        /\ work[p][cmd[p].region] = rec.original[cmd[p].region]
    BY <1>1, <2>1 DEF IInv, Planned, ChecksHold
  <2>3. Rendered(cmd[p].kind, cmd[p].region, work[p])[cmd[p].region] = ProposedValue(rec)
    BY <1>2, <1>3, <2>2, RenderedTyped DEF ProposedValue
  <2>4. content'["file"] = Rendered(cmd[p].kind, cmd[p].region, work[p])
    BY <1>4 DEF IInv, TypeOK, WriteFile
  <2> QED
    BY <1>2, <2>1, <2>3, <2>4 DEF TargetOf
<1>5. CASE CommitDdl(p)
  <2>1. cmd[p].kind = "ddl-apply" /\ cmd[p].op = "apply" /\ content["db"] \in Doc
    BY <1>5 DEF IInv, TypeOK, CommitDdl
  <2>2. Rendered(cmd[p].kind, cmd[p].region, content["db"])[cmd[p].region] = ProposedValue(rec)
    BY <1>2, <1>3, <2>1, RenderedTyped DEF ProposedValue, Patched
  <2>3. content'["db"] = Rendered(cmd[p].kind, cmd[p].region, content["db"])
    BY <1>5 DEF IInv, TypeOK, CommitDdl
  <2> QED
    BY <1>2, <2>1, <2>2, <2>3 DEF TargetOf
<1>6. CASE WriteOriginal(p)
  <2>1. cmd[p].kind # "ddl-apply" /\ cmd[p].op = "rollback"
    BY <1>1, <1>6 DEF IInv, ChecksHold, WriteOriginal
  <2>2. content'["file"] = rec.original
    BY <1>6 DEF IInv, TypeOK, WriteOriginal
  <2> QED
    BY <1>2, <2>1, <2>2 DEF TargetOf
<1>7. CASE CommitUnreported(p)
  <2>1. cmd[p].kind = "ddl-apply" /\ cmd[p].op = "apply" /\ content["db"] \in Doc
    BY <1>7 DEF IInv, TypeOK, CommitUnreported
  <2>2. Rendered(cmd[p].kind, cmd[p].region, content["db"])[cmd[p].region] = ProposedValue(rec)
    BY <1>2, <1>3, <2>1, RenderedTyped DEF ProposedValue, Patched
  <2>3. content'["db"] = Rendered(cmd[p].kind, cmd[p].region, content["db"])
    BY <1>7 DEF IInv, TypeOK, CommitUnreported
  <2> QED
    BY <1>2, <2>1, <2>2, <2>3 DEF TargetOf
<1> QED
  BY <1>4, <1>5, <1>6, <1>7, WritingSteps

\* Whatever was edited, applied, rolled back, approved again or killed in
\* between: apply leaves the region of its transaction at the value that was
\* proposed and approved, rollback at the one that was there before.
THEOREM ReviewedWritesCorrect == Spec => ReviewedWrites
<1>1. IInv /\ [Next]_vars =>
        [\A p \in Proc :
           pc[p] = "checked" /\ Writes(p) =>
             LET rec == txn[cmd[p].txn] IN
             content'[TargetOf(rec.kind)][rec.region] =
               IF cmd[p].op = "apply" THEN ProposedValue(rec)
               ELSE rec.original[rec.region]]_vars
  BY WritesAsReviewed
<1> QED
  BY <1>1, Inductive, PTL DEF Spec, ReviewedWrites
=============================================================================
