----------------------------- MODULE Repository -----------------------------
(***************************************************************************)
(* One repository with everything that writes to it beside the gates:      *)
(* feature commands, handles emit, a server and a person at the files.     *)
(* They share the features, the manifest and the lock of the state.        *)
(***************************************************************************)
EXTENDS ServeLoop

\* There are two features at the beginning.
ASSUME FeaturesAssumption ==
  /\ MaxNumber >= 2 /\ \E s, t \in Slug : s # t
  /\ \E u, v \in Uid : u # v

vars == <<lifecycleVars, handlesVars, req>>

TypeOK == LifecycleTypeOK /\ HandlesTypeOK /\ ServeTypeOK

\* Two features with the gates that handles emit asks for, and with contracts or without.
Init ==
  LET a      == CHOOSE s \in Slug : TRUE
      one    == <<1, a>>
      two    == <<2, CHOOSE s \in Slug : s # a>>
      first  == CHOOSE u \in Uid : \A v \in Uid : u <= v
      second == CHOOSE u \in Uid \ {first} : \A v \in Uid \ {first} : u <= v
  IN  /\ \E bare \in SUBSET {one, two} :
           specs = [i \in Id |->
             IF i \in {one, two}
             THEN [uid |-> IF i = one THEN first ELSE second, feature_id |-> i, archived |-> FALSE,
                   contract |-> IF i \in bare THEN Absent ELSE i]
             ELSE Absent]
      /\ sbf = [i \in Id |-> IF i \in {one, two} THEN [feature_id |-> i, gates |-> Needed] ELSE Absent]
      /\ history = [i \in Id |-> IF i \in {one, two} THEN Needed ELSE {}]
      /\ index = [by_uid |-> [u \in Uid |-> IF u = first THEN <<one>> ELSE IF u = second THEN <<two>> ELSE <<>>],
                  merged |-> [i \in Id |-> Absent]]
      /\ told = [u \in Uid |-> IF u \in {first, second} THEN Needed ELSE {}]
      /\ minted = {first, second} /\ torn = {} /\ removed = {}
      /\ featureLock = NoHolder /\ stateLock = NoHolder
      /\ proc = [p \in Process |-> Idle]
      /\ HandlesInit(one)
      /\ req = [r \in Request |-> NoRequest]

Features == (RemoveStaleLock \/ (\E id \in Id : RemoveDirectory(id)) \/ \E p \in Process : FeatureStep(p))
            /\ UNCHANGED <<disk, head, emit, cut, blocked, req>>

Handles == (HandStep \/ \E p \in Process : EmitStep(p)) /\ UNCHANGED req

Requests == RequestStep /\ UNCHANGED <<disk, head, emit, cut, blocked>>

Next ==
  /\ Features \/ Handles \/ Requests
  /\ UNCHANGED lost
  /\ overlap' = (overlap \/ Cardinality({p \in Process : Holds(p)}') > 1)

Spec == Init /\ [][Next]_vars

-----------------------------------------------------------------------------
(* What a rename promises to the other commands.                           *)

\* A rename is invisible to everything else: a feature is found under its last id with all it had, and
\* nothing of it is left under an id it had before.  That goes for the manifest as long as no emit
\* saves back, with the old owners, a copy it had loaded before a rename moved them.
RenameKeepsAll ==
  \A u \in Whole :
    LET id == Last(index.by_uid[u]) IN
    /\ FoundUnder(u, id)
    /\ \A i \in Ids(u, index) \ {id} : Empty(i) /\ (~overlap => OwnsNothing(i))
=============================================================================
