---------------------------- MODULE GateRegister ----------------------------
(***************************************************************************)
(* What the gate store promises its callers, whatever processes share it:  *)
(* one register per gate and one event log.  A write changes the register  *)
(* of its own gate and of no other, and is put in the log, or lost to the  *)
(* log, before any other write takes place.  So the log never shows two    *)
(* writes in the order opposite to the one the registers took them in.     *)
(* GateStore implements it (lib/lock.mjs, lib/state.mjs).                  *)
(***************************************************************************)
EXTENDS Sequences

CONSTANTS
  Gate,      \* gate names
  Record,    \* what a gate register may hold
  NoRecord,  \* a gate nobody has written yet
  NoEvent    \* no write is waiting to be logged

VARIABLES
  reg,   \* [Gate -> Record \cup {NoRecord}]
  log,   \* sequence of <<gate, record>>
  owed   \* the write that is in reg and not yet in log, or NoEvent

rvars == <<reg, log, owed>>

RInit ==
  /\ reg = [g \in Gate |-> NoRecord]
  /\ log = <<>>
  /\ owed = NoEvent

\* The write takes effect.
RWrite(g, r) ==
  /\ owed = NoEvent
  /\ reg' = [reg EXCEPT ![g] = r]
  /\ owed' = <<g, r>>
  /\ UNCHANGED log

\* Its event reaches the log ...
RLog ==
  /\ owed # NoEvent
  /\ log' = Append(log, owed)
  /\ owed' = NoEvent
  /\ UNCHANGED reg

\* ... or never does: the writer died, or the append failed.
RLose ==
  /\ owed # NoEvent
  /\ owed' = NoEvent
  /\ UNCHANGED <<reg, log>>

RNext ==
  \/ \E g \in Gate, r \in Record : RWrite(g, r)
  \/ RLog
  \/ RLose

RSpec == RInit /\ [][RNext]_rvars
=============================================================================
