----------------------------- MODULE DurableCell -----------------------------
(***************************************************************************)
(* What the coordinator takes a durable file to be: a cell that holds one  *)
(* whole state.  A thread takes up the next state, and at one instant puts *)
(* it into the cell or, if it fails, never does; a process that is killed  *)
(* takes every thread with it and leaves the cell alone.                   *)
(***************************************************************************)
EXTENDS Naturals

CONSTANT Writers

VARIABLES
  cell,      \* the number of the state stored, 0 for none
  begun,     \* states taken up so far
  pending    \* per thread: the state it is saving, 0 for none

CellInit == cell = 0 /\ begun = 0 /\ pending = [w \in Writers |-> 0]

Begin(w) ==
  /\ pending[w] = 0
  /\ begun' = begun + 1 /\ pending' = [pending EXCEPT ![w] = begun']
  /\ UNCHANGED cell

Finish(w) ==
  /\ pending[w] # 0
  /\ cell' = pending[w] /\ pending' = [pending EXCEPT ![w] = 0]
  /\ UNCHANGED begun

Abandon(w) ==
  /\ pending' = [pending EXCEPT ![w] = 0]
  /\ UNCHANGED <<cell, begun>>

Killed ==
  /\ pending' = [w \in Writers |-> 0]
  /\ UNCHANGED <<cell, begun>>

CellNext == (\E w \in Writers : Begin(w) \/ Finish(w) \/ Abandon(w)) \/ Killed

CellSpec == CellInit /\ [][CellNext]_<<cell, begun, pending>>

=============================================================================
