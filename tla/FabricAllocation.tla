-------------------------- MODULE FabricAllocation --------------------------
(***************************************************************************)
(* The engine as an implementation of Allocation: its reservations are the *)
(* grants, and a pool may hand out what it governs and is available.       *)
(***************************************************************************)
EXTENDS Fabric

Governed == [p \in DOMAIN pools |-> pools[p].total - pools[p].unavailable]
Grants ==
  [i \in DOMAIN reservations |-> [pool  |-> reservations[i].pool,
                                  bytes |-> reservations[i].bytes,
                                  state |-> reservations[i].state]]

Alloc == INSTANCE Allocation WITH
  Pools <- PoolId, Ids <- 1..MaxReservations, Amounts <- ByteCount \ {0},
  governed <- Governed, grants <- Grants

\* The engine hands out capacity as Allocation says: whatever the order of registration,
\* reserve, commit and release, and although reserve() only ever consults the counters of
\* the pool and of one region, a reservation is granted only if the bytes of all the
\* outstanding ones leave room for it, and is settled once.
ImplementsAllocation == Alloc!AllocationSpec

=============================================================================
