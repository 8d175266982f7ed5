----------------------------- MODULE Allocation -----------------------------
(***************************************************************************)
(* What the engine promises those who use it (the comment at the head of   *)
(* include/cxl_fabric/core/fabric.hpp and the section "Capacity            *)
(* accounting" of README.md), without saying how: every pool governs some  *)
(* bytes; a grant takes bytes of one pool, only if that many are left; it  *)
(* may be committed once and is given back once.                           *)
(***************************************************************************)
EXTENDS Integers, FiniteSets, Functions

CONSTANTS Pools, Ids, Amounts   \* pools, identifiers of grants, bytes of a grant

VARIABLES
  governed,   \* governed[p]: the bytes pool p may hand out
  grants      \* grants[i]: the [pool, bytes, state] of grant i

allocation == <<governed, grants>>

Held(p) == {i \in DOMAIN grants : grants[i].pool = p /\ grants[i].state # "RELEASED"}
InUse(p) == SumFunctionOnSet([i \in Held(p) |-> grants[i].bytes], Held(p))

AllocationInit == DOMAIN governed = {} /\ DOMAIN grants = {}

\* A pool appears, or grows.
Govern ==
  /\ DOMAIN governed \subseteq DOMAIN governed' /\ DOMAIN governed' \subseteq Pools
  /\ \A p \in DOMAIN governed' : governed'[p] >= IF p \in DOMAIN governed THEN governed[p] ELSE 0
  /\ UNCHANGED grants

Grant(i, p, n) ==
  /\ i \notin DOMAIN grants /\ p \in DOMAIN governed
  /\ InUse(p) + n <= governed[p]
  /\ grants' = [j \in DOMAIN grants \cup {i} |->
                  IF j = i THEN [pool |-> p, bytes |-> n, state |-> "RESERVED"] ELSE grants[j]]
  /\ UNCHANGED governed

Settle(i, from, to) ==
  /\ grants[i].state = from
  /\ grants' = [grants EXCEPT ![i].state = to]
  /\ UNCHANGED governed

AllocationNext ==
  \/ Govern
  \/ \E i \in Ids, p \in Pools, n \in Amounts : Grant(i, p, n)
  \/ \E i \in DOMAIN grants : \/ Settle(i, "RESERVED", "COMMITTED")
                              \/ Settle(i, "RESERVED", "RELEASED")
                              \/ Settle(i, "COMMITTED", "RELEASED")

AllocationSpec == AllocationInit /\ [][AllocationNext]_allocation

\* No pool ever has more bytes granted than it governs.
NeverOvercommitted == \A p \in DOMAIN governed : InUse(p) <= governed[p]

=============================================================================
