---------------------------- MODULE CapacityLine ----------------------------
(***************************************************************************)
(* One governed capacity line and its checked operations                   *)
(* (include/cxl_fabric/core/accounting.hpp).  An operation returns whether *)
(* it was accepted; ok is that answer.                                     *)
(***************************************************************************)
EXTENDS Integers

CONSTANTS
  MaxBytes,     \* UINT64_MAX
  Sizes,        \* bytes a line may have
  Amounts,      \* bytes an operation may be called with
  DrainBound    \* bound: bytes ever put to draining

ASSUME MaxBytesAssumption == MaxBytes \in Nat
ASSUME AmountsAssumption == Amounts \subseteq 0..MaxBytes
ASSUME DrainAssumption == DrainBound \in Nat
\* The terms of a line can be added without wrapping: lines are far smaller than 2^64.
ASSUME SizesAssumption ==
  Sizes \subseteq Nat /\ \A n \in Sizes : n + DrainBound <= MaxBytes

VARIABLES total, online, unavailable, reserved, committed, draining, ok

observed == <<total, online, unavailable>>
line == <<observed, reserved, committed, draining>>
vars == <<line, ok>>

\* Unsigned addition, and the checked one: FALSE rather than a wrapped sum.
Plus(a, b) == IF a + b > MaxBytes THEN a + b - (MaxBytes + 1) ELSE a + b
add_checked(a, b) == a <= MaxBytes - b

Used == Plus(Plus(Plus(unavailable, reserved), committed), draining)
\* (Mutant: committed bytes are forgotten.)
free_uncommitted == IF online <= Plus(unavailable, reserved) THEN 0
                    ELSE online - Plus(unavailable, reserved)
free == IF online <= Used THEN 0 ELSE online - Used

Init ==
  /\ total \in Sizes /\ online \in Sizes /\ unavailable \in Sizes \cup {0}
  /\ unavailable <= online /\ online <= total
  /\ reserved = 0 /\ committed = 0 /\ draining = 0
  /\ ok = TRUE

----------------------------------------------------------------------------
reserve(n) ==
  /\ ok' = (n # 0 /\ n <= free)
  /\ reserved' = IF ok' THEN Plus(reserved, n) ELSE reserved
  /\ UNCHANGED <<observed, committed, draining>>

\* (Mutant: the bytes need not have been reserved.)
commit_unreserved(n) ==
  /\ ok' = (n # 0 /\ add_checked(committed, n))
  /\ reserved' = IF ok' THEN reserved - n ELSE reserved
  /\ committed' = IF ok' THEN committed + n ELSE committed
  /\ UNCHANGED <<observed, draining>>

\* The reserved bytes are taken before the addition to the committed ones is checked.
commit(n) ==
  /\ ok' = (n # 0 /\ n <= reserved /\ add_checked(committed, n))
  /\ reserved' = IF n # 0 /\ n <= reserved THEN reserved - n ELSE reserved
  /\ committed' = IF ok' THEN committed + n ELSE committed
  /\ UNCHANGED <<observed, draining>>

\* (Mutant: the committed bytes are taken before the rest is checked.)
release_partial(n) ==
  LET take == IF n < committed THEN n ELSE committed
  IN  /\ ok' = (n - take <= reserved)
      /\ committed' = committed - take
      /\ reserved' = IF ok' THEN reserved - (n - take) ELSE reserved
      /\ UNCHANGED <<observed, draining>>

\* From the committed bytes first, the rest from the reserved ones.
release(n) ==
  LET take == IF n < committed THEN n ELSE committed
  IN  /\ ok' = (n - take <= reserved)
      /\ committed' = IF ok' THEN committed - take ELSE committed
      /\ reserved' = IF ok' THEN reserved - (n - take) ELSE reserved
      /\ UNCHANGED <<observed, draining>>

fence_drain(n) ==
  /\ draining + n <= DrainBound
  /\ ok' = (n <= Plus(Plus(free, reserved), committed))
  /\ draining' = IF ok' THEN Plus(draining, n) ELSE draining
  /\ UNCHANGED <<observed, reserved, committed>>

Next == \E n \in Amounts : reserve(n) \/ commit(n) \/ release(n) \/ fence_drain(n)

Spec == Init /\ [][Next]_vars

----------------------------------------------------------------------------
\* Each term of the line is a byte count.
TypeOK ==
  /\ total \in Sizes /\ online \in Sizes /\ unavailable \in Nat
  /\ reserved \in Nat /\ committed \in Nat
  /\ draining \in 0..DrainBound
  /\ ok \in BOOLEAN

\* What is reserved and committed never exceeds what is online and allocatable,
\* whatever is drained meanwhile: a drain never makes room for a reservation.
UseWithinOnline == unavailable + reserved + committed <= online /\ online <= total

\* An operation that answers false has changed nothing ("no silent partial success"),
\* commit() included although it takes the reserved bytes before its last check.
RefusalChangesNothing == [][ ~ok' => UNCHANGED line ]_vars

=============================================================================
