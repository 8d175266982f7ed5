---------------------------- MODULE FabricFence ----------------------------
(***************************************************************************)
(* What a reservation was granted on, remembered beside the governance     *)
(* engine.  The engine keeps only generations in a reservation; granted    *)
(* keeps the facts those generations stand for, so that a commit can be    *)
(* compared with them.                                                     *)
(***************************************************************************)
EXTENDS Fabric

VARIABLE granted    \* granted[i]: the facts reservation i was granted on

fenceVars == <<vars, granted>>

\* The membership and the device that reservation res is bound to, as they are now.
Facts(res) == [members |-> pools[res.pool].members,
               devices |-> regions[res.region].member_devices,
               device  |-> devices[res.device].facts]

Remember ==
  granted' = IF sequence' = sequence THEN granted
             ELSE Append(granted, Facts(reservations'[sequence']))

FenceInit == Init /\ granted = <<>>
FenceNext == (GrowNext \/ ShrinkStep) /\ Remember
FenceSpec == FenceInit /\ [][FenceNext]_fenceVars

\* A commit takes effect only while the pool has the members, the region the devices,
\* the device the facts and the coordinator the epoch of the grant: no sequence of
\* membership changes, reconfigurations, re-registrations and restarts of the epoch
\* lets a reservation consume capacity of a later generation.
CommitFenced ==
  [][ \A i \in DOMAIN reservations :
        reservations[i].state = "RESERVED" /\ reservations'[i].state = "COMMITTED"
        => Facts(reservations[i]) = granted[i] /\ reservations[i].created_epoch = epoch
    ]_fenceVars

=============================================================================
