----------------------------- MODULE Lifecycle -----------------------------
(***************************************************************************)
(* The validated state machines of devices, regions and pools              *)
(* (include/cxl_fabric/core/lifecycle.hpp).  Each is a graph: a state is   *)
(* mapped to the states valid_transition() lets it move to; staying put is *)
(* always allowed.                                                         *)
(***************************************************************************)

\* Where a device that is enumerated, usable and not already leaving may go.
DeviceExits == {"OFFLINE", "FAILED", "REMOVED", "RETIRED"}

DeviceSuccessors ==
  [ DISCOVERED            |-> {"ENUMERATED"},
    ENUMERATED            |-> {"AVAILABLE", "DISCOVERED", "OFFLINE", "FAILED", "RETIRED"},
    AVAILABLE             |-> {"ONLINE", "DEGRADED", "DRAINING", "REVALIDATION_REQUIRED"} \cup DeviceExits,
    ONLINE                |-> {"DEGRADED", "DRAINING", "REVALIDATION_REQUIRED"} \cup DeviceExits,
    DEGRADED              |-> {"ONLINE", "AVAILABLE", "DRAINING", "REVALIDATION_REQUIRED"} \cup DeviceExits,
    DRAINING              |-> {"ONLINE", "AVAILABLE", "REVALIDATION_REQUIRED"} \cup DeviceExits,
    REVALIDATION_REQUIRED |-> {"ONLINE", "AVAILABLE"} \cup DeviceExits,
    OFFLINE               |-> {"ONLINE", "AVAILABLE", "REVALIDATION_REQUIRED", "REMOVED", "RETIRED"},
    FAILED                |-> {"REMOVED", "RETIRED"},
    REMOVED               |-> {"RETIRED"},
    RETIRED               |-> {} ]

RegionSuccessors ==
  [ DEFINED               |-> {"VALIDATING", "RETIRED"},
    VALIDATING            |-> {"ONLINE", "DEFINED", "FAILED", "RETIRED"},
    ONLINE                |-> {"DEGRADED", "DRAINING", "RECONFIGURING", "REVALIDATION_REQUIRED",
                               "OFFLINE", "FAILED", "RETIRED"},
    DEGRADED              |-> {"ONLINE", "DRAINING", "RECONFIGURING", "REVALIDATION_REQUIRED",
                               "OFFLINE", "FAILED", "RETIRED"},
    DRAINING              |-> {"ONLINE", "REVALIDATION_REQUIRED", "OFFLINE", "FAILED", "RETIRED"},
    RECONFIGURING         |-> {"ONLINE", "VALIDATING", "REVALIDATION_REQUIRED", "FAILED", "RETIRED"},
    REVALIDATION_REQUIRED |-> {"ONLINE", "VALIDATING", "DRAINING", "OFFLINE", "FAILED", "RETIRED"},
    OFFLINE               |-> {"ONLINE", "VALIDATING", "REVALIDATION_REQUIRED", "RETIRED"},
    FAILED                |-> {"RETIRED"},
    RETIRED               |-> {} ]

PoolSuccessors ==
  [ DEFINED               |-> {"AVAILABLE", "FAILED", "RETIRED"},
    AVAILABLE             |-> {"DEGRADED", "DRAINING", "REVALIDATION_REQUIRED", "FAILED", "RETIRED"},
    DEGRADED              |-> {"AVAILABLE", "DRAINING", "REVALIDATION_REQUIRED", "FAILED", "RETIRED"},
    DRAINING              |-> {"AVAILABLE", "REVALIDATION_REQUIRED", "FAILED", "RETIRED"},
    REVALIDATION_REQUIRED |-> {"AVAILABLE", "DEGRADED", "DRAINING", "FAILED", "RETIRED"},
    FAILED                |-> {"RETIRED"},
    RETIRED               |-> {} ]

DeviceState == DOMAIN DeviceSuccessors
RegionState == DOMAIN RegionSuccessors
PoolState   == DOMAIN PoolSuccessors

valid_device_transition(from, to) == from = to \/ to \in DeviceSuccessors[from]
valid_region_transition(from, to) == from = to \/ to \in RegionSuccessors[from]
valid_pool_transition(from, to)   == from = to \/ to \in PoolSuccessors[from]

=============================================================================
