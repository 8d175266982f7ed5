----------------------------- MODULE Selection -----------------------------
(***************************************************************************)
(* The governed records (device.hpp, region.hpp, pool.hpp, reservation.hpp *)
(* and identity.hpp under include/cxl_fabric/core) and the placement       *)
(* decision over them: the hard-constraint check evaluate_candidate() of   *)
(* selection.hpp and the candidates, ranking and outcome of                *)
(* Fabric::build_selection().                                              *)
(*                                                                         *)
(* Identifiers are positive naturals, 0 is the empty identifier and their  *)
(* order is the std::map order of the code.  A generation is 0 (empty) or  *)
(* 1..MaxGen.  Facts that no decision reads (names, notes, provenance,     *)
(* decoders, firmware) are left out; the placement facts of a device are   *)
(* its profile, where notes is the failure domain the device was observed  *)
(* in.  Failure domains are numbers and 0 is the empty one.                *)
(***************************************************************************)
EXTENDS Integers, FiniteSets, Sequences, Lifecycle

CONSTANTS
  DeviceId, RegionId, PoolId,   \* non-empty identifiers
  BootId,                       \* worker and device incarnation identities, 0 is empty
  MaxGen,                       \* Generation::max()
  MaxBytes,                     \* UINT64_MAX, the largest ByteCount
  Profile                       \* placement facts devices may be observed with

ASSUME IdAssumption ==
  /\ DeviceId \subseteq Nat \ {0}
  /\ RegionId \subseteq Nat \ {0}
  /\ PoolId \subseteq Nat \ {0}
ASSUME BootAssumption == BootId \subseteq Nat
ASSUME MaxGenAssumption == MaxGen \in Nat \ {0}
ASSUME MaxBytesAssumption == MaxBytes \in Nat

ByteCount == 0..MaxBytes

Generation == 1..MaxGen

\* Generation::next(): the empty generation once the maximum is reached.
NextGen(g) == IF g = MaxGen THEN 0 ELSE g + 1

HealthState == {"UNKNOWN", "HEALTHY", "DEGRADED", "POISONED", "FAILED", "REVALIDATION_REQUIRED"}
ResumeState == {"RESERVED", "COMMITTED", "RELEASED"}
TierClass == {"CXL_NEAR", "CXL_LOCAL", "CXL_SHARED", "CXL_REMOTE", "CXL_PERSISTENT",
              "CXL_CAPACITY", "CXL_UNKNOWN"}
VolatilityKind == {"VOLATILE", "PERSISTENT", "UNKNOWN"}
SharingMode == {"DEDICATED", "SHARED", "UNKNOWN"}
AcceleratorAccessState == {"DIRECT_SUPPORTED", "INDIRECT_SUPPORTED", "HOST_MEDIATED",
                           "UNSUPPORTED", "UNKNOWN", "REVALIDATION_REQUIRED"}

\* Locality classes are their ordinals: 0 DIRECT_LOCAL .. 8 CROSS_HOST, 9 UNKNOWN.
LocalityClass == 0..9

\* The placement facts of a device, from its own record and its economics.
ASSUME ProfileAssumption ==
  Profile \subseteq [volatility : VolatilityKind, host : Nat, sharing : SharingMode,
                     locality : LocalityClass, accelerator_access : AcceleratorAccessState,
                     bandwidth : Nat, latency : Nat, notes : Nat]

\* A request names no minimum locality, no tier, no access state.
NoLocality == 10
None == "NONE"

\* total_physical_bytes and vendor_device_id together are the immutable facts.
CxlDevice == [id : DeviceId, generation : Generation, boot_id : BootId \ {0}, facts : Nat,
              state : DeviceState, health : HealthState, evidence_current : BOOLEAN,
              profile : Profile]

PoolMember == [device : DeviceId, device_generation : Generation, nominal : Nat,
               online : BOOLEAN, health_ok : BOOLEAN, failure_domain : Nat]

CxlRegion == [id : RegionId, generation : Generation, pool : PoolId,
              member_devices : Seq(DeviceId), capacity : ByteCount, state : RegionState,
              tier : TierClass, health : HealthState, reserved : ByteCount,
              committed : ByteCount,
              evidence_current : BOOLEAN]

CxlPool == [id : PoolId, generation : Generation, members : SUBSET PoolMember, total : Nat,
            unavailable : Nat, reserved : Nat, committed : Nat, draining : Nat,
            state : PoolState, health_summary : HealthState, evidence_current : BOOLEAN]

Reservation == [pool : PoolId, pool_generation : Generation,
                region : RegionId, region_generation : Generation,
                device : DeviceId, device_generation : Generation, device_boot_id : BootId,
                bytes : ByteCount \ {0}, state : ResumeState, created_epoch : Nat,
                worker_boot_id : BootId]

AdmissionRequest == [bytes : ByteCount, volatility : VolatilityKind,
                     require_persistence : BOOLEAN, host : Nat, sharing : SharingMode,
                     required_pool : PoolId \cup {0},
                     minimum_locality : LocalityClass \cup {NoLocality},
                     required_tier : TierClass \cup {None},
                     accelerator_access : AcceleratorAccessState \cup {None},
                     minimum_bandwidth : Nat, maximum_latency : Nat]

----------------------------------------------------------------------------
\* Unchecked unsigned arithmetic: what one addition or subtraction leaves.
Wrap(n) == IF n < 0 THEN n + MaxBytes + 1
           ELSE IF n > MaxBytes THEN n - (MaxBytes + 1)
           ELSE n

\* What is left to reserve (pool_free and region_free of fabric.cpp).  The counters of
\* a pool are only ever changed after a check and cannot wrap; a region's can.
Clamp(n) == IF n < 0 THEN 0 ELSE n
\* (Mutants: the reserved bytes are forgotten.)
pool_free_unreserved(p) == Clamp(p.total - (p.unavailable + p.committed + p.draining))
region_free_unreserved(r) == Clamp(r.capacity - r.committed)
pool_free(p)   == Clamp(p.total - (p.unavailable + p.reserved + p.committed + p.draining))
region_free(r) == Clamp(r.capacity - Wrap(r.reserved + r.committed))

locality_satisfies(have, need) == have <= need

Unhealthy == {"FAILED", "POISONED"}

\* The first of a request's own requirements that the candidate does not meet.
RequirementVerdict(prof, reg, pool, req) ==
  IF \/ req.require_persistence /\ prof.volatility # "PERSISTENT"
     \/ /\ "UNKNOWN" \notin {req.volatility, prof.volatility}
        /\ req.volatility # prof.volatility THEN "VOLATILITY_MISMATCH"
  ELSE IF 0 \notin {req.host, prof.host} /\ req.host # prof.host THEN "HOST_INCOMPATIBLE"
  ELSE IF "UNKNOWN" \notin {req.sharing, prof.sharing} /\ req.sharing # prof.sharing THEN "SHARING_MISMATCH"
  ELSE IF req.required_pool \notin {0, pool.id} THEN "POOL_STALE"
  ELSE IF /\ req.minimum_locality # NoLocality
          /\ ~locality_satisfies(prof.locality, req.minimum_locality) THEN "REQUIRED_LOCALITY_UNSATISFIED"
  ELSE IF req.required_tier \notin {None, reg.tier} THEN "POLICY_DENIED"
  ELSE IF req.accelerator_access \notin {None, prof.accelerator_access} THEN "ACCELERATOR_ACCESS_UNSATISFIED"
  ELSE IF \/ prof.bandwidth # 0 /\ prof.bandwidth < req.minimum_bandwidth
          \/ /\ req.maximum_latency > 0
             /\ prof.latency > req.maximum_latency THEN "POLICY_DENIED"
  ELSE "OK"

\* The first hard constraint the candidate fails, in the order of the code.  The
\* DRAINING, FAILED and REVALIDATION_REQUIRED tests that follow the three state
\* tests in the code can no longer fail there.
evaluate_candidate(dev, reg, pool, req) ==
  IF ~(dev.evidence_current /\ reg.evidence_current /\ pool.evidence_current) THEN "EVIDENCE_STALE"
  ELSE IF dev.state # "ONLINE" THEN "DEVICE_NOT_ONLINE"
  ELSE IF reg.state # "ONLINE" THEN "REGION_NOT_ONLINE"
  ELSE IF pool.state \notin {"AVAILABLE", "DEFINED"} THEN "POOL_STALE"
  ELSE IF {dev.health, reg.health, pool.health_summary} \cap Unhealthy # {} THEN "HEALTH_UNACCEPTABLE"
  ELSE IF region_free(reg) < req.bytes THEN "CAPACITY_INSUFFICIENT"
  ELSE RequirementVerdict(dev.profile, reg, pool, req)

----------------------------------------------------------------------------
(***************************************************************************)
(* build_selection(snap, req) over snap = [devices, regions, pools].  A    *)
(* candidate is <<region, device>>; its pool is the region's.              *)
(***************************************************************************)
\* The pairs that survive the early skips of the three nested loops.
Candidates(snap) ==
  {c \in (DOMAIN snap.regions) \X (DOMAIN snap.devices) :
     LET reg == snap.regions[c[1]]
         dev == snap.devices[c[2]]
     IN  /\ \E i \in DOMAIN reg.member_devices : reg.member_devices[i] = c[2]
         /\ reg.pool \in DOMAIN snap.pools
         /\ snap.pools[reg.pool].evidence_current
         /\ snap.pools[reg.pool].state \in {"AVAILABLE", "DEFINED"}
         /\ reg.evidence_current /\ reg.state = "ONLINE"
         /\ dev.evidence_current /\ dev.state = "ONLINE"}

Verdict(snap, c, req) ==
  evaluate_candidate(snap.devices[c[2]], snap.regions[c[1]],
                     snap.pools[snap.regions[c[1]].pool], req)

Passing(snap, req) == {c \in Candidates(snap) : Verdict(snap, c, req) = "OK"}

\* s comes before t, or is t, in the lexicographic order of equally long tuples.
LexLeq(s, t) ==
  s = t \/ \E i \in DOMAIN s : s[i] < t[i] /\ \A j \in 1..(i - 1) : s[j] = t[j]

\* (Mutant: no tie-break on the identity.)
RankKey_untied(snap, c) ==
  LET prof == snap.devices[c[2]].profile
  IN  <<prof.locality, prof.latency, -prof.bandwidth, -region_free(snap.regions[c[1]])>>

\* Most local, then fastest, widest, emptiest, then by identity.  The code breaks
\* the last tie on the concatenated identifiers; identifiers have one length here.
RankKey(snap, c) ==
  LET reg  == snap.regions[c[1]]
      prof == snap.devices[c[2]].profile
  IN  <<prof.locality, prof.latency, -prof.bandwidth, -region_free(reg), reg.pool, c[1], c[2]>>

\* c is the front of the ranked candidates that passed.
IsChosen(snap, c, req) ==
  /\ c \in Passing(snap, req)
  /\ \A d \in Passing(snap, req) : LexLeq(RankKey(snap, c), RankKey(snap, d))

\* Candidates are evaluated pool by pool, region by region, in member order.
EvaluationKey(snap, c) ==
  LET members == snap.regions[c[1]].member_devices
      places  == {i \in DOMAIN members : members[i] = c[2]}
  IN  <<snap.regions[c[1]].pool, c[1], CHOOSE i \in places : \A j \in places : i <= j>>

IsFirst(snap, c) ==
  \A d \in Candidates(snap) : LexLeq(EvaluationKey(snap, c), EvaluationKey(snap, d))

\* The reason of the outcome; without candidates the code reports lack of capacity.
SelectionReason(snap, req) ==
  IF Passing(snap, req) # {} THEN "OK"
  ELSE IF Candidates(snap) = {} THEN "CAPACITY_INSUFFICIENT"
  ELSE Verdict(snap, CHOOSE c \in Candidates(snap) : IsFirst(snap, c), req)

=============================================================================
