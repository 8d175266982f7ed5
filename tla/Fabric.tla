------------------------------- MODULE Fabric -------------------------------
(***************************************************************************)
(* The governance engine (src/core/fabric.cpp).  Every public operation    *)
(* holds mutex_ from its first statement to its return, so each is one     *)
(* action.  A rejected call changes nothing (with one exception in         *)
(* release) and is a stuttering step; the xxx_reason operators give the    *)
(* DecisionReason a call returns, its early returns in their order.        *)
(*                                                                         *)
(* Inputs carry non-empty identifiers, generations and boot identities,    *)
(* and new pools and regions carry no use, as the wire codec builds them.  *)
(***************************************************************************)
EXTENDS Selection, Functions

CONSTANTS
  Epochs,           \* coordinator epochs
  Policies,         \* policy generations
  DeviceInputs,     \* device records that may be registered
  PoolInputs,       \* [id, generation, members, health_summary] of pools that may be created
  MemberInputs,     \* members that may be added to a pool
  RegionInputs,     \* region records that may be created
  MemberLists,      \* new member lists of a reconfigured region
  Requests,         \* admission requests
  GenBound,         \* bound: generations the registry operations advance to
  EvidenceBound,    \* bound: evidence generations
  MaxReservations   \* bound: reservations of one Fabric

VARIABLES
  epoch, policy,    \* coordinator_epoch, policy_generation
  evidence,         \* evidence_generation
  devices, regions, pools,
  reservations,     \* keyed by N for the identifier "res-N"
  sequence,         \* sequence_
  ledger            \* global_ledger

vars == <<epoch, policy, evidence, devices, regions, pools, reservations, sequence, ledger>>
records == <<devices, regions, pools>>
authority == <<epoch, policy, evidence>>
grants == <<reservations, sequence>>

ASSUME EpochAssumption == Epochs \subseteq Nat /\ Policies \subseteq Nat
ASSUME InputAssumption ==
  /\ DeviceInputs \subseteq CxlDevice
  /\ PoolInputs \subseteq [id : PoolId, generation : Generation, members : SUBSET PoolMember,
                         health_summary : HealthState]
  /\ \A in \in PoolInputs : IsFiniteSet(in.members)
  /\ MemberInputs \subseteq PoolMember
  /\ RegionInputs \subseteq CxlRegion
  /\ \A r \in RegionInputs : r.reserved = 0 /\ r.committed = 0
  /\ MemberLists \subseteq Seq(DeviceId)
  /\ Requests \subseteq AdmissionRequest
ASSUME BoundAssumption ==
  /\ MaxReservations \in Nat
  /\ GenBound \in Nat /\ EvidenceBound \in Nat

\* AuthorityContext: what a caller claims about the authority it acts under.
Context == [coordinator_epoch : Epochs, policy_generation : Policies, worker_boot_id : BootId]

\* The terms of global_ledger.
Ledger == [total : Nat, online : Nat, unavailable : Nat, reserved : Nat, committed : Nat,
           draining : Nat]

EmptyMap == [x \in {} |-> 0]

\* std::map insertion or overwrite.
Put(f, k, v) == [x \in DOMAIN f \cup {k} |-> IF x = k THEN v ELSE f[x]]

----------------------------------------------------------------------------
(* Derived totals *)

MemberBytes(ms) == SumFunctionOnSet([m \in ms |-> m.nominal], ms)

\* recompute_pool_locked(): the counters of use are left alone.
recompute_pool(p) ==
  LET governed == {m \in p.members : m.online}
  IN  [p EXCEPT !.total = MemberBytes(governed),
                !.unavailable = MemberBytes({m \in governed : ~m.health_ok})]

\* recompute_global_locked(): the sum of every pool that is not retired.
recompute_global(ps) ==
  LET live == {p \in DOMAIN ps : ps[p].state # "RETIRED"}
      total == SumFunctionOnSet([p \in live |-> ps[p].total], live)
  IN  [total       |-> total,
       online      |-> total,
       unavailable |-> SumFunctionOnSet([p \in live |-> ps[p].unavailable], live),
       reserved    |-> SumFunctionOnSet([p \in live |-> ps[p].reserved], live),
       committed   |-> SumFunctionOnSet([p \in live |-> ps[p].committed], live),
       draining    |-> SumFunctionOnSet([p \in live |-> ps[p].draining], live)]

\* audit(): no pool in use beyond what it governs, nor the line summed over them.
audit(ps) ==
  LET InUse(line) == line.unavailable + line.reserved + line.committed + line.draining
      g == recompute_global(ps)
  IN  /\ \A p \in DOMAIN ps : ps[p].state # "RETIRED" => InUse(ps[p]) <= ps[p].total
      /\ InUse(g) <= g.online

\* (Mutant: the ledger is rebuilt before the pool is stored.)
StorePool_late(p, rec) ==
  /\ pools' = Put(pools, p, rec)
  /\ ledger' = recompute_global(pools)

\* Store a new value of pool p and rebuild the global ledger from all pools.
StorePool(p, rec) ==
  /\ pools' = Put(pools, p, rec)
  /\ ledger' = recompute_global(pools')

Init ==
  /\ epoch \in Epochs /\ policy \in Policies /\ evidence = 0
  /\ devices = EmptyMap /\ regions = EmptyMap /\ pools = EmptyMap
  /\ reservations = EmptyMap /\ sequence = 0
  /\ ledger = recompute_global(EmptyMap)

----------------------------------------------------------------------------
(* Authority *)

set_epoch(e) ==
  /\ epoch' = e
  /\ UNCHANGED <<policy, evidence, records, grants, ledger>>

set_policy_generation(g) ==
  /\ policy' = g
  /\ UNCHANGED <<epoch, evidence, records, grants, ledger>>

advance_evidence_generation ==
  /\ evidence < EvidenceBound
  /\ evidence' = IF NextGen(evidence) = 0 THEN evidence ELSE NextGen(evidence)
  /\ UNCHANGED <<epoch, policy, records, grants, ledger>>

----------------------------------------------------------------------------
(* Device registry *)

\* (Mutant: an older generation is not refused.)
register_device_reason_unordered(dev, e) ==
  IF e # epoch THEN "RESERVATION_STALE"
  ELSE IF dev.id \in DOMAIN devices /\ dev.generation = devices[dev.id].generation
          /\ dev.facts # devices[dev.id].facts THEN "CONFLICTING_FACTS"
  ELSE "OK"

register_device_reason(dev, e) ==
  IF e # epoch THEN "RESERVATION_STALE"
  ELSE IF dev.id \notin DOMAIN devices THEN "OK"
  ELSE IF dev.generation = devices[dev.id].generation
       THEN IF dev.facts # devices[dev.id].facts THEN "CONFLICTING_FACTS" ELSE "OK"
  ELSE IF dev.generation < devices[dev.id].generation THEN "DEVICE_STALE"
  ELSE IF ~valid_device_transition(devices[dev.id].state, dev.state) THEN "INVALID_ARGUMENT"
  ELSE "OK"

register_device(dev, e) ==
  /\ register_device_reason(dev, e) = "OK"
  /\ devices' = Put(devices, dev.id, dev)
  /\ UNCHANGED <<authority, regions, pools, grants, ledger>>

\* A device changes state as valid_transition allows, and its evidence with it.
MarkDevice(d, e, state, current) ==
  /\ e = epoch
  /\ d \in DOMAIN devices
  /\ valid_device_transition(devices[d].state, state)
  /\ devices' = [devices EXCEPT ![d] = [@ EXCEPT !.state = state, !.evidence_current = current]]
  /\ UNCHANGED <<authority, regions, pools, grants, ledger>>

mark_device_revalidation(d, e) == MarkDevice(d, e, "REVALIDATION_REQUIRED", FALSE)
mark_device_online(d, e) == MarkDevice(d, e, "ONLINE", TRUE)

----------------------------------------------------------------------------
(* Region registry *)

\* (Which of two offending members is reported first is not modelled, here and in
\* create_pool_reason.)
create_region_reason(reg, e) ==
  IF e # epoch THEN "RESERVATION_STALE"
  ELSE IF reg.id \in DOMAIN regions THEN "DUPLICATE_IDENTITY"
  ELSE IF reg.pool \notin DOMAIN pools THEN "POOL_STALE"
  ELSE IF ~(Range(reg.member_devices) \subseteq DOMAIN devices) THEN "DEVICE_NOT_ONLINE"
  ELSE IF ~(Range(reg.member_devices) \subseteq {m.device : m \in pools[reg.pool].members})
       THEN "CONFLICTING_FACTS"
  ELSE "OK"

create_region(reg, e) ==
  /\ create_region_reason(reg, e) = "OK"
  /\ regions' = Put(regions, reg.id, reg)
  /\ UNCHANGED <<authority, devices, pools, grants, ledger>>

\* The record is replaced as a whole, its counters of use included.
update_region(reg, e) ==
  /\ e = epoch
  /\ reg.id \in DOMAIN regions
  /\ reg.generation >= regions[reg.id].generation
  /\ regions' = [regions EXCEPT ![reg.id] = reg]
  /\ UNCHANGED <<authority, devices, pools, grants, ledger>>

reconfigure_region(r, members, e) ==
  /\ e = epoch
  /\ r \in DOMAIN regions
  /\ regions[r].generation < GenBound
  /\ NextGen(regions[r].generation) # 0
  /\ regions' = [regions EXCEPT ![r] =
                   [@ EXCEPT !.generation = NextGen(regions[r].generation), !.member_devices = members,
                             !.state = "RECONFIGURING", !.evidence_current = FALSE]]
  /\ UNCHANGED <<authority, devices, pools, grants, ledger>>

mark_region_draining(r, e) ==
  /\ e = epoch
  /\ r \in DOMAIN regions
  /\ valid_region_transition(regions[r].state, "DRAINING")
  /\ regions' = [regions EXCEPT ![r] = [@ EXCEPT !.state = "DRAINING"]]
  /\ UNCHANGED <<authority, devices, pools, grants, ledger>>

revalidate_region(r, e) ==
  /\ e = epoch
  /\ r \in DOMAIN regions
  /\ valid_region_transition(regions[r].state, "ONLINE")
  /\ regions' = [regions EXCEPT ![r] =
                   [@ EXCEPT !.state = "ONLINE", !.evidence_current = TRUE,
                             !.health = "HEALTHY"]]
  /\ UNCHANGED <<authority, devices, pools, grants, ledger>>

----------------------------------------------------------------------------
(* Pool registry *)

\* Device d is governed by pool p.
Governs(p, d) == \E m \in pools[p].members : m.device = d

create_pool_reason(in, e) ==
  IF e # epoch THEN "RESERVATION_STALE"
  ELSE IF in.id \in DOMAIN pools THEN "DUPLICATE_IDENTITY"
  ELSE IF \E m \in in.members : m.device \notin DOMAIN devices THEN "DEVICE_NOT_ONLINE"
  ELSE IF \E m, n \in in.members : m # n /\ m.device = n.device THEN "DUPLICATE_IDENTITY"
  ELSE IF \E m \in in.members, p \in DOMAIN pools : Governs(p, m.device) THEN "CONFLICTING_FACTS"
  ELSE "OK"

create_pool(in, e) ==
  /\ create_pool_reason(in, e) = "OK"
  /\ StorePool(in.id, recompute_pool(
        [id |-> in.id, generation |-> in.generation, members |-> in.members, total |-> 0,
         unavailable |-> 0, reserved |-> 0, committed |-> 0, draining |-> 0,
         state |-> "AVAILABLE", health_summary |-> in.health_summary,
         evidence_current |-> TRUE]))
  /\ UNCHANGED <<authority, devices, regions, grants>>

\* (Mutant: the generation is kept.)
WithMembers_unfenced(pool, ms) == recompute_pool([pool EXCEPT !.members = ms])

\* A membership change advances the generation; at the maximum it stays.
WithMembers(pool, ms) ==
  recompute_pool([pool EXCEPT !.members = ms,
                              !.generation = IF NextGen(@) = 0 THEN @ ELSE NextGen(@)])

\* (Mutant: only the pool itself is searched for the device.)
add_pool_member_reason_local(p, m, e) ==
  IF e # epoch THEN "RESERVATION_STALE"
  ELSE IF p \notin DOMAIN pools THEN "POOL_STALE"
  ELSE IF m.device \notin DOMAIN devices THEN "DEVICE_NOT_ONLINE"
  ELSE IF Governs(p, m.device) THEN "DUPLICATE_IDENTITY"
  ELSE "OK"

add_pool_member_reason(p, m, e) ==
  IF e # epoch THEN "RESERVATION_STALE"
  ELSE IF p \notin DOMAIN pools THEN "POOL_STALE"
  ELSE IF m.device \notin DOMAIN devices THEN "DEVICE_NOT_ONLINE"
  ELSE IF Governs(p, m.device) THEN "DUPLICATE_IDENTITY"
  ELSE IF \E q \in DOMAIN pools \ {p} : Governs(q, m.device) THEN "CONFLICTING_FACTS"
  ELSE "OK"

add_pool_member(p, m, e) ==
  /\ add_pool_member_reason(p, m, e) = "OK"
  /\ pools[p].generation < GenBound
  /\ StorePool(p, WithMembers(pools[p], pools[p].members \cup {m}))
  /\ UNCHANGED <<authority, devices, regions, grants>>

remove_pool_member(p, m, e) ==
  /\ e = epoch
  /\ p \in DOMAIN pools
  /\ m \in pools[p].members
  /\ pools[p].generation < GenBound
  /\ StorePool(p, WithMembers(pools[p], pools[p].members \ {m}))
  /\ UNCHANGED <<authority, devices, regions, grants>>

mark_pool_draining(p, e) ==
  /\ e = epoch
  /\ p \in DOMAIN pools
  /\ valid_pool_transition(pools[p].state, "DRAINING")
  /\ pools' = [pools EXCEPT ![p] = [@ EXCEPT !.state = "DRAINING"]]
  /\ UNCHANGED <<authority, devices, regions, grants, ledger>>

reconcile_pool(p, e) ==
  /\ e = epoch
  /\ p \in DOMAIN pools
  /\ StorePool(p, recompute_pool(pools[p]))
  /\ UNCHANGED <<authority, devices, regions, grants>>

\* (Mutant: the counters of use start afresh.)
revalidate_pool_afresh(p, e) ==
  /\ e = epoch
  /\ p \in DOMAIN pools
  /\ valid_pool_transition(pools[p].state, "AVAILABLE")
  /\ StorePool(p, recompute_pool([pools[p] EXCEPT !.state = "AVAILABLE", !.reserved = 0,
                                   !.committed = 0, !.evidence_current = TRUE]))
  /\ UNCHANGED <<authority, devices, regions, grants>>

revalidate_pool(p, e) ==
  /\ e = epoch
  /\ p \in DOMAIN pools
  /\ valid_pool_transition(pools[p].state, "AVAILABLE")
  /\ StorePool(p, recompute_pool([pools[p] EXCEPT !.state = "AVAILABLE",
                                   !.evidence_current = TRUE, !.health_summary = "HEALTHY"]))
  /\ UNCHANGED <<authority, devices, regions, grants>>

----------------------------------------------------------------------------
(* Admission and the reservation lifecycle *)

\* selection_snapshot_locked(): taken under the lock, so the generations that
\* reserve() compares with it afterwards are the same.
Snapshot == [devices |-> devices, regions |-> regions, pools |-> pools]

reserve_reason(req, ctx) ==
  IF ctx.coordinator_epoch # epoch THEN "RESERVATION_STALE"
  ELSE IF req.bytes = 0 THEN "INVALID_ARGUMENT"
  ELSE IF SelectionReason(Snapshot, req) # "OK" THEN SelectionReason(Snapshot, req)
  ELSE IF \E c \in Passing(Snapshot, req) :
            /\ IsChosen(Snapshot, c, req)
            /\ \/ req.bytes > pool_free(pools[regions[c[1]].pool])
               \/ req.bytes > region_free(regions[c[1]])
       THEN "CAPACITY_OVERCOMMIT"
  ELSE "OK"

\* Reserve on the chosen candidate c, a <<region, device>> pair.
ReserveOn(c, req, ctx) ==
  LET reg  == regions[c[1]]
      dev  == devices[c[2]]
      pool == pools[reg.pool]
  IN  /\ req.bytes <= pool_free(pool)
      /\ req.bytes <= region_free(reg)
      /\ StorePool(reg.pool, [pool EXCEPT !.reserved = pool.reserved + req.bytes])
      /\ regions' = [regions EXCEPT ![c[1]] = [reg EXCEPT !.reserved = Wrap(reg.reserved + req.bytes)]]
      /\ sequence' = sequence + 1
      /\ reservations' = Put(reservations, sequence + 1,
            [pool |-> reg.pool, pool_generation |-> pool.generation,
             region |-> c[1], region_generation |-> reg.generation,
             device |-> c[2], device_generation |-> dev.generation,
             device_boot_id |-> dev.boot_id, bytes |-> req.bytes, state |-> "RESERVED",
             created_epoch |-> epoch, worker_boot_id |-> ctx.worker_boot_id])
      /\ UNCHANGED <<authority, devices>>

reserve(req, ctx) ==
  /\ sequence < MaxReservations
  /\ ctx.coordinator_epoch = epoch
  /\ req.bytes # 0
  /\ \E c \in Passing(Snapshot, req) : IsChosen(Snapshot, c, req) /\ ReserveOn(c, req, ctx)

\* (Mutant: the state of the reservation is not looked at.)
CommitStale_any_state(res, ctx) ==
  \/ {ctx.coordinator_epoch, res.created_epoch} # {epoch}
  \/ ctx.worker_boot_id \notin {0, res.worker_boot_id}

\* (Mutant: the worker is not looked at.)
CommitStale_any_boot(res, ctx) ==
  res.state # "RESERVED" \/ {ctx.coordinator_epoch, res.created_epoch} # {epoch}

\* The reservation is not reserved any more, of another epoch or of another worker.
CommitStale(res, ctx) ==
  \/ res.state # "RESERVED"
  \/ ctx.coordinator_epoch # epoch
  \/ res.created_epoch # epoch
  \/ ctx.worker_boot_id \notin {0, res.worker_boot_id}

commit_reason(id, ctx) ==
  IF id \notin DOMAIN reservations THEN "RESERVATION_STALE" ELSE
  LET res == reservations[id] IN
  IF CommitStale(res, ctx) THEN "RESERVATION_STALE"
  ELSE IF \/ res.pool \notin DOMAIN pools \/ res.region \notin DOMAIN regions
          \/ res.device \notin DOMAIN devices THEN "POOL_GENERATION_STALE"
  ELSE IF pools[res.pool].generation # res.pool_generation THEN "POOL_GENERATION_STALE"
  ELSE IF regions[res.region].generation # res.region_generation THEN "REGION_STALE"
  ELSE IF devices[res.device].generation # res.device_generation THEN "DEVICE_STALE"
  ELSE IF res.bytes > pools[res.pool].reserved THEN "CAPACITY_OVERCOMMIT"
  ELSE "OK"

commit(id, ctx) ==
  /\ commit_reason(id, ctx) = "OK"
  /\ LET res  == reservations[id]
         reg  == regions[res.region]
         pool == pools[res.pool]
     IN  /\ StorePool(res.pool, [pool EXCEPT !.reserved = pool.reserved - res.bytes,
                                             !.committed = pool.committed + res.bytes])
         /\ regions' = [regions EXCEPT ![res.region] =
                          [reg EXCEPT !.reserved = Wrap(reg.reserved - res.bytes),
                                      !.committed = Wrap(reg.committed + res.bytes)]]
  /\ reservations' = [reservations EXCEPT ![id] = [@ EXCEPT !.state = "COMMITTED"]]
  /\ UNCHANGED <<authority, devices, sequence>>

\* Bytes given back to a pool or a region come from its committed bytes first,
\* and what is then left to give back from its reserved bytes, if they cover it.
Rest(rec, n) == Clamp(n - rec.committed)
\* (Mutants: reserved bytes first; no reserved bytes; no clamp.)
GiveBack_reserved_first(rec, n) ==
  [rec EXCEPT !.reserved = Clamp(rec.reserved - n),
              !.committed = Clamp(rec.committed - Clamp(n - rec.reserved))]
GiveBack_committed_only(rec, n) == [rec EXCEPT !.committed = Clamp(rec.committed - n)]
GiveBack_unclamped(rec, n) == [rec EXCEPT !.committed = rec.committed - n]
GiveBack(rec, n) ==
  [rec EXCEPT !.reserved = IF Rest(rec, n) <= rec.reserved THEN rec.reserved - Rest(rec, n)
                           ELSE rec.reserved,
              !.committed = Clamp(rec.committed - n)]

release_reason(id, ctx) ==
  IF id \notin DOMAIN reservations THEN "RESERVATION_STALE"
  ELSE IF \/ reservations[id].state = "RELEASED"
          \/ ctx.coordinator_epoch # epoch THEN "RESERVATION_STALE"
  ELSE IF /\ reservations[id].pool \in DOMAIN pools
          /\ LET pool == pools[reservations[id].pool]
             IN  Rest(pool, reservations[id].bytes) > pool.reserved THEN "RESERVATION_CONFLICT"
  ELSE "OK"

\* On RESERVATION_CONFLICT the code has already taken the committed bytes, and
\* returns with the reservation, the region and the global ledger untouched.  (The maps
\* only ever grow, so the pool and the region of a reservation are always found.)
release(id, ctx) ==
  /\ release_reason(id, ctx) \in {"OK", "RESERVATION_CONFLICT"}
  /\ LET res == reservations[id] IN
     IF release_reason(id, ctx) = "OK"
     THEN /\ StorePool(res.pool, GiveBack(pools[res.pool], res.bytes))
          /\ regions' = [regions EXCEPT ![res.region] = GiveBack(regions[res.region], res.bytes)]
          /\ reservations' = [reservations EXCEPT ![id] = [@ EXCEPT !.state = "RELEASED"]]
     ELSE /\ pools' = [pools EXCEPT ![res.pool] = GiveBack(pools[res.pool], res.bytes)]
          /\ UNCHANGED <<regions, reservations, ledger>>
  /\ UNCHANGED <<authority, devices, sequence>>

----------------------------------------------------------------------------
(* Specifications *)

AuthorityStep ==
  \/ \E e \in Epochs : set_epoch(e)
  \/ \E g \in Policies : set_policy_generation(g)
  \/ advance_evidence_generation

DeviceStep ==
  \/ \E dev \in DeviceInputs, e \in Epochs : register_device(dev, e)
  \/ \E d \in DOMAIN devices, e \in Epochs : mark_device_revalidation(d, e)
  \/ \E d \in DOMAIN devices, e \in Epochs : mark_device_online(d, e)

RegionStep ==
  \/ \E reg \in RegionInputs, e \in Epochs : create_region(reg, e)
  \/ \E r \in DOMAIN regions, ms \in MemberLists, e \in Epochs : reconfigure_region(r, ms, e)
  \/ \E r \in DOMAIN regions, e \in Epochs : mark_region_draining(r, e)
  \/ \E r \in DOMAIN regions, e \in Epochs : revalidate_region(r, e)

PoolStep ==
  \/ \E in \in PoolInputs, e \in Epochs : create_pool(in, e)
  \/ \E p \in DOMAIN pools, m \in MemberInputs, e \in Epochs : add_pool_member(p, m, e)
  \/ \E p \in DOMAIN pools, e \in Epochs : mark_pool_draining(p, e)
  \/ \E p \in DOMAIN pools, e \in Epochs : reconcile_pool(p, e)
  \/ \E p \in DOMAIN pools, e \in Epochs : revalidate_pool(p, e)

AdmissionStep ==
  \/ \E req \in Requests, ctx \in Context : reserve(req, ctx)
  \/ \E id \in DOMAIN reservations, ctx \in Context : commit(id, ctx)
  \/ \E id \in DOMAIN reservations, ctx \in Context : release(id, ctx)

ShrinkStep ==
  \E p \in DOMAIN pools, e \in Epochs : \E m \in pools[p].members : remove_pool_member(p, m, e)

OverwriteStep == \E reg \in RegionInputs, e \in Epochs : update_region(reg, e)

\* Every operation but the two that may take governed or recorded capacity away.
GrowNext == AuthorityStep \/ DeviceStep \/ RegionStep \/ PoolStep \/ AdmissionStep

Next == GrowNext \/ ShrinkStep \/ OverwriteStep

Spec == Init /\ [][Next]_vars
GrowSpec == Init /\ [][GrowNext]_vars

----------------------------------------------------------------------------
(* Properties *)

\* Every map holds records of its kind, filed under their own identifiers.
TypeOK ==
  /\ epoch \in Epochs /\ policy \in Policies /\ evidence \in 0..MaxGen
  /\ DOMAIN devices \subseteq DeviceId
  /\ \A d \in DOMAIN devices : devices[d] \in CxlDevice /\ devices[d].id = d
  /\ DOMAIN regions \subseteq RegionId
  /\ \A r \in DOMAIN regions : regions[r] \in CxlRegion /\ regions[r].id = r
  /\ DOMAIN pools \subseteq PoolId
  /\ \A p \in DOMAIN pools : pools[p] \in CxlPool /\ pools[p].id = p
  /\ sequence \in Nat /\ DOMAIN reservations = 1..sequence
  /\ \A i \in DOMAIN reservations : reservations[i] \in Reservation
  /\ ledger \in Ledger

Outstanding == {"RESERVED", "COMMITTED"}
HeldInPool(p, states) ==
  {i \in DOMAIN reservations : reservations[i].pool = p /\ reservations[i].state \in states}
HeldInRegion(r, states) ==
  {i \in DOMAIN reservations : reservations[i].region = r /\ reservations[i].state \in states}
BytesOf(ids) == SumFunctionOnSet([i \in ids |-> reservations[i].bytes], ids)

\* A pool's bytes in use are exactly the bytes of its outstanding reservations,
\* through reserve, commit and release in any order and any membership change.
PoolUseExact ==
  \A p \in DOMAIN pools :
    pools[p].reserved + pools[p].committed = BytesOf(HeldInPool(p, Outstanding))

\* release() takes committed bytes first, whoever they belong to; still the reserved
\* bytes of a pool always cover its uncommitted reservations, so no commit is ever
\* refused for want of the bytes it reserved and no release ends half-way.
PoolReservedCovers ==
  \A p \in DOMAIN pools : BytesOf(HeldInPool(p, {"RESERVED"})) <= pools[p].reserved

\* A region's bytes in use are exactly those of its outstanding reservations.
RegionUseExact ==
  \A r \in DOMAIN regions :
    regions[r].reserved + regions[r].committed = BytesOf(HeldInRegion(r, Outstanding))

\* commit() subtracts from a region's reserved bytes without a check: they always
\* cover the region's uncommitted reservations, so the subtraction never wraps.
RegionReservedCovers ==
  \A r \in DOMAIN regions : BytesOf(HeldInRegion(r, {"RESERVED"})) <= regions[r].reserved

\* The counters of a region are added to and subtracted from without a check, and
\* update_region() may replace them under an outstanding reservation: still they never
\* wrap ("integer wraparound ... rejected", README.md).
RegionCountersFit ==
  \A r \in DOMAIN regions : regions[r].reserved + regions[r].committed <= MaxBytes

\* audit() finds nothing: a pool's bytes in use, drained or unavailable never exceed
\* what it governs, so several regions of one pool cannot overcommit it.
UsedWithinGoverned == audit(pools)

\* A region never has more bytes in use than it can hold.
UsedWithinRegion ==
  \A r \in DOMAIN regions : regions[r].reserved + regions[r].committed <= regions[r].capacity

\* After every operation the cached global ledger is the sum over the pools: no
\* operation that changes a pool's bytes returns without rebuilding it.
LedgerCloses == ledger = recompute_global(pools)

\* A device is governed by at most one pool and counted at most once in it,
\* whatever the order of pool creation, member addition and removal.
NoDoubleCounting ==
  \A p, q \in DOMAIN pools : \A m \in pools[p].members, n \in pools[q].members :
    m.device = n.device => p = q /\ m = n

\* Selection is decided: whenever a candidate passes, one and only one is at the front of
\* the ranking, so reserve() takes it on any run over the same records.
ChoiceDecided ==
  \A req \in Requests : Passing(Snapshot, req) # {} =>
    \E c \in Passing(Snapshot, req) :
      \A d \in Passing(Snapshot, req) : IsChosen(Snapshot, d, req) <=> d = c

\* No step moves a generation backwards or forgets a record: a stale device, region
\* or pool event never overwrites current state.
NoRegress(old, new) ==
  \A k \in DOMAIN old : k \in DOMAIN new /\ new[k].generation >= old[k].generation
GenerationsGrow ==
  NoRegress(devices, devices') /\ NoRegress(regions, regions') /\ NoRegress(pools, pools')
GenerationsNeverRegress == [][GenerationsGrow]_vars

\* A reservation keeps the bytes and the generations it was granted under, moves
\* only from reserved to committed to released: a released one is never revived.
Advanced(res, new) ==
  \E st \in ResumeState :
    /\ new = [res EXCEPT !.state = st]
    /\ <<res.state, st>> \in
         {<<"RESERVED", "RESERVED">>, <<"RESERVED", "COMMITTED">>,
          <<"RESERVED", "RELEASED">>, <<"COMMITTED", "COMMITTED">>,
          <<"COMMITTED", "RELEASED">>, <<"RELEASED", "RELEASED">>}
ReservationsAdvance ==
  \A i \in DOMAIN reservations :
    i \in DOMAIN reservations' /\ Advanced(reservations[i], reservations'[i])
ReservationsOnlyAdvance == [][ReservationsAdvance]_vars

=============================================================================
