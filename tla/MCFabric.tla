------------------------------ MODULE MCFabric ------------------------------
(***************************************************************************)
(* Small instances of Fabric for TLC.                                      *)
(***************************************************************************)
EXTENDS FabricAllocation

MCProfile ==
  [volatility : {"VOLATILE"}, host : {1}, sharing : {"UNKNOWN"}, locality : {0, 4},
   accelerator_access : {"UNKNOWN"}, bandwidth : {0}, latency : {0}, notes : {1, 2}]
ProfileAt(l, fd) == CHOOSE p \in MCProfile : p.locality = l /\ p.notes = fd

Device(d, g, boot, state) ==
  [id |-> d, generation |-> g, boot_id |-> boot, facts |-> 1, state |-> state,
   health |-> "HEALTHY", evidence_current |-> (state = "ONLINE"), profile |-> ProfileAt(0, 1)]
Member(d, g, n, ok) ==
  [device |-> d, device_generation |-> g, nominal |-> n, online |-> TRUE, health_ok |-> ok,
   failure_domain |-> 1]
NewPool(p, ms) == [id |-> p, generation |-> 1, members |-> ms, health_summary |-> "HEALTHY"]
Region(r, g, p, ds, n) ==
  [id |-> r, generation |-> g, pool |-> p, member_devices |-> ds, capacity |-> n,
   state |-> "ONLINE", tier |-> "CXL_NEAR", health |-> "HEALTHY", reserved |-> 0,
   committed |-> 0, evidence_current |-> TRUE]
Request(n) ==
  [bytes |-> n, volatility |-> "UNKNOWN", require_persistence |-> FALSE, host |-> 0,
   sharing |-> "UNKNOWN", required_pool |-> 0, minimum_locality |-> NoLocality,
   required_tier |-> None, accelerator_access |-> None, minimum_bandwidth |-> 0,
   maximum_latency |-> 0]

Nothing == {}

----------------------------------------------------------------------------
\* Membership: two pools that contend for a device which comes back with a new
\* generation, and a region that is overwritten and moves between the pools.
MembershipDevices == {Device(1, 1, 1, "ONLINE"), Device(1, 2, 1, "ONLINE")}
MembershipPools == {NewPool(1, {Member(1, 1, 2, TRUE)}), NewPool(2, {})}
MembershipMembers == {Member(1, 2, 2, TRUE)}
MembershipRegions == {Region(1, 1, 1, <<1>>, 2), Region(1, 2, 2, <<1>>, 1)}
MembershipLists == {<<1>>}
MembershipRequests == {Request(1)}

=============================================================================
