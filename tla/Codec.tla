-------------------------------- MODULE Codec --------------------------------
(***************************************************************************)
(* What a worker publishes (main() of worker_main.cpp, with make_device()  *)
(* of synthetic.hpp) and what is left of it after the codec of frame       *)
(* payloads (include/cxl_fabric/control/codec.hpp).  The layout of the     *)
(* bytes is left out; fields that are not sent come back with their        *)
(* defaults, and the fields the coordinator fills in with its own values.  *)
(***************************************************************************)
EXTENDS Selection

\* synthetic::make_device(): a device that is online, healthy and just observed.
make_device(id, gen, boot, host, bytes, vol, sharing, loc, latency, bw, domain) ==
  [id |-> id, generation |-> gen, boot_id |-> boot, facts |-> bytes, state |-> "ONLINE",
   health |-> "HEALTHY", evidence_current |-> TRUE,
   profile |-> [volatility |-> vol, host |-> host, sharing |-> sharing, locality |-> loc,
                accelerator_access |-> "HOST_MEDIATED", bandwidth |-> bw, latency |-> latency,
                notes |-> domain]]

\* decode_device() of encode_device(dev).  The boot identity is made from the identifier
\* of the device, so it is the same in all incarnations; sharing, latency, bandwidth and
\* failure domain are lost.
decode_device(dev) ==
  [dev EXCEPT !.boot_id = dev.id, !.health = "HEALTHY",
              !.profile = [dev.profile EXCEPT !.sharing = "UNKNOWN", !.bandwidth = 0,
                                              !.latency = 0, !.notes = 0]]

\* decode_pool() of encode_pool(), and what dispatch() makes of it: members come whole.
decode_pool(id, gen, members) ==
  [id |-> id, generation |-> gen, members |-> members, health_summary |-> "HEALTHY"]

\* decode_region() of encode_region().
decode_region(id, gen, pool, members, bytes, tier, state) ==
  [id |-> id, generation |-> gen, pool |-> pool, member_devices |-> members,
   capacity |-> bytes, state |-> state, tier |-> tier, health |-> "HEALTHY",
   reserved |-> 0, committed |-> 0, evidence_current |-> TRUE]

\* decode_reserve() of encode_reserve(): a request that asks for bytes and nothing else.
decode_reserve(bytes) ==
  [bytes |-> bytes, volatility |-> "UNKNOWN", require_persistence |-> FALSE, host |-> 0,
   sharing |-> "UNKNOWN", required_pool |-> 0, minimum_locality |-> NoLocality,
   required_tier |-> None, accelerator_access |-> None, minimum_bandwidth |-> 0,
   maximum_latency |-> 0]

=============================================================================
