----------------------------- MODULE Persistence -----------------------------
(***************************************************************************)
(* Durable state of the governance engine: what export_persisted() takes,  *)
(* what is left of it after serialize_state() and deserialize_state()      *)
(* (src/core/persistence.cpp), and what import_persisted() makes of it in  *)
(* a new process.  How the bytes reach the file is in PersistFile.         *)
(***************************************************************************)
EXTENDS Fabric

\* Fabric::export_persisted(), under the lock.
export_persisted ==
  [policy |-> policy, devices |-> devices, regions |-> regions, pools |-> pools]

\* Fields that are not written come back with their defaults.  The counters of use
\* of a pool are written, those of a region are not.
SavedDevice(dev) ==
  [dev EXCEPT !.state = "DISCOVERED", !.health = "UNKNOWN", !.evidence_current = FALSE]
\* (Mutant: the counters of use are kept.)
SavedRegion_in_use(reg) ==
  [reg EXCEPT !.state = "DEFINED", !.tier = "CXL_UNKNOWN", !.health = "UNKNOWN",
              !.evidence_current = FALSE]
SavedRegion(reg) ==
  [reg EXCEPT !.state = "DEFINED", !.tier = "CXL_UNKNOWN", !.health = "UNKNOWN",
              !.reserved = 0, !.committed = 0, !.evidence_current = FALSE]
SavedPool(pool) == [pool EXCEPT !.state = "DEFINED"]

\* deserialize_state() of what serialize_state() writes for st.
Saved(st) ==
  [policy  |-> st.policy,
   devices |-> [d \in DOMAIN st.devices |-> SavedDevice(st.devices[d])],
   regions |-> [r \in DOMAIN st.regions |-> SavedRegion(st.regions[r])],
   pools   |-> [p \in DOMAIN st.pools |-> SavedPool(st.pools[p])]]

\* The policy generation of a new Fabric.
ASSUME PolicyAssumption == 1 \in Policies

\* A coordinator that finds no file starts with an empty Fabric of policy generation 1.
NoState == [policy |-> 1, devices |-> EmptyMap, regions |-> EmptyMap, pools |-> EmptyMap]

\* (Mutant: the evidence is believed.)
ImportedDevice_current(dev) ==
  [dev EXCEPT !.state = "ONLINE", !.health = "UNKNOWN", !.evidence_current = TRUE]
ImportedDevice(dev) ==
  [dev EXCEPT !.state = "REVALIDATION_REQUIRED", !.health = "UNKNOWN", !.evidence_current = FALSE]
ImportedRegion(reg) == [reg EXCEPT !.state = "REVALIDATION_REQUIRED", !.evidence_current = FALSE]
ImportedPool(pool) == [pool EXCEPT !.state = "REVALIDATION_REQUIRED", !.evidence_current = FALSE]

\* (Mutant: the global ledger is not rebuilt.)
import_persisted_unsummed(st) ==
  /\ policy' = st.policy
  /\ devices' = [d \in DOMAIN st.devices |-> ImportedDevice(st.devices[d])]
  /\ regions' = [r \in DOMAIN st.regions |-> ImportedRegion(st.regions[r])]
  /\ pools' = [p \in DOMAIN st.pools |-> ImportedPool(st.pools[p])]
  /\ reservations' = EmptyMap
  /\ ledger' = recompute_global(EmptyMap)

\* Fabric::import_persisted(): nothing observed before is current, and reservations
\* are fenced by their absence.
import_persisted(st) ==
  /\ policy' = st.policy
  /\ devices' = [d \in DOMAIN st.devices |-> ImportedDevice(st.devices[d])]
  /\ regions' = [r \in DOMAIN st.regions |-> ImportedRegion(st.regions[r])]
  /\ pools' = [p \in DOMAIN st.pools |-> ImportedPool(st.pools[p])]
  /\ reservations' = EmptyMap
  /\ ledger' = recompute_global(pools')

\* The Fabric of a process started with --epoch e on the durable state st.
StartFabric(e, st) ==
  /\ epoch' = e /\ evidence' = 0 /\ sequence' = 0
  /\ import_persisted(st)

=============================================================================
