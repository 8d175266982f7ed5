--------------------------- MODULE RecoveryProofs ---------------------------
(***************************************************************************)
(* Proofs about the capacity accounting of the coordinator, through        *)
(* crashes, restarts and snapshots of any age: a new process starts        *)
(* without reservations and with the counters of use its pools had in the  *)
(* snapshot, so that a pool counts at least the bytes of its outstanding   *)
(* reservations, and a region, whose counters are not written, exactly     *)
(* them.                                                                   *)
(***************************************************************************)
EXTENDS CoordinatorProofs, FabricAdmissionProofs

\* What holds of the Fabric in every process: its pools may count bytes of reservations of
\* an earlier process (any slack in Nat).
EngineInv == TypeInv /\ PoolInv(Nat) /\ LedgerCloses /\ RegionInv /\ DerivedInv /\ WithinInv

\* A durable state that a new process can start from.
SavedOK(st) ==
  /\ st.policy \in Policies
  /\ DOMAIN st.devices \subseteq DeviceId
  /\ \A d \in DOMAIN st.devices : st.devices[d] \in CxlDevice /\ st.devices[d].id = d
  /\ DOMAIN st.regions \subseteq RegionId
  /\ \A g \in DOMAIN st.regions :
       /\ st.regions[g] \in CxlRegion /\ st.regions[g].id = g
       /\ st.regions[g].reserved = 0 /\ st.regions[g].committed = 0
  /\ DOMAIN st.pools \subseteq PoolId /\ IsFiniteSet(DOMAIN st.pools)
  /\ \A p \in DOMAIN st.pools :
       /\ st.pools[p] \in CxlPool /\ st.pools[p].id = p /\ IsFiniteSet(st.pools[p].members)
       /\ Derived(st.pools[p]) /\ Within(st.pools[p])

\* The file and every snapshot on its way to it are such states.
DurableInv == SavedOK(file) /\ \A c \in Conns : SavedOK(conn[c].snap)

\* A connected worker has an identity.
BootsInv == \A c \in Conns : conn[c].pc # "closed" => conn[c].boot \in BootId

RecoveryInv == ConnOK /\ BootsInv /\ DurableInv /\ EngineInv

----------------------------------------------------------------------------
(* What is written, and what a new process makes of it *)

\* The states that exports and imports give to records are states of theirs.
LEMMA DurableStates ==
  /\ "DISCOVERED" \in DeviceState /\ "REVALIDATION_REQUIRED" \in DeviceState
  /\ "DEFINED" \in RegionState /\ "REVALIDATION_REQUIRED" \in RegionState
  /\ "DEFINED" \in PoolState /\ "REVALIDATION_REQUIRED" \in PoolState
  /\ "UNKNOWN" \in HealthState /\ 0 \in ByteCount
BY MaxBytesAssumption
   DEF DeviceState, DeviceSuccessors, RegionState, RegionSuccessors, PoolState, PoolSuccessors,
       HealthState, ByteCount

\* A device keeps its type and its identity through a save and a recovery.
LEMMA DurableDevice ==
  ASSUME NEW dev \in CxlDevice
  PROVE  /\ SavedDevice(dev) \in CxlDevice /\ SavedDevice(dev).id = dev.id
         /\ ImportedDevice(dev) \in CxlDevice /\ ImportedDevice(dev).id = dev.id
BY DurableStates DEF SavedDevice, ImportedDevice, CxlDevice

\* So does a region, whose counters of use are not written.
LEMMA DurableRegion ==
  ASSUME NEW reg \in CxlRegion
  PROVE  /\ SavedRegion(reg) \in CxlRegion /\ SavedRegion(reg).id = reg.id
         /\ SavedRegion(reg).reserved = 0 /\ SavedRegion(reg).committed = 0
         /\ ImportedRegion(reg) \in CxlRegion /\ ImportedRegion(reg).id = reg.id
         /\ ImportedRegion(reg).reserved = reg.reserved
         /\ ImportedRegion(reg).committed = reg.committed
         /\ ImportedRegion(reg).capacity = reg.capacity
<1>1. "CXL_UNKNOWN" \in TierClass
  BY DEF TierClass
<1>2. /\ SavedRegion(reg) \in CxlRegion /\ SavedRegion(reg).id = reg.id
      /\ SavedRegion(reg).reserved = 0 /\ SavedRegion(reg).committed = 0
  BY <1>1, DurableStates DEF SavedRegion, CxlRegion
<1>3. /\ ImportedRegion(reg) \in CxlRegion /\ ImportedRegion(reg).id = reg.id
      /\ ImportedRegion(reg).reserved = reg.reserved
      /\ ImportedRegion(reg).committed = reg.committed
      /\ ImportedRegion(reg).capacity = reg.capacity
  BY <1>1, DurableStates DEF ImportedRegion, CxlRegion
<1> QED
  BY <1>2, <1>3

\* A pool record with the members, totals and counters of another.
SamePool(new, pool) ==
  /\ new.id = pool.id /\ new.members = pool.members
  /\ new.total = pool.total /\ new.unavailable = pool.unavailable
  /\ new.reserved = pool.reserved /\ new.committed = pool.committed
  /\ new.draining = pool.draining

\* A pool keeps all of those.
LEMMA DurablePool ==
  ASSUME NEW pool \in CxlPool
  PROVE  /\ SavedPool(pool) \in CxlPool /\ SamePool(SavedPool(pool), pool)
         /\ ImportedPool(pool) \in CxlPool /\ SamePool(ImportedPool(pool), pool)
BY DurableStates DEF SavedPool, ImportedPool, SamePool, CxlPool

\* And with them the totals being up to date and the room for what is in use.
LEMMA SamePoolSays ==
  ASSUME NEW pool, NEW new, SamePool(new, pool)
  PROVE  /\ Derived(pool) => Derived(new)
         /\ Within(pool) => Within(new)
BY DEF SamePool, Derived, Within

\* What persist_now() writes in any state of a process is a state to start from.
LEMMA ExportIsSound ==
  ASSUME TypeInv, DerivedInv, WithinInv
  PROVE  SavedOK(Saved(export_persisted))
<1> DEFINE st == Saved(export_persisted)
<1>1. /\ st.policy = policy
      /\ st.devices = [d \in DOMAIN devices |-> SavedDevice(devices[d])]
      /\ st.regions = [g \in DOMAIN regions |-> SavedRegion(regions[g])]
      /\ st.pools = [p \in DOMAIN pools |-> SavedPool(pools[p])]
  BY DEF Saved, export_persisted
<1> HIDE DEF st
<1>2. AuthorityOK /\ DevicesOK /\ RegionsOK /\ PoolsOK /\ Finite
  BY TypeParts DEF TypeInv
<1>3. st.policy \in Policies
  BY <1>1, <1>2 DEF AuthorityOK
<1>4. /\ DOMAIN st.devices \subseteq DeviceId
      /\ \A d \in DOMAIN st.devices : st.devices[d] \in CxlDevice /\ st.devices[d].id = d
  BY <1>1, <1>2, DurableDevice DEF DevicesOK
<1>5. /\ DOMAIN st.regions \subseteq RegionId
      /\ \A g \in DOMAIN st.regions :
           /\ st.regions[g] \in CxlRegion /\ st.regions[g].id = g
           /\ st.regions[g].reserved = 0 /\ st.regions[g].committed = 0
  BY <1>1, <1>2, DurableRegion DEF RegionsOK
<1>6. DOMAIN st.pools \subseteq PoolId /\ IsFiniteSet(DOMAIN st.pools)
  BY <1>1, <1>2 DEF PoolsOK, Finite
<1>7. ASSUME NEW p \in DOMAIN st.pools
      PROVE  /\ st.pools[p] \in CxlPool /\ st.pools[p].id = p /\ IsFiniteSet(st.pools[p].members)
             /\ Derived(st.pools[p]) /\ Within(st.pools[p])
  <2>1. p \in DOMAIN pools /\ st.pools[p] = SavedPool(pools[p])
    BY <1>1
  <2>2. /\ pools[p] \in CxlPool /\ pools[p].id = p /\ IsFiniteSet(pools[p].members)
        /\ Derived(pools[p]) /\ Within(pools[p])
    BY <1>2, <2>1 DEF PoolsOK, Finite, DerivedInv, WithinInv
  <2>3. st.pools[p] \in CxlPool /\ SamePool(st.pools[p], pools[p])
    BY <2>1, <2>2, DurablePool
  <2>4. Derived(st.pools[p]) /\ Within(st.pools[p])
    BY <2>2, <2>3, SamePoolSays
  <2> QED
    BY <2>2, <2>3, <2>4 DEF SamePool
<1>8. SavedOK(st)
  BY <1>3, <1>4, <1>5, <1>6, <1>7 DEF SavedOK
<1> QED
  BY <1>8 DEF st

\* So is the state of a coordinator that finds no file.
LEMMA NoStateIsSound == SavedOK(NoState)
<1>1. /\ NoState.policy = 1 /\ DOMAIN NoState.devices = {} /\ DOMAIN NoState.regions = {}
      /\ DOMAIN NoState.pools = {}
  BY DEF NoState, EmptyMap
<1> QED
  BY <1>1, PolicyAssumption, FS_EmptySet DEF SavedOK

\* import_persisted(): the Fabric of a new process is sound, whatever sound state it is
\* started from.  It has no reservations, and the bytes its pools count are slack.
LEMMA ImportIsSound ==
  ASSUME NEW e \in Epochs, NEW st, SavedOK(st), StartFabric(e, st)
  PROVE  EngineInv'
<1>1. /\ epoch' = e /\ evidence' = 0 /\ sequence' = 0 /\ policy' = st.policy
      /\ devices' = [d \in DOMAIN st.devices |-> ImportedDevice(st.devices[d])]
      /\ regions' = [g \in DOMAIN st.regions |-> ImportedRegion(st.regions[g])]
      /\ pools' = [p \in DOMAIN st.pools |-> ImportedPool(st.pools[p])]
      /\ reservations' = EmptyMap
      /\ ledger' = recompute_global(pools')
  BY DEF StartFabric, import_persisted
<1>2. AuthorityOK'
  BY <1>1, MaxGenAssumption DEF AuthorityOK, SavedOK
<1>3. DevicesOK'
  <2>1. \A d \in DOMAIN devices' : devices'[d] \in CxlDevice /\ devices'[d].id = d
    BY <1>1, DurableDevice DEF SavedOK
  <2>2. DOMAIN devices' \subseteq DeviceId
    BY <1>1 DEF SavedOK
  <2> QED
    BY <2>1, <2>2 DEF DevicesOK
<1>4. ASSUME NEW g \in DOMAIN regions'
      PROVE  /\ regions'[g] \in CxlRegion /\ regions'[g].id = g
             /\ regions'[g].reserved = 0 /\ regions'[g].committed = 0
             /\ regions'[g].capacity \in Nat
  <2>1. g \in DOMAIN st.regions /\ regions'[g] = ImportedRegion(st.regions[g])
    BY <1>1
  <2>2. /\ st.regions[g] \in CxlRegion /\ st.regions[g].id = g
        /\ st.regions[g].reserved = 0 /\ st.regions[g].committed = 0
    BY <2>1 DEF SavedOK
  <2>3. /\ regions'[g] \in CxlRegion /\ regions'[g].id = g
        /\ regions'[g].reserved = 0 /\ regions'[g].committed = 0
    BY <2>1, <2>2, DurableRegion
  <2> QED
    BY <2>3, MaxBytesAssumption DEF CxlRegion, ByteCount
<1>5. RegionsOK'
  <2>1. DOMAIN regions' \subseteq RegionId
    BY <1>1 DEF SavedOK
  <2> QED
    BY <1>4, <2>1 DEF RegionsOK
<1>6. ASSUME NEW p \in DOMAIN pools'
      PROVE  /\ pools'[p] \in CxlPool /\ pools'[p].id = p /\ IsFiniteSet(pools'[p].members)
             /\ Derived(pools'[p]) /\ Within(pools'[p])
             /\ pools'[p].reserved \in Nat /\ pools'[p].committed \in Nat
  <2>1. p \in DOMAIN st.pools /\ pools'[p] = ImportedPool(st.pools[p])
    BY <1>1
  <2>2. /\ st.pools[p] \in CxlPool /\ st.pools[p].id = p /\ IsFiniteSet(st.pools[p].members)
        /\ Derived(st.pools[p]) /\ Within(st.pools[p])
    BY <2>1 DEF SavedOK
  <2>3. pools'[p] \in CxlPool /\ SamePool(pools'[p], st.pools[p])
    BY <2>1, <2>2, DurablePool
  <2>4. Derived(pools'[p]) /\ Within(pools'[p])
    BY <2>2, <2>3, SamePoolSays
  <2>5. pools'[p].reserved \in Nat /\ pools'[p].committed \in Nat
    BY <2>3, PoolTerms
  <2> QED
    BY <2>2, <2>3, <2>4, <2>5 DEF SamePool
<1>7. DOMAIN pools' \subseteq PoolId /\ IsFiniteSet(DOMAIN pools')
  BY <1>1 DEF SavedOK
<1>8. PoolsOK' /\ Finite' /\ DerivedInv' /\ WithinInv'
  BY <1>6, <1>7 DEF PoolsOK, Finite, DerivedInv, WithinInv
<1>9. ReservationsOK' /\ Refs' /\ DOMAIN reservations' = {}
  BY <1>1 DEF ReservationsOK, Refs, EmptyMap
<1>10. ledger' \in Ledger /\ LedgerCloses'
  BY <1>1, <1>6, <1>7, LedgerNat DEF LedgerCloses
<1>11. TypeInv'
  <2>1. TypeOK'
    BY <1>2, <1>3, <1>5, <1>8, <1>9, <1>10
       DEF TypeOK, AuthorityOK, DevicesOK, RegionsOK, PoolsOK, ReservationsOK
  <2> QED
    BY <1>8, <1>9, <2>1 DEF TypeInv
<1>12. Bytes(reservations', {}) = 0
  BY SumEmpty DEF Bytes
<1>13. PoolInv(Nat)'
  <2>1. SUFFICES ASSUME NEW p \in DOMAIN pools'
                 PROVE  PoolAccounts(Nat, pools', reservations', p)
    BY DEF PoolInv
  <2>2. \A S : Hold(reservations', p, S) = {}
    BY <1>9 DEF Hold
  <2>3. pools'[p].reserved \in Nat /\ pools'[p].committed \in Nat
    BY <1>6
  <2> DEFINE r == pools'[p].reserved
             c == pools'[p].committed
  <2>4. r \in Nat /\ c \in Nat
    BY <2>3
  <2> HIDE DEF r, c
  <2>5. Accounts(Nat, reservations', r, c, {}, {})
    BY <1>12, <2>4 DEF Accounts
  <2> QED
    BY <2>2, <2>5 DEF PoolAccounts, r, c
<1>14. RegionInv'
  <2>1. SUFFICES ASSUME NEW g \in DOMAIN regions'
                 PROVE  /\ RegionAccounts(regions', reservations', g)
                        /\ regions'[g].reserved + regions'[g].committed <= regions'[g].capacity
    BY DEF RegionInv
  <2>2. \A S : HoldIn(reservations', g, S) = {}
    BY <1>9 DEF HoldIn
  <2>3. /\ regions'[g].reserved = 0 /\ regions'[g].committed = 0
        /\ regions'[g].capacity \in Nat
    BY <1>4
  <2>4. Accounts({0}, reservations', 0, 0, {}, {})
    BY <1>12 DEF Accounts
  <2>5. RegionAccounts(regions', reservations', g)
    BY <2>2, <2>3, <2>4 DEF RegionAccounts
  <2> QED
    BY <2>3, <2>5
<1> QED
  BY <1>8, <1>10, <1>11, <1>13, <1>14 DEF EngineInv

----------------------------------------------------------------------------
(* The steps of the engine under the threads *)

\* The engine's own steps keep it sound.
LEMMA EngineInvNext ==
  ASSUME EngineInv, [GrowNext]_vars
  PROVE  EngineInv'
<1>1. Slack(Nat)
  BY DEF Slack
<1>2. TypeInv /\ PoolInv(Nat) /\ LedgerCloses /\ RegionInv /\ DerivedInv /\ WithinInv
  BY DEF EngineInv
<1>3. [Next]_vars
  BY DEF Next
<1>4. TypeInv' /\ PoolInv(Nat)' /\ LedgerCloses'
  BY <1>1, <1>2, <1>3, TypeNext, PoolInvNext, LedgerNext
<1>5. RegionInv' /\ DerivedInv' /\ WithinInv'
  BY <1>1, <1>2, RegionInvNext, DerivedNext, WithinNext
<1> QED
  BY <1>4, <1>5 DEF EngineInv

\* A frame is carried out by one operation of the engine, under the authority of the
\* moment, or refused.
LEMMA FrameIsEngineStep ==
  ASSUME TypeInv, BootsInv, NEW c \in Conns, Frame(c)
  PROVE  [GrowNext]_vars
<1>1. epoch \in Epochs /\ policy \in Policies
  BY DEF TypeInv, TypeOK
<1>2. conn[c].pc = "serving"
  BY FrameIs
<1>3. ContextOf(c) \in Context
  BY <1>1, <1>2 DEF ContextOf, Context, BootsInv
<1>4. CASE \E dev \in DeviceInputs : publish_device(c, dev)
  BY <1>1, <1>4 DEF publish_device, DeviceStep, GrowNext, vars
<1>5. CASE \E in \in PoolInputs : publish_pool(c, in)
  <2>1. PICK in \in PoolInputs : publish_pool(c, in)
    BY <1>5
  <2>2. create_pool(in, epoch) \/ revalidate_pool(in.id, epoch)
    BY <2>1 DEF publish_pool
  <2>3. revalidate_pool(in.id, epoch) => in.id \in DOMAIN pools
    BY DEF revalidate_pool
  <2>4. PoolStep
    BY <1>1, <2>2, <2>3 DEF PoolStep
  <2> QED
    BY <2>4 DEF GrowNext
<1>6. CASE \E reg \in RegionInputs : publish_region(c, reg)
  <2>1. PICK reg \in RegionInputs : publish_region(c, reg)
    BY <1>6
  <2>2. create_region(reg, epoch) \/ revalidate_region(reg.id, epoch)
    BY <2>1 DEF publish_region
  <2>3. revalidate_region(reg.id, epoch) => reg.id \in DOMAIN regions
    BY DEF revalidate_region
  <2>4. RegionStep
    BY <1>1, <2>2, <2>3 DEF RegionStep
  <2> QED
    BY <2>4 DEF GrowNext
<1>7. CASE \E req \in Requests : reserve_frame(c, req)
  BY <1>3, <1>7 DEF reserve_frame, AdmissionStep, GrowNext
<1>8. CASE \E id \in 1..MaxReservations : commit_frame(c, id)
  <2>1. PICK id : commit(id, ContextOf(c)) \/ UNCHANGED vars
    BY <1>8 DEF commit_frame
  <2>2. commit(id, ContextOf(c)) => id \in DOMAIN reservations
    BY DEF commit, commit_reason
  <2> QED
    BY <1>3, <2>1, <2>2 DEF AdmissionStep, GrowNext
<1>9. CASE \E id \in 1..MaxReservations : release_frame(c, id)
  <2>1. PICK id : release(id, ContextOf(c)) \/ UNCHANGED vars
    BY <1>9 DEF release_frame
  <2>2. release(id, ContextOf(c)) => id \in DOMAIN reservations
    BY DEF release, release_reason
  <2> QED
    BY <1>3, <2>1, <2>2 DEF AdmissionStep, GrowNext
<1> QED
  BY <1>4, <1>5, <1>6, <1>7, <1>8, <1>9 DEF Frame

\* So is every other step of a thread: all but fencing leaves the engine alone.
LEMMA ThreadIsEngineStep ==
  ASSUME TypeInv, BootsInv, NEW c \in Conns,
         \/ \E b \in BootId \ {0} : Connect(c, b)
         \/ Frame(c) \/ Export(c) \/ Write(c)
         \/ Disconnect(c) \/ Fencing(c) \/ Erase(c)
  PROVE  [GrowNext]_vars
<1>1. CASE \/ \E b \in BootId \ {0} : Connect(c, b)
           \/ Export(c) \/ Write(c) \/ Disconnect(c) \/ Erase(c)
  BY <1>1 DEF Connect, Export, Write, Disconnect, Erase
<1>2. CASE Frame(c)
  BY <1>2, FrameIsEngineStep
<1>3. CASE Fencing(c)
  <2>1. CASE Fenced(c)
    BY <2>1 DEF Fenced
  <2>2. ASSUME NEW d \in DeviceId, Fence(c, d) PROVE [GrowNext]_vars
    <3>1. UNCHANGED vars \/ mark_device_revalidation(d, epoch)
      BY <2>2 DEF Fence
    <3>2. mark_device_revalidation(d, epoch) => d \in DOMAIN devices
      BY DEF mark_device_revalidation, MarkDevice
    <3>3. epoch \in Epochs
      BY DEF TypeInv, TypeOK
    <3> QED
      BY <3>1, <3>2, <3>3 DEF DeviceStep, GrowNext
  <2> QED
    BY <1>3, <2>1, <2>2 DEF Fencing
<1> QED
  BY <1>1, <1>2, <1>3

----------------------------------------------------------------------------
(* The file and the snapshots under the threads *)

\* Where the snapshots, the file and the identities of a state come from.
SnapFrom(s, x) == s \in {conn[x].snap, NoState, Saved(export_persisted)}
BootFrom(y, x) ==
  y.pc # "closed" => \/ y.boot \in BootId
                     \/ conn[x].pc # "closed" /\ y.boot = conn[x].boot
FileFrom(f) == f = file \/ f = Saved(export_persisted) \/ \E x \in Conns : f = conn[x].snap

Carried ==
  /\ ConnOK'
  /\ \A x \in Conns : SnapFrom(conn'[x].snap, x) /\ BootFrom(conn'[x], x)
  /\ FileFrom(file')

\* One thread moves on, and perhaps the file with it.
LEMMA CarriedBy ==
  ASSUME ConnOK, NEW c \in Conns, NEW y, IsConn(y), Becomes(c, y), SnapFrom(y.snap, c),
         BootFrom(y, c), FileFrom(file')
  PROVE  Carried
<1>1. ConnOK' /\ conn'[c] = y /\ \A x \in Conns \ {c} : conn'[x] = conn[x]
  BY OneMoves
<1>2. \A x \in Conns : SnapFrom(conn'[x].snap, x) /\ BootFrom(conn'[x], x)
  BY <1>1 DEF SnapFrom, BootFrom
<1> QED
  BY <1>1, <1>2 DEF Carried

\* Every step of a thread takes its snapshot from the state or gives it up, and writes
\* what it took.
LEMMA CarriedThread ==
  ASSUME ConnOK, NEW c \in Conns,
         \/ \E b \in BootId \ {0} : Connect(c, b)
         \/ Frame(c) \/ Export(c) \/ Write(c)
         \/ Disconnect(c) \/ Fencing(c) \/ Erase(c)
  PROVE  Carried
<1>1. IsConn(conn[c]) /\ {"persist", "erase", "write", "serving"} \subseteq Places
  BY DEF ConnOK, Places
<1>2. ASSUME NEW y, IsConn(y), Becomes(c, y), file' = file, conn[c].pc # "closed",
             y.boot = conn[c].boot, y.snap = conn[c].snap
      PROVE  Carried
  <2>1. SnapFrom(y.snap, c) /\ BootFrom(y, c) /\ FileFrom(file')
    BY <1>2 DEF SnapFrom, BootFrom, FileFrom
  <2> QED
    BY <1>2, <2>1, CarriedBy
<1>3. ASSUME NEW b \in BootId \ {0}, Connect(c, b) PROVE Carried
  <2> DEFINE y == Connected(b)
  <2>1. IsConn(y) /\ y.boot = b /\ y.snap = NoState
    BY ConnectedIs
  <2>2. Becomes(c, y) /\ file' = file
    BY <1>3, ConnectIs
  <2> HIDE DEF y
  <2>3. SnapFrom(y.snap, c) /\ BootFrom(y, c) /\ FileFrom(file')
    BY <2>1, <2>2 DEF SnapFrom, BootFrom, FileFrom
  <2> QED
    BY <2>1, <2>2, <2>3, CarriedBy
<1>4. CASE Frame(c)
  <2>1. conn[c].pc = "serving" /\ file' = file
    BY <1>4, FrameIs
  <2>2. CASE UNCHANGED conn
    BY <2>1, <2>2 DEF Carried, ConnOK, SnapFrom, BootFrom, FileFrom
  <2>3. CASE Becomes(c, AtPc(conn[c], "persist"))
    BY <1>1, <1>2, <2>1, <2>3, MovesIs
  <2>4. ASSUME NEW dev \in DeviceInputs, Registers(c, dev) PROVE Carried
    BY <1>1, <1>2, <2>1, <2>4, PublishedIs DEF Registers
  <2> QED
    BY <1>4, <2>2, <2>3, <2>4, FrameIs DEF Passes
<1>5. CASE Disconnect(c)
  <2>1. conn[c].pc = "serving" /\ file' = file
    BY <1>5, DisconnectIs
  <2>2. CASE Becomes(c, AtPc(conn[c], "erase"))
    BY <1>1, <1>2, <2>1, <2>2, MovesIs
  <2>3. CASE ~Becomes(c, AtPc(conn[c], "erase"))
    <3>1. StartsFencing(c)
      BY <1>5, <2>3, DisconnectIs
    <3>2. /\ ConnOK'
          /\ \A x \in Conns : /\ conn'[x].boot = conn[x].boot /\ conn'[x].snap = conn[x].snap
                              /\ x # c => conn'[x].pc = conn[x].pc
      BY <3>1 DEF StartsFencing
    <3>3. \A x \in Conns : SnapFrom(conn'[x].snap, x) /\ BootFrom(conn'[x], x)
      BY <2>1, <3>2 DEF SnapFrom, BootFrom
    <3>4. FileFrom(file')
      BY <2>1 DEF FileFrom
    <3> QED
      BY <3>2, <3>3, <3>4 DEF Carried
  <2> QED
    BY <2>2, <2>3
<1>6. CASE Export(c) \/ Write(c) \/ Fencing(c)
  <2>1. CASE /\ conn[c].pc = "persist" /\ UNCHANGED file
             /\ Becomes(c, Snapped(conn[c], "write", Saved(export_persisted)))
    <3> DEFINE y == Snapped(conn[c], "write", Saved(export_persisted))
    <3>1. IsConn(y) /\ y.boot = conn[c].boot /\ y.snap = Saved(export_persisted)
      BY <1>1, ExportedIs
    <3>2. Becomes(c, y)
      BY <2>1
    <3> HIDE DEF y
    <3>3. SnapFrom(y.snap, c) /\ BootFrom(y, c) /\ FileFrom(file')
      BY <2>1, <3>1 DEF SnapFrom, BootFrom, FileFrom
    <3> QED
      BY <3>1, <3>2, <3>3, CarriedBy
  <2>2. CASE /\ conn[c].pc = "write" /\ file' = conn[c].snap
             /\ Becomes(c, Snapped(conn[c], "serving", NoState))
    <3> DEFINE y == Snapped(conn[c], "serving", NoState)
    <3>1. IsConn(y) /\ y.boot = conn[c].boot /\ y.snap = NoState
      BY <1>1, WrittenIs
    <3>2. Becomes(c, y)
      BY <2>2
    <3> HIDE DEF y
    <3>3. SnapFrom(y.snap, c) /\ BootFrom(y, c) /\ FileFrom(file')
      BY <2>2, <3>1 DEF SnapFrom, BootFrom, FileFrom
    <3> QED
      BY <3>1, <3>2, <3>3, CarriedBy
  <2>3. CASE /\ conn[c].pc = "fencing" /\ UNCHANGED file
             /\ Becomes(c, AtPc(conn[c], "erase"))
    BY <1>1, <1>2, <2>3, MovesIs
  <2>4. ASSUME NEW d, Becomes(c, AtTodo(conn[c], conn[c].todo \ {d})),
               conn[c].pc = "fencing", UNCHANGED file
        PROVE  Carried
    <3> DEFINE y == AtTodo(conn[c], conn[c].todo \ {d})
    <3>1. IsConn(y) /\ y.boot = conn[c].boot /\ y.snap = conn[c].snap
      BY <1>1, StruckIs
    <3>2. Becomes(c, y)
      BY <2>4
    <3> HIDE DEF y
    <3> QED
      BY <1>2, <2>4, <3>1, <3>2
  <2> QED
    BY <1>6, <2>1, <2>2, <2>3, <2>4, ThreadIs
<1>7. CASE Erase(c)
  <2>1. Becomes(c, Closed) /\ file' = file
    BY <1>7, EraseIs
  <2>2. SnapFrom(Closed.snap, c) /\ BootFrom(Closed, c) /\ FileFrom(file')
    BY <2>1, ClosedIs DEF SnapFrom, BootFrom, FileFrom
  <2> QED
    BY <2>1, <2>2, ClosedIs, CarriedBy
<1> QED
  BY <1>3, <1>4, <1>5, <1>6, <1>7

\* What is carried over from sound states is sound.
LEMMA CarriedIsSound ==
  ASSUME BootsInv, DurableInv, EngineInv, Carried
  PROVE  ConnOK' /\ BootsInv' /\ DurableInv'
<1>1. SavedOK(NoState) /\ SavedOK(Saved(export_persisted))
  BY NoStateIsSound, ExportIsSound DEF EngineInv
<1>2. SavedOK(file')
  BY <1>1 DEF Carried, FileFrom, DurableInv
<1>3. \A x \in Conns : SavedOK(conn'[x].snap)
  BY <1>1 DEF Carried, SnapFrom, DurableInv
<1>4. BootsInv'
  BY DEF Carried, BootFrom, BootsInv
<1> QED
  BY <1>2, <1>3, <1>4 DEF Carried, DurableInv

----------------------------------------------------------------------------
(* Recovery *)

\* At first and after every step of the threads, every crash and every restart.
LEMMA RecoveryStep ==
  /\ CoordInit => RecoveryInv
  /\ RecoveryInv /\ [CoordNext]_coordVars => RecoveryInv'
<1>1. ASSUME CoordInit PROVE RecoveryInv
  <2>1. /\ Init /\ file = NoState /\ conn = [c \in Conns |-> Closed]
    BY <1>1 DEF CoordInit
  <2>2. ConnOK /\ BootsInv /\ \A c \in Conns : conn[c].snap = NoState
    BY <2>1, ClosedIs DEF ConnOK, BootsInv
  <2>3. DurableInv
    BY <2>1, <2>2, NoStateIsSound DEF DurableInv
  <2>4. RegionInv /\ DerivedInv /\ WithinInv /\ LedgerCloses
    BY <2>1 DEF Init, EmptyMap, RegionInv, DerivedInv, WithinInv, LedgerCloses
  <2>5. PoolInv(Nat)
    BY <2>1 DEF Init, EmptyMap, PoolInv
  <2>6. EngineInv
    BY <2>1, <2>4, <2>5, TypeInit DEF EngineInv
  <2> QED
    BY <2>2, <2>3, <2>6 DEF RecoveryInv
<1>2. ASSUME RecoveryInv, [CoordNext]_coordVars PROVE RecoveryInv'
  <2>0. ConnOK /\ BootsInv /\ DurableInv /\ EngineInv /\ TypeInv /\ DerivedInv /\ WithinInv
    BY <1>2 DEF RecoveryInv, EngineInv
  <2>1. ASSUME NEW c \in Conns,
               \/ \E b \in BootId \ {0} : Connect(c, b)
               \/ Frame(c) \/ Export(c) \/ Write(c)
               \/ Disconnect(c) \/ Fencing(c) \/ Erase(c)
        PROVE  RecoveryInv'
    <3>1. [GrowNext]_vars
      BY <2>0, <2>1, ThreadIsEngineStep
    <3>2. EngineInv'
      BY <2>0, <3>1, EngineInvNext
    <3>3. Carried
      BY <2>0, <2>1, CarriedThread
    <3>4. ConnOK' /\ BootsInv' /\ DurableInv'
      BY <2>0, <3>3, CarriedIsSound
    <3> QED
      BY <3>2, <3>4 DEF RecoveryInv
  <2>2. ASSUME NEW e \in Epochs, Crash(e) \/ Stop(e) PROVE RecoveryInv'
    <3>1. SavedOK(file) /\ SavedOK(Saved(export_persisted))
      BY <2>0, ExportIsSound DEF DurableInv
    <3>2. PICK st : Start(e, st) /\ SavedOK(st)
      BY <2>2, <3>1 DEF Crash, Stop
    <3>3. StartFabric(e, st) /\ file' = st /\ conn' = [c \in Conns |-> Closed]
      BY <3>2 DEF Start
    <3>4. EngineInv'
      BY <3>2, <3>3, ImportIsSound
    <3>5. ConnOK' /\ \A x \in Conns : conn'[x].snap = NoState /\ conn'[x].pc = "closed"
      BY <3>3, NewProcess, ClosedIs
    <3>6. DurableInv' /\ BootsInv'
      BY <3>2, <3>3, <3>5, NoStateIsSound DEF DurableInv, BootsInv
    <3> QED
      BY <3>4, <3>5, <3>6 DEF RecoveryInv
  <2>3. CASE UNCHANGED coordVars
    <3>1. [GrowNext]_vars
      BY <2>3 DEF coordVars
    <3>2. EngineInv'
      BY <2>0, <3>1, EngineInvNext
    <3>3. conn' = conn /\ file' = file
      BY <2>3 DEF coordVars, threads, outside
    <3>4. ConnOK' /\ BootsInv' /\ DurableInv'
      BY <2>0, <3>3 DEF ConnOK, BootsInv, DurableInv
    <3> QED
      BY <3>2, <3>4 DEF RecoveryInv
  <2> QED
    BY <1>2, <2>1, <2>2, <2>3 DEF CoordNext
<1> QED
  BY <1>1, <1>2

\* What the invariant says of the accounts.
LEMMA RecoverySays ==
  RecoveryInv => PoolUseCovers /\ RegionUseExact /\ UsedWithinGoverned /\ LedgerCloses
<1> SUFFICES ASSUME RecoveryInv
             PROVE  PoolUseCovers /\ RegionUseExact /\ UsedWithinGoverned /\ LedgerCloses
  OBVIOUS
<1>1. TypeInv /\ PoolInv(Nat) /\ LedgerCloses /\ RegionInv /\ WithinInv
  BY DEF RecoveryInv, EngineInv
<1>2. Slack(Nat)
  BY DEF Slack
<1>3. PoolUseCovers
  BY <1>1, <1>2, PoolInvSays DEF PoolUseCovers
<1>4. RegionUseExact /\ UsedWithinGoverned
  BY <1>1, RegionInvSays, WithinAudits
<1> QED
  BY <1>1, <1>3, <1>4

\* The invariant holds in every process.
LEMMA RecoveryInvHolds == CoordSpec => []RecoveryInv
<1>1. CoordInit => RecoveryInv
  BY RecoveryStep
<1>2. RecoveryInv /\ [CoordNext]_coordVars => RecoveryInv'
  BY RecoveryStep
<1> QED
  BY <1>1, <1>2, PTL DEF CoordSpec

\* Whatever snapshot a process starts from, written by any thread at any time before or
\* after the reservations it does not hold, a pool never counts less than its outstanding
\* reservations hold: recovery makes no room that is taken.
THEOREM RecoveryCoversUse == CoordSpec => []PoolUseCovers
BY RecoveryInvHolds, RecoverySays, PTL

\* Regions start from zero with the reservations, and count exactly theirs.
THEOREM RecoveryKeepsRegionsExact == CoordSpec => []RegionUseExact
BY RecoveryInvHolds, RecoverySays, PTL

\* The bytes that a pool carries over from an earlier process never bring it over what it
\* governs: audit() finds nothing after any number of crashes and restarts.
THEOREM RecoveryAuditFindsNothing == CoordSpec => []UsedWithinGoverned
BY RecoveryInvHolds, RecoverySays, PTL

\* The cached global ledger is the sum over the pools also right after a recovery.
THEOREM RecoveryLedgerCloses == CoordSpec => []LedgerCloses
BY RecoveryInvHolds, RecoverySays, PTL

=============================================================================
