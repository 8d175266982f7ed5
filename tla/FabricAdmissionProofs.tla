------------------------- MODULE FabricAdmissionProofs -------------------------
(***************************************************************************)
(* Proofs about what admission promises, for any numbers of devices,       *)
(* regions, pools and reservations and any inputs: as long as no capacity  *)
(* is taken away (GrowSpec) no pool has more in use than it governs, and   *)
(* the engine implements Allocation.                                       *)
(***************************************************************************)
EXTENDS FabricAccountingProofs, FabricAllocation

----------------------------------------------------------------------------
(* What a pool may hand out, and the audit *)

Net(rec) == rec.total - rec.unavailable

\* The derived totals of every pool are up to date.
DerivedInv == \A p \in DOMAIN pools : Derived(pools[p])

\* Members left out hold no more than all.
LEMMA MemberBytesSubset ==
  ASSUME NEW ms, IsFiniteSet(ms), ms \subseteq PoolMember, NEW some, some \subseteq ms
  PROVE  MemberBytes(some) <= MemberBytes(ms)
<1> DEFINE f == [m \in ms |-> m.nominal]
           g == [m \in some |-> m.nominal]
<1>1. /\ \A m \in ms : f[m] \in Nat
      /\ \A m \in some : f[m] = g[m]
      /\ IsFiniteSet(some)
  BY FS_Subset DEF PoolMember
<1>2. MemberBytes(ms) = SumFunctionOnSet(f, ms) /\ MemberBytes(some) = SumFunctionOnSet(g, some)
  BY DEF MemberBytes
<1> HIDE DEF f, g
<1>3. SumFunctionOnSet(f, some) <= SumFunctionOnSet(f, ms)
  BY <1>1, SumSubset
<1>4. SumFunctionOnSet(f, some) = SumFunctionOnSet(g, some)
  BY <1>1, SumSame
<1> QED
  BY <1>2, <1>3, <1>4

\* One member more.
LEMMA MemberBytesAdd ==
  ASSUME NEW ms, IsFiniteSet(ms), NEW e, e \notin ms, ms \cup {e} \subseteq PoolMember
  PROVE  MemberBytes(ms \cup {e}) = e.nominal + MemberBytes(ms)
<1> DEFINE all == ms \cup {e}
           f == [m \in all |-> m.nominal]
           g == [m \in ms |-> m.nominal]
<1>1. /\ \A m \in all : f[m] \in Nat
      /\ \A m \in ms : f[m] = g[m]
      /\ f[e] = e.nominal
  BY DEF PoolMember
<1>2. MemberBytes(all) = SumFunctionOnSet(f, all) /\ MemberBytes(ms) = SumFunctionOnSet(g, ms)
  BY DEF MemberBytes
<1> HIDE DEF f, g
<1>3. SumFunctionOnSet(f, all) = f[e] + SumFunctionOnSet(f, ms)
  BY <1>1, SumAdd
<1>4. SumFunctionOnSet(f, ms) = SumFunctionOnSet(g, ms)
  BY <1>1, SumSame
<1> QED
  BY <1>1, <1>2, <1>3, <1>4

\* A pool governs at least the bytes it cannot use.
LEMMA NetNat ==
  ASSUME NEW rec \in CxlPool, IsFiniteSet(rec.members), Derived(rec)
  PROVE  Net(rec) \in Nat
<1> DEFINE on == {m \in rec.members : m.online}
           bad == {m \in rec.members : m.online /\ ~m.health_ok}
<1>1. /\ on \subseteq PoolMember /\ bad \subseteq on /\ on \subseteq rec.members
      /\ rec.total = MemberBytes(on) /\ rec.unavailable = MemberBytes(bad)
  BY DEF CxlPool, Derived
<1>2. IsFiniteSet(on) /\ IsFiniteSet(bad)
  <2> HIDE DEF on, bad
  <2> QED
    BY <1>1, FS_Subset
<1> HIDE DEF on, bad
<1>3. MemberBytes(on) \in Nat /\ MemberBytes(bad) \in Nat /\ MemberBytes(bad) <= MemberBytes(on)
  <2>1. bad \subseteq PoolMember
    BY <1>1
  <2> QED
    BY <1>1, <1>2, <2>1, MemberBytesNat, MemberBytesSubset
<1> QED
  BY <1>1, <1>3 DEF Net

\* A pool that gains a member may hand out no less.
LEMMA NetGrows ==
  ASSUME NEW old \in CxlPool, IsFiniteSet(old.members), Derived(old), NEW e \in PoolMember,
         NEW new \in CxlPool, new.members = old.members \cup {e}, Derived(new)
  PROVE  Net(new) >= Net(old)
<1> DEFINE on(ms) == {m \in ms : m.online}
           bad(ms) == {m \in ms : m.online /\ ~m.health_ok}
           a == old.members
           b == old.members \cup {e}
<1>1. /\ old.total = MemberBytes(on(a)) /\ old.unavailable = MemberBytes(bad(a))
      /\ new.total = MemberBytes(on(b)) /\ new.unavailable = MemberBytes(bad(b))
  BY DEF Derived
<1>2. /\ old.total \in Nat /\ old.unavailable \in Nat /\ new.total \in Nat
      /\ new.unavailable \in Nat /\ a \subseteq PoolMember /\ e.nominal \in Nat
  BY DEF CxlPool, PoolMember
<1>3. IsFiniteSet(on(a)) /\ IsFiniteSet(bad(a))
  BY FS_Subset
<1>4. CASE e \in a \/ ~e.online
  <2>1. on(b) = on(a) /\ bad(b) = bad(a)
    BY <1>4
  <2> HIDE DEF on, bad
  <2>2. new.total = old.total /\ new.unavailable = old.unavailable
    BY <1>1, <2>1
  <2> QED
    BY <1>2, <2>2 DEF Net
<1>5. CASE e \notin a /\ e.online
  <2>1. on(b) = on(a) \cup {e} /\ e \notin on(a) /\ on(a) \cup {e} \subseteq PoolMember
    BY <1>2, <1>5
  <2>2. MemberBytes(on(b)) = e.nominal + MemberBytes(on(a))
    <3> HIDE DEF on
    <3> QED
      BY <1>3, <2>1, MemberBytesAdd
  <2>3. CASE e.health_ok
    <3>1. bad(b) = bad(a)
      BY <1>5, <2>3
    <3> HIDE DEF on, bad
    <3>2. new.total = e.nominal + old.total /\ new.unavailable = old.unavailable
      BY <1>1, <2>2, <3>1
    <3> QED
      BY <1>2, <3>2 DEF Net
  <2>4. CASE ~e.health_ok
    <3>1. bad(b) = bad(a) \cup {e} /\ e \notin bad(a) /\ bad(a) \cup {e} \subseteq PoolMember
      BY <1>2, <1>5, <2>4
    <3>2. MemberBytes(bad(b)) = e.nominal + MemberBytes(bad(a))
      <4> HIDE DEF bad
      <4> QED
        BY <1>3, <3>1, MemberBytesAdd
    <3> HIDE DEF on, bad
    <3>3. /\ new.total = e.nominal + old.total
          /\ new.unavailable = e.nominal + old.unavailable
      BY <1>1, <2>2, <3>2
    <3> QED
      BY <1>2, <3>3 DEF Net
  <2> QED
    BY <2>3, <2>4
<1> QED
  BY <1>4, <1>5

\* The operations on pools keep the derived totals up to date, and no pool may hand out
\* less after them.
LEMMA PoolStepNet ==
  ASSUME TypeInv, DerivedInv, PoolStep
  PROVE  /\ DerivedInv'
         /\ \A q \in DOMAIN pools : Net(pools'[q]) >= Net(pools[q])
         /\ \A q \in DOMAIN pools' \ DOMAIN pools : Net(pools'[q]) >= 0
<1> DEFINE Goal == /\ DerivedInv'
                   /\ \A q \in DOMAIN pools : Net(pools'[q]) >= Net(pools[q])
                   /\ \A q \in DOMAIN pools' \ DOMAIN pools : Net(pools'[q]) >= 0
<1>0. PoolsOK /\ Finite
  BY DEF PoolsOK, TypeInv, TypeOK
<1>1. \A p \in DOMAIN pools : /\ pools[p] \in CxlPool /\ pools[p].id = p /\ p \in PoolId
                              /\ IsFiniteSet(pools[p].members) /\ Derived(pools[p])
                              /\ pools[p].members \in SUBSET PoolMember
                              /\ Net(pools[p]) \in Nat
  <2>1. \A p \in DOMAIN pools : /\ pools[p] \in CxlPool /\ pools[p].id = p /\ p \in PoolId
                                /\ IsFiniteSet(pools[p].members) /\ Derived(pools[p])
                                /\ pools[p].members \in SUBSET PoolMember
    BY <1>0 DEF PoolsOK, Finite, CxlPool, DerivedInv
  <2> QED
    BY <2>1, NetNat
<1>2. ASSUME NEW p \in DOMAIN pools, NEW rec, Derived(rec), Net(rec) >= Net(pools[p]),
             DOMAIN pools' = DOMAIN pools, pools'[p] = rec,
             \A q \in DOMAIN pools : q # p => pools'[q] = pools[q]
      PROVE  Goal
  BY <1>1, <1>2 DEF DerivedInv
<1>3. ASSUME NEW p \in DOMAIN pools, NEW rec \in CxlPool, StorePool(p, rec), Derived(rec),
             Net(rec) >= Net(pools[p])
      PROVE  Goal
  <2>1. pools' = Put(pools, p, rec)
    BY <1>3 DEF StorePool
  <2>2. /\ DOMAIN pools' = DOMAIN pools /\ pools'[p] = rec
        /\ \A q \in DOMAIN pools : q # p => pools'[q] = pools[q]
    BY <2>1 DEF Put
  <2> QED
    BY <1>2, <1>3, <2>2
<1>4. ASSUME NEW in \in PoolInputs, NEW e \in Epochs, create_pool(in, e) PROVE Goal
  <2> DEFINE rec == recompute_pool(NewRecord(in))
  <2>1. StorePool(in.id, rec) /\ in.id \notin DOMAIN pools
    BY <1>4 DEF create_pool, create_pool_reason, NewRecord
  <2>2. rec \in CxlPool /\ IsFiniteSet(rec.members) /\ Derived(rec)
    BY NewRecordType, RecomputePool
  <2> HIDE DEF rec
  <2>3. Net(rec) \in Nat
    BY <2>2, NetNat
  <2>4. pools' = Put(pools, in.id, rec)
    BY <2>1 DEF StorePool
  <2>5. /\ DOMAIN pools' = DOMAIN pools \cup {in.id} /\ pools'[in.id] = rec
        /\ \A q \in DOMAIN pools : q # in.id => pools'[q] = pools[q]
    BY <2>4 DEF Put
  <2> QED
    BY <1>1, <2>1, <2>2, <2>3, <2>5 DEF DerivedInv
<1>5. ASSUME NEW p \in DOMAIN pools, NEW m \in MemberInputs, NEW e \in Epochs,
             add_pool_member(p, m, e)
      PROVE  Goal
  <2> DEFINE ms == pools[p].members \cup {m}
             rec == WithMembers(pools[p], ms)
  <2>1. ms \in SUBSET PoolMember /\ IsFiniteSet(ms) /\ m \in PoolMember
    BY <1>1, InputAssumption, FS_AddElement
  <2>2. StorePool(p, rec)
    BY <1>5 DEF add_pool_member
  <2>3. rec \in CxlPool /\ rec.members = ms /\ Derived(rec)
    <3> HIDE DEF ms
    <3> QED
      BY <1>1, <2>1, WithMembersFacts
  <2> HIDE DEF rec
  <2>4. Net(rec) >= Net(pools[p])
    BY <1>1, <2>1, <2>3, NetGrows
  <2> QED
    BY <1>3, <2>2, <2>3, <2>4
<1>6. ASSUME NEW p \in DOMAIN pools, NEW rec \in CxlPool, rec.members = pools[p].members,
             Derived(rec)
      PROVE  Net(rec) >= Net(pools[p])
  <2>1. rec.total = pools[p].total /\ rec.unavailable = pools[p].unavailable
    BY <1>1, <1>6 DEF Derived
  <2> QED
    BY <1>1, <2>1 DEF Net
<1>7. ASSUME NEW p \in DOMAIN pools, NEW e \in Epochs, mark_pool_draining(p, e) PROVE Goal
  <2> DEFINE rec == [pools[p] EXCEPT !.state = "DRAINING"]
  <2>1. "DRAINING" \in PoolState
    BY DEF PoolState, PoolSuccessors
  <2>2. /\ rec \in CxlPool /\ rec.members = pools[p].members
        /\ rec.total = pools[p].total /\ rec.unavailable = pools[p].unavailable
    BY <1>1, <2>1 DEF CxlPool
  <2>3. pools' = [pools EXCEPT ![p] = rec]
    BY <1>7 DEF mark_pool_draining
  <2> HIDE DEF rec
  <2>4. Derived(rec)
    BY <1>1, <2>2 DEF Derived
  <2> QED
    BY <1>2, <1>6, <2>2, <2>3, <2>4
<1>8. ASSUME NEW p \in DOMAIN pools, NEW e \in Epochs, reconcile_pool(p, e) PROVE Goal
  BY <1>1, <1>3, <1>6, <1>8, RecomputePool DEF reconcile_pool
<1>9. ASSUME NEW p \in DOMAIN pools, NEW e \in Epochs, revalidate_pool(p, e) PROVE Goal
  <2>1. StorePool(p, recompute_pool(Revalidated(p)))
    BY <1>9 DEF revalidate_pool, Revalidated
  <2>2. /\ Revalidated(p) \in CxlPool /\ Revalidated(p).members = pools[p].members
        /\ IsFiniteSet(Revalidated(p).members)
    BY <1>0, <1>1, RevalidatedType
  <2> DEFINE rec == recompute_pool(Revalidated(p))
  <2>3. rec \in CxlPool /\ rec.members = pools[p].members /\ Derived(rec)
    BY <2>2, RecomputePool
  <2>4. StorePool(p, rec)
    BY <2>1
  <2> HIDE DEF rec
  <2>5. Net(rec) >= Net(pools[p])
    BY <1>6, <2>3
  <2> QED
    BY <1>3, <2>3, <2>4, <2>5
<1>10. Goal
  BY <1>4, <1>5, <1>7, <1>8, <1>9 DEF PoolStep
<1> QED
  BY <1>10

\* reserve, commit and release change no pool's totals.
LEMMA UseDerived ==
  ASSUME TypeInv, DerivedInv, NEW p \in DOMAIN pools, NEW r \in Nat, NEW c \in Nat,
         StorePool(p, PoolUse(p, r, c))
  PROVE  DerivedInv'
<1>1. /\ DOMAIN pools' = DOMAIN pools /\ pools'[p].members = pools[p].members
      /\ pools'[p].total = pools[p].total /\ pools'[p].unavailable = pools[p].unavailable
      /\ \A q \in DOMAIN pools : q # p => pools'[q] = pools[q]
  BY StoreUse
<1>2. \A q \in DOMAIN pools : Derived(pools'[q])
  BY <1>1 DEF DerivedInv, Derived
<1> QED
  BY <1>1, <1>2 DEF DerivedInv

\* Every step but those that take capacity away keeps the totals up to date.
LEMMA DerivedNext ==
  ASSUME NEW X, Slack(X), TypeInv, PoolInv(X), DerivedInv, [GrowNext]_vars
  PROVE  DerivedInv'
<1>1. ASSUME UNCHANGED pools PROVE DerivedInv'
  BY <1>1 DEF DerivedInv, Derived
<1>2. AuthorityStep => UNCHANGED pools
  BY DEF AuthorityStep, set_epoch, set_policy_generation, advance_evidence_generation, records
<1>3. DeviceStep \/ RegionStep => UNCHANGED pools
  BY DeviceGenerations, RegionGenerations
<1>4. PoolStep => DerivedInv'
  BY PoolStepNet
<1>5. ASSUME NEW req \in Requests, NEW ctx \in Context, reserve(req, ctx) PROVE DerivedInv'
  <2>1. PICK res \in Reservation : Reserved(res)
    BY <1>5, ReserveFacts
  <2> DEFINE p == res.pool
             r == pools[p].reserved + res.bytes
             c == pools[p].committed
  <2>2. p \in DOMAIN pools /\ StorePool(p, PoolUse(p, r, c))
    BY <2>1 DEF Reserved
  <2>3. pools[p].reserved \in Nat /\ c \in Nat /\ res.bytes \in Nat
    BY <2>1, <2>2, CounterTypes
  <2>4. r \in Nat
    BY <2>3
  <2> HIDE DEF p, r, c
  <2> QED
    BY <2>2, <2>3, <2>4, UseDerived
<1>6. ASSUME NEW id \in DOMAIN reservations, NEW ctx \in Context, commit(id, ctx) PROVE DerivedInv'
  <2> DEFINE p == reservations[id].pool
             r == pools[p].reserved - reservations[id].bytes
             c == pools[p].committed + reservations[id].bytes
  <2>1. /\ p \in DOMAIN pools /\ reservations[id].bytes <= pools[p].reserved
        /\ StorePool(p, PoolUse(p, r, c))
    BY <1>6, CommitFacts
  <2>2. /\ pools[p].reserved \in Nat /\ pools[p].committed \in Nat
        /\ reservations[id].bytes \in Nat
    BY <1>6, <2>1, CommitFacts, CounterTypes
  <2>3. r \in Nat /\ c \in Nat
    BY <2>1, <2>2
  <2> HIDE DEF p, r, c
  <2> QED
    BY <2>1, <2>3, UseDerived
<1>7. ASSUME NEW id \in DOMAIN reservations, NEW ctx \in Context, release(id, ctx) PROVE DerivedInv'
  <2> DEFINE p == reservations[id].pool
             r == pools[p].reserved - Clamp(reservations[id].bytes - pools[p].committed)
             c == Clamp(pools[p].committed - reservations[id].bytes)
  <2>1. p \in DOMAIN pools /\ r \in Nat /\ c \in Nat /\ StorePool(p, PoolUse(p, r, c))
    BY <1>7, ReleaseIsWhole
  <2> HIDE DEF p, r, c
  <2> QED
    BY <2>1, UseDerived
<1>8. UNCHANGED vars => UNCHANGED pools
  BY DEF vars
<1> QED
  BY <1>1, <1>2, <1>3, <1>4, <1>5, <1>6, <1>7, <1>8 DEF GrowNext, AdmissionStep

Within(rec) == rec.unavailable + rec.reserved + rec.committed + rec.draining <= rec.total
WithinInv == \A p \in DOMAIN pools : Within(pools[p])

\* The terms of a pool record are naturals.
LEMMA PoolTerms ==
  ASSUME NEW rec \in CxlPool
  PROVE  /\ rec.total \in Nat /\ rec.unavailable \in Nat /\ rec.reserved \in Nat
         /\ rec.committed \in Nat /\ rec.draining \in Nat
BY DEF CxlPool

\* Pools that are each within their totals make a ledger that is.
LEMMA WithinAudits ==
  ASSUME TypeInv, WithinInv
  PROVE  UsedWithinGoverned
<1> DEFINE live == {p \in DOMAIN pools : pools[p].state # "RETIRED"}
           a == [p \in live |-> pools[p].unavailable]
           b == [p \in live |-> pools[p].reserved]
           c == [p \in live |-> pools[p].committed]
           d == [p \in live |-> pools[p].draining]
           t == [p \in live |-> pools[p].total]
           g == recompute_global(pools)
<1>1. \A p \in DOMAIN pools : pools[p] \in CxlPool
  BY DEF TypeInv, TypeOK
<1>2. IsFiniteSet(live)
  BY FS_Subset DEF TypeInv, Finite
<1>3. \A x \in live : /\ a[x] \in Nat /\ b[x] \in Nat /\ c[x] \in Nat /\ d[x] \in Nat /\ t[x] \in Nat
                      /\ a[x] + b[x] + c[x] + d[x] <= t[x]
  BY <1>1, PoolTerms DEF WithinInv, Within
<1>4. /\ g.unavailable = SumFunctionOnSet(a, live) /\ g.reserved = SumFunctionOnSet(b, live)
      /\ g.committed = SumFunctionOnSet(c, live) /\ g.draining = SumFunctionOnSet(d, live)
      /\ g.online = SumFunctionOnSet(t, live)
  BY DEF recompute_global
<1> HIDE DEF live, a, b, c, d, t, g
<1>5. SumFunctionOnSet(a, live) + SumFunctionOnSet(b, live) + SumFunctionOnSet(c, live)
        + SumFunctionOnSet(d, live) <= SumFunctionOnSet(t, live)
  BY <1>2, <1>3, SumWithin
<1>6. g.unavailable + g.reserved + g.committed + g.draining <= g.online
  BY <1>4, <1>5
<1> QED
  BY <1>6 DEF UsedWithinGoverned, audit, g, WithinInv, Within

\* No operation but the two that take capacity away brings a pool over its total.
LEMMA WithinNext ==
  ASSUME NEW X, Slack(X), TypeInv, PoolInv(X), DerivedInv, WithinInv, [GrowNext]_vars
  PROVE  WithinInv'
<1>0. \A p \in DOMAIN pools : /\ pools[p].total \in Nat /\ pools[p].unavailable \in Nat
                              /\ pools[p].reserved \in Nat /\ pools[p].committed \in Nat
                              /\ pools[p].draining \in Nat /\ Within(pools[p])
  BY PoolTerms DEF TypeInv, TypeOK, WithinInv
<1>1. ASSUME UNCHANGED pools PROVE WithinInv'
  BY <1>1 DEF WithinInv, Within
<1>2. AuthorityStep => UNCHANGED pools
  BY DEF AuthorityStep, set_epoch, set_policy_generation, advance_evidence_generation, records
<1>3. DeviceStep \/ RegionStep => UNCHANGED pools
  BY DeviceGenerations, RegionGenerations
<1>4. ASSUME PoolStep PROVE WithinInv'
  <2>1. /\ \A q \in DOMAIN pools : Net(pools'[q]) >= Net(pools[q])
        /\ \A q \in DOMAIN pools' \ DOMAIN pools : Net(pools'[q]) >= 0
    BY <1>4, PoolStepNet
  <2>2. /\ PoolsOK'
        /\ \A q \in DOMAIN pools : /\ pools'[q].reserved = pools[q].reserved
                                   /\ pools'[q].committed = pools[q].committed
                                   /\ pools'[q].draining = pools[q].draining
        /\ \A q \in DOMAIN pools' \ DOMAIN pools :
             pools'[q].reserved = 0 /\ pools'[q].committed = 0 /\ pools'[q].draining = 0
    BY <1>4, PoolStepFacts
  <2>3. \A q \in DOMAIN pools' : pools'[q].total \in Nat /\ pools'[q].unavailable \in Nat
    BY <2>2, PoolTerms DEF PoolsOK
  <2>4. \A q \in DOMAIN pools' : Within(pools'[q])
    <3>1. ASSUME NEW q \in DOMAIN pools' \ DOMAIN pools PROVE Within(pools'[q])
      <4>1. /\ pools'[q].total \in Nat /\ pools'[q].unavailable \in Nat
            /\ pools'[q].total - pools'[q].unavailable >= 0
            /\ pools'[q].reserved = 0 /\ pools'[q].committed = 0 /\ pools'[q].draining = 0
        BY <2>1, <2>2, <2>3 DEF Net
      <4> QED
        BY <4>1 DEF Within
    <3>2. ASSUME NEW q \in DOMAIN pools, q \in DOMAIN pools' PROVE Within(pools'[q])
      <4> DEFINE t == pools[q].total
                 u == pools[q].unavailable
                 r == pools[q].reserved
                 c == pools[q].committed
                 d == pools[q].draining
      <4>1. /\ t \in Nat /\ u \in Nat /\ r \in Nat /\ c \in Nat /\ d \in Nat
            /\ u + r + c + d <= t
        BY <1>0 DEF Within
      <4>2. pools'[q].total - pools'[q].unavailable >= t - u
        BY <2>1 DEF Net
      <4>3. /\ pools'[q].total \in Nat /\ pools'[q].unavailable \in Nat
            /\ pools'[q].reserved = r /\ pools'[q].committed = c /\ pools'[q].draining = d
        BY <2>2, <2>3, <3>2
      <4> HIDE DEF t, u, r, c, d
      <4>4. pools'[q].unavailable + r + c + d <= pools'[q].total
        BY <4>1, <4>2, <4>3
      <4> QED
        BY <4>3, <4>4 DEF Within
    <3> QED
      BY <3>1, <3>2
  <2> QED
    BY <2>4 DEF WithinInv
<1>5. ASSUME NEW p \in DOMAIN pools, NEW r \in Nat, NEW c \in Nat, StorePool(p, PoolUse(p, r, c)),
             pools[p].unavailable + r + c + pools[p].draining <= pools[p].total
      PROVE  WithinInv'
  <2>1. /\ DOMAIN pools' = DOMAIN pools /\ pools'[p].reserved = r /\ pools'[p].committed = c
        /\ pools'[p].draining = pools[p].draining
        /\ pools'[p].total = pools[p].total /\ pools'[p].unavailable = pools[p].unavailable
        /\ \A q \in DOMAIN pools : q # p => pools'[q] = pools[q]
    BY <1>5, StoreUse
  <2>2. Within(pools'[p])
    BY <1>5, <2>1 DEF Within
  <2>3. \A q \in DOMAIN pools : Within(pools'[q])
    BY <1>0, <2>1, <2>2
  <2> QED
    BY <2>1, <2>3 DEF WithinInv
<1>6. ASSUME NEW req \in Requests, NEW ctx \in Context, reserve(req, ctx) PROVE WithinInv'
  <2>1. PICK res \in Reservation : Reserved(res)
    BY <1>6, ReserveFacts
  <2> DEFINE p == res.pool
             n == res.bytes
  <2>2. /\ p \in DOMAIN pools /\ n \in Nat /\ n # 0 /\ n <= pool_free(pools[p])
        /\ StorePool(p, PoolUse(p, pools[p].reserved + n, pools[p].committed))
    BY <2>1, CounterTypes DEF Reserved, Reservation
  <2> HIDE DEF p, n
  <2>3. /\ pools[p].unavailable + (pools[p].reserved + n) + pools[p].committed + pools[p].draining
             <= pools[p].total
        /\ pools[p].reserved + n \in Nat
    <3> DEFINE t == pools[p].total
               u == pools[p].unavailable
               a == pools[p].reserved
               b == pools[p].committed
               d == pools[p].draining
    <3>1. /\ t \in Nat /\ u \in Nat /\ a \in Nat /\ b \in Nat /\ d \in Nat
          /\ u + a + b + d <= t
      BY <1>0, <2>2 DEF Within
    <3>2. n \in Nat /\ n # 0 /\ n <= Clamp(t - (u + a + b + d))
      BY <2>2 DEF pool_free
    <3> HIDE DEF t, u, a, b, d
    <3>3. u + (a + n) + b + d <= t /\ a + n \in Nat
      BY <3>1, <3>2 DEF Clamp
    <3> QED
      BY <3>3 DEF t, u, a, b, d
  <2> QED
    BY <1>0, <1>5, <2>2, <2>3
<1>7. ASSUME NEW id \in DOMAIN reservations, NEW ctx \in Context, commit(id, ctx) PROVE WithinInv'
  <2> DEFINE p == reservations[id].pool
             n == reservations[id].bytes
  <2>1. /\ p \in DOMAIN pools /\ n \in Nat /\ n <= pools[p].reserved
        /\ StorePool(p, PoolUse(p, pools[p].reserved - n, pools[p].committed + n))
    BY <1>7, CommitFacts, CounterTypes
  <2> HIDE DEF p, n
  <2>2. /\ pools[p].unavailable + (pools[p].reserved - n) + (pools[p].committed + n)
             + pools[p].draining <= pools[p].total
        /\ pools[p].reserved - n \in Nat /\ pools[p].committed + n \in Nat
    BY <1>0, <2>1 DEF Within
  <2> QED
    BY <1>5, <2>1, <2>2
<1>8. ASSUME NEW id \in DOMAIN reservations, NEW ctx \in Context, release(id, ctx) PROVE WithinInv'
  <2> DEFINE p == reservations[id].pool
             n == reservations[id].bytes
             r == pools[p].reserved - Clamp(n - pools[p].committed)
             c == Clamp(pools[p].committed - n)
  <2>1. /\ p \in DOMAIN pools /\ r \in Nat /\ c \in Nat /\ n \in Nat /\ StorePool(p, PoolUse(p, r, c))
    BY <1>8, ReleaseIsWhole, CounterTypes
  <2>2. pools[p].unavailable + r + c + pools[p].draining <= pools[p].total
    <3> HIDE DEF p, n
    <3> DEFINE t == pools[p].total
               u == pools[p].unavailable
               a == pools[p].reserved
               b == pools[p].committed
               d == pools[p].draining
    <3>1. /\ t \in Nat /\ u \in Nat /\ a \in Nat /\ b \in Nat /\ d \in Nat
          /\ u + a + b + d <= t
      BY <1>0, <2>1 DEF Within
    <3> HIDE DEF t, u, a, b, d
    <3>0. n \in Nat /\ a - Clamp(n - b) \in Nat
      BY <2>1 DEF a, b
    <3>2. u + (a - Clamp(n - b)) + Clamp(b - n) + d <= t
      <4>1. CASE n <= b
        BY <3>0, <3>1, <4>1 DEF Clamp
      <4>2. CASE n > b
        BY <3>0, <3>1, <4>2 DEF Clamp
      <4> QED
        BY <3>0, <3>1, <4>1, <4>2
    <3> QED
      BY <3>2 DEF t, u, a, b, d
  <2> HIDE DEF p, r, c
  <2> QED
    BY <1>5, <2>1, <2>2
<1>9. UNCHANGED vars => UNCHANGED pools
  BY DEF vars
<1> QED
  BY <1>1, <1>2, <1>3, <1>4, <1>6, <1>7, <1>8, <1>9 DEF GrowNext, AdmissionStep

\* As long as no member is removed and no region overwritten, audit() finds nothing, for
\* any pools, regions and inputs: the regions of a pool share what the pool governs, and
\* only pool_free() keeps them from handing it out twice.
THEOREM AuditFindsNothing == GrowSpec => []UsedWithinGoverned
<1>0. Slack({0})
  BY DEF Slack
<1>1. Init => TypeInv /\ PoolInv({0}) /\ DerivedInv /\ WithinInv
  <2>1. Init => DOMAIN pools = {}
    BY DEF Init, EmptyMap
  <2>2. Init => DerivedInv /\ WithinInv
    BY <2>1 DEF DerivedInv, WithinInv
  <2> QED
    BY <2>2, TypeInit, PoolInvInit
<1>2. TypeInv /\ PoolInv({0}) /\ DerivedInv /\ WithinInv /\ [GrowNext]_vars
        => TypeInv' /\ PoolInv({0})' /\ DerivedInv' /\ WithinInv'
  <2>1. [GrowNext]_vars => [Next]_vars
    BY DEF Next
  <2> QED
    BY <1>0, <2>1, TypeNext, PoolInvNext, DerivedNext, WithinNext
<1>3. TypeInv /\ WithinInv => UsedWithinGoverned
  BY WithinAudits
<1> QED
  BY <1>1, <1>2, <1>3, PTL DEF GrowSpec

----------------------------------------------------------------------------
(* The steps of the engine are steps of Allocation *)

\* The sums of Allocation are those of Fabric.
LEMMA SameSum ==
  ASSUME NEW f, NEW S
  PROVE  Alloc!SumFunctionOnSet(f, S) = SumFunctionOnSet(f, S)
BY DEF SumFunctionOnSet, FoldFunctionOnSet, MapThenFoldSet, Alloc!SumFunctionOnSet,
       Alloc!FoldFunctionOnSet, Alloc!MapThenFoldSet

\* reserve, commit and release change nothing a pool governs.
LEMMA UseGoverned ==
  ASSUME TypeInv, NEW p \in DOMAIN pools, NEW r \in Nat, NEW c \in Nat,
         StorePool(p, PoolUse(p, r, c))
  PROVE  Governed' = Governed
<1>1. /\ DOMAIN pools' = DOMAIN pools
      /\ pools'[p].total = pools[p].total /\ pools'[p].unavailable = pools[p].unavailable
      /\ \A q \in DOMAIN pools : q # p => pools'[q] = pools[q]
  BY StoreUse
<1> QED
  BY <1>1 DEF Governed

\* What the grants of a pool hold is what its counters say.
LEMMA InUseIsCounted ==
  ASSUME TypeInv, PoolInv({0}), NEW p \in DOMAIN pools
  PROVE  Alloc!InUse(p) = pools[p].reserved + pools[p].committed
<1> DEFINE out == Hold(reservations, p, Outstanding)
<1>1. \A i \in DOMAIN reservations : reservations[i].state \in ResumeState
  BY DEF TypeInv, TypeOK, Reservation
<1>2. Alloc!Held(p) = out
  BY <1>1 DEF Alloc!Held, Hold, Grants, Outstanding, ResumeState
<1>3. [i \in out |-> Grants[i].bytes] = [i \in out |-> reservations[i].bytes]
  BY DEF Grants, Hold
<1>4. Alloc!InUse(p) = SumFunctionOnSet([i \in out |-> Grants[i].bytes], out)
  BY <1>2, SameSum DEF Alloc!InUse
<1>5. pools[p].reserved + pools[p].committed = Bytes(reservations, out)
  <2>1. Slack({0})
    BY DEF Slack
  <2>2. pools[p].reserved + pools[p].committed = BytesOf(HeldInPool(p, Outstanding))
    BY <2>1, PoolInvSays
  <2> QED
    BY <2>2 DEF BytesOf, Bytes, HeldInPool, Hold
<1> QED
  BY <1>3, <1>4, <1>5 DEF Bytes

\* reserve() is a grant: pool_free() leaves room for it.
LEMMA ReserveGrants ==
  ASSUME TypeInv, PoolInv({0}), NEW req \in Requests, NEW ctx \in Context, reserve(req, ctx)
  PROVE  Alloc!AllocationNext
<1>1. PICK res \in Reservation : Reserved(res)
  BY ReserveFacts
<1> DEFINE p == res.pool
           n == res.bytes
           e == sequence + 1
<1>2. /\ p \in DOMAIN pools /\ p \in PoolId /\ n \in ByteCount \ {0} /\ n \in Nat
      /\ pools[p].reserved \in Nat /\ pools[p].committed \in Nat /\ pools[p].total \in Nat
      /\ pools[p].unavailable \in Nat /\ pools[p].draining \in Nat
  BY <1>1, CounterTypes DEF Reserved, Reservation, TypeInv, TypeOK, CxlPool
<1>3. e \in 1..MaxReservations /\ e \notin DOMAIN reservations /\ e \in Nat
  <2>1. sequence \in Nat /\ DOMAIN reservations = 1..sequence
    BY DEF TypeInv, TypeOK
  <2>2. sequence < MaxReservations /\ MaxReservations \in Nat
    BY BoundAssumption DEF reserve
  <2> QED
    BY <2>1, <2>2
<1>4. n # 0 /\ n <= pool_free(pools[p])
  BY <1>1, <1>2 DEF Reserved
<1>5. pools[p].reserved + pools[p].committed + n <= pools[p].total - pools[p].unavailable
  BY <1>2, <1>4 DEF pool_free, Clamp
<1>6. Alloc!InUse(p) + n <= Governed[p]
  BY <1>2, <1>5, InUseIsCounted DEF Governed
<1>7. Governed' = Governed
  <2>1. StorePool(p, PoolUse(p, pools[p].reserved + n, pools[p].committed))
    BY <1>1 DEF Reserved
  <2>2. pools[p].reserved + n \in Nat
    BY <1>2
  <2> HIDE DEF p, n
  <2> QED
    BY <1>2, <2>1, <2>2, UseGoverned
<1>8. /\ reservations' = Put(reservations, e, res) /\ res.state = "RESERVED"
  BY <1>1 DEF Reserved
<1>9. Grants' = [j \in DOMAIN Grants \cup {e} |->
                   IF j = e THEN [pool |-> p, bytes |-> n, state |-> "RESERVED"] ELSE Grants[j]]
  <2>1. /\ DOMAIN reservations' = DOMAIN reservations \cup {e} /\ reservations'[e] = res
        /\ \A j \in DOMAIN reservations : j # e => reservations'[j] = reservations[j]
    BY <1>8 DEF Put
  <2> HIDE DEF e
  <2> QED
    BY <1>8, <2>1 DEF Grants
<1>10. e \notin DOMAIN Grants /\ p \in DOMAIN Governed
  BY <1>2, <1>3 DEF Grants, Governed
<1> HIDE DEF e, p, n
<1>11. Alloc!Grant(e, p, n)
  BY <1>6, <1>7, <1>9, <1>10 DEF Alloc!Grant
<1> QED
  BY <1>2, <1>3, <1>7, <1>11 DEF Alloc!AllocationNext

\* Moving one reservation to a later state settles its grant and no other.
LEMMA MoveSettles ==
  ASSUME TypeInv, NEW id \in DOMAIN reservations, NEW st \in ResumeState,
         reservations' = [reservations EXCEPT ![id] = [reservations[id] EXCEPT !.state = st]],
         Governed' = Governed
  PROVE  Alloc!Settle(id, reservations[id].state, st) /\ id \in DOMAIN Grants
<1>1. reservations[id] \in Reservation
  BY DEF TypeInv, TypeOK
<1>2. /\ DOMAIN reservations' = DOMAIN reservations
      /\ reservations'[id].pool = reservations[id].pool
      /\ reservations'[id].bytes = reservations[id].bytes /\ reservations'[id].state = st
      /\ \A j \in DOMAIN reservations : j # id => reservations'[j] = reservations[j]
  BY <1>1 DEF Reservation
<1>3. id \in DOMAIN Grants /\ Grants[id].state = reservations[id].state
  BY DEF Grants
<1>4. Grants' = [Grants EXCEPT ![id].state = st]
  <2> DEFINE new == [Grants EXCEPT ![id].state = st]
  <2>1. DOMAIN Grants' = DOMAIN reservations /\ DOMAIN new = DOMAIN reservations
    BY <1>2 DEF Grants
  <2>2. ASSUME NEW j \in DOMAIN reservations PROVE Grants'[j] = new[j]
    <3>1. Grants'[j] = [pool |-> reservations'[j].pool, bytes |-> reservations'[j].bytes,
                        state |-> reservations'[j].state]
      BY <1>2 DEF Grants
    <3> QED
      BY <1>2, <3>1 DEF Grants
  <2>3. Grants' = [j \in DOMAIN reservations |-> Grants'[j]]
    BY <1>2 DEF Grants
  <2>4. new = [j \in DOMAIN reservations |-> new[j]]
    BY DEF Grants
  <2> HIDE DEF new
  <2>5. Grants' = new
    BY <2>2, <2>3, <2>4
  <2> QED
    BY <2>5 DEF new
<1> QED
  BY <1>3, <1>4 DEF Alloc!Settle

\* commit() settles a grant.
LEMMA CommitSettles ==
  ASSUME TypeInv, PoolInv({0}), NEW id \in DOMAIN reservations, NEW ctx \in Context,
         commit(id, ctx)
  PROVE  Alloc!AllocationNext
<1> DEFINE p == reservations[id].pool
           r == pools[p].reserved - reservations[id].bytes
           c == pools[p].committed + reservations[id].bytes
<1>1. /\ reservations[id] \in Reservation /\ reservations[id].state = "RESERVED"
      /\ p \in DOMAIN pools
      /\ reservations[id].bytes <= pools[p].reserved /\ StorePool(p, PoolUse(p, r, c))
      /\ reservations' = [reservations EXCEPT ![id] = [reservations[id] EXCEPT !.state = "COMMITTED"]]
  BY CommitFacts
<1>2. r \in Nat /\ c \in Nat
  BY <1>1, CounterTypes
<1> HIDE DEF p, r, c
<1>3. Governed' = Governed
  BY <1>1, <1>2, UseGoverned
<1>4. "COMMITTED" \in ResumeState
  BY DEF ResumeState
<1>5. Alloc!Settle(id, "RESERVED", "COMMITTED") /\ id \in DOMAIN Grants
  BY <1>1, <1>3, <1>4, MoveSettles
<1> QED
  BY <1>3, <1>5 DEF Alloc!AllocationNext

\* release() settles a grant: it never ends half-way.
LEMMA ReleaseSettles ==
  ASSUME TypeInv, PoolInv({0}), NEW id \in DOMAIN reservations, NEW ctx \in Context,
         release(id, ctx)
  PROVE  Alloc!AllocationNext
<1> DEFINE p == reservations[id].pool
           r == pools[p].reserved - Clamp(reservations[id].bytes - pools[p].committed)
           c == Clamp(pools[p].committed - reservations[id].bytes)
<1>1. /\ reservations[id].state \in Outstanding /\ p \in DOMAIN pools
      /\ r \in Nat /\ c \in Nat /\ StorePool(p, PoolUse(p, r, c))
      /\ reservations' = [reservations EXCEPT ![id] = [reservations[id] EXCEPT !.state = "RELEASED"]]
  <2>1. Slack({0})
    BY DEF Slack
  <2> QED
    BY <2>1, ReleaseIsWhole
<1> HIDE DEF p, r, c
<1>2. Governed' = Governed
  BY <1>1, UseGoverned
<1>3. "RELEASED" \in ResumeState
  BY DEF ResumeState
<1>4. Alloc!Settle(id, reservations[id].state, "RELEASED") /\ id \in DOMAIN Grants
  BY <1>1, <1>2, <1>3, MoveSettles
<1>5. \/ Alloc!Settle(id, "RESERVED", "RELEASED")
      \/ Alloc!Settle(id, "COMMITTED", "RELEASED")
  BY <1>1, <1>4 DEF Outstanding
<1> QED
  BY <1>2, <1>4, <1>5 DEF Alloc!AllocationNext

\* Every step but those that take capacity away is a step of Allocation or changes
\* nothing of it.
LEMMA StepAllocates ==
  ASSUME TypeInv, PoolInv({0}), DerivedInv, [GrowNext]_vars
  PROVE  [Alloc!AllocationNext]_(Alloc!allocation)
<1> DEFINE Goal == [Alloc!AllocationNext]_(Alloc!allocation)
<1>1. ASSUME UNCHANGED <<pools, reservations>> PROVE Goal
  BY <1>1 DEF Governed, Grants, Alloc!allocation
<1>2. AuthorityStep => UNCHANGED <<pools, reservations>>
  BY DEF AuthorityStep, set_epoch, set_policy_generation, advance_evidence_generation, grants,
         records
<1>3. DeviceStep \/ RegionStep => UNCHANGED <<pools, reservations>>
  BY DeviceGenerations, RegionGenerations
<1>4. ASSUME PoolStep PROVE Goal
  <2>1. /\ \A q \in DOMAIN pools : Net(pools'[q]) >= Net(pools[q])
        /\ \A q \in DOMAIN pools' \ DOMAIN pools : Net(pools'[q]) >= 0
    BY <1>4, PoolStepNet
  <2>2. DOMAIN pools \subseteq DOMAIN pools' /\ DOMAIN pools' \subseteq PoolId
        /\ reservations' = reservations
    BY <1>4, PoolStepFacts DEF PoolsOK, grants
  <2>3. Alloc!Govern
    BY <2>1, <2>2 DEF Alloc!Govern, Governed, Grants, Net
  <2> QED
    BY <2>3 DEF Alloc!AllocationNext
<1>5. AdmissionStep => Goal
  BY ReserveGrants, CommitSettles, ReleaseSettles DEF AdmissionStep
<1>6. UNCHANGED vars => UNCHANGED <<pools, reservations>>
  BY DEF vars
<1> QED
  BY <1>1, <1>2, <1>3, <1>4, <1>5, <1>6 DEF GrowNext

\* For any inputs, as long as no member is removed and no region overwritten, the engine
\* hands out capacity as Allocation says: a grant is given only if the bytes of all the
\* outstanding ones leave room for it in what the pool governs and can use, and is settled
\* once, although reserve() and release() look at counters only.
THEOREM EngineImplementsAllocation == GrowSpec => ImplementsAllocation
<1>0. Slack({0})
  BY DEF Slack
<1>1. Init => TypeInv /\ PoolInv({0}) /\ DerivedInv /\ Alloc!AllocationInit
  <2>1. Init => DOMAIN pools = {} /\ DOMAIN reservations = {}
    BY DEF Init, EmptyMap
  <2>2. Init => DerivedInv /\ Alloc!AllocationInit
    BY <2>1 DEF DerivedInv, Alloc!AllocationInit, Governed, Grants
  <2> QED
    BY <2>2, TypeInit, PoolInvInit
<1>2. TypeInv /\ PoolInv({0}) /\ DerivedInv /\ [GrowNext]_vars => TypeInv' /\ PoolInv({0})' /\ DerivedInv'
  <2>1. [GrowNext]_vars => [Next]_vars
    BY DEF Next
  <2> QED
    BY <1>0, <2>1, TypeNext, PoolInvNext, DerivedNext
<1>3. TypeInv /\ PoolInv({0}) /\ DerivedInv /\ [GrowNext]_vars
        => [Alloc!AllocationNext]_(Alloc!allocation)
  BY StepAllocates
<1> QED
  BY <1>1, <1>2, <1>3, PTL DEF GrowSpec, ImplementsAllocation, Alloc!AllocationSpec

=============================================================================
