---------------------------- MODULE FabricProofs ----------------------------
(***************************************************************************)
(* Proofs about Fabric, for any numbers of devices, regions, pools and     *)
(* reservations and any inputs.  First the facts about sums that the       *)
(* proofs on capacity need: SumFunctionOnSet(f, S) is the sum of f[x] for  *)
(* x in a finite set S.  The library defines it by a recursive function on *)
(* the subsets of S; every fact is proved by looking at a smallest subset  *)
(* that would refute it (WFMin for the strict inclusion of finite sets).   *)
(***************************************************************************)
EXTENDS Fabric, FiniteSetTheorems, TLAPS

----------------------------------------------------------------------------
(* Sums *)

Pick(s) == CHOOSE x \in s : TRUE
Body(f, g, s) == IF s = {} THEN 0 ELSE f[Pick(s)] + g[s \ {Pick(s)}]
IsIter(f, g, S) == g = [s \in SUBSET S |-> Body(f, g, s)]
Iter(f, S) == CHOOSE g : IsIter(f, g, S)

\* The library's sum, in the words of this module.
LEMMA SumIsIter ==
  ASSUME NEW f, NEW S
  PROVE  SumFunctionOnSet(f, S) = Iter(f, S)[S]
BY DEF SumFunctionOnSet, FoldFunctionOnSet, MapThenFoldSet, Iter, IsIter, Body, Pick

\* A non-empty collection of subsets of a finite set has a smallest member.
LEMMA SmallestSubset ==
  ASSUME NEW S, IsFiniteSet(S), NEW T, T \subseteq SUBSET S, T # {}
  PROVE  \E x \in T : \A y \in T : y \subseteq x => y = x
<1>1. IsWellFoundedOn(StrictSubsetOrdering(S), SUBSET S)
  BY FS_StrictSubsetOrderingWellFounded, FS_FiniteSubsetsOfFinite
<1>2. PICK x \in T : \A y \in T : ~(<<y, x>> \in StrictSubsetOrdering(S))
  BY <1>1, WFMin
<1> QED
  BY <1>2 DEF StrictSubsetOrdering

\* The element picked from a non-empty set is one of its elements.
LEMMA PickIn ==
  ASSUME NEW s, s # {}
  PROVE  Pick(s) \in s /\ s \ {Pick(s)} \subseteq s /\ s \ {Pick(s)} # s
<1>1. Pick(s) \in s
  BY DEF Pick
<1> QED
  BY <1>1

\* What an iteration is at one subset.
LEMMA IterAt ==
  ASSUME NEW f, NEW g, NEW S, IsIter(f, g, S), NEW s, s \subseteq S
  PROVE  /\ s = {} => g[s] = 0
         /\ s # {} => g[s] = f[Pick(s)] + g[s \ {Pick(s)}]
<1>1. g[s] = Body(f, g, s)
  BY DEF IsIter
<1> QED
  BY <1>1 DEF Body

\* Two iterations agree wherever both are defined.
LEMMA IterAgree ==
  ASSUME NEW f, NEW S, IsFiniteSet(S), NEW A, A \subseteq S, NEW B, B \subseteq S,
         NEW g, IsIter(f, g, A), NEW h, IsIter(f, h, B),
         NEW u, u \subseteq A, u \subseteq B
  PROVE  g[u] = h[u]
<1> DEFINE T == {s \in SUBSET S : s \subseteq A /\ s \subseteq B /\ g[s] # h[s]}
<1>1. SUFFICES ASSUME T # {} PROVE FALSE
  OBVIOUS
<1>2. PICK s \in T : \A y \in T : y \subseteq s => y = s
  <2> HIDE DEF T
  <2>1. T \subseteq SUBSET S
    BY DEF T
  <2> QED
    BY <1>1, <2>1, SmallestSubset
<1>3. s # {}
  BY IterAt
<1>4. g[s \ {Pick(s)}] = h[s \ {Pick(s)}]
  BY <1>2, <1>3, PickIn
<1> QED
  BY <1>3, <1>4, IterAt

\* The recursion on the subsets of a finite set has a solution.
LEMMA IterExists ==
  ASSUME NEW f, NEW S, IsFiniteSet(S)
  PROVE  IsIter(f, Iter(f, S), S)
<1> DEFINE T == {A \in SUBSET S : ~IsIter(f, Iter(f, A), A)}
<1>1. SUFFICES ASSUME T # {} PROVE FALSE
  OBVIOUS
<1>2. PICK A \in T : \A y \in T : y \subseteq A => y = A
  <2> HIDE DEF T
  <2>1. T \subseteq SUBSET S
    BY DEF T
  <2> QED
    BY <1>1, <2>1, SmallestSubset
<1>3. \A u : u \subseteq A /\ u # A => IsIter(f, Iter(f, u), u)
  BY <1>2
<1> DEFINE Prev(s) == s \ {Pick(s)}
           g == [s \in SUBSET A |->
                   IF s = {} THEN 0
                   ELSE f[Pick(s)] + Iter(f, Prev(s))[Prev(s)]]
<1>4. ASSUME NEW u, u \subseteq A, u # A PROVE g[u] = Iter(f, u)[u]
  <2>1. IsIter(f, Iter(f, u), u)
    BY <1>3, <1>4
  <2>2. CASE u = {}
    BY <2>1, <2>2, IterAt, <1>4
  <2>3. CASE u # {}
    <3>1. Prev(u) \subseteq u /\ Prev(u) # u
      BY <2>3, PickIn
    <3>2. IsIter(f, Iter(f, Prev(u)), Prev(u))
      BY <1>3, <1>4, <3>1
    <3>3. Iter(f, u)[Prev(u)] = Iter(f, Prev(u))[Prev(u)]
      <4> HIDE DEF Prev
      <4>1. u \subseteq S /\ Prev(u) \subseteq S
        BY <1>4, <3>1
      <4> QED
        BY <2>1, <3>1, <3>2, <4>1, IterAgree
    <3>4. Iter(f, u)[u] = f[Pick(u)] + Iter(f, u)[Prev(u)]
      BY <2>1, <2>3, IterAt
    <3> QED
      BY <1>4, <2>3, <3>3, <3>4
  <2> QED
    BY <2>2, <2>3
<1>5. ASSUME NEW s \in SUBSET A PROVE g[s] = Body(f, g, s)
  <2>1. CASE s = {}
    BY <2>1 DEF Body
  <2>2. CASE s # {}
    <3>1. g[Prev(s)] = Iter(f, Prev(s))[Prev(s)]
      <4>1. Prev(s) \subseteq A /\ Prev(s) # A
        BY <2>2, PickIn
      <4> HIDE DEF g, Prev
      <4> QED
        BY <1>4, <4>1
    <3> QED
      BY <2>2, <3>1 DEF Body
  <2> QED
    BY <2>1, <2>2
<1>6. IsIter(f, g, A)
  <2>1. g = [s \in SUBSET A |-> g[s]]
    OBVIOUS
  <2>2. [s \in SUBSET A |-> g[s]] = [s \in SUBSET A |-> Body(f, g, s)]
    <3> HIDE DEF g
    <3> QED
      BY <1>5
  <2> QED
    BY <2>1, <2>2 DEF IsIter
<1>7. IsIter(f, Iter(f, A), A)
  <2> HIDE DEF g
  <2> QED
    BY <1>6 DEF Iter
<1> QED
  BY <1>7

----------------------------------------------------------------------------
\* The empty sum.
LEMMA SumEmpty ==
  ASSUME NEW f
  PROVE  SumFunctionOnSet(f, {}) = 0
BY SumIsIter, IterExists, IterAt, FS_EmptySet

\* The sum unfolds at the element the recursion picks.
LEMMA SumPick ==
  ASSUME NEW f, NEW S, IsFiniteSet(S), S # {}
  PROVE  SumFunctionOnSet(f, S) = f[Pick(S)] + SumFunctionOnSet(f, S \ {Pick(S)})
<1> DEFINE R == S \ {Pick(S)}
<1>1. R \subseteq S
  OBVIOUS
<1>2. IsFiniteSet(R)
  BY <1>1, FS_Subset
<1>3. IsIter(f, Iter(f, S), S) /\ IsIter(f, Iter(f, R), R)
  BY <1>2, IterExists
<1>4. Iter(f, S)[R] = Iter(f, R)[R]
  <2> HIDE DEF R
  <2> QED
    BY <1>1, <1>3, IterAgree
<1>5. Iter(f, S)[S] = f[Pick(S)] + Iter(f, S)[R]
  BY <1>3, IterAt
<1> QED
  BY <1>4, <1>5, SumIsIter

\* A sum of naturals is a natural.
LEMMA SumNat ==
  ASSUME NEW f, NEW S, IsFiniteSet(S), \A x \in S : f[x] \in Nat
  PROVE  SumFunctionOnSet(f, S) \in Nat
<1> DEFINE T == {s \in SUBSET S : SumFunctionOnSet(f, s) \notin Nat}
<1>1. SUFFICES ASSUME T # {} PROVE FALSE
  OBVIOUS
<1>2. PICK s \in T : \A y \in T : y \subseteq s => y = s
  <2> HIDE DEF T
  <2>1. T \subseteq SUBSET S
    BY DEF T
  <2> QED
    BY <1>1, <2>1, SmallestSubset
<1>3. s # {} /\ IsFiniteSet(s)
  <2>1. SumFunctionOnSet(f, {}) \in Nat
    BY SumEmpty
  <2> QED
    BY <2>1, FS_Subset
<1>4. SumFunctionOnSet(f, s \ {Pick(s)}) \in Nat
  BY <1>2, <1>3, PickIn
<1>5. f[Pick(s)] \in Nat
  BY <1>3, PickIn
<1> QED
  BY <1>3, <1>4, <1>5, SumPick

\* Functions that agree on S have the same sum over S.
LEMMA SumSame ==
  ASSUME NEW f, NEW g, NEW S, IsFiniteSet(S), \A x \in S : f[x] = g[x]
  PROVE  SumFunctionOnSet(f, S) = SumFunctionOnSet(g, S)
<1> DEFINE T == {s \in SUBSET S : SumFunctionOnSet(f, s) # SumFunctionOnSet(g, s)}
<1>1. SUFFICES ASSUME T # {} PROVE FALSE
  OBVIOUS
<1>2. PICK s \in T : \A y \in T : y \subseteq s => y = s
  <2> HIDE DEF T
  <2>1. T \subseteq SUBSET S
    BY DEF T
  <2> QED
    BY <1>1, <2>1, SmallestSubset
<1>3. s # {} /\ IsFiniteSet(s)
  BY SumEmpty, FS_Subset
<1>4. SumFunctionOnSet(f, s \ {Pick(s)}) = SumFunctionOnSet(g, s \ {Pick(s)})
  BY <1>2, <1>3, PickIn
<1>5. f[Pick(s)] = g[Pick(s)]
  BY <1>3, PickIn
<1> QED
  BY <1>3, <1>4, <1>5, SumPick

\* Any one element can be taken out of a sum.
LEMMA SumRemove ==
  ASSUME NEW f, NEW S, IsFiniteSet(S), \A x \in S : f[x] \in Nat, NEW e \in S
  PROVE  SumFunctionOnSet(f, S) = f[e] + SumFunctionOnSet(f, S \ {e})
<1> DEFINE Splits(s, x) == SumFunctionOnSet(f, s) = f[x] + SumFunctionOnSet(f, s \ {x})
           T == {s \in SUBSET S : \E x \in s : ~Splits(s, x)}
<1>1. SUFFICES ASSUME T # {} PROVE FALSE
  OBVIOUS
<1>2. PICK s \in T : \A y \in T : y \subseteq s => y = s
  <2> HIDE DEF T
  <2>1. T \subseteq SUBSET S
    BY DEF T
  <2> QED
    BY <1>1, <2>1, SmallestSubset
<1>3. PICK x \in s : ~Splits(s, x)
  OBVIOUS
<1>4. s # {} /\ IsFiniteSet(s)
  BY FS_Subset
<1> DEFINE p == Pick(s)
<1>5. p \in s /\ Splits(s, p)
  BY <1>4, PickIn, SumPick
<1> HIDE DEF p
<1>6. p # x
  BY <1>3, <1>5
<1>7. Splits(s \ {p}, x)
  BY <1>2, <1>5, <1>6
<1>8. Splits(s \ {x}, p)
  BY <1>2, <1>5, <1>6
<1>9. (s \ {p}) \ {x} = (s \ {x}) \ {p}
  OBVIOUS
<1>10. SumFunctionOnSet(f, (s \ {p}) \ {x}) \in Nat
  <2>1. IsFiniteSet((s \ {p}) \ {x})
    BY <1>4, FS_Subset
  <2> QED
    BY <2>1, SumNat
<1>11. f[p] \in Nat /\ f[x] \in Nat
  BY <1>5
<1> QED
  BY <1>3, <1>5, <1>7, <1>8, <1>9, <1>10, <1>11

\* An element can be put into a sum.
LEMMA SumAdd ==
  ASSUME NEW f, NEW S, IsFiniteSet(S), NEW e, e \notin S,
         \A x \in S \cup {e} : f[x] \in Nat
  PROVE  SumFunctionOnSet(f, S \cup {e}) = f[e] + SumFunctionOnSet(f, S)
<1>1. IsFiniteSet(S \cup {e})
  BY FS_AddElement
<1>2. (S \cup {e}) \ {e} = S
  OBVIOUS
<1> QED
  BY <1>1, <1>2, SumRemove

\* A sum over fewer naturals is no larger.
LEMMA SumSubset ==
  ASSUME NEW f, NEW S, IsFiniteSet(S), \A x \in S : f[x] \in Nat, NEW U, U \subseteq S
  PROVE  SumFunctionOnSet(f, U) <= SumFunctionOnSet(f, S)
<1> DEFINE T == {s \in SUBSET S : U \subseteq s /\ ~(SumFunctionOnSet(f, U) <= SumFunctionOnSet(f, s))}
<1>1. SUFFICES ASSUME T # {} PROVE FALSE
  OBVIOUS
<1>2. PICK s \in T : \A y \in T : y \subseteq s => y = s
  <2> HIDE DEF T
  <2>1. T \subseteq SUBSET S
    BY DEF T
  <2> QED
    BY <1>1, <2>1, SmallestSubset
<1>3. IsFiniteSet(U) /\ IsFiniteSet(s)
  BY FS_Subset
<1>4. SumFunctionOnSet(f, U) \in Nat
  BY <1>3, SumNat
<1>5. PICK x \in s : x \notin U
  BY <1>4
<1>6. SumFunctionOnSet(f, U) <= SumFunctionOnSet(f, s \ {x})
  BY <1>2, <1>5
<1>7. SumFunctionOnSet(f, s \ {x}) \in Nat
  <2>1. IsFiniteSet(s \ {x})
    BY <1>3, FS_Subset
  <2> QED
    BY <2>1, SumNat
<1>8. SumFunctionOnSet(f, s) = f[x] + SumFunctionOnSet(f, s \ {x})
  BY <1>3, <1>5, SumRemove
<1> QED
  BY <1>4, <1>5, <1>6, <1>7, <1>8

\* Four terms that stay within a fifth everywhere do so when they are summed up.
LEMMA SumWithin ==
  ASSUME NEW a, NEW b, NEW c, NEW d, NEW t, NEW S, IsFiniteSet(S),
         \A x \in S : /\ a[x] \in Nat /\ b[x] \in Nat /\ c[x] \in Nat /\ d[x] \in Nat /\ t[x] \in Nat
                      /\ a[x] + b[x] + c[x] + d[x] <= t[x]
  PROVE  SumFunctionOnSet(a, S) + SumFunctionOnSet(b, S) + SumFunctionOnSet(c, S)
           + SumFunctionOnSet(d, S) <= SumFunctionOnSet(t, S)
<1> DEFINE Within(s) == SumFunctionOnSet(a, s) + SumFunctionOnSet(b, s) + SumFunctionOnSet(c, s)
                          + SumFunctionOnSet(d, s) <= SumFunctionOnSet(t, s)
           T == {s \in SUBSET S : ~Within(s)}
<1>1. SUFFICES ASSUME T # {} PROVE FALSE
  BY DEF T
<1>2. PICK s \in T : \A y \in T : y \subseteq s => y = s
  <2> HIDE DEF T
  <2>1. T \subseteq SUBSET S
    BY DEF T
  <2> QED
    BY <1>1, <2>1, SmallestSubset
<1>3. s # {} /\ IsFiniteSet(s)
  <2>1. Within({})
    BY SumEmpty
  <2> QED
    BY <2>1, FS_Subset
<1> DEFINE p == Pick(s)
           r == s \ {p}
<1>4. p \in s /\ r \subseteq s /\ r # s
  BY <1>3, PickIn
<1>5. Within(r)
  BY <1>2, <1>4
<1>6. IsFiniteSet(r)
  BY <1>3, <1>4, FS_Subset
<1>7. /\ SumFunctionOnSet(a, r) \in Nat /\ SumFunctionOnSet(b, r) \in Nat
      /\ SumFunctionOnSet(c, r) \in Nat /\ SumFunctionOnSet(d, r) \in Nat
      /\ SumFunctionOnSet(t, r) \in Nat
  <2> HIDE DEF r
  <2> QED
    BY <1>4, <1>6, SumNat
<1>8. /\ SumFunctionOnSet(a, s) = a[p] + SumFunctionOnSet(a, r)
      /\ SumFunctionOnSet(b, s) = b[p] + SumFunctionOnSet(b, r)
      /\ SumFunctionOnSet(c, s) = c[p] + SumFunctionOnSet(c, r)
      /\ SumFunctionOnSet(d, s) = d[p] + SumFunctionOnSet(d, r)
      /\ SumFunctionOnSet(t, s) = t[p] + SumFunctionOnSet(t, r)
  BY <1>3, SumPick
<1>9. /\ a[p] \in Nat /\ b[p] \in Nat /\ c[p] \in Nat /\ d[p] \in Nat /\ t[p] \in Nat
      /\ a[p] + b[p] + c[p] + d[p] <= t[p]
  BY <1>4
<1> HIDE DEF p, r
<1> QED
  BY <1>5, <1>7, <1>8, <1>9

----------------------------------------------------------------------------
(* The types, part by part *)

AuthorityOK == epoch \in Epochs /\ policy \in Policies /\ evidence \in 0..MaxGen
DevicesOK ==
  /\ DOMAIN devices \subseteq DeviceId
  /\ \A d \in DOMAIN devices : devices[d] \in CxlDevice /\ devices[d].id = d
RegionsOK ==
  /\ DOMAIN regions \subseteq RegionId
  /\ \A r \in DOMAIN regions : regions[r] \in CxlRegion /\ regions[r].id = r
PoolsOK ==
  /\ DOMAIN pools \subseteq PoolId
  /\ \A p \in DOMAIN pools : pools[p] \in CxlPool /\ pools[p].id = p
ReservationsOK ==
  /\ sequence \in Nat /\ DOMAIN reservations = 1..sequence
  /\ \A i \in DOMAIN reservations : reservations[i] \in Reservation

\* Maps and member lists are finite, and a reservation names records that exist:
\* nothing is ever erased.
Finite ==
  /\ IsFiniteSet(DOMAIN pools)
  /\ \A p \in DOMAIN pools : IsFiniteSet(pools[p].members)
Refs ==
  \A i \in DOMAIN reservations :
    /\ reservations[i].pool \in DOMAIN pools
    /\ reservations[i].region \in DOMAIN regions
    /\ reservations[i].device \in DOMAIN devices

TypeInv == TypeOK /\ Finite /\ Refs

\* TypeOK is the conjunction of one part per map.
LEMMA TypeParts ==
  TypeOK <=> /\ AuthorityOK /\ DevicesOK /\ RegionsOK /\ PoolsOK /\ ReservationsOK
             /\ ledger \in Ledger
BY DEF TypeOK, AuthorityOK, DevicesOK, RegionsOK, PoolsOK, ReservationsOK

\* The bytes of finitely many members are a natural.
LEMMA MemberBytesNat ==
  ASSUME NEW ms, IsFiniteSet(ms), ms \subseteq PoolMember
  PROVE  MemberBytes(ms) \in Nat
<1>1. \A m \in ms : [x \in ms |-> x.nominal][m] \in Nat
  BY DEF PoolMember
<1> QED
  BY <1>1, SumNat DEF MemberBytes

\* The derived totals of a pool are those of its members.
Derived(rec) ==
  /\ rec.total = MemberBytes({m \in rec.members : m.online})
  /\ rec.unavailable = MemberBytes({m \in rec.members : m.online /\ ~m.health_ok})

\* recompute_pool_locked() changes the two derived totals and nothing else.
LEMMA RecomputePool ==
  ASSUME NEW rec \in CxlPool, IsFiniteSet(rec.members)
  PROVE  /\ recompute_pool(rec) \in CxlPool
         /\ recompute_pool(rec).members = rec.members
         /\ recompute_pool(rec).id = rec.id
         /\ recompute_pool(rec).generation = rec.generation
         /\ recompute_pool(rec).reserved = rec.reserved
         /\ recompute_pool(rec).committed = rec.committed
         /\ recompute_pool(rec).draining = rec.draining
         /\ Derived(recompute_pool(rec))
<1> DEFINE governed == {m \in rec.members : m.online}
           bad == {m \in governed : ~m.health_ok}
<1>1. governed \subseteq rec.members /\ bad \subseteq rec.members /\ rec.members \subseteq PoolMember
  BY DEF CxlPool
<1>2. IsFiniteSet(governed) /\ IsFiniteSet(bad)
  BY <1>1, FS_Subset
<1>3. MemberBytes(governed) \in Nat /\ MemberBytes(bad) \in Nat
  <2> HIDE DEF governed, bad
  <2> QED
    BY <1>1, <1>2, MemberBytesNat
<1>4. recompute_pool(rec) = [rec EXCEPT !.total = MemberBytes(governed),
                                        !.unavailable = MemberBytes(bad)]
  BY DEF recompute_pool
<1>5. bad = {m \in rec.members : m.online /\ ~m.health_ok}
  OBVIOUS
<1>6. ASSUME NEW new, new.members = rec.members, new.total = MemberBytes(governed),
             new.unavailable = MemberBytes(bad)
      PROVE  Derived(new)
  BY <1>5, <1>6 DEF Derived
<1> HIDE DEF governed, bad
<1>7. /\ recompute_pool(rec).members = rec.members
      /\ recompute_pool(rec).total = MemberBytes(governed)
      /\ recompute_pool(rec).unavailable = MemberBytes(bad)
  BY <1>3, <1>4 DEF CxlPool
<1> QED
  BY <1>3, <1>4, <1>6, <1>7 DEF CxlPool

\* The global ledger of finitely many pools is made of naturals.
LEMMA LedgerNat ==
  ASSUME NEW ps, IsFiniteSet(DOMAIN ps), \A p \in DOMAIN ps : ps[p] \in CxlPool
  PROVE  recompute_global(ps) \in Ledger
<1> DEFINE live == {p \in DOMAIN ps : ps[p].state # "RETIRED"}
<1>1. IsFiniteSet(live) /\ live \subseteq DOMAIN ps
  BY FS_Subset
<1>2. \A p \in live : /\ ps[p].total \in Nat /\ ps[p].unavailable \in Nat
                      /\ ps[p].reserved \in Nat /\ ps[p].committed \in Nat
                      /\ ps[p].draining \in Nat
  BY DEF CxlPool
<1> HIDE DEF live
<1>3. /\ SumFunctionOnSet([p \in live |-> ps[p].total], live) \in Nat
      /\ SumFunctionOnSet([p \in live |-> ps[p].unavailable], live) \in Nat
      /\ SumFunctionOnSet([p \in live |-> ps[p].reserved], live) \in Nat
      /\ SumFunctionOnSet([p \in live |-> ps[p].committed], live) \in Nat
      /\ SumFunctionOnSet([p \in live |-> ps[p].draining], live) \in Nat
  BY <1>1, <1>2, SumNat
<1> QED
  BY <1>3 DEF recompute_global, Ledger, live

\* Storing a pool record keeps the types.
LEMMA StorePoolType ==
  ASSUME PoolsOK, Finite, NEW p \in PoolId, NEW rec \in CxlPool, rec.id = p,
         IsFiniteSet(rec.members), StorePool(p, rec)
  PROVE  /\ PoolsOK' /\ Finite' /\ ledger' \in Ledger
         /\ DOMAIN pools' = DOMAIN pools \cup {p} /\ pools'[p] = rec
         /\ \A q \in DOMAIN pools : q # p => pools'[q] = pools[q]
<1>1. /\ DOMAIN pools' = DOMAIN pools \cup {p} /\ pools'[p] = rec
      /\ \A q \in DOMAIN pools : q # p => pools'[q] = pools[q]
  <2>1. pools' = Put(pools, p, rec)
    BY DEF StorePool
  <2> QED
    BY <2>1 DEF Put
<1>2. PoolsOK'
  BY <1>1 DEF PoolsOK
<1>3. Finite'
  BY <1>1, FS_AddElement DEF Finite
<1>4. ledger' \in Ledger
  BY <1>2, <1>3, LedgerNat DEF StorePool, PoolsOK, Finite
<1> QED
  BY <1>1, <1>2, <1>3, <1>4

----------------------------------------------------------------------------
(* Every step keeps the types *)

\* The three setters of the authority keep the types.
LEMMA TypeAuthority ==
  ASSUME TypeInv, AuthorityStep
  PROVE  TypeInv'
<1>1. UNCHANGED <<records, grants, ledger>>
  BY DEF AuthorityStep, set_epoch, set_policy_generation, advance_evidence_generation
<1>2. AuthorityOK'
  <2>1. ASSUME NEW e \in Epochs, set_epoch(e) PROVE AuthorityOK'
    BY <2>1 DEF set_epoch, AuthorityOK, TypeInv, TypeOK
  <2>2. ASSUME NEW g \in Policies, set_policy_generation(g) PROVE AuthorityOK'
    BY <2>2 DEF set_policy_generation, AuthorityOK, TypeInv, TypeOK
  <2>3. ASSUME advance_evidence_generation PROVE AuthorityOK'
    BY <2>3, MaxGenAssumption
    DEF advance_evidence_generation, AuthorityOK, TypeInv, TypeOK, NextGen
  <2> QED
    BY <2>1, <2>2, <2>3 DEF AuthorityStep
<1> QED
  BY <1>1, <1>2 DEF TypeInv, TypeOK, Finite, Refs, AuthorityOK, records, grants

\* Overwriting one record with one of its type keeps the types.
LEMMA DeviceUpdate ==
  ASSUME DevicesOK, NEW d \in DOMAIN devices, NEW rec \in CxlDevice, rec.id = d,
         devices' = [devices EXCEPT ![d] = rec]
  PROVE  DevicesOK' /\ DOMAIN devices' = DOMAIN devices
BY DEF DevicesOK

\* The same for a region.
LEMMA RegionUpdate ==
  ASSUME RegionsOK, NEW r \in DOMAIN regions, NEW rec \in CxlRegion, rec.id = r,
         regions' = [regions EXCEPT ![r] = rec]
  PROVE  RegionsOK' /\ DOMAIN regions' = DOMAIN regions
BY DEF RegionsOK

\* Registering a device and marking it keep the types.
LEMMA TypeDevice ==
  ASSUME TypeInv, DeviceStep
  PROVE  TypeInv'
<1> DEFINE Goal == /\ UNCHANGED <<authority, regions, pools, grants, ledger>>
                   /\ DevicesOK' /\ DOMAIN devices \subseteq DOMAIN devices'
<1>0. DevicesOK
  BY DEF DevicesOK, TypeInv, TypeOK
<1>1. ASSUME NEW dev \in DeviceInputs, NEW e \in Epochs, register_device(dev, e) PROVE Goal
  <2>1. devices' = Put(devices, dev.id, dev)
    BY <1>1 DEF register_device
  <2>2. dev \in CxlDevice /\ dev.id \in DeviceId
    BY InputAssumption DEF CxlDevice
  <2>3. DevicesOK' /\ DOMAIN devices \subseteq DOMAIN devices'
    BY <1>0, <2>1, <2>2 DEF Put, DevicesOK
  <2> QED
    BY <1>1, <2>3 DEF register_device
<1>2. ASSUME NEW d \in DOMAIN devices, NEW e \in Epochs, NEW st \in DeviceState,
             NEW cur \in BOOLEAN, MarkDevice(d, e, st, cur)
      PROVE  Goal
  <2>1. [devices[d] EXCEPT !.state = st, !.evidence_current = cur] \in CxlDevice
    <3>1. devices[d] \in CxlDevice
      BY <1>0 DEF DevicesOK
    <3> QED
      BY <3>1, ZenonT(30) DEF CxlDevice
  <2>2. [devices[d] EXCEPT !.state = st, !.evidence_current = cur].id = d
    BY <1>0 DEF DevicesOK, CxlDevice
  <2> QED
    BY <1>0, <1>2, <2>1, <2>2, DeviceUpdate DEF MarkDevice
<1>3. "ONLINE" \in DeviceState /\ "REVALIDATION_REQUIRED" \in DeviceState
  BY DEF DeviceState, DeviceSuccessors
<1>4. Goal
  BY <1>1, <1>2, <1>3 DEF DeviceStep, mark_device_online, mark_device_revalidation
<1> QED
  BY <1>4 DEF TypeInv, TypeOK, Finite, Refs, DevicesOK, authority, grants

\* Creating, overwriting, reconfiguring, draining and revalidating a region keep them.
LEMMA TypeRegion ==
  ASSUME TypeInv, RegionStep \/ OverwriteStep
  PROVE  TypeInv'
<1> DEFINE Goal == /\ UNCHANGED <<authority, devices, pools, grants, ledger>>
                   /\ RegionsOK' /\ DOMAIN regions \subseteq DOMAIN regions'
<1>0. RegionsOK
  BY DEF RegionsOK, TypeInv, TypeOK
<1>1. ASSUME NEW reg \in RegionInputs, NEW e \in Epochs,
             create_region(reg, e) \/ update_region(reg, e)
      PROVE  Goal
  <2>1. reg \in CxlRegion /\ reg.id \in RegionId
    BY InputAssumption DEF CxlRegion
  <2>2. CASE create_region(reg, e)
    <3>1. regions' = Put(regions, reg.id, reg)
      BY <2>2 DEF create_region
    <3>2. RegionsOK' /\ DOMAIN regions \subseteq DOMAIN regions'
      BY <1>0, <2>1, <3>1 DEF Put, RegionsOK
    <3> QED
      BY <2>2, <3>2 DEF create_region
  <2>3. CASE update_region(reg, e)
    BY <1>0, <2>1, <2>3, RegionUpdate DEF update_region
  <2> QED
    BY <1>1, <2>2, <2>3
<1>2. ASSUME NEW r \in DOMAIN regions, NEW e \in Epochs, NEW ms \in MemberLists,
             reconfigure_region(r, ms, e)
      PROVE  Goal
  <2> DEFINE rec == [regions[r] EXCEPT !.generation = NextGen(regions[r].generation),
                                       !.member_devices = ms, !.state = "RECONFIGURING",
                                       !.evidence_current = FALSE]
  <2>1. ms \in Seq(DeviceId) /\ "RECONFIGURING" \in RegionState
    BY InputAssumption DEF RegionState, RegionSuccessors
  <2>2. NextGen(regions[r].generation) \in Generation
    <3>1. regions[r].generation \in Generation
      BY <1>0 DEF RegionsOK, CxlRegion
    <3> QED
      BY <1>2, <3>1, MaxGenAssumption DEF reconfigure_region, NextGen, Generation
  <2>3. rec \in CxlRegion /\ rec.id = r
    <3>1. regions[r] \in CxlRegion /\ regions[r].id = r
      BY <1>0 DEF RegionsOK
    <3> QED
      BY <2>1, <2>2, <3>1 DEF CxlRegion
  <2>4. regions' = [regions EXCEPT ![r] = rec]
    BY <1>2 DEF reconfigure_region
  <2> HIDE DEF rec
  <2> QED
    BY <1>0, <1>2, <2>3, <2>4, RegionUpdate DEF reconfigure_region
<1>3. ASSUME NEW r \in DOMAIN regions, NEW e \in Epochs, mark_region_draining(r, e) PROVE Goal
  <2> DEFINE rec == [regions[r] EXCEPT !.state = "DRAINING"]
  <2>1. "DRAINING" \in RegionState
    BY DEF RegionState, RegionSuccessors
  <2>2. rec \in CxlRegion /\ rec.id = r
    BY <1>0, <2>1 DEF RegionsOK, CxlRegion
  <2>3. regions' = [regions EXCEPT ![r] = rec]
    BY <1>3 DEF mark_region_draining
  <2> HIDE DEF rec
  <2> QED
    BY <1>0, <1>3, <2>2, <2>3, RegionUpdate DEF mark_region_draining
<1>4. ASSUME NEW r \in DOMAIN regions, NEW e \in Epochs, revalidate_region(r, e) PROVE Goal
  <2> DEFINE rec == [regions[r] EXCEPT !.state = "ONLINE", !.evidence_current = TRUE,
                                       !.health = "HEALTHY"]
  <2>1. "ONLINE" \in RegionState /\ "HEALTHY" \in HealthState
    BY DEF RegionState, RegionSuccessors, HealthState
  <2>2. rec \in CxlRegion /\ rec.id = r
    <3> DEFINE mid == [regions[r] EXCEPT !.state = "ONLINE", !.health = "HEALTHY"]
    <3>1. mid \in CxlRegion /\ mid.id = r
      <4>1. regions[r] \in CxlRegion /\ regions[r].id = r
        BY <1>0 DEF RegionsOK
      <4> QED
        BY <2>1, <4>1, ZenonT(30) DEF CxlRegion
    <3>2. rec = [mid EXCEPT !.evidence_current = TRUE]
      BY <1>0 DEF RegionsOK, CxlRegion
    <3> HIDE DEF mid, rec
    <3> QED
      BY <3>1, <3>2 DEF CxlRegion
  <2>3. regions' = [regions EXCEPT ![r] = rec]
    BY <1>4 DEF revalidate_region
  <2> HIDE DEF rec
  <2> QED
    BY <1>0, <1>4, <2>2, <2>3, RegionUpdate DEF revalidate_region
<1>5. Goal
  BY <1>1, <1>2, <1>3, <1>4 DEF RegionStep, OverwriteStep
<1> QED
  BY <1>5 DEF TypeInv, TypeOK, Finite, Refs, RegionsOK, authority, grants

\* A membership change keeps the use of a pool and never lowers its generation.
LEMMA WithMembersFacts ==
  ASSUME NEW pool \in CxlPool, NEW ms \in SUBSET PoolMember, IsFiniteSet(ms)
  PROVE  /\ WithMembers(pool, ms) \in CxlPool
         /\ WithMembers(pool, ms).members = ms
         /\ WithMembers(pool, ms).id = pool.id
         /\ WithMembers(pool, ms).generation >= pool.generation
         /\ pool.generation < MaxGen => WithMembers(pool, ms).generation > pool.generation
         /\ WithMembers(pool, ms).reserved = pool.reserved
         /\ WithMembers(pool, ms).committed = pool.committed
         /\ WithMembers(pool, ms).draining = pool.draining
         /\ Derived(WithMembers(pool, ms))
<1> DEFINE gen == IF NextGen(pool.generation) = 0 THEN pool.generation ELSE NextGen(pool.generation)
           rec == [pool EXCEPT !.members = ms, !.generation = gen]
<1>1. /\ gen \in Generation /\ gen >= pool.generation
      /\ pool.generation < MaxGen => gen > pool.generation
  BY MaxGenAssumption DEF NextGen, Generation, CxlPool
<1>2. /\ rec \in CxlPool /\ rec.members = ms /\ rec.id = pool.id /\ rec.generation = gen
      /\ rec.reserved = pool.reserved /\ rec.committed = pool.committed
      /\ rec.draining = pool.draining
  <2> HIDE DEF gen
  <2> QED
    BY <1>1 DEF CxlPool
<1>3. WithMembers(pool, ms) = recompute_pool(rec)
  BY DEF WithMembers
<1> HIDE DEF rec, gen
<1> QED
  BY <1>1, <1>2, <1>3, RecomputePool

\* The record create_pool() stores.
NewRecord(in) ==
  [id |-> in.id, generation |-> in.generation, members |-> in.members, total |-> 0,
   unavailable |-> 0, reserved |-> 0, committed |-> 0, draining |-> 0,
   state |-> "AVAILABLE", health_summary |-> in.health_summary, evidence_current |-> TRUE]

\* It is a pool with finitely many members.
LEMMA NewRecordType ==
  ASSUME NEW in \in PoolInputs
  PROVE  /\ NewRecord(in) \in CxlPool /\ IsFiniteSet(NewRecord(in).members)
         /\ NewRecord(in).id = in.id /\ in.id \in PoolId
<1>1. /\ in.id \in PoolId /\ in.generation \in Generation /\ in.members \in SUBSET PoolMember
      /\ IsFiniteSet(in.members) /\ in.health_summary \in HealthState
  BY InputAssumption
<1>2. "AVAILABLE" \in PoolState /\ 0 \in Nat
  BY DEF PoolState, PoolSuccessors
<1> QED
  BY <1>1, <1>2 DEF NewRecord, CxlPool

\* What revalidate_pool() stores, before the totals are recomputed.
Revalidated(p) ==
  [pools[p] EXCEPT !.state = "AVAILABLE", !.evidence_current = TRUE, !.health_summary = "HEALTHY"]

\* It is a pool with the members, generation and counters of the old one.
LEMMA RevalidatedType ==
  ASSUME PoolsOK, Finite, NEW p \in DOMAIN pools
  PROVE  /\ Revalidated(p) \in CxlPool /\ Revalidated(p).members = pools[p].members
         /\ Revalidated(p).id = p /\ Revalidated(p).generation = pools[p].generation
         /\ Revalidated(p).reserved = pools[p].reserved
         /\ Revalidated(p).committed = pools[p].committed
         /\ Revalidated(p).draining = pools[p].draining
<1>1. pools[p] \in CxlPool /\ pools[p].id = p
  BY DEF PoolsOK
<1>2. "AVAILABLE" \in PoolState /\ "HEALTHY" \in HealthState
  BY DEF PoolState, PoolSuccessors, HealthState
<1>3. [pools[p] EXCEPT !.state = "AVAILABLE"] \in CxlPool
  BY <1>1, <1>2 DEF CxlPool
<1>4. Revalidated(p) \in CxlPool
  BY <1>2, <1>3, ZenonT(60) DEF CxlPool, Revalidated
<1> QED
  BY <1>1, <1>4 DEF CxlPool, Revalidated

\* The operations on pools keep the use of every pool, never lower a generation and
\* create pools without use.
LEMMA PoolStepFacts ==
  ASSUME TypeInv, PoolStep \/ ShrinkStep
  PROVE  /\ UNCHANGED <<authority, devices, regions, grants>>
         /\ PoolsOK' /\ Finite' /\ ledger' \in Ledger
         /\ DOMAIN pools \subseteq DOMAIN pools'
         /\ \A q \in DOMAIN pools : /\ pools'[q].generation >= pools[q].generation
                                    /\ pools'[q].reserved = pools[q].reserved
                                    /\ pools'[q].committed = pools[q].committed
                                    /\ pools'[q].draining = pools[q].draining
         /\ \A q \in DOMAIN pools' \ DOMAIN pools :
              pools'[q].reserved = 0 /\ pools'[q].committed = 0 /\ pools'[q].draining = 0
<1> DEFINE Kept(rec, p) == /\ rec.generation >= pools[p].generation
                           /\ rec.reserved = pools[p].reserved
                           /\ rec.committed = pools[p].committed
                           /\ rec.draining = pools[p].draining
           Goal == /\ UNCHANGED <<authority, devices, regions, grants>>
                   /\ PoolsOK' /\ Finite' /\ ledger' \in Ledger
                   /\ DOMAIN pools \subseteq DOMAIN pools'
                   /\ \A q \in DOMAIN pools : Kept(pools'[q], q)
                   /\ \A q \in DOMAIN pools' \ DOMAIN pools :
                        pools'[q].reserved = 0 /\ pools'[q].committed = 0 /\ pools'[q].draining = 0
<1>0. PoolsOK /\ Finite /\ ledger \in Ledger
  BY DEF PoolsOK, TypeInv, TypeOK
<1>1. \A p \in DOMAIN pools : /\ pools[p] \in CxlPool /\ pools[p].id = p /\ p \in PoolId
                              /\ IsFiniteSet(pools[p].members)
                              /\ pools[p].members \in SUBSET PoolMember
                              /\ pools[p].generation >= pools[p].generation
  BY <1>0 DEF PoolsOK, Finite, CxlPool, Generation
<1>2. ASSUME NEW p \in DOMAIN pools, NEW rec \in CxlPool, rec.id = p, IsFiniteSet(rec.members),
             Kept(rec, p), StorePool(p, rec), UNCHANGED <<authority, devices, regions, grants>>
      PROVE  Goal
  <2>1. /\ PoolsOK' /\ Finite' /\ ledger' \in Ledger
        /\ DOMAIN pools' = DOMAIN pools \cup {p} /\ pools'[p] = rec
        /\ \A q \in DOMAIN pools : q # p => pools'[q] = pools[q]
    BY <1>0, <1>1, <1>2, StorePoolType
  <2>2. \A q \in DOMAIN pools : Kept(pools'[q], q)
    BY <1>1, <1>2, <2>1
  <2> QED
    BY <1>2, <2>1, <2>2
<1>3. ASSUME NEW in \in PoolInputs, NEW e \in Epochs, create_pool(in, e) PROVE Goal
  <2> DEFINE rec == recompute_pool(NewRecord(in))
  <2>1. /\ StorePool(in.id, rec) /\ in.id \notin DOMAIN pools
        /\ UNCHANGED <<authority, devices, regions, grants>>
    BY <1>3 DEF create_pool, create_pool_reason, NewRecord
  <2>2. /\ rec \in CxlPool /\ rec.id = in.id /\ IsFiniteSet(rec.members) /\ in.id \in PoolId
        /\ rec.reserved = 0 /\ rec.committed = 0 /\ rec.draining = 0
    BY NewRecordType, RecomputePool DEF NewRecord
  <2> HIDE DEF rec
  <2>3. /\ PoolsOK' /\ Finite' /\ ledger' \in Ledger
        /\ DOMAIN pools' = DOMAIN pools \cup {in.id} /\ pools'[in.id] = rec
        /\ \A q \in DOMAIN pools : q # in.id => pools'[q] = pools[q]
    BY <1>0, <2>1, <2>2, StorePoolType
  <2> QED
    BY <1>1, <2>1, <2>2, <2>3
<1>4. ASSUME NEW p \in DOMAIN pools, NEW m \in MemberInputs, NEW e \in Epochs,
             add_pool_member(p, m, e)
      PROVE  Goal
  <2> DEFINE ms == pools[p].members \cup {m}
  <2>1. ms \in SUBSET PoolMember /\ IsFiniteSet(ms)
    BY <1>1, InputAssumption, FS_AddElement
  <2>2. /\ StorePool(p, WithMembers(pools[p], ms))
        /\ UNCHANGED <<authority, devices, regions, grants>>
    BY <1>4 DEF add_pool_member
  <2> DEFINE rec == WithMembers(pools[p], ms)
  <2> HIDE DEF ms
  <2>3. pools[p] \in CxlPool /\ pools[p].id = p
    BY <1>1
  <2>4. /\ rec \in CxlPool /\ rec.members = ms /\ rec.id = p /\ Kept(rec, p)
    BY <2>1, <2>3, WithMembersFacts
  <2> HIDE DEF rec
  <2>5. StorePool(p, rec)
    BY <2>2 DEF rec
  <2> QED
    BY <1>2, <2>1, <2>2, <2>4, <2>5
<1>5. ASSUME NEW p \in DOMAIN pools, NEW m \in pools[p].members, NEW e \in Epochs,
             remove_pool_member(p, m, e)
      PROVE  Goal
  <2> DEFINE ms == pools[p].members \ {m}
  <2>1. ms \in SUBSET PoolMember /\ IsFiniteSet(ms)
    BY <1>1, FS_Subset
  <2>2. /\ StorePool(p, WithMembers(pools[p], ms))
        /\ UNCHANGED <<authority, devices, regions, grants>>
    BY <1>5 DEF remove_pool_member
  <2> DEFINE rec == WithMembers(pools[p], ms)
  <2> HIDE DEF ms
  <2>3. pools[p] \in CxlPool /\ pools[p].id = p
    BY <1>1
  <2>4. /\ rec \in CxlPool /\ rec.members = ms /\ rec.id = p /\ Kept(rec, p)
    BY <2>1, <2>3, WithMembersFacts
  <2> HIDE DEF rec
  <2>5. StorePool(p, rec)
    BY <2>2 DEF rec
  <2> QED
    BY <1>2, <2>1, <2>2, <2>4, <2>5
<1>6. ASSUME NEW p \in DOMAIN pools, NEW e \in Epochs, mark_pool_draining(p, e) PROVE Goal
  <2> DEFINE rec == [pools[p] EXCEPT !.state = "DRAINING"]
  <2>1. "DRAINING" \in PoolState
    BY DEF PoolState, PoolSuccessors
  <2>2. rec \in CxlPool /\ rec.id = p /\ rec.members = pools[p].members /\ Kept(rec, p)
    BY <1>1, <2>1 DEF CxlPool
  <2>3. /\ pools' = [pools EXCEPT ![p] = rec]
        /\ UNCHANGED <<authority, devices, regions, grants, ledger>>
    BY <1>6 DEF mark_pool_draining
  <2> HIDE DEF rec
  <2>4. PoolsOK' /\ Finite' /\ DOMAIN pools' = DOMAIN pools
    BY <1>0, <2>2, <2>3 DEF PoolsOK, Finite
  <2>5. \A q \in DOMAIN pools : Kept(pools'[q], q)
    BY <1>1, <2>2, <2>3
  <2> QED
    BY <1>0, <2>3, <2>4, <2>5
<1>7. ASSUME NEW p \in DOMAIN pools, NEW e \in Epochs, reconcile_pool(p, e) PROVE Goal
  <2> DEFINE rec == recompute_pool(pools[p])
  <2>1. StorePool(p, rec) /\ UNCHANGED <<authority, devices, regions, grants>>
    BY <1>7 DEF reconcile_pool
  <2>2. pools[p] \in CxlPool /\ pools[p].id = p /\ IsFiniteSet(pools[p].members)
        /\ pools[p].generation >= pools[p].generation
    BY <1>1
  <2>3. /\ rec \in CxlPool /\ rec.members = pools[p].members /\ rec.id = p /\ Kept(rec, p)
    BY <2>2, RecomputePool
  <2> HIDE DEF rec
  <2> QED
    BY <1>2, <2>1, <2>2, <2>3
<1>8. ASSUME NEW p \in DOMAIN pools, NEW e \in Epochs, revalidate_pool(p, e) PROVE Goal
  <2>1. /\ StorePool(p, recompute_pool(Revalidated(p)))
        /\ UNCHANGED <<authority, devices, regions, grants>>
    BY <1>8 DEF revalidate_pool, Revalidated
  <2> DEFINE old == Revalidated(p)
             rec == recompute_pool(old)
  <2>2. /\ old \in CxlPool /\ old.members = pools[p].members /\ old.id = p
        /\ old.generation = pools[p].generation /\ old.reserved = pools[p].reserved
        /\ old.committed = pools[p].committed /\ old.draining = pools[p].draining
    BY <1>0, RevalidatedType
  <2>3. IsFiniteSet(old.members)
    BY <1>1, <2>2
  <2> HIDE DEF old
  <2>4. /\ rec \in CxlPool /\ rec.members = old.members /\ rec.id = old.id
        /\ rec.generation = old.generation /\ rec.reserved = old.reserved
        /\ rec.committed = old.committed /\ rec.draining = old.draining
    BY <2>2, <2>3, RecomputePool
  <2>5. StorePool(p, rec)
    BY <2>1 DEF old
  <2> HIDE DEF rec
  <2>6. rec.id = p /\ IsFiniteSet(rec.members) /\ Kept(rec, p)
    BY <1>1, <2>2, <2>3, <2>4
  <2> QED
    BY <1>2, <2>1, <2>4, <2>5, <2>6
<1>9. Goal
  BY <1>3, <1>4, <1>5, <1>6, <1>7, <1>8 DEF PoolStep, ShrinkStep
<1> QED
  BY <1>9

\* The counters of one pool or region change, nothing else of it.
PoolUse(p, r, c) == [pools[p] EXCEPT !.reserved = r, !.committed = c]
RegionUse(g, r, c) == [regions[g] EXCEPT !.reserved = r, !.committed = c]

\* A pool record with other counters of use is a pool record.
LEMMA PoolUseType ==
  ASSUME PoolsOK, NEW p \in DOMAIN pools, NEW r \in Nat, NEW c \in Nat
  PROVE  /\ PoolUse(p, r, c) \in CxlPool /\ PoolUse(p, r, c).id = p
         /\ PoolUse(p, r, c).members = pools[p].members
         /\ PoolUse(p, r, c).generation = pools[p].generation
         /\ PoolUse(p, r, c).reserved = r /\ PoolUse(p, r, c).committed = c
         /\ PoolUse(p, r, c).state = pools[p].state
         /\ PoolUse(p, r, c).total = pools[p].total
         /\ PoolUse(p, r, c).unavailable = pools[p].unavailable
         /\ PoolUse(p, r, c).draining = pools[p].draining
<1>1. pools[p] \in CxlPool /\ pools[p].id = p
  BY DEF PoolsOK
<1> QED
  BY <1>1 DEF CxlPool, PoolUse

\* A region record with other counters of use is a region record.
LEMMA RegionUseType ==
  ASSUME RegionsOK, NEW g \in DOMAIN regions, NEW r \in ByteCount, NEW c \in ByteCount
  PROVE  /\ RegionUse(g, r, c) \in CxlRegion /\ RegionUse(g, r, c).id = g
         /\ RegionUse(g, r, c).generation = regions[g].generation
         /\ RegionUse(g, r, c).reserved = r /\ RegionUse(g, r, c).committed = c
         /\ RegionUse(g, r, c).capacity = regions[g].capacity
         /\ RegionUse(g, r, c).member_devices = regions[g].member_devices
<1>1. regions[g] \in CxlRegion /\ regions[g].id = g
  BY DEF RegionsOK
<1> QED
  BY <1>1 DEF CxlRegion, RegionUse

\* What reserve() does, in terms of the reservation it creates.
Reserved(res) ==
  /\ res.pool \in DOMAIN pools /\ res.region \in DOMAIN regions /\ res.device \in DOMAIN devices
  /\ res.pool_generation = pools[res.pool].generation
  /\ res.region_generation = regions[res.region].generation
  /\ res.device_generation = devices[res.device].generation
  /\ res.state = "RESERVED"
  /\ res.bytes <= pool_free(pools[res.pool])
  /\ res.bytes <= region_free(regions[res.region])
  /\ StorePool(res.pool, PoolUse(res.pool, pools[res.pool].reserved + res.bytes,
                                 pools[res.pool].committed))
  /\ regions' = [regions EXCEPT ![res.region] =
                    RegionUse(res.region, Wrap(regions[res.region].reserved + res.bytes),
                              regions[res.region].committed)]
  /\ reservations' = Put(reservations, sequence + 1, res)
  /\ sequence' = sequence + 1
  /\ UNCHANGED <<authority, devices>>

\* A successful reserve() stores a reservation of the request's bytes.
LEMMA ReserveFacts ==
  ASSUME TypeInv, NEW req \in Requests, NEW ctx \in Context, reserve(req, ctx)
  PROVE  \E res \in Reservation : Reserved(res)
<1>1. PICK c \in Passing(Snapshot, req) : ReserveOn(c, req, ctx)
  BY DEF reserve
<1>2. /\ c[1] \in DOMAIN regions /\ c[2] \in DOMAIN devices
      /\ regions[c[1]].pool \in DOMAIN pools
  BY DEF Passing, Candidates, Snapshot
<1> DEFINE reg == regions[c[1]]
           dev == devices[c[2]]
           pool == pools[reg.pool]
           res == [pool |-> reg.pool, pool_generation |-> pool.generation,
                   region |-> c[1], region_generation |-> reg.generation,
                   device |-> c[2], device_generation |-> dev.generation,
                   device_boot_id |-> dev.boot_id, bytes |-> req.bytes, state |-> "RESERVED",
                   created_epoch |-> epoch, worker_boot_id |-> ctx.worker_boot_id]
<1>3. reg \in CxlRegion /\ dev \in CxlDevice /\ pool \in CxlPool
  BY <1>2 DEF TypeInv, TypeOK
<1>4. /\ reg.pool \in PoolId /\ pool.generation \in Generation /\ c[1] \in RegionId
      /\ reg.generation \in Generation /\ c[2] \in DeviceId /\ dev.generation \in Generation
      /\ dev.boot_id \in BootId /\ req.bytes \in ByteCount \ {0} /\ "RESERVED" \in ResumeState
      /\ epoch \in Nat /\ ctx.worker_boot_id \in BootId
  <2>1. c[1] \in RegionId /\ c[2] \in DeviceId /\ epoch \in Nat
    BY <1>2, EpochAssumption DEF TypeInv, TypeOK
  <2>2. req.bytes \in ByteCount \ {0} /\ "RESERVED" \in ResumeState /\ ctx.worker_boot_id \in BootId
    <3>1. req.bytes \in ByteCount
      BY InputAssumption DEF AdmissionRequest
    <3> QED
      BY <3>1 DEF reserve, ResumeState, Context
  <2> HIDE DEF reg, dev, pool
  <2>3. /\ reg.pool \in PoolId /\ pool.generation \in Generation /\ reg.generation \in Generation
        /\ dev.generation \in Generation /\ dev.boot_id \in BootId
    BY <1>3 DEF CxlRegion, CxlDevice, CxlPool
  <2> QED
    BY <2>1, <2>2, <2>3
<1>5. res \in Reservation
  <2> HIDE DEF reg, dev, pool
  <2> QED
    BY <1>4 DEF Reservation
<1>6. /\ res.pool = reg.pool /\ res.region = c[1] /\ res.device = c[2] /\ res.state = "RESERVED"
      /\ res.bytes = req.bytes /\ res.pool_generation = pool.generation
      /\ res.region_generation = reg.generation /\ res.device_generation = dev.generation
  OBVIOUS
<1>7. /\ PoolUse(reg.pool, pool.reserved + req.bytes, pool.committed)
           = [pool EXCEPT !.reserved = pool.reserved + req.bytes]
      /\ RegionUse(c[1], Wrap(reg.reserved + req.bytes), reg.committed)
           = [reg EXCEPT !.reserved = Wrap(reg.reserved + req.bytes)]
  <2>1. /\ PoolUse(reg.pool, pool.reserved + req.bytes, pool.committed)
             = [pool EXCEPT !.reserved = pool.reserved + req.bytes, !.committed = pool.committed]
        /\ RegionUse(c[1], Wrap(reg.reserved + req.bytes), reg.committed)
             = [reg EXCEPT !.reserved = Wrap(reg.reserved + req.bytes), !.committed = reg.committed]
    BY DEF PoolUse, RegionUse
  <2> HIDE DEF reg, dev, pool
  <2> QED
    BY <1>3, <2>1 DEF CxlPool, CxlRegion
<1>8. /\ req.bytes <= pool_free(pool) /\ req.bytes <= region_free(reg)
      /\ StorePool(reg.pool, [pool EXCEPT !.reserved = pool.reserved + req.bytes])
      /\ regions' = [regions EXCEPT ![c[1]] = [reg EXCEPT !.reserved = Wrap(reg.reserved + req.bytes)]]
      /\ reservations' = Put(reservations, sequence + 1, res)
      /\ sequence' = sequence + 1
      /\ UNCHANGED <<authority, devices>>
  BY <1>1 DEF ReserveOn
<1>9. Reserved(res)
  <2>1. pools[res.pool] = pool /\ regions[res.region] = reg /\ devices[res.device] = dev
    BY <1>6
  <2> HIDE DEF reg, dev, pool, res
  <2> QED
    BY <1>2, <1>6, <1>7, <1>8, <2>1 DEF Reserved, reg
<1> QED
  BY <1>5, <1>9

\* What commit() does to the counters.
LEMMA CommitFacts ==
  ASSUME TypeInv, NEW id \in DOMAIN reservations, NEW ctx \in Context, commit(id, ctx)
  PROVE  LET res == reservations[id] IN
         /\ res \in Reservation /\ res.state = "RESERVED"
         /\ res.pool \in DOMAIN pools /\ res.region \in DOMAIN regions
         /\ res.bytes <= pools[res.pool].reserved
         /\ pools[res.pool].generation = res.pool_generation
         /\ regions[res.region].generation = res.region_generation
         /\ devices[res.device].generation = res.device_generation
         /\ res.created_epoch = epoch
         /\ StorePool(res.pool, PoolUse(res.pool, pools[res.pool].reserved - res.bytes,
                                        pools[res.pool].committed + res.bytes))
         /\ regions' = [regions EXCEPT ![res.region] =
                           RegionUse(res.region, Wrap(regions[res.region].reserved - res.bytes),
                                     Wrap(regions[res.region].committed + res.bytes))]
         /\ reservations' = [reservations EXCEPT ![id] = [res EXCEPT !.state = "COMMITTED"]]
         /\ UNCHANGED <<authority, devices, sequence>>
<1> DEFINE res == reservations[id]
<1>1. res \in Reservation /\ res.pool \in DOMAIN pools /\ res.region \in DOMAIN regions
  BY DEF TypeInv, TypeOK, Refs
<1>2. commit_reason(id, ctx) = "OK"
  BY DEF commit
<1>3. /\ res.state = "RESERVED" /\ ~(res.bytes > pools[res.pool].reserved)
      /\ pools[res.pool].generation = res.pool_generation
      /\ regions[res.region].generation = res.region_generation
      /\ devices[res.device].generation = res.device_generation
      /\ res.created_epoch = epoch
  BY <1>2 DEF commit_reason, CommitStale
<1>4. pools[res.pool].reserved \in Nat /\ res.bytes \in Nat
  <2>1. pools[res.pool] \in CxlPool
    BY <1>1 DEF TypeInv, TypeOK
  <2>2. res.bytes \in ByteCount
    BY <1>1 DEF Reservation
  <2> QED
    BY <2>1, <2>2, MaxBytesAssumption DEF CxlPool, ByteCount
<1>5. res.bytes <= pools[res.pool].reserved
  BY <1>3, <1>4
<1>6. StorePool(res.pool, PoolUse(res.pool, pools[res.pool].reserved - res.bytes,
                                  pools[res.pool].committed + res.bytes))
  BY DEF commit, PoolUse
<1>7. regions' = [regions EXCEPT ![res.region] =
                    RegionUse(res.region, Wrap(regions[res.region].reserved - res.bytes),
                              Wrap(regions[res.region].committed + res.bytes))]
  BY DEF commit, RegionUse
<1>8. /\ reservations' = [reservations EXCEPT ![id] = [res EXCEPT !.state = "COMMITTED"]]
      /\ UNCHANGED <<authority, devices, sequence>>
  BY DEF commit
<1> QED
  BY <1>1, <1>3, <1>5, <1>6, <1>7, <1>8

\* The counters a release of n bytes leaves in a pool or region record.
LeftReserved(rec, n) == IF Rest(rec, n) <= rec.reserved THEN rec.reserved - Rest(rec, n) ELSE rec.reserved
LeftCommitted(rec, n) == Clamp(rec.committed - n)

\* What release() does, when it succeeds and when it ends half-way.
LEMMA ReleaseFacts ==
  ASSUME TypeInv, NEW id \in DOMAIN reservations, NEW ctx \in Context, release(id, ctx)
  PROVE  LET res == reservations[id]
             pool == pools[res.pool]
             poolRec == PoolUse(res.pool, LeftReserved(pool, res.bytes), LeftCommitted(pool, res.bytes))
         IN
         /\ res \in Reservation /\ res.state \in {"RESERVED", "COMMITTED"}
         /\ res.pool \in DOMAIN pools /\ res.region \in DOMAIN regions
         /\ UNCHANGED <<authority, devices, sequence>>
         /\ \/ /\ StorePool(res.pool, poolRec)
               /\ regions' = [regions EXCEPT ![res.region] =
                     RegionUse(res.region, LeftReserved(regions[res.region], res.bytes),
                               LeftCommitted(regions[res.region], res.bytes))]
               /\ reservations' = [reservations EXCEPT ![id] = [res EXCEPT !.state = "RELEASED"]]
            \/ /\ Rest(pool, res.bytes) > pool.reserved
               /\ pools' = [pools EXCEPT ![res.pool] = poolRec]
               /\ UNCHANGED <<regions, reservations, ledger>>
<1> DEFINE res == reservations[id]
<1>1. res \in Reservation /\ res.pool \in DOMAIN pools /\ res.region \in DOMAIN regions
  BY DEF TypeInv, TypeOK, Refs
<1>2. release_reason(id, ctx) \in {"OK", "RESERVATION_CONFLICT"}
  BY DEF release
<1>3. res.state # "RELEASED"
  BY <1>2 DEF release_reason
<1>4. res.state \in {"RESERVED", "COMMITTED"}
  BY <1>1, <1>3 DEF Reservation, ResumeState
<1>5. release_reason(id, ctx) # "OK" =>
        Rest(pools[res.pool], res.bytes) > pools[res.pool].reserved
  BY <1>2 DEF release_reason
<1> QED
  BY <1>1, <1>2, <1>4, <1>5
  DEF release, GiveBack, PoolUse, RegionUse, LeftReserved, LeftCommitted

\* Arithmetic on counters: the results are counters again.
LEMMA CounterArithmetic ==
  /\ \A a, b \in ByteCount : Wrap(a + b) \in ByteCount /\ Wrap(a - b) \in ByteCount
  /\ \A rec, n : /\ rec.reserved \in Nat /\ rec.committed \in Nat /\ n \in Nat
                 => /\ LeftReserved(rec, n) \in Nat /\ LeftReserved(rec, n) <= rec.reserved
                    /\ LeftCommitted(rec, n) \in Nat /\ LeftCommitted(rec, n) <= rec.committed
<1>1. \A a, b \in ByteCount : Wrap(a + b) \in ByteCount /\ Wrap(a - b) \in ByteCount
  BY MaxBytesAssumption DEF Wrap, ByteCount
<1>2. ASSUME NEW rec, NEW n, rec.reserved \in Nat, rec.committed \in Nat, n \in Nat
      PROVE  /\ LeftReserved(rec, n) \in Nat /\ LeftReserved(rec, n) <= rec.reserved
             /\ LeftCommitted(rec, n) \in Nat /\ LeftCommitted(rec, n) <= rec.committed
  BY <1>2 DEF LeftReserved, LeftCommitted, Rest, Clamp
<1> QED
  BY <1>1, <1>2

\* What release() leaves of a record whose reserved bytes cover what its committed ones do
\* not, in the terms the sums of the reservations are stated in.
LEMMA GiveBackArithmetic ==
  ASSUME NEW rec, NEW n, rec.reserved \in Nat, rec.committed \in Nat, n \in Nat,
         Clamp(n - rec.committed) <= rec.reserved
  PROVE  /\ LeftReserved(rec, n) = rec.reserved - Clamp(n - rec.committed)
         /\ LeftCommitted(rec, n) = Clamp(rec.committed - n)
         /\ ~(Rest(rec, n) > rec.reserved)
         /\ LeftReserved(rec, n) + LeftCommitted(rec, n) <= rec.reserved + rec.committed
<1> DEFINE a == rec.reserved
           b == rec.committed
<1>1. LeftReserved(rec, n) = a - Clamp(n - b) /\ LeftCommitted(rec, n) = Clamp(b - n)
  BY DEF LeftReserved, LeftCommitted, Rest
<1>2. a \in Nat /\ b \in Nat /\ n \in Nat /\ Clamp(n - b) <= a
  OBVIOUS
<1>3. Rest(rec, n) = Clamp(n - b)
  BY DEF Rest
<1> HIDE DEF a, b
<1>4. ~(Clamp(n - b) > a) /\ a - Clamp(n - b) + Clamp(b - n) <= a + b
  BY <1>2 DEF Clamp
<1> QED
  BY <1>1, <1>3, <1>4 DEF a, b

\* What reserve, commit and release keep: types, domains and generations.
AdmissionFrame ==
  /\ UNCHANGED <<authority, devices>>
  /\ PoolsOK' /\ Finite' /\ ledger' \in Ledger /\ RegionsOK'
  /\ DOMAIN pools' = DOMAIN pools /\ DOMAIN regions' = DOMAIN regions
  /\ \A q \in DOMAIN pools : /\ pools'[q].generation = pools[q].generation
                             /\ pools'[q].members = pools[q].members
  /\ \A r \in DOMAIN regions : /\ regions'[r].generation = regions[r].generation
                               /\ regions'[r].member_devices = regions[r].member_devices

\* Changing the counters of one pool and one region keeps types and generations.
LEMMA CounterFrame ==
  ASSUME TypeInv, NEW p \in DOMAIN pools, NEW r \in Nat, NEW c \in Nat,
         NEW g \in DOMAIN regions, NEW x \in ByteCount, NEW y \in ByteCount,
         StorePool(p, PoolUse(p, r, c)), regions' = [regions EXCEPT ![g] = RegionUse(g, x, y)],
         UNCHANGED <<authority, devices>>
  PROVE  AdmissionFrame
<1>1. PoolsOK /\ Finite /\ RegionsOK /\ p \in PoolId /\ IsFiniteSet(pools[p].members)
  BY DEF TypeInv, TypeOK, PoolsOK, RegionsOK, Finite
<1>2. /\ PoolsOK' /\ Finite' /\ ledger' \in Ledger
      /\ DOMAIN pools' = DOMAIN pools \cup {p} /\ pools'[p] = PoolUse(p, r, c)
      /\ \A q \in DOMAIN pools : q # p => pools'[q] = pools[q]
  <2> DEFINE rec == PoolUse(p, r, c)
  <2>1. rec \in CxlPool /\ rec.id = p /\ IsFiniteSet(rec.members) /\ StorePool(p, rec)
    BY <1>1, PoolUseType
  <2> HIDE DEF rec
  <2>2. /\ PoolsOK' /\ Finite' /\ ledger' \in Ledger
        /\ DOMAIN pools' = DOMAIN pools \cup {p} /\ pools'[p] = rec
        /\ \A q \in DOMAIN pools : q # p => pools'[q] = pools[q]
    BY <1>1, <2>1, StorePoolType
  <2> QED
    BY <2>2 DEF rec
<1>3. RegionsOK' /\ DOMAIN regions' = DOMAIN regions
  <2> DEFINE rec == RegionUse(g, x, y)
  <2>1. rec \in CxlRegion /\ rec.id = g /\ regions' = [regions EXCEPT ![g] = rec]
    BY <1>1, RegionUseType
  <2> HIDE DEF rec
  <2> QED
    BY <1>1, <2>1, RegionUpdate
<1>4. \A q \in DOMAIN pools : /\ pools'[q].generation = pools[q].generation
                              /\ pools'[q].members = pools[q].members
  BY <1>1, <1>2, PoolUseType
<1>5. \A h \in DOMAIN regions : /\ regions'[h].generation = regions[h].generation
                                /\ regions'[h].member_devices = regions[h].member_devices
  BY <1>1, RegionUseType
<1> QED
  BY <1>2, <1>3, <1>4, <1>5 DEF AdmissionFrame

\* The counters a step starts from.
LEMMA CounterTypes ==
  ASSUME TypeInv
  PROVE  /\ \A p \in DOMAIN pools : pools[p].reserved \in Nat /\ pools[p].committed \in Nat
         /\ \A r \in DOMAIN regions : /\ regions[r].reserved \in ByteCount
                                      /\ regions[r].committed \in ByteCount
                                      /\ regions[r].reserved \in Nat /\ regions[r].committed \in Nat
         /\ \A res \in Reservation : res.bytes \in ByteCount /\ res.bytes \in Nat
<1>1. /\ \A p \in DOMAIN pools : pools[p] \in CxlPool
      /\ \A r \in DOMAIN regions : regions[r] \in CxlRegion
  BY DEF TypeInv, TypeOK
<1>2. \A p \in DOMAIN pools : pools[p].reserved \in Nat /\ pools[p].committed \in Nat
  BY <1>1 DEF CxlPool
<1>3. ByteCount \subseteq Nat
  BY MaxBytesAssumption DEF ByteCount
<1>4. \A r \in DOMAIN regions : regions[r].reserved \in ByteCount /\ regions[r].committed \in ByteCount
  BY <1>1 DEF CxlRegion
<1>5. \A res \in Reservation : res.bytes \in ByteCount
  BY DEF Reservation
<1> QED
  BY <1>2, <1>3, <1>4, <1>5

\* A reservation left alone has advanced by nothing.
LEMMA AdvancedSame ==
  ASSUME NEW res \in Reservation
  PROVE  Advanced(res, res)
<1>1. res = [res EXCEPT !.state = res.state] /\ res.state \in ResumeState
  BY DEF Reservation
<1>2. res.state \in {"RESERVED", "COMMITTED", "RELEASED"}
  BY <1>1 DEF ResumeState
<1> QED
  BY <1>1, <1>2 DEF Advanced

\* Moving one reservation to a later state.
LEMMA MoveFacts ==
  ASSUME TypeInv, NEW id \in DOMAIN reservations, NEW st \in ResumeState,
         reservations' = [reservations EXCEPT ![id] = [reservations[id] EXCEPT !.state = st]],
         UNCHANGED <<sequence, devices>>,
         DOMAIN pools' = DOMAIN pools, DOMAIN regions' = DOMAIN regions
  PROVE  /\ ReservationsOK' /\ Refs' /\ DOMAIN reservations' = DOMAIN reservations
         /\ reservations'[id] = [reservations[id] EXCEPT !.state = st]
         /\ \A i \in DOMAIN reservations :
              /\ reservations'[i].bytes = reservations[i].bytes
              /\ reservations'[i].pool = reservations[i].pool
              /\ reservations'[i].region = reservations[i].region
              /\ i # id => reservations'[i] = reservations[i]
         /\ reservations'[id].state = st
<1>1. /\ ReservationsOK /\ Refs /\ reservations[id] \in Reservation
  BY DEF TypeInv, TypeOK, ReservationsOK
<1> DEFINE new == [reservations[id] EXCEPT !.state = st]
<1>2. /\ new \in Reservation /\ new.bytes = reservations[id].bytes /\ new.state = st
      /\ new.pool = reservations[id].pool /\ new.region = reservations[id].region
      /\ new.device = reservations[id].device
  BY <1>1 DEF Reservation
<1>3. reservations' = [reservations EXCEPT ![id] = new]
  OBVIOUS
<1> HIDE DEF new
<1>4. DOMAIN reservations' = DOMAIN reservations /\ reservations'[id] = new
  BY <1>3
<1>5. \A i \in DOMAIN reservations : i # id => reservations'[i] = reservations[i]
  BY <1>3
<1>6. ReservationsOK'
  BY <1>1, <1>2, <1>4, <1>5 DEF ReservationsOK
<1>7. Refs'
  BY <1>1, <1>2, <1>4, <1>5 DEF Refs
<1> QED
  BY <1>2, <1>4, <1>5, <1>6, <1>7 DEF new

\* Every admission step keeps the types and the frame.
LEMMA AdmissionFacts ==
  ASSUME TypeInv, AdmissionStep
  PROVE  /\ AdmissionFrame /\ ReservationsOK' /\ Refs'
         /\ \A i \in DOMAIN reservations :
              i \in DOMAIN reservations' /\ Advanced(reservations[i], reservations'[i])
<1> DEFINE Goal == /\ AdmissionFrame /\ ReservationsOK' /\ Refs'
                   /\ \A i \in DOMAIN reservations :
                        i \in DOMAIN reservations' /\ Advanced(reservations[i], reservations'[i])
<1>0. /\ ReservationsOK /\ Refs
      /\ \A i \in DOMAIN reservations : Advanced(reservations[i], reservations[i])
  BY AdvancedSame DEF TypeInv, TypeOK, ReservationsOK
<1>1. ASSUME NEW req \in Requests, NEW ctx \in Context, reserve(req, ctx) PROVE Goal
  <2>1. PICK res \in Reservation : Reserved(res)
    BY <1>1, ReserveFacts
  <2>2. /\ pools[res.pool].reserved + res.bytes \in Nat /\ pools[res.pool].committed \in Nat
        /\ Wrap(regions[res.region].reserved + res.bytes) \in ByteCount
        /\ regions[res.region].committed \in ByteCount
    <3>1. res.pool \in DOMAIN pools /\ res.region \in DOMAIN regions
      BY <2>1 DEF Reserved
    <3>2. /\ pools[res.pool].reserved \in Nat /\ pools[res.pool].committed \in Nat
          /\ regions[res.region].reserved \in ByteCount
          /\ regions[res.region].committed \in ByteCount
          /\ res.bytes \in ByteCount /\ res.bytes \in Nat
      BY <2>1, <3>1, CounterTypes
    <3>3. pools[res.pool].reserved + res.bytes \in Nat
      BY <3>2
    <3>4. Wrap(regions[res.region].reserved + res.bytes) \in ByteCount
      BY <3>2, CounterArithmetic
    <3> QED
      BY <3>2, <3>3, <3>4
  <2>3. AdmissionFrame
    BY <2>1, <2>2, CounterFrame DEF Reserved
  <2>4. reservations' = Put(reservations, sequence + 1, res) /\ sequence' = sequence + 1
    BY <2>1 DEF Reserved
  <2>5. /\ DOMAIN reservations' = DOMAIN reservations \cup {sequence + 1}
        /\ sequence + 1 \notin DOMAIN reservations
        /\ reservations'[sequence + 1] = res
        /\ \A i \in DOMAIN reservations : reservations'[i] = reservations[i]
    BY <1>0, <2>4 DEF Put, ReservationsOK
  <2>6. ReservationsOK'
    <3>1. sequence \in Nat /\ DOMAIN reservations = 1..sequence
      BY <1>0 DEF ReservationsOK
    <3>2. DOMAIN reservations' = 1..(sequence + 1)
      BY <2>5, <3>1
    <3>3. \A i \in DOMAIN reservations' : reservations'[i] \in Reservation
      BY <1>0, <2>5 DEF ReservationsOK
    <3> QED
      BY <2>4, <3>1, <3>2, <3>3 DEF ReservationsOK
  <2>7. Refs'
    BY <1>0, <2>1, <2>3, <2>5 DEF Refs, Reserved, AdmissionFrame
  <2> QED
    BY <1>0, <2>3, <2>5, <2>6, <2>7
<1>2. ASSUME NEW id \in DOMAIN reservations, NEW ctx \in Context, commit(id, ctx) PROVE Goal
  <2> DEFINE res == reservations[id]
             r == pools[res.pool].reserved - res.bytes
             c == pools[res.pool].committed + res.bytes
             x == Wrap(regions[res.region].reserved - res.bytes)
             y == Wrap(regions[res.region].committed + res.bytes)
  <2>1. /\ res \in Reservation /\ res.state = "RESERVED"
        /\ res.pool \in DOMAIN pools /\ res.region \in DOMAIN regions
        /\ res.bytes <= pools[res.pool].reserved
        /\ StorePool(res.pool, PoolUse(res.pool, r, c))
        /\ regions' = [regions EXCEPT ![res.region] = RegionUse(res.region, x, y)]
        /\ reservations' = [reservations EXCEPT ![id] = [res EXCEPT !.state = "COMMITTED"]]
        /\ UNCHANGED <<authority, devices, sequence>>
    BY <1>2, CommitFacts
  <2>2. r \in Nat /\ c \in Nat /\ x \in ByteCount /\ y \in ByteCount
    BY <2>1, CounterTypes, CounterArithmetic
  <2> HIDE DEF r, c, x, y
  <2>3. AdmissionFrame
    BY <2>1, <2>2, CounterFrame
  <2>4. "COMMITTED" \in ResumeState
    BY DEF ResumeState
  <2>5. /\ ReservationsOK' /\ Refs' /\ DOMAIN reservations' = DOMAIN reservations
        /\ reservations'[id] = [res EXCEPT !.state = "COMMITTED"]
        /\ \A i \in DOMAIN reservations : i # id => reservations'[i] = reservations[i]
    BY <2>1, <2>3, <2>4, MoveFacts DEF AdmissionFrame
  <2>6. Advanced(res, reservations'[id])
    BY <2>1, <2>4, <2>5 DEF Advanced
  <2> QED
    BY <1>0, <2>3, <2>5, <2>6
<1>3. ASSUME NEW id \in DOMAIN reservations, NEW ctx \in Context, release(id, ctx) PROVE Goal
  <2> DEFINE res == reservations[id]
             r == LeftReserved(pools[res.pool], res.bytes)
             c == LeftCommitted(pools[res.pool], res.bytes)
             x == LeftReserved(regions[res.region], res.bytes)
             y == LeftCommitted(regions[res.region], res.bytes)
  <2>1. /\ res \in Reservation /\ res.state \in {"RESERVED", "COMMITTED"}
        /\ res.pool \in DOMAIN pools /\ res.region \in DOMAIN regions
        /\ UNCHANGED <<authority, devices, sequence>>
        /\ \/ /\ StorePool(res.pool, PoolUse(res.pool, r, c))
              /\ regions' = [regions EXCEPT ![res.region] = RegionUse(res.region, x, y)]
              /\ reservations' = [reservations EXCEPT ![id] = [res EXCEPT !.state = "RELEASED"]]
           \/ /\ pools' = [pools EXCEPT ![res.pool] = PoolUse(res.pool, r, c)]
              /\ UNCHANGED <<regions, reservations, ledger>>
    BY <1>3, ReleaseFacts
  <2>2. r \in Nat /\ c \in Nat /\ x \in ByteCount /\ y \in ByteCount
    <3>1. /\ r \in Nat /\ c \in Nat /\ x \in Nat /\ y \in Nat
          /\ x <= regions[res.region].reserved /\ y <= regions[res.region].committed
      BY <2>1, CounterTypes, CounterArithmetic
    <3> HIDE DEF r, c, x, y
    <3> QED
      BY <2>1, <3>1, CounterTypes, MaxBytesAssumption DEF ByteCount
  <2> HIDE DEF r, c, x, y
  <2>3. CASE /\ StorePool(res.pool, PoolUse(res.pool, r, c))
             /\ regions' = [regions EXCEPT ![res.region] = RegionUse(res.region, x, y)]
             /\ reservations' = [reservations EXCEPT ![id] = [res EXCEPT !.state = "RELEASED"]]
    <3>1. AdmissionFrame
      BY <2>1, <2>2, <2>3, CounterFrame
    <3>2. "RELEASED" \in ResumeState
      BY DEF ResumeState
    <3>3. /\ ReservationsOK' /\ Refs' /\ DOMAIN reservations' = DOMAIN reservations
          /\ reservations'[id] = [res EXCEPT !.state = "RELEASED"]
          /\ \A i \in DOMAIN reservations : i # id => reservations'[i] = reservations[i]
      BY <2>1, <2>3, <3>1, <3>2, MoveFacts DEF AdmissionFrame
    <3>4. Advanced(res, reservations'[id])
      BY <2>1, <3>2, <3>3 DEF Advanced
    <3> QED
      BY <1>0, <3>1, <3>3, <3>4
  <2>4. CASE /\ pools' = [pools EXCEPT ![res.pool] = PoolUse(res.pool, r, c)]
             /\ UNCHANGED <<regions, reservations, ledger>>
    <3> DEFINE rec == PoolUse(res.pool, r, c)
    <3>1. PoolsOK /\ Finite /\ RegionsOK /\ ledger \in Ledger
      BY DEF TypeInv, TypeOK, PoolsOK, RegionsOK
    <3>2. /\ rec \in CxlPool /\ rec.id = res.pool /\ rec.members = pools[res.pool].members
          /\ rec.generation = pools[res.pool].generation
      BY <2>1, <2>2, <3>1, PoolUseType
    <3> HIDE DEF rec
    <3>3. pools' = [pools EXCEPT ![res.pool] = rec]
      BY <2>4 DEF rec
    <3>4. PoolsOK' /\ Finite' /\ DOMAIN pools' = DOMAIN pools
      BY <3>1, <3>2, <3>3 DEF PoolsOK, Finite
    <3>5. \A q \in DOMAIN pools : /\ pools'[q].generation = pools[q].generation
                                  /\ pools'[q].members = pools[q].members
      BY <3>2, <3>3
    <3>6. AdmissionFrame
      BY <2>1, <2>4, <3>1, <3>4, <3>5 DEF AdmissionFrame, RegionsOK
    <3>7. ReservationsOK' /\ Refs'
      BY <1>0, <2>1, <2>4, <3>4 DEF ReservationsOK, Refs
    <3> QED
      BY <1>0, <2>4, <3>6, <3>7
  <2> QED
    BY <2>1, <2>3, <2>4
<1> QED
  BY <1>1, <1>2, <1>3 DEF AdmissionStep

\* The initial state is well typed.
LEMMA TypeInit ==
  ASSUME Init
  PROVE  TypeInv
<1>1. /\ DOMAIN devices = {} /\ DOMAIN regions = {} /\ DOMAIN pools = {} /\ DOMAIN reservations = {}
  BY DEF Init, EmptyMap
<1>2. ledger \in Ledger
  <2>1. ledger = recompute_global(pools)
    BY DEF Init
  <2> QED
    BY <1>1, <2>1, LedgerNat, FS_EmptySet
<1>3. AuthorityOK /\ sequence = 0
  BY MaxGenAssumption DEF Init, AuthorityOK
<1>4. 1..sequence = {}
  BY <1>3
<1> QED
  BY <1>1, <1>2, <1>3, <1>4, FS_EmptySet DEF TypeInv, TypeOK, Finite, Refs, AuthorityOK

\* Every step of the full specification keeps the types.
LEMMA TypeNext ==
  ASSUME TypeInv, [Next]_vars
  PROVE  TypeInv'
<1>1. ASSUME PoolStep \/ ShrinkStep PROVE TypeInv'
  <2>1. /\ UNCHANGED <<authority, devices, regions, grants>>
        /\ PoolsOK' /\ Finite' /\ ledger' \in Ledger
        /\ DOMAIN pools \subseteq DOMAIN pools'
    BY <1>1, PoolStepFacts
  <2> QED
    BY <2>1 DEF TypeInv, TypeOK, Refs, PoolsOK, authority, grants
<1>2. ASSUME AdmissionStep PROVE TypeInv'
  <2>1. AdmissionFrame /\ ReservationsOK' /\ Refs'
    BY <1>2, AdmissionFacts
  <2> QED
    BY <2>1 DEF TypeInv, TypeOK, AdmissionFrame, PoolsOK, RegionsOK, ReservationsOK, authority
<1>3. ASSUME UNCHANGED vars PROVE TypeInv'
  BY <1>3 DEF vars, TypeInv, TypeOK, Finite, Refs
<1> QED
  BY <1>1, <1>2, <1>3, TypeAuthority, TypeDevice, TypeRegion DEF Next, GrowNext

\* The type invariant, with finiteness and the references of reservations.
THEOREM FabricTypeInv == Spec => []TypeInv
<1>1. Init => TypeInv
  BY TypeInit
<1>2. TypeInv /\ [Next]_vars => TypeInv'
  BY TypeNext
<1> QED
  BY <1>1, <1>2, PTL DEF Spec

\* Every operation of the engine leaves well-typed records, filed under their own
\* identifiers, for any inputs and any number of records.
THEOREM FabricTypeOK == Spec => []TypeOK
<1>1. TypeInv => TypeOK
  BY DEF TypeInv
<1> QED
  BY <1>1, FabricTypeInv, PTL

----------------------------------------------------------------------------
(* What no step may do *)

\* An accepted registration or mark never lowers a device's generation.
LEMMA DeviceGenerations ==
  ASSUME TypeInv, DeviceStep
  PROVE  /\ UNCHANGED <<regions, pools, reservations>>
         /\ \A d \in DOMAIN devices :
              d \in DOMAIN devices' /\ devices'[d].generation >= devices[d].generation
<1> DEFINE Goal == /\ UNCHANGED <<regions, pools, reservations>>
                   /\ \A d \in DOMAIN devices :
                        d \in DOMAIN devices' /\ devices'[d].generation >= devices[d].generation
<1>0. \A d \in DOMAIN devices : devices[d] \in CxlDevice /\ devices[d].generation \in Nat
  BY MaxGenAssumption DEF TypeInv, TypeOK, CxlDevice, Generation
<1>1. ASSUME NEW dev \in DeviceInputs, NEW e \in Epochs, register_device(dev, e) PROVE Goal
  <2>1. devices' = Put(devices, dev.id, dev) /\ UNCHANGED <<regions, pools, reservations>>
    BY <1>1 DEF register_device, grants
  <2>2. dev.generation \in Nat
    BY InputAssumption, MaxGenAssumption DEF CxlDevice, Generation
  <2>3. dev.id \in DOMAIN devices => dev.generation >= devices[dev.id].generation
    BY <1>0, <1>1, <2>2 DEF register_device, register_device_reason
  <2> QED
    BY <1>0, <2>1, <2>3 DEF Put
<1>2. ASSUME NEW d \in DOMAIN devices, NEW e \in Epochs, NEW st, NEW cur, MarkDevice(d, e, st, cur)
      PROVE  Goal
  <2> DEFINE rec == [devices[d] EXCEPT !.state = st, !.evidence_current = cur]
  <2>1. rec.generation = devices[d].generation
    BY <1>0 DEF CxlDevice
  <2>2. devices' = [devices EXCEPT ![d] = rec] /\ UNCHANGED <<regions, pools, reservations>>
    BY <1>2 DEF MarkDevice, grants
  <2> HIDE DEF rec
  <2> QED
    BY <1>0, <2>1, <2>2
<1> QED
  BY <1>1, <1>2 DEF DeviceStep, mark_device_online, mark_device_revalidation

\* No operation on regions lowers a region's generation.
LEMMA RegionGenerations ==
  ASSUME TypeInv, RegionStep \/ OverwriteStep
  PROVE  /\ UNCHANGED <<devices, pools, reservations>>
         /\ \A r \in DOMAIN regions :
              r \in DOMAIN regions' /\ regions'[r].generation >= regions[r].generation
<1> DEFINE Goal == /\ UNCHANGED <<devices, pools, reservations>>
                   /\ \A r \in DOMAIN regions :
                        r \in DOMAIN regions' /\ regions'[r].generation >= regions[r].generation
<1>0. \A r \in DOMAIN regions : regions[r] \in CxlRegion /\ regions[r].generation \in Nat
  BY MaxGenAssumption DEF TypeInv, TypeOK, CxlRegion, Generation
<1>1. ASSUME NEW r \in DOMAIN regions, NEW rec, rec.generation >= regions[r].generation,
             regions' = [regions EXCEPT ![r] = rec], UNCHANGED <<devices, pools, grants>>
      PROVE  Goal
  BY <1>0, <1>1 DEF grants
<1>2. ASSUME NEW reg \in RegionInputs, NEW e \in Epochs, create_region(reg, e) PROVE Goal
  <2>1. regions' = Put(regions, reg.id, reg) /\ UNCHANGED <<devices, pools, reservations>>
    BY <1>2 DEF create_region, grants
  <2>2. reg.id \notin DOMAIN regions
    BY <1>2 DEF create_region, create_region_reason
  <2> QED
    BY <1>0, <2>1, <2>2 DEF Put
<1>3. ASSUME NEW reg \in RegionInputs, NEW e \in Epochs, update_region(reg, e) PROVE Goal
  BY <1>1, <1>3 DEF update_region
<1>4. ASSUME NEW r \in DOMAIN regions, NEW ms, NEW e \in Epochs, reconfigure_region(r, ms, e)
      PROVE  Goal
  <2> DEFINE rec == [regions[r] EXCEPT !.generation = NextGen(regions[r].generation),
                                       !.member_devices = ms, !.state = "RECONFIGURING",
                                       !.evidence_current = FALSE]
  <2>1. NextGen(regions[r].generation) >= regions[r].generation
    BY <1>0, <1>4, MaxGenAssumption DEF reconfigure_region, NextGen
  <2>2. rec.generation = NextGen(regions[r].generation)
    BY <1>0 DEF CxlRegion
  <2>3. regions' = [regions EXCEPT ![r] = rec] /\ UNCHANGED <<devices, pools, grants>>
    BY <1>4 DEF reconfigure_region
  <2> HIDE DEF rec
  <2> QED
    BY <1>1, <2>1, <2>2, <2>3
<1>5. ASSUME NEW r \in DOMAIN regions, NEW e \in Epochs,
             mark_region_draining(r, e) \/ revalidate_region(r, e)
      PROVE  Goal
  <2> DEFINE a == [regions[r] EXCEPT !.state = "DRAINING"]
             b == [regions[r] EXCEPT !.state = "ONLINE", !.evidence_current = TRUE,
                                     !.health = "HEALTHY"]
  <2>1. a.generation >= regions[r].generation /\ b.generation >= regions[r].generation
    BY <1>0 DEF CxlRegion
  <2>2. /\ UNCHANGED <<devices, pools, grants>>
        /\ regions' = [regions EXCEPT ![r] = a] \/ regions' = [regions EXCEPT ![r] = b]
    BY <1>5 DEF mark_region_draining, revalidate_region
  <2> HIDE DEF a, b
  <2> QED
    BY <1>1, <2>1, <2>2
<1> QED
  BY <1>2, <1>3, <1>4, <1>5 DEF RegionStep, OverwriteStep

\* Generations only grow, and no record is ever forgotten, for any inputs: a stale
\* device, region or pool event never replaces current state.
THEOREM GenerationsSafe == Spec => GenerationsNeverRegress
<1>1. TypeInv => /\ \A d \in DOMAIN devices : devices[d].generation >= devices[d].generation
                 /\ \A r \in DOMAIN regions : regions[r].generation >= regions[r].generation
                 /\ \A p \in DOMAIN pools : pools[p].generation >= pools[p].generation
  <2> SUFFICES ASSUME TypeInv
               PROVE  /\ \A d \in DOMAIN devices : devices[d].generation >= devices[d].generation
                      /\ \A r \in DOMAIN regions : regions[r].generation >= regions[r].generation
                      /\ \A p \in DOMAIN pools : pools[p].generation >= pools[p].generation
    OBVIOUS
  <2>1. \A d \in DOMAIN devices : devices[d].generation \in Nat
    BY MaxGenAssumption DEF TypeInv, TypeOK, CxlDevice, Generation
  <2>2. \A r \in DOMAIN regions : regions[r].generation \in Nat
    BY MaxGenAssumption DEF TypeInv, TypeOK, CxlRegion, Generation
  <2>3. \A p \in DOMAIN pools : pools[p].generation \in Nat
    BY MaxGenAssumption DEF TypeInv, TypeOK, CxlPool, Generation
  <2> QED
    BY <2>1, <2>2, <2>3
<1>2. TypeInv /\ AuthorityStep => GenerationsGrow
  BY <1>1 DEF AuthorityStep, set_epoch, set_policy_generation, advance_evidence_generation, records,
     GenerationsGrow, NoRegress
<1>3. TypeInv /\ DeviceStep => GenerationsGrow
  BY <1>1, DeviceGenerations DEF GenerationsGrow, NoRegress
<1>4. TypeInv /\ (RegionStep \/ OverwriteStep) => GenerationsGrow
  BY <1>1, RegionGenerations DEF GenerationsGrow, NoRegress
<1>5. TypeInv /\ (PoolStep \/ ShrinkStep) => GenerationsGrow
  BY <1>1, PoolStepFacts DEF GenerationsGrow, NoRegress
<1>6. TypeInv /\ AdmissionStep => GenerationsGrow
  BY <1>1, AdmissionFacts DEF AdmissionFrame, GenerationsGrow, NoRegress
<1>7. TypeInv /\ [Next]_vars => [GenerationsGrow]_vars
  BY <1>2, <1>3, <1>4, <1>5, <1>6 DEF Next, GrowNext
<1> QED
  BY <1>7, FabricTypeInv, PTL DEF Spec, GenerationsNeverRegress

\* A reservation keeps what it was granted and only advances, for any inputs: a
\* released reservation is never revived.
THEOREM ReservationsSafe == Spec => ReservationsOnlyAdvance
<1>1. TypeInv => \A i \in DOMAIN reservations : Advanced(reservations[i], reservations[i])
  BY AdvancedSame DEF TypeInv, TypeOK
<1>2. TypeInv /\ UNCHANGED reservations => ReservationsAdvance
  BY <1>1 DEF ReservationsAdvance
<1>3. TypeInv /\ AuthorityStep => UNCHANGED reservations
  BY DEF AuthorityStep, set_epoch, set_policy_generation, advance_evidence_generation, grants
<1>4. TypeInv /\ (DeviceStep \/ RegionStep \/ OverwriteStep) => UNCHANGED reservations
  BY DeviceGenerations, RegionGenerations
<1>5. TypeInv /\ (PoolStep \/ ShrinkStep) => UNCHANGED reservations
  BY PoolStepFacts DEF grants
<1>6. TypeInv /\ AdmissionStep => ReservationsAdvance
  BY AdmissionFacts DEF ReservationsAdvance
<1>7. TypeInv /\ [Next]_vars => [ReservationsAdvance]_vars
  BY <1>2, <1>3, <1>4, <1>5, <1>6 DEF Next, GrowNext
<1> QED
  BY <1>7, FabricTypeInv, PTL DEF Spec, ReservationsOnlyAdvance

\* The operations on pools never bring a device into a second pool, or twice into one.
LEMMA MembershipStep ==
  ASSUME TypeInv, NoDoubleCounting, PoolStep \/ ShrinkStep
  PROVE  NoDoubleCounting'
<1> DEFINE Once(ps) ==
             \A p, q \in DOMAIN ps : \A m \in ps[p].members, n \in ps[q].members :
               m.device = n.device => p = q /\ m = n
<1>0. PoolsOK /\ Finite /\ Once(pools)
  BY DEF PoolsOK, TypeInv, TypeOK, NoDoubleCounting
<1>1. \A p \in DOMAIN pools : /\ pools[p] \in CxlPool /\ IsFiniteSet(pools[p].members)
                              /\ pools[p].members \in SUBSET PoolMember
  BY <1>0 DEF PoolsOK, Finite, CxlPool
<1>2. ASSUME NEW p, NEW rec, StorePool(p, rec)
      PROVE  /\ DOMAIN pools' = DOMAIN pools \cup {p} /\ pools'[p] = rec
             /\ \A q \in DOMAIN pools : q # p => pools'[q] = pools[q]
  <2>1. pools' = Put(pools, p, rec)
    BY <1>2 DEF StorePool
  <2> QED
    BY <2>1 DEF Put
<1>3. ASSUME DOMAIN pools' = DOMAIN pools,
             \A q \in DOMAIN pools : pools'[q].members \subseteq pools[q].members
      PROVE  Once(pools')
  BY <1>0, <1>3
<1>4. ASSUME NEW in \in PoolInputs, NEW e \in Epochs, create_pool(in, e) PROVE Once(pools')
  <2> DEFINE rec == recompute_pool(NewRecord(in))
  <2>1. /\ StorePool(in.id, rec) /\ in.id \notin DOMAIN pools
        /\ \A m, n \in in.members : m.device = n.device => m = n
        /\ \A m \in in.members, p \in DOMAIN pools : \A n \in pools[p].members : m.device # n.device
    BY <1>4 DEF create_pool, create_pool_reason, NewRecord, Governs
  <2>2. rec.members = in.members
    BY NewRecordType, RecomputePool DEF NewRecord
  <2> HIDE DEF rec
  <2>3. /\ DOMAIN pools' = DOMAIN pools \cup {in.id} /\ pools'[in.id].members = in.members
        /\ \A q \in DOMAIN pools : pools'[q] = pools[q]
    BY <1>2, <2>1, <2>2
  <2>4. SUFFICES ASSUME NEW q \in DOMAIN pools', NEW r \in DOMAIN pools',
                        NEW m \in pools'[q].members, NEW n \in pools'[r].members,
                        m.device = n.device
                 PROVE  q = r /\ m = n
    OBVIOUS
  <2>5. CASE q = in.id /\ r = in.id
    BY <2>1, <2>3, <2>4, <2>5
  <2>6. CASE q # in.id /\ r # in.id
    BY <1>0, <2>3, <2>4, <2>6
  <2>7. CASE (q = in.id) # (r = in.id)
    BY <2>1, <2>3, <2>4, <2>7
  <2> QED
    BY <2>5, <2>6, <2>7
<1>5. ASSUME NEW p \in DOMAIN pools, NEW x \in MemberInputs, NEW e \in Epochs,
             add_pool_member(p, x, e)
      PROVE  Once(pools')
  <2> DEFINE ms == pools[p].members \cup {x}
             rec == WithMembers(pools[p], ms)
  <2>1. ms \in SUBSET PoolMember /\ IsFiniteSet(ms)
    BY <1>1, InputAssumption, FS_AddElement
  <2>2. StorePool(p, rec)
    BY <1>5 DEF add_pool_member
  <2>3. \A q \in DOMAIN pools : \A n \in pools[q].members : x.device # n.device
    BY <1>5 DEF add_pool_member, add_pool_member_reason, Governs
  <2>4. rec.members = ms
    <3> HIDE DEF ms
    <3> QED
      BY <1>1, <2>1, WithMembersFacts
  <2> HIDE DEF rec
  <2>5. /\ DOMAIN pools' = DOMAIN pools /\ pools'[p].members = ms
        /\ \A q \in DOMAIN pools : q # p => pools'[q] = pools[q]
    <3> HIDE DEF ms
    <3>1. /\ DOMAIN pools' = DOMAIN pools \cup {p} /\ pools'[p] = rec
          /\ \A q \in DOMAIN pools : q # p => pools'[q] = pools[q]
      BY <1>2, <2>2
    <3> QED
      BY <2>4, <3>1
  <2>6. \A q \in DOMAIN pools' : \A n \in pools'[q].members :
          q \in DOMAIN pools /\ (n \in pools[q].members \/ (q = p /\ n = x))
    BY <2>5
  <2> QED
    BY <1>0, <2>3, <2>6
<1>6. ASSUME NEW p \in DOMAIN pools, NEW x \in pools[p].members, NEW e \in Epochs,
             remove_pool_member(p, x, e)
      PROVE  Once(pools')
  <2> DEFINE ms == pools[p].members \ {x}
             rec == WithMembers(pools[p], ms)
  <2>1. ms \in SUBSET PoolMember /\ IsFiniteSet(ms) /\ ms \subseteq pools[p].members
    BY <1>1, FS_Subset
  <2>2. StorePool(p, rec)
    BY <1>6 DEF remove_pool_member
  <2> HIDE DEF ms
  <2>3. rec.members = ms
    BY <1>1, <2>1, WithMembersFacts
  <2> HIDE DEF rec
  <2>4. /\ DOMAIN pools' = DOMAIN pools /\ pools'[p].members = ms
        /\ \A q \in DOMAIN pools : q # p => pools'[q] = pools[q]
    <3>1. /\ DOMAIN pools' = DOMAIN pools \cup {p} /\ pools'[p] = rec
          /\ \A q \in DOMAIN pools : q # p => pools'[q] = pools[q]
      BY <1>2, <2>2
    <3> QED
      BY <2>3, <3>1
  <2>5. \A q \in DOMAIN pools : pools'[q].members \subseteq pools[q].members
    BY <2>1, <2>4
  <2> QED
    BY <1>3, <2>4, <2>5
<1>7. ASSUME NEW p \in DOMAIN pools, NEW e \in Epochs, mark_pool_draining(p, e) PROVE Once(pools')
  <2>1. [pools[p] EXCEPT !.state = "DRAINING"].members = pools[p].members
    BY <1>1 DEF CxlPool
  <2>2. pools' = [pools EXCEPT ![p] = [pools[p] EXCEPT !.state = "DRAINING"]]
    BY <1>7 DEF mark_pool_draining
  <2>3. DOMAIN pools' = DOMAIN pools /\ \A q \in DOMAIN pools : pools'[q].members = pools[q].members
    BY <2>1, <2>2
  <2> QED
    BY <1>3, <2>3
<1>8. ASSUME NEW p \in DOMAIN pools, NEW e \in Epochs, reconcile_pool(p, e) PROVE Once(pools')
  <2>1. StorePool(p, recompute_pool(pools[p]))
    BY <1>8 DEF reconcile_pool
  <2> DEFINE rec == recompute_pool(pools[p])
  <2>2. rec.members = pools[p].members
    BY <1>1, RecomputePool
  <2>3. StorePool(p, rec)
    BY <2>1
  <2> HIDE DEF rec
  <2>4. DOMAIN pools' = DOMAIN pools /\ \A q \in DOMAIN pools : pools'[q].members = pools[q].members
    BY <1>2, <2>2, <2>3
  <2> QED
    BY <1>3, <2>4
<1>9. ASSUME NEW p \in DOMAIN pools, NEW e \in Epochs, revalidate_pool(p, e) PROVE Once(pools')
  <2>1. StorePool(p, recompute_pool(Revalidated(p)))
    BY <1>9 DEF revalidate_pool, Revalidated
  <2> DEFINE old == Revalidated(p)
             rec == recompute_pool(old)
  <2>2. old \in CxlPool /\ old.members = pools[p].members /\ IsFiniteSet(old.members)
    BY <1>0, <1>1, RevalidatedType
  <2> HIDE DEF old
  <2>3. rec.members = pools[p].members
    BY <2>2, RecomputePool
  <2>4. StorePool(p, rec)
    BY <2>1 DEF old
  <2> HIDE DEF rec
  <2>5. DOMAIN pools' = DOMAIN pools /\ \A q \in DOMAIN pools : pools'[q].members = pools[q].members
    BY <1>2, <2>3, <2>4
  <2> QED
    BY <1>3, <2>5
<1>10. Once(pools')
  BY <1>4, <1>5, <1>6, <1>7, <1>8, <1>9 DEF PoolStep, ShrinkStep
<1> QED
  BY <1>10 DEF NoDoubleCounting

\* Whatever the order of pool creation, member addition and removal, a device is governed
\* by at most one pool and counted at most once in it.
THEOREM DevicesCountOnce == Spec => []NoDoubleCounting
<1>1. Init => NoDoubleCounting
  BY DEF Init, EmptyMap, NoDoubleCounting
<1>2. TypeInv /\ NoDoubleCounting /\ [Next]_vars => NoDoubleCounting'
  <2> SUFFICES ASSUME TypeInv, NoDoubleCounting, [Next]_vars PROVE NoDoubleCounting'
    OBVIOUS
  <2>1. ASSUME UNCHANGED pools PROVE NoDoubleCounting'
    BY <2>1 DEF NoDoubleCounting
  <2>2. AuthorityStep => UNCHANGED pools
    BY DEF AuthorityStep, set_epoch, set_policy_generation, advance_evidence_generation, records
  <2>3. DeviceStep \/ RegionStep \/ OverwriteStep => UNCHANGED pools
    BY DeviceGenerations, RegionGenerations
  <2>4. AdmissionStep => NoDoubleCounting'
    <3> SUFFICES ASSUME AdmissionStep PROVE NoDoubleCounting'
      OBVIOUS
    <3>1. DOMAIN pools' = DOMAIN pools /\ \A q \in DOMAIN pools : pools'[q].members = pools[q].members
      BY AdmissionFacts DEF AdmissionFrame
    <3> QED
      BY <3>1 DEF NoDoubleCounting
  <2>5. UNCHANGED vars => UNCHANGED pools
    BY DEF vars
  <2> QED
    BY <2>1, <2>2, <2>3, <2>4, <2>5, MembershipStep DEF Next, GrowNext
<1> QED
  BY <1>1, <1>2, FabricTypeInv, PTL DEF Spec

=============================================================================
