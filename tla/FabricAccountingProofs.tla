------------------------- MODULE FabricAccountingProofs -------------------------
(***************************************************************************)
(* Proofs about the capacity accounting of Fabric: the counters of a pool  *)
(* account for its reservations, whatever the order of reserve, commit,    *)
(* release and the changes of the registries between them; those of a      *)
(* region, which are added to and subtracted from without a check and      *)
(* modulo 2^64, do so and never wrap as long as update_region() does not   *)
(* replace them (GrowSpec).                                                *)
(***************************************************************************)
EXTENDS FabricProofs

----------------------------------------------------------------------------
(* The bytes of a set of reservations, and the two counters that account for them *)

Bytes(rs, ids) == SumFunctionOnSet([i \in ids |-> rs[i].bytes], ids)

\* The bytes of finitely many reservations are a natural.
LEMMA BytesNat ==
  ASSUME NEW rs, NEW ids, IsFiniteSet(ids), \A i \in ids : rs[i].bytes \in Nat
  PROVE  Bytes(rs, ids) \in Nat
<1>1. \A i \in ids : [x \in ids |-> rs[x].bytes][i] \in Nat
  OBVIOUS
<1> QED
  BY <1>1, SumNat DEF Bytes

\* They depend on the bytes of the members alone.
LEMMA BytesSame ==
  ASSUME NEW rs, NEW rt, NEW ids, IsFiniteSet(ids), \A i \in ids : rt[i].bytes = rs[i].bytes
  PROVE  Bytes(rt, ids) = Bytes(rs, ids)
<1>1. \A i \in ids : [x \in ids |-> rt[x].bytes][i] = [x \in ids |-> rs[x].bytes][i]
  OBVIOUS
<1> QED
  BY <1>1, SumSame DEF Bytes

\* One reservation more.
LEMMA BytesAdd ==
  ASSUME NEW rs, NEW ids, IsFiniteSet(ids), NEW e, e \notin ids,
         \A i \in ids \cup {e} : rs[i].bytes \in Nat
  PROVE  Bytes(rs, ids \cup {e}) = rs[e].bytes + Bytes(rs, ids)
<1> DEFINE all == ids \cup {e}
           f == [i \in all |-> rs[i].bytes]
           g == [i \in ids |-> rs[i].bytes]
<1>1. /\ \A i \in all : f[i] \in Nat
      /\ \A i \in ids : f[i] = g[i]
      /\ f[e] = rs[e].bytes
  OBVIOUS
<1>2. Bytes(rs, all) = SumFunctionOnSet(f, all) /\ Bytes(rs, ids) = SumFunctionOnSet(g, ids)
  BY DEF Bytes
<1> HIDE DEF f, g
<1>3. SumFunctionOnSet(f, all) = f[e] + SumFunctionOnSet(f, ids)
  BY <1>1, SumAdd
<1>4. SumFunctionOnSet(f, ids) = SumFunctionOnSet(g, ids)
  BY <1>1, SumSame
<1> QED
  BY <1>1, <1>2, <1>3, <1>4

\* One reservation fewer.
LEMMA BytesRemove ==
  ASSUME NEW rs, NEW ids, IsFiniteSet(ids), NEW e \in ids, \A i \in ids : rs[i].bytes \in Nat
  PROVE  Bytes(rs, ids) = rs[e].bytes + Bytes(rs, ids \ {e})
<1> DEFINE less == ids \ {e}
<1>1. IsFiniteSet(less) /\ e \notin less /\ less \cup {e} = ids
  BY FS_Subset
<1> HIDE DEF less
<1>2. Bytes(rs, less \cup {e}) = rs[e].bytes + Bytes(rs, less)
  BY <1>1, BytesAdd
<1> QED
  BY <1>1, <1>2 DEF less

\* Fewer reservations hold no more bytes.
LEMMA BytesSubset ==
  ASSUME NEW rs, NEW ids, IsFiniteSet(ids), \A i \in ids : rs[i].bytes \in Nat,
         NEW some, some \subseteq ids
  PROVE  Bytes(rs, some) <= Bytes(rs, ids)
<1> DEFINE f == [i \in ids |-> rs[i].bytes]
           g == [i \in some |-> rs[i].bytes]
<1>1. /\ \A i \in ids : f[i] \in Nat
      /\ \A i \in some : f[i] = g[i]
      /\ IsFiniteSet(some)
  BY FS_Subset
<1>2. Bytes(rs, ids) = SumFunctionOnSet(f, ids) /\ Bytes(rs, some) = SumFunctionOnSet(g, some)
  BY DEF Bytes
<1> HIDE DEF f, g
<1>3. SumFunctionOnSet(f, some) <= SumFunctionOnSet(f, ids)
  BY <1>1, SumSubset
<1>4. SumFunctionOnSet(f, some) = SumFunctionOnSet(g, some)
  BY <1>1, SumSame
<1> QED
  BY <1>2, <1>3, <1>4

\* The counters r (reserved) and c (committed) account for the outstanding
\* reservations out, of which those in held are not committed.  What they count beyond
\* them, the bytes of an earlier process, is one of X: {0} for counters that are exact,
\* Nat for counters that cover the reservations.
Accounts(X, rs, r, c, out, held) == (r + c) - Bytes(rs, out) \in X /\ Bytes(rs, held) <= r

\* What is known of the sets and counters before a step.
Sound(X, rs, r, c, out, held) ==
  /\ IsFiniteSet(out) /\ held \subseteq out
  /\ \A i \in out : rs[i].bytes \in Nat
  /\ r \in Nat /\ c \in Nat
  /\ Accounts(X, rs, r, c, out, held)

\* reserve(): a new reservation and as many reserved bytes.
LEMMA AccountsReserve ==
  ASSUME NEW X, NEW rs, NEW r, NEW c, NEW out, NEW held, Sound(X, rs, r, c, out, held), NEW rt,
         NEW e, e \notin out, rt[e].bytes \in Nat, \A i \in out : rt[i].bytes = rs[i].bytes
  PROVE  Accounts(X, rt, r + rt[e].bytes, c, out \cup {e}, held \cup {e})
<1> DEFINE n == rt[e].bytes
           b == Bytes(rs, out)
           h == Bytes(rs, held)
<1>1. /\ IsFiniteSet(out) /\ IsFiniteSet(held) /\ held \subseteq out /\ e \notin held
      /\ r \in Nat /\ c \in Nat /\ \A i \in out \cup {e} : rt[i].bytes \in Nat
      /\ \A i \in out : rs[i].bytes \in Nat
      /\ (r + c) - b \in X /\ h <= r
  BY FS_Subset DEF Sound, Accounts
<1>2. Bytes(rt, out) = b /\ Bytes(rt, held) = h
  BY <1>1, BytesSame
<1>3. /\ Bytes(rt, out \cup {e}) = n + b
      /\ Bytes(rt, held \cup {e}) = n + h
  BY <1>1, <1>2, BytesAdd
<1>4. b \in Nat /\ h \in Nat /\ n \in Nat
  BY <1>1, BytesNat
<1> HIDE DEF n, b, h
<1>5. (r + n + c) - (n + b) = (r + c) - b /\ n + h <= r + n
  BY <1>1, <1>4
<1> QED
  BY <1>1, <1>3, <1>5 DEF Accounts, n

\* commit(): the reserved bytes cover the reservation and move to the committed ones.
LEMMA AccountsCommit ==
  ASSUME NEW X, NEW rs, NEW r, NEW c, NEW out, NEW held, Sound(X, rs, r, c, out, held), NEW rt,
         NEW e \in held, \A i \in out : rt[i].bytes = rs[i].bytes
  PROVE  /\ rs[e].bytes <= r
         /\ Accounts(X, rt, r - rs[e].bytes, c + rs[e].bytes, out, held \ {e})
<1> DEFINE n == rs[e].bytes
           b == Bytes(rs, out)
           h == Bytes(rs, held)
           l == Bytes(rs, held \ {e})
<1>1. /\ IsFiniteSet(out) /\ IsFiniteSet(held) /\ held \subseteq out
      /\ r \in Nat /\ c \in Nat /\ \A i \in out : rs[i].bytes \in Nat
      /\ (r + c) - b \in X /\ h <= r
  BY FS_Subset DEF Sound, Accounts
<1>2. Bytes(rt, out) = b
  BY <1>1, BytesSame
<1>3. IsFiniteSet(held \ {e})
  BY <1>1, FS_Subset
<1>4. h = n + l
  BY <1>1, BytesRemove
<1>5. Bytes(rt, held \ {e}) = l /\ l \in Nat /\ b \in Nat /\ n \in Nat
  BY <1>1, <1>3, BytesSame, BytesNat
<1> HIDE DEF n, b, h, l
<1>6. n <= r /\ ((r - n) + (c + n)) - b = (r + c) - b /\ l <= r - n
  BY <1>1, <1>4, <1>5
<1> QED
  BY <1>1, <1>2, <1>5, <1>6 DEF Accounts, n

\* release(): committed bytes go first, then reserved ones, which always suffice.
LEMMA AccountsRelease ==
  ASSUME NEW X \in SUBSET Nat,
         NEW rs, NEW r, NEW c, NEW out, NEW held, Sound(X, rs, r, c, out, held), NEW rt,
         NEW e \in out, \A i \in out : rt[i].bytes = rs[i].bytes
  PROVE  /\ Clamp(rs[e].bytes - c) <= r
         /\ Accounts(X, rt, r - Clamp(rs[e].bytes - c), Clamp(c - rs[e].bytes), out \ {e}, held \ {e})
<1> DEFINE n == rs[e].bytes
           b == Bytes(rs, out)
           l == Bytes(rs, out \ {e})
           h == Bytes(rs, held)
           k == Bytes(rs, held \ {e})
<1>1. /\ IsFiniteSet(out) /\ held \subseteq out
      /\ r \in Nat /\ c \in Nat /\ \A i \in out : rs[i].bytes \in Nat
      /\ (r + c) - b \in X /\ h <= r
  BY DEF Sound, Accounts
<1>2. /\ IsFiniteSet(out \ {e}) /\ IsFiniteSet(held \ {e}) /\ IsFiniteSet(held)
      /\ held \ {e} \subseteq out \ {e} /\ held \ {e} \subseteq held
  BY <1>1, FS_Subset
<1>3. b = n + l
  BY <1>1, BytesRemove
<1>4. k <= l /\ k <= h /\ l \in Nat /\ k \in Nat /\ h \in Nat /\ n \in Nat
  BY <1>1, <1>2, BytesSubset, BytesNat
<1>5. Bytes(rt, out \ {e}) = l /\ Bytes(rt, held \ {e}) = k
  BY <1>1, <1>2, BytesSame
<1>6. (r + c) - b \in Nat
  BY <1>1
<1> HIDE DEF n, b, l, h, k
<1>7. /\ Clamp(n - c) <= r
      /\ ((r - Clamp(n - c)) + Clamp(c - n)) - l = (r + c) - b
      /\ k <= r - Clamp(n - c)
  BY <1>1, <1>3, <1>4, <1>6 DEF Clamp
<1> QED
  BY <1>1, <1>5, <1>7 DEF Accounts, n

----------------------------------------------------------------------------
(* Pools *)

Hold(rs, p, states) == {i \in DOMAIN rs : rs[i].pool = p /\ rs[i].state \in states}

\* The counters of pool p account for the reservations that name it.
PoolAccounts(X, ps, rs, p) ==
  Accounts(X, rs, ps[p].reserved, ps[p].committed, Hold(rs, p, Outstanding), Hold(rs, p, {"RESERVED"}))

PoolInv(X) == \A p \in DOMAIN pools : PoolAccounts(X, pools, reservations, p)

\* What counters may count beyond the reservations; those of a new pool count nothing.
Slack(X) == X \subseteq Nat /\ 0 \in X

\* In a reachable state the sets and counters of a pool are as the lemmas on
\* Accounts require.
LEMMA PoolSound ==
  ASSUME NEW X, Slack(X), TypeInv, PoolInv(X), NEW p \in DOMAIN pools
  PROVE  Sound(X, reservations, pools[p].reserved, pools[p].committed,
               Hold(reservations, p, Outstanding), Hold(reservations, p, {"RESERVED"}))
<1>1. IsFiniteSet(DOMAIN reservations)
  <2>1. DOMAIN reservations = 1..sequence /\ sequence \in Nat
    BY DEF TypeInv, TypeOK
  <2> QED
    BY <2>1, FS_Interval
<1>2. IsFiniteSet(Hold(reservations, p, Outstanding))
  <2>1. Hold(reservations, p, Outstanding) \subseteq DOMAIN reservations
    BY DEF Hold
  <2> QED
    BY <1>1, <2>1, FS_Subset
<1>3. Hold(reservations, p, {"RESERVED"}) \subseteq Hold(reservations, p, Outstanding)
  BY DEF Hold, Outstanding
<1>4. \A i \in DOMAIN reservations : reservations[i].bytes \in Nat
  BY CounterTypes DEF TypeInv, TypeOK
<1>5. pools[p].reserved \in Nat /\ pools[p].committed \in Nat
  BY CounterTypes
<1>6. PoolAccounts(X, pools, reservations, p)
  BY DEF PoolInv
<1> QED
  BY <1>2, <1>3, <1>4, <1>5, <1>6 DEF Sound, PoolAccounts, Hold

\* A step that leaves the reservations and the use of every pool alone, and
\* creates pools without use.
LEMMA PoolAccountsFrame ==
  ASSUME NEW X, Slack(X), TypeInv, PoolInv(X), reservations' = reservations,
         \A q \in DOMAIN pools : /\ pools'[q].reserved = pools[q].reserved
                                 /\ pools'[q].committed = pools[q].committed,
         \A q \in DOMAIN pools' \ DOMAIN pools : pools'[q].reserved = 0 /\ pools'[q].committed = 0
  PROVE  PoolInv(X)'
<1>1. SUFFICES ASSUME NEW q \in DOMAIN pools' PROVE PoolAccounts(X, pools', reservations', q)
  BY DEF PoolInv
<1>2. CASE q \in DOMAIN pools
  <2>1. PoolAccounts(X, pools, reservations, q)
    BY <1>2 DEF PoolInv
  <2> QED
    BY <1>2, <2>1 DEF PoolAccounts
<1>3. CASE q \notin DOMAIN pools
  <2>1. \A i \in DOMAIN reservations : reservations[i].pool # q
    BY <1>3 DEF TypeInv, Refs
  <2>2. Hold(reservations, q, Outstanding) = {} /\ Hold(reservations, q, {"RESERVED"}) = {}
    BY <2>1 DEF Hold
  <2>3. Bytes(reservations, {}) = 0
    BY SumEmpty DEF Bytes
  <2>4. pools'[q].reserved = 0 /\ pools'[q].committed = 0
    BY <1>1, <1>3
  <2> QED
    BY <2>2, <2>3, <2>4 DEF PoolAccounts, Accounts, Slack
<1> QED
  BY <1>2, <1>3

\* A pool whose counters and reservations a step leaves alone.
LEMMA PoolAccountsOther ==
  ASSUME NEW X, Slack(X), TypeInv, PoolInv(X), NEW q \in DOMAIN pools, pools'[q] = pools[q],
         Hold(reservations', q, Outstanding) = Hold(reservations, q, Outstanding),
         Hold(reservations', q, {"RESERVED"}) = Hold(reservations, q, {"RESERVED"}),
         \A i \in DOMAIN reservations : reservations'[i].bytes = reservations[i].bytes
  PROVE  PoolAccounts(X, pools', reservations', q)
<1> DEFINE out == Hold(reservations, q, Outstanding)
           held == Hold(reservations, q, {"RESERVED"})
<1>1. Sound(X, reservations, pools[q].reserved, pools[q].committed, out, held)
  BY PoolSound
<1>2. IsFiniteSet(out) /\ IsFiniteSet(held)
  <2>1. IsFiniteSet(out) /\ held \subseteq out
    BY <1>1 DEF Sound
  <2> QED
    BY <2>1, FS_Subset
<1>3. \A i \in out : i \in DOMAIN reservations
  BY DEF Hold
<1>4. \A i \in held : i \in DOMAIN reservations
  BY DEF Hold
<1> HIDE DEF out, held
<1>5. Bytes(reservations', out) = Bytes(reservations, out)
  BY <1>2, <1>3, BytesSame
<1>6. Bytes(reservations', held) = Bytes(reservations, held)
  BY <1>2, <1>4, BytesSame
<1> QED
  BY <1>1, <1>5, <1>6 DEF Sound, Accounts, PoolAccounts, out, held

\* Storing other counters of use in one pool.
LEMMA StoreUse ==
  ASSUME TypeInv, NEW p \in DOMAIN pools, NEW r \in Nat, NEW c \in Nat,
         StorePool(p, PoolUse(p, r, c))
  PROVE  /\ DOMAIN pools' = DOMAIN pools
         /\ pools'[p].reserved = r /\ pools'[p].committed = c
         /\ pools'[p].members = pools[p].members /\ pools'[p].draining = pools[p].draining
         /\ pools'[p].total = pools[p].total /\ pools'[p].unavailable = pools[p].unavailable
         /\ \A q \in DOMAIN pools : q # p => pools'[q] = pools[q]
<1> DEFINE rec == PoolUse(p, r, c)
<1>1. /\ rec.reserved = r /\ rec.committed = c /\ rec.members = pools[p].members
      /\ rec.draining = pools[p].draining
      /\ rec.total = pools[p].total /\ rec.unavailable = pools[p].unavailable
  BY PoolUseType DEF TypeInv, TypeOK, PoolsOK
<1>2. pools' = Put(pools, p, rec)
  BY DEF StorePool
<1> HIDE DEF rec
<1> QED
  BY <1>1, <1>2 DEF Put

\* reserve() keeps the accounts of every pool.
LEMMA PoolReserve ==
  ASSUME NEW X, Slack(X), TypeInv, PoolInv(X), NEW req \in Requests, NEW ctx \in Context, reserve(req, ctx)
  PROVE  PoolInv(X)'
<1>1. PICK res \in Reservation : Reserved(res)
  BY ReserveFacts
<1> DEFINE p == res.pool
           e == sequence + 1
<1>2. /\ p \in DOMAIN pools /\ res.state = "RESERVED" /\ res.bytes \in Nat
      /\ pools[p].reserved \in Nat /\ pools[p].committed \in Nat
      /\ StorePool(p, PoolUse(p, pools[p].reserved + res.bytes, pools[p].committed))
  BY <1>1, CounterTypes DEF Reserved
<1>3. /\ DOMAIN pools' = DOMAIN pools
      /\ pools'[p].reserved = pools[p].reserved + res.bytes
      /\ pools'[p].committed = pools[p].committed
      /\ \A q \in DOMAIN pools : q # p => pools'[q] = pools[q]
  <2> DEFINE r == pools[p].reserved + res.bytes
             c == pools[p].committed
  <2>1. r \in Nat /\ c \in Nat
    BY <1>2
  <2>2. p \in DOMAIN pools /\ StorePool(p, PoolUse(p, r, c))
    BY <1>2
  <2> HIDE DEF p, r, c
  <2>3. /\ DOMAIN pools' = DOMAIN pools /\ pools'[p].reserved = r /\ pools'[p].committed = c
        /\ \A q \in DOMAIN pools : q # p => pools'[q] = pools[q]
    BY <2>1, <2>2, StoreUse
  <2> QED
    BY <2>3 DEF r, c
<1>4. /\ DOMAIN reservations' = DOMAIN reservations \cup {e} /\ e \notin DOMAIN reservations
      /\ reservations'[e] = res
      /\ \A i \in DOMAIN reservations : reservations'[i] = reservations[i]
  <2>1. reservations' = Put(reservations, e, res) /\ e \notin DOMAIN reservations
    BY <1>1 DEF Reserved, TypeInv, TypeOK
  <2> QED
    BY <2>1 DEF Put
<1> HIDE DEF e
<1>5. /\ Hold(reservations', p, Outstanding) = Hold(reservations, p, Outstanding) \cup {e}
      /\ Hold(reservations', p, {"RESERVED"}) = Hold(reservations, p, {"RESERVED"}) \cup {e}
  BY <1>2, <1>4 DEF Hold, Outstanding
<1>6. ASSUME NEW q \in DOMAIN pools, q # p PROVE PoolAccounts(X, pools', reservations', q)
  <2>1. /\ Hold(reservations', q, Outstanding) = Hold(reservations, q, Outstanding)
        /\ Hold(reservations', q, {"RESERVED"}) = Hold(reservations, q, {"RESERVED"})
    BY <1>4, <1>6 DEF Hold
  <2> QED
    BY <1>3, <1>4, <1>6, <2>1, PoolAccountsOther
<1>7. PoolAccounts(X, pools', reservations', p)
  <2> DEFINE out == Hold(reservations, p, Outstanding)
             held == Hold(reservations, p, {"RESERVED"})
  <2>1. Sound(X, reservations, pools[p].reserved, pools[p].committed, out, held)
    BY <1>2, PoolSound
  <2>2. e \notin out /\ \A i \in out : reservations'[i].bytes = reservations[i].bytes
    BY <1>4 DEF Hold
  <2>3. reservations'[e].bytes \in Nat
    BY <1>2, <1>4
  <2> HIDE DEF out, held, p
  <2>4. Accounts(X, reservations', pools[p].reserved + reservations'[e].bytes, pools[p].committed,
                 out \cup {e}, held \cup {e})
    BY <2>1, <2>2, <2>3, AccountsReserve
  <2> QED
    BY <1>3, <1>4, <1>5, <2>4 DEF PoolAccounts, out, held
<1> QED
  BY <1>3, <1>6, <1>7 DEF PoolInv

\* commit() keeps them.
LEMMA PoolCommit ==
  ASSUME NEW X, Slack(X), TypeInv, PoolInv(X), NEW id \in DOMAIN reservations, NEW ctx \in Context, commit(id, ctx)
  PROVE  PoolInv(X)'
<1> DEFINE res == reservations[id]
           p == res.pool
           r == pools[p].reserved - res.bytes
           c == pools[p].committed + res.bytes
<1>1. /\ res \in Reservation /\ res.state = "RESERVED" /\ p \in DOMAIN pools
      /\ res.bytes <= pools[p].reserved /\ StorePool(p, PoolUse(p, r, c))
      /\ reservations' = [reservations EXCEPT ![id] = [res EXCEPT !.state = "COMMITTED"]]
      /\ UNCHANGED <<sequence, devices>>
  BY CommitFacts
<1>2. r \in Nat /\ c \in Nat
  BY <1>1, CounterTypes
<1>3. /\ DOMAIN pools' = DOMAIN pools /\ pools'[p].reserved = r /\ pools'[p].committed = c
      /\ \A q \in DOMAIN pools : q # p => pools'[q] = pools[q]
  <2> HIDE DEF r, c, p
  <2> QED
    BY <1>1, <1>2, StoreUse
<1>4. AdmissionFrame /\ "COMMITTED" \in ResumeState
  BY AdmissionFacts DEF AdmissionStep, ResumeState
<1>5. /\ DOMAIN reservations' = DOMAIN reservations /\ reservations'[id].state = "COMMITTED"
      /\ \A i \in DOMAIN reservations : /\ reservations'[i].bytes = reservations[i].bytes
                                        /\ reservations'[i].pool = reservations[i].pool
                                        /\ i # id => reservations'[i] = reservations[i]
  BY <1>1, <1>4, MoveFacts DEF AdmissionFrame
<1> DEFINE out == Hold(reservations, p, Outstanding)
           held == Hold(reservations, p, {"RESERVED"})
<1>6. /\ Hold(reservations', p, Outstanding) = out
      /\ Hold(reservations', p, {"RESERVED"}) = held \ {id}
      /\ id \in held
  BY <1>1, <1>5 DEF Hold, Outstanding
<1>7. ASSUME NEW q \in DOMAIN pools, q # p PROVE PoolAccounts(X, pools', reservations', q)
  <2>1. /\ Hold(reservations', q, Outstanding) = Hold(reservations, q, Outstanding)
        /\ Hold(reservations', q, {"RESERVED"}) = Hold(reservations, q, {"RESERVED"})
    BY <1>5, <1>7 DEF Hold
  <2> QED
    BY <1>3, <1>5, <1>7, <2>1, PoolAccountsOther
<1>8. PoolAccounts(X, pools', reservations', p)
  <2>1. Sound(X, reservations, pools[p].reserved, pools[p].committed, out, held)
    BY <1>1, PoolSound
  <2>2. \A i \in out : reservations'[i].bytes = reservations[i].bytes
    BY <1>5 DEF Hold
  <2> HIDE DEF out, held
  <2>3. Accounts(X, reservations', r, c, out, held \ {id})
    BY <1>6, <2>1, <2>2, AccountsCommit
  <2> QED
    BY <1>3, <1>6, <2>3 DEF PoolAccounts
<1> QED
  BY <1>3, <1>7, <1>8 DEF PoolInv

\* release() never ends half-way: what it takes from the pool is always there.
LEMMA ReleaseIsWhole ==
  ASSUME NEW X, Slack(X), TypeInv, PoolInv(X), NEW id \in DOMAIN reservations, NEW ctx \in Context, release(id, ctx)
  PROVE  LET res == reservations[id]
             p == res.pool
             r == pools[p].reserved - Clamp(res.bytes - pools[p].committed)
             c == Clamp(pools[p].committed - res.bytes)
         IN  /\ res \in Reservation /\ res.state \in Outstanding /\ p \in DOMAIN pools
             /\ r \in Nat /\ c \in Nat /\ StorePool(p, PoolUse(p, r, c))
             /\ res.region \in DOMAIN regions
             /\ regions' = [regions EXCEPT ![res.region] =
                              RegionUse(res.region, LeftReserved(regions[res.region], res.bytes),
                                        LeftCommitted(regions[res.region], res.bytes))]
             /\ reservations' = [reservations EXCEPT ![id] = [res EXCEPT !.state = "RELEASED"]]
             /\ UNCHANGED <<sequence, devices>>
<1> DEFINE res == reservations[id]
           p == res.pool
           r == LeftReserved(pools[p], res.bytes)
           c == LeftCommitted(pools[p], res.bytes)
           newRegions == [regions EXCEPT ![res.region] =
                            RegionUse(res.region, LeftReserved(regions[res.region], res.bytes),
                                      LeftCommitted(regions[res.region], res.bytes))]
           out == Hold(reservations, p, Outstanding)
           held == Hold(reservations, p, {"RESERVED"})
<1>1. /\ res \in Reservation /\ res.state \in {"RESERVED", "COMMITTED"} /\ p \in DOMAIN pools
      /\ res.region \in DOMAIN regions /\ UNCHANGED <<sequence, devices>>
      /\ \/ /\ StorePool(p, PoolUse(p, r, c))
            /\ regions' = newRegions
            /\ reservations' = [reservations EXCEPT ![id] = [res EXCEPT !.state = "RELEASED"]]
         \/ Rest(pools[p], res.bytes) > pools[p].reserved
  BY ReleaseFacts
<1>2. /\ pools[p].reserved \in Nat /\ pools[p].committed \in Nat /\ res.bytes \in Nat
      /\ r \in Nat /\ c \in Nat
  BY <1>1, CounterTypes, CounterArithmetic
<1>3. id \in out
  BY <1>1 DEF Hold, Outstanding
<1>4. Sound(X, reservations, pools[p].reserved, pools[p].committed, out, held)
  BY <1>1, PoolSound
<1>5. Clamp(res.bytes - pools[p].committed) <= pools[p].reserved
  <2>1. X \in SUBSET Nat
    BY DEF Slack
  <2> HIDE DEF out, held
  <2> QED
    BY <1>3, <1>4, <2>1, AccountsRelease
<1>6. /\ r = pools[p].reserved - Clamp(res.bytes - pools[p].committed)
      /\ c = Clamp(pools[p].committed - res.bytes)
      /\ ~(Rest(pools[p], res.bytes) > pools[p].reserved)
  BY <1>2, <1>5, GiveBackArithmetic
<1> HIDE DEF r, c
<1> QED
  BY <1>1, <1>2, <1>6 DEF Outstanding

\* release() keeps them.
LEMMA PoolRelease ==
  ASSUME NEW X, Slack(X), TypeInv, PoolInv(X), NEW id \in DOMAIN reservations, NEW ctx \in Context, release(id, ctx)
  PROVE  PoolInv(X)'
<1> DEFINE res == reservations[id]
           p == res.pool
           r == pools[p].reserved - Clamp(res.bytes - pools[p].committed)
           c == Clamp(pools[p].committed - res.bytes)
           out == Hold(reservations, p, Outstanding)
           held == Hold(reservations, p, {"RESERVED"})
<1>1. /\ res \in Reservation /\ res.state \in Outstanding /\ p \in DOMAIN pools
      /\ r \in Nat /\ c \in Nat /\ StorePool(p, PoolUse(p, r, c))
      /\ reservations' = [reservations EXCEPT ![id] = [res EXCEPT !.state = "RELEASED"]]
      /\ UNCHANGED <<sequence, devices>>
  BY ReleaseIsWhole
<1>2. id \in out
  BY <1>1 DEF Hold
<1>3. Sound(X, reservations, pools[p].reserved, pools[p].committed, out, held)
  BY <1>1, PoolSound
<1>4. /\ DOMAIN pools' = DOMAIN pools /\ pools'[p].reserved = r /\ pools'[p].committed = c
      /\ \A q \in DOMAIN pools : q # p => pools'[q] = pools[q]
  <2> HIDE DEF r, c, p
  <2> QED
    BY <1>1, StoreUse
<1>5. AdmissionFrame /\ "RELEASED" \in ResumeState
  BY AdmissionFacts DEF AdmissionStep, ResumeState
<1>6. /\ DOMAIN reservations' = DOMAIN reservations /\ reservations'[id].state = "RELEASED"
       /\ \A i \in DOMAIN reservations : /\ reservations'[i].bytes = reservations[i].bytes
                                         /\ reservations'[i].pool = reservations[i].pool
                                         /\ i # id => reservations'[i] = reservations[i]
  BY <1>1, <1>5, MoveFacts DEF AdmissionFrame
<1>7. /\ Hold(reservations', p, Outstanding) = out \ {id}
       /\ Hold(reservations', p, {"RESERVED"}) = held \ {id}
  BY <1>6 DEF Hold, Outstanding
<1>8. ASSUME NEW q \in DOMAIN pools, q # p PROVE PoolAccounts(X, pools', reservations', q)
  <2>1. /\ Hold(reservations', q, Outstanding) = Hold(reservations, q, Outstanding)
        /\ Hold(reservations', q, {"RESERVED"}) = Hold(reservations, q, {"RESERVED"})
    BY <1>6, <1>8 DEF Hold
  <2> QED
    BY <1>4, <1>6, <1>8, <2>1, PoolAccountsOther
<1>9. PoolAccounts(X, pools', reservations', p)
  <2>1. \A i \in out : reservations'[i].bytes = reservations[i].bytes
    BY <1>6 DEF Hold
  <2>2. X \in SUBSET Nat
    BY DEF Slack
  <2> DEFINE a == pools[p].reserved
             b == pools[p].committed
  <2>3. Sound(X, reservations, a, b, out, held)
    BY <1>3
  <2> HIDE DEF out, held, a, b
  <2>4. Accounts(X, reservations', a - Clamp(reservations[id].bytes - b),
                 Clamp(b - reservations[id].bytes), out \ {id}, held \ {id})
    BY <1>2, <2>1, <2>2, <2>3, AccountsRelease
  <2>5. Accounts(X, reservations', r, c, out \ {id}, held \ {id})
    BY <2>4 DEF a, b
  <2> QED
    BY <1>4, <1>7, <2>5 DEF PoolAccounts
<1> QED
  BY <1>4, <1>8, <1>9 DEF PoolInv

\* Every step keeps the accounts of every pool.
LEMMA PoolInvNext ==
  ASSUME NEW X, Slack(X), TypeInv, PoolInv(X), [Next]_vars
  PROVE  PoolInv(X)'
<1>1. ASSUME UNCHANGED <<pools, reservations>> PROVE PoolInv(X)'
  BY <1>1, PoolAccountsFrame
<1>2. AuthorityStep => UNCHANGED <<pools, reservations>>
  BY DEF AuthorityStep, set_epoch, set_policy_generation, advance_evidence_generation, grants,
         records
<1>3. DeviceStep \/ RegionStep \/ OverwriteStep => UNCHANGED <<pools, reservations>>
  BY DeviceGenerations, RegionGenerations
<1>4. PoolStep \/ ShrinkStep => PoolInv(X)'
  BY PoolStepFacts, PoolAccountsFrame DEF grants
<1>5. AdmissionStep => PoolInv(X)'
  BY PoolReserve, PoolCommit, PoolRelease DEF AdmissionStep
<1>6. UNCHANGED vars => UNCHANGED <<pools, reservations>>
  BY DEF vars
<1> QED
  BY <1>1, <1>2, <1>3, <1>4, <1>5, <1>6 DEF Next, GrowNext

\* Before anything is reserved the accounts are empty.
LEMMA PoolInvInit ==
  ASSUME NEW X, Init
  PROVE  PoolInv(X)
<1>1. DOMAIN pools = {}
  BY DEF Init, EmptyMap
<1> QED
  BY <1>1 DEF PoolInv

\* Accounts say that the bytes in use cover the reservations, and what else they say.
LEMMA PoolInvSays ==
  ASSUME NEW X, Slack(X), TypeInv, PoolInv(X), NEW p \in DOMAIN pools
  PROVE  /\ BytesOf(HeldInPool(p, Outstanding)) <= pools[p].reserved + pools[p].committed
         /\ X = {0} => pools[p].reserved + pools[p].committed = BytesOf(HeldInPool(p, Outstanding))
         /\ BytesOf(HeldInPool(p, {"RESERVED"})) <= pools[p].reserved
<1> DEFINE out == Hold(reservations, p, Outstanding)
           held == Hold(reservations, p, {"RESERVED"})
           r == pools[p].reserved
           c == pools[p].committed
           b == Bytes(reservations, out)
<1>1. Sound(X, reservations, r, c, out, held)
  BY PoolSound
<1>2. BytesOf(HeldInPool(p, Outstanding)) = b /\ BytesOf(HeldInPool(p, {"RESERVED"})) = Bytes(reservations, held)
  BY DEF BytesOf, Bytes, HeldInPool, Hold
<1>3. /\ (r + c) - b \in X /\ Bytes(reservations, held) <= r /\ r \in Nat /\ c \in Nat
      /\ b \in Nat
  <2> HIDE DEF out, held
  <2> QED
    BY <1>1, BytesNat DEF Sound, Accounts
<1> HIDE DEF out, held, r, c, b
<1>4. (r + c) - b \in Nat /\ (X = {0} => (r + c) - b = 0)
  BY <1>3 DEF Slack
<1>5. b <= r + c /\ (X = {0} => r + c = b)
  BY <1>3, <1>4
<1> QED
  BY <1>2, <1>3, <1>5 DEF r, c

\* For any inputs and any interleaving, a pool's bytes in use are exactly those of its
\* outstanding reservations.
THEOREM PoolUseIsExact == Spec => []PoolUseExact
<1>0. Slack({0})
  BY DEF Slack
<1>1. Init => PoolInv({0})
  BY PoolInvInit
<1>2. TypeInv /\ PoolInv({0}) /\ [Next]_vars => PoolInv({0})'
  BY <1>0, PoolInvNext
<1>3. TypeInv /\ PoolInv({0}) => PoolUseExact
  BY <1>0, PoolInvSays DEF PoolUseExact
<1> QED
  BY <1>1, <1>2, <1>3, FabricTypeInv, PTL DEF Spec

\* And its reserved bytes always cover the reservations not yet committed, although
\* release() takes committed bytes first: no commit lacks the bytes it reserved.
THEOREM PoolReservedSuffices == Spec => []PoolReservedCovers
<1>0. Slack({0})
  BY DEF Slack
<1>1. Init => PoolInv({0})
  BY PoolInvInit
<1>2. TypeInv /\ PoolInv({0}) /\ [Next]_vars => PoolInv({0})'
  BY <1>0, PoolInvNext
<1>3. TypeInv /\ PoolInv({0}) => PoolReservedCovers
  BY <1>0, PoolInvSays DEF PoolReservedCovers
<1> QED
  BY <1>1, <1>2, <1>3, FabricTypeInv, PTL DEF Spec

----------------------------------------------------------------------------
(* The cached global ledger *)

\* The ledger depends on the counters of the pools that are not retired, and on
\* nothing else of them.
LEMMA LedgerSame ==
  ASSUME NEW ps, NEW new, DOMAIN new = DOMAIN ps,
         \A p \in DOMAIN ps : /\ new[p].state = "RETIRED" <=> ps[p].state = "RETIRED"
                              /\ new[p].total = ps[p].total
                              /\ new[p].unavailable = ps[p].unavailable
                              /\ new[p].reserved = ps[p].reserved
                              /\ new[p].committed = ps[p].committed
                              /\ new[p].draining = ps[p].draining
  PROVE  recompute_global(new) = recompute_global(ps)
<1> DEFINE live(x) == {p \in DOMAIN x : x[p].state # "RETIRED"}
<1>1. live(new) = live(ps)
  OBVIOUS
<1>2. \A p \in live(ps) : p \in DOMAIN ps
  OBVIOUS
<1>3. ASSUME NEW S, \A p \in S : p \in DOMAIN ps
      PROVE  /\ [p \in S |-> new[p].total] = [p \in S |-> ps[p].total]
             /\ [p \in S |-> new[p].unavailable] = [p \in S |-> ps[p].unavailable]
             /\ [p \in S |-> new[p].reserved] = [p \in S |-> ps[p].reserved]
             /\ [p \in S |-> new[p].committed] = [p \in S |-> ps[p].committed]
             /\ [p \in S |-> new[p].draining] = [p \in S |-> ps[p].draining]
  BY <1>3
<1> DEFINE Of(x, S) ==
             [total       |-> SumFunctionOnSet([p \in S |-> x[p].total], S),
              online      |-> SumFunctionOnSet([p \in S |-> x[p].total], S),
              unavailable |-> SumFunctionOnSet([p \in S |-> x[p].unavailable], S),
              reserved    |-> SumFunctionOnSet([p \in S |-> x[p].reserved], S),
              committed   |-> SumFunctionOnSet([p \in S |-> x[p].committed], S),
              draining    |-> SumFunctionOnSet([p \in S |-> x[p].draining], S)]
<1>4. recompute_global(new) = Of(new, live(new)) /\ recompute_global(ps) = Of(ps, live(ps))
  BY DEF recompute_global
<1>5. Of(new, live(ps)) = Of(ps, live(ps))
  <2> HIDE DEF live
  <2> QED
    BY <1>2, <1>3
<1> HIDE DEF Of, live
<1> QED
  BY <1>1, <1>4, <1>5

\* Draining a pool moves no bytes, and a retired pool is not drained.
LEMMA DrainingKeepsLedger ==
  ASSUME TypeInv, NEW p \in DOMAIN pools, NEW e \in Epochs, mark_pool_draining(p, e)
  PROVE  recompute_global(pools') = recompute_global(pools)
<1> DEFINE rec == [pools[p] EXCEPT !.state = "DRAINING"]
<1>1. /\ pools[p] \in CxlPool /\ pools[p].state # "RETIRED"
      /\ pools' = [pools EXCEPT ![p] = rec]
  BY DEF mark_pool_draining, valid_pool_transition, PoolSuccessors, TypeInv, TypeOK
<1>2. /\ rec.state = "DRAINING" /\ rec.total = pools[p].total
      /\ rec.unavailable = pools[p].unavailable /\ rec.reserved = pools[p].reserved
      /\ rec.committed = pools[p].committed /\ rec.draining = pools[p].draining
  BY <1>1 DEF CxlPool
<1> HIDE DEF rec
<1>3. \A q \in DOMAIN pools : /\ pools'[q].state = "RETIRED" <=> pools[q].state = "RETIRED"
                              /\ pools'[q].total = pools[q].total
                              /\ pools'[q].unavailable = pools[q].unavailable
                              /\ pools'[q].reserved = pools[q].reserved
                              /\ pools'[q].committed = pools[q].committed
                              /\ pools'[q].draining = pools[q].draining
  BY <1>1, <1>2
<1>4. DOMAIN pools' = DOMAIN pools
  BY <1>1
<1> QED
  BY <1>3, <1>4, LedgerSame

\* Every operation that moves bytes rebuilds the cached global ledger before it returns.
LEMMA LedgerNext ==
  ASSUME NEW X, Slack(X), TypeInv, PoolInv(X), LedgerCloses, [Next]_vars
  PROVE  LedgerCloses'
<1>1. ASSUME UNCHANGED <<pools, ledger>> PROVE LedgerCloses'
  BY <1>1 DEF LedgerCloses
<1>2. AuthorityStep => UNCHANGED <<pools, ledger>>
  BY DEF AuthorityStep, set_epoch, set_policy_generation, advance_evidence_generation, records
<1>3. DeviceStep => UNCHANGED <<pools, ledger>>
  BY DEF DeviceStep, register_device, mark_device_online, mark_device_revalidation, MarkDevice
<1>4. RegionStep \/ OverwriteStep => UNCHANGED <<pools, ledger>>
  BY DEF RegionStep, OverwriteStep, create_region, update_region, reconfigure_region,
         mark_region_draining, revalidate_region
<1>5. ASSUME NEW p, NEW rec, StorePool(p, rec) PROVE LedgerCloses'
  BY <1>5 DEF StorePool, LedgerCloses
<1>6. ASSUME NEW p \in DOMAIN pools, NEW e \in Epochs, mark_pool_draining(p, e)
      PROVE  LedgerCloses'
  BY <1>6, DrainingKeepsLedger DEF mark_pool_draining, LedgerCloses
<1>7. PoolStep \/ ShrinkStep => LedgerCloses'
  BY <1>5, <1>6 DEF PoolStep, ShrinkStep, create_pool, add_pool_member, remove_pool_member,
                    reconcile_pool, revalidate_pool
<1>8. AdmissionStep => LedgerCloses'
  <2>1. ASSUME NEW req \in Requests, NEW ctx \in Context, reserve(req, ctx) PROVE LedgerCloses'
    BY <1>5, <2>1, ReserveFacts DEF Reserved
  <2>2. ASSUME NEW id \in DOMAIN reservations, NEW ctx \in Context, commit(id, ctx)
        PROVE  LedgerCloses'
    BY <1>5, <2>2, CommitFacts
  <2>3. ASSUME NEW id \in DOMAIN reservations, NEW ctx \in Context, release(id, ctx)
        PROVE  LedgerCloses'
    BY <1>5, <2>3, ReleaseIsWhole
  <2> QED
    BY <2>1, <2>2, <2>3 DEF AdmissionStep
<1>9. UNCHANGED vars => UNCHANGED <<pools, ledger>>
  BY DEF vars
<1> QED
  BY <1>1, <1>2, <1>3, <1>4, <1>7, <1>8, <1>9 DEF Next, GrowNext

\* Every operation that moves bytes rebuilds the cached global ledger before it returns,
\* and the one early return of release() that would leave it behind is never taken.
THEOREM LedgerAlwaysCloses == Spec => []LedgerCloses
<1>0. Slack({0})
  BY DEF Slack
<1>1. Init => PoolInv({0}) /\ LedgerCloses
  BY PoolInvInit DEF Init, LedgerCloses
<1>2. TypeInv /\ PoolInv({0}) /\ LedgerCloses /\ [Next]_vars => LedgerCloses'
  BY <1>0, LedgerNext
<1>3. TypeInv /\ PoolInv({0}) /\ [Next]_vars => PoolInv({0})'
  BY <1>0, PoolInvNext
<1> QED
  BY <1>1, <1>2, <1>3, FabricTypeInv, PTL DEF Spec

----------------------------------------------------------------------------
(* The counters of a region *)

HoldIn(rs, g, states) == {i \in DOMAIN rs : rs[i].region = g /\ rs[i].state \in states}

\* The counters of region g account for the reservations that name it.
RegionAccounts(gs, rs, g) ==
  Accounts({0}, rs, gs[g].reserved, gs[g].committed, HoldIn(rs, g, Outstanding),
           HoldIn(rs, g, {"RESERVED"}))

\* They do for every region, and are within what it can hold.
RegionInv ==
  \A g \in DOMAIN regions :
    /\ RegionAccounts(regions, reservations, g)
    /\ regions[g].reserved + regions[g].committed <= regions[g].capacity

\* In a reachable state the sets and counters of a region are as the lemmas on
\* Accounts require.
LEMMA RegionSound ==
  ASSUME TypeInv, RegionInv, NEW g \in DOMAIN regions
  PROVE  Sound({0}, reservations, regions[g].reserved, regions[g].committed,
               HoldIn(reservations, g, Outstanding), HoldIn(reservations, g, {"RESERVED"}))
<1>1. IsFiniteSet(DOMAIN reservations)
  <2>1. DOMAIN reservations = 1..sequence /\ sequence \in Nat
    BY DEF TypeInv, TypeOK
  <2> QED
    BY <2>1, FS_Interval
<1>2. IsFiniteSet(HoldIn(reservations, g, Outstanding))
  <2>1. HoldIn(reservations, g, Outstanding) \subseteq DOMAIN reservations
    BY DEF HoldIn
  <2> QED
    BY <1>1, <2>1, FS_Subset
<1>3. HoldIn(reservations, g, {"RESERVED"}) \subseteq HoldIn(reservations, g, Outstanding)
  BY DEF HoldIn, Outstanding
<1>4. \A i \in DOMAIN reservations : reservations[i].bytes \in Nat
  BY CounterTypes DEF TypeInv, TypeOK
<1>5. regions[g].reserved \in Nat /\ regions[g].committed \in Nat
  BY CounterTypes
<1>6. RegionAccounts(regions, reservations, g)
  BY DEF RegionInv
<1> QED
  BY <1>2, <1>3, <1>4, <1>5, <1>6 DEF Sound, RegionAccounts, HoldIn

\* The operations on regions keep the use and the capacity of every region and create
\* regions without use.
LEMMA RegionStepUse ==
  ASSUME TypeInv, RegionStep
  PROVE  /\ \A g \in DOMAIN regions : /\ regions'[g].reserved = regions[g].reserved
                                      /\ regions'[g].committed = regions[g].committed
                                      /\ regions'[g].capacity = regions[g].capacity
         /\ \A g \in DOMAIN regions' \ DOMAIN regions :
              /\ regions'[g].reserved = 0 /\ regions'[g].committed = 0
              /\ regions'[g].capacity \in Nat
<1> DEFINE Goal == /\ \A g \in DOMAIN regions : /\ regions'[g].reserved = regions[g].reserved
                                                /\ regions'[g].committed = regions[g].committed
                                                /\ regions'[g].capacity = regions[g].capacity
                   /\ \A g \in DOMAIN regions' \ DOMAIN regions :
                        /\ regions'[g].reserved = 0 /\ regions'[g].committed = 0
                        /\ regions'[g].capacity \in Nat
<1>0. \A g \in DOMAIN regions : regions[g] \in CxlRegion
  BY DEF TypeInv, TypeOK
<1>1. ASSUME NEW r \in DOMAIN regions, NEW rec, regions' = [regions EXCEPT ![r] = rec],
             rec.reserved = regions[r].reserved, rec.committed = regions[r].committed,
             rec.capacity = regions[r].capacity
      PROVE  Goal
  BY <1>1
<1>2. ASSUME NEW reg \in RegionInputs, NEW e \in Epochs, create_region(reg, e) PROVE Goal
  <2>1. regions' = Put(regions, reg.id, reg) /\ reg.id \notin DOMAIN regions
    BY <1>2 DEF create_region, create_region_reason
  <2>2. reg.reserved = 0 /\ reg.committed = 0 /\ reg.capacity \in Nat
    BY InputAssumption, MaxBytesAssumption DEF CxlRegion, ByteCount
  <2> QED
    BY <2>1, <2>2 DEF Put
<1>3. ASSUME NEW r \in DOMAIN regions, NEW ms \in MemberLists, NEW e \in Epochs,
             reconfigure_region(r, ms, e)
      PROVE  Goal
  <2> DEFINE rec == [regions[r] EXCEPT !.generation = NextGen(regions[r].generation),
                                       !.member_devices = ms, !.state = "RECONFIGURING",
                                       !.evidence_current = FALSE]
  <2>1. regions' = [regions EXCEPT ![r] = rec]
    BY <1>3 DEF reconfigure_region
  <2>2. /\ rec.reserved = regions[r].reserved /\ rec.committed = regions[r].committed
        /\ rec.capacity = regions[r].capacity
    BY <1>0 DEF CxlRegion
  <2> HIDE DEF rec
  <2> QED
    BY <1>1, <2>1, <2>2
<1>4. ASSUME NEW r \in DOMAIN regions, NEW e \in Epochs, mark_region_draining(r, e) PROVE Goal
  <2> DEFINE rec == [regions[r] EXCEPT !.state = "DRAINING"]
  <2>1. regions' = [regions EXCEPT ![r] = rec]
    BY <1>4 DEF mark_region_draining
  <2>2. /\ rec.reserved = regions[r].reserved /\ rec.committed = regions[r].committed
        /\ rec.capacity = regions[r].capacity
    BY <1>0 DEF CxlRegion
  <2> HIDE DEF rec
  <2> QED
    BY <1>1, <2>1, <2>2
<1>5. ASSUME NEW r \in DOMAIN regions, NEW e \in Epochs, revalidate_region(r, e) PROVE Goal
  <2> DEFINE rec == [regions[r] EXCEPT !.state = "ONLINE", !.evidence_current = TRUE,
                                       !.health = "HEALTHY"]
  <2>1. regions' = [regions EXCEPT ![r] = rec]
    BY <1>5 DEF revalidate_region
  <2>2. /\ rec.reserved = regions[r].reserved /\ rec.committed = regions[r].committed
        /\ rec.capacity = regions[r].capacity
    BY <1>0 DEF CxlRegion
  <2> HIDE DEF rec
  <2> QED
    BY <1>1, <2>1, <2>2
<1>6. Goal
  BY <1>2, <1>3, <1>4, <1>5 DEF RegionStep
<1> QED
  BY <1>6

\* A step that leaves the reservations and the use of every region alone, and creates
\* regions without use.
LEMMA RegionAccountsFrame ==
  ASSUME TypeInv, RegionInv, reservations' = reservations,
         \A g \in DOMAIN regions : /\ regions'[g].reserved = regions[g].reserved
                                   /\ regions'[g].committed = regions[g].committed
                                   /\ regions'[g].capacity = regions[g].capacity,
         \A g \in DOMAIN regions' \ DOMAIN regions :
           /\ regions'[g].reserved = 0 /\ regions'[g].committed = 0
           /\ regions'[g].capacity \in Nat
  PROVE  RegionInv'
<1>1. SUFFICES ASSUME NEW g \in DOMAIN regions'
               PROVE  /\ RegionAccounts(regions', reservations', g)
                      /\ regions'[g].reserved + regions'[g].committed <= regions'[g].capacity
  BY DEF RegionInv
<1>2. CASE g \in DOMAIN regions
  <2>1. /\ RegionAccounts(regions, reservations, g)
        /\ regions[g].reserved + regions[g].committed <= regions[g].capacity
    BY <1>2 DEF RegionInv
  <2> QED
    BY <1>2, <2>1 DEF RegionAccounts
<1>3. CASE g \notin DOMAIN regions
  <2>1. \A i \in DOMAIN reservations : reservations[i].region # g
    BY <1>3 DEF TypeInv, Refs
  <2>2. HoldIn(reservations, g, Outstanding) = {} /\ HoldIn(reservations, g, {"RESERVED"}) = {}
    BY <2>1 DEF HoldIn
  <2>3. Bytes(reservations, {}) = 0
    BY SumEmpty DEF Bytes
  <2>4. /\ regions'[g].reserved = 0 /\ regions'[g].committed = 0 /\ regions'[g].capacity \in Nat
    BY <1>1, <1>3
  <2>5. Accounts({0}, reservations, 0, 0, {}, {})
    BY <2>3 DEF Accounts
  <2>6. RegionAccounts(regions', reservations', g)
    BY <2>2, <2>4, <2>5 DEF RegionAccounts
  <2> QED
    BY <2>4, <2>6
<1> QED
  BY <1>2, <1>3

\* A region whose counters and reservations a step leaves alone.
LEMMA RegionAccountsOther ==
  ASSUME TypeInv, RegionInv, NEW g \in DOMAIN regions, regions'[g] = regions[g],
         HoldIn(reservations', g, Outstanding) = HoldIn(reservations, g, Outstanding),
         HoldIn(reservations', g, {"RESERVED"}) = HoldIn(reservations, g, {"RESERVED"}),
         \A i \in DOMAIN reservations : reservations'[i].bytes = reservations[i].bytes
  PROVE  /\ RegionAccounts(regions', reservations', g)
         /\ regions'[g].reserved + regions'[g].committed <= regions'[g].capacity
<1> DEFINE out == HoldIn(reservations, g, Outstanding)
           held == HoldIn(reservations, g, {"RESERVED"})
<1>1. Sound({0}, reservations, regions[g].reserved, regions[g].committed, out, held)
  BY RegionSound
<1>2. IsFiniteSet(out) /\ IsFiniteSet(held)
  <2>1. IsFiniteSet(out) /\ held \subseteq out
    BY <1>1 DEF Sound
  <2> QED
    BY <2>1, FS_Subset
<1>3. \A i \in out : i \in DOMAIN reservations
  BY DEF HoldIn
<1>4. \A i \in held : i \in DOMAIN reservations
  BY DEF HoldIn
<1> HIDE DEF out, held
<1>5. Bytes(reservations', out) = Bytes(reservations, out)
  BY <1>2, <1>3, BytesSame
<1>6. Bytes(reservations', held) = Bytes(reservations, held)
  BY <1>2, <1>4, BytesSame
<1>7. regions[g].reserved + regions[g].committed <= regions[g].capacity
  BY DEF RegionInv
<1> QED
  BY <1>1, <1>5, <1>6, <1>7 DEF Sound, Accounts, RegionAccounts, out, held

StoreRegion(g, rec) == regions' = [regions EXCEPT ![g] = rec]

\* Storing other counters of use in one region.
LEMMA StoreRegionUse ==
  ASSUME TypeInv, NEW g \in DOMAIN regions, NEW r \in ByteCount, NEW c \in ByteCount,
         StoreRegion(g, RegionUse(g, r, c))
  PROVE  /\ DOMAIN regions' = DOMAIN regions
         /\ regions'[g].reserved = r /\ regions'[g].committed = c
         /\ regions'[g].capacity = regions[g].capacity
         /\ \A h \in DOMAIN regions : h # g => regions'[h] = regions[h]
<1> DEFINE rec == RegionUse(g, r, c)
<1>0. RegionsOK
  BY DEF TypeInv, TypeOK, RegionsOK
<1>1. rec.reserved = r /\ rec.committed = c /\ rec.capacity = regions[g].capacity
  BY <1>0, RegionUseType
<1> HIDE DEF rec
<1>2. regions' = [regions EXCEPT ![g] = rec]
  BY DEF rec, StoreRegion
<1> QED
  BY <1>1, <1>2

\* The counters of a region and what it can hold fit in 64 bits.
LEMMA RegionTerms ==
  ASSUME TypeInv, RegionInv, NEW g \in DOMAIN regions
  PROVE  /\ regions[g].reserved \in Nat /\ regions[g].committed \in Nat
         /\ regions[g].capacity \in Nat /\ regions[g].capacity <= MaxBytes
         /\ regions[g].reserved + regions[g].committed <= regions[g].capacity
<1>1. regions[g] \in CxlRegion
  BY DEF TypeInv, TypeOK
<1>2. /\ regions[g].reserved \in ByteCount /\ regions[g].committed \in ByteCount
      /\ regions[g].capacity \in ByteCount
  BY <1>1 DEF CxlRegion
<1>3. regions[g].reserved + regions[g].committed <= regions[g].capacity
  BY DEF RegionInv
<1> QED
  BY <1>2, <1>3, MaxBytesAssumption DEF ByteCount

\* reserve() keeps the accounts of every region: region_free() leaves room for what it adds.
LEMMA RegionReserve ==
  ASSUME TypeInv, RegionInv, NEW req \in Requests, NEW ctx \in Context, reserve(req, ctx)
  PROVE  RegionInv'
<1>1. PICK res \in Reservation : Reserved(res)
  BY ReserveFacts
<1> DEFINE g == res.region
           e == sequence + 1
           r == regions[g].reserved + res.bytes
           c == regions[g].committed
<1>2. /\ g \in DOMAIN regions /\ res.state = "RESERVED" /\ res.bytes \in Nat /\ res.bytes # 0
      /\ res.bytes <= region_free(regions[g])
      /\ regions' = [regions EXCEPT ![g] = RegionUse(g, Wrap(regions[g].reserved + res.bytes),
                                                     regions[g].committed)]
  BY <1>1, CounterTypes DEF Reserved, Reservation
<1>3. /\ regions[g].reserved \in Nat /\ regions[g].committed \in Nat
      /\ regions[g].capacity \in Nat /\ regions[g].capacity <= MaxBytes
      /\ regions[g].reserved + regions[g].committed <= regions[g].capacity
  <2> HIDE DEF g
  <2> QED
    BY <1>2, RegionTerms
<1>4. r + c <= regions[g].capacity /\ Wrap(r) = r /\ r \in ByteCount /\ c \in ByteCount
  <2> DEFINE a == regions[g].reserved
             z == regions[g].capacity
  <2>1. /\ a \in Nat /\ c \in Nat /\ z \in Nat /\ z <= MaxBytes /\ a + c <= z
        /\ res.bytes \in Nat /\ res.bytes # 0 /\ res.bytes <= Clamp(z - Wrap(a + c))
        /\ r = a + res.bytes
    BY <1>2, <1>3 DEF region_free
  <2> HIDE DEF a, c, z, r
  <2>2. Wrap(a + c) = a + c
    BY <2>1, MaxBytesAssumption DEF Wrap
  <2>3. r + c <= z /\ r \in Nat /\ r <= MaxBytes /\ c <= MaxBytes
    BY <2>1, <2>2, MaxBytesAssumption DEF Clamp
  <2>4. Wrap(r) = r /\ r \in ByteCount /\ c \in ByteCount
    BY <2>1, <2>3, MaxBytesAssumption DEF Wrap, ByteCount
  <2> QED
    BY <2>3, <2>4 DEF z
<1>5. /\ DOMAIN regions' = DOMAIN regions
      /\ regions'[g].reserved = r /\ regions'[g].committed = c
      /\ regions'[g].capacity = regions[g].capacity
      /\ \A h \in DOMAIN regions : h # g => regions'[h] = regions[h]
  <2>1. StoreRegion(g, RegionUse(g, r, c)) /\ g \in DOMAIN regions
    BY <1>2, <1>4 DEF StoreRegion
  <2>2. r \in ByteCount /\ c \in ByteCount
    BY <1>4
  <2> HIDE DEF g, r, c
  <2> QED
    BY <2>1, <2>2, StoreRegionUse
<1>6. /\ DOMAIN reservations' = DOMAIN reservations \cup {e} /\ e \notin DOMAIN reservations
      /\ reservations'[e] = res
      /\ \A i \in DOMAIN reservations : reservations'[i] = reservations[i]
  <2>1. reservations' = Put(reservations, e, res)
    BY <1>1 DEF Reserved
  <2>2. sequence \in Nat /\ DOMAIN reservations = 1..sequence
    BY DEF TypeInv, TypeOK
  <2>3. e \notin DOMAIN reservations
    BY <2>2
  <2> QED
    BY <2>1, <2>3 DEF Put
<1> HIDE DEF e
<1>7. /\ HoldIn(reservations', g, Outstanding) = HoldIn(reservations, g, Outstanding) \cup {e}
      /\ HoldIn(reservations', g, {"RESERVED"}) = HoldIn(reservations, g, {"RESERVED"}) \cup {e}
  BY <1>2, <1>6 DEF HoldIn, Outstanding
<1>8. ASSUME NEW h \in DOMAIN regions, h # g
      PROVE  /\ RegionAccounts(regions', reservations', h)
             /\ regions'[h].reserved + regions'[h].committed <= regions'[h].capacity
  <2>1. /\ HoldIn(reservations', h, Outstanding) = HoldIn(reservations, h, Outstanding)
        /\ HoldIn(reservations', h, {"RESERVED"}) = HoldIn(reservations, h, {"RESERVED"})
    BY <1>6, <1>8 DEF HoldIn
  <2> QED
    BY <1>5, <1>6, <1>8, <2>1, RegionAccountsOther
<1>9. RegionAccounts(regions', reservations', g)
  <2> DEFINE out == HoldIn(reservations, g, Outstanding)
             held == HoldIn(reservations, g, {"RESERVED"})
  <2>1. Sound({0}, reservations, regions[g].reserved, regions[g].committed, out, held)
    BY <1>2, RegionSound
  <2>2. e \notin out /\ \A i \in out : reservations'[i].bytes = reservations[i].bytes
    BY <1>6 DEF HoldIn
  <2>3. reservations'[e].bytes \in Nat
    BY <1>2, <1>6
  <2> HIDE DEF out, held, g
  <2>4. Accounts({0}, reservations', regions[g].reserved + reservations'[e].bytes,
                 regions[g].committed, out \cup {e}, held \cup {e})
    BY <2>1, <2>2, <2>3, AccountsReserve
  <2> QED
    BY <1>5, <1>6, <1>7, <2>4 DEF RegionAccounts, out, held
<1> QED
  BY <1>4, <1>5, <1>8, <1>9 DEF RegionInv

\* commit() keeps them: the reserved bytes it subtracts, unchecked, are there.
LEMMA RegionCommit ==
  ASSUME TypeInv, RegionInv, NEW id \in DOMAIN reservations, NEW ctx \in Context, commit(id, ctx)
  PROVE  RegionInv'
<1> DEFINE res == reservations[id]
           g == res.region
           r == regions[g].reserved - res.bytes
           c == regions[g].committed + res.bytes
           out == HoldIn(reservations, g, Outstanding)
           held == HoldIn(reservations, g, {"RESERVED"})
<1>1. /\ res \in Reservation /\ res.state = "RESERVED" /\ g \in DOMAIN regions
      /\ regions' = [regions EXCEPT ![g] = RegionUse(g, Wrap(r), Wrap(c))]
      /\ reservations' = [reservations EXCEPT ![id] = [res EXCEPT !.state = "COMMITTED"]]
      /\ UNCHANGED <<sequence, devices>>
  BY CommitFacts
<1>2. AdmissionFrame /\ "COMMITTED" \in ResumeState
  BY AdmissionFacts DEF AdmissionStep, ResumeState
<1>3. /\ DOMAIN reservations' = DOMAIN reservations /\ reservations'[id].state = "COMMITTED"
      /\ \A i \in DOMAIN reservations : /\ reservations'[i].bytes = reservations[i].bytes
                                        /\ reservations'[i].region = reservations[i].region
                                        /\ i # id => reservations'[i] = reservations[i]
  BY <1>1, <1>2, MoveFacts DEF AdmissionFrame
<1>4. /\ HoldIn(reservations', g, Outstanding) = out
      /\ HoldIn(reservations', g, {"RESERVED"}) = held \ {id}
      /\ id \in held
  BY <1>1, <1>3 DEF HoldIn, Outstanding
<1>5. res.bytes <= regions[g].reserved /\ Accounts({0}, reservations', r, c, out, held \ {id})
  <2>1. Sound({0}, reservations, regions[g].reserved, regions[g].committed, out, held)
    BY <1>1, RegionSound
  <2>2. \A i \in out : reservations'[i].bytes = reservations[i].bytes
    BY <1>3 DEF HoldIn
  <2> HIDE DEF out, held
  <2> QED
    BY <1>4, <2>1, <2>2, AccountsCommit
<1>6. /\ regions[g].reserved \in Nat /\ regions[g].committed \in Nat
      /\ regions[g].capacity \in Nat /\ regions[g].capacity <= MaxBytes
      /\ regions[g].reserved + regions[g].committed <= regions[g].capacity
      /\ res.bytes \in Nat
  <2>1. res.bytes \in Nat
    BY <1>1, CounterTypes
  <2> HIDE DEF g
  <2> QED
    BY <1>1, <2>1, RegionTerms
<1>7. /\ Wrap(r) = r /\ Wrap(c) = c /\ r \in ByteCount /\ c \in ByteCount
      /\ r + c <= regions[g].capacity
  <2> DEFINE a == regions[g].reserved
             b == regions[g].committed
             n == res.bytes
             z == regions[g].capacity
  <2>1. /\ a \in Nat /\ b \in Nat /\ n \in Nat /\ z \in Nat /\ z <= MaxBytes /\ a + b <= z
        /\ n <= a
    BY <1>5, <1>6
  <2> HIDE DEF a, b, n, z
  <2>2. /\ Wrap(a - n) = a - n /\ Wrap(b + n) = b + n
        /\ a - n \in ByteCount /\ b + n \in ByteCount /\ (a - n) + (b + n) <= z
    BY <2>1, MaxBytesAssumption DEF Wrap, ByteCount
  <2> QED
    BY <2>2 DEF a, b, n, z
<1>8. /\ DOMAIN regions' = DOMAIN regions
      /\ regions'[g].reserved = r /\ regions'[g].committed = c
      /\ regions'[g].capacity = regions[g].capacity
      /\ \A h \in DOMAIN regions : h # g => regions'[h] = regions[h]
  <2>1. StoreRegion(g, RegionUse(g, r, c)) /\ g \in DOMAIN regions
    BY <1>1, <1>7 DEF StoreRegion
  <2>2. r \in ByteCount /\ c \in ByteCount
    BY <1>7
  <2> HIDE DEF g, r, c
  <2> QED
    BY <2>1, <2>2, StoreRegionUse
<1>9. ASSUME NEW h \in DOMAIN regions, h # g
      PROVE  /\ RegionAccounts(regions', reservations', h)
             /\ regions'[h].reserved + regions'[h].committed <= regions'[h].capacity
  <2>1. /\ HoldIn(reservations', h, Outstanding) = HoldIn(reservations, h, Outstanding)
        /\ HoldIn(reservations', h, {"RESERVED"}) = HoldIn(reservations, h, {"RESERVED"})
    BY <1>3, <1>9 DEF HoldIn
  <2> QED
    BY <1>3, <1>8, <1>9, <2>1, RegionAccountsOther
<1>10. RegionAccounts(regions', reservations', g)
  <2> HIDE DEF out, held
  <2> QED
    BY <1>4, <1>5, <1>8 DEF RegionAccounts
<1> QED
  BY <1>7, <1>8, <1>9, <1>10 DEF RegionInv

\* release() keeps them: the bytes it gives back are there.
LEMMA RegionRelease ==
  ASSUME NEW X, Slack(X), TypeInv, PoolInv(X), RegionInv, NEW id \in DOMAIN reservations, NEW ctx \in Context,
         release(id, ctx)
  PROVE  RegionInv'
<1> DEFINE res == reservations[id]
           g == res.region
           r == LeftReserved(regions[g], res.bytes)
           c == LeftCommitted(regions[g], res.bytes)
           out == HoldIn(reservations, g, Outstanding)
           held == HoldIn(reservations, g, {"RESERVED"})
<1>1. /\ res \in Reservation /\ res.state \in Outstanding /\ g \in DOMAIN regions
      /\ regions' = [regions EXCEPT ![g] = RegionUse(g, r, c)]
      /\ reservations' = [reservations EXCEPT ![id] = [res EXCEPT !.state = "RELEASED"]]
      /\ UNCHANGED <<sequence, devices>>
  BY ReleaseIsWhole
<1>2. AdmissionFrame /\ "RELEASED" \in ResumeState
  BY AdmissionFacts DEF AdmissionStep, ResumeState
<1>3. /\ DOMAIN reservations' = DOMAIN reservations /\ reservations'[id].state = "RELEASED"
      /\ \A i \in DOMAIN reservations : /\ reservations'[i].bytes = reservations[i].bytes
                                        /\ reservations'[i].region = reservations[i].region
                                        /\ i # id => reservations'[i] = reservations[i]
  BY <1>1, <1>2, MoveFacts DEF AdmissionFrame
<1>4. /\ HoldIn(reservations', g, Outstanding) = out \ {id}
      /\ HoldIn(reservations', g, {"RESERVED"}) = held \ {id}
      /\ id \in out
  BY <1>1, <1>3 DEF HoldIn, Outstanding
<1>5. /\ Clamp(res.bytes - regions[g].committed) <= regions[g].reserved
      /\ Accounts({0}, reservations', regions[g].reserved - Clamp(res.bytes - regions[g].committed),
                  Clamp(regions[g].committed - res.bytes), out \ {id}, held \ {id})
  <2>1. Sound({0}, reservations, regions[g].reserved, regions[g].committed, out, held)
    BY <1>1, RegionSound
  <2>2. \A i \in out : reservations'[i].bytes = reservations[i].bytes
    BY <1>3 DEF HoldIn
  <2> DEFINE a == regions[g].reserved
             b == regions[g].committed
  <2> HIDE DEF out, held
  <2>3. Sound({0}, reservations, a, b, out, held)
    BY <2>1
  <2>4. {0} \in SUBSET Nat
    OBVIOUS
  <2> HIDE DEF a, b
  <2>5. /\ Clamp(reservations[id].bytes - b) <= a
        /\ Accounts({0}, reservations', a - Clamp(reservations[id].bytes - b),
                    Clamp(b - reservations[id].bytes), out \ {id}, held \ {id})
    BY <1>4, <2>2, <2>3, <2>4, AccountsRelease
  <2> QED
    BY <2>5 DEF a, b
<1>6. /\ regions[g].reserved \in Nat /\ regions[g].committed \in Nat
      /\ regions[g].capacity \in Nat /\ regions[g].capacity <= MaxBytes
      /\ regions[g].reserved + regions[g].committed <= regions[g].capacity
      /\ res.bytes \in Nat
  <2>1. res.bytes \in Nat
    BY <1>1, CounterTypes
  <2> HIDE DEF g
  <2> QED
    BY <1>1, <2>1, RegionTerms
<1>7. /\ r = regions[g].reserved - Clamp(res.bytes - regions[g].committed)
      /\ c = Clamp(regions[g].committed - res.bytes)
      /\ r \in ByteCount /\ c \in ByteCount /\ r + c <= regions[g].capacity
  <2>1. /\ r = regions[g].reserved - Clamp(res.bytes - regions[g].committed)
        /\ c = Clamp(regions[g].committed - res.bytes)
        /\ r + c <= regions[g].reserved + regions[g].committed
    BY <1>5, <1>6, GiveBackArithmetic
  <2>2. r \in Nat /\ c \in Nat
    BY <1>6, CounterArithmetic
  <2> DEFINE u == regions[g].reserved + regions[g].committed
             z == regions[g].capacity
  <2>3. r + c <= u
    BY <2>1
  <2> HIDE DEF r, c
  <2>4. u \in Nat /\ z \in Nat /\ z <= MaxBytes /\ u <= z
    BY <1>6
  <2> HIDE DEF u, z
  <2>5. r + c <= z /\ r \in ByteCount /\ c \in ByteCount
    BY <2>2, <2>3, <2>4, MaxBytesAssumption DEF ByteCount
  <2> QED
    BY <2>1, <2>5 DEF z
<1>8. /\ DOMAIN regions' = DOMAIN regions
      /\ regions'[g].reserved = r /\ regions'[g].committed = c
      /\ regions'[g].capacity = regions[g].capacity
      /\ \A h \in DOMAIN regions : h # g => regions'[h] = regions[h]
  <2>1. StoreRegion(g, RegionUse(g, r, c)) /\ g \in DOMAIN regions
    BY <1>1 DEF StoreRegion
  <2>2. r \in ByteCount /\ c \in ByteCount
    BY <1>7
  <2> HIDE DEF g, r, c
  <2> QED
    BY <2>1, <2>2, StoreRegionUse
<1>9. ASSUME NEW h \in DOMAIN regions, h # g
      PROVE  /\ RegionAccounts(regions', reservations', h)
             /\ regions'[h].reserved + regions'[h].committed <= regions'[h].capacity
  <2>1. /\ HoldIn(reservations', h, Outstanding) = HoldIn(reservations, h, Outstanding)
        /\ HoldIn(reservations', h, {"RESERVED"}) = HoldIn(reservations, h, {"RESERVED"})
    BY <1>3, <1>9 DEF HoldIn
  <2> QED
    BY <1>3, <1>8, <1>9, <2>1, RegionAccountsOther
<1>10. RegionAccounts(regions', reservations', g)
  <2> HIDE DEF out, held, r, c
  <2> QED
    BY <1>4, <1>5, <1>7, <1>8 DEF RegionAccounts
<1> HIDE DEF r, c
<1> QED
  BY <1>7, <1>8, <1>9, <1>10 DEF RegionInv

\* Every step but those that take capacity away keeps the accounts of every region.
LEMMA RegionInvNext ==
  ASSUME NEW X, Slack(X), TypeInv, PoolInv(X), RegionInv, [GrowNext]_vars
  PROVE  RegionInv'
<1>1. ASSUME UNCHANGED <<regions, reservations>> PROVE RegionInv'
  BY <1>1, RegionAccountsFrame
<1>2. AuthorityStep => UNCHANGED <<regions, reservations>>
  BY DEF AuthorityStep, set_epoch, set_policy_generation, advance_evidence_generation, grants,
         records
<1>3. DeviceStep => UNCHANGED <<regions, reservations>>
  BY DeviceGenerations
<1>4. PoolStep => UNCHANGED <<regions, reservations>>
  BY PoolStepFacts DEF grants
<1>5. RegionStep => RegionInv'
  BY RegionGenerations, RegionStepUse, RegionAccountsFrame
<1>6. AdmissionStep => RegionInv'
  BY RegionReserve, RegionCommit, RegionRelease DEF AdmissionStep
<1>7. UNCHANGED vars => UNCHANGED <<regions, reservations>>
  BY DEF vars
<1> QED
  BY <1>1, <1>2, <1>3, <1>4, <1>5, <1>6, <1>7 DEF GrowNext

\* What the accounts say of a region.
LEMMA RegionInvSays ==
  ASSUME TypeInv, RegionInv
  PROVE  RegionUseExact /\ RegionReservedCovers /\ UsedWithinRegion
<1> SUFFICES ASSUME NEW g \in DOMAIN regions
             PROVE  /\ regions[g].reserved + regions[g].committed
                         = BytesOf(HeldInRegion(g, Outstanding))
                    /\ BytesOf(HeldInRegion(g, {"RESERVED"})) <= regions[g].reserved
                    /\ regions[g].reserved + regions[g].committed <= regions[g].capacity
  BY DEF RegionUseExact, RegionReservedCovers, UsedWithinRegion
<1> DEFINE out == HoldIn(reservations, g, Outstanding)
           held == HoldIn(reservations, g, {"RESERVED"})
           r == regions[g].reserved
           c == regions[g].committed
           b == Bytes(reservations, out)
<1>1. Sound({0}, reservations, r, c, out, held)
  BY RegionSound
<1>2. /\ BytesOf(HeldInRegion(g, Outstanding)) = b
      /\ BytesOf(HeldInRegion(g, {"RESERVED"})) = Bytes(reservations, held)
  BY DEF BytesOf, Bytes, HeldInRegion, HoldIn
<1>3. /\ (r + c) - b \in {0} /\ Bytes(reservations, held) <= r /\ r \in Nat /\ c \in Nat
      /\ b \in Nat
  <2> HIDE DEF out, held
  <2> QED
    BY <1>1, BytesNat DEF Sound, Accounts
<1>4. r + c <= regions[g].capacity
  BY DEF RegionInv
<1> HIDE DEF out, held, r, c, b
<1>5. r + c = b
  BY <1>3
<1> QED
  BY <1>2, <1>3, <1>4, <1>5 DEF r, c

\* The three invariants hold together.
LEMMA RegionInvHolds == GrowSpec => [](RegionUseExact /\ RegionReservedCovers /\ UsedWithinRegion)
<1>0. Slack({0})
  BY DEF Slack
<1>1. Init => TypeInv /\ PoolInv({0}) /\ RegionInv
  <2>1. Init => RegionInv
    BY DEF RegionInv, Init, EmptyMap
  <2> QED
    BY <2>1, TypeInit, PoolInvInit
<1>2. TypeInv /\ PoolInv({0}) /\ RegionInv /\ [GrowNext]_vars
        => TypeInv' /\ PoolInv({0})' /\ RegionInv'
  <2>1. [GrowNext]_vars => [Next]_vars
    BY DEF Next
  <2> QED
    BY <1>0, <2>1, TypeNext, PoolInvNext, RegionInvNext
<1>3. TypeInv /\ RegionInv => RegionUseExact /\ RegionReservedCovers /\ UsedWithinRegion
  BY RegionInvSays
<1> QED
  BY <1>1, <1>2, <1>3, PTL DEF GrowSpec

\* For any inputs, as long as update_region() replaces no region and no member is removed,
\* the bytes a region counts as used are exactly those of its outstanding reservations,
\* although reserve() and commit() change the counters modulo 2^64 and without a check.
THEOREM RegionUseIsExact == GrowSpec => []RegionUseExact
BY RegionInvHolds, PTL

\* The bytes commit() subtracts from a region's reserved ones without a check are there.
THEOREM RegionReservedSuffices == GrowSpec => []RegionReservedCovers
BY RegionInvHolds, PTL

\* A region never has more in use than it can hold.
THEOREM RegionNeverOverfull == GrowSpec => []UsedWithinRegion
BY RegionInvHolds, PTL

=================================================================================
