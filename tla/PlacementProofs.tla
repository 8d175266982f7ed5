--------------------------- MODULE PlacementProofs ---------------------------
(***************************************************************************)
(* Proofs about where capacity is taken from, for any numbers of devices,  *)
(* regions, pools and reservations and any inputs: selection is decided, a *)
(* failover plan is the best there is and can be followed, and a commit    *)
(* takes effect only on what its reservation was granted on.               *)
(***************************************************************************)
EXTENDS FabricProofs, Failover, FabricFence

----------------------------------------------------------------------------
(* The ranking of candidates *)

Tuple(n) == [1..n -> Int]

\* Every non-empty set of naturals has a least element.
LEMMA LeastNatural ==
  ASSUME NEW T, T \subseteq Nat, T # {}
  PROVE  \E n \in T : \A m \in T : n <= m
<1>1. PICK n \in T : \A m \in T : ~(<<m, n>> \in OpToRel(<, Nat))
  BY NatLessThanWellFounded, WFMin
<1>2. n \in Nat /\ \A m \in T : m \in Nat /\ ~(m < n)
  BY <1>1 DEF OpToRel
<1> QED
  BY <1>2

\* Two tuples that each come before the other are one.
LEMMA LexAntisymmetric ==
  ASSUME NEW n \in Nat, NEW s \in Tuple(n), NEW t \in Tuple(n), LexLeq(s, t), LexLeq(t, s)
  PROVE  s = t
<1> SUFFICES ASSUME s # t PROVE FALSE
  OBVIOUS
<1>1. PICK i \in 1..n : s[i] < t[i] /\ \A j \in 1..(i - 1) : s[j] = t[j]
  BY DEF LexLeq, Tuple
<1>2. PICK k \in 1..n : t[k] < s[k] /\ \A j \in 1..(k - 1) : t[j] = s[j]
  BY DEF LexLeq, Tuple
<1>3. s[i] \in Int /\ t[i] \in Int /\ s[k] \in Int /\ t[k] \in Int
  BY DEF Tuple
<1>4. i < k \/ k < i \/ i = k
  OBVIOUS
<1> QED
  BY <1>1, <1>2, <1>3, <1>4

\* Of two tuples one comes before the other.
LEMMA LexTotal ==
  ASSUME NEW n \in Nat, NEW s \in Tuple(n), NEW t \in Tuple(n)
  PROVE  LexLeq(s, t) \/ LexLeq(t, s)
<1> SUFFICES ASSUME s # t PROVE LexLeq(s, t) \/ LexLeq(t, s)
  BY DEF LexLeq
<1> DEFINE D == {i \in 1..n : s[i] # t[i]}
<1>1. D # {} /\ D \subseteq Nat
  BY DEF Tuple
<1>2. PICK i \in D : \A j \in D : i <= j
  BY <1>1, LeastNatural
<1>3. \A j \in 1..(i - 1) : s[j] = t[j] /\ t[j] = s[j]
  BY <1>2
<1>4. s[i] < t[i] \/ t[i] < s[i]
  BY DEF Tuple
<1>5. i \in DOMAIN s /\ i \in DOMAIN t
  BY DEF Tuple
<1> QED
  BY <1>3, <1>4, <1>5 DEF LexLeq

\* The order of tuples is transitive.
LEMMA LexTransitive ==
  ASSUME NEW n \in Nat, NEW s \in Tuple(n), NEW t \in Tuple(n), NEW u \in Tuple(n),
         LexLeq(s, t), LexLeq(t, u)
  PROVE  LexLeq(s, u)
<1>1. CASE s = t \/ t = u
  BY <1>1
<1>2. CASE s # t /\ t # u
  <2>1. PICK i \in 1..n : s[i] < t[i] /\ \A j \in 1..(i - 1) : s[j] = t[j]
    BY <1>2 DEF LexLeq, Tuple
  <2>2. PICK k \in 1..n : t[k] < u[k] /\ \A j \in 1..(k - 1) : t[j] = u[j]
    BY <1>2 DEF LexLeq, Tuple
  <2> DEFINE m == IF i <= k THEN i ELSE k
  <2>3. \A j \in 1..n : s[j] \in Int /\ t[j] \in Int /\ u[j] \in Int
    BY DEF Tuple
  <2>4. m \in 1..n /\ s[m] < u[m] /\ \A j \in 1..(m - 1) : s[j] = u[j]
    BY <2>1, <2>2, <2>3
  <2>5. m \in DOMAIN s
    BY <2>4 DEF Tuple
  <2> QED
    BY <2>4, <2>5 DEF LexLeq
<1> QED
  BY <1>1, <1>2

\* Of finitely many things that have tuples as their keys one comes first.
LEMMA FirstExists ==
  ASSUME NEW n \in Nat, NEW S, IsFiniteSet(S), S # {}, NEW key \in [S -> Tuple(n)]
  PROVE  \E c \in S : \A d \in S : LexLeq(key[c], key[d])
<1> DEFINE First(A) == \E c \in A : \A d \in A : LexLeq(key[c], key[d])
           T == {A \in SUBSET S : A # {} /\ ~First(A)}
<1> SUFFICES ASSUME ~First(S) PROVE FALSE
  OBVIOUS
<1>1. PICK x \in T : \A y \in T : y \subseteq x => y = x
  <2>1. T \subseteq SUBSET S /\ T # {}
    <3>1. S \in T
      OBVIOUS
    <3> QED
      BY <3>1
  <2> HIDE DEF T
  <2> QED
    BY <2>1, SmallestSubset
<1>2. PICK a \in x : TRUE
  BY <1>1
<1>3. x \subseteq S /\ ~First(x)
  BY <1>1
<1> DEFINE y == x \ {a}
<1>4. y = {} \/ First(y)
  <2>1. y \subseteq x /\ y # x /\ y \in SUBSET S
    BY <1>2, <1>3
  <2>2. y \notin T
    BY <1>1, <2>1
  <2> QED
    BY <2>1, <2>2
<1>5. \A c \in x : key[c] \in Tuple(n)
  BY <1>3
<1>6. LexLeq(key[a], key[a])
  BY DEF LexLeq
<1>7. CASE y = {}
  BY <1>2, <1>3, <1>6, <1>7
<1>8. CASE First(y)
  <2>1. PICK c \in y : \A d \in y : LexLeq(key[c], key[d])
    BY <1>8
  <2>2. CASE LexLeq(key[c], key[a])
    BY <1>3, <2>1, <2>2
  <2>3. CASE LexLeq(key[a], key[c])
    <3>1. \A d \in y : LexLeq(key[a], key[d])
      BY <1>2, <1>5, <2>1, <2>3, LexTransitive
    <3> QED
      BY <1>2, <1>3, <1>6, <3>1
  <2> QED
    BY <1>2, <1>5, <2>1, <2>2, <2>3, LexTotal
<1> QED
  BY <1>4, <1>7, <1>8

\* The engine knows finitely many devices and regions.
MapsFinite == IsFiniteSet(DOMAIN devices) /\ IsFiniteSet(DOMAIN regions)

\* One operation adds at most one device or one region.
LEMMA MapsFiniteStep ==
  ASSUME TypeInv, MapsFinite, [Next]_vars
  PROVE  MapsFinite'
<1>1. ASSUME UNCHANGED <<devices, regions>> PROVE MapsFinite'
  BY <1>1 DEF MapsFinite
<1>2. AuthorityStep => UNCHANGED <<devices, regions>>
  BY DEF AuthorityStep, set_epoch, set_policy_generation, advance_evidence_generation, records
<1>3. PoolStep \/ ShrinkStep => UNCHANGED <<devices, regions>>
  BY PoolStepFacts
<1>4. ASSUME DeviceStep PROVE MapsFinite'
  <2>1. UNCHANGED regions
    BY <1>4, DeviceGenerations
  <2>2. PICK d : DOMAIN devices' \subseteq DOMAIN devices \cup {d}
    BY <1>4 DEF DeviceStep, register_device, mark_device_revalidation, mark_device_online,
                MarkDevice, Put
  <2>3. IsFiniteSet(DOMAIN devices \cup {d})
    BY FS_AddElement DEF MapsFinite
  <2> QED
    BY <2>1, <2>2, <2>3, FS_Subset DEF MapsFinite
<1>5. ASSUME RegionStep \/ OverwriteStep PROVE MapsFinite'
  <2>1. UNCHANGED devices
    BY <1>5, RegionGenerations
  <2>2. PICK r : DOMAIN regions' \subseteq DOMAIN regions \cup {r}
    BY <1>5 DEF RegionStep, OverwriteStep, create_region, update_region, reconfigure_region,
                mark_region_draining, revalidate_region, Put
  <2>3. IsFiniteSet(DOMAIN regions \cup {r})
    BY FS_AddElement DEF MapsFinite
  <2> QED
    BY <2>1, <2>2, <2>3, FS_Subset DEF MapsFinite
<1>6. ASSUME AdmissionStep PROVE MapsFinite'
  <2>1. UNCHANGED devices /\ DOMAIN regions' = DOMAIN regions
    BY <1>6, AdmissionFacts DEF AdmissionFrame
  <2> QED
    BY <2>1 DEF MapsFinite
<1>7. UNCHANGED vars => UNCHANGED <<devices, regions>>
  BY DEF vars
<1> QED
  BY <1>1, <1>2, <1>3, <1>4, <1>5, <1>6, <1>7 DEF Next, GrowNext

\* The records of a candidate, and the naturals and integers its ranking compares.
LEMMA CandidateFacts ==
  ASSUME TypeInv, NEW c \in Candidates(Snapshot)
  PROVE  /\ c = <<c[1], c[2]>> /\ c[1] \in DOMAIN regions /\ c[2] \in DOMAIN devices
         /\ c[1] \in Nat /\ c[2] \in Nat /\ regions[c[1]].pool \in Nat
         /\ regions[c[1]] \in CxlRegion /\ devices[c[2]] \in CxlDevice
         /\ region_free(regions[c[1]]) \in Nat
         /\ devices[c[2]].profile.locality \in Nat /\ devices[c[2]].profile.latency \in Nat
         /\ devices[c[2]].profile.bandwidth \in Nat
<1>1. /\ c \in (DOMAIN regions) \X (DOMAIN devices)
  BY DEF Candidates, Snapshot
<1>2. c = <<c[1], c[2]>> /\ c[1] \in DOMAIN regions /\ c[2] \in DOMAIN devices
  BY <1>1
<1>3. /\ regions[c[1]] \in CxlRegion /\ devices[c[2]] \in CxlDevice
      /\ c[1] \in RegionId /\ c[2] \in DeviceId
  BY <1>2 DEF TypeInv, TypeOK
<1>4. regions[c[1]].pool \in PoolId
  BY <1>3 DEF CxlRegion
<1>5. region_free(regions[c[1]]) \in Nat
  <2>1. /\ regions[c[1]].capacity \in ByteCount /\ regions[c[1]].reserved \in ByteCount
        /\ regions[c[1]].committed \in ByteCount
    BY <1>3 DEF CxlRegion
  <2> QED
    BY <2>1, MaxBytesAssumption DEF region_free, Clamp, Wrap, ByteCount
<1>6. devices[c[2]].profile \in Profile
  BY <1>3 DEF CxlDevice
<1>7. /\ devices[c[2]].profile.locality \in Nat /\ devices[c[2]].profile.latency \in Nat
      /\ devices[c[2]].profile.bandwidth \in Nat
  BY <1>6, ProfileAssumption DEF LocalityClass
<1> QED
  BY <1>2, <1>3, <1>4, <1>5, <1>7, IdAssumption

\* The rank of a candidate is a tuple that ends with its identity.
LEMMA RankKeyFacts ==
  ASSUME TypeInv, NEW c \in Candidates(Snapshot)
  PROVE  /\ RankKey(Snapshot, c) \in Tuple(7)
         /\ RankKey(Snapshot, c)[6] = c[1] /\ RankKey(Snapshot, c)[7] = c[2]
<1> DEFINE a == devices[c[2]].profile.locality
           b == devices[c[2]].profile.latency
           w == devices[c[2]].profile.bandwidth
           u == region_free(regions[c[1]])
           p == regions[c[1]].pool
           r == c[1]
           d == c[2]
<1>1. RankKey(Snapshot, c) = <<a, b, -w, -u, p, r, d>>
  BY DEF RankKey, Snapshot
<1>2. a \in Nat /\ b \in Nat /\ w \in Nat /\ u \in Nat /\ p \in Nat /\ r \in Nat /\ d \in Nat
  BY CandidateFacts
<1> HIDE DEF a, b, w, u, p, r, d
<1>3. <<a, b, -w, -u, p, r, d>> \in Tuple(7)
  BY <1>2 DEF Tuple
<1>4. <<a, b, -w, -u, p, r, d>>[6] = r /\ <<a, b, -w, -u, p, r, d>>[7] = d
  OBVIOUS
<1> QED
  BY <1>1, <1>3, <1>4 DEF r, d

\* At most one candidate is at the front of the ranking: two that are are the same.
LEMMA ChoiceIsUnique ==
  ASSUME TypeInv, NEW req, NEW c, NEW d, IsChosen(Snapshot, c, req), IsChosen(Snapshot, d, req)
  PROVE  c = d
<1>1. c \in Candidates(Snapshot) /\ d \in Candidates(Snapshot)
  BY DEF IsChosen, Passing
<1>2. LexLeq(RankKey(Snapshot, c), RankKey(Snapshot, d)) /\ LexLeq(RankKey(Snapshot, d), RankKey(Snapshot, c))
  BY DEF IsChosen
<1>3. RankKey(Snapshot, c) = RankKey(Snapshot, d)
  BY <1>1, <1>2, RankKeyFacts, LexAntisymmetric
<1>4. c[1] = d[1] /\ c[2] = d[2]
  BY <1>1, <1>3, RankKeyFacts
<1> QED
  BY <1>1, <1>4, CandidateFacts

\* Some candidate is, when any passed.
LEMMA ChoiceExists ==
  ASSUME TypeInv, MapsFinite, NEW req, Passing(Snapshot, req) # {}
  PROVE  \E c : IsChosen(Snapshot, c, req)
<1> DEFINE S == Passing(Snapshot, req)
           key == [c \in S |-> RankKey(Snapshot, c)]
<1>1. S \subseteq Candidates(Snapshot)
  BY DEF Passing
<1>2. IsFiniteSet(S)
  <2>1. S \subseteq (DOMAIN regions) \X (DOMAIN devices)
    BY DEF Passing, Candidates, Snapshot
  <2> HIDE DEF S
  <2> QED
    BY <2>1, FS_Product, FS_Subset DEF MapsFinite
<1>3. S # {}
  OBVIOUS
<1> HIDE DEF S
<1>4. key \in [S -> Tuple(7)]
  BY <1>1, RankKeyFacts
<1>5. PICK c \in S : \A d \in S : LexLeq(key[c], key[d])
  <2> HIDE DEF key
  <2> QED
    BY <1>2, <1>3, <1>4, FirstExists
<1>6. \A d \in S : LexLeq(RankKey(Snapshot, c), RankKey(Snapshot, d))
  BY <1>5
<1> QED
  BY <1>5, <1>6 DEF IsChosen, S

\* The maps stay finite through every call.
LEMMA MapsStayFinite == Spec => [](TypeInv /\ MapsFinite)
<1>1. Init => MapsFinite
  BY FS_EmptySet DEF Init, EmptyMap, MapsFinite
<1>2. TypeInv /\ MapsFinite /\ [Next]_vars => MapsFinite'
  BY MapsFiniteStep
<1> QED
  BY <1>1, <1>2, FabricTypeInv, PTL DEF Spec

\* After any history of calls, for any request: if a candidate passes, one and only one
\* is at the front of the ranking.
THEOREM SelectionIsDecided == Spec => []ChoiceDecided
<1>1. TypeInv /\ MapsFinite => ChoiceDecided
  <2> SUFFICES ASSUME TypeInv, MapsFinite, NEW req \in Requests, Passing(Snapshot, req) # {}
               PROVE  \E c \in Passing(Snapshot, req) :
                        \A d \in Passing(Snapshot, req) : IsChosen(Snapshot, d, req) <=> d = c
    BY DEF ChoiceDecided
  <2>1. PICK c : IsChosen(Snapshot, c, req)
    BY ChoiceExists
  <2>2. c \in Passing(Snapshot, req)
    BY <2>1 DEF IsChosen
  <2>3. \A d : IsChosen(Snapshot, d, req) => d = c
    BY <2>1, ChoiceIsUnique
  <2> QED
    BY <2>1, <2>2, <2>3
<1> QED
  BY <1>1, MapsStayFinite, PTL

----------------------------------------------------------------------------
(* Failover plans *)

\* The loops of plan_failover() find what selection would.
LEMMA ReplacementsAreUsable ==
  ASSUME NEW pool_id, NEW f, NEW req
  PROVE  Replacements(pool_id, f, req) = Usable(pool_id, f, req)
<1> SUFFICES ASSUME NEW c \in (DOMAIN regions) \X (DOMAIN devices)
             PROVE  c \in Replacements(pool_id, f, req) <=> c \in Usable(pool_id, f, req)
  BY DEF Replacements, Usable, Passing, Candidates, Snapshot
<1> DEFINE reg == regions[c[1]]
           ok == Verdict(Snapshot, c, req) = "OK"
<1>1. c[2] \in Range(reg.member_devices)
      <=> \E i \in DOMAIN reg.member_devices : reg.member_devices[i] = c[2]
  BY DEF Range
<1>2. ok => pools[reg.pool].state \in {"AVAILABLE", "DEFINED"}
  BY DEF Verdict, evaluate_candidate, Snapshot
<1>3. c \in Candidates(Snapshot)
      <=> /\ \E i \in DOMAIN reg.member_devices : reg.member_devices[i] = c[2]
          /\ reg.pool \in DOMAIN pools /\ pools[reg.pool].evidence_current
          /\ pools[reg.pool].state \in {"AVAILABLE", "DEFINED"}
          /\ reg.evidence_current /\ reg.state = "ONLINE"
          /\ devices[c[2]].evidence_current /\ devices[c[2]].state = "ONLINE"
  BY DEF Candidates, Snapshot
<1>4. c \in Usable(pool_id, f, req)
      <=> c \in Candidates(Snapshot) /\ ok /\ c[2] # f /\ pool_id \in {0, reg.pool}
  BY DEF Usable, Passing
<1>5. c \in Replacements(pool_id, f, req)
      <=> /\ reg.pool \in DOMAIN pools /\ pool_id \in {0, reg.pool}
          /\ pools[reg.pool].evidence_current
          /\ reg.evidence_current /\ reg.state = "ONLINE"
          /\ c[2] \in Range(reg.member_devices) /\ c[2] # f
          /\ devices[c[2]].evidence_current /\ devices[c[2]].state = "ONLINE" /\ ok
  BY DEF Replacements
<1> HIDE DEF ok, reg
<1> QED
  BY <1>1, <1>2, <1>3, <1>4, <1>5

\* The place of a candidate in the loops is a triple of naturals.
LEMMA EvaluationKeyFacts ==
  ASSUME TypeInv, NEW c \in Candidates(Snapshot)
  PROVE  EvaluationKey(Snapshot, c) \in Tuple(3)
<1> DEFINE members == regions[c[1]].member_devices
           places == {i \in DOMAIN members : members[i] = c[2]}
           p == regions[c[1]].pool
           r == c[1]
           n == CHOOSE i \in places : \A j \in places : i <= j
<1>1. members \in Seq(DeviceId)
  BY CandidateFacts DEF CxlRegion
<1>2. places \subseteq Nat
  BY <1>1
<1>3. places # {}
  BY DEF Candidates, Snapshot
<1>4. \E i \in places : \A j \in places : i <= j
  <2> HIDE DEF places
  <2> QED
    BY <1>2, <1>3, LeastNatural
<1>5. n \in Nat
  <2> HIDE DEF places
  <2> QED
    BY <1>2, <1>4
<1>6. p \in Nat /\ r \in Nat
  BY CandidateFacts
<1>7. EvaluationKey(Snapshot, c) = <<p, r, n>>
  BY DEF EvaluationKey, Snapshot
<1> HIDE DEF p, r, n
<1> QED
  BY <1>5, <1>6, <1>7 DEF Tuple

\* The first of some candidates is one of them.
LEMMA FrontIsOne ==
  ASSUME TypeInv, MapsFinite, NEW cs, cs \subseteq Candidates(Snapshot), cs # {}
  PROVE  Front(cs) \in cs
<1> DEFINE key == [c \in cs |-> EvaluationKey(Snapshot, c)]
<1>1. IsFiniteSet(cs)
  <2>1. cs \subseteq (DOMAIN regions) \X (DOMAIN devices)
    BY DEF Candidates, Snapshot
  <2> QED
    BY <2>1, FS_Product, FS_Subset DEF MapsFinite
<1>2. key \in [cs -> Tuple(3)]
  BY EvaluationKeyFacts
<1>3. PICK c \in cs : \A d \in cs : LexLeq(key[c], key[d])
  <2> HIDE DEF key
  <2> QED
    BY <1>1, <1>2, FirstExists
<1>4. \A d \in cs : LexLeq(EvaluationKey(Snapshot, c), EvaluationKey(Snapshot, d))
  BY <1>3
<1> QED
  BY <1>4 DEF Front

\* Where pools and observations agree, a device is in the domain it was observed in.
LEMMA DomainIsObserved ==
  ASSUME TypeInv, NoDoubleCounting, DomainsAgree, NEW d \in DOMAIN devices
  PROVE  DomainOf(d) = devices[d].profile.notes
<1> DEFINE governing == {p \in DOMAIN pools : Governs(p, d)}
           last == CHOOSE p \in governing : \A q \in governing : q <= p
<1>1. CASE governing = {}
  BY <1>1 DEF DomainOf
<1>2. CASE governing # {}
  <2>1. PICK p \in governing : TRUE
    BY <1>2
  <2>2. \A q \in governing : q = p
    BY <2>1 DEF Governs, NoDoubleCounting
  <2>3. p \in Nat
    BY <2>1, IdAssumption DEF TypeInv, TypeOK
  <2>4. \E x \in governing : \A q \in governing : q <= x
    BY <2>1, <2>2, <2>3
  <2>5. last \in governing
    <3> HIDE DEF governing
    <3> QED
      BY <2>4
  <2>6. last = p
    <3> HIDE DEF governing, last
    <3> QED
      BY <2>2, <2>5
  <2> DEFINE m == CHOOSE x \in pools[p].members : x.device = d
  <2>7. m \in pools[p].members /\ m.device = d
    BY <2>1 DEF Governs
  <2>8. m.failure_domain = devices[d].profile.notes
    <3> HIDE DEF m
    <3> QED
      BY <2>1, <2>7 DEF DomainsAgree
  <2>9. failed_domain(d) = m.failure_domain
    <3>1. failed_domain(d) = (CHOOSE x \in pools[last].members : x.device = d).failure_domain
      BY <1>2 DEF failed_domain
    <3> HIDE DEF last
    <3> QED
      BY <2>6, <3>1
  <2>10. DomainOf(d) = failed_domain(d)
    BY <1>2 DEF DomainOf
  <2> HIDE DEF m
  <2> QED
    BY <2>8, <2>9, <2>10
<1> QED
  BY <1>1, <1>2

\* Whatever the pool, the failed device and the request: the plan is the best there is.
LEMMA PlanIsBest ==
  ASSUME TypeInv, MapsFinite, NoDoubleCounting
  PROVE  FailoverIsBest
<1> SUFFICES ASSUME DomainsAgree, NEW pool_id \in PoolId \cup {0}, NEW f \in DeviceId,
                    NEW req \in Requests
             PROVE  LET plan    == plan_failover(pool_id, f, req)
                        usable  == Usable(pool_id, f, req)
                        outside == {c \in usable : failed_domain(f) \notin {0, DomainOf(c[2])}}
                        far     == IF failed_domain(f) = 0 THEN usable ELSE outside
                    IN  /\ plan.outcome = IF far # {} THEN "FAILOVER"
                                          ELSE IF usable # {} THEN "DEGRADED" ELSE "REJECT"
                        /\ plan.outcome = "FAILOVER" => plan.replacement \in far
                        /\ plan.outcome = "DEGRADED" => plan.replacement \in usable
  BY DEF FailoverIsBest
<1> DEFINE usable == Usable(pool_id, f, req)
           cross == {c \in usable : ~same_domain(c, f)}
           outside == {c \in usable : failed_domain(f) \notin {0, DomainOf(c[2])}}
           far == IF failed_domain(f) = 0 THEN usable ELSE outside
           plan == plan_failover(pool_id, f, req)
<1>1. usable \subseteq Candidates(Snapshot)
  BY DEF Usable, Passing
<1>2. \A c \in usable : DomainOf(c[2]) = devices[c[2]].profile.notes
  BY <1>1, CandidateFacts, DomainIsObserved
<1>3. plan = IF cross # {} THEN [outcome |-> "FAILOVER", replacement |-> Front(cross)]
             ELSE IF usable # {} THEN [outcome |-> "DEGRADED", replacement |-> Front(usable)]
             ELSE [outcome |-> "REJECT", replacement |-> <<>>]
  BY ReplacementsAreUsable DEF plan_failover
<1> HIDE DEF usable
<1>4. cross = far
  BY <1>2 DEF same_domain
<1>5. cross \subseteq Candidates(Snapshot)
  BY <1>1
<1> HIDE DEF cross, far, plan
<1>6. cross # {} => Front(cross) \in cross
  BY <1>5, FrontIsOne
<1>7. usable # {} => Front(usable) \in usable
  BY <1>1, FrontIsOne
<1>8. /\ plan.outcome = IF far # {} THEN "FAILOVER" ELSE IF usable # {} THEN "DEGRADED" ELSE "REJECT"
      /\ plan.outcome = "FAILOVER" => plan.replacement \in far
      /\ plan.outcome = "DEGRADED" => plan.replacement \in usable
  BY <1>3, <1>4, <1>6, <1>7
<1> QED
  BY <1>8 DEF usable, far, plan

\* What a plan names is a candidate that passes the request, on another device.
LEMMA PlanIsUsable ==
  ASSUME TypeInv, MapsFinite, NEW f, NEW req, plan_failover(0, f, req).outcome # "REJECT"
  PROVE  plan_failover(0, f, req).replacement \in Usable(0, f, req)
<1> DEFINE usable == Usable(0, f, req)
           cross == {c \in usable : ~same_domain(c, f)}
           plan == plan_failover(0, f, req)
<1>1. usable \subseteq Candidates(Snapshot)
  BY DEF Usable, Passing
<1>2. plan = IF cross # {} THEN [outcome |-> "FAILOVER", replacement |-> Front(cross)]
             ELSE IF usable # {} THEN [outcome |-> "DEGRADED", replacement |-> Front(usable)]
             ELSE [outcome |-> "REJECT", replacement |-> <<>>]
  BY ReplacementsAreUsable DEF plan_failover
<1> HIDE DEF usable
<1>3. cross \subseteq Candidates(Snapshot) /\ cross \subseteq usable
  BY <1>1
<1> HIDE DEF cross
<1>4. cross # {} => Front(cross) \in cross
  BY <1>3, FrontIsOne
<1>5. usable # {} => Front(usable) \in usable
  BY <1>1, FrontIsOne
<1> QED
  BY <1>2, <1>3, <1>4, <1>5 DEF usable

\* A candidate that passes a request passes the same request for its own pool, and what
\* passes that is in that pool and has the bytes free in its region.
LEMMA OwnPoolPasses ==
  ASSUME TypeInv, NEW req \in AdmissionRequest, req.required_pool = 0,
         NEW c \in Passing(Snapshot, req), NEW ask,
         ask = [req EXCEPT !.required_pool = regions[c[1]].pool]
  PROVE  /\ c \in Passing(Snapshot, ask)
         /\ \A d \in Passing(Snapshot, ask) :
              /\ regions[d[1]].pool = regions[c[1]].pool
              /\ req.bytes <= region_free(regions[d[1]])
<1> DEFINE p == regions[c[1]].pool
<1>1. c \in Candidates(Snapshot) /\ Verdict(Snapshot, c, req) = "OK"
  BY DEF Passing
<1>2. p \in DOMAIN pools /\ p \in Nat \ {0} /\ pools[p].id = p
  <2>1. p \in DOMAIN pools
    BY <1>1 DEF Candidates, Snapshot
  <2> QED
    BY <2>1, IdAssumption DEF TypeInv, TypeOK
<1>3. /\ ask.bytes = req.bytes /\ ask.volatility = req.volatility
      /\ ask.require_persistence = req.require_persistence /\ ask.host = req.host
      /\ ask.sharing = req.sharing /\ ask.minimum_locality = req.minimum_locality
      /\ ask.required_tier = req.required_tier /\ ask.accelerator_access = req.accelerator_access
      /\ ask.minimum_bandwidth = req.minimum_bandwidth
      /\ ask.maximum_latency = req.maximum_latency /\ ask.required_pool = p
  BY DEF AdmissionRequest
<1>4. Verdict(Snapshot, c, ask) = "OK"
  <2> DEFINE dev == devices[c[2]]
             reg == regions[c[1]]
             pool == pools[reg.pool]
  <2>1. evaluate_candidate(dev, reg, pool, req) = "OK"
    BY <1>1 DEF Verdict, Snapshot
  <2>2. pool.id = p
    BY <1>2
  <2> HIDE DEF dev, reg, pool
  <2>3. RequirementVerdict(dev.profile, reg, pool, req) = "OK"
    BY <2>1 DEF evaluate_candidate
  <2>4. RequirementVerdict(dev.profile, reg, pool, ask) = "OK"
    <3> HIDE DEF p
    <3> QED
      BY <1>3, <2>2, <2>3 DEF RequirementVerdict
  <2>5. evaluate_candidate(dev, reg, pool, ask) = "OK"
    BY <1>3, <2>1, <2>4 DEF evaluate_candidate
  <2> QED
    BY <2>5 DEF Verdict, Snapshot, dev, reg, pool
<1>5. ASSUME NEW d \in Passing(Snapshot, ask)
      PROVE  regions[d[1]].pool = p /\ req.bytes <= region_free(regions[d[1]])
  <2> DEFINE dev == devices[d[2]]
             reg == regions[d[1]]
             pool == pools[reg.pool]
  <2>1. evaluate_candidate(dev, reg, pool, ask) = "OK" /\ d \in Candidates(Snapshot)
    BY <1>5 DEF Verdict, Snapshot, Passing
  <2>2. pool.id = reg.pool
    <3>1. reg.pool \in DOMAIN pools
      BY <2>1 DEF Candidates, Snapshot
    <3> QED
      BY <3>1 DEF TypeInv, TypeOK
  <2>3. region_free(reg) \in Nat
    BY <2>1, CandidateFacts
  <2>4. ask.bytes \in Nat
    BY <1>3, MaxBytesAssumption DEF AdmissionRequest, ByteCount
  <2> HIDE DEF dev, reg, pool
  <2>5. RequirementVerdict(dev.profile, reg, pool, ask) = "OK" /\ ~(region_free(reg) < ask.bytes)
    BY <2>1 DEF evaluate_candidate
  <2>6. ask.required_pool \in {0, pool.id}
    BY <2>5 DEF RequirementVerdict
  <2> QED
    BY <1>2, <1>3, <2>2, <2>3, <2>4, <2>5, <2>6 DEF reg
<1> QED
  BY <1>1, <1>4, <1>5 DEF Passing

\* Whatever the failed device and the request: the plan can be followed.
LEMMA PlanIsFollowed ==
  ASSUME TypeInv, MapsFinite
  PROVE  PlanCanBeFollowed
<1> SUFFICES ASSUME NEW f \in DOMAIN devices, NEW req \in Requests, NEW ctx \in Context,
                    plan_failover(0, f, req).outcome # "REJECT", ~devices[f].evidence_current,
                    ctx.coordinator_epoch = epoch, req.bytes # 0, req.required_pool = 0
             PROVE  LET plan == plan_failover(0, f, req)
                        pool == regions[plan.replacement[1]].pool
                        ask  == [req EXCEPT !.required_pool = pool]
                    IN  /\ reserve_reason(ask, ctx) \in {"OK", "CAPACITY_OVERCOMMIT"}
                        /\ reserve_reason(ask, ctx) # "OK" => pool_free(pools[pool]) < req.bytes
                        /\ \A c \in Passing(Snapshot, ask) : c[2] # f
  BY DEF PlanCanBeFollowed
<1> DEFINE c == plan_failover(0, f, req).replacement
           pool == regions[c[1]].pool
           ask == [req EXCEPT !.required_pool = pool]
<1>1. c \in Passing(Snapshot, req)
  BY PlanIsUsable DEF Usable
<1>2. req \in AdmissionRequest
  BY InputAssumption
<1>3. ask.bytes = req.bytes /\ req.bytes \in Nat
  BY <1>2, MaxBytesAssumption DEF AdmissionRequest, ByteCount
<1> HIDE DEF c
<1>4. /\ c \in Passing(Snapshot, ask)
      /\ \A d \in Passing(Snapshot, ask) : /\ regions[d[1]].pool = pool
                                           /\ req.bytes <= region_free(regions[d[1]])
  BY <1>1, <1>2, OwnPoolPasses
<1>5. \A d \in Passing(Snapshot, ask) : d[2] # f
  BY DEF Passing, Candidates, Snapshot
<1> HIDE DEF ask
<1>6. SelectionReason(Snapshot, ask) = "OK"
  BY <1>4 DEF SelectionReason
<1>7. reserve_reason(ask, ctx) \in {"OK", "CAPACITY_OVERCOMMIT"}
  BY <1>3, <1>6 DEF reserve_reason
<1>8. ASSUME reserve_reason(ask, ctx) # "OK" PROVE pool_free(pools[pool]) < req.bytes
  <2>1. PICK d \in Passing(Snapshot, ask) : \/ ask.bytes > pool_free(pools[regions[d[1]].pool])
                                            \/ ask.bytes > region_free(regions[d[1]])
    BY <1>3, <1>6, <1>8 DEF reserve_reason
  <2>2. region_free(regions[d[1]]) \in Nat
    BY CandidateFacts DEF Passing
  <2>3. regions[d[1]].pool = pool /\ req.bytes <= region_free(regions[d[1]])
    BY <1>4
  <2>4. ~(ask.bytes > region_free(regions[d[1]]))
    BY <1>3, <2>2, <2>3
  <2>5. ask.bytes > pool_free(pools[pool])
    BY <2>1, <2>3, <2>4
  <2> QED
    BY <1>3, <2>5
<1> QED
  BY <1>5, <1>7, <1>8 DEF c, ask

\* After any history of calls plan_failover() finds what admission would use, and leaves
\* the failed domain whenever something usable does.
THEOREM FailoverPlansAreBest == Spec => []FailoverIsBest
<1>1. TypeInv /\ MapsFinite /\ NoDoubleCounting => FailoverIsBest
  BY PlanIsBest
<1> QED
  BY <1>1, MapsStayFinite, DevicesCountOnce, PTL

\* After any history of calls a plan can be followed: reserve() in the pool it names
\* grants, off the failed device, unless that pool as a whole is full.
THEOREM FailoverPlansWork == Spec => []PlanCanBeFollowed
<1>1. TypeInv /\ MapsFinite => PlanCanBeFollowed
  BY PlanIsFollowed
<1> QED
  BY <1>1, MapsStayFinite, PTL

----------------------------------------------------------------------------
(* The generations of a reservation fence its commit *)

\* A fact that was remembered with generation g: g is the current generation only while
\* the fact is the one of the moment.
Current(g, fact, gen, now) == g <= gen /\ (g = gen => fact = now)

\* What a grant stands on: the membership, the devices and the facts remembered for it.
BoundTo(i) ==
  LET res == reservations[i]
  IN  /\ Current(res.pool_generation, granted[i].members,
                 pools[res.pool].generation, pools[res.pool].members)
      /\ Current(res.region_generation, granted[i].devices,
                 regions[res.region].generation, regions[res.region].member_devices)
      /\ Current(res.device_generation, granted[i].device,
                 devices[res.device].generation, devices[res.device].facts)

Grant == [members : SUBSET PoolMember, devices : Seq(DeviceId), device : Nat]

FenceInv ==
  /\ granted \in Seq(Grant) /\ Len(granted) = sequence
  /\ \A i \in DOMAIN reservations : BoundTo(i)

\* A step leaves every record at a later generation, or with the generation and what that
\* generation stands for.
PoolsFenced ==
  \A p \in DOMAIN pools :
    /\ p \in DOMAIN pools'
    /\ \/ pools'[p].generation > pools[p].generation
       \/ /\ pools'[p].generation = pools[p].generation
          /\ pools'[p].members = pools[p].members

RegionsFenced ==
  \A r \in DOMAIN regions :
    /\ r \in DOMAIN regions'
    /\ \/ regions'[r].generation > regions[r].generation
       \/ /\ regions'[r].generation = regions[r].generation
          /\ regions'[r].member_devices = regions[r].member_devices

DevicesFenced ==
  \A d \in DOMAIN devices :
    /\ d \in DOMAIN devices'
    /\ \/ devices'[d].generation > devices[d].generation
       \/ /\ devices'[d].generation = devices[d].generation
          /\ devices'[d].facts = devices[d].facts

\* A device re-registered with other facts has another generation, and marking it keeps both.
LEMMA DevicesStayFenced ==
  ASSUME TypeInv, DeviceStep
  PROVE  DevicesFenced
<1>0. \A d \in DOMAIN devices : devices[d] \in CxlDevice /\ devices[d].generation \in Nat
  BY MaxGenAssumption DEF TypeInv, TypeOK, CxlDevice, Generation
<1>1. ASSUME NEW dev \in DeviceInputs, NEW e \in Epochs, register_device(dev, e)
      PROVE  DevicesFenced
  <2>1. devices' = Put(devices, dev.id, dev)
    BY <1>1 DEF register_device
  <2>2. dev.generation \in Nat
    BY InputAssumption, MaxGenAssumption DEF CxlDevice, Generation
  <2>3. dev.id \in DOMAIN devices =>
          \/ dev.generation > devices[dev.id].generation
          \/ dev.generation = devices[dev.id].generation /\ dev.facts = devices[dev.id].facts
    BY <1>0, <1>1, <2>2 DEF register_device, register_device_reason
  <2> QED
    BY <1>0, <2>1, <2>3 DEF Put, DevicesFenced
<1>2. ASSUME NEW d \in DOMAIN devices, NEW e \in Epochs, NEW st, NEW cur, MarkDevice(d, e, st, cur)
      PROVE  DevicesFenced
  <2> DEFINE rec == [devices[d] EXCEPT !.state = st, !.evidence_current = cur]
  <2>1. rec.generation = devices[d].generation /\ rec.facts = devices[d].facts
    BY <1>0 DEF CxlDevice
  <2>2. devices' = [devices EXCEPT ![d] = rec]
    BY <1>2 DEF MarkDevice
  <2> HIDE DEF rec
  <2> QED
    BY <1>0, <2>1, <2>2 DEF DevicesFenced
<1> QED
  BY <1>1, <1>2 DEF DeviceStep, mark_device_online, mark_device_revalidation

\* reconfigure_region() advances the generation, and no other operation on regions changes
\* the member devices of a region that is there.
LEMMA RegionsStayFenced ==
  ASSUME TypeInv, RegionStep
  PROVE  RegionsFenced
<1>0. \A r \in DOMAIN regions : regions[r] \in CxlRegion /\ regions[r].generation \in Nat
  BY MaxGenAssumption DEF TypeInv, TypeOK, CxlRegion, Generation
<1>1. ASSUME NEW r \in DOMAIN regions, NEW rec,
             \/ rec.generation > regions[r].generation
             \/ /\ rec.generation = regions[r].generation
                /\ rec.member_devices = regions[r].member_devices,
             regions' = [regions EXCEPT ![r] = rec]
      PROVE  RegionsFenced
  BY <1>0, <1>1 DEF RegionsFenced
<1>2. ASSUME NEW reg \in RegionInputs, NEW e \in Epochs, create_region(reg, e) PROVE RegionsFenced
  <2>1. regions' = Put(regions, reg.id, reg)
    BY <1>2 DEF create_region
  <2>2. reg.id \notin DOMAIN regions
    BY <1>2 DEF create_region, create_region_reason
  <2> QED
    BY <1>0, <2>1, <2>2 DEF Put, RegionsFenced
<1>3. ASSUME NEW r \in DOMAIN regions, NEW ms, NEW e \in Epochs, reconfigure_region(r, ms, e)
      PROVE  RegionsFenced
  <2> DEFINE rec == [regions[r] EXCEPT !.generation = NextGen(regions[r].generation),
                                       !.member_devices = ms, !.state = "RECONFIGURING",
                                       !.evidence_current = FALSE]
  <2>1. NextGen(regions[r].generation) > regions[r].generation
    BY <1>0, <1>3, MaxGenAssumption DEF reconfigure_region, NextGen
  <2>2. rec.generation = NextGen(regions[r].generation)
    BY <1>0 DEF CxlRegion
  <2>3. regions' = [regions EXCEPT ![r] = rec]
    BY <1>3 DEF reconfigure_region
  <2> HIDE DEF rec
  <2> QED
    BY <1>1, <2>1, <2>2, <2>3
<1>4. ASSUME NEW r \in DOMAIN regions, NEW e \in Epochs,
             mark_region_draining(r, e) \/ revalidate_region(r, e)
      PROVE  RegionsFenced
  <2> DEFINE a == [regions[r] EXCEPT !.state = "DRAINING"]
             b == [regions[r] EXCEPT !.state = "ONLINE", !.evidence_current = TRUE,
                                     !.health = "HEALTHY"]
  <2>1. /\ a.generation = regions[r].generation /\ a.member_devices = regions[r].member_devices
        /\ b.generation = regions[r].generation /\ b.member_devices = regions[r].member_devices
    BY <1>0 DEF CxlRegion
  <2>2. regions' = [regions EXCEPT ![r] = a] \/ regions' = [regions EXCEPT ![r] = b]
    BY <1>4 DEF mark_region_draining, revalidate_region
  <2> HIDE DEF a, b
  <2> QED
    BY <1>1, <2>1, <2>2
<1> QED
  BY <1>2, <1>3, <1>4 DEF RegionStep

\* A pool whose members change advances its generation, below the largest generation; every
\* other operation keeps both.
LEMMA PoolsStayFenced ==
  ASSUME TypeInv, GenBound <= MaxGen, PoolStep \/ ShrinkStep
  PROVE  PoolsFenced
<1>0. PoolsOK /\ Finite /\ ledger \in Ledger
  BY DEF PoolsOK, TypeInv, TypeOK
<1>1. \A p \in DOMAIN pools : /\ pools[p] \in CxlPool /\ pools[p].id = p /\ p \in PoolId
                              /\ IsFiniteSet(pools[p].members)
                              /\ pools[p].members \in SUBSET PoolMember
                              /\ pools[p].generation \in Nat
  BY <1>0, MaxGenAssumption DEF PoolsOK, Finite, CxlPool, Generation
<1>2. ASSUME NEW p \in DOMAIN pools, NEW rec,
             \/ rec.generation > pools[p].generation
             \/ rec.generation = pools[p].generation /\ rec.members = pools[p].members,
             pools' = Put(pools, p, rec)
      PROVE  PoolsFenced
  BY <1>1, <1>2 DEF PoolsFenced, Put
<1>3. ASSUME NEW p \in DOMAIN pools, NEW ms \in SUBSET PoolMember, IsFiniteSet(ms),
             pools[p].generation < GenBound, StorePool(p, WithMembers(pools[p], ms))
      PROVE  PoolsFenced
  <2> DEFINE rec == WithMembers(pools[p], ms)
  <2>1. pools[p].generation < MaxGen
    BY <1>1, <1>3, MaxGenAssumption, BoundAssumption
  <2>2. rec.generation > pools[p].generation
    BY <1>1, <1>3, <2>1, WithMembersFacts
  <2>3. pools' = Put(pools, p, rec)
    BY <1>3 DEF StorePool
  <2> HIDE DEF rec
  <2> QED
    BY <1>2, <2>2, <2>3
<1>4. ASSUME NEW in \in PoolInputs, NEW e \in Epochs, create_pool(in, e) PROVE PoolsFenced
  <2>1. in.id \notin DOMAIN pools /\ \E rec : pools' = Put(pools, in.id, rec)
    BY <1>4 DEF create_pool, create_pool_reason, StorePool
  <2> QED
    BY <1>1, <2>1 DEF PoolsFenced, Put
<1>5. ASSUME NEW p \in DOMAIN pools, NEW m \in MemberInputs, NEW e \in Epochs,
             add_pool_member(p, m, e)
      PROVE  PoolsFenced
  <2> DEFINE ms == pools[p].members \cup {m}
  <2>1. ms \in SUBSET PoolMember /\ IsFiniteSet(ms)
    BY <1>1, InputAssumption, FS_AddElement
  <2>2. StorePool(p, WithMembers(pools[p], ms)) /\ pools[p].generation < GenBound
    BY <1>5 DEF add_pool_member
  <2> HIDE DEF ms
  <2> QED
    BY <1>3, <2>1, <2>2
<1>6. ASSUME NEW p \in DOMAIN pools, NEW m \in pools[p].members, NEW e \in Epochs,
             remove_pool_member(p, m, e)
      PROVE  PoolsFenced
  <2> DEFINE ms == pools[p].members \ {m}
  <2>1. ms \in SUBSET PoolMember /\ IsFiniteSet(ms)
    BY <1>1, FS_Subset
  <2>2. StorePool(p, WithMembers(pools[p], ms)) /\ pools[p].generation < GenBound
    BY <1>6 DEF remove_pool_member
  <2> HIDE DEF ms
  <2> QED
    BY <1>3, <2>1, <2>2
<1>7. ASSUME NEW p \in DOMAIN pools, NEW e \in Epochs, mark_pool_draining(p, e) PROVE PoolsFenced
  <2> DEFINE rec == [pools[p] EXCEPT !.state = "DRAINING"]
  <2>1. rec.generation = pools[p].generation /\ rec.members = pools[p].members
    BY <1>1 DEF CxlPool
  <2>2. pools' = [pools EXCEPT ![p] = rec]
    BY <1>7 DEF mark_pool_draining
  <2> HIDE DEF rec
  <2> QED
    BY <1>1, <2>1, <2>2 DEF PoolsFenced
<1>8. ASSUME NEW p \in DOMAIN pools, NEW e \in Epochs, reconcile_pool(p, e) PROVE PoolsFenced
  <2> DEFINE rec == recompute_pool(pools[p])
  <2>1. rec.generation = pools[p].generation /\ rec.members = pools[p].members
    BY <1>1, RecomputePool
  <2>2. pools' = Put(pools, p, rec)
    BY <1>8 DEF reconcile_pool, StorePool
  <2> HIDE DEF rec
  <2> QED
    BY <1>2, <2>1, <2>2
<1>9. ASSUME NEW p \in DOMAIN pools, NEW e \in Epochs, revalidate_pool(p, e) PROVE PoolsFenced
  <2> DEFINE old == Revalidated(p)
             rec == recompute_pool(old)
  <2>1. /\ old \in CxlPool /\ old.members = pools[p].members
        /\ old.generation = pools[p].generation
    BY <1>0, RevalidatedType
  <2>2. IsFiniteSet(old.members)
    BY <1>1, <2>1
  <2>3. pools' = Put(pools, p, rec)
    BY <1>9 DEF revalidate_pool, Revalidated, StorePool
  <2> HIDE DEF old
  <2>4. rec.members = old.members /\ rec.generation = old.generation
    BY <2>1, <2>2, RecomputePool
  <2> HIDE DEF rec
  <2> QED
    BY <1>2, <2>1, <2>3, <2>4
<1> QED
  BY <1>4, <1>5, <1>6, <1>7, <1>8, <1>9 DEF PoolStep, ShrinkStep

\* Every step keeps the fence: of the engine's operations, all but update_region().
LEMMA StepFenced ==
  ASSUME TypeInv, GenBound <= MaxGen, GrowNext \/ ShrinkStep
  PROVE  PoolsFenced /\ RegionsFenced /\ DevicesFenced
<1>1. /\ UNCHANGED pools => PoolsFenced
      /\ UNCHANGED regions => RegionsFenced
      /\ UNCHANGED devices => DevicesFenced
  BY DEF PoolsFenced, RegionsFenced, DevicesFenced
<1>2. CASE AuthorityStep
  BY <1>1, <1>2 DEF AuthorityStep, set_epoch, set_policy_generation, advance_evidence_generation,
     records
<1>3. CASE DeviceStep
  BY <1>1, <1>3, DeviceGenerations, DevicesStayFenced
<1>4. CASE RegionStep
  BY <1>1, <1>4, RegionGenerations, RegionsStayFenced
<1>5. CASE PoolStep \/ ShrinkStep
  BY <1>1, <1>5, PoolStepFacts, PoolsStayFenced
<1>6. CASE AdmissionStep
  BY <1>1, <1>6, AdmissionFacts DEF AdmissionFrame, PoolsFenced, RegionsFenced
<1> QED
  BY <1>2, <1>3, <1>4, <1>5, <1>6 DEF GrowNext

\* Only admission touches the reservations.
LEMMA OnlyAdmissionGrants ==
  ASSUME TypeInv, GrowNext \/ ShrinkStep, ~AdmissionStep
  PROVE  UNCHANGED <<reservations, sequence>>
<1>1. CASE AuthorityStep
  BY <1>1 DEF AuthorityStep, set_epoch, set_policy_generation, advance_evidence_generation,
     records, grants
<1>2. CASE DeviceStep
  BY <1>2 DEF DeviceStep, register_device, mark_device_online, mark_device_revalidation,
     MarkDevice, grants
<1>3. CASE RegionStep
  BY <1>3 DEF RegionStep, create_region, reconfigure_region, mark_region_draining,
     revalidate_region, grants
<1>4. CASE PoolStep \/ ShrinkStep
  BY <1>4, PoolStepFacts DEF grants
<1> QED
  BY <1>1, <1>2, <1>3, <1>4 DEF GrowNext

\* Generations are naturals.
LEMMA GenerationNat == \A g \in Generation : g \in Nat
BY MaxGenAssumption DEF Generation

\* A fact stays current when the generation it was remembered with becomes an old one, or
\* when neither changes.
LEMMA CurrentStays ==
  ASSUME NEW g \in Nat, NEW fact, NEW gen \in Nat, NEW now, NEW next \in Nat, NEW then,
         Current(g, fact, gen, now), next > gen \/ (next = gen /\ then = now)
  PROVE  Current(g, fact, next, then)
BY DEF Current

\* So it is with the members of a pool,
LEMMA MembersStayCurrent ==
  ASSUME TypeInv, TypeInv', PoolsFenced, NEW p \in DOMAIN pools, NEW g \in Generation, NEW fact,
         Current(g, fact, pools[p].generation, pools[p].members)
  PROVE  Current(g, fact, pools'[p].generation, pools'[p].members)
<1>1. p \in DOMAIN pools'
  BY DEF PoolsFenced
<1>2. pools[p] \in CxlPool /\ pools'[p] \in CxlPool
  BY <1>1 DEF TypeInv, TypeOK
<1>3. pools[p].generation \in Generation /\ pools'[p].generation \in Generation
  BY <1>2 DEF CxlPool
<1>4. pools[p].generation \in Nat /\ pools'[p].generation \in Nat /\ g \in Nat
  BY <1>3, GenerationNat
<1>5. \/ pools'[p].generation > pools[p].generation
      \/ pools'[p].generation = pools[p].generation /\ pools'[p].members = pools[p].members
  BY DEF PoolsFenced
<1> QED
  BY <1>4, <1>5, CurrentStays

\* with the devices of a region,
LEMMA ListStaysCurrent ==
  ASSUME TypeInv, TypeInv', RegionsFenced, NEW r \in DOMAIN regions, NEW g \in Generation, NEW fact,
         Current(g, fact, regions[r].generation, regions[r].member_devices)
  PROVE  Current(g, fact, regions'[r].generation, regions'[r].member_devices)
<1>1. r \in DOMAIN regions'
  BY DEF RegionsFenced
<1>2. regions[r] \in CxlRegion /\ regions'[r] \in CxlRegion
  BY <1>1 DEF TypeInv, TypeOK
<1>3. regions[r].generation \in Generation /\ regions'[r].generation \in Generation
  BY <1>2 DEF CxlRegion
<1>4. regions[r].generation \in Nat /\ regions'[r].generation \in Nat /\ g \in Nat
  BY <1>3, GenerationNat
<1>5. \/ regions'[r].generation > regions[r].generation
      \/ regions'[r].generation = regions[r].generation /\ regions'[r].member_devices = regions[r].member_devices
  BY DEF RegionsFenced
<1> QED
  BY <1>4, <1>5, CurrentStays

\* and with the facts of a device.
LEMMA FactsStayCurrent ==
  ASSUME TypeInv, TypeInv', DevicesFenced, NEW d \in DOMAIN devices, NEW g \in Generation, NEW fact,
         Current(g, fact, devices[d].generation, devices[d].facts)
  PROVE  Current(g, fact, devices'[d].generation, devices'[d].facts)
<1>1. d \in DOMAIN devices'
  BY DEF DevicesFenced
<1>2. devices[d] \in CxlDevice /\ devices'[d] \in CxlDevice
  BY <1>1 DEF TypeInv, TypeOK
<1>3. devices[d].generation \in Generation /\ devices'[d].generation \in Generation
  BY <1>2 DEF CxlDevice
<1>4. devices[d].generation \in Nat /\ devices'[d].generation \in Nat /\ g \in Nat
  BY <1>3, GenerationNat
<1>5. \/ devices'[d].generation > devices[d].generation
      \/ devices'[d].generation = devices[d].generation /\ devices'[d].facts = devices[d].facts
  BY DEF DevicesFenced
<1> QED
  BY <1>4, <1>5, CurrentStays

\* A reservation that keeps its bindings stays bound, whatever happens to the records.
LEMMA StaysBound ==
  ASSUME TypeInv, PoolsFenced, RegionsFenced, DevicesFenced, TypeInv',
         NEW i \in DOMAIN reservations, BoundTo(i), i \in DOMAIN reservations',
         Advanced(reservations[i], reservations'[i]), granted'[i] = granted[i]
  PROVE  BoundTo(i)'
<1>1. PICK res \in Reservation : res = reservations[i]
  BY DEF TypeInv, TypeOK
<1>2. res.pool \in DOMAIN pools /\ res.region \in DOMAIN regions /\ res.device \in DOMAIN devices
  BY <1>1 DEF TypeInv, Refs
<1>3. /\ res.pool_generation \in Generation /\ res.region_generation \in Generation
      /\ res.device_generation \in Generation
  BY DEF Reservation
<1>4. PICK new : new = reservations'[i]
  OBVIOUS
<1>5. /\ new.pool = res.pool /\ new.region = res.region /\ new.device = res.device
      /\ new.pool_generation = res.pool_generation
      /\ new.region_generation = res.region_generation
      /\ new.device_generation = res.device_generation
  <2>1. new = [res EXCEPT !.state = new.state]
    BY <1>1, <1>4 DEF Advanced
  <2> QED
    BY <2>1 DEF Reservation
<1>6. Current(res.pool_generation, granted[i].members,
              pools'[res.pool].generation, pools'[res.pool].members)
  <2>1. Current(res.pool_generation, granted[i].members,
                pools[res.pool].generation, pools[res.pool].members)
    BY <1>1 DEF BoundTo
  <2> QED
    BY <1>2, <1>3, <2>1, MembersStayCurrent
<1>7. Current(res.region_generation, granted[i].devices,
              regions'[res.region].generation, regions'[res.region].member_devices)
  <2>1. Current(res.region_generation, granted[i].devices,
                regions[res.region].generation, regions[res.region].member_devices)
    BY <1>1 DEF BoundTo
  <2> QED
    BY <1>2, <1>3, <2>1, ListStaysCurrent
<1>8. Current(res.device_generation, granted[i].device,
              devices'[res.device].generation, devices'[res.device].facts)
  <2>1. Current(res.device_generation, granted[i].device,
                devices[res.device].generation, devices[res.device].facts)
    BY <1>1 DEF BoundTo
  <2> QED
    BY <1>2, <1>3, <2>1, FactsStayCurrent
<1> QED
  BY <1>4, <1>5, <1>6, <1>7, <1>8 DEF BoundTo

\* What is recorded now is current.
LEMMA CurrentNow ==
  ASSUME NEW g \in Nat, NEW fact
  PROVE  Current(g, fact, g, fact)
BY DEF Current

\* A new reservation is bound to the facts it is granted on.
LEMMA GrantBinds ==
  ASSUME TypeInv, FenceInv, AdmissionFrame, NEW res \in Reservation, Reserved(res), Remember,
         \A i \in 1..sequence : granted'[i] = granted[i] => BoundTo(i)'
  PROVE  FenceInv'
<1>0. PICK n : n = sequence + 1
  OBVIOUS
<1>1. sequence \in Nat /\ DOMAIN reservations = 1..sequence
  BY DEF TypeInv, TypeOK
<1>2. granted \in Seq(Grant) /\ Len(granted) = sequence
  BY DEF FenceInv
<1>3. /\ res.pool \in DOMAIN pools /\ res.region \in DOMAIN regions /\ res.device \in DOMAIN devices
      /\ res.pool_generation = pools[res.pool].generation
      /\ res.region_generation = regions[res.region].generation
      /\ res.device_generation = devices[res.device].generation
      /\ reservations' = Put(reservations, n, res) /\ sequence' = n /\ devices' = devices
  BY <1>0 DEF Reserved
<1>4. n # sequence /\ n \in Nat /\ n \notin 1..sequence /\ 1..n = (1..sequence) \cup {n}
  BY <1>0, <1>1
<1>5. reservations'[n] = res /\ DOMAIN reservations' = DOMAIN reservations \cup {n}
  BY <1>3 DEF Put
<1>6. granted' = Append(granted, Facts(res))
  BY <1>3, <1>4, <1>5 DEF Remember
<1>7. Facts(res) \in Grant
  <2>1. /\ pools[res.pool] \in CxlPool /\ regions[res.region] \in CxlRegion
        /\ devices[res.device] \in CxlDevice
    BY <1>3 DEF TypeInv, TypeOK
  <2>2. /\ pools[res.pool].members \in SUBSET PoolMember
        /\ regions[res.region].member_devices \in Seq(DeviceId) /\ devices[res.device].facts \in Nat
    BY <2>1 DEF CxlPool, CxlRegion, CxlDevice
  <2> QED
    BY <2>2 DEF Facts, Grant
<1>8. granted' \in Seq(Grant) /\ Len(granted') = n /\ granted'[n] = Facts(res)
  <2> DEFINE g == Facts(res)
  <2>1. granted' = Append(granted, g) /\ g \in Grant
    BY <1>6, <1>7
  <2> HIDE DEF g
  <2>2. granted' \in Seq(Grant) /\ Len(granted') = n /\ granted'[n] = g
    BY <1>0, <1>1, <1>2, <2>1, SMTT(20)
  <2> QED
    BY <2>2 DEF g
<1>9. BoundTo(n)'
  <2>1. granted'[n] = [members |-> pools[res.pool].members,
                       devices |-> regions[res.region].member_devices,
                       device  |-> devices[res.device].facts]
    BY <1>8 DEF Facts
  <2>a. /\ granted'[n].members = pools[res.pool].members
        /\ granted'[n].devices = regions[res.region].member_devices
        /\ granted'[n].device = devices[res.device].facts
    BY <2>1
  <2>2. /\ pools'[res.pool].generation = res.pool_generation
        /\ pools'[res.pool].members = pools[res.pool].members
    BY <1>3 DEF AdmissionFrame
  <2>3. /\ regions'[res.region].generation = res.region_generation
        /\ regions'[res.region].member_devices = regions[res.region].member_devices
    BY <1>3 DEF AdmissionFrame
  <2>4. devices'[res.device] = devices[res.device] /\ devices[res.device].generation = res.device_generation
    BY <1>3
  <2>5. /\ res.pool_generation \in Nat /\ res.region_generation \in Nat
        /\ res.device_generation \in Nat
    <3>1. /\ res.pool_generation \in Generation /\ res.region_generation \in Generation
          /\ res.device_generation \in Generation
      BY DEF Reservation
    <3> QED
      BY <3>1, GenerationNat
  <2>6. Current(res.pool_generation, granted'[n].members,
                pools'[res.pool].generation, pools'[res.pool].members)
    <3> DEFINE g == res.pool_generation
               x == granted'[n].members
               h == pools'[res.pool].generation
               y == pools'[res.pool].members
    <3>1. g \in Nat /\ h = g /\ y = x
      BY <2>a, <2>2, <2>5
    <3> HIDE DEF g, x, h, y
    <3>2. Current(g, x, h, y)
      BY <3>1, CurrentNow
    <3> QED
      BY <3>2 DEF g, x, h, y
  <2>7. Current(res.region_generation, granted'[n].devices,
                regions'[res.region].generation, regions'[res.region].member_devices)
    <3> DEFINE g == res.region_generation
               x == granted'[n].devices
               h == regions'[res.region].generation
               y == regions'[res.region].member_devices
    <3>1. g \in Nat /\ h = g /\ y = x
      BY <2>a, <2>3, <2>5, SMTT(20)
    <3> HIDE DEF g, x, h, y
    <3>2. Current(g, x, h, y)
      BY <3>1, CurrentNow
    <3> QED
      BY <3>2 DEF g, x, h, y
  <2>8. Current(res.device_generation, granted'[n].device,
                devices'[res.device].generation, devices'[res.device].facts)
    <3> DEFINE g == res.device_generation
               x == granted'[n].device
               h == devices'[res.device].generation
               y == devices'[res.device].facts
    <3>1. g \in Nat /\ h = g /\ y = x
      BY <2>a, <2>4, <2>5, SMTT(20)
    <3> HIDE DEF g, x, h, y
    <3>2. Current(g, x, h, y)
      BY <3>1, CurrentNow
    <3> QED
      BY <3>2 DEF g, x, h, y
  <2> QED
    BY <1>5, <2>6, <2>7, <2>8 DEF BoundTo
<1>10. \A i \in 1..sequence : granted'[i] = granted[i]
  <2> DEFINE g == Facts(res)
  <2>1. granted' = Append(granted, g) /\ g \in Grant
    BY <1>6, <1>7
  <2> HIDE DEF g
  <2> QED
    BY <1>1, <1>2, <2>1
<1>11. \A i \in DOMAIN reservations' : BoundTo(i)'
  BY <1>1, <1>5, <1>9, <1>10
<1> QED
  BY <1>3, <1>8, <1>11 DEF FenceInv

\* Every step of the engine keeps the reservations bound.
LEMMA FenceStep ==
  ASSUME TypeInv, TypeInv', FenceInv, GenBound <= MaxGen, GrowNext \/ ShrinkStep, Remember
  PROVE  FenceInv'
<1>1. PoolsFenced /\ RegionsFenced /\ DevicesFenced
  BY StepFenced
<1>2. /\ granted \in Seq(Grant) /\ Len(granted) = sequence
      /\ \A i \in DOMAIN reservations : BoundTo(i)
  BY DEF FenceInv
<1>3. \A i \in DOMAIN reservations : reservations[i] \in Reservation
  BY DEF TypeInv, TypeOK
<1>4. sequence \in Nat /\ DOMAIN reservations = 1..sequence
  BY DEF TypeInv, TypeOK
<1>5. ASSUME sequence' = sequence, DOMAIN reservations' = DOMAIN reservations,
             \A i \in DOMAIN reservations : Advanced(reservations[i], reservations'[i])
      PROVE  FenceInv'
  <2>1. granted' = granted
    BY <1>5 DEF Remember
  <2>2. \A i \in DOMAIN reservations : BoundTo(i)'
    BY <1>1, <1>2, <1>5, <2>1, StaysBound
  <2> QED
    BY <1>2, <1>5, <2>1, <2>2 DEF FenceInv
<1>6. CASE ~AdmissionStep
  <2>1. UNCHANGED <<reservations, sequence>>
    BY <1>6, OnlyAdmissionGrants
  <2> QED
    BY <1>3, <1>5, <2>1, AdvancedSame
<1>7. CASE AdmissionStep
  <2>1. /\ AdmissionFrame
        /\ \A i \in DOMAIN reservations :
             i \in DOMAIN reservations' /\ Advanced(reservations[i], reservations'[i])
    BY <1>7, AdmissionFacts
  <2>2. ASSUME NEW req \in Requests, NEW ctx \in Context, reserve(req, ctx) PROVE FenceInv'
    <3>1. PICK res \in Reservation : Reserved(res)
      BY <2>2, ReserveFacts
    <3>2. \A i \in 1..sequence : granted'[i] = granted[i] => BoundTo(i)'
      BY <1>1, <1>2, <1>4, <2>1, StaysBound
    <3> QED
      BY <2>1, <3>1, <3>2, GrantBinds
  <2>3. ASSUME NEW id \in DOMAIN reservations, NEW ctx \in Context, commit(id, ctx)
        PROVE  FenceInv'
    <3>1. sequence' = sequence
      BY <2>3 DEF commit
    <3>2. DOMAIN reservations' = DOMAIN reservations
      BY <1>4, <3>1 DEF TypeInv, TypeOK
    <3> QED
      BY <1>5, <2>1, <3>1, <3>2
  <2>4. ASSUME NEW id \in DOMAIN reservations, NEW ctx \in Context, release(id, ctx)
        PROVE  FenceInv'
    <3>1. sequence' = sequence
      BY <2>4 DEF release
    <3>2. DOMAIN reservations' = DOMAIN reservations
      BY <1>4, <3>1 DEF TypeInv, TypeOK
    <3> QED
      BY <1>5, <2>1, <3>1, <3>2
  <2> QED
    BY <1>7, <2>2, <2>3, <2>4 DEF AdmissionStep
<1> QED
  BY <1>6, <1>7

\* A reservation a step commits stands on the facts remembered for it.
Honoured(i) ==
  reservations[i].state = "RESERVED" /\ reservations'[i].state = "COMMITTED"
  => Facts(reservations[i]) = granted[i] /\ reservations[i].created_epoch = epoch

\* commit() compares the three generations and the epoch, and a generation stands for its
\* facts; no other operation commits a reservation.
LEMMA CommitHonours ==
  ASSUME TypeInv, FenceInv, GrowNext \/ ShrinkStep, NEW i \in DOMAIN reservations
  PROVE  Honoured(i)
<1>1. /\ reservations[i] \in Reservation /\ BoundTo(i) /\ granted[i] \in Grant
  BY DEF TypeInv, TypeOK, FenceInv
<1>2. CASE ~AdmissionStep
  BY <1>2, OnlyAdmissionGrants DEF Honoured
<1>3. ASSUME NEW req \in Requests, NEW ctx \in Context, reserve(req, ctx) PROVE Honoured(i)
  <2>1. PICK res \in Reservation : Reserved(res)
    BY <1>3, ReserveFacts
  <2>2. sequence + 1 \notin DOMAIN reservations
    BY DEF TypeInv, TypeOK
  <2>3. reservations'[i] = reservations[i]
    BY <2>1, <2>2 DEF Reserved, Put
  <2> QED
    BY <2>3 DEF Honoured
<1>4. ASSUME NEW id \in DOMAIN reservations, NEW ctx \in Context, commit(id, ctx)
      PROVE  Honoured(i)
  <2>1. CASE i # id
    <3>1. reservations'[i] = reservations[i]
      BY <1>4, <2>1 DEF commit
    <3> QED
      BY <3>1 DEF Honoured
  <2>2. CASE i = id
    <3> DEFINE res == reservations[i]
    <3>1. /\ pools[res.pool].generation = res.pool_generation
          /\ regions[res.region].generation = res.region_generation
          /\ devices[res.device].generation = res.device_generation
          /\ res.created_epoch = epoch
      BY <1>4, <2>2, CommitFacts
    <3>2. /\ granted[i].members = pools[res.pool].members
          /\ granted[i].devices = regions[res.region].member_devices
          /\ granted[i].device = devices[res.device].facts
      BY <1>1, <3>1 DEF BoundTo, Current
    <3>3. granted[i] = [members |-> granted[i].members, devices |-> granted[i].devices,
                        device |-> granted[i].device]
      BY <1>1, Zenon DEF Grant
    <3>4. Facts(res) = granted[i]
      BY <3>2, <3>3, Zenon DEF Facts
    <3> QED
      BY <3>1, <3>4 DEF Honoured
  <2> QED
    BY <2>1, <2>2
<1>5. ASSUME NEW id \in DOMAIN reservations, NEW ctx \in Context, release(id, ctx)
      PROVE  Honoured(i)
  <2>1. \/ reservations' = reservations
        \/ reservations' = [reservations EXCEPT ![id] = [reservations[id] EXCEPT !.state = "RELEASED"]]
    BY <1>5, ReleaseFacts
  <2>2. reservations'[i] = reservations[i] \/ reservations'[i].state = "RELEASED"
    BY <1>1, <2>1 DEF Reservation
  <2> QED
    BY <2>2 DEF Honoured
<1> QED
  BY <1>2, <1>3, <1>4, <1>5 DEF AdmissionStep

\* A commit stands on what the reservation was granted on, for any inputs: the generations a
\* reservation names fence every change of members, of a region's devices and of a device's
\* facts, and the epoch fences restarts.  The generations stay below the largest one, where
\* add_pool_member() and remove_pool_member() have no next generation to advance to.
THEOREM CommitsAreFenced ==
  ASSUME GenBound <= MaxGen
  PROVE  FenceSpec => CommitFenced
<1>1. FenceInit => TypeInv /\ FenceInv
  <2> SUFFICES ASSUME FenceInit PROVE TypeInv /\ FenceInv
    OBVIOUS
  <2>1. Init /\ granted = <<>>
    BY DEF FenceInit
  <2>2. sequence = 0 /\ DOMAIN reservations = {}
    BY <2>1 DEF Init, EmptyMap
  <2> QED
    BY <2>1, <2>2, TypeInit DEF FenceInv
<1>2. TypeInv /\ FenceInv /\ [FenceNext]_fenceVars
      => /\ TypeInv' /\ FenceInv'
         /\ [\A i \in DOMAIN reservations : Honoured(i)]_fenceVars
  <2> SUFFICES ASSUME TypeInv, FenceInv, [FenceNext]_fenceVars
               PROVE  /\ TypeInv' /\ FenceInv'
                      /\ [\A i \in DOMAIN reservations : Honoured(i)]_fenceVars
    OBVIOUS
  <2>1. [Next]_vars
    BY DEF FenceNext, fenceVars, Next
  <2>2. TypeInv'
    BY <2>1, TypeNext
  <2>3. CASE FenceNext
    BY <2>2, <2>3, FenceStep, CommitHonours DEF FenceNext
  <2>4. CASE UNCHANGED fenceVars
    BY <2>2, <2>4 DEF fenceVars, vars, FenceInv, BoundTo
  <2> QED
    BY <2>2, <2>3, <2>4
<1>3. [\A i \in DOMAIN reservations : Honoured(i)]_fenceVars
      => [ \A i \in DOMAIN reservations :
             reservations[i].state = "RESERVED" /\ reservations'[i].state = "COMMITTED"
             => Facts(reservations[i]) = granted[i] /\ reservations[i].created_epoch = epoch
         ]_fenceVars
  BY DEF Honoured
<1> QED
  BY <1>1, <1>2, <1>3, PTL DEF FenceSpec, CommitFenced

=============================================================================
