------------------------------ MODULE Failover ------------------------------
(***************************************************************************)
(* Fabric::plan_failover() (src/core/fabric.cpp): which capacity to use in *)
(* place of a failed device.  The call only reads; it looks at the states  *)
(* the engine reaches, so it is an operator over the variables of Fabric.  *)
(* The domain of the failed device is the one its pool member names, that  *)
(* of a replacement the one the device was observed in.                    *)
(***************************************************************************)
EXTENDS Fabric

\* The domain of the member with device f, in the last pool that has one; 0 if none.
failed_domain(f) ==
  LET governing == {p \in DOMAIN pools : Governs(p, f)}
  IN  IF governing = {} THEN 0
      ELSE LET last == CHOOSE p \in governing : \A q \in governing : q <= p
           IN  (CHOOSE m \in pools[last].members : m.device = f).failure_domain

\* (Mutant: the constraints of the request are not looked at.)
Replacements_unchecked(pool_id, f, req) ==
  {c \in Candidates(Snapshot) : c[2] # f /\ pool_id \in {0, regions[c[1]].pool}}

\* The <<region, device>> pairs that pass the skips of the loops and the constraints.
Replacements(pool_id, f, req) ==
  {c \in (DOMAIN regions) \X (DOMAIN devices) :
     LET reg == regions[c[1]]
     IN  /\ reg.pool \in DOMAIN pools /\ pool_id \in {0, reg.pool}
         /\ pools[reg.pool].evidence_current
         /\ reg.evidence_current /\ reg.state = "ONLINE"
         /\ c[2] \in Range(reg.member_devices) /\ c[2] # f
         /\ devices[c[2]].evidence_current /\ devices[c[2]].state = "ONLINE"
         /\ Verdict(Snapshot, c, req) = "OK"}

same_domain(c, f) == failed_domain(f) # 0 /\ devices[c[2]].profile.notes = failed_domain(f)

\* The first candidate of a set, in the order of the loops.
Front(cs) ==
  CHOOSE c \in cs : \A d \in cs : LexLeq(EvaluationKey(Snapshot, c), EvaluationKey(Snapshot, d))

\* (Mutant: the first replacement is taken, whatever its domain.)
plan_failover_first(pool_id, f, req) ==
  LET all == Replacements(pool_id, f, req)
  IN  IF all = {} THEN [outcome |-> "REJECT", replacement |-> <<>>]
      ELSE [outcome |-> IF same_domain(Front(all), f) THEN "DEGRADED" ELSE "FAILOVER",
            replacement |-> Front(all)]

plan_failover(pool_id, f, req) ==
  LET all   == Replacements(pool_id, f, req)
      cross == {c \in all : ~same_domain(c, f)}
  IN  IF cross # {} THEN [outcome |-> "FAILOVER", replacement |-> Front(cross)]
      ELSE IF all # {} THEN [outcome |-> "DEGRADED", replacement |-> Front(all)]
      ELSE [outcome |-> "REJECT", replacement |-> <<>>]

----------------------------------------------------------------------------
(* Properties *)

\* Every member of a pool was observed in the failure domain its pool records for it.
DomainsAgree ==
  \A p \in DOMAIN pools : \A m \in pools[p].members :
    devices[m.device].profile.notes = m.failure_domain

\* The domain the pools record for device d, or the one it was observed in if it is in none.
DomainOf(d) ==
  IF \E p \in DOMAIN pools : Governs(p, d) THEN failed_domain(d) ELSE devices[d].profile.notes

\* What admission could use instead of f in the pool: the candidates that pass selection.
Usable(pool_id, f, req) ==
  {c \in Passing(Snapshot, req) : c[2] # f /\ pool_id \in {0, regions[c[1]].pool}}

\* plan_failover() repeats the loops of build_selection() in its own words.  Whatever was
\* registered, drained, failed and reserved before: it finds a replacement exactly when
\* admission would, it leaves the failed domain exactly when some usable capacity does,
\* and what it names is usable and in the domain the outcome says.  (A
\* device in no pool has no domain, and then all usable capacity counts as outside it.)
FailoverIsBest ==
  DomainsAgree => \A pool_id \in PoolId \cup {0}, f \in DeviceId, req \in Requests :
    LET plan    == plan_failover(pool_id, f, req)
        usable  == Usable(pool_id, f, req)
        outside == {c \in usable : failed_domain(f) \notin {0, DomainOf(c[2])}}
        far     == IF failed_domain(f) = 0 THEN usable ELSE outside
    IN  /\ plan.outcome = IF far # {} THEN "FAILOVER"
                          ELSE IF usable # {} THEN "DEGRADED" ELSE "REJECT"
        /\ plan.outcome = "FAILOVER" => plan.replacement \in far
        /\ plan.outcome = "DEGRADED" => plan.replacement \in usable

\* A plan can be followed: once the failed device is marked, a reservation in the pool of
\* the replacement is granted, and not on the failed device, unless the pool as a whole is
\* full, which plan_failover() does not look at.
PlanCanBeFollowed ==
  \A f \in DOMAIN devices, req \in Requests, ctx \in Context :
    LET plan == plan_failover(0, f, req)
        pool == regions[plan.replacement[1]].pool
        ask  == [req EXCEPT !.required_pool = pool]
    IN  /\ plan.outcome # "REJECT" /\ ~devices[f].evidence_current
        /\ ctx.coordinator_epoch = epoch /\ req.bytes # 0 /\ req.required_pool = 0
        => /\ reserve_reason(ask, ctx) \in {"OK", "CAPACITY_OVERCOMMIT"}
           /\ reserve_reason(ask, ctx) # "OK" => pool_free(pools[pool]) < req.bytes
           /\ \A c \in Passing(Snapshot, ask) : c[2] # f

=============================================================================
