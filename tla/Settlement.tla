----------------------------- MODULE Settlement -----------------------------
(***************************************************************************)
(* IngestAndSettle: what one report of a transfer does to the database     *)
(* (backend/internal/adapters/postgres/settlement.go, with the observation *)
(* aggregate of payment_observation.go).  A report that the code rejects,  *)
(* or finds to be a duplicate, changes nothing and is not a step.          *)
(***************************************************************************)
EXTENDS PaymentState

Max2(a, b) == IF a >= b THEN a ELSE b

(* domain.CanTransitionTransfer, for the statuses a report may carry. *)
Rank == [observed |-> 1, confirmed |-> 2, finalized |-> 3]

-----------------------------------------------------------------------------
(* insertCanonicalTransfer: the row after report p of e in block b ...     *)
Merged(e, b, p) ==
  IF transfer[e].status \in {"none", "reorged"}
  THEN [status |-> p.status, block |-> b, conf |-> p.conf]
  ELSE [status |-> p.status, block |-> b, conf |-> Max2(transfer[e].conf, p.conf)]

(* ... when the report is actionable: a first sighting is taken as it is, a *)
(* re-inclusion needs its block in canonical history, and any other report *)
(* must name the recorded block and move the row forward.                   *)
Actionable(e, b, p) ==
  \/ transfer[e].status = "none"
  \/ transfer[e].status = "reorged" /\ block[b] = "safe"
  \/ /\ transfer[e].status \in {"observed", "confirmed", "finalized"}
     /\ transfer[e].block = b
     /\ Rank[p.status] >= Rank[transfer[e].status]
     /\ Merged(e, b, p) # transfer[e]

(* Mutant: the status of the route and of its intent is not looked at. *)
ExactRoutesAnyStatus(e, b) ==
  {r \in Route : /\ SameAddress(e, r) /\ RouteInfo[r].asset = TransferInfo[e].asset
                 /\ RouteInfo[r].expected = TransferInfo[e].amount
                 /\ InWindow(Inclusion(e, b), RouteInfo[r])}

(* Mutant: any orphaned transfer may be late, observed on the route or not. *)
ExactRoutesAnyOrphan(e, b) ==
  {r \in Route : /\ SameAddress(e, r) /\ RouteInfo[r].asset = TransferInfo[e].asset
                 /\ RouteInfo[r].expected = TransferInfo[e].amount
                 /\ OpenRoute(r) /\ intent[IntentOf[r]].status \in Payable
                 /\ InWindow(Inclusion(e, b), RouteInfo[r]) \/ transfer[e].status = "reorged"}

(* findSettlementCandidates: the routes the transfer pays to the unit.  An  *)
(* orphaned observation keeps its route although the new time is outside.   *)
ExactRoutes(e, b) ==
  {r \in Route :
     /\ SameAddress(e, r)
     /\ RouteInfo[r].asset = TransferInfo[e].asset
     /\ RouteInfo[r].expected = TransferInfo[e].amount
     /\ OpenRoute(r) /\ intent[IntentOf[r]].status \in Payable
     /\ \/ InWindow(Inclusion(e, b), RouteInfo[r])
        \/ observation[e].finality = "reorged" /\ observation[e].route = r}

(* findPotentialCandidates: nearby routes, ranked; none if tenants mix. *)
NearRoutes(e, b) ==
  {r \in Route :
     /\ SameAddress(e, r)
     /\ OpenRoute(r) /\ intent[IntentOf[r]].status \in Payable
     /\ BlockInfo[b].time + NearWindow >= RouteInfo[r].starts
     /\ BlockInfo[b].time <= RouteInfo[r].grace + NearWindow}

PotentialTenants(e, b) == {TenantOf[IntentOf[r]] : r \in NearRoutes(e, b)}

Potential(e, b) ==
  IF Cardinality(PotentialTenants(e, b)) = 1
  THEN BuildCandidates(Inclusion(e, b), NearRoutes(e, b), RouteInfo, now) ELSE {}

(* belowUnmatchedDustThreshold: too small, and no policy could accept it. *)
IsDust(e, b) ==
  /\ TransferInfo[e].amount <= Dust
  /\ ~\E r \in Route :
       /\ SameAddress(e, r) /\ RouteInfo[r].asset = TransferInfo[e].asset /\ RouteInfo[r].bound
       /\ OpenRoute(r) /\ intent[IntentOf[r]].status \in Payable
       /\ \/ InWindow(Inclusion(e, b), RouteInfo[r])
          \/ /\ RouteInfo[r].policy.acceptLate /\ Late(Inclusion(e, b), RouteInfo[r])
             /\ BlockInfo[b].time <= RouteInfo[r].grace
       /\ TransferInfo[e].amount * 10000
            >= RouteInfo[r].expected * (10000 - RouteInfo[r].policy.bps)

AlreadyClassified(e) ==
  \/ \E m \in matches : m.event = e
  \/ unmatched[e].status \notin {"none", "reorged"}

-----------------------------------------------------------------------------
(* advancePaymentObservation for transfer row t on route r. *)
DesiredFinality(r, t) ==
  IF t.status = "finalized" THEN "finalized"
  ELSE IF t.status = "confirmed" \/ t.conf >= RouteInfo[r].finality THEN "confirmed"
  ELSE "observed"

Fresh(e) == observation[e].finality \in {"none", "reorged"}

(* Mutant: a new generation of an observation counts from one again. *)
AdvancedRestarting(e, r, t) ==
  LET o == observation[e]
      d == DesiredFinality(r, t)
  IN  IF Fresh(e)
      THEN [finality |-> d, route |-> r, generation |-> o.generation + 1,
            version |-> 1, conf |-> t.conf, emitted |-> {}]
      ELSE IF o.finality # d \/ t.conf > o.conf
      THEN [o EXCEPT !.finality = IF Rank[d] > Rank[@] THEN d ELSE @,
                     !.version = @ + 1, !.conf = Max2(@, t.conf)]
      ELSE o

Advanced(e, r, t) ==
  LET o == observation[e]
      d == DesiredFinality(r, t)
  IN  IF Fresh(e)
      THEN [finality |-> d, route |-> r, generation |-> o.generation + 1,
            version |-> o.version + 1, conf |-> t.conf, emitted |-> {}]
      ELSE IF o.finality # d \/ t.conf > o.conf
      THEN [o EXCEPT !.finality = IF Rank[d] > Rank[@] THEN d ELSE @,
                     !.version = @ + 1, !.conf = Max2(@, t.conf)]
      ELSE o

(* linkObservationEvent: each type once per generation. *)
Emitting(o, type) == [o EXCEPT !.emitted = @ \cup {type}]

(* The observation belongs to one route for ever (binding check). *)
Binds(e, r) == observation[e].finality = "none" \/ observation[e].route = r

(* observationLifecycleEvent *)
LifecycleEvent(e, r, t) ==
  LET o == Advanced(e, r, t)
  IN  IF t.status = "finalized" THEN "none"
      ELSE IF o.finality = "confirmed"
      THEN IF "payment.confirming" \in o.emitted THEN "none" ELSE "payment.confirming"
      ELSE IF Fresh(e) THEN "payment.observed" ELSE "none"

(* Mutant: the intent takes the name of the callback. *)
ObservedIntentMisnamed(i, type) ==
  IF intent[i].status \in {"pending", "observed", "confirmed", "reorg_review"}
  THEN NewStatus(i, IF type = "payment.confirming" THEN "confirming" ELSE "observed") ELSE intent

(* advanceObservedIntent *)
ObservedIntent(i, type) ==
  LET target == IF type = "payment.confirming" THEN "confirmed" ELSE "observed"
  IN  IF intent[i].status \in {"pending", "observed", "confirmed", "reorg_review"} \ {target}
      THEN NewStatus(i, target) ELSE intent

(* The report only moves the observation of its route, and its callback. *)
Observe(e, r, t) ==
  LET o    == Advanced(e, r, t)
      type == LifecycleEvent(e, r, t)
  IN  /\ Binds(e, r)
      /\ IF type = "none"
         THEN /\ observation' = [observation EXCEPT ![e] = o]
              /\ UNCHANGED <<intent, outbox>>
         ELSE /\ observation' = [observation EXCEPT ![e] = Emitting(o, type)]
              /\ intent' = ObservedIntent(IntentOf[r], type)
              /\ outbox' = outbox \cup {ObservationEvent(e, o.version, type)}
      /\ UNCHANGED <<route, reservation, triageVars, moneyVars, jobVars>>

-----------------------------------------------------------------------------
(* Posting a settlement of route r: the intent is paid, its other routes    *)
(* and their amount reservations are given up.                              *)
SettledRoutes(r) ==
  [x \in Route |-> IF IntentOf[x] = IntentOf[r] /\ OpenRoute(x)
                   THEN IF x = r THEN "settled" ELSE "superseded" ELSE route[x]]

SettledReservations(r) ==
  [x \in Route |-> IF IntentOf[x] = IntentOf[r] /\ reservation[x] = "active"
                   THEN IF x = r THEN "consumed" ELSE "released" ELSE reservation[x]]

Posting(corr, r, amount) ==
  [id |-> nextId, corr |-> corr, intent |-> IntentOf[r], route |-> r, amount |-> amount]

(* The exact settlement: observation, match, ledger, intent, routes,        *)
(* reservations and notification in one transaction.                        *)
Settle(e, r, t) ==
  LET i == IntentOf[r]
  IN  /\ Binds(e, r)
      /\ observation' = [observation EXCEPT ![e] =
                           Emitting(Advanced(e, r, t), "payment.settled")]
      /\ matches' = matches \cup
           {[event |-> e, route |-> r, aggregate |-> 0, state |-> "finalized"]}
      /\ ledger' = ledger \cup {Posting(e, r, TransferInfo[e].amount)}
      /\ nextId' = nextId + 1
      /\ intent' = NewStatus(i, "settled")
      /\ route' = SettledRoutes(r)
      /\ reservation' = SettledReservations(r)
      /\ outbox' = outbox \cup {IntentEvent(i, intent[i].version + 1, "payment.settled")}
      /\ UNCHANGED <<triageVars, jobVars, reversal>>

-----------------------------------------------------------------------------
(* recordExceptionIntent: candidate c leaves its intent under review. *)
Reviewable == Payable \ {"reorg_review"}

ExceptionStatus(c) == IF c.class = "partial" THEN "partially_paid" ELSE "needs_review"

RecordException(c) ==
  LET i == IntentOf[c.route]
      s == ExceptionStatus(c)
  IN  IF intent[i].status \in Reviewable
      THEN /\ intent' = NewStatus(i, s)
           /\ outbox' = outbox \cup {IntentEvent(i, intent[i].version + 1,
                IF s = "partially_paid" THEN "payment.partially_paid" ELSE "payment.needs_review")}
      ELSE UNCHANGED <<intent, outbox>>

(* enqueueAutomatedMatchingCandidates: a leased job is only flagged. *)
Flagged(j) == [j EXCEPT !.resched = TRUE]
Woken(j)   == [j EXCEPT !.status = "pending",
                        !.due = IF j.status = "none" \/ j.due > now THEN now ELSE j.due]

Enqueued(r) ==
  [job EXCEPT ![r] = IF job[r].status = "leased" THEN Flagged(@) ELSE Woken(@)]

(* match_candidates rows already there, by route or by rank, are kept. *)
RankOf(c, C) == Cardinality({d \in C : RanksBefore(d, c)}) + 1

Stored(e, C) ==
  candidates[e] \cup
    {[route |-> c.route, order |-> c.order, rank |-> RankOf(c, C), class |-> c.class,
      score |-> c.score, delta |-> c.delta, reasons |-> c.reasons] :
       c \in {c \in C : \A d \in candidates[e] : d.route # c.route /\ d.rank # RankOf(c, C)}}

(* No exact route, or several: the transfer waits in the unmatched queue,   *)
(* unless it is dust; its ranked candidates decide who is told.             *)
Classify(e, b) ==
  LET C        == Potential(e, b)
      selected == SelectAutomatic(C, RouteInfo, {r \in Route : OpenRoute(r)})
  IN  /\ UNCHANGED <<observation, route, reservation, resolution, moneyVars, aggregate>>
      /\ IF ExactRoutes(e, b) = {} /\ IsDust(e, b)
         THEN /\ unmatched' = IF unmatched[e].status = "none"
                              THEN [unmatched EXCEPT ![e] = WithStatus(@, "ignored")]
                              ELSE unmatched
              /\ UNCHANGED <<candidates, intent, outbox, job>>
         ELSE /\ unmatched' = [unmatched EXCEPT ![e] =
                   [status   |-> IF C # {} THEN "candidates_ready" ELSE "new",
                    tenant   |-> IF C # {} THEN CHOOSE t \in PotentialTenants(e, b) : TRUE
                                           ELSE NoTenant,
                    selected |-> unmatched[e].selected]]
              /\ candidates' = [candidates EXCEPT ![e] = Stored(e, C)]
              /\ IF UniqueAutomatic(C) \/ (selected = {} /\ C # {})
                 THEN RecordException(First(C)) ELSE UNCHANGED <<intent, outbox>>
              /\ job' = LET q == {r \in Route : RouteInfo[r].bound /\ \E c \in selected :
                                   c.route = r /\ c.class \notin {"wrong_asset", "ambiguous"}}
                        IN  IF q = {} THEN job ELSE Enqueued(CHOOSE r \in q : TRUE)

-----------------------------------------------------------------------------
(* IngestAndSettle(e): the whole transaction for report p of e in block b. *)
ExactRoute(e, b) == CHOOSE r \in Route : r \in ExactRoutes(e, b)

Ingest(e, b, p) ==
  LET t     == Merged(e, b, p)
      exact == ExactRoutes(e, b)
      r     == ExactRoute(e, b)
      one   == Cardinality(exact) = 1
      onlyTransfer == UNCHANGED <<observation, intent, route, reservation, triageVars,
                                  moneyVars, jobVars, outbox>>
  IN  /\ e \in BlockInfo[b].includes
      /\ block[b] # "unseen" \/ b \in ProofBlocks
      /\ Actionable(e, b, p)
      /\ transfer' = [transfer EXCEPT ![e] = t]
      /\ UNCHANGED chainVars
      /\ \/ t.status # "finalized" /\ one /\ Observe(e, r, t)
         \/ t.status # "finalized" /\ ~one /\ onlyTransfer
         \/ t.status = "finalized" /\ AlreadyClassified(e) /\ onlyTransfer
         \/ t.status = "finalized" /\ ~AlreadyClassified(e) /\ ~one /\ Classify(e, b)
         \/ /\ t.status = "finalized" /\ ~AlreadyClassified(e) /\ one
            /\ t.conf < RouteInfo[r].finality /\ Observe(e, r, t)
         \/ /\ t.status = "finalized" /\ ~AlreadyClassified(e) /\ one
            /\ t.conf >= RouteInfo[r].finality /\ Settle(e, r, t)
=============================================================================
