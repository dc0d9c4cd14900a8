------------------------------ MODULE Matching ------------------------------
(***************************************************************************)
(* Automated matching (backend/internal/adapters/postgres and application, *)
(* matching_automation.go): a leased job per policy-bound route gathers    *)
(* the finalized transfers that belong to the route, decides to settle,    *)
(* to keep collecting or to ask for review, and applies the decision in    *)
(* one transaction.  Gas-free fee siblings are not modelled.               *)
(*                                                                         *)
(* policy is [bps, acceptLate, accumulate, sameSender, over].              *)
(***************************************************************************)
EXTENDS Reorg, FiniteSetsExt

TimeOf(e)  == BlockInfo[transfer[e].block].time
Tenancy(r) == TenantOf[IntentOf[r]]

Earlier(e, f) == \/ TimeOf(e) < TimeOf(f)
                 \/ TimeOf(e) = TimeOf(f) /\ TransferInfo[e].order < TransferInfo[f].order

(* Mutant: confirmations are enough, whatever the status. *)
PolicyEventsUnfinal(r) ==
  {e \in Transfer :
     /\ transfer[e].status # "none" /\ transfer[e].conf >= RouteInfo[r].finality
     /\ SameAddress(e, r) /\ TransferInfo[e].asset = RouteInfo[r].asset
     /\ RouteInfo[r].starts <= TimeOf(e) /\ TimeOf(e) <= RouteInfo[r].grace
     /\ \A m \in matches : m.event = e => m.route = r}

(* loadAutomatedMatchingEvents: final transfers to the route's address in   *)
(* its window or grace, unless another route's match has them.              *)
PolicyEvents(r) ==
  {e \in Transfer :
     /\ transfer[e].status = "finalized"
     /\ transfer[e].conf >= RouteInfo[r].finality
     /\ SameAddress(e, r) /\ TransferInfo[e].asset = RouteInfo[r].asset
     /\ RouteInfo[r].starts <= TimeOf(e) /\ TimeOf(e) <= RouteInfo[r].grace
     /\ \A m \in matches : m.event = e => m.route = r}

(* loadAutomaticEventOwner: the stored ranking names the one route that may *)
(* take the transfer, no route, or a tie that can no longer be trusted.     *)
Ranking(e, r) ==
  IF unmatched[e].status \in {"new", "candidates_ready", "bound"}
       /\ unmatched[e].tenant = Tenancy(r)
  THEN candidates[e] ELSE {}

Owner(e, r) ==
  {c.route : c \in SelectAutomatic(Ranking(e, r), RouteInfo, {x \in Route : OpenRoute(x)})}

Rejected(e, r) == /\ Cardinality(Tied(Ranking(e, r))) > 1
                  /\ First(Ranking(e, r)).score = 100
                  /\ Owner(e, r) = {}

(* filterAutomatedMatchingEvents *)
OwnEvents(r)     == {e \in PolicyEvents(r) : Owner(e, r) \subseteq {r}}
UnknownEvents(r) == {e \in PolicyEvents(r) : Owner(e, r) = {}}

(* A transfer without an owner is ambiguous if another bound route could    *)
(* take it too; grace alone counts only against a late transfer.            *)
Ambiguous(r) ==
  \/ \E e \in PolicyEvents(r) : Rejected(e, r)
  \/ \E e \in UnknownEvents(r), x \in Route \ {r} :
       /\ SameAddress(e, x) /\ RouteInfo[x].asset = TransferInfo[e].asset
       /\ RouteInfo[x].bound /\ OpenRoute(x)
       /\ RouteInfo[x].starts <= TimeOf(e) /\ TimeOf(e) <= RouteInfo[x].grace
       /\ TimeOf(e) >= RouteInfo[r].expires \/ TimeOf(e) <= RouteInfo[x].expires

-----------------------------------------------------------------------------
(* EvaluateAutomatedMatch over the events E of route r. *)
Received(E) == MapThenSumSet(LAMBDA e : TransferInfo[e].amount, E)

Decision(outcome, E, credited) == [outcome |-> outcome, events |-> E, credited |-> credited]

(* The allocations made before a second sender is met. *)
SameSenderPrefix(E) ==
  {e \in E : \A f \in E : Earlier(f, e) \/ f = e =>
     \A g \in E : Earlier(g, f) => TransferInfo[g].sender = TransferInfo[f].sender}

TooLate(r, E) == \E e \in E : /\ Late([time |-> TimeOf(e)], RouteInfo[r])
                              /\ TimeOf(e) > AutomaticLateDeadline(RouteInfo[r])

(* The policy takes the exact sum, a shortfall within its tolerance, and,   *)
(* unless it wants a review, an excess.                                     *)
Accepts(r, sum) ==
  LET rt == RouteInfo[r]
  IN  \/ sum = rt.expected
      \/ WithinUnderpayment(sum, rt.expected, rt.policy.bps)
      \/ sum > rt.expected /\ rt.policy.over # "review"

Collects(r, sum) ==
  /\ sum < RouteInfo[r].expected /\ RouteInfo[r].policy.accumulate
  /\ now < AutomaticLateDeadline(RouteInfo[r])

Credited(r, sum) == IF sum > RouteInfo[r].expected /\ RouteInfo[r].policy.over = "credit_expected"
                    THEN RouteInfo[r].expected ELSE sum

Evaluate(r, E) ==
  LET sum == Received(E)
  IN  IF RouteInfo[r].policy.sameSender /\ SameSenderPrefix(E) # E
      THEN Decision("review", SameSenderPrefix(E), 0)
      ELSE CASE E = {} \/ TooLate(r, E)  -> Decision("review", E, 0)
             [] E # {} /\ ~TooLate(r, E) /\ Accepts(r, sum) -> Decision("settle", E, Credited(r, sum))
             [] E # {} /\ ~TooLate(r, E) /\ ~Accepts(r, sum) /\ Collects(r, sum)
                                          -> Decision("collect", E, sum)
             [] OTHER                     -> Decision("review", E, 0)

(* failClosedAmbiguousDecision allocates nothing. *)
DecisionFor(r) == IF Ambiguous(r) THEN Decision("review", {}, 0) ELSE Evaluate(r, OwnEvents(r))

-----------------------------------------------------------------------------
Leased(j)    == [j EXCEPT !.status = "leased", !.live = TRUE]
Abandoned(j) == [j EXCEPT !.live = FALSE]

(* ClaimAutomatedMatching: only pending and retry jobs are claimed. *)
ClaimMatching(r) ==
  /\ job[r].status \in {"pending", "retry"}
  /\ job[r].due <= now
  /\ job' = [job EXCEPT ![r] = Leased(@)]
  /\ UNCHANGED <<chainVars, paymentVars, triageVars, moneyVars, aggregate, outbox>>

(* The worker stops, or its 30 s lease runs out, before it reports. *)
LoseMatchingLease(r) ==
  /\ job[r].live
  /\ job' = [job EXCEPT ![r] = Abandoned(@)]
  /\ UNCHANGED <<chainVars, paymentVars, triageVars, moneyVars, aggregate, outbox>>

(* RetryAutomatedMatching after a failed reconciliation; the twentieth      *)
(* attempt is the last.  The backoff is below the clock's grain.            *)
RetryMatching(r, s) ==
  /\ job[r].live
  /\ s \in {"retry", "dead_letter"}
  /\ job' = [job EXCEPT ![r] = [status |-> s, resched |-> @.resched, due |-> now, live |-> FALSE]]
  /\ UNCHANGED <<chainVars, paymentVars, triageVars, moneyVars, aggregate, outbox>>

(* Mutant: the reschedule flag is cleared without being read. *)
FinishedForgetful(r, s, next) ==
  [job EXCEPT ![r] = [status |-> s, resched |-> FALSE, due |-> next, live |-> FALSE]]

(* finishAutomatedMatchingJob: work that arrived meanwhile runs at once. *)
Finished(r, s, next) ==
  [job EXCEPT ![r] = [status  |-> IF job[r].resched /\ s = "completed" THEN "pending" ELSE s,
                      resched |-> FALSE,
                      due     |-> IF job[r].resched /\ job[r].due < next THEN job[r].due ELSE next,
                      live    |-> FALSE]]

(* upsertAutomatedAggregate: the route's open aggregate is reused. *)
AggregateId(r) == IF aggregate[r].state = "none" THEN nextId ELSE aggregate[r].id

(* Mutant: allocations are inserted beside the ones already there. *)
AllocatedAgain(r, E, s) ==
  matches \cup {[event |-> e, route |-> r, aggregate |-> AggregateId(r), state |-> s] : e \in E}

(* persistAutomatedAllocations *)
Allocated(r, E, s) ==
  {m \in matches : m.event \notin E}
    \cup {[event |-> e, route |-> r, aggregate |-> AggregateId(r), state |-> s] : e \in E}

Allocatable(r, E) ==
  \A m \in matches : m.event \in E => m.route = r /\ m.aggregate = AggregateId(r)

Marked(r, E, from, s, sel) ==
  [e \in Transfer |->
     IF e \in E /\ unmatched[e].status \in from /\ unmatched[e].tenant = Tenancy(r)
     THEN Assigned(unmatched[e], s, sel) ELSE unmatched[e]]

Collect(r, d) ==
  /\ Allocatable(r, d.events)
  /\ matches' = Allocated(r, d.events, "proposed")
  /\ unmatched' = Marked(r, d.events, {"new", "candidates_ready", "bound"}, "bound", r)
  /\ intent' = IF intent[IntentOf[r]].status \in {"pending", "observed", "partially_paid", "needs_review"}
               THEN NewStatus(IntentOf[r], "partially_paid") ELSE intent
  /\ job' = Finished(r, "pending", AutomaticLateDeadline(RouteInfo[r]))
  /\ UNCHANGED <<route, reservation, ledger, outbox>>

Review(r, d) ==
  /\ matches' = {m \in matches : m.aggregate # AggregateId(r) \/ m.state # "proposed"}
  /\ unmatched' = Marked(r, d.events, {"bound"}, "candidates_ready", NoRoute)
  /\ job' = Finished(r, "completed", now)
  /\ UNCHANGED <<intent, route, reservation, ledger, outbox>>

(* Mutant: the intent's status is not compared. *)
FinalizableAlways(i) == TRUE

(* finalizeAutomatedIntent's compare-and-set on the intent. *)
Finalizable(i) == intent[i].status \in Payable

(* Allocations, ledger and finalizeAutomatedIntent: sibling routes keep     *)
(* their status and reservation.                                            *)
SettleAggregate(r, d) ==
  LET i    == IntentOf[r]
      over == Received(d.events) > RouteInfo[r].expected
  IN  /\ Allocatable(r, d.events)
      /\ Finalizable(i)
      /\ matches' = Allocated(r, d.events, "finalized")
      /\ ledger' = ledger \cup {[id |-> AggregateId(r), corr |-> AggregateId(r), intent |-> i,
                                 route |-> r, amount |-> d.credited]}
      /\ intent' = NewStatus(i, IF over THEN "overpaid" ELSE "settled")
      /\ route' = IF OpenRoute(r) THEN [route EXCEPT ![r] = "settled"] ELSE route
      /\ reservation' = IF reservation[r] = "active"
                        THEN [reservation EXCEPT ![r] = "consumed"] ELSE reservation
      /\ unmatched' = Marked(r, d.events, UnmatchedStatus \ {"none", "reorged"}, "resolved", r)
      /\ outbox' = outbox \cup {IntentEvent(i, intent[i].version + 1,
                                IF over THEN "payment.overpaid" ELSE "payment.settled")}
      /\ job' = Finished(r, "completed", now)

(* ReconcileAutomatedMatching: one fenced transaction; a settled aggregate  *)
(* or a conflicting match makes it fail.                                    *)
Reconcile(r) ==
  LET d     == DecisionFor(r)
      state == [collect |-> "collecting", review |-> "review", settle |-> "settled"]
  IN  /\ job[r].status = "leased" /\ job[r].live
      /\ aggregate[r].state # "settled"
      /\ aggregate' = [aggregate EXCEPT ![r] = [id |-> AggregateId(r), state |-> state[d.outcome]]]
      /\ nextId' = IF aggregate[r].state = "none" THEN nextId + 1 ELSE nextId
      /\ \/ d.outcome = "collect" /\ Collect(r, d)
         \/ d.outcome = "review"  /\ Review(r, d)
         \/ d.outcome = "settle"  /\ SettleAggregate(r, d)
      /\ UNCHANGED <<chainVars, transfer, observation, candidates, resolution, reversal>>
=============================================================================
