------------------------------ MODULE Payments ------------------------------
(***************************************************************************)
(* The payment core: transfers are reported, blocks are admitted and       *)
(* replaced, invoices are cancelled and expire, matching jobs and manual   *)
(* resolutions run, all over one database.                                 *)
(***************************************************************************)
EXTENDS Matching, Manual

(* The intent statuses domain.intentTransitions lets be cancelled (expired). *)
Cancellable == {"created", "awaiting_route_selection", "pending"}
(* Mutant: settled invoices expire like the others. *)
ExpirableSettled == {"created", "awaiting_route_selection", "pending", "partially_paid", "settled"}

Expirable   == Cancellable \cup {"partially_paid"}

(* Store.CancelIntent: the reservation is kept until the grace is over. *)
CancelIntent(i) ==
  /\ intent[i].status \in Cancellable
  /\ intent' = NewStatus(i, "cancelled")
  /\ route' = [r \in Route |-> IF IntentOf[r] = i /\ route[r] = "active"
                               THEN "cancelled" ELSE route[r]]
  /\ outbox' = outbox \cup {IntentEvent(i, intent[i].version + 1, "payment.cancelled")}
  /\ UNCHANGED <<chainVars, transfer, observation, reservation, triageVars, moneyVars, jobVars>>

(* Store.ExpireDueIntents, one due intent. *)
ExpireDueIntent(i) ==
  /\ intent[i].status \in Expirable
  /\ ExpiresAt[i] <= now
  /\ intent' = NewStatus(i, "expired")
  /\ route' = [r \in Route |-> IF IntentOf[r] = i /\ route[r] = "active"
                               THEN "expired" ELSE route[r]]
  /\ outbox' = outbox \cup {IntentEvent(i, intent[i].version + 1, "payment.expired")}
  /\ UNCHANGED <<chainVars, transfer, observation, reservation, triageVars, moneyVars, jobVars>>

(* Store.ReleaseElapsedRouteGrace, one reservation. *)
ReleaseElapsedRouteGrace(r) ==
  /\ reservation[r] = "active"
  /\ RouteInfo[r].grace <= now
  /\ route[r] \in {"expired", "cancelled", "settled"}
  /\ reservation' = [reservation EXCEPT ![r] = "released"]
  /\ UNCHANGED <<chainVars, transfer, observation, intent, route, triageVars, moneyVars,
                 jobVars, outbox>>

Tick ==
  /\ now < MaxTime
  /\ now' = now + 1
  /\ UNCHANGED <<block, cursor, rewinds, paymentVars, triageVars, moneyVars, jobVars, outbox>>

Next ==
  \/ \E b \in Block : AdmitBlock(b)
  \/ \E e \in Transfer, b \in Block, p \in Report : Ingest(e, b, p)
  \/ \E h \in 0..cursor : RewindReorg(h)
  \/ \E i \in Intent : CancelIntent(i)
  \/ \E i \in Intent : ExpireDueIntent(i)
  \/ \E r \in Route : ReleaseElapsedRouteGrace(r)
  \/ Tick
  \/ \E r \in Route : ClaimMatching(r)
  \/ \E r \in Route : LoseMatchingLease(r)
  \/ \E r \in Route, s \in JobStatus : RetryMatching(r, s)
  \/ \E r \in Route : Reconcile(r)
  \/ \E e \in Transfer, r \in Route, A \in AcceptChoices : RequestResolution(e, r, A)
  \/ \E k \in DOMAIN resolution : ClaimResolution(k)
  \/ \E k \in DOMAIN resolution : LoseResolutionLease(k)
  \/ \E k \in DOMAIN resolution : ApplyResolution(k)
  \/ \E k \in DOMAIN resolution : RejectResolution(k)
  \/ \E k \in DOMAIN resolution, s \in ResolutionStatus : RetryResolution(k, s)

Spec == Init /\ [][Next]_stateVars
-----------------------------------------------------------------------------
(* PaidOnce: an intent never has two settlement postings in force, whatever *)
(* reports, duplicates and reorganisations arrive (IngestAndSettle).        *)
PaidOnce == \A l, k \in Live : l.intent = k.intent => l = k

(* SettledIffPosted: an intent reads settled or overpaid exactly while a    *)
(* posting for it is in force; compensation never leaves one without the    *)
(* other.                                                                   *)
SettledIffPosted ==
  \A i \in Intent : intent[i].status \in Paid <=> \E l \in Live : l.intent = i

(* KeepsAccount: the payment tables implement the books of module Account:  *)
(* every transaction posts one settlement of an unpaid invoice, voids all   *)
(* that is in force for some paid invoices, or leaves the books alone.      *)
PaidIntents == {i \in Intent : intent[i].status \in Paid}
Books == INSTANCE Account WITH posted <- {[id |-> l.id, intent |-> l.intent] : l \in ledger},
                               voided <- reversal, paid <- PaidIntents
KeepsAccount == Books!Spec

(* IdsDistinct: a posting's identifier is never used again, neither for     *)
(* another posting nor by an aggregate still open on any route, so a        *)
(* reversal can only speak for the posting it was written for               *)
(* (upsertAutomatedAggregate reuses a route's open aggregate).              *)
OpenAggregate(r) == aggregate[r].state \in {"collecting", "review"}
IdsDistinct ==
  /\ \A l, k \in ledger : l.id = k.id => l = k
  /\ \A l \in ledger : l.id < nextId
  /\ reversal \subseteq {l.id : l \in ledger}
  /\ \A r \in Route : OpenAggregate(r) =>
       /\ aggregate[r].id < nextId
       /\ \A l \in ledger : l.id # aggregate[r].id
       /\ \A x \in Route \ {r} : OpenAggregate(x) => aggregate[x].id # aggregate[r].id

(* EventMatchedOnce: a transfer has at most one unreversed match, so the    *)
(* payment_matches unique index never fails a settlement.                   *)
EventMatchedOnce == \A m, n \in matches : m.event = n.event => m = n

(* Backed: every posting in force credits something, and at most what the   *)
(* transfers with a final match on it brought, so a reorganisation of any   *)
(* of them finds it (loadReorgSettlements goes from the transfer to the     *)
(* match to the posting).                                                   *)
BackedBy(l) == {m.event : m \in {m \in matches :
                 m.route = l.route /\ m.state = "finalized" /\ Correlation(m) = l.corr}}
Backed == \A l \in Live : 0 < l.amount /\ l.amount <= Received(BackedBy(l))

(* MatchedAreFinal: money is only ever matched to a transfer whose row      *)
(* still says finalized; a reorganised or merely observed one pays nothing. *)
MatchedAreFinal ==
  \A m \in matches : transfer[m.event].status = "finalized"

(* OutboxSequenced: no two events share an aggregate sequence, and none is  *)
(* ahead of its aggregate's version, so that the outbox unique key never    *)
(* aborts a settlement or a compensation.                                   *)
OutboxSequenced ==
  /\ \A x, y \in outbox : x.kind = y.kind /\ x.of = y.of /\ x.seq = y.seq => x = y
  /\ \A x \in outbox : x.seq <= IF x.kind = "intent" THEN intent[x.of].version
                                                    ELSE observation[x.of].version

(* MerchantTold: the last money event an intent announced agrees with its   *)
(* status: paid after payment.settled or payment.overpaid, not paid after   *)
(* payment.reorged.                                                         *)
MoneyEvent(i) == {x \in outbox : /\ x.kind = "intent" /\ x.of = i
                   /\ x.type \in {"payment.settled", "payment.overpaid", "payment.reorged"}}
MerchantTold ==
  \A i \in Intent :
    intent[i].status \in Paid <=>
      \E x \in MoneyEvent(i) : /\ x.type # "payment.reorged"
                               /\ \A y \in MoneyEvent(i) : y.seq <= x.seq

(* OrphansUnpaid: a transfer marked reorged pays for nothing and awaits no  *)
(* operator: its matches are reversed and its unmatched row is closed.      *)
OrphansUnpaid ==
  \A e \in Transfer : transfer[e].status = "reorged" =>
    /\ \A m \in matches : m.event # e
    /\ observation[e].finality \in {"none", "reorged"}
    /\ unmatched[e].status \in {"none", "reorged"}

(* AggregatePosted: a route's aggregate reads settled exactly while its      *)
(* posting is in force, and proposed matches belong to an aggregate that is *)
(* still collecting (ReconcileAutomatedMatching, compensateSettlement).     *)
AggregatePosted ==
  /\ \A r \in Route : aggregate[r].state = "settled" <=>
       \E l \in Live : l.route = r /\ l.corr = aggregate[r].id
  /\ \A m \in matches : m.aggregate # 0 =>
       /\ aggregate[m.route].id = m.aggregate
       /\ m.state = "proposed" <=> aggregate[m.route].state = "collecting"

(* Authorised: a single transfer is credited to a route of another asset,   *)
(* for less than its amount or after its expiry only if a completed         *)
(* resolution accepted that.  For the expiry there is one other excuse: the *)
(* transfer had been observed on this very route, and a reorganisation had  *)
(* taken that observation back before the step (findSettlementCandidates,   *)
(* ApplyFinalizedResolution).  What counts is the inclusion on record when  *)
(* the money is posted, not the one a worker read earlier.                  *)
AcceptedFor(l, x) == \E k \in DOMAIN resolution :
  /\ resolution[k].status = "resolved" /\ resolution[k].event = l.corr
  /\ resolution[k].route = l.route /\ x \in resolution[k].accept
OrphanedOn(e, r) == observation[e].finality = "reorged" /\ observation[e].route = r
Excused(l) ==
  LET rt == RouteInfo[l.route]
      tr == TransferInfo[l.corr]
  IN  /\ tr.asset # rt.asset => AcceptedFor(l, "cross_asset")'
      /\ tr.asset = rt.asset /\ tr.amount < rt.expected => AcceptedFor(l, "shortfall")'
      /\ TimeOf(l.corr)' > rt.expires =>
           AcceptedFor(l, "late")' \/ OrphanedOn(l.corr, l.route)
Authorised ==
  [][\A l \in ledger' \ ledger : l.corr \in Transfer => Excused(l)]_stateVars

(* RescheduleHonoured: work that reached a leased job is not dropped when   *)
(* the job completes: the job is pending again (finishAutomatedMatchingJob).*)
RescheduleHonoured ==
  [][\A r \in Route : job[r].resched /\ ~job'[r].resched =>
                         job'[r].status = "pending"]_stateVars

(* NeverBackToPending: a paid intent only becomes unpaid by going to        *)
(* reorg_review, and no intent ever returns to pending.                     *)
NeverBackToPending ==
  [][\A i \in Intent :
       /\ intent[i].status \in Paid /\ intent'[i].status \notin Paid
            => intent'[i].status = "reorg_review"
       /\ intent[i].status # "pending" => intent'[i].status # "pending"]_stateVars

(* VersionPerChange: a status never changes without its version growing by  *)
(* one, so an optimistic reader can never miss a change.                    *)
VersionPerChange ==
  [][\A i \in Intent : intent'[i].status # intent[i].status =>
                         intent'[i].version = intent[i].version + 1]_stateVars

-----------------------------------------------------------------------------
(* What the code's own comments and documents promise and the code does not *)
(* keep.                                                                    *)

(* CanonicalMoney: a transfer that pays for something is included in a      *)
(* block of canonical history (insertCanonicalTransfer asks for it when a   *)
(* transfer comes back, but not when it is first recorded).                 *)
CanonicalMoney ==
  \A m \in matches : transfer[m.event].status # "reorged" => block[transfer[m.event].block] = "safe"

(* RewindPossible: whatever the height of the common ancestor, nothing in   *)
(* the database makes the compensating transaction of RewindReorg fail.     *)
RewindPossible == \A h \in 0..cursor : Compensable(h)

(* The matching worker polls for claimable jobs and reports on each job it  *)
(* holds; the fairness is that of RunBatch, called in a loop.               *)
MatchingSpec ==
  /\ Spec
  /\ \A r \in Route :
       /\ WF_stateVars(ClaimMatching(r))
       /\ WF_stateVars(Reconcile(r) \/ RetryMatching(r, "retry"))

(* RescheduleRuns: contributions scheduled while a job is leased            *)
(* (reschedule_requested) are not left there: the lease ends.               *)
RescheduleRuns ==
  \A r \in Route : job[r].status = "leased" /\ job[r].resched ~> job[r].status # "leased"
=============================================================================
