------------------------------- MODULE Manual -------------------------------
(***************************************************************************)
(* Manual resolution of unmatched payments: an operator binds a transfer   *)
(* to a candidate route, a worker claims the request together with a copy  *)
(* of the transfer row, and settles it in a later transaction              *)
(* (operator_store.go, resolution_worker_store.go, resolution_settlement.go*)
(* and ResolutionWorker in application/exceptions.go).                     *)
(***************************************************************************)
EXTENDS Reorg

Requested(k) == resolution[k].status \in {"verification_requested", "verification_retry"}

otherVars == <<chainVars, paymentVars, candidates, moneyVars, jobVars, outbox>>

-----------------------------------------------------------------------------
(* RequestManualResolution: any stored candidate of an open case. *)
RequestResolution(e, r, accept) ==
  /\ Len(resolution) < MaxResolutions
  /\ unmatched[e].status \in {"new", "candidates_ready", "approval_required",
                              "verification_retry"}
  /\ unmatched[e].tenant = TenantOf[IntentOf[r]]
  /\ \E c \in candidates[e] : c.route = r
  /\ resolution' = Append(resolution,
       [status |-> "verification_requested", event |-> e, route |-> r, accept |-> accept,
        live |-> FALSE, copy |-> NoRow])
  /\ unmatched' = [unmatched EXCEPT ![e] = Assigned(@, "verification_requested", r)]
  /\ UNCHANGED otherVars

(* A claim takes a copy of the transfer row; the end of a claim forgets it. *)
Held(q, row)  == [q EXCEPT !.live = TRUE, !.copy = row]
Dropped(q, s) == [q EXCEPT !.status = s, !.live = FALSE, !.copy = NoRow]

(* ClaimResolutions: a request nobody holds, with a copy of its transfer. *)
ClaimResolution(k) ==
  /\ Requested(k) /\ ~resolution[k].live
  /\ resolution' = [resolution EXCEPT ![k] = Held(@, transfer[resolution[k].event])]
  /\ UNCHANGED <<otherVars, unmatched>>

LoseResolutionLease(k) ==
  /\ resolution[k].live
  /\ resolution' = [resolution EXCEPT ![k] = Dropped(@, resolution[k].status)]
  /\ UNCHANGED <<otherVars, unmatched>>

(* Mutant: the inclusion of the claimed copy is not compared with the row. *)
VerifiedCopyOnly(k) ==
  LET q == resolution[k]
  IN  /\ q.copy.status = "finalized"
      /\ q.copy.conf >= RouteInfo[q.route].finality
      /\ SameAddress(q.event, q.route)

(* ApplyFinalizedResolution's comparison of the claimed copy with the row:  *)
(* inclusion facts and the copy's own finality.                             *)
Verified(k) ==
  LET q == resolution[k]
  IN  /\ q.copy.status = "finalized"
      /\ q.copy.block = transfer[q.event].block
      /\ q.copy.conf >= RouteInfo[q.route].finality
      /\ SameAddress(q.event, q.route)

SameAsset(k) ==
  RouteInfo[resolution[k].route].asset = TransferInfo[resolution[k].event].asset

(* The operator's choices cover the transfer's exceptions. *)
Permitted(k) ==
  LET q  == resolution[k]
      rt == RouteInfo[q.route]
  IN  /\ SameAsset(k) \/ "cross_asset" \in q.accept
      /\ SameAsset(k) /\ TransferInfo[q.event].amount < rt.expected => "shortfall" \in q.accept
      /\ BlockInfo[q.copy.block].time > rt.expires => "late" \in q.accept

(* Mutant: an earlier match is not looked for. *)
UnclaimedAlways(e) == TRUE

(* No unreversed match of the transfer, by whatever way. *)
Unclaimed(e) == \A m \in matches : m.event # e

(* ApplyFinalizedResolution *)
ApplyResolution(k) ==
  LET q    == resolution[k]
      e    == q.event
      r    == q.route
      i    == IntentOf[r]
      over == SameAsset(k) /\ TransferInfo[e].amount > RouteInfo[r].expected
  IN  /\ q.live /\ Requested(k) /\ \E c \in candidates[e] : c.route = r
      /\ Verified(k) /\ Permitted(k)
      /\ Unclaimed(e)
      /\ intent[i].status \in Payable
      /\ matches' = matches \cup
           {[event |-> e, route |-> r, aggregate |-> 0, state |-> "finalized"]}
      /\ ledger' = ledger \cup {Posting(e, r, TransferInfo[e].amount)}
      /\ nextId' = nextId + 1
      /\ intent' = NewStatus(i, IF over THEN "overpaid" ELSE "settled")
      /\ route' = IF OpenRoute(r) THEN [route EXCEPT ![r] = "settled"] ELSE route
      /\ reservation' = IF reservation[r] = "active"
                        THEN [reservation EXCEPT ![r] = "consumed"] ELSE reservation
      /\ resolution' = [resolution EXCEPT ![k] = Dropped(@, "resolved")]
      /\ unmatched' = IF unmatched[e].tenant = TenantOf[i]
                      THEN [unmatched EXCEPT ![e] = Assigned(@, "resolved", r)]
                      ELSE unmatched
      /\ outbox' = outbox \cup {IntentEvent(i, intent[i].version + 1,
                                IF over THEN "payment.overpaid" ELSE "payment.settled")}
      /\ UNCHANGED <<chainVars, transfer, observation, candidates, reversal, jobVars>>

(* RejectResolution: an exception the operator did not accept. *)
RejectResolution(k) ==
  LET e == resolution[k].event
  IN  /\ resolution[k].live /\ Requested(k) /\ Verified(k) /\ ~Permitted(k)
      /\ unmatched[e].status \in {"verification_requested", "verification_retry"}
      /\ unmatched[e].selected = resolution[k].route
      /\ resolution' = [resolution EXCEPT ![k] = Dropped(@, "invalid")]
      /\ unmatched' = [unmatched EXCEPT ![e] = Assigned(@, "candidates_ready", NoRoute)]
      /\ UNCHANGED otherVars

(* RetryResolution: any other failure; the twentieth attempt is the last.   *)
(* The case takes the request's status whatever it has become meanwhile.    *)
RetryResolution(k, s) ==
  /\ resolution[k].live
  /\ s \in {"verification_retry", "conflict"}
  /\ resolution' = [resolution EXCEPT ![k] = Dropped(@, s)]
  /\ unmatched' = [unmatched EXCEPT ![resolution[k].event] = WithStatus(@, s)]
  /\ UNCHANGED otherVars
=============================================================================
