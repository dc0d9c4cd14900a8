--------------------------- MODULE LifecycleProof ---------------------------
(***************************************************************************)
(* One match per transfer, and what a transaction may do to the status and *)
(* the version of an intent.                                               *)
(***************************************************************************)
EXTENDS PaymentsProof

(* MatchStep: no transaction gives a matched transfer a second match.  The  *)
(* three ways to settle look for a match of any kind in their own           *)
(* transaction; a matching job moves the matches it has.                    *)
LEMMA MatchStep ==
  ASSUME EventMatchedOnce, [Next]_stateVars
  PROVE  EventMatchedOnce'
<1>1. CASE matches' \subseteq matches BY <1>1 DEF EventMatchedOnce
<1>2. ASSUME NEW m, \A n \in matches : n.event # m.event, matches' = matches \cup {m}
      PROVE  EventMatchedOnce'
  BY <1>2 DEF EventMatchedOnce
<1>3. ASSUME NEW e \in Transfer, NEW b \in Block, NEW p \in Report, Ingest(e, b, p)
      PROVE  EventMatchedOnce'
  <2> DEFINE r == ExactRoute(e, b)
             m == [event |-> e, route |-> r, aggregate |-> 0, state |-> "finalized"]
  <2>1. CASE ~AlreadyClassified(e) /\ Settle(e, r, Merged(e, b, p))
    <3>1. m.event = e /\ matches' = matches \cup {m} BY <2>1 DEF Settle
    <3>2. \A n \in matches : n.event # e BY <2>1 DEF AlreadyClassified
    <3> HIDE DEF m
    <3>3. QED BY <1>2, <3>1, <3>2
  <2>2. CASE UNCHANGED matches BY <1>1, <2>2
  <2>3. QED BY <1>3, <2>1, <2>2 DEF Ingest, Observe, Classify, moneyVars
<1>4. ASSUME NEW k \in DOMAIN resolution, ApplyResolution(k) PROVE EventMatchedOnce'
  <2> DEFINE q == resolution[k]
             m == [event |-> q.event, route |-> q.route, aggregate |-> 0, state |-> "finalized"]
  <2>1. m.event = q.event /\ matches' = matches \cup {m} BY <1>4 DEF ApplyResolution
  <2>2. \A n \in matches : n.event # q.event BY <1>4 DEF ApplyResolution, Unclaimed
  <2> HIDE DEF m
  <2>3. QED BY <1>2, <2>1, <2>2
<1>5. ASSUME NEW r \in Route, Reconcile(r) PROVE EventMatchedOnce'
  <2> DEFINE d == DecisionFor(r)
  <2>1. ASSUME NEW s, matches' = Allocated(r, d.events, s) PROVE EventMatchedOnce'
    BY <2>1 DEF Allocated, EventMatchedOnce
  <2>2. Collect(r, d) \/ Review(r, d) \/ SettleAggregate(r, d) BY <1>5 DEF Reconcile
  <2>3. QED BY <1>1, <2>1, <2>2 DEF Collect, Review, SettleAggregate
<1>6. CASE \E h \in 0..cursor : RewindReorg(h) BY <1>1, <1>6 DEF RewindReorg, ReversedMatches
<1>7. CASE UNCHANGED matches BY <1>1, <1>7
<1>8. QED
  BY <1>3, <1>4, <1>5, <1>6, <1>7 DEF Next, AdmitBlock, CancelIntent, ExpireDueIntent,
     ReleaseElapsedRouteGrace, Tick, ClaimMatching, LoseMatchingLease, RetryMatching,
     RequestResolution, ClaimResolution, LoseResolutionLease, RejectResolution, RetryResolution,
     otherVars, stateVars, moneyVars

(* MatchedOnce: a transfer never counts towards two invoices, or twice      *)
(* towards one, whichever of the three settlement paths see it.             *)
THEOREM MatchedOnce == Spec => []EventMatchedOnce
<1>1. Init => EventMatchedOnce BY DEF Init, EventMatchedOnce
<1>2. EventMatchedOnce /\ [Next]_stateVars => EventMatchedOnce' BY MatchStep
<1>3. QED BY <1>1, <1>2, PTL DEF Spec

-----------------------------------------------------------------------------
(* The three things a transaction may do to the intents. *)
OneStatus == \E i, s : /\ s # "pending" /\ (i \in Intent => intent[i].status \notin Paid)
                       /\ intent' = NewStatus(i, s)
ToReview  == \E I : intent' = [i \in Intent |-> IF i \in I THEN UnderReview(i) ELSE intent[i]]
IntentStep == UNCHANGED intent \/ OneStatus \/ ToReview

(* IngestIntent: a report moves at most the intent of its route. *)
LEMMA IngestIntent ==
  ASSUME NEW e \in Transfer, NEW b \in Block, NEW p \in Report, Ingest(e, b, p)
  PROVE  IntentStep
<1> DEFINE r == ExactRoute(e, b)
           t == Merged(e, b, p)
           i == IntentOf[r]
           c == First(Potential(e, b))
<1>1. CASE Observe(e, r, t)
  <2>1. \/ UNCHANGED intent
        \/ /\ \E s \in {"observed", "confirmed"} : intent' = NewStatus(i, s)
           /\ intent[i].status \notin Paid
    BY <1>1 DEF Observe, ObservedIntent, Paid
  <2>2. QED BY <2>1 DEF IntentStep, OneStatus
<1>2. CASE Cardinality(ExactRoutes(e, b)) = 1 /\ Settle(e, r, t)
  <2>1. intent[i].status \in Payable BY <1>2, ExactRouteIn DEF ExactRoutes
  <2>2. intent' = NewStatus(i, "settled") BY <1>2 DEF Settle
  <2>3. intent[i].status \notin Paid BY <2>1 DEF Payable, Paid
  <2>4. QED BY <2>2, <2>3 DEF IntentStep, OneStatus
<1>3. CASE Classify(e, b)
  <2>1. UNCHANGED intent \/ RecordException(c) BY <1>3 DEF Classify
  <2>2. ASSUME RecordException(c), ~UNCHANGED intent PROVE OneStatus
    <3>1. /\ intent' = NewStatus(IntentOf[c.route], ExceptionStatus(c))
          /\ intent[IntentOf[c.route]].status \notin Paid
      BY <2>2 DEF RecordException, Reviewable, Payable, Paid
    <3>2. ExceptionStatus(c) # "pending" BY DEF ExceptionStatus
    <3>3. QED BY <3>1, <3>2 DEF OneStatus
  <2>3. QED BY <2>1, <2>2 DEF IntentStep
<1>4. CASE UNCHANGED intent BY <1>4 DEF IntentStep
<1>5. QED BY <1>1, <1>2, <1>3, <1>4 DEF Ingest

(* RewindIntent: a rewind only sends intents to reorg_review. *)
LEMMA RewindIntent ==
  ASSUME NEW h \in 0..cursor, RewindReorg(h)
  PROVE  ToReview
<1> DEFINE E == Orphans(h)
           L == Compensated(h)
           J == {l.intent : l \in L}
<1>1. PICK first \in [L -> E] :
        intent' = [i \in Intent |->
           IF \/ i \in J
              \/ /\ i \in {IntentOf[r] : r \in {observation[e].route :
                             e \in {e \in E \ {first[l] : l \in L} : Visible(e)}}}
                 /\ intent[i].status \in {"observed", "confirmed"}
           THEN UnderReview(i) ELSE intent[i]]
  BY DEF RewindReorg
<1> DEFINE S == {IntentOf[r] : r \in {observation[e].route :
                             e \in {e \in E \ {first[l] : l \in L} : Visible(e)}}}
<1> HIDE DEF J
<1>2. intent' = [i \in Intent |-> IF i \in J \/ (i \in S /\ intent[i].status \in {"observed", "confirmed"})
                                  THEN UnderReview(i) ELSE intent[i]]
  BY <1>1, Zenon
<1> HIDE DEF S
<1> DEFINE I == {i \in Intent : i \in J \/ (i \in S /\ intent[i].status \in {"observed", "confirmed"})}
<1>3. intent' = [i \in Intent |-> IF i \in I THEN UnderReview(i) ELSE intent[i]] BY <1>2
<1> HIDE DEF I
<1>4. QED BY <1>3 DEF ToReview

(* NextIntent: every transaction is one of the three. *)
LEMMA NextIntent ==
  ASSUME [Next]_stateVars
  PROVE  IntentStep
<1>1. CASE UNCHANGED intent BY <1>1 DEF IntentStep
<1>2. CASE \E e \in Transfer, b \in Block, p \in Report : Ingest(e, b, p) BY <1>2, IngestIntent
<1>3. CASE \E h \in 0..cursor : RewindReorg(h) BY <1>3, RewindIntent DEF IntentStep
<1>4. ASSUME NEW i \in Intent, CancelIntent(i) \/ ExpireDueIntent(i) PROVE IntentStep
  <2>1. /\ \E s \in {"cancelled", "expired"} : intent' = NewStatus(i, s)
        /\ intent[i].status \notin Paid
    BY <1>4 DEF CancelIntent, ExpireDueIntent, Cancellable, Expirable, Paid
  <2>2. QED BY <2>1 DEF IntentStep, OneStatus
<1>5. ASSUME NEW r \in Route, Reconcile(r) PROVE IntentStep
  <2> DEFINE d == DecisionFor(r)
  <2>1. Collect(r, d) \/ Review(r, d) \/ SettleAggregate(r, d) BY <1>5 DEF Reconcile
  <2> HIDE DEF d
  <2>2. \/ UNCHANGED intent
        \/ /\ \E s \in {"partially_paid", "overpaid", "settled"} : intent' = NewStatus(IntentOf[r], s)
           /\ intent[IntentOf[r]].status \notin Paid
    BY <2>1 DEF Collect, Review, SettleAggregate, Finalizable, Payable, Paid
  <2>3. QED BY <2>2 DEF IntentStep, OneStatus
<1>6. ASSUME NEW k \in DOMAIN resolution, ApplyResolution(k) PROVE IntentStep
  <2> DEFINE i == IntentOf[resolution[k].route]
  <2>1. /\ \E s \in {"overpaid", "settled"} : intent' = NewStatus(i, s)
        /\ intent[i].status \notin Paid
    BY <1>6 DEF ApplyResolution, Payable, Paid
  <2>2. QED BY <2>1 DEF IntentStep, OneStatus
<1>7. QED
  BY <1>1, <1>2, <1>3, <1>4, <1>5, <1>6 DEF Next, AdmitBlock, ReleaseElapsedRouteGrace, Tick,
     ClaimMatching, LoseMatchingLease, RetryMatching, RequestResolution, ClaimResolution,
     LoseResolutionLease, RejectResolution, RetryResolution, otherVars, paymentVars, stateVars

(* PaidNeverForgotten: a paid intent leaves that status only for            *)
(* reorg_review, and no intent returns to pending, whatever the order of    *)
(* transactions (domain.intentTransitions has no such edge either, but the  *)
(* SQL guards never consult it).                                            *)
THEOREM PaidNeverForgotten == Spec => NeverBackToPending
<1> DEFINE Kept == \A i \in Intent :
             /\ intent[i].status \in Paid /\ intent'[i].status \notin Paid
                  => intent'[i].status = "reorg_review"
             /\ intent[i].status # "pending" => intent'[i].status # "pending"
<1>1. TypeOK /\ [Next]_stateVars => [Kept]_stateVars
  <2> SUFFICES ASSUME TypeOK, IntentStep PROVE Kept BY NextIntent
  <2>1. intent \in [Intent -> [status : IntentStatus, version : Nat]] BY DEF TypeOK, InvoiceOK
  <2>2. CASE UNCHANGED intent BY <2>2
  <2>3. CASE OneStatus BY <2>1, <2>3 DEF OneStatus, NewStatus
  <2>4. CASE ToReview BY <2>1, <2>4 DEF ToReview, UnderReview
  <2>5. QED BY <2>2, <2>3, <2>4 DEF IntentStep
<1>2. QED BY <1>1, TypeCorrect, PTL DEF Spec, NeverBackToPending

(* ChangesAreVersioned: every status change of an intent adds one to its    *)
(* version, so the version an operation read tells whether anything         *)
(* changed, and the notices of an intent can be put in order.               *)
THEOREM ChangesAreVersioned == Spec => VersionPerChange
<1> DEFINE Counted == \A i \in Intent : intent'[i].status # intent[i].status =>
                                           intent'[i].version = intent[i].version + 1
<1>1. TypeOK /\ [Next]_stateVars => [Counted]_stateVars
  <2> SUFFICES ASSUME TypeOK, IntentStep PROVE Counted BY NextIntent
  <2>1. intent \in [Intent -> [status : IntentStatus, version : Nat]] BY DEF TypeOK, InvoiceOK
  <2>2. CASE UNCHANGED intent BY <2>2
  <2>3. CASE OneStatus BY <2>1, <2>3 DEF OneStatus, NewStatus
  <2>4. CASE ToReview BY <2>1, <2>4 DEF ToReview, UnderReview
  <2>5. QED BY <2>2, <2>3, <2>4 DEF IntentStep
<1>2. QED BY <1>1, TypeCorrect, PTL DEF Spec, VersionPerChange
=============================================================================
