----------------------------- MODULE MoneyProof -----------------------------
(***************************************************************************)
(* The money invariants, for any number of invoices, routes, transfers and *)
(* blocks.  Each transaction is shown to be one of three kinds of step on  *)
(* the books (Quiet, Posts, Voids); the invariants, and the refinement of  *)
(* Account, follow from the kinds.                                         *)
(***************************************************************************)
EXTENDS PaymentsProof

(* The books are left alone. *)
Quiet == UNCHANGED <<ledger, reversal>> /\ PaidIntents' = PaidIntents

(* One posting with a new identifier pays an unpaid intent. *)
Posts(l) ==
  /\ l.intent \in Intent \ PaidIntents
  /\ \A k \in ledger : k.id # l.id
  /\ ledger' = ledger \cup {l}
  /\ UNCHANGED reversal
  /\ PaidIntents' = PaidIntents \cup {l.intent}

(* Postings in force, of distinct intents, are reversed. *)
Voids(L) ==
  /\ L \subseteq Live
  /\ \A l, k \in L : l.intent = k.intent => l = k
  /\ reversal' = reversal \cup {l.id : l \in L}
  /\ UNCHANGED ledger
  /\ PaidIntents' = PaidIntents \ {l.intent : l \in L}

MoneyStep == Quiet \/ (\E l : Posts(l)) \/ (\E L : Voids(L))

MoneyInv == TypeOK /\ IdsDistinct /\ PaidOnce /\ SettledIffPosted

-----------------------------------------------------------------------------
(* NewStatusPaid: writing a status moves one intent in or out of the paid   *)
(* ones, according to that status.                                          *)
LEMMA NewStatusPaid ==
  ASSUME InvoiceOK, NEW i \in Intent, NEW s, intent' = NewStatus(i, s)
  PROVE  PaidIntents' = IF s \in Paid THEN PaidIntents \cup {i} ELSE PaidIntents \ {i}
  BY DEF InvoiceOK, NewStatus, PaidIntents

(* UnpaidStatus: a status outside Paid written to an unpaid intent is not a *)
(* change of the books.                                                     *)
LEMMA UnpaidStatus ==
  ASSUME InvoiceOK, NEW i, NEW s, s \notin Paid, i \in Intent => intent[i].status \notin Paid,
         intent' = NewStatus(i, s)
  PROVE  PaidIntents' = PaidIntents
<1>1. CASE i \in Intent BY <1>1 DEF InvoiceOK, NewStatus, PaidIntents
<1>2. CASE i \notin Intent BY <1>2 DEF InvoiceOK, NewStatus, PaidIntents
<1>3. QED BY <1>1, <1>2

(* NewIdUnused: the next identifier is not that of a posting. *)
LEMMA NewIdUnused ==
  ASSUME TypeOK, IdsDistinct
  PROVE  \A k \in ledger : k.id # nextId
  BY DEF TypeOK, MoneyOK, IdsDistinct

-----------------------------------------------------------------------------
(* InvoiceStep: cancelling and expiring touch no paid intent. *)
LEMMA InvoiceStep ==
  ASSUME TypeOK, NEW i \in Intent, CancelIntent(i) \/ ExpireDueIntent(i)
  PROVE  Quiet
<1>1. intent[i].status \notin Paid BY DEF CancelIntent, ExpireDueIntent, Cancellable, Expirable, Paid
<1>2. \E s \in {"cancelled", "expired"} : intent' = NewStatus(i, s) BY DEF CancelIntent, ExpireDueIntent
<1>3. PaidIntents' = PaidIntents BY <1>1, <1>2, UnpaidStatus DEF TypeOK, Paid
<1>4. QED BY <1>3 DEF Quiet, CancelIntent, ExpireDueIntent, moneyVars

(* ObserveStep: the observation callbacks leave paid intents alone. *)
LEMMA ObserveStep ==
  ASSUME TypeOK, NEW e \in Transfer, NEW r \in Route, NEW t, Observe(e, r, t)
  PROVE  Quiet
<1>1. \/ UNCHANGED intent
      \/ \E s \in {"confirmed", "observed"} : /\ intent' = NewStatus(IntentOf[r], s)
                                              /\ intent[IntentOf[r]].status \notin Paid
  BY DEF Observe, ObservedIntent, Paid
<1>2. PaidIntents' = PaidIntents
  <2>1. CASE UNCHANGED intent BY <2>1 DEF PaidIntents
  <2>2. CASE ~UNCHANGED intent BY <1>1, <2>2, UnpaidStatus DEF TypeOK, Paid
  <2>3. QED BY <2>1, <2>2
<1>3. QED BY <1>2 DEF Quiet, Observe, moneyVars

(* ClassifyStep: recording an exception leaves paid intents alone. *)
LEMMA ClassifyStep ==
  ASSUME TypeOK, NEW e \in Transfer, NEW b \in Block, Classify(e, b)
  PROVE  Quiet
<1> DEFINE c == First(Potential(e, b))
<1>1. UNCHANGED intent \/ RecordException(c) BY DEF Classify
<1>2. PaidIntents' = PaidIntents
  <2>1. CASE UNCHANGED intent BY <2>1 DEF PaidIntents
  <2>2. ASSUME RecordException(c), intent[IntentOf[c.route]].status \in Reviewable
        PROVE  PaidIntents' = PaidIntents
    <3>1. intent' = NewStatus(IntentOf[c.route], ExceptionStatus(c)) BY <2>2 DEF RecordException
    <3>2. ExceptionStatus(c) \notin Paid /\ intent[IntentOf[c.route]].status \notin Paid
      BY <2>2 DEF ExceptionStatus, Reviewable, Payable, Paid
    <3>3. QED BY <3>1, <3>2, UnpaidStatus DEF TypeOK
  <2>3. ASSUME RecordException(c), intent[IntentOf[c.route]].status \notin Reviewable
        PROVE  PaidIntents' = PaidIntents
    BY <2>1, <2>3 DEF RecordException
  <2>4. QED BY <1>1, <2>1, <2>2, <2>3
<1>3. QED BY <1>2 DEF Quiet, Classify, moneyVars

(* SettleStep: the exact settlement posts once, for an unpaid intent. *)
LEMMA SettleStep ==
  ASSUME TypeOK, IdsDistinct, NEW e \in Transfer, NEW r \in Route, NEW t,
         intent[IntentOf[r]].status \in Payable, Settle(e, r, t)
  PROVE  \E l : Posts(l)
<1> DEFINE l == Posting(e, r, TransferInfo[e].amount)
<1>1. IntentOf[r] \in Intent BY ConstantsAssumption
<1>2. l.intent = IntentOf[r] /\ l.id = nextId BY DEF Posting
<1>3. l.intent \in Intent \ PaidIntents BY <1>1, <1>2 DEF Payable, Paid, PaidIntents
<1>4. PaidIntents' = PaidIntents \cup {l.intent}
  BY <1>1, <1>2, NewStatusPaid DEF Settle, TypeOK, Paid
<1>5. ledger' = ledger \cup {l} /\ UNCHANGED reversal BY DEF Settle
<1> HIDE DEF l
<1>6. Posts(l) BY <1>2, <1>3, <1>4, <1>5, NewIdUnused DEF Posts
<1>7. QED BY <1>6

(* ApplyStep: so does the settlement of a manual resolution. *)
LEMMA ApplyStep ==
  ASSUME TypeOK, IdsDistinct, NEW k \in DOMAIN resolution, ApplyResolution(k)
  PROVE  \E l : Posts(l)
<1> DEFINE q == resolution[k]
           r == q.route
           i == IntentOf[r]
           l == Posting(q.event, r, TransferInfo[q.event].amount)
<1>1. i \in Intent
  <2>1. q \in Request BY DEF TypeOK, ResolutionOK
  <2>2. QED BY <2>1, ConstantsAssumption DEF Request
<1>2. l.intent = i /\ l.id = nextId BY DEF Posting
<1>3. \E s \in Paid : intent' = NewStatus(i, s) BY DEF ApplyResolution, Paid
<1>4. intent[i].status \in Payable BY DEF ApplyResolution
<1>5. ledger' = ledger \cup {l} /\ UNCHANGED reversal BY DEF ApplyResolution
<1> HIDE DEF l, i
<1>6. l.intent \in Intent \ PaidIntents BY <1>1, <1>2, <1>4 DEF Payable, Paid, PaidIntents
<1>7. PaidIntents' = PaidIntents \cup {l.intent} BY <1>1, <1>2, <1>3, NewStatusPaid DEF TypeOK
<1>8. Posts(l) BY <1>2, <1>5, <1>6, <1>7, NewIdUnused DEF Posts
<1>9. QED BY <1>8

(* AggregateIdUnused: an aggregate about to settle has an identifier that   *)
(* no posting has.                                                          *)
LEMMA AggregateIdUnused ==
  ASSUME TypeOK, IdsDistinct, NEW r \in Route, aggregate[r].state # "settled"
  PROVE  \A k \in ledger : k.id # AggregateId(r)
<1>1. CASE aggregate[r].state = "none" BY <1>1, NewIdUnused DEF AggregateId
<1>2. CASE OpenAggregate(r) BY <1>2 DEF AggregateId, IdsDistinct, OpenAggregate
<1>3. QED BY <1>1, <1>2 DEF TypeOK, JobOK, OpenAggregate

(* ReconcileStep: a matching job posts once or leaves the books alone. *)
LEMMA ReconcileStep ==
  ASSUME TypeOK, IdsDistinct, NEW r \in Route, Reconcile(r)
  PROVE  Quiet \/ \E l : Posts(l)
<1> DEFINE d == DecisionFor(r)
           i == IntentOf[r]
           l == [id |-> AggregateId(r), corr |-> AggregateId(r), intent |-> i,
                 route |-> r, amount |-> d.credited]
<1>1. i \in Intent BY ConstantsAssumption
<1>2. Collect(r, d) \/ Review(r, d) \/ SettleAggregate(r, d) BY DEF Reconcile
<1>3. UNCHANGED reversal /\ aggregate[r].state # "settled" BY DEF Reconcile
<1> HIDE DEF d
<1>4. CASE Collect(r, d)
  <2>1. \/ UNCHANGED intent
        \/ intent' = NewStatus(i, "partially_paid") /\ intent[i].status \notin Paid
    BY <1>4 DEF Collect, Paid
  <2>2. PaidIntents' = PaidIntents
    <3>1. CASE UNCHANGED intent BY <3>1 DEF PaidIntents
    <3>2. CASE ~UNCHANGED intent BY <2>1, <3>2, UnpaidStatus DEF TypeOK, Paid
    <3>3. QED BY <3>1, <3>2
  <2>3. QED BY <1>3, <1>4, <2>2 DEF Quiet, Collect
<1>5. CASE Review(r, d) BY <1>3, <1>5 DEF Quiet, Review, PaidIntents
<1>6. CASE SettleAggregate(r, d)
  <2>1. \E s \in Paid : intent' = NewStatus(i, s) BY <1>6 DEF SettleAggregate, Paid
  <2>2. intent[i].status \in Payable /\ ledger' = ledger \cup {l}
    BY <1>6 DEF SettleAggregate, Finalizable
  <2>3. l.intent = i /\ l.id = AggregateId(r) OBVIOUS
  <2> HIDE DEF l, i
  <2>4. l.intent \in Intent \ PaidIntents BY <1>1, <2>2, <2>3 DEF Payable, Paid, PaidIntents
  <2>5. PaidIntents' = PaidIntents \cup {l.intent} BY <1>1, <2>1, <2>3, NewStatusPaid DEF TypeOK
  <2>6. Posts(l) BY <1>3, <2>2, <2>3, <2>4, <2>5, AggregateIdUnused DEF Posts
  <2>7. QED BY <2>6
<1>7. QED BY <1>2, <1>4, <1>5, <1>6

(* RewindStep: the compensating rewind voids the postings it loads, and no  *)
(* paid intent but theirs changes.                                          *)
LEMMA RewindStep ==
  ASSUME NEW h \in 0..cursor, RewindReorg(h)
  PROVE  \E L : Voids(L)
<1> DEFINE E == Orphans(h)
           L == Compensated(h)
           J == {l.intent : l \in L}
<1>1. /\ L \subseteq Live
      /\ \A l, k \in L : l.intent = k.intent => l = k
  <2>1. L \subseteq ledger BY DEF Compensated, Loaded
  <2>2. Compensable(h) BY DEF RewindReorg
  <2>3. QED BY <2>1, <2>2 DEF Compensable, Live
<1>2. reversal' = reversal \cup {l.id : l \in L} /\ UNCHANGED ledger
  BY DEF RewindReorg, Reversals
<1>3. \E I : intent' = [i \in Intent |-> IF i \in J \/ (i \in I /\ intent[i].status \in {"observed", "confirmed"})
                                         THEN UnderReview(i) ELSE intent[i]]
  <2>1. PICK first \in [L -> E] :
          intent' = [i \in Intent |->
             IF \/ i \in J
                \/ /\ i \in {IntentOf[r] : r \in {observation[e].route :
                               e \in {e \in E \ {first[l] : l \in L} : Visible(e)}}}
                   /\ intent[i].status \in {"observed", "confirmed"}
             THEN UnderReview(i) ELSE intent[i]]
    BY DEF RewindReorg
  <2> DEFINE I == {IntentOf[r] : r \in {observation[e].route :
                               e \in {e \in E \ {first[l] : l \in L} : Visible(e)}}}
  <2> HIDE DEF J
  <2>2. intent' = [i \in Intent |-> IF i \in J \/ (i \in I /\ intent[i].status \in {"observed", "confirmed"})
                                    THEN UnderReview(i) ELSE intent[i]]
    BY <2>1, Zenon
  <2> HIDE DEF I
  <2>3. QED BY <2>2
<1>4. PaidIntents' = PaidIntents \ J
  <2> HIDE DEF J
  <2>1. PICK I : intent' = [i \in Intent |->
           IF i \in J \/ (i \in I /\ intent[i].status \in {"observed", "confirmed"})
           THEN UnderReview(i) ELSE intent[i]]
    BY <1>3
  <2>2. \A i \in Intent : UnderReview(i).status \notin Paid BY DEF UnderReview, Paid
  <2>3. \A i \in Intent : intent'[i].status \in Paid <=> i \notin J /\ intent[i].status \in Paid
    BY <2>1, <2>2 DEF Paid
  <2>4. QED BY <2>3 DEF PaidIntents
<1> HIDE DEF L
<1>5. Voids(L) BY <1>1, <1>2, <1>4 DEF Voids
<1>6. QED BY <1>5

(* IngestStep: a report posts once or leaves the books alone. *)
LEMMA IngestStep ==
  ASSUME TypeOK, IdsDistinct, NEW e \in Transfer, NEW b \in Block, NEW p \in Report, Ingest(e, b, p)
  PROVE  Quiet \/ \E l : Posts(l)
<1> DEFINE t == Merged(e, b, p)
           r == ExactRoute(e, b)
<1>1. CASE Cardinality(ExactRoutes(e, b)) = 1 /\ Observe(e, r, t)
  BY <1>1, ExactRouteIn, ObserveStep
<1>2. CASE Cardinality(ExactRoutes(e, b)) = 1 /\ Settle(e, r, t)
  <2>1. r \in Route /\ intent[IntentOf[r]].status \in Payable
    BY <1>2, ExactRouteIn DEF ExactRoutes
  <2>2. QED BY <1>2, <2>1, SettleStep
<1>3. CASE Classify(e, b) BY <1>3, ClassifyStep
<1>4. CASE UNCHANGED <<observation, intent, route, reservation, triageVars, moneyVars, jobVars, outbox>>
  BY <1>4 DEF Quiet, PaidIntents, moneyVars
<1>5. QED BY <1>1, <1>2, <1>3, <1>4 DEF Ingest

(* OtherStep: no other operation writes the books. *)
LEMMA OtherStep ==
  ASSUME \/ \E b \in Block : AdmitBlock(b)
         \/ \E r \in Route : ReleaseElapsedRouteGrace(r)
         \/ Tick
         \/ \E r \in Route : ClaimMatching(r)
         \/ \E r \in Route : LoseMatchingLease(r)
         \/ \E r \in Route, s \in JobStatus : RetryMatching(r, s)
         \/ \E e \in Transfer, r \in Route, A \in AcceptChoices : RequestResolution(e, r, A)
         \/ \E k \in DOMAIN resolution : ClaimResolution(k)
         \/ \E k \in DOMAIN resolution : LoseResolutionLease(k)
         \/ \E k \in DOMAIN resolution : RejectResolution(k)
         \/ \E k \in DOMAIN resolution, s \in ResolutionStatus : RetryResolution(k, s)
         \/ UNCHANGED stateVars
  PROVE  UNCHANGED <<intent, moneyVars, aggregate>>
  BY DEF AdmitBlock, ReleaseElapsedRouteGrace, Tick, ClaimMatching, LoseMatchingLease, RetryMatching,
     RequestResolution, ClaimResolution, LoseResolutionLease, RejectResolution, RetryResolution,
     otherVars, stateVars, paymentVars, moneyVars, jobVars

(* NextMoneyStep: every transaction is one of the three kinds of step. *)
LEMMA NextMoneyStep ==
  ASSUME TypeOK, IdsDistinct, [Next]_stateVars
  PROVE  MoneyStep
<1>1. CASE UNCHANGED <<intent, moneyVars, aggregate>>
  BY <1>1 DEF MoneyStep, Quiet, PaidIntents, moneyVars
<1>2. CASE \E e \in Transfer, b \in Block, p \in Report : Ingest(e, b, p)
  BY <1>2, IngestStep DEF MoneyStep
<1>3. CASE \E h \in 0..cursor : RewindReorg(h) BY <1>3, RewindStep DEF MoneyStep
<1>4. CASE \E i \in Intent : CancelIntent(i) \/ ExpireDueIntent(i)
  BY <1>4, InvoiceStep DEF MoneyStep
<1>5. CASE \E r \in Route : Reconcile(r) BY <1>5, ReconcileStep DEF MoneyStep
<1>6. CASE \E k \in DOMAIN resolution : ApplyResolution(k) BY <1>6, ApplyStep DEF MoneyStep
<1>7. QED BY <1>1, <1>2, <1>3, <1>4, <1>5, <1>6, OtherStep DEF Next

-----------------------------------------------------------------------------
(* BooksStep: each kind of step keeps one posting per paid intent. *)
LEMMA BooksStep ==
  ASSUME IdsDistinct, PaidOnce, SettledIffPosted, MoneyStep,
         \A l \in ledger : l.intent \in Intent
  PROVE  PaidOnce' /\ SettledIffPosted'
<1>1. PaidIntents = {l.intent : l \in Live} BY DEF SettledIffPosted, PaidIntents, Live
<1>2. SUFFICES /\ PaidIntents' = {l.intent : l \in Live'}
               /\ \A l, k \in Live' : l.intent = k.intent => l = k
  BY DEF PaidOnce, SettledIffPosted, PaidIntents
<1>3. CASE Quiet
  <2>1. Live' = Live BY <1>3 DEF Quiet, Live
  <2>2. QED BY <1>1, <1>3, <2>1 DEF Quiet, PaidOnce
<1>4. ASSUME NEW l, Posts(l)
      PROVE  /\ PaidIntents' = {k.intent : k \in Live'}
             /\ \A m, k \in Live' : m.intent = k.intent => m = k
  <2>1. l.id \notin reversal BY <1>4 DEF Posts, IdsDistinct
  <2>2. Live' = Live \cup {l} BY <1>4, <2>1 DEF Posts, Live
  <2>3. \A k \in Live : k.intent # l.intent BY <1>1, <1>4 DEF Posts
  <2>4. QED BY <1>1, <1>4, <2>2, <2>3 DEF Posts, PaidOnce
<1>5. ASSUME NEW L, Voids(L)
      PROVE  /\ PaidIntents' = {k.intent : k \in Live'}
             /\ \A m, k \in Live' : m.intent = k.intent => m = k
  <2>1. Live' = Live \ L
    <3>1. L \subseteq ledger /\ ledger' = ledger /\ reversal' = reversal \cup {l.id : l \in L}
      BY <1>5 DEF Voids, Live
    <3>2. \A k \in ledger : k.id \in {l.id : l \in L} <=> k \in L BY <3>1 DEF IdsDistinct
    <3>3. QED BY <3>1, <3>2 DEF Live
  <2>2. \A k \in Live \ L, l \in L : k.intent # l.intent BY <1>5 DEF Voids, PaidOnce
  <2>3. QED BY <1>1, <1>5, <2>1, <2>2 DEF Voids, PaidOnce
<1>6. QED BY <1>3, <1>4, <1>5 DEF MoneyStep

-----------------------------------------------------------------------------
(* PostedNext: a posting under the next identifier, as settlement and       *)
(* manual resolution write it, keeps identifiers apart.                     *)
LEMMA PostedNext ==
  ASSUME TypeOK, IdsDistinct, NEW l, l.id = nextId, ledger' = ledger \cup {l},
         nextId' = nextId + 1, UNCHANGED <<reversal, aggregate>>
  PROVE  IdsDistinct'
<1>1. \A k \in ledger : k.id < nextId /\ k.id \in Nat BY DEF IdsDistinct, TypeOK, MoneyOK
<1>2. nextId \in Nat BY DEF TypeOK, MoneyOK
<1>3. \A k, m \in ledger' : k.id = m.id => k = m BY <1>1, <1>2 DEF IdsDistinct
<1>4. \A k \in ledger' : k.id < nextId' BY <1>1, <1>2
<1>5. reversal' \subseteq {k.id : k \in ledger'} BY DEF IdsDistinct
<1>6. ASSUME NEW r \in Route, OpenAggregate(r)'
      PROVE  /\ aggregate'[r].id < nextId'
             /\ \A k \in ledger' : k.id # aggregate'[r].id
             /\ \A x \in Route \ {r} : OpenAggregate(x)' => aggregate'[x].id # aggregate'[r].id
  <2>1. OpenAggregate(r) /\ aggregate[r].id \in Nat /\ aggregate[r].id < nextId
    BY <1>6 DEF OpenAggregate, IdsDistinct, TypeOK, JobOK
  <2>2. aggregate'[r].id < nextId' BY <1>2, <2>1
  <2>3. \A k \in ledger' : k.id # aggregate'[r].id BY <1>2, <2>1 DEF IdsDistinct
  <2>4. \A x \in Route \ {r} : OpenAggregate(x)' => aggregate'[x].id # aggregate'[r].id
    BY <2>1 DEF OpenAggregate, IdsDistinct
  <2>5. QED BY <2>2, <2>3, <2>4
<1>7. QED BY <1>3, <1>4, <1>5, <1>6 DEF IdsDistinct

(* RewindIds: a rewind hands out no identifier and opens no aggregate. *)
LEMMA RewindIds ==
  ASSUME TypeOK, IdsDistinct, NEW h \in 0..cursor, RewindReorg(h)
  PROVE  IdsDistinct'
<1> DEFINE L == Compensated(h)
           D == {l.corr : l \in L}
<1>1. UNCHANGED <<ledger, nextId>> /\ reversal' = reversal \cup {l.id : l \in L}
  BY DEF RewindReorg, Reversals
<1>2. L \subseteq ledger BY DEF Compensated, Loaded
<1>3. aggregate' = ReversedAggregates(D) BY DEF RewindReorg
<1> HIDE DEF D, L
<1>4. \A r \in Route : OpenAggregate(r)' => OpenAggregate(r) /\ aggregate'[r].id = aggregate[r].id
  BY <1>3 DEF ReversedAggregates, OpenAggregate
<1>5. reversal' \subseteq {l.id : l \in ledger'} BY <1>1, <1>2 DEF IdsDistinct
<1>6. QED BY <1>1, <1>4, <1>5 DEF IdsDistinct

(* ReconcileIds: an aggregate is opened under a new identifier and leaves   *)
(* it to its posting when it settles.                                       *)
LEMMA ReconcileIds ==
  ASSUME TypeOK, IdsDistinct, NEW r \in Route, Reconcile(r)
  PROVE  IdsDistinct'
<1> DEFINE n == AggregateId(r)
<1>1. /\ UNCHANGED reversal /\ aggregate[r].state # "settled"
      /\ nextId' = IF aggregate[r].state = "none" THEN nextId + 1 ELSE nextId
  BY DEF Reconcile
<1>2. nextId \in Nat /\ nextId' \in Nat /\ nextId <= nextId'
  <2>1. nextId \in Nat BY DEF TypeOK, MoneyOK
  <2>2. nextId' = nextId \/ nextId' = nextId + 1 BY <1>1
  <2>3. QED BY <2>1, <2>2
<1>3. n \in Nat /\ n < nextId'
  <2>1. CASE aggregate[r].state = "none"
    <3>1. n = nextId BY <2>1 DEF AggregateId
    <3>2. nextId' = nextId + 1 BY <1>1, <2>1
    <3> HIDE DEF n
    <3>3. QED BY <1>2, <3>1, <3>2
  <2>2. CASE OpenAggregate(r)
    BY <1>1, <2>2 DEF AggregateId, OpenAggregate, IdsDistinct, TypeOK, JobOK
  <2>3. QED BY <1>1, <2>1, <2>2 DEF TypeOK, JobOK, OpenAggregate
<1>4. \A k \in ledger : k.id # n BY <1>1, AggregateIdUnused
<1>5. \A x \in Route \ {r} : OpenAggregate(x) => aggregate[x].id # n
  <2>1. CASE aggregate[r].state = "none"
    <3>1. n = nextId BY <2>1 DEF AggregateId
    <3>2. \A x \in Route : OpenAggregate(x) => aggregate[x].id < nextId BY DEF IdsDistinct
    <3>3. \A x \in Route : aggregate[x].id \in Nat BY DEF TypeOK, JobOK
    <3> HIDE DEF n
    <3>4. QED BY <1>2, <3>1, <3>2, <3>3
  <2>2. CASE OpenAggregate(r) BY <2>2 DEF AggregateId, OpenAggregate, IdsDistinct
  <2>3. QED BY <1>1, <2>1, <2>2 DEF TypeOK, JobOK, OpenAggregate
<1>6. \E s \in {"collecting", "review", "settled"} :
        /\ aggregate' = [aggregate EXCEPT ![r] = [id |-> n, state |-> s]]
        /\ s # "settled" => UNCHANGED ledger
        /\ s = "settled" => \E l : l.id = n /\ ledger' = ledger \cup {l}
  <2> DEFINE d == DecisionFor(r)
  <2>1. /\ aggregate' = [aggregate EXCEPT ![r] = [id |-> n, state |->
              [collect |-> "collecting", review |-> "review", settle |-> "settled"][d.outcome]]]
        /\ \/ d.outcome = "collect" /\ Collect(r, d)
           \/ d.outcome = "review" /\ Review(r, d)
           \/ d.outcome = "settle" /\ SettleAggregate(r, d)
    BY DEF Reconcile
  <2> DEFINE state == [collect |-> "collecting", review |-> "review", settle |-> "settled"]
  <2>2. /\ state["collect"] = "collecting" /\ state["review"] = "review"
        /\ state["settle"] = "settled"
    OBVIOUS
  <2>3. aggregate' = [aggregate EXCEPT ![r] = [id |-> n, state |-> state[d.outcome]]] BY <2>1, Zenon
  <2> HIDE DEF d, n, state
  <2>4. CASE d.outcome = "collect"
    <3>1. Collect(r, d) BY <2>1, <2>4
    <3>2. ledger' = ledger BY <3>1, Zenon DEF Collect
    <3>3. aggregate' = [aggregate EXCEPT ![r] = [id |-> n, state |-> "collecting"]]
      BY <2>2, <2>3, <2>4, Zenon
    <3>4. QED BY <3>2, <3>3
  <2>5. CASE d.outcome = "review"
    <3>1. Review(r, d) BY <2>1, <2>5
    <3>2. ledger' = ledger BY <3>1, Zenon DEF Review
    <3>3. aggregate' = [aggregate EXCEPT ![r] = [id |-> n, state |-> "review"]]
      BY <2>2, <2>3, <2>5, Zenon
    <3>4. QED BY <3>2, <3>3
  <2>6. CASE d.outcome = "settle"
    <3> DEFINE l == [id |-> n, corr |-> n, intent |-> IntentOf[r], route |-> r, amount |-> d.credited]
    <3>1. ledger' = ledger \cup {l} BY <2>1, <2>6 DEF SettleAggregate, n
    <3>2. l.id = n OBVIOUS
    <3> HIDE DEF l
    <3>3. aggregate' = [aggregate EXCEPT ![r] = [id |-> n, state |-> "settled"]]
      BY <2>2, <2>3, <2>6, Zenon
    <3>4. QED BY <3>1, <3>2, <3>3
  <2>7. QED BY <2>1, <2>4, <2>5, <2>6
<1> HIDE DEF n
<1>7. PICK s \in {"collecting", "review", "settled"} :
        /\ aggregate' = [aggregate EXCEPT ![r] = [id |-> n, state |-> s]]
        /\ s # "settled" => UNCHANGED ledger
        /\ s = "settled" => \E l : l.id = n /\ ledger' = ledger \cup {l}
  BY <1>6
<1>8. /\ \A l, k \in ledger' : l.id = k.id => l = k
      /\ \A l \in ledger' : l.id < nextId'
      /\ reversal' \subseteq {l.id : l \in ledger'}
  <2>1. \A k \in ledger : k.id < nextId /\ k.id \in Nat BY DEF IdsDistinct, TypeOK, MoneyOK
  <2>2. \A k \in ledger : k.id < nextId' BY <1>2, <2>1
  <2>3. CASE s # "settled" BY <1>1, <1>7, <2>2, <2>3 DEF IdsDistinct
  <2>4. CASE s = "settled"
    <3>1. PICK l : l.id = n /\ ledger' = ledger \cup {l} BY <1>7, <2>4
    <3>2. \A m, k \in ledger' : m.id = k.id => m = k BY <1>4, <3>1 DEF IdsDistinct
    <3>3. \A k \in ledger' : k.id < nextId' BY <1>3, <2>2, <3>1
    <3>4. reversal' \subseteq {k.id : k \in ledger'} BY <1>1, <3>1 DEF IdsDistinct
    <3>5. QED BY <3>2, <3>3, <3>4
  <2>5. QED BY <2>3, <2>4
<1>9. ASSUME NEW x \in Route, OpenAggregate(x)'
      PROVE  /\ aggregate'[x].id < nextId'
             /\ \A l \in ledger' : l.id # aggregate'[x].id
             /\ \A y \in Route \ {x} : OpenAggregate(y)' => aggregate'[y].id # aggregate'[x].id
  <2>1. aggregate \in [Route -> [id : Nat, state : {"none", "collecting", "review", "settled"}]]
    BY DEF TypeOK, JobOK
  <2>2. CASE x = r
    <3>1. s # "settled" /\ aggregate'[x].id = n BY <1>7, <1>9, <2>1, <2>2 DEF OpenAggregate
    <3>2. \A y \in Route \ {x} : OpenAggregate(y)' => OpenAggregate(y) /\ aggregate'[y].id = aggregate[y].id
      BY <1>7, <2>1, <2>2 DEF OpenAggregate
    <3>3. QED BY <1>3, <1>4, <1>5, <1>7, <2>2, <3>1, <3>2
  <2>3. CASE x # r
    <3>1. OpenAggregate(x) /\ aggregate'[x] = aggregate[x] BY <1>7, <1>9, <2>1, <2>3 DEF OpenAggregate
    <3>2. /\ aggregate[x].id < nextId /\ \A l \in ledger : l.id # aggregate[x].id
          /\ aggregate[x].id # n
      BY <1>5, <2>3, <3>1 DEF IdsDistinct
    <3>3. aggregate'[x].id < nextId'
      <4>1. aggregate[x].id \in Nat BY <2>1
      <4>2. aggregate[x].id < nextId' BY <1>2, <3>2, <4>1
      <4>3. QED BY <3>1, <4>2
    <3>4. \A l \in ledger' : l.id # aggregate'[x].id BY <1>7, <3>1, <3>2
    <3>5. ASSUME NEW y \in Route \ {x}, OpenAggregate(y)' PROVE aggregate'[y].id # aggregate'[x].id
      <4>1. CASE y = r BY <1>7, <2>1, <3>1, <3>2, <4>1
      <4>2. CASE y # r
        BY <1>7, <2>1, <3>1, <3>5, <4>2 DEF OpenAggregate, IdsDistinct
      <4>3. QED BY <4>1, <4>2
    <3>6. QED BY <3>3, <3>4, <3>5
  <2>4. QED BY <2>2, <2>3
<1>10. QED BY <1>8, <1>9 DEF IdsDistinct

(* NextIds: every transaction keeps identifiers apart. *)
LEMMA NextIds ==
  ASSUME TypeOK, IdsDistinct, [Next]_stateVars
  PROVE  IdsDistinct'
<1>1. CASE UNCHANGED <<ledger, reversal, nextId, aggregate>>
  BY <1>1 DEF IdsDistinct, OpenAggregate
<1>2. ASSUME NEW e \in Transfer, NEW b \in Block, NEW p \in Report, Ingest(e, b, p)
      PROVE  IdsDistinct'
  <2> DEFINE r == ExactRoute(e, b)
             t == Merged(e, b, p)
  <2>1. CASE Settle(e, r, t)
    <3> DEFINE l == Posting(e, r, TransferInfo[e].amount)
    <3>1. l.id = nextId BY DEF Posting
    <3>2. ledger' = ledger \cup {l} /\ nextId' = nextId + 1 /\ UNCHANGED <<reversal, aggregate>>
      BY <2>1 DEF Settle, jobVars
    <3> HIDE DEF l
    <3>3. QED BY <3>1, <3>2, PostedNext
  <2>2. CASE Observe(e, r, t) BY <1>1, <2>2 DEF Observe, moneyVars, jobVars
  <2>3. CASE Classify(e, b) BY <1>1, <2>3 DEF Classify, moneyVars
  <2>4. CASE UNCHANGED <<observation, intent, route, reservation, triageVars, moneyVars, jobVars, outbox>>
    BY <1>1, <2>4 DEF moneyVars, jobVars
  <2>5. QED BY <1>2, <2>1, <2>2, <2>3, <2>4 DEF Ingest
<1>3. ASSUME NEW k \in DOMAIN resolution, ApplyResolution(k) PROVE IdsDistinct'
  <2> DEFINE q == resolution[k]
             l == Posting(q.event, q.route, TransferInfo[q.event].amount)
  <2>1. l.id = nextId BY DEF Posting
  <2>2. ledger' = ledger \cup {l} /\ nextId' = nextId + 1 /\ UNCHANGED <<reversal, aggregate>>
    BY <1>3 DEF ApplyResolution, jobVars
  <2> HIDE DEF l
  <2>3. QED BY <2>1, <2>2, PostedNext
<1>4. CASE \E i \in Intent : CancelIntent(i) \/ ExpireDueIntent(i)
  BY <1>1, <1>4 DEF CancelIntent, ExpireDueIntent, moneyVars, jobVars
<1>5. CASE \E h \in 0..cursor : RewindReorg(h) BY <1>5, RewindIds
<1>6. CASE \E r \in Route : Reconcile(r) BY <1>6, ReconcileIds
<1>7. CASE UNCHANGED <<intent, moneyVars, aggregate>> BY <1>1, <1>7 DEF moneyVars
<1>8. QED BY <1>2, <1>3, <1>4, <1>5, <1>6, <1>7, OtherStep DEF Next

(* MoneyInvariant: MoneyInv is inductive. *)
LEMMA MoneyInvariant == Spec => []MoneyInv
<1>1. Init => MoneyInv
  <2> SUFFICES ASSUME Init PROVE MoneyInv OBVIOUS
  <2>1. ledger = {} /\ reversal = {} /\ \A r \in Route : ~OpenAggregate(r)
    BY DEF Init, OpenAggregate
  <2>2. IdsDistinct BY <2>1 DEF IdsDistinct
  <2>3. PaidOnce BY <2>1 DEF PaidOnce, Live
  <2>4. SettledIffPosted BY <2>1 DEF Init, SettledIffPosted, Live, Paid
  <2>5. QED BY <2>2, <2>3, <2>4, InitType DEF MoneyInv
<1>2. MoneyInv /\ [Next]_stateVars => MoneyInv'
  <2> SUFFICES ASSUME MoneyInv, [Next]_stateVars PROVE MoneyInv' OBVIOUS
  <2>1. \A l \in ledger : l.intent \in Intent BY DEF MoneyInv, TypeOK, MoneyOK
  <2>2. QED BY <2>1, NextType, NextIds, NextMoneyStep, BooksStep DEF MoneyInv
<1>3. QED BY <1>1, <1>2, PTL DEF Spec

(* NeverPaidTwice: however many transfers, routes and workers compete, an   *)
(* invoice never has two settlement postings in force.                      *)
THEOREM NeverPaidTwice == Spec => []PaidOnce
<1>1. MoneyInv => PaidOnce BY DEF MoneyInv
<1>2. QED BY <1>1, MoneyInvariant, PTL

(* PaidMeansPosted: an invoice reads settled or overpaid exactly while a    *)
(* posting for it is in force, through any sequence of settlements and      *)
(* compensations.                                                           *)
THEOREM PaidMeansPosted == Spec => []SettledIffPosted
<1>1. MoneyInv => SettledIffPosted BY DEF MoneyInv
<1>2. QED BY <1>1, MoneyInvariant, PTL

(* IdentifiersApart: no identifier of a posting is used twice, nor shared   *)
(* with an open aggregate.                                                  *)
THEOREM IdentifiersApart == Spec => []IdsDistinct
<1>1. MoneyInv => IdsDistinct BY DEF MoneyInv
<1>2. QED BY <1>1, MoneyInvariant, PTL

-----------------------------------------------------------------------------
(* BooksRefined: each kind of step on the payment tables is a step of       *)
(* Account, or leaves its books alone.                                      *)
LEMMA BooksRefined ==
  ASSUME MoneyInv, MoneyStep
  PROVE  [Books!Step]_(Books!books)
<1> DEFINE P == {[id |-> l.id, intent |-> l.intent] : l \in ledger}
<1>1. PaidIntents = {l.intent : l \in Live}
  BY DEF MoneyInv, TypeOK, MoneyOK, SettledIffPosted, PaidIntents, Live
<1>2. CASE Quiet BY <1>2 DEF Quiet, Books!books
<1>3. ASSUME NEW l, Posts(l) PROVE Books!Step
  <2> DEFINE p == [id |-> l.id, intent |-> l.intent]
  <2>1. P' = P \cup {p} BY <1>3 DEF Posts
  <2>2. \A q \in P : q.id # p.id
    <3>1. \A k \in ledger : k.id # l.id BY <1>3 DEF Posts
    <3>2. \A q \in P : \E k \in ledger : q.id = k.id OBVIOUS
    <3>3. p.id = l.id OBVIOUS
    <3> HIDE DEF p, P
    <3>4. QED BY <3>1, <3>2, <3>3
  <2>3. p.intent = l.intent OBVIOUS
  <2> HIDE DEF p, P
  <2>4. p \in P' BY <2>1
  <2>5. Books!Post(p) BY <1>3, <2>1, <2>2, <2>3 DEF Books!Post, Posts, P
  <2>6. QED BY <2>4, <2>5 DEF Books!Step, P
<1>4. ASSUME NEW L, Voids(L) PROVE Books!Step
  <2> DEFINE I == {l.intent : l \in L}
  <2>1. I \subseteq PaidIntents BY <1>1, <1>4 DEF Voids
  <2>2. P' = P BY <1>4 DEF Voids
  <2>3. \A l \in ledger : l \in L <=> l.id \notin reversal /\ l.intent \in I
    BY <1>4 DEF Voids, Live, MoneyInv, PaidOnce
  <2>4. {l.id : l \in L} = {p.id : p \in {p \in {p \in P : p.id \notin reversal} : p.intent \in I}}
    <3>1. ASSUME NEW l \in L
          PROVE  l.id \in {p.id : p \in {p \in {p \in P : p.id \notin reversal} : p.intent \in I}}
      <4>1. l \in ledger BY <1>4 DEF Voids, Live
      <4> DEFINE p == [id |-> l.id, intent |-> l.intent]
      <4>2. p \in P /\ p.id = l.id /\ p.intent = l.intent BY <4>1
      <4> HIDE DEF p, P
      <4>3. QED BY <2>3, <4>1, <4>2
    <3>2. ASSUME NEW p \in P, p.id \notin reversal, p.intent \in I
          PROVE  p.id \in {l.id : l \in L}
      <4>1. PICK l \in ledger : p = [id |-> l.id, intent |-> l.intent] OBVIOUS
      <4>2. p.id = l.id /\ p.intent = l.intent BY <4>1
      <4>3. QED BY <2>3, <3>2, <4>2
    <3> HIDE DEF P
    <3>3. QED BY <3>1, <3>2
  <2> HIDE DEF I
  <2>5. PaidIntents' = PaidIntents \ I BY <1>4 DEF Voids, I
  <2>6. reversal' = reversal \cup {l.id : l \in L} BY <1>4 DEF Voids
  <2>7. Books!Void(I)
    BY <2>1, <2>2, <2>4, <2>5, <2>6 DEF Books!Void, Books!InForce
  <2>8. QED BY <2>1, <2>7 DEF Books!Step
<1>5. QED BY <1>2, <1>3, <1>4 DEF MoneyStep

(* ImplementsAccount: the transactions of settlement, matching, manual      *)
(* resolution and reorganisation together implement the books of Account.   *)
THEOREM ImplementsAccount == Spec => KeepsAccount
<1>1. Init => Books!Open
  <2> SUFFICES ASSUME Init PROVE Books!Open OBVIOUS
  <2>1. /\ ledger = {} /\ reversal = {}
        /\ intent = [i \in Intent |-> [status |-> "pending", version |-> 1]]
    BY DEF Init
  <2>2. {[id |-> l.id, intent |-> l.intent] : l \in ledger} = {} BY <2>1
  <2>3. PaidIntents = {} BY <2>1 DEF PaidIntents, Paid
  <2>4. QED BY <2>1, <2>2, <2>3 DEF Books!Open
<1>2. MoneyInv /\ [Next]_stateVars => [Books!Step]_(Books!books)
  BY NextMoneyStep, BooksRefined DEF MoneyInv
<1>3. QED BY <1>1, <1>2, MoneyInvariant, PTL DEF Spec, KeepsAccount, Books!Spec
=============================================================================
