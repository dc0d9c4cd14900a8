--------------------------- MODULE PaymentsProof ----------------------------
(***************************************************************************)
(* Type correctness of the payment core, for every value of the constants: *)
(* one lemma per handler, and under it one step per table it writes.       *)
(***************************************************************************)
EXTENDS Payments, FiniteSetTheorems, TLAPS

(* InitType: A fresh database is well typed. *)
LEMMA InitType == Init => TypeOK
  BY ConstantsAssumption DEF Init, TypeOK, ChainOK, TransferOK, ObservationOK, InvoiceOK, TriageOK,
     ResolutionOK, MoneyOK, JobOK, NoRow, Row, Sighting, Finality, IntentStatus, RouteStatus, UnmatchedStatus,
     JobStatus, Case, JobRow

(* SingletonNonempty: A set of one element is not empty. *)
LEMMA SingletonNonempty == ASSUME NEW S, Cardinality(S) = 1 PROVE S # {}
  BY FS_EmptySet

(* ExactRouteIn: When findSettlementCandidates returns one route, ExactRoute *)
(* is that route.                                                           *)
LEMMA ExactRouteIn ==
  ASSUME NEW e, NEW b, Cardinality(ExactRoutes(e, b)) = 1
  PROVE  ExactRoute(e, b) \in ExactRoutes(e, b) /\ ExactRoute(e, b) \in Route
<1>1. ExactRoutes(e, b) # {} BY SingletonNonempty
<1>2. ExactRoutes(e, b) \subseteq Route BY DEF ExactRoutes
<1>3. QED BY <1>1, <1>2 DEF ExactRoute

(* NewStatusType: Writing a status and bumping the version keeps            *)
(* payment_intents well typed.                                              *)
LEMMA NewStatusType ==
  ASSUME InvoiceOK, NEW i \in Intent, NEW s \in IntentStatus
  PROVE  NewStatus(i, s) \in [Intent -> [status : IntentStatus, version : Nat]]
  BY DEF InvoiceOK, NewStatus

(* CancelType: CancelIntent keeps every table well typed. *)
LEMMA CancelType == ASSUME TypeOK, NEW i \in Intent, CancelIntent(i) PROVE TypeOK'
<1>1. InvoiceOK'
  <2>1. InvoiceOK BY DEF TypeOK
  <2>2. intent' \in [Intent -> [status : IntentStatus, version : Nat]]
    BY <2>1, NewStatusType DEF CancelIntent, IntentStatus
  <2>3. route' \in [Route -> RouteStatus]
    BY <2>1 DEF InvoiceOK, CancelIntent, RouteStatus
  <2>4. QED BY <2>1, <2>2, <2>3 DEF InvoiceOK, CancelIntent
<1>2. QED
  BY <1>1 DEF TypeOK, ChainOK, TransferOK, ObservationOK, TriageOK, ResolutionOK, MoneyOK, JobOK,
     CancelIntent, chainVars, triageVars, moneyVars, jobVars

(* AdmitType: ScannerStore.Commit keeps every table well typed. *)
LEMMA AdmitType == ASSUME TypeOK, NEW b \in Block, AdmitBlock(b) PROVE TypeOK'
<1>1. ChainOK'
  BY ConstantsAssumption DEF TypeOK, ChainOK, AdmitBlock
<1>2. QED
  BY <1>1 DEF TypeOK, TransferOK, ObservationOK, InvoiceOK, TriageOK, ResolutionOK, MoneyOK, JobOK,
     AdmitBlock, paymentVars, triageVars, moneyVars, jobVars

(* ExpireType: ExpireDueIntents keeps every table well typed. *)
LEMMA ExpireType == ASSUME TypeOK, NEW i \in Intent, ExpireDueIntent(i) PROVE TypeOK'
<1>1. InvoiceOK'
  <2>1. InvoiceOK BY DEF TypeOK
  <2>2. intent' \in [Intent -> [status : IntentStatus, version : Nat]]
    BY <2>1, NewStatusType DEF ExpireDueIntent, IntentStatus
  <2>3. route' \in [Route -> RouteStatus]
    BY <2>1 DEF InvoiceOK, ExpireDueIntent, RouteStatus
  <2>4. QED BY <2>1, <2>2, <2>3 DEF InvoiceOK, ExpireDueIntent
<1>2. QED
  BY <1>1 DEF TypeOK, ChainOK, TransferOK, ObservationOK, TriageOK, ResolutionOK, MoneyOK, JobOK,
     ExpireDueIntent, chainVars, triageVars, moneyVars, jobVars

(* ReleaseType: ReleaseElapsedRouteGrace keeps every table well typed. *)
LEMMA ReleaseType == ASSUME TypeOK, NEW r \in Route, ReleaseElapsedRouteGrace(r) PROVE TypeOK'
  BY DEF TypeOK, ChainOK, TransferOK, ObservationOK, InvoiceOK, TriageOK, ResolutionOK, MoneyOK,
     JobOK, ReleaseElapsedRouteGrace, chainVars, triageVars, moneyVars, jobVars

(* TickType: The clock keeps every table well typed. *)
LEMMA TickType == ASSUME TypeOK, Tick PROVE TypeOK'
<1>1. ChainOK' BY DEF TypeOK, ChainOK, Tick
<1>2. QED
  BY <1>1 DEF TypeOK, TransferOK, ObservationOK, InvoiceOK, TriageOK, ResolutionOK, MoneyOK,
     JobOK, Tick, paymentVars, triageVars, moneyVars, jobVars

(* MergedType: insertCanonicalTransfer writes a well-typed transfer row. *)
LEMMA MergedType ==
  ASSUME TypeOK, NEW e \in Transfer, NEW b \in Block, NEW p \in Report
  PROVE  Merged(e, b, p) \in Row
<1>1. p.status \in Finality /\ p.conf \in Nat BY ConstantsAssumption DEF Finality
<1>2. transfer[e].conf \in Nat BY DEF TypeOK, TransferOK, Row
<1>3. QED BY <1>1, <1>2 DEF Merged, Max2, Row

(* SightingUpdate: Updating the progress columns of an observation keeps it *)
(* well typed.                                                              *)
LEMMA SightingUpdate ==
  ASSUME NEW o \in Sighting, NEW f \in Finality, NEW v \in Nat, NEW c \in Nat
  PROVE  [o EXCEPT !.finality = f, !.version = v, !.conf = c] \in Sighting
  BY DEF Sighting

(* AdvancedType: advancePaymentObservation writes a well-typed observation. *)
LEMMA AdvancedType ==
  ASSUME TypeOK, NEW e \in Transfer, NEW r \in Route, NEW t \in Row
  PROVE  Advanced(e, r, t) \in Sighting
<1>1. DesiredFinality(r, t) \in Finality BY DEF DesiredFinality, Finality
<1> DEFINE o == observation[e]
           d == DesiredFinality(r, t)
<1>2. o \in Sighting /\ t.conf \in Nat BY DEF TypeOK, ObservationOK, Row
<1>3. CASE Fresh(e)
  <2>1. Advanced(e, r, t) = [finality |-> d, route |-> r, generation |-> o.generation + 1,
          version |-> o.version + 1, conf |-> t.conf, emitted |-> {}]
    BY <1>3 DEF Advanced
  <2>2. QED BY <1>1, <1>2, <2>1 DEF Sighting
<1>4. CASE ~Fresh(e)
  <2> DEFINE f == IF Rank[d] > Rank[o.finality] THEN d ELSE o.finality
             c == Max2(o.conf, t.conf)
  <2>1. \/ Advanced(e, r, t) = [o EXCEPT !.finality = f, !.version = o.version + 1, !.conf = c]
        \/ Advanced(e, r, t) = o
    BY <1>4 DEF Advanced
  <2>2. f \in Finality /\ c \in Nat BY <1>1, <1>2 DEF Sighting, Max2
  <2> HIDE DEF f, c
  <2>3. o.version + 1 \in Nat BY <1>2 DEF Sighting
  <2> HIDE DEF o
  <2>4. [o EXCEPT !.finality = f, !.version = o.version + 1, !.conf = c] \in Sighting
    BY <1>2, <2>2, <2>3, SightingUpdate
  <2>5. QED BY <1>2, <2>1, <2>4
<1>5. QED BY <1>3, <1>4

(* LifecycleType: observationLifecycleEvent names a lifecycle event or none. *)
LEMMA LifecycleType ==
  ASSUME NEW e, NEW r, NEW t
  PROVE  LifecycleEvent(e, r, t) \in LifecycleTypes \cup {"none"}
  BY DEF LifecycleEvent, LifecycleTypes

(* EmittingType: linkObservationEvent keeps an observation well typed. *)
LEMMA EmittingType ==
  ASSUME NEW o \in Sighting, NEW type \in LifecycleTypes
  PROVE  Emitting(o, type) \in Sighting
  BY DEF Emitting, Sighting

(* ObserveType: The observation branch of IngestAndSettle keeps the tables  *)
(* it writes well typed.                                                    *)
LEMMA ObserveType ==
  ASSUME TypeOK, NEW e \in Transfer, NEW r \in Route, NEW t \in Row, Observe(e, r, t)
  PROVE  ObservationOK' /\ InvoiceOK' /\ TriageOK' /\ ResolutionOK' /\ MoneyOK' /\ JobOK'
<1> DEFINE o == Advanced(e, r, t)
           type == LifecycleEvent(e, r, t)
<1>1. o \in Sighting
  BY AdvancedType
<1>2. type \in LifecycleTypes \cup {"none"} BY LifecycleType
<1>3. ObservationOK'
  BY <1>1, <1>2, EmittingType DEF TypeOK, ObservationOK, Observe
<1>4. InvoiceOK'
  <2>1. IntentOf[r] \in Intent BY ConstantsAssumption
  <2>2. ObservedIntent(IntentOf[r], type) \in [Intent -> [status : IntentStatus, version : Nat]]
    BY <2>1, NewStatusType DEF TypeOK, ObservedIntent, InvoiceOK, IntentStatus
  <2>3. QED BY <2>2 DEF TypeOK, InvoiceOK, Observe
<1>5. QED BY <1>3, <1>4 DEF TypeOK, TriageOK, ResolutionOK, MoneyOK, JobOK, Observe, triageVars, moneyVars, jobVars

(* PostedType: One more well-typed match and posting keep the money tables  *)
(* well typed.                                                              *)
LEMMA PostedType ==
  ASSUME TypeOK, NEW l, NEW m,
         l.id \in Nat /\ l.corr \in Transfer \cup Nat /\ l.intent \in Intent /\ l.route \in Route,
         m \in [event : Transfer, route : Route, aggregate : Nat, state : {"proposed", "finalized"}],
         matches' = matches \cup {m} /\ ledger' = ledger \cup {l},
         nextId' = nextId + 1 /\ reversal' = reversal
  PROVE  MoneyOK'
<1>1. MoneyOK BY DEF TypeOK
<1> DEFINE Match == [event : Transfer, route : Route, aggregate : Nat,
                     state : {"proposed", "finalized"}]
<1>2. matches' \subseteq Match
  <2>1. matches \subseteq Match /\ m \in Match BY <1>1 DEF MoneyOK
  <2> HIDE DEF Match
  <2>2. QED BY <2>1
<1>3. \A k \in ledger' : /\ k.id \in Nat /\ k.corr \in Transfer \cup Nat
                         /\ k.intent \in Intent /\ k.route \in Route
  BY <1>1 DEF MoneyOK
<1>4. reversal' \subseteq Nat /\ nextId' \in Nat BY <1>1 DEF MoneyOK
<1>5. QED BY <1>2, <1>3, <1>4 DEF MoneyOK

(* SettleType: The settlement branch of IngestAndSettle keeps the tables it *)
(* writes well typed.                                                       *)
LEMMA SettleType ==
  ASSUME TypeOK, NEW e \in Transfer, NEW r \in Route, NEW t \in Row, Settle(e, r, t)
  PROVE  ObservationOK' /\ InvoiceOK' /\ TriageOK' /\ ResolutionOK' /\ MoneyOK' /\ JobOK'
<1>1. ObservationOK'
  <2>1. "payment.settled" \in LifecycleTypes BY DEF LifecycleTypes
  <2>2. Emitting(Advanced(e, r, t), "payment.settled") \in Sighting
    BY <2>1, AdvancedType, EmittingType
  <2>3. QED BY <2>2 DEF TypeOK, ObservationOK, Settle
<1>2. IntentOf[r] \in Intent BY ConstantsAssumption
<1>3. InvoiceOK'
  <2>1. intent' \in [Intent -> [status : IntentStatus, version : Nat]]
    BY <1>2, NewStatusType DEF TypeOK, Settle, IntentStatus
  <2>2. route' \in [Route -> RouteStatus]
    BY DEF TypeOK, InvoiceOK, Settle, SettledRoutes, RouteStatus
  <2>3. reservation' \in [Route -> {"active", "consumed", "released"}]
    BY DEF TypeOK, InvoiceOK, Settle, SettledReservations
  <2>4. QED BY <2>1, <2>2, <2>3 DEF InvoiceOK
<1>4. MoneyOK'
  <2> DEFINE l0 == Posting(e, r, TransferInfo[e].amount)
             m0 == [event |-> e, route |-> r, aggregate |-> 0, state |-> "finalized"]
  <2>1. /\ l0.id \in Nat /\ l0.corr \in Transfer \cup Nat
        /\ l0.intent \in Intent /\ l0.route \in Route
    BY <1>2 DEF TypeOK, MoneyOK, Posting
  <2>2. m0 \in [event : Transfer, route : Route, aggregate : Nat, state : {"proposed", "finalized"}]
    OBVIOUS
  <2>3. /\ matches' = matches \cup {m0} /\ ledger' = ledger \cup {l0}
        /\ nextId' = nextId + 1 /\ reversal' = reversal
    BY Zenon DEF Settle
  <2> HIDE DEF l0, m0
  <2>4. QED BY <2>1, <2>2, <2>3, PostedType
<1>5. QED BY <1>1, <1>3, <1>4 DEF TypeOK, TriageOK, ResolutionOK, JobOK, Settle, triageVars, jobVars

(* CandidateRoutes: BuildCandidates only proposes the routes it is given. *)
LEMMA CandidateRoutes ==
  ASSUME NEW ev, NEW Routes, NEW Info, NEW n, NEW c \in BuildCandidates(ev, Routes, Info, n)
  PROVE  c.route \in Routes
<1> DEFINE Fields == {"route", "order", "class", "score", "delta", "reasons"}
           raw  == {Candidate(r, ev, Info[r], n) : r \in Routes}
           bump(x) == IF Cardinality(raw) = 1 /\ x.class = "overpaid" /\ "above_expected" \in x.reasons
                      THEN [x EXCEPT !.score = @ + 10] ELSE x
           lone == {bump(x) : x \in raw}
           leader == First(lone)
           tied == {x \in lone : x.score = leader.score /\ SameDistance(x, leader)}
           mark(x) == IF Cardinality(tied) > 1 /\ x \in tied THEN [x EXCEPT !.class = "ambiguous"] ELSE x
<1>1. ASSUME NEW r \in Routes
      PROVE  /\ Candidate(r, ev, Info[r], n) = [y \in Fields |-> Candidate(r, ev, Info[r], n)[y]]
             /\ Candidate(r, ev, Info[r], n).route = r
  BY DEF Candidate
<1>2. \A x \in raw : x = [y \in Fields |-> x[y]] /\ x.route \in Routes
  BY <1>1
<1> HIDE DEF raw
<1>3. \A x \in lone : x = [y \in Fields |-> x[y]] /\ x.route \in Routes
  BY <1>2
<1> HIDE DEF lone, tied
<1>4. c \in {mark(x) : x \in lone}
  BY DEF BuildCandidates, lone, raw, tied
<1>5. QED BY <1>3, <1>4

(* CaseUpdate: A new status or a new selected route keeps an                *)
(* unmatched_payments row well typed.                                       *)
LEMMA CaseUpdate ==
  ASSUME NEW c \in Case, NEW s \in UnmatchedStatus, NEW sel \in Route \cup {NoRoute}
  PROVE  WithStatus(c, s) \in Case /\ Assigned(c, s, sel) \in Case
  BY DEF Case, WithStatus, Assigned

(* JobUpdate: The updates of a matching job keep its row well typed. *)
LEMMA JobUpdate ==
  ASSUME NEW j \in JobRow, now \in Nat
  PROVE  /\ Flagged(j) \in JobRow /\ Woken(j) \in JobRow /\ Requeued(j) \in JobRow
         /\ Leased(j) \in JobRow /\ Abandoned(j) \in JobRow
  BY DEF JobRow, JobStatus, Flagged, Woken, Requeued, Leased, Abandoned

(* EnqueuedType: enqueueAutomatedMatchingCandidates keeps the jobs well     *)
(* typed.                                                                   *)
LEMMA EnqueuedType ==
  ASSUME TypeOK, NEW r \in Route
  PROVE  Enqueued(r) \in [Route -> JobRow]
  BY JobUpdate DEF TypeOK, JobOK, ChainOK, Enqueued

(* NewStatusAnyType: NewStatus keeps payment_intents well typed even for an *)
(* identifier that has no row.                                              *)
LEMMA NewStatusAnyType ==
  ASSUME InvoiceOK, NEW i, NEW s \in IntentStatus
  PROVE  NewStatus(i, s) \in [Intent -> [status : IntentStatus, version : Nat]]
<1>1. CASE i \in Intent BY <1>1, NewStatusType
<1>2. CASE i \notin Intent BY <1>2 DEF InvoiceOK, NewStatus
<1>3. QED BY <1>1, <1>2

(* RecordExceptionType: recordExceptionIntent keeps payment_intents well    *)
(* typed.                                                                   *)
LEMMA RecordExceptionType ==
  ASSUME TypeOK, NEW c, RecordException(c)
  PROVE  intent' \in [Intent -> [status : IntentStatus, version : Nat]]
<1>1. ExceptionStatus(c) \in IntentStatus BY DEF ExceptionStatus, IntentStatus
<1>2. intent' = NewStatus(IntentOf[c.route], ExceptionStatus(c)) \/ intent' = intent
  BY Zenon DEF RecordException
<1>3. CASE intent' = NewStatus(IntentOf[c.route], ExceptionStatus(c))
  BY <1>1, <1>3, NewStatusAnyType DEF TypeOK
<1>4. CASE intent' = intent BY <1>4 DEF TypeOK, InvoiceOK
<1>5. QED BY <1>2, <1>3, <1>4

(* ClassifyType: The unmatched branch of IngestAndSettle keeps the tables it *)
(* writes well typed.                                                       *)
LEMMA ClassifyType ==
  ASSUME TypeOK, NEW e \in Transfer, NEW b \in Block, Classify(e, b)
  PROVE  ObservationOK' /\ InvoiceOK' /\ TriageOK' /\ ResolutionOK' /\ MoneyOK' /\ JobOK'
<1> DEFINE C == Potential(e, b)
           selected == SelectAutomatic(C, RouteInfo, {r \in Route : OpenRoute(r)})
           q == {r \in Route : RouteInfo[r].bound /\ \E c \in selected :
                                   c.route = r /\ c.class \notin {"wrong_asset", "ambiguous"}}
           dust == ExactRoutes(e, b) = {} /\ IsDust(e, b)
           T == CHOOSE t \in PotentialTenants(e, b) : TRUE
<1>1. \A c \in C : c.route \in Route
  BY CandidateRoutes DEF Potential, NearRoutes
<1>2. C # {} => T \in Tenant
  <2>1. SUFFICES ASSUME C # {} PROVE T \in Tenant OBVIOUS
  <2>2. PotentialTenants(e, b) # {}
    BY <2>1, SingletonNonempty DEF Potential
  <2>3. PotentialTenants(e, b) \subseteq Tenant
    BY ConstantsAssumption DEF PotentialTenants, NearRoutes, Tenant
  <2>4. QED BY <2>2, <2>3
<1> HIDE DEF C, T
<1>3. intent' \in [Intent -> [status : IntentStatus, version : Nat]]
  <2>1. CASE dust BY <2>1 DEF Classify, TypeOK, InvoiceOK
  <2>2. CASE ~dust
    <3>1. RecordException(First(C)) \/ UNCHANGED intent
      BY <2>2 DEF Classify, C
    <3>2. QED BY <3>1, RecordExceptionType DEF TypeOK, InvoiceOK
  <2>3. QED BY <2>1, <2>2
<1>4. InvoiceOK' BY <1>3 DEF Classify, TypeOK, InvoiceOK
<1>5. JobOK'
  <2>1. CASE dust BY <2>1 DEF Classify, TypeOK, JobOK
  <2>2. CASE ~dust
    <3>1. job' = IF q = {} THEN job ELSE Enqueued(CHOOSE r \in q : TRUE)
      BY <2>2 DEF Classify, C
    <3>2. q # {} => (CHOOSE r \in q : TRUE) \in Route OBVIOUS
    <3> HIDE DEF q
    <3>3. QED BY <3>1, <3>2, EnqueuedType DEF Classify, TypeOK, JobOK
  <2>3. QED BY <2>1, <2>2
<1>6. TriageOK'
  <2>1. CASE dust
    <3>1. candidates' = candidates BY <2>1 DEF Classify
    <3>2. unmatched' = IF unmatched[e].status = "none"
                       THEN [unmatched EXCEPT ![e] = WithStatus(@, "ignored")] ELSE unmatched
      BY <2>1 DEF Classify
    <3>3. unmatched' \in [Transfer -> Case]
      BY <3>2, CaseUpdate DEF TypeOK, TriageOK, UnmatchedStatus
    <3>4. QED BY <3>1, <3>3 DEF TypeOK, TriageOK
  <2>2. CASE ~dust
    <3>1. unmatched' = [unmatched EXCEPT ![e] =
             [status   |-> IF C # {} THEN "candidates_ready" ELSE "new",
              tenant   |-> IF C # {} THEN T ELSE NoTenant,
              selected |-> unmatched[e].selected]]
      BY <2>2 DEF Classify, C, T
    <3>2. candidates' = [candidates EXCEPT ![e] = Stored(e, C)]
      BY <2>2 DEF Classify, C
    <3>3. \A c \in Stored(e, C) : c.route \in Route
      <4>1. \A c \in candidates[e] : c.route \in Route BY DEF TypeOK, TriageOK
      <4>2. ASSUME NEW c \in Stored(e, C), c \notin candidates[e] PROVE c.route \in Route
        <5>1. PICK x \in C : c = [route |-> x.route, order |-> x.order, rank |-> RankOf(x, C),
                                 class |-> x.class, score |-> x.score, delta |-> x.delta,
                                 reasons |-> x.reasons]
          BY <4>2 DEF Stored
        <5>2. QED BY <1>1, <5>1
      <4>3. QED BY <4>1, <4>2
    <3>4. unmatched' \in [Transfer -> Case]
      BY <1>2, <3>1 DEF TypeOK, TriageOK, Case, UnmatchedStatus
    <3>5. QED BY <3>2, <3>3, <3>4 DEF TypeOK, TriageOK
  <2>3. QED BY <2>1, <2>2
<1>7. QED BY <1>4, <1>5, <1>6 DEF Classify, TypeOK, ObservationOK, ResolutionOK, MoneyOK, moneyVars

(* IngestType: IngestAndSettle keeps every table well typed. *)
LEMMA IngestType ==
  ASSUME TypeOK, NEW e \in Transfer, NEW b \in Block, NEW p \in Report, Ingest(e, b, p)
  PROVE  TypeOK'
<1> DEFINE t == Merged(e, b, p)
           r == ExactRoute(e, b)
<1>1. t \in Row BY MergedType
<1>2. TransferOK' /\ ChainOK'
  BY <1>1 DEF TypeOK, TransferOK, ChainOK, Ingest, chainVars
<1>3. ObservationOK' /\ InvoiceOK' /\ TriageOK' /\ ResolutionOK' /\ MoneyOK' /\ JobOK'
  <2>1. CASE Observe(e, r, t) /\ Cardinality(ExactRoutes(e, b)) = 1
    BY <1>1, <2>1, ExactRouteIn, ObserveType
  <2>2. CASE Settle(e, r, t) /\ Cardinality(ExactRoutes(e, b)) = 1
    BY <1>1, <2>2, ExactRouteIn, SettleType
  <2>3. CASE Classify(e, b) BY <2>3, ClassifyType
  <2>4. CASE UNCHANGED <<observation, intent, route, reservation, triageVars, moneyVars,
                         jobVars, outbox>>
    BY <2>4 DEF TypeOK, ObservationOK, InvoiceOK, TriageOK, ResolutionOK, MoneyOK, JobOK,
       triageVars, moneyVars, jobVars
  <2>5. QED BY <2>1, <2>2, <2>3, <2>4 DEF Ingest
<1>4. QED BY <1>2, <1>3 DEF TypeOK

(* RowUpdate: Marking a transfer reorged keeps its row well typed. *)
LEMMA RowUpdate ==
  ASSUME NEW t \in Row
  PROVE  WithStatus(t, "reorged") \in Row
  BY DEF Row, Finality, WithStatus

(* OrphanedType: An orphaned observation, announced or not, is a well-typed  *)
(* row (reorgPaymentObservation).                                           *)
LEMMA OrphanedType ==
  ASSUME NEW o \in Sighting, NEW announced
  PROVE  Orphaned(o, announced) \in Sighting
<1>1. /\ o.route \in Route \cup {NoRoute} /\ o.generation \in Nat /\ o.conf \in Nat
      /\ o.version \in Nat /\ o.version + 1 \in Nat /\ o.emitted \in SUBSET LifecycleTypes
  BY DEF Sighting
<1>2. o.emitted \cup {"payment.reorged"} \in SUBSET LifecycleTypes BY <1>1 DEF LifecycleTypes
<1>3. "reorged" \in Finality BY DEF Finality
<1>4. QED BY <1>1, <1>2, <1>3 DEF Orphaned, Sighting

(* LoadedType: The postings a rewind compensates are ledger rows. *)
LEMMA LoadedType ==
  ASSUME TypeOK, NEW h, NEW l \in Compensated(h)
  PROVE  l \in ledger /\ l.id \in Nat /\ l.intent \in Intent /\ l.route \in Route
  BY DEF TypeOK, MoneyOK, Compensated, Loaded

(* RewindType: RewindReorg keeps every table well typed. *)
LEMMA RewindType ==
  ASSUME TypeOK, NEW h \in 0..cursor, RewindReorg(h)
  PROVE  TypeOK'
<1> DEFINE E == Orphans(h)
           L == Compensated(h)
           repaid == {l.route : l \in L}
           dropped == {l.corr : l \in L}
<1>1. ChainOK'
  <2>1. /\ block' = [b \in Block |-> IF b \in Replaced(h) THEN "reorged" ELSE block[b]]
        /\ cursor' = h /\ rewinds' = rewinds + 1 /\ now' = now
    BY Zenon DEF RewindReorg
  <2>2. h \in Nat BY DEF TypeOK, ChainOK
  <2>3. QED BY <2>1, <2>2 DEF TypeOK, ChainOK
<1>2. TransferOK'
  <2>1. transfer' = [e \in Transfer |-> IF e \in E THEN WithStatus(transfer[e], "reorged")
                                         ELSE transfer[e]]
    BY DEF RewindReorg
  <2>2. QED BY <2>1, RowUpdate DEF TypeOK, TransferOK
<1>3. ObservationOK'
  <2>1. PICK first \in [L -> E] : observation' = [e \in Transfer |->
           IF e \notin E \/ observation[e].finality = "none" THEN observation[e]
           ELSE Orphaned(observation[e], e \in {first[l] : l \in L} \cup
                                         {x \in E \ {first[l] : l \in L} : Visible(x)})]
    BY DEF RewindReorg
  <2> DEFINE A == {first[l] : l \in L} \cup {x \in E \ {first[l] : l \in L} : Visible(x)}
  <2> HIDE DEF A, E
  <2>2. observation' = [e \in Transfer |->
           IF e \notin E \/ observation[e].finality = "none" THEN observation[e]
           ELSE Orphaned(observation[e], e \in A)]
    BY <2>1 DEF A
  <2>3. \A e \in Transfer : Orphaned(observation[e], e \in A) \in Sighting
    BY OrphanedType DEF TypeOK, ObservationOK
  <2>4. QED BY <2>2, <2>3 DEF TypeOK, ObservationOK
<1>4. InvoiceOK'
  <2>1. PICK I, R : /\ intent' = [i \in Intent |-> IF i \in I THEN UnderReview(i) ELSE intent[i]]
                    /\ route' = [r \in Route |-> IF r \in R THEN Reopened(r) ELSE route[r]]
    <3>1. PICK first \in [L -> E] :
            LET silent == {first[l] : l \in L}
                seenAt == {observation[e].route : e \in {e \in E \ silent : Visible(e)}}
            IN  /\ intent' = [i \in Intent |->
                     IF \/ i \in {l.intent : l \in L}
                        \/ /\ i \in {IntentOf[r] : r \in seenAt}
                           /\ intent[i].status \in {"observed", "confirmed"}
                     THEN UnderReview(i) ELSE intent[i]]
                /\ route' = [r \in Route |->
                     IF \/ r \in repaid /\ route[r] = "settled"
                        \/ r \in seenAt /\ OpenRoute(r)
                     THEN Reopened(r) ELSE route[r]]
      BY DEF RewindReorg
    <3> DEFINE silent == {first[l] : l \in L}
               seenAt == {observation[e].route : e \in {e \in E \ silent : Visible(e)}}
               I0 == {i \in Intent : \/ i \in {l.intent : l \in L}
                                     \/ /\ i \in {IntentOf[r] : r \in seenAt}
                                        /\ intent[i].status \in {"observed", "confirmed"}}
               R0 == {r \in Route : \/ r \in repaid /\ route[r] = "settled"
                                    \/ r \in seenAt /\ OpenRoute(r)}
    <3> HIDE DEF E, L, repaid
    <3>2. intent' = [i \in Intent |->
                     IF \/ i \in {l.intent : l \in L}
                        \/ /\ i \in {IntentOf[r] : r \in seenAt}
                           /\ intent[i].status \in {"observed", "confirmed"}
                     THEN UnderReview(i) ELSE intent[i]]
      BY <3>1, Zenon
    <3>3. route' = [r \in Route |->
                     IF \/ r \in repaid /\ route[r] = "settled"
                        \/ r \in seenAt /\ OpenRoute(r)
                     THEN Reopened(r) ELSE route[r]]
      BY <3>1, Zenon
    <3> HIDE DEF seenAt
    <3>4. intent' = [i \in Intent |-> IF i \in I0 THEN UnderReview(i) ELSE intent[i]]
      BY <3>2
    <3>5. route' = [r \in Route |-> IF r \in R0 THEN Reopened(r) ELSE route[r]]
      BY <3>3
    <3> HIDE DEF I0, R0
    <3>6. QED BY <3>4, <3>5
  <2>2. intent' \in [Intent -> [status : IntentStatus, version : Nat]]
    <3>1. \A i \in Intent : UnderReview(i) \in [status : IntentStatus, version : Nat]
      BY DEF TypeOK, InvoiceOK, UnderReview, IntentStatus
    <3>2. QED BY <2>1, <3>1 DEF TypeOK, InvoiceOK
  <2>3. route' \in [Route -> RouteStatus]
    BY <2>1 DEF TypeOK, InvoiceOK, Reopened, RouteStatus
  <2>4. reservation' \in [Route -> {"active", "consumed", "released"}]
    <3>1. PICK S \in SUBSET Restorable(repaid) : reservation' = RestoredReservation(S)
      BY DEF RewindReorg
    <3>2. QED BY <3>1 DEF TypeOK, InvoiceOK, RestoredReservation
  <2>5. QED BY <2>2, <2>3, <2>4 DEF InvoiceOK
<1>5. TriageOK'
  <2>1. unmatched' = ClosedCases(E) /\ candidates' = candidates BY DEF RewindReorg
  <2> HIDE DEF E
  <2>2. \A e \in Transfer : WithStatus(unmatched[e], "reorged") \in Case
    BY CaseUpdate DEF TypeOK, TriageOK, UnmatchedStatus
  <2>3. unmatched' \in [Transfer -> Case]
    BY <2>1, <2>2 DEF TypeOK, TriageOK, ClosedCases
  <2>4. QED BY <2>1, <2>3 DEF TypeOK, TriageOK
<1>6. ResolutionOK' BY DEF TypeOK, ResolutionOK, RewindReorg
<1>7. MoneyOK'
  <2>1. /\ matches' = ReversedMatches(E, dropped) /\ reversal' = reversal \cup Reversals(L)
        /\ UNCHANGED <<ledger, nextId>>
    BY DEF RewindReorg
  <2>2. Reversals(L) \subseteq Nat BY LoadedType DEF Reversals
  <2> HIDE DEF E, L, dropped
  <2>3. QED BY <2>1, <2>2 DEF TypeOK, MoneyOK, ReversedMatches
<1>8. JobOK'
  <2>1. aggregate' = ReversedAggregates(dropped) BY DEF RewindReorg
  <2>2. job' = [r \in Route |-> IF \E l \in L : l.route = r /\ l.corr \notin Transfer
                                 THEN Requeued(job[r]) ELSE job[r]]
    BY DEF RewindReorg
  <2>3. \A r \in Route : Requeued(job[r]) \in JobRow
    BY JobUpdate DEF TypeOK, ChainOK, JobOK
  <2> HIDE DEF L, dropped
  <2>4. QED BY <2>1, <2>2, <2>3 DEF TypeOK, JobOK, ReversedAggregates
<1>9. QED BY <1>1, <1>2, <1>3, <1>4, <1>5, <1>6, <1>7, <1>8 DEF TypeOK

(* LateDeadlineType: The automatic late deadline of a route is a time. *)
LEMMA LateDeadlineType ==
  ASSUME NEW r \in Route
  PROVE  AutomaticLateDeadline(RouteInfo[r]) \in Nat
<1>1. RouteInfo[r].expires \in Nat /\ RouteInfo[r].grace \in Nat BY ConstantsAssumption
<1>2. RouteInfo[r].expires + LateGrace \in Nat BY <1>1, LateGraceAssumption
<1>3. QED BY <1>1, <1>2 DEF AutomaticLateDeadline

(* ClaimMatchingType: Claiming, losing and retrying a matching job keep     *)
(* every table well typed.                                                  *)
LEMMA ClaimMatchingType ==
  ASSUME TypeOK, NEW r \in Route,
         ClaimMatching(r) \/ LoseMatchingLease(r) \/ (\E s \in JobStatus : RetryMatching(r, s))
  PROVE  TypeOK'
<1>1. job' \in [Route -> JobRow]
  <2>1. CASE ClaimMatching(r)
    BY <2>1, JobUpdate DEF ClaimMatching, TypeOK, ChainOK, JobOK
  <2>2. CASE LoseMatchingLease(r)
    BY <2>2, JobUpdate DEF LoseMatchingLease, TypeOK, ChainOK, JobOK
  <2>3. ASSUME NEW s \in JobStatus, RetryMatching(r, s) PROVE job' \in [Route -> JobRow]
    BY <2>3 DEF RetryMatching, TypeOK, ChainOK, JobOK, JobRow
  <2>4. QED BY <2>1, <2>2, <2>3
<1>2. UNCHANGED <<chainVars, paymentVars, triageVars, moneyVars, aggregate, outbox>>
  BY DEF ClaimMatching, LoseMatchingLease, RetryMatching
<1>3. QED BY <1>1, <1>2 DEF TypeOK, ChainOK, TransferOK, ObservationOK, InvoiceOK, TriageOK,
         ResolutionOK, MoneyOK, JobOK, chainVars, paymentVars, triageVars, moneyVars

(* FinishedType: finishAutomatedMatchingJob keeps the jobs well typed. *)
LEMMA FinishedType ==
  ASSUME TypeOK, NEW r \in Route, NEW s \in JobStatus, NEW n \in Nat
  PROVE  Finished(r, s, n) \in [Route -> JobRow]
  BY DEF Finished, TypeOK, JobOK, JobRow, JobStatus

(* MarkedType: Binding, releasing or resolving unmatched rows keeps them    *)
(* well typed.                                                              *)
LEMMA MarkedType ==
  ASSUME TypeOK, NEW r, NEW E, NEW from, NEW s \in UnmatchedStatus, NEW sel \in Route \cup {NoRoute}
  PROVE  Marked(r, E, from, s, sel) \in [Transfer -> Case]
<1>1. \A e \in Transfer : Assigned(unmatched[e], s, sel) \in Case
  BY CaseUpdate DEF TypeOK, TriageOK
<1>2. QED BY <1>1 DEF Marked, TypeOK, TriageOK

(* DecisionEvents: EvaluateAutomatedMatch allocates recorded transfers only. *)
LEMMA DecisionEvents ==
  ASSUME NEW r \in Route
  PROVE  DecisionFor(r).events \subseteq Transfer
<1>1. OwnEvents(r) \subseteq Transfer BY DEF OwnEvents, PolicyEvents
<1>2. \A o, E, c : Decision(o, E, c).events = E BY DEF Decision
<1>3. SameSenderPrefix(OwnEvents(r)) \subseteq OwnEvents(r) BY DEF SameSenderPrefix
<1>4. Evaluate(r, OwnEvents(r)).events \in {OwnEvents(r), SameSenderPrefix(OwnEvents(r))}
  BY <1>2 DEF Evaluate
<1>5. CASE Ambiguous(r)
  <2>1. DecisionFor(r) = Decision("review", {}, 0) BY <1>5, Zenon DEF DecisionFor
  <2>2. QED BY <1>2, <2>1
<1>6. CASE ~Ambiguous(r)
  <2>1. DecisionFor(r) = Evaluate(r, OwnEvents(r)) BY <1>6, Zenon DEF DecisionFor
  <2>2. QED BY <1>1, <1>3, <1>4, <2>1
<1>7. QED BY <1>5, <1>6

(* AllocatedType: persistAutomatedAllocations writes well-typed matches. *)
LEMMA AllocatedType ==
  ASSUME TypeOK, NEW r \in Route, NEW E \in SUBSET Transfer, NEW s \in {"proposed", "finalized"}
  PROVE  Allocated(r, E, s) \subseteq [event : Transfer, route : Route, aggregate : Nat,
                                       state : {"proposed", "finalized"}]
<1>1. AggregateId(r) \in Nat BY DEF AggregateId, TypeOK, MoneyOK, JobOK
<1>2. \A e \in E : [event |-> e, route |-> r, aggregate |-> AggregateId(r), state |-> s]
                    \in [event : Transfer, route : Route, aggregate : Nat,
                         state : {"proposed", "finalized"}]
  BY <1>1
<1>3. matches \subseteq [event : Transfer, route : Route, aggregate : Nat,
                         state : {"proposed", "finalized"}]
  BY DEF TypeOK, MoneyOK
<1>4. QED BY <1>2, <1>3, Zenon DEF Allocated

(* ReconcileType: ReconcileAutomatedMatching keeps every table well typed. *)
LEMMA ReconcileType ==
  ASSUME TypeOK, NEW r \in Route, Reconcile(r)
  PROVE  TypeOK'
<1> DEFINE d == DecisionFor(r)
           i == IntentOf[r]
<1>1. d.events \in SUBSET Transfer BY DecisionEvents
<1>2. i \in Intent BY ConstantsAssumption
<1>3. AggregateId(r) \in Nat BY DEF AggregateId, TypeOK, MoneyOK, JobOK
<1> HIDE DEF d, i
<1>4. /\ nextId' \in Nat
      /\ UNCHANGED <<chainVars, transfer, observation, candidates, resolution, reversal>>
  <2>1. /\ nextId' = IF aggregate[r].state = "none" THEN nextId + 1 ELSE nextId
        /\ UNCHANGED <<chainVars, transfer, observation, candidates, resolution, reversal>>
    BY Zenon DEF Reconcile
  <2>2. nextId \in Nat /\ nextId + 1 \in Nat BY DEF TypeOK, MoneyOK
  <2>3. QED BY <2>1, <2>2
<1>5. \/ d.outcome = "collect" /\ Collect(r, d)
      \/ d.outcome = "review" /\ Review(r, d)
      \/ d.outcome = "settle" /\ SettleAggregate(r, d)
  BY DEF Reconcile, d
<1>6. aggregate' \in [Route -> [id : Nat, state : {"none", "collecting", "review", "settled"}]]
  <2>1. aggregate' = [aggregate EXCEPT ![r] =
           [id |-> AggregateId(r),
            state |-> [collect |-> "collecting", review |-> "review", settle |-> "settled"][d.outcome]]]
    BY DEF Reconcile, d
  <2>2. d.outcome \in {"collect", "review", "settle"} BY <1>5
  <2>3. [collect |-> "collecting", review |-> "review", settle |-> "settled"][d.outcome]
          \in {"none", "collecting", "review", "settled"}
    <3> DEFINE state == [collect |-> "collecting", review |-> "review", settle |-> "settled"]
    <3>1. /\ state["collect"] = "collecting" /\ state["review"] = "review"
          /\ state["settle"] = "settled"
      OBVIOUS
    <3> HIDE DEF state
    <3>2. state[d.outcome] \in {"none", "collecting", "review", "settled"} BY <2>2, <3>1, Zenon
    <3>3. QED BY <3>2, Zenon DEF state
  <2>4. QED BY <1>3, <2>1, <2>3 DEF TypeOK, JobOK
<1>7. job' \in [Route -> JobRow]
  <2>1. {"pending", "completed"} \subseteq JobStatus /\ now \in Nat
    BY DEF JobStatus, TypeOK, ChainOK
  <2>2. PICK s \in {"pending", "completed"}, n \in {now, AutomaticLateDeadline(RouteInfo[r])} :
           job' = Finished(r, s, n)
    BY <1>5, Zenon DEF Collect, Review, SettleAggregate
  <2>3. s \in JobStatus /\ n \in Nat BY <2>1, <2>2, LateDeadlineType
  <2>4. QED BY <2>2, <2>3, FinishedType
<1>8. unmatched' \in [Transfer -> Case]
  <2>1. {"bound", "candidates_ready", "resolved"} \subseteq UnmatchedStatus BY DEF UnmatchedStatus
  <2>2. CASE Collect(r, d)
    <3>1. unmatched' = Marked(r, d.events, {"new", "candidates_ready", "bound"}, "bound", r)
      BY <2>2, Zenon DEF Collect
    <3>2. QED BY <2>1, <3>1, MarkedType
  <2>3. CASE Review(r, d)
    <3>1. unmatched' = Marked(r, d.events, {"bound"}, "candidates_ready", NoRoute)
      BY <2>3, Zenon DEF Review
    <3>2. QED BY <2>1, <3>1, MarkedType
  <2>4. CASE SettleAggregate(r, d)
    <3>1. unmatched' = Marked(r, d.events, UnmatchedStatus \ {"none", "reorged"}, "resolved", r)
      BY <2>4, Zenon DEF SettleAggregate
    <3>2. QED BY <2>1, <3>1, MarkedType
  <2>5. QED BY <1>5, <2>2, <2>3, <2>4
<1>9. matches' \subseteq [event : Transfer, route : Route, aggregate : Nat,
                          state : {"proposed", "finalized"}]
  <2>1. CASE Review(r, d) BY <2>1 DEF Review, TypeOK, MoneyOK
  <2>2. CASE Collect(r, d) \/ SettleAggregate(r, d)
    <3>1. PICK s \in {"proposed", "finalized"} : matches' = Allocated(r, d.events, s)
      BY <2>2, Zenon DEF Collect, SettleAggregate
    <3>2. QED BY <1>1, <3>1, AllocatedType
  <2>3. QED BY <1>5, <2>1, <2>2
<1>10. intent' \in [Intent -> [status : IntentStatus, version : Nat]]
  <2>1. \A s \in {"partially_paid", "overpaid", "settled"} :
           NewStatus(i, s) \in [Intent -> [status : IntentStatus, version : Nat]]
    BY <1>2, NewStatusType DEF TypeOK, IntentStatus
  <2>2. CASE Collect(r, d) BY <2>1, <2>2 DEF Collect, i, TypeOK, InvoiceOK
  <2>3. CASE Review(r, d) BY <2>3 DEF Review, TypeOK, InvoiceOK
  <2>4. CASE SettleAggregate(r, d) BY <2>1, <2>4 DEF SettleAggregate, i, TypeOK, InvoiceOK
  <2>5. QED BY <1>5, <2>2, <2>3, <2>4
<1>11. /\ route' \in [Route -> RouteStatus]
       /\ reservation' \in [Route -> {"active", "consumed", "released"}]
  BY <1>5 DEF Collect, Review, SettleAggregate, TypeOK, InvoiceOK, RouteStatus
<1>12. \A l \in ledger' : /\ l.id \in Nat /\ l.corr \in Transfer \cup Nat
                          /\ l.intent \in Intent /\ l.route \in Route
  <2>1. CASE Collect(r, d) \/ Review(r, d)
    BY <2>1 DEF Collect, Review, TypeOK, MoneyOK
  <2>2. CASE SettleAggregate(r, d)
    <3> DEFINE l0 == [id |-> AggregateId(r), corr |-> AggregateId(r), intent |-> i,
                      route |-> r, amount |-> d.credited]
    <3>1. ledger' = ledger \cup {l0} BY <2>2, Zenon DEF SettleAggregate, i
    <3>2. /\ l0.id \in Nat /\ l0.corr \in Transfer \cup Nat
          /\ l0.intent \in Intent /\ l0.route \in Route
      BY <1>2, <1>3
    <3> HIDE DEF l0
    <3>3. QED BY <3>1, <3>2 DEF TypeOK, MoneyOK
  <2>3. QED BY <1>5, <2>1, <2>2
<1>13. ChainOK' /\ TransferOK' /\ ObservationOK' /\ ResolutionOK'
  BY <1>4 DEF TypeOK, ChainOK, TransferOK, ObservationOK, ResolutionOK, chainVars
<1>14. TriageOK' BY <1>4, <1>8 DEF TypeOK, TriageOK
<1>15. MoneyOK' BY <1>4, <1>9, <1>12 DEF TypeOK, MoneyOK
<1>16. QED BY <1>6, <1>7, <1>10, <1>11, <1>13, <1>14, <1>15 DEF TypeOK, InvoiceOK, JobOK

(* HeldType: Claiming a manual resolution keeps its row well typed. *)
LEMMA HeldType ==
  ASSUME NEW q \in Request, NEW t \in Row
  PROVE  Held(q, t) \in Request
  BY DEF Request, Held

(* DroppedType: Ending the claim of a manual resolution keeps its row well  *)
(* typed.                                                                   *)
LEMMA DroppedType ==
  ASSUME NEW q \in Request, NEW s \in ResolutionStatus
  PROVE  Dropped(q, s) \in Request
<1>1. NoRow \in Row BY DEF NoRow, Row, Finality
<1>2. QED BY <1>1 DEF Request, Dropped

(* RequestResolutionType: RequestManualResolution keeps every table well    *)
(* typed.                                                                   *)
LEMMA RequestResolutionType ==
  ASSUME TypeOK, NEW e \in Transfer, NEW r \in Route, NEW A \in AcceptChoices,
         RequestResolution(e, r, A)
  PROVE  TypeOK'
<1>1. unmatched' \in [Transfer -> Case]
  BY CaseUpdate DEF RequestResolution, TypeOK, TriageOK, UnmatchedStatus
<1>2. ResolutionOK'
  <2>1. [status |-> "verification_requested", event |-> e, route |-> r, accept |-> A,
         live |-> FALSE, copy |-> NoRow] \in Request
    BY DEF Request, ResolutionStatus, NoRow, Row, Finality
  <2>2. PICK q \in Request : resolution' = Append(resolution, q)
    BY <2>1, Zenon DEF RequestResolution
  <2>3. QED BY <2>2 DEF TypeOK, ResolutionOK
<1>3. QED BY <1>1, <1>2 DEF RequestResolution, otherVars, TypeOK, ChainOK, TransferOK,
         ObservationOK, InvoiceOK, TriageOK, MoneyOK, JobOK, chainVars, paymentVars, moneyVars, jobVars

(* ResolutionUpdate: replacing one manual_resolutions row by a well-typed   *)
(* one keeps the table well typed.                                         *)
LEMMA ResolutionUpdate ==
  ASSUME TypeOK, NEW k \in DOMAIN resolution, NEW q \in Request
  PROVE  /\ [resolution EXCEPT ![k] = q] \in Seq(Request)
         /\ resolution[k] \in Request
  BY DEF TypeOK, ResolutionOK

(* ResolutionStepType: ClaimResolutions, a lost lease, RejectResolution and *)
(* RetryResolution keep every table well typed.                             *)
LEMMA ResolutionStepType ==
  ASSUME TypeOK, NEW k \in DOMAIN resolution,
         \/ ClaimResolution(k) \/ LoseResolutionLease(k) \/ RejectResolution(k)
         \/ \E s \in ResolutionStatus : RetryResolution(k, s)
  PROVE  TypeOK'
<1> DEFINE q == resolution[k]
<1>1. q \in Request BY DEF TypeOK, ResolutionOK
<1>2. q.event \in Transfer /\ q.status \in ResolutionStatus BY <1>1 DEF Request
<1> HIDE DEF q
<1>3. \A t \in Row : Held(q, t) \in Request BY <1>1, HeldType
<1>4. \A s \in ResolutionStatus : Dropped(q, s) \in Request
  BY <1>1, DroppedType
<1>5. ResolutionOK'
  <2>1. CASE ClaimResolution(k)
    <3>1. transfer[q.event] \in Row BY <1>2 DEF TypeOK, TransferOK
    <3>2. resolution' = [resolution EXCEPT ![k] = Held(q, transfer[q.event])]
      BY <2>1 DEF ClaimResolution, q
    <3>3. QED BY <1>3, <3>1, <3>2, ResolutionUpdate DEF ResolutionOK
  <2>2. ASSUME NEW s \in ResolutionStatus, resolution' = [resolution EXCEPT ![k] = Dropped(q, s)]
        PROVE  ResolutionOK'
    BY <1>4, <2>2, ResolutionUpdate DEF ResolutionOK
  <2>3. CASE LoseResolutionLease(k) BY <1>2, <2>2, <2>3 DEF LoseResolutionLease, q
  <2>4. CASE RejectResolution(k) BY <2>2, <2>4 DEF RejectResolution, q, ResolutionStatus
  <2>5. ASSUME NEW s \in ResolutionStatus, RetryResolution(k, s) PROVE ResolutionOK'
    BY <2>2, <2>5 DEF RetryResolution, q
  <2>6. QED BY <2>1, <2>3, <2>4, <2>5
<1>6. unmatched' \in [Transfer -> Case]
  <2>1. CASE ClaimResolution(k) \/ LoseResolutionLease(k)
    BY <2>1 DEF ClaimResolution, LoseResolutionLease, TypeOK, TriageOK
  <2>2. CASE RejectResolution(k)
    BY <1>2, <2>2, CaseUpdate DEF RejectResolution, q, TypeOK, TriageOK, UnmatchedStatus
  <2>3. ASSUME NEW s \in ResolutionStatus, RetryResolution(k, s)
        PROVE  unmatched' \in [Transfer -> Case]
    <3>1. WithStatus(unmatched[q.event], s) \in Case
      BY <1>2, <2>3, CaseUpdate DEF RetryResolution, TypeOK, TriageOK, UnmatchedStatus
    <3>2. unmatched' = [unmatched EXCEPT ![q.event] = WithStatus(unmatched[q.event], s)]
      BY <2>3 DEF RetryResolution, q
    <3>3. QED BY <3>1, <3>2 DEF TypeOK, TriageOK
  <2>4. QED BY <2>1, <2>2, <2>3
<1>7. UNCHANGED otherVars
  BY DEF ClaimResolution, LoseResolutionLease, RejectResolution, RetryResolution
<1>8. QED BY <1>5, <1>6, <1>7 DEF otherVars, TypeOK, ChainOK, TransferOK, ObservationOK, InvoiceOK,
         TriageOK, MoneyOK, JobOK, chainVars, paymentVars, moneyVars, jobVars

(* ApplyResolutionType: ApplyFinalizedResolution keeps every table well     *)
(* typed.                                                                   *)
LEMMA ApplyResolutionType ==
  ASSUME TypeOK, NEW k \in DOMAIN resolution, ApplyResolution(k)
  PROVE  TypeOK'
<1> DEFINE q == resolution[k]
           e == q.event
           r == q.route
           i == IntentOf[r]
           over == SameAsset(k) /\ TransferInfo[e].amount > RouteInfo[r].expected
<1>1. q \in Request BY DEF TypeOK, ResolutionOK
<1>2. e \in Transfer /\ r \in Route /\ i \in Intent BY <1>1, ConstantsAssumption DEF Request
<1>3. /\ matches' = matches \cup {[event |-> e, route |-> r, aggregate |-> 0, state |-> "finalized"]}
      /\ ledger' = ledger \cup {Posting(e, r, TransferInfo[e].amount)}
      /\ nextId' = nextId + 1
      /\ intent' = NewStatus(i, IF over THEN "overpaid" ELSE "settled")
      /\ route' = IF OpenRoute(r) THEN [route EXCEPT ![r] = "settled"] ELSE route
      /\ reservation' = IF reservation[r] = "active"
                        THEN [reservation EXCEPT ![r] = "consumed"] ELSE reservation
      /\ resolution' = [resolution EXCEPT ![k] = Dropped(q, "resolved")]
      /\ unmatched' = IF unmatched[e].tenant = TenantOf[i]
                      THEN [unmatched EXCEPT ![e] = Assigned(unmatched[e], "resolved", r)]
                      ELSE unmatched
      /\ UNCHANGED <<chainVars, transfer, observation, candidates, reversal, jobVars>>
  BY DEF ApplyResolution
<1> HIDE DEF q, e, r, i, over
<1>4. ResolutionOK'
  <2>1. Dropped(q, "resolved") \in Request
    BY <1>1, DroppedType DEF ResolutionStatus
  <2>2. QED BY <1>3, <2>1, ResolutionUpdate DEF ResolutionOK
<1>5. InvoiceOK'
  <2>1. intent' \in [Intent -> [status : IntentStatus, version : Nat]]
    BY <1>2, <1>3, NewStatusType DEF TypeOK, IntentStatus
  <2>2. QED BY <1>2, <1>3, <2>1 DEF TypeOK, InvoiceOK, RouteStatus
<1>6. TriageOK'
  <2>1. Assigned(unmatched[e], "resolved", r) \in Case
    BY <1>2, CaseUpdate DEF TypeOK, TriageOK, UnmatchedStatus
  <2>2. QED BY <1>2, <1>3, <2>1 DEF TypeOK, TriageOK
<1>7. MoneyOK'
  <2> DEFINE l0 == Posting(e, r, TransferInfo[e].amount)
             m0 == [event |-> e, route |-> r, aggregate |-> 0, state |-> "finalized"]
  <2>1. /\ l0.id \in Nat /\ l0.corr \in Transfer \cup Nat
        /\ l0.intent \in Intent /\ l0.route \in Route
    BY <1>2 DEF TypeOK, MoneyOK, Posting, i
  <2>2. m0 \in [event : Transfer, route : Route, aggregate : Nat, state : {"proposed", "finalized"}]
    BY <1>2
  <2>3. /\ matches' = matches \cup {m0} /\ ledger' = ledger \cup {l0}
        /\ nextId' = nextId + 1 /\ reversal' = reversal
    BY <1>3, Zenon
  <2> HIDE DEF l0, m0
  <2>4. QED BY <2>1, <2>2, <2>3, PostedType
<1>8. QED BY <1>3, <1>4, <1>5, <1>6, <1>7 DEF TypeOK, ChainOK, TransferOK, ObservationOK, JobOK,
         chainVars, jobVars

(* NextType: TypeOK is inductive. *)
LEMMA NextType == TypeOK /\ [Next]_stateVars => TypeOK'
<1> SUFFICES ASSUME TypeOK, [Next]_stateVars PROVE TypeOK' OBVIOUS
<1>1. CASE UNCHANGED stateVars
  BY <1>1 DEF stateVars, chainVars, paymentVars, triageVars, moneyVars, jobVars, TypeOK, ChainOK,
     TransferOK, ObservationOK, InvoiceOK, TriageOK, ResolutionOK, MoneyOK, JobOK
<1>2. CASE Next
  BY <1>2, AdmitType, IngestType, RewindType, CancelType, ExpireType, ReleaseType, TickType,
     ClaimMatchingType, ReconcileType, RequestResolutionType, ResolutionStepType,
     ApplyResolutionType DEF Next
<1>3. QED BY <1>1, <1>2

(* TypeCorrect: whatever reports, reorganisations, matching workers and     *)
(* operators do, in whatever number, every row of the payment tables keeps  *)
(* a value its columns allow.                                               *)
THEOREM TypeCorrect == Spec => []TypeOK
  BY InitType, NextType, PTL DEF Spec
=============================================================================
