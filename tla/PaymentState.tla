---------------------------- MODULE PaymentState ----------------------------
(***************************************************************************)
(* The rows of the payment database that settlement, reorganisation,       *)
(* automated matching and manual resolution share, and the facts about the *)
(* chain and the invoices that never change.  Every action of the modules  *)
(* that extend this one is one transaction of                              *)
(* backend/internal/adapters/postgres.  Settlement, rewind, matching and   *)
(* resolution are SERIALIZABLE; claims, retries, rejections and the        *)
(* release of the grace are READ COMMITTED statements, whose WHERE clauses *)
(* and locks fence the rows they change.                                   *)
(*                                                                         *)
(* Data are abstracted: an amount is a small natural, a block carries its  *)
(* height, its time and the transfers it includes, and a row that does not *)
(* exist has status (or finality) "none".                                  *)
(***************************************************************************)
EXTENDS Candidates, Naturals, Sequences

CONSTANTS
  Transfer,      \* canonical transfer identities (chain, tx, event index, ...)
  Block,         \* block hashes a provider may report
  Intent,        \* payment intents
  Route,         \* payment routes
  NoRoute, NoBlock, NoTenant,
  IntentOf,      \* [Route -> Intent]
  TenantOf,      \* [Intent -> tenant]
  ExpiresAt,     \* [Intent -> time], payment_intents.expires_at
  TransferInfo,  \* [Transfer -> [asset, address, amount]]
  BlockInfo,     \* [Block -> [height, parent, time, includes]]
  RouteInfo,     \* [Route -> [asset, address, expected, starts, expires, grace,
                 \*            order, customer, finality, bound, policy]]
  Dust,          \* assets.dust_threshold
  NearWindow,    \* the 24 h either side of a route in which it is a candidate
  Report,        \* the [status, conf] pairs scanners and proofs report
  ProofBlocks,   \* blocks a proof may cite before the scanner admits them
  AcceptChoices,       \* the exceptions operators accept, sets of Accepting
  MaxTime, MaxRewinds, MaxResolutions

ASSUME ConstantsAssumption ==
  /\ IntentOf \in [Route -> Intent]
  /\ NoRoute \notin Route /\ NoBlock \notin Block
  /\ Transfer \cap Nat = {}
  /\ Report \subseteq [status : {"observed", "confirmed", "finalized"}, conf : Nat]
  /\ \A b \in Block : BlockInfo[b].height \in Nat \ {0}
  /\ \A r \in Route : RouteInfo[r].expires \in Nat /\ RouteInfo[r].grace \in Nat
  /\ MaxTime \in Nat /\ MaxRewinds \in Nat /\ MaxResolutions \in Nat

VARIABLES
  block,         \* chain_blocks.canonical_status
  cursor,        \* scanner_cursors.cursor_height
  rewinds,       \* completed rewinds, counted only to bound them
  now,           \* the database clock
  transfer,      \* transfer_events [status, block, conf]
  observation,   \* payment_observations, with the events of its generation
  intent,        \* payment_intents [status, version]
  route,         \* payment_routes.status
  reservation,   \* amount_reservations.state
  unmatched,     \* unmatched_payments [status, tenant, selected]
  candidates,    \* match_candidates: the ranked rows of an unmatched payment
  resolution,    \* manual_resolutions, oldest first, with the claimed transfer copy
  matches,       \* payment_matches whose state is not 'reversed'
  ledger,        \* ledger_transactions of type payment_settlement
  reversal,      \* ledger_transactions of type payment_settlement.reversal
  nextId,        \* identifiers handed out by ids.New
  aggregate,     \* payment_match_aggregates not 'reversed', one per route
  job,           \* automated_matching_jobs [status, resched, due, live]
  outbox         \* outbox_events and the callbacks written with them

chainVars   == <<block, cursor, rewinds, now>>
paymentVars == <<transfer, observation, intent, route, reservation>>
triageVars  == <<unmatched, candidates, resolution>>
moneyVars   == <<matches, ledger, reversal, nextId>>
jobVars     == <<aggregate, job>>
stateVars   == <<chainVars, paymentVars, triageVars, moneyVars, jobVars, outbox>>

-----------------------------------------------------------------------------
IntentStatus ==
  {"created", "awaiting_route_selection", "pending", "observed", "partially_paid",
   "confirmed", "settled", "overpaid", "needs_review", "expired", "cancelled",
   "reorg_review", "reversed"}
RouteStatus == {"active", "expired", "cancelled", "settled", "superseded"}
Finality    == {"none", "observed", "confirmed", "finalized", "reorged"}
UnmatchedStatus ==
  {"none", "new", "candidates_ready", "bound", "approval_required",
   "verification_requested", "verification_retry", "conflict", "resolved", "ignored", "reorged"}

ResolutionStatus == {"verification_requested", "verification_retry", "conflict", "invalid",
                     "resolved"}
JobStatus == {"none", "pending", "leased", "retry", "completed", "dead_letter"}
Tenant == {TenantOf[i] : i \in Intent}

(* A transfer_events row. *)
Row   == [status : Finality, block : Block \cup {NoBlock}, conf : Nat]
NoRow == [status |-> "none", block |-> NoBlock, conf |-> 0]

LifecycleTypes == {"payment.observed", "payment.confirming", "payment.settled", "payment.reorged"}

(* A payment_observations row with the event types of its generation. *)
Sighting == [finality : Finality, route : Route \cup {NoRoute}, generation : Nat,
             version : Nat, conf : Nat, emitted : SUBSET LifecycleTypes]

(* An unmatched_payments, a manual_resolutions and an automated_matching_jobs row. *)
Case    == [status : UnmatchedStatus, tenant : Tenant \cup {NoTenant}, selected : Route \cup {NoRoute}]
Request == [status : ResolutionStatus, event : Transfer, route : Route, accept : AcceptChoices,
            live : BOOLEAN, copy : Row]
JobRow  == [status : JobStatus, resched : BOOLEAN, due : Nat, live : BOOLEAN]

(* Row updates that several statements share. *)
WithStatus(row, s)    == [row EXCEPT !.status = s]
Assigned(row, s, sel) == [row EXCEPT !.status = s, !.selected = sel]

(* The intents a transfer may still pay. *)
Payable == {"pending", "observed", "partially_paid", "confirmed", "expired",
            "needs_review", "reorg_review"}
(* The intents whose money is credited. *)
Paid == {"settled", "overpaid"}
OpenRoute(r) == route[r] \in {"active", "expired"}

(* The inclusion of transfer e in block b, as candidate ranking sees it. *)
Inclusion(e, b) == [asset |-> TransferInfo[e].asset, amount |-> TransferInfo[e].amount,
                    time  |-> BlockInfo[b].time]
SameAddress(e, r) == TransferInfo[e].address = RouteInfo[r].address

(* A settlement posted to the ledger and not reversed. *)
Live == {l \in ledger : l.id \notin reversal}

(* An aggregate_sequence is unique per aggregate (intent or observation). *)
IntentEvent(i, v, t)      == [kind |-> "intent", of |-> i, seq |-> v, type |-> t]
ObservationEvent(e, v, t) == [kind |-> "observation", of |-> e, seq |-> v, type |-> t]

(* Mutant: the status is written without the version. *)
NewStatusUnversioned(i, s) == [intent EXCEPT ![i].status = s]

(* An update of an intent's status takes the next version.  Which statuses  *)
(* it may start from is in the WHERE clause of each statement, a guard of   *)
(* the action.                                                              *)
NewStatus(i, s) == [intent EXCEPT ![i] = [status |-> s, version |-> @.version + 1]]

-----------------------------------------------------------------------------
ChainOK ==
  /\ block \in [Block -> {"unseen", "safe", "reorged"}]
  /\ cursor \in Nat /\ rewinds \in Nat /\ now \in Nat
TransferOK == transfer \in [Transfer -> Row]
ObservationOK == observation \in [Transfer -> Sighting]
InvoiceOK ==
  /\ intent \in [Intent -> [status : IntentStatus, version : Nat]]
  /\ route \in [Route -> RouteStatus]
  /\ reservation \in [Route -> {"active", "consumed", "released"}]
TriageOK ==
  /\ unmatched \in [Transfer -> Case]
  /\ candidates = [e \in Transfer |-> candidates[e]]
  /\ \A e \in Transfer : \A c \in candidates[e] : c.route \in Route
ResolutionOK == resolution \in Seq(Request)
MoneyOK ==
  /\ matches \subseteq [event : Transfer, route : Route, aggregate : Nat,
                        state : {"proposed", "finalized"}]
  /\ \A l \in ledger : /\ l.id \in Nat /\ l.corr \in Transfer \cup Nat
                       /\ l.intent \in Intent /\ l.route \in Route
  /\ reversal \subseteq Nat
  /\ nextId \in Nat
JobOK ==
  /\ aggregate \in [Route -> [id : Nat, state : {"none", "collecting", "review", "settled"}]]
  /\ job \in [Route -> JobRow]

(* TypeOK: every table holds only the values its columns and enumerations   *)
(* allow, whatever the handlers write.                                      *)
TypeOK == /\ ChainOK /\ TransferOK /\ ObservationOK /\ InvoiceOK
          /\ TriageOK /\ ResolutionOK /\ MoneyOK /\ JobOK

(* A fresh invoice database: every route open, nothing observed yet. *)
Init ==
  /\ block = [b \in Block |-> "unseen"]
  /\ cursor = 0 /\ rewinds = 0 /\ now = 0
  /\ transfer = [e \in Transfer |-> NoRow]
  /\ observation = [e \in Transfer |-> [finality |-> "none", route |-> NoRoute,
        generation |-> 0, version |-> 0, conf |-> 0, emitted |-> {}]]
  /\ intent = [i \in Intent |-> [status |-> "pending", version |-> 1]]
  /\ route = [r \in Route |-> "active"]
  /\ reservation = [r \in Route |-> "active"]
  /\ unmatched = [e \in Transfer |-> [status |-> "none", tenant |-> NoTenant, selected |-> NoRoute]]
  /\ candidates = [e \in Transfer |-> {}]
  /\ resolution = <<>>
  /\ matches = {} /\ ledger = {} /\ reversal = {} /\ nextId = 1
  /\ aggregate = [r \in Route |-> [id |-> 0, state |-> "none"]]
  /\ job = [r \in Route |-> [status |-> "none", resched |-> FALSE, due |-> 0, live |-> FALSE]]
  /\ outbox = {}
=============================================================================
