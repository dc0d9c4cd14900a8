# Verification of the ocrypt payment core

ocrypt turns transfers on public chains into paid invoices. Scanners report
transfers; a PostgreSQL database matches them to invoices, posts each settlement
to a double-entry ledger and notifies merchants; when the chain replaces a block,
what was settled on it is compensated. This directory holds TLA+ modules for the
part of the system in which money is credited and taken back, TLC configurations
that check it on small instances, and TLAPS proofs of its main properties for
instances of any size.

Paths below are relative to `src/backend/internal` unless they start with `src/`.

## 1. The system

| Part | State | Operations | Talks to |
|---|---|---|---|
| Scanner (`scanner`, `adapters/postgres/scanner_store.go`) | block history, cursors, gaps, transfer queue | Claim, Commit, RewindReorg, ClaimTransfer, CompleteTransfer, Retry | providers; settlement |
| Exact settlement (`settlement.go`, `payment_observation.go`) | transfers, observations, matches, ledger | IngestAndSettle | scanner, proofs; outbox |
| Candidate ranking (`application/exceptions.go`, `same_customer_candidate.go`) | none | BuildCandidates, SelectAutomaticCandidate | settlement, matching |
| Reorganisation (`reorg.go`) | all of the above | RewindReorg | scanner |
| Automated matching (`matching_automation.go`) | one job and one aggregate per route | Claim, Reconcile, Retry | settlement, reorganisation |
| Manual resolution (`operator_store.go`, `resolution_*.go`, `admin/postgres.go`) | unmatched cases, resolutions | Request, Claim, Apply, Reject, Retry, Hide | operators, settlement |
| Invoice life cycle (`store.go`, `merchant_runtime_completion.go`) | intents, routes, reservations | create, cancel, expire, release grace, metadata | merchants |
| Proofs (`proof*.go`) | submitted proofs | submit, claim, complete, retry | settlement |
| Hosted settlement (`hosted_settlement.go`) | provider orders, matches, ledger | apply a provider callback, recover | providers |
| Outbox, event bus, webhooks (`outbox_store.go`, `callback_store.go`, `eventbus`, `webhook`) | events, deliveries | claim, publish, deliver, retry | merchants |
| Refunds, treasury, reconciliation | `financial_*` tables | request, approve, execute, compare | providers, operators |
| Everything else | configuration, sandbox, reports, rates | see `components` in `PROJECT.json` | |

Every state change of the core is one PostgreSQL transaction, which is what makes
an *action* the right grain. Settlement, rewind, matching and resolution are
SERIALIZABLE. Claims, retries, rejections and the release of elapsed grace are
READ COMMITTED: one statement each, or a few fenced by row locks, versions and lease
tokens, so that at this grain they are atomic too. An action of the model is one
such transaction, and the concurrency that remains is the order of transactions, the
work that spans several of them (claim, copy, apply), lost leases, repeated and
late reports, and the chain itself.

What is hard to get right, and hard to test: several ways to pay one invoice at
the same time; a report that arrives again, or after its block was replaced;
repeated settlement and compensation of the same transfer; event sequences through
all of that; a lease that runs out between two steps. `hazards` in `PROJECT.json`
lists these at the lines where they bite.

## 2. Modules

| Module | Models | Source |
|---|---|---|
| `Candidates` | the ranking of routes and the rule for an automatic winner, as operators | `application/exceptions.go`, `application/same_customer_candidate.go` |
| `PaymentState` | the tables, constants, `TypeOK`, `Init` | `domain`, migrations through the stores |
| `Settlement` | `Ingest`: the whole of `IngestAndSettle` | `settlement.go`, `payment_observation.go` |
| `Reorg` | `AdmitBlock` (`Commit`), `RewindReorg` | `scanner_store.go`, `reorg.go` |
| `Matching` | the matching job, its evaluation and its settlement | both files `matching_automation.go` |
| `Manual` | request, claim, settlement, rejection, retry | `operator_store.go`, `resolution_*.go` |
| `Payments` | cancellation, expiry, grace, the clock; `Next`, `Spec`, the properties | `store.go`, `merchant_runtime_completion.go` |
| `Account` | the abstract books the core implements | (a promise, not code) |
| `MCPayments` | constants of the small instances | |
| `PaymentsProof`, `MoneyProof`, `LifecycleProof` | theorems | |

Each variable of `PaymentState` is a table, or a column of one; its comment names
it. A row that does not exist has status `"none"`. A block carries its height,
parent, time and the transfers it includes. Amounts are small naturals; names and
identifiers are model values; `ids.New` is a counter. Matches and aggregates that
the code marks `reversed` leave their variable, because every query of the
modelled code excludes them; ledger postings and reversals stay for ever.

The correspondence of actions and code:

* `Ingest(e, b, p)`: report `p` of transfer `e` in block `b`. Any report in
  `Report` may arrive at any time, repeatedly and in any order, as soon as its
  block was admitted by the scanner, and for `ProofBlocks` even before, since a
  proof does not ask the scanner. This stands for the transfer queue and the
  proof worker. Reports the code rejects or finds to be duplicates change nothing
  and are not steps.
* `RewindReorg(h)`: the compensating transaction for a common ancestor at height
  `h`. It happens completely or, when `Compensable(h)` is false, not at all. The
  order in which orphaned transfers are compensated is a nondeterministic choice;
  it also decides which of several conflicting reservations is restored.
* `ClaimMatching`, `LoseMatchingLease`, `RetryMatching`, `Reconcile`: the job of a
  policy-bound route. `live` says that some worker still holds a valid lease.
* `RequestResolution`, `ClaimResolution`, `LoseResolutionLease`,
  `ApplyResolution`, `RejectResolution`, `RetryResolution`: a claim copies the
  transfer row, and the copy is what the later transaction looks at.
* `CancelIntent`, `ExpireDueIntent`, `ReleaseElapsedRouteGrace`, `Tick`.

## 3. What TLC checks

All runs use `MCPayments`. Times are for two workers.

| Run | Instance | Distinct states | Checks |
|---|---|---|---|
| `exact` | two transfers of the same amount, one invoice with two routes, blocks `a1`, `b1` (rivals) and `a2` | 114,824 | `TypeOK PaidOnce SettledIffPosted Backed OutboxSequenced MerchantTold OrphansUnpaid Authorised NeverBackToPending VersionPerChange` |
| `reincluded` | one transfer, two rival blocks, three rewinds; dust when late; a proof may report it first | 82,858 | `PaidOnce OutboxSequenced MerchantTold` |
| `matching` | transfers of 39 and 2 on a policy-bound route that expects 40 | 57,272 | `SettledIffPosted IdsDistinct EventMatchedOnce Backed AggregatePosted OrphansUnpaid RescheduleHonoured KeepsAccount` |
| `mixed` | an automated settlement of one route beside an exact one of its sibling | 102,385 | `PaidOnce MatchedAreFinal` |
| `manual` | two invoices, two resolutions of one transfer, a rewind | 422,246 | `EventMatchedOnce Backed OutboxSequenced Authorised KeepsAccount` |

`Authorised` looks at both sides of a step: the acceptances and the inclusion on
record after it, and, for the excuse of an orphaned observation, the observation
*before* it, because a settlement writes its own route there. In `exact` block `b1`
is past the expiry, so a transfer is seen late for the first time (and must not
settle) or late again after a reorganisation (and may). In `manual` the transfer
can move to `b1` between the claim of a resolution and its settlement.

Each takes at most about a minute and a half. Every property has a mutant, an
altered operator beside the one it alters (comments starting *Mutant:*), under
which TLC finds the property violated.

**Bounds.** `MaxTime` (1 or 2) takes the clock through the window, the expiry and
the grace of every route. `MaxRewinds` is 1 where what matters is the
interleaving with one reorganisation, and 3 in `reincluded`: a transfer is
observed in up to four generations, settled, compensated and settled once more. It
is not compensated a second time, which `Compensable` refuses (`rewind_stalls`);
rewinds that orphan it before it is settled again go on. Three blocks
give a fork and a successor; two transfers give competition for one invoice and
an aggregate of two. `MaxResolutions = 2` gives a race of two operators. The
instances are small in numbers, not in behaviour: what holds for every size is
proved (section 5) for the properties listed there. Deadlock is not checked,
because a database in which every invoice is closed and the bounded clock has run
out rightly has nothing to do.

## 4. Where the code and its own text disagree

Four runs state what a comment or document of the repository says, and TLC finds
a behaviour of the model that contradicts it. `findings` quotes the texts.

* `stale_inclusion` (`CanonicalMoney`): a report still queued when its block is
  replaced has no transfer row; it is recorded afterwards and settled on the
  replaced block. Only the re-inclusion path asks whether the block is canonical;
  the comment quoted there speaks of replayed events, and the run applies its
  principle to events recorded for the first time.
* `rewind_stalls` (`RewindPossible`): after settlement, reorganisation,
  re-inclusion and a second settlement, the next rewind also loads the posting
  that is already reversed, fails on its unique key, and fails so every time. The
  cursor cannot go back.
* `manual_race` (`MatchedAreFinal`): a resolution is applied with the status it
  copied when it was claimed, so a rewind in between leaves a settlement on a
  reorganised transfer.
* `matching_lease` (`RescheduleRuns`): a job whose lease ran out stays `leased`
  and is never claimed again. The document quoted promises the scheduling after a
  reorganisation, which sets the same flag on a leased job. This is the one temporal run. `MatchingSpec` assumes
  weak fairness of claiming and of the report on a held job, because the worker
  calls `RunBatch` in a loop; it assumes nothing about leases not running out.

The findings concern the model's reading of the code; none was reproduced on a
running system.

## 5. What is proved

TLAPS checks these for every choice of the constants that satisfies
`ConstantsAssumption` and `LateGraceAssumption` (any number of transfers, blocks,
invoices and routes):

| Theorem | Says |
|---|---|
| `PaymentsProof!TypeCorrect` | `Spec => []TypeOK` |
| `MoneyProof!NeverPaidTwice` | `Spec => []PaidOnce` |
| `MoneyProof!PaidMeansPosted` | `Spec => []SettledIffPosted` |
| `MoneyProof!IdentifiersApart` | `Spec => []IdsDistinct` |
| `MoneyProof!ImplementsAccount` | `Spec => KeepsAccount`, the refinement of `Account` |
| `LifecycleProof!MatchedOnce` | `Spec => []EventMatchedOnce` |
| `LifecycleProof!PaidNeverForgotten` | `Spec => NeverBackToPending` |
| `LifecycleProof!ChangesAreVersioned` | `Spec => VersionPerChange` |

They speak of the ways to pay and to take back that `Next` contains. Hosted
settlement writes the same tables and is not among them.

**The argument about money.** `PaidOnce` alone is not inductive: a settlement
checks the *status* of the invoice, never the ledger, so one must know that an
unpaid status means that no posting is in force (`SettledIffPosted`). That in turn
needs identifiers not to be shared: a new posting must not be one that a reversal
already names, and an aggregate uses its own identifier as that of its posting
(`IdsDistinct`). The inductive invariant is

    MoneyInv == TypeOK /\ IdsDistinct /\ PaidOnce /\ SettledIffPosted

and each of its conjuncts is checked by TLC in some run. The proof first shows that
every action is one of three kinds: it leaves the books alone, it posts one
settlement of an unpaid invoice under an unused identifier (`Posts`), or it
reverses exactly the postings in force of some paid invoices and leaves those
under review (`Voids`). Only these three shapes appear in what follows:
`BooksStep` for the invariant, `BooksRefined` for the refinement.

A rewind is of the third kind because it is atomic and because `Compensable`
requires every posting it finds to be unreversed and its invoice to be paid. That
is the same guard that makes `rewind_stalls` possible: the code keeps the books
right by refusing.

**Running the proofs.** `tlapm` proves each of the three modules from nothing in
about ten minutes. Leaves are kept small enough to leave a margin: all of them
also pass with `--stretch 0.4`, the three modules running side by side.

**Only model-checked.** `Backed` compares sums over sets, and `OutboxSequenced`
and `MerchantTold` depend on which candidate is ranked first; both need induction
over data, which the installed provers cannot do. `RescheduleRuns` is a liveness
property. `AggregatePosted`, `OrphansUnpaid`, `MatchedAreFinal`, `Authorised` and
`RescheduleHonoured` are safety properties of the model that are not proved yet.
(`OrphansUnpaid` and `MatchedAreFinal` do not hold once manual resolutions run:
see `manual_race`.)

## 6. What is left out

Within the modelled parts:

* siblings of gas-free transfers (`matching_automation.go`), the flag set above
  100 candidates, hashes and identities of evidence, the recovery target of
  `IngestAndSettle`, provider orders and delivery rows written beside an event;
* `ExpireIntent` (explicit expiry, which also shortens the routes' windows),
  `UpdateIntentMetadata` (takes a version and an event), `HideUnmatched`;
* approval of resolutions: it acts on rows in `approval_required`, which no
  request writes since migration 000049;
* backoff delays, which are below the grain of the clock. The attempt number is
  left out as well: any failed attempt may be the last.

Simplifications of the chain: one shard without overlap, one provider answer at a
time, blocks admitted one by one.

Whole parts that are not modelled are listed in `components` with the reason.

In lines, the model stands for about 3,100 lines of the repository, most of the
code that decides about money on chain, but under a twentieth of the roughly
69,000 lines of Go in `src/backend` (tests excluded). The development is the core of
a verification of ocrypt and not yet a verification of the whole.

## 7. Plan

In this order:

1. Complete the core: `ExpireIntent`, `UpdateIntentMetadata`, `HideUnmatched`, and
   route creation with its reservation of a distinguishing amount.
2. `TransferQueue`: leases and tokens of the transfer queue; crash between
   ingestion and completion; dead letters; every queued transfer is eventually
   ingested, under the fairness of the scanner loop. It refines the free choice
   of reports in `Ingest`.
3. `Scanner`: shards, overlap, gaps and quorum; the block history agrees with some
   chain of the provider. Composed with `Reorg`.
4. `Delivery`: outbox publication, webhook delivery and the reference consumer,
   composed; an abstract specification (each event is consumed at least once, and
   its effect happens once) and a refinement.
5. A run for `Candidates` against a reference definition of the ranking.
6. Proofs' worker, hosted settlement (a third way to pay, to be added to `Next`,
   with the money theorems extended to it), refunds, treasury leases.
7. Theorems: `AggregatePosted`, `OrphansUnpaid` without manual resolution,
   `RescheduleHonoured`, the safety of the queue and of delivery.
