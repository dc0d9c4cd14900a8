----------------------------- MODULE Candidates -----------------------------
(***************************************************************************)
(* The deterministic ranking of the payment routes a transfer may belong   *)
(* to, and the rule that decides whether the winner may be settled without *)
(* an operator (backend/internal/application/exceptions.go and             *)
(* same_customer_candidate.go).                                            *)
(*                                                                         *)
(* A transfer is a record [asset, amount, time]; a route is a record       *)
(* [asset, expected, starts, expires, grace, order, customer], where order *)
(* stands for the lexical order of route identifiers and customer for the  *)
(* tuple (tenant, merchant, customer reference, invoice amount, currency,  *)
(* metadata, memo) that the contextual tie-break compares ("" when the     *)
(* invoice names no customer).  Only routes on the transfer's chain and    *)
(* address are passed in.                                                  *)
(***************************************************************************)
EXTENDS Integers, FiniteSets

CONSTANT LateGrace      \* AutomaticLatePaymentGrace (30 minutes)

ASSUME LateGraceAssumption == LateGrace \in Nat

AutomaticCandidateScoreThreshold == 75
ToleranceBPS == 500     \* candidateCloseAmountToleranceBPS
NoDelta == -1           \* an empty AmountDelta

(* The last on-chain time at which a late payment settles automatically. *)
AutomaticLateDeadline(rt) ==
  IF rt.grace < rt.expires + LateGrace THEN rt.grace ELSE rt.expires + LateGrace

(* Both tolerances compare the distance with floor(expected * bps / 10000). *)
WithinUnderpayment(received, expected, bps) ==
  bps # 0 /\ received < expected /\ expected - received <= (expected * bps) \div 10000

WithinOverpayment(received, expected, bps) ==
  bps # 0 /\ received > expected /\ received - expected <= (expected * bps) \div 10000

-----------------------------------------------------------------------------
InWindow(ev, rt) == rt.starts <= ev.time /\ ev.time <= rt.expires
Late(ev, rt)     == ev.time > rt.expires

TimeReason(ev, rt) ==
  CASE InWindow(ev, rt)                                           -> "within_payment_window"
    [] Late(ev, rt) /\ ev.time <= AutomaticLateDeadline(rt)        -> "within_automatic_grace"
    [] Late(ev, rt) /\ ev.time > AutomaticLateDeadline(rt) 
                    /\ ev.time <= rt.grace                        -> "within_manual_grace"
    [] OTHER                                                      -> "outside"

TimeScore(reason) ==
  CASE reason = "within_payment_window"  -> 40
    [] reason = "within_automatic_grace" -> 10
    [] reason = "within_manual_grace"    -> 5
    [] OTHER                             -> -10

AmountReason(ev, rt, now) ==
  CASE ev.amount = rt.expected                                     -> "exact_amount"
    [] WithinUnderpayment(ev.amount, rt.expected, ToleranceBPS)    -> "underpayment_within_tolerance"
    [] WithinOverpayment(ev.amount, rt.expected, ToleranceBPS)     -> "overpayment_within_tolerance"
    [] ev.amount > rt.expected                                     -> "above_expected"
    [] ev.amount < rt.expected /\ now < rt.expires
         /\ ~WithinUnderpayment(ev.amount, rt.expected, ToleranceBPS) -> "below_expected_before_expiry"
    [] OTHER                                                       -> "below_expected"

AmountScore(reason, open) ==
  CASE reason = "exact_amount"                  -> 55
    [] reason = "underpayment_within_tolerance" -> IF open THEN 50 ELSE 45
    [] reason = "overpayment_within_tolerance"  -> 30
    [] reason = "below_expected_before_expiry"  -> 10
    [] OTHER                                    -> 5

ClassOf(reason, late, open) ==
  CASE late                                                          -> "late"
    [] ~late /\ reason = "exact_amount"                              -> "exact"
    [] ~late /\ reason \in {"overpayment_within_tolerance", "above_expected"} -> "overpaid"
    [] ~late /\ reason \in {"underpayment_within_tolerance",
          "below_expected_before_expiry", "below_expected"} -> IF open THEN "partial" ELSE "underpaid"

(* The candidate one route yields, before routes are compared. *)
Candidate(r, ev, rt, now) ==
  IF rt.asset # ev.asset
  THEN [route |-> r, order |-> rt.order, class |-> "wrong_asset", score |-> 35,
        delta |-> NoDelta, reasons |-> {}]
  ELSE LET when == TimeReason(ev, rt)
           much == AmountReason(ev, rt, now)
           open == now < rt.expires
       IN  [route |-> r, order |-> rt.order,
            class |-> ClassOf(much, Late(ev, rt), open),
            score |-> 30 + TimeScore(when) + AmountScore(much, open),
            delta |-> IF ev.amount >= rt.expected THEN ev.amount - rt.expected
                                                  ELSE rt.expected - ev.amount,
            reasons |-> {when, much}]

(* compareCandidateAmountDistance: an absent distance is the farthest. *)
Closer(c, d)    == c.delta # NoDelta /\ (d.delta = NoDelta \/ c.delta < d.delta)
SameDistance(c, d) == c.delta = d.delta

RanksBefore(c, d) ==
  \/ c.score > d.score
  \/ c.score = d.score /\ Closer(c, d)
  \/ c.score = d.score /\ SameDistance(c, d) /\ c.order < d.order

First(C) == CHOOSE c \in C : \A d \in C \ {c} : RanksBefore(c, d)

(* The full ranking, as the set of candidates; First(C) is candidates[0].   *)
(* A lone large overpayment gains ten points; equal leaders are ambiguous.  *)
BuildCandidates(ev, Routes, Info, now) ==
  LET raw    == {Candidate(r, ev, Info[r], now) : r \in Routes}
      lone   == {IF Cardinality(raw) = 1 /\ c.class = "overpaid" /\ "above_expected" \in c.reasons
                 THEN [c EXCEPT !.score = @ + 10] ELSE c : c \in raw}
      leader == First(lone)
      tied   == {c \in lone : c.score = leader.score /\ SameDistance(c, leader)}
  IN  IF lone = {} THEN {}
      ELSE {IF Cardinality(tied) > 1 /\ c \in tied
            THEN [c EXCEPT !.class = "ambiguous"] ELSE c : c \in lone}

-----------------------------------------------------------------------------
(* UniqueAutomaticCandidate: does C have a winner safe for automation? *)
UniqueAutomatic(C) ==
  /\ C # {}
  /\ LET c == First(C)
     IN  /\ c.score >= AutomaticCandidateScoreThreshold
         /\ c.class # "ambiguous"
         /\ \/ "within_payment_window" \in c.reasons
            \/ c.class = "late" /\ "within_automatic_grace" \in c.reasons
         /\ c.class \in {"partial", "underpaid"} =>
              "underpayment_within_tolerance" \in c.reasons
         /\ \A d \in C \ {c} : d.score # c.score

(* SelectAutomaticCandidate's second chance: several close overpayments of  *)
(* one customer's equal invoices, one of them strictly the closest.         *)
Tied(C) == {c \in C : c.score = 100}

SameCustomerTie(C, Info, Open) ==
  /\ C # {}
  /\ ~UniqueAutomatic(C)
  /\ First(C).score = 100
  /\ Cardinality(Tied(C)) > 1
  /\ \A c \in Tied(C) :
       /\ c.class = "overpaid"
       /\ {"within_payment_window", "overpayment_within_tolerance"} \subseteq c.reasons
       /\ c.route \in Open
       /\ Info[c.route].customer # ""
       /\ \A d \in Tied(C) : Info[c.route].customer = Info[d.route].customer
  /\ \E c \in Tied(C) : \A d \in Tied(C) \ {c} : c.delta < d.delta

(* The automatic winner, or {}. *)
SelectAutomatic(C, Info, Open) ==
  IF UniqueAutomatic(C) THEN {First(C)}
  ELSE IF SameCustomerTie(C, Info, Open)
  THEN {c \in Tied(C) : \A d \in Tied(C) \ {c} : c.delta < d.delta}
  ELSE {}
=============================================================================
