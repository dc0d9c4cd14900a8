----------------------------- MODULE MCPayments -----------------------------
(***************************************************************************)
(* Small instances of the payment core.                                    *)
(***************************************************************************)
EXTENDS Payments, TLC

CONSTANTS i1, i2, r1, r2, r3, e1, e2, a1, b1, a2

NoPolicy == [bps |-> 0, acceptLate |-> FALSE, accumulate |-> FALSE, sameSender |-> FALSE, over |-> "review"]
Pays(asset, amount, n) == [asset |-> asset, address |-> "d", amount |-> amount,
                           order |-> n, sender |-> "s"]
Invoice(asset, expected, starts, expires, grace, order) ==
  [asset |-> asset, address |-> "d", expected |-> expected, starts |-> starts,
   expires |-> expires, grace |-> grace, order |-> order, customer |-> "",
   finality |-> 2, bound |-> FALSE, policy |-> NoPolicy]

OneTenant  == [i \in Intent |-> "t"]
AllDue(t)  == [i \in Intent |-> t]
DueAt1     == AllDue(1)
SmallReports == {[status |-> "observed", conf |-> 1], [status |-> "observed", conf |-> 2],
                 [status |-> "finalized", conf |-> 2]}

(* e1 is mined in a1 or, after a reorganisation and too late for the        *)
(* invoice, in b1; e2 pays the same amount again on top of a1.              *)
ForkBlocks == a1 :> [height |-> 1, parent |-> NoBlock, time |-> 0, includes |-> {e1}]
           @@ b1 :> [height |-> 1, parent |-> NoBlock, time |-> 2, includes |-> {e1}]
           @@ a2 :> [height |-> 2, parent |-> a1, time |-> 1, includes |-> {e2}]
LoneForkBlocks == [b \in {a1, b1} |-> ForkBlocks[b]]
TwicePaid  == e1 :> Pays("x", 4, 1) @@ e2 :> Pays("x", 4, 2)
OncePaid   == e1 :> Pays("x", 4, 1)
TwoRoutes  == r1 :> Invoice("x", 4, 0, 1, 2, 1) @@ r2 :> Invoice("y", 5, 0, 1, 2, 2)
(* A policy-bound invoice: e1 is close to the amount, e2 completes it with a *)
(* small excess in a later block, and either block may be replaced.          *)
Bound(rt, over) == [rt EXCEPT !.bound = TRUE,
  !.policy = [bps |-> 0, acceptLate |-> TRUE, accumulate |-> TRUE, sameSender |-> TRUE,
              over |-> over]]
Partial    == e1 :> Pays("x", 39, 1) @@ e2 :> Pays("x", 2, 2)
BoundRoute == r1 :> Bound(Invoice("x", 40, 0, 1, 3, 1), "credit_expected")
FinalReports == {[status |-> "observed", conf |-> 2], [status |-> "finalized", conf |-> 2]}
(* An underpaid invoice that an operator may assign to either customer; the  *)
(* transfer may move to a block past the expiry of both.                     *)
Shortfall  == e1 :> Pays("x", 3, 1)
TwoInvoices == r1 :> Invoice("x", 4, 0, 1, 2, 1) @@ r2 :> Invoice("y", 3, 0, 1, 2, 2)
TwoIntents == r1 :> i1 @@ r2 :> i2
ShortOrAll == {{"shortfall"}, {"shortfall", "late", "cross_asset"}}
(* A near payment that the policy tolerates on r1, and an exact payment of    *)
(* the same invoice on its other route.                                      *)
Mixed      == e1 :> Pays("x", 39, 1) @@ e2 :> Pays("y", 4, 2)
Tolerant(rt) == [rt EXCEPT !.bound = TRUE,
  !.policy = [bps |-> 500, acceptLate |-> TRUE, accumulate |-> FALSE, sameSender |-> FALSE,
              over |-> "credit_all"]]
BoundAndExact == r1 :> Tolerant(Invoice("x", 40, 0, 1, 3, 1)) @@ r2 :> Invoice("y", 4, 0, 1, 2, 2)
OnlyFinal  == {[status |-> "finalized", conf |-> 2]}
OneIntent  == [r \in Route |-> i1]
=============================================================================
