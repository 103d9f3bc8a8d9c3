-------------------------- MODULE OrdersRefinement --------------------------
(***************************************************************************)
(* Orders implements Purchase, when a replica set is available and no      *)
(* process dies: seen from outside, the refund happens when the order is   *)
(* claimed and the price of a reactivation is paid when the order reopens, *)
(* although the wallet moves some steps later or earlier.                  *)
(***************************************************************************)
EXTENDS Orders

(* What a process has in hand of the customer's money: a credit not made   *)
(* yet, a debit of an order not open yet.                                  *)
Carries(p) ==
  IF task[p].step \in {"credit", "bookRenewal", "reopen"}
  THEN task[p].amount ELSE 0

(* Money on its way, counted coin by coin: <<p, i>> is the i-th of p's.    *)
Coins == UNION {{p} \X (1..Carries(p)) : p \in Proc}
InTransit == Cardinality(Coins)

(* What the customer has, once all of it has arrived.                      *)
Purse == balance + InTransit

State(status) ==
  CASE status = "absent" -> "none"
    [] status = "waiting" -> "open"
    [] status = "completed" -> "served"
    [] status \in Terminal -> "closed"

DealOf(d) == [state |-> State(d.status), price |-> d.price, paid |-> d.act]
Deals == [o \in Order |-> DealOf(row[o])]

P == INSTANCE Purchase WITH deal <- Deals, wallet <- Purse

(* Every step of the handlers, workers and webhooks is a purchase, a       *)
(* delivery, a closing with its refund, a new purchase, or invisible.      *)
ImplementsPurchase == P!Spec
=============================================================================
