------------------------------ MODULE Purchase ------------------------------
(***************************************************************************)
(* What the shop promises a customer, with nothing of how it is done: a    *)
(* number is paid for when it is bought, it either serves a code or is     *)
(* closed and its price comes back, and a number that has served can be    *)
(* bought again.  Every step moves the money and the state at once.        *)
(* Orders.tla is shown to implement it (OrdersRefinement.tla).             *)
(***************************************************************************)
EXTENDS Integers

CONSTANTS Order, Price, Wallet

VARIABLES
  deal,    \* each order: its state, its price, the activations paid for
  wallet   \* the customer's money

dealVars == <<deal, wallet>>

NoDeal == [state |-> "none", price |-> 0, paid |-> 0]

Init ==
  /\ deal = [o \in Order |-> NoDeal]
  /\ wallet = Wallet

Buy(o, c) ==
  /\ deal[o] = NoDeal
  /\ c <= wallet
  /\ deal' = [deal EXCEPT ![o] = [state |-> "open", price |-> c, paid |-> 1]]
  /\ wallet' = wallet - c

Serve(o) ==
  /\ deal[o].state = "open"
  /\ deal' = [deal EXCEPT ![o].state = "served"]
  /\ UNCHANGED wallet

(* The refund is the price the order was bought for.                       *)
Close(o) ==
  /\ deal[o].state = "open"
  /\ deal' = [deal EXCEPT ![o].state = "closed"]
  /\ wallet' = wallet + deal[o].price

BuyAgain(o, c) ==
  /\ deal[o].state = "served"
  /\ c <= wallet
  /\ deal' = [deal EXCEPT ![o] =
               [state |-> "open", price |-> @.price, paid |-> @.paid + 1]]
  /\ wallet' = wallet - c

Next ==
  \E o \in Order :
    \/ Serve(o) \/ Close(o)
    \/ \E c \in Price : Buy(o, c) \/ BuyAgain(o, c)

Spec == Init /\ [][Next]_dealVars
=============================================================================
