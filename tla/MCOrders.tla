------------------------------ MODULE MCOrders ------------------------------
(* Orders for TLC.                                                         *)
EXTENDS OrdersRefinement, TLC

(* The processes are interchangeable.                                      *)
ProcSymmetry == Permutations(Proc)

(* So are the orders.                                                      *)
Symmetry == ProcSymmetry \cup Permutations(Order)
=============================================================================
