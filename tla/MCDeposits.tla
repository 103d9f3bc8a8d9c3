----------------------------- MODULE MCDeposits -----------------------------
(* Deposits for TLC.                                                       *)
EXTENDS Deposits, TLC

(* Processes and deposits are interchangeable.                             *)
Symmetry == Permutations(Proc) \cup Permutations(Deposit)
=============================================================================
