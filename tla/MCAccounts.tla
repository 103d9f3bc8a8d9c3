----------------------------- MODULE MCAccounts -----------------------------
(* Accounts for TLC.                                                       *)
EXTENDS Accounts, TLC

(* Requests are interchangeable, and so are accounts and the codes of a    *)
(* batch.                                                                  *)
Symmetry == Permutations(Proc) \cup Permutations(User) \cup Permutations(Code)
=============================================================================
