---------------------------- MODULE MCPlaceOrder ----------------------------
(* PlaceOrder for TLC.                                                     *)
EXTENDS PlaceOrder, TLC

(* Attempts, and bodies, are interchangeable.                              *)
Symmetry == Permutations(Attempt) \cup Permutations(Body)
=============================================================================
