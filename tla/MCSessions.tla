----------------------------- MODULE MCSessions -----------------------------
(* Sessions for TLC.                                                       *)
EXTENDS Sessions, TLC

(* Requests are interchangeable, and so are browsers.                      *)
Symmetry == Permutations(Proc) \cup Permutations(Browser)
=============================================================================
