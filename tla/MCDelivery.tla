----------------------------- MODULE MCDelivery -----------------------------
(***************************************************************************)
(* Bounds of Delivery for TLC: two reactivations, after which an answer    *)
(* can be stale by more than one activation.  smscode, whose number keeps  *)
(* its reference and so answers every poll, gets one.  CodePage is used by *)
(* the price lists only.                                                   *)
(***************************************************************************)
EXTENDS Delivery

MCLimit == [k \in Kinds |-> IF k = "sms_code" THEN 2 ELSE 3]
=============================================================================
