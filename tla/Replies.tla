------------------------------ MODULE Replies ------------------------------
(***************************************************************************)
(* The adapters of providers/sms/adapters once a number is rented: what    *)
(* poll, resend and reactivate make of the reseller's replies.  A reply is *)
(* one of the few things the adapters tell apart.  The rest of it, and how *)
(* each protocol spells it, is left out.                                   *)
(***************************************************************************)
EXTENDS Resellers

(* A rental at the reseller: it waits for an SMS, has a code, or is over.  *)
Phase == {"open", "coded", "over"}

(* What a reseller may say of a rental.  The last three say nothing of it: *)
(* it refuses our credentials (bad_key), sends something that is not its   *)
(* protocol (garbage), or does not answer in time (silent).                *)
Trouble == {"bad_key", "garbage", "silent"}
Reply ==
  {"wait", "code", "blank", "cancel", "gone", "access_cancel"} \cup Trouble

(* smscode keeps a list of active orders, and a number can leave it at any *)
(* time after its SMS.                                                     *)
Says(kind, phase) ==
  Trouble \cup
    CASE phase = "open"  -> {"wait"}
      [] phase = "coded" -> {"code", "blank"} \cup (IF kind = "sms_code" THEN {"gone"} ELSE {})
      [] phase = "over"  -> {"cancel", "gone"} \cup (IF kind = "tiger_sms" THEN {"access_cancel"} ELSE {})

(* PollResult: `empty' is received without a code.                         *)
Verdict == {"waiting", "received", "empty", "canceled", "throws"}

-----------------------------------------------------------------------------
(* Bugs the properties must notice, in place of definitions below.         *)

(* A number that left the active list is taken for a canceled one.         *)
CodePollStrict(r) ==
  CASE r = "code"               -> "received"
    [] r \in {"cancel", "gone"} -> "canceled"
    [] r \in {"bad_key", "silent"} -> "throws"
    [] OTHER                    -> "waiting"

-----------------------------------------------------------------------------
(* activateGet throws on a rejected key and on a timeout only: whatever    *)
(* else comes back is parsed.                                              *)
Thrown(r) == r \in {"bad_key", "silent"}

ParseStatusResponse(r) ==
  CASE r = "code"               -> "received"
    [] r = "blank"              -> "empty"
    [] r \in {"cancel", "gone"} -> "canceled"
    [] OTHER                    -> "waiting"

HeroPoll(r)  == IF Thrown(r) THEN "throws" ELSE ParseStatusResponse(r)
BowerPoll(r) == IF Thrown(r) THEN "throws" ELSE ParseStatusResponse(r)

TigerPoll(r) ==
  CASE Thrown(r)           -> "throws"
    [] r = "access_cancel" -> "canceled"
    [] OTHER               -> ParseStatusResponse(r)

(* smspool numbers its statuses; an order it does not know has none.       *)
PoolPoll(r) ==
  CASE Thrown(r)    -> "throws"
    [] r = "code"   -> "received"
    [] r = "blank"  -> "empty"
    [] r = "cancel" -> "canceled"
    [] OTHER        -> "waiting"

(* A reply that is not JSON is an empty list, and a number that is not on  *)
(* the list still waits.                                                   *)
CodePoll(r) ==
  CASE Thrown(r)    -> "throws"
    [] r = "code"   -> "received"
    [] r = "cancel" -> "canceled"
    [] OTHER        -> "waiting"

(* With a statusPath, and a pattern or values for codes and cancellations. *)
(* In text mode a value counts wherever it stands in the reply: here the   *)
(* values are such that no other reply holds one.                          *)
CustomPoll(r) ==
  CASE Thrown(r)    -> "throws"
    [] r = "code"   -> "received"
    [] r = "blank"  -> "empty"
    [] r = "cancel" -> "canceled"
    [] OTHER        -> "waiting"

Poll(kind, r) ==
  CASE kind = "hero_sms"    -> HeroPoll(r)
    [] kind = "sms_bower"   -> BowerPoll(r)
    [] kind = "tiger_sms"   -> TigerPoll(r)
    [] kind = "sms_pool"    -> PoolPoll(r)
    [] kind = "sms_code"    -> CodePoll(r)
    [] kind = "custom_http" -> CustomPoll(r)

-----------------------------------------------------------------------------
(* A request to the reseller: it does it or refuses, or there is trouble.  *)
Outcome == {"done", "refused"} \cup Trouble

(* resend, as the customer is told.  The SMS-Activate family looks for a   *)
(* refusal in the text, smspool and smscode for success: false.  A         *)
(* templated request counts as done once it has been answered.             *)
ResendAccepted(kind, r) ==
  ~Thrown(r) /\ (r = "refused" => kind = "custom_http")

(* reactivate: smspool wants a success, smscode only no failure: a reply   *)
(* that is not JSON is taken for a yes.                                    *)
PoolReactivated(r) == r = "done"
CodeReactivated(r) == r \in {"done", "garbage"}

Reactivated(kind, r) ==
  \/ kind = "sms_pool" /\ PoolReactivated(r)
  \/ kind = "sms_code" /\ CodeReactivated(r)
=============================================================================
