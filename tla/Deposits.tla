------------------------------ MODULE Deposits ------------------------------
(***************************************************************************)
(* Money coming in: services/deposits.service.ts (creation, the payment    *)
(* webhook, confirmDeposit) and the admin's updateDepositStatus, racing    *)
(* for the same deposits.  A process is one request handler.               *)
(***************************************************************************)
EXTENDS Integers, FiniteSets

CONSTANTS
  Deposit,  \* identities of the deposits that may be asked for
  Proc,     \* concurrent request handlers
  Gateway,  \* the payment providers whose keys and secrets are set
  MaxDeaths \* how many processes die, or lose their database, at most

Gateways == {"stripe", "nowpayments", "bachs", "cryptomus"}

ASSUME MaxDeathsAssumption == MaxDeaths \in Nat
ASSUME GatewayAssumption == Gateway \subseteq Gateways

VARIABLES
  status,    \* the Deposit document: its status, or absent
  charge,    \* the payment provider's side of it: which one, how far it is
  acked,     \* the webhook has been answered with { ok: true }
  credited,  \* history: how often the amount was added to the wallet
  booked,    \* how many Transaction rows name the deposit
  task,      \* what each process is doing
  died       \* history: the deposits that lost a process, and before which step

money == <<credited, booked>>
vars == <<status, charge, acked, money, task, died>>

DepositStatus == {"absent", "pending", "confirmed", "failed"}
Stage == {"none", "open", "confirming", "short", "paid", "over", "late"}
Arrived == {"paid", "over", "late"}
NoCharge == [via |-> "none", stage |-> "none"]
Charge == [via: Gateway, stage: Stage] \cup {NoCharge}
Step == {"record", "claim", "credit", "book", "answer", "fail"}
Caller == {"customer", "webhook", "admin"}

Task == [step: Step, deposit: Deposit, by: Caller]
Idle == [step |-> "idle"]

At(p, s) == task[p].step = s
On(p, d, s) == At(p, s) /\ task[p].deposit = d
Goto(p, s) == task' = [task EXCEPT ![p].step = s]
Return(p) == task' = [task EXCEPT ![p] = Idle]
Begin(p, s, d, c) ==
  /\ task[p] = Idle
  /\ task' = [task EXCEPT ![p] = [step |-> s, deposit |-> d, by |-> c]]

-----------------------------------------------------------------------------
(* What a provider reports of a charge: of money seen but not settled, of  *)
(* less than was asked for, of the amount, and of more.  Stripe has an     *)
(* event of its own for money that is late: the session was completed      *)
(* unpaid.                                                                 *)
Says(t, s) == [type |-> t, status |-> s]
Reports ==
  [stripe |-> [confirming |-> Says("completed", "unpaid"), short |-> Says("expired", "unpaid"),
               paid |-> Says("completed", "paid"), over |-> Says("completed", "paid"),
               late |-> Says("async_payment_succeeded", "paid")],
   nowpayments |-> [confirming |-> Says("ipn", "confirmed"), short |-> Says("ipn", "partially_paid"),
                    paid |-> Says("ipn", "finished"), over |-> Says("ipn", "finished")],
   bachs |-> [confirming |-> Says("pending", "none"), short |-> Says("underpaid", "none"),
              paid |-> Says("succeeded", "none"), over |-> Says("succeeded", "none")],
   cryptomus |-> [confirming |-> Says("payment", "check"), short |-> Says("payment", "wrong_amount"),
                  paid |-> Says("payment", "paid"), over |-> Says("payment", "paid_over")]]

(* The four parsers: whether the event is of money that has arrived.       *)
StripePaid(e) == e.type = "completed" /\ e.status = "paid"
(* A bug UnpaidIsNotCredited must notice, in place of NowPaymentsPaid:     *)
(* confirmations on the chain are taken for the money.                     *)
NowPaymentsPaidEarly(e) == e.status \in {"confirmed", "finished"}
NowPaymentsPaid(e) == e.status = "finished"
BachsPaid(e) == e.type = "succeeded"
CryptomusPaid(e) == e.status \in {"paid", "paid_over"}

EventPaid(via, e) ==
  CASE via = "stripe"      -> StripePaid(e)
    [] via = "nowpayments" -> NowPaymentsPaid(e)
    [] via = "bachs"       -> BachsPaid(e)
    [] via = "cryptomus"   -> CryptomusPaid(e)

(* The provider has an event to deliver that handleWebhook acts on; of any *)
(* other it says "ok" and does nothing.                                    *)
Delivers(c) == c.stage \notin {"none", "open"} /\ EventPaid(c.via, Reports[c.via][c.stage])

-----------------------------------------------------------------------------
(* Bugs the properties must notice, each in place of one action below; no  *)
(* behaviour of Spec uses them.                                            *)

(* an unknown deposit is acknowledged instead of a 404.                    *)
WebhookOfUnknown(p, d) ==
  /\ Delivers(charge[d])
  /\ Begin(p, IF status[d] = "pending" THEN "claim" ELSE "answer", d, "webhook")
  /\ UNCHANGED <<status, charge, acked, money, died>>

(* the claim does not look at the status.                                  *)
ClaimUnguarded(p) ==
  /\ At(p, "claim")
  /\ status' = [status EXCEPT ![task[p].deposit] = "confirmed"]
  /\ Goto(p, "credit")
  /\ UNCHANGED <<charge, acked, money, died>>

(* credit forgets its Transaction row.                                     *)
CreditOnly(p) ==
  /\ At(p, "credit")
  /\ credited' = [credited EXCEPT ![task[p].deposit] = @ + 1]
  /\ Goto(p, "answer")
  /\ UNCHANGED <<status, charge, acked, booked, died>>

-----------------------------------------------------------------------------
(* createDeposit: the charge exists, and can be paid, before the document. *)
CreateCharge(p, d) ==
  /\ charge[d] = NoCharge
  /\ \E g \in Gateway : charge' = [charge EXCEPT ![d] = [via |-> g, stage |-> "open"]]
  /\ Begin(p, "record", d, "customer")
  /\ UNCHANGED <<status, acked, money, died>>

Record(p) ==
  /\ At(p, "record")
  /\ status' = [status EXCEPT ![task[p].deposit] = "pending"]
  /\ Return(p)
  /\ UNCHANGED <<charge, acked, money, died>>

(* handleWebhook, of a genuine event, then confirmByProviderRef.  *)
(* An unknown deposit is an error to the provider, which delivers again;   *)
(* it may deliver again anyway.                                            *)
Webhook(p, d) ==
  /\ Delivers(charge[d])
  /\ status[d] # "absent"
  /\ Begin(p, IF status[d] = "pending" THEN "claim" ELSE "answer", d, "webhook")
  /\ UNCHANGED <<status, charge, acked, money, died>>

(* The response goes out when everything before it has succeeded.          *)
Answer(p) ==
  /\ At(p, "answer")
  /\ acked' = IF task[p].by = "webhook"
              THEN [acked EXCEPT ![task[p].deposit] = TRUE]
              ELSE acked
  /\ Return(p)
  /\ UNCHANGED <<status, charge, money, died>>

(* updateDepositStatus reads the document; confirmed goes the webhook's    *)
(* way, whether the charge is paid or not.                                 *)
AdminConfirms(p, d) ==
  /\ status[d] = "pending"
  /\ Begin(p, "claim", d, "admin")
  /\ UNCHANGED <<status, charge, acked, money, died>>

AdminFails(p, d) ==
  /\ status[d] = "pending"
  /\ Begin(p, "fail", d, "admin")
  /\ UNCHANGED <<status, charge, acked, money, died>>

(* deposit.save(): by _id, whatever the status has become.                 *)
SaveFailed(p) ==
  /\ At(p, "fail")
  /\ status' = [status EXCEPT ![task[p].deposit] = "failed"]
  /\ Goto(p, "answer")
  /\ UNCHANGED <<charge, acked, money, died>>

(* confirmDeposit: claim, credit, book; the loser of the claim gets a 409. *)
Claim(p) ==
  LET d == task[p].deposit IN
  /\ At(p, "claim")
  /\ IF status[d] = "pending"
     THEN status' = [status EXCEPT ![d] = "confirmed"] /\ Goto(p, "credit")
     ELSE UNCHANGED status /\ Return(p)
  /\ UNCHANGED <<charge, acked, money, died>>

Credit(p) ==
  /\ At(p, "credit")
  /\ credited' = [credited EXCEPT ![task[p].deposit] = @ + 1]
  /\ Goto(p, "book")
  /\ UNCHANGED <<status, charge, acked, booked, died>>

Book(p) ==
  /\ At(p, "book")
  /\ booked' = [booked EXCEPT ![task[p].deposit] = @ + 1]
  /\ Goto(p, "answer")
  /\ UNCHANGED <<status, charge, acked, credited, died>>

(* The process dies, or an await throws: nothing here catches it.          *)
Crash(p) ==
  /\ task[p] # Idle /\ Cardinality(died) < MaxDeaths
  /\ LET death == <<task[p].deposit, task[p].step>> IN
       death \notin died /\ died' = died \cup {death}
  /\ Return(p)
  /\ UNCHANGED <<status, charge, acked, money>>

(* Money on its way may be announced before it arrives, or fall short.     *)
CustomerPays(d) ==
  /\ charge[d].stage \in {"open", "confirming"}
  /\ \E s \in IF charge[d] = [via |-> "stripe", stage |-> "confirming"] THEN {"short", "late"}
               ELSE {"confirming", "short", "paid", "over"} :
       charge' = [charge EXCEPT ![d].stage = s]
  /\ UNCHANGED <<status, acked, money, task, died>>

-----------------------------------------------------------------------------
Init ==
  /\ status = [d \in Deposit |-> "absent"]
  /\ charge = [d \in Deposit |-> NoCharge]
  /\ acked = [d \in Deposit |-> FALSE]
  /\ credited = [d \in Deposit |-> 0]
  /\ booked = [d \in Deposit |-> 0]
  /\ task = [p \in Proc |-> Idle]
  /\ died = {}

Start(p, d) ==
  CreateCharge(p, d) \/ Webhook(p, d) \/ AdminConfirms(p, d) \/ AdminFails(p, d)

Continue(p) ==
  Record(p) \/ Answer(p) \/ SaveFailed(p) \/ Claim(p) \/ Credit(p) \/ Book(p)

Next ==
  \/ \E p \in Proc : (\E d \in Deposit : Start(p, d)) \/ Continue(p) \/ Crash(p)
  \/ \E d \in Deposit : CustomerPays(d)

Spec == Init /\ [][Next]_vars

-----------------------------------------------------------------------------
(* What each variable may hold.                                            *)
TypeOK ==
  /\ status \in [Deposit -> DepositStatus]
  /\ charge \in [Deposit -> Charge]
  /\ acked \in [Deposit -> BOOLEAN]
  /\ credited \in [Deposit -> Nat]
  /\ booked \in [Deposit -> Nat]
  /\ task \in [Proc -> Task \cup {Idle}]
  /\ died \in SUBSET (Deposit \X Step)

Died(d, s) == <<d, s>> \in died

(* confirmDeposit is "guarded so it can only ever settle once": whatever   *)
(* webhooks, redeliveries, admins and crashes do, the wallet gets the      *)
(* amount at most once, and one process at most is about to give it.       *)
CreditedAtMostOnce ==
  \A d \in Deposit :
    /\ credited[d] <= 1
    /\ \A p \in Proc : On(p, d, "credit") =>
         credited[d] = 0 /\ \A q \in Proc \ {p} : ~On(q, d, "credit")

(* A credit has its Transaction row, or the process that made it is about  *)
(* to write it, or died just there; never a row without the credit.        *)
CreditIsBooked ==
  \A d \in Deposit :
    LET due == Died(d, "book") \/ \E p \in Proc : On(p, d, "book")
    IN  credited[d] = booked[d] + IF due THEN 1 ELSE 0

(* The provider is told "ok" only of a deposit that is credited, about to  *)
(* be, or refused by an admin; the one exception is a process that died    *)
(* between the claim and the credit.                                       *)
AckedIsSettled ==
  \A d \in Deposit : acked[d] =>
    \/ credited[d] = 1 \/ status[d] = "failed"
    \/ Died(d, "credit") \/ \E p \in Proc : On(p, d, "credit")

(* nowpayments.ts:78-81: nothing is credited "before the money has         *)
(* actually arrived", whatever the provider reports on the way, unless an  *)
(* admin says so.                                                          *)
UnpaidIsNotCredited ==
  [][\A d \in Deposit : credited'[d] # credited[d] =>
       \/ charge[d].stage \in Arrived
       \/ \E p \in Proc : On(p, d, "credit") /\ task[p].by = "admin"]_vars

-----------------------------------------------------------------------------
(* Handlers run on while they live; a webhook is delivered again and again *)
(* until it is answered with success.                                      *)
LiveSpec ==
  /\ Spec
  /\ \A p \in Proc : WF_vars(Continue(p))
  /\ \A d \in Deposit : SF_vars(\E p \in Proc : ~acked[d] /\ Webhook(p, d))

(* Money that was paid in reaches the wallet, unless an admin failed the   *)
(* deposit or a process died in one of two places: before it recorded the  *)
(* charge, or between the claim and the credit.  Redelivery makes up for a *)
(* death anywhere else.  It does not make up for Stripe's late money, of   *)
(* which parseStripeEvent reads no event: an admin has to confirm it.      *)
PaidIsSettled ==
  \A d \in Deposit :
    charge[d].stage \in Arrived \ {"late"} ~>
      \/ credited[d] = 1 \/ status[d] = "failed"
      \/ Died(d, "record") \/ Died(d, "credit")
=============================================================================
