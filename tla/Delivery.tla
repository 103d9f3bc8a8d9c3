------------------------------ MODULE Delivery ------------------------------
(***************************************************************************)
(* How a code gets from the reseller to the customer's screen: the polling *)
(* worker and the admin's re-poll (workers/index.ts), the adapter of the   *)
(* order's provider, the SMS webhook, and the order page of the web client *)
(* with the balance in its header (orders/[id]/page.tsx, lib/hooks.ts).    *)
(*                                                                         *)
(* One order, from its rental on, and one customer who watches its page.   *)
(* What closes an order, the refund that follows and the steps of a        *)
(* reactivation are module Orders; here they are as coarse as the page can *)
(* tell: it makes no difference between `expired' and `canceled'.          *)
(***************************************************************************)
EXTENDS Replies

CONSTANTS
  Adapter,         \* the kinds of provider the order may be with
  Poller,          \* passes of the worker and re-polls that overlap
  MaxActivations,  \* bound: one rental plus the reactivations
  Limit            \* bound: the same, by adapter

ASSUME AdapterAssumption == Adapter \subseteq Kinds
ASSUME BoundAssumption ==
  MaxActivations \in Nat \ {0} /\ Limit \in [Kinds -> 1..MaxActivations]

VARIABLES
  kind,     \* the adapter of the order's provider
  order,    \* the Order document
  rental,   \* the reseller's side: the activation it is at, and its phase
  task,     \* what each poller is doing
  view,     \* the order as the page shows it
  get,      \* the page's GET /orders/:id in flight, and what it read
  settled,  \* settledRef: the page has seen the order leave `waiting'
  click,    \* the customer's button: its request, and the answer
  header    \* the balance shown, and a refetch that is due or has been read

server == <<kind, order, rental, task>>
page == <<view, get, settled, click, header>>
vars == <<server, page>>

Act == 1..MaxActivations
Status == {"waiting", "completed", "closed"}

(* lastPolledAt is recent, or older than providerPollIntervalMs like null. *)
Otp == {"none", "code"}
OrderDoc ==
  [status: Status, act: Act, otp: Otp, lastPolledAt: {"old", "recent"}]

View == [status: Status, act: Act, otp: Otp]
NoView == [status |-> "none", act |-> 0, otp |-> "none"]
OrderView == [status |-> order.status, act |-> order.act, otp |-> order.otp]

Idle == [step |-> "idle", act |-> 0, res |-> "none"]
Task == [step: {"ask", "apply"}, act: Act, res: Verdict \cup {"none"}]

NoClick == [op |-> "none", stage |-> "none", view |-> NoView]

(* Whether a balance was read after the money of the last answer moved.    *)
Reading == {"older", "newer"}
NoAnswer == "none"

-----------------------------------------------------------------------------
(* Bugs the properties must notice, in place of definitions below.         *)

(* The page stops polling once it shows an order that is settled.          *)
PollOrderWhileWaiting ==
  /\ get = NoView /\ view.status = "waiting"
  /\ get' = OrderView
  /\ UNCHANGED <<server, view, settled, click, header>>

(* The answer to a mutation refreshes the order only.                      *)
RefreshedOrder(h) == h

-----------------------------------------------------------------------------
(* The reseller.  A number that smscode activates again keeps its order    *)
(* id; smspool's reply names a new one, and the old one is over.           *)
KeepsReference == kind = "sms_code"
PhaseOf(n) == IF KeepsReference \/ n = rental.act THEN rental.phase ELSE "over"

SmsArrives ==
  /\ rental.phase = "open"
  /\ rental' = [rental EXCEPT !.phase = "coded"]
  /\ UNCHANGED <<kind, order, task, page>>

(* It may cancel a number, but keeps a code while the order waits for it.  *)
RentalEnds ==
  /\ \/ rental.phase = "open"
     \/ rental.phase = "coded" /\ order.status # "waiting"
  /\ rental' = [rental EXCEPT !.phase = "over"]
  /\ UNCHANGED <<kind, order, task, page>>

-----------------------------------------------------------------------------
(* The last poll gets old.                                                 *)
Age ==
  /\ order.status = "waiting" /\ order.lastPolledAt = "recent"
  /\ order' = [order EXCEPT !.lastPolledAt = "old"]
  /\ UNCHANGED <<kind, rental, task, page>>

(* The customer is answered, and money has moved that he is not shown yet. *)
Answer(v) == click' = [click EXCEPT !.stage = "ok", !.view = v]
Outdated(h) ==
  [h EXCEPT !.seen = "older", !.read = IF @ = NoAnswer THEN NoAnswer ELSE "older"]

(* refundWaitingOrder: the guarded update, the credit and, best effort,    *)
(* the release of the number.  The customer who canceled is answered then. *)
Close == order' = [order EXCEPT !.status = "closed"]

(* expiresAt may pass at any time.  The page hears of no refund of the     *)
(* worker's, only of the order.                                            *)
Expire ==
  /\ order.status = "waiting"
  /\ Close
  /\ UNCHANGED <<kind, rental, task, page>>

Credit ==
  /\ click.op = "cancel" /\ click.stage = "claimed"
  /\ rental' \in {rental, [rental EXCEPT !.phase = "over"]}
  /\ Answer(OrderView)
  /\ header' = Outdated(header)
  /\ UNCHANGED <<kind, order, task, view, get, settled>>

(* applyOtpToOrder.                                                        *)
Complete(code) == order' = [order EXCEPT !.status = "completed", !.otp = code]

(* The inbound webhook, for the newest code or, late or again, for an      *)
(* earlier one: the order is found if it still has that reference.         *)
Push(n) ==
  /\ order.status = "waiting"
  /\ \/ n < order.act /\ KeepsReference
     \/ n = order.act /\ n = rental.act /\ rental.phase = "coded"
  /\ Complete("code")
  /\ UNCHANGED <<kind, rental, task, page>>

-----------------------------------------------------------------------------
(* runPolling reads the orders that are due, an admin's re-poll any that   *)
(* waits; the reseller is asked about the document that was read.          *)
Due == order.status = "waiting" /\ order.lastPolledAt = "old"

StartPoll(p) ==
  /\ task[p] = Idle
  /\ task' = [task EXCEPT ![p] =
       [step |-> "ask", act |-> order.act, res |-> "none"]]
  /\ UNCHANGED <<kind, order, rental, page>>

StartPass(p) == Due /\ StartPoll(p)
Repoll(p) == order.status = "waiting" /\ StartPoll(p)

(* The provider is found by its id, on or off.  A poll that throws is      *)
(* logged and leaves lastPolledAt alone.                                   *)
Hear(p, r) ==
  LET res == Poll(kind, r) IN
  /\ task[p].step = "ask"
  /\ r \in Says(kind, PhaseOf(task[p].act))
  /\ task' = [task EXCEPT ![p] =
       IF res = "throws" THEN Idle ELSE [@ EXCEPT !.step = "apply", !.res = res]]
  /\ UNCHANGED <<kind, order, rental, page>>

(* pollOrderOnce acts on what it heard, each time guarded on the status    *)
(* alone.                                                                  *)
Apply(p) ==
  LET res == task[p].res IN
  /\ task[p].step = "apply"
  /\ \/ order.status # "waiting" /\ UNCHANGED order
     \/ order.status = "waiting" /\ res \in {"received", "empty"}
        /\ Complete(IF res = "received" THEN "code" ELSE "none")
     \/ order.status = "waiting" /\ res = "canceled" /\ Close
     \/ order.status = "waiting" /\ res = "waiting"
        /\ order' = [order EXCEPT !.lastPolledAt = "recent"]
  /\ task' = [task EXCEPT ![p] = Idle]
  /\ UNCHANGED <<kind, rental, page>>

-----------------------------------------------------------------------------
(* The page's buttons.  useOrderAction sends one request at a time here.   *)
Offered(op) ==
  IF op = "reactivate" THEN view.status = "completed" /\ view.otp = "code"
  ELSE view.status = "waiting"

Click(op) ==
  /\ click = NoClick /\ Offered(op)
  /\ click' = [NoClick EXCEPT !.op = op, !.stage = "sent"]
  /\ UNCHANGED <<server, view, get, settled, header>>

Sent(op) == click.op = op /\ click.stage = "sent"
Refuse ==
  /\ click.stage = "sent"
  /\ click' = NoClick
  /\ UNCHANGED <<server, view, get, settled, header>>

(* cancelOrder: answered when the money is back.                           *)
Cancel ==
  /\ Sent("cancel")
  /\ order.status = "waiting" /\ order.otp = "none"
  /\ Close
  /\ click' = [click EXCEPT !.stage = "claimed"]
  /\ UNCHANGED <<kind, rental, task, view, get, settled, header>>

(* resendOrder: asked of the reseller, then due at the next pass.          *)
Resend(r) ==
  /\ Sent("resend")
  /\ order.status = "waiting"
  /\ ResendAccepted(kind, r)
  /\ click' = [click EXCEPT !.stage = "claimed"]
  /\ UNCHANGED <<server, view, get, settled, header>>

Resent ==
  /\ click.op = "resend" /\ click.stage = "claimed"
  /\ order' = IF order.status = "waiting" THEN [order EXCEPT !.lastPolledAt = "old"] ELSE order
  /\ Answer(OrderView)
  /\ UNCHANGED <<kind, rental, task, view, get, settled, header>>

(* reactivateOrder: bought at the reseller, paid for, reopened.  A reply   *)
(* that smscode did not mean as a yes may be taken for one.  The page may  *)
(* offer it for an order it has not yet shown completed: an answer from    *)
(* before the last reactivation is still the view.                         *)
Reactivate(r) ==
  LET n == order.act + 1 IN
  /\ Sent("reactivate") /\ order.status = "completed" /\ order.act < Limit[kind]
  /\ kind \in Reactivates /\ Reactivated(kind, r)
  /\ order' = [order EXCEPT !.status = "waiting", !.act = n, !.otp = "none",
                            !.lastPolledAt = "old"]
  /\ rental' = IF r = "done" THEN [act |-> n, phase |-> "open"] ELSE rental
  /\ Answer([status |-> "waiting", act |-> n, otp |-> "none"])
  /\ header' = Outdated(header)
  /\ UNCHANGED <<kind, task, view, get, settled>>

-----------------------------------------------------------------------------
(* The page.  A change of what it shows runs the effect that looks for the *)
(* first time the order is not waiting; invalidating the wallet drops the  *)
(* refetch in flight and starts another.                                   *)
Invalidated(h) == [h EXCEPT !.due = TRUE, !.read = NoAnswer]

Show(v, h) ==
  /\ view' = v
  /\ settled' = (settled \/ v.status # "waiting")
  /\ header' = IF ~settled /\ v.status # "waiting" THEN Invalidated(h) ELSE h

(* useOrder polls every 2.5 seconds, one request at a time.                *)
PollOrder ==
  /\ get = NoView
  /\ get' = OrderView
  /\ UNCHANGED <<server, view, settled, click, header>>

ShowOrder ==
  /\ get # NoView
  /\ Show(get, header)
  /\ get' = NoView
  /\ UNCHANGED <<server, click>>

(* onSuccess of useOrderAction.  A poll in flight is not cancelled.        *)
Refreshed(h) == Invalidated(h)

OnSuccess ==
  /\ click.stage = "ok"
  /\ Show(click.view, Refreshed(header))
  /\ click' = NoClick
  /\ UNCHANGED <<server, get>>

(* useWallet: nothing but an invalidation refetches it.                    *)
ReadWallet ==
  /\ header.due
  /\ header' = [header EXCEPT !.due = FALSE, !.read = "newer"]
  /\ UNCHANGED <<server, view, get, settled, click>>

ShowWallet ==
  /\ header.read # NoAnswer
  /\ header' = [header EXCEPT !.seen = header.read, !.read = NoAnswer]
  /\ UNCHANGED <<server, view, get, settled, click>>

-----------------------------------------------------------------------------
Init ==
  /\ kind \in Adapter
  /\ order = [status |-> "waiting", act |-> 1, otp |-> "none",
              lastPolledAt |-> "old"]
  /\ rental = [act |-> 1, phase |-> "open"]
  /\ task = [p \in Poller |-> Idle]
  /\ view = OrderView
  /\ get = NoView
  /\ settled = FALSE
  /\ click = NoClick
  /\ header = [seen |-> "newer", due |-> FALSE, read |-> NoAnswer]

Reseller == SmsArrives \/ RentalEnds
Polling(p) == StartPass(p) \/ Repoll(p) \/ (\E r \in Reply : Hear(p, r)) \/ Apply(p)
Serve == Refuse \/ Cancel \/ Resent \/ \E r \in Outcome : Resend(r) \/ Reactivate(r)
Page == PollOrder \/ ShowOrder \/ OnSuccess \/ ReadWallet \/ ShowWallet

Next ==
  \/ Reseller \/ Age \/ Expire \/ Credit
  \/ \E n \in Act : Push(n)
  \/ \E p \in Poller : Polling(p)
  \/ \E op \in {"cancel", "resend", "reactivate"} : Click(op)
  \/ Serve \/ Page

(* The timers fire and the handlers run on; the batch of a pass has room   *)
(* for every order that is due; a reseller that is asked again and again   *)
(* tells a code it has; the page stays open and its requests are answered. *)
Spec ==
  /\ Init /\ [][Next]_vars
  /\ WF_vars(Age)
  /\ \A p \in Poller :
       /\ WF_vars(\E r \in Reply : Hear(p, r))
       /\ WF_vars(Apply(p))
  /\ WF_vars(\E p \in Poller : StartPass(p))
  /\ SF_vars(\E p \in Poller : Hear(p, "code"))
  /\ WF_vars(Credit) /\ WF_vars(Serve)
  /\ WF_vars(PollOrder) /\ WF_vars(ShowOrder) /\ WF_vars(OnSuccess)
  /\ WF_vars(ReadWallet) /\ SF_vars(ShowWallet)

-----------------------------------------------------------------------------
TypeOK ==
  /\ kind \in Adapter
  /\ order \in OrderDoc
  /\ rental \in [act: Act, phase: Phase]
  /\ task \in [Poller -> Task \cup {Idle}]
  /\ view \in View /\ get \in View \cup {NoView}
  /\ settled \in BOOLEAN
  /\ click \in [op: {"none", "cancel", "resend", "reactivate"},
                stage: {"none", "sent", "claimed", "ok"},
                view: View \cup {NoView}]
  /\ header \in [seen: Reading, due: BOOLEAN, read: Reading \cup {NoAnswer}]

(* A code that has reached the reseller ends the wait on the page: the     *)
(* page comes to show this activation completed, or closed by whoever was  *)
(* faster, whatever answers were still on their way from the one before.   *)
(* Unless the customer has reactivated again by then: an answer from       *)
(* before this activation offers him that, and once the webhook has        *)
(* completed this one the server does it, and its code is never shown.     *)
OutcomeIsShown ==
  \A n \in Act :
    order.status = "waiting" /\ order.act = n /\ rental.act = n /\ rental.phase = "coded"
      ~> (view.act = n /\ view.status # "waiting") \/ order.act > n

(* Once the page has the answer to a cancel or a reactivation, the balance *)
(* in the header comes to include the money it moved.                      *)
BalanceFollows ==
  click.stage = "ok" /\ click.op \in {"cancel", "reactivate"} ~> header.seen = "newer"

(* A poll closes and refunds an order only when the number it asked about  *)
(* is over at the reseller: no code that has arrived is refunded because   *)
(* of how a reply is read.  (A number is over for good, so it still is     *)
(* when the reply is acted on, unless it has been reactivated since.)      *)
PollsKeepLiveNumbers ==
  [][\A p \in Poller :
       task[p].step = "apply" /\ order.status = "waiting" /\ order'.status = "closed"
         /\ task'[p] = Idle /\ task[p].act = order.act
       => rental.act # order.act \/ rental.phase = "over"]_vars
=============================================================================
