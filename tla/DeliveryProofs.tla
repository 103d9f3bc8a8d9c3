--------------------------- MODULE DeliveryProofs ---------------------------
(***************************************************************************)
(* For every adapter and any number of polls that overlap: the types, and  *)
(* that a poll gives up no number that the reseller still serves.          *)
(***************************************************************************)
EXTENDS Delivery, TLAPS

(* A poll under way asks about the order's activation or an earlier one.   *)
AsksWhatItRead == \A p \in Poller : task[p].act <= order.act

(* The reseller is never ahead of the order.                               *)
RentalIsTheOrders == rental.act <= order.act

(* Who has heard that a number is canceled has asked about one that is     *)
(* over.                                                                   *)
CanceledIsOver ==
  \A p \in Poller :
    task[p].res = "canceled" /\ task[p].act = order.act
      => rental.act # order.act \/ rental.phase = "over"

(* A request that was answered was answered with an order.                 *)
AnswerIsAnOrder == click.stage = "ok" => click.view \in View

Inv == TypeOK /\ AnswerIsAnOrder /\ AsksWhatItRead /\ RentalIsTheOrders /\ CanceledIsOver

-----------------------------------------------------------------------------
ClickType ==
  [op: {"none", "cancel", "resend", "reactivate"},
   stage: {"none", "sent", "claimed", "ok"},
   view: View \cup {NoView}]

(* What the adapters make of a reply is a verdict, and only the reply of a *)
(* number that is over is taken for a cancellation.                        *)
LEMMA CanceledMeansOver ==
  ASSUME NEW k \in Kinds, NEW ph \in Phase, NEW r \in Says(k, ph)
  PROVE  /\ Poll(k, r) \in Verdict
         /\ Poll(k, r) = "canceled" => ph = "over"
  BY DEF Kinds, ActivateKind, Phase, Says, Trouble, Verdict, Poll, HeroPoll, BowerPoll,
         TigerPoll, PoolPoll, CodePoll, CustomPoll, Thrown, ParseStatusResponse

LEMMA InitInv == Init => Inv
<1> SUFFICES ASSUME Init PROVE Inv
  OBVIOUS
<1>1. 1 \in Act
  BY BoundAssumption DEF Act
<1>2. order \in OrderDoc /\ rental \in [act: Act, phase: Phase]
  BY <1>1 DEF Init, OrderDoc, Status, Otp, Phase
<1>3. view \in View /\ get = NoView /\ click = NoClick /\ settled = FALSE
  BY <1>1, <1>2 DEF Init, OrderView, OrderDoc, View
<1>4. header \in [seen: Reading, due: BOOLEAN, read: Reading \cup {NoAnswer}]
  BY DEF Init, Reading
<1>5. click \in ClickType /\ AnswerIsAnOrder
  BY <1>3 DEF NoClick, ClickType, AnswerIsAnOrder
<1>6. TypeOK
  BY <1>2, <1>3, <1>4, <1>5 DEF Init, TypeOK, ClickType
<1>7. AsksWhatItRead /\ RentalIsTheOrders /\ CanceledIsOver
  BY DEF Init, Idle, AsksWhatItRead, RentalIsTheOrders, CanceledIsOver
<1> QED
  BY <1>5, <1>6, <1>7 DEF Inv

-----------------------------------------------------------------------------
(* The types are kept, part by part.                                       *)
ServerType ==
  /\ kind \in Adapter
  /\ order \in OrderDoc
  /\ rental \in [act: Act, phase: Phase]
  /\ task \in [Poller -> Task \cup {Idle}]

PageType ==
  /\ view \in View /\ get \in View \cup {NoView}
  /\ settled \in BOOLEAN
  /\ click \in ClickType /\ AnswerIsAnOrder
  /\ header \in [seen: Reading, due: BOOLEAN, read: Reading \cup {NoAnswer}]

LEMMA TypeParts == TypeOK /\ AnswerIsAnOrder <=> ServerType /\ PageType
  BY DEF TypeOK, ServerType, PageType, ClickType

LEMMA AnswerType ==
  ASSUME click \in ClickType, NEW v \in View, Answer(v)
  PROVE  click' \in ClickType /\ AnswerIsAnOrder'
  BY DEF Answer, ClickType, AnswerIsAnOrder

LEMMA OutdatedType ==
  ASSUME NEW h \in [seen: Reading, due: BOOLEAN, read: Reading \cup {NoAnswer}]
  PROVE  Outdated(h) \in [seen: Reading, due: BOOLEAN, read: Reading \cup {NoAnswer}]
  BY DEF Outdated, Reading

LEMMA ServerTypeStep == Inv /\ Next => ServerType'
<1> SUFFICES ASSUME Inv, Next PROVE ServerType'
  OBVIOUS
<1> USE DEF OrderDoc, Status, Otp, Phase
<1>t. ServerType
  BY TypeParts DEF Inv
<1>k. Limit[kind] \in 1..MaxActivations
  BY <1>t, AdapterAssumption, BoundAssumption DEF ServerType
<1>1. CASE Reseller \/ Age \/ Expire
  BY <1>1, <1>t DEF Reseller, SmsArrives, RentalEnds, Age, Expire, Close, ServerType
<1>2. CASE Credit
  BY <1>2, <1>t DEF Credit, ServerType
<1>3. CASE \E n \in Act : Push(n)
  BY <1>3, <1>t DEF Push, Complete, ServerType
<1>4. ASSUME NEW p \in Poller, Polling(p) PROVE ServerType'
  <2>1. CASE StartPass(p) \/ Repoll(p)
    BY <2>1, <1>t DEF StartPass, Repoll, StartPoll, ServerType, Task
  <2>2. ASSUME NEW r \in Reply, Hear(p, r) PROVE ServerType'
    <3>1. Poll(kind, r) \in Verdict
      BY <2>2, <1>t, CanceledMeansOver, AdapterAssumption DEF Hear, PhaseOf, ServerType
    <3>2. task[p] \in Task
      BY <2>2, <1>t DEF Hear, ServerType, Idle
    <3> QED
      BY <2>2, <1>t, <3>1, <3>2 DEF Hear, ServerType, Task
  <2>3. CASE Apply(p)
    <3>1. task[p] \in Task
      BY <2>3, <1>t DEF Apply, ServerType, Idle
    <3>2. task' \in [Poller -> Task \cup {Idle}]
      BY <2>3, <1>t DEF Apply, ServerType
    <3>3. order' \in OrderDoc
      BY <2>3, <1>t, <3>1 DEF Apply, Complete, Close, ServerType, Task
    <3> QED
      BY <2>3, <1>t, <3>2, <3>3 DEF Apply, ServerType
  <2> QED
    BY <1>4, <2>1, <2>2, <2>3 DEF Polling
<1>5. CASE Serve
  <2>1. CASE Refuse
    BY <2>1, <1>t DEF Refuse, server, ServerType
  <2>2. CASE Cancel
    BY <2>2, <1>t DEF Cancel, Close, ServerType
  <2>3. CASE Resent
    BY <2>3, <1>t DEF Resent, ServerType
  <2>4. ASSUME NEW r \in Outcome, Resend(r) PROVE ServerType'
    BY <2>4, <1>t DEF Resend, server, ServerType
  <2>5. ASSUME NEW r \in Outcome, Reactivate(r) PROVE ServerType'
    <3>1. order.act + 1 \in Act
      BY <2>5, <1>t, <1>k, BoundAssumption DEF Reactivate, ServerType, Act
    <3>2. order' \in OrderDoc
      BY <2>5, <1>t, <3>1 DEF Reactivate, ServerType
    <3>3. rental' \in [act: Act, phase: Phase]
      BY <2>5, <1>t, <3>1 DEF Reactivate, ServerType
    <3> QED
      BY <2>5, <1>t, <3>2, <3>3 DEF Reactivate, ServerType
  <2> QED
    BY <1>5, <2>1, <2>2, <2>3, <2>4, <2>5 DEF Serve
<1>6. CASE Page \/ \E op \in {"cancel", "resend", "reactivate"} : Click(op)
  BY <1>6, <1>t
  DEF Page, PollOrder, ShowOrder, OnSuccess, ReadWallet, ShowWallet, Click, server, ServerType
<1> QED
  BY <1>1, <1>2, <1>3, <1>4, <1>5, <1>6 DEF Next

LEMMA PageTypeStep == Inv /\ Next => PageType'
<1> SUFFICES ASSUME Inv, Next PROVE PageType'
  OBVIOUS
<1>t. ServerType /\ PageType
  BY TypeParts DEF Inv
<1>k. Limit[kind] \in 1..MaxActivations
  BY <1>t, AdapterAssumption, BoundAssumption DEF ServerType
<1>v. OrderView \in View
  BY <1>t DEF ServerType, OrderDoc, OrderView, View
<1>1. CASE Reseller \/ Age \/ Expire \/ \E n \in Act : Push(n)
  BY <1>1, <1>t
  DEF Reseller, SmsArrives, RentalEnds, Age, Expire, Push, page, PageType, AnswerIsAnOrder
<1>2. CASE Credit
  <2>1. click' \in ClickType /\ AnswerIsAnOrder'
    BY <1>2, <1>t, <1>v, AnswerType DEF Credit, PageType
  <2> QED
    BY <2>1, <1>2, <1>t, OutdatedType DEF Credit, PageType
<1>3. CASE \E p \in Poller : Polling(p)
  BY <1>3, <1>t
  DEF Polling, StartPass, Repoll, StartPoll, Hear, Apply, page, PageType, AnswerIsAnOrder
<1>4. CASE Serve
  <2>1. CASE Refuse \/ Cancel
    BY <2>1, <1>t DEF Refuse, Cancel, NoClick, PageType, ClickType, AnswerIsAnOrder
  <2>2. CASE Resent
    <3>1. view' = view /\ get' = get /\ settled' = settled /\ header' = header
      BY <2>2 DEF Resent
    <3>2. click' \in ClickType /\ AnswerIsAnOrder'
      BY <2>2, <1>t, <1>v, AnswerType DEF Resent, PageType
    <3> QED
      BY <3>1, <3>2, <1>t DEF PageType
  <2>3. ASSUME NEW r \in Outcome, Resend(r) PROVE PageType'
    BY <2>3, <1>t DEF Resend, PageType, ClickType, AnswerIsAnOrder
  <2>4. ASSUME NEW r \in Outcome, Reactivate(r) PROVE PageType'
    <3>1. order.act + 1 \in Act
      BY <2>4, <1>t, <1>k, BoundAssumption DEF Reactivate, ServerType, OrderDoc, Act
    <3>2. [status |-> "waiting", act |-> order.act + 1, otp |-> "none"] \in View
      BY <3>1 DEF View, Status, Otp
    <3>3. click' \in ClickType /\ AnswerIsAnOrder'
      BY <2>4, <3>2, <1>t, AnswerType DEF Reactivate, PageType
    <3>4. view' = view /\ get' = get /\ settled' = settled /\ header' = Outdated(header)
      BY <2>4 DEF Reactivate
    <3> QED
      BY <3>3, <3>4, <1>t, OutdatedType DEF PageType
  <2> QED
    BY <1>4, <2>1, <2>2, <2>3, <2>4 DEF Serve
<1>5. CASE Page \/ \E op \in {"cancel", "resend", "reactivate"} : Click(op)
  <2>1. CASE PollOrder
    BY <2>1, <1>t, <1>v DEF PollOrder, PageType, AnswerIsAnOrder
  <2>2. CASE ShowOrder
    BY <2>2, <1>t DEF ShowOrder, Show, Invalidated, NoView, PageType, AnswerIsAnOrder
  <2>3. CASE OnSuccess
    <3>1. click.view \in View
      BY <2>3, <1>t DEF OnSuccess, PageType, AnswerIsAnOrder
    <3> QED
      BY <2>3, <3>1, <1>t
      DEF OnSuccess, Show, Refreshed, Invalidated, NoClick, PageType, ClickType, AnswerIsAnOrder
  <2>4. CASE ReadWallet \/ ShowWallet
    BY <2>4, <1>t DEF ReadWallet, ShowWallet, Reading, NoAnswer, PageType, AnswerIsAnOrder
  <2>5. ASSUME NEW op \in {"cancel", "resend", "reactivate"}, Click(op) PROVE PageType'
    BY <2>5, <1>t DEF Click, NoClick, PageType, ClickType, AnswerIsAnOrder
  <2> QED
    BY <1>5, <2>1, <2>2, <2>3, <2>4, <2>5 DEF Page
<1> QED
  BY <1>1, <1>2, <1>3, <1>4, <1>5 DEF Next

-----------------------------------------------------------------------------
(* What a step does that touches neither a poll nor a rental's identity.   *)
LEMMA OtherSteps ==
  ASSUME Inv, task' = task, order'.act = order.act, rental'.act = rental.act,
         rental'.phase = rental.phase \/ rental'.phase = "over"
                                      \/ rental.phase = "open"
  PROVE  (AsksWhatItRead /\ RentalIsTheOrders /\ CanceledIsOver)'
  BY DEF Inv, AsksWhatItRead, RentalIsTheOrders, CanceledIsOver

LEMMA RestStep == Inv /\ Next => (AsksWhatItRead /\ RentalIsTheOrders /\ CanceledIsOver)'
<1> SUFFICES ASSUME Inv, Next PROVE (AsksWhatItRead /\ RentalIsTheOrders /\ CanceledIsOver)'
  OBVIOUS
<1>t. ServerType
  BY TypeParts DEF Inv
<1>r. rental \in [act: Act, phase: Phase] /\ order \in OrderDoc
  BY <1>t DEF ServerType
<1>a. order.act \in Nat /\ rental.act \in Nat /\ order.act > 0
  BY <1>r DEF OrderDoc, Act
<1> USE DEF OrderDoc
<1>1. CASE Reseller
  BY <1>1, <1>r, OtherSteps DEF Reseller, SmsArrives, RentalEnds
<1>2. CASE Age \/ Expire \/ Credit
  BY <1>2, <1>r, OtherSteps DEF Age, Expire, Close, Credit
<1>3. CASE \E n \in Act : Push(n)
  BY <1>3, <1>r, OtherSteps DEF Push, Complete
<1>4. CASE Page \/ \E op \in {"cancel", "resend", "reactivate"} : Click(op)
  BY <1>4, <1>r, OtherSteps
  DEF Page, PollOrder, ShowOrder, OnSuccess, ReadWallet, ShowWallet, Click, server
<1>5. CASE Refuse \/ Cancel \/ Resent \/ \E r \in Outcome : Resend(r)
  BY <1>5, <1>r, OtherSteps DEF Refuse, Cancel, Close, Resent, Resend, server
<1>6. ASSUME NEW r \in Outcome, Reactivate(r)
      PROVE (AsksWhatItRead /\ RentalIsTheOrders /\ CanceledIsOver)'
  <2>1. task' = task /\ order'.act = order.act + 1
    BY <1>6, <1>r DEF Reactivate
  <2>2. rental' = rental \/ rental'.act = order'.act
    BY <1>6, <1>r, <2>1 DEF Reactivate
  <2>3. \A p \in Poller : task[p].act <= order.act /\ task[p].act \in Nat
    BY <1>t DEF Inv, AsksWhatItRead, ServerType, Task, Idle, Act
  <2>4. \A p \in Poller : task'[p].act < order'.act
    BY <2>1, <2>3, <1>a
  <2>5. (AsksWhatItRead /\ CanceledIsOver)'
    BY <2>4, <2>3, <2>1, <1>a DEF AsksWhatItRead, CanceledIsOver
  <2>6. RentalIsTheOrders'
    BY <2>1, <2>2, <1>a DEF Inv, RentalIsTheOrders
  <2> QED
    BY <2>5, <2>6
<1>7. ASSUME NEW p \in Poller, Polling(p)
      PROVE (AsksWhatItRead /\ RentalIsTheOrders /\ CanceledIsOver)'
  <2>t. task \in [Poller -> Task \cup {Idle}]
    BY <1>t DEF ServerType
  <2>1. ASSUME NEW r \in Reply, Hear(p, r)
        PROVE (AsksWhatItRead /\ RentalIsTheOrders /\ CanceledIsOver)'
    <3>1. order' = order /\ rental' = rental
      BY <2>1 DEF Hear
    <3>2. task[p] \in Task
      BY <2>1, <2>t DEF Hear, Idle
    <3>3. Poll(kind, r) = "canceled" => PhaseOf(task[p].act) = "over"
      BY <2>1, <1>t, CanceledMeansOver, AdapterAssumption DEF Hear, PhaseOf, ServerType, Phase
    <3>4. \/ task' = [task EXCEPT ![p] = Idle]
          \/ task' = [task EXCEPT ![p] = [task[p] EXCEPT !.step = "apply", !.res = Poll(kind, r)]]
      BY <2>1 DEF Hear
    <3>5. \A q \in Poller \ {p} : task'[q] = task[q]
      BY <3>4, <2>t
    <3>6. task'[p] = Idle \/ (task'[p].act = task[p].act /\ task'[p].res = Poll(kind, r))
      BY <3>4, <3>2, <2>t DEF Task
    <3>7. AsksWhatItRead'
      BY <3>1, <3>5, <3>6, <1>a DEF Inv, AsksWhatItRead, Idle
    <3>8. CanceledIsOver'
      <4> SUFFICES ASSUME NEW q \in Poller, task'[q].res = "canceled",
                          task'[q].act = order.act, rental.act = order.act
                   PROVE  rental.phase = "over"
        BY <3>1 DEF CanceledIsOver
      <4>1. CASE q # p
        BY <4>1, <3>5 DEF Inv, CanceledIsOver
      <4>2. CASE q = p
        <5>1. task[p].act = order.act /\ Poll(kind, r) = "canceled"
          BY <4>2, <3>6, <1>a DEF Idle
        <5> QED
          BY <5>1, <3>3 DEF PhaseOf
      <4> QED
        BY <4>1, <4>2
    <3> QED
      BY <3>1, <3>7, <3>8 DEF Inv, RentalIsTheOrders
  <2>2. CASE StartPass(p) \/ Repoll(p) \/ Apply(p)
    <3>1. rental' = rental /\ order'.act = order.act
      BY <2>2, <1>r DEF StartPass, Repoll, StartPoll, Apply, Complete, Close
    <3>2. \A q \in Poller \ {p} : task'[q] = task[q]
      BY <2>2, <2>t DEF StartPass, Repoll, StartPoll, Apply
    <3>3. /\ task'[p].res = "none"
          /\ task'[p] = Idle \/ task'[p].act = order.act
      BY <2>2, <2>t DEF StartPass, Repoll, StartPoll, Apply, Idle
    <3>4. AsksWhatItRead'
      BY <3>1, <3>2, <3>3, <1>a DEF Inv, AsksWhatItRead, Idle
    <3>5. CanceledIsOver'
      BY <3>1, <3>2, <3>3 DEF Inv, CanceledIsOver
    <3> QED
      BY <3>1, <3>4, <3>5 DEF Inv, RentalIsTheOrders
  <2> QED
    BY <1>7, <2>1, <2>2 DEF Polling
<1> QED
  BY <1>1, <1>2, <1>3, <1>4, <1>5, <1>6, <1>7 DEF Next, Serve

LEMMA InvStep == Inv /\ [Next]_vars => Inv'
<1> SUFFICES ASSUME Inv, [Next]_vars PROVE Inv'
  OBVIOUS
<1>1. CASE Next
  <2>1. (TypeOK /\ AnswerIsAnOrder)'
    BY <1>1, ServerTypeStep, PageTypeStep, TypeParts
    DEF TypeOK, AnswerIsAnOrder, ServerType, PageType, ClickType
  <2> QED
    BY <1>1, <2>1, RestStep DEF Inv
<1>2. CASE UNCHANGED vars
  BY <1>2 DEF vars, server, page, Inv, TypeOK, AnswerIsAnOrder, AsksWhatItRead,
              RentalIsTheOrders, CanceledIsOver, OrderDoc, View, Task, OrderView
<1> QED
  BY <1>1, <1>2

LEMMA InvHolds == Spec => []Inv
<1>1. Init /\ [][Next]_vars => []Inv
  BY InitInv, InvStep, PTL
<1> QED
  BY <1>1, PTL DEF Spec

-----------------------------------------------------------------------------
(* Every variable holds what it may, for any adapters and polls.           *)
THEOREM TypeCorrect == Spec => []TypeOK
<1>1. Inv => TypeOK
  BY DEF Inv
<1> QED
  BY <1>1, InvHolds, PTL

(* A poll of runPolling or of an admin refunds an order only if the number *)
(* it asked about is over at the reseller, whatever the adapter reads and  *)
(* however polls, webhooks and reactivations overlap.                      *)
THEOREM LiveNumbersKept == Spec => PollsKeepLiveNumbers
<1> DEFINE Keeps ==
      \A p \in Poller :
        task[p].step = "apply" /\ order.status = "waiting" /\ order'.status = "closed"
          /\ task'[p] = Idle /\ task[p].act = order.act
        => rental.act # order.act \/ rental.phase = "over"
<1>1. Inv /\ [Next]_vars => [Keeps]_vars
  <2> SUFFICES ASSUME Inv, Next, NEW p \in Poller,
                      task[p].step = "apply", order.status = "waiting",
                      order'.status = "closed", task'[p] = Idle, task[p].act = order.act
               PROVE  rental.act # order.act \/ rental.phase = "over"
    OBVIOUS
  <2>t. order \in OrderDoc /\ task \in [Poller -> Task \cup {Idle}]
    BY DEF Inv, TypeOK
  <2>1. task'[p] # task[p]
    BY DEF Idle
  <2>2. PICK q \in Poller : Polling(q)
    BY <2>1
    DEF Next, Reseller, SmsArrives, RentalEnds, Age, Expire, Credit, Push, Click, Serve, Refuse,
        Cancel, Resent, Resend, Reactivate, Page, PollOrder, ShowOrder, OnSuccess, ReadWallet,
        ShowWallet, server
  <2>3. \A o \in Poller \ {q} : task'[o] = task[o]
    BY <2>2, <2>t DEF Polling, StartPass, Repoll, StartPoll, Hear, Apply
  <2>4. q = p
    BY <2>1, <2>3
  <2>5. order' # order
    OBVIOUS
  <2>6. Apply(p)
    BY <2>2, <2>4, <2>5 DEF Polling, StartPass, Repoll, StartPoll, Hear
  <2>7. task[p].res = "canceled"
    BY <2>6, <2>t DEF Apply, Complete, OrderDoc, Status
  <2> QED
    BY <2>7 DEF Inv, CanceledIsOver
<1> QED
  BY <1>1, InvHolds, PTL DEF Spec, PollsKeepLiveNumbers
=============================================================================
