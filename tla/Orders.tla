------------------------------- MODULE Orders -------------------------------
(***************************************************************************)
(* The life of rented numbers paid from one customer's wallet:             *)
(* services/orders.service.ts, lib/orderLifecycle.ts, the polling and      *)
(* expiry workers of workers/index.ts and the admin order actions.         *)
(*                                                                         *)
(* A process p is one request handler or one worker pass.  It runs from    *)
(* await to await: what it has read so far is in task[p], and between two  *)
(* of its steps every other process, the provider and the clock may move.  *)
(* Orders of other customers share no state with these, so one wallet is   *)
(* enough; several orders share it.                                        *)
(***************************************************************************)
EXTENDS Integers, Sequences, FiniteSets

CONSTANTS
  Order,           \* identities of the orders that may be placed
  Proc,            \* concurrent request handlers and worker passes
  Price,           \* prices the catalogue may quote, in micro-USD
  Wallet,          \* the customer's balance before the first order
  MaxActivations,  \* bound: one rental plus the reactivations of an order
  Transactional,   \* supportsTransactions(): a replica set is available
  Faults           \* TRUE: a process may die, or lose its database, anywhere

ASSUME PriceAssumption == Price \subseteq Nat \ {0}
ASSUME WalletAssumption == Wallet \in Nat
ASSUME BoundAssumption == MaxActivations \in Nat \ {0}
ASSUME ModeAssumption == Transactional \in BOOLEAN /\ Faults \in BOOLEAN

VARIABLES
  row,       \* the Order document of each order
  messages,  \* the activations whose SmsMessage rows have been stored
  sold,      \* how many activations the provider has sold for each order
  line,      \* the provider's side of every reference it may hand out
  inbox,     \* inbound SMS webhooks sent: each may arrive late, or repeatedly
  balance,   \* User.balanceMicro
  booked,    \* references of the Transaction rows written for each order
  charged,   \* history: the amounts debited for each order
  refunded,  \* history: the amounts credited back for each order
  task       \* what each process is doing

orderVars == <<row, messages>>
provider == <<sold, line, inbox>>
money == <<balance, booked, charged, refunded>>
vars == <<orderVars, provider, money, task>>

Ref == 1..MaxActivations
Reference == {"order", "order_reactivate", "order_R", "order_reactivate_R"}
Terminal == {"expired", "canceled"}
Status == {"absent", "waiting", "completed"} \cup Terminal

(* `act' counts the activations the customer was given (history, not a     *)
(* field of the schema; the provider may have sold more, if a debit was    *)
(* refused); otp is the provider's activation whose code the document      *)
(* stores, or 0.  `clock' says where now lies: inside the provider's       *)
(* minimum hold (counted from createdAt), past it, or past expiresAt.      *)
OrderDoc ==
  [status: Status, price: Nat, ref: Ref, act: Nat, otp: Nat,
   finishedAt: BOOLEAN, reactivatingAt: BOOLEAN,
   clock: {"held", "open", "overdue"}]

NoDoc ==
  [status |-> "absent", price |-> 0, ref |-> 1, act |-> 0, otp |-> 0,
   finishedAt |-> FALSE, reactivatingAt |-> FALSE, clock |-> "held"]

Phase == {"unused", "live", "coded", "dropped", "released", "finished"}
Line == [phase: Phase, act: Nat]

CreateSteps == {"insert", "pay", "bookOrder", "undo", "giveback"}
ReactivateSteps == {"renew", "repay", "bookRenewal", "reopen", "unlock"}
RefundSteps == {"credit", "bookRefund", "release"}
Step ==
  CreateSteps \cup ReactivateSteps \cup RefundSteps \cup
  {"poll", "apply", "store", "claim", "finish", "close", "lock"}

Task ==
  [step: Step, order: Order, ref: Ref, code: Nat, amount: Nat,
   to: Terminal]
Idle == [step |-> "idle"]

At(p, s) == task[p].step = s
Begin(p, t) == task[p] = Idle /\ task' = [task EXCEPT ![p] = t]
Goto(p, s) == task' = [task EXCEPT ![p].step = s]
Return(p) == task' = [task EXCEPT ![p] = Idle]

(* The part of the document a process keeps when it has just read it.      *)
Snapshot(o, s) ==
  [step |-> s, order |-> o, ref |-> row[o].ref, code |-> 0, amount |-> 0,
   to |-> "canceled"]

-----------------------------------------------------------------------------
(* Bugs the properties must notice, each in place of one definition below; *)
(* no behaviour of Spec uses them.                                         *)

(* The balance is not compared with the amount.                            *)
DebitUnguarded(p, o, c, next) ==
  /\ balance' = balance - c
  /\ charged' = [charged EXCEPT ![o] = Append(@, c)]
  /\ Goto(p, next)
  /\ UNCHANGED <<orderVars, provider, booked, refunded>>

(* A late code is applied whatever has become of the order.                *)
ApplyOtpUnguarded(p) ==
  /\ At(p, "apply")
  /\ row' = [row EXCEPT ![task[p].order].status = "completed",
                        ![task[p].order].otp = task[p].code]
  /\ Goto(p, "store")
  /\ UNCHANGED <<messages, provider, money>>

(* The code is applied but not kept in the history.                        *)
ApplyOtpOnly(p) ==
  /\ At(p, "apply")
  /\ row' = [row EXCEPT ![task[p].order].status = "completed",
                        ![task[p].order].otp = task[p].code]
  /\ Return(p)
  /\ UNCHANGED <<messages, provider, money>>

(* The expiry query compares the wrong way round.                          *)
StartExpiryEarly(p, o) ==
  /\ row[o].status = "waiting" /\ row[o].clock # "overdue"
  /\ Begin(p, [Snapshot(o, "claim") EXCEPT !.to = "expired"])
  /\ UNCHANGED <<orderVars, provider, money>>

(* The refund is not claimed: whoever read the order `waiting' goes on.    *)
ClaimUnguarded(p) ==
  LET o == task[p].order IN
  /\ At(p, "claim")
  /\ row' = [row EXCEPT ![o].status = task[p].to]
  /\ task' = [task EXCEPT ![p].step = "credit", ![p].amount = row[o].price]
  /\ UNCHANGED <<messages, provider, money>>

(* A failing credit is swallowed.                                          *)
CreditBestEffort(p) ==
  /\ At(p, "credit")
  /\ Goto(p, "release")
  /\ UNCHANGED <<orderVars, provider, money>>

(* The lock is set without having been looked at.                          *)
ClaimReactivationUnlocked(p) ==
  LET o == task[p].order IN
  /\ At(p, "lock") /\ row[o].status = "completed"
  /\ row' = [row EXCEPT ![o].reactivatingAt = TRUE]
  /\ task' = [task EXCEPT ![p].step = "renew", ![p].ref = row[o].ref]
  /\ UNCHANGED <<messages, provider, money>>

(* The reactivation is not paid for.                                       *)
RenewFree(p, c) ==
  LET o == task[p].order  n == sold[o] + 1 IN
  /\ At(p, "renew") /\ sold[o] < MaxActivations
  /\ sold' = [sold EXCEPT ![o] = n]
  /\ task' = [task EXCEPT ![p].step = "reopen", ![p].code = n]
  /\ UNCHANGED <<orderVars, line, inbox, money>>

(* The catch block forgets the lock.                                       *)
UnlockForgotten(p) ==
  /\ At(p, "unlock")
  /\ Return(p)
  /\ UNCHANGED <<orderVars, provider, money>>

-----------------------------------------------------------------------------
(* createOrder.  The balance check uses the user document loaded with the  *)
(* request; the number is rented before anything is written.               *)
Rent(p, o, c) ==
  /\ sold[o] = 0
  /\ c <= balance
  /\ Begin(p, [Snapshot(o, "insert") EXCEPT !.ref = 1, !.amount = c])
  /\ sold' = [sold EXCEPT ![o] = 1]
  /\ line' = [line EXCEPT ![o][1] = [phase |-> "live", act |-> 1]]
  /\ UNCHANGED <<orderVars, inbox, money>>

NewDoc(c) ==
  [NoDoc EXCEPT !.status = "waiting", !.price = c, !.ref = 1, !.act = 1]

(* Order.create and debit in one transaction.                              *)
InsertPaid(p) ==
  LET o == task[p].order  c == task[p].amount IN
  /\ At(p, "insert") /\ Transactional
  /\ c <= balance
  /\ row' = [row EXCEPT ![o] = NewDoc(c)]
  /\ balance' = balance - c
  /\ charged' = [charged EXCEPT ![o] = Append(@, c)]
  /\ booked' = [booked EXCEPT ![o] = @ \cup {"order"}]
  /\ Return(p)
  /\ UNCHANGED <<messages, provider, refunded>>

(* The transaction rolls back, or Order.create fails without one: nothing  *)
(* was written and the number goes back.                                   *)
InsertFails(p) ==
  /\ At(p, "insert")
  /\ (Transactional /\ task[p].amount > balance) \/ Faults
  /\ Goto(p, "giveback")
  /\ UNCHANGED <<orderVars, provider, money>>

(* Without a replica set the order is visible before it is paid for.       *)
Insert(p) ==
  /\ At(p, "insert") /\ ~Transactional
  /\ row' = [row EXCEPT ![task[p].order] = NewDoc(task[p].amount)]
  /\ Goto(p, "pay")
  /\ UNCHANGED <<messages, provider, money>>

(* debit: a guarded decrement, then a Transaction row in a second write.   *)
DebitFor(p, o, c, next) ==
  /\ c <= balance
  /\ balance' = balance - c
  /\ charged' = [charged EXCEPT ![o] = Append(@, c)]
  /\ Goto(p, next)
  /\ UNCHANGED <<orderVars, provider, booked, refunded>>

Book(o, reference) ==
  /\ booked' = [booked EXCEPT ![o] = @ \cup {reference}]
  /\ UNCHANGED <<balance, charged, refunded>>

Pay(p) ==
  At(p, "pay") /\ DebitFor(p, task[p].order, task[p].amount, "bookOrder")

BookOrder(p) ==
  /\ At(p, "bookOrder")
  /\ Book(task[p].order, "order")
  /\ Return(p)
  /\ UNCHANGED <<orderVars, provider>>

PayFails(p) ==
  /\ \/ At(p, "pay") /\ (task[p].amount > balance \/ Faults)
     \/ At(p, "bookOrder") /\ Faults
  /\ Goto(p, "undo")
  /\ UNCHANGED <<orderVars, provider, money>>

(* doc.deleteOne(): by _id, whatever the document has become.              *)
Undo(p) ==
  /\ At(p, "undo")
  /\ row' = [row EXCEPT ![task[p].order] = NoDoc]
  /\ Goto(p, "giveback")
  /\ UNCHANGED <<messages, provider, money>>

(* provider.release, best effort: the provider may refuse or not answer.   *)
ReleaseLine(p) ==
  LET o == task[p].order  r == task[p].ref IN
  /\ line' = [line EXCEPT ![o][r].phase = "released"] \/ UNCHANGED line
  /\ Return(p)
  /\ UNCHANGED <<orderVars, sold, inbox, money>>

GiveBack(p) == At(p, "giveback") /\ ReleaseLine(p)

-----------------------------------------------------------------------------
(* pollOrderOnce, from the worker or an admin's re-poll: the document read *)
(* is acted on after the provider has answered.                            *)
StartPoll(p, o) ==
  /\ row[o].status = "waiting"
  /\ Begin(p, Snapshot(o, "poll"))
  /\ UNCHANGED <<orderVars, provider, money>>

(* received, canceled, or still waiting (also: the request failed).  What  *)
(* a provider says of a line we closed ourselves differs between them.     *)
PollAnswer(p) ==
  LET l == line[task[p].order][task[p].ref] IN
  /\ At(p, "poll")
  /\ \/ l.phase = "coded"
        /\ task' = [task EXCEPT ![p].step = "apply", ![p].code = l.act]
     \/ l.phase \in {"dropped", "released", "finished"}
        /\ task' = [task EXCEPT ![p].step = "claim", ![p].to = "expired"]
     \/ Return(p)
  /\ UNCHANGED <<orderVars, provider, money>>

(* The inbound SMS webhook: the order is found by providerRef.             *)
StartDeliver(p, o) ==
  \E m \in inbox :
    /\ m.order = o /\ row[o].ref = m.ref
    /\ row[o].status = "waiting"
    /\ Begin(p, [Snapshot(o, "apply") EXCEPT !.code = m.act])
    /\ UNCHANGED <<orderVars, provider, money>>

(* applyOtpToOrder: guarded on the status alone.  The text may hold no     *)
(* code the parser recognises, then the stored code is null; with no text  *)
(* either, there is nothing to keep in the history.                        *)
ApplyOtp(p) ==
  LET o == task[p].order IN
  /\ At(p, "apply")
  /\ IF row[o].status = "waiting"
     THEN \E code \in {task[p].code, 0} :
            /\ row' = [row EXCEPT ![o].status = "completed", ![o].otp = code]
            /\ \/ Goto(p, "store")
               \/ code = 0 /\ Return(p)
     ELSE UNCHANGED row /\ Return(p)
  /\ UNCHANGED <<messages, provider, money>>

(* SmsMessage.insertMany.                                                  *)
StoreMessages(p) ==
  LET o == task[p].order IN
  /\ At(p, "store")
  /\ messages' = [messages EXCEPT ![o] = @ \cup {task[p].code}]
  /\ Return(p)
  /\ UNCHANGED <<row, provider, money>>

-----------------------------------------------------------------------------
(* runExpiry's query; the claim comes a step later.                        *)
StartExpiry(p, o) ==
  /\ row[o].status = "waiting" /\ row[o].clock = "overdue"
  /\ Begin(p, [Snapshot(o, "claim") EXCEPT !.to = "expired"])
  /\ UNCHANGED <<orderVars, provider, money>>

(* cancelOrder: the customer waits out the hold, an admin does not.        *)
StartCancel(p, o) ==
  /\ row[o].status = "waiting" /\ row[o].otp = 0
  /\ row[o].clock # "held"
  /\ Begin(p, Snapshot(o, "claim"))
  /\ UNCHANGED <<orderVars, provider, money>>

StartAdminCancel(p, o) ==
  /\ row[o].status = "waiting"
  /\ Begin(p, Snapshot(o, "claim"))
  /\ UNCHANGED <<orderVars, provider, money>>

(* refundWaitingOrder: claim the order, credit, book, release the number.  *)
(* From the claim on the process works with the document it claimed.       *)
ClaimRefund(p) ==
  LET o == task[p].order IN
  /\ At(p, "claim")
  /\ IF row[o].status = "waiting"
     THEN /\ row' = [row EXCEPT ![o].status = task[p].to]
          /\ task' = [task EXCEPT ![p].step = "credit",
                                  ![p].ref = row[o].ref,
                                  ![p].amount = row[o].price]
     ELSE UNCHANGED row /\ Return(p)
  /\ UNCHANGED <<messages, provider, money>>

CreditRefund(p) ==
  LET o == task[p].order  c == task[p].amount IN
  /\ At(p, "credit")
  /\ balance' = balance + c
  /\ refunded' = [refunded EXCEPT ![o] = Append(@, c)]
  /\ Goto(p, "bookRefund")
  /\ UNCHANGED <<orderVars, provider, booked, charged>>

RefundReference(o) ==
  IF "order_reactivate" \in booked[o] THEN "order_reactivate_R" ELSE "order_R"

BookRefund(p) ==
  LET o == task[p].order IN
  /\ At(p, "bookRefund")
  /\ Book(o, RefundReference(o))
  /\ Goto(p, "release")
  /\ UNCHANGED <<orderVars, provider>>

ReleaseNumber(p) == At(p, "release") /\ ReleaseLine(p)

-----------------------------------------------------------------------------
(* finishOrder: a read, an unconditional save of finishedAt, then the      *)
(* provider is told about the reference that was read.                     *)
StartFinish(p, o) ==
  /\ row[o].status = "completed" /\ ~row[o].finishedAt
  /\ Begin(p, Snapshot(o, "finish"))
  /\ UNCHANGED <<orderVars, provider, money>>

SaveFinish(p) ==
  LET o == task[p].order IN
  /\ At(p, "finish")
  /\ IF row[o].status # "absent"
     THEN row' = [row EXCEPT ![o].finishedAt = TRUE] /\ Goto(p, "close")
     ELSE UNCHANGED row /\ Return(p)
  /\ UNCHANGED <<messages, provider, money>>

CloseLine(p) ==
  LET o == task[p].order  r == task[p].ref IN
  /\ At(p, "close")
  /\ line' = [line EXCEPT ![o][r].phase = "finished"] \/ UNCHANGED line
  /\ Return(p)
  /\ UNCHANGED <<orderVars, sold, inbox, money>>

-----------------------------------------------------------------------------
(* reactivateOrder.  The user document comes with the request, so the      *)
(* balance in it (`amount' here) is older than the claim of the lock.      *)
StartReactivate(p, o) ==
  /\ row[o].status # "absent"
  /\ Begin(p, [Snapshot(o, "lock") EXCEPT !.amount = balance])
  /\ UNCHANGED <<orderVars, provider, money>>

ClaimReactivation(p) ==
  LET o == task[p].order IN
  /\ At(p, "lock")
  /\ IF row[o].status = "completed" /\ ~row[o].reactivatingAt
     THEN /\ row' = [row EXCEPT ![o].reactivatingAt = TRUE]
          /\ task' = [task EXCEPT ![p].step = "renew", ![p].ref = row[o].ref]
     ELSE UNCHANGED row /\ Return(p)
  /\ UNCHANGED <<messages, provider, money>>

(* Today's price c against the balance seen, then provider.reactivate: it  *)
(* answers with the reference it was given or with a new one.              *)
Renew(p, c) ==
  LET o == task[p].order  n == sold[o] + 1 IN
  /\ At(p, "renew")
  /\ c <= task[p].amount
  /\ sold[o] < MaxActivations
  /\ sold' = [sold EXCEPT ![o] = n]
  /\ \E r \in {task[p].ref, n} :
       /\ line' = [line EXCEPT ![o][r] = [phase |-> "live", act |-> n]]
       /\ task' = [task EXCEPT ![p].step = "repay", ![p].ref = r,
                               ![p].code = n, ![p].amount = c]
  /\ UNCHANGED <<orderVars, inbox, money>>

Repay(p) ==
  At(p, "repay") /\ DebitFor(p, task[p].order, task[p].amount, "bookRenewal")

BookRenewal(p) ==
  /\ At(p, "bookRenewal")
  /\ Book(task[p].order, "order_reactivate")
  /\ Goto(p, "reopen")
  /\ UNCHANGED <<orderVars, provider>>

(* The price of the creation stays in the document.                        *)
Reopened(d, r) ==
  [d EXCEPT !.status = "waiting", !.otp = 0, !.finishedAt = FALSE, !.ref = r,
            !.act = @ + 1, !.reactivatingAt = FALSE,
            !.clock = IF @ = "held" THEN "held" ELSE "open"]

Reopen(p) ==
  LET o == task[p].order IN
  /\ At(p, "reopen")
  /\ row' = IF row[o].status = "absent" THEN row
            ELSE [row EXCEPT ![o] = Reopened(@, task[p].ref)]
  /\ Return(p)
  /\ UNCHANGED <<messages, provider, money>>

(* No offer, no balance, or the provider declines; a debit refused; a      *)
(* database error: the handler's catch block drops the lock.               *)
ReactivationFails(p) ==
  /\ \/ At(p, "renew")
     \/ At(p, "repay") /\ (task[p].amount > balance \/ Faults)
     \/ task[p].step \in {"bookRenewal", "reopen"} /\ Faults
  /\ Goto(p, "unlock")
  /\ UNCHANGED <<orderVars, provider, money>>

Unlock(p) ==
  LET o == task[p].order IN
  /\ At(p, "unlock")
  /\ row' = [row EXCEPT ![o].reactivatingAt = FALSE]
  /\ Return(p)
  /\ UNCHANGED <<messages, provider, money>>

-----------------------------------------------------------------------------
(* The process dies, or an await throws where nothing catches it.          *)
Crash(p) ==
  /\ Faults /\ task[p] # Idle
  /\ Return(p)
  /\ UNCHANGED <<orderVars, provider, money>>

(* The SMS arrives upstream, and the provider pushes it if it can.         *)
SmsArrives(o, r) ==
  /\ line[o][r].phase = "live"
  /\ line' = [line EXCEPT ![o][r].phase = "coded"]
  /\ inbox' = inbox \cup {[order |-> o, ref |-> r, act |-> line[o][r].act]}
  /\ UNCHANGED <<orderVars, sold, money, task>>

(* The provider cancels the activation on its own.                         *)
LineDrops(o, r) ==
  /\ line[o][r].phase = "live"
  /\ line' = [line EXCEPT ![o][r].phase = "dropped"]
  /\ UNCHANGED <<orderVars, sold, inbox, money, task>>

(* Time only matters while the order waits.                                *)
Tick(o) ==
  /\ row[o].status = "waiting" /\ row[o].clock # "overdue"
  /\ row' = [row EXCEPT ![o].clock = IF @ = "held" THEN "open" ELSE "overdue"]
  /\ UNCHANGED <<messages, provider, money, task>>

-----------------------------------------------------------------------------
Init ==
  /\ row = [o \in Order |-> NoDoc]
  /\ messages = [o \in Order |-> {}]
  /\ sold = [o \in Order |-> 0]
  /\ line = [o \in Order |-> [r \in Ref |-> [phase |-> "unused", act |-> 0]]]
  /\ inbox = {}
  /\ balance = Wallet
  /\ booked = [o \in Order |-> {}]
  /\ charged = [o \in Order |-> <<>>]
  /\ refunded = [o \in Order |-> <<>>]
  /\ task = [p \in Proc |-> Idle]

Start(p, o) ==
  \/ \E c \in Price : Rent(p, o, c)
  \/ StartPoll(p, o) \/ StartDeliver(p, o) \/ StartExpiry(p, o)
  \/ StartCancel(p, o) \/ StartAdminCancel(p, o)
  \/ StartFinish(p, o) \/ StartReactivate(p, o)

Create(p) ==
  InsertPaid(p) \/ InsertFails(p) \/ Insert(p) \/ Pay(p) \/ BookOrder(p)
    \/ PayFails(p) \/ Undo(p) \/ GiveBack(p)

Deliver(p) == PollAnswer(p) \/ ApplyOtp(p) \/ StoreMessages(p)

Refund(p) ==
  ClaimRefund(p) \/ CreditRefund(p) \/ BookRefund(p) \/ ReleaseNumber(p)

Finish(p) == SaveFinish(p) \/ CloseLine(p)

Reactivate(p) ==
  \/ ClaimReactivation(p)
  \/ \E c \in Price : Renew(p, c)
  \/ Repay(p) \/ BookRenewal(p) \/ Reopen(p)
  \/ ReactivationFails(p) \/ Unlock(p)

Continue(p) ==
  Create(p) \/ Deliver(p) \/ Refund(p) \/ Finish(p) \/ Reactivate(p)

World(o) ==
  Tick(o) \/ \E r \in Ref : SmsArrives(o, r) \/ LineDrops(o, r)

Next ==
  \/ \E p \in Proc : (\E o \in Order : Start(p, o)) \/ Continue(p) \/ Crash(p)
  \/ \E o \in Order : World(o)

Spec == Init /\ [][Next]_vars

-----------------------------------------------------------------------------
(* What each variable may hold.                                            *)
TypeOK ==
  /\ row \in [Order -> OrderDoc]
  /\ messages \in [Order -> SUBSET Nat]
  /\ sold \in [Order -> 0..MaxActivations]
  /\ line \in [Order -> [Ref -> Line]]
  /\ inbox \subseteq [order: Order, ref: Ref, act: Nat]
  /\ balance \in Nat
  /\ booked \in [Order -> SUBSET Reference]
  /\ charged \in [Order -> Seq(Price)]
  /\ refunded \in [Order -> Seq(Nat)]
  /\ task \in [Proc -> Task \cup {Idle}]

On(p, o, steps) == task[p].step \in steps /\ task[p].order = o

(* refundWaitingOrder is "guarded + idempotent": however many workers,     *)
(* customers and admins try to close an order, at most one of them is ever *)
(* on its way to credit it, and never after the credit has been made.      *)
RefundAtMostOnce ==
  \A o \in Order :
    /\ Len(refunded[o]) <= 1
    /\ \A p \in Proc : On(p, o, {"credit"}) =>
         refunded[o] = <<>> /\ \A q \in Proc \ {p} : ~On(q, o, {"credit"})

(* An order that has been refunded, or is being refunded, serves no longer:*)
(* it neither waits for a code nor has one.                                *)
RefundedIsClosed ==
  \A o \in Order :
    refunded[o] # <<>> \/ (\E p \in Proc : On(p, o, {"credit"}))
      => row[o].status \notin {"waiting", "completed"}

(* The lock of reactivateOrder: one process at a time buys another code    *)
(* for an order, the lock stays set while it does, and nobody takes the    *)
(* order out of `completed' under it (but a failed creation may delete it).*)
ReactivationExclusive ==
  \A p \in Proc, o \in Order : On(p, o, ReactivateSteps) =>
    /\ \A q \in Proc \ {p} : ~On(q, o, ReactivateSteps)
    /\ \/ row[o].status = "completed" /\ row[o].reactivatingAt
       \/ row[o].status = "absent"

(* Every activation the customer gets was paid for exactly once: the one   *)
(* on the document and, during a reactivation, the one about to be.        *)
ChargedPerActivation ==
  \A o \in Order :
    Len(charged[o]) = row[o].act +
      IF \E p \in Proc : On(p, o, {"bookRenewal", "reopen"}) THEN 1 ELSE 0

(* A code shown on an order is also in its message history, or on its way  *)
(* there: reactivation wipes the former and promises to keep the latter.   *)
CodeIsInHistory ==
  \A o \in Order : row[o].otp # 0 =>
    \/ row[o].otp \in messages[o]
    \/ \E p \in Proc : On(p, o, {"store"}) /\ task[p].code = row[o].otp

(* What one step may make of an order's status.                            *)
StatusStep ==
  \A o \in Order :
    /\ row[o].status \in Terminal => row'[o].status = row[o].status
    /\ row[o].status = "completed" =>
         \/ row'[o].status = "completed" /\ row'[o].otp = row[o].otp
         \/ /\ row'[o].status = "waiting" /\ row'[o].act > row[o].act
            /\ Len(charged[o]) = row'[o].act

(* Expired and canceled are final; a completed order is only reopened by a *)
(* reactivation that has been paid; a delivered code is never replaced.    *)
StatusFlow == [][StatusStep]_vars

-----------------------------------------------------------------------------
(* Handlers run on while their process lives, and the timers of            *)
(* startWorkers give every overdue order its turn, however busy the others *)
(* are.  Nothing makes customers, admins or providers act.                 *)
LiveSpec ==
  /\ Spec
  /\ \A p \in Proc : WF_vars(Continue(p))
  /\ \A o \in Order : SF_vars(\E p \in Proc : StartExpiry(p, o))

(* "If no SMS arrives the order auto-expires and refunds."                 *)
OverdueIsClosed ==
  \A o \in Order :
    row[o].status = "waiting" /\ row[o].clock = "overdue"
      ~> row[o].status # "waiting"

(* Expired and canceled both end in a refund.                              *)
RefundArrives ==
  \A o \in Order : row[o].status \in Terminal ~> refunded[o] # <<>>

(* reactivatingAt is "cleared whether the attempt succeeds or fails".      *)
LockIsReleased ==
  \A o \in Order : row[o].reactivatingAt ~> ~row[o].reactivatingAt

-----------------------------------------------------------------------------
(* What comments, docs and tests say and the code does not keep.           *)

(* A refund reverses the charge it is paired with: after a reactivation,   *)
(* the reactivation's.                                                     *)
RefundReversesItsCharge ==
  \A o \in Order : refunded[o] # <<>> =>
    refunded[o][1] = charged[o][Len(charged[o])]
=============================================================================
