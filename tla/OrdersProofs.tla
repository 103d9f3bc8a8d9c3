---------------------------- MODULE OrdersProofs ----------------------------
(***************************************************************************)
(* Proofs about Orders, for every number of orders and processes and every *)
(* set of prices.                                                          *)
(*                                                                         *)
(* With or without transactions, and with processes that may die anywhere: *)
(* the type invariant, and the three guards the code relies on,            *)
(* RefundAtMostOnce, RefundedIsClosed and ReactivationExclusive.  They are *)
(* inductive together with what makes an order new: nothing else works on  *)
(* an order before its document is written (InsertIsFirst), and no order   *)
(* is rented for twice (FreshOrder).  Most actions leave all that these    *)
(* speak of alone: they are shown to be Quiet, once, and Quiet steps are   *)
(* shown to preserve the invariant, once.                                  *)
(*                                                                         *)
(* Without deaths: CodeIsInHistory.                                        *)
(*                                                                         *)
(* Without deaths and with transactions: ChargedPerActivation, StatusFlow  *)
(* and the refinement of Purchase, all three along one case analysis.  Six *)
(* actions are Seen by the customer or move money, the others are Unseen.  *)
(***************************************************************************)
EXTENDS OrdersRefinement, TLAPS, FiniteSetTheorems

(* A debit is for a price of the catalogue.                                *)
AmountIsPrice ==
  \A p \in Proc : task[p].step \in {"insert", "pay", "repay"} =>
    task[p].amount \in Price

TypeInv == TypeOK /\ AmountIsPrice

(* An order no number was rented for: nobody has heard of it.              *)
FreshOrder ==
  \A o \in Order : sold[o] = 0 =>
    /\ row[o].status = "absent"
    /\ refunded[o] = <<>>
    /\ \A p \in Proc : task[p] = Idle \/ task[p].order # o

(* Whoever is about to write an order's document is alone with it.         *)
InsertIsFirst ==
  \A p \in Proc, o \in Order : On(p, o, {"insert"}) =>
    /\ row[o].status = "absent"
    /\ refunded[o] = <<>>
    /\ \A q \in Proc \ {p} : task[q] = Idle \/ task[q].order # o

Inv ==
  /\ TypeInv
  /\ FreshOrder
  /\ InsertIsFirst
  /\ RefundAtMostOnce
  /\ RefundedIsClosed
  /\ ReactivationExclusive

-----------------------------------------------------------------------------
(* Steps that the invariant does not notice.                               *)

OnlyTask(p) == \A q \in Proc \ {p} : task'[q] = task[q]
OnlyRow(o) == \A x \in Order \ {o} : row'[x] = row[x]

SameRows ==
  \A o \in Order :
    /\ row'[o].status = row[o].status
    /\ row'[o].reactivatingAt = row[o].reactivatingAt

(* A process stops, or goes on with an order that exists or that it was    *)
(* already working on, and neither to credit it nor past its lock.         *)
QuietMove(p) ==
  \/ task'[p] = Idle
  \/ /\ task'[p].step \notin {"insert", "credit"}
     /\ task'[p].step \in ReactivateSteps =>
          /\ task[p].step \in ReactivateSteps
          /\ task'[p].order = task[p].order
     /\ \/ row[task'[p].order].status # "absent"
        \/ task[p] # Idle /\ task'[p].order = task[p].order

Quiet ==
  /\ SameRows
  /\ refunded' = refunded
  /\ \A o \in Order : sold'[o] = 0 => sold[o] = 0
  /\ \A p \in Proc : task'[p] = task[p] \/ QuietMove(p)

(* A quiet step preserves the invariant.                                   *)
LEMMA QuietStep ==
  ASSUME Inv, TypeInv', Quiet
  PROVE  Inv'
<1>1. FreshOrder'
  BY DEF Inv, Quiet, SameRows, QuietMove, FreshOrder
<1>2. InsertIsFirst'
  BY DEF Inv, Quiet, SameRows, QuietMove, InsertIsFirst, On, Idle
<1>3. RefundAtMostOnce'
  BY DEF Inv, Quiet, QuietMove, RefundAtMostOnce, On, Idle
<1>4. RefundedIsClosed'
  BY DEF Inv, Quiet, SameRows, QuietMove, RefundedIsClosed, On, Idle
<1>5. ReactivationExclusive'
  <2> SUFFICES ASSUME NEW p \in Proc, NEW o \in Order, On(p, o, ReactivateSteps)'
               PROVE  /\ \A q \in Proc \ {p} : ~On(q, o, ReactivateSteps)'
                      /\ \/ row'[o].status = "completed" /\ row'[o].reactivatingAt
                         \/ row'[o].status = "absent"
    BY DEF ReactivationExclusive, On
  <2>1. \A q \in Proc : On(q, o, ReactivateSteps)' => On(q, o, ReactivateSteps)
    BY DEF Quiet, QuietMove, On, Idle, ReactivateSteps
  <2> QED
    BY <2>1 DEF Inv, ReactivationExclusive, Quiet, SameRows
<1> QED
  BY <1>1, <1>2, <1>3, <1>4, <1>5 DEF Inv

-----------------------------------------------------------------------------
(* What the helpers of Orders do to the types.                             *)

(* What a process that is not idle has in hand.                            *)
LEMMA Busy ==
  ASSUME TypeOK, NEW p \in Proc, task[p].step # "idle"
  PROVE  /\ task[p] \in Task
         /\ task[p].order \in Order
         /\ task[p].ref \in Ref
         /\ task[p].code \in Nat
         /\ task[p].amount \in Nat
         /\ task[p].to \in Terminal
<1>1. task[p] \in Task
  BY DEF TypeOK, Idle
<1> QED
  BY <1>1 DEF Task

(* What the document of an order holds.                                    *)
LEMMA DocFields ==
  ASSUME TypeOK, NEW o \in Order
  PROVE  /\ row[o] \in OrderDoc
         /\ row[o].status \in Status
         /\ row[o].price \in Nat
         /\ row[o].ref \in Ref
         /\ row[o].act \in Nat
         /\ row[o].otp \in Nat
  BY DEF TypeOK, OrderDoc

(* A process takes up another task.                                        *)
LEMMA SetTask ==
  ASSUME TypeOK, NEW p \in Proc, NEW t \in Task \cup {Idle},
         task' = [task EXCEPT ![p] = t]
  PROVE  task' \in [Proc -> Task \cup {Idle}] /\ task'[p] = t /\ OnlyTask(p)
  BY DEF TypeOK, OnlyTask

(* A process goes on to another step of its task.                          *)
LEMMA GotoTask ==
  ASSUME TypeOK, NEW p \in Proc, task[p].step # "idle", NEW s \in Step, Goto(p, s)
  PROVE  /\ task' \in [Proc -> Task \cup {Idle}]
         /\ task'[p].step = s
         /\ task'[p].order = task[p].order
         /\ task'[p].amount = task[p].amount
         /\ OnlyTask(p)
<1> DEFINE t == [task[p] EXCEPT !.step = s]
<1>1. /\ t \in Task /\ t.step = s
      /\ t.order = task[p].order /\ t.amount = task[p].amount
  BY Busy DEF Task
<1>2. task' = [task EXCEPT ![p] = t]
  BY DEF Goto, TypeOK
<1> HIDE DEF t
<1> QED
  BY <1>1, <1>2, SetTask

(* A process is done.                                                      *)
LEMMA ReturnTask ==
  ASSUME TypeOK, NEW p \in Proc, Return(p)
  PROVE  task' \in [Proc -> Task \cup {Idle}] /\ task'[p] = Idle /\ OnlyTask(p)
  BY SetTask DEF Return

(* A document is replaced.                                                 *)
LEMMA SetRow ==
  ASSUME TypeOK, NEW o \in Order, NEW d \in OrderDoc, row' = [row EXCEPT ![o] = d]
  PROVE  row' \in [Order -> OrderDoc] /\ row'[o] = d /\ OnlyRow(o)
  BY DEF TypeOK, OnlyRow

(* A step keeps AmountIsPrice if the process that moves does.              *)
LEMMA AmountStep ==
  ASSUME TypeInv, NEW p \in Proc, OnlyTask(p),
         task'[p].step \in {"insert", "pay", "repay"} => task'[p].amount \in Price
  PROVE  AmountIsPrice'
  BY DEF TypeInv, AmountIsPrice, OnlyTask

(* A step of p that leaves the documents alone.                            *)
LEMMA SameRow ==
  ASSUME UNCHANGED row
  PROVE  SameRows
  BY DEF SameRows

(* One quiet move, and the other processes stand still.                    *)
LEMMA QuietTask ==
  ASSUME NEW p \in Proc, OnlyTask(p), QuietMove(p)
  PROVE  \A q \in Proc : task'[q] = task[q] \/ QuietMove(q)
  BY DEF OnlyTask

(* To be done is quiet.                                                    *)
LEMMA QuietReturn ==
  ASSUME TypeInv, NEW p \in Proc, Return(p)
  PROVE  /\ task' \in [Proc -> Task \cup {Idle}]
         /\ AmountIsPrice'
         /\ \A q \in Proc : task'[q] = task[q] \/ QuietMove(q)
<1>1. task' \in [Proc -> Task \cup {Idle}] /\ task'[p] = Idle /\ OnlyTask(p)
  BY ReturnTask DEF TypeInv
<1>2. AmountIsPrice'
  BY <1>1, AmountStep DEF Idle
<1> QED
  BY <1>1, <1>2, QuietTask DEF QuietMove

(* On to a step that is neither a payment nor a critical one.              *)
LEMMA QuietGoto ==
  ASSUME TypeInv, NEW p \in Proc, task[p].step # "idle",
         NEW s \in Step \ {"insert", "pay", "repay", "credit"}, Goto(p, s),
         s \in ReactivateSteps => task[p].step \in ReactivateSteps
  PROVE  /\ task' \in [Proc -> Task \cup {Idle}]
         /\ AmountIsPrice'
         /\ \A q \in Proc : task'[q] = task[q] \/ QuietMove(q)
<1>1. /\ task' \in [Proc -> Task \cup {Idle}]
      /\ task'[p].step = s
      /\ task'[p].order = task[p].order
      /\ OnlyTask(p)
  BY GotoTask DEF TypeInv
<1>2. AmountIsPrice'
  BY <1>1, AmountStep
<1>3. QuietMove(p)
  BY <1>1 DEF QuietMove, Idle
<1> QED
  BY <1>1, <1>2, <1>3, QuietTask

(* The beginning of anything but a creation.                               *)
LEMMA QuietBegin ==
  ASSUME TypeInv, NEW p \in Proc, NEW o \in Order, row[o].status # "absent",
         NEW t \in Task, t.order = o,
         t.step \in {"poll", "apply", "claim", "finish", "lock"},
         Begin(p, t), UNCHANGED <<orderVars, provider, money>>
  PROVE  TypeInv' /\ Quiet
<1>1. task' \in [Proc -> Task \cup {Idle}] /\ task'[p] = t /\ OnlyTask(p)
  BY SetTask DEF Begin, TypeInv
<1>2. AmountIsPrice'
  BY <1>1, AmountStep
<1>3. QuietMove(p)
  BY <1>1 DEF QuietMove, ReactivateSteps
<1>4. TypeInv'
  BY <1>1, <1>2 DEF TypeInv, TypeOK, orderVars, provider, money
<1>5. Quiet
  BY <1>1, <1>3, QuietTask, SameRow DEF Quiet, orderVars, provider, money
<1> QED
  BY <1>4, <1>5

(* A fresh snapshot is a task.                                             *)
LEMMA SnapshotType ==
  ASSUME TypeOK, NEW o \in Order, NEW s \in Step
  PROVE  Snapshot(o, s) \in Task /\ Snapshot(o, s).order = o /\ Snapshot(o, s).step = s
  BY DocFields DEF Snapshot, Task, Terminal

-----------------------------------------------------------------------------
(* The quiet actions, by handler.                                          *)

(* Workers, webhooks, customers and admins that begin.                     *)
LEMMA StartQuiet ==
  ASSUME TypeInv, NEW p \in Proc, NEW o \in Order,
         \/ StartPoll(p, o) \/ StartDeliver(p, o) \/ StartExpiry(p, o)
         \/ StartCancel(p, o) \/ StartAdminCancel(p, o)
         \/ StartFinish(p, o) \/ StartReactivate(p, o)
  PROVE  TypeInv' /\ Quiet
<1> DEFINE S(s) == Snapshot(o, s)
<1>1. \A s \in {"poll", "apply", "claim", "finish", "lock"} :
        S(s) \in Task /\ S(s).order = o /\ S(s).step = s
  BY SnapshotType DEF TypeInv, Step
<1>2. CASE StartPoll(p, o)
  BY <1>1, <1>2, QuietBegin DEF StartPoll
<1>3. CASE StartDeliver(p, o)
  <2>1. PICK m \in inbox :
          /\ row[o].status = "waiting"
          /\ Begin(p, [S("apply") EXCEPT !.code = m.act])
          /\ UNCHANGED <<orderVars, provider, money>>
    BY <1>3 DEF StartDeliver
  <2> DEFINE t == [S("apply") EXCEPT !.code = m.act]
  <2>2. t \in Task /\ t.order = o /\ t.step = "apply"
    BY <1>1 DEF Task, TypeInv, TypeOK
  <2> HIDE DEF S, t
  <2> QED
    BY <2>1, <2>2, QuietBegin DEF t
<1>4. CASE StartExpiry(p, o)
  <2> DEFINE t == [S("claim") EXCEPT !.to = "expired"]
  <2>1. t \in Task /\ t.order = o /\ t.step = "claim"
    BY <1>1 DEF Task, Terminal
  <2> HIDE DEF t
  <2> QED
    BY <1>4, <2>1, QuietBegin DEF StartExpiry, t
<1>5. CASE StartCancel(p, o)
  BY <1>1, <1>5, QuietBegin DEF StartCancel
<1>6. CASE StartAdminCancel(p, o)
  BY <1>1, <1>6, QuietBegin DEF StartAdminCancel
<1>7. CASE StartFinish(p, o)
  BY <1>1, <1>7, QuietBegin DEF StartFinish
<1>8. CASE StartReactivate(p, o)
  <2> DEFINE t == [S("lock") EXCEPT !.amount = balance]
  <2>1. t \in Task /\ t.order = o /\ t.step = "lock"
    BY <1>1 DEF Task, TypeInv, TypeOK
  <2> HIDE DEF t
  <2> QED
    BY <1>8, <2>1, QuietBegin DEF StartReactivate, t
<1> QED
  BY <1>2, <1>3, <1>4, <1>5, <1>6, <1>7, <1>8

(* The provider's side of a reference moves on.                            *)
LEMMA SetPhase ==
  ASSUME TypeOK, NEW o \in Order, NEW r, NEW f \in Phase,
         line' = [line EXCEPT ![o][r].phase = f]
  PROVE  line' \in [Order -> [Ref -> Line]]
<1>1. line[o] \in [Ref -> Line]
  BY DEF TypeOK
<1>2. [line[o] EXCEPT ![r].phase = f] \in [Ref -> Line]
  BY <1>1 DEF Line
<1> QED
  BY <1>2 DEF TypeOK

(* debit keeps the types.                                                  *)
LEMMA DebitType ==
  ASSUME TypeOK, NEW p \in Proc, NEW o \in Order, NEW c \in Price, NEW s,
         DebitFor(p, o, c, s)
  PROVE  balance' \in Nat /\ charged' \in [Order -> Seq(Price)]
  BY PriceAssumption DEF DebitFor, TypeOK

(* A Transaction row is one of the four.                                   *)
LEMMA BookType ==
  ASSUME TypeOK, NEW o \in Order, NEW r \in Reference, Book(o, r)
  PROVE  booked' \in [Order -> SUBSET Reference]
  BY DEF Book, TypeOK

(* The number is handed back, or the provider refuses.                     *)
LEMMA ReleaseQuiet ==
  ASSUME TypeInv, NEW p \in Proc, task[p].step # "idle", ReleaseLine(p)
  PROVE  TypeInv' /\ Quiet
<1>1. line' \in [Order -> [Ref -> Line]]
  <2>1. CASE UNCHANGED line
    BY <2>1 DEF TypeInv, TypeOK
  <2>2. CASE line' = [line EXCEPT
                 ![task[p].order][task[p].ref].phase = "released"]
    BY <2>2, Busy, SetPhase DEF TypeInv, Phase
  <2> QED
    BY <2>1, <2>2 DEF ReleaseLine
<1>2. /\ task' \in [Proc -> Task \cup {Idle}]
      /\ AmountIsPrice'
      /\ \A q \in Proc : task'[q] = task[q] \/ QuietMove(q)
  BY QuietReturn DEF ReleaseLine
<1>3. TypeInv'
  BY <1>1, <1>2 DEF ReleaseLine, TypeInv, TypeOK, orderVars, money
<1>4. Quiet
  BY <1>2, SameRow DEF ReleaseLine, Quiet, orderVars, money
<1> QED
  BY <1>3, <1>4

(* createOrder, but for the writes to the document.                        *)
LEMMA CreateQuiet ==
  ASSUME TypeInv, NEW p \in Proc,
         InsertFails(p) \/ Pay(p) \/ BookOrder(p) \/ PayFails(p) \/ GiveBack(p)
  PROVE  TypeInv' /\ Quiet
<1>1. CASE InsertFails(p) \/ PayFails(p)
  <2>1. \E s \in {"giveback", "undo"} :
          task[p].step # "idle" /\ Goto(p, s)
            /\ UNCHANGED <<orderVars, provider, money>>
    BY <1>1 DEF InsertFails, PayFails, At
  <2>2. /\ task' \in [Proc -> Task \cup {Idle}]
        /\ AmountIsPrice'
        /\ \A q \in Proc : task'[q] = task[q] \/ QuietMove(q)
    BY <2>1, QuietGoto DEF Step, CreateSteps, ReactivateSteps
  <2> QED
    BY <2>1, <2>2, SameRow
    DEF TypeInv, TypeOK, Quiet, orderVars, provider, money
<1>2. CASE Pay(p)
  <2>1. task[p].step = "pay" /\ task[p].order \in Order /\ task[p].amount \in Price
    BY <1>2, Busy DEF Pay, At, TypeInv, AmountIsPrice
  <2>2. /\ task' \in [Proc -> Task \cup {Idle}]
        /\ AmountIsPrice'
        /\ \A q \in Proc : task'[q] = task[q] \/ QuietMove(q)
    BY <1>2, <2>1, QuietGoto
    DEF Pay, DebitFor, Step, CreateSteps, ReactivateSteps
  <2>3. balance' \in Nat /\ charged' \in [Order -> Seq(Price)]
    BY <1>2, <2>1, DebitType DEF Pay, TypeInv
  <2> QED
    BY <1>2, <2>2, <2>3, SameRow
    DEF Pay, DebitFor, TypeInv, TypeOK, Quiet, orderVars, provider
<1>3. CASE BookOrder(p)
  <2>1. task[p].step = "bookOrder" /\ task[p].order \in Order
    BY <1>3, Busy DEF BookOrder, At, TypeInv
  <2>2. /\ task' \in [Proc -> Task \cup {Idle}]
        /\ AmountIsPrice'
        /\ \A q \in Proc : task'[q] = task[q] \/ QuietMove(q)
    BY <1>3, QuietReturn DEF BookOrder
  <2>3. booked' \in [Order -> SUBSET Reference]
    BY <1>3, <2>1, BookType DEF BookOrder, TypeInv, Reference
  <2> QED
    BY <1>3, <2>2, <2>3, SameRow
    DEF BookOrder, Book, TypeInv, TypeOK, Quiet, orderVars, provider
<1>4. CASE GiveBack(p)
  BY <1>4, ReleaseQuiet DEF GiveBack, At
<1> QED
  BY <1>1, <1>2, <1>3, <1>4

(* Polling and the history, but for the code itself.                       *)
LEMMA DeliverQuiet ==
  ASSUME TypeInv, NEW p \in Proc, PollAnswer(p) \/ StoreMessages(p)
  PROVE  TypeInv' /\ Quiet
<1>1. CASE PollAnswer(p)
  <2> DEFINE l == line[task[p].order][task[p].ref]
  <2>1. task[p] \in Task /\ task[p].step = "poll" /\ l.act \in Nat
    <3>1. task[p].step = "poll"
      BY <1>1 DEF PollAnswer, At
    <3>2. task[p] \in Task /\ task[p].order \in Order /\ task[p].ref \in Ref
      BY <3>1, Busy DEF TypeInv
    <3> QED
      BY <3>1, <3>2 DEF TypeInv, TypeOK, Line
  <2>2. PICK t \in Task \cup {Idle} :
          /\ task' = [task EXCEPT ![p] = t]
          /\ \/ t = Idle
             \/ t.step \in {"apply", "claim"} /\ t.order = task[p].order
    <3> DEFINE a == [task[p] EXCEPT !.step = "apply", !.code = l.act]
               c == [task[p] EXCEPT !.step = "claim", !.to = "expired"]
    <3>1. /\ a \in Task /\ a.step = "apply" /\ a.order = task[p].order
          /\ c \in Task /\ c.step = "claim" /\ c.order = task[p].order
      BY <2>1 DEF Task, Step, Terminal
    <3>2. \/ task' = [task EXCEPT ![p] = a]
          \/ task' = [task EXCEPT ![p] = c]
          \/ task' = [task EXCEPT ![p] = Idle]
      BY <1>1 DEF PollAnswer, Return, TypeInv, TypeOK
    <3> HIDE DEF a, c
    <3> QED
      BY <3>1, <3>2
  <2>3. task' \in [Proc -> Task \cup {Idle}] /\ task'[p] = t /\ OnlyTask(p)
    BY <2>2, SetTask DEF TypeInv
  <2>4. AmountIsPrice'
    BY <2>2, <2>3, AmountStep DEF Idle
  <2>5. QuietMove(p)
    BY <2>1, <2>2, <2>3 DEF QuietMove, ReactivateSteps, Idle
  <2> QED
    BY <1>1, <2>3, <2>4, <2>5, QuietTask, SameRow
    DEF PollAnswer, TypeInv, TypeOK, Quiet, orderVars, provider, money
<1>2. CASE StoreMessages(p)
  <2>1. task[p].step = "store" /\ task[p].order \in Order /\ task[p].code \in Nat
    BY <1>2, Busy DEF StoreMessages, At, TypeInv
  <2>2. messages' \in [Order -> SUBSET Nat]
    BY <1>2, <2>1 DEF StoreMessages, TypeInv, TypeOK
  <2>3. /\ task' \in [Proc -> Task \cup {Idle}]
        /\ AmountIsPrice'
        /\ \A q \in Proc : task'[q] = task[q] \/ QuietMove(q)
    BY <1>2, QuietReturn DEF StoreMessages
  <2> QED
    BY <1>2, <2>2, <2>3, SameRow
    DEF StoreMessages, TypeInv, TypeOK, Quiet, provider, money
<1> QED
  BY <1>1, <1>2

(* refundWaitingOrder after the credit.                                    *)
LEMMA RefundQuiet ==
  ASSUME TypeInv, NEW p \in Proc, BookRefund(p) \/ ReleaseNumber(p)
  PROVE  TypeInv' /\ Quiet
<1>1. CASE BookRefund(p)
  <2>1. task[p].step = "bookRefund" /\ task[p].order \in Order
    BY <1>1, Busy DEF BookRefund, At, TypeInv
  <2>2. /\ task' \in [Proc -> Task \cup {Idle}]
        /\ AmountIsPrice'
        /\ \A q \in Proc : task'[q] = task[q] \/ QuietMove(q)
    BY <1>1, <2>1, QuietGoto DEF BookRefund, Step, RefundSteps, ReactivateSteps
  <2>3. booked' \in [Order -> SUBSET Reference]
    BY <1>1, <2>1, BookType DEF BookRefund, RefundReference, TypeInv, Reference
  <2> QED
    BY <1>1, <2>2, <2>3, SameRow
    DEF BookRefund, Book, TypeInv, TypeOK, Quiet, orderVars, provider
<1>2. CASE ReleaseNumber(p)
  BY <1>2, ReleaseQuiet DEF ReleaseNumber, At
<1> QED
  BY <1>1, <1>2

(* finishOrder does not touch status or lock.                              *)
LEMMA FinishQuiet ==
  ASSUME TypeInv, NEW p \in Proc, SaveFinish(p) \/ CloseLine(p)
  PROVE  TypeInv' /\ Quiet
<1>1. CASE SaveFinish(p)
  <2> DEFINE o == task[p].order
             d == [row[o] EXCEPT !.finishedAt = TRUE]
  <2>1. task[p].step = "finish" /\ o \in Order
    BY <1>1, Busy DEF SaveFinish, At, TypeInv
  <2>2. /\ d \in OrderDoc
        /\ d.status = row[o].status
        /\ d.reactivatingAt = row[o].reactivatingAt
    BY <2>1, DocFields, ZenonT(60) DEF OrderDoc, TypeInv
  <2>3. \/ row' = [row EXCEPT ![o] = d] /\ Goto(p, "close")
        \/ UNCHANGED row /\ Return(p)
    BY <1>1, <2>1 DEF SaveFinish, TypeInv, TypeOK
  <2>4. row' \in [Order -> OrderDoc] /\ SameRows
    <3> HIDE DEF d
    <3>1. CASE row' = [row EXCEPT ![o] = d]
      BY <2>1, <2>2, <3>1, SetRow DEF TypeInv, SameRows, OnlyRow
    <3>2. CASE UNCHANGED row
      BY <3>2, SameRow DEF TypeInv, TypeOK
    <3> QED
      BY <2>3, <3>1, <3>2
  <2>5. /\ task' \in [Proc -> Task \cup {Idle}]
        /\ AmountIsPrice'
        /\ \A q \in Proc : task'[q] = task[q] \/ QuietMove(q)
    BY <2>1, <2>3, QuietReturn, QuietGoto DEF Step, ReactivateSteps
  <2> QED
    BY <1>1, <2>4, <2>5
    DEF SaveFinish, TypeInv, TypeOK, Quiet, provider, money
<1>2. CASE CloseLine(p)
  <2>1. line' \in [Order -> [Ref -> Line]]
    <3>1. CASE UNCHANGED line
      BY <3>1, SMTT(60) DEF TypeInv, TypeOK
    <3>2. CASE line' = [line EXCEPT
                   ![task[p].order][task[p].ref].phase = "finished"]
      BY <1>2, <3>2, Busy, SetPhase DEF CloseLine, At, TypeInv, Phase
    <3> QED
      BY <1>2, <3>1, <3>2 DEF CloseLine
  <2>2. /\ task' \in [Proc -> Task \cup {Idle}]
        /\ AmountIsPrice'
        /\ \A q \in Proc : task'[q] = task[q] \/ QuietMove(q)
    BY <1>2, QuietReturn DEF CloseLine
  <2> QED
    BY <1>2, <2>1, <2>2, SameRow
    DEF CloseLine, TypeInv, TypeOK, Quiet, orderVars, money
<1> QED
  BY <1>1, <1>2

(* The provider sells another activation.                                  *)
LEMMA RenewQuiet ==
  ASSUME TypeInv, NEW p \in Proc, NEW c \in Price, Renew(p, c)
  PROVE  TypeInv' /\ Quiet
<1> DEFINE o == task[p].order
           n == sold[o] + 1
<1>1. /\ task[p].step = "renew" /\ task[p] \in Task
      /\ o \in Order /\ task[p].ref \in Ref
  BY Busy DEF Renew, At, TypeInv
<1>2. n \in Ref /\ n # 0
  BY <1>1, BoundAssumption DEF Renew, TypeInv, TypeOK, Ref
<1>3. PICK r \in {task[p].ref, n} :
        /\ line' = [line EXCEPT ![o][r] = [phase |-> "live", act |-> n]]
        /\ task' = [task EXCEPT ![p].step = "repay", ![p].ref = r,
                                ![p].code = n, ![p].amount = c]
  BY DEF Renew
<1>4. line' \in [Order -> [Ref -> Line]]
  <2>1. [phase |-> "live", act |-> n] \in Line
    BY <1>2, BoundAssumption DEF Line, Phase, Ref
  <2>2. [line[o] EXCEPT ![r] = [phase |-> "live", act |-> n]] \in [Ref -> Line]
    BY <1>1, <2>1 DEF TypeInv, TypeOK
  <2> QED
    BY <1>1, <1>3, <2>2 DEF TypeInv, TypeOK
<1>5. sold' \in [Order -> 0..MaxActivations] /\ \A x \in Order : sold'[x] = 0 => sold[x] = 0
  BY <1>1, <1>2, BoundAssumption DEF Renew, TypeInv, TypeOK, Ref
<1> DEFINE t == [task[p] EXCEPT !.step = "repay", !.ref = r,
                                !.code = n, !.amount = c]
<1>6. t \in Task /\ t.step = "repay" /\ t.order = o /\ t.amount = c
  <2>1. r \in Ref /\ n \in Nat /\ c \in Nat
    BY <1>1, <1>2, PriceAssumption, BoundAssumption DEF Ref
  <2> HIDE DEF o, n
  <2> QED
    BY <1>1, <2>1 DEF Task, Step, ReactivateSteps, o
<1>7. task' = [task EXCEPT ![p] = t]
  BY <1>3 DEF TypeInv, TypeOK
<1> HIDE DEF t
<1>8. task' \in [Proc -> Task \cup {Idle}] /\ task'[p] = t /\ OnlyTask(p)
  BY <1>6, <1>7, SetTask DEF TypeInv
<1>9. AmountIsPrice'
  BY <1>6, <1>8, AmountStep
<1>10. QuietMove(p)
  BY <1>1, <1>6, <1>8 DEF QuietMove, ReactivateSteps, Idle
<1> QED
  BY <1>4, <1>5, <1>8, <1>9, <1>10, QuietTask, SameRow
  DEF Renew, TypeInv, TypeOK, Quiet, orderVars, money

(* reactivateOrder between its lock and its last write.                    *)
LEMMA ReactivateQuiet ==
  ASSUME TypeInv, NEW p \in Proc,
         Repay(p) \/ BookRenewal(p) \/ ReactivationFails(p)
  PROVE  TypeInv' /\ Quiet
<1>1. CASE Repay(p)
  <2>1. task[p].step = "repay" /\ task[p].order \in Order /\ task[p].amount \in Price
    BY <1>1, Busy DEF Repay, At, TypeInv, AmountIsPrice
  <2>2. /\ task' \in [Proc -> Task \cup {Idle}]
        /\ AmountIsPrice'
        /\ \A q \in Proc : task'[q] = task[q] \/ QuietMove(q)
    BY <1>1, <2>1, QuietGoto DEF Repay, DebitFor, Step, ReactivateSteps
  <2>3. balance' \in Nat /\ charged' \in [Order -> Seq(Price)]
    BY <1>1, <2>1, DebitType DEF Repay, TypeInv
  <2> QED
    BY <1>1, <2>2, <2>3, SameRow
    DEF Repay, DebitFor, TypeInv, TypeOK, Quiet, orderVars, provider
<1>2. CASE BookRenewal(p)
  <2>1. task[p].step = "bookRenewal" /\ task[p].order \in Order
    BY <1>2, Busy DEF BookRenewal, At, TypeInv
  <2>2. /\ task' \in [Proc -> Task \cup {Idle}]
        /\ AmountIsPrice'
        /\ \A q \in Proc : task'[q] = task[q] \/ QuietMove(q)
    BY <1>2, <2>1, QuietGoto DEF BookRenewal, Step, ReactivateSteps
  <2>3. booked' \in [Order -> SUBSET Reference]
    BY <1>2, <2>1, BookType DEF BookRenewal, TypeInv, Reference
  <2> QED
    BY <1>2, <2>2, <2>3, SameRow
    DEF BookRenewal, Book, TypeInv, TypeOK, Quiet, orderVars, provider
<1>3. CASE ReactivationFails(p)
  <2>1. task[p].step \in ReactivateSteps
    BY <1>3 DEF ReactivationFails, At, ReactivateSteps
  <2>2. /\ task' \in [Proc -> Task \cup {Idle}]
        /\ AmountIsPrice'
        /\ \A q \in Proc : task'[q] = task[q] \/ QuietMove(q)
    BY <1>3, <2>1, QuietGoto DEF ReactivationFails, Step, ReactivateSteps
  <2> QED
    BY <1>3, <2>2, SameRow
    DEF ReactivationFails, TypeInv, TypeOK, Quiet, orderVars, provider, money
<1> QED
  BY <1>1, <1>2, <1>3

(* A dying process is quiet: the locks it holds stay.                      *)
LEMMA CrashQuiet ==
  ASSUME TypeInv, NEW p \in Proc, Crash(p)
  PROVE  TypeInv' /\ Quiet
  BY QuietReturn, SameRow
  DEF Crash, TypeInv, TypeOK, Quiet, orderVars, provider, money

(* Time and the provider are quiet.                                        *)
LEMMA WorldQuiet ==
  ASSUME TypeInv, NEW o \in Order, World(o)
  PROVE  TypeInv' /\ Quiet
<1>1. CASE Tick(o)
  <2> DEFINE k == IF row[o].clock = "held" THEN "open" ELSE "overdue"
             d == [row[o] EXCEPT !.clock = k]
  <2>1. /\ d \in OrderDoc
        /\ d.status = row[o].status
        /\ d.reactivatingAt = row[o].reactivatingAt
    BY DocFields DEF OrderDoc, TypeInv
  <2>2. row' = [row EXCEPT ![o] = d]
    BY <1>1 DEF Tick, TypeInv, TypeOK
  <2> HIDE DEF d
  <2>3. row' \in [Order -> OrderDoc] /\ SameRows
    BY <2>1, <2>2, SetRow DEF TypeInv, SameRows, OnlyRow
  <2> QED
    BY <1>1, <2>3
    DEF Tick, TypeInv, TypeOK, AmountIsPrice, Quiet, provider, money
<1>2. ASSUME NEW r \in Ref, SmsArrives(o, r)
      PROVE  TypeInv' /\ Quiet
  <2>1. line' \in [Order -> [Ref -> Line]]
    BY <1>2, SetPhase DEF SmsArrives, TypeInv, Phase
  <2>2. inbox' \subseteq [order: Order, ref: Ref, act: Nat]
    BY <1>2 DEF SmsArrives, TypeInv, TypeOK, Line
  <2> QED
    BY <1>2, <2>1, <2>2, SameRow
    DEF SmsArrives, TypeInv, TypeOK, AmountIsPrice, Quiet, orderVars, money
<1>3. ASSUME NEW r \in Ref, LineDrops(o, r)
      PROVE  TypeInv' /\ Quiet
  <2>1. line' \in [Order -> [Ref -> Line]]
    BY <1>3, SetPhase DEF LineDrops, TypeInv, Phase
  <2> QED
    BY <1>3, <2>1, SameRow
    DEF LineDrops, TypeInv, TypeOK, AmountIsPrice, Quiet, orderVars, money
<1> QED
  BY <1>1, <1>2, <1>3 DEF World

(* So is doing nothing.                                                    *)
LEMMA StutterQuiet ==
  ASSUME TypeInv, UNCHANGED vars
  PROVE  TypeInv' /\ Quiet
  BY SameRow
  DEF TypeInv, TypeOK, AmountIsPrice, Quiet, vars, orderVars, provider, money

-----------------------------------------------------------------------------
(* The ten actions the invariant is about.                                 *)

(* A number is rented for an order nobody has heard of.                    *)
LEMMA RentStep ==
  ASSUME Inv, NEW p \in Proc, NEW o \in Order, NEW c \in Price, Rent(p, o, c)
  PROVE  Inv'
<1> USE DEF Inv
<1> DEFINE t == [Snapshot(o, "insert") EXCEPT !.ref = 1, !.amount = c]
<1>1. 1 \in Ref /\ c \in Nat
  BY PriceAssumption, BoundAssumption DEF Ref
<1>2. t \in Task /\ t.step = "insert" /\ t.order = o /\ t.amount = c
  <2> DEFINE s == Snapshot(o, "insert")
  <2>1. s \in Task /\ s.order = o /\ s.step = "insert"
    BY SnapshotType DEF TypeInv, Step, CreateSteps
  <2> HIDE DEF s
  <2>2. [s EXCEPT !.ref = 1, !.amount = c] \in Task
    BY <1>1, <2>1 DEF Task
  <2> QED
    BY <1>1, <2>1, <2>2 DEF Task, s
<1> HIDE DEF t
<1>3. task[p] = Idle /\ task' = [task EXCEPT ![p] = t]
  BY DEF Rent, Begin, t
<1>4. task' \in [Proc -> Task \cup {Idle}] /\ task'[p] = t /\ OnlyTask(p)
  BY <1>2, <1>3, SetTask DEF TypeInv
<1>5. /\ sold[o] = 0
      /\ sold' \in [Order -> 0..MaxActivations]
      /\ sold'[o] = 1 /\ \A x \in Order \ {o} : sold'[x] = sold[x]
  BY <1>1, BoundAssumption DEF Rent, TypeInv, TypeOK, Ref
<1>6. line' \in [Order -> [Ref -> Line]]
  <2>1. [phase |-> "live", act |-> 1] \in Line
    BY DEF Line, Phase
  <2>2. [line[o] EXCEPT ![1] = [phase |-> "live", act |-> 1]] \in [Ref -> Line]
    BY <2>1 DEF TypeInv, TypeOK
  <2> QED
    BY <2>2 DEF Rent, TypeInv, TypeOK
<1>7. TypeInv'
  <2>1. AmountIsPrice'
    BY <1>2, <1>4, AmountStep
  <2> QED
    BY <1>4, <1>5, <1>6, <2>1 DEF Rent, TypeInv, TypeOK, orderVars, money
<1>8. UNCHANGED <<row, refunded>>
  BY DEF Rent, orderVars, money
<1>9. FreshOrder'
  BY <1>2, <1>4, <1>5, <1>8 DEF FreshOrder, OnlyTask
<1>10. InsertIsFirst'
  <2> SUFFICES ASSUME NEW q \in Proc, NEW x \in Order, On(q, x, {"insert"})'
               PROVE  /\ row'[x].status = "absent"
                      /\ refunded'[x] = <<>>
                      /\ \A z \in Proc \ {q} : task'[z] = Idle \/ task'[z].order # x
    BY DEF InsertIsFirst, On
  <2>1. CASE q = p
    BY <1>2, <1>4, <1>5, <1>8, <2>1 DEF FreshOrder, On, OnlyTask
  <2>2. CASE q # p
    <3>1. task'[q] = task[q] /\ On(q, x, {"insert"}) /\ task[q] # Idle
      BY <1>4, <2>2 DEF OnlyTask, On, Idle
    <3>2. x # o
      BY <1>5, <3>1 DEF FreshOrder, On
    <3> QED
      BY <1>2, <1>4, <1>8, <3>1, <3>2 DEF InsertIsFirst, OnlyTask
  <2> QED
    BY <2>1, <2>2
<1>11. RefundAtMostOnce' /\ RefundedIsClosed'
  BY <1>2, <1>4, <1>8 DEF RefundAtMostOnce, RefundedIsClosed, On, OnlyTask
<1>12. ReactivationExclusive'
  BY <1>2, <1>4, <1>8 DEF ReactivationExclusive, On, OnlyTask, ReactivateSteps
<1> QED
  BY <1>7, <1>9, <1>10, <1>11, <1>12

(* What a new document makes of the invariant, paid for or not.            *)
LEMMA InsertStep ==
  ASSUME Inv, NEW p \in Proc, At(p, "insert"), TypeInv',
         row' = [row EXCEPT ![task[p].order] = NewDoc(task[p].amount)],
         UNCHANGED <<sold, refunded>>, OnlyTask(p),
         \/ task'[p] = Idle
         \/ task'[p].step = "pay" /\ task'[p].order = task[p].order
  PROVE  Inv'
<1> USE DEF Inv
<1> DEFINE o == task[p].order
<1>1. o \in Order /\ task[p] # Idle /\ sold[o] # 0
  BY Busy DEF TypeInv, At, FreshOrder, Idle
<1>2. /\ refunded[o] = <<>>
      /\ \A q \in Proc \ {p} : task[q] = Idle \/ task[q].order # o
  BY <1>1 DEF InsertIsFirst, On, At
<1>3. \A x \in Order \ {o} : row'[x] = row[x]
  BY <1>1 DEF TypeInv, TypeOK
<1>4. FreshOrder'
  BY <1>1, <1>2, <1>3 DEF FreshOrder, OnlyTask
<1>5. InsertIsFirst'
  BY <1>1, <1>2, <1>3 DEF InsertIsFirst, On, OnlyTask, Idle
<1>6. RefundAtMostOnce'
  BY <1>1, <1>2 DEF RefundAtMostOnce, On, OnlyTask, Idle
<1>7. RefundedIsClosed'
  BY <1>1, <1>2, <1>3 DEF RefundedIsClosed, On, OnlyTask, Idle
<1>8. ReactivationExclusive'
  BY <1>1, <1>2, <1>3
  DEF ReactivationExclusive, On, OnlyTask, Idle, ReactivateSteps
<1> QED
  BY <1>4, <1>5, <1>6, <1>7, <1>8

(* A new document is a document.                                           *)
LEMMA NewDocType ==
  ASSUME NEW c \in Nat
  PROVE  NewDoc(c) \in OrderDoc
<1>1. 1 \in Ref
  BY BoundAssumption DEF Ref
<1> QED
  BY <1>1 DEF NewDoc, NoDoc, OrderDoc, Status

(* The document is written, alone or together with its payment.            *)
LEMMA CreateStep ==
  ASSUME Inv, NEW p \in Proc, InsertPaid(p) \/ Insert(p)
  PROVE  Inv'
<1> DEFINE o == task[p].order  c == task[p].amount
<1>1. /\ At(p, "insert") /\ task[p].step # "idle"
      /\ o \in Order /\ c \in Price /\ c \in Nat
  BY Busy, PriceAssumption
  DEF InsertPaid, Insert, At, Inv, TypeInv, AmountIsPrice
<1>2. row' = [row EXCEPT ![o] = NewDoc(c)] /\ row' \in [Order -> OrderDoc]
  BY <1>1, NewDocType, SetRow DEF InsertPaid, Insert, Inv, TypeInv
<1>3. CASE InsertPaid(p)
  <2>1. task' \in [Proc -> Task \cup {Idle}] /\ task'[p] = Idle /\ OnlyTask(p)
    BY <1>3, ReturnTask DEF InsertPaid, Inv, TypeInv
  <2>2. AmountIsPrice'
    BY <2>1, AmountStep DEF Inv, Idle
  <2>3. balance' \in Nat /\ charged' \in [Order -> Seq(Price)]
    BY <1>1, <1>3 DEF InsertPaid, Inv, TypeInv, TypeOK
  <2>4. booked' \in [Order -> SUBSET Reference]
    BY <1>3 DEF InsertPaid, Inv, TypeInv, TypeOK, Reference
  <2>5. TypeInv'
    BY <1>2, <1>3, <2>1, <2>2, <2>3, <2>4
    DEF InsertPaid, Inv, TypeInv, TypeOK, provider
  <2> QED
    BY <1>1, <1>2, <1>3, <2>1, <2>5, InsertStep DEF InsertPaid, provider
<1>4. CASE Insert(p)
  <2>1. /\ task' \in [Proc -> Task \cup {Idle}]
        /\ task'[p].step = "pay" /\ task'[p].order = o /\ task'[p].amount = c
        /\ OnlyTask(p)
    BY <1>1, <1>4, GotoTask DEF Insert, Inv, TypeInv, Step, CreateSteps
  <2>2. AmountIsPrice'
    BY <1>1, <2>1, AmountStep DEF Inv
  <2>3. TypeInv'
    BY <1>2, <1>4, <2>1, <2>2
    DEF Insert, Inv, TypeInv, TypeOK, provider, money
  <2> QED
    BY <1>1, <1>2, <1>4, <2>1, <2>3, InsertStep DEF Insert, provider, money
<1> QED
  BY <1>3, <1>4

(* deleteOne: whatever the document has become.                            *)
LEMMA UndoStep ==
  ASSUME Inv, NEW p \in Proc, Undo(p)
  PROVE  Inv'
<1> USE DEF Inv
<1> DEFINE o == task[p].order
<1>1. task[p].step = "undo" /\ o \in Order /\ task[p] # Idle
  BY Busy DEF Undo, At, TypeInv, Idle
<1>2. NoDoc \in OrderDoc
  BY BoundAssumption DEF NoDoc, OrderDoc, Status, Ref
<1>3. /\ row' \in [Order -> OrderDoc]
      /\ row'[o].status = "absent" /\ OnlyRow(o)
  BY <1>1, <1>2, SetRow, ZenonT(60) DEF Undo, TypeInv, NoDoc
<1>4. /\ task' \in [Proc -> Task \cup {Idle}]
      /\ task'[p].step = "giveback" /\ task'[p].order = o
      /\ OnlyTask(p)
  BY <1>1, GotoTask DEF Undo, TypeInv, Step, CreateSteps
<1>5. TypeInv'
  BY <1>3, <1>4, AmountStep DEF Undo, TypeInv, TypeOK, provider, money
<1>6. UNCHANGED <<sold, refunded>>
  BY DEF Undo, provider, money
<1>7. FreshOrder'
  BY <1>1, <1>3, <1>4, <1>6 DEF FreshOrder, OnlyTask, OnlyRow
<1>8. InsertIsFirst'
  BY <1>1, <1>3, <1>4, <1>6 DEF InsertIsFirst, On, OnlyTask, OnlyRow, Idle
<1>9. RefundAtMostOnce' /\ RefundedIsClosed'
  BY <1>3, <1>4, <1>6
  DEF RefundAtMostOnce, RefundedIsClosed, On, OnlyTask, OnlyRow
<1>10. ReactivationExclusive'
  BY <1>3, <1>4
  DEF ReactivationExclusive, On, OnlyTask, OnlyRow, ReactivateSteps
<1> QED
  BY <1>5, <1>7, <1>8, <1>9, <1>10

(* A code completes an order that waits, or nothing happens.               *)
LEMMA ApplyStep ==
  ASSUME Inv, NEW p \in Proc, ApplyOtp(p)
  PROVE  Inv'
<1> DEFINE o == task[p].order
<1>1. task[p].step = "apply" /\ o \in Order /\ task[p].code \in Nat /\ task[p] # Idle
  BY Busy DEF ApplyOtp, At, Inv, TypeInv, Idle
<1>2. CASE row[o].status # "waiting"
  <2>1. UNCHANGED <<row, messages, sold, line, inbox, money>> /\ Return(p)
    BY <1>2 DEF ApplyOtp, provider
  <2>2. TypeInv' /\ Quiet
    BY <2>1, QuietReturn, SameRow DEF Inv, TypeInv, TypeOK, Quiet, money
  <2> QED
    BY <2>2, QuietStep
<1>3. CASE row[o].status = "waiting"
  <2> USE DEF Inv
  <2>1. PICK c \in Nat :
          row' = [row EXCEPT ![o].status = "completed", ![o].otp = c]
    BY <1>1, <1>3 DEF ApplyOtp
  <2> DEFINE d == [row[o] EXCEPT !.status = "completed", !.otp = c]
  <2>2. row' = [row EXCEPT ![o] = d]
    BY <1>1, <2>1 DEF TypeInv, TypeOK
  <2>3. d \in OrderDoc /\ d.status = "completed"
    BY <1>1, DocFields, ZenonT(60) DEF OrderDoc, Status, TypeInv
  <2> HIDE DEF d
  <2>4. row' \in [Order -> OrderDoc] /\ row'[o].status = "completed" /\ OnlyRow(o)
    BY <1>1, <2>2, <2>3, SetRow DEF TypeInv
  <2>5. /\ task' \in [Proc -> Task \cup {Idle}]
        /\ \/ task'[p] = Idle
           \/ task'[p].step = "store" /\ task'[p].order = o
        /\ OnlyTask(p)
    BY <1>1, <1>3, GotoTask, ReturnTask DEF ApplyOtp, TypeInv, Step
  <2>6. TypeInv'
    <3>1. AmountIsPrice'
      BY <2>5, AmountStep DEF Idle
    <3> QED
      BY <2>4, <2>5, <3>1 DEF ApplyOtp, TypeInv, TypeOK, provider, money
  <2>7. UNCHANGED <<sold, refunded>>
    BY DEF ApplyOtp, provider, money
  <2>8. FreshOrder'
    BY <1>1, <2>4, <2>5, <2>7 DEF FreshOrder, OnlyTask, OnlyRow
  <2>9. InsertIsFirst'
    BY <1>1, <2>4, <2>5, <2>7 DEF InsertIsFirst, On, OnlyTask, OnlyRow, Idle
  <2>10. RefundAtMostOnce'
    BY <2>5, <2>7 DEF RefundAtMostOnce, On, OnlyTask, Idle
  <2>11. RefundedIsClosed'
    BY <1>1, <1>3, <2>4, <2>5, <2>7 DEF RefundedIsClosed, On, OnlyTask, OnlyRow, Idle
  <2>12. ReactivationExclusive'
    BY <1>1, <1>3, <2>4, <2>5
    DEF ReactivationExclusive, On, OnlyTask, OnlyRow, ReactivateSteps, Idle
  <2> QED
    BY <2>6, <2>8, <2>9, <2>10, <2>11, <2>12
<1> QED
  BY <1>2, <1>3

(* An order that waits is claimed for its refund, or nothing happens.      *)
LEMMA ClaimStep ==
  ASSUME Inv, NEW p \in Proc, ClaimRefund(p)
  PROVE  Inv'
<1> DEFINE o == task[p].order
<1>1. /\ task[p].step = "claim" /\ o \in Order /\ task[p] # Idle
      /\ task[p] \in Task /\ task[p].to \in Terminal
  BY Busy DEF ClaimRefund, At, Inv, TypeInv, Idle
<1>2. CASE row[o].status # "waiting"
  <2>1. UNCHANGED <<row, messages, sold, line, inbox, money>> /\ Return(p)
    BY <1>2 DEF ClaimRefund, provider
  <2>2. TypeInv' /\ Quiet
    BY <2>1, QuietReturn, SameRow DEF Inv, TypeInv, TypeOK, Quiet, money
  <2> QED
    BY <2>2, QuietStep
<1>3. CASE row[o].status = "waiting"
  <2> USE DEF Inv
  <2> DEFINE d == [row[o] EXCEPT !.status = task[p].to]
             t == [task[p] EXCEPT !.step = "credit", !.ref = row[o].ref,
                                  !.amount = row[o].price]
  <2>1. row' = [row EXCEPT ![o] = d] /\ task' = [task EXCEPT ![p] = t]
    BY <1>1, <1>3 DEF ClaimRefund, TypeInv, TypeOK
  <2>2. d \in OrderDoc /\ d.status \in Terminal
    BY <1>1, DocFields DEF OrderDoc, Status, TypeInv
  <2>3. t \in Task /\ t.step = "credit" /\ t.order = o
    BY <1>1, DocFields DEF Task, Step, RefundSteps, TypeInv
  <2> HIDE DEF d, t
  <2>4. row' \in [Order -> OrderDoc] /\ row'[o].status \in Terminal /\ OnlyRow(o)
    BY <1>1, <2>1, <2>2, SetRow DEF TypeInv
  <2>5. task' \in [Proc -> Task \cup {Idle}] /\ task'[p] = t /\ OnlyTask(p)
    BY <2>1, <2>3, SetTask DEF TypeInv
  <2>6. TypeInv'
    BY <2>3, <2>4, <2>5, AmountStep
    DEF ClaimRefund, TypeInv, TypeOK, provider, money
  <2>7. UNCHANGED <<sold, refunded>>
    BY DEF ClaimRefund, provider, money
  <2>8. FreshOrder'
    BY <1>1, <1>3, <2>3, <2>4, <2>5, <2>7 DEF FreshOrder, OnlyTask, OnlyRow
  <2>9. InsertIsFirst'
    BY <1>1, <1>3, <2>3, <2>4, <2>5, <2>7
    DEF InsertIsFirst, On, OnlyTask, OnlyRow, Idle
  <2>10. RefundAtMostOnce'
    BY <1>1, <1>3, <2>3, <2>5, <2>7
    DEF RefundAtMostOnce, RefundedIsClosed, On, OnlyTask
  <2>11. RefundedIsClosed'
    BY <1>1, <2>3, <2>4, <2>5, <2>7
    DEF RefundedIsClosed, On, OnlyTask, OnlyRow, Terminal
  <2>12. ReactivationExclusive'
    BY <1>1, <1>3, <2>3, <2>4, <2>5
    DEF ReactivationExclusive, On, OnlyTask, OnlyRow, ReactivateSteps
  <2> QED
    BY <2>6, <2>8, <2>9, <2>10, <2>11, <2>12
<1> QED
  BY <1>2, <1>3

(* The refund reaches the wallet.                                          *)
LEMMA CreditStep ==
  ASSUME Inv, NEW p \in Proc, CreditRefund(p)
  PROVE  Inv'
<1> USE DEF Inv
<1> DEFINE o == task[p].order  c == task[p].amount
<1>1. /\ task[p].step = "credit" /\ o \in Order /\ c \in Nat /\ task[p] # Idle
      /\ On(p, o, {"credit"})
  BY Busy DEF CreditRefund, At, TypeInv, Idle, On
<1>2. /\ refunded[o] = <<>>
      /\ \A q \in Proc \ {p} : ~On(q, o, {"credit"})
      /\ row[o].status \notin {"waiting", "completed"}
  BY <1>1 DEF RefundAtMostOnce, RefundedIsClosed
<1>3. /\ task' \in [Proc -> Task \cup {Idle}]
      /\ task'[p].step = "bookRefund" /\ task'[p].order = o
      /\ OnlyTask(p)
  BY <1>1, GotoTask DEF CreditRefund, TypeInv, Step, RefundSteps
<1>4. /\ refunded' \in [Order -> Seq(Nat)]
      /\ Len(refunded'[o]) = 1
      /\ \A x \in Order \ {o} : refunded'[x] = refunded[x]
  BY <1>1, <1>2 DEF CreditRefund, TypeInv, TypeOK
<1>5. TypeInv'
  <2>1. balance' \in Nat
    BY <1>1 DEF CreditRefund, TypeInv, TypeOK
  <2> QED
    BY <1>3, <1>4, <2>1, AmountStep
    DEF CreditRefund, TypeInv, TypeOK, orderVars, provider
<1>6. UNCHANGED <<row, sold>>
  BY DEF CreditRefund, orderVars, provider
<1>7. sold[o] # 0
  BY <1>1 DEF FreshOrder
<1>8. FreshOrder'
  <2> SUFFICES ASSUME NEW x \in Order, sold[x] = 0
               PROVE  /\ row[x].status = "absent"
                      /\ refunded'[x] = <<>>
                      /\ \A q \in Proc : task'[q] = Idle \/ task'[q].order # x
    BY <1>6 DEF FreshOrder
  <2>1. x # o
    BY <1>7
  <2> HIDE DEF o
  <2> QED
    BY <1>3, <1>4, <2>1 DEF FreshOrder, OnlyTask
<1>9. InsertIsFirst'
  <2> SUFFICES ASSUME NEW q \in Proc, NEW x \in Order, On(q, x, {"insert"})'
               PROVE  /\ row[x].status = "absent"
                      /\ refunded'[x] = <<>>
                      /\ \A z \in Proc \ {q} : task'[z] = Idle \/ task'[z].order # x
    BY <1>6 DEF InsertIsFirst, On
  <2>1. q # p /\ On(q, x, {"insert"})
    BY <1>3 DEF On, OnlyTask
  <2>2. x # o
    BY <1>1, <2>1 DEF InsertIsFirst
  <2>3. /\ row[x].status = "absent" /\ refunded[x] = <<>>
        /\ \A z \in Proc \ {q} : task[z] = Idle \/ task[z].order # x
    BY <2>1 DEF InsertIsFirst
  <2>4. refunded'[x] = refunded[x]
    BY <1>4, <2>2
  <2>5. \A z \in Proc \ {q} : task'[z] = Idle \/ task'[z].order # x
    BY <1>3, <2>2, <2>3 DEF OnlyTask
  <2> QED
    BY <2>3, <2>4, <2>5
<1>10. RefundAtMostOnce'
  <2> SUFFICES ASSUME NEW x \in Order
               PROVE  /\ Len(refunded'[x]) <= 1
                      /\ \A q \in Proc : On(q, x, {"credit"})' =>
                           /\ refunded'[x] = <<>>
                           /\ \A z \in Proc \ {q} : ~On(z, x, {"credit"})'
    BY DEF RefundAtMostOnce, On
  <2>1. \A q \in Proc : On(q, x, {"credit"})' => q # p /\ On(q, x, {"credit"})
    BY <1>3 DEF On, OnlyTask
  <2>2. CASE x = o
    <3>1. \A q \in Proc : ~On(q, x, {"credit"})'
      BY <1>2, <2>1, <2>2
    <3>2. Len(refunded'[x]) = 1
      BY <1>4, <2>2, Zenon
    <3> QED
      BY <3>1, <3>2
  <2>3. CASE x # o
    <3>1. refunded'[x] = refunded[x]
      BY <1>4, <2>3
    <3>2. /\ Len(refunded[x]) <= 1
          /\ \A q \in Proc : On(q, x, {"credit"}) =>
               /\ refunded[x] = <<>>
               /\ \A z \in Proc \ {q} : ~On(z, x, {"credit"})
      BY DEF RefundAtMostOnce
    <3> QED
      BY <2>1, <3>1, <3>2
  <2> QED
    BY <2>2, <2>3
<1>11. RefundedIsClosed'
  BY <1>2, <1>3, <1>4, <1>6 DEF RefundedIsClosed, On, OnlyTask
<1>12. ReactivationExclusive'
  BY <1>3, <1>6 DEF ReactivationExclusive, On, OnlyTask, ReactivateSteps
<1> QED
  BY <1>5, <1>8, <1>9, <1>10, <1>11, <1>12

(* The lock is taken, or nothing happens.                                  *)
LEMMA ClaimReactivationStep ==
  ASSUME Inv, NEW p \in Proc, ClaimReactivation(p)
  PROVE  Inv'
<1> DEFINE o == task[p].order
<1>1. task[p].step = "lock" /\ o \in Order /\ task[p] # Idle /\ task[p] \in Task
  BY Busy DEF ClaimReactivation, At, Inv, TypeInv, Idle
<1>2. CASE ~(row[o].status = "completed" /\ ~row[o].reactivatingAt)
  <2>1. UNCHANGED <<row, messages, sold, line, inbox, money>> /\ Return(p)
    BY <1>2 DEF ClaimReactivation, provider
  <2>2. TypeInv' /\ Quiet
    BY <2>1, QuietReturn, SameRow DEF Inv, TypeInv, TypeOK, Quiet, money
  <2> QED
    BY <2>2, QuietStep
<1>3. CASE row[o].status = "completed" /\ ~row[o].reactivatingAt
  <2> USE DEF Inv
  <2> DEFINE d == [row[o] EXCEPT !.reactivatingAt = TRUE]
             t == [task[p] EXCEPT !.step = "renew", !.ref = row[o].ref]
  <2>1. row' = [row EXCEPT ![o] = d] /\ task' = [task EXCEPT ![p] = t]
    BY <1>1, <1>3 DEF ClaimReactivation, TypeInv, TypeOK
  <2>2. d \in OrderDoc /\ d.status = row[o].status /\ d.reactivatingAt
    BY <1>1, DocFields, ZenonT(60) DEF OrderDoc, TypeInv
  <2>3. t \in Task /\ t.step = "renew" /\ t.order = o
    BY <1>1, DocFields DEF Task, Step, ReactivateSteps, TypeInv
  <2> HIDE DEF d, t
  <2>4. /\ row' \in [Order -> OrderDoc] /\ OnlyRow(o)
        /\ row'[o].status = "completed" /\ row'[o].reactivatingAt
    BY <1>1, <1>3, <2>1, <2>2, SetRow DEF TypeInv
  <2>5. task' \in [Proc -> Task \cup {Idle}] /\ task'[p] = t /\ OnlyTask(p)
    BY <2>1, <2>3, SetTask DEF TypeInv
  <2>6. TypeInv'
    BY <2>3, <2>4, <2>5, AmountStep
    DEF ClaimReactivation, TypeInv, TypeOK, provider, money
  <2>7. UNCHANGED <<sold, refunded>>
    BY DEF ClaimReactivation, provider, money
  <2>8. FreshOrder'
    BY <1>1, <1>3, <2>3, <2>4, <2>5, <2>7 DEF FreshOrder, OnlyTask, OnlyRow
  <2>9. InsertIsFirst'
    BY <1>1, <1>3, <2>3, <2>4, <2>5, <2>7
    DEF InsertIsFirst, On, OnlyTask, OnlyRow, Idle
  <2>10. RefundAtMostOnce'
    BY <2>3, <2>5, <2>7 DEF RefundAtMostOnce, On, OnlyTask
  <2>11. RefundedIsClosed'
    BY <1>3, <2>3, <2>4, <2>5, <2>7 DEF RefundedIsClosed, On, OnlyTask, OnlyRow
  <2>12. ReactivationExclusive'
    BY <1>1, <1>3, <2>3, <2>4, <2>5
    DEF ReactivationExclusive, On, OnlyTask, OnlyRow
  <2> QED
    BY <2>6, <2>8, <2>9, <2>10, <2>11, <2>12
<1> QED
  BY <1>2, <1>3

(* The process that holds the lock lets go of it: the order is waiting     *)
(* again, or completed as before, or was deleted meanwhile.                *)
LEMMA LetGo ==
  ASSUME Inv, NEW p \in Proc, task[p].step \in ReactivateSteps, TypeInv',
         task'[p] = Idle, OnlyTask(p), OnlyRow(task[p].order),
         UNCHANGED <<sold, refunded>>,
         row[task[p].order].status = "absent" =>
           row'[task[p].order].status = "absent",
         row[task[p].order].status # "absent" =>
           row'[task[p].order].status \in {"waiting", "completed"}
  PROVE  Inv'
<1> USE DEF Inv
<1> DEFINE o == task[p].order
<1>1. o \in Order /\ task[p] # Idle /\ On(p, o, ReactivateSteps)
  BY Busy DEF TypeInv, ReactivateSteps, Idle, On
<1>2. /\ \A q \in Proc \ {p} : ~On(q, o, ReactivateSteps)
      /\ row[o].status \in {"completed", "absent"}
  BY <1>1 DEF ReactivationExclusive
<1>3. FreshOrder'
  BY <1>1 DEF FreshOrder, OnlyTask, OnlyRow
<1>4. InsertIsFirst'
  BY <1>1 DEF InsertIsFirst, On, OnlyTask, OnlyRow, Idle
<1>5. RefundAtMostOnce'
  BY DEF RefundAtMostOnce, On, OnlyTask, Idle
<1>6. RefundedIsClosed'
  BY <1>1, <1>2 DEF RefundedIsClosed, On, OnlyTask, OnlyRow, Idle
<1>7. ReactivationExclusive'
  BY <1>1, <1>2
  DEF ReactivationExclusive, On, OnlyTask, OnlyRow, Idle, ReactivateSteps
<1> QED
  BY <1>3, <1>4, <1>5, <1>6, <1>7

(* A reopened document is a document.                                      *)
LEMMA ReopenedType ==
  ASSUME NEW d \in OrderDoc, NEW r \in Ref
  PROVE  /\ Reopened(d, r) \in OrderDoc
         /\ Reopened(d, r).status = "waiting"
         /\ Reopened(d, r).otp = 0
         /\ Reopened(d, r).price = d.price
         /\ Reopened(d, r).act = d.act + 1
<1>1. d.act + 1 \in Nat
  BY DEF OrderDoc
<1> QED
  BY <1>1 DEF Reopened, OrderDoc, Status

(* The order waits again.                                                  *)
LEMMA ReopenStep ==
  ASSUME Inv, NEW p \in Proc, Reopen(p)
  PROVE  Inv'
<1> DEFINE o == task[p].order
           d == Reopened(row[o], task[p].ref)
<1>1. task[p].step = "reopen" /\ o \in Order /\ task[p].ref \in Ref
  BY Busy DEF Reopen, At, Inv, TypeInv
<1>2. d \in OrderDoc /\ d.status = "waiting"
  BY <1>1, DocFields, ReopenedType DEF Inv, TypeInv
<1>3. \/ row[o].status = "absent" /\ UNCHANGED row
      \/ row[o].status # "absent" /\ row' = [row EXCEPT ![o] = d]
  BY <1>1 DEF Reopen, Inv, TypeInv, TypeOK
<1> HIDE DEF d
<1>4. /\ row' \in [Order -> OrderDoc] /\ OnlyRow(o)
      /\ row[o].status = "absent" => row'[o].status = "absent"
      /\ row[o].status # "absent" => row'[o].status = "waiting"
  BY <1>1, <1>2, <1>3, SetRow DEF Inv, TypeInv, TypeOK, OnlyRow
<1>5. task' \in [Proc -> Task \cup {Idle}] /\ task'[p] = Idle /\ OnlyTask(p)
  BY ReturnTask DEF Reopen, Inv, TypeInv
<1>6. TypeInv'
  <2>1. AmountIsPrice'
    BY <1>5, AmountStep DEF Inv, Idle
  <2> QED
    BY <1>4, <1>5, <2>1 DEF Reopen, Inv, TypeInv, TypeOK, provider, money
<1> QED
  BY <1>1, <1>4, <1>5, <1>6, LetGo DEF Reopen, provider, money, ReactivateSteps

(* The catch block drops the lock.                                         *)
LEMMA UnlockStep ==
  ASSUME Inv, NEW p \in Proc, Unlock(p)
  PROVE  Inv'
<1> DEFINE o == task[p].order
           d == [row[o] EXCEPT !.reactivatingAt = FALSE]
<1>1. task[p].step = "unlock" /\ o \in Order
  BY Busy DEF Unlock, At, Inv, TypeInv
<1>2. d \in OrderDoc /\ d.status = row[o].status
  BY <1>1, DocFields DEF OrderDoc, Inv, TypeInv
<1>3. row' = [row EXCEPT ![o] = d]
  BY <1>1 DEF Unlock, Inv, TypeInv, TypeOK
<1> HIDE DEF d
<1>4. row' \in [Order -> OrderDoc] /\ row'[o].status = row[o].status /\ OnlyRow(o)
  BY <1>1, <1>2, <1>3, SetRow DEF Inv, TypeInv
<1>5. task' \in [Proc -> Task \cup {Idle}] /\ task'[p] = Idle /\ OnlyTask(p)
  BY ReturnTask DEF Unlock, Inv, TypeInv
<1>6. TypeInv'
  <2>1. AmountIsPrice'
    BY <1>5, AmountStep DEF Inv, Idle
  <2> QED
    BY <1>4, <1>5, <2>1 DEF Unlock, Inv, TypeInv, TypeOK, provider, money
<1>7. row[o].status \in {"completed", "absent"}
  BY <1>1 DEF Inv, ReactivationExclusive, On, ReactivateSteps
<1> QED
  BY <1>1, <1>4, <1>5, <1>6, <1>7, LetGo
  DEF Unlock, provider, money, ReactivateSteps

-----------------------------------------------------------------------------
(* The invariant holds at first,                                           *)
LEMMA InitInv ==
  Init => Inv
<1> SUFFICES ASSUME Init PROVE Inv
  OBVIOUS
<1>1. NoDoc \in OrderDoc
  BY BoundAssumption DEF NoDoc, OrderDoc, Status, Ref
<1>2. [phase |-> "unused", act |-> 0] \in Line
  BY DEF Line, Phase
<1>3. TypeOK
  BY <1>1, <1>2, WalletAssumption, BoundAssumption DEF Init, TypeOK
<1>4. /\ \A p \in Proc : task[p] = Idle
      /\ \A o \in Order : row[o].status = "absent" /\ refunded[o] = <<>>
  BY DEF Init, NoDoc
<1>5. AmountIsPrice /\ FreshOrder /\ InsertIsFirst
  BY <1>4 DEF AmountIsPrice, FreshOrder, InsertIsFirst, On, Idle
<1>6. RefundAtMostOnce /\ RefundedIsClosed /\ ReactivationExclusive
  BY <1>4 DEF RefundAtMostOnce, RefundedIsClosed, ReactivationExclusive, On,
              Idle, ReactivateSteps
<1> QED
  BY <1>3, <1>5, <1>6 DEF Inv, TypeInv

(* every step preserves it,                                                *)
LEMMA NextInv ==
  Inv /\ [Next]_vars => Inv'
<1> SUFFICES ASSUME Inv, [Next]_vars PROVE Inv'
  OBVIOUS
<1>1. ASSUME NEW p \in Proc, NEW o \in Order, Start(p, o) PROVE Inv'
  BY <1>1, RentStep, StartQuiet, QuietStep DEF Start, Inv
<1>2. ASSUME NEW p \in Proc, Create(p) PROVE Inv'
  BY <1>2, CreateStep, UndoStep, CreateQuiet, QuietStep DEF Create, Inv
<1>3. ASSUME NEW p \in Proc, Deliver(p) PROVE Inv'
  BY <1>3, ApplyStep, DeliverQuiet, QuietStep DEF Deliver, Inv
<1>4. ASSUME NEW p \in Proc, Refund(p) PROVE Inv'
  BY <1>4, ClaimStep, CreditStep, RefundQuiet, QuietStep DEF Refund, Inv
<1>5. ASSUME NEW p \in Proc, Finish(p) PROVE Inv'
  BY <1>5, FinishQuiet, QuietStep DEF Finish, Inv
<1>6. ASSUME NEW p \in Proc, Reactivate(p) PROVE Inv'
  BY <1>6, ClaimReactivationStep, RenewQuiet, ReactivateQuiet, QuietStep,
     ReopenStep, UnlockStep DEF Reactivate, Inv
<1>7. ASSUME NEW p \in Proc, Crash(p) PROVE Inv'
  BY <1>7, CrashQuiet, QuietStep DEF Inv
<1>8. ASSUME NEW o \in Order, World(o) PROVE Inv'
  BY <1>8, WorldQuiet, QuietStep DEF Inv
<1>9. CASE UNCHANGED vars
  BY <1>9, StutterQuiet, QuietStep DEF Inv
<1> QED
  BY <1>1, <1>2, <1>3, <1>4, <1>5, <1>6, <1>7, <1>8, <1>9 DEF Next, Continue

(* and so it always holds.                                                 *)
LEMMA InvHolds == Spec => []Inv
<1> QED
  BY InitInv, NextInv, PTL DEF Spec

(* The variables hold what TypeOK says, whatever the constants are.        *)
THEOREM TypeCorrect == Spec => []TypeOK
<1>1. Inv => TypeOK
  BY DEF Inv, TypeInv
<1> QED
  BY <1>1, InvHolds, PTL

(* No order is ever refunded twice: the claim of refundWaitingOrder is     *)
(* enough, with any number of workers, customers and admins, in both       *)
(* database modes and with processes dying.                                *)
THEOREM RefundsOnce == Spec => []RefundAtMostOnce
<1>1. Inv => RefundAtMostOnce
  BY DEF Inv
<1> QED
  BY <1>1, InvHolds, PTL

(* No refunded order waits for a code or has one: a refund and a delivered *)
(* code exclude each other.                                                *)
THEOREM RefundsClose == Spec => []RefundedIsClosed
<1>1. Inv => RefundedIsClosed
  BY DEF Inv
<1> QED
  BY <1>1, InvHolds, PTL

(* The lock of reactivateOrder is a lock: one process at a time buys       *)
(* another code for an order, and nobody moves the order on meanwhile.     *)
THEOREM ReactivationsExclude == Spec => []ReactivationExclusive
<1>1. Inv => ReactivationExclusive
  BY DEF Inv
<1> QED
  BY <1>1, InvHolds, PTL

-----------------------------------------------------------------------------
(* Who moves, and what is written.                                         *)

(* One process moves at a time.                                            *)
LEMMA OneMoves ==
  ASSUME TypeOK, NEW p \in Proc,
         (\E o \in Order : Start(p, o)) \/ Continue(p) \/ Crash(p)
  PROVE  OnlyTask(p)
<1> DEFINE Moved == \E t : task' = [task EXCEPT ![p] = t]
<1>1. Moved => OnlyTask(p)
  BY DEF TypeOK, OnlyTask
<1>2. (\E s : Goto(p, s)) \/ Return(p) => Moved
  BY DEF Goto, Return, TypeOK
<1>3. ASSUME NEW o \in Order, Start(p, o) PROVE Moved
  BY <1>3
  DEF Start, Rent, StartPoll, StartDeliver, StartExpiry, StartCancel,
      StartAdminCancel, StartFinish, StartReactivate, Begin
<1>4. Create(p) => Moved
  BY <1>2
  DEF Create, InsertPaid, InsertFails, Insert, Pay, DebitFor, BookOrder,
      PayFails, Undo, GiveBack, ReleaseLine
<1>5. Deliver(p) => Moved
  BY <1>2 DEF Deliver, PollAnswer, ApplyOtp, StoreMessages
<1>6. Refund(p) => Moved
  BY <1>2
  DEF Refund, ClaimRefund, CreditRefund, BookRefund, ReleaseNumber, ReleaseLine
<1>7. Finish(p) => Moved
  BY <1>2 DEF Finish, SaveFinish, CloseLine
<1>8. Reactivate(p) => Moved
  BY <1>2
  DEF Reactivate, ClaimReactivation, Renew, Repay, DebitFor, BookRenewal,
      Reopen, ReactivationFails, Unlock
<1>9. Crash(p) => Moved
  BY <1>2 DEF Crash
<1> QED
  BY <1>1, <1>3, <1>4, <1>5, <1>6, <1>7, <1>8, <1>9 DEF Continue

(* A document is another, but for its deadline, its marks and its lock.    *)
Alike(d, e) ==
  d.status = e.status /\ d.price = e.price /\ d.act = e.act /\ d.otp = e.otp

(* The steps of a process that write a document, and what they write.      *)
LEMMA Written ==
  ASSUME TypeInv, NEW p \in Proc, task[p].step # "idle", Continue(p)
  PROVE  LET o == task[p].order IN
         \/ UNCHANGED row
         \/ /\ OnlyRow(o)
            /\ \/ /\ InsertPaid(p) \/ Insert(p)
                  /\ row'[o] = NewDoc(task[p].amount)
               \/ /\ Undo(p)
                  /\ row'[o] = NoDoc
               \/ /\ ApplyOtp(p) /\ row[o].status = "waiting"
                  /\ row'[o].status = "completed"
                  /\ row'[o].price = row[o].price /\ row'[o].act = row[o].act
               \/ /\ ClaimRefund(p) /\ row[o].status = "waiting"
                  /\ row'[o].status = task[p].to /\ row'[o].otp = row[o].otp
                  /\ row'[o].price = row[o].price /\ row'[o].act = row[o].act
               \/ /\ \/ SaveFinish(p)
                     \/ ClaimReactivation(p) /\ row[o].status = "completed"
                     \/ Unlock(p)
                  /\ Alike(row[o], row'[o])
               \/ /\ Reopen(p) /\ row[o].status # "absent"
                  /\ row'[o].status = "waiting" /\ row'[o].otp = 0
                  /\ row'[o].price = row[o].price
                  /\ row'[o].act = row[o].act + 1
<1> DEFINE o == task[p].order
<1>1. /\ o \in Order /\ row[o] \in OrderDoc /\ row \in [Order -> OrderDoc]
      /\ task[p].code \in Nat /\ task[p].ref \in Ref
  BY Busy DEF TypeInv, TypeOK
<1>2. \A d : row' = [row EXCEPT ![o] = d] => OnlyRow(o) /\ row'[o] = d
  BY <1>1 DEF OnlyRow
<1>3. CASE Create(p)
  BY <1>2, <1>3
  DEF Create, InsertPaid, InsertFails, Insert, Pay, DebitFor, BookOrder,
      PayFails, Undo, GiveBack, ReleaseLine, orderVars
<1>4. CASE Deliver(p)
  <2>1. CASE ApplyOtp(p) /\ row[o].status = "waiting"
    <3>1. PICK c \in Nat :
            row' = [row EXCEPT ![o].status = "completed", ![o].otp = c]
      BY <1>1, <2>1 DEF ApplyOtp
    <3> DEFINE d == [row[o] EXCEPT !.status = "completed", !.otp = c]
    <3>2. row' = [row EXCEPT ![o] = d]
      BY <1>1, <3>1
    <3>3. d.status = "completed" /\ d.price = row[o].price /\ d.act = row[o].act
      BY <1>1 DEF OrderDoc
    <3> HIDE DEF d
    <3> QED
      BY <1>2, <2>1, <3>2, <3>3
  <2> QED
    BY <1>4, <2>1 DEF Deliver, PollAnswer, ApplyOtp, StoreMessages, orderVars
<1>5. CASE Refund(p)
  <2>1. CASE ClaimRefund(p) /\ row[o].status = "waiting"
    <3> DEFINE d == [row[o] EXCEPT !.status = task[p].to]
    <3>1. row' = [row EXCEPT ![o] = d]
      BY <1>1, <2>1 DEF ClaimRefund
    <3>2. /\ d.status = task[p].to /\ d.otp = row[o].otp
          /\ d.price = row[o].price /\ d.act = row[o].act
      BY <1>1 DEF OrderDoc
    <3> HIDE DEF d
    <3> QED
      BY <1>2, <2>1, <3>1, <3>2
  <2> QED
    BY <1>5, <2>1
    DEF Refund, ClaimRefund, CreditRefund, BookRefund, ReleaseNumber,
        ReleaseLine, orderVars
<1>6. CASE Finish(p)
  <2>1. CASE SaveFinish(p) /\ row[o].status # "absent"
    <3> DEFINE d == [row[o] EXCEPT !.finishedAt = TRUE]
    <3>1. row' = [row EXCEPT ![o] = d]
      BY <1>1, <2>1 DEF SaveFinish
    <3>2. Alike(row[o], d)
      BY <1>1 DEF OrderDoc, Alike
    <3> HIDE DEF d
    <3> QED
      BY <1>2, <2>1, <3>1, <3>2
  <2> QED
    BY <1>6, <2>1 DEF Finish, SaveFinish, CloseLine, orderVars
<1>7. CASE Reactivate(p)
  <2> DEFINE d(b) == [row[o] EXCEPT !.reactivatingAt = b]
  <2>1. \A b \in BOOLEAN : Alike(row[o], d(b))
    BY <1>1 DEF OrderDoc, Alike
  <2>2. CASE /\ ClaimReactivation(p)
             /\ row[o].status = "completed" /\ ~row[o].reactivatingAt
    <3>1. row' = [row EXCEPT ![o] = d(TRUE)]
      BY <1>1, <2>2 DEF ClaimReactivation
    <3> HIDE DEF d
    <3> QED
      BY <1>2, <2>1, <2>2, <3>1
  <2>3. CASE Reopen(p) /\ row[o].status # "absent"
    <3>1. row' = [row EXCEPT ![o] = Reopened(row[o], task[p].ref)]
      BY <1>1, <2>3 DEF Reopen
    <3> QED
      BY <1>1, <1>2, <2>3, <3>1, ReopenedType
  <2>4. CASE Unlock(p)
    <3>1. row' = [row EXCEPT ![o] = d(FALSE)]
      BY <1>1, <2>4 DEF Unlock
    <3> HIDE DEF d
    <3> QED
      BY <1>2, <2>1, <2>4, <3>1
  <2> QED
    BY <1>7, <2>2, <2>3, <2>4
    DEF Reactivate, ClaimReactivation, Renew, Repay, DebitFor, BookRenewal,
        Reopen, ReactivationFails, orderVars
<1> QED
  BY <1>3, <1>4, <1>5, <1>6, <1>7 DEF Continue

(* Time and the provider change no document but its deadline.              *)
LEMMA WorldWrites ==
  ASSUME TypeInv, NEW o \in Order, World(o)
  PROVE  /\ UNCHANGED <<messages, money, task>>
         /\ \A x \in Order : Alike(row[x], row'[x])
<1>1. CASE Tick(o)
  <2> DEFINE d == [row[o] EXCEPT !.clock =
                    IF row[o].clock = "held" THEN "open" ELSE "overdue"]
  <2>1. row[o] \in OrderDoc /\ row \in [Order -> OrderDoc]
    BY DEF TypeInv, TypeOK
  <2>2. row' = [row EXCEPT ![o] = d]
    BY <1>1, <2>1 DEF Tick
  <2>3. Alike(row[o], d)
    BY <2>1 DEF OrderDoc, Alike
  <2> HIDE DEF d
  <2>4. \A x \in Order : row'[x] = IF x = o THEN d ELSE row[x]
    BY <2>1, <2>2
  <2> QED
    BY <1>1, <2>3, <2>4 DEF Tick, Alike
<1>2. CASE ~Tick(o)
  BY <1>2 DEF World, SmsArrives, LineDrops, orderVars, Alike
<1> QED
  BY <1>1, <1>2

-----------------------------------------------------------------------------
(* Without deaths: a code that is shown is kept.                           *)

(* All but the two steps that write codes: a code is kept or wiped, the    *)
(* history grows, and whoever is about to write to it goes on being so.    *)
KeepsCodes ==
  /\ \A o \in Order : row'[o].otp \in {row[o].otp, 0}
  /\ \A o \in Order : messages[o] \subseteq messages'[o]
  /\ \A p \in Proc : task[p].step = "store" => task'[p] = task[p]

LEMMA KeptCodes ==
  ASSUME CodeIsInHistory, KeepsCodes
  PROVE  CodeIsInHistory'
  BY DEF CodeIsInHistory, KeepsCodes, On

(* A process that is not about to write moves, and no document changes but *)
(* in fields other than the code, or to one without a code.                *)
LEMMA KeepsTask ==
  ASSUME NEW p \in Proc, task[p].step # "store", OnlyTask(p),
         UNCHANGED messages,
         \A o \in Order : row'[o].otp \in {row[o].otp, 0}
  PROVE  KeepsCodes
  BY DEF KeepsCodes, OnlyTask

(* What a handler does besides storing a code.                             *)
LEMMA StoreIsAlone ==
  ASSUME NEW p \in Proc, Continue(p)
  PROVE  \/ StoreMessages(p)
         \/ task[p].step \notin {"store", "idle"} /\ UNCHANGED messages
<1>1. CASE Create(p)
  BY <1>1
  DEF Create, InsertPaid, InsertFails, Insert, Pay, DebitFor, BookOrder,
      PayFails, Undo, GiveBack, ReleaseLine, At, orderVars
<1>2. CASE Deliver(p)
  BY <1>2 DEF Deliver, PollAnswer, ApplyOtp, At, orderVars
<1>3. CASE Refund(p)
  BY <1>3
  DEF Refund, ClaimRefund, CreditRefund, BookRefund, ReleaseNumber,
      ReleaseLine, At, orderVars
<1>4. CASE Finish(p)
  BY <1>4 DEF Finish, SaveFinish, CloseLine, At, orderVars
<1>5. CASE Reactivate(p)
  BY <1>5
  DEF Reactivate, ClaimReactivation, Renew, Repay, DebitFor, BookRenewal,
      Reopen, ReactivationFails, Unlock, At, orderVars
<1> QED
  BY <1>1, <1>2, <1>3, <1>4, <1>5 DEF Continue

(* The code is stored.                                                     *)
LEMMA StoreCodes ==
  ASSUME TypeInv, CodeIsInHistory, NEW p \in Proc, StoreMessages(p)
  PROVE  CodeIsInHistory'
<1>1. OnlyTask(p)
  BY OneMoves DEF Continue, Deliver, TypeInv
<1>2. UNCHANGED row /\ task[p].step = "store"
  BY DEF StoreMessages, At
<1>3. /\ \A o \in Order : messages[o] \subseteq messages'[o]
      /\ task[p].order \in Order => task[p].code \in messages'[task[p].order]
  BY DEF StoreMessages, TypeInv, TypeOK
<1> QED
  BY <1>1, <1>2, <1>3 DEF CodeIsInHistory, On, OnlyTask

(* The code is shown, and its process goes on to store it.                 *)
LEMMA ApplyCodes ==
  ASSUME TypeInv, CodeIsInHistory, NEW p \in Proc, ApplyOtp(p)
  PROVE  CodeIsInHistory'
<1> DEFINE o == task[p].order
<1>1. /\ task[p].step = "apply" /\ o \in Order /\ task[p] \in Task
      /\ OnlyTask(p) /\ UNCHANGED messages
  BY Busy, OneMoves DEF ApplyOtp, At, Continue, Deliver, TypeInv
<1>2. CASE row[o].status # "waiting"
  BY <1>1, <1>2, KeepsTask, KeptCodes DEF ApplyOtp
<1>3. CASE row[o].status = "waiting"
  <2>1. PICK code \in {task[p].code, 0} :
          /\ row' = [row EXCEPT ![o].status = "completed", ![o].otp = code]
          /\ Goto(p, "store") \/ code = 0
    BY <1>3 DEF ApplyOtp
  <2>2. row'[o].otp = code /\ OnlyRow(o)
    <3>1. row[o] \in OrderDoc /\ row \in [Order -> OrderDoc]
      BY <1>1 DEF TypeInv, TypeOK
    <3> QED
      BY <1>1, <2>1, <3>1 DEF OnlyRow, OrderDoc
  <2>3. Goto(p, "store") => /\ task'[p].step = "store" /\ task'[p].order = o
                            /\ task'[p].code = task[p].code
    BY <1>1 DEF Goto, Task, TypeInv, TypeOK
  <2>4. ASSUME NEW x \in Order, row'[x].otp # 0
        PROVE  \/ row'[x].otp \in messages'[x]
               \/ \E q \in Proc : On(q, x, {"store"})' /\ task'[q].code = row'[x].otp
    <3>1. CASE x = o
      <4>1. Goto(p, "store") /\ code = task[p].code
        BY <2>1, <2>2, <2>4, <3>1
      <4>2. task'[p].code = row'[x].otp
        BY <2>2, <2>3, <3>1, <4>1
      <4>3. On(p, x, {"store"})'
        BY <2>3, <3>1, <4>1 DEF On
      <4> QED
        BY <4>2, <4>3
    <3>2. CASE x # o
      <4>1. row'[x] = row[x]
        BY <2>2, <3>2 DEF OnlyRow
      <4> QED
        BY <1>1, <2>4, <4>1 DEF CodeIsInHistory, On, OnlyTask
    <3> QED
      BY <3>1, <3>2
  <2> QED
    BY <2>4 DEF CodeIsInHistory, On
<1> QED
  BY <1>2, <1>3

(* Nobody dies: no code is lost.                                           *)
LEMMA CodesStep ==
  ASSUME ~Faults, TypeInv, CodeIsInHistory, [Next]_vars
  PROVE  CodeIsInHistory'
<1>1. ASSUME NEW p \in Proc, Continue(p)
      PROVE  CodeIsInHistory'
  <2>1. CASE StoreMessages(p)
    BY <2>1, StoreCodes
  <2>2. CASE ApplyOtp(p)
    BY <2>2, ApplyCodes
  <2>3. CASE ~StoreMessages(p) /\ ~ApplyOtp(p)
    <3>1. task[p].step \notin {"store", "idle"} /\ UNCHANGED messages
      BY <1>1, <2>3, StoreIsAlone
    <3>2. \A o \in Order : row'[o].otp \in {row[o].otp, 0}
      <4> DEFINE x == task[p].order
      <4>1. \/ UNCHANGED row
            \/ /\ OnlyRow(x)
               /\ \/ row'[x] = NewDoc(task[p].amount)
                  \/ row'[x] = NoDoc
                  \/ row'[x].otp \in {row[x].otp, 0}
        <5> HIDE DEF x
        <5> QED
          BY <1>1, <2>3, <3>1, Written DEF Alike, x
      <4>2. NewDoc(task[p].amount).otp = 0 /\ NoDoc.otp = 0
        BY DEF NewDoc, NoDoc
      <4> HIDE DEF x
      <4> QED
        BY <4>1, <4>2 DEF OnlyRow
    <3>3. OnlyTask(p)
      BY <1>1, OneMoves DEF TypeInv
    <3> QED
      BY <3>1, <3>2, <3>3, KeepsTask, KeptCodes
  <2> QED
    BY <2>1, <2>2, <2>3
<1>2. ASSUME NEW p \in Proc, NEW o \in Order, Start(p, o)
      PROVE  CodeIsInHistory'
  <2>1. task[p] = Idle /\ UNCHANGED <<row, messages>>
    BY <1>2
    DEF Start, Rent, StartPoll, StartDeliver, StartExpiry, StartCancel,
        StartAdminCancel, StartFinish, StartReactivate, Begin, orderVars
  <2>2. OnlyTask(p)
    BY <1>2, OneMoves DEF TypeInv
  <2> QED
    BY <2>1, <2>2, KeepsTask, KeptCodes DEF Idle
<1>3. ASSUME NEW o \in Order, World(o)
      PROVE  CodeIsInHistory'
  BY <1>3, WorldWrites, KeptCodes DEF KeepsCodes, Alike
<1>4. CASE UNCHANGED vars
  BY <1>4, KeptCodes DEF KeepsCodes, vars, orderVars
<1> QED
  BY <1>1, <1>2, <1>3, <1>4 DEF Next, Crash

(* Unless a process dies between the two writes, a code shown on an order  *)
(* is in its history or on its way there.                                  *)
THEOREM CodesAreKept ==
  ASSUME ~Faults
  PROVE  Spec => []CodeIsInHistory
<1>1. Init => CodeIsInHistory
  BY DEF Init, NoDoc, CodeIsInHistory
<1>2. Inv /\ CodeIsInHistory /\ [Next]_vars => CodeIsInHistory'
  BY CodesStep DEF Inv
<1> QED
  BY <1>1, <1>2, InvHolds, PTL DEF Spec

-----------------------------------------------------------------------------
(* With a replica set and without deaths: what is paid, and what the       *)
(* customer sees of it.                                                    *)

Renewed == {"bookRenewal", "reopen"}
Unpaid == {"pay", "bookOrder", "undo"}

(* Nobody creates an order in several writes.                              *)
OneTransaction == \A p \in Proc : task[p].step \notin Unpaid

(* What is not there has no price, and no activation.                      *)
AbsentIsEmpty ==
  \A o \in Order : row[o].status = "absent" =>
    row[o].price = 0 /\ row[o].act = 0

(* What is being reactivated is there.                                     *)
RenewedExists ==
  \A p \in Proc, o \in Order :
    On(p, o, ReactivateSteps) => row[o].status # "absent"

(* What was paid for a reactivation is a price.                            *)
RenewalIsPrice ==
  \A p \in Proc : task[p].step \in Renewed => task[p].amount \in Price

PaidInv ==
  /\ OneTransaction
  /\ AbsentIsEmpty
  /\ RenewedExists
  /\ RenewalIsPrice
  /\ ChargedPerActivation
  /\ IsFiniteSet(Coins)

(* A step of the program, as the customer sees it.                         *)
Seen == PaidInv' /\ StatusStep /\ [P!Next]_(P!dealVars)

(* Coins are counted one process at a time.                                *)
LEMMA AddCoins ==
  ASSUME NEW R, IsFiniteSet(R), NEW p, NEW n \in Nat,
         \A i : <<p, i>> \notin R
  PROVE  /\ IsFiniteSet(R \cup ({p} \X (1..n)))
         /\ Cardinality(R \cup ({p} \X (1..n))) = Cardinality(R) + n
<1> DEFINE C == {p} \X (1..n)
<1>1. IsFiniteSet({p}) /\ Cardinality({p}) = 1
  BY FS_Singleton
<1>2. IsFiniteSet(1..n) /\ Cardinality(1..n) = n
  BY FS_Interval
<1>3. IsFiniteSet(C) /\ Cardinality(C) = n
  <2>1. \A S, T : IsFiniteSet(S) /\ IsFiniteSet(T) =>
          /\ IsFiniteSet(S \X T)
          /\ Cardinality(S \X T) = Cardinality(S) * Cardinality(T)
    BY FS_Product
  <2>2. IsFiniteSet(C) /\ Cardinality(C) = 1 * n
    BY <1>1, <1>2, <2>1
  <2> QED
    BY <2>2
<1>4. R \cap C = {}
  OBVIOUS
<1>5. Cardinality({}) = 0 /\ Cardinality(R) \in Nat
  BY FS_EmptySet, FS_CardinalityType
<1> HIDE DEF C
<1>6. /\ IsFiniteSet(R \cup C)
      /\ Cardinality(R \cup C) = Cardinality(R) + n
  BY <1>3, <1>4, <1>5, FS_Union
<1> QED
  BY <1>6 DEF C

(* The process that moves brings the difference.                           *)
LEMMA CoinsStep ==
  ASSUME IsFiniteSet(Coins), NEW p \in Proc, OnlyTask(p),
         Carries(p) \in Nat, Carries(p)' \in Nat
  PROVE  /\ IsFiniteSet(Coins)'
         /\ InTransit \in Nat
         /\ Carries(p) <= InTransit
         /\ InTransit' = InTransit - Carries(p) + Carries(p)'
<1> DEFINE R == UNION {{q} \X (1..Carries(q)) : q \in Proc \ {p}}
           a == Carries(p)
           b == Carries(p)'
<1>1. \A q \in Proc \ {p} : Carries(q)' = Carries(q)
  BY DEF OnlyTask, Carries
<1>2. Coins = R \cup ({p} \X (1..a))
  BY DEF Coins
<1>3. Coins' = R \cup ({p} \X (1..b))
  BY <1>1 DEF Coins
<1>4. \A i : <<p, i>> \notin R
  OBVIOUS
<1>5. IsFiniteSet(R) /\ Cardinality(R) \in Nat
  <2> HIDE DEF R
  <2> QED
    BY <1>2, FS_Subset, FS_CardinalityType
<1>6. a \in Nat /\ b \in Nat
  OBVIOUS
<1> HIDE DEF R, a, b
<1>7. Cardinality(Coins) = Cardinality(R) + a
  BY <1>2, <1>4, <1>5, <1>6, AddCoins
<1>8. IsFiniteSet(Coins') /\ Cardinality(Coins') = Cardinality(R) + b
  BY <1>3, <1>4, <1>5, <1>6, AddCoins
<1>9. /\ Cardinality(Coins) \in Nat /\ a <= Cardinality(Coins)
      /\ Cardinality(Coins') = Cardinality(Coins) - a + b
  BY <1>5, <1>6, <1>7, <1>8
<1> QED
  BY <1>8, <1>9 DEF InTransit, a, b

Renewing(o) == \E p \in Proc : On(p, o, Renewed)

(* The customer sees of the documents what is alike.                       *)
LEMMA SameDeals ==
  ASSUME \A o \in Order : Alike(row[o], row'[o])
  PROVE  UNCHANGED Deals
<1>1. \A o \in Order : DealOf(row'[o]) = DealOf(row[o])
  BY DEF Alike, DealOf
<1> QED
  BY <1>1 DEF Deals

(* One process moves on, and neither documents nor money do.               *)
Unseen(p) ==
  /\ \A o \in Order : Alike(row[o], row'[o])
  /\ UNCHANGED <<balance, charged>>
  /\ OnlyTask(p)
  /\ \/ /\ task[p].step \notin Renewed \cup {"credit"}
        /\ task'[p].step \notin Renewed \cup {"credit"} \cup Unpaid
        /\ task'[p].step \in ReactivateSteps =>
             row[task'[p].order].status # "absent"
     \/ /\ task[p].step = "bookRenewal" /\ task'[p].step = "reopen"
        /\ task'[p].order = task[p].order /\ task'[p].amount = task[p].amount

LEMMA UnseenStep ==
  ASSUME Inv, PaidInv, NEW p \in Proc, Unseen(p)
  PROVE  Seen
<1> USE DEF PaidInv
<1>1. OneTransaction'
  BY DEF Unseen, OneTransaction, OnlyTask, Unpaid
<1>2. AbsentIsEmpty'
  BY DEF Unseen, AbsentIsEmpty, Alike
<1>3. RenewedExists'
  <2> SUFFICES ASSUME NEW q \in Proc, NEW o \in Order, On(q, o, ReactivateSteps)'
               PROVE  row'[o].status # "absent"
    BY DEF RenewedExists, On
  <2>1. row'[o].status = row[o].status
    BY DEF Unseen, Alike
  <2>2. row[o].status # "absent"
    BY DEF Unseen, RenewedExists, On, OnlyTask, ReactivateSteps
  <2> QED
    BY <2>1, <2>2
<1>4. RenewalIsPrice'
  BY DEF Unseen, RenewalIsPrice, OnlyTask, Renewed
<1>5. ChargedPerActivation'
  <2>1. \A o \in Order : Renewing(o)' <=> Renewing(o)
    BY DEF Unseen, Renewing, On, OnlyTask, Renewed
  <2> QED
    BY <2>1 DEF ChargedPerActivation, Renewing, Renewed, Unseen, Alike
<1>6. IsFiniteSet(Coins)' /\ UNCHANGED P!dealVars
  <2>1. UNCHANGED Coins
    <3>1. \A q \in Proc : Carries(q)' = Carries(q)
      BY DEF Unseen, Carries, OnlyTask, Renewed
    <3> QED
      BY <3>1 DEF Coins
  <2> QED
    BY <2>1, SameDeals DEF Unseen, P!dealVars, Purse, InTransit
<1>7. StatusStep
  BY DEF StatusStep, Unseen, Alike
<1> QED
  BY <1>1, <1>2, <1>3, <1>4, <1>5, <1>6, <1>7 DEF Seen

(* Nothing moves but the clock, or the provider.                           *)
LEMMA StillStep ==
  ASSUME PaidInv, UNCHANGED <<balance, charged, task>>,
         \A o \in Order : Alike(row[o], row'[o])
  PROVE  Seen
<1>1. UNCHANGED Coins
  BY DEF Coins, Carries
<1>2. PaidInv'
  BY <1>1
  DEF PaidInv, OneTransaction, AbsentIsEmpty, RenewedExists, RenewalIsPrice,
      ChargedPerActivation, On, Alike
<1>3. StatusStep
  BY DEF StatusStep, Alike
<1>4. UNCHANGED P!dealVars
  BY <1>1, SameDeals DEF P!dealVars, Purse, InTransit
<1> QED
  BY <1>2, <1>3, <1>4 DEF Seen

(* To be done is not seen,                                                 *)
LEMMA UnseenReturn ==
  ASSUME TypeInv, NEW p \in Proc, Return(p),
         task[p].step \notin Renewed \cup {"credit"},
         \A o \in Order : Alike(row[o], row'[o]), UNCHANGED <<balance, charged>>
  PROVE  Unseen(p)
<1>1. task'[p] = Idle /\ OnlyTask(p)
  BY ReturnTask DEF TypeInv
<1> QED
  BY <1>1 DEF Unseen, Idle, Renewed, Unpaid, ReactivateSteps

(* nor is to go on, but to where money is in hand.                         *)
LEMMA UnseenGoto ==
  ASSUME TypeInv, PaidInv, NEW p \in Proc, NEW s \in Step, Goto(p, s),
         task[p].step \notin Renewed \cup {"credit", "idle"},
         s \notin Renewed \cup {"credit"} \cup Unpaid,
         s \in ReactivateSteps => task[p].step \in ReactivateSteps,
         \A o \in Order : Alike(row[o], row'[o]), UNCHANGED <<balance, charged>>
  PROVE  Unseen(p)
<1>1. /\ task'[p].step = s /\ task'[p].order = task[p].order /\ OnlyTask(p)
      /\ task[p].order \in Order
  BY GotoTask, Busy DEF TypeInv
<1>2. s \in ReactivateSteps => row[task[p].order].status # "absent"
  BY <1>1 DEF PaidInv, RenewedExists, On
<1> QED
  BY <1>1, <1>2 DEF Unseen

(* Documents that stand still are alike.                                   *)
LEMMA SameAlike ==
  ASSUME UNCHANGED row
  PROVE  \A o \in Order : Alike(row[o], row'[o])
  BY DEF Alike

(* Whoever begins has touched nothing yet.                                 *)
LEMMA UnseenStart ==
  ASSUME TypeInv, NEW p \in Proc, NEW o \in Order, Start(p, o)
  PROVE  Unseen(p)
<1>1. /\ task[p] = Idle /\ UNCHANGED <<row, balance, charged>>
      /\ \E t : /\ task' = [task EXCEPT ![p] = t]
                /\ t.step \in {"insert", "poll", "apply", "claim", "finish", "lock"}
  <2> DEFINE Taken(t) ==
        /\ task[p] = Idle /\ UNCHANGED <<row, balance, charged>>
        /\ task' = [task EXCEPT ![p] = t]
  <2>1. \A s : Snapshot(o, s).step = s
    BY DEF Snapshot
  <2>2. ASSUME NEW c \in Price, Rent(p, o, c)
        PROVE  \E t : Taken(t) /\ t.step = "insert"
    <3> DEFINE t == [Snapshot(o, "insert") EXCEPT !.ref = 1, !.amount = c]
    <3>1. t.step = "insert"
      BY DEF Snapshot
    <3>2. Taken(t)
      BY <2>2 DEF Rent, Begin, orderVars, money
    <3> QED
      BY <3>1, <3>2
  <2>3. ASSUME StartDeliver(p, o)
        PROVE  \E t : Taken(t) /\ t.step = "apply"
    <3> DEFINE t(m) == [Snapshot(o, "apply") EXCEPT !.code = m.act]
    <3>1. \A m : t(m).step = "apply"
      BY DEF Snapshot
    <3>2. \E m : Taken(t(m))
      BY <2>3 DEF StartDeliver, Begin, orderVars, money
    <3> HIDE DEF t
    <3> QED
      BY <3>1, <3>2
  <2>4. ASSUME StartExpiry(p, o)
        PROVE  \E t : Taken(t) /\ t.step = "claim"
    <3> DEFINE t == [Snapshot(o, "claim") EXCEPT !.to = "expired"]
    <3>1. t.step = "claim"
      BY DEF Snapshot
    <3>2. Taken(t)
      BY <2>4 DEF StartExpiry, Begin, orderVars, money
    <3> QED
      BY <3>1, <3>2
  <2>5. ASSUME StartReactivate(p, o)
        PROVE  \E t : Taken(t) /\ t.step = "lock"
    <3> DEFINE t == [Snapshot(o, "lock") EXCEPT !.amount = balance]
    <3>1. t.step = "lock"
      BY DEF Snapshot
    <3>2. Taken(t)
      BY <2>5 DEF StartReactivate, Begin, orderVars, money
    <3> QED
      BY <3>1, <3>2
  <2>6. CASE \/ StartPoll(p, o) \/ StartCancel(p, o)
             \/ StartAdminCancel(p, o) \/ StartFinish(p, o)
    BY <2>1, <2>6
    DEF StartPoll, StartCancel, StartAdminCancel, StartFinish, Begin, orderVars, money
  <2> QED
    BY <2>2, <2>3, <2>4, <2>5, <2>6 DEF Start
<1>2. /\ OnlyTask(p)
      /\ task'[p].step \in {"insert", "poll", "apply", "claim", "finish", "lock"}
  BY <1>1 DEF OnlyTask, TypeInv, TypeOK
<1> QED
  BY <1>1, <1>2, SameAlike
  DEF Unseen, Idle, Renewed, Unpaid, ReactivateSteps

(* Creation, but for the one write.                                        *)
LEMMA UnseenCreate ==
  ASSUME Transactional, ~Faults, TypeInv, PaidInv,
         NEW p \in Proc, Create(p), ~InsertPaid(p)
  PROVE  Unseen(p)
<1>1. InsertFails(p) \/ GiveBack(p)
  BY DEF Create, Insert, Pay, BookOrder, PayFails, Undo, At, PaidInv,
         OneTransaction, Unpaid
<1>2. UNCHANGED <<row, balance, charged>>
  BY <1>1 DEF InsertFails, GiveBack, ReleaseLine, orderVars, money
<1>3. CASE InsertFails(p)
  <2>1. task[p].step = "insert" /\ Goto(p, "giveback")
    BY <1>3 DEF InsertFails, At
  <2> QED
    BY <1>2, <2>1, SameAlike, UnseenGoto
    DEF Step, CreateSteps, Renewed, Unpaid, ReactivateSteps
<1>4. CASE GiveBack(p)
  <2>1. task[p].step = "giveback" /\ Return(p)
    BY <1>4 DEF GiveBack, ReleaseLine, At
  <2> QED
    BY <1>2, <2>1, SameAlike, UnseenReturn DEF Renewed
<1> QED
  BY <1>1, <1>3, <1>4

(* Polling, the history, and a code that comes too late.                   *)
LEMMA UnseenDeliver ==
  ASSUME TypeInv, NEW p \in Proc, Deliver(p),
         ApplyOtp(p) => row[task[p].order].status # "waiting"
  PROVE  Unseen(p)
<1>1. UNCHANGED <<row, balance, charged>>
  BY DEF Deliver, PollAnswer, ApplyOtp, StoreMessages, orderVars, money
<1>2. CASE ApplyOtp(p) \/ StoreMessages(p)
  <2>1. task[p].step \in {"apply", "store"} /\ Return(p)
    BY <1>2 DEF ApplyOtp, StoreMessages, At
  <2> QED
    BY <1>1, <2>1, SameAlike, UnseenReturn DEF Renewed
<1>3. CASE PollAnswer(p)
  <2>1. task[p].step = "poll" /\ task[p] \in Task
    BY <1>3, Busy DEF PollAnswer, At, TypeInv
  <2>2. \/ task'[p].step \in {"apply", "claim"}
        \/ task'[p] = Idle
    BY <1>3, <2>1 DEF PollAnswer, Return, Task, TypeInv, TypeOK
  <2>3. OnlyTask(p)
    BY <1>3, OneMoves DEF Continue, Deliver, TypeInv
  <2> QED
    BY <1>1, <2>1, <2>2, <2>3, SameAlike
    DEF Unseen, Idle, Renewed, Unpaid, ReactivateSteps
<1> QED
  BY <1>2, <1>3 DEF Deliver

(* A refund that comes too late, or is made.                               *)
LEMMA UnseenRefund ==
  ASSUME TypeInv, PaidInv, NEW p \in Proc, Refund(p), ~CreditRefund(p),
         ClaimRefund(p) => row[task[p].order].status # "waiting"
  PROVE  Unseen(p)
<1>1. UNCHANGED <<row, balance, charged>>
  BY DEF Refund, ClaimRefund, BookRefund, Book, ReleaseNumber, ReleaseLine,
         orderVars, money
<1>2. CASE ClaimRefund(p) \/ ReleaseNumber(p)
  <2>1. task[p].step \in {"claim", "release"} /\ Return(p)
    BY <1>2 DEF ClaimRefund, ReleaseNumber, ReleaseLine, At
  <2> QED
    BY <1>1, <2>1, SameAlike, UnseenReturn DEF Renewed
<1>3. CASE BookRefund(p)
  <2>1. task[p].step = "bookRefund" /\ Goto(p, "release")
    BY <1>3 DEF BookRefund, At
  <2> QED
    BY <1>1, <2>1, SameAlike, UnseenGoto
    DEF Step, RefundSteps, Renewed, Unpaid, ReactivateSteps
<1> QED
  BY <1>2, <1>3 DEF Refund

(* finishOrder.                                                            *)
LEMMA UnseenFinish ==
  ASSUME TypeInv, PaidInv, NEW p \in Proc, Finish(p)
  PROVE  Unseen(p)
<1>1. task[p].step \in {"finish", "close"} /\ UNCHANGED <<balance, charged>>
  BY DEF Finish, SaveFinish, CloseLine, At, money
<1>2. \A o \in Order : Alike(row[o], row'[o])
  <2> DEFINE x == task[p].order
  <2>1. UNCHANGED row \/ (OnlyRow(x) /\ Alike(row[x], row'[x]))
    <3>1. ~(\/ InsertPaid(p) \/ Insert(p) \/ Undo(p) \/ ApplyOtp(p)
            \/ ClaimRefund(p) \/ ClaimReactivation(p) \/ Reopen(p) \/ Unlock(p))
      BY <1>1
      DEF InsertPaid, Insert, Undo, ApplyOtp, ClaimRefund, ClaimReactivation,
          Reopen, Unlock, At
    <3> HIDE DEF x
    <3> QED
      BY <1>1, <3>1, Written DEF Continue, x
  <2> HIDE DEF x
  <2> QED
    BY <2>1 DEF OnlyRow, Alike
<1>3. Goto(p, "close") \/ Return(p)
  BY DEF Finish, SaveFinish, CloseLine
<1> QED
  BY <1>1, <1>2, <1>3, UnseenGoto, UnseenReturn
  DEF Step, Renewed, Unpaid, ReactivateSteps

(* reactivateOrder, but for its debit and its last write.                  *)
LEMMA UnseenReactivate ==
  ASSUME ~Faults, TypeInv, PaidInv, NEW p \in Proc, Reactivate(p),
         ~Repay(p), ~Reopen(p)
  PROVE  Unseen(p)
<1> DEFINE x == task[p].order
<1>1. /\ UNCHANGED <<balance, charged>>
      /\ task[p].step \in {"lock", "renew", "repay", "bookRenewal", "unlock"}
  BY DEF Reactivate, ClaimReactivation, Renew, BookRenewal, Book,
         ReactivationFails, Unlock, At, money
<1>2. task[p] \in Task /\ x \in Order /\ OnlyTask(p)
  BY <1>1, Busy, OneMoves DEF TypeInv, Continue
<1>3. \A o \in Order : Alike(row[o], row'[o])
  <2>1. ~(\/ InsertPaid(p) \/ Insert(p) \/ Undo(p) \/ ApplyOtp(p)
          \/ ClaimRefund(p) \/ SaveFinish(p))
    BY <1>1 DEF InsertPaid, Insert, Undo, ApplyOtp, ClaimRefund, SaveFinish, At
  <2> HIDE DEF x
  <2>2. UNCHANGED row \/ (OnlyRow(x) /\ Alike(row[x], row'[x]))
    BY <1>1, <2>1, Written DEF Continue, x
  <2> QED
    BY <2>2 DEF OnlyRow, Alike
<1>4. CASE ClaimReactivation(p)
  <2>1. \/ Return(p)
        \/ /\ row[x].status = "completed"
           /\ task' = [task EXCEPT ![p].step = "renew", ![p].ref = row[x].ref]
    BY <1>4 DEF ClaimReactivation
  <2>2. \/ Return(p)
        \/ /\ row[x].status = "completed"
           /\ task'[p].step = "renew" /\ task'[p].order = x
    BY <1>2, <2>1 DEF Task, TypeInv, TypeOK
  <2>3. task[p].step = "lock"
    BY <1>4 DEF ClaimReactivation, At
  <2> QED
    BY <1>1, <1>2, <1>3, <2>2, <2>3, UnseenReturn DEF Unseen, Renewed, Unpaid
<1>5. ASSUME NEW c \in Price, Renew(p, c)
      PROVE  Unseen(p)
  <2>1. task'[p].step = "repay" /\ task'[p].order = x
    BY <1>2, <1>5 DEF Renew, Task, TypeInv, TypeOK
  <2>2. task[p].step = "renew" /\ row[x].status # "absent"
    BY <1>2, <1>5 DEF Renew, At, PaidInv, RenewedExists, On, ReactivateSteps
  <2> QED
    BY <1>1, <1>2, <1>3, <2>1, <2>2 DEF Unseen, Renewed, Unpaid
<1>6. CASE BookRenewal(p)
  <2>1. task[p].step = "bookRenewal" /\ Goto(p, "reopen")
    BY <1>6 DEF BookRenewal, At
  <2>2. /\ task'[p].step = "reopen"
        /\ task'[p].order = x /\ task'[p].amount = task[p].amount
    BY <2>1, GotoTask DEF TypeInv, Step, ReactivateSteps
  <2> QED
    BY <1>1, <1>2, <1>3, <2>1, <2>2 DEF Unseen
<1>7. CASE ReactivationFails(p)
  <2>1. task[p].step \in {"renew", "repay"} /\ Goto(p, "unlock")
    BY <1>7 DEF ReactivationFails, At
  <2> QED
    BY <1>1, <1>3, <2>1, UnseenGoto DEF Step, Renewed, Unpaid, ReactivateSteps
<1>8. CASE Unlock(p)
  <2>1. task[p].step = "unlock" /\ Return(p)
    BY <1>8 DEF Unlock, At
  <2> QED
    BY <1>1, <1>3, <2>1, UnseenReturn DEF Renewed
<1> QED
  BY <1>4, <1>5, <1>6, <1>7, <1>8 DEF Reactivate

(* What ChargedPerActivation says of one order.                            *)
LEMMA ChargedCount ==
  ASSUME PaidInv, NEW o \in Order
  PROVE  /\ Renewing(o) => Len(charged[o]) = row[o].act + 1
         /\ ~Renewing(o) => Len(charged[o]) = row[o].act + 0
  BY DEF PaidInv, ChargedPerActivation, Renewing, Renewed

(* The count of charges goes on.                                           *)
LEMMA ChargedStep ==
  ASSUME ChargedPerActivation, NEW p \in Proc, NEW o \in Order,
         OnlyTask(p), OnlyRow(o),
         task[p].order = o \/ task[p].step \notin Renewed,
         task'[p].order = o \/ task'[p].step \notin Renewed,
         \A x \in Order \ {o} : charged'[x] = charged[x],
         Len(charged'[o]) = row'[o].act + IF Renewing(o)' THEN 1 ELSE 0
  PROVE  ChargedPerActivation'
<1>1. ASSUME NEW x \in Order
      PROVE  Len(charged'[x]) = row'[x].act + IF Renewing(x)' THEN 1 ELSE 0
  <2>1. CASE x = o
    BY <2>1 DEF Renewing, On
  <2>2. CASE x # o
    <3>1. Renewing(x)' <=> Renewing(x)
      BY <2>2 DEF Renewing, On, OnlyTask
    <3> QED
      BY <2>2, <3>1 DEF ChargedPerActivation, Renewing, Renewed, OnlyRow
  <2> QED
    BY <2>1, <2>2
<1> QED
  BY <1>1 DEF ChargedPerActivation, Renewing, Renewed

(* The rest of PaidInv, when a document is written or money moves.         *)
LEMMA PaidStep ==
  ASSUME PaidInv, NEW p \in Proc, NEW o \in Order, task[p].order = o,
         OnlyTask(p), OnlyRow(o), ChargedPerActivation', IsFiniteSet(Coins)',
         \/ row'[o].status # "absent"
         \/ row'[o] = row[o],
         \/ task'[p].step \notin ReactivateSteps \cup Unpaid
         \/ /\ task'[p].step \in Renewed /\ task[p].step \in ReactivateSteps
            /\ task'[p].order = o /\ task'[p].amount \in Price
  PROVE  PaidInv'
<1>1. OneTransaction' /\ AbsentIsEmpty'
  BY DEF PaidInv, OneTransaction, AbsentIsEmpty, OnlyTask, OnlyRow, Unpaid,
         Renewed
<1>2. RenewedExists'
  BY DEF PaidInv, RenewedExists, On, OnlyTask, OnlyRow, Renewed, ReactivateSteps
<1>3. RenewalIsPrice'
  BY DEF PaidInv, RenewalIsPrice, OnlyTask, Renewed, ReactivateSteps
<1> QED
  BY <1>1, <1>2, <1>3 DEF PaidInv

(* What the customer is told of a status.                                  *)
LEMMA StateOf ==
  /\ State("absent") = "none"
  /\ State("waiting") = "open"
  /\ State("completed") = "served"
  /\ \A t \in Terminal : State(t) = "closed"
  BY DEF State, Terminal

(* One deal changes.                                                       *)
LEMMA DealStep ==
  ASSUME NEW o \in Order, OnlyRow(o)
  PROVE  Deals' = [Deals EXCEPT ![o] = DealOf(row'[o])]
  BY DEF Deals, OnlyRow

(* A process has money in hand, or none.                                   *)
LEMMA CarriesNat ==
  ASSUME TypeInv, NEW p \in Proc
  PROVE  Carries(p) \in Nat
  BY Busy DEF Carries, TypeInv

(* The order is written and paid for.                                      *)
LEMMA SeenInsert ==
  ASSUME Inv, PaidInv, NEW p \in Proc, InsertPaid(p),
         NEW o \in Order, task[p].order = o, NEW c, task[p].amount = c
  PROVE  Seen
<1>1. task[p].step = "insert" /\ c \in Price /\ c \in Nat /\ task[p] # Idle
  <2>1. task[p].step = "insert"
    BY DEF InsertPaid, At
  <2>2. c \in Price
    BY <2>1 DEF Inv, TypeInv, AmountIsPrice
  <2> QED
    BY <2>1, <2>2, PriceAssumption DEF Idle
<1>2. /\ row[o].status = "absent" /\ row[o].price = 0 /\ row[o].act = 0
      /\ \A q \in Proc : ~On(q, o, Renewed)
  BY <1>1 DEF Inv, InsertIsFirst, On, PaidInv, AbsentIsEmpty, Renewed, Idle
<1>3. row'[o] = NewDoc(c) /\ OnlyRow(o)
  BY <1>1 DEF InsertPaid, Inv, TypeInv, TypeOK, OnlyRow
<1>4. row'[o].status = "waiting" /\ row'[o].price = c /\ row'[o].act = 1
  BY <1>3 DEF NewDoc, NoDoc
<1>5. task'[p] = Idle /\ OnlyTask(p)
  BY ReturnTask DEF InsertPaid, Inv, TypeInv
<1>6. /\ IsFiniteSet(Coins)' /\ InTransit \in Nat
      /\ InTransit' = InTransit
  <2>1. Carries(p) = 0 /\ Carries(p)' = 0
    BY <1>1, <1>5 DEF Carries, Idle
  <2> QED
    BY <1>5, <2>1, CoinsStep DEF PaidInv
<1>7. balance \in Nat /\ c <= balance /\ balance' = balance - c
  BY DEF InsertPaid, Inv, TypeInv, TypeOK
<1>8. ChargedPerActivation'
  <2>1. charged \in [Order -> Seq(Price)] /\ Len(charged[o]) = 0
    <3>1. ~Renewing(o)
      BY <1>2 DEF Renewing
    <3> QED
      BY <1>2, <3>1, ChargedCount DEF Inv, TypeInv, TypeOK
  <2>2. /\ charged'[o] = Append(charged[o], c)
        /\ \A x \in Order \ {o} : charged'[x] = charged[x]
    BY <1>1, <2>1 DEF InsertPaid
  <2>3. charged[o] \in Seq(Price)
    BY <1>1, <2>1
  <2>4. Len(charged'[o]) = 1
    BY <1>1, <2>1, <2>2, <2>3
  <2>5. ~Renewing(o)'
    BY <1>2, <1>5 DEF Renewing, On, OnlyTask, Idle, Renewed
  <2> QED
    BY <1>3, <1>4, <1>5, <2>2, <2>4, <2>5, ChargedStep DEF PaidInv, Idle, Renewed
<1>9. PaidInv'
  BY <1>3, <1>4, <1>5, <1>6, <1>8, PaidStep DEF Idle, ReactivateSteps, Unpaid
<1>10. StatusStep
  BY <1>1, <1>2, <1>3 DEF StatusStep, OnlyRow, Terminal
<1>11. P!Buy(o, c)
  <2>1. Deals[o] = P!NoDeal
    BY <1>2, StateOf DEF Deals, DealOf, P!NoDeal
  <2>2. DealOf(row'[o]) = [state |-> "open", price |-> c, paid |-> 1]
    BY <1>4, StateOf DEF DealOf
  <2>3. Deals' = [Deals EXCEPT ![o] = [state |-> "open", price |-> c, paid |-> 1]]
    BY <1>3, <2>2, DealStep
  <2>4. c <= Purse /\ Purse' = Purse - c
    BY <1>1, <1>6, <1>7 DEF Purse
  <2> QED
    BY <2>1, <2>3, <2>4 DEF P!Buy
<1> QED
  BY <1>1, <1>9, <1>10, <1>11 DEF Seen, P!Next

(* A code arrives.                                                         *)
LEMMA SeenApply ==
  ASSUME TypeInv, PaidInv, NEW p \in Proc, ApplyOtp(p),
         NEW o \in Order, task[p].order = o, row[o].status = "waiting"
  PROVE  Seen
<1>1. task[p].step = "apply"
  BY DEF ApplyOtp, At
<1>2. /\ OnlyRow(o) /\ row'[o].status = "completed"
      /\ row'[o].price = row[o].price /\ row'[o].act = row[o].act
  <2>1. PICK c \in Nat :
          row' = [row EXCEPT ![o].status = "completed", ![o].otp = c]
    <3>1. task[p].code \in Nat
      BY <1>1, Busy DEF TypeInv
    <3> QED
      BY <3>1 DEF ApplyOtp
  <2> DEFINE d == [row[o] EXCEPT !.status = "completed", !.otp = c]
  <2>2. row[o] \in OrderDoc /\ row \in [Order -> OrderDoc]
    BY DEF TypeInv, TypeOK
  <2>3. d.status = "completed" /\ d.price = row[o].price /\ d.act = row[o].act
    BY <2>2 DEF OrderDoc
  <2>4. row' = [row EXCEPT ![o] = d]
    BY <2>1, <2>2
  <2> HIDE DEF d
  <2> QED
    BY <2>2, <2>3, <2>4 DEF OnlyRow
<1>3. OnlyTask(p) /\ task'[p].step \in {"store", "idle"}
  <2>1. Goto(p, "store") \/ Return(p)
    BY DEF ApplyOtp
  <2> QED
    BY <1>1, <2>1, GotoTask, ReturnTask DEF TypeInv, Step, Idle
<1>4. UNCHANGED <<balance, charged>>
  BY DEF ApplyOtp, money
<1>5. IsFiniteSet(Coins)' /\ InTransit' = InTransit
  <2>1. Carries(p) = 0 /\ Carries(p)' = 0
    BY <1>1, <1>3 DEF Carries
  <2> QED
    BY <1>3, <2>1, CoinsStep DEF PaidInv
<1>6. ChargedPerActivation'
  <2>1. Renewing(o)' <=> Renewing(o)
    BY <1>1, <1>3 DEF Renewing, On, OnlyTask, Renewed
  <2>2. Len(charged'[o]) = row'[o].act + IF Renewing(o)' THEN 1 ELSE 0
    BY <1>2, <1>4, <2>1, ChargedCount
  <2> QED
    BY <1>1, <1>2, <1>3, <1>4, <2>2, ChargedStep DEF PaidInv, Renewed
<1>7. PaidInv'
  BY <1>2, <1>3, <1>5, <1>6, PaidStep DEF ReactivateSteps, Unpaid
<1>8. StatusStep
  BY <1>2 DEF StatusStep, OnlyRow, Terminal
<1>9. P!Serve(o)
  <2>1. Deals[o] = DealOf(row[o]) /\ Deals[o].state = "open"
    BY StateOf DEF Deals, DealOf
  <2>2. DealOf(row'[o]) = [DealOf(row[o]) EXCEPT !.state = "served"]
    BY <1>2, StateOf DEF DealOf
  <2>3. Deals' = [Deals EXCEPT ![o].state = "served"]
    BY <1>2, <2>1, <2>2, DealStep DEF Deals
  <2> QED
    BY <1>4, <1>5, <2>1, <2>3 DEF P!Serve, Purse
<1> QED
  BY <1>7, <1>8, <1>9 DEF Seen, P!Next

(* An order is claimed for its refund: for the customer it is closed and   *)
(* repaid, although the credit is yet to come.                             *)
LEMMA SeenClaim ==
  ASSUME TypeInv, PaidInv, NEW p \in Proc, ClaimRefund(p),
         NEW o \in Order, task[p].order = o, row[o].status = "waiting"
  PROVE  Seen
<1>1. task[p].step = "claim" /\ task[p] \in Task /\ task[p].to \in Terminal
  BY Busy DEF ClaimRefund, At, TypeInv
<1>2. /\ row[o] \in OrderDoc /\ row \in [Order -> OrderDoc]
      /\ row[o].price \in Nat
  BY DocFields DEF TypeInv, TypeOK
<1>3. /\ OnlyRow(o) /\ row'[o].status \in Terminal
      /\ row'[o].price = row[o].price /\ row'[o].act = row[o].act
  <2> DEFINE d == [row[o] EXCEPT !.status = task[p].to]
  <2>1. d.status \in Terminal /\ d.price = row[o].price /\ d.act = row[o].act
    BY <1>1, <1>2 DEF OrderDoc
  <2>2. row' = [row EXCEPT ![o] = d]
    BY <1>2 DEF ClaimRefund
  <2> HIDE DEF d
  <2> QED
    BY <1>2, <2>1, <2>2 DEF OnlyRow
<1>4. OnlyTask(p) /\ task'[p].step = "credit" /\ task'[p].amount = row[o].price
  <2> DEFINE t == [task[p] EXCEPT !.step = "credit", !.ref = row[o].ref,
                                  !.amount = row[o].price]
  <2>1. task' = [task EXCEPT ![p] = t]
    BY DEF ClaimRefund, TypeInv, TypeOK
  <2>2. t.step = "credit" /\ t.amount = row[o].price
    BY <1>1 DEF Task
  <2> HIDE DEF t
  <2> QED
    BY <2>1, <2>2 DEF OnlyTask, TypeInv, TypeOK
<1>5. UNCHANGED <<balance, charged>>
  BY DEF ClaimRefund, money
<1>6. /\ IsFiniteSet(Coins)' /\ InTransit \in Nat
      /\ InTransit' = InTransit + row[o].price
  <2>1. Carries(p) = 0 /\ Carries(p)' = row[o].price
    BY <1>1, <1>4 DEF Carries
  <2> QED
    BY <1>2, <1>4, <2>1, CoinsStep DEF PaidInv
<1>7. ChargedPerActivation'
  <2>1. Renewing(o)' <=> Renewing(o)
    BY <1>1, <1>4 DEF Renewing, On, OnlyTask, Renewed
  <2>2. Len(charged'[o]) = row'[o].act + IF Renewing(o)' THEN 1 ELSE 0
    BY <1>3, <1>5, <2>1, ChargedCount
  <2> QED
    BY <1>1, <1>3, <1>4, <1>5, <2>2, ChargedStep DEF PaidInv, Renewed
<1>8. PaidInv'
  BY <1>3, <1>4, <1>6, <1>7, PaidStep DEF ReactivateSteps, Unpaid, Terminal
<1>9. StatusStep
  BY <1>3 DEF StatusStep, OnlyRow, Terminal
<1>10. P!Close(o)
  <2>1. /\ Deals[o] = DealOf(row[o]) /\ Deals[o].state = "open"
        /\ Deals[o].price = row[o].price
    BY StateOf DEF Deals, DealOf
  <2>2. DealOf(row'[o]) = [DealOf(row[o]) EXCEPT !.state = "closed"]
    BY <1>3, StateOf DEF DealOf
  <2>3. Deals' = [Deals EXCEPT ![o].state = "closed"]
    BY <1>3, <2>1, <2>2, DealStep DEF Deals
  <2>4. Purse' = Purse + row[o].price
    BY <1>2, <1>5, <1>6 DEF Purse, TypeInv, TypeOK
  <2> QED
    BY <2>1, <2>3, <2>4 DEF P!Close
<1> QED
  BY <1>8, <1>9, <1>10 DEF Seen, P!Next

(* The credit arrives, and the customer has what he was told he had.       *)
LEMMA SeenCredit ==
  ASSUME TypeInv, PaidInv, NEW p \in Proc, CreditRefund(p),
         NEW o \in Order, task[p].order = o
  PROVE  Seen
<1>1. task[p].step = "credit" /\ task[p].amount \in Nat
  BY Busy DEF CreditRefund, At, TypeInv
<1>2. UNCHANGED <<row, charged>>
  BY DEF CreditRefund, orderVars
<1>3. OnlyTask(p) /\ task'[p].step = "bookRefund" /\ task'[p].order = o
  BY <1>1, GotoTask DEF CreditRefund, TypeInv, Step, RefundSteps
<1>4. /\ IsFiniteSet(Coins)' /\ InTransit \in Nat
      /\ InTransit' = InTransit - task[p].amount
  <2>1. Carries(p) = task[p].amount /\ Carries(p)' = 0
    BY <1>1, <1>3 DEF Carries
  <2> QED
    BY <1>1, <1>3, <2>1, CoinsStep DEF PaidInv
<1>5. ChargedPerActivation'
  <2>1. Renewing(o)' <=> Renewing(o)
    BY <1>1, <1>3 DEF Renewing, On, OnlyTask, Renewed
  <2>2. Len(charged'[o]) = row'[o].act + IF Renewing(o)' THEN 1 ELSE 0
    BY <1>2, <2>1, ChargedCount
  <2> QED
    BY <1>1, <1>2, <1>3, <2>2, ChargedStep DEF PaidInv, Renewed, OnlyRow
<1>6. PaidInv'
  BY <1>2, <1>3, <1>4, <1>5, PaidStep DEF ReactivateSteps, Unpaid, OnlyRow
<1>7. StatusStep
  BY <1>2 DEF StatusStep
<1>8. UNCHANGED P!dealVars
  <2>1. UNCHANGED Deals
    BY <1>2 DEF Deals
  <2>2. UNCHANGED Purse
    BY <1>1, <1>4 DEF Purse, CreditRefund, TypeInv, TypeOK
  <2> QED
    BY <2>1, <2>2 DEF P!dealVars
<1> QED
  BY <1>6, <1>7, <1>8 DEF Seen

(* A reactivation is debited: the money is on its way to the order.        *)
LEMMA SeenRepay ==
  ASSUME Inv, PaidInv, NEW p \in Proc, Repay(p),
         NEW o \in Order, task[p].order = o, NEW c, task[p].amount = c
  PROVE  Seen
<1>1. task[p].step = "repay" /\ On(p, o, ReactivateSteps)
  BY DEF Repay, At, On, ReactivateSteps
<1>2. c \in Price /\ c \in Nat
  BY <1>1, PriceAssumption DEF Inv, TypeInv, AmountIsPrice
<1>3. UNCHANGED row
  BY DEF Repay, DebitFor, orderVars
<1>4. /\ OnlyTask(p) /\ task'[p].step = "bookRenewal"
      /\ task'[p].order = o /\ task'[p].amount = c
  <2>1. Goto(p, "bookRenewal")
    BY DEF Repay, DebitFor
  <2> QED
    BY <1>1, <2>1, GotoTask DEF Inv, TypeInv, Step, ReactivateSteps
<1>5. balance \in Nat /\ c <= balance /\ balance' = balance - c
  BY DEF Repay, DebitFor, Inv, TypeInv, TypeOK
<1>6. /\ IsFiniteSet(Coins)' /\ InTransit \in Nat
      /\ InTransit' = InTransit + c
  <2>1. Carries(p) = 0 /\ Carries(p)' = c
    BY <1>1, <1>4 DEF Carries
  <2> QED
    BY <1>2, <1>4, <2>1, CoinsStep DEF PaidInv
<1>7. ChargedPerActivation'
  <2>1. ~Renewing(o)
    BY <1>1 DEF Inv, ReactivationExclusive, Renewing, On, Renewed, ReactivateSteps
  <2>2. Renewing(o)'
    BY <1>4 DEF Renewing, On, Renewed
  <2>3. charged \in [Order -> Seq(Price)] /\ charged[o] \in Seq(Price)
    BY DEF Inv, TypeInv, TypeOK
  <2>4. charged' = [charged EXCEPT ![o] = Append(charged[o], c)]
    BY <2>3 DEF Repay, DebitFor
  <2>5. /\ Len(charged'[o]) = Len(charged[o]) + 1
        /\ \A x \in Order \ {o} : charged'[x] = charged[x]
    BY <1>2, <2>3, <2>4
  <2>6. row[o].act \in Nat
    BY DocFields DEF Inv, TypeInv
  <2>7. Len(charged'[o]) = row'[o].act + IF Renewing(o)' THEN 1 ELSE 0
    BY <1>3, <2>1, <2>2, <2>5, <2>6, ChargedCount
  <2> QED
    BY <1>1, <1>3, <1>4, <2>5, <2>7, ChargedStep DEF PaidInv, OnlyRow
<1>8. PaidInv'
  BY <1>1, <1>2, <1>3, <1>4, <1>6, <1>7, PaidStep
  DEF OnlyRow, Renewed, ReactivateSteps
<1>9. StatusStep
  BY <1>3 DEF StatusStep
<1>10. UNCHANGED P!dealVars
  <2>1. UNCHANGED Deals
    BY <1>3 DEF Deals
  <2>2. UNCHANGED Purse
    BY <1>2, <1>5, <1>6 DEF Purse
  <2> QED
    BY <2>1, <2>2 DEF P!dealVars
<1> QED
  BY <1>8, <1>9, <1>10 DEF Seen

(* The order waits again: for the customer, it is bought again.            *)
LEMMA SeenReopen ==
  ASSUME Inv, PaidInv, NEW p \in Proc, Reopen(p),
         NEW o \in Order, task[p].order = o, NEW c, task[p].amount = c
  PROVE  Seen
<1>1. task[p].step = "reopen" /\ On(p, o, ReactivateSteps)
  BY DEF Reopen, At, On, ReactivateSteps
<1>2. c \in Price /\ c \in Nat
  BY <1>1, PriceAssumption DEF PaidInv, RenewalIsPrice, Renewed
<1>3. /\ row[o].status = "completed"
      /\ \A q \in Proc \ {p} : ~On(q, o, ReactivateSteps)
  BY <1>1 DEF Inv, ReactivationExclusive, PaidInv, RenewedExists
<1>4. /\ row[o] \in OrderDoc /\ row \in [Order -> OrderDoc]
      /\ row[o].act \in Nat /\ task[p].ref \in Ref
  BY <1>1, DocFields, Busy DEF Inv, TypeInv, TypeOK
<1>5. /\ OnlyRow(o) /\ row'[o].status = "waiting"
      /\ row'[o].price = row[o].price /\ row'[o].act = row[o].act + 1
  <2> DEFINE d == Reopened(row[o], task[p].ref)
  <2>1. row' = [row EXCEPT ![o] = d]
    BY <1>3, <1>4 DEF Reopen
  <2>2. d.status = "waiting" /\ d.price = row[o].price /\ d.act = row[o].act + 1
    BY <1>4, ReopenedType
  <2> HIDE DEF d
  <2> QED
    BY <1>4, <2>1, <2>2 DEF OnlyRow
<1>6. OnlyTask(p) /\ task'[p] = Idle
  BY ReturnTask DEF Reopen, Inv, TypeInv
<1>7. UNCHANGED <<balance, charged>> /\ balance \in Nat
  BY DEF Reopen, money, Inv, TypeInv, TypeOK
<1>8. /\ IsFiniteSet(Coins)' /\ InTransit \in Nat
      /\ c <= InTransit /\ InTransit' = InTransit - c
  <2>1. Carries(p) = c /\ Carries(p)' = 0
    BY <1>1, <1>6 DEF Carries, Idle
  <2> QED
    BY <1>2, <1>6, <2>1, CoinsStep DEF PaidInv
<1>9. Len(charged[o]) = row[o].act + 1
  <2>1. Renewing(o)
    BY <1>1 DEF Renewing, On, Renewed
  <2> QED
    BY <2>1, ChargedCount
<1>10. ChargedPerActivation'
  <2>1. ~Renewing(o)'
    BY <1>3, <1>6 DEF Renewing, On, OnlyTask, Renewed, ReactivateSteps, Idle
  <2>2. Len(charged'[o]) = row'[o].act + IF Renewing(o)' THEN 1 ELSE 0
    BY <1>4, <1>5, <1>7, <1>9, <2>1
  <2> QED
    BY <1>5, <1>6, <1>7, <2>2, ChargedStep DEF PaidInv, Renewed, Idle
<1>11. PaidInv'
  BY <1>5, <1>6, <1>8, <1>10, PaidStep DEF ReactivateSteps, Unpaid, Idle
<1>12. StatusStep
  BY <1>3, <1>4, <1>5, <1>9 DEF StatusStep, OnlyRow, Terminal
<1>13. P!BuyAgain(o, c)
  <2>1. /\ Deals[o] = DealOf(row[o]) /\ Deals[o].state = "served"
        /\ Deals[o].price = row[o].price /\ Deals[o].paid = row[o].act
    BY <1>3, StateOf DEF Deals, DealOf
  <2>2. DealOf(row'[o]) =
          [state |-> "open", price |-> row[o].price, paid |-> row[o].act + 1]
    BY <1>5, StateOf DEF DealOf
  <2>3. Deals' = [Deals EXCEPT ![o] =
                    [state |-> "open", price |-> @.price, paid |-> @.paid + 1]]
    BY <1>5, <2>1, <2>2, DealStep
  <2>4. c <= Purse /\ Purse' = Purse - c
    BY <1>2, <1>7, <1>8 DEF Purse
  <2> QED
    BY <2>1, <2>3, <2>4 DEF P!BuyAgain
<1> QED
  BY <1>2, <1>11, <1>12, <1>13 DEF Seen, P!Next

(* At first nothing is bought.                                             *)
LEMMA InitPaid ==
  Init => PaidInv /\ P!Init
<1> SUFFICES ASSUME Init PROVE PaidInv /\ P!Init
  OBVIOUS
<1>1. /\ \A p \in Proc : task[p] = Idle
      /\ \A o \in Order : row[o] = NoDoc /\ charged[o] = <<>>
  BY DEF Init
<1>2. OneTransaction /\ AbsentIsEmpty /\ RenewedExists /\ RenewalIsPrice
  BY <1>1
  DEF OneTransaction, AbsentIsEmpty, RenewedExists, RenewalIsPrice, NoDoc, On,
      Idle, Unpaid, Renewed, ReactivateSteps
<1>3. ChargedPerActivation
  BY <1>1 DEF ChargedPerActivation, On, NoDoc, Idle
<1>4. Coins = {}
  BY <1>1 DEF Coins, Carries, Idle
<1>5. IsFiniteSet(Coins) /\ InTransit = 0
  BY <1>4, FS_EmptySet DEF InTransit
<1>6. P!Init
  <2>1. \A o \in Order : DealOf(row[o]) = P!NoDeal
    BY <1>1, StateOf DEF DealOf, NoDoc, P!NoDeal
  <2>2. Deals = [o \in Order |-> P!NoDeal]
    BY <2>1 DEF Deals
  <2>3. Purse = Wallet
    BY <1>5, WalletAssumption DEF Purse, Init
  <2> QED
    BY <2>2, <2>3 DEF P!Init
<1> QED
  BY <1>2, <1>3, <1>5, <1>6 DEF PaidInv

(* Every step of the program is one the customer may see.                  *)
LEMMA NextSeen ==
  ASSUME Transactional, ~Faults, Inv, PaidInv, [Next]_vars
  PROVE  Seen
<1>1. ASSUME NEW p \in Proc, NEW o \in Order, Start(p, o) PROVE Seen
  BY <1>1, UnseenStart, UnseenStep DEF Inv
<1>2. ASSUME NEW p \in Proc, Continue(p) PROVE Seen
  <2> DEFINE o == task[p].order
  <2>1. InsertPaid(p) \/ ApplyOtp(p) \/ ClaimRefund(p) \/ CreditRefund(p)
          \/ Repay(p) \/ Reopen(p)
        => o \in Order
    <3>1. InsertPaid(p) \/ ApplyOtp(p) \/ ClaimRefund(p) \/ CreditRefund(p)
            \/ Repay(p) \/ Reopen(p)
          => task[p].step # "idle"
      BY DEF InsertPaid, ApplyOtp, ClaimRefund, CreditRefund, Repay, Reopen, At
    <3> QED
      BY <3>1, Busy DEF Inv, TypeInv
  <2> HIDE DEF o
  <2>2. CASE Create(p)
    BY <2>1, <2>2, SeenInsert, UnseenCreate, UnseenStep DEF Inv, o
  <2>3. CASE Deliver(p)
    BY <2>1, <2>3, SeenApply, UnseenDeliver, UnseenStep DEF Inv, o
  <2>4. CASE Refund(p)
    BY <2>1, <2>4, SeenClaim, SeenCredit, UnseenRefund, UnseenStep DEF Inv, o
  <2>5. CASE Finish(p)
    BY <2>5, UnseenFinish, UnseenStep DEF Inv
  <2>6. CASE Reactivate(p)
    BY <2>1, <2>6, SeenRepay, SeenReopen, UnseenReactivate, UnseenStep DEF Inv, o
  <2> QED
    BY <1>2, <2>2, <2>3, <2>4, <2>5, <2>6 DEF Continue
<1>3. ASSUME NEW o \in Order, World(o) PROVE Seen
  BY <1>3, WorldWrites, StillStep DEF Inv, money
<1>4. CASE UNCHANGED vars
  BY <1>4, SameAlike, StillStep DEF vars, orderVars, money
<1> QED
  BY <1>1, <1>2, <1>3, <1>4 DEF Next, Crash

(* Every activation the customer gets was paid for exactly once.           *)
THEOREM ActivationsCharged ==
  ASSUME Transactional, ~Faults
  PROVE  Spec => []ChargedPerActivation
<1>1. Inv /\ PaidInv /\ [Next]_vars => PaidInv'
  BY NextSeen DEF Seen
<1>2. PaidInv => ChargedPerActivation
  BY DEF PaidInv
<1> QED
  BY <1>1, <1>2, InitPaid, InvHolds, PTL DEF Spec

(* Expired and canceled are final, and what is completed stays so, with    *)
(* its code, until a reactivation that has been paid for.                  *)
THEOREM StatusFlows ==
  ASSUME Transactional, ~Faults
  PROVE  Spec => StatusFlow
<1>1. Inv /\ PaidInv /\ [Next]_vars => PaidInv' /\ [StatusStep]_vars
  BY NextSeen DEF Seen
<1> QED
  BY <1>1, InitPaid, InvHolds, PTL DEF Spec, StatusFlow

(* The program implements Purchase: whatever the handlers, workers and     *)
(* webhooks do, and in whatever order, the customer sees numbers bought,   *)
(* served, closed with their price back, and bought again.                 *)
THEOREM Implementation ==
  ASSUME Transactional, ~Faults
  PROVE  Spec => ImplementsPurchase
<1>1. Inv /\ PaidInv /\ [Next]_vars => PaidInv' /\ [P!Next]_(P!dealVars)
  BY NextSeen DEF Seen
<1> QED
  BY <1>1, InitPaid, InvHolds, PTL DEF Spec, ImplementsPurchase, P!Spec

=============================================================================
