----------------------------- MODULE PlaceOrder -----------------------------
(***************************************************************************)
(* createOrder under one idempotency key of one customer: services/        *)
(* orders.service.ts with models/IdempotencyLock.ts and the unique index   *)
(* of models/Order.ts.  Each attempt is one request that carries the key:  *)
(* a client that retries, or several that share it.  An order is named     *)
(* after the attempt that wrote it.  What happens to an order afterwards   *)
(* is in Orders.tla.                                                       *)
(***************************************************************************)
EXTENDS Naturals, FiniteSets

CONSTANTS
  Attempt,  \* the requests
  Body,     \* what they may ask to buy
  Modes,    \* what supportsTransactions() may answer
  Faults    \* TRUE: a process may die, or lose its database, anywhere

ASSUME ModesAssumption == Modes \subseteq BOOLEAN
ASSUME FaultsAssumption == Faults \in BOOLEAN

VARIABLES
  doc,      \* the Order document under the key, if there is one
  lock,     \* the attempts that created the IdempotencyLock there is
  rented,   \* numbers rented, and not offered back to the provider
  charged,  \* history: how often each attempt has debited the wallet
  unbooked, \* history: the debits whose Transaction row could not be written
  undone,   \* history: the orders deleted again
  overran,  \* history: the attempts whose lock has expired under them
  body,     \* what each attempt asks for
  pc,       \* where each attempt is
  answer    \* what each attempt was told

vars == <<doc, lock, rented, charged, unbooked, undone, overran, body, pc, answer>>

(* The documents and answers that name an order.                           *)
NoOrder == [order |-> "none"]
Doc == [order: Attempt, body: Body]
Answer == [order: Attempt] \cup {[error |-> e] : e \in
            {"pending", "in_progress", "key_reused", "failed"}}
Pending == [error |-> "pending"]

Step == {"lookup", "lock", "rent", "create", "pay", "book", "undo",
         "giveback", "giveback_duplicate", "reread", "unlock", "done", "dead"}

At(a, s) == pc[a] = s
Goto(a, s) == pc' = [pc EXCEPT ![a] = s]
Tell(a, r) == answer' = [answer EXCEPT ![a] = r]
Exists == doc # NoOrder

(* Past the lock, and not yet through the `finally' that drops it.         *)
Locked == {"rent", "create", "pay", "book", "undo", "giveback",
           "giveback_duplicate", "reread", "unlock"}

-----------------------------------------------------------------------------
(* Bugs the properties must notice, each in place of one action below; no  *)
(* behaviour of Spec uses them.                                            *)

(* There is no unique index.                                               *)
CreatePaidAnyway(a) ==
  /\ At(a, "create")
  /\ doc' = [order |-> a, body |-> body[a]]
  /\ charged' = [charged EXCEPT ![a] = @ + 1]
  /\ Tell(a, [order |-> a])
  /\ Goto(a, "unlock")
  /\ UNCHANGED <<lock, rented, unbooked, undone, overran, body>>

(* The number rented for a duplicate is kept.                              *)
DuplicateKeepsNumber(a) ==
  /\ At(a, "create") /\ Exists
  /\ Goto(a, "reread")
  /\ UNCHANGED <<doc, lock, rented, charged, unbooked, undone, overran, body, answer>>

(* A failing payment is swallowed.                                         *)
PayFailsQuietly(a) ==
  /\ At(a, "pay")
  /\ Tell(a, [order |-> a])
  /\ Goto(a, "unlock")
  /\ UNCHANGED <<doc, lock, rented, charged, unbooked, undone, overran, body>>

-----------------------------------------------------------------------------
(* The pre-check: the same body gets the order it asked for earlier.       *)
Lookup(a) ==
  /\ At(a, "lookup")
  /\ IF Exists
     THEN /\ Tell(a, IF doc.body = body[a] THEN [order |-> doc.order]
                     ELSE [error |-> "key_reused"])
          /\ Goto(a, "done")
     ELSE UNCHANGED answer /\ Goto(a, "lock")
  /\ UNCHANGED <<doc, lock, rented, charged, unbooked, undone, overran, body>>

(* IdempotencyLock.create, refused by its unique index.                    *)
Lock(a) ==
  /\ At(a, "lock")
  /\ IF lock = {}
     THEN lock' = {a} /\ UNCHANGED answer /\ Goto(a, "rent")
     ELSE UNCHANGED lock /\ Tell(a, [error |-> "in_progress"]) /\ Goto(a, "done")
  /\ UNCHANGED <<doc, rented, charged, unbooked, undone, overran, body>>

(* Maintenance, no offer, too dear, too poor, no number in stock.          *)
Decline(a) ==
  /\ At(a, "rent")
  /\ Tell(a, [error |-> "failed"])
  /\ Goto(a, "unlock")
  /\ UNCHANGED <<doc, lock, rented, charged, unbooked, undone, overran, body>>

Rent(a) ==
  /\ At(a, "rent")
  /\ rented' = rented \cup {a}
  /\ Goto(a, "create")
  /\ UNCHANGED <<doc, lock, charged, unbooked, undone, overran, body, answer>>

Charge(a) == charged' = [charged EXCEPT ![a] = @ + 1]

(* One transaction: the order, under the unique index, and its payment.    *)
CreatePaid(a) ==
  /\ At(a, "create") /\ TRUE \in Modes
  /\ ~Exists
  /\ doc' = [order |-> a, body |-> body[a]]
  /\ Charge(a)
  /\ Tell(a, [order |-> a])
  /\ Goto(a, "unlock")
  /\ UNCHANGED <<lock, rented, unbooked, undone, overran, body>>

(* Without a replica set the order is there before it is paid.             *)
Create(a) ==
  /\ At(a, "create") /\ FALSE \in Modes
  /\ ~Exists
  /\ doc' = [order |-> a, body |-> body[a]]
  /\ Goto(a, "pay")
  /\ UNCHANGED <<lock, rented, charged, unbooked, undone, overran, body, answer>>

(* The unique index refuses a second order under the key.                  *)
CreateDuplicate(a) ==
  /\ At(a, "create")
  /\ Exists
  /\ Goto(a, "giveback_duplicate")
  /\ UNCHANGED <<doc, lock, rented, charged, unbooked, undone, overran, body, answer>>

(* The wallet has been emptied meanwhile (inside the transaction), or the  *)
(* database fails: nothing was written.                                    *)
CreateFails(a) ==
  /\ At(a, "create")
  /\ TRUE \in Modes \/ Faults
  /\ Goto(a, "giveback")
  /\ UNCHANGED <<doc, lock, rented, charged, unbooked, undone, overran, body, answer>>

(* debit: the guarded decrement, then the Transaction row.                 *)
Pay(a) ==
  /\ At(a, "pay")
  /\ Charge(a)
  /\ Goto(a, "book")
  /\ UNCHANGED <<doc, lock, rented, unbooked, undone, overran, body, answer>>

(* The wallet has been emptied meanwhile, or the database fails.           *)
PayFails(a) ==
  /\ At(a, "pay")
  /\ Goto(a, "undo")
  /\ UNCHANGED <<doc, lock, rented, charged, unbooked, undone, overran, body, answer>>

Book(a) ==
  /\ At(a, "book")
  /\ Tell(a, [order |-> a])
  /\ Goto(a, "unlock")
  /\ UNCHANGED <<doc, lock, rented, charged, unbooked, undone, overran, body>>

(* The row cannot be written: to the caller the payment has failed, but    *)
(* nobody puts the balance back.                                           *)
BookFails(a) ==
  /\ Faults /\ At(a, "book")
  /\ unbooked' = unbooked \cup {a}
  /\ Goto(a, "undo")
  /\ UNCHANGED <<doc, lock, rented, charged, undone, overran, body, answer>>

Undo(a) ==
  /\ At(a, "undo")
  /\ doc' = NoOrder
  /\ undone' = undone \cup {a}
  /\ Goto(a, "giveback")
  /\ UNCHANGED <<lock, rented, charged, unbooked, overran, body, answer>>

(* releaseNumber, then the error reaches the client; but a duplicate is    *)
(* answered with the order that won, whatever that one asked for.          *)
GiveBack(a) ==
  /\ rented' = rented \ {a}
  /\ \/ At(a, "giveback")
        /\ Tell(a, [error |-> "failed"]) /\ Goto(a, "unlock")
     \/ At(a, "giveback_duplicate")
        /\ UNCHANGED answer /\ Goto(a, "reread")
  /\ UNCHANGED <<doc, lock, charged, unbooked, undone, overran, body>>

Reread(a) ==
  /\ At(a, "reread")
  /\ Tell(a, IF Exists THEN [order |-> doc.order] ELSE [error |-> "failed"])
  /\ Goto(a, "unlock")
  /\ UNCHANGED <<doc, lock, rented, charged, unbooked, undone, overran, body>>

(* deleteOne({ userId, key }): the lock there is, whoever created it.      *)
Unlock(a) ==
  /\ At(a, "unlock")
  /\ lock' = {}
  /\ Goto(a, "done")
  /\ UNCHANGED <<doc, rented, charged, unbooked, undone, overran, body, answer>>

(* The TTL index: the lock goes a minute after it was created.             *)
Expire ==
  /\ lock # {}
  /\ lock' = {}
  /\ overran' = overran \cup {a \in lock : pc[a] \in Locked}
  /\ UNCHANGED <<doc, rented, charged, unbooked, undone, body, pc, answer>>

(* The process dies, or the database fails the compensation itself.        *)
Crash(a) ==
  /\ Faults /\ pc[a] \in Locked \cup {"lock"}
  /\ Goto(a, "dead")
  /\ UNCHANGED <<doc, lock, rented, charged, unbooked, undone, overran, body, answer>>

-----------------------------------------------------------------------------
Init ==
  /\ doc = NoOrder
  /\ lock = {}
  /\ rented = {}
  /\ charged = [a \in Attempt |-> 0]
  /\ unbooked = {}
  /\ undone = {}
  /\ overran = {}
  /\ body \in [Attempt -> Body]
  /\ pc = [a \in Attempt |-> "lookup"]
  /\ answer = [a \in Attempt |-> Pending]

Continue(a) ==
  \/ Lookup(a) \/ Lock(a) \/ Decline(a) \/ Rent(a)
  \/ CreatePaid(a) \/ Create(a) \/ CreateDuplicate(a) \/ CreateFails(a)
  \/ Pay(a) \/ PayFails(a) \/ Book(a) \/ BookFails(a) \/ Undo(a)
  \/ GiveBack(a) \/ Reread(a) \/ Unlock(a)

Next == Expire \/ \E a \in Attempt : Continue(a) \/ Crash(a)

Spec == Init /\ [][Next]_vars

-----------------------------------------------------------------------------
Named(a) == answer[a] \in [order: Attempt]

(* What each variable may hold.                                            *)
TypeOK ==
  /\ doc \in Doc \cup {NoOrder}
  /\ lock \subseteq Attempt
  /\ rented \subseteq Attempt
  /\ charged \in [Attempt -> Nat]
  /\ unbooked \subseteq Attempt
  /\ undone \subseteq Attempt
  /\ overran \subseteq Attempt
  /\ body \in [Attempt -> Body]
  /\ pc \in [Attempt -> Step]
  /\ answer \in [Attempt -> Answer]

(* POST /orders with a key is "safe to retry": however many requests carry *)
(* it, even when the lock expires or is deleted by another, an order is    *)
(* debited once and it is the order there is.  The one exception is a      *)
(* debit whose Transaction row the database refused outside a transaction: *)
(* its order is undone, the money stays gone, and a retry pays again.      *)
OneChargePerKey ==
  \A a \in Attempt : charged[a] > 0 =>
    /\ charged[a] = 1
    /\ \/ Exists /\ doc.order = a
       \/ FALSE \in Modes /\ a \in unbooked \cap undone

(* "Re-sending the same key returns the original order": two answers name  *)
(* different orders only if one of these has been undone.                  *)
SameOrderForAll ==
  \A a, b \in Attempt : Named(a) /\ Named(b) =>
    answer[a] = answer[b] \/ {answer[a].order, answer[b].order} \cap undone # {}

(* An order a client is told of has been paid, unless the attempt that     *)
(* wrote it outside a transaction is still to pay, has undone it, or died. *)
AnsweredIsPaid ==
  \A a \in Attempt : Named(a) =>
    LET o == answer[a].order IN
    \/ charged[o] = 1
    \/ FALSE \in Modes /\ (pc[o] \in {"pay", "undo", "dead"} \/ o \in undone)

(* The lock lets one attempt through at a time, as long as none takes      *)
(* longer than the lock lives.                                             *)
LockIsExclusive ==
  overran = {} =>
    \A a, b \in Attempt : pc[a] \in Locked /\ pc[b] \in Locked => a = b

(* A rented number is the order's, or somebody is about to attach it or    *)
(* give it back, or died on the way.                                       *)
NumberIsAccountedFor ==
  \A a \in rented :
    \/ Exists /\ doc.order = a
    \/ pc[a] \in {"create", "giveback", "giveback_duplicate", "dead"}
=============================================================================
