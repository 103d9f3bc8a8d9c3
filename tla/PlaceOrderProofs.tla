-------------------------- MODULE PlaceOrderProofs --------------------------
(***************************************************************************)
(* Proofs about PlaceOrder, for every number of attempts, every set of     *)
(* bodies, with and without transactions and with processes that may die:  *)
(* every invariant that TLC checks on four attempts.                       *)
(*                                                                         *)
(* The unique index does most of the work: whoever wrote the document, and *)
(* nobody else, pays for it or undoes it (Writer, Paid), so answers name   *)
(* the document or one that was undone (AnsweredExists).  The lock is only *)
(* needed for LockIsExclusive itself (LockHeld).                           *)
(***************************************************************************)
EXTENDS PlaceOrder, TLAPS

(* The attempt that wrote the document is past writing it, and only that   *)
(* one is paying or about to undo it.  What is undone was its attempt's    *)
(* last word.                                                              *)
Writer ==
  /\ Exists => pc[doc.order] \in {"pay", "book", "undo", "unlock", "done", "dead"}
  /\ \A a \in Attempt : pc[a] \in {"pay", "book", "undo"} =>
       /\ FALSE \in Modes /\ Exists /\ doc.order = a
       /\ pc[a] = "pay" => charged[a] = 0
       /\ pc[a] = "book" => charged[a] = 1
       /\ pc[a] = "undo" => charged[a] = 0 \/ a \in unbooked
  /\ \A a \in undone : pc[a] \in {"giveback", "unlock", "done", "dead"}
  /\ undone # {} => FALSE \in Modes

(* A document whose writer went on is paid.                                *)
Paid ==
  Exists =>
    /\ pc[doc.order] \in {"unlock", "done"} => charged[doc.order] = 1
    /\ pc[doc.order] = "dead" => charged[doc.order] = 1 \/ FALSE \in Modes

AnsweredExists ==
  \A a \in Attempt : Named(a) =>
    (Exists /\ doc.order = answer[a].order) \/ answer[a].order \in undone

LockHeld ==
  overran = {} => \A a \in Attempt : pc[a] \in Locked => lock = {a}

Inv ==
  /\ TypeOK
  /\ Writer
  /\ Paid
  /\ OneChargePerKey
  /\ AnsweredExists
  /\ LockHeld
  /\ NumberIsAccountedFor

-----------------------------------------------------------------------------
(* Documents and answers, told apart by their fields.                      *)

LEMMA DocExists ==
  ASSUME NEW a \in Attempt, NEW b \in Body
  PROVE  /\ [order |-> a, body |-> b] \in Doc
         /\ [order |-> a, body |-> b] # NoOrder
         /\ [order |-> a, body |-> b].order = a
  BY DEF Doc, NoOrder

LEMMA Orders ==
  ASSUME NEW o \in Attempt
  PROVE  /\ [order |-> o] \in Answer /\ [order |-> o] \in [order: Attempt]
         /\ [order |-> o].order = o
  BY DEF Answer

LEMMA Errors ==
  ASSUME NEW e \in {"pending", "in_progress", "key_reused", "failed"}
  PROVE  [error |-> e] \in Answer /\ [error |-> e] \notin [order: Attempt]
  BY DEF Answer

(* The order of the document that exists is an attempt.                    *)
LEMMA DocOrder ==
  ASSUME TypeOK, Exists
  PROVE  doc \in Doc /\ doc.order \in Attempt
  BY DEF TypeOK, Exists, Doc

(* What a step does to the answers: a new one names the document.          *)
Answers(a) ==
  /\ answer' \in [Attempt -> Answer]
  /\ \A b \in Attempt \ {a} : answer'[b] = answer[b]
  /\ Named(a)' => \/ answer'[a] = answer[a]
                  \/ Exists' /\ answer'[a].order = doc'.order

(* To tell an error, or the order there is, is such a step.                *)
LEMMA TellError ==
  ASSUME TypeOK, NEW a \in Attempt,
         NEW e \in {"pending", "in_progress", "key_reused", "failed"},
         Tell(a, [error |-> e])
  PROVE  Answers(a)
<1>1. [error |-> e] \in Answer /\ [error |-> e] \notin [order: Attempt]
  BY Errors
<1> QED
  BY <1>1 DEF TypeOK, Tell, Answers, Named

LEMMA TellOrder ==
  ASSUME TypeOK, NEW a \in Attempt, NEW o \in Attempt, Tell(a, [order |-> o]),
         Exists', doc'.order = o
  PROVE  Answers(a)
<1>1. [order |-> o] \in Answer /\ [order |-> o].order = o
  BY Orders
<1> QED
  BY <1>1 DEF TypeOK, Tell, Answers

LEMMA TellNothing ==
  ASSUME TypeOK, NEW a \in Attempt, UNCHANGED answer
  PROVE  Answers(a)
  BY DEF TypeOK, Answers

(* As long as no order goes away unnoticed, answers stay valid.            *)
LEMMA AnswersStep ==
  ASSUME Inv, NEW a \in Attempt, Answers(a), undone \subseteq undone',
         Exists => (Exists' /\ doc'.order = doc.order) \/ doc.order \in undone'
  PROVE  AnsweredExists'
<1> SUFFICES ASSUME NEW b \in Attempt, Named(b)'
             PROVE  \/ Exists' /\ doc'.order = answer'[b].order
                    \/ answer'[b].order \in undone'
  BY DEF AnsweredExists
<1>1. CASE answer'[b] = answer[b]
  BY <1>1 DEF Inv, AnsweredExists, Named
<1>2. CASE answer'[b] # answer[b]
  BY <1>2 DEF Answers
<1> QED
  BY <1>1, <1>2

(* A step of an attempt that has not written the document, neither does so *)
(* now nor takes a lock, and keeps a number only to attach it or to give   *)
(* it back.                                                                *)
Quiet(a, s) ==
  /\ pc[a] \notin {"pay", "book", "undo", "unlock", "done", "dead"}
  /\ s \in Step \ {"pay", "book", "undo"}
  /\ pc[a] = "giveback" => s = "unlock"
  /\ s \in Locked => pc[a] \in Locked
  /\ Goto(a, s) /\ Answers(a)
  /\ rented' \in SUBSET Attempt
  /\ \A b \in rented' : \/ b \in rented \ {a}
                        \/ b = a /\ s \in {"create", "giveback", "giveback_duplicate"}
  /\ UNCHANGED <<doc, lock, charged, unbooked, undone, overran, body>>

LEMMA QuietStep ==
  ASSUME Inv, NEW a \in Attempt, NEW s, Quiet(a, s)
  PROVE  Inv'
<1>1. TypeOK'
  BY DEF Inv, TypeOK, Quiet, Goto, Answers
<1>2. pc' = [pc EXCEPT ![a] = s] /\ pc \in [Attempt -> Step]
  BY DEF Inv, TypeOK, Quiet, Goto
<1>3. Exists' <=> Exists
  BY DEF Quiet, Exists
<1>4. Exists => doc.order \in Attempt /\ doc.order # a
  BY DocOrder DEF Inv, Writer, Quiet
<1>5. Writer' /\ Paid'
  <2>1. \A b \in Attempt : pc'[b] \in {"pay", "book", "undo"} => pc'[b] = pc[b]
    BY <1>2 DEF Quiet
  <2>2. \A b \in undone' : pc'[b] \in {"giveback", "unlock", "done", "dead"}
    BY <1>2 DEF Inv, TypeOK, Writer, Quiet
  <2>3. Exists => pc'[doc.order] = pc[doc.order]
    BY <1>2, <1>4
  <2>4. Writer'
    BY <1>3, <2>1, <2>2, <2>3 DEF Inv, Writer, Quiet
  <2>5. Paid'
    BY <1>3, <2>3 DEF Inv, Paid, Quiet
  <2> QED
    BY <2>4, <2>5
<1>6. OneChargePerKey'
  BY <1>3 DEF Inv, OneChargePerKey, Quiet
<1>7. AnsweredExists'
  BY <1>3, AnswersStep DEF Quiet
<1>8. LockHeld'
  BY <1>2 DEF Inv, LockHeld, Quiet
<1>9. NumberIsAccountedFor'
  BY <1>2, <1>3 DEF Inv, TypeOK, NumberIsAccountedFor, Quiet
<1> QED
  BY <1>1, <1>5, <1>6, <1>7, <1>8, <1>9 DEF Inv

(* An attempt that has no use for a number has none.                       *)
LEMMA NoNumber ==
  ASSUME Inv, NEW a \in Attempt, pc[a] \in {"lookup", "lock", "rent", "reread"}
  PROVE  a \notin rented
  BY DEF Inv, NumberIsAccountedFor, Writer

LEMMA LookupStep ==
  ASSUME Inv, NEW a \in Attempt, Lookup(a)
  PROVE  Inv'
<1>1. pc[a] = "lookup" /\ a \notin rented /\ rented \subseteq Attempt
  BY NoNumber DEF Lookup, At, Inv, TypeOK
<1>2. CASE Exists
  <2>1. doc.order \in Attempt /\ doc' = doc /\ Exists'
    BY <1>2, DocOrder DEF Inv, Lookup, Exists
  <2>2. Answers(a)
    BY <1>2, <2>1, TellError, TellOrder DEF Inv, Lookup
  <2>3. Quiet(a, "done")
    BY <1>1, <1>2, <2>2 DEF Lookup, Quiet, Step, Locked
  <2> QED
    BY <2>3, QuietStep
<1>3. CASE ~Exists
  <2>1. Answers(a)
    BY <1>3, TellNothing DEF Inv, Lookup
  <2>2. Quiet(a, "lock")
    BY <1>1, <1>3, <2>1 DEF Lookup, Quiet, Step, Locked
  <2> QED
    BY <2>2, QuietStep
<1> QED
  BY <1>2, <1>3

LEMMA RentStep ==
  ASSUME Inv, NEW a \in Attempt, Decline(a) \/ Rent(a)
  PROVE  Inv'
<1>1. pc[a] = "rent" /\ a \notin rented /\ rented \subseteq Attempt
  BY NoNumber DEF Decline, Rent, At, Inv, TypeOK
<1>2. CASE Decline(a)
  <2>1. Answers(a)
    BY <1>2, TellError DEF Inv, Decline
  <2>2. Quiet(a, "unlock")
    BY <1>1, <1>2, <2>1 DEF Decline, Quiet, Step, Locked
  <2> QED
    BY <2>2, QuietStep
<1>3. CASE Rent(a)
  <2>1. Answers(a)
    BY <1>3, TellNothing DEF Inv, Rent
  <2>2. Quiet(a, "create")
    BY <1>1, <1>3, <2>1 DEF Rent, Quiet, Step, Locked
  <2> QED
    BY <2>2, QuietStep
<1> QED
  BY <1>2, <1>3

(* The order is not written.                                               *)
LEMMA RefusedStep ==
  ASSUME Inv, NEW a \in Attempt, CreateDuplicate(a) \/ CreateFails(a)
  PROVE  Inv'
<1> PICK s \in {"giveback_duplicate", "giveback"} : Goto(a, s)
  BY DEF CreateDuplicate, CreateFails
<1>1. Answers(a)
  BY TellNothing DEF Inv, CreateDuplicate, CreateFails
<1>2. Quiet(a, s)
  BY <1>1 DEF CreateDuplicate, CreateFails, At, Quiet, Step, Locked, Inv, TypeOK
<1> QED
  BY <1>2, QuietStep

LEMMA GiveBackStep ==
  ASSUME Inv, NEW a \in Attempt, GiveBack(a)
  PROVE  Inv'
<1>1. rented' = rented \ {a} /\ rented \subseteq Attempt
  BY DEF GiveBack, Inv, TypeOK
<1>2. CASE At(a, "giveback")
  <2>1. Tell(a, [error |-> "failed"]) /\ Goto(a, "unlock")
    BY <1>2 DEF GiveBack, At
  <2>2. Answers(a)
    BY <2>1, TellError DEF Inv
  <2>3. Quiet(a, "unlock")
    BY <1>1, <1>2, <2>1, <2>2 DEF GiveBack, At, Quiet, Step, Locked
  <2> QED
    BY <2>3, QuietStep
<1>3. CASE At(a, "giveback_duplicate")
  <2>1. UNCHANGED answer /\ Goto(a, "reread")
    BY <1>3 DEF GiveBack, At
  <2>2. Answers(a)
    BY <2>1, TellNothing DEF Inv
  <2>3. Quiet(a, "reread")
    BY <1>1, <1>3, <2>1, <2>2 DEF GiveBack, At, Quiet, Step, Locked
  <2> QED
    BY <2>3, QuietStep
<1> QED
  BY <1>2, <1>3 DEF GiveBack

LEMMA RereadStep ==
  ASSUME Inv, NEW a \in Attempt, Reread(a)
  PROVE  Inv'
<1>1. pc[a] = "reread" /\ a \notin rented /\ rented \subseteq Attempt
  BY NoNumber DEF Reread, At, Inv, TypeOK
<1>2. Answers(a)
  <2>1. CASE Exists
    <3>1. doc.order \in Attempt /\ doc' = doc /\ Exists'
      BY <2>1, DocOrder DEF Inv, Reread, Exists
    <3> QED
      BY <2>1, <3>1, TellOrder DEF Inv, Reread
  <2>2. CASE ~Exists
    BY <2>2, TellError DEF Inv, Reread
  <2> QED
    BY <2>1, <2>2
<1>3. Quiet(a, "unlock")
  BY <1>1, <1>2 DEF Reread, Quiet, Step, Locked
<1> QED
  BY <1>3, QuietStep

(* Without its lock nobody is past it.                                     *)
LEMMA LockStep ==
  ASSUME Inv, NEW a \in Attempt, Lock(a)
  PROVE  Inv'
<1>1. pc[a] = "lock" /\ a \notin rented
  BY NoNumber DEF Lock, At
<1>2. CASE lock = {}
  <2>1. /\ pc' = [pc EXCEPT ![a] = "rent"] /\ lock' = {a}
        /\ UNCHANGED <<doc, rented, charged, unbooked, undone, overran, body, answer>>
    BY <1>2 DEF Lock, Goto
  <2>2. TypeOK'
    BY <2>1 DEF Inv, TypeOK, Step
  <2>3. Writer' /\ Paid' /\ OneChargePerKey'
    BY <1>1, <2>1, DocOrder DEF Inv, TypeOK, Writer, Paid, OneChargePerKey, Exists
  <2>4. AnsweredExists'
    BY <2>1, TellNothing, AnswersStep DEF Inv, Exists
  <2>5. LockHeld'
    BY <1>2, <2>1 DEF Inv, TypeOK, LockHeld, Locked
  <2>6. NumberIsAccountedFor'
    BY <1>1, <2>1 DEF Inv, TypeOK, NumberIsAccountedFor, Exists
  <2> QED
    BY <2>2, <2>3, <2>4, <2>5, <2>6 DEF Inv
<1>3. CASE lock # {}
  <2>1. Answers(a)
    BY <1>3, TellError DEF Inv, Lock
  <2>2. Quiet(a, "done")
    BY <1>1, <1>3, <2>1 DEF Lock, Quiet, Step, Locked, Inv, TypeOK
  <2> QED
    BY <2>2, QuietStep
<1> QED
  BY <1>2, <1>3

(* The document is written: nobody had paid under the key.                 *)
LEMMA CreateStep ==
  ASSUME Inv, NEW a \in Attempt, CreatePaid(a) \/ Create(a)
  PROVE  Inv'
<1>1. /\ pc[a] = "create" /\ ~Exists
      /\ doc' = [order |-> a, body |-> body[a]] /\ body[a] \in Body
      /\ UNCHANGED <<lock, rented, unbooked, undone, overran, body>>
  BY DEF CreatePaid, Create, At, Inv, TypeOK
<1>2. doc' \in Doc /\ Exists' /\ doc'.order = a
  BY <1>1, DocExists DEF Exists
<1>3. charged[a] = 0 /\ a \notin undone
      /\ \A b \in Attempt : pc[b] \notin {"pay", "book", "undo"}
  <2>1. a \notin undone
    BY <1>1 DEF Inv, Writer
  <2>2. charged[a] \in Nat /\ ~(charged[a] > 0)
    BY <1>1, <2>1 DEF Inv, TypeOK, OneChargePerKey
  <2>3. \A b \in Attempt : pc[b] \notin {"pay", "book", "undo"}
    BY <1>1 DEF Inv, Writer
  <2> QED
    BY <2>1, <2>2, <2>3
<1>4. CASE CreatePaid(a)
  <2>1. /\ pc' = [pc EXCEPT ![a] = "unlock"]
        /\ charged' = [charged EXCEPT ![a] = 1]
        /\ Tell(a, [order |-> a])
    <3>1. charged[a] = 0
      BY <1>3
    <3> QED
      BY <1>4, <3>1 DEF CreatePaid, Goto, Charge
  <2>2. Answers(a)
    BY <1>2, <2>1, TellOrder DEF Inv
  <2>3. TypeOK'
    BY <1>1, <1>2, <2>1, <2>2 DEF Inv, TypeOK, Step, Answers
  <2>4. Writer' /\ Paid' /\ OneChargePerKey'
    BY <1>1, <1>2, <1>3, <2>1 DEF Inv, TypeOK, Writer, Paid, OneChargePerKey
  <2>5. AnsweredExists'
    BY <1>1, <2>2, AnswersStep
  <2>6. LockHeld' /\ NumberIsAccountedFor'
    BY <1>1, <1>2, <2>1 DEF Inv, TypeOK, LockHeld, Locked, NumberIsAccountedFor
  <2> QED
    BY <2>3, <2>4, <2>5, <2>6 DEF Inv
<1>5. CASE Create(a)
  <2>1. /\ pc' = [pc EXCEPT ![a] = "pay"] /\ FALSE \in Modes
        /\ UNCHANGED <<charged, answer>>
    BY <1>5 DEF Create, Goto
  <2>2. TypeOK'
    BY <1>1, <1>2, <2>1 DEF Inv, TypeOK, Step
  <2>3. Writer' /\ Paid' /\ OneChargePerKey'
    BY <1>1, <1>2, <1>3, <2>1 DEF Inv, TypeOK, Writer, Paid, OneChargePerKey
  <2>4. AnsweredExists'
    BY <1>1, <2>1, TellNothing, AnswersStep DEF Inv
  <2>5. LockHeld' /\ NumberIsAccountedFor'
    BY <1>1, <1>2, <2>1 DEF Inv, TypeOK, LockHeld, Locked, NumberIsAccountedFor
  <2> QED
    BY <2>2, <2>3, <2>4, <2>5 DEF Inv
<1> QED
  BY <1>4, <1>5

(* The writer pays, once, or fails to, or is answered.                     *)
LEMMA PayStep ==
  ASSUME Inv, NEW a \in Attempt,
         Pay(a) \/ PayFails(a) \/ Book(a) \/ BookFails(a)
  PROVE  Inv'
<1>1. /\ Exists /\ Exists' /\ doc.order = a /\ FALSE \in Modes
      /\ UNCHANGED <<doc, lock, rented, undone, overran, body>>
      /\ pc[a] \in {"pay", "book"}
  BY DEF Pay, PayFails, Book, BookFails, At, Inv, Writer, Exists
<1>2. \A b \in Attempt \ {a} : charged[b] > 0 =>
        charged[b] = 1 /\ b \in unbooked \cap undone
  BY <1>1 DEF Inv, OneChargePerKey
<1>3. CASE Pay(a)
  <2>1. /\ pc' = [pc EXCEPT ![a] = "book"] /\ charged' = [charged EXCEPT ![a] = 1]
        /\ UNCHANGED <<unbooked, answer>>
    <3>1. pc[a] = "pay" /\ charged' = [charged EXCEPT ![a] = @ + 1]
          /\ pc' = [pc EXCEPT ![a] = "book"] /\ UNCHANGED <<unbooked, answer>>
      BY <1>3 DEF Pay, At, Goto, Charge
    <3>2. charged[a] = 0
      BY <3>1 DEF Inv, Writer
    <3> QED
      BY <3>1, <3>2
  <2>2. TypeOK'
    BY <1>1, <2>1 DEF Inv, TypeOK, Step
  <2>3. Writer' /\ Paid'
    BY <1>1, <2>1 DEF Inv, TypeOK, Writer, Paid
  <2>4. OneChargePerKey'
    BY <1>1, <1>2, <2>1 DEF Inv, TypeOK, OneChargePerKey
  <2>5. AnsweredExists'
    BY <1>1, <2>1, TellNothing, AnswersStep DEF Inv
  <2>6. LockHeld' /\ NumberIsAccountedFor'
    BY <1>1, <2>1 DEF Inv, TypeOK, LockHeld, Locked, NumberIsAccountedFor
  <2> QED
    BY <2>2, <2>3, <2>4, <2>5, <2>6 DEF Inv
<1>4. CASE Book(a)
  <2>1. /\ pc[a] = "book" /\ charged[a] = 1
        /\ pc' = [pc EXCEPT ![a] = "unlock"]
        /\ Tell(a, [order |-> a]) /\ UNCHANGED <<charged, unbooked>>
    BY <1>4 DEF Book, At, Goto, Inv, Writer
  <2>2. Answers(a)
    BY <1>1, <2>1, TellOrder DEF Inv
  <2>3. TypeOK'
    BY <1>1, <2>1, <2>2 DEF Inv, TypeOK, Step, Answers
  <2>4. Writer' /\ Paid'
    BY <1>1, <2>1 DEF Inv, TypeOK, Writer, Paid
  <2>5. OneChargePerKey'
    BY <1>1, <1>2, <2>1 DEF OneChargePerKey
  <2>6. AnsweredExists'
    BY <1>1, <2>2, AnswersStep
  <2>7. LockHeld' /\ NumberIsAccountedFor'
    BY <1>1, <2>1 DEF Inv, TypeOK, LockHeld, Locked, NumberIsAccountedFor
  <2> QED
    BY <2>3, <2>4, <2>5, <2>6, <2>7 DEF Inv
<1>5. CASE PayFails(a) \/ BookFails(a)
  <2>1. /\ pc' = [pc EXCEPT ![a] = "undo"] /\ UNCHANGED <<charged, answer>>
        /\ unbooked' \subseteq Attempt /\ unbooked \subseteq unbooked'
        /\ charged[a] = 0 \/ a \in unbooked'
    BY <1>5 DEF PayFails, BookFails, At, Goto, Inv, TypeOK, Writer
  <2>2. TypeOK'
    BY <1>1, <2>1 DEF Inv, TypeOK, Step
  <2>3. Writer' /\ Paid'
    <3>1. \A b \in Attempt \ {a} : pc[b] \notin {"pay", "book", "undo"}
      BY <1>1 DEF Inv, Writer
    <3>2. Writer'
      BY <1>1, <2>1, <3>1 DEF Inv, TypeOK, Writer
    <3>3. Paid'
      BY <1>1, <2>1 DEF Inv, TypeOK, Paid
    <3> QED
      BY <3>2, <3>3
  <2>4. OneChargePerKey'
    BY <1>1, <2>1 DEF Inv, TypeOK, OneChargePerKey
  <2>5. AnsweredExists'
    BY <1>1, <2>1, TellNothing, AnswersStep DEF Inv
  <2>6. LockHeld' /\ NumberIsAccountedFor'
    BY <1>1, <2>1 DEF Inv, TypeOK, LockHeld, Locked, NumberIsAccountedFor
  <2> QED
    BY <2>2, <2>3, <2>4, <2>5, <2>6 DEF Inv
<1> QED
  BY <1>3, <1>4, <1>5

(* The writer takes its document back; a debit that has no row is then     *)
(* nobody's.                                                               *)
LEMMA UndoStep ==
  ASSUME Inv, NEW a \in Attempt, Undo(a)
  PROVE  Inv'
<1>1. /\ pc[a] = "undo" /\ Exists /\ doc.order = a
      /\ charged[a] = 0 \/ a \in unbooked
      /\ FALSE \in Modes /\ ~Exists'
      /\ pc' = [pc EXCEPT ![a] = "giveback"] /\ undone' = undone \cup {a}
      /\ UNCHANGED <<lock, rented, charged, unbooked, overran, body, answer>>
  BY DEF Undo, At, Goto, Inv, Writer, Exists
<1>2. TypeOK'
  BY <1>1 DEF Undo, Inv, TypeOK, Step
<1>3. Writer' /\ Paid'
  BY <1>1 DEF Inv, TypeOK, Writer, Paid
<1>4. OneChargePerKey'
  <2> SUFFICES ASSUME NEW b \in Attempt, charged[b] > 0
               PROVE  /\ charged[b] = 1 /\ FALSE \in Modes
                      /\ b \in unbooked /\ b \in undone'
    <3>1. charged' = charged /\ unbooked' = unbooked
      BY <1>1
    <3> QED
      BY <3>1 DEF OneChargePerKey
  <2>1. CASE b = a
    <3>1. b \in unbooked
      BY <1>1, <2>1 DEF Inv, TypeOK
    <3>2. charged[b] = 1
      BY DEF Inv, OneChargePerKey
    <3> QED
      BY <1>1, <2>1, <3>1, <3>2
  <2>2. CASE b # a
    BY <1>1, <2>2 DEF Inv, OneChargePerKey
  <2> QED
    BY <2>1, <2>2
<1>5. AnsweredExists'
  BY <1>1, TellNothing, AnswersStep DEF Inv
<1>6. LockHeld' /\ NumberIsAccountedFor'
  BY <1>1 DEF Inv, TypeOK, LockHeld, Locked, NumberIsAccountedFor
<1> QED
  BY <1>2, <1>3, <1>4, <1>5, <1>6 DEF Inv

(* The lock goes: by its holder, by whoever outlived it, or by the index.  *)
LEMMA UnlockStep ==
  ASSUME Inv, NEW a \in Attempt, Unlock(a)
  PROVE  Inv'
<1>1. /\ pc[a] = "unlock" /\ pc' = [pc EXCEPT ![a] = "done"] /\ lock' = {}
      /\ UNCHANGED <<doc, rented, charged, unbooked, undone, overran, body, answer>>
      /\ Exists' <=> Exists
  BY DEF Unlock, At, Goto, Exists
<1>2. TypeOK'
  BY <1>1 DEF Inv, TypeOK, Step
<1>3. Writer' /\ Paid' /\ OneChargePerKey'
  BY <1>1, DocOrder DEF Inv, TypeOK, Writer, Paid, OneChargePerKey
<1>4. AnsweredExists'
  BY <1>1, TellNothing, AnswersStep DEF Inv
<1>5. LockHeld'
  BY <1>1 DEF Inv, TypeOK, LockHeld, Locked
<1>6. NumberIsAccountedFor'
  BY <1>1 DEF Inv, TypeOK, NumberIsAccountedFor
<1> QED
  BY <1>2, <1>3, <1>4, <1>5, <1>6 DEF Inv

LEMMA ExpireStep ==
  ASSUME Inv, Expire
  PROVE  Inv'
<1>1. /\ lock' = {} /\ overran' = overran \cup {a \in lock : pc[a] \in Locked}
      /\ UNCHANGED <<doc, rented, charged, unbooked, undone, body, pc, answer>>
  BY DEF Expire
<1>2. LockHeld'
  BY <1>1 DEF Inv, TypeOK, LockHeld
<1>3. TypeOK' /\ Writer' /\ Paid' /\ OneChargePerKey'
  BY <1>1 DEF Inv, TypeOK, Writer, Paid, OneChargePerKey, Exists
<1>4. AnsweredExists' /\ NumberIsAccountedFor'
  BY <1>1 DEF Inv, AnsweredExists, NumberIsAccountedFor, Exists, Named
<1> QED
  BY <1>2, <1>3, <1>4 DEF Inv

LEMMA CrashStep ==
  ASSUME Inv, NEW a \in Attempt, Crash(a)
  PROVE  Inv'
<1>1. /\ pc[a] \in Locked \cup {"lock"} /\ pc' = [pc EXCEPT ![a] = "dead"]
      /\ UNCHANGED <<doc, lock, rented, charged, unbooked, undone, overran, body, answer>>
      /\ Exists' <=> Exists
  BY DEF Crash, Goto, Exists
<1>2. TypeOK'
  BY <1>1 DEF Inv, TypeOK, Step
<1>3. Writer' /\ OneChargePerKey'
  BY <1>1, DocOrder DEF Inv, TypeOK, Writer, OneChargePerKey
<1>4. Paid'
  BY <1>1, DocOrder DEF Inv, TypeOK, Writer, Paid
<1>5. AnsweredExists'
  BY <1>1, TellNothing, AnswersStep DEF Inv
<1>6. LockHeld' /\ NumberIsAccountedFor'
  BY <1>1 DEF Inv, TypeOK, LockHeld, Locked, NumberIsAccountedFor
<1> QED
  BY <1>2, <1>3, <1>4, <1>5, <1>6 DEF Inv

LEMMA InitInv == Init => Inv
<1> SUFFICES ASSUME Init PROVE Inv
  OBVIOUS
<1>1. Pending \in Answer /\ Pending \notin [order: Attempt]
  BY Errors DEF Pending
<1>2. TypeOK
  BY <1>1 DEF Init, TypeOK, Step
<1>3. /\ ~Exists /\ unbooked = {} /\ undone = {} /\ rented = {}
      /\ \A a \in Attempt : pc[a] = "lookup" /\ charged[a] = 0 /\ ~Named(a)
  BY <1>1 DEF Init, Exists, Named
<1>4. Writer /\ Paid /\ AnsweredExists
  BY <1>3 DEF Writer, Paid, AnsweredExists
<1>5. OneChargePerKey
  BY <1>3 DEF OneChargePerKey
<1>6. LockHeld /\ NumberIsAccountedFor
  BY <1>3 DEF LockHeld, Locked, NumberIsAccountedFor
<1> QED
  BY <1>2, <1>4, <1>5, <1>6 DEF Inv

LEMMA NextInv == Inv /\ [Next]_vars => Inv'
<1> SUFFICES ASSUME Inv, [Next]_vars PROVE Inv'
  OBVIOUS
<1>1. ASSUME NEW a \in Attempt, Continue(a) PROVE Inv'
  BY <1>1, LookupStep, LockStep, RentStep, CreateStep, RefusedStep, PayStep,
     UndoStep, GiveBackStep, RereadStep, UnlockStep DEF Continue
<1>2. ASSUME NEW a \in Attempt, Crash(a) PROVE Inv'
  BY <1>2, CrashStep
<1>3. CASE Expire
  BY <1>3, ExpireStep
<1>4. CASE UNCHANGED vars
  BY <1>4 DEF vars, Inv, TypeOK, Writer, Paid, OneChargePerKey, AnsweredExists,
     LockHeld, NumberIsAccountedFor, Exists, Named
<1> QED
  BY <1>1, <1>2, <1>3, <1>4 DEF Next

LEMMA InvHolds == Spec => []Inv
<1> QED
  BY InitInv, NextInv, PTL DEF Spec

-----------------------------------------------------------------------------
(* The variables hold what TypeOK says.                                    *)
THEOREM TypeCorrect == Spec => []TypeOK
<1>1. Inv => TypeOK
  BY DEF Inv
<1> QED
  BY <1>1, InvHolds, PTL

(* However many requests carry a key, in either database mode, with locks  *)
(* that expire and processes that die: what is debited is debited once and *)
(* for the order there is, except a debit whose Transaction row failed     *)
(* outside a transaction and whose order was undone.                       *)
THEOREM ChargesOnce == Spec => []OneChargePerKey
<1>1. Inv => OneChargePerKey
  BY DEF Inv
<1> QED
  BY <1>1, InvHolds, PTL

(* Requests with one key are answered with one order, unless it is undone. *)
THEOREM AnswersAgree == Spec => []SameOrderForAll
<1>1. ASSUME Inv PROVE SameOrderForAll
  <2> SUFFICES ASSUME NEW a \in Attempt, NEW b \in Attempt, Named(a), Named(b),
                      answer[a].order = answer[b].order
               PROVE  answer[a] = answer[b]
    BY <1>1 DEF Inv, AnsweredExists, SameOrderForAll
  <2> QED
    BY DEF Named
<1> QED
  BY <1>1, InvHolds, PTL

(* The order an answer names is paid; outside transactions its writer may  *)
(* still be about to pay, have undone it, or have died.                    *)
THEOREM AnswersPaid == Spec => []AnsweredIsPaid
<1>1. ASSUME Inv PROVE AnsweredIsPaid
  <2> SUFFICES ASSUME NEW a \in Attempt, Named(a),
                      NEW o, o = answer[a].order
               PROVE  \/ charged[o] = 1
                      \/ /\ FALSE \in Modes
                         /\ pc[o] \in {"pay", "undo", "dead"} \/ o \in undone
    BY DEF AnsweredIsPaid
  <2>1. CASE Exists /\ doc.order = o
    BY <1>1, <2>1, DocOrder DEF Inv, Writer, Paid
  <2>2. CASE o \in undone
    BY <1>1, <2>2 DEF Inv, Writer
  <2> QED
    BY <1>1, <2>1, <2>2 DEF Inv, AnsweredExists
<1> QED
  BY <1>1, InvHolds, PTL

(* As long as no lock expires under its holder, the lock is one: the only  *)
(* property that needs it.                                                 *)
THEOREM LocksExclude == Spec => []LockIsExclusive
<1>1. ASSUME Inv PROVE LockIsExclusive
  BY <1>1 DEF Inv, LockHeld, LockIsExclusive
<1> QED
  BY <1>1, InvHolds, PTL

(* No number is rented and forgotten, except by a process that died.       *)
THEOREM NumbersAccounted == Spec => []NumberIsAccountedFor
<1>1. Inv => NumberIsAccountedFor
  BY DEF Inv
<1> QED
  BY <1>1, InvHolds, PTL
=============================================================================
