--------------------------- MODULE DepositsProofs ---------------------------
(***************************************************************************)
(* Proofs about Deposits, for every number of deposits, processes and      *)
(* deaths: the type invariant, and that a deposit is credited at most      *)
(* once, has its Transaction row, is acknowledged only when settled, and   *)
(* is credited only when its money has arrived.                            *)
(*                                                                         *)
(* The three are inductive together with the order of things: a charge     *)
(* before the document (RecordAlone, Known), the claim before everything   *)
(* that comes after it (ClaimedFirst, ConfirmedIsCredited).                *)
(***************************************************************************)
EXTENDS Deposits, TLAPS

(* The document is written once, after the charge, by whoever asked for it.*)
RecordAlone ==
  \A d \in Deposit :
    /\ charge[d] = NoCharge =>
         status[d] = "absent" /\ \A p \in Proc : ~On(p, d, "record")
    /\ \A p \in Proc : On(p, d, "record") =>
         status[d] = "absent" /\ \A q \in Proc \ {p} : ~On(q, d, "record")

(* Everybody else found a document.                                        *)
Known ==
  \A p \in Proc, d \in Deposit, s \in Step \ {"record"} :
    On(p, d, s) => status[d] # "absent"

Claimed(d) == status[d] \in {"confirmed", "failed"}

(* What a claim leads to comes after the claim, or the admin's refusal.    *)
ClaimedFirst ==
  \A d \in Deposit :
    /\ acked[d] \/ credited[d] # 0 \/ Died(d, "credit") => Claimed(d)
    /\ \A p \in Proc, s \in {"credit", "book", "answer"} :
         On(p, d, s) => Claimed(d)

(* One process at most goes from the claim to the row.                     *)
CreditAlone ==
  \A p \in Proc, d \in Deposit :
    /\ On(p, d, "credit") => ~Died(d, "credit")
    /\ On(p, d, "book") =>
         /\ credited[d] = 1 /\ ~Died(d, "book")
         /\ \A q \in Proc \ {p} : ~On(q, d, "book")

ConfirmedIsCredited ==
  \A d \in Deposit : status[d] = "confirmed" =>
    credited[d] = 1 \/ Died(d, "credit") \/ \E p \in Proc : On(p, d, "credit")

(* The row of a credit is still to come, or never will.                    *)
Due(d) == Died(d, "book") \/ \E p \in Proc : On(p, d, "book")

Inv ==
  /\ TypeOK
  /\ RecordAlone
  /\ Known
  /\ ClaimedFirst
  /\ CreditAlone
  /\ ConfirmedIsCredited
  /\ CreditedAtMostOnce
  /\ CreditIsBooked

-----------------------------------------------------------------------------
(* How a process moves from one step to another.                           *)

OthersStay(p) ==
  \A q \in Proc \ {p}, d \in Deposit, s \in Step : On(q, d, s)' <=> On(q, d, s)

(* A process that is at some step has a task.                              *)
LEMMA Busy ==
  ASSUME TypeOK, NEW p \in Proc, task[p] # Idle
  PROVE  /\ task[p] \in Task
         /\ task[p].deposit \in Deposit /\ task[p].step \in Step
         /\ \A d \in Deposit, s \in Step :
              On(p, d, s) <=> d = task[p].deposit /\ s = task[p].step
  BY DEF TypeOK, Task, On, At

(* A process stops.                                                        *)
LEMMA Returned ==
  ASSUME TypeOK, NEW p \in Proc, Return(p)
  PROVE  /\ task' \in [Proc -> Task \cup {Idle}]
         /\ \A d \in Deposit, s \in Step : ~On(p, d, s)'
         /\ OthersStay(p)
  BY DEF TypeOK, Return, Idle, OthersStay, On, At, Step

(* A process takes the next step.                                          *)
LEMMA Went ==
  ASSUME TypeOK, NEW p \in Proc, task[p] # Idle, NEW s \in Step, Goto(p, s)
  PROVE  /\ task' \in [Proc -> Task \cup {Idle}]
         /\ \A d \in Deposit, x \in Step :
              On(p, d, x)' <=> d = task[p].deposit /\ x = s
         /\ OthersStay(p)
<1> DEFINE t == [task[p] EXCEPT !.step = s]
<1>1. t \in Task /\ t.step = s /\ t.deposit = task[p].deposit
  BY Busy DEF Task
<1>2. task' = [task EXCEPT ![p] = t]
  BY DEF Goto
<1> HIDE DEF t
<1> QED
  BY <1>1, <1>2 DEF TypeOK, OthersStay, On, At

(* A process takes up a task.                                              *)
LEMMA Began ==
  ASSUME TypeOK, NEW p \in Proc, NEW s \in Step, NEW d \in Deposit,
         NEW c \in Caller, Begin(p, s, d, c)
  PROVE  /\ task' \in [Proc -> Task \cup {Idle}]
         /\ \A e \in Deposit, x \in Step : ~On(p, e, x)
         /\ \A e \in Deposit, x \in Step : On(p, e, x)' <=> e = d /\ x = s
         /\ OthersStay(p)
<1> DEFINE t == [step |-> s, deposit |-> d, by |-> c]
<1>1. t \in Task /\ t.step = s /\ t.deposit = d
  BY DEF Task
<1>2. task' = [task EXCEPT ![p] = t] /\ task[p] = Idle
  BY DEF Begin
<1> HIDE DEF t
<1> QED
  BY <1>1, <1>2 DEF TypeOK, OthersStay, On, At, Idle, Step

-----------------------------------------------------------------------------
(* Each action preserves the invariant.                                    *)

LEMMA InitInv == Init => Inv
<1> SUFFICES ASSUME Init PROVE Inv
  OBVIOUS
<1>1. TypeOK
  BY DEF Init, TypeOK, DepositStatus, Charge
<1>2. \A p \in Proc, d \in Deposit, s \in Step : ~On(p, d, s)
  BY DEF Init, On, At, Idle, Step
<1> QED
  BY <1>1, <1>2 DEF Init, Inv, RecordAlone, Known, ClaimedFirst, CreditAlone,
     ConfirmedIsCredited, CreditedAtMostOnce, CreditIsBooked, Died, Step

(* The charge is new, and so is whoever records it.                        *)
LEMMA CreateChargeStep ==
  ASSUME Inv, NEW p \in Proc, NEW d \in Deposit, CreateCharge(p, d)
  PROVE  Inv'
<1>a. PICK g \in Gateway :
        charge' = [charge EXCEPT ![d] = [via |-> g, stage |-> "open"]]
  BY DEF CreateCharge
<1>1. /\ charge[d] = NoCharge /\ charge' \in [Deposit -> Charge]
      /\ charge'[d] # NoCharge /\ \A e \in Deposit \ {d} : charge'[e] = charge[e]
      /\ Begin(p, "record", d, "customer")
      /\ UNCHANGED <<status, acked, credited, booked, died>>
  BY <1>a DEF CreateCharge, money, Inv, TypeOK, Charge, Stage, NoCharge
<1>2. /\ task' \in [Proc -> Task \cup {Idle}]
      /\ \A e \in Deposit, x \in Step : ~On(p, e, x)
      /\ \A e \in Deposit, x \in Step : On(p, e, x)' <=> e = d /\ x = "record"
      /\ OthersStay(p)
  BY <1>1, Began DEF Inv, Step, Caller
<1>3. TypeOK'
  BY <1>1, <1>2 DEF Inv, TypeOK
<1>4. RecordAlone' /\ Known'
  BY <1>1, <1>2 DEF Inv, TypeOK, RecordAlone, Known, OthersStay, Step
<1>5. ClaimedFirst' /\ CreditAlone' /\ ConfirmedIsCredited'
  BY <1>1, <1>2 DEF Inv, ClaimedFirst, CreditAlone, ConfirmedIsCredited,
     OthersStay, Step, Claimed, Died
<1>6. CreditedAtMostOnce' /\ CreditIsBooked'
  BY <1>1, <1>2 DEF Inv, CreditedAtMostOnce, CreditIsBooked, OthersStay, Step, Died
<1> QED
  BY <1>3, <1>4, <1>5, <1>6 DEF Inv

(* A webhook, an admin or a process that goes on: the documents and the    *)
(* money stay as they are, and a process comes to a step that the document *)
(* allows.                                                                 *)
LEMMA QuietStep ==
  ASSUME Inv, NEW p \in Proc, NEW d \in Deposit,
         NEW s \in {"claim", "answer", "fail"}, Begin(p, s, d, "webhook") \/ Begin(p, s, d, "admin"),
         status[d] # "absent", s = "answer" => Claimed(d),
         UNCHANGED <<status, charge, acked, credited, booked, died>>
  PROVE  Inv'
<1>1. /\ task' \in [Proc -> Task \cup {Idle}]
      /\ \A e \in Deposit, x \in Step : ~On(p, e, x)
      /\ \A e \in Deposit, x \in Step : On(p, e, x)' <=> e = d /\ x = s
      /\ OthersStay(p)
  BY Began DEF Inv, Step, Caller
<1>2. TypeOK'
  BY <1>1 DEF Inv, TypeOK
<1>3. RecordAlone' /\ Known'
  BY <1>1 DEF Inv, RecordAlone, Known, OthersStay, Step
<1>4. ClaimedFirst' /\ CreditAlone' /\ ConfirmedIsCredited'
  BY <1>1 DEF Inv, ClaimedFirst, CreditAlone, ConfirmedIsCredited,
     OthersStay, Step, Claimed, Died
<1>5. CreditedAtMostOnce' /\ CreditIsBooked'
  BY <1>1 DEF Inv, CreditedAtMostOnce, CreditIsBooked, OthersStay, Step, Died
<1> QED
  BY <1>2, <1>3, <1>4, <1>5 DEF Inv

LEMMA RequestStep ==
  ASSUME Inv, NEW p \in Proc, NEW d \in Deposit,
         Webhook(p, d) \/ AdminConfirms(p, d) \/ AdminFails(p, d)
  PROVE  Inv'
<1>1. CASE Webhook(p, d)
  <2> DEFINE s == IF status[d] = "pending" THEN "claim" ELSE "answer"
  <2>1. status[d] # "absent" /\ (s = "answer" => Claimed(d))
    BY <1>1 DEF Webhook, Inv, TypeOK, DepositStatus, Claimed
  <2> QED
    BY <1>1, <2>1, QuietStep DEF Webhook, money
<1>2. CASE AdminConfirms(p, d) \/ AdminFails(p, d)
  BY <1>2, QuietStep DEF AdminConfirms, AdminFails, money
<1> QED
  BY <1>1, <1>2

(* The document appears: only its writer knew of the charge.               *)
LEMMA RecordStep ==
  ASSUME Inv, NEW p \in Proc, Record(p)
  PROVE  Inv'
<1> DEFINE d == task[p].deposit
<1>1. /\ task[p] # Idle /\ d \in Deposit /\ On(p, d, "record")
      /\ status' = [status EXCEPT ![d] = "pending"]
      /\ UNCHANGED <<charge, acked, credited, booked, died>>
  BY Busy DEF Record, At, Idle, On, Inv, money
<1>2. /\ task' \in [Proc -> Task \cup {Idle}]
      /\ \A e \in Deposit, x \in Step : ~On(p, e, x)'
      /\ OthersStay(p)
  BY Returned DEF Record, Inv
<1>3. \A e \in Deposit : ~On(p, e, "credit") /\ ~On(p, e, "book")
  BY <1>1 DEF On, At
<1> HIDE DEF d
<1>4. TypeOK'
  BY <1>1, <1>2 DEF Inv, TypeOK, DepositStatus
<1>5. status[d] = "absent" /\ charge[d] # NoCharge /\ ~Claimed(d)
  BY <1>1 DEF Inv, RecordAlone, Claimed
<1>6. RecordAlone' /\ Known'
  BY <1>1, <1>2, <1>5 DEF Inv, TypeOK, RecordAlone, Known, OthersStay, Step
<1>7. ClaimedFirst' /\ CreditAlone' /\ ConfirmedIsCredited'
  BY <1>1, <1>2, <1>3, <1>5 DEF Inv, TypeOK, ClaimedFirst, CreditAlone,
     ConfirmedIsCredited, OthersStay, Step, Claimed, Died
<1>8. CreditedAtMostOnce' /\ CreditIsBooked'
  BY <1>1, <1>2, <1>3 DEF Inv, CreditedAtMostOnce, CreditIsBooked, OthersStay,
     Step, Died
<1> QED
  BY <1>4, <1>6, <1>7, <1>8 DEF Inv

(* Only what is settled is acknowledged.                                   *)
LEMMA AnswerStep ==
  ASSUME Inv, NEW p \in Proc, Answer(p)
  PROVE  Inv'
<1> DEFINE d == task[p].deposit
<1>1. /\ task[p] # Idle /\ d \in Deposit /\ On(p, d, "answer")
      /\ acked' = [acked EXCEPT ![d] = TRUE] \/ acked' = acked
      /\ UNCHANGED <<status, charge, credited, booked, died>>
  BY Busy DEF Answer, At, Idle, On, Inv, money
<1>2. /\ task' \in [Proc -> Task \cup {Idle}]
      /\ \A e \in Deposit, x \in Step : ~On(p, e, x)'
      /\ OthersStay(p)
  BY Returned DEF Answer, Inv
<1>3. \A e \in Deposit : ~On(p, e, "credit") /\ ~On(p, e, "book")
  BY <1>1 DEF On, At
<1> HIDE DEF d
<1>4. TypeOK'
  BY <1>1, <1>2 DEF Inv, TypeOK
<1>5. RecordAlone' /\ Known'
  BY <1>1, <1>2 DEF Inv, RecordAlone, Known, OthersStay, Step
<1>6. ClaimedFirst'
  BY <1>1, <1>2 DEF Inv, TypeOK, ClaimedFirst, OthersStay, Step, Claimed, Died
<1>7. CreditAlone' /\ ConfirmedIsCredited'
  BY <1>1, <1>2, <1>3 DEF Inv, CreditAlone, ConfirmedIsCredited, OthersStay, Step,
     Died
<1>8. CreditedAtMostOnce' /\ CreditIsBooked'
  BY <1>1, <1>2, <1>3 DEF Inv, CreditedAtMostOnce, CreditIsBooked, OthersStay,
     Step, Died
<1> QED
  BY <1>4, <1>5, <1>6, <1>7, <1>8 DEF Inv

(* An admin's refusal: nothing that must be pending or absent is left.     *)
LEMMA SaveFailedStep ==
  ASSUME Inv, NEW p \in Proc, SaveFailed(p)
  PROVE  Inv'
<1> DEFINE d == task[p].deposit
<1>1. /\ task[p] # Idle /\ d \in Deposit /\ On(p, d, "fail")
      /\ status' = [status EXCEPT ![d] = "failed"]
      /\ UNCHANGED <<charge, acked, credited, booked, died>>
  BY Busy DEF SaveFailed, At, Idle, On, Inv, money
<1>2. /\ task' \in [Proc -> Task \cup {Idle}]
      /\ \A e \in Deposit, x \in Step : On(p, e, x)' <=> e = d /\ x = "answer"
      /\ OthersStay(p)
  BY <1>1, Went DEF SaveFailed, Inv, Step
<1>3. \A e \in Deposit : ~On(p, e, "credit") /\ ~On(p, e, "book")
  BY <1>1 DEF On, At
<1> HIDE DEF d
<1>4. status[d] # "absent"
  BY <1>1 DEF Inv, Known, Step
<1>5. TypeOK'
  BY <1>1, <1>2 DEF Inv, TypeOK, DepositStatus
<1>6. RecordAlone' /\ Known'
  BY <1>1, <1>2, <1>4 DEF Inv, TypeOK, RecordAlone, Known, OthersStay, Step
<1>7. ClaimedFirst' /\ CreditAlone' /\ ConfirmedIsCredited'
  BY <1>1, <1>2, <1>3 DEF Inv, TypeOK, ClaimedFirst, CreditAlone,
     ConfirmedIsCredited, OthersStay, Step, Claimed, Died
<1>8. CreditedAtMostOnce' /\ CreditIsBooked'
  BY <1>1, <1>2, <1>3 DEF Inv, CreditedAtMostOnce, CreditIsBooked, OthersStay,
     Step, Died
<1> QED
  BY <1>5, <1>6, <1>7, <1>8 DEF Inv

(* The claim: of a pending deposit nothing was credited, and nobody is     *)
(* about to credit it.                                                     *)
LEMMA ClaimStep ==
  ASSUME Inv, NEW p \in Proc, Claim(p)
  PROVE  Inv'
<1> DEFINE d == task[p].deposit
<1>1. /\ task[p] # Idle /\ d \in Deposit /\ On(p, d, "claim")
      /\ UNCHANGED <<charge, acked, credited, booked, died>>
  BY Busy DEF Claim, At, Idle, On, Inv, money
<1>2. \A e \in Deposit : ~On(p, e, "credit") /\ ~On(p, e, "book")
  BY <1>1 DEF On, At
<1>3. CASE status[d] = "pending"
  <2>1. status' = [status EXCEPT ![d] = "confirmed"] /\ Goto(p, "credit")
    BY <1>3 DEF Claim
  <2>2. /\ task' \in [Proc -> Task \cup {Idle}]
        /\ \A e \in Deposit, x \in Step : On(p, e, x)' <=> e = d /\ x = "credit"
        /\ OthersStay(p)
    BY <1>1, <2>1, Went DEF Inv, Step
  <2> HIDE DEF d
  <2>3. /\ credited[d] = 0 /\ ~Died(d, "credit")
        /\ \A q \in Proc : ~On(q, d, "credit")
    BY <1>3, <1>1 DEF Inv, ClaimedFirst, Claimed
  <2>4. TypeOK'
    BY <1>1, <2>1, <2>2 DEF Inv, TypeOK, DepositStatus
  <2>5. RecordAlone' /\ Known'
    BY <1>1, <1>3, <2>1, <2>2 DEF Inv, TypeOK, RecordAlone, Known, OthersStay, Step
  <2>6. ClaimedFirst' /\ ConfirmedIsCredited'
    BY <1>1, <1>2, <2>1, <2>2 DEF Inv, TypeOK, ClaimedFirst, ConfirmedIsCredited,
       OthersStay, Step, Claimed, Died
  <2>7. CreditAlone' /\ CreditedAtMostOnce' /\ CreditIsBooked'
    BY <1>1, <1>2, <2>2, <2>3 DEF Inv, CreditAlone, CreditedAtMostOnce,
       CreditIsBooked, OthersStay, Step, Died
  <2> QED
    BY <2>4, <2>5, <2>6, <2>7 DEF Inv
<1>4. CASE status[d] # "pending"
  <2>1. status' = status /\ Return(p)
    BY <1>4 DEF Claim
  <2>2. /\ task' \in [Proc -> Task \cup {Idle}]
        /\ \A e \in Deposit, x \in Step : ~On(p, e, x)'
        /\ OthersStay(p)
    BY <2>1, Returned DEF Inv
  <2> HIDE DEF d
  <2>3. TypeOK'
    BY <1>1, <2>1, <2>2 DEF Inv, TypeOK
  <2>4. RecordAlone' /\ Known' /\ ClaimedFirst'
    BY <1>1, <2>1, <2>2 DEF Inv, RecordAlone, Known, ClaimedFirst, OthersStay,
       Step, Claimed, Died
  <2>5. CreditAlone' /\ ConfirmedIsCredited' /\ CreditedAtMostOnce' /\ CreditIsBooked'
    BY <1>1, <1>2, <2>1, <2>2 DEF Inv, CreditAlone, ConfirmedIsCredited,
       CreditedAtMostOnce, CreditIsBooked, OthersStay, Step, Died
  <2> QED
    BY <2>3, <2>4, <2>5 DEF Inv
<1> QED
  BY <1>3, <1>4

(* The credit, by the one process that claimed.                            *)
LEMMA CreditStep ==
  ASSUME Inv, NEW p \in Proc, Credit(p)
  PROVE  Inv'
<1> DEFINE d == task[p].deposit
<1>1. /\ task[p] # Idle /\ d \in Deposit /\ On(p, d, "credit")
      /\ credited' = [credited EXCEPT ![d] = @ + 1]
      /\ UNCHANGED <<status, charge, acked, booked, died>>
  BY Busy DEF Credit, At, Idle, On, Inv
<1>2. /\ task' \in [Proc -> Task \cup {Idle}]
      /\ \A e \in Deposit, x \in Step : On(p, e, x)' <=> e = d /\ x = "book"
      /\ OthersStay(p)
  BY <1>1, Went DEF Credit, Inv, Step
<1>3. \A e \in Deposit : ~On(p, e, "book") /\ (On(p, e, "credit") => e = d)
  BY <1>1 DEF On, At
<1> HIDE DEF d
<1>4. /\ credited[d] = 0 /\ credited'[d] = 1 /\ Claimed(d)
      /\ \A q \in Proc \ {p} : ~On(q, d, "credit")
  BY <1>1 DEF Inv, TypeOK, CreditedAtMostOnce, ClaimedFirst
<1>5. booked[d] = 0 /\ ~Died(d, "book") /\ \A q \in Proc : ~On(q, d, "book")
  <2>1. booked[d] \in Nat
    BY <1>1 DEF Inv, TypeOK
  <2>2. \A q \in Proc : ~On(q, d, "book")
    BY <1>1, <1>4 DEF Inv, CreditAlone
  <2>3. 0 = booked[d] + IF Died(d, "book") THEN 1 ELSE 0
    BY <1>1, <1>4, <2>2 DEF Inv, CreditIsBooked
  <2> QED
    BY <2>1, <2>2, <2>3
<1>6. TypeOK'
  BY <1>1, <1>2 DEF Inv, TypeOK
<1>7. RecordAlone' /\ Known'
  BY <1>1, <1>2 DEF Inv, RecordAlone, Known, OthersStay, Step
<1>8. ClaimedFirst' /\ ConfirmedIsCredited'
  BY <1>1, <1>2, <1>3, <1>4 DEF Inv, TypeOK, ClaimedFirst, ConfirmedIsCredited,
     OthersStay, Step, Claimed, Died
<1>9. CreditAlone' /\ CreditedAtMostOnce'
  BY <1>1, <1>2, <1>3, <1>4, <1>5 DEF Inv, TypeOK, CreditAlone, CreditedAtMostOnce,
     OthersStay, Step, Died
<1>10. CreditIsBooked'
  <2> SUFFICES ASSUME NEW e \in Deposit
               PROVE  credited'[e] = booked'[e] + IF Due(e)' THEN 1 ELSE 0
    BY DEF CreditIsBooked, Due
  <2>1. CASE e = d
    <3>1. Due(e)'
      BY <1>1, <1>2, <2>1 DEF Due, Step
    <3> QED
      BY <1>1, <1>4, <1>5, <2>1, <3>1
  <2>2. CASE e # d
    <3>1. Due(e)' <=> Due(e)
      BY <1>1, <1>2, <1>3, <2>2 DEF Due, OthersStay, Step, Died
    <3>2. credited'[e] = credited[e] /\ booked'[e] = booked[e]
      BY <1>1, <2>2 DEF Inv, TypeOK
    <3>3. credited[e] = booked[e] + IF Due(e) THEN 1 ELSE 0
      BY DEF Inv, CreditIsBooked, Due
    <3> QED
      BY <3>1, <3>2, <3>3
  <2> QED
    BY <2>1, <2>2
<1> QED
  BY <1>6, <1>7, <1>8, <1>9, <1>10 DEF Inv

(* The row of the credit.                                                  *)
LEMMA BookStep ==
  ASSUME Inv, NEW p \in Proc, Book(p)
  PROVE  Inv'
<1> DEFINE d == task[p].deposit
<1>1. /\ task[p] # Idle /\ d \in Deposit /\ On(p, d, "book")
      /\ booked' = [booked EXCEPT ![d] = @ + 1]
      /\ UNCHANGED <<status, charge, acked, credited, died>>
  BY Busy DEF Book, At, Idle, On, Inv
<1>2. /\ task' \in [Proc -> Task \cup {Idle}]
      /\ \A e \in Deposit, x \in Step : On(p, e, x)' <=> e = d /\ x = "answer"
      /\ OthersStay(p)
  BY <1>1, Went DEF Book, Inv, Step
<1>3. \A e \in Deposit : ~On(p, e, "credit") /\ (On(p, e, "book") => e = d)
  BY <1>1 DEF On, At
<1> HIDE DEF d
<1>4. /\ credited[d] = 1 /\ Claimed(d) /\ ~Died(d, "book")
      /\ \A q \in Proc \ {p} : ~On(q, d, "book")
  BY <1>1 DEF Inv, CreditAlone, ClaimedFirst
<1>5. TypeOK'
  BY <1>1, <1>2 DEF Inv, TypeOK
<1>6. RecordAlone' /\ Known'
  BY <1>1, <1>2 DEF Inv, RecordAlone, Known, OthersStay, Step
<1>7. ClaimedFirst' /\ ConfirmedIsCredited'
  BY <1>1, <1>2, <1>3, <1>4 DEF Inv, ClaimedFirst, ConfirmedIsCredited,
     OthersStay, Step, Claimed, Died
<1>8. CreditAlone' /\ CreditedAtMostOnce'
  BY <1>1, <1>2, <1>3 DEF Inv, CreditAlone, CreditedAtMostOnce, OthersStay,
     Step, Died
<1>9. CreditIsBooked'
  <2> SUFFICES ASSUME NEW e \in Deposit
               PROVE  credited'[e] = booked'[e] + IF Due(e)' THEN 1 ELSE 0
    BY DEF CreditIsBooked, Due
  <2>1. booked[e] \in Nat
    BY DEF Inv, TypeOK
  <2>2. credited[e] = booked[e] + IF Due(e) THEN 1 ELSE 0
    BY DEF Inv, CreditIsBooked, Due
  <2>3. CASE e = d
    <3>1. Due(e) /\ ~Due(e)'
      BY <1>1, <1>2, <1>4, <2>3 DEF Due, OthersStay, Step, Died
    <3>2. booked'[e] = booked[e] + 1 /\ credited'[e] = credited[e]
      BY <1>1, <2>3 DEF Inv, TypeOK
    <3> QED
      BY <2>1, <2>2, <3>1, <3>2
  <2>4. CASE e # d
    <3>1. Due(e)' <=> Due(e)
      BY <1>1, <1>2, <1>3, <2>4 DEF Due, OthersStay, Step, Died
    <3>2. booked'[e] = booked[e]
      BY <1>1, <2>4 DEF Inv, TypeOK
    <3> QED
      BY <1>1, <2>2, <3>1, <3>2
  <2> QED
    BY <2>3, <2>4
<1> QED
  BY <1>5, <1>6, <1>7, <1>8, <1>9 DEF Inv

(* A death: where it matters, died remembers it.                           *)
LEMMA CrashStep ==
  ASSUME Inv, NEW p \in Proc, Crash(p)
  PROVE  Inv'
<1> DEFINE d == task[p].deposit
           s == task[p].step
<1>1. /\ task[p] # Idle /\ d \in Deposit /\ s \in Step /\ On(p, d, s)
      /\ died' = died \cup {<<d, s>>}
      /\ UNCHANGED <<status, charge, acked, credited, booked>>
  BY Busy DEF Crash, Inv, money
<1>2. /\ task' \in [Proc -> Task \cup {Idle}]
      /\ \A e \in Deposit, x \in Step : ~On(p, e, x)'
      /\ OthersStay(p)
  BY Returned DEF Crash, Inv
<1>3. \A e \in Deposit, x \in Step : On(p, e, x) => e = d /\ x = s
  BY <1>1 DEF On, At
<1> HIDE DEF d, s
<1>4. \A e \in Deposit, x \in Step :
        Died(e, x)' <=> Died(e, x) \/ (e = d /\ x = s)
  BY <1>1 DEF Died
<1>5. TypeOK'
  BY <1>1, <1>2 DEF Inv, TypeOK
<1>6. RecordAlone' /\ Known'
  BY <1>1, <1>2 DEF Inv, RecordAlone, Known, OthersStay, Step
<1>7. ClaimedFirst'
  BY <1>1, <1>2, <1>4 DEF Inv, ClaimedFirst, OthersStay, Step, Claimed
<1>8. CreditAlone'
  BY <1>1, <1>2, <1>4 DEF Inv, CreditAlone, CreditedAtMostOnce, OthersStay, Step
<1>9. ConfirmedIsCredited'
  BY <1>1, <1>2, <1>3, <1>4 DEF Inv, ConfirmedIsCredited, OthersStay, Step
<1>10. CreditedAtMostOnce'
  BY <1>1, <1>2 DEF Inv, CreditedAtMostOnce, OthersStay, Step
<1>11. CreditIsBooked'
  <2> SUFFICES ASSUME NEW e \in Deposit PROVE Due(e)' <=> Due(e)
    BY <1>1 DEF Inv, CreditIsBooked, Due
  <2> QED
    BY <1>1, <1>2, <1>3, <1>4 DEF Due, OthersStay, Step
<1> QED
  BY <1>5, <1>6, <1>7, <1>8, <1>9, <1>10, <1>11 DEF Inv

LEMMA PaysStep ==
  ASSUME Inv, NEW d \in Deposit, CustomerPays(d)
  PROVE  Inv'
<1>a. PICK s \in {"confirming", "short", "paid", "over", "late"} :
        charge' = [charge EXCEPT ![d].stage = s]
  BY DEF CustomerPays
<1>1. /\ charge' \in [Deposit -> Charge]
      /\ \A e \in Deposit : charge'[e] = NoCharge => charge[e] = NoCharge
      /\ UNCHANGED <<status, acked, credited, booked, task, died>>
  BY <1>a DEF CustomerPays, money, Inv, TypeOK, Charge, Stage, NoCharge
<1>2. TypeOK' /\ RecordAlone'
  BY <1>1 DEF Inv, TypeOK, RecordAlone, On, At
<1> QED
  BY <1>1, <1>2 DEF Inv, Known, ClaimedFirst, CreditAlone, ConfirmedIsCredited,
     CreditedAtMostOnce, CreditIsBooked, Claimed, Died, On, At

LEMMA NextInv == Inv /\ [Next]_vars => Inv'
<1> SUFFICES ASSUME Inv, [Next]_vars PROVE Inv'
  OBVIOUS
<1>1. ASSUME NEW p \in Proc, NEW d \in Deposit, Start(p, d) PROVE Inv'
  BY <1>1, CreateChargeStep, RequestStep DEF Start
<1>2. ASSUME NEW p \in Proc, Continue(p) PROVE Inv'
  BY <1>2, RecordStep, AnswerStep, SaveFailedStep, ClaimStep, CreditStep, BookStep
     DEF Continue
<1>3. ASSUME NEW p \in Proc, Crash(p) PROVE Inv'
  BY <1>3, CrashStep
<1>4. ASSUME NEW d \in Deposit, CustomerPays(d) PROVE Inv'
  BY <1>4, PaysStep
<1>5. CASE UNCHANGED vars
  BY <1>5 DEF vars, money, Inv, TypeOK, RecordAlone, Known, ClaimedFirst,
     CreditAlone, ConfirmedIsCredited, CreditedAtMostOnce, CreditIsBooked,
     Claimed, Died, On, At
<1> QED
  BY <1>1, <1>2, <1>3, <1>4, <1>5 DEF Next

LEMMA InvHolds == Spec => []Inv
<1> QED
  BY InitInv, NextInv, PTL DEF Spec

-----------------------------------------------------------------------------
(* A request that deals with a document, unless it is an admin's, has seen *)
(* an event of money that had arrived; and money that has arrived stays.   *)
Beyond == Step \ {"record"}
WebhookPaid ==
  \A p \in Proc, d \in Deposit, s \in Beyond :
    On(p, d, s) /\ task[p].by # "admin" => charge[d].stage \in Arrived

(* What the four parsers take for paid is what has arrived.                *)
LEMMA DeliversArrived ==
  ASSUME NEW c \in Charge, Delivers(c)
  PROVE  c.stage \in Arrived
<1>1. /\ c \in [via: Gateway, stage: Stage]
      /\ c.stage \in {"confirming", "short", "paid", "over", "late"}
      /\ c.via \in Gateways
  BY GatewayAssumption DEF Delivers, Charge, NoCharge, Stage
<1>2. SUFFICES ASSUME c.stage \in {"confirming", "short"} PROVE FALSE
  BY <1>1 DEF Arrived
<1>3. EventPaid(c.via, Reports[c.via][c.stage])
  BY DEF Delivers
<1>4. CASE c.via = "stripe"
  BY <1>2, <1>3, <1>4 DEF EventPaid, Reports, Says, StripePaid
<1>5. CASE c.via = "nowpayments"
  BY <1>2, <1>3, <1>5 DEF EventPaid, Reports, Says, NowPaymentsPaid
<1>6. CASE c.via = "bachs"
  BY <1>2, <1>3, <1>6 DEF EventPaid, Reports, Says, BachsPaid
<1>7. CASE c.via = "cryptomus"
  BY <1>2, <1>3, <1>7 DEF EventPaid, Reports, Says, CryptomusPaid
<1> QED
  BY <1>1, <1>4, <1>5, <1>6, <1>7 DEF Gateways

LEMMA ArrivedStays ==
  ASSUME Inv, [Next]_vars, NEW d \in Deposit, charge[d].stage \in Arrived
  PROVE  charge'[d].stage \in Arrived
<1>1. ASSUME NEW p \in Proc, NEW e \in Deposit, CreateCharge(p, e)
      PROVE  charge'[d] = charge[d]
  BY <1>1 DEF CreateCharge, NoCharge, Arrived, Inv, TypeOK
<1>2. ASSUME NEW e \in Deposit, CustomerPays(e)
      PROVE  charge'[d] = charge[d]
  BY <1>2 DEF CustomerPays, Arrived, Inv, TypeOK
<1>3. ASSUME NEW p \in Proc, NEW e \in Deposit,
             Webhook(p, e) \/ AdminConfirms(p, e) \/ AdminFails(p, e)
      PROVE  charge'[d] = charge[d]
  BY <1>3 DEF Webhook, AdminConfirms, AdminFails
<1>4. ASSUME NEW p \in Proc, Continue(p) \/ Crash(p)
      PROVE  charge'[d] = charge[d]
  BY <1>4 DEF Continue, Record, Answer, SaveFailed, Claim, Credit, Book, Crash
<1> QED
  BY <1>1, <1>2, <1>3, <1>4 DEF Next, Start, vars

LEMMA WebhookPaidStep == Inv /\ WebhookPaid /\ [Next]_vars => WebhookPaid'
<1> SUFFICES ASSUME Inv, WebhookPaid, [Next]_vars,
                    NEW p \in Proc, NEW d \in Deposit, NEW s \in Beyond,
                    On(p, d, s)', task'[p].by # "admin"
             PROVE  charge'[d].stage \in Arrived
  BY DEF WebhookPaid
<1>1. CASE \E x \in Beyond : On(p, d, x) /\ task[p].by # "admin"
  BY <1>1, ArrivedStays DEF WebhookPaid
<1>2. CASE Webhook(p, d)
  <2>1. charge[d].stage \in Arrived
    BY <1>2, DeliversArrived DEF Webhook, Inv, TypeOK
  <2> QED
    BY <2>1, ArrivedStays
<1>3. ASSUME NEW q \in Proc, NEW e \in Deposit, Start(q, e), ~Webhook(p, d)
      PROVE  task'[p] = task[p]
  BY <1>3 DEF Start, CreateCharge, Webhook, AdminConfirms, AdminFails, Begin, On, At,
     Inv, TypeOK, Beyond
<1>4. ASSUME NEW q \in Proc, Continue(q) \/ Crash(q)
      PROVE  \/ task'[p] = task[p]
             \/ task[p] # Idle /\ ~At(p, "record") /\ task'[p].by = task[p].by /\ task'[p].deposit = task[p].deposit
  <2>1. CASE Crash(q)
    BY <2>1 DEF Crash, Return, On, At, Idle, Beyond, Step, Inv, TypeOK
  <2>2. CASE Continue(q)
    <3>1. q = p => task[p] # Idle
      BY <2>2 DEF Continue, Record, Answer, SaveFailed, Claim, Credit, Book, At, Idle
    <3>2. (~At(q, "record") /\ \E x \in Step : Goto(q, x)) \/ Return(q)
      BY <2>2 DEF Continue, Record, Answer, SaveFailed, Claim, Credit, Book, Step, At
    <3>3. CASE Return(q)
      BY <3>3 DEF Return, On, At, Idle, Beyond, Step, Inv, TypeOK
    <3>4. CASE ~At(q, "record") /\ \E x \in Step : Goto(q, x)
      BY <3>1, <3>4 DEF Goto, Inv, TypeOK, Task, Idle
    <3> QED
      BY <3>2, <3>3, <3>4
  <2> QED
    BY <1>4, <2>1, <2>2
<1>5. CASE \/ task'[p] = task[p]
           \/ /\ task[p] # Idle /\ ~At(p, "record") /\ task'[p].by = task[p].by
              /\ task'[p].deposit = task[p].deposit
  <2>1. task[p] \in Task
    BY <1>5 DEF On, At, Inv, TypeOK, Idle, Beyond, Step
  <2> QED
    BY <1>1, <1>5, <2>1 DEF On, At, Task, Beyond
<1> QED
  BY <1>2, <1>3, <1>4, <1>5 DEF Next, CustomerPays, vars

LEMMA WebhookPaidHolds == Spec => []WebhookPaid
<1>1. Init => WebhookPaid
  BY DEF Init, WebhookPaid, On, At, Idle, Beyond, Step
<1> QED
  BY <1>1, WebhookPaidStep, InvHolds, PTL DEF Spec

-----------------------------------------------------------------------------
(* The variables hold what TypeOK says.                                    *)
THEOREM TypeCorrect == Spec => []TypeOK
<1>1. Inv => TypeOK
  BY DEF Inv
<1> QED
  BY <1>1, InvHolds, PTL

(* No deposit is credited twice, however often its webhook is delivered,   *)
(* whoever confirms it at the same time and whatever dies: the claim of    *)
(* confirmDeposit is enough.                                               *)
THEOREM CreditsOnce == Spec => []CreditedAtMostOnce
<1>1. Inv => CreditedAtMostOnce
  BY DEF Inv
<1> QED
  BY <1>1, InvHolds, PTL

(* A credit has its one Transaction row, unless its process died just      *)
(* before writing it; no row comes without a credit.                       *)
THEOREM CreditsBooked == Spec => []CreditIsBooked
<1>1. Inv => CreditIsBooked
  BY DEF Inv
<1> QED
  BY <1>1, InvHolds, PTL

(* No wallet gets money that has not arrived, except where an admin says   *)
(* so: no payment provider's events are misread.                           *)
THEOREM CreditsArrived == Spec => UnpaidIsNotCredited
<1>1. Inv /\ WebhookPaid /\ [Next]_vars =>
        [\A d \in Deposit : credited'[d] # credited[d] =>
           \/ charge[d].stage \in Arrived
           \/ \E p \in Proc : On(p, d, "credit") /\ task[p].by = "admin"]_vars
  <2> SUFFICES ASSUME Inv, WebhookPaid, [Next]_vars,
                      NEW d \in Deposit, credited'[d] # credited[d]
               PROVE  \/ charge[d].stage \in Arrived
                      \/ \E p \in Proc : On(p, d, "credit") /\ task[p].by = "admin"
    OBVIOUS
  <2>1. PICK p \in Proc : Credit(p)
    BY DEF Next, Start, Continue, CreateCharge, Webhook, AdminConfirms, AdminFails,
       Record, Answer, SaveFailed, Claim, Book, Crash, CustomerPays, vars, money
  <2>2. On(p, d, "credit")
    BY <2>1 DEF Credit, On, At, Inv, TypeOK
  <2> QED
    BY <2>2 DEF WebhookPaid, Beyond, Step
<1> QED
  BY <1>1, InvHolds, WebhookPaidHolds, PTL DEF Spec, UnpaidIsNotCredited

(* The payment provider is never told "ok" of a deposit whose money is not *)
(* on its way, except where a process died between claim and credit.       *)
THEOREM AcksSettled == Spec => []AckedIsSettled
<1>1. Inv => AckedIsSettled
  BY DEF Inv, ClaimedFirst, ConfirmedIsCredited, AckedIsSettled, Claimed
<1> QED
  BY <1>1, InvHolds, PTL
=============================================================================
