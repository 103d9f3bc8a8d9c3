-------------------------- MODULE BroadcastsProofs --------------------------
(***************************************************************************)
(* Proofs about Broadcasts, for any servers, users, batch size, slow       *)
(* batches, accidents and changes of the audience: the type invariant,     *)
(* that batches do not overlap while leases are not outlived, that a       *)
(* completed broadcast got to everybody who was there all the time, and    *)
(* how many copies anybody can get.                                        *)
(***************************************************************************)
EXTENDS Broadcasts, FiniteSetTheorems, TLAPS

Busy(w) == worker[w] # Idle

(* While no pass has outlived its lease, a pass on its way holds it.       *)
LeaseHeld ==
  slow = 0 => \A w \in Worker :
    Busy(w) => job.status = "sending" /\ job.lock = "held"

(* Whom the audience cannot be without, up to user c: tried, or in S.      *)
Lasting == early \ unsubscribed
Reached(c, S) == \A u \in Lasting : u <= c => u \in tried \cup S

(* The cursor is set to the end of a batch whose pass started from a       *)
(* cursor: nobody lies behind it who has not been tried, in whatever order *)
(* overlapping passes write it.                                            *)
CursorBehind == early \subseteq verified /\ Reached(job.cursor, {})

PassBehind ==
  \A w \in Worker : Busy(w) =>
    /\ Reached(worker[w].cursor, {})
    /\ At(w, "mail") => Reached(worker[w].last, worker[w].batch)
    /\ At(w, "complete") => Lasting \subseteq tried

(* Who may still mail user u: the passes that have yet to come to u, and   *)
(* the next pass, if one can be started before u.  Every copy uses up one  *)
(* of them; an outlived lease and a pass cut short make one more each.     *)
Yet(w, u) ==
  \/ worker[w].step \in {"count", "read"} /\ worker[w].cursor < u
  \/ At(w, "mail") /\ (u \in worker[w].batch \/ worker[w].last < u)

Ahead(u) == {w \in Worker : Busy(w) /\ Yet(w, u)}

Free(u) ==
  /\ job.status \in {"pending", "sending"}
  /\ job.lock # "held" \/ Orphaned
  /\ job.cursor < u

CopyBudget ==
  \A u \in User :
    mailed[u] + Cardinality(Ahead(u)) + (IF Free(u) THEN 1 ELSE 0)
      <= 1 + slow + accidents

PendingIsFree == job.status = "pending" => job.lock = "none"

BatchUpToLast ==
  \A w \in Worker : Busy(w) /\ At(w, "mail") =>
    \A u \in worker[w].batch : u <= worker[w].last

Budget == PendingIsFree /\ BatchUpToLast /\ CopyBudget

Inv ==
  /\ TypeOK
  /\ OneBatchAtATime
  /\ LeaseHeld
  /\ CursorBehind
  /\ PassBehind
  /\ CompletedReachesAll

-----------------------------------------------------------------------------
(* Least and greatest elements of finite sets of users.                    *)

LEMMA LeastNatural ==
  ASSUME NEW S \in SUBSET Nat, IsFiniteSet(S), S # {}
  PROVE  \E n \in S : \A m \in S : n <= m
<1> DEFINE Below(n) == {k \in S : k <= n}
           T == {Below(n) : n \in S}
           R == StrictSubsetOrdering(S)
<1>1. T \subseteq FiniteSubsetsOf(S) /\ T # {}
  <2>1. \A n \in S : Below(n) \in SUBSET S /\ IsFiniteSet(Below(n))
    <3> TAKE n \in S
    <3>1. Below(n) \in SUBSET S
      OBVIOUS
    <3> QED
      BY <3>1, FS_Subset
  <2> HIDE DEF Below
  <2> QED
    BY <2>1 DEF FiniteSubsetsOf
<1>2. PICK B \in T : \A C \in T : ~ (<<C, B>> \in R)
  <2>1. IsWellFoundedOn(R, FiniteSubsetsOf(S))
    BY FS_StrictSubsetOrderingWellFounded
  <2> HIDE DEF R, T
  <2> QED
    BY <1>1, <2>1, WFMin
<1>3. PICK n \in S : B = Below(n)
  OBVIOUS
<1>4. ASSUME NEW m \in S, m < n PROVE FALSE
  <2>1. m \in Nat /\ n \in Nat /\ S \subseteq Nat
    OBVIOUS
  <2>2. \A k \in S : k <= m => k <= n
    BY <2>1, <1>4
  <2>3. n <= n /\ ~ (n <= m)
    BY <2>1, <1>4
  <2>4. Below(m) \subseteq Below(n) /\ n \in Below(n) /\ n \notin Below(m)
    BY <2>2, <2>3
  <2>5. <<Below(m), Below(n)>> \in R
    BY <2>4 DEF StrictSubsetOrdering
  <2> QED
    BY <1>2, <1>3, <2>5
<1> QED
  BY <1>4

LEMMA UserIsNumber == User \subseteq Nat /\ \A u \in User : u <= LastUser
  BY LastUserAssumption DEF User

LEMMA UsersFinite == \A S \in SUBSET User : IsFiniteSet(S) /\ Cardinality(S) \in Nat
<1>1. IsFiniteSet(User)
  BY FS_Interval, LastUserAssumption DEF User
<1> QED
  BY <1>1, FS_Subset, FS_CardinalityType

LEMMA MinOfUsers ==
  ASSUME NEW S \in SUBSET User, S # {}
  PROVE  Min(S) \in S
<1>1. S \in SUBSET Nat
  BY DEF User
<1>2. IsFiniteSet(S)
  BY UsersFinite
<1>3. PICK n \in S : \A m \in S : n <= m
  BY <1>1, <1>2, LeastNatural
<1> QED
  BY <1>3 DEF Min

LEMMA MaxOfUsers ==
  ASSUME NEW S \in SUBSET User, S # {}
  PROVE  Max(S) \in S /\ \A m \in S : m <= Max(S)
<1> DEFINE D == {LastUser - u : u \in S}
<1>1. D \in SUBSET (0 .. LastUser) /\ D # {}
  <2>1. \A u \in User : LastUser - u \in 0 .. LastUser
    BY UserIsNumber, LastUserAssumption
  <2> QED
    BY <2>1
<1>2. D \in SUBSET Nat /\ IsFiniteSet(D)
  <2>1. IsFiniteSet(0 .. LastUser)
    BY FS_Interval, LastUserAssumption
  <2>2. 0 .. LastUser \subseteq Nat
    BY LastUserAssumption
  <2> HIDE DEF D
  <2> QED
    BY <1>1, <2>1, <2>2, FS_Subset
<1>3. PICK d \in D : \A e \in D : d <= e
  <2> HIDE DEF D
  <2> QED
    BY <1>1, <1>2, LeastNatural
<1>4. PICK n \in S : d = LastUser - n
  OBVIOUS
<1>5. \A m \in S : m <= n
  BY <1>3, <1>4, LastUserAssumption DEF User
<1> QED
  BY <1>5 DEF Max

(* A page leaves nobody out between the cursor and its last recipient, and *)
(* is empty only when nobody lies beyond the cursor.                       *)
LEMMA PageIsClosed ==
  ASSUME TypeOK, NEW c \in 0 .. LastUser
  PROVE  /\ Page(c) \subseteq User
         /\ Page(c) # {} =>
              \A u \in Audience : c < u /\ u <= Max(Page(c)) => u \in Page(c)
         /\ Page(c) = {} => \A u \in Audience : u <= c
<1> DEFINE Up(u) == {v \in Audience : c < v /\ v <= u}
<1>1. Audience \subseteq User
  BY DEF TypeOK, Audience
<1>2. \A u \in Audience : Up(u) \in SUBSET User
  BY <1>1
<1>3. \A u \in Audience : u \in Page(c) <=> c < u /\ Cardinality(Up(u)) <= BatchSize
  BY DEF Page
<1>4. Page(c) \subseteq User
  BY <1>1 DEF Page
<1>5. ASSUME Page(c) # {}, NEW u \in Audience, c < u, u <= Max(Page(c))
      PROVE  u \in Page(c)
  <2> DEFINE p == Max(Page(c))
  <2>1. p \in Page(c)
    BY <1>4, <1>5, MaxOfUsers
  <2>2. p \in Audience /\ Cardinality(Up(p)) <= BatchSize
    BY <2>1 DEF Page
  <2>3. u \in Int /\ p \in Int /\ u <= p
    <3>1. u \in User /\ p \in User /\ u <= p
      BY <1>1, <1>5, <2>2
    <3> HIDE DEF p
    <3> QED
      BY <3>1, UserIsNumber
  <2> HIDE DEF p
  <2>4. Up(u) \in SUBSET Up(p)
    <3> SUFFICES ASSUME NEW v \in Audience, c < v, v <= u PROVE v <= p
      OBVIOUS
    <3>1. v \in Int
      BY <1>1 DEF User
    <3> QED
      BY <2>3, <3>1
  <2>5. Cardinality(Up(u)) <= Cardinality(Up(p))
    <3> HIDE DEF Up
    <3> QED
      BY <1>2, <2>2, <2>4, UsersFinite, FS_Subset
  <2>6. Cardinality(Up(u)) \in Nat /\ Cardinality(Up(p)) \in Nat
    <3> HIDE DEF Up
    <3> QED
      BY <1>2, <2>2, UsersFinite
  <2>7. Cardinality(Up(u)) <= BatchSize
    <3> HIDE DEF Up
    <3> QED
      BY <2>2, <2>5, <2>6, BatchAssumption
  <2> QED
    BY <1>3, <1>5, <2>7
<1>6. ASSUME Page(c) = {}, NEW u \in Audience, ~ (u <= c) PROVE FALSE
  <2> DEFINE S == {v \in Audience : c < v}
  <2>1. S \in SUBSET User /\ S \in SUBSET Nat /\ u \in S
    <3>1. S \subseteq User /\ User \subseteq Nat
      BY <1>1, UserIsNumber
    <3>2. u \in Int /\ c \in Int /\ c < u
      BY <1>1, <1>6, UserIsNumber, LastUserAssumption
    <3> QED
      BY <3>1, <3>2
  <2>2. PICK n \in S : \A m \in S : n <= m
    <3> HIDE DEF S
    <3>1. IsFiniteSet(S)
      BY <2>1, UsersFinite
    <3> QED
      BY <2>1, <3>1, LeastNatural
  <2>3. Up(n) = {n}
    BY <2>1, <2>2
  <2>4. Cardinality(Up(n)) = 1
    BY <2>3, FS_Singleton
  <2>5. Cardinality(Up(n)) <= BatchSize
    BY <2>4, BatchAssumption
  <2> QED
    BY <1>3, <1>6, <2>2, <2>5
<1> QED
  <2>1. \A u \in Audience : u \in Int
    BY <1>1 DEF User
  <2> QED
    BY <1>4, <1>5, <1>6

-----------------------------------------------------------------------------
(* The type invariant, the leases and the cursors, step by step.  What the *)
(* steps of a pass need of it:                                             *)

LEMMA PassType ==
  ASSUME TypeOK, NEW w \in Worker, Busy(w)
  PROVE  worker[w] \in Pass
  BY DEF TypeOK, Busy

(* A pass that only turns to its next step.                                *)
LEMMA GotoType ==
  ASSUME TypeOK, NEW w \in Worker, Busy(w), NEW s \in Step, Goto(w, s)
  PROVE  /\ worker' \in [Worker -> Pass \cup {Idle}]
         /\ worker'[w] = [worker[w] EXCEPT !.step = s]
         /\ \A v \in Worker \ {w} : worker'[v] = worker[v]
<1>1. worker[w] \in Pass
  BY PassType
<1>2. [worker[w] EXCEPT !.step = s] \in Pass
  BY <1>1 DEF Pass
<1> QED
  BY <1>2 DEF TypeOK, Goto

LEMMA ReturnType ==
  ASSUME TypeOK, NEW w \in Worker, Return(w)
  PROVE  /\ worker' \in [Worker -> Pass \cup {Idle}]
         /\ worker'[w] = Idle
         /\ \A v \in Worker \ {w} : worker'[v] = worker[v]
  BY DEF TypeOK, Return

LEMMA InitInv == Init => Inv
<1> SUFFICES ASSUME Init PROVE Inv
  OBVIOUS
<1>1. TypeOK
  BY LastUserAssumption DEF Init, TypeOK, Job, BroadcastStatus
<1>2. Reached(job.cursor, {})
  <2>1. \A u \in User : ~ (u <= 0)
    BY LastUserAssumption DEF User
  <2>2. early \subseteq User /\ job.cursor = 0
    BY DEF Init
  <2> QED
    BY <2>1, <2>2 DEF Reached, Lasting
<1> QED
  BY <1>1, <1>2 DEF Init, Inv, OneBatchAtATime, LeaseHeld, CursorBehind,
     PassBehind, CompletedReachesAll, Busy

(* A claim, of either kind.                                                *)
LEMMA BeginStep ==
  ASSUME Inv, NEW w \in Worker, Claim(w) \/ Resume(w)
  PROVE  Inv'
<1>1. /\ job' = [job EXCEPT !.status = "sending", !.lock = "held"]
      /\ worker[w] = Idle /\ job.status \in {"pending", "sending"}
      /\ UNCHANGED <<people, history, bounds>>
  <2>1. job \in Job
    BY DEF Inv, TypeOK
  <2> QED
    BY <2>1 DEF Claim, Resume, Job
<1>2. /\ worker'[w] \in Pass /\ worker'[w].step = "count"
      /\ worker'[w].cursor = job.cursor
      /\ \A v \in Worker \ {w} : worker'[v] = worker[v]
      /\ worker' \in [Worker -> Pass \cup {Idle}]
  <2> DEFINE start ==
        [step |-> "count", cursor |-> job.cursor,
         fresh |-> job.total = 0 /\ job.counted = 0,
         batch |-> {}, last |-> 0, counted |-> 0]
  <2>1. job.cursor \in 0 .. LastUser /\ 0 \in 0 .. LastUser
    BY LastUserAssumption DEF Inv, TypeOK, Job
  <2>2. start \in Pass
    BY <2>1 DEF Pass, Step
  <2>3. worker' = [worker EXCEPT ![w] = start]
    BY DEF Claim, Resume, Begin
  <2>4. start.step = "count" /\ start.cursor = job.cursor
    OBVIOUS
  <2>5. worker \in [Worker -> Pass \cup {Idle}]
    BY DEF Inv, TypeOK
  <2> HIDE DEF start
  <2> QED
    BY <2>2, <2>3, <2>4, <2>5
<1>3. TypeOK'
  BY <1>1, <1>2 DEF Inv, TypeOK, Job, BroadcastStatus, people, history, bounds
<1>4. slow = 0 => \A v \in Worker : ~ Busy(v)
  BY DEF Claim, Resume, Inv, LeaseHeld, Busy
<1>5. OneBatchAtATime' /\ LeaseHeld'
  BY <1>1, <1>2, <1>4 DEF OneBatchAtATime, LeaseHeld, Busy, Inv, TypeOK, Job, bounds
<1>6. CursorBehind' /\ PassBehind'
  BY <1>1, <1>2 DEF Inv, TypeOK, Job, CursorBehind, PassBehind, Reached, Lasting,
     Busy, At, people, history
<1>7. CompletedReachesAll'
  BY <1>1 DEF CompletedReachesAll, Inv, TypeOK, Job
<1> QED
  BY <1>3, <1>5, <1>6, <1>7 DEF Inv

LEMMA CountStep ==
  ASSUME Inv, NEW w \in Worker, Count(w)
  PROVE  Inv'
<1>1. Busy(w) /\ Goto(w, "read") /\ TypeOK
  BY DEF Count, Busy, At, Idle, Inv
<1>2. /\ worker' \in [Worker -> Pass \cup {Idle}]
      /\ worker'[w] = [worker[w] EXCEPT !.step = "read"]
      /\ \A v \in Worker \ {w} : worker'[v] = worker[v]
  BY <1>1, GotoType DEF Step
<1>3. job' \in Job /\ \A f \in {"status", "cursor", "lock"} : job'[f] = job[f]
  <2>1. Cardinality(Audience) \in Nat
    BY <1>1, UsersFinite DEF TypeOK, Audience
  <2> QED
    BY <1>1, <2>1 DEF Count, TypeOK, Job
<1>4. UNCHANGED <<people, history, bounds>>
  BY DEF Count
<1>5. TypeOK'
  BY <1>1, <1>2, <1>3, <1>4 DEF TypeOK, people, history, bounds
<1>6. worker[w] \in Pass
  BY <1>1, PassType
<1>7. OneBatchAtATime' /\ LeaseHeld'
  BY <1>1, <1>2, <1>3, <1>4 DEF Inv, OneBatchAtATime, LeaseHeld, Busy, bounds
<1>8. CursorBehind' /\ PassBehind'
  BY <1>1, <1>2, <1>3, <1>4, <1>6 DEF Inv, CursorBehind, PassBehind, Reached,
     Lasting, Busy, At, Pass, people, history
<1>9. CompletedReachesAll'
  BY <1>3, <1>4 DEF Inv, CompletedReachesAll, people, history
<1> QED
  BY <1>5, <1>7, <1>8, <1>9 DEF Inv

(* A pass that goes on to a step where nothing is claimed of it.           *)
LEMMA GoOnStep ==
  ASSUME Inv, NEW w \in Worker, NEW s \in Step \ {"mail", "complete"},
         Busy(w), Goto(w, s), UNCHANGED <<job, people, history, slow>>,
         accidents' \in Nat
  PROVE  Inv'
<1>1. /\ worker' \in [Worker -> Pass \cup {Idle}]
      /\ worker'[w] = [worker[w] EXCEPT !.step = s]
      /\ \A v \in Worker \ {w} : worker'[v] = worker[v]
  BY GotoType DEF Inv
<1>2. worker[w] \in Pass
  BY PassType DEF Inv
<1>3. TypeOK'
  BY <1>1 DEF Inv, TypeOK, people, history
<1>4. OneBatchAtATime' /\ LeaseHeld'
  BY <1>1 DEF Inv, OneBatchAtATime, LeaseHeld, Busy
<1>5. CursorBehind' /\ PassBehind'
  BY <1>1, <1>2 DEF Inv, CursorBehind, PassBehind, Reached, Lasting, Busy, At,
     Pass, people, history
<1>6. CompletedReachesAll'
  BY DEF Inv, CompletedReachesAll, people, history
<1> QED
  BY <1>3, <1>4, <1>5, <1>6 DEF Inv

(* A pass that ends, and what it leaves of the job.                        *)
LEMMA EndStep ==
  ASSUME Inv, NEW w \in Worker, Busy(w), Return(w),
         job' \in Job, UNCHANGED <<people, history, slow>>, accidents' \in Nat,
         Reached(job'.cursor, {}),
         job'.status = "completed" => job.status = "completed" \/ At(w, "complete")
  PROVE  Inv'
<1>1. /\ worker' \in [Worker -> Pass \cup {Idle}]
      /\ worker'[w] = Idle
      /\ \A v \in Worker \ {w} : worker'[v] = worker[v]
  BY ReturnType DEF Inv
<1>2. TypeOK'
  BY <1>1 DEF Inv, TypeOK, people, history
<1>3. OneBatchAtATime' /\ LeaseHeld'
  BY <1>1 DEF Inv, OneBatchAtATime, LeaseHeld, Busy
<1>4. CursorBehind' /\ PassBehind'
  BY <1>1 DEF Inv, CursorBehind, PassBehind, Reached, Lasting, Busy, At, people, history
<1>5. CompletedReachesAll'
  BY DEF Inv, PassBehind, Lasting, CompletedReachesAll, people, history
<1> QED
  BY <1>2, <1>3, <1>4, <1>5 DEF Inv

LEMMA ReadStep ==
  ASSUME Inv, NEW w \in Worker, Read(w)
  PROVE  Inv'
<1> DEFINE c == worker[w].cursor
           page == Page(c)
<1>1. Busy(w) /\ TypeOK
  BY DEF Read, At, Busy, Idle, Inv
<1>2. worker[w] \in Pass /\ c \in 0 .. LastUser
  BY <1>1, PassType DEF Pass
<1>3. /\ page \subseteq User
      /\ page # {} => \A u \in Audience : c < u /\ u <= Max(page) => u \in page
      /\ page = {} => \A u \in Audience : u <= c
  BY <1>1, <1>2, PageIsClosed
<1>4. Lasting \subseteq Audience /\ Audience \subseteq User
  BY <1>1 DEF Inv, CursorBehind, Lasting, Audience, TypeOK
<1>5. Reached(c, {})
  BY <1>1 DEF Inv, PassBehind
<1>6. UNCHANGED <<job, people, history, bounds>>
  BY DEF Read
<1>7. /\ worker' \in [Worker -> Pass \cup {Idle}]
      /\ worker'[w] \in Pass /\ worker'[w].cursor = c
      /\ \A v \in Worker \ {w} : worker'[v] = worker[v]
      /\ worker'[w].step = "mail" => Reached(worker'[w].last, worker'[w].batch)
      /\ worker'[w].step = "complete" => Lasting \subseteq tried
  <2>1. CASE page = {}
    <3>1. Goto(w, "complete")
      BY <2>1 DEF Read
    <3>2. /\ worker' \in [Worker -> Pass \cup {Idle}]
          /\ worker'[w] = [worker[w] EXCEPT !.step = "complete"]
          /\ \A v \in Worker \ {w} : worker'[v] = worker[v]
      BY <1>1, <3>1, GotoType DEF Step
    <3>3. Lasting \subseteq tried
      BY <1>3, <1>4, <1>5, <2>1 DEF Reached
    <3> QED
      BY <1>2, <3>2, <3>3 DEF Pass, Step
  <2>2. CASE page # {}
    <3> DEFINE pass == [worker[w] EXCEPT !.step = "mail", !.batch = page, !.last = Max(page)]
    <3>1. worker' = [worker EXCEPT ![w] = pass]
      <4>1. worker' = [worker EXCEPT ![w].step = "mail", ![w].batch = page,
                                     ![w].last = Max(page)]
        BY <2>2 DEF Read
      <4>2. worker \in [Worker -> Pass \cup {Idle}]
        BY <1>1 DEF TypeOK
      <4> QED
        BY <1>2, <4>1, <4>2 DEF Pass
    <3>2. Max(page) \in User /\ Max(page) \in 0 .. LastUser
      <4>1. Max(page) \in User
        BY <1>3, <2>2, MaxOfUsers
      <4> QED
        BY <4>1, UserIsNumber, LastUserAssumption DEF User
    <3>3. /\ pass \in Pass /\ pass.step = "mail" /\ pass.cursor = c
          /\ pass.batch = page /\ pass.last = Max(page)
      BY <1>2, <1>3, <3>2 DEF Pass, Step
    <3>4. Reached(Max(page), page)
      <4> SUFFICES ASSUME NEW u \in Lasting, u <= Max(page)
                   PROVE  u \in tried \cup page
        BY DEF Reached
      <4>1. u \in Audience /\ u \in Int /\ c \in Int
        BY <1>2, <1>4, UserIsNumber
      <4>2. CASE u <= c
        BY <1>5, <4>2 DEF Reached
      <4>3. CASE c < u
        BY <1>3, <2>2, <4>1, <4>3
      <4> QED
        <5> HIDE DEF c
        <5> QED
          BY <4>1, <4>2, <4>3
    <3>5. worker \in [Worker -> Pass \cup {Idle}]
      BY <1>1 DEF TypeOK
    <3> HIDE DEF pass
    <3> QED
      BY <3>1, <3>3, <3>4, <3>5
  <2> QED
    BY <2>1, <2>2
<1>8. TypeOK'
  BY <1>1, <1>6, <1>7 DEF TypeOK, people, history, bounds
<1>9. OneBatchAtATime' /\ LeaseHeld'
  BY <1>1, <1>6, <1>7 DEF Inv, OneBatchAtATime, LeaseHeld, Busy, bounds
<1>10. CursorBehind' /\ PassBehind'
  BY <1>1, <1>5, <1>6, <1>7 DEF Inv, CursorBehind, PassBehind, Reached, Lasting,
     Busy, At, people, history
<1>11. CompletedReachesAll'
  BY <1>6 DEF Inv, CompletedReachesAll, people, history
<1> QED
  BY <1>8, <1>9, <1>10, <1>11 DEF Inv

LEMMA MailStep ==
  ASSUME Inv, NEW w \in Worker, Mail(w)
  PROVE  Inv'
<1> DEFINE u == Min(worker[w].batch)
<1>1. Busy(w) /\ TypeOK /\ At(w, "mail")
  BY DEF Mail, At, Busy, Idle, Inv
<1>2. worker[w] \in Pass /\ worker[w].batch \in SUBSET User
  BY <1>1, PassType DEF Pass
<1>3. u \in worker[w].batch /\ u \in User
  BY <1>2, MinOfUsers DEF Mail
<1>4. /\ Skip(w, u) \/ Send(w, u)
      /\ tried' = tried \cup {u}
      /\ UNCHANGED <<job, people, bounds>>
  BY DEF Mail
<1> HIDE DEF u
<1>5. worker \in [Worker -> Pass \cup {Idle}] /\ mailed \in [User -> Nat]
  BY <1>1 DEF TypeOK
<1>6. /\ worker' \in [Worker -> Pass \cup {Idle}] /\ worker'[w] \in Pass
      /\ worker'[w].step = "mail" /\ worker'[w].cursor = worker[w].cursor
      /\ worker'[w].last = worker[w].last /\ worker'[w].batch = worker[w].batch \ {u}
      /\ \A v \in Worker \ {w} : worker'[v] = worker[v]
      /\ mailed' \in [User -> Nat]
  <2>1. CASE Skip(w, u)
    <3> DEFINE pass == [worker[w] EXCEPT !.batch = @ \ {u}]
    <3>1. worker' = [worker EXCEPT ![w] = pass]
      BY <1>2, <1>5, <2>1 DEF Skip, Pass
    <3>2. /\ pass \in Pass /\ pass.step = "mail" /\ pass.cursor = worker[w].cursor
          /\ pass.last = worker[w].last /\ pass.batch = worker[w].batch \ {u}
      BY <1>1, <1>2 DEF Pass, At
    <3> HIDE DEF pass
    <3> QED
      BY <1>5, <2>1, <3>1, <3>2 DEF Skip
  <2>2. CASE Send(w, u)
    <3> DEFINE pass == [worker[w] EXCEPT !.batch = @ \ {u}, !.counted = @ + 1]
    <3>1. worker' = [worker EXCEPT ![w] = pass]
      BY <1>2, <1>5, <2>2 DEF Send, Pass
    <3>2. /\ pass \in Pass /\ pass.step = "mail" /\ pass.cursor = worker[w].cursor
          /\ pass.last = worker[w].last /\ pass.batch = worker[w].batch \ {u}
      <4>1. worker[w].counted + 1 \in Nat
        BY <1>2 DEF Pass
      <4> QED
        BY <1>1, <1>2, <4>1 DEF Pass, At
    <3>3. mailed' \in [User -> Nat]
      BY <1>3, <1>5, <2>2 DEF Send
    <3> HIDE DEF pass
    <3> QED
      BY <1>5, <3>1, <3>2, <3>3
  <2> QED
    BY <1>4, <2>1, <2>2
<1>7. TypeOK'
  BY <1>1, <1>3, <1>4, <1>6 DEF TypeOK, people, bounds
<1>8. OneBatchAtATime' /\ LeaseHeld'
  BY <1>1, <1>4, <1>6 DEF Inv, OneBatchAtATime, LeaseHeld, Busy, bounds
<1>9. CursorBehind'
  BY <1>4 DEF Inv, CursorBehind, Reached, Lasting, people
<1>10. PassBehind'
  <2> SUFFICES ASSUME NEW v \in Worker, Busy(v)'
               PROVE  /\ Reached(worker[v].cursor, {})'
                      /\ At(v, "mail")' => Reached(worker[v].last, worker[v].batch)'
                      /\ At(v, "complete")' => (Lasting \subseteq tried)'
    BY DEF PassBehind
  <2>1. CASE v = w
    BY <1>1, <1>4, <1>6, <2>1 DEF Inv, PassBehind, Reached, Lasting, At, people
  <2>2. CASE v # w
    BY <1>4, <1>6, <2>2 DEF Inv, PassBehind, Reached, Lasting, At, Busy, people
  <2> QED
    BY <2>1, <2>2
<1>11. CompletedReachesAll'
  BY <1>4 DEF Inv, CompletedReachesAll, people
<1> QED
  BY <1>7, <1>8, <1>9, <1>10, <1>11 DEF Inv

LEMMA AdvanceStep ==
  ASSUME Inv, NEW w \in Worker, Advance(w)
  PROVE  Inv'
<1>1. Busy(w) /\ TypeOK /\ At(w, "mail") /\ worker[w].batch = {}
  BY DEF Advance, At, Busy, Idle, Inv
<1>2. worker[w] \in Pass /\ job \in Job
  BY <1>1, PassType DEF TypeOK
<1>3. job' \in Job /\ job'.cursor = worker[w].last /\ job'.status = job.status
  <2>1. job.counted + worker[w].counted \in Nat /\ worker[w].last \in 0 .. LastUser
    BY <1>2 DEF Pass, Job
  <2> QED
    BY <1>2, <2>1 DEF Advance, Job
<1>4. Reached(job'.cursor, {})
  BY <1>1, <1>3 DEF Inv, PassBehind
<1>5. Return(w) /\ UNCHANGED <<people, history, slow>> /\ accidents' \in Nat
  BY <1>1 DEF Advance, bounds, TypeOK
<1> QED
  BY <1>1, <1>3, <1>4, <1>5, EndStep

LEMMA CompleteStep ==
  ASSUME Inv, NEW w \in Worker, Complete(w) \/ Fail(w)
  PROVE  Inv'
<1>1. Busy(w) /\ TypeOK /\ Return(w) /\ UNCHANGED <<people, history, slow>>
  BY DEF Complete, Fail, At, Busy, Idle, Inv, bounds
<1>2. job \in Job /\ accidents' \in Nat
  BY <1>1 DEF Complete, Fail, bounds, TypeOK
<1>3. /\ job' \in Job /\ job'.cursor = job.cursor
      /\ job'.status = "completed" => At(w, "complete")
  BY <1>2 DEF Complete, Fail, Job, BroadcastStatus
<1>4. Reached(job'.cursor, {})
  BY <1>3 DEF Inv, CursorBehind
<1> QED
  BY <1>1, <1>2, <1>3, <1>4, EndStep

LEMMA DieStep ==
  ASSUME Inv, NEW w \in Worker, Die(w)
  PROVE  Inv'
<1>1. Busy(w) /\ TypeOK /\ Return(w) /\ UNCHANGED <<job, people, history, slow>>
  BY DEF Die, Busy, Inv
<1>2. job' \in Job /\ accidents' \in Nat /\ Reached(job'.cursor, {})
  BY <1>1 DEF Die, Accident, Inv, CursorBehind, TypeOK
<1> QED
  BY <1>1, <1>2, EndStep

LEMMA ThrowStep ==
  ASSUME Inv, NEW w \in Worker, Throw(w)
  PROVE  Inv'
<1>1. Busy(w) /\ Goto(w, "fail") /\ UNCHANGED <<job, people, history, slow>>
  BY DEF Throw, At, Busy, Idle
<1>2. accidents' \in Nat /\ "fail" \in Step \ {"mail", "complete"}
  BY DEF Throw, Accident, Inv, TypeOK, Step
<1> QED
  BY <1>1, <1>2, GoOnStep

LEMMA LeaseStep == Inv /\ LeaseRunsOut => Inv'
<1> SUFFICES ASSUME Inv, LeaseRunsOut PROVE Inv'
  OBVIOUS
<1>1. job \in Job /\ slow \in Nat
  BY DEF Inv, TypeOK
<1>2. /\ job' \in Job /\ job'.cursor = job.cursor /\ job'.status = job.status
      /\ UNCHANGED <<people, worker, history, accidents>>
  BY <1>1 DEF LeaseRunsOut, Job
<1>3. slow' \in Nat /\ (slow' = 0 => slow = 0 /\ \A w \in Worker : ~ Busy(w))
  BY <1>1 DEF LeaseRunsOut, Orphaned, Busy
<1>4. TypeOK'
  BY <1>2, <1>3 DEF Inv, TypeOK, people, history
<1>5. OneBatchAtATime' /\ LeaseHeld'
  BY <1>2, <1>3 DEF Inv, OneBatchAtATime, LeaseHeld, Busy
<1>6. CursorBehind' /\ PassBehind' /\ CompletedReachesAll'
  BY <1>2 DEF Inv, CursorBehind, PassBehind, CompletedReachesAll, Reached,
     Lasting, Busy, At, people, history
<1> QED
  BY <1>4, <1>5, <1>6 DEF Inv

(* Who joins was not there from the start, who leaves is missed no more.   *)
LEMMA UserStep == Inv /\ UserActs => Inv'
<1> SUFFICES ASSUME Inv, UserActs PROVE Inv'
  OBVIOUS
<1>1. PICK u \in User : Verify(u) \/ Unsubscribe(u)
  BY DEF UserActs
<1>2. /\ verified \subseteq verified' /\ unsubscribed \subseteq unsubscribed'
      /\ verified' \subseteq User /\ unsubscribed' \subseteq User
      /\ early' = early /\ changes' = changes + 1
      /\ UNCHANGED <<job, worker, history, bounds>>
  BY <1>1 DEF Inv, TypeOK, Verify, Unsubscribe, UserActs
<1>3. TypeOK'
  BY <1>2 DEF Inv, TypeOK, history, bounds
<1>4. OneBatchAtATime' /\ LeaseHeld'
  BY <1>2 DEF Inv, OneBatchAtATime, LeaseHeld, Busy, bounds
<1>5. Lasting' \subseteq Lasting
  BY <1>2 DEF Lasting
<1>6. CursorBehind' /\ PassBehind'
  BY <1>2, <1>5 DEF Inv, CursorBehind, PassBehind, Reached, Busy, At, history
<1>7. CompletedReachesAll'
  BY <1>2, <1>5 DEF Inv, CompletedReachesAll, Lasting, history
<1> QED
  BY <1>3, <1>4, <1>6, <1>7 DEF Inv

LEMMA NextInv == Inv /\ [Next]_vars => Inv'
<1> SUFFICES ASSUME Inv, [Next]_vars PROVE Inv'
  OBVIOUS
<1>1. ASSUME NEW w \in Worker, Claim(w) \/ Resume(w) PROVE Inv'
  BY <1>1, BeginStep
<1>2. ASSUME NEW w \in Worker, Continue(w) PROVE Inv'
  BY <1>2, CountStep, ReadStep, MailStep, AdvanceStep, CompleteStep DEF Continue
<1>3. ASSUME NEW w \in Worker, Throw(w) \/ Die(w) PROVE Inv'
  BY <1>3, ThrowStep, DieStep
<1>4. CASE LeaseRunsOut \/ UserActs
  BY <1>4, LeaseStep, UserStep
<1>5. CASE UNCHANGED vars
  BY <1>5 DEF vars, people, history, bounds, Inv, TypeOK, OneBatchAtATime, LeaseHeld,
     CursorBehind, PassBehind, CompletedReachesAll, Reached, Lasting, Busy, At
<1> QED
  BY <1>1, <1>2, <1>3, <1>4, <1>5 DEF Next

LEMMA InvHolds == Spec => []Inv
<1> QED
  BY InitInv, NextInv, PTL DEF Spec

-----------------------------------------------------------------------------
(* The copies.  A step of one pass changes Ahead(u) by that pass alone.    *)

LEMMA AheadFinite ==
  \A u : IsFiniteSet(Ahead(u)) /\ Cardinality(Ahead(u)) \in Nat
<1> SUFFICES ASSUME NEW u
             PROVE  IsFiniteSet(Ahead(u)) /\ Cardinality(Ahead(u)) \in Nat
  OBVIOUS
<1>1. Ahead(u) \in SUBSET Worker
  BY DEF Ahead
<1> QED
  BY <1>1, WorkerAssumption, FS_Subset, FS_CardinalityType

LEMMA AheadFiniteNext ==
  \A u : IsFiniteSet(Ahead(u)') /\ Cardinality(Ahead(u)') \in Nat
<1> SUFFICES ASSUME NEW u
             PROVE  IsFiniteSet(Ahead(u)') /\ Cardinality(Ahead(u)') \in Nat
  OBVIOUS
<1>1. Ahead(u)' \in SUBSET Worker
  BY DEF Ahead
<1> QED
  BY <1>1, WorkerAssumption, FS_Subset, FS_CardinalityType

LEMMA AheadMoves ==
  ASSUME NEW w \in Worker, NEW u,
         \A v \in Worker \ {w} : worker'[v] = worker[v]
  PROVE  /\ (Busy(w)' /\ Yet(w, u)' <=> Busy(w) /\ Yet(w, u)) =>
              Cardinality(Ahead(u)') = Cardinality(Ahead(u))
         /\ Busy(w) /\ Yet(w, u) /\ ~ (Busy(w)' /\ Yet(w, u)') =>
              Cardinality(Ahead(u)') = Cardinality(Ahead(u)) - 1
         /\ Busy(w)' /\ Yet(w, u)' /\ ~ (Busy(w) /\ Yet(w, u)) =>
              Cardinality(Ahead(u)') = Cardinality(Ahead(u)) + 1
<1> DEFINE A == Ahead(u)
           B == Ahead(u)'
<1>1. \A v \in Worker \ {w} : v \in A <=> v \in B
  BY DEF Ahead, Busy, Yet, At
<1>2. /\ w \in A <=> Busy(w) /\ Yet(w, u)
      /\ w \in B <=> Busy(w)' /\ Yet(w, u)'
      /\ A \subseteq Worker /\ B \subseteq Worker
  BY DEF Ahead
<1>3. IsFiniteSet(A) /\ IsFiniteSet(B)
  BY AheadFinite, AheadFiniteNext
<1> HIDE DEF A, B
<1>4. (w \in A <=> w \in B) => A = B
  BY <1>1, <1>2
<1>5. w \in A /\ w \notin B => B = A \ {w}
  BY <1>1, <1>2
<1>6. w \in B /\ w \notin A => B = A \cup {w}
  BY <1>1, <1>2
<1>7. w \in A => Cardinality(A \ {w}) = Cardinality(A) - 1
  BY <1>3, FS_RemoveElement
<1>8. w \notin A => Cardinality(A \cup {w}) = Cardinality(A) + 1
  BY <1>3, FS_AddElement
<1>9. /\ (w \in A <=> w \in B) => Cardinality(B) = Cardinality(A)
      /\ w \in A /\ w \notin B => Cardinality(B) = Cardinality(A) - 1
      /\ w \in B /\ w \notin A => Cardinality(B) = Cardinality(A) + 1
  BY <1>4, <1>5, <1>6, <1>7, <1>8
<1> QED
  BY <1>2, <1>9 DEF A, B

(* The bookkeeping of a step: nobody gets a copy, and who may mail u is    *)
(* made up for by a lease outlived or a pass cut short.                    *)
LEMMA BudgetKept ==
  ASSUME Inv, Inv', CopyBudget, mailed' = mailed,
         NEW u \in User, NEW k \in {0, 1},
         slow' + accidents' >= slow + accidents + k,
         Cardinality(Ahead(u)') + (IF Free(u)' THEN 1 ELSE 0)
           <= Cardinality(Ahead(u)) + (IF Free(u) THEN 1 ELSE 0) + k
  PROVE  (mailed[u] + Cardinality(Ahead(u)) + (IF Free(u) THEN 1 ELSE 0)
            <= 1 + slow + accidents)'
<1> DEFINE a == Cardinality(Ahead(u))
           b == Cardinality(Ahead(u)')
           f == IF Free(u) THEN 1 ELSE 0
           g == IF Free(u)' THEN 1 ELSE 0
<1>1. a \in Nat /\ b \in Nat /\ f \in Nat /\ g \in Nat
  BY AheadFinite, AheadFiniteNext
<1>2. /\ mailed[u] \in Nat /\ slow \in Nat /\ accidents \in Nat
      /\ slow' \in Nat /\ accidents' \in Nat
  BY DEF Inv, TypeOK
<1>3. mailed[u] + a + f <= 1 + slow + accidents
  BY DEF CopyBudget
<1>4. /\ b + g <= a + f + k /\ k \in Nat
      /\ slow' + accidents' >= slow + accidents + k
  OBVIOUS
<1> HIDE DEF a, b, f, g
<1>5. \A m, x, y, x1, y1 \in Nat :
        m + a + f <= 1 + x + y /\ x1 + y1 >= x + y + k => m + b + g <= 1 + x1 + y1
  BY <1>1, <1>4
<1>6. mailed[u] + b + g <= 1 + slow' + accidents'
  BY <1>2, <1>3, <1>4, <1>5
<1> QED
  BY <1>6 DEF b, g

(* The same for a step of pass w: if it comes to be ahead of u it takes    *)
(* the free start, and a free start comes from a pass that was ahead, or   *)
(* out of an accident.                                                     *)
LEMMA PassBudget ==
  ASSUME Inv, Inv', CopyBudget, mailed' = mailed,
         NEW w \in Worker, \A v \in Worker \ {w} : worker'[v] = worker[v],
         NEW k \in {0, 1}, slow' + accidents' >= slow + accidents + k,
         \A u \in User :
           /\ Busy(w)' /\ Yet(w, u)' =>
                (Busy(w) /\ Yet(w, u)) \/ (Free(u) /\ ~ Free(u)')
           /\ Free(u)' =>
                Free(u) \/ k = 1 \/ (Busy(w) /\ Yet(w, u) /\ ~ (Busy(w)' /\ Yet(w, u)'))
  PROVE  CopyBudget'
<1> SUFFICES ASSUME NEW u \in User
             PROVE  (mailed[u] + Cardinality(Ahead(u)) + (IF Free(u) THEN 1 ELSE 0)
                       <= 1 + slow + accidents)'
  BY DEF CopyBudget, User
<1> DEFINE a == Cardinality(Ahead(u))
           b == Cardinality(Ahead(u)')
           was == Busy(w) /\ Yet(w, u)
           is == Busy(w)' /\ Yet(w, u)'
<1>1. a \in Nat /\ b \in Nat
  BY AheadFinite, AheadFiniteNext
<1>2. /\ (is <=> was) => b = a
      /\ was /\ ~ is => b = a - 1
      /\ is /\ ~ was => b = a + 1
  BY AheadMoves
<1>3. (is => was \/ (Free(u) /\ ~ Free(u)')) /\ (Free(u)' => Free(u) \/ k = 1 \/ (was /\ ~ is))
  OBVIOUS
<1> HIDE DEF a, b, was, is
<1>4. b + (IF Free(u)' THEN 1 ELSE 0) <= a + (IF Free(u) THEN 1 ELSE 0) + k
  <2>1. CASE is /\ ~ was
    BY <1>1, <1>2, <1>3, <2>1
  <2>2. CASE was /\ ~ is
    BY <1>1, <1>2, <2>2
  <2>3. CASE is <=> was
    BY <1>1, <1>2, <1>3, <2>3
  <2> QED
    BY <2>1, <2>2, <2>3
<1> QED
  BY <1>4, BudgetKept DEF a, b

LEMMA BeginBudget ==
  ASSUME Inv, Inv', Budget, NEW w \in Worker, Claim(w) \/ Resume(w)
  PROVE  Budget'
<1>1. /\ worker[w] = Idle /\ UNCHANGED <<people, history, bounds>>
      /\ job.status \in {"pending", "sending"} /\ job.lock # "held"
      /\ job'.lock = "held" /\ job'.status = "sending" /\ job'.cursor = job.cursor
  <2>1. job \in Job
    BY DEF Inv, TypeOK
  <2> QED
    BY <2>1 DEF Claim, Resume, Budget, PendingIsFree, Job
<1>2. /\ worker'[w].step = "count" /\ worker'[w].cursor = job.cursor
      /\ \A v \in Worker \ {w} : worker'[v] = worker[v]
      /\ Busy(w)' /\ ~ Busy(w)
  BY <1>1 DEF Inv, TypeOK, Claim, Resume, Begin, Busy, Idle
<1>3. \A u \in User : Yet(w, u)' => Free(u) /\ ~ Free(u)'
  BY <1>1, <1>2 DEF Yet, Free, At, Orphaned, Busy
<1>4. \A u \in User : ~ Free(u)'
  BY <1>1, <1>2 DEF Free, Orphaned, Busy
<1>5. CopyBudget'
  <2>1. mailed' = mailed /\ slow' + accidents' >= slow + accidents + 0
    BY <1>1 DEF history, bounds, Inv, TypeOK
  <2> QED
    BY <1>2, <1>3, <1>4, <2>1, PassBudget DEF Budget
<1>6. PendingIsFree' /\ BatchUpToLast'
  BY <1>1, <1>2 DEF Budget, PendingIsFree, BatchUpToLast, Busy, At
<1> QED
  BY <1>5, <1>6 DEF Budget

(* A pass on its way that stays on its way, its user u no further ahead.   *)
LEMMA OnBudget ==
  ASSUME Inv, Inv', Budget, NEW w \in Worker,
         \A v \in Worker \ {w} : worker'[v] = worker[v],
         Busy(w), Busy(w)', \A u \in User : Yet(w, u)' => Yet(w, u),
         At(w, "mail")' => \A u \in worker'[w].batch : u <= worker'[w].last,
         \A f \in {"status", "cursor", "lock"} : job'[f] = job[f],
         mailed' = mailed, slow' = slow, accidents' >= accidents
  PROVE  Budget'
<1>1. job'.status = job.status /\ job'.cursor = job.cursor /\ job'.lock = job.lock
  OBVIOUS
<1>2. \A u \in User : Free(u)' => Free(u)
  BY <1>1 DEF Free, Orphaned, Busy
<1>3. slow' + accidents' >= slow + accidents + 0
  <2>1. slow \in Nat /\ accidents \in Nat /\ slow' = slow /\ accidents' \in Nat
    BY DEF Inv, TypeOK
  <2>2. \A m, n, o \in Nat : o >= n => m + o >= m + n + 0
    OBVIOUS
  <2> QED
    BY <2>1, <2>2
<1>4. CopyBudget'
  <2>1. \A u \in User :
          /\ Busy(w)' /\ Yet(w, u)' =>
               (Busy(w) /\ Yet(w, u)) \/ (Free(u) /\ ~ Free(u)')
          /\ Free(u)' =>
               Free(u) \/ 0 = 1 \/ (Busy(w) /\ Yet(w, u) /\ ~ (Busy(w)' /\ Yet(w, u)'))
    BY <1>2
  <2>2. CopyBudget /\ 0 \in {0, 1}
    BY DEF Budget
  <2> QED
    BY <1>3, <2>1, <2>2, PassBudget
<1>5. PendingIsFree' /\ BatchUpToLast'
  BY <1>1 DEF Budget, PendingIsFree, BatchUpToLast, Busy, At
<1> QED
  BY <1>4, <1>5 DEF Budget

(* A pass that ends.                                                       *)
LEMMA EndBudget ==
  ASSUME Inv, Inv', Budget, NEW w \in Worker, Busy(w), Return(w),
         mailed' = mailed, slow' = slow, NEW k \in {0, 1}, accidents' = accidents + k,
         job'.status = "pending" => job'.lock = "none",
         \A u \in User : Free(u)' => k = 1 \/ Yet(w, u)
  PROVE  Budget'
<1>1. /\ worker'[w] = Idle
      /\ \A v \in Worker \ {w} : worker'[v] = worker[v]
  BY ReturnType DEF Inv
<1>2. ~ Busy(w)'
  BY <1>1 DEF Busy
<1>3. slow' + accidents' >= slow + accidents + k
  BY DEF Inv, TypeOK
<1>4. CopyBudget'
  <2>1. \A u \in User :
          /\ Busy(w)' /\ Yet(w, u)' =>
               (Busy(w) /\ Yet(w, u)) \/ (Free(u) /\ ~ Free(u)')
          /\ Free(u)' =>
               Free(u) \/ k = 1 \/ (Busy(w) /\ Yet(w, u) /\ ~ (Busy(w)' /\ Yet(w, u)'))
    BY <1>2
  <2>2. CopyBudget
    BY DEF Budget
  <2> QED
    BY <1>1, <1>3, <2>1, <2>2, PassBudget
<1>5. PendingIsFree' /\ BatchUpToLast'
  BY <1>1 DEF Budget, PendingIsFree, BatchUpToLast, Busy, At
<1> QED
  BY <1>4, <1>5 DEF Budget

LEMMA CountBudget ==
  ASSUME Inv, Inv', Budget, NEW w \in Worker, Count(w)
  PROVE  Budget'
<1>1. Busy(w) /\ Goto(w, "read") /\ TypeOK /\ UNCHANGED <<people, history, bounds>>
  BY DEF Count, Busy, At, Idle, Inv
<1>2. worker[w] \in Pass
  BY <1>1, PassType
<1>3. /\ worker'[w] = [worker[w] EXCEPT !.step = "read"]
      /\ \A v \in Worker \ {w} : worker'[v] = worker[v]
  BY <1>1, GotoType DEF Step
<1>4. \A f \in {"status", "cursor", "lock"} : job'[f] = job[f]
  BY <1>1 DEF Count, TypeOK, Job
<1>5. Busy(w)' /\ ~ At(w, "mail")'
  BY <1>2, <1>3 DEF Busy, At, Idle, Pass
<1>6. \A u \in User : Yet(w, u)' => Yet(w, u)
  BY <1>2, <1>3, <1>5 DEF Count, Yet, At, Pass
<1>7. mailed' = mailed /\ slow' = slow /\ accidents' >= accidents
  BY <1>1 DEF history, bounds, TypeOK
<1> QED
  BY <1>1, <1>3, <1>4, <1>5, <1>6, <1>7, OnBudget

LEMMA ReadBudget ==
  ASSUME Inv, Inv', Budget, NEW w \in Worker, Read(w)
  PROVE  Budget'
<1> DEFINE c == worker[w].cursor
           page == Page(c)
<1>1. Busy(w) /\ TypeOK /\ At(w, "read") /\ UNCHANGED <<job, people, history, bounds>>
  BY DEF Read, At, Busy, Idle, Inv
<1>2. worker[w] \in Pass /\ c \in 0 .. LastUser
  BY <1>1, PassType DEF Pass
<1>3. page \subseteq User /\ \A u \in page : c < u
  BY <1>1, <1>2, PageIsClosed DEF Page
<1>4. \A u \in User : Yet(w, u) <=> c < u
  BY <1>1 DEF Yet, At
<1>5. worker \in [Worker -> Pass \cup {Idle}]
  BY <1>1 DEF TypeOK
<1>6. mailed' = mailed /\ slow' = slow /\ accidents' >= accidents
  BY <1>1 DEF history, bounds, TypeOK
<1>7. \A v \in Worker \ {w} : worker'[v] = worker[v]
  BY <1>5 DEF Read, Goto
<1>8. CASE page = {}
  <2>1. worker'[w] = [worker[w] EXCEPT !.step = "complete"]
    BY <1>5, <1>8 DEF Read, Goto
  <2>2. Busy(w)' /\ ~ At(w, "mail")' /\ \A u \in User : ~ Yet(w, u)'
    BY <1>2, <2>1 DEF Busy, At, Idle, Pass, Yet
  <2> QED
    BY <1>1, <1>6, <1>7, <2>2, OnBudget
<1>9. CASE page # {}
  <2> DEFINE last == Max(page)
  <2>1. last \in page /\ \A u \in page : u <= last
    BY <1>3, <1>9, MaxOfUsers
  <2>2. /\ worker'[w].step = "mail" /\ worker'[w].batch = page
        /\ worker'[w].last = last
    <3>1. worker' = [worker EXCEPT ![w].step = "mail", ![w].batch = page,
                                   ![w].last = last]
      BY <1>9 DEF Read
    <3> HIDE DEF page, last
    <3> QED
      BY <1>2, <1>5, <3>1 DEF Pass
  <2> HIDE DEF last, page, c
  <2>3. \A u \in User : Yet(w, u)' => Yet(w, u)
    <3> SUFFICES ASSUME NEW u \in User, Yet(w, u)' PROVE c < u
      BY <1>4
    <3>1. u \in page \/ last < u
      BY <2>2 DEF Yet, At
    <3>2. c < last /\ c \in Int /\ last \in Int /\ u \in Int
      BY <1>2, <1>3, <2>1, UserIsNumber, LastUserAssumption
    <3> QED
      BY <1>3, <3>1, <3>2
  <2>4. Busy(w)' /\ \A u \in worker'[w].batch : u <= worker'[w].last
    BY <2>1, <2>2 DEF Busy, Idle
  <2> QED
    BY <1>1, <1>6, <1>7, <2>3, <2>4, OnBudget
<1> QED
  BY <1>8, <1>9

(* Mailing u takes the pass from those ahead of u.                         *)
LEMMA MailBudget ==
  ASSUME Inv, Inv', Budget, NEW w \in Worker, Mail(w)
  PROVE  Budget'
<1>1. Busy(w) /\ TypeOK /\ At(w, "mail")
  BY DEF Mail, At, Busy, Idle, Inv
<1>2. worker[w] \in Pass /\ worker[w].batch \in SUBSET User
  BY <1>1, PassType DEF Pass
<1>3. PICK x \in User : x \in worker[w].batch /\ (Skip(w, x) \/ Send(w, x))
  <2>1. Min(worker[w].batch) \in worker[w].batch
    BY <1>2, MinOfUsers DEF Mail
  <2> QED
    BY <1>2, <2>1 DEF Mail
<1>4. Skip(w, x) \/ Send(w, x)
  BY <1>3
<1>5. UNCHANGED <<job, people, bounds>>
  BY DEF Mail
<1>6. worker \in [Worker -> Pass \cup {Idle}] /\ mailed \in [User -> Nat]
  BY <1>1 DEF TypeOK
<1>7. /\ worker'[w].step = "mail" /\ worker'[w].last = worker[w].last
      /\ worker'[w].batch = worker[w].batch \ {x}
      /\ \A v \in Worker \ {w} : worker'[v] = worker[v]
  BY <1>1, <1>2, <1>4, <1>6 DEF Skip, Send, Pass, At
<1>8. \A u \in User : mailed'[u] = mailed[u] \/ (u = x /\ mailed'[u] = mailed[u] + 1)
  BY <1>4, <1>6 DEF Skip, Send
<1>9. Busy(w)' /\ x <= worker[w].last
  BY <1>1, <1>3, <1>7 DEF Busy, Idle, Budget, BatchUpToLast
<1>10. x \in Int /\ worker[w].last \in Int
  BY <1>2, <1>3, UserIsNumber DEF Pass
<1>11. Yet(w, x) /\ ~ Yet(w, x)'
  <2>1. ~ (worker[w].last < x)
    BY <1>9, <1>10
  <2>2. x \in worker[w].batch /\ x \notin worker'[w].batch
    BY <1>3, <1>7
  <2>3. worker[w].step = "mail"
    BY <1>1 DEF At
  <2> QED
    BY <1>7, <2>1, <2>2, <2>3 DEF Yet, At
<1>12. \A u \in User \ {x} : Yet(w, u)' <=> Yet(w, u)
  BY <1>1, <1>7 DEF Yet, At
<1>13. \A u \in User : Free(u)' <=> Free(u)
  BY <1>1, <1>5, <1>9 DEF Free, Orphaned, Busy
<1>14. CopyBudget'
  <2> SUFFICES ASSUME NEW u \in User
               PROVE  (mailed[u] + Cardinality(Ahead(u)) + (IF Free(u) THEN 1 ELSE 0)
                         <= 1 + slow + accidents)'
    BY DEF CopyBudget, User
  <2> DEFINE a == Cardinality(Ahead(u))
             b == Cardinality(Ahead(u)')
             f == IF Free(u) THEN 1 ELSE 0
             m == mailed[u]
             n == mailed'[u]
  <2>1. a \in Nat /\ b \in Nat
    BY AheadFinite, AheadFiniteNext
  <2>2. n + b <= m + a /\ n \in Nat /\ m \in Nat
    <3>1. m \in Nat
      BY <1>6
    <3>2. CASE u = x
      <4>1. b = a - 1
        BY <1>1, <1>7, <1>11, <3>2, AheadMoves
      <4>2. n = m \/ n = m + 1
        BY <1>8
      <4> HIDE DEF a, b, m, n
      <4> QED
        BY <2>1, <3>1, <4>1, <4>2
    <3>3. CASE u # x
      <4>1. b = a
        BY <1>1, <1>7, <1>9, <1>12, <3>3, AheadMoves
      <4>2. n = m
        BY <1>8, <3>3
      <4> HIDE DEF a, b, m, n
      <4> QED
        BY <2>1, <3>1, <4>1, <4>2
    <3> QED
      BY <3>2, <3>3
  <2>3. m + a + f <= 1 + slow + accidents
    BY DEF Budget, CopyBudget
  <2>4. f \in Nat /\ slow \in Nat /\ accidents \in Nat
    BY <1>1 DEF TypeOK
  <2> HIDE DEF a, b, m, n, f
  <2>5. \A i \in Nat : m + a + f <= i => n + b + f <= i
    BY <2>1, <2>2, <2>4
  <2>6. n + b + f <= 1 + slow + accidents
    <3>1. 1 + slow + accidents \in Nat
      BY <2>4
    <3> QED
      BY <2>3, <2>5, <3>1
  <2>7. slow' = slow /\ accidents' = accidents /\ (Free(u)' <=> Free(u))
    BY <1>5, <1>13 DEF bounds
  <2> QED
    BY <2>6, <2>7 DEF b, n, f
<1>15. PendingIsFree' /\ BatchUpToLast'
  BY <1>1, <1>5, <1>7 DEF Budget, PendingIsFree, BatchUpToLast, Busy, At
<1> QED
  BY <1>14, <1>15 DEF Budget

LEMMA AdvanceBudget ==
  ASSUME Inv, Inv', Budget, NEW w \in Worker, Advance(w)
  PROVE  Budget'
<1>1. Busy(w) /\ TypeOK /\ At(w, "mail") /\ worker[w].batch = {}
  BY DEF Advance, At, Busy, Idle, Inv
<1>2. job'.lock = "none" /\ job'.cursor = worker[w].last
  BY <1>1 DEF Advance, TypeOK, Job
<1>3. \A u \in User : Free(u)' => Yet(w, u)
  BY <1>1, <1>2 DEF Free, Yet
<1>4. Return(w) /\ mailed' = mailed /\ slow' = slow /\ accidents' = accidents + 0
  BY <1>1 DEF Advance, history, bounds, TypeOK
<1> QED
  BY <1>1, <1>2, <1>3, <1>4, EndBudget

LEMMA CompleteBudget ==
  ASSUME Inv, Inv', Budget, NEW w \in Worker, Complete(w) \/ Fail(w)
  PROVE  Budget'
<1>1. Busy(w) /\ TypeOK /\ Return(w) /\ UNCHANGED <<people, history, bounds>>
  BY DEF Complete, Fail, At, Busy, Idle, Inv
<1>2. job'.status \in {"completed", "failed"}
  BY <1>1 DEF Complete, Fail, TypeOK, Job
<1>3. \A u \in User : ~ Free(u)'
  BY <1>2 DEF Free
<1>4. mailed' = mailed /\ slow' = slow /\ accidents' = accidents + 0
  BY <1>1 DEF history, bounds, TypeOK
<1>5. job'.status = "pending" => job'.lock = "none"
  BY <1>2
<1> QED
  BY <1>1, <1>3, <1>4, <1>5, EndBudget

LEMMA DieBudget ==
  ASSUME Inv, Inv', Budget, NEW w \in Worker, Die(w)
  PROVE  Budget'
<1>1. Busy(w) /\ Return(w) /\ UNCHANGED <<job, people, history, slow>>
  BY DEF Die, Busy
<1>2. mailed' = mailed /\ accidents' = accidents + 1 /\ 1 \in {0, 1}
  BY <1>1 DEF Die, Accident, history
<1>3. job'.status = "pending" => job'.lock = "none"
  BY <1>1 DEF Budget, PendingIsFree
<1> QED
  BY <1>1, <1>2, <1>3, EndBudget

LEMMA ThrowBudget ==
  ASSUME Inv, Inv', Budget, NEW w \in Worker, Throw(w)
  PROVE  Budget'
<1>1. Busy(w) /\ Goto(w, "fail") /\ UNCHANGED <<job, people, history, slow>>
  BY DEF Throw, At, Busy, Idle
<1>2. worker[w] \in Pass /\ "fail" \in Step
  BY <1>1, PassType DEF Inv, Step
<1>3. /\ worker'[w] = [worker[w] EXCEPT !.step = "fail"]
      /\ \A v \in Worker \ {w} : worker'[v] = worker[v]
  BY <1>1, <1>2, GotoType DEF Inv
<1>4. Busy(w)' /\ ~ At(w, "mail")' /\ \A u \in User : ~ Yet(w, u)'
  BY <1>2, <1>3 DEF Busy, At, Idle, Pass, Yet
<1>5. mailed' = mailed /\ slow' = slow /\ accidents' >= accidents
  BY <1>1 DEF Throw, Accident, history, Inv, TypeOK
<1>6. \A f \in {"status", "cursor", "lock"} : job'[f] = job[f]
  BY <1>1
<1> QED
  BY <1>1, <1>3, <1>4, <1>5, <1>6, OnBudget

(* A lease that runs out with nobody busy was as good as free before.      *)
LEMMA LeaseBudget ==
  ASSUME Inv, Inv', Budget, LeaseRunsOut
  PROVE  Budget'
<1>1. /\ job'.lock = "lapsed" /\ job'.cursor = job.cursor /\ job'.status = job.status
      /\ job.lock = "held"
      /\ UNCHANGED <<people, worker, history, accidents>>
  BY DEF LeaseRunsOut, Inv, TypeOK, Job
<1>2. \A u : Ahead(u)' = Ahead(u)
  BY <1>1 DEF Ahead, Busy, Yet, At
<1>3. slow \in Nat /\ accidents \in Nat /\ mailed' = mailed /\ accidents' = accidents
  BY <1>1 DEF Inv, TypeOK, history
<1>4. CopyBudget'
  <2> SUFFICES ASSUME NEW u \in User
               PROVE  (mailed[u] + Cardinality(Ahead(u)) + (IF Free(u) THEN 1 ELSE 0)
                         <= 1 + slow + accidents)'
    BY DEF CopyBudget, User
  <2>1. Cardinality(Ahead(u)') = Cardinality(Ahead(u)) /\ Cardinality(Ahead(u)) \in Nat
    BY <1>2, AheadFinite
  <2>2. CASE Orphaned /\ slow' = slow
    <3>1. Free(u)' => Free(u)
      BY <1>1, <2>2 DEF Free, Orphaned
    <3>2. slow' + accidents' >= slow + accidents + 0
      BY <1>3, <2>2
    <3>3. Cardinality(Ahead(u)') + (IF Free(u)' THEN 1 ELSE 0)
            <= Cardinality(Ahead(u)) + (IF Free(u) THEN 1 ELSE 0) + 0
      BY <2>1, <3>1
    <3> QED
      BY <1>3, <3>2, <3>3, BudgetKept DEF Budget
  <2>3. CASE slow' = slow + 1
    <3>1. slow' + accidents' >= slow + accidents + 1
      BY <1>3, <2>3
    <3>2. Cardinality(Ahead(u)') + (IF Free(u)' THEN 1 ELSE 0)
            <= Cardinality(Ahead(u)) + (IF Free(u) THEN 1 ELSE 0) + 1
      BY <2>1
    <3> QED
      BY <1>3, <3>1, <3>2, BudgetKept DEF Budget
  <2> QED
    BY <2>2, <2>3 DEF LeaseRunsOut
<1>5. PendingIsFree' /\ BatchUpToLast'
  BY <1>1 DEF Budget, PendingIsFree, BatchUpToLast, Busy, At
<1> QED
  BY <1>4, <1>5 DEF Budget

LEMMA SameBudget ==
  ASSUME Budget, UNCHANGED <<job, worker, history, bounds>>
  PROVE  Budget'
<1>1. \A u : Ahead(u)' = Ahead(u) /\ (Free(u)' <=> Free(u))
  BY DEF Ahead, Busy, Yet, At, Free, Orphaned
<1>2. CopyBudget'
  BY <1>1 DEF Budget, CopyBudget, User, history, bounds
<1> QED
  BY <1>2 DEF Budget, PendingIsFree, BatchUpToLast, Busy, At

LEMMA BudgetInit == Init => Budget
<1> SUFFICES ASSUME Init PROVE Budget
  OBVIOUS
<1>1. \A u : Ahead(u) = {}
  BY DEF Init, Ahead, Busy
<1>2. CopyBudget
  BY <1>1, FS_EmptySet DEF Init, CopyBudget
<1> QED
  BY <1>2 DEF Init, Budget, PendingIsFree, BatchUpToLast, Busy

LEMMA BudgetNext == Inv /\ Inv' /\ Budget /\ [Next]_vars => Budget'
<1> SUFFICES ASSUME Inv, Inv', Budget, [Next]_vars PROVE Budget'
  OBVIOUS
<1>1. ASSUME NEW w \in Worker, Claim(w) \/ Resume(w) PROVE Budget'
  BY <1>1, BeginBudget
<1>2. ASSUME NEW w \in Worker, Continue(w) PROVE Budget'
  BY <1>2, CountBudget, ReadBudget, MailBudget, AdvanceBudget, CompleteBudget
     DEF Continue
<1>3. ASSUME NEW w \in Worker, Throw(w) \/ Die(w) PROVE Budget'
  BY <1>3, ThrowBudget, DieBudget
<1>4. CASE LeaseRunsOut
  BY <1>4, LeaseBudget
<1>5. CASE UserActs \/ UNCHANGED vars
  <2>1. UNCHANGED <<job, worker, history, bounds>>
    BY <1>5 DEF UserActs, vars
  <2> QED
    BY <2>1, SameBudget
<1> QED
  BY <1>1, <1>2, <1>3, <1>4, <1>5 DEF Next

LEMMA BudgetHolds == Spec => [](Inv /\ Budget)
<1>1. Init => Inv /\ Budget
  BY InitInv, BudgetInit
<1>2. Inv /\ Budget /\ [Next]_vars => Inv' /\ Budget'
  BY NextInv, BudgetNext
<1> QED
  BY <1>1, <1>2, PTL DEF Spec

-----------------------------------------------------------------------------
(* The variables hold what TypeOK says.                                    *)
THEOREM TypeCorrect == Spec => []TypeOK
<1>1. Inv => TypeOK
  BY DEF Inv
<1> QED
  BY <1>1, InvHolds, PTL

(* However many servers run the broadcast worker, two passes are on their  *)
(* way at once only after one has outlived its lease: a lease that is let  *)
(* go, or left behind by a dead pass, is never taken twice.                *)
THEOREM BatchesExclude == Spec => []OneBatchAtATime
<1>1. Inv => OneBatchAtATime
  BY DEF Inv
<1> QED
  BY <1>1, InvHolds, PTL

(* Passes may overlap, die, lose their database, set the cursor back, and  *)
(* users may come and go between two pages: a broadcast that is completed  *)
(* has got to everybody who was in the audience all the time.              *)
THEOREM CompletedReached == Spec => []CompletedReachesAll
<1>1. Inv => CompletedReachesAll
  BY DEF Inv
<1> QED
  BY <1>1, InvHolds, PTL

(* However passes overlap, set the cursor back and release each other's    *)
(* leases: nobody is mailed more often than once and once more for each    *)
(* lease outlived and each pass cut short.                                 *)
THEOREM CopiesAreBounded == Spec => []CopiesBounded
<1>1. Inv /\ Budget => CopiesBounded
  <2> SUFFICES ASSUME Inv, Budget, NEW u \in User
               PROVE  mailed[u] <= 1 + slow + accidents
    BY DEF CopiesBounded
  <2> DEFINE a == Cardinality(Ahead(u))
             f == IF Free(u) THEN 1 ELSE 0
  <2>1. mailed[u] + a + f <= 1 + slow + accidents
    BY DEF Budget, CopyBudget
  <2>2. /\ a \in Nat /\ f \in Nat /\ mailed[u] \in Nat
        /\ slow \in Nat /\ accidents \in Nat
    BY AheadFinite DEF Inv, TypeOK
  <2> HIDE DEF a, f
  <2>3. \A m, i \in Nat : m + a + f <= i => m <= i
    BY <2>2
  <2>4. 1 + slow + accidents \in Nat
    BY <2>2
  <2> QED
    BY <2>1, <2>2, <2>3, <2>4
<1> QED
  BY <1>1, BudgetHolds, PTL
=============================================================================
