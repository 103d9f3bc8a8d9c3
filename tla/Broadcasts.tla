----------------------------- MODULE Broadcasts -----------------------------
(***************************************************************************)
(* One mass e-mail: workers/index.ts#runBroadcasts in every server process *)
(* with the Broadcast document as queue entry, lease and progress record,  *)
(* and the users it reads.  A worker is one server: `guarded' lets it run  *)
(* one pass at a time.  Users are numbered in the order of their _id.      *)
(* Which addresses are on the suppression list matters only at the moment  *)
(* a mail is to go out: there, any address may be.                         *)
(***************************************************************************)
EXTENDS Integers, FiniteSetsExt

CONSTANTS
  Worker,       \* the server processes
  LastUser,     \* the users are 1 .. LastUser
  BatchSize,    \* BROADCAST_BATCH_SIZE
  MaxSlow,      \* how often a lease runs out while its batch is being sent
  MaxAccidents, \* how many passes die, or lose their database
  MaxChanges    \* how many users join or leave the audience meanwhile

ASSUME WorkerAssumption == IsFiniteSet(Worker)
ASSUME LastUserAssumption == LastUser \in Nat
ASSUME BatchAssumption == BatchSize \in Nat \ {0}
ASSUME BoundAssumption == {MaxSlow, MaxAccidents, MaxChanges} \subseteq Nat

VARIABLES
  job,           \* the Broadcast document
  verified,      \* the users who have verified their address
  unsubscribed,  \* those who want no broadcasts
  worker,        \* what each worker is doing
  mailed,        \* history: how often a mail to each user was not skipped
  tried,         \* history: the users some pass got to
  early,         \* history: the users verified from the start
  slow,          \* how often a lease ran out under a pass that was alive
  accidents,     \* how many passes died or lost their database
  changes        \* how many users joined or left the audience

people == <<verified, unsubscribed, early, changes>>
history == <<mailed, tried>>
bounds == <<slow, accidents>>
vars == <<job, people, worker, history, bounds>>

User == 1 .. LastUser
BroadcastStatus == {"pending", "sending", "completed", "failed"}
Job == [status: BroadcastStatus, cursor: 0 .. LastUser,
        lock: {"none", "held", "lapsed"}, total: Nat, counted: Nat]

(* A pass: the cursor and, in `fresh', the zero counters of the document   *)
(* it claimed, the recipients it has not come to yet, the last of them and *)
(* its own counter.  sentCount and failedCount change together and no      *)
(* step tells them apart: `counted' is their sum.                          *)
Step == {"count", "read", "mail", "complete", "fail"}
Pass == [step: Step, cursor: 0 .. LastUser, fresh: BOOLEAN,
         batch: SUBSET User, last: 0 .. LastUser, counted: Nat]
Idle == [step |-> "idle"]

At(w, s) == worker[w].step = s
Goto(w, s) == worker' = [worker EXCEPT ![w].step = s]
Return(w) == worker' = [worker EXCEPT ![w] = Idle]
Accident == accidents < MaxAccidents /\ accidents' = accidents + 1

(* audienceFilter, whatever audience the admin picked.                     *)
Audience == verified \ unsubscribed

-----------------------------------------------------------------------------
(* Bugs the properties must notice, each in place of one definition below; *)
(* no behaviour of Spec uses them.                                         *)

(* A plain findOne: the lease is not looked at.                            *)
ResumeAnyway(w) ==
  /\ worker[w] = Idle /\ job.status = "sending"
  /\ job' = [job EXCEPT !.lock = "held"]
  /\ worker' = [worker EXCEPT ![w] = [step |-> "count", cursor |-> job.cursor,
       fresh |-> FALSE, batch |-> {}, last |-> 0, counted |-> 0]]
  /\ UNCHANGED <<people, history, bounds>>

(* A lease that has run out is not free.                                   *)
ResumeReleased(w) ==
  /\ worker[w] = Idle /\ job.status = "sending" /\ job.lock = "none"
  /\ job' = [job EXCEPT !.lock = "held"]
  /\ worker' = [worker EXCEPT ![w] = [step |-> "count", cursor |-> job.cursor,
       fresh |-> FALSE, batch |-> {}, last |-> 0, counted |-> 0]]
  /\ UNCHANGED <<people, history, bounds>>

(* The page starts one recipient too late.                                 *)
PageAfterNext(c) ==
  {u \in Audience : u > c + 1 /\ Cardinality({v \in Audience : c < v /\ v <= u}) <= BatchSize}

(* The cursor stays where it was.                                          *)
AdvanceCounters(w) ==
  /\ At(w, "mail") /\ worker[w].batch = {}
  /\ job' = [job EXCEPT !.counted = @ + worker[w].counted, !.lock = "none"]
  /\ Return(w)
  /\ UNCHANGED <<people, history, bounds>>

-----------------------------------------------------------------------------
Begin(w) ==
  worker' = [worker EXCEPT ![w] =
    [step |-> "count", cursor |-> job.cursor,
     fresh |-> job.total = 0 /\ job.counted = 0,
     batch |-> {}, last |-> 0, counted |-> 0]]

(* The claim of a pending job, and of one on its way whose lease is free.  *)
Claim(w) ==
  /\ worker[w] = Idle /\ job.status = "pending"
  /\ job' = [job EXCEPT !.status = "sending", !.lock = "held"]
  /\ Begin(w)
  /\ UNCHANGED <<people, history, bounds>>

Resume(w) ==
  /\ worker[w] = Idle /\ job.status = "sending" /\ job.lock # "held"
  /\ job' = [job EXCEPT !.lock = "held"]
  /\ Begin(w)
  /\ UNCHANGED <<people, history, bounds>>

(* The audience is counted by whoever finds nothing counted yet; save()    *)
(* writes this field alone.                                                *)
Count(w) ==
  /\ At(w, "count")
  /\ job' = IF worker[w].fresh
            THEN [job EXCEPT !.total = Cardinality(Audience)]
            ELSE job
  /\ Goto(w, "read")
  /\ UNCHANGED <<people, history, bounds>>

(* One page of recipients after the cursor.                                *)
Page(c) ==
  {u \in Audience : c < u /\ Cardinality({v \in Audience : c < v /\ v <= u}) <= BatchSize}

Read(w) ==
  LET page == Page(worker[w].cursor) IN
  /\ At(w, "read")
  /\ IF page = {}
     THEN Goto(w, "complete")
     ELSE worker' = [worker EXCEPT ![w].step = "mail", ![w].batch = page,
                                   ![w].last = Max(page)]
  /\ UNCHANGED <<job, people, history, bounds>>

(* sendBroadcastEmail: skipped for a suppressed address, or sent, or       *)
(* thrown and counted as failed, whether or not a copy went out.           *)
Skip(w, u) ==
  /\ worker' = [worker EXCEPT ![w].batch = @ \ {u}]
  /\ UNCHANGED mailed

Send(w, u) ==
  /\ worker' = [worker EXCEPT ![w].batch = @ \ {u}, ![w].counted = @ + 1]
  /\ mailed' = [mailed EXCEPT ![u] = @ + 1]

Mail(w) ==
  /\ At(w, "mail") /\ worker[w].batch # {}
  /\ LET u == Min(worker[w].batch) IN
       /\ Skip(w, u) \/ Send(w, u)
       /\ tried' = tried \cup {u}
  /\ UNCHANGED <<job, people, bounds>>

(* Counters, cursor and lease, by _id and in one update.                   *)
Advance(w) ==
  /\ At(w, "mail") /\ worker[w].batch = {}
  /\ job' = [job EXCEPT !.counted = @ + worker[w].counted,
                        !.cursor = worker[w].last, !.lock = "none"]
  /\ Return(w)
  /\ UNCHANGED <<people, history, bounds>>

Complete(w) ==
  /\ At(w, "complete")
  /\ job' = [job EXCEPT !.status = "completed"]
  /\ Return(w)
  /\ UNCHANGED <<people, history, bounds>>

(* What throws inside the try makes the job a failed one,                  *)
Throw(w) ==
  /\ \/ At(w, "read") \/ At(w, "complete")
     \/ At(w, "mail") /\ worker[w].batch = {}
  /\ Accident
  /\ Goto(w, "fail")
  /\ UNCHANGED <<job, people, history, slow>>

Fail(w) ==
  /\ At(w, "fail")
  /\ job' = [job EXCEPT !.status = "failed"]
  /\ Return(w)
  /\ UNCHANGED <<people, history, bounds>>

(* and what throws elsewhere ends the pass, like the death of the process: *)
(* the lease stays.                                                        *)
Die(w) ==
  /\ worker[w] # Idle
  /\ Accident
  /\ Return(w)
  /\ UNCHANGED <<job, people, history, slow>>

(* lockedUntil comes to lie in the past.                                   *)
Orphaned == \A w \in Worker : worker[w] = Idle

LeaseRunsOut ==
  /\ job.lock = "held"
  /\ \/ Orphaned /\ UNCHANGED slow
     \/ ~Orphaned /\ slow < MaxSlow /\ slow' = slow + 1
  /\ job' = [job EXCEPT !.lock = "lapsed"]
  /\ UNCHANGED <<people, worker, history, accidents>>

-----------------------------------------------------------------------------
(* What users do: verifyEmail; the unsubscribe link, or a complaint that   *)
(* Amazon reports.                                                         *)
Verify(u) ==
  /\ u \notin verified
  /\ verified' = verified \cup {u}
  /\ UNCHANGED <<unsubscribed, early>>

Unsubscribe(u) ==
  /\ u \notin unsubscribed
  /\ unsubscribed' = unsubscribed \cup {u}
  /\ UNCHANGED <<verified, early>>

UserActs ==
  /\ changes < MaxChanges /\ changes' = changes + 1
  /\ \E u \in User : Verify(u) \/ Unsubscribe(u)
  /\ UNCHANGED <<job, worker, history, bounds>>

Init ==
  /\ job = [status |-> "pending", cursor |-> 0, lock |-> "none",
            total |-> 0, counted |-> 0]
  /\ verified \in SUBSET User /\ early = verified
  /\ unsubscribed = {}
  /\ worker = [w \in Worker |-> Idle]
  /\ mailed = [u \in User |-> 0]
  /\ tried = {}
  /\ slow = 0 /\ accidents = 0 /\ changes = 0

Continue(w) ==
  Count(w) \/ Read(w) \/ Mail(w) \/ Advance(w) \/ Complete(w) \/ Fail(w)

Next ==
  \/ \E w \in Worker : Claim(w) \/ Resume(w) \/ Continue(w) \/ Throw(w) \/ Die(w)
  \/ LeaseRunsOut \/ UserActs

Spec == Init /\ [][Next]_vars

-----------------------------------------------------------------------------
(* What each variable may hold.                                            *)
TypeOK ==
  /\ job \in Job
  /\ verified \subseteq User /\ unsubscribed \subseteq User
  /\ early \subseteq User
  /\ worker \in [Worker -> Pass \cup {Idle}]
  /\ mailed \in [User -> Nat]
  /\ tried \subseteq User
  /\ slow \in Nat /\ accidents \in Nat
  /\ changes \in Nat

(* "Two worker processes can never both be sending the same broadcast at   *)
(* once": true as long as no batch takes longer than its lease.            *)
OneBatchAtATime ==
  slow = 0 =>
    \A v, w \in Worker : worker[v] # Idle /\ worker[w] # Idle => v = w

(* And when one does, passes that overlap may set the cursor back and      *)
(* release each other's leases, but nobody is mailed more often than once  *)
(* and once more for each lease outlived and each pass cut short.          *)
CopiesBounded == \A u \in User : mailed[u] <= 1 + slow + accidents

(* Whatever overlaps, dies or is taken over, a completed broadcast got to  *)
(* everybody who was there to be mailed all the time.                      *)
CompletedReachesAll ==
  job.status = "completed" => early \ unsubscribed \subseteq tried

-----------------------------------------------------------------------------
(* Every server's timer ticks, passes run on, and leases run out.          *)
LiveSpec ==
  /\ Spec
  /\ \A w \in Worker : WF_vars(Continue(w))
  /\ WF_vars(\E w \in Worker : Claim(w) \/ Resume(w))
  /\ WF_vars(Orphaned /\ LeaseRunsOut)

(* A broadcast that was asked for ends.                                    *)
BroadcastEnds ==
  job.status = "pending" ~> job.status \in {"completed", "failed"}
=============================================================================
