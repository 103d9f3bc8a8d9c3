------------------------------ MODULE Accounts ------------------------------
(***************************************************************************)
(* What requests do at the same time to the rows of users: the second      *)
(* factor (services/auth.service.ts:272-335), the webhook                  *)
(* (lib/webhooks.ts:198-219), an administrator's edits                     *)
(* (services/admin/users.service.ts) and the API keys                      *)
(* (services/apikeys.service.ts).  A process is one HTTP request.  It reads*)
(* a whole row, decides by what it read, and saves the fields it changed;  *)
(* mongoose asks for the version of the row it read, and counts it up, when*)
(* the array of recovery hashes is among them.                             *)
(*                                                                         *)
(* A code is the live TOTP of a secret, or a recovery code.  A wrong code, *)
(* a wrong password, an invalid body or an expired sign-in is the request  *)
(* that ends without effect.  Secrets, URLs and batches of recovery codes  *)
(* are numbered as they are made.                                          *)
(***************************************************************************)
EXTENDS Naturals, Sequences, FiniteSets

CONSTANTS
  User,         \* accounts
  Proc,         \* requests in flight
  Code,         \* the recovery codes of one batch
  MaxRequests   \* bound: requests made

ASSUME BoundAssumption == MaxRequests \in Nat

VARIABLES
  row,       \* the User documents, with their __v
  key,       \* the ApiKey documents, in the order of their creation
  task,      \* who made each request, whose row it has read, and what it
             \* is about to do
  requests,  \* bound: requests so far; numbers what they make
  spent,     \* history: how often each recovery code was accepted
  overtaken  \* history: an edit was saved for somebody who was no
             \* administrator any more, or a patch over another's

vars == <<row, key, task, requests, spent, overtaken>>

None == 0
RecoveryCode == (1 .. MaxRequests + 1) \X Code
Row == [role: {"user", "admin"}, status: {"active", "suspended"},
        url: Nat, secret: Nat,                              \* webhook
        enabled: BOOLEAN, totp: Nat, pending: Nat,          \* second factor
        recovery: SUBSET RecoveryCode, version: Nat]

Step == {"setup", "enable", "signin", "disable", "hook", "key", "revoke", "admin"}
Task == [step: Step \cup {"switchoff", "issue", "update"}, user: User, target: User,
         read: Row, made: Nat, late: BOOLEAN]
Idle == [step |-> "idle"]
At(p, s) == task[p].step = s
Read(p) == task[p].read
Return(p) == task' = [task EXCEPT ![p] = Idle]

(* attachUser, requireApiKey or verifyTwoFactorLogin: the request's own    *)
(* copy of the row of an account that is not suspended.                    *)
Begin(p, u, s) ==
  /\ task[p] = Idle /\ row[u].status = "active"
  /\ requests < MaxRequests /\ requests' = requests + 1
  /\ task' = [task EXCEPT ![p] = [step |-> s, user |-> u, target |-> u, read |-> row[u],
                                  made |-> requests + 2, late |-> FALSE]]
  /\ UNCHANGED <<row, key, spent, overtaken>>

(* A bug RecoveryCodeOnce must notice, in place of Clashes: the row is     *)
(* saved whatever became of it since it was read.                          *)
NeverClashes(u, old, new) == FALSE

(* save: of a field, the new value is written only where it differs from   *)
(* the one that was read; the hashes only on the version they came with.   *)
Clashes(u, old, new) == new.recovery # old.recovery /\ old.version # row[u].version
Saved(u, old, new) ==
  [f \in DOMAIN new |->
     IF f = "version" THEN IF new.recovery # old.recovery THEN row[u].version + 1 ELSE row[u].version
     ELSE IF new[f] # old[f] THEN new[f] ELSE row[u][f]]
Save(u, old, new) == row' = [row EXCEPT ![u] = Saved(u, old, new)]

-----------------------------------------------------------------------------
(* Bugs the properties must notice, each in place of one definition below; *)
(* no behaviour of Spec uses them.                                         *)

(* A secret is made on request only.                                       *)
SignedOnRequest(old, patch, n) ==
  [old EXCEPT !.url = IF patch.url = "new" THEN n ELSE IF patch.url = "null" THEN None ELSE @,
              !.secret = IF patch.url = "null" THEN None
                         ELSE IF patch.secret THEN n ELSE @]

(* A new key does not replace the old ones.                                *)
RevokeNothing(p) ==
  /\ At(p, "key")
  /\ task' = [task EXCEPT ![p].step = "issue"]
  /\ UNCHANGED <<row, key, requests, spent, overtaken>>

(* Only the role is protected from oneself.                                *)
AllowedToRole(actor, target, change) == ~(actor = target /\ change.role = "user")

-----------------------------------------------------------------------------
(* The second factor: setupTwoFactor.                                      *)
Setup(p) ==
  /\ At(p, "setup")
  /\ Save(task[p].target, Read(p), [Read(p) EXCEPT !.pending = task[p].made])
  /\ Return(p)
  /\ UNCHANGED <<key, requests, spent, overtaken>>

(* enableTwoFactor, with a code of the pending secret it read.             *)
Enable(p) ==
  /\ At(p, "enable") /\ Read(p).pending # None
  /\ LET new == [Read(p) EXCEPT !.enabled = TRUE, !.totp = Read(p).pending, !.pending = None,
                                !.recovery = {task[p].made} \X Code]
     IN /\ ~Clashes(task[p].target, Read(p), new)
        /\ Save(task[p].target, Read(p), new)
  /\ Return(p)
  /\ UNCHANGED <<key, requests, spent, overtaken>>

(* verifyTwoFactorLogin asks an account that has the second factor on,     *)
(* disableTwoFactor any.                                                   *)
Asked(p) == At(p, "disable") \/ (At(p, "signin") /\ Read(p).enabled)

(* checkTwoFactorCode, of a sign-in or of disableTwoFactor: the live code  *)
(* of the secret that was read is good, and nothing is saved.              *)
Accepted(p, u) ==
  IF At(p, "signin") THEN Return(p)
  ELSE task' = [task EXCEPT ![p].read = u, ![p].step = "switchoff"]

GiveTotp(p) ==
  /\ Asked(p) /\ Read(p).totp # None
  /\ Accepted(p, Read(p))
  /\ UNCHANGED <<row, key, requests, spent, overtaken>>

(* A recovery code is taken off the list it was found in.                  *)
GiveRecovery(p) ==
  /\ Asked(p)
  /\ \E c \in Read(p).recovery :
       LET new == [Read(p) EXCEPT !.recovery = @ \ {c}] IN
       /\ ~Clashes(task[p].target, Read(p), new)
       /\ Save(task[p].target, Read(p), new)
       /\ spent' = [spent EXCEPT ![c] = @ + 1]
       /\ Accepted(p, [new EXCEPT !.version = @ + 1])
  /\ UNCHANGED <<key, requests, overtaken>>

Disable(p) ==
  /\ At(p, "switchoff")
  /\ LET new == [Read(p) EXCEPT !.enabled = FALSE, !.totp = None, !.recovery = {}]
     IN ~Clashes(task[p].target, Read(p), new) /\ Save(task[p].target, Read(p), new)
  /\ Return(p)
  /\ UNCHANGED <<key, requests, spent, overtaken>>

-----------------------------------------------------------------------------
(* The webhook.  A patch leaves the URL, sets or clears it; and gives a    *)
(* secret or asks for one, or does neither.                                *)
Patch == [url: {"same", "new", "null"}, secret: BOOLEAN]

Patched(old, patch, n) ==
  IF patch.url = "null" THEN [old EXCEPT !.url = None, !.secret = None]
  ELSE LET url == IF patch.url = "new" THEN n ELSE old.url
       IN [old EXCEPT !.url = url,
                      !.secret = IF patch.secret \/ (url # None /\ @ = None) THEN n ELSE @]

Hook(r) == <<r.url, r.secret>>

ApplyPatch(p) ==
  /\ At(p, "hook")
  /\ \E patch \in Patch : Save(task[p].target, Read(p), Patched(Read(p), patch, task[p].made))
  /\ overtaken' = IF Hook(Read(p)) # Hook(row[task[p].target])
                  THEN overtaken \cup {"hook"} ELSE overtaken
  /\ Return(p)
  /\ UNCHANGED <<key, requests, spent>>

-----------------------------------------------------------------------------
(* API keys.  createKey revokes what is active, and issues one; `late' is  *)
(* history, for one whose maker had revoked before another did.            *)
Mine(p) == {k \in DOMAIN key : key[k].owner = task[p].user}

RevokeKeys(p) ==
  /\ At(p, "key")
  /\ key' = [k \in DOMAIN key |-> [key[k] EXCEPT !.active = @ /\ k \notin Mine(p)]]
  /\ task' = [q \in Proc |->
       IF q = p THEN [task[q] EXCEPT !.step = "issue"]
       ELSE IF At(q, "issue") /\ task[q].user = task[p].user THEN [task[q] EXCEPT !.late = TRUE]
       ELSE task[q]]
  /\ UNCHANGED <<row, requests, spent, overtaken>>

IssueKey(p) ==
  /\ At(p, "issue")
  /\ key' = Append(key, [owner |-> task[p].user, active |-> TRUE, late |-> task[p].late])
  /\ Return(p)
  /\ UNCHANGED <<row, requests, spent, overtaken>>

RevokeKey(p) ==
  /\ At(p, "revoke")
  /\ \E k \in Mine(p) : key[k].active /\ key' = [key EXCEPT ![k].active = FALSE]
  /\ Return(p)
  /\ UNCHANGED <<row, requests, spent, overtaken>>

-----------------------------------------------------------------------------
(* An administrator's edit of a role or a status.                          *)
Change == [role: {"user", "admin", "same"}, status: {"active", "suspended", "same"}]

Allowed(actor, target, change) ==
  ~(actor = target /\ (change.role = "user" \/ change.status = "suspended"))

(* findById.                                                               *)
FindUser(p) ==
  /\ At(p, "admin") /\ Read(p).role = "admin"
  /\ \E t \in User :
       task' = [task EXCEPT ![p].step = "update", ![p].target = t, ![p].read = row[t]]
  /\ UNCHANGED <<row, key, requests, spent, overtaken>>

UpdateUser(p) ==
  /\ At(p, "update")
  /\ \E change \in Change :
       /\ Allowed(task[p].user, task[p].target, change)
       /\ Save(task[p].target, Read(p),
               [Read(p) EXCEPT !.role = IF change.role = "same" THEN @ ELSE change.role,
                               !.status = IF change.status = "same" THEN @ ELSE change.status])
  /\ overtaken' = IF row[task[p].user].role # "admin" \/ row[task[p].user].status # "active"
                  THEN overtaken \cup {"edit"} ELSE overtaken
  /\ Return(p)
  /\ UNCHANGED <<key, requests, spent>>

-----------------------------------------------------------------------------
(* An answer that changes nothing, a conflict of versions, or a death.     *)
Fail(p) ==
  /\ task[p] # Idle
  /\ Return(p)
  /\ UNCHANGED <<row, key, requests, spent, overtaken>>

(* An account has been made administrator by hand; some have a webhook, at *)
(* most one has the second factor on, and one has a key.                   *)
Init ==
  /\ row \in [User -> {r \in [role: {"user", "admin"}, status: {"active"}, url: {None, 1}, secret: {None, 1},
                              enabled: BOOLEAN, totp: {None, 1}, pending: {None},
                              recovery: {{}, {1} \X Code}, version: {0}] :
                         /\ r.url = r.secret
                         /\ r.enabled = (r.totp = 1) /\ r.enabled = (r.recovery # {})}]
  /\ \E u \in User : row[u].role = "admin" /\ \A v \in User \ {u} : ~row[v].enabled
  /\ \E u \in User : key = <<[owner |-> u, active |-> TRUE, late |-> FALSE]>>
  /\ task = [p \in Proc |-> Idle]
  /\ requests = 0
  /\ spent = [c \in RecoveryCode |-> 0]
  /\ overtaken = {}

Next == \E p \in Proc :
  \/ \E u \in User, s \in Step : Begin(p, u, s)
  \/ Setup(p) \/ Enable(p) \/ GiveTotp(p) \/ GiveRecovery(p) \/ Disable(p)
  \/ ApplyPatch(p) \/ RevokeKeys(p) \/ IssueKey(p) \/ RevokeKey(p)
  \/ FindUser(p) \/ UpdateUser(p) \/ Fail(p)

Spec == Init /\ [][Next]_vars

-----------------------------------------------------------------------------
TypeOK ==
  /\ row \in [User -> Row]
  /\ key \in Seq([owner: User, active: BOOLEAN, late: BOOLEAN])
  /\ task \in [Proc -> Task \cup {Idle}]
  /\ requests \in 0 .. MaxRequests
  /\ spent \in [RecoveryCode -> Nat]
  /\ overtaken \subseteq {"hook", "edit"}

(* auth.service.ts:301-312, "burned (removed) the moment it's spent": a    *)
(* recovery code is accepted once, however many requests give it at the    *)
(* same time and whatever else is saved to the row meanwhile.              *)
RecoveryCodeOnce ==
  \A c \in RecoveryCode :
    spent[c] + (IF \E u \in User : c \in row[u].recovery THEN 1 ELSE 0) <= 1

(* users.service.ts:92-103: nobody takes the last administrator away.  One *)
(* remains unless somebody's edit was under way while another's removed    *)
(* its author.                                                             *)
AdminRemains ==
  "edit" \in overtaken \/ \E u \in User : row[u].role = "admin" /\ row[u].status = "active"

(* apikeys.service.ts:17-22, "one active key per account": of two active   *)
(* keys one was being made while the other was.                            *)
KeysAreReplaced ==
  \A j, k \in DOMAIN key :
    j # k /\ key[j].active /\ key[k].active /\ key[j].owner = key[k].owner
      => key[j].late \/ key[k].late

(* webhooks.ts:209-216, "so signature verification works from the start":  *)
(* whatever patches are sent, a configured webhook is signed, unless two   *)
(* patches overlapped, each of which saves only what it changed.           *)
WebhookIsSigned ==
  "hook" \in overtaken \/ \A u \in User : row[u].url # None => row[u].secret # None
=============================================================================
