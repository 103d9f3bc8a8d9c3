--------------------------- MODULE AccountsProofs ---------------------------
(***************************************************************************)
(* Proofs about Accounts, for every number of accounts, requests and       *)
(* codes: the type invariant, that a recovery code is accepted once, that  *)
(* an administrator remains, that a new API key replaces the others, and   *)
(* that a configured webhook is signed.                                    *)
(*                                                                         *)
(* A code is accepted once because a request that reads the hashes reads   *)
(* their version with them (ReadIsOlder), and a batch is new when it is    *)
(* saved (Distinct, NotYet) and saved to one row (OneHolder).  Of the      *)
(* requests that are about to issue a key to somebody one at most has not  *)
(* been overtaken, and it finds no active key that has not (IssuedAlone).  *)
(***************************************************************************)
EXTENDS Accounts, TLAPS

Busy(p) == task[p] # Idle
Held(c) == \E u \in User : c \in row[u].recovery

(* The hashes a request has read are the row's own, or of an older version.*)
ReadIsOlder ==
  \A p \in Proc : Busy(p) =>
    /\ Read(p).version <= row[task[p].target].version
    /\ Read(p).version = row[task[p].target].version =>
         Read(p).recovery = row[task[p].target].recovery

(* No two requests make things of the same number.                         *)
Distinct ==
  \A p \in Proc : Busy(p) =>
    /\ task[p].made \in 2 .. requests + 1
    /\ \A q \in Proc \ {p} : Busy(q) => task[q].made # task[p].made

(* A batch of codes nobody has, nor ever had.                              *)
Unmade(n) == \A c \in RecoveryCode : c[1] = n => ~Held(c) /\ spent[c] = 0
NotYet ==
  /\ \A p \in Proc : Busy(p) => Unmade(task[p].made)
  /\ \A n \in requests + 2 .. MaxRequests + 1 : Unmade(n)

OneHolder ==
  \A u, v \in User, c \in RecoveryCode :
    c \in row[u].recovery /\ c \in row[v].recovery => u = v

Codes == ReadIsOlder /\ Distinct /\ NotYet /\ OneHolder /\ RecoveryCodeOnce

IssuedAlone ==
  \A p \in Proc :
    /\ At(p, "key") => ~task[p].late
    /\ At(p, "issue") /\ ~task[p].late =>
         /\ \A k \in Mine(p) : key[k].active => key[k].late
         /\ \A q \in Proc \ {p} :
              At(q, "issue") /\ task[q].user = task[p].user => task[q].late

Inv ==
  /\ TypeOK
  /\ Codes
  /\ AdminRemains
  /\ WebhookIsSigned
  /\ IssuedAlone
  /\ KeysAreReplaced

-----------------------------------------------------------------------------
(* What a request is, and what a save writes.                              *)

LEMMA BusyIsTask ==
  ASSUME TypeOK, NEW p \in Proc
  PROVE  /\ Busy(p) => /\ task[p] \in Task /\ Read(p) \in Row
                       /\ task[p].user \in User /\ task[p].target \in User
                       /\ task[p].made \in Nat /\ task[p].late \in BOOLEAN
         /\ \A s \in Step \cup {"switchoff", "issue", "update"} : At(p, s) => Busy(p)
  BY DEF TypeOK, Busy, Task, Idle, At, Read, Step

LEMMA SavedRow ==
  ASSUME row \in [User -> Row], NEW u \in User, NEW old \in Row, NEW new \in Row
  PROVE  /\ Saved(u, old, new) \in Row
         /\ \A f \in {"role", "status", "url", "secret", "enabled", "totp", "pending", "recovery"} :
              Saved(u, old, new)[f] = IF new[f] # old[f] THEN new[f] ELSE row[u][f]
         /\ Saved(u, old, new).version =
              IF new.recovery # old.recovery THEN row[u].version + 1 ELSE row[u].version
<1> DEFINE D == {"role", "status", "url", "secret", "enabled", "totp", "pending",
                 "recovery", "version"}
           F(f) == IF f = "version"
                   THEN IF new.recovery # old.recovery THEN row[u].version + 1 ELSE row[u].version
                   ELSE IF new[f] # old[f] THEN new[f] ELSE row[u][f]
<1>1. DOMAIN new = D
  BY DEF Row
<1>2. Saved(u, old, new) = [f \in D |-> F(f)]
  BY <1>1 DEF Saved
<1>3. row[u] \in Row
  OBVIOUS
<1>4. /\ F("role") \in {"user", "admin"} /\ F("status") \in {"active", "suspended"}
      /\ F("url") \in Nat /\ F("secret") \in Nat /\ F("enabled") \in BOOLEAN
      /\ F("totp") \in Nat /\ F("pending") \in Nat
      /\ F("recovery") \in SUBSET RecoveryCode /\ F("version") \in Nat
  BY <1>3, SMTT(30) DEF Row
<1> QED
  BY <1>2, <1>4, SMTT(30) DEF Row

(* A row's own part of a save.                                             *)
KeepsCodes(u) == row'[u].recovery = row[u].recovery /\ row'[u].version = row[u].version
KeepsHook(u) == row'[u].url = row[u].url /\ row'[u].secret = row[u].secret
KeepsRank(u) == row'[u].role = row[u].role /\ row'[u].status = row[u].status

(* What a save makes of the rows.                                          *)
SavedAs(u, old, new) ==
  /\ row' \in [User -> Row]
  /\ \A v \in User \ {u} : row'[v] = row[v]
  /\ new.role = old.role /\ new.status = old.status => KeepsRank(u)
  /\ row'[u].role = IF new.role # old.role THEN new.role ELSE row[u].role
  /\ row'[u].status = IF new.status # old.status THEN new.status ELSE row[u].status
  /\ new.url = old.url /\ new.secret = old.secret => KeepsHook(u)
  /\ row'[u].url = IF new.url # old.url THEN new.url ELSE row[u].url
  /\ row'[u].secret = IF new.secret # old.secret THEN new.secret ELSE row[u].secret
  /\ new.recovery = old.recovery => KeepsCodes(u)
  /\ new.recovery # old.recovery =>
       row'[u].recovery = new.recovery /\ row'[u].version = row[u].version + 1

(* That is what it makes of them.                                         *)
LEMMA Saves ==
  ASSUME TypeOK, NEW u \in User, NEW old \in Row, NEW new \in Row, Save(u, old, new)
  PROVE  SavedAs(u, old, new)
<1>1. row \in [User -> Row]
  BY DEF TypeOK
<1>2. row' = [row EXCEPT ![u] = Saved(u, old, new)]
  BY DEF Save
<1> HIDE DEF Save
<1>3. row'[u] = Saved(u, old, new) /\ \A v \in User \ {u} : row'[v] = row[v]
  BY <1>1, <1>2
<1>4. row' \in [User -> Row]
  BY <1>1, <1>2, SavedRow
<1> QED
  BY <1>1, <1>3, <1>4, SavedRow DEF SavedAs, KeepsCodes, KeepsHook, KeepsRank

(* How the tasks move: p's ends, or becomes r; the others stay.            *)
LEMMA Returned ==
  ASSUME TypeOK, NEW p \in Proc, Return(p)
  PROVE  /\ task' \in [Proc -> Task \cup {Idle}]
         /\ ~Busy(p)' /\ \A q \in Proc \ {p} : task'[q] = task[q]
  BY DEF TypeOK, Return, Busy

LEMMA Became ==
  ASSUME TypeOK, NEW p \in Proc, NEW r \in Task, task' = [task EXCEPT ![p] = r]
  PROVE  /\ task' \in [Proc -> Task \cup {Idle}]
         /\ task'[p] = r /\ \A q \in Proc \ {p} : task'[q] = task[q]
  BY DEF TypeOK

-----------------------------------------------------------------------------
(* The hashes and what was accepted of them.                               *)

LEMMA OnceHeld ==
  ASSUME TypeOK
  PROVE  RecoveryCodeOnce <=>
           \A c \in RecoveryCode : spent[c] <= 1 /\ (Held(c) => spent[c] = 0)
BY DEF TypeOK, RecoveryCodeOnce, Held

LEMMA OnceHeldNext ==
  ASSUME TypeOK'
  PROVE  RecoveryCodeOnce' <=>
           \A c \in RecoveryCode : spent'[c] <= 1 /\ (Held(c)' => spent'[c] = 0)
BY DEF TypeOK, RecoveryCodeOnce, Held

(* Requests end, or go on with what they have, or read a row anew.         *)
Carries(q) ==
  Busy(q)' =>
    /\ Busy(q) /\ task'[q].made = task[q].made /\ task'[q].target \in User
    /\ \/ task'[q].target = task[q].target /\ task'[q].read = task[q].read
       \/ task'[q].read = row[task'[q].target]

LEMMA CodesStay ==
  ASSUME TypeOK, TypeOK', Codes, requests' = requests, spent' = spent,
         \A u \in User : KeepsCodes(u),
         \A q \in Proc : Carries(q)
  PROVE  Codes'
<1>1. \A c \in RecoveryCode : Held(c)' <=> Held(c)
  BY DEF Held, KeepsCodes
<1>2. ReadIsOlder'
  <2> SUFFICES ASSUME NEW q \in Proc, Busy(q)'
               PROVE  /\ task'[q].read.version <= row'[task'[q].target].version
                      /\ task'[q].read.version = row'[task'[q].target].version =>
                           task'[q].read.recovery = row'[task'[q].target].recovery
    BY DEF ReadIsOlder, Read
  <2>1. Carries(q) /\ Busy(q)
    BY DEF Carries
  <2>2. KeepsCodes(task'[q].target)
    BY <2>1 DEF Carries
  <2>3. row[task'[q].target].version \in Nat
    BY <2>1 DEF Carries, TypeOK, Row
  <2> QED
    BY <2>1, <2>2, <2>3 DEF Carries, Codes, ReadIsOlder, Read, KeepsCodes
<1>3. Distinct'
  BY DEF Codes, Distinct, Carries
<1>4. NotYet'
  <2>1. \A n : Unmade(n) => Unmade(n)'
    BY <1>1 DEF Unmade
  <2> QED
    BY <2>1 DEF Codes, NotYet, Carries
<1>5. OneHolder'
  BY DEF Codes, OneHolder, KeepsCodes
<1>6. RecoveryCodeOnce'
  BY <1>1, OnceHeld, OnceHeldNext DEF Codes
<1> QED
  BY <1>2, <1>3, <1>4, <1>5, <1>6 DEF Codes

(* A save of other hashes, of the version that was read.                   *)
Writes(p, u, hashes) ==
  /\ Busy(p) /\ task[p].target = u /\ Read(p).version = row[u].version
  /\ row'[u].recovery = hashes /\ row'[u].version = row[u].version + 1
  /\ \A v \in User \ {u} : KeepsCodes(v)
  /\ \A q \in Proc \ {p} : task'[q] = task[q]
  /\ Busy(p)' => /\ task'[p].made = task[p].made /\ task'[p].target = u
                 /\ task'[p].read.version = row[u].version + 1
                 /\ task'[p].read.recovery = hashes

LEMMA WrittenReads ==
  ASSUME TypeOK, TypeOK', Codes, NEW p \in Proc, NEW u \in User, NEW hashes,
         Writes(p, u, hashes), requests' = requests
  PROVE  ReadIsOlder' /\ Distinct'
<1>1. ReadIsOlder'
  <2> SUFFICES ASSUME NEW q \in Proc, Busy(q)'
               PROVE  /\ task'[q].read.version <= row'[task'[q].target].version
                      /\ task'[q].read.version = row'[task'[q].target].version =>
                           task'[q].read.recovery = row'[task'[q].target].recovery
    BY DEF ReadIsOlder, Read
  <2>1. CASE q = p
    BY <2>1 DEF Writes, TypeOK, Row
  <2>2. CASE q # p
    <3>1. task'[q] = task[q] /\ Busy(q)
      BY <2>2 DEF Writes, Busy
    <3>2. task[q].target \in User /\ task[q].read.version \in Nat
          /\ row[task[q].target].version \in Nat
      BY <3>1, BusyIsTask DEF Read, TypeOK, Row
    <3>3. CASE task[q].target = u
      BY <3>1, <3>2, <3>3 DEF Writes, Codes, ReadIsOlder, Read
    <3>4. CASE task[q].target # u
      BY <3>1, <3>2, <3>4 DEF Writes, KeepsCodes, Codes, ReadIsOlder, Read
    <3> QED
      BY <3>3, <3>4
  <2> QED
    BY <2>1, <2>2
<1>2. Distinct'
  BY DEF Codes, Distinct, Writes, Busy
<1> QED
  BY <1>1, <1>2

(* Hashes are taken away, one of them perhaps because its code was given.  *)
LEMMA HashesRemoved ==
  ASSUME TypeOK, TypeOK', Codes, NEW p \in Proc, NEW u \in User,
         NEW hashes \in SUBSET row[u].recovery,
         Writes(p, u, hashes), requests' = requests,
         \A c \in RecoveryCode :
           \/ spent'[c] = spent[c]
           \/ c \in row[u].recovery \ hashes /\ spent'[c] = spent[c] + 1
  PROVE  Codes'
<1>1. \A v \in User : row'[v].recovery \subseteq row[v].recovery
  BY DEF Writes, KeepsCodes
<1>2. \A c \in RecoveryCode : Held(c)' => Held(c)
  BY <1>1 DEF Held
<1>3. NotYet'
  <2>1. ASSUME NEW n, Unmade(n)
        PROVE  Unmade(n)'
    BY <1>2, <2>1 DEF Unmade, Held
  <2>2. \A q \in Proc : Busy(q)' => Busy(q) /\ task'[q].made = task[q].made
    BY DEF Writes, Busy
  <2> QED
    BY <2>1, <2>2 DEF Codes, NotYet
<1>4. OneHolder'
  BY <1>1 DEF Codes, OneHolder
<1>5. RecoveryCodeOnce'
  <2> SUFFICES ASSUME NEW c \in RecoveryCode
               PROVE  spent'[c] <= 1 /\ (Held(c)' => spent'[c] = 0)
    BY OnceHeldNext
  <2>1. spent[c] \in Nat /\ spent[c] <= 1 /\ (Held(c) => spent[c] = 0)
    BY OnceHeld DEF Codes, TypeOK
  <2>2. CASE spent'[c] = spent[c]
    BY <2>1, <2>2, <1>2
  <2>3. CASE c \in row[u].recovery \ hashes /\ spent'[c] = spent[c] + 1
    <3>1. Held(c)
      BY <2>3 DEF Held
    <3>2. ~Held(c)'
      <4>1. \A v \in User : c \in row[v].recovery => v = u
        BY <2>3 DEF Codes, OneHolder
      <4>2. c \notin row'[u].recovery
        BY <2>3 DEF Writes
      <4> QED
        BY <4>1, <4>2, <1>1 DEF Held
    <3> QED
      BY <2>1, <2>3, <3>1, <3>2
  <2> QED
    BY <2>2, <2>3
<1> QED
  BY <1>3, <1>4, <1>5, WrittenReads DEF Codes

(* A new batch takes the place of the old one, and its request ends.       *)
LEMMA HashesReplaced ==
  ASSUME TypeOK, TypeOK', Codes, NEW p \in Proc, NEW u \in User,
         Writes(p, u, {task[p].made} \X Code), ~Busy(p)',
         requests' = requests, spent' = spent
  PROVE  Codes'
<1> DEFINE n == task[p].made
<1>1. Unmade(n)
  BY DEF Codes, NotYet, Writes
<1>2. \A c \in RecoveryCode : c[1] # n /\ Held(c)' => Held(c)
  BY DEF Held, Writes, KeepsCodes
<1>3. \A v \in User : \A c \in row'[v].recovery :
        /\ c[1] = n => v = u
        /\ c[1] # n => v # u /\ c \in row[v].recovery
  <2> SUFFICES ASSUME NEW v \in User, NEW c \in row'[v].recovery
               PROVE  /\ c[1] = n => v = u
                      /\ c[1] # n => v # u /\ c \in row[v].recovery
    OBVIOUS
  <2>1. CASE v = u
    BY <2>1 DEF Writes
  <2>2. CASE v # u
    <3>1. c \in row[v].recovery
      BY <2>2 DEF Writes, KeepsCodes
    <3>2. c \in RecoveryCode
      BY <3>1 DEF TypeOK, Row
    <3> QED
      BY <3>1, <3>2, <1>1, <2>2 DEF Unmade, Held
  <2> QED
    BY <2>1, <2>2
<1>4. NotYet'
  <2>1. ASSUME NEW m, m # n, Unmade(m)
        PROVE  Unmade(m)'
    BY <1>2, <2>1 DEF Unmade
  <2>2. \A q \in Proc : Busy(q)' => Busy(q) /\ task'[q].made = task[q].made /\ task[q].made # n
    BY DEF Writes, Busy, Codes, Distinct
  <2>3. n < requests + 2
    BY DEF Codes, Distinct, Writes, TypeOK
  <2>4. \A m \in requests + 2 .. MaxRequests + 1 : Unmade(m)'
    BY <2>1, <2>3, BoundAssumption DEF Codes, NotYet, TypeOK
  <2> QED
    BY <2>1, <2>2, <2>4 DEF Codes, NotYet
<1>5. OneHolder'
  BY <1>3 DEF Codes, OneHolder
<1>6. RecoveryCodeOnce'
  <2> SUFFICES ASSUME NEW c \in RecoveryCode
               PROVE  spent[c] <= 1 /\ (Held(c)' => spent[c] = 0)
    BY OnceHeldNext
  <2>1. spent[c] <= 1 /\ (Held(c) => spent[c] = 0)
    BY OnceHeld DEF Codes
  <2> QED
    BY <2>1, <1>1, <1>2 DEF Unmade
<1> QED
  BY <1>4, <1>5, <1>6, WrittenReads DEF Codes

-----------------------------------------------------------------------------
(* What a step leaves alone.                                               *)

LEMMA RanksStay ==
  ASSUME AdminRemains, \A u \in User : KeepsRank(u), overtaken \subseteq overtaken'
  PROVE  AdminRemains'
BY DEF AdminRemains, KeepsRank

LEMMA HooksStay ==
  ASSUME WebhookIsSigned, \A u \in User : KeepsHook(u), overtaken \subseteq overtaken'
  PROVE  WebhookIsSigned'
BY DEF WebhookIsSigned, KeepsHook

(* Nobody comes to issue a key.                                            *)
Quiet(q) ==
  /\ At(q, "key")' => ~task'[q].late
  /\ At(q, "issue")' => At(q, "issue") /\ task'[q].user = task[q].user
                                      /\ task'[q].late = task[q].late

LEMMA KeysStay ==
  ASSUME IssuedAlone, KeysAreReplaced, key' = key, \A q \in Proc : Quiet(q)
  PROVE  IssuedAlone' /\ KeysAreReplaced'
BY DEF IssuedAlone, KeysAreReplaced, Quiet, Mine

(* A request ends: of the tasks, nothing else is to be said.               *)
LEMMA EndsQuietly ==
  ASSUME TypeOK, NEW p \in Proc, Return(p), IssuedAlone
  PROVE  /\ \A q \in Proc : Quiet(q)
         /\ \A q \in Proc : Carries(q)
<1>1. ~Busy(p)' /\ \A q \in Proc \ {p} : task'[q] = task[q]
  BY Returned
<1>2. \A q \in Proc : Quiet(q)
  BY <1>1 DEF Quiet, Busy, At, Idle, IssuedAlone
<1>3. \A q \in Proc : Carries(q)
  BY <1>1, BusyIsTask DEF Carries, Busy
<1> QED
  BY <1>2, <1>3

(* A step of the second factor touches neither ranks nor webhooks nor keys.*)
LEMMA SecondFactor ==
  ASSUME Inv, TypeOK', Codes', NEW u \in User,
         \A v \in User \ {u} : row'[v] = row[v],
         KeepsRank(u), KeepsHook(u), \A q \in Proc : Quiet(q),
         UNCHANGED <<key, overtaken>>
  PROVE  Inv'
<1>1. \A v \in User : KeepsRank(v) /\ KeepsHook(v)
  BY DEF KeepsRank, KeepsHook
<1>2. AdminRemains' /\ WebhookIsSigned'
  BY <1>1, RanksStay, HooksStay DEF Inv
<1>3. IssuedAlone' /\ KeysAreReplaced'
  BY KeysStay DEF Inv
<1> QED
  BY <1>2, <1>3 DEF Inv

-----------------------------------------------------------------------------
(* Requests begin and end.                                                 *)

LEMMA BeginHolds ==
  ASSUME Inv, NEW p \in Proc, NEW u \in User, NEW s \in Step, Begin(p, u, s)
  PROVE  Inv'
<1> DEFINE r == [step |-> s, user |-> u, target |-> u, read |-> row[u],
                 made |-> requests + 2, late |-> FALSE]
<1>1. TypeOK /\ requests \in Nat /\ row[u] \in Row
  BY BoundAssumption DEF Inv, TypeOK
<1>2. r \in Task /\ r # Idle
  BY <1>1 DEF Task, Idle, Step
<1>3. task' \in [Proc -> Task \cup {Idle}] /\ task'[p] = r
      /\ \A q \in Proc \ {p} : task'[q] = task[q]
  BY <1>1, <1>2, Became DEF Begin
<1>4. Busy(p)' /\ ~Busy(p)
  BY <1>2, <1>3 DEF Begin, Busy
<1>5. TypeOK'
  BY <1>1, <1>3, BoundAssumption DEF Begin, TypeOK
<1>6. ReadIsOlder'
  BY <1>1, <1>3 DEF ReadIsOlder, Inv, Codes, Begin, Busy, Read, Row
<1>7. Distinct'
  BY <1>1, <1>3, <1>4 DEF Distinct, Inv, Codes, Begin, Busy
<1>8. NotYet'
  <2>1. \A n : Unmade(n) => Unmade(n)'
    BY DEF Unmade, Held, Begin
  <2>2. Unmade(requests + 2)
    BY <1>1, BoundAssumption DEF Inv, Codes, NotYet, Begin
  <2>3. \A n \in requests' + 2 .. MaxRequests + 1 : n \in requests + 2 .. MaxRequests + 1
    BY <1>1, BoundAssumption DEF Begin
  <2> QED
    BY <2>1, <2>2, <2>3, <1>3 DEF Inv, Codes, NotYet, Begin, Busy
<1>9. OneHolder' /\ RecoveryCodeOnce'
  BY DEF Inv, Codes, OneHolder, RecoveryCodeOnce, Begin
<1>10. AdminRemains' /\ WebhookIsSigned'
  BY DEF Inv, AdminRemains, WebhookIsSigned, Begin
<1>11. \A q \in Proc : Quiet(q)
  BY <1>3, <1>2 DEF Quiet, At, Inv, IssuedAlone, Step
<1>12. IssuedAlone' /\ KeysAreReplaced'
  BY <1>11, KeysStay DEF Inv, Begin
<1> QED
  BY <1>5, <1>6, <1>7, <1>8, <1>9, <1>10, <1>12 DEF Inv, Codes

LEMMA Ended ==
  ASSUME Inv, NEW p \in Proc, Return(p), UNCHANGED <<row, requests, spent, key, overtaken>>
  PROVE  Inv'
<1>1. TypeOK'
  BY Returned DEF Inv, TypeOK
<1>2. \A q \in Proc : Quiet(q) /\ Carries(q)
  BY EndsQuietly DEF Inv
<1>3. \A u \in User : KeepsCodes(u) /\ KeepsRank(u) /\ KeepsHook(u)
  BY DEF KeepsCodes, KeepsRank, KeepsHook
<1>4. Codes'
  BY <1>1, <1>2, <1>3, CodesStay DEF Inv
<1>5. IssuedAlone' /\ KeysAreReplaced'
  BY <1>2, KeysStay DEF Inv
<1> QED
  BY <1>1, <1>3, <1>4, <1>5, RanksStay, HooksStay DEF Inv

-----------------------------------------------------------------------------
(* The second factor.                                                      *)

LEMMA SetupHolds ==
  ASSUME Inv, NEW p \in Proc, Setup(p)
  PROVE  Inv'
<1> DEFINE u == task[p].target
           new == [Read(p) EXCEPT !.pending = task[p].made]
<1>1. u \in User /\ Read(p) \in Row /\ task[p].made \in Nat /\ TypeOK
  BY BusyIsTask DEF Inv, Setup, Step
<1>2. new \in Row /\ new.recovery = Read(p).recovery /\ new.role = Read(p).role
      /\ new.status = Read(p).status /\ new.url = Read(p).url /\ new.secret = Read(p).secret
  BY <1>1 DEF Row
<1>3. Save(u, Read(p), new)
  BY DEF Setup
<1> HIDE DEF new
<1>4. row' \in [User -> Row] /\ (\A v \in User \ {u} : row'[v] = row[v])
      /\ KeepsRank(u) /\ KeepsHook(u) /\ KeepsCodes(u)
  <2> HIDE DEF u
  <2>1. SavedAs(u, Read(p), new)
    BY <1>1, <1>2, <1>3, Saves
  <2> QED
    BY <1>1, <1>2, <1>3, <2>1 DEF SavedAs
<1>5. TypeOK'
  BY <1>1, <1>4, Returned DEF Setup, TypeOK
<1>6. \A q \in Proc : Quiet(q) /\ Carries(q)
  BY EndsQuietly DEF Inv, Setup
<1>7. \A v \in User : KeepsCodes(v)
  BY <1>4 DEF KeepsCodes
<1>8. Codes'
  BY <1>5, <1>6, <1>7, CodesStay DEF Inv, Setup
<1> QED
  BY <1>1, <1>4, <1>5, <1>6, <1>8, SecondFactor DEF Setup

LEMMA EnableHolds ==
  ASSUME Inv, NEW p \in Proc, Enable(p)
  PROVE  Inv'
<1> DEFINE u == task[p].target
           hashes == {task[p].made} \X Code
           new == [Read(p) EXCEPT !.enabled = TRUE, !.totp = Read(p).pending, !.pending = None,
                                  !.recovery = hashes]
<1>1. u \in User /\ Read(p) \in Row /\ task[p].made \in Nat /\ TypeOK /\ Busy(p)
  BY BusyIsTask DEF Inv, Enable, Step
<1>2. hashes \in SUBSET RecoveryCode
  <2>1. task[p].made \in 1 .. MaxRequests + 1
    BY <1>1, BoundAssumption DEF Inv, Codes, Distinct, TypeOK
  <2> QED
    BY <2>1 DEF RecoveryCode
<1>3. new \in Row /\ new.recovery = hashes /\ new.role = Read(p).role
      /\ new.status = Read(p).status /\ new.url = Read(p).url /\ new.secret = Read(p).secret
  <2> HIDE DEF hashes
  <2> QED
    BY <1>1, <1>2 DEF Row, None
<1>4. Save(u, Read(p), new) /\ ~Clashes(u, Read(p), new)
  BY DEF Enable
<1> HIDE DEF new
<1>5. /\ row' \in [User -> Row] /\ (\A v \in User \ {u} : row'[v] = row[v])
      /\ KeepsRank(u) /\ KeepsHook(u)
      /\ new.recovery = Read(p).recovery => KeepsCodes(u)
      /\ new.recovery # Read(p).recovery =>
           row'[u].recovery = new.recovery /\ row'[u].version = row[u].version + 1
  <2> HIDE DEF u
  <2>1. SavedAs(u, Read(p), new)
    BY <1>1, <1>3, <1>4, Saves
  <2> QED
    BY <1>1, <1>3, <1>4, <2>1 DEF SavedAs
<1>6. TypeOK'
  BY <1>1, <1>5, Returned DEF Enable, TypeOK
<1>7. \A q \in Proc : Quiet(q) /\ Carries(q)
  BY <1>1, EndsQuietly DEF Inv, Enable
<1>8. Codes'
  <2>1. CASE new.recovery = Read(p).recovery
    <3>1. \A v \in User : KeepsCodes(v)
      BY <1>5, <2>1 DEF KeepsCodes
    <3> QED
      BY <1>6, <1>7, <3>1, CodesStay DEF Inv, Enable
  <2>2. CASE new.recovery # Read(p).recovery
    <3>1. Read(p).version = row[u].version
      BY <1>4, <2>2 DEF Clashes
    <3>2. ~Busy(p)' /\ \A q \in Proc \ {p} : task'[q] = task[q]
      BY <1>1, Returned DEF Enable
    <3>3. Writes(p, u, hashes)
      BY <1>1, <1>3, <1>5, <2>2, <3>1, <3>2 DEF Writes, KeepsCodes
    <3> HIDE DEF u
    <3> QED
      BY <1>1, <1>6, <3>2, <3>3, HashesReplaced DEF Inv, Enable
  <2> QED
    BY <2>1, <2>2
<1> QED
  BY <1>1, <1>5, <1>6, <1>7, <1>8, SecondFactor DEF Enable

(* A code was good: a sign-in ends, the other goes on to switch off.       *)
LEMMA AcceptedGoesOn ==
  ASSUME Inv, NEW p \in Proc, Asked(p), NEW u \in Row, Accepted(p, u)
  PROVE  /\ task' \in [Proc -> Task \cup {Idle}]
         /\ \A q \in Proc \ {p} : task'[q] = task[q]
         /\ Busy(p)' => Busy(p) /\ task'[p].made = task[p].made
                                /\ task'[p].target = task[p].target /\ task'[p].read = u
         /\ \A q \in Proc : Quiet(q)
<1>1. TypeOK /\ Busy(p) /\ task[p] \in Task
  BY BusyIsTask DEF Inv, Asked, Step
<1>2. CASE At(p, "signin")
  <2>1. Return(p)
    BY <1>2 DEF Accepted
  <2> QED
    BY <1>1, <2>1, Returned, EndsQuietly DEF Inv
<1>3. CASE At(p, "disable")
  <2> DEFINE r == [task[p] EXCEPT !.read = u, !.step = "switchoff"]
  <2>1. /\ r \in Task /\ r.made = task[p].made /\ r.target = task[p].target
        /\ r.read = u /\ r.step = "switchoff"
    BY <1>1 DEF Task
  <2>2. task' = [task EXCEPT ![p] = r]
    BY <1>1, <1>3 DEF Accepted, At, TypeOK
  <2> HIDE DEF r
  <2>3. task' \in [Proc -> Task \cup {Idle}] /\ task'[p] = r
        /\ \A q \in Proc \ {p} : task'[q] = task[q]
    BY <1>1, <2>1, <2>2, Became
  <2>4. \A q \in Proc : Quiet(q)
    BY <2>1, <2>3 DEF Quiet, At, Inv, IssuedAlone
  <2> QED
    BY <1>1, <2>1, <2>3, <2>4
<1> QED
  BY <1>2, <1>3 DEF Asked

LEMMA GiveTotpHolds ==
  ASSUME Inv, NEW p \in Proc, GiveTotp(p)
  PROVE  Inv'
<1>1. Read(p) \in Row /\ TypeOK /\ Busy(p) /\ task[p].target \in User
  BY BusyIsTask DEF Inv, GiveTotp, Asked, Step
<1>2. /\ task' \in [Proc -> Task \cup {Idle}]
      /\ \A q \in Proc \ {p} : task'[q] = task[q]
      /\ Busy(p)' => Busy(p) /\ task'[p].made = task[p].made
                             /\ task'[p].target = task[p].target /\ task'[p].read = task[p].read
      /\ \A q \in Proc : Quiet(q)
  BY <1>1, AcceptedGoesOn DEF GiveTotp, Read
<1>3. TypeOK'
  BY <1>1, <1>2 DEF GiveTotp, TypeOK
<1>4. \A q \in Proc : Carries(q)
  BY <1>1, <1>2, BusyIsTask DEF Carries, Busy
<1>5. \A v \in User : KeepsCodes(v) /\ KeepsRank(v) /\ KeepsHook(v)
  BY DEF GiveTotp, KeepsCodes, KeepsRank, KeepsHook
<1>6. Codes'
  BY <1>3, <1>4, <1>5, CodesStay DEF Inv, GiveTotp
<1>7. row' = row /\ UNCHANGED <<key, overtaken>>
  BY DEF GiveTotp
<1> QED
  BY <1>1, <1>2, <1>3, <1>5, <1>6, <1>7, SecondFactor

LEMMA GiveRecoveryHolds ==
  ASSUME Inv, NEW p \in Proc, GiveRecovery(p)
  PROVE  Inv'
<1> DEFINE u == task[p].target
           new(c) == [Read(p) EXCEPT !.recovery = @ \ {c}]
           seen(c) == [new(c) EXCEPT !.version = @ + 1]
<1>1. u \in User /\ Read(p) \in Row /\ TypeOK /\ Busy(p)
  BY BusyIsTask DEF Inv, GiveRecovery, Asked, Step
<1>2. PICK c \in Read(p).recovery :
        /\ ~Clashes(u, Read(p), new(c)) /\ Save(u, Read(p), new(c))
        /\ spent' = [spent EXCEPT ![c] = @ + 1]
        /\ Accepted(p, seen(c))
  BY DEF GiveRecovery
<1> DEFINE n == new(c)
           s == seen(c)
           hashes == Read(p).recovery \ {c}
<1>3. n \in Row /\ n.recovery = hashes /\ n.role = Read(p).role
      /\ n.status = Read(p).status /\ n.url = Read(p).url /\ n.secret = Read(p).secret
      /\ n.version = Read(p).version
  BY <1>1 DEF Row
<1>4. s \in Row /\ s.recovery = hashes /\ s.version = Read(p).version + 1
  <2> HIDE DEF new, hashes
  <2> QED
    BY <1>3 DEF Row
<1>5. Save(u, Read(p), n) /\ ~Clashes(u, Read(p), n) /\ Accepted(p, s)
  BY <1>2
<1> HIDE DEF n, s
<1>6. n.recovery # Read(p).recovery
  BY <1>2, <1>3
<1>7. row' \in [User -> Row] /\ (\A v \in User \ {u} : row'[v] = row[v])
      /\ KeepsRank(u) /\ KeepsHook(u)
      /\ row'[u].recovery = hashes /\ row'[u].version = row[u].version + 1
  <2> HIDE DEF u
  <2>1. SavedAs(u, Read(p), n)
    BY <1>1, <1>3, <1>5, <1>6, Saves
  <2> QED
    BY <1>1, <1>3, <1>5, <1>6, <2>1 DEF SavedAs
<1>8. Read(p).version = row[u].version /\ Read(p).recovery = row[u].recovery
  BY <1>1, <1>5, <1>6 DEF Clashes, Inv, Codes, ReadIsOlder
<1>9. /\ task' \in [Proc -> Task \cup {Idle}]
      /\ \A q \in Proc \ {p} : task'[q] = task[q]
      /\ Busy(p)' => Busy(p) /\ task'[p].made = task[p].made
                             /\ task'[p].target = task[p].target /\ task'[p].read = s
      /\ \A q \in Proc : Quiet(q)
  BY <1>4, <1>5, AcceptedGoesOn DEF GiveRecovery
<1>10. c \in RecoveryCode /\ c \in row[u].recovery \ hashes
  BY <1>1, <1>8 DEF Row
<1>11. spent' \in [RecoveryCode -> Nat] /\ spent'[c] = spent[c] + 1
       /\ \A d \in RecoveryCode \ {c} : spent'[d] = spent[d]
  BY <1>1, <1>2, <1>10 DEF TypeOK
<1>12. TypeOK'
  BY <1>1, <1>7, <1>9, <1>11 DEF GiveRecovery, TypeOK
<1>13. Writes(p, u, hashes)
  BY <1>1, <1>4, <1>7, <1>8, <1>9 DEF Writes, KeepsCodes
<1>14. hashes \in SUBSET row[u].recovery
  BY <1>8
<1>15. Codes'
  <2> HIDE DEF u, hashes
  <2> QED
    BY <1>1, <1>10, <1>11, <1>12, <1>13, <1>14, HashesRemoved DEF Inv, GiveRecovery
<1> QED
  BY <1>1, <1>7, <1>9, <1>12, <1>15, SecondFactor DEF GiveRecovery

LEMMA DisableHolds ==
  ASSUME Inv, NEW p \in Proc, Disable(p)
  PROVE  Inv'
<1> DEFINE u == task[p].target
           new == [Read(p) EXCEPT !.enabled = FALSE, !.totp = None, !.recovery = {}]
<1>1. u \in User /\ Read(p) \in Row /\ TypeOK /\ Busy(p)
  BY BusyIsTask DEF Inv, Disable
<1>2. new \in Row /\ new.recovery = {} /\ new.role = Read(p).role
      /\ new.status = Read(p).status /\ new.url = Read(p).url /\ new.secret = Read(p).secret
  BY <1>1 DEF Row, None
<1>3. Save(u, Read(p), new) /\ ~Clashes(u, Read(p), new)
  BY DEF Disable
<1> HIDE DEF new
<1>4. /\ row' \in [User -> Row] /\ (\A v \in User \ {u} : row'[v] = row[v])
      /\ KeepsRank(u) /\ KeepsHook(u)
      /\ new.recovery = Read(p).recovery => KeepsCodes(u)
      /\ new.recovery # Read(p).recovery =>
           row'[u].recovery = new.recovery /\ row'[u].version = row[u].version + 1
  <2> HIDE DEF u
  <2>1. SavedAs(u, Read(p), new)
    BY <1>1, <1>2, <1>3, Saves
  <2> QED
    BY <1>1, <1>2, <1>3, <2>1 DEF SavedAs
<1>5. TypeOK'
  BY <1>1, <1>4, Returned DEF Disable, TypeOK
<1>6. \A q \in Proc : Quiet(q) /\ Carries(q)
  BY <1>1, EndsQuietly DEF Inv, Disable
<1>7. Codes'
  <2>1. CASE new.recovery = Read(p).recovery
    <3>1. \A v \in User : KeepsCodes(v)
      BY <1>4, <2>1 DEF KeepsCodes
    <3> QED
      BY <1>5, <1>6, <3>1, CodesStay DEF Inv, Disable
  <2>2. CASE new.recovery # Read(p).recovery
    <3>1. Read(p).version = row[u].version
      BY <1>3, <2>2 DEF Clashes
    <3>2. ~Busy(p)' /\ \A q \in Proc \ {p} : task'[q] = task[q]
      BY <1>1, Returned DEF Disable
    <3>3. Writes(p, u, {})
      BY <1>1, <1>2, <1>4, <2>2, <3>1, <3>2 DEF Writes, KeepsCodes
    <3>4. \A c \in RecoveryCode : spent'[c] = spent[c]
      BY DEF Disable
    <3>5. {} \in SUBSET row[u].recovery /\ requests' = requests
      BY DEF Disable
    <3> HIDE DEF u
    <3> QED
      BY <1>1, <1>5, <3>3, <3>4, <3>5, HashesRemoved DEF Inv
  <2> QED
    BY <2>1, <2>2
<1> QED
  BY <1>1, <1>4, <1>5, <1>6, <1>7, SecondFactor DEF Disable

-----------------------------------------------------------------------------
(* The webhook.                                                            *)

LEMMA PatchedRow ==
  ASSUME NEW old \in Row, NEW patch \in Patch, NEW n \in Nat \ {0}
  PROVE  /\ Patched(old, patch, n) \in Row
         /\ Patched(old, patch, n).recovery = old.recovery
         /\ Patched(old, patch, n).role = old.role
         /\ Patched(old, patch, n).status = old.status
         /\ Patched(old, patch, n).url # None => Patched(old, patch, n).secret # None
<1>1. CASE patch.url = "null"
  BY <1>1 DEF Patched, Row, None
<1>2. CASE patch.url # "null"
  <2> DEFINE url == IF patch.url = "new" THEN n ELSE old.url
             secret == IF patch.secret \/ (url # None /\ old.secret = None)
                       THEN n ELSE old.secret
  <2>1. Patched(old, patch, n) = [old EXCEPT !.url = url, !.secret = secret]
    BY <1>2 DEF Patched
  <2>2. url \in Nat /\ secret \in Nat /\ (url # None => secret # None)
    BY DEF Row, None
  <2> HIDE DEF url, secret
  <2> QED
    BY <2>1, <2>2 DEF Row
<1> QED
  BY <1>1, <1>2

LEMMA ApplyPatchHolds ==
  ASSUME Inv, NEW p \in Proc, ApplyPatch(p)
  PROVE  Inv'
<1> DEFINE u == task[p].target
<1>1. u \in User /\ Read(p) \in Row /\ TypeOK /\ Busy(p)
  BY BusyIsTask DEF Inv, ApplyPatch, Step
<1>2. task[p].made \in Nat \ {0}
  BY <1>1 DEF Inv, Codes, Distinct, TypeOK
<1>3. PICK patch \in Patch : Save(u, Read(p), Patched(Read(p), patch, task[p].made))
  BY DEF ApplyPatch
<1> DEFINE new == Patched(Read(p), patch, task[p].made)
<1>4. /\ new \in Row /\ new.recovery = Read(p).recovery /\ new.role = Read(p).role
      /\ new.status = Read(p).status
      /\ new.url # None => new.secret # None
  BY <1>1, <1>2, PatchedRow
<1>5. Save(u, Read(p), new)
  BY <1>3
<1> HIDE DEF new
<1>6. /\ row' \in [User -> Row] /\ (\A v \in User \ {u} : row'[v] = row[v])
      /\ KeepsRank(u) /\ KeepsCodes(u)
      /\ row'[u].url = IF new.url # Read(p).url THEN new.url ELSE row[u].url
      /\ row'[u].secret = IF new.secret # Read(p).secret THEN new.secret ELSE row[u].secret
  <2> HIDE DEF u
  <2>1. SavedAs(u, Read(p), new)
    BY <1>1, <1>4, <1>5, Saves
  <2> QED
    BY <1>1, <1>4, <1>5, <2>1 DEF SavedAs
<1>7. TypeOK'
  BY <1>1, <1>6, Returned DEF ApplyPatch, TypeOK
<1>8. \A q \in Proc : Quiet(q) /\ Carries(q)
  BY <1>1, EndsQuietly DEF Inv, ApplyPatch
<1>9. \A v \in User : KeepsCodes(v) /\ KeepsRank(v)
  BY <1>6 DEF KeepsCodes, KeepsRank
<1>10. Codes'
  BY <1>1, <1>7, <1>8, <1>9, CodesStay DEF Inv, ApplyPatch
<1>11. IssuedAlone' /\ KeysAreReplaced'
  BY <1>8, KeysStay DEF Inv, ApplyPatch
<1>12. AdminRemains'
  BY <1>9, RanksStay DEF Inv, ApplyPatch
<1>13. WebhookIsSigned'
  <2>1. CASE Hook(Read(p)) # Hook(row[u])
    BY <2>1 DEF ApplyPatch, WebhookIsSigned
  <2>2. CASE Hook(Read(p)) = Hook(row[u])
    <3>1. row'[u].url = new.url /\ row'[u].secret = new.secret
      BY <2>2, <1>6 DEF Hook
    <3>2. overtaken' = overtaken
      BY <2>2 DEF ApplyPatch
    <3> QED
      BY <1>4, <1>6, <3>1, <3>2 DEF Inv, WebhookIsSigned
  <2> QED
    BY <2>1, <2>2
<1> QED
  BY <1>7, <1>10, <1>11, <1>12, <1>13 DEF Inv

-----------------------------------------------------------------------------
(* The administrators.                                                     *)

LEMMA FindUserHolds ==
  ASSUME Inv, NEW p \in Proc, FindUser(p)
  PROVE  Inv'
<1>1. TypeOK /\ Busy(p) /\ task[p] \in Task
  BY BusyIsTask DEF Inv, FindUser, Step
<1>2. PICK t \in User :
        task' = [task EXCEPT ![p].step = "update", ![p].target = t, ![p].read = row[t]]
  BY DEF FindUser
<1> DEFINE r == [task[p] EXCEPT !.step = "update", !.target = t, !.read = row[t]]
<1>3. row[t] \in Row
  BY <1>1 DEF TypeOK
<1>4. /\ r \in Task /\ r.made = task[p].made /\ r.target = t /\ r.read = row[t]
      /\ r.step = "update"
  BY <1>1, <1>3 DEF Task
<1>5. task' = [task EXCEPT ![p] = r]
  BY <1>1, <1>2 DEF TypeOK
<1> HIDE DEF r
<1>6. task' \in [Proc -> Task \cup {Idle}] /\ task'[p] = r
      /\ \A q \in Proc \ {p} : task'[q] = task[q]
  BY <1>1, <1>4, <1>5, Became
<1>7. TypeOK'
  BY <1>1, <1>6 DEF FindUser, TypeOK
<1>8. \A q \in Proc : Carries(q)
  BY <1>1, <1>4, <1>6, BusyIsTask DEF Carries, Busy
<1>9. \A q \in Proc : Quiet(q)
  BY <1>4, <1>6 DEF Quiet, At, Inv, IssuedAlone
<1>10. \A v \in User : KeepsCodes(v) /\ KeepsRank(v) /\ KeepsHook(v)
  BY DEF FindUser, KeepsCodes, KeepsRank, KeepsHook
<1>11. Codes'
  BY <1>1, <1>7, <1>8, <1>10, CodesStay DEF Inv, FindUser
<1>12. row' = row /\ UNCHANGED <<key, overtaken>>
  BY DEF FindUser
<1> QED
  BY <1>7, <1>9, <1>10, <1>11, <1>12, t \in User, SecondFactor

LEMMA UpdateUserHolds ==
  ASSUME Inv, NEW p \in Proc, UpdateUser(p)
  PROVE  Inv'
<1> DEFINE u == task[p].target
<1>1. u \in User /\ Read(p) \in Row /\ TypeOK /\ Busy(p) /\ task[p].user \in User
  BY BusyIsTask DEF Inv, UpdateUser
<1>2. PICK change \in Change :
        /\ Allowed(task[p].user, u, change)
        /\ Save(u, Read(p),
               [Read(p) EXCEPT !.role = IF change.role = "same" THEN @ ELSE change.role,
                               !.status = IF change.status = "same" THEN @ ELSE change.status])
  BY DEF UpdateUser
<1> DEFINE role == IF change.role = "same" THEN Read(p).role ELSE change.role
           status == IF change.status = "same" THEN Read(p).status ELSE change.status
           new == [Read(p) EXCEPT !.role = role, !.status = status]
<1>3. Save(u, Read(p), new)
  BY <1>2
<1>4. role \in {"user", "admin"} /\ status \in {"active", "suspended"}
  BY <1>1, <1>2 DEF Change, Row
<1>5. /\ new \in Row /\ new.recovery = Read(p).recovery
      /\ new.role = role /\ new.status = status
      /\ new.url = Read(p).url /\ new.secret = Read(p).secret
  <2> HIDE DEF role, status
  <2> QED
    BY <1>1, <1>4 DEF Row
<1> HIDE DEF new
<1>6. /\ row' \in [User -> Row] /\ (\A v \in User \ {u} : row'[v] = row[v])
      /\ KeepsCodes(u) /\ KeepsHook(u)
      /\ row'[u].role = IF new.role # Read(p).role THEN new.role ELSE row[u].role
      /\ row'[u].status = IF new.status # Read(p).status THEN new.status ELSE row[u].status
  <2> HIDE DEF u, role, status
  <2>1. SavedAs(u, Read(p), new)
    BY <1>1, <1>3, <1>5, Saves
  <2> QED
    BY <1>1, <1>3, <1>5, <2>1 DEF SavedAs
<1>7. TypeOK'
  BY <1>1, <1>6, Returned DEF UpdateUser, TypeOK
<1>8. \A q \in Proc : Quiet(q) /\ Carries(q)
  BY <1>1, EndsQuietly DEF Inv, UpdateUser
<1>9. \A v \in User : KeepsCodes(v) /\ KeepsHook(v)
  BY <1>6 DEF KeepsCodes, KeepsHook
<1>10. Codes'
  BY <1>1, <1>7, <1>8, <1>9, CodesStay DEF Inv, UpdateUser
<1>11. IssuedAlone' /\ KeysAreReplaced'
  BY <1>8, KeysStay DEF Inv, UpdateUser
<1>12. WebhookIsSigned'
  BY <1>9, HooksStay DEF Inv, UpdateUser
<1>13. AdminRemains'
  <2> DEFINE a == task[p].user
  <2>1. CASE row[a].role # "admin" \/ row[a].status # "active"
    BY <2>1 DEF UpdateUser, AdminRemains
  <2>2. CASE row[a].role = "admin" /\ row[a].status = "active"
    <3>1. CASE a # u
      BY <1>1, <1>6, <2>2, <3>1 DEF AdminRemains
    <3>2. CASE a = u
      <4>1. change.role # "user" /\ change.status # "suspended"
        BY <1>2, <3>2 DEF Allowed
      <4>2. /\ change.role = "same" \/ change.role = "admin"
            /\ change.status = "same" \/ change.status = "active"
        BY <1>2, <4>1 DEF Change
      <4>3. row'[u].role = "admin" /\ row'[u].status = "active"
        BY <1>5, <1>6, <2>2, <3>2, <4>2
      <4> QED
        BY <1>1, <4>3 DEF AdminRemains
    <3> QED
      BY <3>1, <3>2
  <2> QED
    BY <2>1, <2>2
<1> QED
  BY <1>7, <1>10, <1>11, <1>12, <1>13 DEF Inv

-----------------------------------------------------------------------------
(* The API keys.                                                           *)

ApiKey == [owner: User, active: BOOLEAN, late: BOOLEAN]

(* A step of the keys touches no row.                                      *)
LEMMA KeyStep ==
  ASSUME Inv, TypeOK', IssuedAlone', KeysAreReplaced', \A q \in Proc : Carries(q),
         UNCHANGED <<row, requests, spent, overtaken>>
  PROVE  Inv'
<1>1. \A v \in User : KeepsCodes(v) /\ KeepsRank(v) /\ KeepsHook(v)
  BY DEF KeepsCodes, KeepsRank, KeepsHook
<1>2. Codes'
  BY <1>1, CodesStay DEF Inv
<1> QED
  BY <1>1, <1>2, RanksStay, HooksStay DEF Inv

LEMMA RevokeKeysHolds ==
  ASSUME Inv, NEW p \in Proc, RevokeKeys(p)
  PROVE  Inv'
<1>1. TypeOK /\ Busy(p) /\ key \in Seq(ApiKey)
  BY BusyIsTask DEF Inv, RevokeKeys, Step, TypeOK, ApiKey
<1>2. \A k \in DOMAIN key : key[k] \in ApiKey
  BY <1>1
<1>3. /\ DOMAIN key' = DOMAIN key
      /\ \A k \in DOMAIN key :
           /\ key'[k] \in ApiKey
           /\ key'[k].owner = key[k].owner /\ key'[k].late = key[k].late
           /\ key'[k].active <=> key[k].active /\ k \notin Mine(p)
  BY <1>2 DEF RevokeKeys, ApiKey
<1>4. key' \in Seq(ApiKey)
  <2>1. DOMAIN key = 1 .. Len(key) /\ Len(key) \in Nat
    BY <1>1
  <2>2. key' = [k \in 1 .. Len(key) |-> [key[k] EXCEPT !.active = @ /\ k \notin Mine(p)]]
    BY <2>1 DEF RevokeKeys
  <2>3. key' \in [1 .. Len(key) -> ApiKey]
    BY <1>3, <2>1, <2>2
  <2> QED
    BY <2>1, <2>3
<1> DEFINE Passed(q) == q # p /\ At(q, "issue") /\ task[q].user = task[p].user
<1>5. \A q \in Proc :
        /\ q = p => task'[q] = [task[q] EXCEPT !.step = "issue"]
        /\ Passed(q) => task'[q] = [task[q] EXCEPT !.late = TRUE]
        /\ q # p /\ ~Passed(q) => task'[q] = task[q]
  BY DEF RevokeKeys
<1>6. \A q \in Proc :
        /\ task'[q] \in Task \cup {Idle}
        /\ Busy(q)' <=> Busy(q)
        /\ Busy(q) => /\ task'[q].user = task[q].user /\ task'[q].target = task[q].target
                      /\ task'[q].made = task[q].made /\ task'[q].read = task[q].read
                      /\ task'[q].late = (task[q].late \/ Passed(q))
                      /\ task'[q].step = IF q = p THEN "issue" ELSE task[q].step
        /\ ~Busy(q) => task'[q] = Idle
  <2> SUFFICES ASSUME NEW q \in Proc
               PROVE  /\ task'[q] \in Task \cup {Idle}
                      /\ Busy(q)' <=> Busy(q)
                      /\ Busy(q) => /\ task'[q].user = task[q].user /\ task'[q].target = task[q].target
                                    /\ task'[q].made = task[q].made /\ task'[q].read = task[q].read
                                    /\ task'[q].late = (task[q].late \/ Passed(q))
                                    /\ task'[q].step = IF q = p THEN "issue" ELSE task[q].step
                      /\ ~Busy(q) => task'[q] = Idle
    OBVIOUS
  <2>1. CASE ~Busy(q)
    BY <1>1, <1>5, <2>1 DEF Busy, At, Idle
  <2>2. CASE Busy(q)
    <3>1. task[q] \in Task
      BY <1>1, <2>2, BusyIsTask
    <3>2. \A t \in Task : t # Idle
      BY DEF Task, Idle, Step
    <3>3. CASE q = p
      <4>1. task'[q] = [task[q] EXCEPT !.step = "issue"] /\ ~Passed(q)
        BY <1>5, <3>3
      <4> HIDE DEF Passed
      <4> QED
        BY <2>2, <3>1, <3>2, <3>3, <4>1 DEF Task, Busy
    <3>4. CASE Passed(q)
      <4>1. task'[q] = [task[q] EXCEPT !.late = TRUE] /\ q # p
        BY <1>5, <3>4
      <4> HIDE DEF Passed
      <4> QED
        BY <2>2, <3>1, <3>2, <3>4, <4>1 DEF Task, Busy
    <3>5. CASE q # p /\ ~Passed(q)
      <4>1. task'[q] = task[q]
        BY <1>5, <3>5
      <4> HIDE DEF Passed
      <4> QED
        BY <2>2, <3>1, <3>5, <4>1 DEF Task, Busy
    <3> QED
      BY <3>3, <3>4, <3>5
  <2> QED
    BY <2>1, <2>2
<1>7. task' \in [Proc -> Task \cup {Idle}]
  BY <1>6 DEF RevokeKeys
<1>8. TypeOK'
  BY <1>1, <1>4, <1>7 DEF RevokeKeys, TypeOK, ApiKey
<1>9. \A q \in Proc : Carries(q)
  BY <1>1, <1>6, BusyIsTask DEF Carries, Read
<1>10. \A q \in Proc :
         /\ At(q, "key")' => q # p /\ At(q, "key") /\ Busy(q) /\ ~Passed(q)
         /\ At(q, "issue")' => Busy(q) /\ (q = p \/ At(q, "issue"))
  BY <1>1, <1>6 DEF At, Busy, Idle
<1>11. ~task[p].late /\ At(p, "key")
  BY DEF RevokeKeys, Inv, IssuedAlone
<1>12. \A q \in Proc : Busy(q) => Mine(q)' = Mine(q)
  BY <1>3, <1>6 DEF Mine
<1>13. IssuedAlone'
  <2> SUFFICES ASSUME NEW q \in Proc
               PROVE  /\ At(q, "key")' => ~task'[q].late
                      /\ At(q, "issue")' /\ ~task'[q].late =>
                           /\ \A k \in Mine(q)' : key'[k].active => key'[k].late
                           /\ \A o \in Proc \ {q} :
                                At(o, "issue")' /\ task'[o].user = task'[q].user => task'[o].late
    BY DEF IssuedAlone
  <2>1. At(q, "key")' => ~task'[q].late
    BY <1>6, <1>10 DEF Inv, IssuedAlone
  <2>2. ASSUME At(q, "issue")', ~task'[q].late
        PROVE  /\ \A k \in Mine(q)' : key'[k].active => key'[k].late
               /\ \A o \in Proc \ {q} :
                    At(o, "issue")' /\ task'[o].user = task'[q].user => task'[o].late
    <3>1. Busy(q) /\ ~Passed(q) /\ ~task[q].late
      BY <1>6, <1>10, <2>2
    <3>2. CASE q = p
      <4>1. \A k \in Mine(q)' : ~key'[k].active
        BY <1>3, <1>12, <3>1, <3>2 DEF Mine
      <4>2. \A o \in Proc \ {q} :
              At(o, "issue")' /\ task'[o].user = task'[q].user => Passed(o) /\ Busy(o)
        BY <1>6, <1>10, <3>1, <3>2
      <4> QED
        BY <1>6, <4>1, <4>2
    <3>3. CASE q # p
      <4>1. At(q, "issue") /\ task[q].user # task[p].user
        BY <1>10, <2>2, <3>1, <3>3
      <4>2. \A k \in Mine(q)' : key'[k].active => key'[k].late
        BY <1>3, <1>12, <3>1, <4>1 DEF Inv, IssuedAlone, Mine
      <4>3. \A o \in Proc \ {q} :
              At(o, "issue")' /\ task'[o].user = task'[q].user => task'[o].late
        BY <1>1, <1>6, <1>10, <3>1, <4>1, ZenonT(60) DEF Inv, IssuedAlone
      <4> QED
        BY <4>2, <4>3
    <3> QED
      BY <3>2, <3>3
  <2> QED
    BY <2>1, <2>2
<1>14. KeysAreReplaced'
  BY <1>3 DEF Inv, KeysAreReplaced
<1>15. UNCHANGED <<row, requests, spent, overtaken>>
  BY DEF RevokeKeys
<1> QED
  BY <1>8, <1>9, <1>13, <1>14, <1>15, KeyStep

LEMMA IssueKeyHolds ==
  ASSUME Inv, NEW p \in Proc, IssueKey(p)
  PROVE  Inv'
<1> DEFINE new == [owner |-> task[p].user, active |-> TRUE, late |-> task[p].late]
<1>1. TypeOK /\ Busy(p) /\ key \in Seq(ApiKey) /\ new \in ApiKey /\ At(p, "issue")
  BY BusyIsTask DEF Inv, IssueKey, TypeOK, ApiKey
<1>2. key' = Append(key, new)
  BY DEF IssueKey
<1>3. new.owner = task[p].user /\ new.active = TRUE /\ new.late = task[p].late
  OBVIOUS
<1> HIDE DEF new
<1>4. /\ key' \in Seq(ApiKey) /\ Len(key') = Len(key) + 1 /\ Len(key) \in Nat
      /\ \A k \in DOMAIN key : key'[k] = key[k]
      /\ DOMAIN key = 1 .. Len(key) /\ DOMAIN key' = 1 .. Len(key) + 1
      /\ key'[Len(key) + 1] = new
  BY <1>1, <1>2
<1>5. \A k \in DOMAIN key' : k \in DOMAIN key \/ key'[k] = new
  BY <1>4
<1>6. TypeOK'
  BY <1>1, <1>4, Returned DEF IssueKey, TypeOK, ApiKey
<1>7. \A q \in Proc : Quiet(q) /\ Carries(q)
  BY <1>1, EndsQuietly DEF Inv, IssueKey
<1>8. ~Busy(p)' /\ \A q \in Proc \ {p} : task'[q] = task[q]
  BY <1>1, Returned DEF IssueKey
<1>9. IssuedAlone'
  <2> SUFFICES ASSUME NEW q \in Proc, At(q, "issue")', ~task'[q].late
               PROVE  /\ \A k \in Mine(q)' : key'[k].active => key'[k].late
                      /\ \A o \in Proc \ {q} :
                           At(o, "issue")' /\ task'[o].user = task'[q].user => task'[o].late
    BY <1>7 DEF IssuedAlone, Quiet
  <2>1. q # p /\ task'[q] = task[q] /\ At(q, "issue") /\ ~task[q].late
    BY <1>8 DEF Busy, At, Idle
  <2>2. \A o \in Proc \ {q} :
          At(o, "issue")' /\ task'[o].user = task'[q].user => task'[o].late
    BY <1>7, <2>1 DEF Quiet, Inv, IssuedAlone
  <2>3. ASSUME NEW k \in DOMAIN key', key'[k].owner = task[q].user, key'[k].active
        PROVE  key'[k].late
    <3>1. CASE k \in DOMAIN key
      BY <1>4, <2>1, <2>3, <3>1 DEF Inv, IssuedAlone, Mine
    <3>2. CASE key'[k] = new
      BY <1>1, <1>3, <2>1, <2>3, <3>2 DEF Inv, IssuedAlone
    <3> QED
      BY <1>5, <3>1, <3>2
  <2> QED
    BY <2>1, <2>2, <2>3 DEF Mine
<1>10. KeysAreReplaced'
  <2>1. \A k \in DOMAIN key :
          key[k].active /\ key[k].owner = new.owner => key[k].late \/ new.late
    BY <1>1, <1>3 DEF Inv, IssuedAlone, Mine
  <2>2. \A j, k \in DOMAIN key' :
          j # k => \/ j \in DOMAIN key /\ k \in DOMAIN key
                   \/ j \in DOMAIN key /\ key'[k] = new
                   \/ k \in DOMAIN key /\ key'[j] = new
    BY <1>4
  <2> QED
    BY <1>4, <2>1, <2>2 DEF Inv, KeysAreReplaced
<1>11. UNCHANGED <<row, requests, spent, overtaken>>
  BY DEF IssueKey
<1> QED
  BY <1>6, <1>7, <1>9, <1>10, <1>11, KeyStep

LEMMA RevokeKeyHolds ==
  ASSUME Inv, NEW p \in Proc, RevokeKey(p)
  PROVE  Inv'
<1>1. TypeOK /\ Busy(p) /\ key \in Seq(ApiKey)
  BY BusyIsTask DEF Inv, RevokeKey, Step, TypeOK, ApiKey
<1>2. PICK k \in Mine(p) : key' = [key EXCEPT ![k].active = FALSE]
  BY DEF RevokeKey
<1>3. k \in DOMAIN key /\ key[k] \in ApiKey
  BY <1>1 DEF Mine
<1>4. /\ DOMAIN key' = DOMAIN key /\ ~key'[k].active /\ key'[k] \in ApiKey
      /\ key'[k].owner = key[k].owner /\ key'[k].late = key[k].late
      /\ \A j \in DOMAIN key \ {k} : key'[j] = key[j]
  BY <1>1, <1>2, <1>3 DEF ApiKey
<1>5. key' \in Seq(ApiKey)
  BY <1>1, <1>2, <1>3, <1>4
<1>6. TypeOK'
  BY <1>1, <1>5, Returned DEF RevokeKey, TypeOK, ApiKey
<1>7. \A q \in Proc : Quiet(q) /\ Carries(q)
  BY <1>1, EndsQuietly DEF Inv, RevokeKey
<1>8. IssuedAlone'
  BY <1>4, <1>7 DEF Inv, IssuedAlone, Quiet, Mine
<1>9. KeysAreReplaced'
  BY <1>4 DEF Inv, KeysAreReplaced
<1>10. UNCHANGED <<row, requests, spent, overtaken>>
  BY DEF RevokeKey
<1> QED
  BY <1>6, <1>7, <1>8, <1>9, <1>10, KeyStep

-----------------------------------------------------------------------------
(* All together.                                                           *)

LEMMA InitHolds ==
  ASSUME Init
  PROVE  Inv
<1>1. row \in [User -> Row] /\ {1} \X Code \subseteq RecoveryCode
  BY BoundAssumption DEF Init, Row, RecoveryCode, None
<1>2. TypeOK
  <2>1. key \in Seq([owner: User, active: BOOLEAN, late: BOOLEAN])
    BY DEF Init
  <2> QED
    BY <1>1, <2>1, BoundAssumption DEF Init, TypeOK
<1>3. \A p \in Proc : ~Busy(p)
  BY DEF Init, Busy
<1>4. \A u \in User : row[u].recovery \subseteq {1} \X Code
  BY DEF Init
<1>5. OneHolder
  <2>1. PICK u \in User : \A v \in User \ {u} : ~row[v].enabled
    BY DEF Init
  <2>2. \A v \in User \ {u} : row[v].recovery = {}
    BY <2>1 DEF Init
  <2> QED
    BY <2>2 DEF OneHolder
<1>6. NotYet
  <2>1. \A c \in RecoveryCode : Held(c) => c[1] = 1
    BY <1>4 DEF Held
  <2> QED
    BY <1>3, <2>1, BoundAssumption DEF NotYet, Unmade, Init
<1>7. RecoveryCodeOnce
  BY <1>2, OnceHeld DEF Init
<1>8. Codes
  BY <1>3, <1>5, <1>6, <1>7 DEF Codes, ReadIsOlder, Distinct
<1>9. AdminRemains
  BY DEF Init, AdminRemains
<1>10. WebhookIsSigned
  BY DEF Init, WebhookIsSigned
<1>11. IssuedAlone
  BY <1>3 DEF IssuedAlone, Busy, At, Init, Idle
<1>12. KeysAreReplaced
  BY DEF Init, KeysAreReplaced
<1> QED
  BY <1>2, <1>8, <1>9, <1>10, <1>11, <1>12 DEF Inv

LEMMA NextHolds ==
  ASSUME Inv, [Next]_vars
  PROVE  Inv'
<1>1. CASE UNCHANGED vars
  BY <1>1 DEF vars, Inv, TypeOK, Codes, ReadIsOlder, Distinct, NotYet, Unmade, Held, Busy,
     OneHolder, RecoveryCodeOnce, AdminRemains, WebhookIsSigned, IssuedAlone,
     KeysAreReplaced, Mine, At, Read
<1>2. ASSUME NEW p \in Proc, Fail(p)
      PROVE  Inv'
  BY <1>2, Ended DEF Fail
<1> QED
  BY <1>1, <1>2, BeginHolds, SetupHolds, EnableHolds, GiveTotpHolds, GiveRecoveryHolds,
     DisableHolds, ApplyPatchHolds, RevokeKeysHolds, IssueKeyHolds, RevokeKeyHolds,
     FindUserHolds, UpdateUserHolds DEF Next

(* The invariant, of which the theorems below are parts.                   *)
LEMMA Invariance == Spec => []Inv
<1>1. Init => Inv
  BY InitHolds
<1>2. Inv /\ [Next]_vars => Inv'
  BY NextHolds
<1> QED
  BY <1>1, <1>2, PTL DEF Spec

(* A row is a User document, a key an ApiKey document, and a request knows *)
(* whose row it has read and what number it gives to what it makes.        *)
THEOREM TypeCorrect == Spec => []TypeOK
<1>1. Inv => TypeOK
  BY DEF Inv
<1> QED
  BY <1>1, Invariance, PTL

(* auth.service.ts:301-312: a recovery code is accepted once, however many *)
(* requests give it at the same time, and whatever else they save.         *)
THEOREM CodesAreSpentOnce == Spec => []RecoveryCodeOnce
<1>1. Inv => RecoveryCodeOnce
  BY DEF Inv, Codes
<1> QED
  BY <1>1, Invariance, PTL

(* users.service.ts:92-103: of the administrators one remains, if each was *)
(* one still when the edit he asked for was saved.                         *)
THEOREM AnAdminRemains == Spec => []AdminRemains
<1>1. Inv => AdminRemains
  BY DEF Inv
<1> QED
  BY <1>1, Invariance, PTL

(* apikeys.service.ts:17-22: an account has one active key, and more only  *)
(* where it asked for another before the last one was issued.              *)
THEOREM OneActiveKey == Spec => []KeysAreReplaced
<1>1. Inv => KeysAreReplaced
  BY DEF Inv
<1> QED
  BY <1>1, Invariance, PTL

(* webhooks.ts:209-216: a configured webhook is signed, whichever patches  *)
(* are sent one after the other.                                           *)
THEOREM SignedWebhooks == Spec => []WebhookIsSigned
<1>1. Inv => WebhookIsSigned
  BY DEF Inv
<1> QED
  BY <1>1, Invariance, PTL
=============================================================================
