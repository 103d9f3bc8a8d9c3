--------------------------- MODULE SessionsProofs ---------------------------
(***************************************************************************)
(* Proofs about Sessions, for every number of browsers, requests,          *)
(* passwords, tokens and links: the type invariant, that a change of       *)
(* password ends every session, and that refreshing does not.              *)
(*                                                                         *)
(* The first follows from what a request proved when it began              *)
(* (ProvedLatest): its password is still the account's, or a revocation    *)
(* that will find its session is due, or it was overtaken.  The second     *)
(* says where the tokens of a family nobody has troubled are: in one       *)
(* cookie, with one request, or in a cookie the one request refreshes.     *)
(***************************************************************************)
EXTENDS Sessions, TLAPS

Busy(p) == task[p] # Idle

-----------------------------------------------------------------------------
(* Passwords.                                                              *)

(* The revocation after a change of password is due, or was cut short.     *)
Due == owed \/ \E p \in Proc : At(p, "revoke")

ProvedLatest ==
  \A p \in Proc :
    /\ At(p, "revoke") \/ At(p, "issue") =>
         task[p].late \/ task[p].password = password
    /\ At(p, "mint") =>
         \/ task[p].late \/ token[task[p].old].late \/ Due
         \/ token[task[p].old].password = password

LiveIsLatest ==
  \A t \in DOMAIN token :
    Live(t) => token[t].password = password \/ token[t].late \/ Due

-----------------------------------------------------------------------------
(* Families.                                                               *)

(* Requests that hold tokens of a family: to refresh, or to answer with.   *)
Carrier(p) == Busy(p) /\ task[p].step \in {"mint", "retire", "nuke", "answer"}
Fam(p) == token[IF task[p].old # 0 THEN task[p].old ELSE task[p].new].family
JarFam(b) == token[jar[b]].family

(* What a request holds at which step.                                     *)
Holds ==
  \A p \in Proc :
    /\ At(p, "mint") \/ At(p, "nuke") => task[p].old # 0 /\ task[p].new = 0
    /\ At(p, "retire") => task[p].old # 0
    /\ At(p, "retire") \/ At(p, "answer") =>
         /\ task[p].new # 0
         /\ task[p].old # 0 =>
              /\ task[p].new # task[p].old
              /\ token[task[p].new].family = token[task[p].old].family
    /\ Busy(p) /\ ~Carrier(p) => task[p].old = 0 /\ task[p].new = 0

ReuseIsTrouble == \A p \in Proc : At(p, "nuke") => Fam(p) \in troubled

CarriedAlone ==
  \A p, q \in Proc :
    p # q /\ Carrier(p) /\ Carrier(q) /\ Fam(p) = Fam(q) => Fam(p) \in troubled

JarsApart ==
  \A b, c \in Browser :
    b # c /\ jar[b] # 0 /\ jar[c] # 0 /\ JarFam(b) = JarFam(c) => JarFam(b) \in troubled

(* A request and a cookie with tokens of one family: it refreshes that one.*)
CarriedFromJar ==
  \A p \in Proc, b \in Browser :
    Carrier(p) /\ jar[b] # 0 /\ JarFam(b) = Fam(p) /\ Fam(p) \notin troubled =>
      task[p].old = jar[b] /\ task[p].browser = b

CarriedLive ==
  \A p \in Proc : Carrier(p) /\ Fam(p) \notin troubled =>
    /\ task[p].new # 0 => Live(task[p].new)
    /\ At(p, "mint") \/ At(p, "retire") => Live(task[p].old)

JarLive ==
  \A b \in Browser :
    /\ jar[b] # 0 /\ JarFam(b) \notin troubled
    /\ \A p \in Proc : ~(Carrier(p) /\ Fam(p) = JarFam(b))
    => Live(jar[b])

Kept ==
  /\ Holds
  /\ ReuseIsTrouble
  /\ CarriedAlone
  /\ JarsApart
  /\ CarriedFromJar
  /\ CarriedLive
  /\ JarLive

Inv ==
  /\ TypeOK
  /\ ProvedLatest
  /\ LiveIsLatest
  /\ Kept

-----------------------------------------------------------------------------
(* Types, part by part.                                                    *)

Fits(r) ==
  /\ r.old \in 0 .. Len(token) /\ r.new \in 0 .. Len(token)
  /\ r.link \in 0 .. Len(link)
  /\ r.step \in {"mint", "retire", "nuke"} => r.old # 0
  /\ r.step = "consume" => r.link # 0
  /\ r.step \notin {"unlink", "link"} => r.browser \in Browser

TokensOK ==
  /\ token \in Seq(RefreshToken)
  /\ \A t \in DOMAIN token : /\ token[t].replacedBy \in 0 .. Len(token)
                             /\ token[t].family \in 1 .. t

TasksOK ==
  /\ task \in [Proc -> Request \cup {Idle}]
  /\ \A p \in Proc : Busy(p) => Fits(task[p])

RestOK ==
  /\ password \in Nat \ {0} /\ link \in Seq(LinkState)
  /\ jar \in [Browser -> 0 .. Len(token)]
  /\ owed \in BOOLEAN /\ troubled \subseteq Families

LEMMA TypeParts == TypeOK <=> TokensOK /\ TasksOK /\ RestOK
BY DEF TypeOK, TokensOK, TasksOK, RestOK, Fits, Busy

LEMMA TypePartsNext == TypeOK' <=> TokensOK' /\ TasksOK' /\ RestOK'
BY DEF TypeOK, TokensOK, TasksOK, RestOK, Fits, Busy

LEMMA RequestIsBusy == \A r \in Request : r # Idle
BY DEF Request, Idle, Step

LEMMA BusyIsRequest ==
  ASSUME TypeOK, NEW p \in Proc
  PROVE  /\ Busy(p) => /\ task[p] \in Request /\ Fits(task[p])
                       /\ task[p].old \in Nat /\ task[p].new \in Nat /\ task[p].link \in Nat
                       /\ task[p].password \in Nat /\ task[p].late \in BOOLEAN
                       /\ task[p].step \in Step
         /\ \A s \in Step : At(p, s) => Busy(p)
BY TypeParts DEF TasksOK, Busy, Request, Idle, At, Step

LEMMA TokenIsToken ==
  ASSUME TypeOK
  PROVE  /\ Len(token) \in Nat /\ DOMAIN token = 1 .. Len(token)
         /\ \A t \in 1 .. Len(token) :
              /\ token[t] \in RefreshToken /\ token[t].family \in Nat \ {0}
              /\ token[t].family \in Families /\ token[t].revoked \in BOOLEAN
              /\ token[t].late \in BOOLEAN /\ token[t].family <= t
<1>1. TokensOK
  BY TypeParts
<1>2. Len(token) \in Nat /\ DOMAIN token = 1 .. Len(token)
  BY <1>1 DEF TokensOK
<1>3. \A t \in 1 .. Len(token) : token[t] \in RefreshToken
  BY <1>1, <1>2 DEF TokensOK
<1>4. \A t \in 1 .. Len(token) : token[t].family \in Families
  BY <1>2 DEF Families
<1>5. \A t \in 1 .. Len(token) : token[t].family \in 1 .. t
  BY <1>1, <1>2 DEF TokensOK
<1> QED
  BY <1>2, <1>3, <1>4, <1>5 DEF RefreshToken

(* How the tasks move.                                                     *)
LEMMA Became ==
  ASSUME TypeOK, NEW p \in Proc, NEW r \in Request \cup {Idle}, task' = [task EXCEPT ![p] = r]
  PROVE  /\ task' \in [Proc -> Request \cup {Idle}]
         /\ task'[p] = r /\ \A q \in Proc \ {p} : task'[q] = task[q]
BY TypeParts DEF TasksOK

LEMMA BecameLate ==
  ASSUME TypeOK, NEW p \in Proc, NEW r \in Request, task' = Overtaking(p, r)
  PROVE  /\ task' \in [Proc -> Request \cup {Idle}]
         /\ task'[p] = r
         /\ \A q \in Proc \ {p} :
              /\ Busy(q)' <=> Busy(q)
              /\ Busy(q) => /\ task'[q].step = task[q].step /\ task'[q].browser = task[q].browser
                            /\ task'[q].old = task[q].old /\ task'[q].new = task[q].new
                            /\ task'[q].link = task[q].link /\ task'[q].password = task[q].password
                            /\ task[q].step \in {"revoke", "issue", "mint"} => task'[q].late
<1>1. \A q \in Proc \ {p} :
        /\ task[q].step \in {"revoke", "issue", "mint"} => task'[q] = [task[q] EXCEPT !.late = TRUE]
        /\ task[q].step \notin {"revoke", "issue", "mint"} => task'[q] = task[q]
  BY DEF Overtaking
<1>2. task'[p] = r
  BY DEF Overtaking
<1>3. ASSUME NEW q \in Proc \ {p}
      PROVE  /\ task'[q] \in Request \cup {Idle}
             /\ Busy(q)' <=> Busy(q)
             /\ Busy(q) => /\ task'[q].step = task[q].step /\ task'[q].browser = task[q].browser
                           /\ task'[q].old = task[q].old /\ task'[q].new = task[q].new
                           /\ task'[q].link = task[q].link /\ task'[q].password = task[q].password
                           /\ task[q].step \in {"revoke", "issue", "mint"} => task'[q].late
  <2>1. CASE ~Busy(q)
    BY <1>1, <2>1 DEF Busy, Idle
  <2>2. CASE Busy(q) /\ task[q].step \in {"revoke", "issue", "mint"}
    <3>1. task[q] \in Request /\ task'[q] = [task[q] EXCEPT !.late = TRUE]
      BY <1>1, <2>2, BusyIsRequest
    <3> QED
      BY <2>2, <3>1, RequestIsBusy DEF Request, Busy
  <2>3. CASE Busy(q) /\ task[q].step \notin {"revoke", "issue", "mint"}
    BY <1>1, <2>3, BusyIsRequest DEF Busy
  <2> QED
    BY <2>1, <2>2, <2>3
<1>4. task' \in [Proc -> Request \cup {Idle}]
  BY <1>2, <1>3 DEF Overtaking
<1> QED
  BY <1>2, <1>3, <1>4

-----------------------------------------------------------------------------
(* Steps at which nothing happens to the families that are not troubled.   *)

SameCarrier(q) ==
  /\ Carrier(q) /\ task'[q].step = task[q].step /\ task'[q].browser = task[q].browser
  /\ task'[q].old = task[q].old /\ task'[q].new = task[q].new

(* A token stays in its family, and good unless that is troubled.          *)
TokenStays(t) ==
  /\ t \in DOMAIN token' /\ token'[t].family = token[t].family
  /\ Live(t) /\ token[t].family \notin troubled' => ~token'[t].revoked

LEMMA CarrierHolds ==
  ASSUME TypeOK, Holds, NEW p \in Proc, Carrier(p)
  PROVE  /\ task[p].old # 0 => task[p].old \in DOMAIN token /\ Fam(p) = token[task[p].old].family
         /\ task[p].new # 0 => task[p].new \in DOMAIN token /\ Fam(p) = token[task[p].new].family
         /\ task[p].old # 0 \/ task[p].new # 0
         /\ Fam(p) \in Families
<1>1. /\ task[p].old \in 0 .. Len(token) /\ task[p].new \in 0 .. Len(token)
      /\ Busy(p) /\ Len(token) \in Nat
  BY BusyIsRequest, TokenIsToken DEF Fits, Carrier
<1>2. /\ At(p, "mint") \/ At(p, "nuke") => task[p].old # 0 /\ task[p].new = 0
      /\ At(p, "retire") => task[p].old # 0
      /\ At(p, "retire") \/ At(p, "answer") =>
           /\ task[p].new # 0
           /\ task[p].old # 0 => token[task[p].new].family = token[task[p].old].family
  BY DEF Holds
<1>3. At(p, "mint") \/ At(p, "nuke") \/ At(p, "retire") \/ At(p, "answer")
  BY DEF Carrier, At
<1>4. /\ task[p].old # 0 => task[p].old \in DOMAIN token
      /\ task[p].new # 0 => task[p].new \in DOMAIN token
  BY <1>1, TokenIsToken
<1> QED
  BY <1>2, <1>3, <1>4 DEF Fam, Families

LEMMA JarHolds ==
  ASSUME TypeOK, NEW b \in Browser, jar[b] # 0
  PROVE  jar[b] \in DOMAIN token /\ JarFam(b) \in Families
<1>1. jar[b] \in 0 .. Len(token) /\ DOMAIN token = 1 .. Len(token) /\ Len(token) \in Nat
  BY TypeParts, TokenIsToken DEF RestOK
<1> QED
  BY <1>1 DEF JarFam, Families

LEMMA FamiliesStay ==
  ASSUME TypeOK, TypeOK', Kept, Holds', troubled \subseteq troubled',
         \A b \in Browser : jar'[b] \in {jar[b], 0},
         \A t \in DOMAIN token : TokenStays(t),
         \A q \in Proc : Carrier(q)' => SameCarrier(q),
         \A q \in Proc : Carrier(q) /\ ~Carrier(q)' /\ task[q].old # 0 =>
           Fam(q) \in troubled' \/ Live(task[q].old)
  PROVE  Kept'
<1>1. \A q \in Proc : Carrier(q)' => Fam(q)' = Fam(q)
  <2> SUFFICES ASSUME NEW q \in Proc, Carrier(q)'
               PROVE  Fam(q)' = Fam(q)
    OBVIOUS
  <2>1. SameCarrier(q)
    OBVIOUS
  <2>2. (IF task[q].old # 0 THEN task[q].old ELSE task[q].new) \in DOMAIN token
    BY <2>1, CarrierHolds DEF Kept, SameCarrier
  <2> QED
    BY <2>1, <2>2 DEF Fam, SameCarrier, TokenStays
<1>2. \A b \in Browser : jar'[b] # 0 =>
        jar'[b] = jar[b] /\ jar[b] \in DOMAIN token /\ JarFam(b)' = JarFam(b)
  BY JarHolds DEF JarFam, TokenStays
<1>3. ReuseIsTrouble'
  BY <1>1, RequestIsBusy, BusyIsRequest DEF Kept, ReuseIsTrouble, SameCarrier, Carrier, Busy, At, Idle
<1>4. CarriedAlone'
  BY <1>1 DEF Kept, CarriedAlone, SameCarrier
<1>5. JarsApart'
  BY <1>2 DEF Kept, JarsApart
<1>6. CarriedFromJar'
  BY <1>1, <1>2 DEF Kept, CarriedFromJar, SameCarrier
<1>7. CarriedLive'
  <2> SUFFICES ASSUME NEW q \in Proc, Carrier(q)', Fam(q)' \notin troubled'
               PROVE  /\ task'[q].new # 0 => ~token'[task'[q].new].revoked
                      /\ task'[q].step \in {"mint", "retire"} => ~token'[task'[q].old].revoked
    BY DEF CarriedLive, Live, At
  <2>1. SameCarrier(q) /\ Fam(q) \notin troubled'
    BY <1>1
  <2>2. /\ task[q].new # 0 => Live(task[q].new)
        /\ task[q].step \in {"mint", "retire"} => Live(task[q].old) /\ task[q].old # 0
    BY <2>1 DEF Kept, CarriedLive, SameCarrier, Holds, At
  <2>3. /\ task[q].old # 0 => task[q].old \in DOMAIN token /\ Fam(q) = token[task[q].old].family
        /\ task[q].new # 0 => task[q].new \in DOMAIN token /\ Fam(q) = token[task[q].new].family
    BY <2>1, CarrierHolds DEF Kept, SameCarrier
  <2>4. /\ task[q].new # 0 => ~token'[task[q].new].revoked
        /\ task[q].step \in {"mint", "retire"} => ~token'[task[q].old].revoked
    BY <2>1, <2>2, <2>3 DEF TokenStays
  <2>5. task'[q].new = task[q].new /\ task'[q].old = task[q].old /\ task'[q].step = task[q].step
    BY <2>1 DEF SameCarrier
  <2> QED
    BY <2>4, <2>5
<1>8. JarLive'
  <2> SUFFICES ASSUME NEW b \in Browser, jar'[b] # 0, JarFam(b) \notin troubled',
                      \A q \in Proc : ~(Carrier(q)' /\ Fam(q)' = JarFam(b))
               PROVE  ~token'[jar[b]].revoked
    BY <1>2 DEF JarLive, Live
  <2>1. CASE \A q \in Proc : ~(Carrier(q) /\ Fam(q) = JarFam(b))
    <3>1. Live(jar[b])
      BY <2>1 DEF Kept, JarLive
    <3> QED
      BY <1>2, <3>1 DEF TokenStays, JarFam
  <2>2. CASE \E q \in Proc : Carrier(q) /\ Fam(q) = JarFam(b)
    <3>1. PICK q \in Proc : Carrier(q) /\ Fam(q) = JarFam(b)
      BY <2>2
    <3>2. ~Carrier(q)'
      BY <1>1, <3>1
    <3>3. task[q].old = jar[b]
      BY <3>1 DEF Kept, CarriedFromJar
    <3>4. Live(jar[b])
      BY <3>1, <3>2, <3>3
    <3> QED
      BY <1>2, <3>4 DEF TokenStays, JarFam
  <2> QED
    BY <2>1, <2>2
<1> QED
  BY <1>3, <1>4, <1>5, <1>6, <1>7, <1>8 DEF Kept

LEMMA CarrierSteps ==
  ASSUME TypeOK, NEW p \in Proc
  PROVE  /\ Carrier(p) <=> \/ At(p, "mint") \/ At(p, "retire") \/ At(p, "nuke") \/ At(p, "answer")
         /\ At(p, "idle") <=> ~Busy(p)
BY BusyIsRequest DEF Carrier, At, Busy, Idle, Step

(* A step that writes links at most.                                       *)
LEMMA PlainStep ==
  ASSUME Inv, NEW p \in Proc,
         UNCHANGED <<password, token, jar, owed, troubled>>,
         link' \in Seq(LinkState), Len(link') >= Len(link),
         task' \in [Proc -> Request \cup {Idle}],
         \A q \in Proc \ {p} : task'[q] = task[q],
         ~Carrier(p), ~At(p, "revoke"),
         Busy(p)' => /\ Fits(task[p])'
                     /\ task'[p].old = 0 /\ task'[p].new = 0
                     /\ task'[p].step \in {"unlink", "link", "consume", "password", "issue"}
                     /\ task'[p].step = "issue" => task'[p].password = password
  PROVE  Inv'
<1>1. TypeOK /\ TokensOK /\ TasksOK /\ RestOK
  BY TypeParts DEF Inv
<1>2. TasksOK'
  <2>1. \A q \in Proc \ {p} : Busy(q)' => Fits(task[q])'
    BY <1>1 DEF TasksOK, Busy, Fits, RestOK
  <2> QED
    BY <2>1 DEF TasksOK
<1>3. TypeOK'
  BY <1>1, <1>2, TypePartsNext DEF TokensOK, RestOK, Families
<1>4. \A q \in Proc \ {p}, s \in Step : At(q, s)' <=> At(q, s)
  BY DEF At
<1>5. ~Carrier(p)' /\ ~At(p, "revoke")' /\ ~At(p, "mint")'
  BY DEF Carrier, At, Busy, Idle
<1>6. Due' <=> Due
  BY <1>4, <1>5 DEF Due, Step
<1>7. ProvedLatest'
  BY <1>4, <1>5, <1>6 DEF Inv, ProvedLatest, Step, At, Busy, Idle
<1>8. LiveIsLatest'
  BY <1>6 DEF Inv, LiveIsLatest, Live
<1>9. Holds'
  <2>1. \A q \in Proc \ {p} : Carrier(q)' = Carrier(q) /\ Busy(q)' = Busy(q)
    BY DEF Carrier, Busy
  <2>2. Busy(p)' /\ ~Carrier(p)' => task'[p].old = 0 /\ task'[p].new = 0
    OBVIOUS
  <2>3. /\ ~At(p, "mint")' /\ ~At(p, "nuke")' /\ ~At(p, "retire")' /\ ~At(p, "answer")'
    BY DEF At, Busy, Idle
  <2> QED
    BY <2>1, <2>2, <2>3, <1>4 DEF Inv, Kept, Holds, Step
<1>10. \A q \in Proc : Carrier(q)' => SameCarrier(q)
  BY <1>5 DEF SameCarrier, Carrier, Busy
<1>11. \A q \in Proc : Carrier(q) => Carrier(q)'
  BY DEF Carrier, Busy
<1>12. \A t \in DOMAIN token : TokenStays(t)
  BY DEF TokenStays, Live
<1>13. Kept'
  BY <1>1, <1>3, <1>9, <1>10, <1>11, <1>12, FamiliesStay DEF Inv
<1> QED
  BY <1>3, <1>7, <1>8, <1>13 DEF Inv

(* A request is made, and is not one to refresh.                           *)
LEMMA Started ==
  ASSUME Inv, NEW p \in Proc, NEW r \in Request, Start(p, r), troubled' = troubled,
         Fits(r), r.old = 0, r.new = 0,
         r.step \in {"unlink", "link", "consume", "password", "issue"},
         r.step = "issue" => r.password = password
  PROVE  Inv'
<1>1. TypeOK /\ RestOK
  BY TypeParts DEF Inv
<1>2. task' \in [Proc -> Request \cup {Idle}] /\ task'[p] = r
      /\ \A q \in Proc \ {p} : task'[q] = task[q]
  BY <1>1, Became DEF Start
<1>3. ~Carrier(p) /\ ~At(p, "revoke")
  BY DEF Start, Carrier, Busy, At, Idle
<1>4. Fits(task[p])'
  BY <1>2 DEF Fits, Start
<1>5. UNCHANGED <<password, token, jar, owed, troubled, link>>
  BY DEF Start
<1>6. link' \in Seq(LinkState) /\ Len(link') >= Len(link)
  BY <1>1, <1>5 DEF RestOK
<1> QED
  BY <1>2, <1>3, <1>4, <1>5, <1>6, PlainStep

LEMMA ForgotPasswordHolds ==
  ASSUME Inv, NEW p \in Proc, ForgotPassword(p)
  PROVE  Inv'
<1> DEFINE r == Begins(None, "unlink")
<1>1. r \in Request /\ r.step = "unlink" /\ r.old = 0 /\ r.new = 0 /\ r.link = 0
  BY DEF Begins, Request, Step
<1>2. Start(p, r) /\ troubled' = troubled
  BY DEF ForgotPassword
<1> HIDE DEF r
<1>3. Fits(r)
  BY <1>1, TypeParts, TokenIsToken DEF Fits, Inv, RestOK
<1> QED
  BY <1>1, <1>2, <1>3, Started

LEMMA FollowLinkHolds ==
  ASSUME Inv, NEW p \in Proc, NEW b \in Browser, FollowLink(p, b)
  PROVE  Inv'
<1>1. PICK i \in DOMAIN link : Start(p, [Begins(b, "consume") EXCEPT !.link = i])
  BY DEF FollowLink
<1> DEFINE r == [Begins(b, "consume") EXCEPT !.link = i]
<1>2. i \in 1 .. Len(link) /\ Len(link) \in Nat /\ i \in Nat
  BY TypeParts DEF Inv, RestOK
<1>3. /\ r \in Request /\ r.step = "consume" /\ r.old = 0 /\ r.new = 0 /\ r.link = i
      /\ r.browser = b
  <2>1. /\ Begins(b, "consume") \in Request /\ Begins(b, "consume").step = "consume"
        /\ Begins(b, "consume").old = 0 /\ Begins(b, "consume").new = 0
        /\ Begins(b, "consume").browser = b
    BY DEF Begins, Request, Step
  <2> QED
    BY <1>2, <2>1 DEF Request
<1>4. Start(p, r) /\ troubled' = troubled
  BY <1>1 DEF FollowLink
<1> HIDE DEF r
<1>5. Fits(r)
  BY <1>2, <1>3, TokenIsToken DEF Fits, Inv
<1> QED
  BY <1>3, <1>4, <1>5, Started

LEMMA ChangePasswordHolds ==
  ASSUME Inv, NEW p \in Proc, NEW b \in Browser, ChangePassword(p, b)
  PROVE  Inv'
<1> DEFINE r == Begins(b, "password")
<1>1. /\ r \in Request /\ r.step = "password" /\ r.old = 0 /\ r.new = 0 /\ r.link = 0
      /\ r.browser = b
  BY DEF Begins, Request, Step
<1>2. Start(p, r) /\ troubled' = troubled
  BY DEF ChangePassword
<1> HIDE DEF r
<1>3. Fits(r)
  BY <1>1, TypeParts, TokenIsToken DEF Fits, Inv, RestOK
<1> QED
  BY <1>1, <1>2, <1>3, Started

LEMMA LoginHolds ==
  ASSUME Inv, NEW p \in Proc, NEW b \in Browser, Login(p, b)
  PROVE  Inv'
<1> DEFINE r == [Begins(b, "issue") EXCEPT !.password = password]
<1>1. /\ r \in Request /\ r.step = "issue" /\ r.old = 0 /\ r.new = 0 /\ r.link = 0
      /\ r.browser = b /\ r.password = password
  BY TypeParts DEF Begins, Request, Step, Inv, RestOK
<1>2. Start(p, r) /\ troubled' = troubled
  BY DEF Login
<1> HIDE DEF r
<1>3. Fits(r)
  BY <1>1, TypeParts, TokenIsToken DEF Fits, Inv, RestOK
<1> QED
  BY <1>1, <1>2, <1>3, Started

LEMMA UnlinkHolds ==
  ASSUME Inv, NEW p \in Proc, Unlink(p)
  PROVE  Inv'
<1>1. TypeOK /\ RestOK /\ Busy(p) /\ task[p] \in Request /\ Fits(task[p])
  BY TypeParts, BusyIsRequest DEF Inv, Unlink, Step
<1> DEFINE r == [task[p] EXCEPT !.step = "link"]
<1>2. task' = [task EXCEPT ![p] = r]
  BY DEF Unlink, Goto
<1>3. /\ r \in Request /\ r.step = "link" /\ r.old = task[p].old /\ r.new = task[p].new
      /\ r.link = task[p].link
  BY <1>1 DEF Request, Step
<1> HIDE DEF r
<1>4. task' \in [Proc -> Request \cup {Idle}] /\ task'[p] = r
      /\ \A q \in Proc \ {p} : task'[q] = task[q]
  BY <1>1, <1>2, <1>3, Became
<1>5. ~Carrier(p) /\ ~At(p, "revoke") /\ task[p].old = 0 /\ task[p].new = 0
  BY <1>1 DEF Unlink, Carrier, At, Inv, Kept, Holds
<1>6. link' \in Seq(LinkState) /\ Len(link') = Len(link) /\ Len(link) \in Nat
  <2>1. DOMAIN link = 1 .. Len(link) /\ Len(link) \in Nat /\ link \in [1 .. Len(link) -> LinkState]
    BY <1>1 DEF RestOK
  <2>2. link' \in [1 .. Len(link) -> LinkState]
    BY <2>1 DEF Unlink, LinkState
  <2> QED
    BY <2>1, <2>2
<1>7. Fits(task[p])'
  BY <1>1, <1>3, <1>4, <1>6 DEF Fits, Unlink
<1>8. UNCHANGED <<password, token, jar, owed, troubled>>
  BY DEF Unlink
<1> QED
  BY <1>3, <1>4, <1>5, <1>6, <1>7, <1>8, PlainStep

LEMMA LinkHolds ==
  ASSUME Inv, NEW p \in Proc, Link(p)
  PROVE  Inv'
<1>1. TypeOK /\ RestOK /\ Busy(p)
  BY TypeParts, BusyIsRequest DEF Inv, Link, Step
<1>2. task' \in [Proc -> Request \cup {Idle}] /\ task'[p] = Idle
      /\ \A q \in Proc \ {p} : task'[q] = task[q]
  BY <1>1, Became DEF Link, Return
<1>3. ~Carrier(p) /\ ~At(p, "revoke") /\ ~Busy(p)'
  BY <1>2 DEF Link, Carrier, At, Busy
<1>4. link' \in Seq(LinkState) /\ Len(link') >= Len(link)
  BY <1>1 DEF Link, RestOK, LinkState
<1>5. UNCHANGED <<password, token, jar, owed, troubled>>
  BY DEF Link
<1> QED
  BY <1>2, <1>3, <1>4, <1>5, PlainStep

LEMMA ConsumeHolds ==
  ASSUME Inv, NEW p \in Proc, Consume(p)
  PROVE  Inv'
<1>1. TypeOK /\ RestOK /\ Busy(p) /\ task[p] \in Request /\ Fits(task[p])
  BY TypeParts, BusyIsRequest DEF Inv, Consume, Step
<1>2. ~Carrier(p) /\ ~At(p, "revoke") /\ task[p].old = 0 /\ task[p].new = 0
  BY <1>1 DEF Consume, Carrier, At, Inv, Kept, Holds
<1>3. UNCHANGED <<password, token, jar, owed, troubled>>
  BY DEF Consume
<1>4. CASE /\ link[task[p].link] # "deleted"
           /\ link' = [link EXCEPT ![task[p].link] = "consumed"]
           /\ task' = [task EXCEPT ![p].step = "password", ![p].link = 0]
  <2> DEFINE r == [task[p] EXCEPT !.step = "password", !.link = 0]
  <2>1. task' = [task EXCEPT ![p] = r]
    BY <1>1, <1>4, TypeParts DEF TasksOK
  <2>2. /\ r \in Request /\ r.step = "password" /\ r.old = task[p].old /\ r.new = task[p].new
        /\ r.link = 0 /\ r.browser = task[p].browser
    BY <1>1 DEF Request, Step
  <2> HIDE DEF r
  <2>3. task' \in [Proc -> Request \cup {Idle}] /\ task'[p] = r
        /\ \A q \in Proc \ {p} : task'[q] = task[q]
    BY <1>1, <2>1, <2>2, Became
  <2>4. link' \in Seq(LinkState) /\ Len(link') = Len(link) /\ Len(link) \in Nat
    <3>1. DOMAIN link = 1 .. Len(link) /\ Len(link) \in Nat /\ link \in [1 .. Len(link) -> LinkState]
      BY <1>1 DEF RestOK
    <3>2. link' \in [1 .. Len(link) -> LinkState]
      BY <1>4, <3>1 DEF LinkState
    <3> QED
      BY <3>1, <3>2
  <2>5. Fits(task[p])'
    BY <1>1, <1>3, <2>2, <2>3, <2>4 DEF Fits, Consume, At
  <2> QED
    BY <1>2, <1>3, <2>2, <2>3, <2>4, <2>5, PlainStep
<1>5. CASE Return(p) /\ link' = link
  <2>1. task' \in [Proc -> Request \cup {Idle}] /\ task'[p] = Idle
        /\ \A q \in Proc \ {p} : task'[q] = task[q]
    BY <1>1, <1>5, Became DEF Return
  <2>2. ~Busy(p)'
    BY <2>1 DEF Busy
  <2>3. link' \in Seq(LinkState) /\ Len(link') >= Len(link)
    BY <1>1, <1>5 DEF RestOK
  <2> QED
    BY <1>2, <1>3, <2>1, <2>2, <2>3, PlainStep
<1> QED
  BY <1>4, <1>5 DEF Consume

-----------------------------------------------------------------------------
(* Steps that revoke tokens, or leave them.                                *)

(* Tokens are written over: of each, more than its family stays.           *)
Rewritten ==
  /\ token' \in [1 .. Len(token) -> RefreshToken]
  /\ \A t \in 1 .. Len(token) :
       /\ token'[t].family = token[t].family /\ token'[t].replacedBy \in 0 .. Len(token)
       /\ token'[t].password = token[t].password /\ token'[t].late = token[t].late
       /\ token[t].revoked => token'[t].revoked

LEMMA RewrittenTokens ==
  ASSUME TypeOK, Rewritten
  PROVE  /\ TokensOK' /\ Len(token') = Len(token) /\ DOMAIN token' = DOMAIN token
         /\ Families' = Families
<1>1. DOMAIN token = 1 .. Len(token) /\ Len(token) \in Nat
  BY TokenIsToken
<1>2. token' \in Seq(RefreshToken) /\ Len(token') = Len(token) /\ DOMAIN token' = 1 .. Len(token)
  BY <1>1 DEF Rewritten
<1>3. TokensOK'
  BY <1>1, <1>2, TypeParts DEF Rewritten, TokensOK
<1>4. Families' = Families
  BY <1>1, <1>2 DEF Rewritten, Families
<1> QED
  BY <1>1, <1>2, <1>3, <1>4

LEMMA SameIsRewritten ==
  ASSUME TypeOK, token' = token
  PROVE  Rewritten
BY TokenIsToken, TypeParts DEF Rewritten, TokensOK

LEMMA RewrittenStays ==
  ASSUME TypeOK, Rewritten,
         \A t \in DOMAIN token :
           Live(t) /\ token[t].family \notin troubled' => ~token'[t].revoked
  PROVE  \A t \in DOMAIN token : TokenStays(t)
BY RewrittenTokens, TokenIsToken DEF Rewritten, TokenStays

(* What a request proved, or read from a token that was good.              *)
ProofStays(q) ==
  /\ At(q, "revoke")' \/ At(q, "issue")' =>
       /\ At(q, "revoke") \/ At(q, "issue")
       /\ task'[q].late = task[q].late /\ task'[q].password = task[q].password
  /\ At(q, "mint")' =>
       /\ task'[q].old \in DOMAIN token
       /\ \/ At(q, "mint") /\ task'[q].old = task[q].old /\ task'[q].late = task[q].late
          \/ Live(task'[q].old)

LEMMA PasswordsStay ==
  ASSUME TypeOK, ProvedLatest, LiveIsLatest, Rewritten, password' = password,
         Due => Due', \A q \in Proc : ProofStays(q)
  PROVE  ProvedLatest' /\ LiveIsLatest'
<1>1. \A t \in DOMAIN token : token'[t].password = token[t].password /\ token'[t].late = token[t].late
  BY TokenIsToken DEF Rewritten
<1>2. ProvedLatest'
  <2> SUFFICES ASSUME NEW q \in Proc
               PROVE  /\ At(q, "revoke")' \/ At(q, "issue")' =>
                           task'[q].late \/ task'[q].password = password
                      /\ At(q, "mint")' =>
                           \/ task'[q].late \/ token'[task'[q].old].late \/ Due'
                           \/ token'[task'[q].old].password = password
    BY DEF ProvedLatest
  <2>1. ProofStays(q)
    OBVIOUS
  <2>2. At(q, "revoke")' \/ At(q, "issue")' => task'[q].late \/ task'[q].password = password
    BY <2>1 DEF ProofStays, ProvedLatest
  <2>3. ASSUME At(q, "mint")'
        PROVE  \/ task'[q].late \/ token'[task'[q].old].late \/ Due'
               \/ token'[task'[q].old].password = password
    <3>1. /\ token'[task'[q].old].late = token[task'[q].old].late
          /\ token'[task'[q].old].password = token[task'[q].old].password
      BY <1>1, <2>1, <2>3 DEF ProofStays
    <3>2. CASE At(q, "mint") /\ task'[q].old = task[q].old /\ task'[q].late = task[q].late
      BY <3>1, <3>2 DEF ProvedLatest
    <3>3. CASE Live(task'[q].old)
      BY <2>1, <2>3, <3>1, <3>3 DEF ProofStays, LiveIsLatest
    <3> QED
      BY <2>1, <2>3, <3>2, <3>3 DEF ProofStays
  <2> QED
    BY <2>2, <2>3
<1>3. LiveIsLatest'
  BY <1>1, RewrittenTokens, TokenIsToken DEF Rewritten, LiveIsLatest, Live
<1> QED
  BY <1>2, <1>3

(* A change of password, or an end of all sessions.                        *)
LEMMA LateStep ==
  ASSUME Inv, NEW p \in Proc, At(p, "password") \/ At(p, "revoke"),
         NEW r \in Request, task' = Overtaking(p, r), r.step \in {"revoke", "issue"},
         r.old = task[p].old, r.new = task[p].new, r.link = task[p].link,
         r.browser = task[p].browser,
         jar' = jar, link' = link, Rewritten, password' \in Nat \ {0}, owed' \in BOOLEAN,
         troubled \subseteq troubled', troubled' \subseteq Families,
         \A t \in DOMAIN token : TokenStays(t)
  PROVE  TypeOK' /\ Kept'
<1>1. TypeOK /\ TokensOK /\ TasksOK /\ RestOK /\ Busy(p) /\ Fits(task[p])
  BY TypeParts, BusyIsRequest DEF Inv, Step
<1>2. TokensOK' /\ Len(token') = Len(token) /\ Families' = Families
  BY <1>1, RewrittenTokens
<1>3. /\ task' \in [Proc -> Request \cup {Idle}]
      /\ task'[p] = r
      /\ \A q \in Proc \ {p} :
           /\ Busy(q)' <=> Busy(q)
           /\ Busy(q) => /\ task'[q].step = task[q].step /\ task'[q].browser = task[q].browser
                         /\ task'[q].old = task[q].old /\ task'[q].new = task[q].new
                         /\ task'[q].link = task[q].link
  BY <1>1, BecameLate
<1>4. TasksOK'
  <2>1. Fits(task[p])'
    BY <1>1, <1>2, <1>3 DEF Fits, At
  <2>2. \A q \in Proc \ {p} : Busy(q)' => Fits(task[q])'
    BY <1>1, <1>2, <1>3 DEF Fits, TasksOK
  <2> QED
    BY <1>3, <2>1, <2>2 DEF TasksOK
<1>5. RestOK'
  BY <1>1, <1>2 DEF RestOK
<1>6. TypeOK'
  BY <1>2, <1>4, <1>5, TypePartsNext
<1>7. ~Carrier(p) /\ ~Carrier(p)' /\ task'[p].old = 0 /\ task'[p].new = 0
  BY <1>1, <1>3 DEF Carrier, At, Inv, Kept, Holds
<1>8. \A q \in Proc \ {p} :
        /\ Carrier(q) <=> Carrier(q)'
        /\ Carrier(q) => SameCarrier(q)
        /\ Busy(q) => \A s \in Step : At(q, s)' <=> At(q, s)
  BY <1>3 DEF Carrier, SameCarrier, At
<1>9. Holds'
  <2> SUFFICES ASSUME NEW q \in Proc, Busy(q)'
               PROVE  /\ At(q, "mint")' \/ At(q, "nuke")' => task'[q].old # 0 /\ task'[q].new = 0
                      /\ At(q, "retire")' => task'[q].old # 0
                      /\ At(q, "retire")' \/ At(q, "answer")' =>
                           /\ task'[q].new # 0
                           /\ task'[q].old # 0 =>
                                /\ task'[q].new # task'[q].old
                                /\ token'[task'[q].new].family = token'[task'[q].old].family
                      /\ ~Carrier(q)' => task'[q].old = 0 /\ task'[q].new = 0
    BY <1>6 DEF Holds, Busy, At, Idle
  <2>1. CASE q = p
    BY <1>3, <1>7, <2>1 DEF At
  <2>2. CASE q # p
    <3>1. Busy(q) /\ task[q].old \in 0 .. Len(token) /\ task[q].new \in 0 .. Len(token)
      BY <1>1, <1>3, <2>2 DEF TasksOK, Fits
    <3>2. \A t \in 1 .. Len(token) : token'[t].family = token[t].family
      BY DEF Rewritten
    <3>3. At(q, "retire") \/ At(q, "answer") =>
            task[q].new # 0 /\ task'[q].new = task[q].new /\ task'[q].old = task[q].old
      BY <1>3, <2>2, <3>1 DEF Inv, Kept, Holds
    <3> QED
      BY <1>1, <1>3, <1>8, <2>2, <3>1, <3>2, TokenIsToken, SMTT(60) DEF Inv, Kept, Holds, Step
  <2> QED
    BY <2>1, <2>2
<1>10. Kept'
  BY <1>1, <1>6, <1>7, <1>8, <1>9, FamiliesStay DEF Inv
<1> QED
  BY <1>6, <1>10

LEMMA SavePasswordHolds ==
  ASSUME Inv, NEW p \in Proc, SavePassword(p)
  PROVE  Inv'
<1>1. TypeOK /\ TokensOK /\ RestOK /\ Busy(p) /\ task[p] \in Request /\ At(p, "password")
  BY TypeParts, BusyIsRequest DEF Inv, SavePassword, Step
<1> DEFINE r == [task[p] EXCEPT !.step = "revoke", !.password = password + 1]
<1>2. /\ r \in Request /\ r.step = "revoke" /\ r.password = password + 1
      /\ r.old = task[p].old /\ r.new = task[p].new /\ r.link = task[p].link
      /\ r.browser = task[p].browser
  <2> DEFINE n == password + 1
  <2>1. n \in Nat
    BY <1>1 DEF RestOK
  <2>2. r = [task[p] EXCEPT !.step = "revoke", !.password = n]
    OBVIOUS
  <2> HIDE DEF n, r
  <2>3. /\ r \in Request /\ r.step = "revoke" /\ r.password = n
        /\ r.old = task[p].old /\ r.new = task[p].new /\ r.link = task[p].link
        /\ r.browser = task[p].browser
    BY <1>1, <2>1, <2>2 DEF Request, Step
  <2> QED
    BY <2>3 DEF n
<1>3. task' = Overtaking(p, r)
  BY DEF SavePassword
<1> HIDE DEF r
<1>4. Rewritten /\ \A t \in DOMAIN token : TokenStays(t)
  BY <1>1, SameIsRewritten DEF SavePassword, TokenStays, Live
<1>5. jar' = jar /\ link' = link /\ password' \in Nat \ {0} /\ owed' \in BOOLEAN
      /\ troubled \subseteq troubled' /\ troubled' \subseteq Families
  BY <1>1 DEF SavePassword, RestOK
<1>6. TypeOK' /\ Kept'
  BY <1>1, <1>2, <1>3, <1>4, <1>5, LateStep
<1>7. /\ task'[p] = r
      /\ \A q \in Proc \ {p} :
           /\ Busy(q)' <=> Busy(q)
           /\ Busy(q) => /\ task'[q].step = task[q].step
                         /\ task[q].step \in {"revoke", "issue", "mint"} => task'[q].late
  BY <1>1, <1>2, <1>3, BecameLate
<1>8. Due'
  BY <1>2, <1>7 DEF Due, At
<1>9. ProvedLatest'
  <2>1. \A q \in Proc \ {p} : At(q, "revoke")' \/ At(q, "issue")' => task'[q].late
    BY <1>6, <1>7 DEF At, Busy, Idle
  <2>2. task'[p].password = password'
    BY <1>2, <1>7 DEF SavePassword
  <2> QED
    BY <1>8, <2>1, <2>2 DEF ProvedLatest
<1>10. LiveIsLatest'
  BY <1>8 DEF LiveIsLatest
<1> QED
  BY <1>6, <1>9, <1>10 DEF Inv

LEMMA RevokeHolds ==
  ASSUME Inv, NEW p \in Proc, Revoke(p)
  PROVE  Inv'
<1>1. TypeOK /\ TokensOK /\ RestOK /\ Busy(p) /\ task[p] \in Request /\ At(p, "revoke")
  BY TypeParts, BusyIsRequest DEF Inv, Revoke, Step
<1> DEFINE r == [task[p] EXCEPT !.step = "issue"]
<1>2. /\ r \in Request /\ r.step = "issue" /\ r.password = task[p].password
      /\ r.old = task[p].old /\ r.new = task[p].new /\ r.link = task[p].link
      /\ r.browser = task[p].browser /\ r.late = task[p].late
  BY <1>1 DEF Request, Step
<1>3. task' = Overtaking(p, r)
  BY DEF Revoke
<1> HIDE DEF r
<1>4. Rewritten /\ \A t \in 1 .. Len(token) : token'[t].revoked
  <2>1. DOMAIN token = 1 .. Len(token)
    BY <1>1, TokenIsToken
  <2>2. token' = [t \in 1 .. Len(token) |-> [token[t] EXCEPT !.revoked = TRUE]]
    BY <2>1 DEF Revoke
  <2>3. \A t \in 1 .. Len(token) : token[t] \in RefreshToken /\ token[t].replacedBy \in 0 .. Len(token)
    BY <1>1, <2>1, TokenIsToken DEF TokensOK
  <2> QED
    BY <2>2, <2>3 DEF Rewritten, RefreshToken
<1>5. troubled' = troubled \cup Families
  BY DEF Revoke
<1>6. \A t \in DOMAIN token : TokenStays(t)
  BY <1>1, <1>4, <1>5, RewrittenStays, TokenIsToken
<1>7. jar' = jar /\ link' = link /\ password' = password /\ password \in Nat \ {0}
      /\ owed' \in BOOLEAN /\ troubled \subseteq troubled' /\ troubled' \subseteq Families
  BY <1>1, <1>5 DEF Revoke, RestOK
<1>8. TypeOK' /\ Kept'
  BY <1>1, <1>2, <1>3, <1>4, <1>6, <1>7, LateStep
<1>9. /\ task'[p] = r
      /\ \A q \in Proc \ {p} :
           /\ Busy(q)' <=> Busy(q)
           /\ Busy(q) => /\ task'[q].step = task[q].step
                         /\ task[q].step \in {"revoke", "issue", "mint"} => task'[q].late
  BY <1>1, <1>2, <1>3, BecameLate
<1>10. ProvedLatest'
  <2>1. \A q \in Proc \ {p} : At(q, "revoke")' \/ At(q, "issue")' \/ At(q, "mint")' => task'[q].late
    BY <1>8, <1>9 DEF At, Busy, Idle
  <2>2. task'[p].late \/ task'[p].password = password
    BY <1>1, <1>2, <1>9 DEF Inv, ProvedLatest
  <2>3. ~At(p, "mint")'
    BY <1>2, <1>9 DEF At
  <2> QED
    BY <1>7, <2>1, <2>2, <2>3 DEF ProvedLatest
<1>11. LiveIsLatest'
  BY <1>1, <1>4, RewrittenTokens, TokenIsToken DEF LiveIsLatest, Live
<1> QED
  BY <1>8, <1>10, <1>11 DEF Inv

(* A request ends, and the tokens of the families in peace are left alone. *)
LEMMA EndStep ==
  ASSUME Inv, NEW p \in Proc, Return(p), Rewritten,
         \A t \in DOMAIN token : TokenStays(t),
         UNCHANGED <<password, link, jar>>, owed' \in BOOLEAN,
         troubled \subseteq troubled', troubled' \subseteq Families, Due => Due',
         Carrier(p) /\ task[p].old # 0 => Fam(p) \in troubled' \/ Live(task[p].old)
  PROVE  Inv'
<1>1. TypeOK /\ TokensOK /\ TasksOK /\ RestOK
  BY TypeParts DEF Inv
<1>2. TokensOK' /\ Len(token') = Len(token) /\ Families' = Families
  BY <1>1, RewrittenTokens
<1>3. task' \in [Proc -> Request \cup {Idle}] /\ task'[p] = Idle
      /\ \A q \in Proc \ {p} : task'[q] = task[q]
  BY <1>1, Became DEF Return
<1>4. TasksOK' /\ RestOK'
  BY <1>1, <1>2, <1>3 DEF TasksOK, RestOK, Fits, Busy
<1>5. TypeOK'
  BY <1>2, <1>4, TypePartsNext
<1>6. \A q \in Proc : Busy(q)' => q # p /\ task'[q] = task[q] /\ Busy(q)
  BY <1>3 DEF Busy
<1>7. Holds'
  <2>1. \A q \in Proc \ {p}, s \in Step : At(q, s)' <=> At(q, s)
    BY <1>3 DEF At
  <2>2. \A s \in Step : ~At(p, s)'
    BY <1>3 DEF At, Idle, Step
  <2>3. \A q \in Proc \ {p} : Carrier(q)' <=> Carrier(q)
    BY <1>3 DEF Carrier, Busy
  <2>4. ASSUME NEW q \in Proc \ {p}, At(q, "retire") \/ At(q, "answer"), task[q].old # 0
        PROVE  token'[task[q].new].family = token'[task[q].old].family
    <3>1. task[q].old \in 1 .. Len(token) /\ task[q].new \in 1 .. Len(token)
          /\ token[task[q].new].family = token[task[q].old].family
      BY <1>1, <2>4, BusyIsRequest, TokenIsToken DEF Inv, Kept, Holds, Fits, Step
    <3> QED
      BY <3>1 DEF Rewritten
  <2> QED
    BY <1>3, <1>6, <2>1, <2>2, <2>3, <2>4 DEF Inv, Kept, Holds, Step
<1>8. \A q \in Proc : Carrier(q)' => SameCarrier(q)
  BY <1>6 DEF Carrier, SameCarrier
<1>9. \A q \in Proc : Carrier(q) /\ ~Carrier(q)' => q = p
  BY <1>3 DEF Carrier, Busy
<1>10. Kept'
  BY <1>1, <1>5, <1>7, <1>8, <1>9, FamiliesStay DEF Inv
<1>11. \A q \in Proc : ProofStays(q)
  <2> SUFFICES ASSUME NEW q \in Proc PROVE ProofStays(q)
    OBVIOUS
  <2>1. CASE q = p
    BY <1>3, <2>1 DEF ProofStays, At, Idle
  <2>2. CASE q # p
    <3>1. At(q, "mint") => task[q].old \in DOMAIN token
      BY <1>1, BusyIsRequest, TokenIsToken DEF Inv, Kept, Holds, Fits, Step
    <3> QED
      BY <1>3, <2>2, <3>1 DEF ProofStays, At
  <2> QED
    BY <2>1, <2>2
<1>12. ProvedLatest' /\ LiveIsLatest'
  BY <1>1, <1>11, PasswordsStay DEF Inv
<1> QED
  BY <1>5, <1>10, <1>12 DEF Inv

LEMMA NukeHolds ==
  ASSUME Inv, NEW p \in Proc, Nuke(p)
  PROVE  Inv'
<1>1. TypeOK /\ TokensOK /\ RestOK /\ Carrier(p) /\ At(p, "nuke") /\ task[p].old # 0
  BY TypeParts, CarrierSteps DEF Inv, Nuke, Kept, Holds
<1>2. Fam(p) \in troubled /\ Fam(p) = token[task[p].old].family
  BY <1>1 DEF Inv, Kept, ReuseIsTrouble, Fam
<1>3. DOMAIN token = 1 .. Len(token)
      /\ \A t \in 1 .. Len(token) : token[t] \in RefreshToken /\ token[t].replacedBy \in 0 .. Len(token)
  BY <1>1, TokenIsToken DEF TokensOK
<1> DEFINE f == Fam(p)
<1>4. token' = [t \in 1 .. Len(token) |-> [token[t] EXCEPT !.revoked = @ \/ token[t].family = f]]
  BY <1>2, <1>3 DEF Nuke
<1> HIDE DEF f
<1>5. /\ Rewritten
      /\ \A t \in 1 .. Len(token) : token'[t].revoked <=> token[t].revoked \/ token[t].family = f
  BY <1>3, <1>4 DEF Rewritten, RefreshToken
<1>6. UNCHANGED <<password, link, jar, owed, troubled>> /\ Return(p)
  BY DEF Nuke
<1>7. \A t \in DOMAIN token : TokenStays(t)
  BY <1>1, <1>2, <1>3, <1>5, <1>6, RewrittenStays DEF f, Live
<1>8. Due => Due'
  <2>1. \A q \in Proc : At(q, "revoke") => q # p
    BY <1>1 DEF At
  <2>2. \A q \in Proc \ {p} : task'[q] = task[q]
    BY <1>1, <1>6, Became DEF Return
  <2> QED
    BY <1>6, <2>1, <2>2 DEF Due, At
<1>9. owed' \in BOOLEAN /\ troubled \subseteq troubled' /\ troubled' \subseteq Families
  BY <1>1, <1>6 DEF RestOK
<1> QED
  BY <1>2, <1>5, <1>6, <1>7, <1>8, <1>9, EndStep

LEMMA DieHolds ==
  ASSUME Inv, NEW p \in Proc, Die(p)
  PROVE  Inv'
<1>1. TypeOK /\ RestOK /\ Busy(p)
  BY TypeParts DEF Inv, Die, Busy
<1>2. Rewritten /\ \A t \in DOMAIN token : TokenStays(t)
  BY <1>1, SameIsRewritten DEF Die, TokenStays, Live
<1>3. UNCHANGED <<password, link, jar>> /\ Return(p)
  BY DEF Die
<1>4. owed' \in BOOLEAN /\ (owed' <=> owed \/ At(p, "revoke"))
  BY <1>1 DEF Die, RestOK
<1>5. Carrier(p) => Fam(p) \in Families
  BY <1>1, CarrierHolds DEF Inv, Kept
<1>6. At(p, "answer") /\ task[p].old # 0 => troubled' = troubled \cup {Fam(p)} /\ Carrier(p)
  BY <1>1, CarrierSteps DEF Die, Fam
<1>7. ~(At(p, "answer") /\ task[p].old # 0) => troubled' = troubled
  BY DEF Die
<1>8. troubled \subseteq troubled' /\ troubled' \subseteq Families
  BY <1>1, <1>5, <1>6, <1>7 DEF RestOK
<1>9. Due => Due'
  <2>1. \A q \in Proc \ {p} : task'[q] = task[q]
    BY <1>1, <1>3, Became DEF Return
  <2> QED
    BY <1>4, <2>1 DEF Due, At
<1>10. Carrier(p) /\ task[p].old # 0 => Fam(p) \in troubled' \/ Live(task[p].old)
  BY <1>1, <1>6, <1>8, CarrierSteps DEF Inv, Kept, ReuseIsTrouble, CarriedLive
<1> QED
  BY <1>2, <1>3, <1>4, <1>8, <1>9, <1>10, EndStep

-----------------------------------------------------------------------------
(* Cookies.                                                                *)

LEMMA AnswerHolds ==
  ASSUME Inv, NEW p \in Proc, Answer(p)
  PROVE  Inv'
<1>1. TypeOK /\ TokensOK /\ TasksOK /\ RestOK /\ Carrier(p) /\ Busy(p) /\ At(p, "answer")
  BY TypeParts, CarrierSteps DEF Inv, Answer, Carrier
<1>b. PICK b \in Browser : b = task[p].browser
  BY <1>1, BusyIsRequest DEF Fits, At
<1>n. PICK n \in DOMAIN token : n = task[p].new
  BY <1>1, CarrierHolds DEF Inv, Kept, Holds
<1>2. n # 0 /\ Fam(p) = token[n].family /\ n \in 0 .. Len(token)
  BY <1>1, <1>n, CarrierHolds, BusyIsRequest DEF Inv, Kept, Holds, Fits
<1>3. jar' \in [Browser -> 0 .. Len(token)] /\ jar'[b] = n
      /\ \A c \in Browser \ {b} : jar'[c] = jar[c]
  BY <1>1, <1>2, <1>b, <1>n DEF Answer, RestOK
<1>4. task' \in [Proc -> Request \cup {Idle}] /\ task'[p] = Idle
      /\ \A q \in Proc \ {p} : task'[q] = task[q]
  BY <1>1, Became DEF Answer, Return
<1>5. UNCHANGED <<password, token, link, owed, troubled>>
  BY DEF Answer
<1>6. TypeOK'
  <2>1. TasksOK'
    BY <1>1, <1>4, <1>5 DEF TasksOK, Busy, Fits
  <2>2. TokensOK' /\ RestOK'
    BY <1>1, <1>3, <1>5 DEF TokensOK, RestOK, Families
  <2> QED
    BY <2>1, <2>2, TypePartsNext
<1>7. \A q \in Proc :
        /\ Carrier(q)' => /\ q # p /\ Carrier(q) /\ Fam(q)' = Fam(q)
        /\ q # p => Carrier(q)' = Carrier(q)
  BY <1>4, <1>5 DEF Carrier, Busy, Fam
<1>8. \A q \in Proc, s \in Step : At(q, s)' => q # p /\ At(q, s)
  BY <1>4 DEF At, Idle, Step
<1>9. Holds'
  BY <1>4, <1>5, <1>7, <1>8 DEF Inv, Kept, Holds, Step, Busy
<1>10. ReuseIsTrouble' /\ CarriedAlone'
  BY <1>1, <1>5, <1>7, <1>8, CarrierSteps DEF Inv, Kept, ReuseIsTrouble, CarriedAlone, Step
<1>11. JarFam(b)' = Fam(p) /\ \A c \in Browser \ {b} : JarFam(c)' = JarFam(c)
  BY <1>2, <1>3, <1>5 DEF JarFam
<1>12. \A c \in Browser \ {b} : jar[c] # 0 /\ JarFam(c) = Fam(p) => Fam(p) \in troubled
  BY <1>1, <1>b DEF Inv, Kept, CarriedFromJar
<1>13. JarsApart'
  BY <1>3, <1>5, <1>11, <1>12 DEF Inv, Kept, JarsApart
<1>14. CarriedFromJar'
  <2> SUFFICES ASSUME NEW q \in Proc, NEW c \in Browser,
                      Carrier(q)', jar'[c] # 0, JarFam(c)' = Fam(q)', Fam(q)' \notin troubled
               PROVE  task'[q].old = jar'[c] /\ task'[q].browser = c
    BY <1>5 DEF CarriedFromJar
  <2>1. q # p /\ Carrier(q) /\ Fam(q)' = Fam(q) /\ task'[q] = task[q]
    BY <1>4, <1>7
  <2>2. c # b
    BY <1>1, <1>11, <2>1 DEF Inv, Kept, CarriedAlone
  <2> QED
    BY <1>3, <1>11, <2>1, <2>2 DEF Inv, Kept, CarriedFromJar
<1>15. CarriedLive'
  BY <1>4, <1>5, <1>7, <1>8 DEF Inv, Kept, CarriedLive, Live, Step
<1>16. JarLive'
  <2> SUFFICES ASSUME NEW c \in Browser, jar'[c] # 0, JarFam(c)' \notin troubled,
                      \A q \in Proc : ~(Carrier(q)' /\ Fam(q)' = JarFam(c)')
               PROVE  ~token[jar'[c]].revoked
    BY <1>5 DEF JarLive, Live
  <2>1. CASE c = b
    BY <1>1, <1>2, <1>3, <1>n, <1>11, <2>1 DEF Inv, Kept, CarriedLive, Live
  <2>2. CASE c # b
    BY <1>3, <1>7, <1>11, <1>12, <2>2, <1>4, <1>5 DEF Inv, Kept, JarLive, Live, Fam
  <2> QED
    BY <2>1, <2>2
<1>17. ProvedLatest' /\ LiveIsLatest'
  <2>1. \A q \in Proc : ProofStays(q)
    <3>1. \A q \in Proc : At(q, "mint") => task[q].old \in DOMAIN token
      BY <1>1, BusyIsRequest, TokenIsToken DEF Inv, Kept, Holds, Fits, Step
    <3> QED
      BY <1>4, <1>8, <3>1 DEF ProofStays, Step
  <2>2. Due => Due'
    BY <1>1, <1>4, <1>5 DEF Due, At
  <2> QED
    BY <1>1, <1>5, <2>1, <2>2, SameIsRewritten, PasswordsStay DEF Inv
<1> QED
  BY <1>6, <1>9, <1>10, <1>13, <1>14, <1>15, <1>16, <1>17 DEF Inv, Kept

LEMMA LogoutHolds ==
  ASSUME Inv, NEW p \in Proc, NEW b \in Browser, Logout(p, b)
  PROVE  Inv'
<1>1. TypeOK /\ TokensOK /\ TasksOK /\ RestOK /\ jar[b] # 0
  BY TypeParts DEF Inv, Logout
<1>2. jar[b] \in 1 .. Len(token) /\ JarFam(b) \in Families /\ DOMAIN token = 1 .. Len(token)
  BY <1>1, JarHolds, TokenIsToken
<1>3. /\ UNCHANGED <<password, link, task, owed>> /\ troubled' = troubled \cup {JarFam(b)}
      /\ jar' = [jar EXCEPT ![b] = 0]
      /\ token' = [token EXCEPT ![jar[b]].revoked = TRUE]
  BY DEF Logout, JarFam
<1>4. \A t \in 1 .. Len(token) : token[t] \in RefreshToken /\ token[t].replacedBy \in 0 .. Len(token)
  BY <1>1, <1>2, TokenIsToken DEF TokensOK
<1>5. token \in [1 .. Len(token) -> RefreshToken]
  BY <1>1 DEF TokensOK
<1>6. Rewritten /\ \A t \in 1 .. Len(token) : t # jar[b] => token'[t].revoked = token[t].revoked
  BY <1>2, <1>3, <1>4, <1>5 DEF Rewritten, RefreshToken
<1>7. TokensOK' /\ Len(token') = Len(token) /\ Families' = Families
  BY <1>1, <1>6, RewrittenTokens
<1>8. jar' \in [Browser -> 0 .. Len(token)] /\ \A c \in Browser : jar'[c] \in {jar[c], 0}
  BY <1>1, <1>2, <1>3, TokenIsToken DEF RestOK
<1>9. TypeOK'
  <2>1. TasksOK' /\ RestOK'
    BY <1>1, <1>2, <1>3, <1>7, <1>8 DEF TasksOK, RestOK, Fits, Busy
  <2> QED
    BY <1>7, <2>1, TypePartsNext
<1>10. \A t \in DOMAIN token : TokenStays(t)
  <2>1. \A t \in DOMAIN token : Live(t) /\ token[t].family \notin troubled' => ~token'[t].revoked
    BY <1>2, <1>3, <1>6 DEF JarFam, Live
  <2> QED
    BY <1>1, <1>6, <2>1, RewrittenStays
<1>11. Holds'
  <2>1. \A q \in Proc : At(q, "retire") \/ At(q, "answer") =>
          task[q].new \in 1 .. Len(token) /\ (task[q].old # 0 => task[q].old \in 1 .. Len(token))
    BY <1>1, BusyIsRequest, TokenIsToken DEF Inv, Kept, Holds, Fits, Step
  <2> QED
    BY <1>3, <1>6, <2>1 DEF Inv, Kept, Holds, At, Busy, Carrier, Rewritten
<1>12. Kept'
  BY <1>1, <1>3, <1>8, <1>9, <1>10, <1>11, FamiliesStay DEF Inv, SameCarrier, Carrier, Busy
<1>13. \A q \in Proc : ProofStays(q)
  <2>1. \A q \in Proc : At(q, "mint") => task[q].old \in DOMAIN token
    BY <1>1, BusyIsRequest, TokenIsToken DEF Inv, Kept, Holds, Fits, Step
  <2> QED
    BY <1>3, <2>1 DEF ProofStays, At
<1>14. Due => Due'
  BY <1>3 DEF Due, At
<1>15. ProvedLatest' /\ LiveIsLatest'
  BY <1>1, <1>3, <1>6, <1>13, <1>14, PasswordsStay DEF Inv
<1> QED
  BY <1>9, <1>12, <1>15 DEF Inv

-----------------------------------------------------------------------------
(* Refreshing.                                                             *)

LEMMA BeginRefreshHolds ==
  ASSUME Inv, NEW p \in Proc, NEW b \in Browser, BeginRefresh(p, b)
  PROVE  Inv'
<1>1. TypeOK /\ TokensOK /\ TasksOK /\ RestOK /\ jar[b] # 0 /\ task[p] = Idle
  BY TypeParts DEF Inv, BeginRefresh, Start
<1>2. /\ jar[b] \in DOMAIN token /\ jar[b] \in 0 .. Len(token) /\ JarFam(b) \in Families
      /\ jar[b] \in Nat /\ Len(token) \in Nat /\ DOMAIN token = 1 .. Len(token)
  BY <1>1, JarHolds, TokenIsToken
<1>3. PICK s \in {"mint", "nuke"} :
        Start(p, [Begins(b, s) EXCEPT !.old = jar[b]]) /\ (s = "mint" <=> Live(jar[b]))
  BY DEF BeginRefresh
<1> DEFINE r == [Begins(b, s) EXCEPT !.old = jar[b]]
<1>4. /\ r \in Request /\ r.step = s /\ r.browser = b /\ r.old = jar[b] /\ r.new = 0
      /\ r.link = 0
  <2>1. /\ Begins(b, s) \in Request /\ Begins(b, s).step = s /\ Begins(b, s).browser = b
        /\ Begins(b, s).new = 0 /\ Begins(b, s).link = 0
    BY DEF Begins, Request, Step
  <2> QED
    BY <1>2, <2>1 DEF Request
<1>5. Start(p, r)
  BY <1>3
<1> HIDE DEF r
<1>6. task' \in [Proc -> Request \cup {Idle}] /\ task'[p] = r
      /\ \A q \in Proc \ {p} : task'[q] = task[q]
  BY <1>1, <1>4, <1>5, Became DEF Start
<1>7. UNCHANGED <<password, token, link, jar, owed>>
  BY <1>5 DEF Start
<1>8. /\ troubled \subseteq troubled' /\ troubled' \subseteq Families
      /\ (\E q \in Proc : Refreshing(q, b)) => JarFam(b) \in troubled'
  BY <1>1, <1>2 DEF BeginRefresh, JarFam, RestOK
<1>9. TypeOK'
  <2>1. Fits(task[p])'
    BY <1>1, <1>2, <1>4, <1>6, <1>7 DEF Fits, RestOK
  <2>2. TasksOK'
    BY <1>1, <1>6, <1>7, <2>1 DEF TasksOK, Busy, Fits
  <2>3. TokensOK' /\ RestOK'
    BY <1>1, <1>7, <1>8 DEF TokensOK, RestOK, Families
  <2> QED
    BY <2>2, <2>3, TypePartsNext
<1>10. \A q \in Proc \ {p} : Carrier(q)' = Carrier(q) /\ Fam(q)' = Fam(q)
  BY <1>6, <1>7 DEF Carrier, Busy, Fam
<1>11. Carrier(p)' /\ Fam(p)' = JarFam(b) /\ ~Carrier(p)
  BY <1>1, <1>4, <1>6, <1>7, RequestIsBusy DEF Carrier, Busy, Fam, JarFam
<1>12. \A q \in Proc \ {p}, t \in Step : At(q, t)' <=> At(q, t)
  BY <1>6 DEF At
<1>13. \A t \in Step : At(p, t)' <=> t = s
  BY <1>4, <1>6 DEF At
<1>14. \A c \in Browser : JarFam(c)' = JarFam(c)
  BY <1>7 DEF JarFam
<1>15. \A q \in Proc \ {p} : Carrier(q) /\ Fam(q) = JarFam(b) => JarFam(b) \in troubled'
  <2>1. \A q \in Proc : Carrier(q) /\ Fam(q) = JarFam(b) /\ JarFam(b) \notin troubled => Refreshing(q, b)
    BY <1>1 DEF Inv, Kept, CarriedFromJar, Refreshing, Carrier, Busy
  <2> QED
    BY <1>8, <2>1
<1>16. Holds'
  <2>1. \A q \in Proc \ {p} :
          /\ At(q, "mint")' \/ At(q, "nuke")' => task'[q].old # 0 /\ task'[q].new = 0
          /\ At(q, "retire")' => task'[q].old # 0
          /\ At(q, "retire")' \/ At(q, "answer")' =>
               /\ task'[q].new # 0
               /\ task'[q].old # 0 =>
                    /\ task'[q].new # task'[q].old
                    /\ token'[task'[q].new].family = token'[task'[q].old].family
          /\ Busy(q)' /\ ~Carrier(q)' => task'[q].old = 0 /\ task'[q].new = 0
    BY <1>6, <1>7, <1>10, <1>12 DEF Inv, Kept, Holds, Step, Busy
  <2>2. /\ ~At(p, "retire")' /\ ~At(p, "answer")' /\ task'[p].old # 0 /\ task'[p].new = 0
    BY <1>1, <1>4, <1>6, <1>13 DEF Step
  <2> QED
    BY <1>11, <2>1, <2>2 DEF Holds
<1>17. ReuseIsTrouble'
  <2>1. \A q \in Proc \ {p} : At(q, "nuke")' => Fam(q)' \in troubled'
    BY <1>8, <1>10, <1>12 DEF Inv, Kept, ReuseIsTrouble, Step
  <2>2. CASE At(p, "nuke")'
    <3>1. ~Live(jar[b])
      BY <1>3, <1>13, <2>2 DEF Step
    <3>2. JarFam(b) \in troubled \/ \E q \in Proc : Carrier(q) /\ Fam(q) = JarFam(b)
      BY <1>1, <3>1 DEF Inv, Kept, JarLive
    <3>3. JarFam(b) \in troubled'
      BY <1>8, <1>11, <1>15, <3>2
    <3> QED
      BY <1>11, <2>1, <3>3 DEF ReuseIsTrouble
  <2> QED
    BY <2>1, <2>2 DEF ReuseIsTrouble
<1>18. CarriedAlone'
  BY <1>8, <1>10, <1>11, <1>15 DEF Inv, Kept, CarriedAlone
<1>19. JarsApart'
  BY <1>7, <1>8, <1>14 DEF Inv, Kept, JarsApart
<1>20. CarriedFromJar'
  <2> SUFFICES ASSUME NEW q \in Proc, NEW c \in Browser,
                      Carrier(q)', jar[c] # 0, JarFam(c) = Fam(q)', Fam(q)' \notin troubled'
               PROVE  task'[q].old = jar[c] /\ task'[q].browser = c
    BY <1>7, <1>14 DEF CarriedFromJar
  <2>1. CASE q = p
    BY <1>1, <1>4, <1>6, <1>8, <1>11, <2>1 DEF Inv, Kept, JarsApart
  <2>2. CASE q # p
    BY <1>6, <1>8, <1>10, <2>2 DEF Inv, Kept, CarriedFromJar
  <2> QED
    BY <2>1, <2>2
<1>21. CarriedLive'
  <2> SUFFICES ASSUME NEW q \in Proc, Carrier(q)', Fam(q)' \notin troubled'
               PROVE  /\ task'[q].new # 0 => Live(task[q].new)'
                      /\ At(q, "mint")' \/ At(q, "retire")' => Live(task[q].old)'
    BY DEF CarriedLive
  <2>1. CASE q = p
    BY <1>3, <1>4, <1>6, <1>7, <1>13, <2>1 DEF Live, Step
  <2>2. CASE q # p
    BY <1>6, <1>7, <1>8, <1>10, <1>12, <2>2 DEF Inv, Kept, CarriedLive, Live, Step
  <2> QED
    BY <2>1, <2>2
<1>22. JarLive'
  BY <1>7, <1>8, <1>10, <1>11, <1>14 DEF Inv, Kept, JarLive, Live
<1>23. ProvedLatest' /\ LiveIsLatest'
  <2>1. \A q \in Proc : ProofStays(q)
    <3>1. \A q \in Proc : At(q, "mint") => task[q].old \in DOMAIN token
      BY <1>1, BusyIsRequest, TokenIsToken DEF Inv, Kept, Holds, Fits, Step
    <3>2. ProofStays(p)
      BY <1>2, <1>3, <1>4, <1>6, <1>13 DEF ProofStays, Step
    <3> QED
      BY <1>6, <1>12, <3>1, <3>2 DEF ProofStays, Step
  <2>2. Due => Due'
    BY <1>1, <1>6, <1>7 DEF Due, At, Idle
  <2> QED
    BY <1>1, <1>7, <2>1, <2>2, SameIsRewritten, PasswordsStay DEF Inv
<1> QED
  BY <1>9, <1>16, <1>17, <1>18, <1>19, <1>20, <1>21, <1>22, <1>23 DEF Inv, Kept

(* What Holds says of one request.                                         *)
HoldsFor(q) ==
  /\ At(q, "mint") \/ At(q, "nuke") => task[q].old # 0 /\ task[q].new = 0
  /\ At(q, "retire") => task[q].old # 0
  /\ At(q, "retire") \/ At(q, "answer") =>
       /\ task[q].new # 0
       /\ task[q].old # 0 =>
            /\ task[q].new # task[q].old
            /\ token[task[q].new].family = token[task[q].old].family
  /\ Busy(q) /\ ~Carrier(q) => task[q].old = 0 /\ task[q].new = 0

LEMMA HoldsForAll ==
  /\ Holds <=> \A q \in Proc : HoldsFor(q)
  /\ Holds' <=> \A q \in Proc : HoldsFor(q)'
BY DEF Holds, HoldsFor

(* Of the other requests, one that does nothing holds what it held.        *)
LEMMA OthersHold ==
  ASSUME TypeOK, Holds, NEW p \in Proc, \A q \in Proc \ {p} : task'[q] = task[q],
         \A t \in DOMAIN token : token'[t].family = token[t].family
  PROVE  \A q \in Proc \ {p} :
           /\ HoldsFor(q)'
           /\ Carrier(q)' = Carrier(q)
           /\ Carrier(q) => Fam(q)' = Fam(q)
<1> SUFFICES ASSUME NEW q \in Proc \ {p}
             PROVE  /\ HoldsFor(q)'
                    /\ Carrier(q)' = Carrier(q)
                    /\ Carrier(q) => Fam(q)' = Fam(q)
  OBVIOUS
<1>1. task'[q] = task[q]
  OBVIOUS
<1>2. Carrier(q)' = Carrier(q) /\ Busy(q)' = Busy(q)
  BY <1>1 DEF Carrier, Busy
<1>3. Carrier(q) => Fam(q)' = Fam(q)
  BY <1>1, CarrierHolds DEF Fam
<1>4. At(q, "retire") \/ At(q, "answer") =>
        /\ task[q].new \in DOMAIN token
        /\ task[q].old # 0 => task[q].old \in DOMAIN token
  BY CarrierSteps, CarrierHolds DEF Holds
<1>5. HoldsFor(q)
  BY HoldsForAll
<1>6. HoldsFor(q)'
  BY <1>1, <1>2, <1>4, <1>5 DEF HoldsFor, At
<1> QED
  BY <1>2, <1>3, <1>6

LEMMA RetireHolds ==
  ASSUME Inv, NEW p \in Proc, Retire(p)
  PROVE  Inv'
<1>1. /\ TypeOK /\ TokensOK /\ TasksOK /\ RestOK /\ Carrier(p) /\ Busy(p) /\ At(p, "retire")
      /\ task[p] \in Request /\ Fits(task[p])
  BY TypeParts, CarrierSteps, BusyIsRequest DEF Inv, Retire, Carrier
<1>o. PICK o \in DOMAIN token : o = task[p].old
  BY <1>1, CarrierHolds DEF Inv, Kept, Holds
<1>n. PICK n \in DOMAIN token : n = task[p].new
  BY <1>1, CarrierHolds DEF Inv, Kept, Holds
<1>2. o # 0 /\ n # 0 /\ n # o /\ token[o].family = Fam(p) /\ token[n].family = Fam(p)
  BY <1>1, <1>o, <1>n, CarrierHolds DEF Inv, Kept, Holds
<1>3. /\ DOMAIN token = 1 .. Len(token) /\ Len(token) \in Nat
      /\ token \in [1 .. Len(token) -> RefreshToken]
      /\ \A t \in 1 .. Len(token) : token[t].replacedBy \in 0 .. Len(token)
  BY <1>1, TokenIsToken DEF TokensOK
<1>4. token' = [token EXCEPT ![o].revoked = TRUE, ![o].replacedBy = n]
  BY <1>o, <1>n DEF Retire
<1>5. /\ Rewritten
      /\ \A t \in DOMAIN token \ {o} : token'[t] = token[t]
  <2> DEFINE k == [token[o] EXCEPT !.revoked = TRUE, !.replacedBy = n]
  <2>1. token' = [token EXCEPT ![o] = k]
    BY <1>3, <1>4
  <2>2. n \in 0 .. Len(token) /\ n \in Nat
    BY <1>3
  <2>3. /\ k \in RefreshToken /\ k.family = token[o].family /\ k.replacedBy = n
        /\ k.password = token[o].password /\ k.late = token[o].late /\ k.revoked = TRUE
    BY <1>3, <2>2 DEF RefreshToken
  <2> HIDE DEF k
  <2>4. /\ token'[o] = k /\ token' \in [1 .. Len(token) -> RefreshToken]
        /\ \A t \in DOMAIN token \ {o} : token'[t] = token[t]
    BY <1>3, <2>1, <2>3
  <2> QED
    BY <1>3, <2>2, <2>3, <2>4 DEF Rewritten
<1>6. TokensOK' /\ Len(token') = Len(token) /\ DOMAIN token' = DOMAIN token /\ Families' = Families
  BY <1>1, <1>5, RewrittenTokens
<1> DEFINE r == [task[p] EXCEPT !.step = "answer"]
<1>7. /\ r \in Request /\ r.step = "answer" /\ r.browser = task[p].browser
      /\ r.old = task[p].old /\ r.new = task[p].new /\ r.link = task[p].link
  BY <1>1 DEF Request, Step
<1>8. task' = [task EXCEPT ![p] = r]
  BY DEF Retire, Goto
<1> HIDE DEF r
<1>9. task' \in [Proc -> Request \cup {Idle}] /\ task'[p] = r
      /\ \A q \in Proc \ {p} : task'[q] = task[q]
  BY <1>1, <1>7, <1>8, Became
<1>10. UNCHANGED <<password, link, jar, owed, troubled>>
  BY DEF Retire
<1>11. TypeOK'
  <2>1. Fits(task[p])'
    BY <1>1, <1>6, <1>7, <1>9, <1>10 DEF Fits, At
  <2>2. TasksOK' /\ RestOK'
    BY <1>1, <1>6, <1>9, <1>10, <2>1 DEF TasksOK, RestOK, Busy, Fits
  <2> QED
    BY <1>6, <2>2, TypePartsNext
<1>12. \A t \in DOMAIN token : token'[t].family = token[t].family
  BY <1>3, <1>5 DEF Rewritten
<1>13. \A q \in Proc \ {p} :
         /\ HoldsFor(q)'
         /\ Carrier(q)' = Carrier(q)
         /\ Carrier(q) => Fam(q)' = Fam(q)
  BY <1>1, <1>9, <1>12, OthersHold DEF Inv, Kept
<1>14. Carrier(p)' /\ Fam(p)' = Fam(p)
  BY <1>o, <1>2, <1>7, <1>9, <1>12, RequestIsBusy DEF Carrier, Busy, Fam
<1>15. \A s \in Step : At(p, s)' <=> s = "answer"
  BY <1>7, <1>9 DEF At
<1>16. Holds'
  <2>1. HoldsFor(p)'
    BY <1>o, <1>n, <1>2, <1>7, <1>9, <1>12, <1>14, <1>15 DEF HoldsFor, Step
  <2> QED
    BY <1>13, <2>1, HoldsForAll
<1>17. \A q \in Proc \ {p}, s \in Step : At(q, s)' <=> At(q, s)
  BY <1>9 DEF At
<1>18. \A c \in Browser : jar[c] # 0 => JarFam(c)' = JarFam(c) /\ jar[c] \in DOMAIN token
  BY <1>1, <1>10, <1>12, JarHolds DEF JarFam
<1>19. ReuseIsTrouble'
  BY <1>10, <1>13, <1>15, <1>17, <1>1, CarrierSteps DEF Inv, Kept, ReuseIsTrouble, Step
<1>20. CarriedAlone' /\ JarsApart'
  BY <1>1, <1>10, <1>13, <1>14, <1>18 DEF Inv, Kept, CarriedAlone, JarsApart
<1>21. CarriedFromJar'
  BY <1>1, <1>7, <1>9, <1>10, <1>13, <1>14, <1>18 DEF Inv, Kept, CarriedFromJar
<1>22. CarriedLive'
  <2> SUFFICES ASSUME NEW q \in Proc, Carrier(q)', Fam(q)' \notin troubled
               PROVE  /\ task'[q].new # 0 => ~token'[task'[q].new].revoked
                      /\ At(q, "mint")' \/ At(q, "retire")' => ~token'[task'[q].old].revoked
    BY <1>10 DEF CarriedLive, Live
  <2>1. CASE q = p
    <3>1. ~token[n].revoked
      BY <1>1, <1>n, <1>2, <1>14, <2>1 DEF Inv, Kept, CarriedLive, Live
    <3> QED
      BY <1>n, <1>2, <1>5, <1>7, <1>9, <1>15, <2>1, <3>1 DEF Step
  <2>2. CASE q # p
    <3>1. Carrier(q) /\ Fam(q) \notin troubled /\ Fam(q) # Fam(p)
      BY <1>1, <1>13, <2>2 DEF Inv, Kept, CarriedAlone
    <3>2. /\ task[q].new # 0 => task[q].new \in DOMAIN token \ {o} /\ ~token[task[q].new].revoked
          /\ At(q, "mint") \/ At(q, "retire") =>
               task[q].old \in DOMAIN token \ {o} /\ ~token[task[q].old].revoked
      BY <1>1, <1>2, <3>1, CarrierHolds DEF Inv, Kept, Holds, CarriedLive, Live
    <3> QED
      BY <1>5, <1>9, <1>17, <2>2, <3>2 DEF Step
  <2> QED
    BY <2>1, <2>2
<1>23. JarLive'
  <2> SUFFICES ASSUME NEW c \in Browser, jar[c] # 0, JarFam(c) \notin troubled,
                      \A q \in Proc : ~(Carrier(q)' /\ Fam(q)' = JarFam(c))
               PROVE  ~token'[jar[c]].revoked
    BY <1>10, <1>18 DEF JarLive, Live
  <2>1. \A q \in Proc : ~(Carrier(q) /\ Fam(q) = JarFam(c))
    BY <1>13, <1>14
  <2>2. Live(jar[c]) /\ JarFam(c) # Fam(p)
    BY <1>1, <2>1 DEF Inv, Kept, JarLive
  <2> QED
    BY <1>2, <1>5, <1>18, <2>2 DEF JarFam, Live
<1>24. ProvedLatest' /\ LiveIsLatest'
  <2>1. \A q \in Proc : At(q, "mint") => task[q].old \in DOMAIN token
    BY <1>1, CarrierSteps, CarrierHolds DEF Inv, Kept, Holds
  <2>2. \A q \in Proc : ProofStays(q)
    BY <1>9, <1>15, <1>17, <2>1 DEF ProofStays, Step
  <2>3. Due => Due'
    BY <1>1, <1>9, <1>10 DEF Due, At
  <2> QED
    BY <1>1, <1>5, <1>10, <2>2, <2>3, PasswordsStay DEF Inv
<1> QED
  BY <1>11, <1>16, <1>19, <1>20, <1>21, <1>22, <1>23, <1>24 DEF Inv, Kept

(* A token is added; the requests but p's stay.                            *)
LEMMA TokenAdded ==
  ASSUME TypeOK, NEW k \in RefreshToken, token' = Append(token, k), k.replacedBy = 0,
         k.family \in 1 .. Len(token) + 1
  PROVE  /\ TokensOK' /\ Len(token') = Len(token) + 1
         /\ DOMAIN token' = DOMAIN token \cup {Len(token) + 1}
         /\ Len(token) + 1 \notin DOMAIN token
         /\ token'[Len(token) + 1] = k
         /\ \A t \in DOMAIN token : token'[t] = token[t]
         /\ Families \subseteq Families'
<1>1. /\ DOMAIN token = 1 .. Len(token) /\ Len(token) \in Nat /\ TokensOK
      /\ token \in Seq(RefreshToken)
  BY TokenIsToken, TypeParts DEF TokensOK
<1>2. /\ token' \in Seq(RefreshToken) /\ Len(token') = Len(token) + 1
      /\ DOMAIN token' = 1 .. Len(token) + 1
      /\ token'[Len(token) + 1] = k
      /\ \A t \in DOMAIN token : token'[t] = token[t]
  BY <1>1
<1>3. TokensOK'
  BY <1>1, <1>2 DEF TokensOK
<1>4. Families \subseteq Families'
  BY <1>1, <1>2 DEF Families
<1> QED
  BY <1>1, <1>2, <1>3, <1>4

LEMMA MintHolds ==
  ASSUME Inv, NEW p \in Proc, Mint(p)
  PROVE  Inv'
<1>1. /\ TypeOK /\ TokensOK /\ TasksOK /\ RestOK /\ Carrier(p) /\ Busy(p) /\ At(p, "mint")
      /\ task[p] \in Request /\ Fits(task[p])
  BY TypeParts, CarrierSteps, BusyIsRequest DEF Inv, Mint, Carrier
<1>o. PICK o \in DOMAIN token : o = task[p].old
  BY <1>1, CarrierHolds DEF Inv, Kept, Holds
<1>n. PICK n : n = Len(token) + 1
  OBVIOUS
<1>2. /\ DOMAIN token = 1 .. Len(token) /\ Len(token) \in Nat /\ n \in Nat /\ n # 0 /\ o # 0
      /\ token[o] \in RefreshToken /\ token[o].family <= o
      /\ token[o].family = Fam(p)
  BY <1>1, <1>o, <1>n, TokenIsToken, CarrierHolds DEF Inv, Kept, Holds
<1> DEFINE k == [token[o] EXCEPT !.revoked = FALSE, !.replacedBy = 0, !.late = @ \/ task[p].late]
<1>3. token' = Append(token, k)
  BY <1>o DEF Mint
<1>4. /\ k \in RefreshToken /\ k.family = token[o].family /\ k.replacedBy = 0
      /\ k.password = token[o].password /\ k.revoked = FALSE
      /\ token[o].late \/ task[p].late => k.late
  BY <1>1, <1>2 DEF RefreshToken, Request
<1> HIDE DEF k
<1>5. k.family \in 1 .. Len(token) + 1
  BY <1>2, <1>4 DEF RefreshToken
<1>6. /\ TokensOK' /\ Len(token') = n /\ DOMAIN token' = DOMAIN token \cup {n}
      /\ n \notin DOMAIN token /\ token'[n] = k
      /\ \A t \in DOMAIN token : token'[t] = token[t]
      /\ Families \subseteq Families'
  BY <1>1, <1>3, <1>4, <1>5, <1>n, TokenAdded
<1> DEFINE r == [task[p] EXCEPT !.step = "retire", !.new = n, !.late = FALSE]
<1>7. /\ r \in Request /\ r.step = "retire" /\ r.browser = task[p].browser
      /\ r.old = task[p].old /\ r.new = n /\ r.link = task[p].link
  BY <1>1, <1>2 DEF Request, Step
<1>8. task' = [task EXCEPT ![p] = r]
  BY <1>1, <1>n DEF Mint, TasksOK
<1> HIDE DEF r
<1>9. task' \in [Proc -> Request \cup {Idle}] /\ task'[p] = r
      /\ \A q \in Proc \ {p} : task'[q] = task[q]
  BY <1>1, <1>7, <1>8, Became
<1>10. UNCHANGED <<password, link, jar, owed, troubled>>
  BY DEF Mint
<1>11. TypeOK'
  <2>1. Fits(task[p])'
    BY <1>1, <1>2, <1>6, <1>7, <1>9, <1>10, <1>n DEF Fits, At
  <2>2. TasksOK'
    BY <1>1, <1>2, <1>6, <1>9, <1>10, <1>n, <2>1 DEF TasksOK, Busy, Fits
  <2>3. RestOK'
    BY <1>1, <1>2, <1>6, <1>10, <1>n DEF RestOK
  <2> QED
    BY <1>6, <2>2, <2>3, TypePartsNext
<1>12. \A q \in Proc \ {p} :
         /\ HoldsFor(q)'
         /\ Carrier(q)' = Carrier(q)
         /\ Carrier(q) => Fam(q)' = Fam(q)
  BY <1>1, <1>6, <1>9, OthersHold DEF Inv, Kept
<1>13. Carrier(p)' /\ Fam(p)' = Fam(p)
  BY <1>o, <1>2, <1>6, <1>7, <1>9, RequestIsBusy DEF Carrier, Busy, Fam
<1>14. \A s \in Step : At(p, s)' <=> s = "retire"
  BY <1>7, <1>9 DEF At
<1>15. \A q \in Proc \ {p}, s \in Step : At(q, s)' <=> At(q, s)
  BY <1>9 DEF At
<1>16. Holds'
  <2>1. HoldsFor(p)'
    BY <1>o, <1>2, <1>4, <1>6, <1>7, <1>9, <1>13, <1>14 DEF HoldsFor, Step
  <2> QED
    BY <1>12, <2>1, HoldsForAll
<1>17. \A c \in Browser : jar[c] # 0 => JarFam(c)' = JarFam(c) /\ jar[c] \in DOMAIN token
  BY <1>1, <1>6, <1>10, JarHolds DEF JarFam
<1>18. ReuseIsTrouble'
  BY <1>10, <1>12, <1>14, <1>15, <1>1, CarrierSteps DEF Inv, Kept, ReuseIsTrouble, Step
<1>19. CarriedAlone' /\ JarsApart'
  BY <1>1, <1>10, <1>12, <1>13, <1>17 DEF Inv, Kept, CarriedAlone, JarsApart
<1>20. CarriedFromJar'
  BY <1>1, <1>7, <1>9, <1>10, <1>12, <1>13, <1>17 DEF Inv, Kept, CarriedFromJar
<1>21. CarriedLive'
  <2> SUFFICES ASSUME NEW q \in Proc, Carrier(q)', Fam(q)' \notin troubled
               PROVE  /\ task'[q].new # 0 => ~token'[task'[q].new].revoked
                      /\ At(q, "mint")' \/ At(q, "retire")' => ~token'[task'[q].old].revoked
    BY <1>10 DEF CarriedLive, Live
  <2>1. CASE q = p
    <3>1. ~token[o].revoked
      BY <1>1, <1>o, <1>13, <2>1 DEF Inv, Kept, CarriedLive, Live
    <3> QED
      BY <1>o, <1>4, <1>6, <1>7, <1>9, <2>1, <3>1
  <2>2. CASE q # p
    <3>1. Carrier(q) /\ Fam(q) \notin troubled
      BY <1>12, <2>2
    <3>2. /\ task[q].new # 0 => task[q].new \in DOMAIN token /\ ~token[task[q].new].revoked
          /\ At(q, "mint") \/ At(q, "retire") =>
               task[q].old \in DOMAIN token /\ ~token[task[q].old].revoked
      BY <1>1, <3>1, CarrierHolds DEF Inv, Kept, Holds, CarriedLive, Live
    <3> QED
      BY <1>6, <1>9, <1>15, <2>2, <3>2 DEF Step
  <2> QED
    BY <2>1, <2>2
<1>22. JarLive'
  <2> SUFFICES ASSUME NEW c \in Browser, jar[c] # 0, JarFam(c) \notin troubled,
                      \A q \in Proc : ~(Carrier(q)' /\ Fam(q)' = JarFam(c))
               PROVE  ~token'[jar[c]].revoked
    BY <1>10, <1>17 DEF JarLive, Live
  <2>1. \A q \in Proc : ~(Carrier(q) /\ Fam(q) = JarFam(c))
    BY <1>12, <1>13
  <2>2. Live(jar[c])
    BY <1>1, <2>1 DEF Inv, Kept, JarLive
  <2> QED
    BY <1>6, <1>17, <2>2 DEF Live
<1>23. Due => Due'
  BY <1>1, <1>9, <1>10 DEF Due, At
<1>24. ProvedLatest'
  <2> SUFFICES ASSUME NEW q \in Proc
               PROVE  /\ At(q, "revoke")' \/ At(q, "issue")' =>
                           task'[q].late \/ task'[q].password = password
                      /\ At(q, "mint")' =>
                           \/ task'[q].late \/ token'[task'[q].old].late \/ Due'
                           \/ token'[task'[q].old].password = password
    BY <1>10 DEF ProvedLatest
  <2>1. CASE q = p
    BY <1>14, <2>1 DEF Step
  <2>2. CASE q # p
    <3>1. At(q, "mint") => task[q].old \in DOMAIN token
      BY <1>1, CarrierSteps, CarrierHolds DEF Inv, Kept, Holds
    <3>2. At(q, "mint") => token'[task[q].old] = token[task[q].old]
      BY <1>6, <3>1
    <3> QED
      BY <1>9, <1>15, <1>23, <2>2, <3>2 DEF Inv, ProvedLatest, Step
  <2> QED
    BY <2>1, <2>2
<1>25. LiveIsLatest'
  <2> SUFFICES ASSUME NEW t \in DOMAIN token', ~token'[t].revoked
               PROVE  token'[t].password = password \/ token'[t].late \/ Due'
    BY <1>10 DEF LiveIsLatest, Live
  <2>1. CASE t = n
    <3>1. task[p].late \/ token[o].late \/ Due \/ token[o].password = password
      BY <1>1, <1>o DEF Inv, ProvedLatest
    <3> QED
      BY <1>4, <1>6, <1>23, <2>1, <3>1
  <2>2. CASE t \in DOMAIN token
    BY <1>6, <1>23, <2>2 DEF Inv, LiveIsLatest, Live
  <2> QED
    BY <1>6, <2>1, <2>2
<1> QED
  BY <1>11, <1>16, <1>18, <1>19, <1>20, <1>21, <1>22, <1>24, <1>25 DEF Inv, Kept

LEMMA IssueSessionHolds ==
  ASSUME Inv, NEW p \in Proc, IssueSession(p)
  PROVE  Inv'
<1>1. /\ TypeOK /\ TokensOK /\ TasksOK /\ RestOK /\ Busy(p) /\ At(p, "issue")
      /\ task[p] \in Request /\ Fits(task[p])
  BY TypeParts, BusyIsRequest DEF Inv, IssueSession, Step
<1>n. PICK n : n = Len(token) + 1
  OBVIOUS
<1>2. /\ DOMAIN token = 1 .. Len(token) /\ Len(token) \in Nat /\ n \in Nat /\ n # 0
      /\ n \notin Families
  BY <1>1, <1>n, TokenIsToken DEF Families
<1> DEFINE k == [family |-> n, revoked |-> FALSE, replacedBy |-> 0,
                 password |-> task[p].password, late |-> task[p].late]
<1>3. token' = Append(token, k)
  BY <1>n DEF IssueSession
<1>4. /\ k \in RefreshToken /\ k.family = n /\ k.replacedBy = 0
      /\ k.password = task[p].password /\ k.revoked = FALSE /\ k.late = task[p].late
  BY <1>1, <1>2 DEF RefreshToken, Request
<1> HIDE DEF k
<1>5. k.family \in 1 .. Len(token) + 1
  BY <1>2, <1>4, <1>n
<1>6. /\ TokensOK' /\ Len(token') = n /\ DOMAIN token' = DOMAIN token \cup {n}
      /\ n \notin DOMAIN token /\ token'[n] = k
      /\ \A t \in DOMAIN token : token'[t] = token[t]
      /\ Families \subseteq Families'
  BY <1>1, <1>3, <1>4, <1>5, <1>n, TokenAdded
<1> DEFINE r == [Begins(task[p].browser, "answer") EXCEPT !.new = n]
<1>7. /\ r \in Request /\ r.step = "answer" /\ r.browser = task[p].browser
      /\ r.old = 0 /\ r.new = n /\ r.link = 0
  <2>1. task[p].browser \in Browser \cup {None}
    BY <1>1 DEF Request
  <2>2. /\ Begins(task[p].browser, "answer") \in Request
        /\ Begins(task[p].browser, "answer").step = "answer"
        /\ Begins(task[p].browser, "answer").browser = task[p].browser
        /\ Begins(task[p].browser, "answer").old = 0
        /\ Begins(task[p].browser, "answer").link = 0
    BY <2>1 DEF Begins, Request, Step
  <2> QED
    BY <1>2, <2>2 DEF Request
<1>8. task' = [task EXCEPT ![p] = r]
  BY <1>1, <1>n DEF IssueSession, TasksOK
<1> HIDE DEF r
<1>9. task' \in [Proc -> Request \cup {Idle}] /\ task'[p] = r
      /\ \A q \in Proc \ {p} : task'[q] = task[q]
  BY <1>1, <1>7, <1>8, Became
<1>10. UNCHANGED <<password, link, jar, owed, troubled>>
  BY DEF IssueSession
<1>11. TypeOK'
  <2>1. Fits(task[p])'
    BY <1>1, <1>2, <1>6, <1>7, <1>9, <1>10, <1>n DEF Fits, At
  <2>2. TasksOK'
    BY <1>1, <1>2, <1>6, <1>9, <1>10, <1>n, <2>1 DEF TasksOK, Busy, Fits
  <2>3. RestOK'
    BY <1>1, <1>2, <1>6, <1>10, <1>n DEF RestOK
  <2> QED
    BY <1>6, <2>2, <2>3, TypePartsNext
<1>12. \A q \in Proc \ {p} :
         /\ HoldsFor(q)'
         /\ Carrier(q)' = Carrier(q)
         /\ Carrier(q) => Fam(q)' = Fam(q) /\ Fam(q) # n
  BY <1>1, <1>2, <1>6, <1>9, OthersHold, CarrierHolds DEF Inv, Kept
<1>13. Carrier(p)' /\ Fam(p)' = n
  BY <1>2, <1>4, <1>6, <1>7, <1>9, RequestIsBusy DEF Carrier, Busy, Fam
<1>14. \A s \in Step : At(p, s)' <=> s = "answer"
  BY <1>7, <1>9 DEF At
<1>15. \A q \in Proc \ {p}, s \in Step : At(q, s)' <=> At(q, s)
  BY <1>9 DEF At
<1>16. Holds'
  <2>1. HoldsFor(p)'
    BY <1>2, <1>7, <1>9, <1>13, <1>14 DEF HoldsFor, Step
  <2> QED
    BY <1>12, <2>1, HoldsForAll
<1>17. \A c \in Browser : jar[c] # 0 =>
         JarFam(c)' = JarFam(c) /\ jar[c] \in DOMAIN token /\ JarFam(c) # n
  BY <1>1, <1>2, <1>6, <1>10, JarHolds DEF JarFam
<1>18. ReuseIsTrouble'
  BY <1>10, <1>12, <1>14, <1>15, <1>1, CarrierSteps DEF Inv, Kept, ReuseIsTrouble, Step
<1>19. CarriedAlone' /\ JarsApart'
  BY <1>10, <1>12, <1>13, <1>17 DEF Inv, Kept, CarriedAlone, JarsApart
<1>20. CarriedFromJar'
  BY <1>9, <1>10, <1>12, <1>13, <1>17 DEF Inv, Kept, CarriedFromJar
<1>21. CarriedLive'
  <2> SUFFICES ASSUME NEW q \in Proc, Carrier(q)', Fam(q)' \notin troubled
               PROVE  /\ task'[q].new # 0 => ~token'[task'[q].new].revoked
                      /\ At(q, "mint")' \/ At(q, "retire")' => ~token'[task'[q].old].revoked
    BY <1>10 DEF CarriedLive, Live
  <2>1. CASE q = p
    BY <1>4, <1>6, <1>7, <1>9, <1>14, <2>1 DEF Step
  <2>2. CASE q # p
    <3>1. Carrier(q) /\ Fam(q) \notin troubled
      BY <1>12, <2>2
    <3>2. /\ task[q].new # 0 => task[q].new \in DOMAIN token /\ ~token[task[q].new].revoked
          /\ At(q, "mint") \/ At(q, "retire") =>
               task[q].old \in DOMAIN token /\ ~token[task[q].old].revoked
      BY <1>1, <3>1, CarrierHolds DEF Inv, Kept, Holds, CarriedLive, Live
    <3> QED
      BY <1>6, <1>9, <1>15, <2>2, <3>2 DEF Step
  <2> QED
    BY <2>1, <2>2
<1>22. JarLive'
  <2> SUFFICES ASSUME NEW c \in Browser, jar[c] # 0, JarFam(c) \notin troubled,
                      \A q \in Proc : ~(Carrier(q)' /\ Fam(q)' = JarFam(c))
               PROVE  ~token'[jar[c]].revoked
    BY <1>10, <1>17 DEF JarLive, Live
  <2>1. \A q \in Proc : ~(Carrier(q) /\ Fam(q) = JarFam(c))
    BY <1>1, <1>12 DEF Carrier, At
  <2>2. Live(jar[c])
    BY <1>1, <2>1 DEF Inv, Kept, JarLive
  <2> QED
    BY <1>6, <1>17, <2>2 DEF Live
<1>23. Due => Due'
  BY <1>1, <1>9, <1>10 DEF Due, At
<1>24. ProvedLatest'
  <2> SUFFICES ASSUME NEW q \in Proc
               PROVE  /\ At(q, "revoke")' \/ At(q, "issue")' =>
                           task'[q].late \/ task'[q].password = password
                      /\ At(q, "mint")' =>
                           \/ task'[q].late \/ token'[task'[q].old].late \/ Due'
                           \/ token'[task'[q].old].password = password
    BY <1>10 DEF ProvedLatest
  <2>1. CASE q = p
    BY <1>14, <2>1 DEF Step
  <2>2. CASE q # p
    <3>1. At(q, "mint") => task[q].old \in DOMAIN token
      BY <1>1, CarrierSteps, CarrierHolds DEF Inv, Kept, Holds
    <3>2. At(q, "mint") => token'[task[q].old] = token[task[q].old]
      BY <1>6, <3>1
    <3> QED
      BY <1>9, <1>15, <1>23, <2>2, <3>2 DEF Inv, ProvedLatest, Step
  <2> QED
    BY <2>1, <2>2
<1>25. LiveIsLatest'
  <2> SUFFICES ASSUME NEW t \in DOMAIN token', ~token'[t].revoked
               PROVE  token'[t].password = password \/ token'[t].late \/ Due'
    BY <1>10 DEF LiveIsLatest, Live
  <2>1. CASE t = n
    <3>1. task[p].late \/ task[p].password = password
      BY <1>1 DEF Inv, ProvedLatest
    <3> QED
      BY <1>4, <1>6, <2>1, <3>1
  <2>2. CASE t \in DOMAIN token
    BY <1>6, <1>23, <2>2 DEF Inv, LiveIsLatest, Live
  <2> QED
    BY <1>6, <2>1, <2>2
<1> QED
  BY <1>11, <1>16, <1>18, <1>19, <1>20, <1>21, <1>22, <1>24, <1>25 DEF Inv, Kept

-----------------------------------------------------------------------------
(* All together.                                                           *)

LEMMA InitHolds ==
  ASSUME Init
  PROVE  Inv
<1>1. \A p \in Proc : task[p] = Idle /\ ~Busy(p) /\ ~Carrier(p) /\ \A s \in Step : ~At(p, s)
  BY DEF Init, Busy, Carrier, At, Idle, Step
<1>2. DOMAIN token = {} /\ \A b \in Browser : jar[b] = 0
  BY DEF Init
<1>3. TypeOK
  <2>1. token = <<>> /\ link = <<>> /\ Len(token) = 0
    BY DEF Init
  <2>2. token \in Seq(RefreshToken) /\ link \in Seq(LinkState)
    BY <2>1
  <2>3. jar \in [Browser -> 0 .. Len(token)]
    BY <2>1 DEF Init
  <2>4. task \in [Proc -> Request \cup {Idle}]
    BY DEF Init
  <2>5. TokensOK
    BY <1>2, <2>2 DEF TokensOK
  <2>6. TasksOK
    BY <1>1, <2>4 DEF TasksOK
  <2>7. RestOK
    <3>1. password \in Nat \ {0}
      <4>1. password = 1
        BY DEF Init
      <4> QED
        BY <4>1
    <3>3. owed \in BOOLEAN
      <4>1. owed = FALSE
        BY DEF Init
      <4> QED
        BY <4>1, Zenon
    <3>2. troubled \subseteq Families
      BY DEF Init
    <3> QED
      BY <2>2, <2>3, <3>1, <3>2, <3>3 DEF RestOK
  <2> QED
    BY <2>5, <2>6, <2>7, TypeParts
<1>4. ProvedLatest /\ LiveIsLatest
  BY <1>1, <1>2 DEF ProvedLatest, LiveIsLatest, Step
<1>5. Kept
  BY <1>1, <1>2 DEF Kept, Holds, ReuseIsTrouble, CarriedAlone, JarsApart, CarriedFromJar,
     CarriedLive, JarLive, Step
<1> QED
  BY <1>3, <1>4, <1>5 DEF Inv

LEMMA NextHolds ==
  ASSUME Inv, [Next]_vars
  PROVE  Inv'
<1>1. CASE UNCHANGED vars
  BY <1>1 DEF vars, Inv, TypeOK, Families, ProvedLatest, LiveIsLatest, Due, Kept, Holds,
     ReuseIsTrouble, CarriedAlone, JarsApart, CarriedFromJar, CarriedLive, JarLive, Carrier,
     Busy, Fam, JarFam, At, Live
<1>2. ASSUME NEW p \in Proc, Continue(p)
      PROVE  Inv'
  BY <1>2, ForgotPasswordHolds, UnlinkHolds, LinkHolds, ConsumeHolds, SavePasswordHolds,
     RevokeHolds, IssueSessionHolds, AnswerHolds, MintHolds, RetireHolds, NukeHolds DEF Continue
<1>3. ASSUME NEW p \in Proc, NEW b \in Browser, Begin(p, b)
      PROVE  Inv'
  BY <1>3, FollowLinkHolds, ChangePasswordHolds, LoginHolds, LogoutHolds, BeginRefreshHolds
     DEF Begin
<1> QED
  BY <1>1, <1>2, <1>3, DieHolds DEF Next

(* The invariant, of which the theorems below are parts.                   *)
LEMMA Invariance == Spec => []Inv
<1>1. Init => Inv
  BY InitHolds
<1>2. Inv /\ [Next]_vars => Inv'
  BY NextHolds
<1> QED
  BY <1>1, <1>2, PTL DEF Spec

(* Every jti a cookie, a token or a request holds is a token's, and every  *)
(* token's family is a token's that was created no later.                  *)
THEOREM TypeCorrect == Spec => []TypeOK
<1>1. Inv => TypeOK
  BY DEF Inv
<1> QED
  BY <1>1, Invariance, PTL

(* auth.service.ts:198-250: a change of password ends every session, but   *)
(* one whose request was under way at the change, unless it was cut short. *)
THEOREM PasswordEndsSessions == Spec => []ResetEndsSessions
<1>1. Inv => ResetEndsSessions
  BY DEF Inv, LiveIsLatest, Due, ResetEndsSessions, TypeOK
<1> QED
  BY <1>1, Invariance, PTL

(* auth.service.ts:378-405: refreshing does not sign a browser out, unless *)
(* its session was ended, an answer lost, or two tabs refreshed at once.   *)
THEOREM RefreshIsSafe == Spec => []RefreshKeepsSession
<1>1. ASSUME Inv
      PROVE  RefreshKeepsSession
  <2> SUFFICES ASSUME NEW b \in Browser, jar[b] # 0, JarFam(b) \notin troubled,
                      ~\E p \in Proc : Refreshing(p, b)
               PROVE  Live(jar[b])
    BY DEF RefreshKeepsSession, JarFam
  <2>1. \A p \in Proc : ~(Carrier(p) /\ Fam(p) = JarFam(b))
    BY <1>1 DEF Inv, Kept, CarriedFromJar, Refreshing, Carrier, Busy
  <2> QED
    BY <1>1, <2>1 DEF Inv, Kept, JarLive
<1> QED
  BY <1>1, Invariance, PTL
=============================================================================
