------------------------------ MODULE Sessions ------------------------------
(***************************************************************************)
(* The sessions of one account: the password and refresh-token half of     *)
(* services/auth.service.ts and controllers/auth.controller.ts, over the   *)
(* User row, its RefreshToken and reset EmailToken documents, and the      *)
(* cookie jars of the browsers that use it.  A process is one HTTP request;*)
(* its steps are the database calls its handler awaits.                    *)
(*                                                                         *)
(* Every answer that changes nothing (a wrong password, an expired or      *)
(* unknown token, a throttled mail) is the request not being made.         *)
(* Passwords are numbered in the order they are set.  A second factor only *)
(* makes a sign-in longer; the codes themselves are module Accounts'.     *)
(***************************************************************************)
EXTENDS Naturals, Sequences, FiniteSets

CONSTANTS
  Browser,       \* cookie jars
  Proc,          \* requests in flight
  MaxPasswords, MaxTokens, MaxLinks  \* bounds: no request starts beyond them

ASSUME BoundAssumption == {MaxPasswords, MaxTokens, MaxLinks} \subseteq Nat

VARIABLES
  password,  \* User.passwordHash
  token,     \* the RefreshToken documents, in the order of their creation
  link,      \* the state of each reset EmailToken, likewise
  jar,       \* the refresh token in each browser's cookie, 0 for none
  task,      \* what each request is doing
  owed,      \* history: a request died between its password and the revocation
  troubled   \* history: the families somebody ended, or a refresh of which
             \* lost its answer or met another tab's

vars == <<password, token, link, jar, task, owed, troubled>>

None == <<>>

(* A family is named by its first token.  `password' and `late' are        *)
(* history: the password its sign-in proved; whether the request that made *)
(* it, or an ancestor, was under way at a change of password.              *)
RefreshToken == [family: Nat \ {0}, revoked: BOOLEAN, replacedBy: Nat,
                 password: Nat, late: BOOLEAN]
LinkState == {"live", "consumed", "deleted"}

(* The next database call of a request, and what it has read so far.       *)
Step == {"unlink", "link", "consume", "password", "revoke", "issue", "answer",
         "mint", "retire", "nuke"}
Request == [step: Step, browser: Browser \cup {None}, old: Nat, new: Nat, link: Nat,
            password: Nat, late: BOOLEAN]
Idle == [step |-> "idle"]

At(p, s) == task[p].step = s
Goto(p, s) == task' = [task EXCEPT ![p].step = s]
Return(p) == task' = [task EXCEPT ![p] = Idle]

Begins(b, s) == [step |-> s, browser |-> b, old |-> 0, new |-> 0, link |-> 0,
                 password |-> 0, late |-> FALSE]
Start(p, r) ==
  /\ task[p] = Idle
  /\ task' = [task EXCEPT ![p] = r]
  /\ UNCHANGED <<password, token, link, jar, owed>>

Families == {token[t].family : t \in DOMAIN token}
Live(t) == ~token[t].revoked

(* p changes the password or ends all sessions, and goes on as r: requests *)
(* that are about to open a session are too late to be noticed.            *)
Overtaking(p, r) ==
  [q \in Proc |-> IF q = p THEN r
                  ELSE IF task[q].step \in {"revoke", "issue", "mint"}
                  THEN [task[q] EXCEPT !.late = TRUE] ELSE task[q]]

-----------------------------------------------------------------------------
(* Bugs the properties must notice, each in place of one definition below; *)
(* no behaviour of Spec uses them.                                         *)

(* Only the sessions of the password just replaced are looked for.         *)
RevokeLatest(p) ==
  /\ At(p, "revoke")
  /\ token' = [t \in DOMAIN token |->
       [token[t] EXCEPT !.revoked = @ \/ token[t].password = task[p].password - 1]]
  /\ owed' = FALSE
  /\ troubled' = troubled \cup Families
  /\ task' = Overtaking(p, [task[p] EXCEPT !.step = "issue"])
  /\ UNCHANGED <<password, link, jar>>

(* The family is revoked, instead of the token replaced.                   *)
RetireFamily(p) ==
  /\ At(p, "retire")
  /\ token' = [t \in DOMAIN token |->
       [token[t] EXCEPT !.revoked = @ \/ token[t].family = token[task[p].old].family]]
  /\ Goto(p, "answer")
  /\ UNCHANGED <<password, link, jar, owed, troubled>>

-----------------------------------------------------------------------------
(* The mail with a reset link in it.  That one was sent a minute ago is a  *)
(* throttled mail, too.                                                    *)
ForgotPassword(p) ==
  /\ Len(link) < MaxLinks
  /\ Start(p, Begins(None, "unlink"))
  /\ UNCHANGED troubled

(* deleteMany, then create: the mail is sent after both, or not at all.    *)
Unlink(p) ==
  /\ At(p, "unlink")
  /\ link' = [i \in DOMAIN link |-> IF link[i] = "live" THEN "deleted" ELSE link[i]]
  /\ Goto(p, "link")
  /\ UNCHANGED <<password, token, jar, owed, troubled>>

Link(p) ==
  /\ At(p, "link")
  /\ link' = Append(link, "live")
  /\ Return(p)
  /\ UNCHANGED <<password, token, jar, owed, troubled>>

(* resetPassword reads the link first and saves it later, whatever         *)
(* happened to it in between, unless it was deleted.                       *)
FollowLink(p, b) ==
  /\ password < MaxPasswords
  /\ \E i \in DOMAIN link :
       /\ link[i] = "live"
       /\ Start(p, [Begins(b, "consume") EXCEPT !.link = i])
  /\ UNCHANGED troubled

Consume(p) ==
  /\ At(p, "consume")
  /\ \/ /\ link[task[p].link] # "deleted"
        /\ link' = [link EXCEPT ![task[p].link] = "consumed"]
        /\ task' = [task EXCEPT ![p].step = "password", ![p].link = 0]
     \/ /\ link[task[p].link] = "deleted"
        /\ Return(p)
        /\ UNCHANGED link
  /\ UNCHANGED <<password, token, jar, owed, troubled>>

-----------------------------------------------------------------------------
(* Passwords.  A browser with cookies still has its access token.          *)
ChangePassword(p, b) ==
  /\ jar[b] # 0 /\ password < MaxPasswords
  /\ Start(p, Begins(b, "password"))
  /\ UNCHANGED troubled

SavePassword(p) ==
  /\ At(p, "password")
  /\ password' = password + 1
  /\ task' = Overtaking(p, [task[p] EXCEPT !.step = "revoke", !.password = password + 1])
  /\ UNCHANGED <<token, link, jar, owed, troubled>>

Revoke(p) ==
  /\ At(p, "revoke")
  /\ token' = [t \in DOMAIN token |-> [token[t] EXCEPT !.revoked = TRUE]]
  /\ owed' = FALSE
  /\ troubled' = troubled \cup Families
  /\ task' = Overtaking(p, [task[p] EXCEPT !.step = "issue"])
  /\ UNCHANGED <<password, link, jar>>

-----------------------------------------------------------------------------
(* Signing in, and out.                                                    *)
Login(p, b) ==
  /\ Len(token) < MaxTokens
  /\ Start(p, [Begins(b, "issue") EXCEPT !.password = password])
  /\ UNCHANGED troubled

IssueSession(p) ==
  /\ At(p, "issue")
  /\ token' = Append(token, [family |-> Len(token) + 1, revoked |-> FALSE,
       replacedBy |-> 0, password |-> task[p].password, late |-> task[p].late])
  /\ task' = [task EXCEPT ![p] =
       [Begins(@.browser, "answer") EXCEPT !.new = Len(token) + 1]]
  /\ UNCHANGED <<password, link, jar, owed, troubled>>

(* setAuthCookies: the answer reaches the browser.                         *)
Answer(p) ==
  /\ At(p, "answer")
  /\ jar' = [jar EXCEPT ![task[p].browser] = task[p].new]
  /\ Return(p)
  /\ UNCHANGED <<password, token, link, owed, troubled>>

Logout(p, b) ==
  /\ task[p] = Idle /\ jar[b] # 0
  /\ token' = [token EXCEPT ![jar[b]].revoked = TRUE]
  /\ jar' = [jar EXCEPT ![b] = 0]
  /\ troubled' = troubled \cup {token[jar[b]].family}
  /\ UNCHANGED <<password, link, task, owed>>

-----------------------------------------------------------------------------
(* rotateRefresh: read, create the successor, retire the old one.  A tab   *)
(* has one refresh in flight: a second one for its jar is another tab's.   *)
Refreshing(q, b) == task[q] # Idle /\ task[q].browser = b /\ task[q].old # 0

BeginRefresh(p, b) ==
  /\ jar[b] # 0
  /\ \/ /\ Live(jar[b]) /\ Len(token) < MaxTokens
        /\ Start(p, [Begins(b, "mint") EXCEPT !.old = jar[b]])
     \/ /\ ~Live(jar[b])
        /\ Start(p, [Begins(b, "nuke") EXCEPT !.old = jar[b]])
  /\ troubled' = IF \E q \in Proc : Refreshing(q, b)
                 THEN troubled \cup {token[jar[b]].family} ELSE troubled

Mint(p) ==
  /\ At(p, "mint")
  /\ token' = Append(token,
       [token[task[p].old] EXCEPT !.revoked = FALSE, !.replacedBy = 0,
                                  !.late = @ \/ task[p].late])
  /\ task' = [task EXCEPT ![p].step = "retire", ![p].new = Len(token) + 1,
                           ![p].late = FALSE]
  /\ UNCHANGED <<password, link, jar, owed, troubled>>

Retire(p) ==
  /\ At(p, "retire")
  /\ token' = [token EXCEPT ![task[p].old].revoked = TRUE,
                            ![task[p].old].replacedBy = task[p].new]
  /\ Goto(p, "answer")
  /\ UNCHANGED <<password, link, jar, owed, troubled>>

Nuke(p) ==
  /\ At(p, "nuke")
  /\ token' = [t \in DOMAIN token |->
       [token[t] EXCEPT !.revoked = @ \/ token[t].family = token[task[p].old].family]]
  /\ Return(p)
  /\ UNCHANGED <<password, link, jar, owed, troubled>>

-----------------------------------------------------------------------------
(* A request dies, its database fails or its answer is lost.               *)
Die(p) ==
  /\ task[p] # Idle
  /\ Return(p)
  /\ owed' = (owed \/ At(p, "revoke"))
  /\ troubled' = IF At(p, "answer") /\ task[p].old # 0
                 THEN troubled \cup {token[task[p].old].family} ELSE troubled
  /\ UNCHANGED <<password, token, link, jar>>

(* The row as registerUser has just made it.                               *)
Init ==
  /\ password = 1 /\ token = <<>> /\ link = <<>>
  /\ jar = [b \in Browser |-> 0]
  /\ task = [p \in Proc |-> Idle]
  /\ owed = FALSE /\ troubled = {}

Begin(p, b) ==
  \/ FollowLink(p, b) \/ ChangePassword(p, b) \/ Login(p, b) \/ Logout(p, b)
  \/ BeginRefresh(p, b)

Continue(p) ==
  \/ ForgotPassword(p) \/ Unlink(p) \/ Link(p) \/ Consume(p)
  \/ SavePassword(p) \/ Revoke(p) \/ IssueSession(p) \/ Answer(p)
  \/ Mint(p) \/ Retire(p) \/ Nuke(p)

Next ==
  \E p \in Proc : Continue(p) \/ Die(p) \/ \E b \in Browser : Begin(p, b)

Spec == Init /\ [][Next]_vars

-----------------------------------------------------------------------------
(* Types; and every jti a cookie, a token or a request holds is a token's. *)
TypeOK ==
  /\ password \in Nat \ {0}
  /\ token \in Seq(RefreshToken) /\ link \in Seq(LinkState)
  /\ jar \in [Browser -> 0 .. Len(token)]
  /\ task \in [Proc -> Request \cup {Idle}]
  /\ owed \in BOOLEAN /\ troubled \subseteq Families
  /\ \A t \in DOMAIN token : token[t].replacedBy \in 0 .. Len(token)
                             /\ token[t].family \in 1 .. t
  /\ \A p \in Proc : task[p] # Idle =>
       /\ task[p].old \in 0 .. Len(token) /\ task[p].new \in 0 .. Len(token)
       /\ task[p].link \in 0 .. Len(link)
       /\ task[p].step \in {"mint", "retire", "nuke"} => task[p].old # 0
       /\ task[p].step = "consume" => task[p].link # 0
       /\ task[p].step \notin {"unlink", "link"} => task[p].browser \in Browser

(* auth.service.ts:198-250: a password change ends every session.  One     *)
(* opened with an older password is still good only if its revocation is   *)
(* under way or was cut short, or if the request that opened or refreshed  *)
(* it was itself under way at the change.                                  *)
ResetEndsSessions ==
  \A t \in DOMAIN token :
    Live(t) /\ token[t].password < password =>
      token[t].late \/ owed \/ \E p \in Proc : At(p, "revoke")

(* auth.service.ts:378-405 with web/lib/api.ts:50-63: refreshing does not  *)
(* sign a browser out.  Unless its session was ended, its answer lost, or  *)
(* two tabs refreshed at once, the cookie of a browser that is not just    *)
(* refreshing is good, and no reuse is ever detected on it.                *)
RefreshKeepsSession ==
  \A b \in Browser :
    /\ jar[b] # 0 /\ token[jar[b]].family \notin troubled
    /\ ~\E p \in Proc : Refreshing(p, b)
    => Live(jar[b])
=============================================================================
