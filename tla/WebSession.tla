----------------------------- MODULE WebSession -----------------------------
(***************************************************************************)
(* One tab of the web client and its session: the route guard              *)
(* (web/proxy.ts), the layouts that gate the dashboard and the admin area, *)
(* the sign-in pages, and apiFetch with its shared refresh (lib/api.ts).   *)
(*                                                                         *)
(* Next.js asks the guard for every page, on a click as on a full load; a  *)
(* full load also empties the query cache.  Of the API the tab only sees   *)
(* answers: what a refresh does to the tokens is module Sessions.          *)
(***************************************************************************)
EXTENDS Naturals, FiniteSets

CONSTANTS
  Query,      \* what a dashboard page asks the API for besides /auth/me
  MaxHops,    \* redirects after which a browser gives up
  MaxVisits   \* bound: how often somebody opens a page or clicks

ASSUME BoundAssumption == MaxHops \in Nat /\ MaxVisits \in Nat

VARIABLES
  user,       \* the account: its role, and whether its address is verified
  access,     \* the access cookie: none, good, or there with an expired token
  refresh,    \* the refresh cookie: none, live, or of an ended session
  at,         \* the page that is shown
  going,      \* the page that was asked for, and its ?next=
  hops,       \* the redirects on the way there
  query,      \* where each query of the cache has got to
  known,      \* the account in the answer to /auth/me
  refreshing, \* a refresh is in flight, and everybody waits for it
  leaving,    \* a layout's call of /auth/logout is in flight
  faulty,     \* history: a refresh or a layout's logout failed
  visits      \* how often a page was opened

session == <<user, access, refresh>>
nav == <<at, going, hops>>
cache == <<query, known, refreshing>>
vars == <<session, nav, cache, leaving, faulty, visits>>

Pages == {"/", "/login", "/register", "/verify-email", "/forgot-password",
          "/dashboard", "/admin"}
PublicExact == {"/", "/login", "/register", "/verify-email"}
AuthOnly == {"/login", "/register"}
RefreshCookiePath == {"/api/v1/auth"}
None == "none"
Nowhere == [path |-> None, next |-> None]

Me == "me"
Queries == Query \cup {Me}
Users == [admin: BOOLEAN, verified: BOOLEAN]
Result == {"off", "sent", "refused", "retried", "data", "unauthorized", "failed"}
Pending(q) == query[q] \in {"sent", "refused", "retried"}

-----------------------------------------------------------------------------
(* A bug RedirectsEnd must notice, in place of IsPublic: nobody thought of *)
(* the sign-in page when the list was made.                                *)
IsPublicForgotten(path) == path \in PublicExact \ {"/login"}

(* proxy.ts.  A page request carries the access cookie, whose path is /.   *)
Stay(p) == [kind |-> "page", path |-> p, next |-> None]
Redirect(p, n) == [kind |-> "redirect", path |-> p, next |-> n]

HasAccess == access # None
HasRefresh(path) == refresh # None /\ path \in RefreshCookiePath
HasSession(path) == HasAccess \/ HasRefresh(path)
IsPublic(path) == path \in PublicExact
SafeNext(r) == IF r.next # None THEN r.next ELSE "/dashboard"

(* fetchRole: null for a 401, unknown when the API does not answer.        *)
Roles == {"unknown", IF access # "good" THEN "null"
                     ELSE IF user.admin THEN "admin" ELSE "user"}
AdminAnswer(path, role) ==
  CASE role = "null" /\ ~HasRefresh(path) -> Redirect("/login", path)
    [] role = "user"                      -> Redirect("/dashboard", None)
    [] OTHER                              -> Stay(path)

Proxy(r, role) ==
  CASE ~HasSession(r.path) /\ ~IsPublic(r.path)  -> Redirect("/login", r.path)
    [] HasSession(r.path) /\ r.path \in AuthOnly -> Redirect(SafeNext(r), None)
    [] r.path = "/admin" /\ HasAccess            -> AdminAnswer(r.path, role)
    [] OTHER                                     -> Stay(r.path)

-----------------------------------------------------------------------------
(* Bugs the properties must notice, each in place of one definition below; *)
(* no behaviour of Spec uses them.                                         *)

(* The layout leaves the cookies as they are.                              *)
LogoutKeepsCookies ==
  /\ leaving
  /\ leaving' = FALSE
  /\ going' = [path |-> "/login", next |-> None] /\ hops' = 0
  /\ UNCHANGED <<session, at, cache, faulty, visits>>

(* A 401 is an answer like any other: nothing is refreshed.                *)
RefusalsAreFinal(q) ==
  /\ query[q] = "sent" /\ access # "good"
  /\ query' = [query EXCEPT ![q] = "unauthorized"]
  /\ UNCHANGED <<session, nav, known, refreshing, leaving, faulty, visits>>

(* Only one of those who wait for the refresh is asked again.              *)
SettleForOne(ok) ==
  /\ refreshing' = FALSE
  /\ \E first \in Queries :
       query' = [q \in Queries |-> IF query[q] # "refused" THEN query[q]
                                  ELSE IF ok /\ q = first THEN "retried" ELSE "unauthorized"]
  /\ UNCHANGED <<user, refresh, nav, known, leaving, visits>>

-----------------------------------------------------------------------------
(* What a page asks for when it is mounted.  What the cache has is used,   *)
(* until it is stale; what it has no answer for is asked for again.        *)
Asks(path) ==
  CASE path = "/dashboard"    -> Queries
    [] path \in {"/admin", "/verify-email"} -> {Me}
    [] OTHER                  -> {}
Mount(path, stale) ==
  query' = [q \in Queries |->
    IF q \in Asks(path) /\ (query[q] \in {"off", "unauthorized", "failed"} \/ q \in stale)
    THEN "sent" ELSE query[q]]

Visit(path, reload) ==
  /\ going = Nowhere /\ ~leaving /\ visits < MaxVisits
  /\ going' = [path |-> path, next |-> None] /\ hops' = 0
  /\ visits' = visits + 1
  /\ query' = IF reload THEN [q \in Queries |-> "off"] ELSE query
  /\ refreshing' = (refreshing /\ ~reload)
  /\ at' = IF reload THEN None ELSE at
  /\ UNCHANGED <<session, known, leaving, faulty>>

Guard ==
  /\ going # Nowhere
  /\ \E role \in Roles, stale \in SUBSET {q \in Queries : query[q] = "data"} :
       LET answer == Proxy(going, role) IN
       \/ /\ answer.kind = "page"
          /\ at' = answer.path /\ going' = Nowhere /\ hops' = 0
          /\ Mount(answer.path, stale)
       \/ /\ answer.kind = "redirect" /\ stale = {} /\ hops < MaxHops
          /\ going' = [path |-> answer.path, next |-> answer.next]
          /\ hops' = hops + 1
          /\ UNCHANGED <<at, query>>
       \/ /\ answer.kind = "redirect" /\ stale = {} /\ hops = MaxHops
          /\ at' = "error" /\ going' = Nowhere /\ hops' = 0
          /\ UNCHANGED query
  /\ UNCHANGED <<session, known, refreshing, leaving, faulty, visits>>

-----------------------------------------------------------------------------
(* apiFetch: a 401 waits for the shared refresh, and is asked once more.   *)
AnswerQuery(q) ==
  /\ query[q] \in {"sent", "retried"} /\ access = "good"
  /\ query' = [query EXCEPT ![q] = "data"]
  /\ known' = IF q = Me THEN user ELSE known
  /\ UNCHANGED <<session, nav, refreshing, leaving, faulty, visits>>

RefuseQuery(q) ==
  /\ query[q] = "sent" /\ access # "good"
  /\ query' = [query EXCEPT ![q] = "refused"]
  /\ UNCHANGED <<session, nav, known, refreshing, leaving, faulty, visits>>

RefuseRetry(q) ==
  /\ query[q] = "retried" /\ access # "good"
  /\ query' = [query EXCEPT ![q] = "unauthorized"]
  /\ UNCHANGED <<session, nav, known, refreshing, leaving, faulty, visits>>

FailQuery(q) ==
  /\ query[q] \in {"sent", "retried"}
  /\ query' = [query EXCEPT ![q] = "failed"]
  /\ UNCHANGED <<session, nav, known, refreshing, leaving, faulty, visits>>

RefreshSession ==
  /\ \E q \in Queries : query[q] = "refused"
  /\ ~refreshing
  /\ refreshing' = TRUE
  /\ UNCHANGED <<session, nav, query, known, leaving, faulty, visits>>

Settle(ok) ==
  /\ refreshing' = FALSE
  /\ query' = [q \in Queries |-> IF query[q] # "refused" THEN query[q]
                                 ELSE IF ok THEN "retried" ELSE "unauthorized"]
  /\ UNCHANGED <<user, refresh, nav, known, leaving, visits>>
Refreshed ==
  /\ refreshing
  /\ \/ refresh = "live" /\ access' = "good" /\ Settle(TRUE)
     \/ refresh # "live" /\ UNCHANGED access /\ Settle(FALSE)
  /\ UNCHANGED faulty
(* It is throttled, or the API is not there.                               *)
RefreshFails ==
  /\ refreshing
  /\ faulty' = TRUE
  /\ Settle(FALSE)
  /\ UNCHANGED access

-----------------------------------------------------------------------------
(* The effects of (dashboard)/layout.tsx, (admin)/layout.tsx and           *)
(* verify-email-client.tsx.                                                *)
Replace(path) ==
  /\ going = Nowhere
  /\ going' = [path |-> path, next |-> None] /\ hops' = 0
  /\ UNCHANGED <<session, at, cache, leaving, faulty, visits>>

LayoutLogsOut ==
  /\ at \in {"/dashboard", "/admin"} /\ query[Me] = "unauthorized"
  /\ going = Nowhere /\ ~leaving
  /\ leaving' = TRUE
  /\ UNCHANGED <<session, nav, cache, faulty, visits>>

LogoutAnswered ==
  /\ leaving
  /\ leaving' = FALSE
  /\ access' = None /\ refresh' = None
  /\ going' = [path |-> "/login", next |-> None] /\ hops' = 0
  /\ UNCHANGED <<user, at, cache, faulty, visits>>

LogoutFails ==
  /\ leaving
  /\ leaving' = FALSE /\ faulty' = TRUE
  /\ going' = [path |-> "/login", next |-> None] /\ hops' = 0
  /\ UNCHANGED <<session, at, cache, visits>>

SendToVerify ==
  at = "/dashboard" /\ query[Me] = "data" /\ ~known.verified /\ Replace("/verify-email")
SendToDashboard ==
  /\ query[Me] = "data"
  /\ \/ at = "/verify-email" /\ known.verified
     \/ at = "/admin" /\ ~known.admin
  /\ Replace("/dashboard")

-----------------------------------------------------------------------------
(* The forms.  A good sign-in loads the next page afresh; a registration   *)
(* and a link of a mail do not.                                            *)
SignedIn(path, u, reload) ==
  /\ access' = "good" /\ refresh' = "live" /\ user' = u
  /\ going' = [path |-> path, next |-> None] /\ hops' = 0
  /\ query' = IF reload THEN [q \in Queries |-> "off"] ELSE [query EXCEPT ![Me] = "data"]
  /\ known' = u
  /\ UNCHANGED <<at, refreshing, leaving, faulty, visits>>

Login ==
  at = "/login" /\ going = Nowhere
  /\ \E path \in {"/dashboard", "/admin"} : SignedIn(path, user, TRUE)
Register ==
  /\ at = "/register" /\ going = Nowhere
  /\ SignedIn("/verify-email", [admin |-> FALSE, verified |-> FALSE], FALSE)

VerifyEmail ==
  /\ at = "/verify-email" /\ going = Nowhere /\ ~user.verified
  /\ user' = [user EXCEPT !.verified = TRUE]
  /\ known' = user'
  /\ query' = [query EXCEPT ![Me] = "data"]
  /\ going' = [path |-> "/dashboard", next |-> None] /\ hops' = 0
  /\ UNCHANGED <<access, refresh, at, refreshing, leaving, faulty, visits>>

Logout ==
  /\ at \in {"/dashboard", "/admin"} /\ going = Nowhere /\ ~leaving
  /\ access' = None /\ refresh' = None
  /\ query' = [q \in Queries |-> "off"]
  /\ going' = [path |-> "/login", next |-> None] /\ hops' = 0
  /\ UNCHANGED <<user, at, known, refreshing, leaving, faulty, visits>>

(* The access token is good for 15 minutes, its cookie for an hour: longer *)
(* than a retried call or a row of redirects takes.  The session ends      *)
(* after a week unused, or somewhere else.                                 *)
Age ==
  /\ hops = 0
  /\ \/ /\ access = "good" /\ access' = "expired" /\ UNCHANGED refresh
        /\ \A q \in Queries : query[q] # "retried"
     \/ access = "expired" /\ access' = None /\ UNCHANGED refresh
     \/ refresh = "live" /\ refresh' = "ended" /\ UNCHANGED access
  /\ UNCHANGED <<user, nav, cache, leaving, faulty, visits>>

Init ==
  /\ user \in Users
  /\ access = None /\ refresh = None
  /\ at = None /\ going = Nowhere /\ hops = 0
  /\ query = [q \in Queries |-> "off"] /\ known = user /\ refreshing = FALSE
  /\ leaving = FALSE /\ faulty = FALSE /\ visits = 0

Effects ==
  \/ Guard \/ RefreshSession \/ Refreshed \/ LayoutLogsOut \/ LogoutAnswered
  \/ SendToVerify \/ SendToDashboard
  \/ \E q \in Queries : AnswerQuery(q) \/ RefuseQuery(q) \/ RefuseRetry(q)
Choices ==
  \/ \E path \in Pages, reload \in BOOLEAN : Visit(path, reload)
  \/ Login \/ Register \/ VerifyEmail \/ Logout
Faults == Age \/ RefreshFails \/ LogoutFails \/ \E q \in Queries : FailQuery(q)

Next == Effects \/ Choices \/ Faults

(* A tab that is open goes on: its requests are answered, its effects run. *)
Fairness ==
  /\ WF_vars(Guard) /\ WF_vars(RefreshSession) /\ WF_vars(Refreshed)
  /\ WF_vars(LayoutLogsOut) /\ WF_vars(LogoutAnswered)
  /\ WF_vars(SendToVerify) /\ WF_vars(SendToDashboard)
  /\ \A q \in Queries :
       WF_vars(AnswerQuery(q)) /\ WF_vars(RefuseQuery(q)) /\ WF_vars(RefuseRetry(q))
Spec == Init /\ [][Next]_vars /\ Fairness

-----------------------------------------------------------------------------
TypeOK ==
  /\ user \in Users /\ known \in Users
  /\ access \in {None, "good", "expired"} /\ refresh \in {None, "live", "ended"}
  /\ at \in Pages \cup {None, "error"}
  /\ going \in [path: Pages, next: Pages \cup {None}] \cup {Nowhere}
  /\ hops \in 0 .. MaxHops /\ visits \in 0 .. MaxVisits
  /\ query \in [Queries -> Result]
  /\ {refreshing, leaving, faulty} \subseteq BOOLEAN

(* proxy.ts with both layouts: wherever the tab is sent, and whatever      *)
(* expires meanwhile, the redirects end at a page, except at /admin, which *)
(* an expired access token keeps sending to /login and back.               *)
RedirectsEnd ==
  [][at' = "error" /\ at # "error" =>
       "/admin" \in {going.path, going.next}]_vars

(* (dashboard)/layout.tsx:17-21: the layouts sign nobody out whose session *)
(* is alive, unless the refresh of it failed.                              *)
LiveSessionIsKept ==
  [][LogoutAnswered => refresh # "live" \/ faulty]_vars

(* (dashboard)/layout.tsx:19: a visitor whose session has ended is taken   *)
(* off the dashboard, and the guard does not bounce them back to it, unless*)
(* the API cannot be reached.                                              *)
EndedLeavesDashboard ==
  (at = "/dashboard" /\ query[Me] = "unauthorized") ~> (at # "/dashboard" \/ query[Me] = "failed" \/ faulty)

(* lib/api.ts:66-88: a live session whose access token has expired gets    *)
(* what it asks for, however many queries meet the 401 at once, unless the *)
(* page is left or the network fails.                                      *)
LiveSessionIsServed ==
  \A q \in Queries :
    (query[q] = "refused" /\ refresh = "live")
      ~> (query[q] \in {"data", "failed", "off"} \/ refresh # "live" \/ faulty)
=============================================================================
