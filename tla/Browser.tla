------------------------------- MODULE Browser -------------------------------
(***************************************************************************)
(* The client's half of a session: the tabs of one browser share the refresh *)
(* cookie and keep an access token each (frontend/src/api/client.ts,         *)
(* stores/auth.ts, router.ts, core/security.py, core/deps.py).  The server's *)
(* half is Accounts: a call to /auth/refresh is the request of the same name *)
(* there, cut at the same awaits.  Requests and answers overtake each other  *)
(* and get lost.  An access token is named by the refresh token that was     *)
(* issued with it.                                                         *)
(***************************************************************************)
EXTENDS Accounts

CONSTANTS
    Tabs,
    First,         \* the refresh token of the sign-in that comes first (sign-in is not
                   \* among the Counted operations here)
    MaxLosses      \* BOUND on answers lost

ASSUME BrowserAssumption == First \in Sessions /\ MaxLosses \in Nat

Calls == Requests
Kinds == {"data", "settings", "restore", "login", "logout"}

VARIABLES
    jar,       \* the cookie cp_refresh
    dead,      \* access tokens that have expired
    tab,       \* per tab: accessToken, and whether the auth store has a user
    call,      \* what each call in flight has sent or received
    lost       \* ghost: refresh tokens in lost answers, or logged out by a call
               \* whose answer was lost

bvars == <<user, mail, session, counter, req, jar, dead, tab, call, lost>>
server == <<user, mail, session, counter, req>>

NoCall == [pc |-> "idle", kind |-> None, tab |-> None, retry |-> FALSE,
           access |-> None, cookie |-> None, got |-> None]
OutTab == [access |-> None, user |-> FALSE]

CallStep(c, from, changes) ==
    /\ call[c].pc = from
    /\ call' = [call EXCEPT ![c] = changes]
CallDone(c, from) == CallStep(c, from, NoCall)

MyTab(c) == call[c].tab

\* current_user accepts the access token of the call.
Accepted(c) == call[c].access # None /\ call[c].access \notin dead
-----------------------------------------------------------------------------
(* Sending                                                                 *)

\* Pages call the API for data, and for /auth/me to save or reload the user.
Send(c, t, kind) ==
    /\ kind \in {"data", "settings"} /\ tab[t].user
    /\ CallStep(c, "idle", [NoCall EXCEPT !.pc = "sent", !.kind = kind, !.tab = t,
                                          !.retry = TRUE, !.access = tab[t].access])
    /\ UNCHANGED <<server, jar, dead, tab, lost>>

\* A page load: memory is empty and restore() asks for a session.  (A reload in
\* the middle of a call is a lost answer and then a reload.)
Boot(c, t) ==
    /\ \A d \in Calls : MyTab(d) # t
    /\ tab' = [tab EXCEPT ![t] = OutTab]
    /\ CallStep(c, "idle", [NoCall EXCEPT !.pc = "refreshing", !.kind = "restore", !.tab = t,
                                          !.cookie = jar])
    /\ UNCHANGED <<server, jar, dead, lost>>

\* login() up to authenticate; the form is disabled while it is loading.
SignIn(c, t) ==
    /\ ~ tab[t].user
    /\ \A d \in Calls : MyTab(d) = t => call[d].kind # "login"
    /\ CallStep(c, "idle", [NoCall EXCEPT !.pc = "issuing", !.kind = "login", !.tab = t])
    /\ Ask(c, "login", 0)
    /\ UNCHANGED <<jar, dead, tab, lost>>

SignOut(c, t) ==
    /\ tab[t].user
    /\ CallStep(c, "idle", [NoCall EXCEPT !.pc = "leaving", !.kind = "logout", !.tab = t,
                                          !.cookie = jar])
    /\ UNCHANGED <<server, jar, dead, tab, lost>>
-----------------------------------------------------------------------------
(* The server, seen from the call                                          *)

\* POST /auth/refresh: a cookie that is not good is answered with 401.
RefreshArrives(c) ==
    LET k == call[c].cookie
    IN  /\ IF k # None /\ Live(k)
           THEN CallStep(c, "refreshing", [call[c] EXCEPT !.pc = "rotating"]) /\ RotateRead(c, k)
           ELSE CallStep(c, "refreshing", [call[c] EXCEPT !.pc = "refused"]) /\ UNCHANGED server
        /\ UNCHANGED <<jar, dead, tab, lost>>

RefreshAnswered(c) ==
    /\ RotateCommit(c)
    /\ CallStep(c, "rotating", [call[c] EXCEPT !.pc = "answered", !.got = Some(Unissued(session))])
    /\ UNCHANGED <<jar, dead, tab, lost>>

LoginAnswered(c) ==
    /\ Issue(c)
    /\ CallStep(c, "issuing", [call[c] EXCEPT !.pc = "answered", !.got = Some(Unissued(session))])
    /\ UNCHANGED <<jar, dead, tab, lost>>

\* The request dies on the server before its commit; the client sees a 5xx,
\* which refreshAccessToken does not tell from a 401.
RefreshFails(c) ==
    /\ CallStep(c, "rotating", [call[c] EXCEPT !.pc = "refused"])
    /\ Crash(c)
    /\ UNCHANGED <<jar, dead, tab, lost>>

\* POST /auth/logout
LogoutArrives(c) ==
    LET k == call[c].cookie
    IN  /\ CallStep(c, "leaving", [call[c] EXCEPT !.pc = "left"])
        /\ IF k # None /\ Valid(k) THEN Logout(c, k) ELSE UNCHANGED server
        /\ UNCHANGED <<jar, dead, tab, lost>>
-----------------------------------------------------------------------------
(* Receiving                                                               *)

\* send() is done, and so are login() and restore() once /auth/me has answered.
Succeed(c) ==
    /\ Accepted(c)
    /\ CallDone(c, "sent")
    /\ tab' = IF call[c].kind \in {"login", "restore"}
              THEN [tab EXCEPT ![MyTab(c)].user = TRUE] ELSE tab
    /\ UNCHANGED <<server, jar, dead, lost>>

\* send(): a 401 is worth a refresh once, and not under /auth/.
Rotates(c) == call[c].kind = "data" /\ call[c].retry

GetUnauthorized(c) ==
    /\ ~ Accepted(c) /\ Rotates(c)
    /\ CallStep(c, "sent", [call[c] EXCEPT !.pc = "refreshing", !.cookie = jar])
    /\ UNCHANGED <<server, jar, dead, tab, lost>>

\* What an error leaves behind: restore() forgets the user, logout() too.
AfterError(c) ==
    IF call[c].kind \in {"restore", "logout"} THEN [tab EXCEPT ![MyTab(c)] = OutTab] ELSE tab

GiveUp(c) ==
    /\ ~ Accepted(c) /\ ~ Rotates(c)
    /\ CallDone(c, "sent")
    /\ tab' = AfterError(c)
    /\ UNCHANGED <<server, jar, dead, lost>>

\* mutant: the rotated cookie is not kept
TakeTokens_no_cookie(c) ==
    LET s == call[c].got
    IN  /\ CallStep(c, "answered", [call[c] EXCEPT !.pc = "sent", !.retry = FALSE,
                                                   !.access = s, !.cookie = None, !.got = None])
        /\ jar' = jar
        /\ tab' = [tab EXCEPT ![MyTab(c)].access = s]
        /\ UNCHANGED <<server, dead, lost>>

\* Set-Cookie and the new access token; then the call goes out again, without
\* another retry, or login() and restore() ask for /auth/me.
TakeTokens(c) ==
    LET s == call[c].got
    IN  /\ CallStep(c, "answered", [call[c] EXCEPT !.pc = "sent", !.retry = FALSE,
                                                   !.access = s, !.cookie = None, !.got = None])
        /\ jar' = s
        /\ tab' = [tab EXCEPT ![MyTab(c)].access = s]
        /\ UNCHANGED <<server, dead, lost>>

\* The session is lost: the access token goes, and onUnauthorized pushes the login
\* page.  The store keeps its user, so beforeEach turns back from there and the
\* pages go on calling, without a token.
LoseSession(c) ==
    LET t == MyTab(c)
    IN  /\ CallDone(c, "refused")
        /\ tab' = IF call[c].kind = "restore" THEN AfterError(c)
                  ELSE [tab EXCEPT ![t].access = None]
        /\ UNCHANGED <<server, jar, dead, lost>>

\* delete_cookie, and the finally of logout()
Leave(c) ==
    /\ CallDone(c, "left")
    /\ jar' = None
    /\ tab' = [tab EXCEPT ![MyTab(c)] = OutTab]
    /\ UNCHANGED <<server, dead, lost>>

\* The connection breaks, before or after the server has done its part.
Lose(c) ==
    /\ call[c].pc \in {"sent", "refreshing", "answered", "refused", "leaving", "left"}
    /\ Cardinality(lost) < MaxLosses
    /\ CallDone(c, call[c].pc)
    /\ lost' = lost \cup ({call[c].got, IF call[c].pc = "left" THEN call[c].cookie ELSE None}
                         \ {None})
    /\ tab' = AfterError(c)
    /\ UNCHANGED <<server, jar, dead>>

\* fifteen minutes; only the tokens still in use are told apart
AccessExpires(s) ==
    /\ s \notin dead
    /\ (\E t \in Tabs : tab[t].access = s) \/ (\E c \in Calls : call[c].access = s)
    /\ dead' = dead \cup {s}
    /\ UNCHANGED <<server, jar, tab, call, lost>>

\* thirty days
CookieExpires(s) == s \in Aging /\ SessionExpires(s) /\ UNCHANGED <<jar, dead, tab, call, lost>>
-----------------------------------------------------------------------------
\* The user has registered, verified the address and signed in on one tab.
BrowserInit ==
    /\ user = [verified |-> TRUE, password |-> 0]
    /\ mail = [t \in MailTokens |-> None]
    /\ session = [s \in Sessions |-> IF s = First
                    THEN [revoked |-> FALSE, expired |-> FALSE, from |-> None, since |-> 0,
                          shared |-> FALSE]
                    ELSE None]
    /\ counter = [op \in Counted |-> [count |-> 0, expires |-> FALSE, orphan |-> FALSE]]
    /\ req = [r \in Requests |-> IdleReq]
    /\ jar = First /\ dead = {} /\ lost = {}
    /\ \E t \in Tabs : tab = [x \in Tabs |-> IF x = t
                                THEN [access |-> First, user |-> TRUE] ELSE OutTab]
    /\ call = [c \in Calls |-> NoCall]

BrowserNext ==
    \/ \E c \in Calls, t \in Tabs :
        \/ \E kind \in Kinds : Send(c, t, kind)
        \/ Boot(c, t) \/ SignIn(c, t) \/ SignOut(c, t)
    \/ \E c \in Calls :
        \/ RefreshArrives(c) \/ RefreshAnswered(c) \/ LoginAnswered(c) \/ RefreshFails(c)
        \/ LogoutArrives(c)
        \/ Succeed(c) \/ GetUnauthorized(c) \/ GiveUp(c) \/ TakeTokens(c) \/ LoseSession(c)
        \/ Leave(c) \/ Lose(c)
    \/ \E s \in Sessions : AccessExpires(s) \/ CookieExpires(s)

BrowserSpec == BrowserInit /\ [][BrowserNext]_bvars
-----------------------------------------------------------------------------
BrowserTypeOK ==
    /\ TypeOK
    /\ jar \in Sessions \cup {None} /\ dead \in SUBSET Sessions /\ lost \in SUBSET Sessions
    /\ tab \in [Tabs -> [access : Sessions \cup {None}, user : BOOLEAN]]
    /\ call \in [Calls -> [pc : {"idle", "sent", "refreshing", "rotating", "issuing", "answered",
                                 "refused", "leaving", "left"},
                           kind : Kinds \cup {None}, tab : Tabs \cup {None}, retry : BOOLEAN,
                           access : Sessions \cup {None}, cookie : Sessions \cup {None},
                           got : Sessions \cup {None}]]

\* A successor of k, or the end of k, is on its way to the browser.
AnswerPending(k) ==
    \E c \in Calls :
        \/ call[c].pc = "answered" /\ session[call[c].got].from = k
        \/ call[c].pc = "left" /\ call[c].cookie = k

\* The browser never learnt what became of k.
Mislaid(k) == k \in lost \/ \E s \in lost : session[s].from = k

\* The cookie is never one that the server has long replaced: however many tabs
\* and calls refresh at once, and in whatever order their answers come back, it
\* is good, or has expired, or its successor is on the way or was lost.  So a
\* user is sent to log in again only by a race that is still going on.
CookieAccountedFor ==
    /\ BrowserTypeOK
    /\ jar # None =>
        Live(jar) \/ session[jar].expired \/ AnswerPending(jar) \/ Mislaid(jar)
=============================================================================
