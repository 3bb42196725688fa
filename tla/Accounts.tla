------------------------------ MODULE Accounts ------------------------------
(***************************************************************************)
(* One e-mail address from registration to password reset: the account      *)
(* (services/auth.py, api/v1/auth.py), the links mailed to it, the refresh  *)
(* tokens that carry its sessions, and the rate limits in front of it       *)
(* (services/ratelimit.py).  A request is cut at its awaits: what it read   *)
(* may be stale when it commits.                                            *)
(*                                                                         *)
(* Postgres would make a second writer of a token row wait for the first,   *)
(* and then let it overwrite; without the wait the outcomes are the same.   *)
(***************************************************************************)
EXTENDS Naturals, FiniteSets

CONSTANTS
    None,          \* no row, no token
    Gate,          \* settings.require_email_verification
    MailTokens,    \* digests in email_tokens
    Sessions,      \* digests in refresh_tokens
    Requests,      \* API requests in flight at once
    Counted,       \* BOUND: the limited operations that are counted
    Limit,         \* how often each of them may be called per window
    Guesses,       \* BOUND: the passwords a login is tried with
    Aging          \* BOUND: the tokens that may expire

Limited   == {"login", "resend", "forgot"}
Purposes  == {"verify", "reset"}
Passwords == Nat    \* the password of the registration, then one for each reset

\* What this component uses of a row of users, email_tokens and refresh_tokens.
UserRow    == [verified : BOOLEAN, password : Passwords]
MailRow    == [purpose : Purposes, used : BOOLEAN, expired : BOOLEAN, uses : Nat,
               shared : BOOLEAN]
SessionRow == [revoked : BOOLEAN, expired : BOOLEAN, from : Sessions \cup {None},
               since : Nat, shared : BOOLEAN]

ASSUME AccountsAssumption ==
    /\ Gate \in BOOLEAN
    /\ IsFiniteSet(Sessions) /\ IsFiniteSet(Requests)
    /\ Counted \subseteq Limited /\ Limit \in [Counted -> Nat \ {0}]
    /\ Guesses \subseteq Passwords /\ Aging \subseteq MailTokens \cup Sessions
    /\ None \notin MailTokens \cup Sessions /\ None \notin Passwords /\ None \notin Limited
    /\ None \notin UserRow \cup MailRow \cup SessionRow

VARIABLES
    user,       \* the row of the address in users, None before registration
    mail,       \* table email_tokens
    session,    \* table refresh_tokens
    counter,    \* redis rl:{operation}:{address}
    req         \* what each request holds in memory

vars == <<user, mail, session, counter, req>>

IdleReq == [pc |-> "idle", op |-> None, token |-> None, password |-> None, seen |-> {}]

Usable(t) == mail[t] # None /\ ~ mail[t].used /\ ~ mail[t].expired
Valid(s)  == session[s] # None /\ ~ session[s].revoked
Live(s)   == Valid(s) /\ ~ session[s].expired

Rotating(s)  == {r \in Requests : req[r].pc = "rotating" /\ req[r].token = s}
Consuming(t) == {r \in Requests : req[r].pc \in {"verifying", "resetting", "revoking"}
                                  /\ req[r].token = t}

Step(r, from, changes) ==
    /\ req[r].pc = from
    /\ req' = [req EXCEPT ![r] = changes]
Done(r, from) == Step(r, from, IdleReq)

\* secrets.token_urlsafe never repeats: any unused digest will do.
Unissued(table) == {t \in DOMAIN table : table[t] = None}
Some(tokens)    == CHOOSE t \in tokens : TRUE

\* _issue_email_token; the mail itself goes to the outbox in the same transaction.
WithMail(purpose) ==
    [mail EXCEPT ![Some(Unissued(mail))] =
        [purpose |-> purpose, used |-> FALSE, expired |-> FALSE, uses |-> 0, shared |-> FALSE]]

\* Resets begun so far: those committed, and those that have chosen the tokens
\* they will revoke.
ResetsBegun == user.password + Cardinality({r \in Requests : req[r].pc = "revoking"})

\* issue_tokens.  from (the token it replaces), since and shared are ghosts.
NewSession(from) ==
    [revoked |-> FALSE, expired |-> FALSE, from |-> from, since |-> ResetsBegun,
     shared |-> FALSE]
-----------------------------------------------------------------------------
(* Rate limits                                                             *)

\* enforce, up to INCR.  BOUND: a count above the limit is not told apart from
\* the next one.  Resending is refused at once while the gate is off.
Incr(r, op, password) ==
    LET count == counter[op].count
        next  == CASE count = 0                     -> [IdleReq EXCEPT !.pc = "expiring"]
                   [] count \in 1 .. Limit[op] - 1 -> [IdleReq EXCEPT !.pc = "allowed"]
                   [] OTHER                         -> IdleReq
    IN  /\ op \in Counted /\ (op = "login") = (password # None)
        /\ op = "resend" => Gate
        /\ Step(r, "idle", IF next = IdleReq THEN IdleReq
                           ELSE [next EXCEPT !.op = op, !.password = password])
        /\ counter' = [counter EXCEPT ![op].count = IF count > Limit[op] THEN @ ELSE @ + 1]
        /\ UNCHANGED <<user, mail, session>>

\* mutant: the window is not given an end
SetExpiry_never(r) ==
    /\ Step(r, "expiring", [req[r] EXCEPT !.pc = "allowed"])
    /\ UNCHANGED <<user, mail, session, counter>>

\* enforce, EXPIRE: sent only by the request that counted 1
SetExpiry(r) ==
    /\ Step(r, "expiring", [req[r] EXCEPT !.pc = "allowed"])
    /\ counter' = [counter EXCEPT ![req[r].op].expires = TRUE]
    /\ UNCHANGED <<user, mail, session>>

WindowEnds(op) ==
    /\ counter[op].expires
    /\ counter' = [counter EXCEPT ![op] = [count |-> 0, expires |-> FALSE, orphan |-> FALSE]]
    /\ UNCHANGED <<user, mail, session, req>>
-----------------------------------------------------------------------------
(* Registration and sign-in                                                *)

\* register, one transaction; a second one for the same address meets the
\* unique index and changes nothing.  With the gate off the request goes on to
\* issue_tokens, in a transaction of its own.
Register(r) ==
    /\ user = None
    /\ user' = [verified |-> ~ Gate, password |-> 0]
    /\ IF Gate
       THEN /\ Unissued(mail) # {} /\ mail' = WithMail("verify")
            /\ req[r].pc = "idle" /\ UNCHANGED req
       ELSE /\ Step(r, "idle", [IdleReq EXCEPT !.pc = "issuing"])
            /\ UNCHANGED mail
    /\ UNCHANGED <<session, counter>>

\* mutant: the password is enough
Admits_unverified(password) == user # None /\ user.password = password

\* authenticate, after the limit; is_active is never cleared by this code
Admits(password) ==
    /\ user # None /\ user.password = password
    /\ Gate => user.verified

\* What login, resend_verification and request_password_reset do next, once they
\* have read the account.
AfterLookUp(op, password) ==
    CASE op = "login" /\ Admits(password) ->
            [IdleReq EXCEPT !.pc = "issuing"]
      [] op = "resend" /\ user # None /\ ~ user.verified ->
            [IdleReq EXCEPT !.pc = "mailing", !.op = op]
      [] op = "forgot" /\ user # None ->
            [IdleReq EXCEPT !.pc = "mailing", !.op = op]
      [] OTHER -> IdleReq

LookUp(r) ==
    /\ Step(r, "allowed", AfterLookUp(req[r].op, req[r].password))
    /\ UNCHANGED <<user, mail, session, counter>>

\* An operation that is not counted here looks up the account at once.
Ask(r, op, password) ==
    /\ op \in Limited \ Counted /\ (op = "login") = (password # None)
    /\ op = "resend" => Gate
    /\ AfterLookUp(op, password) # IdleReq
    /\ Step(r, "idle", AfterLookUp(op, password))
    /\ UNCHANGED <<user, mail, session, counter>>

\* issue_tokens for a login or an ungated registration
Issue(r) ==
    /\ Unissued(session) # {}
    /\ Done(r, "issuing")
    /\ session' = [session EXCEPT ![Some(Unissued(session))] =
                     NewSession(None)]
    /\ UNCHANGED <<user, mail, counter>>

SendMail(r) ==
    /\ Unissued(mail) # {}
    /\ Done(r, "mailing")
    /\ mail' = WithMail(IF req[r].op = "resend" THEN "verify" ELSE "reset")
    /\ UNCHANGED <<user, session, counter>>
-----------------------------------------------------------------------------
(* Mailed links                                                            *)

\* mutant: used_at is not looked at
ReadLink_any(r, t) ==
    /\ mail[t] # None /\ ~ mail[t].expired
    /\ Step(r, "idle", [IdleReq EXCEPT !.token = t,
                            !.pc = IF mail[t].purpose = "verify" THEN "verifying" ELSE "resetting"])
    /\ mail' = [mail EXCEPT ![t].shared = @ \/ Consuming(t) # {}]
    /\ UNCHANGED <<user, session, counter>>

\* _consume_token: the row is checked here and marked by the commit
ReadLink(r, t) ==
    /\ Usable(t)
    /\ Step(r, "idle", [IdleReq EXCEPT !.token = t,
                            !.pc = IF mail[t].purpose = "verify" THEN "verifying" ELSE "resetting"])
    /\ mail' = [mail EXCEPT ![t].shared = @ \/ Consuming(t) # {}]
    /\ UNCHANGED <<user, session, counter>>

Used(t) == [mail EXCEPT ![t].used = TRUE, ![t].uses = @ + 1]

VerifyCommit(r) ==
    /\ Done(r, "verifying")
    /\ mail' = Used(req[r].token)
    /\ user' = [user EXCEPT !.verified = TRUE]
    /\ UNCHANGED <<session, counter>>

\* mutant: only the tokens of logins are revoked, not those that replaced them
ResetRevoke_roots(r) ==
    /\ Step(r, "resetting", [req[r] EXCEPT !.pc = "revoking",
                                !.seen = {s \in Sessions : Valid(s) /\ session[s].from = None}])
    /\ UNCHANGED <<user, mail, session, counter>>

\* reset_password, its UPDATE: the refresh tokens this statement can see
ResetRevoke(r) ==
    /\ Step(r, "resetting", [req[r] EXCEPT !.pc = "revoking",
                                           !.seen = {s \in Sessions : Valid(s)}])
    /\ UNCHANGED <<user, mail, session, counter>>

\* reset_password, its commit: password, verification and revocation together
ResetCommit(r) ==
    /\ Done(r, "revoking")
    /\ mail' = Used(req[r].token)
    /\ user' = [verified |-> TRUE, password |-> (user.password + 1)]
    /\ session' = [s \in Sessions |-> IF s \in req[r].seen
                                      THEN [session[s] EXCEPT !.revoked = TRUE] ELSE session[s]]
    /\ UNCHANGED <<counter>>

LinkExpires(t) ==
    /\ Usable(t)
    /\ mail' = [mail EXCEPT ![t].expired = TRUE]
    /\ UNCHANGED <<user, session, counter, req>>
-----------------------------------------------------------------------------
(* Refresh tokens                                                          *)

\* rotate_refresh reads the row of the token presented ...
RotateRead(r, s) ==
    /\ Live(s)
    /\ Step(r, "idle", [IdleReq EXCEPT !.pc = "rotating", !.token = s])
    /\ session' = [session EXCEPT ![s].shared = @ \/ Rotating(s) # {}]
    /\ UNCHANGED <<user, mail, counter>>

\* ... and commits its revocation with the row of the next one.
RotateCommit(r) ==
    /\ Unissued(session) # {}
    /\ Done(r, "rotating")
    /\ session' = [session EXCEPT ![req[r].token].revoked = TRUE,
                                  ![Some(Unissued(session))] = NewSession(req[r].token)]
    /\ UNCHANGED <<user, mail, counter>>

\* revoke_refresh, which does not look at the expiry.  Its read and its commit are
\* one step: revoking a token that was revoked meanwhile changes nothing.
Logout(r, s) ==
    /\ Valid(s) /\ req[r].pc = "idle"
    /\ session' = [session EXCEPT ![s].revoked = TRUE]
    /\ UNCHANGED <<user, mail, counter, req>>

SessionExpires(s) ==
    /\ Live(s)
    /\ session' = [session EXCEPT ![s].expired = TRUE]
    /\ UNCHANGED <<user, mail, counter, req>>

\* The process dies, or the client hangs up: the transaction is rolled back.
\* (Ghost: a count of 1 whose EXPIRE was never sent.)
Crash(r) ==
    /\ req[r].pc # "idle"
    /\ req' = [req EXCEPT ![r] = IdleReq]
    /\ counter' = IF req[r].pc = "expiring"
                  THEN [counter EXCEPT ![req[r].op].orphan = TRUE] ELSE counter
    /\ UNCHANGED <<user, mail, session>>
-----------------------------------------------------------------------------
Init ==
    /\ user = None
    /\ mail = [t \in MailTokens |-> None]
    /\ session = [s \in Sessions |-> None]
    /\ counter = [op \in Counted |-> [count |-> 0, expires |-> FALSE, orphan |-> FALSE]]
    /\ req = [r \in Requests |-> IdleReq]

Finish(r) ==
    \/ SetExpiry(r) \/ LookUp(r) \/ Issue(r) \/ SendMail(r)
    \/ VerifyCommit(r) \/ ResetRevoke(r) \/ ResetCommit(r)
    \/ RotateCommit(r)

Next ==
    \/ \E r \in Requests :
        \/ Register(r) \/ Finish(r) \/ Crash(r)
        \/ \E op \in Limited, p \in Guesses \cup {None} : Incr(r, op, p) \/ Ask(r, op, p)
        \/ \E t \in MailTokens : ReadLink(r, t)
        \/ \E s \in Sessions : RotateRead(r, s) \/ Logout(r, s)
    \/ \E op \in Counted : WindowEnds(op)
    \/ \E t \in MailTokens \cap Aging : LinkExpires(t)
    \/ \E s \in Sessions \cap Aging : SessionExpires(s)

Spec == Init /\ [][Next]_vars

-----------------------------------------------------------------------------
ReqState == [pc : {"idle", "expiring", "allowed", "issuing", "mailing", "verifying",
                   "resetting", "revoking", "rotating"},
             op : Limited \cup {None}, token : MailTokens \cup Sessions \cup {None},
             password : Passwords \cup {None}, seen : SUBSET Sessions]

TypeOK ==
    /\ user \in UserRow \cup {None}
    /\ mail \in [MailTokens -> MailRow \cup {None}]
    /\ session \in [Sessions -> SessionRow \cup {None}]
    /\ counter \in [Counted -> [count : Nat, expires : BOOLEAN, orphan : BOOLEAN]]
    /\ req \in [Requests -> ReqState]
-----------------------------------------------------------------------------
(* Single use.  A mailed link that has expired or been used is closed; so is *)
(* a refresh token that has expired, been rotated, logged out or reset away. *)

MailState(t)  == IF mail[t] = None THEN "unissued" ELSE IF Usable(t) THEN "open" ELSE "closed"
MailUses(t)   == IF mail[t] = None THEN 0 ELSE mail[t].uses
MailShared(t) == mail[t] # None /\ mail[t].shared

MailLinks == INSTANCE OneTimeToken WITH
    Tokens <- MailTokens, Readers <- Requests,
    state <- [t \in MailTokens |-> MailState(t)],
    holders <- [t \in MailTokens |-> Consuming(t)],
    uses <- [t \in MailTokens |-> MailUses(t)],
    shared <- [t \in MailTokens |-> MailShared(t)]

SessionState(s)  == IF session[s] = None THEN "unissued" ELSE IF Live(s) THEN "open" ELSE "closed"
Successors(s)    == {c \in Sessions : session[c] # None /\ session[c].from = s}
SessionShared(s) == session[s] # None /\ session[s].shared

RefreshTokens == INSTANCE OneTimeToken WITH
    Tokens <- Sessions, Readers <- Requests,
    state <- [s \in Sessions |-> SessionState(s)],
    holders <- [s \in Sessions |-> Rotating(s)],
    uses <- [s \in Sessions |-> Cardinality(Successors(s))],
    shared <- [s \in Sessions |-> SessionShared(s)]

\* Mailed links and refresh tokens are single use ("single use", D10; "rotating
\* refresh", D5), up to requests that overlap: nothing that happens to them -
\* a repeated request, a reset, a logout, an expiry, a crash - gives a token a
\* second life.
SingleUse == MailLinks!Spec /\ RefreshTokens!Spec

\* With the gate on, whoever has a session has shown that the mailbox is theirs,
\* whichever of register, login, verify and reset ran into each other (D10).
SessionsAreVerified ==
    /\ TypeOK
    /\ (\E s \in Sessions : session[s] # None) => user # None /\ user.verified

\* A password reset ends every session that was there before it chose what to
\* revoke.  ("All earlier sessions were closed", says the endpoint; one that a
\* login or a rotation was just issuing lives on.)
ResetEndsEarlierSessions ==
    \A s \in Sessions : Valid(s) => session[s].since >= user.password

\* A limit blocks for a window and no longer: a counter has an end, or the
\* request that started it is about to give it one.  Only if that request dies
\* between INCR and EXPIRE is the address locked out for good.
LimitsHaveAnEnd ==
    \A op \in Counted : counter[op].count > 0 =>
        \/ counter[op].expires \/ counter[op].orphan
        \/ \E r \in Requests : req[r].pc = "expiring" /\ req[r].op = op
=============================================================================
