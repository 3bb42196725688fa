--------------------------- MODULE AccountsProofs ---------------------------
(***************************************************************************)
(* What Accounts and Browser keep for any number of sessions, mailed links, *)
(* requests, tabs and limits: who has a session has verified the address, a *)
(* reset ends what was there before it, limits end, tokens are single use, *)
(* and the cookie of a browser is accounted for.                           *)
(***************************************************************************)
EXTENDS Browser, FiniteSetTheorems, TLAPS

\* What a request relies on after each of its reads: rows are never deleted, and
\* an address that was verified stays so.
Carries(r) ==
    /\ req[r].pc \in {"expiring", "allowed"} => req[r].op \in Counted
    /\ req[r].pc \in {"verifying", "resetting", "revoking"} =>
            req[r].token \in MailTokens /\ mail[req[r].token] # None
    /\ req[r].pc = "rotating" => req[r].token \in Sessions /\ session[req[r].token] # None
    /\ req[r].pc = "mailing" => user # None
    /\ req[r].pc \in {"issuing", "rotating"} => user # None /\ user.verified
    /\ \A s \in req[r].seen : session[s] # None

MailsHaveUser    == \A t \in MailTokens : mail[t] # None => user # None
GateOff == ~ Gate => user = None \/ user.verified
SessionsVerified == \A s \in Sessions : session[s] # None => user # None /\ user.verified

\* The resets under way that will not revoke s
Blind(s) == {r \in Requests : req[r].pc = "revoking" /\ s \notin req[r].seen}

\* What a valid session is counted from covers the resets committed and those that
\* will commit without ending it.
SinceCovers ==
    \A s \in Sessions : Valid(s) => session[s].since >= user.password + Cardinality(Blind(s))

AInv == /\ TypeOK /\ \A r \in Requests : Carries(r)
        /\ MailsHaveUser /\ GateOff /\ SessionsVerified /\ SinceCovers
-----------------------------------------------------------------------------
(* Requests and rows                                                       *)

LEMMA Typed ==
  ASSUME TypeOK
  PROVE  /\ user \in UserRow \cup {None} /\ mail \in [MailTokens -> MailRow \cup {None}]
         /\ session \in [Sessions -> SessionRow \cup {None}] /\ req \in [Requests -> ReqState]
  BY DEF TypeOK

LEMMA IdleOK == IdleReq \in ReqState /\ IdleReq.pc = "idle" /\ IdleReq.seen = {}
                /\ IdleReq.token = None
  BY DEF IdleReq, ReqState

\* One request moves, the others keep their memory.
LEMMA ReqMoves ==
  ASSUME TypeOK, NEW r \in Requests, NEW from, NEW changes \in ReqState, Step(r, from, changes)
  PROVE  /\ req[r].pc = from /\ req'[r] = changes
         /\ \A q \in Requests \ {r} : req'[q] = req[q]
         /\ req' \in [Requests -> ReqState]
  BY DEF TypeOK, Step

\* Rows stay, and a verified address stays verified.
RowsStay ==
    /\ user # None => user' # None /\ (user.verified => user'.verified)
    /\ \A t \in MailTokens : mail[t] # None => mail'[t] # None
    /\ \A s \in Sessions : session[s] # None => session'[s] # None

\* Then the other requests carry what they carried.
LEMMA OthersCarry ==
  ASSUME AInv, NEW r \in Requests, \A q \in Requests \ {r} : req'[q] = req[q], RowsStay,
         Carries(r)'
  PROVE  \A q \in Requests : Carries(q)'
  <1>1. ASSUME NEW q \in Requests, q # r PROVE Carries(q)'
    <2>1. req'[q] = req[q] /\ Carries(q) /\ req[q].seen \subseteq Sessions
      BY <1>1 DEF AInv, TypeOK, ReqState
    <2> QED BY <2>1 DEF RowsStay, Carries
  <1> QED BY <1>1

LEMMA BlindCounted ==
  ASSUME NEW s \in Sessions
  PROVE  IsFiniteSet(Blind(s)) /\ Cardinality(Blind(s)) \in Nat
  <1>1. IsFiniteSet(Requests) /\ Blind(s) \in SUBSET Requests
    BY AccountsAssumption DEF Blind
  <1>2. IsFiniteSet(Blind(s))
    BY <1>1, FS_Subset
  <1> QED BY <1>2, FS_CardinalityType

\* Fewer resets under way are fewer to count.
LEMMA BlindShrinks ==
  ASSUME NEW s \in Sessions, Blind(s)' \subseteq Blind(s)
  PROVE  Cardinality(Blind(s))' \in Nat /\ Cardinality(Blind(s))' <= Cardinality(Blind(s))
  <1>1. IsFiniteSet(Blind(s)) /\ Blind(s)' \in SUBSET Blind(s)
    BY BlindCounted
  <1>2. IsFiniteSet(Blind(s)') /\ Cardinality(Blind(s)') <= Cardinality(Blind(s))
    BY <1>1, FS_Subset
  <1> QED BY <1>2, FS_CardinalityType

\* A step that leaves the password alone keeps SinceCovers if no session becomes
\* valid and no reset begins that overlooks a valid one.
LEMMA SinceKept ==
  ASSUME AInv, user # None => user'.password = user.password,
         session' \in [Sessions -> SessionRow \cup {None}],
         \A s \in Sessions : Valid(s)' => /\ Valid(s) /\ session'[s].since = session[s].since
                                          /\ Blind(s)' \subseteq Blind(s)
  PROVE  SinceCovers'
  <1> SUFFICES ASSUME NEW s \in Sessions, Valid(s)'
               PROVE  session'[s].since >= user'.password + Cardinality(Blind(s))'
    BY DEF SinceCovers
  <1>1. Valid(s) /\ session'[s].since = session[s].since /\ Blind(s)' \subseteq Blind(s)
    OBVIOUS
  <1>2. user # None /\ user.password \in Nat
    BY <1>1, AccountsAssumption DEF AInv, SessionsVerified, TypeOK, Valid, UserRow, Passwords
  <1>3. session[s].since \in Nat
    BY <1>1 DEF AInv, TypeOK, Valid, SessionRow
  <1>4. session[s].since >= user.password + Cardinality(Blind(s))
    BY <1>1 DEF AInv, SinceCovers
  <1> QED BY <1>1, <1>2, <1>3, <1>4, BlindShrinks, BlindCounted

\* A step of one request that leaves the account and the sessions alone.
LEMMA MailKeeps ==
  ASSUME AInv, NEW r \in Requests, NEW from, NEW changes \in ReqState, Step(r, from, changes),
         UNCHANGED <<user, session>>, Carries(r)',
         mail' \in [MailTokens -> MailRow \cup {None}],
         \A t \in MailTokens : mail[t] # None => mail'[t] # None, MailsHaveUser',
         counter' \in [Counted -> [count : Nat, expires : BOOLEAN, orphan : BOOLEAN]],
         changes.pc = "revoking" => \A s \in Sessions : Valid(s) => s \in changes.seen
  PROVE  AInv'
  <1>1. /\ req'[r] = changes /\ \A q \in Requests \ {r} : req'[q] = req[q]
        /\ req' \in [Requests -> ReqState]
    BY ReqMoves DEF AInv
  <1>2. TypeOK'
    BY <1>1 DEF AInv, TypeOK
  <1>3. \A q \in Requests : Carries(q)'
    BY <1>1, OthersCarry DEF RowsStay
  <1>4. \A s \in Sessions : Valid(s)' => Valid(s) /\ Blind(s)' \subseteq Blind(s)
    BY <1>1 DEF Valid, Blind
  <1>5. SinceCovers'
    BY <1>4, SinceKept, Typed DEF AInv
  <1>6. GateOff' /\ SessionsVerified'
    BY DEF AInv, GateOff, SessionsVerified
  <1> QED BY <1>2, <1>3, <1>5, <1>6 DEF AInv

\* A step that changes only what one request holds and the counters.
LEMMA QuietKeeps ==
  ASSUME AInv, NEW r \in Requests, NEW from, NEW changes \in ReqState, Step(r, from, changes),
         UNCHANGED <<user, mail, session>>, Carries(r)',
         counter' \in [Counted -> [count : Nat, expires : BOOLEAN, orphan : BOOLEAN]],
         changes.pc = "revoking" => \A s \in Sessions : Valid(s) => s \in changes.seen
  PROVE  AInv'
  BY MailKeeps, Typed DEF AInv, MailsHaveUser

LEMMA CounterTyped ==
  ASSUME TypeOK
  PROVE  counter \in [Counted -> [count : Nat, expires : BOOLEAN, orphan : BOOLEAN]]
  BY DEF TypeOK

\* What a look-up leads to
LEMMA LookedUp ==
  ASSUME AInv, NEW r \in Requests, NEW op, NEW password
  PROVE  LET next == AfterLookUp(op, password)
         IN  /\ next \in ReqState /\ next.seen = {} /\ next.pc \in {"idle", "issuing", "mailing"}
             /\ next.pc = "mailing" => user # None
             /\ next.pc = "issuing" => user # None /\ user.verified
  <1> DEFINE next == AfterLookUp(op, password)
             login == [IdleReq EXCEPT !.pc = "issuing"]
             asked == [IdleReq EXCEPT !.pc = "mailing", !.op = op]
  <1>1. CASE op = "login" /\ Admits(password)
    <2>1. next = login
      BY <1>1 DEF AfterLookUp
    <2>2. user # None /\ user.verified
      BY <1>1, AccountsAssumption DEF Admits, AInv, GateOff, TypeOK, UserRow
    <2>3. login \in ReqState /\ login.seen = {} /\ login.pc = "issuing"
      BY DEF IdleReq, ReqState
    <2> HIDE DEF login
    <2> QED BY <2>1, <2>2, <2>3
  <1>2. CASE ~ (op = "login" /\ Admits(password))
    <2>1. \/ next = IdleReq
          \/ next = asked /\ op \in Limited /\ user # None
      BY <1>2 DEF AfterLookUp, Limited
    <2>2. op \in Limited => asked \in ReqState /\ asked.seen = {} /\ asked.pc = "mailing"
      BY DEF IdleReq, ReqState
    <2> HIDE DEF asked
    <2> QED BY <2>1, <2>2, IdleOK
  <1> QED BY <1>1, <1>2

\* What a request holds after INCR
LEMMA Incremented ==
  ASSUME AInv, NEW r \in Requests, NEW op \in Limited, NEW password \in Passwords \cup {None},
         Incr(r, op, password)
  PROVE  /\ \E changes \in ReqState :
                /\ Step(r, "idle", changes) /\ changes.seen = {}
                /\ changes.pc \in {"idle", "expiring", "allowed"}
                /\ changes.pc # "idle" => changes.op = op
         /\ op \in Counted
  <1> DEFINE next(pc) == [IdleReq EXCEPT !.pc = pc, !.op = op, !.password = password]
             base(pc) == [IdleReq EXCEPT !.pc = pc]
             count == counter[op].count
             begun == CASE count = 0 -> base("expiring")
                        [] count \in 1 .. Limit[op] - 1 -> base("allowed")
                        [] OTHER -> IdleReq
  <1>1. op \in Counted
    BY DEF Incr
  <1>2. Step(r, "idle", IF begun = IdleReq THEN IdleReq
                        ELSE [begun EXCEPT !.op = op, !.password = password])
    BY DEF Incr
  <1>3. begun \in {base("expiring"), base("allowed"), IdleReq}
    <2> HIDE DEF count, base
    <2> QED OBVIOUS
  <1> HIDE DEF begun
  <1>4. PICK changes \in {IdleReq, next("expiring"), next("allowed")} : Step(r, "idle", changes)
    BY <1>2, <1>3
  <1>5. \A pc \in {"expiring", "allowed"} :
            next(pc) \in ReqState /\ next(pc).seen = {} /\ next(pc).pc = pc /\ next(pc).op = op
    BY DEF IdleReq, ReqState
  <1> HIDE DEF next
  <1>6. changes \in ReqState /\ changes.seen = {} /\ changes.pc \in {"idle", "expiring", "allowed"}
        /\ (changes.pc # "idle" => changes.op = op)
    BY <1>4, <1>5, IdleOK
  <1> QED BY <1>1, <1>4, <1>6

LEMMA IncrKeeps ==
  ASSUME AInv, NEW r \in Requests, NEW op \in Limited, NEW password \in Passwords \cup {None},
         Incr(r, op, password)
  PROVE  AInv'
  <1>1. PICK changes \in ReqState :
            /\ Step(r, "idle", changes) /\ changes.seen = {}
            /\ changes.pc \in {"idle", "expiring", "allowed"}
            /\ changes.pc # "idle" => changes.op = op
    BY Incremented
  <1>2. op \in Counted /\ UNCHANGED <<user, mail, session>>
    BY DEF Incr
  <1>3. counter' \in [Counted -> [count : Nat, expires : BOOLEAN, orphan : BOOLEAN]]
    BY CounterTyped DEF Incr, AInv
  <1>4. req'[r] = changes
    BY <1>1, ReqMoves DEF AInv
  <1>5. Carries(r)'
    BY <1>1, <1>2, <1>4 DEF Carries
  <1> QED BY <1>1, <1>2, <1>3, <1>5, QuietKeeps

LEMMA SetExpiryKeeps ==
  ASSUME AInv, NEW r \in Requests, SetExpiry(r)
  PROVE  AInv'
  <1> DEFINE changes == [req[r] EXCEPT !.pc = "allowed"]
  <1>1. Step(r, "expiring", changes) /\ UNCHANGED <<user, mail, session>>
    BY DEF SetExpiry
  <1>2. req[r] \in ReqState /\ Carries(r)
    BY Typed DEF AInv
  <1>3. changes \in ReqState /\ changes.pc = "allowed" /\ changes.op = req[r].op
        /\ changes.seen = req[r].seen
    BY <1>2 DEF ReqState
  <1> HIDE DEF changes
  <1>4. req'[r] = changes /\ req[r].pc = "expiring"
    BY <1>1, <1>3, ReqMoves DEF AInv
  <1>5. Carries(r)' /\ req[r].op \in Counted
    BY <1>1, <1>2, <1>3, <1>4 DEF Carries
  <1>6. counter' \in [Counted -> [count : Nat, expires : BOOLEAN, orphan : BOOLEAN]]
    BY <1>5, CounterTyped DEF SetExpiry, AInv
  <1> QED BY <1>1, <1>3, <1>5, <1>6, QuietKeeps

LEMMA LookUpKeeps ==
  ASSUME AInv, NEW r \in Requests, NEW from, NEW op, NEW password,
         Step(r, from, AfterLookUp(op, password)), UNCHANGED <<user, mail, session, counter>>
  PROVE  AInv'
  <1> DEFINE changes == AfterLookUp(op, password)
  <1>1. /\ changes \in ReqState /\ changes.seen = {} /\ changes.pc \in {"idle", "issuing", "mailing"}
        /\ changes.pc = "mailing" => user # None
        /\ changes.pc = "issuing" => user # None /\ user.verified
    BY LookedUp
  <1> HIDE DEF changes
  <1>2. Step(r, from, changes)
    BY DEF changes
  <1>3. req'[r] = changes
    BY <1>1, <1>2, ReqMoves DEF AInv
  <1>4. Carries(r)'
    BY <1>1, <1>3 DEF Carries
  <1> QED BY <1>1, <1>2, <1>4, QuietKeeps, CounterTyped DEF AInv

\* The UPDATE of a reset takes in every session that is valid.
LEMMA ResetRevokeKeeps ==
  ASSUME AInv, NEW r \in Requests, ResetRevoke(r)
  PROVE  AInv'
  <1> DEFINE valid == {s \in Sessions : Valid(s)}
             changes == [req[r] EXCEPT !.pc = "revoking", !.seen = valid]
  <1>1. Step(r, "resetting", changes) /\ UNCHANGED <<user, mail, session, counter>>
    BY DEF ResetRevoke
  <1>2. req[r] \in ReqState /\ Carries(r)
    BY Typed DEF AInv
  <1>3. changes \in ReqState /\ changes.pc = "revoking" /\ changes.token = req[r].token
        /\ changes.seen = valid
    BY <1>2 DEF ReqState
  <1> HIDE DEF changes
  <1>4. req'[r] = changes /\ req[r].pc = "resetting"
    BY <1>1, <1>3, ReqMoves DEF AInv
  <1>5. Carries(r)'
    BY <1>1, <1>2, <1>3, <1>4 DEF Carries, Valid
  <1> QED BY <1>1, <1>3, <1>5, QuietKeeps, CounterTyped DEF AInv

LEMMA CrashKeeps ==
  ASSUME AInv, NEW r \in Requests, Crash(r)
  PROVE  AInv'
  <1>1. Step(r, req[r].pc, IdleReq) /\ UNCHANGED <<user, mail, session>>
    BY DEF Crash, Step
  <1>2. req'[r] = IdleReq
    BY <1>1, IdleOK, ReqMoves DEF AInv
  <1>3. Carries(r)'
    BY <1>2, IdleOK DEF Carries
  <1>4. counter' \in [Counted -> [count : Nat, expires : BOOLEAN, orphan : BOOLEAN]]
    BY CounterTyped DEF Crash, AInv, Carries
  <1> QED BY <1>1, <1>3, <1>4, IdleOK, QuietKeeps

LEMMA WindowEndsKeeps ==
  ASSUME AInv, NEW op \in Counted, WindowEnds(op)
  PROVE  AInv'
  <1>1. counter' \in [Counted -> [count : Nat, expires : BOOLEAN, orphan : BOOLEAN]]
    BY CounterTyped DEF WindowEnds, AInv
  <1>2. \A s \in Sessions : (Valid(s)' <=> Valid(s)) /\ Blind(s)' = Blind(s)
    BY DEF WindowEnds, Valid, Blind
  <1>3. UNCHANGED <<user, mail, session, req>>
    BY DEF WindowEnds
  <1>4. SinceCovers'
    BY <1>2, <1>3 DEF AInv, SinceCovers
  <1> QED BY <1>1, <1>3, <1>4
          DEF AInv, TypeOK, Carries, MailsHaveUser, GateOff, SessionsVerified
-----------------------------------------------------------------------------
(* Mailed links                                                            *)

LEMMA FreshToken ==
  ASSUME NEW T, NEW table, DOMAIN table = T, Unissued(table) # {}
  PROVE  Some(Unissued(table)) \in T /\ table[Some(Unissued(table))] = None
  BY DEF Some, Unissued

\* The row of a mail that is about to go out
LEMMA MailRowOK ==
  ASSUME TypeOK, NEW purpose \in Purposes, Unissued(mail) # {}
  PROVE  /\ WithMail(purpose) \in [MailTokens -> MailRow \cup {None}]
         /\ \A t \in MailTokens : mail[t] # None => WithMail(purpose)[t] # None
  <1> DEFINE row == [purpose |-> purpose, used |-> FALSE, expired |-> FALSE, uses |-> 0,
                     shared |-> FALSE]
             new == Some(Unissued(mail))
  <1>1. row \in MailRow
    BY DEF MailRow
  <1>2. new \in MailTokens /\ mail[new] = None
    BY FreshToken DEF TypeOK
  <1>3. WithMail(purpose) = [mail EXCEPT ![new] = row]
    BY DEF WithMail
  <1> HIDE DEF row, new
  <1> QED BY <1>1, <1>2, <1>3 DEF TypeOK

LEMMA SendMailKeeps ==
  ASSUME AInv, NEW r \in Requests, SendMail(r)
  PROVE  AInv'
  <1> DEFINE purpose == IF req[r].op = "resend" THEN "verify" ELSE "reset"
  <1>1. /\ Step(r, "mailing", IdleReq) /\ UNCHANGED <<user, session, counter>>
        /\ mail' = WithMail(purpose) /\ Unissued(mail) # {}
    BY DEF SendMail, Done
  <1>2. req[r].pc = "mailing" /\ req'[r] = IdleReq
    BY <1>1, IdleOK, ReqMoves DEF AInv
  <1>3. user # None
    BY <1>2 DEF AInv, Carries
  <1>4. purpose \in Purposes
    BY DEF Purposes
  <1>5. Carries(r)' /\ MailsHaveUser'
    BY <1>1, <1>2, <1>3, IdleOK DEF Carries, MailsHaveUser
  <1> HIDE DEF purpose
  <1> QED BY <1>1, <1>4, <1>5, MailRowOK, MailKeeps, CounterTyped, IdleOK DEF AInv

\* A change within the rows of the table
LEMMA MailRowsChange ==
  ASSUME TypeOK, NEW t \in MailTokens, NEW row \in MailRow, mail[t] # None,
         mail' = [mail EXCEPT ![t] = row]
  PROVE  /\ mail' \in [MailTokens -> MailRow \cup {None}]
         /\ \A i \in MailTokens : mail'[i] # None <=> mail[i] # None
  BY AccountsAssumption DEF TypeOK

LEMMA ReadLinkKeeps ==
  ASSUME AInv, NEW r \in Requests, NEW t \in MailTokens, ReadLink(r, t)
  PROVE  AInv'
  <1> DEFINE changes == [IdleReq EXCEPT !.token = t,
                           !.pc = IF mail[t].purpose = "verify" THEN "verifying" ELSE "resetting"]
             row == [mail[t] EXCEPT !.shared = @ \/ Consuming(t) # {}]
  <1>1. /\ Step(r, "idle", changes) /\ UNCHANGED <<user, session, counter>>
        /\ mail' = [mail EXCEPT ![t] = row] /\ mail[t] # None
    BY DEF ReadLink, Usable
  <1>2. mail[t] \in MailRow
    BY <1>1, Typed DEF AInv
  <1>3. row \in MailRow
    BY <1>2 DEF MailRow
  <1>4. changes \in ReqState /\ changes.pc \in {"verifying", "resetting"} /\ changes.token = t
        /\ changes.seen = {}
    BY DEF IdleReq, ReqState
  <1> HIDE DEF changes, row
  <1>5. /\ mail' \in [MailTokens -> MailRow \cup {None}]
        /\ \A i \in MailTokens : mail'[i] # None <=> mail[i] # None
    BY <1>1, <1>3, MailRowsChange DEF AInv
  <1>6. req'[r] = changes
    BY <1>1, <1>4, ReqMoves DEF AInv
  <1>7. Carries(r)'
    BY <1>1, <1>4, <1>5, <1>6 DEF Carries
  <1>8. MailsHaveUser'
    BY <1>1, <1>5 DEF AInv, MailsHaveUser
  <1> QED BY <1>1, <1>4, <1>5, <1>7, <1>8, MailKeeps, CounterTyped DEF AInv

LEMMA LinkExpiresKeeps ==
  ASSUME AInv, NEW t \in MailTokens, LinkExpires(t)
  PROVE  AInv'
  <1> DEFINE row == [mail[t] EXCEPT !.expired = TRUE]
  <1>1. /\ UNCHANGED <<user, session, counter, req>>
        /\ mail' = [mail EXCEPT ![t] = row] /\ mail[t] # None
    BY DEF LinkExpires, Usable
  <1>2. row \in MailRow
    BY <1>1, Typed DEF AInv, MailRow
  <1> HIDE DEF row
  <1>3. /\ mail' \in [MailTokens -> MailRow \cup {None}]
        /\ \A i \in MailTokens : mail'[i] # None <=> mail[i] # None
    BY <1>1, <1>2, MailRowsChange DEF AInv
  <1>4. \A s \in Sessions : (Valid(s)' <=> Valid(s)) /\ Blind(s)' = Blind(s)
    BY <1>1 DEF Valid, Blind
  <1>5. SinceCovers'
    BY <1>1, <1>4 DEF AInv, SinceCovers
  <1>6. \A r \in Requests : Carries(r)'
    BY <1>1, <1>3 DEF AInv, Carries
  <1> QED BY <1>1, <1>3, <1>5, <1>6 DEF AInv, TypeOK, MailsHaveUser, GateOff, SessionsVerified

LEMMA UsedRow ==
  ASSUME NEW m \in MailRow
  PROVE  LET row == [m EXCEPT !.used = TRUE, !.uses = @ + 1]
         IN  /\ row \in MailRow /\ row.used /\ row.uses = m.uses + 1 /\ row.shared = m.shared
             /\ row.expired = m.expired
  <1> DEFINE marked == [m EXCEPT !.used = TRUE]
             row == [m EXCEPT !.used = TRUE, !.uses = @ + 1]
  <1>1. /\ marked \in MailRow /\ marked.used /\ marked.uses = m.uses /\ marked.shared = m.shared
        /\ marked.expired = m.expired
    BY DEF MailRow
  <1>2. PICK n \in Nat : n = marked.uses + 1
    BY <1>1 DEF MailRow
  <1>3. row = [marked EXCEPT !.uses = n]
    BY <1>1, <1>2
  <1> HIDE DEF marked, row
  <1>4. /\ row \in MailRow /\ row.used = marked.used /\ row.uses = n
        /\ row.shared = marked.shared /\ row.expired = marked.expired
    BY <1>1, <1>3 DEF MailRow
  <1> USE DEF row
  <1> QED BY <1>1, <1>2, <1>4

\* The row of a link that is used
LEMMA UsedOK ==
  ASSUME TypeOK, NEW t \in MailTokens, mail[t] # None, mail' = Used(t)
  PROVE  /\ mail' \in [MailTokens -> MailRow \cup {None}]
         /\ \A i \in MailTokens : mail'[i] # None <=> mail[i] # None
         /\ \A i \in MailTokens \ {t} : mail'[i] = mail[i]
         /\ mail'[t].used /\ mail'[t].uses = mail[t].uses + 1
         /\ mail'[t].shared = mail[t].shared
  <1> DEFINE row == [mail[t] EXCEPT !.used = TRUE, !.uses = @ + 1]
  <1>1. mail[t] \in MailRow
    BY Typed
  <1>2. /\ row \in MailRow /\ row.used /\ row.uses = mail[t].uses + 1
        /\ row.shared = mail[t].shared
    BY <1>1, UsedRow
  <1>3. mail' = [mail EXCEPT ![t] = row]
    BY DEF Used
  <1> HIDE DEF row
  <1>4. mail'[t] = row /\ \A i \in MailTokens \ {t} : mail'[i] = mail[i]
    BY <1>3, Typed
  <1> QED BY <1>2, <1>3, <1>4, MailRowsChange

LEMMA VerifyCommitKeeps ==
  ASSUME AInv, NEW r \in Requests, VerifyCommit(r)
  PROVE  AInv'
  <1>1. /\ Step(r, "verifying", IdleReq) /\ mail' = Used(req[r].token)
        /\ user' = [user EXCEPT !.verified = TRUE] /\ UNCHANGED <<session, counter>>
    BY DEF VerifyCommit, Done
  <1>2. /\ req[r].pc = "verifying" /\ req'[r] = IdleReq
        /\ \A q \in Requests \ {r} : req'[q] = req[q]
        /\ req' \in [Requests -> ReqState]
    BY <1>1, IdleOK, ReqMoves DEF AInv
  <1>3. req[r].token \in MailTokens /\ mail[req[r].token] # None
    BY <1>2 DEF AInv, Carries
  <1>4. /\ mail' \in [MailTokens -> MailRow \cup {None}]
        /\ \A i \in MailTokens : mail'[i] # None <=> mail[i] # None
    BY <1>1, <1>3, UsedOK DEF AInv
  <1>5. user # None
    BY <1>3 DEF AInv, MailsHaveUser
  <1>6. user' \in UserRow /\ user'.verified /\ user'.password = user.password
    BY <1>1, <1>5, Typed DEF AInv, UserRow
  <1>7. user' # None
    BY <1>6, AccountsAssumption
  <1>8. \A q \in Requests : Carries(q)'
    <2>1. Carries(r)'
      BY <1>2, IdleOK DEF Carries
    <2> QED BY <1>1, <1>2, <1>4, <1>6, <1>7, <2>1, OthersCarry DEF RowsStay
  <1>9. \A s \in Sessions : Valid(s)' => Valid(s) /\ Blind(s)' \subseteq Blind(s)
    BY <1>1, <1>2, IdleOK DEF Valid, Blind
  <1>10. SinceCovers'
    BY <1>1, <1>6, <1>9, SinceKept, Typed DEF AInv
  <1>11. TypeOK'
    BY <1>1, <1>2, <1>4, <1>6 DEF AInv, TypeOK
  <1> QED BY <1>6, <1>7, <1>8, <1>10, <1>11 DEF AInv, MailsHaveUser, GateOff, SessionsVerified

LEMMA RegisterKeeps ==
  ASSUME AInv, NEW r \in Requests, Register(r)
  PROVE  AInv'
  <1>1. /\ user = None /\ user' = [verified |-> ~ Gate, password |-> 0]
        /\ UNCHANGED <<session, counter>>
    BY DEF Register
  <1>2. user' \in UserRow /\ (user'.verified <=> ~ Gate)
    BY <1>1 DEF UserRow, Passwords
  <1>3. user' # None
    BY <1>2, AccountsAssumption
  <1>4. \A s \in Sessions : session[s] = None
    BY <1>1 DEF AInv, SessionsVerified
  <1>5. /\ mail' \in [MailTokens -> MailRow \cup {None}]
        /\ \A t \in MailTokens : mail[t] # None => mail'[t] # None
    BY MailRowOK, Typed DEF Register, AInv, Purposes
  <1>6. SinceCovers' /\ SessionsVerified'
    BY <1>1, <1>4 DEF SinceCovers, Valid, SessionsVerified
  <1>7. req' \in [Requests -> ReqState] /\ \A q \in Requests : Carries(q)'
    <2>1. CASE Gate
      <3>1. req' = req
        BY <2>1 DEF Register
      <3>2. RowsStay
        BY <1>1, <1>5 DEF RowsStay
      <3>3. Carries(r)'
        BY <1>3, <3>1, <3>2, <1>1 DEF AInv, RowsStay, Carries, TypeOK, ReqState
      <3> QED BY <3>1, <3>2, <3>3, OthersCarry, Typed DEF AInv
    <2>2. CASE ~ Gate
      <3> DEFINE changes == [IdleReq EXCEPT !.pc = "issuing"]
      <3>1. Step(r, "idle", changes)
        BY <2>2 DEF Register
      <3>2. changes \in ReqState /\ changes.pc = "issuing" /\ changes.seen = {}
        BY DEF IdleReq, ReqState
      <3> HIDE DEF changes
      <3>3. /\ req'[r] = changes /\ \A q \in Requests \ {r} : req'[q] = req[q]
            /\ req' \in [Requests -> ReqState]
        BY <3>1, <3>2, ReqMoves DEF AInv
      <3>4. Carries(r)'
        BY <1>2, <1>3, <2>2, <3>2, <3>3 DEF Carries
      <3> QED BY <1>1, <1>5, <3>3, <3>4, OthersCarry DEF RowsStay
    <2> QED BY <2>1, <2>2, AccountsAssumption
  <1> QED BY <1>1, <1>2, <1>3, <1>5, <1>6, <1>7
          DEF AInv, TypeOK, MailsHaveUser, GateOff
-----------------------------------------------------------------------------
(* Sessions                                                                *)

\* One row changes, and does not become valid.
LEMMA SessionRowChange ==
  ASSUME AInv, NEW s \in Sessions, NEW row \in SessionRow, session[s] # None,
         session' = [session EXCEPT ![s] = row],
         row.since = session[s].since, ~ row.revoked => ~ session[s].revoked
  PROVE  /\ session' \in [Sessions -> SessionRow \cup {None}]
         /\ \A i \in Sessions : session'[i] # None <=> session[i] # None
         /\ \A i \in Sessions : Valid(i)' => Valid(i) /\ session'[i].since = session[i].since
  <1>1. session' \in [Sessions -> SessionRow \cup {None}]
    BY DEF AInv, TypeOK
  <1>2. session'[s] = row /\ row # None /\ \A i \in Sessions \ {s} : session'[i] = session[i]
    BY AccountsAssumption DEF AInv, TypeOK
  <1> QED BY <1>1, <1>2 DEF Valid

\* A row that changes in one field
LEMMA RowExpired ==
  ASSUME NEW m \in SessionRow
  PROVE  LET row == [m EXCEPT !.expired = TRUE]
         IN  /\ row \in SessionRow /\ row.since = m.since /\ row.revoked = m.revoked
             /\ row.expired = TRUE /\ row.from = m.from /\ row.shared = m.shared
  BY DEF SessionRow

LEMMA RowRevoked ==
  ASSUME NEW m \in SessionRow
  PROVE  LET row == [m EXCEPT !.revoked = TRUE]
         IN  /\ row \in SessionRow /\ row.since = m.since /\ row.revoked = TRUE
             /\ row.expired = m.expired /\ row.from = m.from /\ row.shared = m.shared
  BY DEF SessionRow

LEMMA RowShared ==
  ASSUME NEW m \in SessionRow, NEW b \in BOOLEAN
  PROVE  LET row == [m EXCEPT !.shared = b]
         IN  /\ row \in SessionRow /\ row.since = m.since /\ row.revoked = m.revoked
             /\ row.expired = m.expired /\ row.from = m.from /\ row.shared = b
  BY DEF SessionRow

\* A change of session rows by which no session becomes valid, and no reset begins
LEMMA SessionsKeep ==
  ASSUME AInv, UNCHANGED <<user, mail, counter>>,
         session' \in [Sessions -> SessionRow \cup {None}], req' \in [Requests -> ReqState],
         \A i \in Sessions : session'[i] # None <=> session[i] # None,
         \A i \in Sessions : Valid(i)' => Valid(i) /\ session'[i].since = session[i].since,
         \A i \in Sessions : Blind(i)' \subseteq Blind(i),
         \A q \in Requests : Carries(q)'
  PROVE  AInv'
  <1>1. SinceCovers'
    BY SinceKept
  <1> QED BY <1>1 DEF AInv, TypeOK, MailsHaveUser, GateOff, SessionsVerified

LEMMA SessionExpiresKeeps ==
  ASSUME AInv, NEW s \in Sessions, SessionExpires(s)
  PROVE  AInv'
  <1> DEFINE row == [session[s] EXCEPT !.expired = TRUE]
  <1>1. /\ UNCHANGED <<user, mail, counter, req>> /\ session[s] # None
        /\ session' = [session EXCEPT ![s] = row]
    BY DEF SessionExpires, Live, Valid
  <1>2. row \in SessionRow /\ row.since = session[s].since /\ row.revoked = session[s].revoked
    BY <1>1, Typed, RowExpired DEF AInv
  <1> HIDE DEF row
  <1>3. /\ session' \in [Sessions -> SessionRow \cup {None}]
        /\ \A i \in Sessions : session'[i] # None <=> session[i] # None
        /\ \A i \in Sessions : Valid(i)' => Valid(i) /\ session'[i].since = session[i].since
    BY <1>1, <1>2, SessionRowChange
  <1>4. \A i \in Sessions : Blind(i)' \subseteq Blind(i)
    BY <1>1 DEF Blind
  <1>5. \A q \in Requests : Carries(q)'
    BY <1>1, <1>3, Typed DEF AInv, Carries, ReqState
  <1> QED BY <1>1, <1>3, <1>4, <1>5, SessionsKeep, Typed DEF AInv

LEMMA LogoutKeeps ==
  ASSUME AInv, NEW r \in Requests, NEW s \in Sessions, Logout(r, s)
  PROVE  AInv'
  <1> DEFINE row == [session[s] EXCEPT !.revoked = TRUE]
  <1>1. /\ UNCHANGED <<user, mail, counter, req>> /\ session[s] # None
        /\ session' = [session EXCEPT ![s] = row]
    BY DEF Logout, Valid
  <1>2. row \in SessionRow /\ row.since = session[s].since /\ row.revoked = TRUE
    BY <1>1, Typed, RowRevoked DEF AInv
  <1> HIDE DEF row
  <1>3. /\ session' \in [Sessions -> SessionRow \cup {None}]
        /\ \A i \in Sessions : session'[i] # None <=> session[i] # None
        /\ \A i \in Sessions : Valid(i)' => Valid(i) /\ session'[i].since = session[i].since
    BY <1>1, <1>2, SessionRowChange
  <1>4. \A i \in Sessions : Blind(i)' \subseteq Blind(i)
    BY <1>1 DEF Blind
  <1>5. \A q \in Requests : Carries(q)'
    BY <1>1, <1>3, Typed DEF AInv, Carries, ReqState
  <1> QED BY <1>1, <1>3, <1>4, <1>5, SessionsKeep, Typed DEF AInv

LEMMA RotateReadKeeps ==
  ASSUME AInv, NEW r \in Requests, NEW s \in Sessions, RotateRead(r, s)
  PROVE  AInv'
  <1> DEFINE changes == [IdleReq EXCEPT !.pc = "rotating", !.token = s]
             row == [session[s] EXCEPT !.shared = @ \/ Rotating(s) # {}]
  <1>1. /\ UNCHANGED <<user, mail, counter>> /\ session[s] # None
        /\ session' = [session EXCEPT ![s] = row] /\ Step(r, "idle", changes)
    BY DEF RotateRead, Live, Valid
  <1>2. row \in SessionRow /\ row.since = session[s].since /\ row.revoked = session[s].revoked
    <2>1. session[s] \in SessionRow /\ (session[s].shared \/ Rotating(s) # {}) \in BOOLEAN
      BY <1>1, Typed DEF AInv
    <2> QED BY <2>1, RowShared
  <1> HIDE DEF row
  <1>3. changes \in ReqState /\ changes.pc = "rotating" /\ changes.token = s /\ changes.seen = {}
    BY DEF IdleReq, ReqState
  <1> HIDE DEF changes
  <1>4. /\ session' \in [Sessions -> SessionRow \cup {None}]
        /\ \A i \in Sessions : session'[i] # None <=> session[i] # None
        /\ \A i \in Sessions : Valid(i)' => Valid(i) /\ session'[i].since = session[i].since
    BY <1>1, <1>2, SessionRowChange
  <1>5. /\ req'[r] = changes /\ \A q \in Requests \ {r} : req'[q] = req[q]
        /\ req' \in [Requests -> ReqState]
    BY <1>1, <1>3, ReqMoves DEF AInv
  <1>6. \A i \in Sessions : Blind(i)' \subseteq Blind(i)
    BY <1>3, <1>5 DEF Blind
  <1>7. Carries(r)'
    BY <1>1, <1>3, <1>4, <1>5 DEF Carries, AInv, SessionsVerified
  <1>8. \A q \in Requests : Carries(q)'
    BY <1>1, <1>4, <1>5, <1>7, OthersCarry DEF RowsStay
  <1> QED BY <1>1, <1>4, <1>5, <1>6, <1>8, SessionsKeep
-----------------------------------------------------------------------------
(* New sessions                                                            *)

LEMMA BegunCounted ==
  ASSUME AInv, user # None
  PROVE  /\ ResetsBegun \in Nat
         /\ \A from \in Sessions \cup {None} : NewSession(from) \in SessionRow
         /\ \A from : NewSession(from).since = ResetsBegun /\ ~ NewSession(from).revoked
                      /\ ~ NewSession(from).expired /\ NewSession(from).from = from
                      /\ ~ NewSession(from).shared
  <1> DEFINE R == {r \in Requests : req[r].pc = "revoking"}
  <1>1. IsFiniteSet(R)
    <2>1. R \in SUBSET Requests
      OBVIOUS
    <2> HIDE DEF R
    <2> QED BY <2>1, AccountsAssumption, FS_Subset
  <1>2. Cardinality(R) \in Nat
    BY <1>1, FS_CardinalityType
  <1>3. user.password \in Nat
    BY DEF AInv, TypeOK, UserRow, Passwords
  <1>4. ResetsBegun \in Nat
    <2> HIDE DEF R
    <2>1. ResetsBegun = user.password + Cardinality(R)
      BY DEF ResetsBegun, R
    <2> QED BY <1>2, <1>3, <2>1
  <1> QED BY <1>4 DEF NewSession, SessionRow

\* A session that begins now counts every reset under way.
LEMMA BeginKeeps ==
  ASSUME AInv, NEW r \in Requests, req[r].pc # "revoking", Step(r, req[r].pc, IdleReq),
         UNCHANGED <<user, mail, counter>>, user # None, user.verified,
         session' \in [Sessions -> SessionRow \cup {None}],
         NEW new \in Sessions, session[new] = None,
         NEW from \in Sessions \cup {None}, session'[new] = NewSession(from),
         \A i \in Sessions \ {new} : /\ session[i] # None <=> session'[i] # None
                                     /\ Valid(i)' => Valid(i) /\ session'[i].since = session[i].since
  PROVE  AInv'
  <1> DEFINE R == {q \in Requests : req[q].pc = "revoking"}
  <1>1. /\ req'[r] = IdleReq /\ \A q \in Requests \ {r} : req'[q] = req[q]
        /\ req' \in [Requests -> ReqState]
    BY IdleOK, ReqMoves DEF AInv
  <1>2. TypeOK'
    BY <1>1 DEF AInv, TypeOK
  <1>3. \A q \in Requests : Carries(q)'
    <2>1. Carries(r)'
      BY <1>1, IdleOK DEF Carries
    <2> QED BY <1>1, <2>1, OthersCarry DEF RowsStay
  <1>4. \A i \in Sessions \ {new} : Blind(i)' \subseteq Blind(i)
    BY <1>1, IdleOK DEF Blind
  <1>5. session'[new].since = user.password + Cardinality(R)
    BY BegunCounted DEF ResetsBegun
  <1>6. IsFiniteSet(R) /\ Blind(new)' \in SUBSET R
    <2>1. R \in SUBSET Requests /\ Blind(new)' \in SUBSET R
      BY <1>1, IdleOK DEF Blind
    <2> HIDE DEF R
    <2> QED BY <2>1, AccountsAssumption, FS_Subset
  <1> HIDE DEF R
  <1>7. /\ IsFiniteSet(Blind(new)') /\ Cardinality(Blind(new)') <= Cardinality(R)
        /\ Cardinality(R) \in Nat /\ Cardinality(Blind(new)') \in Nat
    <2>1. IsFiniteSet(Blind(new)') /\ Cardinality(Blind(new)') <= Cardinality(R)
      BY <1>6, FS_Subset
    <2> QED BY <1>6, <2>1, FS_CardinalityType
  <1>8. user.password \in Nat
    BY DEF AInv, TypeOK, UserRow, Passwords
  <1>9. SinceCovers'
    <2> SUFFICES ASSUME NEW s \in Sessions, Valid(s)'
                 PROVE  session'[s].since >= user'.password + Cardinality(Blind(s))'
      BY DEF SinceCovers
    <2>1. CASE s = new
      BY <1>5, <1>7, <1>8, <2>1
    <2>2. CASE s # new
      <3>1. Valid(s) /\ session'[s].since = session[s].since /\ Blind(s)' \subseteq Blind(s)
        BY <1>4, <2>2
      <3>2. session[s].since \in Nat /\ session[s].since >= user.password + Cardinality(Blind(s))
        BY <3>1 DEF AInv, SinceCovers, TypeOK, Valid, SessionRow
      <3> QED BY <1>8, <3>1, <3>2, BlindShrinks, BlindCounted
    <2> QED BY <2>1, <2>2
  <1> QED BY <1>2, <1>3, <1>9 DEF AInv, MailsHaveUser, GateOff, SessionsVerified

LEMMA IssueKeeps ==
  ASSUME AInv, NEW r \in Requests, Issue(r)
  PROVE  AInv'
  <1> DEFINE new == Some(Unissued(session))
  <1>1. /\ Step(r, "issuing", IdleReq) /\ UNCHANGED <<user, mail, counter>>
        /\ session' = [session EXCEPT ![new] = NewSession(None)] /\ Unissued(session) # {}
    BY DEF Issue, Done
  <1>2. new \in Sessions /\ session[new] = None
    BY <1>1, FreshToken, Typed DEF AInv
  <1> HIDE DEF new
  <1>3. req[r].pc = "issuing"
    BY <1>1 DEF Step
  <1>4. user # None /\ user.verified
    BY <1>3 DEF AInv, Carries
  <1>5. NewSession(None) \in SessionRow
    BY <1>4, BegunCounted
  <1>6. /\ session' \in [Sessions -> SessionRow \cup {None}] /\ session'[new] = NewSession(None)
        /\ \A i \in Sessions \ {new} : session'[i] = session[i]
    BY <1>1, <1>2, <1>5, Typed DEF AInv
  <1> QED BY <1>1, <1>2, <1>3, <1>4, <1>6, BeginKeeps DEF Valid

\* What rotate_refresh commits: the old row revoked, the new one beside it
LEMMA Rotated ==
  ASSUME AInv, NEW r \in Requests, RotateCommit(r)
  PROVE  LET old == req[r].token
             new == Some(Unissued(session))
         IN  /\ old \in Sessions /\ new \in Sessions /\ old # new
             /\ session[old] # None /\ session[new] = None /\ user # None /\ user.verified
             /\ session' \in [Sessions -> SessionRow \cup {None}]
             /\ session'[new] = NewSession(old)
             /\ session'[old] = [session[old] EXCEPT !.revoked = TRUE]
             /\ \A i \in Sessions \ {old, new} : session'[i] = session[i]
  <1> DEFINE new == Some(Unissued(session))
             old == req[r].token
             row == [session[old] EXCEPT !.revoked = TRUE]
  <1>1. /\ session' = [session EXCEPT ![old] = row, ![new] = NewSession(old)]
        /\ Unissued(session) # {} /\ req[r].pc = "rotating"
    BY DEF RotateCommit, Done, Step
  <1>2. new \in Sessions /\ session[new] = None
    BY <1>1, FreshToken, Typed DEF AInv
  <1>3. old \in Sessions /\ session[old] # None /\ user # None /\ user.verified
    BY <1>1 DEF AInv, Carries
  <1>4. row \in SessionRow
    BY <1>3, Typed, RowRevoked DEF AInv
  <1>5. NewSession(old) \in SessionRow
    BY <1>3, BegunCounted
  <1> HIDE DEF new, old, row
  <1>6. /\ session' \in [Sessions -> SessionRow \cup {None}]
        /\ session'[new] = NewSession(old) /\ session'[old] = row
        /\ \A i \in Sessions \ {old, new} : session'[i] = session[i]
    BY <1>1, <1>2, <1>3, <1>4, <1>5, Typed DEF AInv
  <1> QED BY <1>2, <1>3, <1>6 DEF new, old, row

LEMMA RotateCommitKeeps ==
  ASSUME AInv, NEW r \in Requests, RotateCommit(r)
  PROVE  AInv'
  <1> DEFINE new == Some(Unissued(session))
             old == req[r].token
             row == [session[old] EXCEPT !.revoked = TRUE]
  <1>1. Step(r, "rotating", IdleReq) /\ UNCHANGED <<user, mail, counter>>
    BY DEF RotateCommit, Done
  <1>2. /\ old \in Sessions /\ new \in Sessions /\ old # new
        /\ session[old] # None /\ session[new] = None /\ user # None /\ user.verified
        /\ session' \in [Sessions -> SessionRow \cup {None}]
        /\ session'[new] = NewSession(old) /\ session'[old] = row
        /\ \A i \in Sessions \ {old, new} : session'[i] = session[i]
    BY Rotated
  <1>3. row \in SessionRow /\ row.revoked = TRUE
    BY <1>2, Typed, RowRevoked DEF AInv
  <1>4. row # None
    BY <1>3, AccountsAssumption
  <1>5. req[r].pc = "rotating"
    BY <1>1 DEF Step
  <1> HIDE DEF new, old, row
  <1>6. \A i \in Sessions \ {new} : /\ session[i] # None <=> session'[i] # None
                                    /\ Valid(i)' => Valid(i) /\ session'[i].since = session[i].since
    BY <1>2, <1>3, <1>4 DEF Valid
  <1> QED BY <1>1, <1>2, <1>5, <1>6, BeginKeeps

\* A reset counts itself, for a session that it does not end; those that it
\* overlooks have counted it before.
LEMMA ResetCommitKeeps ==
  ASSUME AInv, NEW r \in Requests, ResetCommit(r)
  PROVE  AInv'
  <1> DEFINE row(s) == [session[s] EXCEPT !.revoked = TRUE]
             seen == req[r].seen
  <1>1. /\ Step(r, "revoking", IdleReq) /\ mail' = Used(req[r].token) /\ UNCHANGED counter
        /\ user' = [verified |-> TRUE, password |-> (user.password + 1)]
        /\ session' = [s \in Sessions |-> IF s \in seen THEN row(s) ELSE session[s]]
    BY DEF ResetCommit, Done
  <1>2. /\ req[r].pc = "revoking" /\ req'[r] = IdleReq
        /\ \A q \in Requests \ {r} : req'[q] = req[q]
        /\ req' \in [Requests -> ReqState]
    BY <1>1, IdleOK, ReqMoves DEF AInv
  <1>3. /\ req[r].token \in MailTokens /\ mail[req[r].token] # None
        /\ seen \subseteq Sessions /\ \A s \in seen : session[s] # None
    BY <1>2, Typed DEF AInv, Carries, ReqState
  <1>4. /\ mail' \in [MailTokens -> MailRow \cup {None}]
        /\ \A i \in MailTokens : mail'[i] # None <=> mail[i] # None
    BY <1>1, <1>3, UsedOK DEF AInv
  <1>5. user # None /\ user.password \in Nat
    <2>1. user # None
      BY <1>3 DEF AInv, MailsHaveUser
    <2> QED BY <2>1 DEF AInv, TypeOK, UserRow, Passwords
  <1>6. user' \in UserRow /\ user'.verified /\ user'.password = user.password + 1
    BY <1>1, <1>5 DEF UserRow, Passwords
  <1>7. user' # None
    BY <1>6, AccountsAssumption
  <1>8. \A s \in seen : row(s) \in SessionRow /\ row(s).revoked = TRUE
    BY <1>3, Typed, RowRevoked DEF AInv
  <1>9. \A s \in seen : row(s) # None
    BY <1>8, AccountsAssumption
  <1> HIDE DEF row, seen
  <1>10. /\ session' \in [Sessions -> SessionRow \cup {None}]
         /\ \A s \in seen : session'[s] = row(s)
         /\ \A s \in Sessions \ seen : session'[s] = session[s]
    BY <1>1, <1>3, <1>8, Typed DEF AInv
  <1>11. \A s \in Sessions : session'[s] # None <=> session[s] # None
    BY <1>3, <1>9, <1>10
  <1>12. \A q \in Requests : Carries(q)'
    <2>1. Carries(r)'
      BY <1>2, IdleOK DEF Carries
    <2> QED BY <1>2, <1>4, <1>6, <1>7, <1>11, <2>1, OthersCarry DEF RowsStay
  <1>13. SinceCovers'
    <2> SUFFICES ASSUME NEW s \in Sessions, Valid(s)'
                 PROVE  session'[s].since >= user'.password + Cardinality(Blind(s))'
      BY DEF SinceCovers
    <2>1. s \notin seen /\ session'[s] = session[s]
      BY <1>8, <1>10 DEF Valid
    <2>2. Valid(s) /\ session[s].since >= user.password + Cardinality(Blind(s))
      BY <2>1 DEF AInv, SinceCovers, Valid
    <2>3. r \in Blind(s) /\ Blind(s)' = Blind(s) \ {r}
      BY <1>2, <2>1, IdleOK DEF Blind, seen
    <2>4. Cardinality(Blind(s))' = Cardinality(Blind(s)) - 1
      BY <2>3, BlindCounted, FS_RemoveElement
    <2>5. session[s].since \in Nat
      BY <2>2 DEF AInv, TypeOK, Valid, SessionRow
    <2> QED BY <1>5, <1>6, <2>1, <2>2, <2>4, <2>5, BlindCounted
  <1>14. TypeOK'
    BY <1>1, <1>2, <1>4, <1>6, <1>10 DEF AInv, TypeOK
  <1> QED BY <1>6, <1>7, <1>12, <1>13, <1>14 DEF AInv, MailsHaveUser, GateOff, SessionsVerified
-----------------------------------------------------------------------------
(* The theorems of Accounts                                                *)

LEMMA InitAInv == Init => AInv
  <1> SUFFICES ASSUME Init PROVE AInv
    OBVIOUS
  <1>1. TypeOK
    BY IdleOK DEF Init, TypeOK
  <1>2. \A r \in Requests : Carries(r)
    BY IdleOK DEF Init, Carries
  <1>3. GateOff /\ MailsHaveUser /\ SessionsVerified /\ SinceCovers
    BY DEF Init, GateOff, MailsHaveUser, SessionsVerified, SinceCovers, Valid
  <1> QED BY <1>1, <1>2, <1>3 DEF AInv

LEMMA NextAInv == AInv /\ [Next]_vars => AInv'
  <1> SUFFICES ASSUME AInv, [Next]_vars PROVE AInv'
    OBVIOUS
  <1>1. ASSUME NEW r \in Requests, Register(r) \/ Finish(r) \/ Crash(r) PROVE AInv'
    <2>1. CASE LookUp(r)
      BY <2>1, LookUpKeeps DEF LookUp
    <2> QED BY <1>1, <2>1, RegisterKeeps, CrashKeeps, SetExpiryKeeps, IssueKeeps, SendMailKeeps,
               VerifyCommitKeeps, ResetRevokeKeeps, ResetCommitKeeps, RotateCommitKeeps
            DEF Finish
  <1>2. ASSUME NEW r \in Requests, NEW op \in Limited, NEW p \in Guesses \cup {None},
               Incr(r, op, p) \/ Ask(r, op, p)
        PROVE  AInv'
    <2>1. p \in Passwords \cup {None}
      BY AccountsAssumption
    <2>2. CASE Ask(r, op, p)
      BY <2>2, LookUpKeeps DEF Ask
    <2> QED BY <1>2, <2>1, <2>2, IncrKeeps
  <1>3. ASSUME NEW r \in Requests, NEW t \in MailTokens, ReadLink(r, t) PROVE AInv'
    BY <1>3, ReadLinkKeeps
  <1>4. ASSUME NEW r \in Requests, NEW s \in Sessions, RotateRead(r, s) \/ Logout(r, s)
        PROVE  AInv'
    BY <1>4, RotateReadKeeps, LogoutKeeps
  <1>5. ASSUME NEW op \in Counted, WindowEnds(op) PROVE AInv'
    BY <1>5, WindowEndsKeeps
  <1>6. ASSUME NEW t \in MailTokens, LinkExpires(t) PROVE AInv'
    BY <1>6, LinkExpiresKeeps
  <1>7. ASSUME NEW s \in Sessions, SessionExpires(s) PROVE AInv'
    BY <1>7, SessionExpiresKeeps
  <1>8. CASE UNCHANGED vars
    BY <1>8 DEF vars, AInv, TypeOK, Carries, MailsHaveUser, GateOff, SessionsVerified,
                SinceCovers, Valid, Blind
  <1> QED BY <1>1, <1>2, <1>3, <1>4, <1>5, <1>6, <1>7, <1>8 DEF Next

THEOREM AccountsInvariant == Spec => []AInv
  BY InitAInv, NextAInv, PTL DEF Spec

\* With the gate on, whoever has a session has verified the address, whichever of
\* register, login, verify and reset ran into each other: issue_tokens always stands
\* behind a check of the account, and nothing takes the verification back.
THEOREM WhoHasASessionIsVerified == Spec => []SessionsAreVerified
  <1>1. AInv => SessionsAreVerified
    BY DEF AInv, SessionsVerified, SessionsAreVerified
  <1> QED BY <1>1, AccountsInvariant, PTL

\* A reset ends every session that was there before it chose what to revoke: a
\* session that is still valid began when every committed reset had chosen.
THEOREM ResetsEndSessions == Spec => []ResetEndsEarlierSessions
  <1>1. AInv => ResetEndsEarlierSessions
    <2> SUFFICES ASSUME AInv, NEW s \in Sessions, Valid(s)
                 PROVE  session[s].since >= user.password
      BY DEF ResetEndsEarlierSessions
    <2>1. user # None /\ user.password \in Nat
      BY DEF AInv, SessionsVerified, Valid, TypeOK, UserRow, Passwords
    <2>2. session[s].since \in Nat
      BY DEF AInv, TypeOK, Valid, SessionRow
    <2>3. session[s].since >= user.password + Cardinality(Blind(s))
      BY DEF AInv, SinceCovers
    <2> QED BY <2>1, <2>2, <2>3, BlindCounted
  <1> QED BY <1>1, AccountsInvariant, PTL
-----------------------------------------------------------------------------
(* Limits                                                                  *)

HasEnd(op) ==
    counter[op].count > 0 =>
        \/ counter[op].expires \/ counter[op].orphan
        \/ \E r \in Requests : req[r].pc = "expiring" /\ req[r].op = op

\* Whatever keeps the counters and the requests that are about to send EXPIRE keeps
\* the ends.
LEMMA EndsStay ==
  ASSUME LimitsHaveAnEnd, counter' = counter,
         \A q \in Requests : req[q].pc = "expiring" => req'[q] = req[q]
  PROVE  LimitsHaveAnEnd'
  BY DEF LimitsHaveAnEnd

LEMMA StepLeavesEnds ==
  ASSUME AInv, LimitsHaveAnEnd, counter' = counter, NEW r \in Requests, NEW from, NEW changes,
         Step(r, from, changes), from # "expiring"
  PROVE  LimitsHaveAnEnd'
  <1>1. \A q \in Requests : req[q].pc = "expiring" => req'[q] = req[q]
    BY DEF Step, AInv, TypeOK
  <1> QED BY <1>1, EndsStay

LEMMA IncrGivesEnd ==
  ASSUME AInv, LimitsHaveAnEnd, NEW r \in Requests, NEW op \in Limited, NEW password,
         Incr(r, op, password)
  PROVE  LimitsHaveAnEnd'
  <1> SUFFICES ASSUME NEW o \in Counted PROVE HasEnd(o)'
    BY DEF LimitsHaveAnEnd, HasEnd
  <1> DEFINE count == counter[op].count
             first == [IdleReq EXCEPT !.pc = "expiring"]
             later == [IdleReq EXCEPT !.pc = "allowed"]
             begun == CASE count = 0 -> first
                        [] count \in 1 .. Limit[op] - 1 -> later
                        [] OTHER -> IdleReq
             held == IF begun = IdleReq THEN IdleReq
                     ELSE [begun EXCEPT !.op = op, !.password = password]
  <1>1. /\ op \in Counted /\ Step(r, "idle", held)
        /\ counter' = [counter EXCEPT ![op].count = IF count > Limit[op] THEN @ ELSE @ + 1]
    BY DEF Incr
  <1>2. /\ req'[r] = held /\ req[r].pc = "idle"
        /\ \A q \in Requests \ {r} : req'[q] = req[q]
    BY <1>1 DEF Step, AInv, TypeOK
  <1>3. /\ counter'[o].expires = counter[o].expires /\ counter'[o].orphan = counter[o].orphan
        /\ o # op => counter'[o].count = counter[o].count
    BY <1>1, CounterTyped DEF AInv
  <1>4. HasEnd(o)
    BY DEF LimitsHaveAnEnd, HasEnd
  <1>5. CASE o # op \/ count # 0
    <2>1. count \in Nat
      BY <1>1, CounterTyped DEF AInv
    <2>2. o = op => counter[o].count > 0
      BY <1>5, <2>1
    <2> QED BY <1>2, <1>3, <1>4, <2>2 DEF HasEnd
  <1>6. CASE o = op /\ count = 0
    <2>1. first # IdleReq /\ begun = first
      <3>1. first.pc = "expiring"
        BY DEF IdleReq
      <3> HIDE DEF first, later, count
      <3>2. begun = first
        BY <1>6
      <3> QED BY <3>1, <3>2, IdleOK
    <2>2. held.pc = "expiring" /\ held.op = op
      BY <2>1 DEF IdleReq
    <2> QED BY <1>2, <1>6, <2>2 DEF HasEnd
  <1> QED BY <1>5, <1>6

LEMMA SetExpiryGivesEnd ==
  ASSUME AInv, LimitsHaveAnEnd, NEW r \in Requests, SetExpiry(r)
  PROVE  LimitsHaveAnEnd'
  <1> SUFFICES ASSUME NEW o \in Counted PROVE HasEnd(o)'
    BY DEF LimitsHaveAnEnd, HasEnd
  <1>1. /\ \A q \in Requests \ {r} : req'[q] = req[q]
        /\ req[r].pc = "expiring"
    BY DEF SetExpiry, Step, AInv, TypeOK
  <1>2. req[r].op \in Counted
    BY <1>1 DEF AInv, Carries
  <1>3. CASE o = req[r].op
    BY <1>2, <1>3, CounterTyped DEF SetExpiry, HasEnd, AInv
  <1>4. CASE o # req[r].op
    <2>1. counter'[o] = counter[o]
      BY <1>4, CounterTyped DEF SetExpiry, AInv
    <2> QED BY <1>1, <1>4, <2>1 DEF LimitsHaveAnEnd, HasEnd
  <1> QED BY <1>3, <1>4

LEMMA CrashLeavesOrphan ==
  ASSUME AInv, LimitsHaveAnEnd, NEW r \in Requests, Crash(r)
  PROVE  LimitsHaveAnEnd'
  <1>1. \A q \in Requests \ {r} : req'[q] = req[q]
    BY DEF Crash, AInv, TypeOK
  <1>2. CASE req[r].pc # "expiring"
    BY <1>1, <1>2, EndsStay DEF Crash
  <1>3. CASE req[r].pc = "expiring"
    <2> SUFFICES ASSUME NEW o \in Counted PROVE HasEnd(o)'
      BY DEF LimitsHaveAnEnd, HasEnd
    <2>1. counter' = [counter EXCEPT ![req[r].op].orphan = TRUE]
      BY <1>3 DEF Crash
    <2>2. req[r].op \in Counted
      BY <1>3 DEF AInv, Carries
    <2>3. CASE o = req[r].op
      BY <2>1, <2>2, <2>3, CounterTyped DEF HasEnd, AInv
    <2>4. CASE o # req[r].op
      <3>1. counter'[o] = counter[o]
        BY <2>1, <2>4, CounterTyped DEF AInv
      <3> QED BY <1>1, <2>4, <3>1 DEF LimitsHaveAnEnd, HasEnd
    <2> QED BY <2>3, <2>4
  <1> QED BY <1>2, <1>3

LEMMA WindowEndsEnds ==
  ASSUME AInv, LimitsHaveAnEnd, NEW op \in Counted, WindowEnds(op)
  PROVE  LimitsHaveAnEnd'
  <1> DEFINE fresh == [count |-> 0, expires |-> FALSE, orphan |-> FALSE]
  <1>1. counter' = [counter EXCEPT ![op] = fresh] /\ req' = req
    BY DEF WindowEnds
  <1>2. fresh.count = 0
    OBVIOUS
  <1> HIDE DEF fresh
  <1> SUFFICES ASSUME NEW o \in Counted PROVE HasEnd(o)'
    BY DEF LimitsHaveAnEnd, HasEnd
  <1>3. counter'[o] = IF o = op THEN fresh ELSE counter[o]
    BY <1>1, CounterTyped DEF AInv
  <1>4. CASE o = op
    <2>1. counter'[o].count = 0
      BY <1>2, <1>3, <1>4
    <2>2. ~ (counter'[o].count > 0)
      BY <2>1
    <2> QED BY <2>2 DEF HasEnd
  <1>5. CASE o # op
    BY <1>1, <1>3, <1>5 DEF LimitsHaveAnEnd, HasEnd
  <1> QED BY <1>4, <1>5

\* A limit blocks for a window and no longer, however the requests that count run
\* into each other and into the end of the window: what has been counted has an
\* expiry, or will get one from the request that counted first, unless that request
\* died between INCR and EXPIRE.
THEOREM LimitsEnd == Spec => []LimitsHaveAnEnd
  <1>1. Init => LimitsHaveAnEnd
    BY DEF Init, LimitsHaveAnEnd
  <1>2. AInv /\ LimitsHaveAnEnd /\ [Next]_vars => LimitsHaveAnEnd'
    <2> SUFFICES ASSUME AInv, LimitsHaveAnEnd, [Next]_vars PROVE LimitsHaveAnEnd'
      OBVIOUS
    <2>1. ASSUME NEW r \in Requests, Register(r) PROVE LimitsHaveAnEnd'
      <3>1. CASE req' = req
        BY <2>1, <3>1, EndsStay DEF Register
      <3>2. CASE req' # req
        BY <2>1, <3>2, StepLeavesEnds DEF Register
      <3> QED BY <3>1, <3>2
    <2>2. ASSUME NEW r \in Requests, Finish(r) PROVE LimitsHaveAnEnd'
      <3>1. CASE SetExpiry(r)
        BY <3>1, SetExpiryGivesEnd
      <3>2. CASE LookUp(r) \/ Issue(r) \/ SendMail(r) \/ ResetRevoke(r)
        BY <3>2, StepLeavesEnds DEF LookUp, Issue, SendMail, ResetRevoke, Done
      <3>3. CASE VerifyCommit(r) \/ ResetCommit(r) \/ RotateCommit(r)
        BY <3>3, StepLeavesEnds DEF VerifyCommit, ResetCommit, RotateCommit, Done
      <3> QED BY <2>2, <3>1, <3>2, <3>3 DEF Finish
    <2>3. ASSUME NEW r \in Requests, NEW op \in Limited, NEW p, Incr(r, op, p) \/ Ask(r, op, p)
          PROVE  LimitsHaveAnEnd'
      BY <2>3, IncrGivesEnd, StepLeavesEnds DEF Ask
    <2>4. ASSUME NEW r \in Requests, NEW t \in MailTokens, ReadLink(r, t) PROVE LimitsHaveAnEnd'
      BY <2>4, StepLeavesEnds DEF ReadLink
    <2>5. ASSUME NEW r \in Requests, NEW s \in Sessions, RotateRead(r, s) \/ Logout(r, s)
          PROVE  LimitsHaveAnEnd'
      BY <2>5, StepLeavesEnds, EndsStay DEF RotateRead, Logout
    <2>6. CASE \/ \E t \in MailTokens : LinkExpires(t)
               \/ \E s \in Sessions : SessionExpires(s)
               \/ UNCHANGED vars
      <3>1. req' = req /\ counter' = counter
        BY <2>6 DEF LinkExpires, SessionExpires, vars
      <3> QED BY <3>1, EndsStay
    <2> QED BY <2>1, <2>2, <2>3, <2>4, <2>5, <2>6, CrashLeavesOrphan, WindowEndsEnds DEF Next
  <1> QED BY <1>1, <1>2, AccountsInvariant, PTL DEF Spec
-----------------------------------------------------------------------------
(* What a step looks like to OneTimeToken, token by token                  *)

\* How often a refresh token was rotated
Uses(s) == Cardinality(Successors(s))

LinksStand    == \A t \in MailTokens : /\ MailState(t)' = MailState(t) /\ MailUses(t)' = MailUses(t)
                                       /\ MailShared(t)' = MailShared(t)
SessionsStand == \A s \in Sessions : /\ SessionState(s)' = SessionState(s) /\ Uses(s)' = Uses(s)
                                     /\ SessionShared(s)' = SessionShared(s)

MailSteps    == [MailLinks!Next]_(MailLinks!vars)
RefreshSteps == [RefreshTokens!Next]_(RefreshTokens!vars)

LEMMA LinksStutter ==
  ASSUME LinksStand, \A t \in MailTokens : Consuming(t)' = Consuming(t)
  PROVE  MailSteps
  BY DEF LinksStand, MailSteps, MailLinks!vars

LEMMA SessionsStutter ==
  ASSUME SessionsStand, \A s \in Sessions : Rotating(s)' = Rotating(s)
  PROVE  RefreshSteps
  BY DEF SessionsStand, Uses, RefreshSteps, RefreshTokens!vars

LEMMA LinksAge ==
  ASSUME \A t \in MailTokens :
            /\ Consuming(t)' = Consuming(t) /\ MailUses(t)' = MailUses(t)
            /\ MailShared(t)' = MailShared(t)
            /\ MailState(t)' # MailState(t) =>
                <<MailState(t), MailState(t)'>> \in {<<"unissued", "open">>, <<"open", "closed">>}
  PROVE  MailSteps
  <1>1. \A t \in MailTokens : MailState(t)' \in {"unissued", "open", "closed"}
    BY DEF MailState
  <1>2. MailLinks!Age
    BY <1>1 DEF MailLinks!Age, MailLinks!States
  <1> QED BY <1>2 DEF MailSteps, MailLinks!Next

LEMMA SessionsAge ==
  ASSUME \A s \in Sessions :
            /\ Rotating(s)' = Rotating(s) /\ Uses(s)' = Uses(s)
            /\ SessionShared(s)' = SessionShared(s)
            /\ SessionState(s)' # SessionState(s) =>
                <<SessionState(s), SessionState(s)'>>
                    \in {<<"unissued", "open">>, <<"open", "closed">>}
  PROVE  RefreshSteps
  <1>1. \A s \in Sessions : SessionState(s)' \in {"unissued", "open", "closed"}
    BY DEF SessionState
  <1>2. RefreshTokens!Age
    BY <1>1 DEF RefreshTokens!Age, RefreshTokens!States, Uses
  <1> QED BY <1>2 DEF RefreshSteps, RefreshTokens!Next

LEMMA LinkRead ==
  ASSUME NEW r \in Requests, NEW t \in MailTokens, MailState(t) = "open", r \notin Consuming(t),
         \A i \in MailTokens :
            /\ Consuming(i)' = IF i = t THEN Consuming(t) \cup {r} ELSE Consuming(i)
            /\ MailShared(i)' = IF i = t THEN MailShared(t) \/ Consuming(t) # {} ELSE MailShared(i)
            /\ MailState(i)' = MailState(i) /\ MailUses(i)' = MailUses(i)
  PROVE  MailSteps
  <1>1. MailLinks!Read(r, t)
    BY DEF MailLinks!Read
  <1> QED BY <1>1 DEF MailSteps, MailLinks!Next

LEMMA SessionRead ==
  ASSUME NEW r \in Requests, NEW s \in Sessions, SessionState(s) = "open", r \notin Rotating(s),
         \A i \in Sessions :
            /\ Rotating(i)' = IF i = s THEN Rotating(s) \cup {r} ELSE Rotating(i)
            /\ SessionShared(i)' = IF i = s THEN SessionShared(s) \/ Rotating(s) # {}
                                   ELSE SessionShared(i)
            /\ SessionState(i)' = SessionState(i) /\ Uses(i)' = Uses(i)
  PROVE  RefreshSteps
  <1>1. RefreshTokens!Read(r, s)
    BY DEF RefreshTokens!Read, Uses
  <1> QED BY <1>1 DEF RefreshSteps, RefreshTokens!Next

LEMMA LinkDrop ==
  ASSUME NEW r \in Requests, NEW t \in MailTokens, r \in Consuming(t), LinksStand,
         \A i \in MailTokens :
            Consuming(i)' = IF i = t THEN Consuming(t) \ {r} ELSE Consuming(i)
  PROVE  MailSteps
  <1>1. MailLinks!Drop(r, t)
    BY DEF MailLinks!Drop, LinksStand
  <1> QED BY <1>1 DEF MailSteps, MailLinks!Next

LEMMA SessionDrop ==
  ASSUME NEW r \in Requests, NEW s \in Sessions, r \in Rotating(s), SessionsStand,
         \A i \in Sessions :
            Rotating(i)' = IF i = s THEN Rotating(s) \ {r} ELSE Rotating(i)
  PROVE  RefreshSteps
  <1>1. RefreshTokens!Drop(r, s)
    BY DEF RefreshTokens!Drop, SessionsStand, Uses
  <1> QED BY <1>1 DEF RefreshSteps, RefreshTokens!Next

LEMMA LinkUse ==
  ASSUME NEW r \in Requests, NEW t \in MailTokens, r \in Consuming(t), MailState(t)' = "closed",
         \A i \in MailTokens :
            /\ Consuming(i)' = IF i = t THEN Consuming(t) \ {r} ELSE Consuming(i)
            /\ MailUses(i)' = IF i = t THEN MailUses(t) + 1 ELSE MailUses(i)
            /\ MailShared(i)' = MailShared(i)
            /\ i # t => MailState(i)' = MailState(i)
  PROVE  MailSteps
  <1>1. \A i \in MailTokens : MailState(i)' \in {"unissued", "open", "closed"}
    BY DEF MailState
  <1>2. MailLinks!Use(r, t)
    BY <1>1 DEF MailLinks!Use, MailLinks!States
  <1> QED BY <1>2 DEF MailSteps, MailLinks!Next

\* The use of a refresh token issues another.
LEMMA SessionUse ==
  ASSUME NEW r \in Requests, NEW s \in Sessions, r \in Rotating(s), SessionState(s)' = "closed",
         \A i \in Sessions :
            /\ Rotating(i)' = IF i = s THEN Rotating(s) \ {r} ELSE Rotating(i)
            /\ Uses(i)' = IF i = s THEN Uses(s) + 1 ELSE Uses(i)
            /\ SessionShared(i)' = SessionShared(i)
            /\ i # s /\ SessionState(i)' # SessionState(i) =>
                    SessionState(i) = "unissued" /\ SessionState(i)' = "open"
  PROVE  RefreshSteps
  <1>1. \A i \in Sessions : SessionState(i)' \in {"unissued", "open", "closed"}
    BY DEF SessionState
  <1>2. RefreshTokens!Use(r, s)
    BY <1>1 DEF RefreshTokens!Use, RefreshTokens!States, Uses
  <1> QED BY <1>2 DEF RefreshSteps, RefreshTokens!Next
-----------------------------------------------------------------------------
(* The steps of Accounts are steps of its tokens                           *)

Consumes(pc) == pc \in {"verifying", "resetting", "revoking"}

LEMMA Moved ==
  ASSUME AInv, NEW r \in Requests, NEW from, NEW changes, Step(r, from, changes)
  PROVE  req[r].pc = from /\ req'[r] = changes /\ \A q \in Requests \ {r} : req'[q] = req[q]
  BY DEF Step, AInv, TypeOK

\* What becomes of the links in the hands of the requests when one of them moves
LEMMA LinkHands ==
  ASSUME NEW r \in Requests, \A q \in Requests \ {r} : req'[q] = req[q], NEW t \in MailTokens
  PROVE  /\ r \in Consuming(t) <=> Consumes(req[r].pc) /\ req[r].token = t
         /\ Consumes(req'[r].pc) => Consuming(t)' = IF t = req'[r].token THEN Consuming(t) \cup {r}
                                                    ELSE Consuming(t) \ {r}
         /\ ~ Consumes(req'[r].pc) => Consuming(t)' = Consuming(t) \ {r}
         /\ ~ Consumes(req[r].pc) /\ ~ Consumes(req'[r].pc) => Consuming(t)' = Consuming(t)
         /\ Consumes(req[r].pc) /\ Consumes(req'[r].pc) /\ req'[r].token = req[r].token
                => Consuming(t)' = Consuming(t)
  BY DEF Consuming, Consumes

LEMMA SessionHands ==
  ASSUME NEW r \in Requests, \A q \in Requests \ {r} : req'[q] = req[q], NEW s \in Sessions
  PROVE  /\ r \in Rotating(s) <=> req[r].pc = "rotating" /\ req[r].token = s
         /\ req'[r].pc = "rotating" => Rotating(s)' = IF s = req'[r].token THEN Rotating(s) \cup {r}
                                                      ELSE Rotating(s) \ {r}
         /\ req'[r].pc # "rotating" => Rotating(s)' = Rotating(s) \ {r}
         /\ req[r].pc # "rotating" /\ req'[r].pc # "rotating" => Rotating(s)' = Rotating(s)
  BY DEF Rotating

LEMMA SameLinks ==
  ASSUME mail' = mail
  PROVE  LinksStand
  BY DEF LinksStand, MailState, MailUses, MailShared, Usable

LEMMA SameSessions ==
  ASSUME session' = session
  PROVE  SessionsStand
  BY DEF SessionsStand, SessionState, Uses, Successors, SessionShared, Live, Valid

\* One request moves without a link to take or to use.
LEMMA MailStays ==
  ASSUME NEW r \in Requests, \A q \in Requests \ {r} : req'[q] = req[q], mail' = mail,
         \/ ~ Consumes(req[r].pc) /\ ~ Consumes(req'[r].pc)
         \/ Consumes(req[r].pc) /\ Consumes(req'[r].pc) /\ req'[r].token = req[r].token
  PROVE  MailSteps
  <1>1. \A t \in MailTokens : Consuming(t)' = Consuming(t)
    BY LinkHands
  <1> QED BY <1>1, SameLinks, LinksStutter

LEMMA SessionsStay ==
  ASSUME NEW r \in Requests, \A q \in Requests \ {r} : req'[q] = req[q], session' = session,
         req[r].pc # "rotating", req'[r].pc # "rotating"
  PROVE  RefreshSteps
  <1>1. \A s \in Sessions : Rotating(s)' = Rotating(s)
    BY SessionHands
  <1> QED BY <1>1, SameSessions, SessionsStutter

\* A new mail
LEMMA NewMailSteps ==
  ASSUME AInv, NEW r \in Requests, \A q \in Requests \ {r} : req'[q] = req[q],
         ~ Consumes(req[r].pc), ~ Consumes(req'[r].pc),
         NEW purpose \in Purposes, Unissued(mail) # {}, mail' = WithMail(purpose)
  PROVE  MailSteps
  <1> DEFINE row == [purpose |-> purpose, used |-> FALSE, expired |-> FALSE, uses |-> 0,
                     shared |-> FALSE]
  <1>1. PICK new \in MailTokens : new = Some(Unissued(mail)) /\ mail[new] = None
    BY FreshToken, Typed DEF AInv
  <1>2. row \in MailRow /\ ~ row.used /\ ~ row.expired /\ row.uses = 0 /\ ~ row.shared
    BY DEF MailRow
  <1>3. mail' = [mail EXCEPT ![new] = row]
    BY <1>1 DEF WithMail
  <1> HIDE DEF row
  <1>4. /\ mail'[new] = row /\ row # None
        /\ \A t \in MailTokens \ {new} : mail'[t] = mail[t]
    BY <1>1, <1>2, <1>3, Typed, AccountsAssumption DEF AInv
  <1>5. \A t \in MailTokens : Consuming(t)' = Consuming(t)
    BY LinkHands
  <1>6. \A t \in MailTokens \ {new} : /\ MailState(t)' = MailState(t) /\ MailUses(t)' = MailUses(t)
                                      /\ MailShared(t)' = MailShared(t)
    BY <1>4 DEF MailState, MailUses, MailShared, Usable
  <1>7. /\ MailState(new) = "unissued" /\ MailState(new)' = "open"
        /\ MailUses(new)' = MailUses(new) /\ MailShared(new)' = MailShared(new)
    BY <1>1, <1>2, <1>4 DEF MailState, MailUses, MailShared, Usable
  <1> QED BY <1>5, <1>6, <1>7, LinksAge

LEMMA RegisterSteps ==
  ASSUME AInv, NEW r \in Requests, Register(r)
  PROVE  MailSteps /\ RefreshSteps
  <1>1. session' = session
    BY DEF Register
  <1>2. CASE Gate
    <2>1. /\ Unissued(mail) # {} /\ mail' = WithMail("verify") /\ req[r].pc = "idle"
          /\ req' = req
      BY <1>2 DEF Register
    <2>2. MailSteps
      BY <2>1, NewMailSteps DEF Purposes, Consumes
    <2> QED BY <1>1, <2>1, <2>2, SessionsStay
  <1>3. CASE ~ Gate
    <2>1. mail' = mail /\ Step(r, "idle", [IdleReq EXCEPT !.pc = "issuing"])
      BY <1>3 DEF Register
    <2>2. /\ req[r].pc = "idle" /\ req'[r].pc = "issuing"
          /\ \A q \in Requests \ {r} : req'[q] = req[q]
      BY <2>1, Moved DEF IdleReq
    <2> QED BY <1>1, <2>1, <2>2, MailStays, SessionsStay DEF Consumes
  <1> QED BY <1>2, <1>3

LEMMA SendMailSteps ==
  ASSUME AInv, NEW r \in Requests, SendMail(r)
  PROVE  MailSteps /\ RefreshSteps
  <1> DEFINE purpose == IF req[r].op = "resend" THEN "verify" ELSE "reset"
  <1>1. /\ Step(r, "mailing", IdleReq) /\ session' = session
        /\ mail' = WithMail(purpose) /\ Unissued(mail) # {}
    BY DEF SendMail, Done
  <1>2. /\ req[r].pc = "mailing" /\ req'[r].pc = "idle"
        /\ \A q \in Requests \ {r} : req'[q] = req[q]
    BY <1>1, Moved, IdleOK
  <1>3. purpose \in Purposes
    BY DEF Purposes
  <1> HIDE DEF purpose
  <1>4. MailSteps
    BY <1>1, <1>2, <1>3, NewMailSteps DEF Consumes
  <1> QED BY <1>1, <1>2, <1>4, SessionsStay

LEMMA ReadLinkSteps ==
  ASSUME AInv, NEW r \in Requests, NEW t \in MailTokens, ReadLink(r, t)
  PROVE  MailSteps /\ RefreshSteps
  <1> DEFINE changes == [IdleReq EXCEPT !.token = t,
                           !.pc = IF mail[t].purpose = "verify" THEN "verifying" ELSE "resetting"]
             hold == Consuming(t) # {}
             row == [mail[t] EXCEPT !.shared = @ \/ hold]
  <1>1. /\ Step(r, "idle", changes) /\ session' = session
        /\ mail' = [mail EXCEPT ![t] = row] /\ Usable(t)
    BY DEF ReadLink
  <1>2. mail[t] \in MailRow /\ mail[t] # None /\ ~ mail[t].used /\ ~ mail[t].expired
    BY <1>1, Typed DEF AInv, Usable
  <1>3. /\ row \in MailRow /\ row.used = mail[t].used /\ row.expired = mail[t].expired
        /\ row.uses = mail[t].uses /\ row.shared = (mail[t].shared \/ hold)
    BY <1>2 DEF MailRow
  <1>4. changes.pc \in {"verifying", "resetting"} /\ changes.token = t
    BY DEF IdleReq
  <1>5. /\ req[r].pc = "idle" /\ req'[r] = changes
        /\ \A q \in Requests \ {r} : req'[q] = req[q]
    BY <1>1, Moved
  <1> HIDE DEF changes, row
  <1>6. /\ mail'[t] = row /\ row # None /\ \A i \in MailTokens \ {t} : mail'[i] = mail[i]
    BY <1>1, <1>3, Typed, AccountsAssumption DEF AInv
  <1>7. \A i \in MailTokens : Consuming(i)' = IF i = t THEN Consuming(t) \cup {r} ELSE Consuming(i)
    BY <1>4, <1>5, LinkHands DEF Consumes
  <1>8. r \notin Consuming(t)
    BY <1>5, LinkHands DEF Consumes
  <1>9. \A i \in MailTokens \ {t} : /\ MailState(i)' = MailState(i) /\ MailUses(i)' = MailUses(i)
                                    /\ MailShared(i)' = MailShared(i)
    BY <1>6 DEF MailState, MailUses, MailShared, Usable
  <1>10. /\ MailState(t) = "open" /\ MailState(t)' = "open" /\ MailUses(t)' = MailUses(t)
    BY <1>2, <1>3, <1>6 DEF MailState, MailUses, Usable
  <1>11. MailShared(t)' = (MailShared(t) \/ Consuming(t) # {})
    BY <1>2, <1>3, <1>6 DEF MailShared
  <1>12. MailSteps
    BY <1>7, <1>8, <1>9, <1>10, <1>11, LinkRead
  <1>13. RefreshSteps
    BY <1>1, <1>4, <1>5, SessionsStay
  <1> QED BY <1>12, <1>13

\* A link is used.
LEMMA UseSteps ==
  ASSUME AInv, NEW r \in Requests, NEW from, Step(r, from, IdleReq), Consumes(from),
         mail' = Used(req[r].token)
  PROVE  MailSteps
  <1>1. /\ req[r].pc = from /\ req'[r].pc = "idle"
        /\ \A q \in Requests \ {r} : req'[q] = req[q]
    BY Moved, IdleOK
  <1>2. PICK t \in MailTokens : t = req[r].token /\ mail[t] # None
    BY <1>1 DEF AInv, Carries, Consumes
  <1>3. /\ \A i \in MailTokens \ {t} : mail'[i] = mail[i]
        /\ mail'[t].used /\ mail'[t].uses = mail[t].uses + 1 /\ mail'[t] # None
        /\ mail'[t].shared = mail[t].shared
    BY <1>2, UsedOK DEF AInv
  <1>4. r \in Consuming(t)
    BY <1>1, <1>2, LinkHands
  <1>5. \A i \in MailTokens : Consuming(i)' = IF i = t THEN Consuming(t) \ {r} ELSE Consuming(i)
    BY <1>1, <1>2, LinkHands DEF Consumes
  <1>6. \A i \in MailTokens \ {t} : /\ MailState(i)' = MailState(i) /\ MailUses(i)' = MailUses(i)
                                    /\ MailShared(i)' = MailShared(i)
    BY <1>3 DEF MailState, MailUses, MailShared, Usable
  <1>7. /\ MailState(t)' = "closed" /\ MailUses(t)' = MailUses(t) + 1
        /\ MailShared(t)' = MailShared(t)
    BY <1>2, <1>3 DEF MailState, MailUses, MailShared, Usable
  <1> QED BY <1>2, <1>4, <1>5, <1>6, <1>7, LinkUse

LEMMA LinkExpiresSteps ==
  ASSUME AInv, NEW t \in MailTokens, LinkExpires(t)
  PROVE  MailSteps /\ RefreshSteps
  <1> DEFINE row == [mail[t] EXCEPT !.expired = TRUE]
  <1>1. /\ Usable(t) /\ mail' = [mail EXCEPT ![t] = row] /\ UNCHANGED <<session, req>>
    BY DEF LinkExpires
  <1>2. mail[t] \in MailRow /\ mail[t] # None /\ ~ mail[t].used /\ ~ mail[t].expired
    BY <1>1, Typed DEF AInv, Usable
  <1>3. /\ row \in MailRow /\ row.expired /\ row.uses = mail[t].uses /\ row.shared = mail[t].shared
    BY <1>2 DEF MailRow
  <1> HIDE DEF row
  <1>4. /\ mail'[t] = row /\ row # None /\ \A i \in MailTokens \ {t} : mail'[i] = mail[i]
    BY <1>1, <1>3, Typed, AccountsAssumption DEF AInv
  <1>5. \A i \in MailTokens \ {t} : /\ MailState(i)' = MailState(i) /\ MailUses(i)' = MailUses(i)
                                    /\ MailShared(i)' = MailShared(i)
    BY <1>4 DEF MailState, MailUses, MailShared, Usable
  <1>6. /\ MailState(t) = "open" /\ MailState(t)' = "closed" /\ MailUses(t)' = MailUses(t)
        /\ MailShared(t)' = MailShared(t)
    BY <1>2, <1>3, <1>4 DEF MailState, MailUses, MailShared, Usable
  <1>7. \A i \in MailTokens : Consuming(i)' = Consuming(i)
    BY <1>1 DEF Consuming
  <1>8. \A s \in Sessions : Rotating(s)' = Rotating(s)
    BY <1>1 DEF Rotating
  <1> QED BY <1>1, <1>5, <1>6, <1>7, <1>8, LinksAge, SameSessions, SessionsStutter

LEMMA UsesKept ==
  ASSUME \A c \in Sessions : /\ session'[c] # None <=> session[c] # None
                             /\ session[c] # None => session'[c].from = session[c].from
  PROVE  \A s \in Sessions : Uses(s)' = Uses(s)
  <1>1. \A s \in Sessions : Successors(s)' = Successors(s)
    BY DEF Successors
  <1> QED BY <1>1 DEF Uses

\* A new session is one more successor of the one that it replaces.
LEMMA UsesGrow ==
  ASSUME NEW new \in Sessions, session[new] = None, session'[new] # None,
         \A c \in Sessions \ {new} : /\ session'[c] # None <=> session[c] # None
                                     /\ session[c] # None => session'[c].from = session[c].from,
         NEW s \in Sessions
  PROVE  /\ session'[new].from = s => Uses(s)' = Uses(s) + 1
         /\ session'[new].from # s => Uses(s)' = Uses(s)
  <1>1. CASE session'[new].from = s
    <2>1. new \notin Successors(s) /\ Successors(s)' = Successors(s) \cup {new}
      BY <1>1 DEF Successors
    <2>2. IsFiniteSet(Successors(s))
      <3>1. Successors(s) \in SUBSET Sessions
        BY DEF Successors
      <3> QED BY <3>1, AccountsAssumption, FS_Subset
    <2> QED BY <1>1, <2>1, <2>2, FS_AddElement DEF Uses
  <1>2. CASE session'[new].from # s
    <2>1. Successors(s)' = Successors(s)
      BY <1>2 DEF Successors
    <2> QED BY <1>2, <2>1 DEF Uses
  <1> QED BY <1>1, <1>2

\* One row changes and stays what it replaced.
LEMMA RowSteps ==
  ASSUME AInv, NEW s \in Sessions, NEW row \in SessionRow, session[s] # None,
         session' = [session EXCEPT ![s] = row], row.from = session[s].from
  PROVE  /\ session'[s] = row /\ row # None
         /\ \A i \in Sessions : Uses(i)' = Uses(i)
         /\ \A i \in Sessions \ {s} : /\ SessionState(i)' = SessionState(i)
                                      /\ SessionShared(i)' = SessionShared(i)
  <1>1. /\ session'[s] = row /\ row # None /\ \A i \in Sessions \ {s} : session'[i] = session[i]
    BY Typed, AccountsAssumption DEF AInv
  <1>2. \A i \in Sessions : Uses(i)' = Uses(i)
    BY <1>1, UsesKept
  <1> QED BY <1>1, <1>2 DEF SessionState, SessionShared, Live, Valid

LEMMA RotateReadSteps ==
  ASSUME AInv, NEW r \in Requests, NEW s \in Sessions, RotateRead(r, s)
  PROVE  MailSteps /\ RefreshSteps
  <1> DEFINE hold == Rotating(s) # {}
             row == [session[s] EXCEPT !.shared = @ \/ hold]
             changes == [IdleReq EXCEPT !.pc = "rotating", !.token = s]
  <1>1. /\ Step(r, "idle", changes) /\ mail' = mail
        /\ session' = [session EXCEPT ![s] = row] /\ Live(s)
    BY DEF RotateRead
  <1>a. changes.pc = "rotating" /\ changes.token = s
    BY DEF IdleReq
  <1> HIDE DEF changes
  <1>2. /\ req[r].pc = "idle" /\ req'[r].pc = "rotating" /\ req'[r].token = s
        /\ \A q \in Requests \ {r} : req'[q] = req[q]
    BY <1>1, <1>a, Moved
  <1>3. session[s] \in SessionRow /\ session[s] # None
    BY <1>1, Typed DEF AInv, Live, Valid
  <1>4. /\ row \in SessionRow /\ row.revoked = session[s].revoked /\ row.from = session[s].from
        /\ row.expired = session[s].expired /\ row.shared = (session[s].shared \/ hold)
    <2>1. (session[s].shared \/ hold) \in BOOLEAN
      OBVIOUS
    <2> QED BY <1>3, <2>1, RowShared
  <1> HIDE DEF row
  <1>5. /\ session'[s] = row /\ row # None
        /\ \A i \in Sessions : Uses(i)' = Uses(i)
        /\ \A i \in Sessions \ {s} : /\ SessionState(i)' = SessionState(i)
                                     /\ SessionShared(i)' = SessionShared(i)
    BY <1>1, <1>3, <1>4, RowSteps
  <1>6. \A i \in Sessions : Rotating(i)' = IF i = s THEN Rotating(s) \cup {r} ELSE Rotating(i)
    BY <1>2, SessionHands
  <1>7. r \notin Rotating(s)
    BY <1>2, SessionHands
  <1>8. SessionState(s) = "open" /\ SessionState(s)' = "open"
    BY <1>1, <1>4, <1>5 DEF SessionState, Live, Valid
  <1>9. SessionShared(s)' = (SessionShared(s) \/ Rotating(s) # {})
    BY <1>3, <1>4, <1>5 DEF SessionShared
  <1>10. RefreshSteps
    BY <1>5, <1>6, <1>7, <1>8, <1>9, SessionRead
  <1>11. MailSteps
    BY <1>1, <1>2, MailStays DEF Consumes
  <1> QED BY <1>10, <1>11

LEMMA EndSteps ==
  ASSUME AInv, NEW s \in Sessions, UNCHANGED <<mail, req>>, NEW row \in SessionRow,
         session[s] # None, session' = [session EXCEPT ![s] = row],
         row.from = session[s].from, row.shared = session[s].shared, row.revoked \/ row.expired
  PROVE  MailSteps /\ RefreshSteps
  <1>1. /\ session'[s] = row /\ row # None
        /\ \A i \in Sessions : Uses(i)' = Uses(i)
        /\ \A i \in Sessions \ {s} : /\ SessionState(i)' = SessionState(i)
                                     /\ SessionShared(i)' = SessionShared(i)
    BY RowSteps
  <1>2. /\ SessionState(s) \in {"open", "closed"} /\ SessionState(s)' = "closed"
        /\ SessionShared(s)' = SessionShared(s)
    BY <1>1 DEF SessionState, SessionShared, Live, Valid
  <1>3. \A i \in Sessions : Rotating(i)' = Rotating(i)
    BY DEF Rotating
  <1>4. \A t \in MailTokens : Consuming(t)' = Consuming(t)
    BY DEF Consuming
  <1>5. RefreshSteps
    BY <1>1, <1>2, <1>3, SessionsAge
  <1> QED BY <1>4, <1>5, SameLinks, LinksStutter

LEMMA LogoutSteps ==
  ASSUME AInv, NEW r \in Requests, NEW s \in Sessions, Logout(r, s)
  PROVE  MailSteps /\ RefreshSteps
  <1> DEFINE row == [session[s] EXCEPT !.revoked = TRUE]
  <1>1. /\ UNCHANGED <<mail, req>> /\ session[s] # None
        /\ session' = [session EXCEPT ![s] = row]
    BY DEF Logout, Valid
  <1>2. /\ row \in SessionRow /\ row.revoked = TRUE /\ row.from = session[s].from
        /\ row.shared = session[s].shared
    BY <1>1, Typed, RowRevoked DEF AInv
  <1> HIDE DEF row
  <1> QED BY <1>1, <1>2, EndSteps

LEMMA SessionExpiresSteps ==
  ASSUME AInv, NEW s \in Sessions, SessionExpires(s)
  PROVE  MailSteps /\ RefreshSteps
  <1> DEFINE row == [session[s] EXCEPT !.expired = TRUE]
  <1>1. /\ UNCHANGED <<mail, req>> /\ session[s] # None
        /\ session' = [session EXCEPT ![s] = row]
    BY DEF SessionExpires, Live, Valid
  <1>2. /\ row \in SessionRow /\ row.expired = TRUE /\ row.from = session[s].from
        /\ row.shared = session[s].shared
    BY <1>1, Typed, RowExpired DEF AInv
  <1> HIDE DEF row
  <1> QED BY <1>1, <1>2, EndSteps

LEMMA IssueSteps ==
  ASSUME AInv, NEW r \in Requests, Issue(r)
  PROVE  MailSteps /\ RefreshSteps
  <1>1. /\ Step(r, "issuing", IdleReq) /\ mail' = mail /\ Unissued(session) # {}
    BY DEF Issue, Done
  <1>2. PICK new \in Sessions : new = Some(Unissued(session)) /\ session[new] = None
    BY <1>1, FreshToken, Typed DEF AInv
  <1>3. session' = [session EXCEPT ![new] = NewSession(None)]
    BY <1>2 DEF Issue
  <1>4. /\ req[r].pc = "issuing" /\ req'[r].pc = "idle"
        /\ \A q \in Requests \ {r} : req'[q] = req[q]
    BY <1>1, Moved, IdleOK
  <1>5. user # None
    BY <1>4 DEF AInv, Carries
  <1>6. /\ NewSession(None) \in SessionRow /\ NewSession(None).from = None
        /\ ~ NewSession(None).revoked /\ ~ NewSession(None).expired /\ ~ NewSession(None).shared
    BY <1>5, BegunCounted
  <1>7. /\ session'[new] = NewSession(None) /\ session'[new] # None
        /\ \A i \in Sessions \ {new} : session'[i] = session[i]
    BY <1>2, <1>3, <1>6, Typed, AccountsAssumption DEF AInv
  <1>8. \A i \in Sessions : Uses(i)' = Uses(i)
    BY <1>2, <1>6, <1>7, UsesGrow, AccountsAssumption
  <1>9. \A i \in Sessions \ {new} : /\ SessionState(i)' = SessionState(i)
                                    /\ SessionShared(i)' = SessionShared(i)
    BY <1>7 DEF SessionState, SessionShared, Live, Valid
  <1>10. /\ SessionState(new) = "unissued" /\ SessionState(new)' = "open"
         /\ SessionShared(new)' = SessionShared(new)
    BY <1>2, <1>6, <1>7 DEF SessionState, SessionShared, Live, Valid
  <1>11. \A i \in Sessions : Rotating(i)' = Rotating(i)
    BY <1>4, SessionHands
  <1>12. RefreshSteps
    BY <1>8, <1>9, <1>10, <1>11, SessionsAge
  <1> QED BY <1>1, <1>4, <1>12, MailStays DEF Consumes

LEMMA RotateCommitSteps ==
  ASSUME AInv, NEW r \in Requests, RotateCommit(r)
  PROVE  MailSteps /\ RefreshSteps
  <1>1. /\ Step(r, "rotating", IdleReq) /\ mail' = mail
    BY DEF RotateCommit, Done
  <1>2. /\ req[r].pc = "rotating" /\ req'[r].pc = "idle"
        /\ \A q \in Requests \ {r} : req'[q] = req[q]
    BY <1>1, Moved, IdleOK
  <1>3. PICK old \in Sessions, new \in Sessions :
            old = req[r].token /\ new = Some(Unissued(session))
    BY Rotated
  <1> DEFINE row == [session[old] EXCEPT !.revoked = TRUE]
  <1>4. /\ old # new /\ session[old] # None /\ session[new] = None /\ user # None
        /\ session'[new] = NewSession(old) /\ session'[old] = row
        /\ \A i \in Sessions \ {old, new} : session'[i] = session[i]
    BY <1>3, Rotated
  <1>5. /\ row \in SessionRow /\ row.revoked = TRUE /\ row.from = session[old].from
        /\ row.shared = session[old].shared
    BY <1>4, Typed, RowRevoked DEF AInv
  <1> HIDE DEF row
  <1>6. /\ NewSession(old) \in SessionRow /\ NewSession(old).from = old
        /\ ~ NewSession(old).revoked /\ ~ NewSession(old).expired /\ ~ NewSession(old).shared
    BY <1>4, BegunCounted
  <1>7. row # None /\ NewSession(old) # None
    BY <1>5, <1>6, AccountsAssumption
  <1>8. \A i \in Sessions : Uses(i)' = IF i = old THEN Uses(old) + 1 ELSE Uses(i)
    BY <1>4, <1>5, <1>6, <1>7, UsesGrow
  <1>9. \A i \in Sessions \ {old, new} : /\ SessionState(i)' = SessionState(i)
                                         /\ SessionShared(i)' = SessionShared(i)
    BY <1>4 DEF SessionState, SessionShared, Live, Valid
  <1>10. /\ SessionState(new) = "unissued" /\ SessionState(new)' = "open"
         /\ SessionShared(new)' = SessionShared(new)
    BY <1>4, <1>6, <1>7 DEF SessionState, SessionShared, Live, Valid
  <1>11. SessionState(old)' = "closed" /\ SessionShared(old)' = SessionShared(old)
    BY <1>4, <1>5, <1>7 DEF SessionState, SessionShared, Live, Valid
  <1>12. r \in Rotating(old)
    BY <1>2, <1>3, SessionHands
  <1>13. \A i \in Sessions : Rotating(i)' = IF i = old THEN Rotating(old) \ {r} ELSE Rotating(i)
    <2>1. ASSUME NEW i \in Sessions
          PROVE  Rotating(i)' = Rotating(i) \ {r} /\ (r \in Rotating(i) <=> i = old)
      BY <1>2, <1>3, SessionHands
    <2> QED BY <2>1
  <1>14. RefreshSteps
    BY <1>8, <1>9, <1>10, <1>11, <1>12, <1>13, SessionUse
  <1> QED BY <1>1, <1>2, <1>14, MailStays DEF Consumes

LEMMA ResetCommitSteps ==
  ASSUME AInv, NEW r \in Requests, ResetCommit(r)
  PROVE  MailSteps /\ RefreshSteps
  <1> DEFINE row(s) == [session[s] EXCEPT !.revoked = TRUE]
             seen == req[r].seen
  <1>1. /\ Step(r, "revoking", IdleReq) /\ mail' = Used(req[r].token)
        /\ session' = [s \in Sessions |-> IF s \in seen THEN row(s) ELSE session[s]]
    BY DEF ResetCommit, Done
  <1>2. /\ req[r].pc = "revoking" /\ req'[r].pc = "idle"
        /\ \A q \in Requests \ {r} : req'[q] = req[q]
    BY <1>1, Moved, IdleOK
  <1>3. seen \subseteq Sessions /\ \A s \in seen : session[s] # None
    BY <1>2, Typed DEF AInv, Carries, ReqState
  <1>4. \A s \in seen : /\ row(s) \in SessionRow /\ row(s).revoked = TRUE
                        /\ row(s).from = session[s].from /\ row(s).shared = session[s].shared
    BY <1>3, Typed, RowRevoked DEF AInv
  <1>5. \A s \in seen : row(s) # None
    BY <1>4, AccountsAssumption
  <1> HIDE DEF row
  <1>6. \A s \in Sessions : session'[s] = IF s \in seen THEN row(s) ELSE session[s]
    BY <1>1
  <1>7. \A i \in Sessions : Uses(i)' = Uses(i)
    BY <1>3, <1>4, <1>5, <1>6, UsesKept
  <1>8. \A s \in Sessions : s \in seen => /\ SessionState(s) \in {"open", "closed"}
                                          /\ SessionState(s)' = "closed"
                                          /\ SessionShared(s)' = SessionShared(s)
    BY <1>3, <1>4, <1>5, <1>6 DEF SessionState, SessionShared, Live, Valid
  <1>9. \A s \in Sessions : s \notin seen => /\ SessionState(s)' = SessionState(s)
                                             /\ SessionShared(s)' = SessionShared(s)
    BY <1>6 DEF SessionState, SessionShared, Live, Valid
  <1>10. \A i \in Sessions : Rotating(i)' = Rotating(i)
    BY <1>2, SessionHands
  <1>11. RefreshSteps
    BY <1>7, <1>8, <1>9, <1>10, SessionsAge
  <1>12. MailSteps
    BY <1>1, UseSteps DEF Consumes
  <1> QED BY <1>11, <1>12

\* A request that dies lets go of its token.
LEMMA CrashSteps ==
  ASSUME AInv, NEW r \in Requests, Crash(r)
  PROVE  MailSteps /\ RefreshSteps
  <1>1. /\ mail' = mail /\ session' = session /\ req'[r].pc = "idle"
        /\ \A q \in Requests \ {r} : req'[q] = req[q]
    BY IdleOK DEF Crash, AInv, TypeOK
  <1>2. MailSteps
    <2>1. CASE ~ Consumes(req[r].pc)
      BY <1>1, <2>1, MailStays DEF Consumes
    <2>2. CASE Consumes(req[r].pc)
      <3>1. PICK t \in MailTokens : t = req[r].token
        BY <2>2 DEF AInv, Carries, Consumes
      <3>2. r \in Consuming(t)
        BY <1>1, <2>2, <3>1, LinkHands
      <3>3. ASSUME NEW i \in MailTokens
            PROVE  Consuming(i)' = Consuming(i) \ {r} /\ (r \in Consuming(i) <=> i = t)
        BY <1>1, <2>2, <3>1, LinkHands DEF Consumes
      <3>4. \A i \in MailTokens :
                Consuming(i)' = IF i = t THEN Consuming(t) \ {r} ELSE Consuming(i)
        BY <3>3
      <3> QED BY <1>1, <3>2, <3>4, SameLinks, LinkDrop
    <2> QED BY <2>1, <2>2
  <1>3. RefreshSteps
    <2>1. CASE req[r].pc # "rotating"
      BY <1>1, <2>1, SessionsStay
    <2>2. CASE req[r].pc = "rotating"
      <3>1. PICK s \in Sessions : s = req[r].token
        BY <2>2 DEF AInv, Carries
      <3>2. r \in Rotating(s)
        BY <1>1, <2>2, <3>1, SessionHands
      <3>3. ASSUME NEW i \in Sessions
            PROVE  Rotating(i)' = Rotating(i) \ {r} /\ (r \in Rotating(i) <=> i = s)
        BY <1>1, <2>2, <3>1, SessionHands
      <3>4. \A i \in Sessions : Rotating(i)' = IF i = s THEN Rotating(s) \ {r} ELSE Rotating(i)
        BY <3>3
      <3> QED BY <1>1, <3>2, <3>4, SameSessions, SessionDrop
    <2> QED BY <2>1, <2>2
  <1> QED BY <1>2, <1>3

\* A request that only reads and counts
LEMMA QuietSteps ==
  ASSUME AInv, NEW r \in Requests, NEW from, NEW changes, Step(r, from, changes),
         UNCHANGED <<mail, session>>, from # "rotating", changes.pc # "rotating",
         \/ ~ Consumes(from) /\ ~ Consumes(changes.pc)
         \/ Consumes(from) /\ Consumes(changes.pc) /\ changes.token = req[r].token
  PROVE  MailSteps /\ RefreshSteps
  <1>1. req[r].pc = from /\ req'[r] = changes /\ \A q \in Requests \ {r} : req'[q] = req[q]
    BY Moved
  <1> QED BY <1>1, MailStays, SessionsStay

LEMMA LookUpSteps ==
  ASSUME AInv, NEW r \in Requests, NEW from, from \in {"idle", "allowed"}, NEW op, NEW password,
         Step(r, from, AfterLookUp(op, password)), UNCHANGED <<mail, session>>
  PROVE  MailSteps /\ RefreshSteps
  <1>1. AfterLookUp(op, password).pc \in {"idle", "issuing", "mailing"}
    BY LookedUp
  <1> QED BY <1>1, QuietSteps DEF Consumes

LEMMA FinishSteps ==
  ASSUME AInv, NEW r \in Requests, Finish(r)
  PROVE  MailSteps /\ RefreshSteps
  <1>1. CASE SetExpiry(r)
    <2> DEFINE changes == [req[r] EXCEPT !.pc = "allowed"]
    <2>1. Step(r, "expiring", changes) /\ UNCHANGED <<mail, session>>
      BY <1>1 DEF SetExpiry
    <2>2. changes.pc = "allowed"
      BY Typed DEF AInv, ReqState
    <2> HIDE DEF changes
    <2> QED BY <2>1, <2>2, QuietSteps DEF Consumes
  <1>2. CASE LookUp(r)
    BY <1>2, LookUpSteps DEF LookUp
  <1>3. CASE ResetRevoke(r)
    <2> DEFINE valid == {s \in Sessions : Valid(s)}
               changes == [req[r] EXCEPT !.pc = "revoking", !.seen = valid]
    <2>1. Step(r, "resetting", changes) /\ UNCHANGED <<mail, session>>
      BY <1>3 DEF ResetRevoke
    <2>2. changes.pc = "revoking" /\ changes.token = req[r].token
      BY Typed DEF AInv, ReqState
    <2> HIDE DEF changes
    <2> QED BY <2>1, <2>2, QuietSteps DEF Consumes
  <1>4. CASE VerifyCommit(r)
    <2>1. /\ Step(r, "verifying", IdleReq) /\ mail' = Used(req[r].token) /\ session' = session
      BY <1>4 DEF VerifyCommit, Done
    <2>2. /\ req[r].pc = "verifying" /\ req'[r].pc = "idle"
          /\ \A q \in Requests \ {r} : req'[q] = req[q]
      BY <2>1, Moved, IdleOK
    <2>3. MailSteps
      BY <2>1, UseSteps DEF Consumes
    <2> QED BY <2>1, <2>2, <2>3, SessionsStay
  <1> QED BY <1>1, <1>2, <1>3, <1>4, IssueSteps, SendMailSteps, ResetCommitSteps,
             RotateCommitSteps DEF Finish

LEMMA StepsAreTokenSteps == AInv /\ [Next]_vars => MailSteps /\ RefreshSteps
  <1> SUFFICES ASSUME AInv, [Next]_vars PROVE MailSteps /\ RefreshSteps
    OBVIOUS
  <1>1. ASSUME NEW r \in Requests, Register(r) \/ Finish(r) \/ Crash(r)
        PROVE  MailSteps /\ RefreshSteps
    BY <1>1, RegisterSteps, FinishSteps, CrashSteps
  <1>2. ASSUME NEW r \in Requests, NEW op \in Limited, NEW p \in Guesses \cup {None},
               Incr(r, op, p)
        PROVE  MailSteps /\ RefreshSteps
    <2>1. p \in Passwords \cup {None}
      BY AccountsAssumption
    <2>2. PICK changes \in ReqState : /\ Step(r, "idle", changes)
                                      /\ changes.pc \in {"idle", "expiring", "allowed"}
      BY <1>2, <2>1, Incremented
    <2> QED BY <1>2, <2>2, QuietSteps DEF Consumes, Incr
  <1>3. ASSUME NEW r \in Requests, NEW op \in Limited, NEW p, Ask(r, op, p)
        PROVE  MailSteps /\ RefreshSteps
    BY <1>3, LookUpSteps DEF Ask
  <1>4. ASSUME NEW r \in Requests, NEW t \in MailTokens, ReadLink(r, t)
        PROVE  MailSteps /\ RefreshSteps
    BY <1>4, ReadLinkSteps
  <1>5. ASSUME NEW r \in Requests, NEW s \in Sessions, RotateRead(r, s) \/ Logout(r, s)
        PROVE  MailSteps /\ RefreshSteps
    BY <1>5, RotateReadSteps, LogoutSteps
  <1>6. ASSUME NEW t \in MailTokens, LinkExpires(t) PROVE MailSteps /\ RefreshSteps
    BY <1>6, LinkExpiresSteps
  <1>7. ASSUME NEW s \in Sessions, SessionExpires(s) PROVE MailSteps /\ RefreshSteps
    BY <1>7, SessionExpiresSteps
  <1>8. CASE UNCHANGED vars \/ \E op \in Counted : WindowEnds(op)
    <2>1. UNCHANGED <<mail, session, req>>
      BY <1>8 DEF vars, WindowEnds
    <2>2. \A t \in MailTokens : Consuming(t)' = Consuming(t)
      BY <2>1 DEF Consuming
    <2>3. \A s \in Sessions : Rotating(s)' = Rotating(s)
      BY <2>1 DEF Rotating
    <2> QED BY <2>1, <2>2, <2>3, SameLinks, SameSessions, LinksStutter, SessionsStutter
  <1> QED BY <1>1, <1>2, <1>3, <1>4, <1>5, <1>6, <1>7, <1>8 DEF Next

LEMMA TokensBegin == Init => MailLinks!Init /\ RefreshTokens!Init
  <1> SUFFICES ASSUME Init PROVE MailLinks!Init /\ RefreshTokens!Init
    OBVIOUS
  <1>1. \A r \in Requests : req[r].pc = "idle"
    BY IdleOK DEF Init
  <1>2. \A t \in MailTokens : /\ MailState(t) = "unissued" /\ Consuming(t) = {}
                              /\ MailUses(t) = 0 /\ MailShared(t) = FALSE
    BY <1>1 DEF Init, MailState, Consuming, MailUses, MailShared
  <1>3. \A s \in Sessions : /\ SessionState(s) = "unissued" /\ Rotating(s) = {}
                            /\ Successors(s) = {} /\ SessionShared(s) = FALSE
    BY <1>1 DEF Init, SessionState, Rotating, Successors, SessionShared
  <1>4. \A s \in Sessions : Cardinality(Successors(s)) = 0
    BY <1>3, FS_EmptySet
  <1> QED BY <1>2, <1>3, <1>4 DEF MailLinks!Init, RefreshTokens!Init

\* Mailed links and refresh tokens are one-time tokens: every request, expiry, logout,
\* reset and crash is a step of OneTimeToken for both tables, or none at all.
THEOREM TokensAreOneTime == Spec => SingleUse
  <1>1. Spec => [][MailLinks!Next]_(MailLinks!vars) /\ [][RefreshTokens!Next]_(RefreshTokens!vars)
    BY InitAInv, NextAInv, StepsAreTokenSteps, PTL DEF Spec, MailSteps, RefreshSteps
  <1> QED BY <1>1, TokensBegin, PTL DEF Spec, SingleUse, MailLinks!Spec, RefreshTokens!Spec

MailOnce == INSTANCE OneTimeTokenProofs WITH
    Tokens <- MailTokens, Readers <- Requests,
    state <- [t \in MailTokens |-> MailState(t)],
    holders <- [t \in MailTokens |-> Consuming(t)],
    uses <- [t \in MailTokens |-> MailUses(t)],
    shared <- [t \in MailTokens |-> MailShared(t)]

RefreshOnce == INSTANCE OneTimeTokenProofs WITH
    Tokens <- Sessions, Readers <- Requests,
    state <- [s \in Sessions |-> SessionState(s)],
    holders <- [s \in Sessions |-> Rotating(s)],
    uses <- [s \in Sessions |-> Cardinality(Successors(s))],
    shared <- [s \in Sessions |-> SessionShared(s)]

\* A mailed link that no two requests held at once verifies or resets once at most,
\* and a refresh token that no two requests held at once is replaced once at most.
THEOREM TokensWorkOnce ==
    Spec => [](/\ \A t \in MailTokens : MailUses(t) <= 1 \/ MailShared(t)
               /\ \A s \in Sessions : Cardinality(Successors(s)) <= 1 \/ SessionShared(s))
  <1>1. Spec => MailOnce!Spec
    <2>1. Init => MailOnce!Init
      BY TokensBegin DEF MailLinks!Init, MailOnce!Init
    <2>2. MailSteps => [MailOnce!Next]_(MailOnce!vars)
      BY DEF MailSteps, MailLinks!Next, MailLinks!vars, MailLinks!Age, MailLinks!Read,
             MailLinks!Drop, MailLinks!Use, MailLinks!States, MailOnce!Next, MailOnce!vars,
             MailOnce!Age, MailOnce!Read, MailOnce!Drop, MailOnce!Use, MailOnce!States
    <2> QED BY <2>1, <2>2, InitAInv, NextAInv, StepsAreTokenSteps, PTL DEF Spec, MailOnce!Spec
  <1>2. Spec => RefreshOnce!Spec
    <2>1. Init => RefreshOnce!Init
      BY TokensBegin DEF RefreshTokens!Init, RefreshOnce!Init
    <2>2. RefreshSteps => [RefreshOnce!Next]_(RefreshOnce!vars)
      BY DEF RefreshSteps, RefreshTokens!Next, RefreshTokens!vars, RefreshTokens!Age,
             RefreshTokens!Read, RefreshTokens!Drop, RefreshTokens!Use, RefreshTokens!States,
             RefreshOnce!Next, RefreshOnce!vars, RefreshOnce!Age, RefreshOnce!Read,
             RefreshOnce!Drop, RefreshOnce!Use, RefreshOnce!States
    <2> QED BY <2>1, <2>2, InitAInv, NextAInv, StepsAreTokenSteps, PTL DEF Spec, RefreshOnce!Spec
  <1>3. MailOnce!UsedOnce => \A t \in MailTokens : MailUses(t) <= 1 \/ MailShared(t)
    BY DEF MailOnce!UsedOnce
  <1>4. RefreshOnce!UsedOnce =>
            \A s \in Sessions : Cardinality(Successors(s)) <= 1 \/ SessionShared(s)
    BY DEF RefreshOnce!UsedOnce
  <1>5. MailOnce!Spec => []MailOnce!UsedOnce
    BY MailOnce!TokensAreUsedOnce
  <1>6. RefreshOnce!Spec => []RefreshOnce!UsedOnce
    BY RefreshOnce!TokensAreUsedOnce
  <1> QED BY <1>1, <1>2, <1>3, <1>4, <1>5, <1>6, PTL
-----------------------------------------------------------------------------
(* The browser                                                             *)

CallRec == [pc : {"idle", "sent", "refreshing", "rotating", "issuing", "answered",
                  "refused", "leaving", "left"},
            kind : Kinds \cup {None}, tab : Tabs \cup {None}, retry : BOOLEAN,
            access : Sessions \cup {None}, cookie : Sessions \cup {None},
            got : Sessions \cup {None}]
TabRec  == [access : Sessions \cup {None}, user : BOOLEAN]

ClientTyped ==
    /\ jar \in Sessions \cup {None} /\ dead \in SUBSET Sessions /\ lost \in SUBSET Sessions
    /\ tab \in [Tabs -> TabRec] /\ call \in [Calls -> CallRec]

\* The browser only knows tokens that the server has issued.
Issued(s) == s # None => s \in Sessions /\ session[s] # None
Known ==
    /\ Issued(jar) /\ \A s \in lost : Issued(s)
    /\ \A c \in Calls : Issued(call[c].cookie) /\ Issued(call[c].got) /\ Issued(req[c].token)

\* A call and its request on the server go together.
InStep(c) ==
    /\ req[c].pc \in {"idle", "issuing", "rotating"}
    /\ req[c].pc = "rotating" <=> call[c].pc = "rotating"
    /\ req[c].pc = "issuing" <=> call[c].pc = "issuing"
    /\ call[c].pc # "answered" => call[c].got = None

\* The token of an answer on its way is known to nobody else, so nobody has ended it.
Unmet(s) == jar # s /\ \A d \in Calls : call[d].cookie # s /\ req[d].token # s
Fresh(c) ==
    call[c].pc = "answered" =>
        \E s \in Sessions : /\ call[c].got = s /\ Valid(s) /\ Unmet(s)
                            /\ \A d \in Calls \ {c} : call[d].got # s

Accounted ==
    jar # None => Live(jar) \/ session[jar].expired \/ AnswerPending(jar) \/ Mislaid(jar)

BInv == /\ AInv /\ user # None /\ user.verified /\ ClientTyped /\ Known
        /\ (\A c \in Calls : InStep(c) /\ Fresh(c)) /\ Accounted

LEMMA CallMoves ==
  ASSUME ClientTyped, NEW c \in Calls, NEW from, NEW k \in CallRec, CallStep(c, from, k)
  PROVE  /\ call[c].pc = from /\ call'[c] = k /\ \A d \in Calls \ {c} : call'[d] = call[d]
         /\ call' \in [Calls -> CallRec]
  BY DEF ClientTyped, CallStep

LEMMA NoCallOK ==
  /\ NoCall \in CallRec /\ NoCall.pc = "idle" /\ NoCall.cookie = None /\ NoCall.got = None
  BY DEF NoCall, CallRec

\* A step of the client leaves the server alone; a call that moves gets no token but
\* the cookie, and gives its own away only to the jar or for lost.
LEMMA ClientKeeps ==
  ASSUME BInv, UNCHANGED server, NEW c \in Calls, NEW from, NEW k \in CallRec, CallStep(c, from, k),
         from \notin {"rotating", "issuing"}, k.pc \notin {"rotating", "issuing", "answered"},
         k.got = None, k.cookie \in {None, call[c].cookie, jar},
         jar' \in {jar, None} \/ (from = "answered" /\ jar' = call[c].got),
         dead' \in SUBSET Sessions, tab' \in [Tabs -> TabRec], lost' \in SUBSET Sessions,
         \A s \in lost' : s \in lost \/ s \in {call[c].got, call[c].cookie},
         Accounted'
  PROVE  BInv'
  <1>1. /\ call[c].pc = from /\ call'[c] = k /\ \A d \in Calls \ {c} : call'[d] = call[d]
        /\ call' \in [Calls -> CallRec]
    BY CallMoves DEF BInv
  <1>2. UNCHANGED <<user, mail, session, counter, req>>
    BY DEF server
  <1>3. AInv'
    BY <1>2, NextAInv DEF BInv, vars
  <1>4. jar' \in Sessions \cup {None}
    BY <1>1 DEF BInv, ClientTyped, CallRec
  <1>5. ClientTyped'
    BY <1>1, <1>4 DEF ClientTyped
  <1>6. Known'
    BY <1>1, <1>2 DEF BInv, Known, Issued
  <1>7. \A d \in Calls : InStep(d)'
    BY <1>1, <1>2 DEF BInv, InStep
  <1>8. ASSUME NEW d \in Calls PROVE Fresh(d)'
    <2>1. CASE call'[d].pc # "answered"
      BY <2>1 DEF Fresh
    <2>2. CASE call'[d].pc = "answered"
      <3>1. d # c /\ call'[d] = call[d]
        BY <1>1, <2>2
      <3>2. PICK s \in Sessions : /\ call[d].got = s /\ Valid(s) /\ Unmet(s)
                                  /\ \A e \in Calls \ {d} : call[e].got # s
        BY <2>2, <3>1 DEF BInv, Fresh
      <3>3. Valid(s)'
        BY <1>2, <3>2 DEF Valid
      <3>4. s # None
        BY AccountsAssumption
      <3>5. Unmet(s)'
        BY <1>1, <1>2, <3>1, <3>2, <3>4 DEF Unmet
      <3>6. \A e \in Calls \ {d} : call'[e].got # s
        BY <1>1, <3>1, <3>2, <3>4
      <3> QED BY <3>1, <3>2, <3>3, <3>5, <3>6 DEF Fresh
    <2> QED BY <2>1, <2>2
  <1> QED BY <1>2, <1>3, <1>5, <1>6, <1>7, <1>8 DEF BInv

\* The cookie stays accounted for while it is good, and the answers that account for
\* it stay on their way.
LEMMA AccountedStays ==
  ASSUME BInv, jar' = jar, lost \subseteq lost',
         \A s \in Sessions : session[s] # None => session'[s].from = session[s].from,
         jar # None => /\ Live(jar) => Live(jar)'
                       /\ session[jar].expired => session'[jar].expired,
         \A d \in Calls : call[d].pc \in {"answered", "left"} => call'[d] = call[d]
  PROVE  Accounted'
  <1> SUFFICES ASSUME jar # None
               PROVE  Live(jar)' \/ session'[jar].expired \/ AnswerPending(jar)' \/ Mislaid(jar)'
    BY DEF Accounted
  <1>1. CASE AnswerPending(jar)
    <2>1. PICK c \in Calls : \/ call[c].pc = "answered" /\ session[call[c].got].from = jar
                             \/ call[c].pc = "left" /\ call[c].cookie = jar
      BY <1>1 DEF AnswerPending
    <2>2. call'[c] = call[c]
      BY <2>1
    <2>3. call[c].pc = "answered" => session'[call[c].got].from = session[call[c].got].from
      BY DEF BInv, Fresh, Valid
    <2> QED BY <2>1, <2>2, <2>3 DEF AnswerPending
  <1>2. CASE Mislaid(jar)
    BY <1>2, AccountsAssumption DEF Mislaid, BInv, Known, Issued, ClientTyped
  <1> QED BY <1>1, <1>2 DEF BInv, Accounted

\* Most steps of the client: one call moves, and was neither answered nor done.
LEMMA ClientMoves ==
  ASSUME BInv, UNCHANGED <<server, jar, dead, lost>>, tab' \in [Tabs -> TabRec],
         NEW c \in Calls, NEW from, NEW k \in CallRec, CallStep(c, from, k),
         from \notin {"rotating", "issuing", "answered", "left"},
         k.pc \notin {"rotating", "issuing", "answered"},
         k.got = None, k.cookie \in {None, call[c].cookie, jar}
  PROVE  BInv'
  <1>1. call[c].pc = from /\ \A d \in Calls \ {c} : call'[d] = call[d]
    BY CallMoves DEF BInv
  <1>2. session' = session
    BY DEF server
  <1>3. Accounted'
    BY <1>1, <1>2, AccountedStays DEF Live, Valid
  <1> QED BY <1>3, ClientKeeps DEF BInv, ClientTyped

\* A call that only changes its state
LEMMA CallPc ==
  ASSUME NEW m \in CallRec, NEW pc \in {"idle", "sent", "refreshing", "rotating", "issuing",
                                        "answered", "refused", "leaving", "left"}
  PROVE  /\ [m EXCEPT !.pc = pc] \in CallRec /\ [m EXCEPT !.pc = pc].pc = pc
         /\ [m EXCEPT !.pc = pc].cookie = m.cookie /\ [m EXCEPT !.pc = pc].got = m.got
  BY DEF CallRec

LEMMA CallCookie ==
  ASSUME NEW m \in CallRec, NEW s \in Sessions \cup {None}
  PROVE  /\ [m EXCEPT !.cookie = s] \in CallRec /\ [m EXCEPT !.cookie = s].pc = m.pc
         /\ [m EXCEPT !.cookie = s].cookie = s /\ [m EXCEPT !.cookie = s].got = m.got
  BY DEF CallRec

LEMMA CallGot ==
  ASSUME NEW m \in CallRec, NEW s \in Sessions \cup {None}
  PROVE  /\ [m EXCEPT !.got = s] \in CallRec /\ [m EXCEPT !.got = s].pc = m.pc
         /\ [m EXCEPT !.got = s].cookie = m.cookie /\ [m EXCEPT !.got = s].got = s
  BY DEF CallRec

LEMMA CallAccess ==
  ASSUME NEW m \in CallRec, NEW s \in Sessions \cup {None}
  PROVE  /\ [m EXCEPT !.retry = FALSE, !.access = s] \in CallRec
         /\ [m EXCEPT !.retry = FALSE, !.access = s].pc = m.pc
  BY DEF CallRec

LEMMA OutTabOK == OutTab \in TabRec
  BY DEF OutTab, TabRec

LEMMA AfterErrorOK ==
  ASSUME ClientTyped, NEW c \in Calls
  PROVE  AfterError(c) \in [Tabs -> TabRec]
  BY OutTabOK DEF ClientTyped, AfterError

LEMMA NotAnswered ==
  ASSUME BInv, NEW c \in Calls
  PROVE  /\ call[c] \in CallRec /\ (call[c].pc # "answered" => call[c].got = None)
         /\ jar \in Sessions \cup {None} /\ tab \in [Tabs -> TabRec]
  BY DEF BInv, InStep, ClientTyped

LEMMA SendKeeps ==
  ASSUME BInv, NEW c \in Calls, NEW t \in Tabs, NEW kind \in Kinds, Send(c, t, kind)
  PROVE  BInv'
  <1> DEFINE access == tab[t].access
             k == [NoCall EXCEPT !.pc = "sent", !.kind = kind, !.tab = t, !.retry = TRUE,
                                 !.access = access]
  <1>1. access \in Sessions \cup {None}
    BY NotAnswered DEF TabRec
  <1>2. CallStep(c, "idle", k) /\ UNCHANGED <<server, jar, dead, tab, lost>>
    BY DEF Send
  <1> HIDE DEF access
  <1>3. k \in CallRec /\ k.pc = "sent" /\ k.got = None /\ k.cookie = None
    BY <1>1 DEF NoCall, CallRec
  <1> HIDE DEF k
  <1> QED BY <1>2, <1>3, NotAnswered, ClientMoves

\* A page load, a sign-out: the call goes out with the cookie.
LEMMA CookieKeeps ==
  ASSUME BInv, NEW c \in Calls, NEW t \in Tabs, Boot(c, t) \/ SignOut(c, t)
  PROVE  BInv'
  <1> DEFINE boot == [NoCall EXCEPT !.pc = "refreshing", !.kind = "restore", !.tab = t,
                                    !.cookie = jar]
             leave == [NoCall EXCEPT !.pc = "leaving", !.kind = "logout", !.tab = t,
                                     !.cookie = jar]
  <1>1. \E k \in {boot, leave} : CallStep(c, "idle", k)
    BY DEF Boot, SignOut
  <1>2. UNCHANGED <<server, jar, dead, lost>> /\ tab' \in [Tabs -> TabRec]
    BY NotAnswered, OutTabOK DEF Boot, SignOut
  <1>3. /\ boot \in CallRec /\ boot.pc = "refreshing" /\ boot.got = None /\ boot.cookie = jar
        /\ leave \in CallRec /\ leave.pc = "leaving" /\ leave.got = None /\ leave.cookie = jar
    BY NotAnswered DEF NoCall, CallRec, Kinds
  <1> HIDE DEF boot, leave
  <1> QED BY <1>1, <1>2, <1>3, ClientMoves

\* A call ends without an answer to take, or is refused, or goes to the server again.
LEMMA CallKeeps ==
  ASSUME BInv, NEW c \in Calls, Succeed(c) \/ GetUnauthorized(c) \/ GiveUp(c) \/ LoseSession(c)
  PROVE  BInv'
  <1>1. CASE Succeed(c) \/ GiveUp(c) \/ LoseSession(c)
    <2>1. PICK from \in {"sent", "refused"} : CallStep(c, from, NoCall)
      BY <1>1 DEF Succeed, GiveUp, LoseSession, CallDone
    <2>2. UNCHANGED <<server, jar, dead, lost>>
      BY <1>1 DEF Succeed, GiveUp, LoseSession
    <2>3. tab' \in [Tabs -> TabRec]
      <3>1. ASSUME NEW t PROVE /\ [tab EXCEPT ![t].user = TRUE] \in [Tabs -> TabRec]
                               /\ [tab EXCEPT ![t].access = None] \in [Tabs -> TabRec]
        BY NotAnswered DEF TabRec
      <3>2. AfterError(c) \in [Tabs -> TabRec] /\ tab \in [Tabs -> TabRec]
        BY NotAnswered, AfterErrorOK DEF BInv
      <3>3. tab' \in {tab, AfterError(c), [tab EXCEPT ![MyTab(c)].user = TRUE],
                      [tab EXCEPT ![MyTab(c)].access = None]}
        BY <1>1 DEF Succeed, GiveUp, LoseSession
      <3> QED BY <3>1, <3>2, <3>3
    <2> QED BY <2>1, <2>2, <2>3, NoCallOK, ClientMoves
  <1>2. CASE GetUnauthorized(c)
    <2> DEFINE k == [call[c] EXCEPT !.pc = "refreshing", !.cookie = jar]
    <2>1. CallStep(c, "sent", k) /\ UNCHANGED <<server, jar, dead, tab, lost>>
      BY <1>2 DEF GetUnauthorized
    <2>2. call[c].pc = "sent"
      BY <2>1 DEF CallStep
    <2>3. k \in CallRec /\ k.pc = "refreshing" /\ k.got = None /\ k.cookie = jar
      <3> DEFINE k1 == [call[c] EXCEPT !.pc = "refreshing"]
      <3>1. k = [k1 EXCEPT !.cookie = jar]
        OBVIOUS
      <3>2. call[c] \in CallRec /\ call[c].got = None
        BY <2>2, NotAnswered
      <3>3. k1 \in CallRec /\ k1.pc = "refreshing" /\ k1.got = None
        BY <3>2, CallPc
      <3> HIDE DEF k1, k
      <3> QED BY <3>1, <3>3, NotAnswered, CallCookie
    <2> HIDE DEF k
    <2> QED BY <2>1, <2>3, NotAnswered, ClientMoves
  <1> QED BY <1>1, <1>2

LEMMA TakeTokensKeeps ==
  ASSUME BInv, NEW c \in Calls, TakeTokens(c)
  PROVE  BInv'
  <1>1. call[c].pc = "answered"
    BY DEF TakeTokens, CallStep
  <1>2. PICK s \in Sessions : call[c].got = s /\ Valid(s)
    BY <1>1 DEF BInv, Fresh
  <1> DEFINE k == [call[c] EXCEPT !.pc = "sent", !.retry = FALSE, !.access = s,
                                  !.cookie = None, !.got = None]
  <1>3. /\ CallStep(c, "answered", k) /\ jar' = s /\ UNCHANGED <<server, dead, lost>>
        /\ tab' = [tab EXCEPT ![MyTab(c)].access = s]
    BY <1>2 DEF TakeTokens
  <1>4. k \in CallRec /\ k.pc = "sent" /\ k.got = None /\ k.cookie = None
    <2> DEFINE k1 == [call[c] EXCEPT !.pc = "sent"]
               k2 == [k1 EXCEPT !.retry = FALSE, !.access = s]
               k3 == [k2 EXCEPT !.cookie = None]
    <2>1. k = [k3 EXCEPT !.got = None]
      OBVIOUS
    <2>2. k1 \in CallRec /\ k1.pc = "sent"
      <3>1. call[c] \in CallRec
        BY NotAnswered
      <3> QED BY <3>1, CallPc
    <2> HIDE DEF k1
    <2>3. k2 \in CallRec /\ k2.pc = "sent"
      BY <2>2, CallAccess
    <2> HIDE DEF k2
    <2>4. k3 \in CallRec /\ k3.pc = "sent" /\ k3.cookie = None
      BY <2>3, CallCookie
    <2> HIDE DEF k3, k
    <2> QED BY <2>1, <2>4, CallGot
  <1> HIDE DEF k
  <1>5. tab' \in [Tabs -> TabRec]
    BY <1>3, NotAnswered DEF TabRec
  <1>6. Accounted'
    <2>1. Valid(s)'
      BY <1>2, <1>3 DEF server, Valid
    <2> QED BY <1>3, <2>1 DEF Accounted, Live
  <1> QED BY <1>2, <1>3, <1>4, <1>5, <1>6, ClientKeeps DEF BInv, ClientTyped

LEMMA LeaveKeeps ==
  ASSUME BInv, NEW c \in Calls, Leave(c)
  PROVE  BInv'
  <1>1. CallStep(c, "left", NoCall) /\ jar' = None /\ UNCHANGED <<server, dead, lost>>
    BY DEF Leave, CallDone
  <1>2. tab' \in [Tabs -> TabRec]
    BY NotAnswered, OutTabOK DEF Leave
  <1>3. Accounted'
    BY <1>1 DEF Accounted
  <1> QED BY <1>1, <1>2, <1>3, NoCallOK, ClientKeeps DEF BInv, ClientTyped

\* An answer that is lost, or the end of a cookie that the browser never learns of,
\* is accounted for as lost.
LEMMA LoseKeeps ==
  ASSUME BInv, NEW c \in Calls, Lose(c)
  PROVE  BInv'
  <1>1. /\ CallStep(c, call[c].pc, NoCall) /\ UNCHANGED <<server, jar, dead>>
        /\ call[c].pc \notin {"rotating", "issuing"} /\ tab' = AfterError(c)
        /\ lost' = lost \cup ({call[c].got, IF call[c].pc = "left" THEN call[c].cookie ELSE None}
                              \ {None})
    BY DEF Lose, CallDone
  <1>2. call'[c] = NoCall /\ \A d \in Calls \ {c} : call'[d] = call[d]
    BY <1>1, NoCallOK, CallMoves DEF BInv
  <1>3. /\ lost' \in SUBSET Sessions /\ lost \subseteq lost'
        /\ \A s \in lost' : s \in lost \/ s \in {call[c].got, call[c].cookie}
    BY <1>1, NotAnswered DEF BInv, ClientTyped, CallRec
  <1>4. session' = session
    BY <1>1 DEF server
  <1>5. Accounted'
    <2> SUFFICES ASSUME jar # None
                 PROVE  Live(jar)' \/ session'[jar].expired \/ AnswerPending(jar)' \/ Mislaid(jar)'
      BY <1>1 DEF Accounted
    <2>1. CASE Live(jar) \/ session[jar].expired
      BY <1>1, <1>4, <2>1 DEF Live, Valid
    <2>2. CASE Mislaid(jar)
      BY <1>1, <1>3, <1>4, <2>2 DEF Mislaid
    <2>3. CASE AnswerPending(jar)
      <3>1. PICK d \in Calls : \/ call[d].pc = "answered" /\ session[call[d].got].from = jar
                               \/ call[d].pc = "left" /\ call[d].cookie = jar
        BY <2>3 DEF AnswerPending
      <3>2. CASE d # c
        BY <1>1, <1>2, <1>4, <3>1, <3>2 DEF AnswerPending
      <3>3. CASE d = c /\ call[c].pc = "answered"
        <4>1. PICK s \in Sessions : call[c].got = s
          BY <3>3 DEF BInv, Fresh
        <4>2. s # None
          BY AccountsAssumption
        <4>3. s \in lost'
          BY <1>1, <4>1, <4>2
        <4> QED BY <1>1, <1>4, <3>1, <3>3, <4>1, <4>3 DEF Mislaid
      <3>4. CASE d = c /\ call[c].pc = "left"
        BY <1>1, <3>1, <3>4 DEF Mislaid
      <3> QED BY <3>1, <3>2, <3>3, <3>4
    <2> QED BY <2>1, <2>2, <2>3 DEF BInv, Accounted
  <1> QED BY <1>1, <1>3, <1>5, NoCallOK, AfterErrorOK, ClientKeeps DEF BInv, ClientTyped

\* A step of the server, as the call sees it.  New tokens are its own, and what it
\* revokes is a token that some call came with.
LEMMA ServerKeeps ==
  ASSUME BInv, AInv', UNCHANGED <<user, jar, dead, tab, lost>>,
         NEW c \in Calls, NEW from, NEW k \in CallRec, CallStep(c, from, k),
         k.cookie \in {None, call[c].cookie},
         \A d \in Calls \ {c} : req'[d] = req[d],
         req'[c].token \in {None, call[c].cookie, req[c].token},
         \A s \in Sessions : session[s] # None => session'[s] # None,
         \A s \in Sessions : Valid(s) => Valid(s)' \/ s \in {call[c].cookie, req[c].token},
         k.got # None => session[k.got] = None /\ session'[k.got] # None,
         InStep(c)', Fresh(c)', Accounted'
  PROVE  BInv'
  <1>1. /\ call[c].pc = from /\ call'[c] = k /\ \A d \in Calls \ {c} : call'[d] = call[d]
        /\ call' \in [Calls -> CallRec]
    BY CallMoves DEF BInv
  <1>2. ClientTyped'
    BY <1>1 DEF BInv, ClientTyped
  <1>3. Known'
    <2>1. \A s : Issued(s) => Issued(s)'
      BY DEF Issued
    <2>2. Issued(jar)' /\ \A s \in lost' : Issued(s)'
      BY <2>1 DEF BInv, Known, Issued
    <2>3. ASSUME NEW d \in Calls, d # c
          PROVE  Issued(call[d].cookie)' /\ Issued(call[d].got)' /\ Issued(req[d].token)'
      BY <1>1, <2>1, <2>3 DEF BInv, Known, Issued
    <2>4. Issued(call[c].cookie)' /\ Issued(call[c].got)' /\ Issued(req[c].token)'
      BY <1>1, <2>1 DEF BInv, Known, Issued, CallRec
    <2> QED BY <2>2, <2>3, <2>4 DEF Known
  <1>4. \A d \in Calls \ {c} : InStep(d)'
    BY <1>1 DEF BInv, InStep
  <1>5. ASSUME NEW d \in Calls, d # c PROVE Fresh(d)'
    <2>1. CASE call'[d].pc # "answered"
      BY <2>1 DEF Fresh
    <2>2. CASE call'[d].pc = "answered"
      <3>1. call'[d] = call[d]
        BY <1>1, <1>5
      <3>2. PICK s \in Sessions : /\ call[d].got = s /\ Valid(s) /\ Unmet(s)
                                  /\ \A e \in Calls \ {d} : call[e].got # s
        BY <2>2, <3>1 DEF BInv, Fresh
      <3>3. s # None /\ session[s] # None
        BY <3>2, AccountsAssumption DEF Valid
      <3>4. Valid(s)'
        BY <3>2 DEF Unmet
      <3>5. Unmet(s)'
        BY <1>1, <3>2, <3>3 DEF Unmet
      <3>6. \A e \in Calls \ {d} : call'[e].got # s
        BY <1>1, <3>2, <3>3
      <3> QED BY <3>1, <3>2, <3>4, <3>5, <3>6 DEF Fresh
    <2> QED BY <2>1, <2>2
  <1> QED BY <1>2, <1>3, <1>4, <1>5 DEF BInv

LEMMA RowSame ==
  ASSUME session' = session
  PROVE  \A s \in Sessions : /\ (Valid(s) <=> Valid(s)') /\ (Live(s) <=> Live(s)')
                             /\ session'[s] = session[s]
  BY DEF Valid, Live

LEMMA SignInKeeps ==
  ASSUME BInv, NEW c \in Calls, NEW t \in Tabs, SignIn(c, t)
  PROVE  BInv'
  <1> DEFINE k == [NoCall EXCEPT !.pc = "issuing", !.kind = "login", !.tab = t]
             next == [IdleReq EXCEPT !.pc = "issuing"]
  <1>1. /\ CallStep(c, "idle", k) /\ UNCHANGED <<jar, dead, tab, lost>> /\ Ask(c, "login", 0)
    BY DEF SignIn
  <1>2. /\ Step(c, "idle", AfterLookUp("login", 0)) /\ AfterLookUp("login", 0) # IdleReq
        /\ UNCHANGED <<user, mail, session, counter>>
    BY <1>1 DEF Ask
  <1>3. AInv'
    BY <1>2, LookUpKeeps DEF BInv, Calls
  <1>4. AfterLookUp("login", 0) = next
    BY <1>2 DEF AfterLookUp
  <1>5. next.pc = "issuing" /\ next.token = None
    BY DEF IdleReq
  <1> HIDE DEF next
  <1>6. req'[c] = next /\ \A d \in Calls \ {c} : req'[d] = req[d]
    BY <1>2, <1>4, Moved DEF BInv, Calls
  <1>7. k \in CallRec /\ k.pc = "issuing" /\ k.cookie = None /\ k.got = None
    BY DEF NoCall, CallRec, Kinds
  <1> HIDE DEF k
  <1>8. call[c].pc = "idle" /\ call'[c] = k /\ \A d \in Calls \ {c} : call'[d] = call[d]
    BY <1>1, <1>7, CallMoves DEF BInv
  <1>9. Accounted'
    BY <1>1, <1>2, <1>8, AccountedStays, RowSame DEF BInv, ClientTyped
  <1>10. InStep(c)' /\ Fresh(c)'
    BY <1>5, <1>6, <1>7, <1>8 DEF InStep, Fresh
  <1> QED BY <1>1, <1>2, <1>3, <1>5, <1>6, <1>7, <1>9, <1>10, RowSame, ServerKeeps

LEMMA RefreshArrivesKeeps ==
  ASSUME BInv, NEW c \in Calls, RefreshArrives(c)
  PROVE  BInv'
  <1> DEFINE refused == [call[c] EXCEPT !.pc = "refused"]
             rotating == [call[c] EXCEPT !.pc = "rotating"]
  <1>1. call[c] \in CallRec
    BY NotAnswered
  <1>2. /\ refused \in CallRec /\ refused.pc = "refused"
        /\ refused.cookie = call[c].cookie /\ refused.got = call[c].got
    BY <1>1, CallPc
  <1>3. /\ rotating \in CallRec /\ rotating.pc = "rotating"
        /\ rotating.cookie = call[c].cookie /\ rotating.got = call[c].got
    BY <1>1, CallPc
  <1>4. UNCHANGED <<jar, dead, tab, lost>> /\ call[c].pc = "refreshing"
    BY DEF RefreshArrives, CallStep
  <1>5. call[c].got = None
    BY <1>4, NotAnswered
  <1>6. CASE CallStep(c, "refreshing", refused) /\ UNCHANGED server
    <2> HIDE DEF refused
    <2> QED BY <1>2, <1>4, <1>5, <1>6, NotAnswered, ClientMoves
  <1>7. CASE /\ CallStep(c, "refreshing", rotating) /\ call[c].cookie # None
             /\ RotateRead(c, call[c].cookie)
    <2>1. PICK s \in Sessions : s = call[c].cookie
      BY <1>1, <1>7 DEF CallRec
    <2>2. RotateRead(c, s)
      BY <1>7, <2>1
    <2>3. AInv'
      BY <2>2, RotateReadKeeps DEF BInv, Calls
    <2> DEFINE hold == Rotating(s) # {}
               row == [session[s] EXCEPT !.shared = @ \/ hold]
               next == [IdleReq EXCEPT !.pc = "rotating", !.token = s]
    <2>4. /\ Step(c, "idle", next) /\ UNCHANGED user
          /\ session' = [session EXCEPT ![s] = row] /\ Live(s)
      BY <2>2 DEF RotateRead
    <2>5. next.pc = "rotating" /\ next.token = s
      BY DEF IdleReq
    <2> HIDE DEF next
    <2>6. req'[c] = next /\ \A d \in Calls \ {c} : req'[d] = req[d]
      BY <2>4, Moved DEF BInv, Calls
    <2>7. session[s] \in SessionRow /\ session[s] # None
      BY <2>4, Typed DEF BInv, AInv, Live, Valid
    <2>8. /\ row \in SessionRow /\ row.revoked = session[s].revoked /\ row.from = session[s].from
          /\ row.expired = session[s].expired
      <3>1. (session[s].shared \/ hold) \in BOOLEAN
        OBVIOUS
      <3> QED BY <2>7, <3>1, RowShared
    <2> HIDE DEF row
    <2>9. /\ session'[s] = row /\ row # None /\ \A i \in Sessions \ {s} : session'[i] = session[i]
      BY <2>4, <2>8, Typed, AccountsAssumption DEF BInv, AInv
    <2>10. \A i \in Sessions : /\ session[i] # None =>
                                    session'[i] # None /\ session'[i].from = session[i].from
                               /\ (Valid(i) <=> Valid(i)') /\ (Live(i) <=> Live(i)')
                               /\ session'[i].expired = session[i].expired
      BY <2>7, <2>8, <2>9 DEF Live, Valid
    <2> HIDE DEF rotating
    <2>11. call'[c] = rotating /\ \A d \in Calls \ {c} : call'[d] = call[d]
      BY <1>3, <1>7, CallMoves DEF BInv
    <2>12. Accounted'
      BY <1>4, <2>10, <2>11, AccountedStays, NotAnswered
    <2>13. InStep(c)' /\ Fresh(c)'
      BY <1>3, <1>5, <2>5, <2>6, <2>11 DEF InStep, Fresh
    <2> QED BY <1>3, <1>4, <1>5, <1>7, <2>1, <2>3, <2>4, <2>5, <2>6, <2>10, <2>12, <2>13, ServerKeeps
  <1> QED BY <1>6, <1>7 DEF RefreshArrives

\* A token that the server has just issued is known to nobody.
LEMMA NewIsFresh ==
  ASSUME BInv, NEW c \in Calls, NEW new \in Sessions, session[new] = None, Valid(new)',
         call'[c].got = new, \A d \in Calls \ {c} : call'[d] = call[d] /\ req'[d] = req[d],
         jar' = jar, call'[c].cookie = call[c].cookie, req'[c].token = None
  PROVE  Fresh(c)'
  <1>1. new # None
    BY AccountsAssumption
  <1>2. /\ jar # new
        /\ \A d \in Calls : call[d].cookie # new /\ call[d].got # new /\ req[d].token # new
    BY <1>1 DEF BInv, Known, Issued
  <1>3. Unmet(new)'
    BY <1>1, <1>2 DEF Unmet
  <1>4. \A d \in Calls \ {c} : call'[d].got # new
    BY <1>2
  <1> QED BY <1>3, <1>4 DEF Fresh

\* The answer of a call: its record, and what the request has left
AnswerOf(c, s) == [call[c] EXCEPT !.pc = "answered", !.got = s]

LEMMA Answered ==
  ASSUME BInv, NEW c \in Calls, NEW from, NEW new \in Sessions,
         CallStep(c, from, AnswerOf(c, new)), Step(c, from, IdleReq)
  PROVE  LET k == AnswerOf(c, new)
         IN  /\ k \in CallRec /\ k.pc = "answered" /\ k.got = new /\ k.cookie = call[c].cookie
             /\ call[c].pc = from /\ call'[c] = k /\ \A d \in Calls \ {c} : call'[d] = call[d]
             /\ req[c].pc = from /\ req'[c] = IdleReq /\ \A d \in Calls \ {c} : req'[d] = req[d]
  <1> DEFINE k == AnswerOf(c, new)
             k1 == [call[c] EXCEPT !.pc = "answered"]
  <1>1. k = [k1 EXCEPT !.got = new]
    BY DEF AnswerOf
  <1>2. call[c] \in CallRec
    BY NotAnswered
  <1>3. k1 \in CallRec /\ k1.pc = "answered" /\ k1.cookie = call[c].cookie
    BY <1>2, CallPc
  <1> HIDE DEF k1
  <1>4. k \in CallRec /\ k.pc = "answered" /\ k.got = new /\ k.cookie = call[c].cookie
    BY <1>1, <1>3, CallGot
  <1>5. call[c].pc = from /\ call'[c] = k /\ \A d \in Calls \ {c} : call'[d] = call[d]
    BY <1>4, CallMoves DEF BInv
  <1>6. req[c].pc = from /\ req'[c] = IdleReq /\ \A d \in Calls \ {c} : req'[d] = req[d]
    BY Moved DEF BInv, Calls
  <1> QED BY <1>4, <1>5, <1>6

LEMMA LoginAnsweredKeeps ==
  ASSUME BInv, NEW c \in Calls, LoginAnswered(c)
  PROVE  BInv'
  <1>1. /\ Step(c, "issuing", IdleReq) /\ user' = user /\ Unissued(session) # {}
        /\ UNCHANGED <<jar, dead, tab, lost>> /\ Issue(c)
    BY DEF LoginAnswered, Issue, Done
  <1>2. PICK new \in Sessions : new = Some(Unissued(session)) /\ session[new] = None
    BY <1>1, FreshToken, Typed DEF BInv, AInv
  <1> DEFINE k == AnswerOf(c, new)
  <1>4. /\ CallStep(c, "issuing", k)
        /\ session' = [session EXCEPT ![new] = NewSession(None)]
    BY <1>2 DEF LoginAnswered, Issue, AnswerOf
  <1>5. /\ k \in CallRec /\ k.pc = "answered" /\ k.got = new /\ k.cookie = call[c].cookie
        /\ call[c].pc = "issuing" /\ call'[c] = k /\ \A d \in Calls \ {c} : call'[d] = call[d]
        /\ req'[c] = IdleReq /\ \A d \in Calls \ {c} : req'[d] = req[d]
    BY <1>1, <1>4, Answered
  <1>6. AInv'
    BY <1>1, IssueKeeps DEF BInv, Calls
  <1>7. NewSession(None) \in SessionRow /\ ~ NewSession(None).revoked
    BY BegunCounted DEF BInv
  <1>8. /\ session'[new] = NewSession(None) /\ session'[new] # None
        /\ \A i \in Sessions \ {new} : session'[i] = session[i]
    BY <1>2, <1>4, <1>7, Typed, AccountsAssumption DEF BInv, AInv
  <1>9. Valid(new)' /\ Fresh(c)'
    BY <1>1, <1>2, <1>5, <1>7, <1>8, IdleOK, NewIsFresh DEF Valid
  <1>10. InStep(c)'
    BY <1>5, IdleOK DEF InStep
  <1>11. /\ \A s \in Sessions : session[s] # None => session'[s] = session[s]
         /\ \A s \in Sessions : Valid(s) => Valid(s)'
    BY <1>2, <1>8 DEF Valid
  <1>12. jar # None => jar \in Sessions /\ jar # new /\ session[jar] # None
    BY <1>2 DEF BInv, Known, Issued
  <1>13. Accounted'
    BY <1>1, <1>5, <1>8, <1>11, <1>12, AccountedStays DEF Live, Valid
  <1> QED BY <1>1, <1>2, <1>4, <1>5, <1>6, <1>8, <1>9, <1>10, <1>11, <1>13, IdleOK, ServerKeeps

\* While the answer of a refresh travels, it accounts for the cookie that it replaces.
LEMMA RefreshAnsweredKeeps ==
  ASSUME BInv, NEW c \in Calls, RefreshAnswered(c)
  PROVE  BInv'
  <1>1. /\ Step(c, "rotating", IdleReq) /\ user' = user
        /\ UNCHANGED <<jar, dead, tab, lost>> /\ RotateCommit(c) /\ AInv
    BY DEF RefreshAnswered, RotateCommit, Done, BInv
  <1>2. PICK old \in Sessions, new \in Sessions :
            old = req[c].token /\ new = Some(Unissued(session))
    BY <1>1, Rotated DEF Calls
  <1> DEFINE row == [session[old] EXCEPT !.revoked = TRUE]
  <1>3. /\ old # new /\ session[old] # None /\ session[new] = None /\ user # None
        /\ session'[new] = NewSession(old) /\ session'[old] = row
        /\ \A i \in Sessions \ {old, new} : session'[i] = session[i]
    BY <1>1, <1>2, Rotated DEF Calls
  <1>4. /\ row \in SessionRow /\ row.from = session[old].from /\ row.expired = session[old].expired
    BY <1>1, <1>3, Typed, RowRevoked DEF AInv
  <1> HIDE DEF row
  <1>5. /\ NewSession(old) \in SessionRow /\ NewSession(old).from = old
        /\ ~ NewSession(old).revoked
    BY <1>1, <1>3, BegunCounted
  <1>6. row # None /\ NewSession(old) # None
    BY <1>4, <1>5, AccountsAssumption
  <1> DEFINE k == AnswerOf(c, new)
  <1>8. CallStep(c, "rotating", k)
    BY <1>2 DEF RefreshAnswered, AnswerOf
  <1>9. /\ k \in CallRec /\ k.pc = "answered" /\ k.got = new /\ k.cookie = call[c].cookie
        /\ call[c].pc = "rotating" /\ call'[c] = k /\ \A d \in Calls \ {c} : call'[d] = call[d]
        /\ req'[c] = IdleReq /\ \A d \in Calls \ {c} : req'[d] = req[d]
    BY <1>1, <1>8, Answered
  <1>10. AInv'
    BY <1>1, RotateCommitKeeps DEF Calls
  <1>11. Valid(new)' /\ Fresh(c)'
    BY <1>1, <1>3, <1>5, <1>6, <1>9, IdleOK, NewIsFresh DEF Valid
  <1>12. InStep(c)'
    BY <1>9, IdleOK DEF InStep
  <1>13. /\ \A s \in Sessions : session[s] # None =>
                                    session'[s] # None /\ session'[s].from = session[s].from
         /\ \A s \in Sessions : Valid(s) => Valid(s)' \/ s = req[c].token
    BY <1>2, <1>3, <1>4, <1>6 DEF Valid
  <1>14. jar # None => jar \in Sessions /\ jar # new /\ session[jar] # None
    BY <1>3 DEF BInv, Known, Issued
  <1>15. Accounted'
    <2>1. CASE jar = old
      <3>1. call'[c].pc = "answered" /\ call'[c].got = new /\ session'[new].from = jar
        BY <1>3, <1>5, <1>9, <2>1
      <3>2. AnswerPending(jar)'
        BY <1>1, <3>1 DEF AnswerPending
      <3> QED BY <3>2 DEF Accounted
    <2>2. CASE jar # old
      BY <1>1, <1>3, <1>9, <1>13, <1>14, <2>2, AccountedStays DEF Live, Valid
    <2> QED BY <2>1, <2>2
  <1> QED BY <1>1, <1>3, <1>6, <1>8, <1>9, <1>10, <1>11, <1>12, <1>13, <1>15, IdleOK, ServerKeeps

LEMMA RefreshFailsKeeps ==
  ASSUME BInv, NEW c \in Calls, RefreshFails(c)
  PROVE  BInv'
  <1> DEFINE k == [call[c] EXCEPT !.pc = "refused"]
  <1>1. /\ CallStep(c, "rotating", k) /\ Crash(c) /\ UNCHANGED <<jar, dead, tab, lost>>
    BY DEF RefreshFails
  <1>2. AInv' /\ UNCHANGED <<user, session>>
    BY <1>1, CrashKeeps DEF BInv, Calls, Crash
  <1>3. call[c] \in CallRec /\ call[c].pc = "rotating"
    BY <1>1, NotAnswered DEF CallStep
  <1>4. k \in CallRec /\ k.pc = "refused" /\ k.cookie = call[c].cookie /\ k.got = call[c].got
    BY <1>3, CallPc
  <1> HIDE DEF k
  <1>5. k.got = None
    BY <1>3, <1>4, NotAnswered
  <1>6. call'[c] = k /\ \A d \in Calls \ {c} : call'[d] = call[d]
    BY <1>1, <1>4, CallMoves DEF BInv
  <1>7. req'[c] = IdleReq /\ \A d \in Calls \ {c} : req'[d] = req[d]
    BY <1>1 DEF BInv, AInv, TypeOK, Crash, Calls
  <1>8. Accounted'
    BY <1>1, <1>2, <1>3, <1>6, AccountedStays, RowSame, NotAnswered
  <1>9. InStep(c)' /\ Fresh(c)'
    BY <1>4, <1>5, <1>6, <1>7, IdleOK DEF InStep, Fresh
  <1> QED BY <1>1, <1>2, <1>4, <1>5, <1>7, <1>8, <1>9, IdleOK, RowSame, ServerKeeps

\* A logout ends the cookie it came with; while its answer travels, that accounts for it.
LEMMA LogoutArrivesKeeps ==
  ASSUME BInv, NEW c \in Calls, LogoutArrives(c)
  PROVE  BInv'
  <1> DEFINE k == [call[c] EXCEPT !.pc = "left"]
  <1>1. CallStep(c, "leaving", k) /\ UNCHANGED <<jar, dead, tab, lost>>
    BY DEF LogoutArrives
  <1>2. call[c] \in CallRec /\ call[c].pc = "leaving" /\ call[c].got = None
    BY <1>1, NotAnswered DEF CallStep
  <1>3. k \in CallRec /\ k.pc = "left" /\ k.cookie = call[c].cookie /\ k.got = None
    BY <1>2, CallPc
  <1> HIDE DEF k
  <1>4. call'[c] = k /\ \A d \in Calls \ {c} : call'[d] = call[d]
    BY <1>1, <1>3, CallMoves DEF BInv
  <1>5. CASE UNCHANGED server
    BY <1>1, <1>2, <1>3, <1>5, NotAnswered, ClientMoves
  <1>6. CASE call[c].cookie # None /\ Logout(c, call[c].cookie)
    <2>1. PICK s \in Sessions : s = call[c].cookie
      BY <1>2, <1>6 DEF CallRec
    <2>2. Logout(c, s)
      BY <1>6, <2>1
    <2> DEFINE row == [session[s] EXCEPT !.revoked = TRUE]
    <2>3. /\ UNCHANGED <<user, req>> /\ session[s] # None /\ req[c].pc = "idle"
          /\ session' = [session EXCEPT ![s] = row]
      BY <2>2 DEF Logout, Valid
    <2>4. AInv'
      BY <2>2, LogoutKeeps DEF BInv, Calls
    <2>5. row \in SessionRow /\ row.from = session[s].from
      BY <2>3, Typed, RowRevoked DEF BInv, AInv
    <2> HIDE DEF row
    <2>6. /\ session'[s] = row /\ row # None /\ \A i \in Sessions \ {s} : session'[i] = session[i]
      BY <2>3, <2>5, Typed, AccountsAssumption DEF BInv, AInv
    <2>7. /\ \A i \in Sessions : session[i] # None =>
                                    session'[i] # None /\ session'[i].from = session[i].from
          /\ \A i \in Sessions : Valid(i) => Valid(i)' \/ i = s
      BY <2>5, <2>6 DEF Valid
    <2>8. Accounted'
      <3>1. CASE jar = s
        <4>1. AnswerPending(jar)'
          BY <1>1, <1>3, <1>4, <2>1, <3>1 DEF AnswerPending
        <4> QED BY <4>1 DEF Accounted
      <3>2. CASE jar # s
        BY <1>1, <1>2, <1>4, <2>6, <2>7, <3>2, AccountedStays, NotAnswered DEF Live, Valid
      <3> QED BY <3>1, <3>2
    <2>9. InStep(c)' /\ Fresh(c)'
      BY <1>2, <1>3, <1>4, <2>3 DEF BInv, InStep, Fresh
    <2> QED BY <1>1, <1>3, <2>1, <2>3, <2>4, <2>7, <2>8, <2>9, ServerKeeps
  <1> QED BY <1>5, <1>6 DEF LogoutArrives

\* Access tokens and cookies expire while no call moves.
LEMMA ExpiryKeeps ==
  ASSUME BInv, NEW s \in Sessions, AccessExpires(s) \/ CookieExpires(s)
  PROVE  BInv'
  <1>1. UNCHANGED <<user, req, jar, tab, call, lost>> /\ dead' \in SUBSET Sessions
    BY DEF AccessExpires, CookieExpires, SessionExpires, server, BInv, ClientTyped
  <1>2. AInv' /\ \A i \in Sessions :
            /\ session[i] # None => session'[i] # None /\ session'[i].from = session[i].from
            /\ Valid(i) <=> Valid(i)'
            /\ session[i] # None /\ (Live(i) \/ session[i].expired)
                    => Live(i)' \/ session'[i].expired
    <2>1. CASE AccessExpires(s)
      <3>1. UNCHANGED <<user, mail, session, counter, req>>
        BY <2>1 DEF AccessExpires, server
      <3> QED BY <3>1, NextAInv, RowSame DEF BInv, vars
    <2>2. CASE CookieExpires(s)
      <3> DEFINE row == [session[s] EXCEPT !.expired = TRUE]
      <3>1. /\ SessionExpires(s) /\ session[s] # None
            /\ session' = [session EXCEPT ![s] = row]
        BY <2>2 DEF CookieExpires, SessionExpires, Live, Valid
      <3>2. AInv'
        BY <3>1, SessionExpiresKeeps DEF BInv
      <3>3. /\ row \in SessionRow /\ row.from = session[s].from /\ row.expired = TRUE
            /\ row.revoked = session[s].revoked
        BY <3>1, Typed, RowExpired DEF BInv, AInv
      <3> HIDE DEF row
      <3>4. /\ session'[s] = row /\ row # None
            /\ \A i \in Sessions \ {s} : session'[i] = session[i]
        BY <3>1, <3>3, Typed, AccountsAssumption DEF BInv, AInv
      <3> QED BY <3>1, <3>2, <3>3, <3>4 DEF Live, Valid
    <2> QED BY <2>1, <2>2
  <1>3. ClientTyped'
    BY <1>1 DEF BInv, ClientTyped
  <1>4. Known'
    BY <1>1, <1>2 DEF BInv, Known, Issued
  <1>5. ASSUME NEW c \in Calls PROVE InStep(c)' /\ Fresh(c)'
    <2>1. InStep(c)'
      BY <1>1 DEF BInv, InStep
    <2>2. Fresh(c)'
      BY <1>1, <1>2 DEF BInv, Fresh, Unmet
    <2> QED BY <2>1, <2>2
  <1>6. Accounted'
    <2> SUFFICES ASSUME jar # None
                 PROVE  Live(jar)' \/ session'[jar].expired \/ AnswerPending(jar)' \/ Mislaid(jar)'
      BY <1>1 DEF Accounted
    <2>1. jar \in Sessions /\ session[jar] # None
      BY DEF BInv, Known, Issued
    <2>2. CASE Live(jar) \/ session[jar].expired
      BY <1>1, <1>2, <2>1, <2>2
    <2>3. CASE AnswerPending(jar)
      <3>1. PICK c \in Calls : \/ call[c].pc = "answered" /\ session[call[c].got].from = jar
                               \/ call[c].pc = "left" /\ call[c].cookie = jar
        BY <2>3 DEF AnswerPending
      <3>2. call[c].pc = "answered" => session'[call[c].got].from = session[call[c].got].from
        BY <1>2 DEF BInv, Fresh, Valid
      <3> QED BY <1>1, <3>1, <3>2 DEF AnswerPending
    <2>4. CASE Mislaid(jar)
      BY <1>1, <1>2, <2>4, AccountsAssumption DEF Mislaid, BInv, Known, Issued, ClientTyped
    <2> QED BY <2>2, <2>3, <2>4 DEF BInv, Accounted
  <1> QED BY <1>1, <1>2, <1>3, <1>4, <1>5, <1>6 DEF BInv

LEMMA BrowserInitInv == BrowserInit => BInv
  <1> SUFFICES ASSUME BrowserInit PROVE BInv
    OBVIOUS
  <1> DEFINE row == [revoked |-> FALSE, expired |-> FALSE, from |-> None, since |-> 0,
                     shared |-> FALSE]
  <1>1. /\ session = [s \in Sessions |-> IF s = First THEN row ELSE None]
        /\ user = [verified |-> TRUE, password |-> 0] /\ First \in Sessions
        /\ jar = First /\ dead = {} /\ lost = {}
        /\ mail = [t \in MailTokens |-> None] /\ req = [r \in Requests |-> IdleReq]
        /\ counter = [op \in Counted |-> [count |-> 0, expires |-> FALSE, orphan |-> FALSE]]
        /\ call = [c \in Calls |-> NoCall]
    BY BrowserAssumption DEF BrowserInit
  <1>2. row \in SessionRow /\ ~ row.revoked /\ ~ row.expired /\ row.since = 0
    BY DEF SessionRow
  <1>3. user \in UserRow /\ user.verified /\ user.password = 0
    BY <1>1 DEF UserRow, Passwords
  <1>4. user # None /\ row # None
    BY <1>2, <1>3, AccountsAssumption
  <1> HIDE DEF row
  <1>5. TypeOK
    BY <1>1, <1>2, <1>3, IdleOK DEF TypeOK
  <1>6. \A r \in Requests : Carries(r)
    BY <1>1, IdleOK DEF Carries
  <1>7. SinceCovers
    <2>1. \A s \in Sessions : Blind(s) = {}
      BY <1>1, IdleOK DEF Blind
    <2>2. \A s \in Sessions : Cardinality(Blind(s)) = 0
      BY <2>1, FS_EmptySet
    <2>3. \A s \in Sessions : Valid(s) => session[s].since = 0
      BY <1>1, <1>2 DEF Valid
    <2> QED BY <1>3, <2>2, <2>3 DEF SinceCovers
  <1>8. AInv
    BY <1>1, <1>3, <1>4, <1>5, <1>6, <1>7 DEF AInv, MailsHaveUser, GateOff, SessionsVerified
  <1>9. ClientTyped
    <2>1. tab \in [Tabs -> TabRec]
      <3>1. PICK t \in Tabs : tab = [x \in Tabs |-> IF x = t THEN [access |-> First, user |-> TRUE]
                                                    ELSE OutTab]
        BY DEF BrowserInit
      <3>2. [access |-> First, user |-> TRUE] \in TabRec
        BY <1>1 DEF TabRec
      <3> QED BY <3>1, <3>2, OutTabOK
    <2> QED BY <1>1, <2>1, NoCallOK DEF ClientTyped
  <1>10. Known
    BY <1>1, <1>4, NoCallOK, IdleOK DEF Known, Issued, Calls
  <1>11. \A c \in Calls : InStep(c) /\ Fresh(c)
    BY <1>1, NoCallOK, IdleOK DEF InStep, Fresh, Calls
  <1>12. Accounted
    BY <1>1, <1>2, <1>4 DEF Accounted, Live, Valid
  <1> QED BY <1>3, <1>4, <1>8, <1>9, <1>10, <1>11, <1>12 DEF BInv

LEMMA BrowserNextInv == BInv /\ [BrowserNext]_bvars => BInv'
  <1> SUFFICES ASSUME BInv, [BrowserNext]_bvars PROVE BInv'
    OBVIOUS
  <1>1. ASSUME NEW c \in Calls, NEW t \in Tabs,
               \/ \E kind \in Kinds : Send(c, t, kind)
               \/ Boot(c, t) \/ SignIn(c, t) \/ SignOut(c, t)
        PROVE  BInv'
    BY <1>1, SendKeeps, CookieKeeps, SignInKeeps
  <1>2. ASSUME NEW c \in Calls,
               \/ RefreshArrives(c) \/ RefreshAnswered(c) \/ LoginAnswered(c) \/ RefreshFails(c)
               \/ LogoutArrives(c)
        PROVE  BInv'
    BY <1>2, RefreshArrivesKeeps, RefreshAnsweredKeeps, LoginAnsweredKeeps, RefreshFailsKeeps,
       LogoutArrivesKeeps
  <1>3. ASSUME NEW c \in Calls,
               \/ Succeed(c) \/ GetUnauthorized(c) \/ GiveUp(c) \/ TakeTokens(c) \/ LoseSession(c)
               \/ Leave(c) \/ Lose(c)
        PROVE  BInv'
    BY <1>3, CallKeeps, TakeTokensKeeps, LeaveKeeps, LoseKeeps
  <1>4. ASSUME NEW s \in Sessions, AccessExpires(s) \/ CookieExpires(s) PROVE BInv'
    BY <1>4, ExpiryKeeps
  <1>5. CASE UNCHANGED bvars
    <2>1. UNCHANGED <<user, mail, session, counter, req, jar, dead, tab, call, lost>>
      BY <1>5 DEF bvars
    <2>2. AInv'
      BY <2>1, NextAInv DEF BInv, vars
    <2>3. ClientTyped' /\ Known' /\ \A c \in Calls : InStep(c)' /\ Fresh(c)'
      BY <2>1, RowSame DEF BInv, ClientTyped, Known, Issued, InStep, Fresh, Unmet
    <2>4. Accounted'
      BY <2>1 DEF BInv, Accounted, Live, Valid, AnswerPending, Mislaid
    <2> QED BY <2>1, <2>2, <2>3, <2>4 DEF BInv
  <1> QED BY <1>1, <1>2, <1>3, <1>4, <1>5 DEF BrowserNext

\* The cookie of a browser is never one that the server has long replaced, however many
\* tabs and calls refresh at once and in whatever order answers come back or get lost:
\* it is good or expired, or what replaced or ended it is on its way, or was lost.
THEOREM CookieIsAccountedFor == BrowserSpec => []CookieAccountedFor
  <1>1. BInv => CookieAccountedFor
    BY DEF BInv, CookieAccountedFor, BrowserTypeOK, Accounted, ClientTyped, CallRec, TabRec, AInv
  <1> QED BY <1>1, BrowserInitInv, BrowserNextInv, PTL DEF BrowserSpec
=============================================================================
