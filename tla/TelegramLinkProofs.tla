------------------------- MODULE TelegramLinkProofs -------------------------
(***************************************************************************)
(* What TelegramLink keeps for any number of users, chats, tokens and      *)
(* overlapping jobs: links are one-time tokens (TelegramLink implements    *)
(* OneTimeToken), a chat has one account, the bot says "connected" only of *)
(* who is, and nobody is cut off by somebody else's failed attempt.        *)
(***************************************************************************)
EXTENDS TelegramLink, TLAPS

JobRecord == [pc : {"idle", "token", "account", "linking", "unlinking"},
              token : LinkTokens \cup {None}, chat : Chats \cup {None},
              user : Users \cup {None}, mine : Row \cup {None},
              other : Users \cup {None}, theirs : Row \cup {None},
              crossed : SUBSET Users]

\* What a job holds at each of its steps
Carries(j) ==
    /\ job[j].pc \in {"idle", "unlinking"} => job[j].token = None
    /\ job[j].pc \in {"token", "account", "linking"} =>
            /\ job[j].token \in LinkTokens /\ link[job[j].token] # None
            /\ job[j].user \in Users
    /\ job[j].pc \in {"account", "linking", "unlinking"} =>
            job[j].user \in Users /\ job[j].mine \in Row
    /\ job[j].pc = "linking" => (job[j].other # None => job[j].theirs \in Row)

LInv == LinkTypeOK /\ \A j \in Jobs : Carries(j)

-----------------------------------------------------------------------------
(* Types and what jobs carry                                               *)

LEMMA Typed ==
  ASSUME LInv
  PROVE  /\ row \in [Users -> Row] /\ link \in [LinkTokens -> LinkRow \cup {None}]
         /\ job \in [Jobs -> JobRecord] /\ torn \in [Users -> BOOLEAN]
  BY DEF LInv, LinkTypeOK, JobRecord

LEMMA ClearedOK == Cleared \in Row
  BY DEF Cleared, Row

LEMMA IdleOK == IdleJob \in JobRecord /\ IdleJob.pc = "idle" /\ IdleJob.token = None
  BY DEF IdleJob, JobRecord

\* The columns a job changed, over a row, are a row.
LEMMA WrittenOK ==
  ASSUME NEW seen \in Row, NEW want \in Row, NEW now \in Row
  PROVE  Written(seen, want, now) \in Row
  <1>1. Written(seen, want, now)
          = [chat |-> IF seen.chat = want.chat THEN now.chat ELSE want.chat,
             linked |-> IF seen.linked = want.linked THEN now.linked ELSE want.linked]
    BY DEF Written
  <1> QED BY <1>1 DEF Row

\* One job moves on, no link row appears or goes, and the users are as before.
LEMMA JobMoves ==
  ASSUME LInv, NEW j \in Jobs, NEW next \in JobRecord, job' = [job EXCEPT ![j] = next],
         UNCHANGED <<row, torn>>, link' \in [LinkTokens -> LinkRow \cup {None}],
         \A t \in LinkTokens : link[t] # None => link'[t] # None, Carries(j)'
  PROVE  LInv'
  <1>1. ASSUME NEW i \in Jobs, i # j PROVE Carries(i)'
    <2>1. job'[i] = job[i]
      BY <1>1, Typed
    <2> QED BY <2>1 DEF LInv, Carries
  <1>2. LinkTypeOK'
    BY Typed DEF LinkTypeOK, JobRecord
  <1> QED BY <1>1, <1>2 DEF LInv

\* A commit leaves the other jobs what they carry.
LEMMA CommitKeeps ==
  ASSUME LInv, NEW j \in Jobs, NEW from, NEW rows \in [Users -> Row], Commit(j, from, rows),
         link' \in [LinkTokens -> LinkRow \cup {None}],
         \A t \in LinkTokens : link[t] # None => link'[t] # None
  PROVE  /\ LInv'
         /\ job'[j] = IdleJob
         /\ \A i \in Jobs \ {j} : job'[i].token = job[i].token
  <1> DEFINE changed == {u \in Users : rows[u] # row[u]}
  <1>1. \A i \in Jobs : job'[i] = IF i = j THEN IdleJob
                                  ELSE IF job[i].pc = "idle" THEN job[i]
                                  ELSE [job[i] EXCEPT !.crossed = @ \cup changed]
    BY DEF Commit
  <1>2. ASSUME NEW i \in Jobs, i # j
        PROVE  /\ job'[i] \in JobRecord /\ job'[i].pc = job[i].pc
               /\ job'[i].token = job[i].token /\ job'[i].user = job[i].user
               /\ job'[i].mine = job[i].mine /\ job'[i].other = job[i].other
               /\ job'[i].theirs = job[i].theirs
    <2>1. job[i] \in JobRecord
      BY Typed
    <2>2. job'[i] \in {job[i], [job[i] EXCEPT !.crossed = @ \cup changed]}
      BY <1>1, <1>2
    <2> QED BY <2>1, <2>2 DEF JobRecord
  <1>3. job'[j] = IdleJob
    BY <1>1
  <1>4. job' \in [Jobs -> JobRecord]
    <2>1. job' = [i \in Jobs |-> IF i = j THEN IdleJob
                                  ELSE IF job[i].pc = "idle" THEN job[i]
                                  ELSE [job[i] EXCEPT !.crossed = @ \cup changed]]
      BY DEF Commit
    <2>2. \A i \in Jobs : job'[i] \in JobRecord
      BY <1>2, <1>3, IdleOK
    <2> HIDE DEF changed
    <2> QED BY <2>1, <2>2
  <1>5. row' \in [Users -> Row] /\ torn' \in [Users -> BOOLEAN]
    BY Typed DEF Commit
  <1>6. LinkTypeOK'
    BY <1>4, <1>5 DEF LinkTypeOK, JobRecord
  <1>7. \A i \in Jobs \ {j} : Carries(i)'
    BY <1>2 DEF LInv, Carries
  <1>8. Carries(j)'
    BY <1>3, IdleOK DEF Carries
  <1> QED BY <1>2, <1>3, <1>6, <1>7, <1>8 DEF LInv
-----------------------------------------------------------------------------
(* What a step looks like to OneTimeToken                                  *)

StateOf(t) == IF link[t] = None THEN "unissued" ELSE IF Open(t) THEN "open" ELSE "closed"
UsesOf(t)  == IF link[t] = None THEN 0 ELSE link[t].uses
SharedOf(t) == link[t] # None /\ link[t].shared

\* Nothing a token shows has changed.
LEMMA Stutter ==
  ASSUME UNCHANGED link, \A t \in LinkTokens : Holding(t)' = Holding(t)
  PROVE  UNCHANGED LinkUses!vars
  BY DEF LinkUses!vars, Open

\* Jobs keep their tokens.
LEMMA SameHands ==
  ASSUME \A i \in Jobs : job'[i].token = job[i].token, NEW t \in LinkTokens
  PROVE  Holding(t)' = Holding(t)
  BY DEF Holding

\* One job takes up a token, or lets go of the one it holds.
LEMMA Hands ==
  ASSUME NEW j \in Jobs, \A i \in Jobs \ {j} : job'[i].token = job[i].token
  PROVE  \A t \in LinkTokens :
            /\ job'[j].token = job[j].token => Holding(t)' = Holding(t)
            /\ job'[j].token = None => Holding(t)' = Holding(t) \ {j}
            /\ job[j].token = None /\ job'[j].token # None =>
                    Holding(t)' = IF t = job'[j].token THEN Holding(t) \cup {j} ELSE Holding(t)
  BY LinkAssumption DEF Holding

\* A token appears or expires.
LEMMA Ages ==
  ASSUME UNCHANGED job, NEW t \in LinkTokens, \A i \in LinkTokens \ {t} : link'[i] = link[i],
         <<StateOf(t), StateOf(t)'>> \in {<<"unissued", "open">>, <<"open", "closed">>},
         UsesOf(t)' = UsesOf(t), SharedOf(t)' = SharedOf(t)
  PROVE  LinkUses!Next
  <1>1. \A i \in LinkTokens \ {t} : StateOf(i)' = StateOf(i) /\ UsesOf(i)' = UsesOf(i)
                                    /\ SharedOf(i)' = SharedOf(i)
    BY DEF StateOf, UsesOf, SharedOf, Open
  <1>2. \A i \in LinkTokens : UsesOf(i)' = UsesOf(i) /\ SharedOf(i)' = SharedOf(i)
                              /\ Holding(i)' = Holding(i)
    BY <1>1 DEF Holding
  <1>3. \A i \in LinkTokens : StateOf(i)' \in {"unissued", "open", "closed"}
    BY DEF StateOf
  <1>4. [i \in LinkTokens |-> UsesOf(i)]' = [i \in LinkTokens |-> UsesOf(i)]
    BY <1>2
  <1>5. [i \in LinkTokens |-> SharedOf(i)]' = [i \in LinkTokens |-> SharedOf(i)]
    BY <1>2
  <1>6. [i \in LinkTokens |-> Holding(i)]' = [i \in LinkTokens |-> Holding(i)]
    BY <1>2
  <1>7. /\ [i \in LinkTokens |-> StateOf(i)]' \in [LinkTokens -> {"unissued", "open", "closed"}]
        /\ \A i \in LinkTokens : StateOf(i)' # StateOf(i) =>
              <<StateOf(i), StateOf(i)'>> \in {<<"unissued", "open">>, <<"open", "closed">>}
    BY <1>1, <1>3
  <1>8. LinkUses!Age
    BY <1>4, <1>5, <1>6, <1>7
       DEF LinkUses!Age, LinkUses!States, StateOf, UsesOf, SharedOf
  <1> QED BY <1>8 DEF LinkUses!Next

Simulates == [LinkUses!Next]_(LinkUses!vars)

\* A job lets go of its token and nothing else shows.
LEMMA LetsGo ==
  ASSUME UNCHANGED link, NEW j \in Jobs, \A i \in Jobs \ {j} : job'[i].token = job[i].token,
         job'[j].token = None, job[j].token \in LinkTokens \cup {None}
  PROVE  Simulates
  <1>1. \A t \in LinkTokens : Holding(t)' = Holding(t) \ {j}
    BY Hands
  <1>2. CASE job[j].token = None
    <2>1. \A t \in LinkTokens : Holding(t)' = Holding(t)
      BY <1>1, <1>2, LinkAssumption DEF Holding
    <2> QED BY <2>1, Stutter DEF Simulates
  <1>3. CASE job[j].token \in LinkTokens
    <2> DEFINE t == job[j].token
    <2>1. j \in Holding(t)
      BY <1>3 DEF Holding
    <2>2. \A i \in LinkTokens \ {t} : Holding(i)' = Holding(i)
      BY <1>1 DEF Holding
    <2>3. [i \in LinkTokens |-> Holding(i)]'
            = [[i \in LinkTokens |-> Holding(i)] EXCEPT ![t] = @ \ {j}]
      BY <1>1, <1>3, <2>2
    <2>4. LinkUses!Drop(j, t)
      BY <1>3, <2>1, <2>3 DEF LinkUses!Drop, Open
    <2> QED BY <1>3, <2>4 DEF Simulates, LinkUses!Next
  <1> QED BY <1>2, <1>3

LEMMA CreateLinkStep ==
  ASSUME LInv, NEW u \in Users, NEW t \in LinkTokens, CreateLink(u, t)
  PROVE  LInv' /\ Simulates
  <1> DEFINE new == [user |-> u, used |-> FALSE, expired |-> FALSE, uses |-> 0, shared |-> FALSE]
  <1>1. /\ link[t] = None /\ link' = [link EXCEPT ![t] = new] /\ new \in LinkRow
        /\ UNCHANGED <<row, job, torn>>
    BY DEF CreateLink, LinkRow
  <1>2. link'[t] = new /\ \A i \in LinkTokens \ {t} : link'[i] = link[i]
    BY <1>1, Typed
  <1>3. new # None
    BY <1>1, LinkAssumption
  <1>4. /\ StateOf(t) = "unissued" /\ StateOf(t)' = "open"
        /\ UsesOf(t)' = UsesOf(t) /\ SharedOf(t)' = SharedOf(t)
    BY <1>1, <1>2, <1>3 DEF StateOf, UsesOf, SharedOf, Open
  <1>5. LinkUses!Next
    BY <1>1, <1>2, <1>4, Ages
  <1>6. link' \in [LinkTokens -> LinkRow \cup {None}]
    BY <1>1, Typed
  <1>7. LInv'
    BY <1>1, <1>2, <1>3, <1>6 DEF LInv, LinkTypeOK, Carries
  <1> QED BY <1>5, <1>7 DEF Simulates

LEMMA LinkTtlEndsStep ==
  ASSUME LInv, NEW t \in LinkTokens, LinkTtlEnds(t)
  PROVE  LInv' /\ Simulates
  <1>1. /\ Open(t) /\ link' = [link EXCEPT ![t].expired = TRUE]
        /\ UNCHANGED <<row, job, torn>>
    BY DEF LinkTtlEnds
  <1>2. link[t] \in LinkRow /\ link[t] # None /\ ~ link[t].used /\ ~ link[t].expired
    BY <1>1, Typed DEF Open
  <1>3. link'[t] = [link[t] EXCEPT !.expired = TRUE] /\ \A i \in LinkTokens \ {t} : link'[i] = link[i]
    BY <1>1, Typed
  <1>4. /\ link'[t] \in LinkRow /\ link'[t].expired /\ link'[t].uses = link[t].uses
        /\ link'[t].shared = link[t].shared
    BY <1>2, <1>3 DEF LinkRow
  <1>5. link' \in [LinkTokens -> LinkRow \cup {None}]
    BY <1>1, <1>3, <1>4, Typed
  <1>6. link'[t] # None
    BY <1>4, LinkAssumption
  <1>7. /\ StateOf(t) = "open" /\ StateOf(t)' = "closed"
        /\ UsesOf(t)' = UsesOf(t) /\ SharedOf(t)' = SharedOf(t)
    BY <1>1, <1>2, <1>4, <1>6 DEF StateOf, UsesOf, SharedOf, Open
  <1>8. LinkUses!Next
    BY <1>1, <1>3, <1>7, Ages
  <1>9. LInv'
    BY <1>1, <1>3, <1>5, <1>6 DEF LInv, LinkTypeOK, Carries
  <1> QED BY <1>8, <1>9 DEF Simulates

LEMMA ReadTokenStep ==
  ASSUME LInv, NEW j \in Jobs, NEW t \in LinkTokens, NEW chat \in Chats, ReadToken(j, t, chat)
  PROVE  LInv' /\ Simulates
  <1> DEFINE next == [IdleJob EXCEPT !.pc = "token", !.token = t, !.chat = chat,
                                     !.user = link[t].user]
             now  == [link[t] EXCEPT !.shared = @ \/ Holding(t) # {}]
  <1>1. /\ Open(t) /\ job[j].pc = "idle" /\ job' = [job EXCEPT ![j] = next]
        /\ link' = [link EXCEPT ![t] = now] /\ UNCHANGED <<row, torn>>
    BY DEF ReadToken, JobStep
  <1>2. link[t] \in LinkRow /\ link[t] # None /\ ~ link[t].used /\ ~ link[t].expired
    BY <1>1, Typed DEF Open
  <1>3. /\ now \in LinkRow /\ now.uses = link[t].uses /\ ~ now.used /\ ~ now.expired
        /\ now.user = link[t].user
    BY <1>2 DEF LinkRow
  <1>4. now.shared = (link[t].shared \/ Holding(t) # {})
    BY <1>2 DEF LinkRow
  <1>5. link'[t] = now /\ now # None /\ \A i \in LinkTokens \ {t} : link'[i] = link[i]
    BY <1>1, <1>3, Typed, LinkAssumption
  <1>6. link' \in [LinkTokens -> LinkRow \cup {None}]
    BY <1>1, <1>3, Typed
  <1>7. /\ next \in JobRecord /\ next.pc = "token" /\ next.token = t /\ next.user = link[t].user
        /\ link[t].user \in Users
    BY <1>2 DEF LinkRow, JobRecord, IdleJob
  <1>8. job'[j] = next /\ \A i \in Jobs \ {j} : job'[i] = job[i]
    BY <1>1, Typed
  <1> HIDE DEF next
  <1>9. LInv'
    <2>1. \A i \in LinkTokens : link[i] # None => link'[i] # None
      BY <1>5
    <2>2. Carries(j)'
      BY <1>5, <1>7, <1>8 DEF Carries
    <2> QED BY <1>1, <1>6, <1>7, <2>1, <2>2, JobMoves
  <1>10. job[j].token = None /\ t # None
    BY <1>1, LinkAssumption DEF LInv, Carries
  <1>11. \A i \in LinkTokens : Holding(i)' = IF i = t THEN Holding(i) \cup {j} ELSE Holding(i)
    BY <1>7, <1>8, <1>10, Hands
  <1>12. j \notin Holding(t)
    BY <1>10 DEF Holding
  <1>13. \A i \in LinkTokens : StateOf(i)' = StateOf(i) /\ UsesOf(i)' = UsesOf(i)
    BY <1>2, <1>3, <1>5 DEF StateOf, UsesOf, Open
  <1>14. SharedOf(t)' = (SharedOf(t) \/ Holding(t) # {})
    BY <1>2, <1>4, <1>5 DEF SharedOf
  <1>15. \A i \in LinkTokens \ {t} : SharedOf(i)' = SharedOf(i)
    BY <1>5 DEF SharedOf
  <1>16. LinkUses!Read(j, t)
    <2> DEFINE H == [i \in LinkTokens |-> Holding(i)]
               S == [i \in LinkTokens |-> SharedOf(i)]
    <2>1. H' = [H EXCEPT ![t] = @ \cup {j}]
      BY <1>11
    <2>2. S' = [S EXCEPT ![t] = @ \/ H[t] # {}]
      BY <1>14, <1>15
    <2>3. [i \in LinkTokens |-> StateOf(i)]' = [i \in LinkTokens |-> StateOf(i)]
      BY <1>13
    <2>4. [i \in LinkTokens |-> UsesOf(i)]' = [i \in LinkTokens |-> UsesOf(i)]
      BY <1>13
    <2>5. StateOf(t) = "open"
      BY <1>1, <1>2 DEF StateOf
    <2> QED BY <1>12, <2>1, <2>2, <2>3, <2>4, <2>5
            DEF LinkUses!Read, StateOf, UsesOf, SharedOf
  <1> QED BY <1>9, <1>16 DEF Simulates, LinkUses!Next

\* A job reads on and keeps its token.
LEMMA QuietStep ==
  ASSUME LInv, NEW j \in Jobs, NEW next \in JobRecord, job' = [job EXCEPT ![j] = next],
         UNCHANGED <<row, link, torn>>, Carries(j)',
         next.token = job[j].token \/ next.token = None
  PROVE  LInv' /\ Simulates
  <1>1. LInv'
    BY Typed, JobMoves
  <1>2. job'[j] = next /\ \A i \in Jobs \ {j} : job'[i].token = job[i].token
    BY Typed
  <1>3. CASE next.token = job[j].token
    <2>1. \A t \in LinkTokens : Holding(t)' = Holding(t)
      BY <1>2, <1>3, SameHands
    <2> QED BY <1>1, <2>1, Stutter DEF Simulates
  <1>4. CASE next.token = None
    <2>1. job[j].token \in LinkTokens \cup {None}
      BY Typed DEF JobRecord
    <2> QED BY <1>1, <1>2, <1>4, <2>1, LetsGo
  <1> QED BY <1>3, <1>4

LEMMA ReadAccountStep == ASSUME LInv, NEW j \in Jobs, ReadAccount(j) PROVE LInv' /\ Simulates
  <1> DEFINE next == [job[j] EXCEPT !.pc = "account", !.mine = row[job[j].user], !.crossed = {}]
  <1>1. /\ job' = [job EXCEPT ![j] = next] /\ job[j].pc = "token"
        /\ UNCHANGED <<row, link, torn>>
    BY DEF ReadAccount, JobStep
  <1>2. /\ job[j].token \in LinkTokens /\ link[job[j].token] # None
        /\ job[j].user \in Users /\ row[job[j].user] \in Row
    BY <1>1, Typed DEF LInv, Carries
  <1>3. /\ next \in JobRecord /\ next.pc = "account" /\ next.token = job[j].token
        /\ next.user = job[j].user /\ next.mine \in Row
    <2>1. PICK mine \in Row : mine = row[job[j].user]
      BY <1>2
    <2>2. job[j] \in JobRecord
      BY Typed
    <2>3. next = [job[j] EXCEPT !.pc = "account", !.mine = mine, !.crossed = {}]
      BY <2>1
    <2> HIDE DEF next
    <2> QED BY <2>2, <2>3 DEF JobRecord
  <1>4. job'[j] = next
    BY <1>1, Typed
  <1> HIDE DEF next
  <1>5. Carries(j)'
    BY <1>1, <1>2, <1>3, <1>4 DEF Carries
  <1> QED BY <1>1, <1>3, <1>5, QuietStep

LEMMA ReadOtherStep == ASSUME LInv, NEW j \in Jobs, ReadOther(j) PROVE LInv' /\ Simulates
  <1> DEFINE others == Owners(job[j].chat) \ {job[j].user}
             other  == IF others = {} THEN None ELSE CHOOSE u \in others : TRUE
             next   == [job[j] EXCEPT !.pc = "linking", !.other = other,
                                      !.theirs = IF other = None THEN None ELSE row[other],
                                      !.crossed = @ \ {other}]
  <1>1. /\ job' = [job EXCEPT ![j] = next] /\ job[j].pc = "account"
        /\ UNCHANGED <<row, link, torn>>
    BY DEF ReadOther, JobStep
  <1>2. /\ job[j].token \in LinkTokens /\ link[job[j].token] # None
        /\ job[j].user \in Users /\ job[j].mine \in Row
    BY <1>1 DEF LInv, Carries
  <1>3. other \in Users \cup {None}
    BY DEF Owners
  <1>4. other # None => row[other] \in Row
    BY <1>3, Typed
  <1> HIDE DEF other
  <1>5. /\ next \in JobRecord /\ next.pc = "linking" /\ next.token = job[j].token
        /\ next.user = job[j].user /\ next.mine = job[j].mine
        /\ next.other = other /\ (other # None => next.theirs \in Row)
    <2> DEFINE theirs == IF other = None THEN None ELSE row[other]
    <2>1. theirs \in Row \cup {None} /\ (other # None => theirs \in Row)
      BY <1>4
    <2>2. job[j] \in JobRecord
      BY Typed
    <2>3. next = [job[j] EXCEPT !.pc = "linking", !.other = other, !.theirs = theirs,
                                !.crossed = @ \ {other}]
      OBVIOUS
    <2> HIDE DEF next, theirs
    <2> QED BY <1>3, <2>1, <2>2, <2>3 DEF JobRecord
  <1>6. job'[j] = next
    BY <1>1, Typed
  <1> HIDE DEF next
  <1>7. Carries(j)'
    BY <1>1, <1>2, <1>5, <1>6 DEF Carries
  <1> QED BY <1>1, <1>5, <1>7, QuietStep

LEMMA ReadUnlinkStep ==
  ASSUME LInv, NEW j \in Jobs, NEW u \in Users, ReadUnlink(j, u)
  PROVE  LInv' /\ Simulates
  <1> DEFINE next == [IdleJob EXCEPT !.pc = "unlinking", !.user = u, !.mine = row[u]]
  <1>1. job' = [job EXCEPT ![j] = next] /\ UNCHANGED <<row, link, torn>>
    BY DEF ReadUnlink, JobStep
  <1>2. /\ next \in JobRecord /\ next.pc = "unlinking" /\ next.token = None
        /\ next.user = u /\ next.mine \in Row
    BY Typed DEF JobRecord, IdleJob
  <1>3. job'[j] = next
    BY <1>1, Typed
  <1> HIDE DEF next
  <1>4. Carries(j)'
    BY <1>2, <1>3 DEF Carries
  <1> QED BY <1>1, <1>2, <1>4, QuietStep

\* A job that fails or dies lets its token go, unused.
LEMMA GiveUpStep ==
  ASSUME LInv, NEW j \in Jobs, LinkFails(j) \/ JobDies(j)
  PROVE  LInv' /\ Simulates
  <1>1. job' = [job EXCEPT ![j] = IdleJob] /\ UNCHANGED <<row, link, torn>>
    BY DEF LinkFails, JobDies, JobStep
  <1>2. job'[j] = IdleJob
    BY <1>1, Typed
  <1>3. Carries(j)'
    BY <1>2, IdleOK DEF Carries
  <1> QED BY <1>1, <1>3, IdleOK, QuietStep

LEMMA UnlinkCommitStep == ASSUME LInv, NEW j \in Jobs, UnlinkCommit(j) PROVE LInv' /\ Simulates
  <1> DEFINE u == job[j].user
             rows == [row EXCEPT ![u] = Written(job[j].mine, Cleared, row[u])]
  <1>1. Commit(j, "unlinking", rows) /\ UNCHANGED link
    BY DEF UnlinkCommit
  <1>2. u \in Users /\ job[j].mine \in Row /\ job[j].token = None
    BY <1>1 DEF Commit, LInv, Carries
  <1>3. rows \in [Users -> Row]
    BY <1>2, WrittenOK, ClearedOK, Typed
  <1> HIDE DEF rows
  <1>4. /\ LInv' /\ job'[j] = IdleJob
        /\ \A i \in Jobs \ {j} : job'[i].token = job[i].token
    BY <1>1, <1>3, Typed, CommitKeeps
  <1>5. Simulates
    BY <1>1, <1>2, <1>4, IdleOK, LetsGo
  <1> QED BY <1>4, <1>5

\* The commit of a link uses the token up.
LEMMA LinkCommitStep == ASSUME LInv, NEW j \in Jobs, LinkCommit(j) PROVE LInv' /\ Simulates
  <1>0. PICK t \in LinkTokens : t = job[j].token
    BY DEF LinkCommit, LInv, Carries
  <1> DEFINE now == [link[t] EXCEPT !.used = TRUE, !.uses = @ + 1]
             rows == [u \in Users |->
                        CASE u = job[j].user  -> LinkedRow(j)
                          [] u = job[j].other -> Written(job[j].theirs, Cleared, row[u])
                          [] OTHER            -> row[u]]
  <1>1. /\ Commit(j, "linking", rows) /\ job[j].pc = "linking"
        /\ link' = [link EXCEPT ![t].used = TRUE, ![t].uses = @ + 1]
    BY <1>0 DEF LinkCommit
  <1>2. /\ t \in LinkTokens /\ link[t] # None /\ job[j].user \in Users /\ job[j].mine \in Row
        /\ (job[j].other # None => job[j].theirs \in Row)
    BY <1>0, <1>1 DEF LInv, Carries
  <1>3. rows \in [Users -> Row]
    <2>1. LinkedRow(j) \in Row
      <3>1. job[j].chat \in Chats \cup {None} /\ row[job[j].user] \in Row
        BY <1>2, Typed DEF JobRecord
      <3> QED BY <3>1 DEF LinkedRow, Row
    <2>2. ASSUME NEW u \in Users
          PROVE  (CASE u = job[j].user  -> LinkedRow(j)
                    [] u = job[j].other -> Written(job[j].theirs, Cleared, row[u])
                    [] OTHER            -> row[u]) \in Row
      <3>1. CASE u = job[j].user /\ u # job[j].other
        BY <2>1, <3>1
      <3>2. CASE u # job[j].user /\ u = job[j].other
        <4>1. Written(job[j].theirs, Cleared, row[u]) \in Row
          BY <1>2, <3>2, WrittenOK, ClearedOK, Typed, LinkAssumption
        <4> QED BY <3>2, <4>1
      <3>3. CASE u # job[j].user /\ u # job[j].other
        BY <3>3, Typed
      <3>4. CASE u = job[j].user /\ u = job[j].other
        <4>1. Written(job[j].theirs, Cleared, row[u]) \in Row
          BY <1>2, <3>4, WrittenOK, ClearedOK, Typed, LinkAssumption
        <4> QED BY <2>1, <3>4, <4>1
      <3> QED BY <3>1, <3>2, <3>3, <3>4
    <2> QED BY <2>2
  <1> HIDE DEF rows
  <1>4. link[t] \in LinkRow
    BY <1>2, Typed
  <1>5. /\ now \in LinkRow /\ now.used = TRUE /\ now.uses = link[t].uses + 1
        /\ now.shared = link[t].shared
    <2>1. PICK n \in Nat : n = link[t].uses + 1
      BY <1>4 DEF LinkRow
    <2>2. now = [link[t] EXCEPT !.used = TRUE, !.uses = n]
      BY <2>1
    <2>3. [link[t] EXCEPT !.used = TRUE, !.uses = n] \in LinkRow
      BY <1>4 DEF LinkRow
    <2>4. /\ now.used = TRUE /\ now.uses = n /\ now.shared = link[t].shared
      BY <1>4, <2>2 DEF LinkRow
    <2> QED BY <2>1, <2>2, <2>3, <2>4
  <1>6. link'[t] = now /\ now # None /\ \A i \in LinkTokens \ {t} : link'[i] = link[i]
    BY <1>1, <1>2, <1>5, Typed, LinkAssumption
  <1>7. link' \in [LinkTokens -> LinkRow \cup {None}]
    BY <1>1, <1>5, <1>6, Typed
  <1> HIDE DEF now
  <1>8. \A i \in LinkTokens : link[i] # None => link'[i] # None
    BY <1>5, <1>6
  <1>9. /\ LInv' /\ job'[j] = IdleJob
        /\ \A i \in Jobs \ {j} : job'[i].token = job[i].token
    BY <1>1, <1>3, <1>7, <1>8, CommitKeeps
  <1>10. LinkUses!Use(j, t)
    <2> DEFINE H == [i \in LinkTokens |-> Holding(i)]
               U == [i \in LinkTokens |-> UsesOf(i)]
    <2>1. \A i \in LinkTokens : Holding(i)' = Holding(i) \ {j}
      BY <1>9, IdleOK, Hands
    <2>2. \A i \in LinkTokens \ {t} : Holding(i) \ {j} = Holding(i)
      BY <1>0 DEF Holding
    <2>3. H' = [H EXCEPT ![t] = @ \ {j}] /\ j \in Holding(t)
      <3>1. j \in Holding(t)
        BY <1>0 DEF Holding
      <3>2. \A i \in LinkTokens : Holding(i)' = IF i = t THEN Holding(t) \ {j} ELSE Holding(i)
        BY <2>1, <2>2
      <3>3. H' = [i \in LinkTokens |-> IF i = t THEN Holding(t) \ {j} ELSE Holding(i)]
        BY <3>2
      <3>4. [H EXCEPT ![t] = @ \ {j}]
              = [i \in LinkTokens |-> IF i = t THEN Holding(t) \ {j} ELSE Holding(i)]
        BY <1>2
      <3> QED BY <3>1, <3>3, <3>4
    <2>4. UsesOf(t)' = UsesOf(t) + 1 /\ \A i \in LinkTokens \ {t} : UsesOf(i)' = UsesOf(i)
      BY <1>2, <1>5, <1>6 DEF UsesOf
    <2>5. U' = [U EXCEPT ![t] = @ + 1]
      BY <2>4
    <2>6. \A i \in LinkTokens : SharedOf(i)' = SharedOf(i)
      BY <1>2, <1>5, <1>6 DEF SharedOf
    <2>7. [i \in LinkTokens |-> SharedOf(i)]' = [i \in LinkTokens |-> SharedOf(i)]
      BY <2>6
    <2>8. /\ StateOf(t)' = "closed" /\ \A i \in LinkTokens \ {t} : StateOf(i)' = StateOf(i)
          /\ \A i \in LinkTokens : StateOf(i)' \in {"unissued", "open", "closed"}
      BY <1>5, <1>6 DEF StateOf, Open
    <2>9. [i \in LinkTokens |-> StateOf(i)]' \in [LinkTokens -> {"unissued", "open", "closed"}]
      BY <2>8
    <2> QED BY <1>2, <2>3, <2>5, <2>7, <2>8, <2>9
            DEF LinkUses!Use, LinkUses!States, StateOf, UsesOf, SharedOf
  <1> QED BY <1>2, <1>9, <1>10 DEF Simulates, LinkUses!Next

LEMMA LinkStep == LInv /\ [LinkNext]_lvars => LInv' /\ Simulates
  <1> SUFFICES ASSUME LInv, [LinkNext]_lvars PROVE LInv' /\ Simulates
    OBVIOUS
  <1>1. ASSUME NEW t \in LinkTokens, LinkTtlEnds(t) \/ \E u \in Users : CreateLink(u, t)
        PROVE  LInv' /\ Simulates
    BY <1>1, LinkTtlEndsStep, CreateLinkStep
  <1>2. ASSUME NEW j \in Jobs,
               \/ \E t \in LinkTokens, chat \in Chats : ReadToken(j, t, chat)
               \/ ReadAccount(j) \/ ReadOther(j) \/ LinkCommit(j) \/ LinkFails(j)
               \/ \E u \in Users : ReadUnlink(j, u)
               \/ UnlinkCommit(j) \/ JobDies(j)
        PROVE  LInv' /\ Simulates
    BY <1>2, ReadTokenStep, ReadAccountStep, ReadOtherStep, LinkCommitStep, GiveUpStep,
       ReadUnlinkStep, UnlinkCommitStep
  <1>3. CASE UNCHANGED lvars
    <2>1. UNCHANGED <<row, link, job, torn>>
      BY <1>3 DEF lvars
    <2>2. LInv'
      BY <2>1 DEF LInv, LinkTypeOK, Carries
    <2>3. \A t \in LinkTokens : Holding(t)' = Holding(t)
      BY <2>1 DEF Holding
    <2> QED BY <2>1, <2>2, <2>3, Stutter DEF Simulates
  <1> QED BY <1>1, <1>2, <1>3 DEF LinkNext

LEMMA LinkBegins == LinkInit => LInv /\ LinkUses!Init
  <1> SUFFICES ASSUME LinkInit PROVE LInv /\ LinkUses!Init
    OBVIOUS
  <1>1. LInv
    BY IdleOK, ClearedOK DEF LinkInit, LInv, LinkTypeOK, Carries, JobRecord
  <1>2. \A t \in LinkTokens : Holding(t) = {}
    BY IdleOK, LinkAssumption DEF LinkInit, Holding
  <1>3. \A t \in LinkTokens : link[t] = None
    BY DEF LinkInit
  <1>4. LinkUses!Init
    BY <1>2, <1>3 DEF LinkUses!Init
  <1> QED BY <1>1, <1>4

\* Telegram links are one-time tokens: every step of the bot and of the site is a
\* step of OneTimeToken on the token it is about, or none at all.
THEOREM LinksAreOneTime == LinkSpec => LinkSingleUse
  <1>1. LinkInit => LinkUses!Init
    BY LinkBegins
  <1>2. LinkSpec => [][LinkUses!Next]_(LinkUses!vars)
    BY LinkBegins, LinkStep, PTL DEF LinkSpec, Simulates
  <1> QED BY <1>1, <1>2, PTL DEF LinkSpec, LinkSingleUse, LinkUses!Spec

\* Rows and what the jobs hold stay what they are taken for.
THEOREM LinkTypes == LinkSpec => []LinkTypeOK
  <1>1. LInv => LinkTypeOK
    BY DEF LInv
  <1> QED BY <1>1, LinkBegins, LinkStep, PTL DEF LinkSpec
-----------------------------------------------------------------------------
Once == INSTANCE OneTimeTokenProofs WITH
    Tokens <- LinkTokens, Readers <- Jobs,
    state <- [t \in LinkTokens |-> StateOf(t)], holders <- [t \in LinkTokens |-> Holding(t)],
    uses <- [t \in LinkTokens |-> UsesOf(t)], shared <- [t \in LinkTokens |-> SharedOf(t)]

\* A link that no two jobs held at once connects once at most.
THEOREM LinksConnectOnce ==
    LinkSpec => [](\A t \in LinkTokens : UsesOf(t) <= 1 \/ SharedOf(t))
  <1>1. LinkSpec => Once!Spec
    <2>1. LinkUses!Init => Once!Init
      BY DEF LinkUses!Init, Once!Init, StateOf, UsesOf, SharedOf
    <2>2. Simulates => [Once!Next]_(Once!vars)
      BY DEF Simulates, LinkUses!Next, LinkUses!vars, LinkUses!Age, LinkUses!Read, LinkUses!Drop,
             LinkUses!Use, LinkUses!States, Once!Next, Once!vars, Once!Age, Once!Read, Once!Drop,
             Once!Use, Once!States, StateOf, UsesOf, SharedOf
    <2> QED BY <2>1, <2>2, LinkBegins, LinkStep, PTL DEF LinkSpec, Once!Spec
  <1>2. Once!Spec => []Once!UsedOnce
    BY Once!TokensAreUsedOnce
  <1>3. Once!UsedOnce => \A t \in LinkTokens : UsesOf(t) <= 1 \/ SharedOf(t)
    BY DEF Once!UsedOnce
  <1> QED BY <1>1, <1>2, <1>3, PTL
-----------------------------------------------------------------------------
(* Accounts and chats                                                      *)

\* What a job read is what is there, but for the accounts it knows others wrote; and
\* the account that has the chat is another one than the one to be connected.
Saw(j) ==
  /\ job[j].pc \in {"account", "linking", "unlinking"} /\ job[j].user \notin job[j].crossed
        => row[job[j].user] = job[j].mine
  /\ job[j].pc \in {"token", "account", "linking"} => job[j].chat \in Chats
  /\ job[j].pc = "linking" /\ job[j].other # None =>
        /\ job[j].other \in Users \ {job[j].user} /\ job[j].theirs.chat = job[j].chat
        /\ job[j].other \notin job[j].crossed => row[job[j].other] = job[j].theirs

WInv == LInv /\ LinkRowsWhole /\ \A j \in Jobs : Saw(j)

\* A commit, column by column
LEMMA WrittenIs ==
  ASSUME NEW seen, NEW want, NEW now
  PROVE  /\ Written(seen, want, now).chat = IF seen.chat = want.chat THEN now.chat ELSE want.chat
         /\ Written(seen, want, now).linked
              = IF seen.linked = want.linked THEN now.linked ELSE want.linked
  BY DEF Written

\* What a commit does to the rows, to torn and to the other jobs
LEMMA CommitShows ==
  ASSUME LInv, NEW j \in Jobs, NEW from, NEW rows \in [Users -> Row], Commit(j, from, rows)
  PROVE  /\ row' = rows /\ job'[j].pc = "idle"
         /\ \A u \in Users : /\ torn[u] => torn'[u]
                             /\ rows[u] # row[u] /\ u \in job[j].crossed => torn'[u]
         /\ \A i \in Jobs \ {j} :
              /\ job'[i].pc = job[i].pc /\ job'[i].chat = job[i].chat
              /\ job'[i].user = job[i].user /\ job'[i].mine = job[i].mine
              /\ job'[i].other = job[i].other /\ job'[i].theirs = job[i].theirs
              /\ job[i].pc # "idle" =>
                    job'[i].crossed = job[i].crossed \cup {u \in Users : rows[u] # row[u]}
  <1> DEFINE changed == {u \in Users : rows[u] # row[u]}
  <1>1. job'[j].pc = "idle"
    BY IdleOK DEF Commit
  <1>2. ASSUME NEW i \in Jobs, i # j
        PROVE  /\ job'[i].pc = job[i].pc /\ job'[i].chat = job[i].chat
               /\ job'[i].user = job[i].user /\ job'[i].mine = job[i].mine
               /\ job'[i].other = job[i].other /\ job'[i].theirs = job[i].theirs
               /\ job[i].pc # "idle" => job'[i].crossed = job[i].crossed \cup changed
    <2>1. job[i] \in JobRecord
      BY Typed
    <2>2. job'[i] = IF job[i].pc = "idle" THEN job[i]
                    ELSE [job[i] EXCEPT !.crossed = @ \cup changed]
      BY <1>2 DEF Commit
    <2> HIDE DEF changed
    <2> QED BY <2>1, <2>2 DEF JobRecord
  <1>3. row' = rows /\ \A u \in Users : torn'[u] = (torn[u] \/ (u \in changed /\ u \in job[j].crossed))
    BY DEF Commit
  <1> QED BY <1>1, <1>2, <1>3

\* A commit leaves the others knowing what they read and what was written since.
LEMMA CommitSeen ==
  ASSUME WInv, NEW j \in Jobs, NEW from, NEW rows \in [Users -> Row], Commit(j, from, rows)
  PROVE  \A i \in Jobs : Saw(i)'
  <1>0. LInv /\ \A i \in Jobs : Saw(i)
    BY DEF WInv
  <1>1. Saw(j)'
    BY <1>0, CommitShows DEF Saw
  <1>2. ASSUME NEW i \in Jobs, i # j PROVE Saw(i)'
    <2>1. CASE job[i].pc = "idle"
      BY <1>0, <1>2, <2>1, CommitShows DEF Saw
    <2>2. CASE job[i].pc # "idle"
      <3>1. /\ row' = rows /\ job'[i].pc = job[i].pc /\ job'[i].chat = job[i].chat
            /\ job'[i].user = job[i].user /\ job'[i].mine = job[i].mine
            /\ job'[i].other = job[i].other /\ job'[i].theirs = job[i].theirs
            /\ \A u \in Users : u \notin job'[i].crossed =>
                    u \notin job[i].crossed /\ row'[u] = row[u]
        BY <1>0, <1>2, <2>2, CommitShows
      <3>2. job[i].pc \in {"account", "linking", "unlinking"} => job[i].user \in Users
        BY <1>0 DEF LInv, Carries
      <3> QED BY <1>0, <3>1, <3>2 DEF Saw
    <2> QED BY <2>1, <2>2
  <1> QED BY <1>1, <1>2

\* A step that writes no row keeps what holds of them.
LEMMA RowsStand ==
  ASSUME WInv, LInv', UNCHANGED <<row, torn>>, \A i \in Jobs : Saw(i)' PROVE WInv'
  BY DEF WInv, LinkRowsWhole, LInv

LEMMA JobSees ==
  ASSUME WInv, NEW j \in Jobs, NEW next, job' = [job EXCEPT ![j] = next],
         UNCHANGED <<row, torn>>, LInv', Saw(j)'
  PROVE  WInv'
  <1>1. ASSUME NEW i \in Jobs, i # j PROVE Saw(i)'
    <2>1. job'[i] = job[i]
      BY <1>1, Typed DEF WInv
    <2> QED BY <2>1 DEF WInv, Saw
  <1> QED BY <1>1, RowsStand

\* No token is an account, a row or a chat: links appear and age out of sight of the rows.
LEMMA TokensUnseen ==
  ASSUME WInv, LInv', UNCHANGED <<row, job, torn>> PROVE WInv'
  <1>1. \A i \in Jobs : Saw(i)'
    BY DEF WInv, Saw
  <1> QED BY <1>1, RowsStand

LEMMA ReadTokenSees ==
  ASSUME WInv, LInv', NEW j \in Jobs, NEW t \in LinkTokens, NEW chat \in Chats, ReadToken(j, t, chat)
  PROVE  WInv'
  <1>1. PICK next : /\ next = [IdleJob EXCEPT !.pc = "token", !.token = t, !.chat = chat,
                                              !.user = link[t].user]
                    /\ job' = [job EXCEPT ![j] = next]
    BY DEF ReadToken, JobStep
  <1>2. next.pc = "token" /\ next.chat = chat
    BY <1>1 DEF IdleJob
  <1>3. job'[j] = next
    BY <1>1, Typed DEF WInv
  <1>4. Saw(j)'
    BY <1>2, <1>3 DEF Saw
  <1> QED BY <1>1, <1>4, JobSees DEF ReadToken

LEMMA ReadAccountSees ==
  ASSUME WInv, LInv', NEW j \in Jobs, ReadAccount(j) PROVE WInv'
  <1>1. PICK next : /\ next = [job[j] EXCEPT !.pc = "account", !.mine = row[job[j].user],
                                             !.crossed = {}]
                    /\ job' = [job EXCEPT ![j] = next]
    BY DEF ReadAccount, JobStep
  <1>0. job[j] \in JobRecord /\ job[j].pc = "token"
    BY Typed DEF WInv, ReadAccount, JobStep
  <1>2. /\ next.pc = "account" /\ next.chat = job[j].chat /\ next.user = job[j].user
        /\ next.mine = row[job[j].user]
    BY <1>0, <1>1 DEF JobRecord
  <1>3. job'[j] = next
    BY <1>1, Typed DEF WInv
  <1>4. Saw(j)'
    BY <1>0, <1>2, <1>3 DEF Saw, WInv, ReadAccount
  <1> QED BY <1>1, <1>4, JobSees DEF ReadAccount

LEMMA ReadOtherSees ==
  ASSUME WInv, LInv', NEW j \in Jobs, ReadOther(j) PROVE WInv'
  <1> DEFINE others == Owners(job[j].chat) \ {job[j].user}
  <1>1. PICK other, theirs, next :
          /\ other = IF others = {} THEN None ELSE CHOOSE u \in others : TRUE
          /\ theirs = IF other = None THEN None ELSE row[other]
          /\ next = [job[j] EXCEPT !.pc = "linking", !.other = other, !.theirs = theirs,
                                   !.crossed = @ \ {other}]
          /\ job' = [job EXCEPT ![j] = next]
    BY DEF ReadOther, JobStep
  <1>2. job[j] \in JobRecord /\ job[j].pc = "account" /\ job[j].user \in Users
    BY Typed DEF WInv, ReadOther, JobStep, LInv, Carries
  <1>3. /\ next.pc = "linking" /\ next.chat = job[j].chat /\ next.user = job[j].user
        /\ next.mine = job[j].mine /\ next.other = other /\ next.theirs = theirs
        /\ next.crossed = job[j].crossed \ {other}
    BY <1>1, <1>2 DEF JobRecord
  <1>4. other # None => /\ other \in Users \ {job[j].user} /\ row[other].chat = job[j].chat
                        /\ theirs = row[other]
    <2>1. other # None => other \in others
      BY <1>1
    <2>2. \A u \in others : u \in Users \ {job[j].user} /\ row[u].chat = job[j].chat
      BY DEF Owners
    <2> QED BY <1>1, <2>1, <2>2
  <1>5. job'[j] = next
    BY <1>1, Typed DEF WInv
  <1>6. other # job[j].user
    BY <1>2, <1>4, LinkAssumption
  <1>7. Saw(j)'
    BY <1>2, <1>3, <1>4, <1>5, <1>6 DEF Saw, WInv, ReadOther
  <1> QED BY <1>1, <1>7, JobSees DEF ReadOther

LEMMA ReadUnlinkSees ==
  ASSUME WInv, LInv', NEW j \in Jobs, NEW u \in Users, ReadUnlink(j, u) PROVE WInv'
  <1>1. PICK next : /\ next = [IdleJob EXCEPT !.pc = "unlinking", !.user = u, !.mine = row[u]]
                    /\ job' = [job EXCEPT ![j] = next]
    BY DEF ReadUnlink, JobStep
  <1>2. next.pc = "unlinking" /\ next.user = u /\ next.mine = row[u]
    BY <1>1 DEF IdleJob
  <1>3. job'[j] = next
    BY <1>1, Typed DEF WInv
  <1>4. Saw(j)'
    BY <1>2, <1>3 DEF Saw, ReadUnlink
  <1> QED BY <1>1, <1>4, JobSees DEF ReadUnlink

LEMMA GiveUpSees ==
  ASSUME WInv, LInv', NEW j \in Jobs, LinkFails(j) \/ JobDies(j) PROVE WInv'
  <1>1. job' = [job EXCEPT ![j] = IdleJob] /\ UNCHANGED <<row, torn>>
    BY DEF LinkFails, JobDies, JobStep
  <1>2. job'[j] = IdleJob
    BY <1>1, Typed DEF WInv
  <1>3. Saw(j)'
    BY <1>2, IdleOK DEF Saw
  <1> QED BY <1>1, <1>3, JobSees

\* Rows that keep their chat or lose it share none.
LEMMA UnlinkSees ==
  ASSUME WInv, LInv', NEW j \in Jobs, UnlinkCommit(j)
  PROVE  /\ WInv' /\ job[j].pc = "unlinking" /\ job[j].user \in Users
         /\ \A v \in Users \ {job[j].user} : row'[v] = row[v]
  <1>1. PICK u \in Users : u = job[j].user
    BY DEF WInv, LInv, Carries, UnlinkCommit, Commit
  <1>2. PICK rows : /\ rows = [row EXCEPT ![u] = Written(job[j].mine, Cleared, row[u])]
                    /\ Commit(j, "unlinking", rows)
    BY <1>1 DEF UnlinkCommit
  <1>3. job[j].pc = "unlinking" /\ job[j].mine \in Row /\ row[u] \in Row
    BY <1>2, Typed DEF WInv, LInv, Carries, Commit
  <1>4. rows \in [Users -> Row]
    BY <1>2, <1>3, WrittenOK, ClearedOK, Typed DEF WInv
  <1>5. /\ row' = rows /\ \A i \in Jobs : Saw(i)'
        /\ \A v \in Users : /\ torn[v] => torn'[v]
                            /\ rows[v] # row[v] /\ v \in job[j].crossed => torn'[v]
    <2>1. LInv /\ Commit(j, "unlinking", rows)
      BY <1>2 DEF WInv
    <2> QED BY <1>4, <2>1, CommitShows, CommitSeen
  <1>6. /\ \A v \in Users \ {u} : row'[v] = row[v]
        /\ row'[u].chat = IF job[j].mine.chat = None THEN row[u].chat ELSE None
        /\ row'[u].linked = IF job[j].mine.linked = FALSE THEN row[u].linked ELSE FALSE
    <2>1. row \in [Users -> Row]
      BY Typed DEF WInv
    <2>2. row'[u] = Written(job[j].mine, Cleared, row[u])
      BY <1>2, <1>5, <2>1
    <2>3. Cleared.chat = None /\ Cleared.linked = FALSE
      BY DEF Cleared
    <2>4. /\ row'[u].chat = IF job[j].mine.chat = Cleared.chat THEN row[u].chat ELSE Cleared.chat
          /\ row'[u].linked = IF job[j].mine.linked = Cleared.linked THEN row[u].linked
                             ELSE Cleared.linked
      BY <2>2, WrittenIs
    <2>5. \A v \in Users \ {u} : row'[v] = row[v]
      BY <1>2, <1>5, <2>1
    <2> QED BY <2>3, <2>4, <2>5
  <1>7. \A v, w \in Users : row'[v].chat = row'[w].chat /\ v # w => row'[v].chat = None
    BY <1>6 DEF WInv, LinkRowsWhole
  <1>8. \A v \in Users : row'[v].linked = (row'[v].chat # None) \/ torn'[v]
    <2>1. ASSUME NEW v \in Users, v # u \/ row'[v] = row[v]
          PROVE  row'[v].linked = (row'[v].chat # None) \/ torn'[v]
      BY <1>5, <1>6, <2>1 DEF WInv, LinkRowsWhole
    <2>2. ASSUME row'[u] # row[u]
          PROVE  row'[u].linked = (row'[u].chat # None) \/ torn'[u]
      <3>1. CASE u \in job[j].crossed
        BY <1>5, <2>2, <3>1
      <3>2. CASE u \notin job[j].crossed
        <4>1. row[u] = job[j].mine
          BY <1>1, <1>3, <3>2 DEF WInv, Saw
        <4>2. row'[u].chat = None /\ row'[u].linked = FALSE
          BY <1>6, <4>1
        <4> QED BY <4>2
      <3> QED BY <3>1, <3>2
    <2> QED BY <2>1, <2>2
  <1>9. LinkRowsWhole'
    BY <1>7, <1>8 DEF LinkRowsWhole, LInv
  <1> QED BY <1>1, <1>3, <1>5, <1>6, <1>9 DEF WInv

\* What the commit of a link writes: the chat goes to the account, the one that had it
\* has none, and nobody else is touched.
LEMMA LinkWrites ==
  ASSUME WInv, NEW j \in Jobs, LinkCommit(j)
  PROVE  /\ job[j].pc = "linking" /\ job[j].user \in Users /\ job[j].chat \in Chats
         /\ row'[job[j].user].chat = IF job[j].mine.chat = job[j].chat THEN row[job[j].user].chat
                                    ELSE job[j].chat
         /\ row'[job[j].user].linked = TRUE
         /\ job[j].other # None =>
                /\ job[j].other \in Users \ {job[j].user}
                /\ row'[job[j].other].chat = None
                /\ row'[job[j].other].linked = IF job[j].theirs.linked = FALSE
                                              THEN row[job[j].other].linked ELSE FALSE
         /\ \A u \in Users : u # job[j].user /\ u # job[j].other => row'[u] = row[u]
         /\ \A u \in Users : /\ torn[u] => torn'[u]
                             /\ row'[u] # row[u] /\ u \in job[j].crossed => torn'[u]
         /\ \A i \in Jobs : Saw(i)'
  <1>0. /\ LInv /\ job[j].pc = "linking" /\ job[j].user \in Users /\ job[j].mine \in Row
        /\ job[j].chat \in Chats
        /\ job[j].other # None => /\ job[j].theirs \in Row /\ job[j].theirs.chat = job[j].chat
                                 /\ job[j].other \in Users \ {job[j].user}
    BY DEF LinkCommit, WInv, LInv, Carries, Saw
  <1>1. PICK u \in Users : u = job[j].user
    BY <1>0
  <1>2. PICK o : o = job[j].other /\ o # u
    BY <1>0, <1>1, LinkAssumption
  <1>3. PICK rows : /\ rows = [v \in Users |->
                              CASE v = job[j].user  -> LinkedRow(j)
                                [] v = job[j].other -> Written(job[j].theirs, Cleared, row[v])
                                [] OTHER            -> row[v]]
                    /\ Commit(j, "linking", rows)
    BY DEF LinkCommit
  <1>4. /\ DOMAIN rows = Users /\ rows[u] = LinkedRow(j)
        /\ \A v \in Users : /\ v = o => rows[v] = Written(job[j].theirs, Cleared, row[v])
                            /\ v # u /\ v # o => rows[v] = row[v]
    BY <1>1, <1>2, <1>3
  <1>5. rows \in [Users -> Row]
    <2>1. LinkedRow(j) \in Row
      BY <1>0, <1>1, Typed DEF LinkedRow, Row
    <2>2. \A v \in Users : rows[v] \in Row
      BY <1>0, <1>2, <1>4, <2>1, Typed, WrittenOK, ClearedOK, LinkAssumption
    <2> QED BY <1>3, <2>2
  <1>6. /\ row' = rows /\ \A i \in Jobs : Saw(i)'
        /\ \A v \in Users : /\ torn[v] => torn'[v]
                            /\ rows[v] # row[v] /\ v \in job[j].crossed => torn'[v]
    BY <1>0, <1>3, <1>5, CommitShows, CommitSeen
  <1>7. /\ row'[u].chat = IF job[j].mine.chat = job[j].chat THEN row[u].chat ELSE job[j].chat
        /\ row'[u].linked = TRUE
    BY <1>1, <1>4, <1>6 DEF LinkedRow
  <1>8. o # None => /\ row'[o].chat = None
                    /\ row'[o].linked = IF job[j].theirs.linked = FALSE THEN row[o].linked ELSE FALSE
    <2> SUFFICES ASSUME o # None
                 PROVE  /\ row'[o].chat = None
                        /\ row'[o].linked = IF job[j].theirs.linked = FALSE
                                           THEN row[o].linked ELSE FALSE
      OBVIOUS
    <2>1. o \in Users /\ job[j].theirs.chat \in Chats
      BY <1>0, <1>2
    <2>2. row'[o] = Written(job[j].theirs, Cleared, row[o])
      BY <1>4, <1>6, <2>1
    <2>3. Cleared.chat = None /\ Cleared.linked = FALSE
      BY DEF Cleared
    <2>4. /\ row'[o].chat = IF job[j].theirs.chat = Cleared.chat THEN row[o].chat ELSE Cleared.chat
          /\ row'[o].linked = IF job[j].theirs.linked = Cleared.linked THEN row[o].linked
                             ELSE Cleared.linked
      BY <2>2, WrittenIs
    <2>5. job[j].theirs.chat # None
      BY <2>1, LinkAssumption
    <2> QED BY <2>3, <2>4, <2>5
  <1> QED BY <1>0, <1>1, <1>2, <1>4, <1>6, <1>7, <1>8

LEMMA LinkSees ==
  ASSUME WInv, LInv', NEW j \in Jobs, LinkCommit(j) PROVE WInv'
  <1>0. PICK u \in Users, chat \in Chats : u = job[j].user /\ chat = job[j].chat
    BY LinkWrites
  <1>1. PICK o : u = job[j].user /\ o = job[j].other /\ chat = job[j].chat /\ o # u
    <2>1. job[j].other # None => job[j].other \in Users \ {job[j].user}
      BY LinkWrites
    <2> QED BY <1>0, <2>1, LinkAssumption
  <1>2. /\ row'[u].chat = IF job[j].mine.chat = chat THEN row[u].chat ELSE chat
        /\ row'[u].linked = TRUE
        /\ o # None => row'[o].chat = None
        /\ \A v \in Users : v # u /\ v # o => row'[v] = row[v]
        /\ \A v \in Users : /\ torn[v] => torn'[v]
                            /\ row'[v] # row[v] /\ v \in job[j].crossed => torn'[v]
    BY <1>1, LinkWrites
  <1>3. chat # None /\ None \notin Users
    BY LinkAssumption
  <1>4. \A v \in Users \ {u} : row'[v].chat = row[v].chat \/ row'[v].chat = None
    BY <1>2, <1>3
  <1>5. \A v \in Users \ {u} : row'[v].chat = row'[u].chat => row'[v].chat = None
    <2> SUFFICES ASSUME NEW v \in Users \ {u}, row'[v].chat = row'[u].chat, row'[v].chat # None
                 PROVE  FALSE
      OBVIOUS
    <2>1. row'[v].chat = row[v].chat /\ v # o
      BY <1>2, <1>3, <1>4
    <2>2. CASE job[j].mine.chat = chat
      BY <1>2, <2>1, <2>2 DEF WInv, LinkRowsWhole
    <2>3. CASE job[j].mine.chat # chat
      <3>1. v \in Owners(chat) \ {u}
        BY <1>2, <2>1, <2>3 DEF Owners
      <3> QED BY <1>1, <2>1, <2>3, <3>1 DEF LinkCommit, Refused
    <2> QED BY <2>2, <2>3
  <1>6. \A v, w \in Users : row'[v].chat = row'[w].chat /\ v # w => row'[v].chat = None
    BY <1>4, <1>5 DEF WInv, LinkRowsWhole
  <1>7. \A v \in Users : row'[v].linked = (row'[v].chat # None) \/ torn'[v]
    <2>1. ASSUME NEW v \in Users, row'[v] = row[v]
          PROVE  row'[v].linked = (row'[v].chat # None) \/ torn'[v]
      BY <1>2, <2>1 DEF WInv, LinkRowsWhole
    <2>2. ASSUME NEW v \in Users, row'[v] # row[v], v \notin job[j].crossed
          PROVE  row'[v].linked = (row'[v].chat # None)
      <3>1. v = u \/ v = o
        BY <1>2, <2>2
      <3>2. CASE v = u
        <4>1. row[u] = job[j].mine
          BY <1>1, <2>2, <3>2, LinkWrites DEF WInv, Saw
        <4>2. row'[u].chat = chat
          BY <1>2, <4>1
        <4> QED BY <1>2, <1>3, <3>2, <4>2
      <3>3. CASE v = o
        <4>1. o # None
          BY <1>3, <3>3
        <4>2. row[o] = job[j].theirs
          BY <1>1, <2>2, <3>3, <4>1, LinkWrites DEF WInv, Saw
        <4>3. /\ row'[o].chat = None
              /\ row'[o].linked = IF job[j].theirs.linked = FALSE THEN row[o].linked ELSE FALSE
          BY <1>1, <4>1, LinkWrites
        <4>4. row'[o].linked = FALSE
          BY <4>2, <4>3
        <4> QED BY <3>3, <4>3, <4>4
      <3> QED BY <3>1, <3>2, <3>3
    <2> QED BY <1>2, <2>1, <2>2
  <1>8. LinkRowsWhole'
    BY <1>6, <1>7 DEF LinkRowsWhole, LInv
  <1> QED BY <1>8, LinkWrites DEF WInv

LEMMA SeesAll == WInv /\ [LinkNext]_lvars => WInv'
  <1> SUFFICES ASSUME WInv, [LinkNext]_lvars PROVE WInv'
    OBVIOUS
  <1>0. LInv'
    BY LinkStep DEF WInv
  <1>1. ASSUME NEW t \in LinkTokens, LinkTtlEnds(t) \/ \E u \in Users : CreateLink(u, t)
        PROVE  WInv'
    BY <1>0, <1>1, TokensUnseen DEF LinkTtlEnds, CreateLink
  <1>2. ASSUME NEW j \in Jobs,
               \/ \E t \in LinkTokens, chat \in Chats : ReadToken(j, t, chat)
               \/ ReadAccount(j) \/ ReadOther(j) \/ LinkCommit(j) \/ LinkFails(j)
               \/ \E u \in Users : ReadUnlink(j, u)
               \/ UnlinkCommit(j) \/ JobDies(j)
        PROVE  WInv'
    BY <1>0, <1>2, ReadTokenSees, ReadAccountSees, ReadOtherSees, LinkSees, GiveUpSees,
       ReadUnlinkSees, UnlinkSees
  <1>3. CASE UNCHANGED lvars
    BY <1>0, <1>3, TokensUnseen DEF lvars
  <1> QED BY <1>1, <1>2, <1>3 DEF LinkNext

LEMMA SeesFromTheStart == LinkInit => WInv
  <1> SUFFICES ASSUME LinkInit PROVE WInv
    OBVIOUS
  <1>1. LInv
    BY LinkBegins
  <1>2. LinkRowsWhole
    BY <1>1 DEF LinkInit, LinkRowsWhole, LInv, Cleared
  <1>3. \A j \in Jobs : Saw(j)
    BY IdleOK DEF LinkInit, Saw
  <1> QED BY <1>1, <1>2, <1>3 DEF WInv

\* What the jobs know of the rows
THEOREM JobsKnowTheRows == LinkSpec => []WInv
  BY SeesFromTheStart, SeesAll, PTL DEF LinkSpec

\* No two accounts ever share a chat, though consume_link_token moves a chat in three
\* reads and a commit and unlink may run beside it; and telegram_linked_at goes with
\* telegram_chat_id in every account no two overlapping writes were about.
THEOREM RowsAreWhole == LinkSpec => []LinkRowsWhole
  <1>1. WInv => LinkRowsWhole
    BY DEF WInv
  <1> QED BY <1>1, JobsKnowTheRows, PTL

\* When the bot says "connected" the account has the chat, unless somebody wrote the
\* account between consume_link_token's reads and its commit.
THEOREM BotTellsTheTruth == LinkSpec => ConnectedAsTold
  <1>1. WInv /\ [LinkNext]_lvars =>
          [\A j \in Jobs : LinkCommit(j) =>
              row'[job[j].user].chat = job[j].chat \/ job[j].user \in job[j].crossed]_lvars
    <2> SUFFICES ASSUME WInv, NEW j \in Jobs, LinkCommit(j), job[j].user \notin job[j].crossed
                 PROVE  row'[job[j].user].chat = job[j].chat
      OBVIOUS
    <2>1. /\ job[j].pc = "linking"
          /\ row'[job[j].user].chat = IF job[j].mine.chat = job[j].chat THEN row[job[j].user].chat
                                     ELSE job[j].chat
      BY LinkWrites
    <2>2. row[job[j].user] = job[j].mine
      BY <2>1 DEF WInv, Saw
    <2> QED BY <2>1, <2>2
  <1> QED BY <1>1, JobsKnowTheRows, PTL DEF LinkSpec, ConnectedAsTold

\* An account loses its chat to its owner's unlink or to an account that gets the chat;
\* never to an attempt of consume_link_token that the unique index refuses.  (A move may
\* still take a chat and give it to nobody when one of its two accounts was written
\* between its reads and its commit.)
THEOREM NobodyIsCutOff == LinkSpec => DisconnectedOnPurpose
  <1> DEFINE Purpose(u) == \/ \E v \in Users : row'[v].chat = row[u].chat
                           \/ \E j \in Jobs : UnlinkCommit(j) /\ job[j].user = u
                           \/ \E j \in Jobs : job[j].pc = "linking" /\ job[j].other = u
                                              /\ {u, job[j].user} \cap job[j].crossed # {}
  <1>1. WInv /\ WInv' /\ [LinkNext]_lvars =>
          [\A u \in Users : (row[u].chat # None /\ row'[u].chat = None) => Purpose(u)]_lvars
    <2> SUFFICES ASSUME WInv, WInv', LinkNext,
                        NEW u \in Users, row[u].chat # None, row'[u].chat = None
                 PROVE  Purpose(u)
      OBVIOUS
    <2>1. PICK j \in Jobs : LinkCommit(j) \/ UnlinkCommit(j)
      <3>1. row' # row
        OBVIOUS
      <3> QED BY <3>1 DEF LinkNext, LinkTtlEnds, CreateLink, ReadToken, ReadAccount, ReadOther,
                          LinkFails, ReadUnlink, JobDies
    <2>2. CASE UnlinkCommit(j)
      <3>1. job[j].user = u
        BY <2>2, UnlinkSees DEF WInv
      <3> QED BY <2>2, <3>1
    <2>3. CASE LinkCommit(j)
      <3>0. /\ job[j].pc = "linking" /\ job[j].user \in Users /\ job[j].chat \in Chats
            /\ row'[job[j].user].chat = IF job[j].mine.chat = job[j].chat
                                       THEN row[job[j].user].chat ELSE job[j].chat
            /\ u # job[j].user /\ u # job[j].other => row'[u] = row[u]
        BY <2>3, LinkWrites
      <3>1. u # job[j].user /\ u = job[j].other /\ job[j].other # None
        <4>1. u # job[j].user
          BY <3>0, LinkAssumption
        <4> QED BY <3>0, <4>1, LinkAssumption
      <3>2. CASE {u, job[j].user} \cap job[j].crossed # {}
        BY <2>3, <3>1, <3>2 DEF LinkCommit
      <3>3. CASE {u, job[j].user} \cap job[j].crossed = {}
        <4>1. row[u] = job[j].theirs /\ job[j].theirs.chat = job[j].chat
          BY <2>3, <3>1, <3>3 DEF LinkCommit, WInv, Saw
        <4>2. row[job[j].user] = job[j].mine /\ job[j].user \in Users
          BY <3>0, <3>3 DEF WInv, Saw
        <4>3. row'[job[j].user].chat = job[j].chat
          BY <3>0, <4>2
        <4> QED BY <4>1, <4>2, <4>3
      <3> QED BY <3>2, <3>3
    <2> QED BY <2>1, <2>2, <2>3
  <1> QED BY <1>1, JobsKnowTheRows, PTL DEF LinkSpec, DisconnectedOnPurpose
=============================================================================
