---------------------------- MODULE TelegramLink ----------------------------
(***************************************************************************)
(* Connecting a chat to an account (services/telegram.py, bot/handlers.py,   *)
(* api/v1/telegram.py): the site issues a link token, the bot consumes it in *)
(* the chat that opens it, the site may disconnect the account again.  A     *)
(* request is cut at its awaits and commits what it computed from the rows   *)
(* as it read them; SQLAlchemy writes the columns it changed, and the rows   *)
(* of users in the order of their primary keys.                             *)
(***************************************************************************)
EXTENDS Naturals, FiniteSets

CONSTANTS
    None,
    Users,       \* ids of users; they are ordered
    Chats,       \* telegram chats
    LinkTokens,  \* rows of telegram_link_tokens there can be
    Jobs         \* bot updates and API requests in flight at once

\* What this component uses of the rows of users and telegram_link_tokens.  uses
\* and shared are ghosts.
Row     == [chat : Chats \cup {None}, linked : BOOLEAN]
LinkRow == [user : Users, used : BOOLEAN, expired : BOOLEAN, uses : Nat, shared : BOOLEAN]

ASSUME LinkAssumption ==
    /\ Users \subseteq Nat
    /\ None \notin Users /\ None \notin Chats /\ None \notin LinkTokens
    /\ None \notin LinkRow

VARIABLES
    row,         \* users: telegram_chat_id, and whether telegram_linked_at is set
    link,        \* table telegram_link_tokens
    job,         \* what each job holds in memory
    torn         \* ghost: accounts written by a job that had read an older row

lvars == <<row, link, job, torn>>

\* crossed is a ghost: the accounts written by others since the job read one.
IdleJob == [pc |-> "idle", token |-> None, chat |-> None, user |-> None, mine |-> None,
            other |-> None, theirs |-> None, crossed |-> {}]

Open(t)    == link[t] # None /\ ~ link[t].used /\ ~ link[t].expired
Holding(t) == {j \in Jobs : job[j].token = t}

\* select User where telegram_chat_id = chat
Owners(chat) == {u \in Users : row[u].chat = chat}

JobStep(j, from, changes) ==
    /\ job[j].pc = from
    /\ job' = [job EXCEPT ![j] = changes]

\* The columns of a row that a job changed: what it wants where that differs from
\* what it read, else what is there.
Written(seen, want, now) ==
    [c \in {"chat", "linked"} |-> IF seen[c] = want[c] THEN now[c] ELSE want[c]]
Cleared == [chat |-> None, linked |-> FALSE]

\* The job is over and its writes are in the table.
Commit(j, from, rows) ==
    LET changed == {u \in Users : rows[u] # row[u]}
    IN  /\ job[j].pc = from
        /\ row' = rows
        /\ torn' = [u \in Users |-> torn[u] \/ (u \in changed /\ u \in job[j].crossed)]
        /\ job' = [i \in Jobs |-> IF i = j THEN IdleJob
                                  ELSE IF job[i].pc = "idle" THEN job[i]
                                  ELSE [job[i] EXCEPT !.crossed = @ \cup changed]]
-----------------------------------------------------------------------------
\* create_link_token
CreateLink(u, t) ==
    /\ link[t] = None
    /\ link' = [link EXCEPT ![t] = [user |-> u, used |-> FALSE, expired |-> FALSE, uses |-> 0,
                                    shared |-> FALSE]]
    /\ UNCHANGED <<row, job, torn>>

\* ten minutes
LinkTtlEnds(t) ==
    /\ Open(t)
    /\ link' = [link EXCEPT ![t].expired = TRUE]
    /\ UNCHANGED <<row, job, torn>>

\* mutant: used_at is not looked at
ReadToken_any(j, t, chat) ==
    /\ link[t] # None /\ ~ link[t].expired
    /\ JobStep(j, "idle", [IdleJob EXCEPT !.pc = "token", !.token = t, !.chat = chat,
                                          !.user = link[t].user])
    /\ link' = [link EXCEPT ![t].shared = @ \/ Holding(t) # {}]
    /\ UNCHANGED <<row, torn>>

\* consume_link_token, first read: the token opened in some chat.  Any other token
\* is answered with an error and changes nothing.
ReadToken(j, t, chat) ==
    /\ Open(t)
    /\ JobStep(j, "idle", [IdleJob EXCEPT !.pc = "token", !.token = t, !.chat = chat,
                                          !.user = link[t].user])
    /\ link' = [link EXCEPT ![t].shared = @ \/ Holding(t) # {}]
    /\ UNCHANGED <<row, torn>>

\* second read: the account the token belongs to
ReadAccount(j) ==
    /\ JobStep(j, "token", [job[j] EXCEPT !.pc = "account", !.mine = row[job[j].user],
                                          !.crossed = {}])
    /\ UNCHANGED <<row, link, torn>>

\* third read: the account that has the chat now
ReadOther(j) ==
    LET others == Owners(job[j].chat) \ {job[j].user}
        other  == IF others = {} THEN None ELSE CHOOSE u \in others : TRUE
    IN  /\ JobStep(j, "account", [job[j] EXCEPT !.pc = "linking", !.other = other,
                    !.theirs = IF other = None THEN None ELSE row[other],
                    !.crossed = @ \ {other}])
        /\ UNCHANGED <<row, link, torn>>

\* users.telegram_chat_id is unique, and checked row by row: setting the chat of
\* this account fails when another account has it, unless that one is the account
\* being cleared and its row is written first.
Refused(j) ==
    LET u == job[j].user
    IN  /\ job[j].mine.chat # job[j].chat
        /\ \E v \in Owners(job[j].chat) \ {u} : ~ (v = job[j].other /\ v < u)

\* mutant: an account that has a chat keeps it
LinkedRow_first(j) ==
    [chat |-> IF job[j].mine.chat # None THEN job[j].mine.chat ELSE job[j].chat, linked |-> TRUE]

\* the account's new row; telegram_linked_at is a new time and always written
LinkedRow(j) ==
    [chat |-> IF job[j].mine.chat = job[j].chat THEN row[job[j].user].chat ELSE job[j].chat,
     linked |-> TRUE]

\* consume_link_token, the commit: both accounts and the token, or nothing
LinkCommit(j) ==
    /\ job[j].pc = "linking" /\ ~ Refused(j)
    /\ link' = [link EXCEPT ![job[j].token].used = TRUE, ![job[j].token].uses = @ + 1]
    /\ Commit(j, "linking", [u \in Users |->
            CASE u = job[j].user  -> LinkedRow(j)
              [] u = job[j].other -> Written(job[j].theirs, Cleared, row[u])
              [] OTHER            -> row[u]])

\* mutant: the other account is cleared in a transaction of its own
LinkFails_half(j) ==
    /\ job[j].pc = "linking" /\ Refused(j)
    /\ Commit(j, "linking", [u \in Users |->
            IF u = job[j].other THEN Written(job[j].theirs, Cleared, row[u]) ELSE row[u]])
    /\ UNCHANGED link

\* IntegrityError is no AppError: the bot says nothing and the token stays open.
LinkFails(j) ==
    /\ job[j].pc = "linking" /\ Refused(j)
    /\ JobStep(j, "linking", IdleJob)
    /\ UNCHANGED <<row, link, torn>>

\* DELETE /telegram/link: current_user reads the row, unlink commits.
ReadUnlink(j, u) ==
    /\ JobStep(j, "idle", [IdleJob EXCEPT !.pc = "unlinking", !.user = u, !.mine = row[u]])
    /\ UNCHANGED <<row, link, torn>>

\* mutant: telegram_linked_at is left
UnlinkCommit_half(j) ==
    LET u == job[j].user
    IN  /\ Commit(j, "unlinking", [row EXCEPT ![u] =
                Written(job[j].mine, [chat |-> None, linked |-> job[j].mine.linked], row[u])])
        /\ UNCHANGED link

UnlinkCommit(j) ==
    LET u == job[j].user
    IN  /\ Commit(j, "unlinking", [row EXCEPT ![u] = Written(job[j].mine, Cleared, row[u])])
        /\ UNCHANGED link

\* The process dies; an update that was not answered may be delivered again, which
\* is the token opened once more.
JobDies(j) ==
    /\ job[j].pc # "idle"
    /\ JobStep(j, job[j].pc, IdleJob)
    /\ UNCHANGED <<row, link, torn>>
-----------------------------------------------------------------------------
LinkInit ==
    /\ row = [u \in Users |-> Cleared]
    /\ link = [t \in LinkTokens |-> None]
    /\ job = [j \in Jobs |-> IdleJob]
    /\ torn = [u \in Users |-> FALSE]

LinkNext ==
    \/ \E t \in LinkTokens : LinkTtlEnds(t) \/ \E u \in Users : CreateLink(u, t)
    \/ \E j \in Jobs :
        \/ \E t \in LinkTokens, chat \in Chats : ReadToken(j, t, chat)
        \/ ReadAccount(j) \/ ReadOther(j) \/ LinkCommit(j) \/ LinkFails(j)
        \/ \E u \in Users : ReadUnlink(j, u)
        \/ UnlinkCommit(j) \/ JobDies(j)

LinkSpec == LinkInit /\ [][LinkNext]_lvars
-----------------------------------------------------------------------------
LinkTypeOK ==
    /\ row \in [Users -> Row]
    /\ link \in [LinkTokens -> LinkRow \cup {None}]
    /\ job \in [Jobs -> [pc : {"idle", "token", "account", "linking", "unlinking"},
                         token : LinkTokens \cup {None}, chat : Chats \cup {None},
                         user : Users \cup {None}, mine : Row \cup {None},
                         other : Users \cup {None}, theirs : Row \cup {None},
                         crossed : SUBSET Users]]
    /\ torn \in [Users -> BOOLEAN]

LinkUses == INSTANCE OneTimeToken WITH
    Tokens <- LinkTokens, Readers <- Jobs,
    state <- [t \in LinkTokens |-> IF link[t] = None THEN "unissued"
                                   ELSE IF Open(t) THEN "open" ELSE "closed"],
    holders <- [t \in LinkTokens |-> Holding(t)],
    uses <- [t \in LinkTokens |-> IF link[t] = None THEN 0 ELSE link[t].uses],
    shared <- [t \in LinkTokens |-> link[t] # None /\ link[t].shared]

\* A telegram link connects once ("one-time token", services/telegram.py), also when
\* a commit is refused by the unique index, or the bot dies and opens it again.
LinkSingleUse == LinkUses!Spec

\* When the bot says "connected" the account has that chat, unless somebody
\* wrote the account while the bot was at it.
ConnectedAsTold ==
    [][\A j \in Jobs : LinkCommit(j) =>
            row'[job[j].user].chat = job[j].chat \/ job[j].user \in job[j].crossed]_lvars

\* An account loses its chat because its owner disconnects it or because another
\* account gets the chat; never by an attempt that fails.  (The one exception
\* is a move between two accounts one of which was written meanwhile.)
DisconnectedOnPurpose ==
    [][\A u \in Users : (row[u].chat # None /\ row'[u].chat = None) =>
        \/ \E v \in Users : row'[v].chat = row[u].chat
        \/ \E j \in Jobs : UnlinkCommit(j) /\ job[j].user = u
        \/ \E j \in Jobs : job[j].pc = "linking" /\ job[j].other = u
                           /\ {u, job[j].user} \cap job[j].crossed # {}]_lvars

\* No two accounts have the same chat, and an account shows the time it was
\* connected exactly while it is, unless two writes of its row overlapped.
LinkRowsWhole ==
    /\ LinkTypeOK
    /\ \A u, v \in Users : row[u].chat = row[v].chat /\ u # v => row[u].chat = None
    /\ \A u \in Users : row[u].linked = (row[u].chat # None) \/ torn[u]
=============================================================================
