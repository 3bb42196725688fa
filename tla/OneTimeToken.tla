---------------------------- MODULE OneTimeToken ----------------------------
(***************************************************************************)
(* What "single use" means for the tokens of this system.  A token is read  *)
(* and later marked used in separate statements and nothing is locked in    *)
(* between, so the promise is: a token that no two readers held at once is  *)
(* used once at most, and one that is closed finds no new reader.  Mailed   *)
(* links and refresh tokens (Accounts) and telegram links (TelegramLink)    *)
(* keep it.                                                                *)
(***************************************************************************)
EXTENDS Naturals, FiniteSets

CONSTANTS Tokens, Readers

VARIABLES
    state,      \* state[t]: "unissued", "open" or "closed"
    holders,    \* holders[t]: the readers that found t open and have not finished
    uses,       \* uses[t]: how often t was used
    shared      \* shared[t]: t was read by a reader while another held it

States == {"unissued", "open", "closed"}

vars == <<state, holders, uses, shared>>

Init ==
    /\ state = [t \in Tokens |-> "unissued"]
    /\ holders = [t \in Tokens |-> {}]
    /\ uses = [t \in Tokens |-> 0]
    /\ shared = [t \in Tokens |-> FALSE]

Read(r, t) ==
    /\ state[t] = "open" /\ r \notin holders[t]
    /\ holders' = [holders EXCEPT ![t] = @ \cup {r}]
    /\ shared' = [shared EXCEPT ![t] = @ \/ holders[t] # {}]
    /\ UNCHANGED <<state, uses>>

\* The reader gives up, or dies.
Drop(r, t) ==
    /\ r \in holders[t]
    /\ holders' = [holders EXCEPT ![t] = @ \ {r}]
    /\ UNCHANGED <<state, uses, shared>>

\* A use closes the token, and may issue others in the same transaction.
Use(r, t) ==
    /\ r \in holders[t]
    /\ holders' = [holders EXCEPT ![t] = @ \ {r}]
    /\ uses' = [uses EXCEPT ![t] = @ + 1]
    /\ state' \in [Tokens -> States]
    /\ state'[t] = "closed"
    /\ \A i \in Tokens \ {t} : state'[i] # state[i] => state[i] = "unissued" /\ state'[i] = "open"
    /\ UNCHANGED shared

\* Tokens are issued, expire, or are revoked together.
Age ==
    /\ state' \in [Tokens -> States]
    /\ \A t \in Tokens : state'[t] # state[t] =>
            <<state[t], state'[t]>> \in {<<"unissued", "open">>, <<"open", "closed">>}
    /\ UNCHANGED <<holders, uses, shared>>

Next == Age \/ \E r \in Readers, t \in Tokens : Read(r, t) \/ Drop(r, t) \/ Use(r, t)

Spec == Init /\ [][Next]_vars
-----------------------------------------------------------------------------
\* A token that was not read by two at once is used once at most.
UsedOnce == \A t \in Tokens : uses[t] <= 1 \/ shared[t]

TypeOK ==
    /\ state \in [Tokens -> States]
    /\ holders \in [Tokens -> SUBSET Readers]
    /\ uses \in [Tokens -> Nat] /\ shared \in [Tokens -> BOOLEAN]
=============================================================================
