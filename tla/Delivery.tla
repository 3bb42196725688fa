------------------------------ MODULE Delivery ------------------------------
(***************************************************************************)
(* What the outbox promises about a message, whatever the worker does: once *)
(* accepted it stays queued until it is confirmed or given up, it is        *)
(* confirmed only if it reached its recipient, and it may reach them more   *)
(* than once.  It may also be withdrawn, with the alert it is about or by    *)
(* the retention rules.  Outbox is shown to implement this module.          *)
(***************************************************************************)
EXTENDS Naturals

CONSTANT Rows          \* message ids

VARIABLES
    state,   \* state[r]: where message r stands
    inbox    \* inbox[r]: how many copies of r the recipient got

vars == <<state, inbox>>

Init ==
    /\ state = [r \in Rows |-> "none"]
    /\ inbox = [r \in Rows |-> 0]

Accept(r) ==
    /\ state[r] = "none"
    /\ state' = [state EXCEPT ![r] = "queued"]
    /\ UNCHANGED inbox

Deliver(r) ==
    /\ state[r] = "queued"
    /\ inbox' = [inbox EXCEPT ![r] = @ + 1]
    /\ UNCHANGED state

\* A transaction settles any number of messages together: each is confirmed,
\* which takes a delivered copy, or given up.
Settle(sent, dead) ==
    /\ sent \cap dead = {}
    /\ \A r \in sent \cup dead : state[r] = "queued"
    /\ \A r \in sent : inbox[r] > 0
    /\ state' = [r \in Rows |-> IF r \in sent THEN "sent"
                                ELSE IF r \in dead THEN "dead" ELSE state[r]]
    /\ UNCHANGED inbox

Withdraw(r) ==
    /\ state[r] # "none"
    /\ state' = [state EXCEPT ![r] = "gone"]
    /\ UNCHANGED inbox

Next ==
    \/ \E r \in Rows : Accept(r) \/ Deliver(r) \/ Withdraw(r)
    \/ \E sent, dead \in SUBSET Rows : Settle(sent, dead)

Spec == Init /\ [][Next]_vars
=============================================================================
