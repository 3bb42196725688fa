------------------------- MODULE OneTimeTokenProofs -------------------------
(***************************************************************************)
(* What the discipline of OneTimeToken buys: a token that was never in two   *)
(* hands at once is used at most once, however often it is read, dropped,   *)
(* expired or revoked, and whatever its uses issue.                         *)
(***************************************************************************)
EXTENDS OneTimeToken, TLAPS

\* What keeps UsedOnce: a token that may still be read has not been used, and one
\* that nobody shared is in one hand at most, which is empty after its use.
Untouched(t) ==
    /\ state[t] = "unissued" => holders[t] = {}
    /\ state[t] # "closed" => uses[t] = 0
Unshared(t) ==
    /\ \A r, q \in holders[t] : r = q
    /\ uses[t] <= 1 /\ (uses[t] = 1 => holders[t] = {})
IInv == TypeOK /\ \A t \in Tokens : Untouched(t) /\ (~ shared[t] => Unshared(t))

LEMMA InitIInv == Init => IInv
  BY DEF Init, IInv, TypeOK, Untouched, Unshared, States

\* A new reader is the only one, or the token is shared from now on.
LEMMA ReadKeeps ==
  ASSUME IInv, NEW r \in Readers, NEW t \in Tokens, Read(r, t)
  PROVE  IInv'
  <1>1. TypeOK'
    BY DEF IInv, TypeOK, Read
  <1>2. ASSUME NEW i \in Tokens
        PROVE  Untouched(i)' /\ (~ shared[i] => Unshared(i))'
    <2>1. CASE i # t
      BY <2>1 DEF IInv, TypeOK, Read, Untouched, Unshared
    <2>2. CASE i = t
      <3>1. /\ holders'[t] = holders[t] \cup {r} /\ uses'[t] = uses[t] /\ uses[t] = 0
            /\ state'[t] = "open" /\ (~ shared'[t] => holders[t] = {})
        BY DEF IInv, TypeOK, Read, Untouched
      <3> QED BY <2>2, <3>1 DEF Untouched, Unshared
    <2> QED BY <2>1, <2>2
  <1> QED BY <1>1, <1>2 DEF IInv

LEMMA DropKeeps ==
  ASSUME IInv, NEW r \in Readers, NEW t \in Tokens, Drop(r, t)
  PROVE  IInv'
  <1>1. TypeOK'
    BY DEF IInv, TypeOK, Drop
  <1>2. \A i \in Tokens : holders'[i] \subseteq holders[i]
    BY DEF IInv, TypeOK, Drop
  <1> QED BY <1>1, <1>2 DEF IInv, TypeOK, Drop, Untouched, Unshared

\* The hand that uses an unshared token was the only one.
LEMMA UseKeeps ==
  ASSUME IInv, NEW r \in Readers, NEW t \in Tokens, Use(r, t)
  PROVE  IInv'
  <1>1. TypeOK'
    BY DEF IInv, TypeOK, Use
  <1>2. ASSUME NEW i \in Tokens
        PROVE  Untouched(i)' /\ (~ shared[i] => Unshared(i))'
    <2>1. CASE i # t
      <3>1. /\ holders'[i] = holders[i] /\ uses'[i] = uses[i] /\ shared'[i] = shared[i]
            /\ state'[i] # state[i] => state[i] = "unissued" /\ state'[i] = "open"
        BY <2>1 DEF IInv, TypeOK, Use
      <3> QED BY <3>1 DEF IInv, Untouched, Unshared
    <2>2. CASE i = t
      <3>1. /\ holders'[t] = holders[t] \ {r} /\ r \in holders[t] /\ uses'[t] = uses[t] + 1
            /\ state'[t] = "closed" /\ shared'[t] = shared[t] /\ uses[t] \in Nat
        BY DEF IInv, TypeOK, Use
      <3>2. ~ shared[t] => uses[t] = 0 /\ holders'[t] = {}
        BY <3>1 DEF IInv, Unshared
      <3> QED BY <2>2, <3>1, <3>2 DEF Untouched, Unshared
    <2> QED BY <2>1, <2>2
  <1> QED BY <1>1, <1>2 DEF IInv

LEMMA AgeKeeps ==
  ASSUME IInv, Age
  PROVE  IInv'
  <1>1. TypeOK'
    BY DEF IInv, TypeOK, Age
  <1>2. \A i \in Tokens : state'[i] # "closed" => state[i] # "closed"
    BY DEF Age
  <1>3. \A i \in Tokens : state'[i] = "unissued" => state[i] = "unissued"
    BY DEF Age
  <1> QED BY <1>1, <1>2, <1>3 DEF IInv, Age, Untouched, Unshared

LEMMA StepKeeps == IInv /\ [Next]_vars => IInv'
  <1> SUFFICES ASSUME IInv, [Next]_vars PROVE IInv'
    OBVIOUS
  <1>1. CASE Age
    BY <1>1, AgeKeeps
  <1>2. ASSUME NEW r \in Readers, NEW t \in Tokens, Read(r, t) \/ Drop(r, t) \/ Use(r, t)
        PROVE  IInv'
    BY <1>2, ReadKeeps, DropKeeps, UseKeeps
  <1>3. CASE UNCHANGED vars
    BY <1>3 DEF IInv, TypeOK, Untouched, Unshared, vars
  <1> QED BY <1>1, <1>2, <1>3 DEF Next

\* The invariant of every system of such tokens: what its hands, uses and states are
\* to each other.
THEOREM TokenInvariant == Spec => []IInv
  <1> QED BY InitIInv, StepKeeps, PTL DEF Spec

\* A token that was not read by two at once is used once at most: what "single use"
\* of mailed links, refresh tokens and telegram links comes to, given that each of
\* them behaves like a token of this module.
THEOREM TokensAreUsedOnce == Spec => []UsedOnce
  <1>1. IInv => UsedOnce
    BY DEF IInv, TypeOK, UsedOnce, Unshared
  <1> QED BY <1>1, TokenInvariant, PTL
=============================================================================
