------------------------------ MODULE MCAccounts ------------------------------
\* A small instance of Accounts for TLC: every limit is one call per window.
\* Requests are interchangeable.
EXTENDS Accounts, TLC

MCLimit == [op \in Counted |-> 1]
MCSymmetry == Permutations(Requests)
=============================================================================
