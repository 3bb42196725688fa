------------------------------ MODULE MCBrowser ------------------------------
\* A small instance of Browser for TLC.  Calls are interchangeable, tabs too.
EXTENDS Browser, TLC

MCLimit == [op \in Counted |-> 1]
MCSymmetry == Permutations(Requests) \cup Permutations(Tabs)
=============================================================================
