------------------------------ MODULE MCMarket ------------------------------
\* A small instance of Market for TLC.  What is not told apart by an order is
\* interchangeable.
EXTENDS Market, TLC

MCNewRow == [quantity |-> 1, avg_buy_price |-> 1]
MCPatches == {[quantity |-> 2, avg_buy_price |-> None], [quantity |-> None, avg_buy_price |-> 2]}

MCSymmetry ==
    Permutations(Jobs) \cup Permutations(Requests) \cup Permutations(Coins)
        \cup Permutations(Holdings)
=============================================================================
