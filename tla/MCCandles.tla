------------------------------ MODULE MCCandles ------------------------------
\* A small instance of Candles for TLC: two or three buckets of two ticks.
EXTENDS Candles, TLC

MCHistories == {[open |-> 1, close |-> 2, high |-> 2, low |-> 1, partial |-> FALSE]}
MCSymmetry == Permutations(Jobs)
=============================================================================
