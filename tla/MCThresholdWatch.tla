-------------------------- MODULE MCThresholdWatch --------------------------
\* A small instance of ThresholdWatch for TLC.
EXTENDS ThresholdWatch

MCKinds == Kinds
=============================================================================
