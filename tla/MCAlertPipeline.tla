-------------------------- MODULE MCAlertPipeline --------------------------
\* Instances of AlertPipeline for TLC.  Every time is Epoch + something, with
\* Epoch so large that the buckets of different cooldowns never coincide, as
\* they never do for today's timestamps.
EXTENDS AlertPipeline, MCAlertSpecs
=============================================================================
