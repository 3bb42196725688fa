--------------------------- MODULE MCAlertTimings ---------------------------
\* Instances of AlertTimings for TLC; the times as in MCAlertPipeline.
EXTENDS AlertTimings, MCAlertSpecs

MCTimedSpecs == {AboveOne, Below}
MCTimedEdits == {PatchOf("paused", None), PatchOf("active", None)}

\* Of a behaviour that is not calm any more the properties say nothing.
MCCalm == calm
=============================================================================
