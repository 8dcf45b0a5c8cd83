--------------------------- MODULE MCAlertPipeline ---------------------------
(* Instances of AlertPipeline for TLC: a rule with a duration.  Rules meet   *)
(* in the resolved history only, where alerts of one rule meet as well.      *)
EXTENDS AlertPipeline, TLC

CONSTANT sustained

OneRule     == <<sustained>>
OneDuration == sustained :> 1

=============================================================================
