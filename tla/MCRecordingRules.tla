------------------------- MODULE MCRecordingRules -------------------------
EXTENDS RecordingRules

\* Two nodes of one cluster, and a node of the same name in another.
MCTargets == {[cluster |-> "alpha", instance |-> "n0"], [cluster |-> "alpha", instance |-> "n1"],
              [cluster |-> "beta", instance |-> "n0"]}
=============================================================================
