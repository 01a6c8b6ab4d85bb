---------------------------- MODULE MCArchiveHealth ----------------------------
\* Deployments of the exporter for model checking.
EXTENDS ArchiveHealth

\* Flags and status file agree, as the example is configured.
MCAgree == {[flag |-> TRUE, fileEnabled |-> "unset", flagLabels |-> "siem",
             fileLabels |-> "siem", expected |-> "siem"]}

\* The status file carries labels of its own.
MCLayouts == MCAgree \cup
    {[flag |-> TRUE, fileEnabled |-> "true", flagLabels |-> "siem",
      fileLabels |-> "worm", expected |-> "worm"]}
=============================================================================
