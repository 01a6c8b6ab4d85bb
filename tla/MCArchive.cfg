\* Exporters whose flags and status file agree on the labels, and differ.
CONSTANTS
    Deployments <- MCLayouts
    Window = 4
    For = 2
    Stale = 3
    MaxCount = 1
SPECIFICATION FairSpec
INVARIANTS TypeOK UnhealthyIsReported FailureIsReported
PROPERTIES RecoveryIsReported OutageIsReported
