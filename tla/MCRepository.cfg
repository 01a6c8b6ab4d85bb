SPECIFICATION Spec
CONSTANTS
    ValidPrefixes = {"vault", "openbao"}
    Durations = {"5m", "1h"}
    Colors = {"green", "red", "gray"}
    NamedIn <- MCNamedIn
    AlertFiles = {"critical", "warning"}
    Contents <- MCContents
    Base = "base"
    FreshFixtures <- MCFresh
    LocalFixtures <- MCLocalFixtures
    Scans <- MCScans
    Ignored = {"old"}
    ByHand <- MCByHand
    MaxEdits = 1
    MaxMishaps = 1
    MaxPushes = 1
CHECK_DEADLOCK FALSE
INVARIANTS
    ProfilesSelfContained
    ArtifactsMatchContracts
    TornFilesRejected
    RerunForgetsHistory
    MergedIsCurrent
    RequiredMetricsShown
    VulnerabilitiesGate
