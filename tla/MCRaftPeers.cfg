\* docs/contracts/metric-prefix.md: the fallback of the Raft peer count.
CONSTANTS
    Targets <- MCTargets
    Focuses = {"raft"}
    Rounds = 3
SPECIFICATION Spec
INVARIANTS PeersOfStorageStats
VIEW RulesView
