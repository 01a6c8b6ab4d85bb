\* Two nodes of a cluster and one of another, each family of metrics by itself.
CONSTANTS
    Targets <- MCTargets
    Focuses = {"seal", "backlog", "latency", "cache", "mounts", "raft"}
    Rounds = 3
SPECIFICATION Spec
INVARIANTS SealStateOfTheNode CountOfThisRound BacklogOfLeaders LatencyOfTheNode MountsCountedOnce RecordsInRange
VIEW RulesView
