\* Runs follow one another, with one call repeated at most once.
CONSTANTS
    MaxRetries = 1
    MaxFaults = 2
SPECIFICATION FairSpec
INVARIANTS TypeOK SucceedsUndisturbed LearnedLeasesRevoked ReportTellsOutcome
PROPERTIES LeasesDrain Terminates
