CONSTANTS
    Proc = {p1}
    RaftNode = {n0, n1}
    Leader = n0
    MaxFailures = 0
    MaxCrashes = 1
SPECIFICATION FairRetry
PROPERTIES Regenerates
