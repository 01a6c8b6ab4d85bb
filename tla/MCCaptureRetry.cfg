\* One invocation at a time that fails, is killed and is run again.
CONSTANTS
    Proc = {p1}
    RaftNode = {n0, n1}
    Leader = n0
    MaxFailures = 2
    MaxCrashes = 2
SPECIFICATION FairRetry
INVARIANTS TypeOK FreshOnSuccess
PROPERTIES Terminates RecoversUnlessHeld
