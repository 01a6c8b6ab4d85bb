\* Two invocations for the same OpenBao version overlap; none is killed.
CONSTANTS
    Proc = {p1, p2}
    RaftNode = {n0, n1}
    Leader = n0
    MaxFailures = 1
    MaxCrashes = 0
SPECIFICATION Spec
INVARIANTS NoLeak HostClean
SYMMETRY Symmetry
VIEW HostView
