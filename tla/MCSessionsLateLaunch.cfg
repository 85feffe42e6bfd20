\* A launch that outlives its deadline.
SPECIFICATION Spec
CONSTANTS
    Session = {s1, s2}
    NoSession = NoSession
    Port = {1}
    First = 1
    Last = 1
    Time = {0, 1, 2, 3}
    Known = {}
    Handler = {h1}
    Ops = {"launchFile"}
    LaunchId = {1, 2}
    TTL = 1
    MaxTime = 0
    Overlap = {"sweeper"}
    Crashes = FALSE
    DbFails = FALSE
SYMMETRY Symmetry
INVARIANTS
    RunningPortsDistinct
