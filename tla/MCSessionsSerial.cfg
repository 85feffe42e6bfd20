\* Every operation, two requests at once on two sessions that compete for one
\* port.  Work on one session never overlaps; work on the other one always may.
SPECIFICATION Spec
CONSTANTS
    Session = {s1, s2}
    NoSession = NoSession
    Port = {1}
    First = 1
    Last = 1
    Time = {0, 1, 2, 3}
    Known = {}
    Handler = {h1, h2}
    Ops = {"launchFile", "launch", "stop", "delete", "restart", "relaunch", "configure"}
    LaunchId = {1, 2, 3}
    TTL = 1
    MaxTime = 1
    Overlap = {}
    Crashes = FALSE
    DbFails = TRUE
SYMMETRY Symmetry
INVARIANTS
    TypeOK
    RunningOwnsPort
    UsedPortUnbound
    HoldMatchesRow
