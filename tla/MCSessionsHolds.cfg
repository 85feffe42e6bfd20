\* Every operation, two requests at once, two ports and two deadlines: a session
\* may come back on another port than it had, and be reserved it till later.
SPECIFICATION Spec
CONSTANTS
    Session = {s1, s2}
    NoSession = NoSession
    Port = {1, 2}
    First = 1
    Last = 2
    Time = {0, 1, 2, 3}
    Known = {s1, s2}
    Handler = {h1, h2}
    Ops = {"launchFile", "launch", "stop", "delete", "restart", "relaunch", "configure"}
    LaunchId = {1, 2}
    TTL = 1
    MaxTime = 1
    Overlap = {}
    Crashes = FALSE
    DbFails = FALSE
SYMMETRY Symmetry
INVARIANTS
    HoldMatchesRow
