\* The process may crash between any two steps, while it boots too, and come
\* back with what the database and Docker kept.
SPECIFICATION Spec
CONSTANTS
    Session = {s1, s2}
    NoSession = NoSession
    Port = {1}
    First = 1
    Last = 1
    Time = {0, 1, 2, 3}
    Known = {}
    Handler = {h1}
    Ops = {"launchFile", "stop", "relaunch"}
    LaunchId = {1, 2, 3}
    TTL = 1
    MaxTime = 1
    Overlap = {}
    Crashes = TRUE
    DbFails = FALSE
SYMMETRY Symmetry
INVARIANTS
    UsedPortIsLive
PROPERTIES
    RecoveryAgrees
