\* Under the fairness of FairSpec, with crashes, hung launches and sweeps that
\* overlap requests and launches.  No symmetry: two of the properties are
\* temporal.
SPECIFICATION FairSpec
CONSTANTS
    Session = {s1, s2}
    NoSession = NoSession
    Port = {1}
    First = 1
    Last = 1
    Time = {0, 1, 2, 3}
    Known = {s1, s2}
    Handler = {h1}
    Ops = {"relaunch"}
    LaunchId = {1, 2}
    TTL = 1
    MaxTime = 0
    Overlap = {"sweeper"}
    Crashes = TRUE
    DbFails = FALSE
PROPERTIES
    OthersPortsUntouched
    EveryLaunchEnds
    DeadServersNoticed
