SPECIFICATION Spec
CONSTANTS
    Session = {s1, s2}
    NoSession = NoSession
    Port = {1}
    First = 1
    Last = 1
    Time = {0}
    Legacy = {s1}
    Request = {q1}
    Cid = {c1, c2}
    Envs <- AllApart
    Ends = {"error", "eof"}
    MaxEvents = 2
    Crashes = TRUE
    NoCid = NoCid
    NoPort = NoPort
INVARIANTS
    RowOwnsPort
    NoPortKept
    RunningIsKnown
    StatusTellsLife
PROPERTIES
    RemoveFreesItsOwn
