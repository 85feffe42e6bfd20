\* The stream of Docker events ends, with an error or in order.
SPECIFICATION FairSpec
CONSTANTS
    Session = {s1, s2}
    NoSession = NoSession
    Port = {1}
    First = 1
    Last = 1
    Time = {0}
    Legacy = {s1}
    Request = {q1}
    Cid = {c1, c2}
    Envs <- OnlyLost
    Ends = {"error", "eof"}
    MaxEvents = 2
    Crashes = FALSE
    NoCid = NoCid
    NoPort = NoPort
PROPERTY
    AlwaysWatching
