\* The pool: three sessions on a range of two ports, and one port outside the
\* range, which a database written under another configuration may name.
\* The verdict: runs started and uploaded, an override that writes back the copy
\* it read, storage that may fail at any call, a restart at any moment.
\* The calls: two at once, clients that go, a tag that moves, a restart at any
\* moment, Docker answering a wait with an error.
SPECIFICATION MutexSpec
SYMMETRY Symmetry
CONSTANTS
    Session = {s1, s2, s3}
    NoSession = NoSession
    Port = {1, 2, 3}
    First = 1
    Last = 2
    Time = {0, 1, 2}
    Run = {r1, r2}
    NoRun = NoRun
    Kinds = {"start", "upload"}
    Overrides = {FALSE}
    StorageFails = TRUE
    Restarts = TRUE
    Call = {c1, c2}
    Image = {i1, i2}
    NoImage = NoImage
    Mixes <- Together
    TTL = 1
    MaxClock = 1
    WaitErrors = TRUE
INVARIANTS
    UsedHeldDisjoint
    SettledIsFree
    ImageIdFresh
    DetachedLeaveNothing
    SidecarIsWhole
    ListedOnce
PROPERTIES
    UsedNeverTaken
    HeldTakenOnlyWhenFull
    ImplementsLease
    OlderStartsWriteNothing
