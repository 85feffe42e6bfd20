SPECIFICATION FairSpec
CONSTANTS
    Session = {s1}
    Request = {q1}
    Gen = {g1, g2}
    Envs <- FromNoneToAll
    Crashes = TRUE
    NoSession = NoSession
    NoGen = NoGen
INVARIANTS
    GeneratedHasOutput
    ArchivedUnlessRestarted
    NothingLeftAtRest
PROPERTIES
    SweeperSparesLive
    EveryGenerationEnds
