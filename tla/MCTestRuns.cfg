\* Two runs of any kind over one slot; files of one or two bytes, a cap of two.
\* No symmetry: a liveness property is checked.
SPECIFICATION FairSpec
CONSTANTS
    FileId = {f1, f2}
    FileSize = {1, 2}
    MaxBytes = 2
    PerRun = 1
    FileTTL = 1
    Run = {r1, r2}
    Slots = 1
    JobTTL = 0
    MaxClock = 1
INVARIANTS
    RoomAccounted
    FilesReadOnce
    PendingJobHasRun
PROPERTIES
    EveryTestEnds
