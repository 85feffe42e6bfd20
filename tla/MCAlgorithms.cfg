\* The pure algorithms, one in an execution.  They end: deadlock is not checked.
SPECIFICATION Spec
CHECK_DEADLOCK FALSE
SYMMETRY Symmetry
CONSTANTS
    Slot = {s1, s2, s3, s4}
    Player <- Players
    Game <- Games
    Alphanumeric <- Letters
    DefaultPlayer <- Nobody
    SlotMaxLen = 4
    Base = 2
    Layouts <- AllLayouts
    None = None
    Entry <- Outputs
    Import <- Imports
    MaxEntries = 3
    Configurer = {c1, c2}
    Configuration <- Rooms
INVARIANTS
    UniqueNames
    ShortNames
    OptionsAreTheSections
    DefaultCanBeRolled
    RestoredAsGenerated
    ConfiguredIsGiven
