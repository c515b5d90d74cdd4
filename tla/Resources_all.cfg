SPECIFICATION Spec
CONSTANTS
    Ids <- TwoIds
    Services = {"api"}
    Engines = {"postgresql", "sqlite"}
    EnvKeys <- SomeKeys
    Prefixes = {"", "P_"}
    Calls <- ThreeCalls
    Load <- SomeThree
    MaxRunning = 2
    MaxFaults = 1
    User = User
    None = None
CHECK_DEADLOCK FALSE
INVARIANTS
    DeletedIsGone
    ReferencesResolve
    ConnectionIsWhole
PROPERTIES
    UserVariablesSurvive
    ReadyIsKept
