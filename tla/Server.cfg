SPECIFICATION Spec
CONSTANTS
    MaxCrashes = 1
    c1 = c1
    c2 = c2
    Clients = {c1, c2}
    Seeded = Seeded
    LegacyStores <- MCLegacyStores
    Script <- MCScript
INVARIANTS
    ExitCodesAreTrue
    OpenedStoresAreWellFormed
PROPERTIES
    LoneCommandsChangeOnlyWhatTheyName
    OpeningIsResumable
    EveryCommandEnds
    OpeningsEnd
CHECK_DEADLOCK FALSE
