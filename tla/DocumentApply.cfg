SPECIFICATION SpecApply
CONSTANTS
    Flows = {f1, f2}
    Shapes <- MCShapes
    MaxBlockId = 2
    MaxRequest = 1
    MaxEdits = 2
    MayAdd = TRUE
VIEW WithoutStamps
SYMMETRY AnyFlow
CONSTRAINT BeforeFirstContest
INVARIANTS
    ApplyTypeOK
    RolesNameLiveBlocks
    UncontestedAppliesKeepTheRules
PROPERTIES
    AppliesStayInTheirFlowsheet
    UncontestedAppliesAreStamped
