SPECIFICATION CandidatesSpec
CONSTANTS
    Requests = {r1, r2}
    MaxFlow = 2
    Contents = {a, b}
    RoleSpecs = {none, s1}
    Proposals <- OtherContents
    NoRoles = none
    Blank = a
    Capacity = 1
    MaxTime = 3
    MaxId = 2
    None = None
INVARIANTS
    CandidatesTypeOK
    RegistryIsConsistent
    MarksHaveAnOwner
    OfferedUndosAreExact
PROPERTIES
    AppliesHitTheDesignedModel
    
    ImplementsControllerHistory
    MarksAreCleared
