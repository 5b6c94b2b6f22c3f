SPECIFICATION Spec
CONSTANTS
    Clients = {c1, c2}
    c1 = c1
    c2 = c2
    MaxProjectId = 3
    MaxFlowId = 4
SYMMETRY AnyClient
INVARIANTS
    TypeOK
    PositionsAreDense
    EveryProjectOpens
PROPERTIES
    LostAnswersWereDisturbed
    ImplementsTabStrips
