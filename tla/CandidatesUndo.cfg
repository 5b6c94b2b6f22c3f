SPECIFICATION UninterruptedSpec
CONSTANTS
    Requests = {r1, r2}
    MaxFlow = 1
    Contents = {a, b}
    Proposals <- OtherContents
    RoleSpecs = {none, s1}
    NoRoles = none
    Blank = a
    Capacity = 1
    MaxTime = 3
    MaxId = 2
    None = None
PROPERTY UndoStaysUntilTheModelChanges
