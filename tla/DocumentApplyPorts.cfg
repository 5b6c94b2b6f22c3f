SPECIFICATION SpecApply
CONSTANTS
    Flows = {f1, f2}
    Shapes <- MCShapes
    MaxBlockId = 2
    MaxRequest = 1
    MaxEdits = 2
    MayAdd = FALSE
VIEW WithoutStamps
SYMMETRY AnyFlow
INVARIANT WiresOnDeclaredInputPorts
