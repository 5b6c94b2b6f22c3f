SPECIFICATION Spec
CONSTANTS
    Flows = {f1, f2}
    Shapes <- MCShapes
    MaxBlockId = 3
    MaxRequest = 2
VIEW WithoutStamps
INVARIANT WiresOnDeclaredPorts
