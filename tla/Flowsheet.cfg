SPECIFICATION Spec
CONSTANTS
    Flows = {f1, f2}
    Shapes <- MCShapes
    MaxBlockId = 3
    MaxRequest = 2
VIEW WithoutStamps
SYMMETRY AnyFlow
INVARIANTS
    TypeOK
    WiresJoinOwnBlocks
    WiresOnDeclaredInputPorts
    OneWirePerInputPort
    EveryFlowsheetLoads
    RolesNameLiveBlocks
PROPERTIES
    ModelEditsAreStamped
    NewBlocksAreBare
