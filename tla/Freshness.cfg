SPECIFICATION StudioSpec
CONSTANTS
    Jobs = {j1, j2}
    MaxTime = 4
    MaxRuns = 2
    Radix = 10
    PlanGraphs <- AllPlanGraphs
    Diagrams <- SmallDiagrams
    CompileRequests <- SmallRequests
    ControlLoops <- SmallLoops
    Sweeps <- SmallSweeps
    MaxResultChannels = 2
    MaxSweepAxes = 2
    MaxSweepModels = 4
    MaxSweepStates = 2
    MaxSweepFrequencies = 3
    MaxSweepSamples = 3
SYMMETRY AnyJob
INVARIANTS
    TypeOK
    CurrentAnalysisIsOfTheModel
    UndisturbedRunsAreExact
    PlansAreSchedules
    CompiledModelsAreTheDiagram
    ControlModelsAreOfTheFlowsheet
    SweepsCoverTheirGrid
PROPERTY EditsStaleStoredRuns
CHECK_DEADLOCK FALSE
