----------------------------- MODULE Calculations -----------------------------
(***************************************************************************)
(* The studio with what its requests compute.  A run, a plan, a sweep and  *)
(* control models are calculated from a snapshot in memory: once it is     *)
(* read, nothing a calculation does touches the store, and nothing done to *)
(* the store touches the calculation.  So the store is explored with the   *)
(* calculations idle (in Freshness a result is committed in one step), and *)
(* each calculation by itself from every snapshot and request given.       *)
(***************************************************************************)
EXTENDS Freshness, ControlModels, ExecutionPlan, ParameterSweep

CONSTANTS
    PlanGraphs,     \* diagrams to plan: [blocks, edges, steps]
    Diagrams,       \* blocks to wire in every way and compile
    CompileRequests,\* how they are compiled: [sinks, probes, step]
    ControlLoops,   \* flowsheets with control roles: [blocks, wires, roles, step]
    Sweeps          \* sweeps: [base, axes, omega, final]

ASSUME PlansAssumption == \A graph \in PlanGraphs : IsNet(graph)

IsListed(list) == Len(list) \in Nat /\ DOMAIN list = 1..Len(list)

\* A request lists its axes and the values of each.
IsSweepRequest(request) ==
    /\ request.base = [p \in DOMAIN request.base |-> request.base[p]]
    /\ IsListed(request.axes)
    /\ \A a \in DOMAIN request.axes : IsListed(request.axes[a].values)

ASSUME SweepsAssumption == \A request \in Sweeps : IsSweepRequest(request)

IsDiagram(blocks) == IsFiniteSet(DOMAIN blocks) /\ \A b \in DOMAIN blocks : IsContract(blocks[b])

ASSUME DiagramsAssumption == \A blocks \in Diagrams : IsDiagram(blocks)
ASSUME RequestsAssumption == \A request \in CompileRequests : request.step \in Nat

\* The wires of a flowsheet join its blocks, and its ids are rowids.
Channel == [block : Nat, port : Nat, channel : Nat]

IsControlLoop(request) ==
    /\ IsDiagram(request.blocks) /\ DOMAIN request.blocks \subseteq Nat
    /\ request.step \in Nat
    /\ \A w \in request.wires :
          /\ w.source \in DOMAIN request.blocks /\ w.target \in DOMAIN request.blocks
          /\ w.sourcePort \in Nat /\ w.targetPort \in Nat
    /\ \A list \in {"exogenous", "control", "performance", "measurement", "references",
                    "measurements", "commands"} : request.roles[list] \in Seq(Channel)

ASSUME LoopsAssumption == \A request \in ControlLoops : IsControlLoop(request)

calculationVars == <<planVars, compileVars, controlVars, sweepVars>>
studioVars == <<vars, calculationVars>>

\* Each input of the blocks is fed by one output or, for at most one of them, by none.
NoPort == [block |-> 0, port |-> 0]
Ports(blocks, counts) ==
    UNION {{[block |-> b, port |-> p] : p \in 0..(counts[b] - 1)} : b \in DOMAIN blocks}

OutputsOf(blocks) == Ports(blocks, [b \in DOMAIN blocks |-> blocks[b].outputs])
InputsOf(blocks)  == Ports(blocks, [b \in DOMAIN blocks |-> blocks[b].inputs])

Wiring(feeds) ==
    {[source |-> feeds[i].block, sourcePort |-> feeds[i].port,
      target |-> i.block, targetPort |-> i.port] : i \in {j \in DOMAIN feeds : feeds[j] # NoPort}}

IsNearlyWhole(feeds) == Cardinality({i \in DOMAIN feeds : feeds[i] = NoPort}) <= 1

PlansOnly    == \E graph \in PlanGraphs :
                    PlanInit(graph) /\ CompileInit(NoJob) /\ ControlInit(NoLoop) /\ SweepInit(NoSweep)
CompilesOnly == /\ PlanInit(Nobody) /\ ControlInit(NoLoop) /\ SweepInit(NoSweep)
                /\ \E blocks \in Diagrams, r \in CompileRequests :
                   \E feeds \in [InputsOf(blocks) -> OutputsOf(blocks) \cup {NoPort}] :
                       /\ IsNearlyWhole(feeds)
                       /\ CompileInit([blocks |-> blocks, wires |-> Wiring(feeds),
                                       sinks |-> r.sinks, probes |-> r.probes, step |-> r.step])
ControlsOnly == \E flowsheet \in ControlLoops :
                    PlanInit(Nobody) /\ CompileInit(NoJob) /\ ControlInit(flowsheet) /\ SweepInit(NoSweep)
SweepsOnly   == \E request \in Sweeps :
                    PlanInit(Nobody) /\ CompileInit(NoJob) /\ ControlInit(NoLoop) /\ SweepInit(request)
StoresOnly   == PlanInit(Nobody) /\ CompileInit(NoJob) /\ ControlInit(NoLoop) /\ SweepInit(NoSweep)

StudioInit == Init /\ (StoresOnly \/ PlansOnly \/ CompilesOnly \/ ControlsOnly \/ SweepsOnly)

AreIdle == planning = "idle" /\ pass = "idle" /\ building = "idle" /\ sweeping = "idle"

Stored(A)   == AreIdle /\ A /\ UNCHANGED calculationVars
Plans(A)    == A /\ UNCHANGED <<vars, compileVars, controlVars, sweepVars>>
Converts(A) == A /\ UNCHANGED <<vars, planVars, controlVars, sweepVars>>
Builds(A)   == A /\ UNCHANGED <<vars, planVars, sweepVars>>
Analyses(A) == A /\ UNCHANGED <<vars, planVars, compileVars, controlVars>>

StudioNext ==
    \/ \E parts \in {{"blocks"}, {"wires"}, {"blocks", "wires"}} : Stored(Edit(parts))
    \/ Stored(DeleteFlow) \/ Stored(CreateFlow)
    \/ \E j \in Jobs :
         \/ \E kind \in {"simulation", "analysis"} : Stored(ReadRevision(j, kind))
         \/ Stored(ReadBlocks(j)) \/ Stored(ReadWires(j))
         \/ Stored(StampRun(j)) \/ Stored(CommitRun(j)) \/ Stored(CommitAnalysis(j))
         \/ Stored(EndJob(j))
    \/ Plans(VisitRoot) \/ Plans(VisitNext) \/ Plans(PassVisited) \/ Plans(EndVisit)
    \/ Plans(Condense) \/ Plans(TakeReady) \/ Plans(FinishPlan)
    \/ Converts(CollectBlocks) \/ Converts(ResolveSignalWidths) \/ Converts(CheckWires)
    \/ Converts(ResolveSampleTimes) \/ Converts(CheckInputs) \/ Converts(RealizeBlocks)
    \/ Converts(ApplyTimeDomains) \/ Converts(SelectOutputs) \/ Converts(AttachExactDelays)
    \/ Converts(ConnectByName) \/ Converts(Simulate)
    \/ Builds(ResolveRoles) \/ Builds(BuildController) \/ Builds(CloseLoop)
    \/ Builds(StopBuilding) \/ Builds(AssemblePoints)
    \/ Analyses(ValidateDefinition) \/ Analyses(SetParameter) \/ Analyses(CompileVariant)
    \/ Analyses(CheckFamily) \/ Analyses(BoundAnalysis)
    \/ Analyses(SummarizeFrequency) \/ Analyses(SummarizeTime)

StudioSpec == StudioInit /\ [][StudioNext]_studioVars
=============================================================================
