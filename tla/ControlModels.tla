---------------------------- MODULE ControlModels ----------------------------
(***************************************************************************)
(* The control models of a flowsheet (internal/studio/control_models.go,   *)
(* BuildControlModels): the blocks a role specification names as the plant *)
(* and as the controller are compiled one after the other, each as a       *)
(* diagram of its own whose boundary ports are fed by synthetic sources,   *)
(* and are closed into one loop.                                           *)
(*                                                                         *)
(* A channel is [block, port, channel]; that names are unique is left out. *)
(***************************************************************************)
EXTENDS Compilation, Integers

VARIABLES
    loop,        \* the flowsheet: [blocks, wires, roles, step]
    building,    \* "idle", "roles", "plant", "controller", "assemble", "built", "refused"
    plant,       \* the plant model: [system, negated]
    controller

controlVars == <<loop, building, plant, controller>>

NoLoop  == [blocks |-> << >>, wires |-> {}, roles |-> << >>, step |-> 0]
NoModel == [system |-> Neutral, negated |-> FALSE]

ControlInit(request) ==
    /\ loop = request
    /\ building = IF request = NoLoop THEN "idle" ELSE "roles"
    /\ plant = NoModel /\ controller = NoModel

Roles == loop.roles
Members == [plant |-> Roles.plant, controller |-> Roles.controller]
Boundary == [plant |-> Roles.exogenous \o Roles.control,
             controller |-> Roles.references \o Roles.measurements]
Watched  == [plant |-> Roles.performance \o Roles.measurement, controller |-> Roles.commands]

Refs(list) == {list[i] : i \in DOMAIN list}
AreDistinct(list) == \A i, j \in DOMAIN list : list[i] = list[j] => i = j

(***************************************************************************)
(* resolveControlRoleSpec, on the snapshot read after the specification    *)
(***************************************************************************)
\* validateSubsystemBlocks.
AreBlocks(members) ==
    /\ members # {} /\ members \subseteq DOMAIN loop.blocks
    /\ \A b \in members : loop.blocks[b].role = "dynamic"

LoopWidths == ResolvedWidths(loop.blocks, loop.wires)
InputWidth(b)  == InWidth(loop.blocks, LoopWidths, b)
OutputWidth(b) == LoopWidths[b]

\* resolveNamedChannel.
IsInput(ref)  == /\ HasInputPort(loop.blocks[ref.block], ref.port)
                 /\ ref.channel < InputWidth(ref.block)
IsOutput(ref) == /\ HasOutputPort(loop.blocks[ref.block], ref.port)
                 /\ ref.channel < OutputWidth(ref.block)

ChannelsResolve(part) ==
    /\ AreDistinct(Boundary[part])
    /\ AreDistinct(Watched[part])
    /\ \A ref \in Refs(Boundary[part]) : ref.block \in Members[part] /\ IsInput(ref)
    /\ \A ref \in Refs(Watched[part]) : ref.block \in Members[part] /\ IsOutput(ref)

\* validateBoundaryPorts: of a port on the boundary every channel is on it.
ExposesPorts(part) ==
    \A ref \in Refs(Boundary[part]) : \A c \in 0..(InputWidth(ref.block) - 1) :
        [ref EXCEPT !.channel = c] \in Refs(Boundary[part])

Regulated == IF Roles.performance # << >> THEN Roles.performance ELSE Roles.measurement

\* validateControlAnalysisPoints: the loop is drawn where it is to be broken.
PairsAt(location) ==
    IF location = "plant_input" THEN [from |-> Roles.commands, to |-> Roles.control]
    ELSE [from |-> Roles.measurement, to |-> Roles.measurements]

IsDrawn(location) ==
    \A i \in DOMAIN PairsAt(location).from :
        LET from == PairsAt(location).from[i]
            to   == PairsAt(location).to[i]
        IN  /\ from.channel = to.channel
            /\ \E w \in loop.wires : /\ <<w.source, w.sourcePort>> = <<from.block, from.port>>
                                     /\ <<w.target, w.targetPort>> = <<to.block, to.port>>

RolesAreSound ==
    /\ AreBlocks(Roles.plant) /\ AreBlocks(Roles.controller)
    /\ Roles.plant \cap Roles.controller = {}
    /\ \A part \in {"plant", "controller"} : ChannelsResolve(part)
    /\ Roles.control # << >> /\ Roles.measurement # << >>
    /\ Len(Roles.control) = Len(Roles.commands)
    /\ Len(Roles.measurement) = Len(Roles.measurements)
    /\ Roles.references # << >> => Len(Roles.references) = Len(Regulated)
    /\ \A part \in {"plant", "controller"} : ExposesPorts(part)
    /\ Roles.points # << >> /\ \A i \in DOMAIN Roles.points : IsDrawn(Roles.points[i])

(***************************************************************************)
(* compileControlSubsystem                                                 *)
(***************************************************************************)
\* A synthetic source for each port of the boundary, as wide as the port.
Fed(part) == {[block |-> ref.block, port |-> ref.port] : ref \in Refs(Boundary[part])}
\* Synthetic ids are negative, as no block's is, and follow the list of channels. The code
\* counts them up from -1,000,000,000.
SourceOf(part, feed) ==
    -(CHOOSE i \in DOMAIN Boundary[part] :
        Boundary[part][i].block = feed.block /\ Boundary[part][i].port = feed.port)

Subsystem(part, step) ==
    LET members == Members[part]
        FedBy(b) == CHOOSE f \in Fed(part) : SourceOf(part, f) = b
    IN  [blocks |-> [b \in members \cup {SourceOf(part, f) : f \in Fed(part)} |->
                        IF b \in members THEN loop.blocks[b]
                        ELSE VectorConstant(InputWidth(FedBy(b).block))],
         wires  |-> {w \in loop.wires : {w.source, w.target} \subseteq members}
                        \cup {[source |-> SourceOf(part, f), sourcePort |-> 0,
                               target |-> f.block, targetPort |-> f.port] : f \in Fed(part)},
         sinks  |-> FALSE,
         probes |-> {[block |-> ref.block, port |-> ref.port] : ref \in Refs(Watched[part])},
         step   |-> step]

Compiles(part, step) ==
    /\ building' = part
    /\ asked' = Subsystem(part, step) /\ pass' = "collect" /\ found' = NothingFound

GivesUp == building' = "refused" /\ UNCHANGED <<loop, plant, controller, compileVars>>

ResolveRoles ==
    /\ building = "roles"
    /\ IF RolesAreSound
       THEN Compiles("plant", loop.step) /\ UNCHANGED <<loop, plant, controller>>
       ELSE GivesUp

TimesIn(members) == {loop.blocks[b].time : b \in members}
UsesInherited(members) == Discrete(Inherited) \in TimesIn(members)

\* Faulty variant: one block without a rate of its own is enough.
UsesOnlyNeutral_Some(members) == Neutral \in TimesIn(members)

UsesOnlyNeutral(members) == TimesIn(members) = {Neutral}

\* The plant is compiled; a controller that inherits its rate takes that of the plant.
BuildController ==
    /\ building = "plant" /\ pass = "compiled"
    /\ plant' = [NoModel EXCEPT !.system = found.system]
    /\ Compiles("controller",
                IF loop.step = 0 /\ found.system.kind = "discrete" /\ UsesInherited(Roles.controller)
                THEN found.system.rate ELSE loop.step)
    /\ UNCHANGED <<loop, controller>>

\* The controller is compiled: one without a rate takes that of the plant, one that holds
\* the sign of the feedback is negated, and both must be of one time domain and rate.
CloseLoop ==
    /\ building = "controller" /\ pass = "compiled"
    /\ LET neutral == plant.system.kind = "discrete" /\ UsesOnlyNeutral(Roles.controller)
           model   == [system  |-> IF neutral THEN plant.system ELSE found.system,
                       negated |-> Roles.references # << >> \/ Roles.signed]
       IN  /\ controller' = model
           /\ building' = IF model.system = plant.system THEN "assemble" ELSE "refused"
    /\ UNCHANGED <<loop, plant, compileVars>>

StopBuilding ==
    /\ building \in {"plant", "controller"} /\ pass = "refused"
    /\ GivesUp

\* The library closes the loop and breaks it at each point, unless it is singular.
AssemblePoints ==
    /\ building = "assemble"
    /\ building' \in {"built", "refused"}
    /\ UNCHANGED <<loop, plant, controller, compileVars>>

ControlStep ==
    \/ ResolveRoles \/ BuildController \/ CloseLoop \/ StopBuilding \/ AssemblePoints

(***************************************************************************)
(* Properties                                                              *)
(***************************************************************************)
\* The models of a loop are of the flowsheet: plant and controller run on one clock, on
\* which every block of theirs with a clock of its own already runs, and which is the step
\* asked for if one is; and cutting them out of the flowsheet leaves no input of a block
\* open, feeds none twice and takes no channel of a wire away.
ControlModelsAreOfTheFlowsheet ==
    building = "built" =>
        /\ plant.system = controller.system
        /\ \A b \in Roles.plant \cup Roles.controller :
              LET time == loop.blocks[b].time
              IN  time.kind # "neutral" =>
                    /\ time.kind = plant.system.kind
                    /\ time.rate \in {Inherited, plant.system.rate}
                    /\ time.kind = "discrete" => loop.step \in {0, plant.system.rate}
        /\ \A part \in {"plant", "controller"} : \A b \in Members[part] :
              \A p \in 0..(loop.blocks[b].inputs - 1) :
                LET inside  == {w \in loop.wires : /\ w.target = b /\ w.targetPort = p
                                                   /\ w.source \in Members[part]}
                    exposed == {ref \in Refs(Boundary[part]) : ref.block = b /\ ref.port = p}
                IN  \/ Cardinality(inside) = 1 /\ exposed = {}
                    \/ inside = {} /\ {ref.channel : ref \in exposed} = 0..(InputWidth(b) - 1)
=============================================================================
