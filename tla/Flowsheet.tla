------------------------------ MODULE Flowsheet ------------------------------
(***************************************************************************)
(* The block diagrams of an open store, and the transactions that edit     *)
(* them: internal/studio/studio.go with the role operations of             *)
(* control_models.go.  The store keeps one pooled connection, so each      *)
(* inTx(...) of the code commits alone and is one action here.             *)
(*                                                                         *)
(* A block row keeps its flow and its shape (SignalWidths); names,         *)
(* coordinates and parameter values that change no port are left out.      *)
(* A wire row is identified by its columns, as the UNIQUE constraint of    *)
(* connectionColumns does.  A control role specification is the set of     *)
(* blocks it names for the plant and for the controller.                   *)
(*                                                                         *)
(* Rows ids are SQLite rowids: one more than the largest in the table, so  *)
(* the id of a deleted block can be given to the next one.                 *)
(***************************************************************************)
EXTENDS SignalWidths, Sequences

CONSTANTS
    Flows,       \* flowsheets, all of which stay open (see Workspace for the rest)
    Shapes,      \* the shapes a block may have, over all kinds
    MaxBlockId,  \* bound: no block row gets a larger id
    MaxRequest   \* bound: blocks named by one multi-block request

ASSUME BoundsAssumption == MaxBlockId \in Nat /\ MaxRequest \in Nat

ShapeType == [kind: STRING, inputs: Nat, outputs: Nat, in: Nat, out: Nat,
              inherits: BOOLEAN, initial: Nat]

ASSUME ShapesAssumption == Shapes \subseteq ShapeType

BlockIds == 1..MaxBlockId
WireType == [flow: Flows, source: BlockIds, sourcePort: Nat,
             target: BlockIds, targetPort: Nat]
RoleType == [plant: SUBSET BlockIds, controller: SUBSET BlockIds]
NoRoles  == [plant |-> {}, controller |-> {}]

VARIABLES
    blocks,      \* the blocks table: id |-> [flow, shape]
    wires,       \* the connections table
    roles,       \* control_model_specs: flow |-> role specification or NoRoles
    modelStamp,  \* flows.model_updated_at, counting its moves
    stamp        \* flows.updated_at, counting its moves

vars == <<blocks, wires, roles, modelStamp, stamp>>

\* loadModelGraph: the blocks of one flowsheet among `rows`, and its wires.
GraphOf(f, rows) ==
    [b \in {c \in DOMAIN rows : rows[c].flow = f} |-> rows[b].shape]
WiresOf(f, rows) == {w \in rows : w.flow = f}

FlowBlocks(f) == {b \in DOMAIN blocks : blocks[b].flow = f}
Graph(f)      == GraphOf(f, blocks)
FlowWires(f)  == WiresOf(f, wires)

RoleBlocks(spec) == spec.plant \cup spec.controller

Init ==
    /\ blocks = << >>
    /\ wires = {}
    /\ roles = [f \in Flows |-> NoRoles]
    /\ modelStamp = [f \in Flows |-> 0]
    /\ stamp = [f \in Flows |-> 0]

(***************************************************************************)
(* What the transactions share                                             *)
(***************************************************************************)
TouchModel(f) ==
    /\ modelStamp' = [modelStamp EXCEPT ![f] = @ + 1]
    /\ stamp' = [stamp EXCEPT ![f] = @ + 1]

TouchLayout(f) ==
    /\ stamp' = [stamp EXCEPT ![f] = @ + 1]
    /\ UNCHANGED modelStamp

\* The largest rowid in the blocks table, 0 when it is empty.
IsTopRowid(top) ==
    /\ \A b \in DOMAIN blocks : b <= top
    /\ top = 0 \/ top \in DOMAIN blocks

\* Faulty variant: only the source end cascades.
CascadedWiresSourceOnly(gone) == {w \in wires : w.source \notin gone}

\* ON DELETE CASCADE on both ends of a wire.
CascadedWires(gone) ==
    {w \in wires : w.source \notin gone /\ w.target \notin gone}

\* Faulty variant: only the plant's blocks are looked at.
ClearedRolesPlantOnly(f, gone) ==
    IF roles[f].plant \cap gone = {} THEN roles ELSE [roles EXCEPT ![f] = NoRoles]

\* clearControlRoleSpecForBlocks: a specification that names a deleted block is
\* deleted whole.
ClearedRoles(f, gone) ==
    IF RoleBlocks(roles[f]) \cap gone = {} THEN roles
    ELSE [roles EXCEPT ![f] = NoRoles]

\* Faulty variant: off by one at the port that goes away.
WiredPortsStayOffByOne(b, shape) ==
    \A w \in wires : w.target = b => w.targetPort <= shape.inputs

\* checkWiredInputPorts: the highest wired port must stay declared.
WiredPortsStay(b, shape) ==
    \A w \in wires : w.target = b => HasInputPort(shape, w.targetPort)

(***************************************************************************)
(* Block edits                                                             *)
(***************************************************************************)
AddBlock(f, shape) ==
    \E top \in 0..(MaxBlockId - 1) :
        /\ IsTopRowid(top)
        /\ blocks' = [b \in DOMAIN blocks \cup {top + 1} |->
                        IF b = top + 1 THEN [flow |-> f, shape |-> shape]
                                       ELSE blocks[b]]
        /\ TouchModel(f)
        /\ UNCHANGED <<wires, roles>>

\* Faulty variant: validateBlockUpdate lets one port too many through.
UpdateBlockUnvalidated(b, shape) ==
    /\ shape.kind = blocks[b].shape.kind
    /\ WiredPortsStay(b, shape)
    /\ blocks' = [blocks EXCEPT ![b].shape = [shape EXCEPT !.inputs = @ + 1]]
    /\ TouchModel(blocks[b].flow)
    /\ UNCHANGED <<wires, roles>>

UpdateBlock(b, shape) ==
    LET f == blocks[b].flow
    IN  /\ shape.kind = blocks[b].shape.kind
        /\ WiredPortsStay(b, shape)
        /\ WidthsResolve([Graph(f) EXCEPT ![b] = shape], FlowWires(f))
        /\ blocks' = [blocks EXCEPT ![b].shape = shape]
        /\ TouchModel(f)
        /\ UNCHANGED <<wires, roles>>

\* Faulty variant: the widths of what is left are not validated.
RemoveBlocksUnvalidated(f, gone) ==
    /\ roles' = ClearedRoles(f, gone)
    /\ wires' = CascadedWires(gone)
    /\ blocks' = [b \in DOMAIN blocks \ gone |-> blocks[b]]
    /\ TouchModel(f)

\* The tail DeleteBlock and DeleteBlocks share.  The delete is refused when what
\* it leaves no longer resolves: an inheriting block that loses its source falls
\* back to one channel and may no longer fit what it feeds.
RemoveBlocks(f, gone) ==
    LET left == [b \in DOMAIN blocks \ gone |-> blocks[b]]
    IN  /\ WidthsResolve(GraphOf(f, left), WiresOf(f, CascadedWires(gone)))
        /\ roles' = ClearedRoles(f, gone)
        /\ wires' = CascadedWires(gone)
        /\ blocks' = left
        /\ TouchModel(f)

DeleteBlock(b) == RemoveBlocks(blocks[b].flow, {b})

\* One block of another flowsheet in the request refuses all of it.
DeleteBlocks(f, chosen) ==
    /\ chosen # {}
    /\ chosen \subseteq FlowBlocks(f)
    /\ RemoveBlocks(f, chosen)

\* Copies in the order the request names them, which may name a block twice.
\* Wires between the originals are not copied.
DuplicateBlocks(f, chosen) ==
    /\ chosen # << >>
    /\ \A i \in DOMAIN chosen : chosen[i] \in FlowBlocks(f)
    /\ \E top \in 0..(MaxBlockId - Len(chosen)) :
        /\ IsTopRowid(top)
        /\ blocks' = [b \in DOMAIN blocks \cup {top + i : i \in DOMAIN chosen} |->
                        IF b \in DOMAIN blocks THEN blocks[b]
                        ELSE [flow |-> f, shape |-> blocks[chosen[b - top]].shape]]
    /\ TouchModel(f)
    /\ UNCHANGED <<wires, roles>>

\* MoveBlocks, MoveBlock and FlipBlock: what they write is drawing state.  A
\* request naming a block outside the flowsheet moves nothing.
ArrangeBlocks(f, chosen) ==
    /\ chosen # {}
    /\ chosen \subseteq FlowBlocks(f)
    /\ TouchLayout(f)
    /\ UNCHANGED <<blocks, wires, roles>>

(***************************************************************************)
(* Wire edits                                                              *)
(***************************************************************************)
\* Faulty variant: only the first port is guarded, the rule before ports existed.
OccupiedFirstPort(f, b, port) ==
    port = 0 /\ \E w \in wires : w.flow = f /\ w.target = b

Occupied(f, b, port) ==
    \E w \in wires : w.flow = f /\ w.target = b /\ w.targetPort = port

\* Faulty variant: the endpoints need only exist, in any flowsheet.
ConnectAnywhere(f, w) ==
    /\ w.flow = f
    /\ w.source # w.target
    /\ HasOutputPort(blocks[w.source].shape, w.sourcePort)
    /\ HasInputPort(blocks[w.target].shape, w.targetPort)
    /\ ~Occupied(f, w.target, w.targetPort)
    /\ wires' = wires \cup {w}
    /\ TouchModel(f)
    /\ UNCHANGED <<blocks, roles>>

Connect(f, w) ==
    /\ w.flow = f
    /\ w.source # w.target
    /\ {w.source, w.target} \subseteq FlowBlocks(f)
    /\ HasOutputPort(blocks[w.source].shape, w.sourcePort)
    /\ HasInputPort(blocks[w.target].shape, w.targetPort)
    /\ WidthsResolve(Graph(f), FlowWires(f) \cup {w})
    /\ w \notin wires
    /\ ~Occupied(f, w.target, w.targetPort)
    /\ wires' = wires \cup {w}
    /\ TouchModel(f)
    /\ UNCHANGED <<blocks, roles>>

\* Faulty variant: isolating a block is recorded as a layout change.
DisconnectBlockAsLayout(b) ==
    /\ CascadedWires({b}) # wires
    /\ WidthsResolve(Graph(blocks[b].flow), WiresOf(blocks[b].flow, CascadedWires({b})))
    /\ wires' = CascadedWires({b})
    /\ TouchLayout(blocks[b].flow)
    /\ UNCHANGED <<blocks, roles>>

\* Nothing is written, and nothing stamped, when the block has no wires.
DisconnectBlock(b) ==
    LET f == blocks[b].flow
    IN  /\ CascadedWires({b}) # wires
        /\ WidthsResolve(Graph(f), WiresOf(f, CascadedWires({b})))
        /\ wires' = CascadedWires({b})
        /\ TouchModel(f)
        /\ UNCHANGED <<blocks, roles>>

Disconnect(w) ==
    /\ WidthsResolve(Graph(w.flow), FlowWires(w.flow) \ {w})
    /\ wires' = wires \ {w}
    /\ TouchModel(w.flow)
    /\ UNCHANGED <<blocks, roles>>

(***************************************************************************)
(* Roles                                                                   *)
(***************************************************************************)
\* resolveControlRoleSpec accepts the specification.  Of its checks the model
\* keeps those on the blocks: they belong to the flowsheet, none is a source or a
\* sink, and none has both roles.
RolesResolve(f, spec) ==
    /\ spec.plant # {} /\ spec.controller # {}
    /\ RoleBlocks(spec) \subseteq FlowBlocks(f)
    /\ \A b \in RoleBlocks(spec) : blocks[b].shape.inputs > 0 /\ blocks[b].shape.outputs > 0
    /\ spec.plant \cap spec.controller = {}

\* The specification is replaced whole; roles are no model edit.
AssignControlRoles(f, spec) ==
    /\ RolesResolve(f, spec)
    /\ roles' = [roles EXCEPT ![f] = spec]
    /\ TouchLayout(f)
    /\ UNCHANGED <<blocks, wires>>

(***************************************************************************)
(* The specification                                                       *)
(***************************************************************************)
\* Requests name blocks by id; lists longer than MaxRequest add no case.
Requested == UNION {[1..n -> DOMAIN blocks] : n \in 1..MaxRequest}
Wirings(f) ==
    {[flow |-> f, source |-> s, sourcePort |-> p, target |-> t, targetPort |-> q] :
        s \in DOMAIN blocks, t \in DOMAIN blocks,
        p \in UNION {0..(x.outputs - 1) : x \in Shapes},
        q \in UNION {0..(x.inputs - 1) : x \in Shapes}}

Next ==
    \/ \E f \in Flows, shape \in Shapes : AddBlock(f, shape)
    \/ \E b \in DOMAIN blocks, shape \in Shapes : UpdateBlock(b, shape)
    \/ \E b \in DOMAIN blocks : DeleteBlock(b)
    \/ \E f \in Flows, chosen \in SUBSET DOMAIN blocks : DeleteBlocks(f, chosen)
    \/ \E f \in Flows, chosen \in Requested : DuplicateBlocks(f, chosen)
    \/ \E f \in Flows, chosen \in SUBSET DOMAIN blocks : ArrangeBlocks(f, chosen)
    \/ \E f \in Flows : \E w \in Wirings(f) : Connect(f, w)
    \/ \E b \in DOMAIN blocks : DisconnectBlock(b)
    \/ \E w \in wires : Disconnect(w)
    \/ \E f \in Flows, plant, controller \in SUBSET DOMAIN blocks :
           AssignControlRoles(f, [plant |-> plant, controller |-> controller])

Spec == Init /\ [][Next]_vars

(***************************************************************************)
(* Properties                                                              *)
(***************************************************************************)
TypeOK ==
    /\ DOMAIN blocks \subseteq BlockIds
    /\ \A b \in DOMAIN blocks : blocks[b] \in [flow: Flows, shape: Shapes]
    /\ wires \subseteq WireType
    /\ roles \in [Flows -> RoleType]
    /\ modelStamp \in [Flows -> Nat]
    /\ stamp \in [Flows -> Nat]

\* Every wire joins two different blocks of its own flowsheet.
WiresJoinOwnBlocks ==
    \A w \in wires : /\ w.source # w.target
                     /\ {w.source, w.target} \subseteq FlowBlocks(w.flow)

\* No wire arrives at a port its block does not declare, after any series of
\* parameter edits, deletions and rewirings (Connect, checkWiredInputPorts).
WiresOnDeclaredInputPorts ==
    \A w \in wires : w.target \in DOMAIN blocks
                       => HasInputPort(blocks[w.target].shape, w.targetPort)

\* The same of both ends, as the comment on blockDefinition.ports (catalog.go)
\* has it: UpdateBlock refuses an edit that would shrink a block past a wired
\* port, so that a port that cannot be seen is never wired.  UpdateBlock looks
\* at the input ports only, and a Demux has as many outputs as channel names.
WiresOnDeclaredPorts ==
    /\ WiresOnDeclaredInputPorts
    /\ \A w \in wires : w.source \in DOMAIN blocks
                          => HasOutputPort(blocks[w.source].shape, w.sourcePort)

\* An input port carries one signal.  No constraint of the schema says so; only
\* Connect's count does, and every other writer has to keep it.
OneWirePerInputPort ==
    \A v, w \in wires :
        v.target = w.target /\ v.targetPort = w.targetPort => v = w

\* Every stored flowsheet can be read back: `snapshot` resolves the widths of
\* what it loads and fails, for every page and command, where they conflict.
EveryFlowsheetLoads == \A f \in Flows : WidthsResolve(Graph(f), FlowWires(f))

\* A role specification names live blocks of its own flowsheet only, in disjoint
\* roles, although deletions and id reuse go on underneath it.
RolesNameLiveBlocks ==
    \A f \in Flows : /\ RoleBlocks(roles[f]) \subseteq FlowBlocks(f)
                     /\ roles[f].plant \cap roles[f].controller = {}

\* A step that changes what a flowsheet simulates moves its model stamp, and a
\* step that moves a model stamp leaves every other flowsheet as it was.
ModelEditsAreStamped ==
    [][\A f \in Flows :
         /\ <<Graph(f), FlowWires(f)>>' # <<Graph(f), FlowWires(f)>>
               => modelStamp'[f] > modelStamp[f]
         /\ modelStamp'[f] # modelStamp[f]
               => \A g \in Flows \ {f} :
                    /\ <<Graph(g), FlowWires(g)>>' = <<Graph(g), FlowWires(g)>>
                    /\ roles'[g] = roles[g]]_vars

\* A new block starts unwired and in no role, though its id may have belonged to
\* a deleted one.
NewBlocksAreBare ==
    [][\A b \in BlockIds :
         b \notin DOMAIN blocks /\ b \in DOMAIN blocks' =>
            /\ \A w \in wires' : b \notin {w.source, w.target}
            /\ \A f \in Flows : b \notin RoleBlocks(roles'[f])]_vars
=============================================================================
