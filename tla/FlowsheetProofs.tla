--------------------------- MODULE FlowsheetProofs ---------------------------
(***************************************************************************)
(* Theorems about Flowsheet for any flowsheets, shapes and bounds.  What   *)
(* WidthsResolve refuses plays a part in the last of them only, that every *)
(* flowsheet loads.                                                        *)
(***************************************************************************)
EXTENDS DocumentApply, SignalWidthsProofs

\* The rows and the roles are right whatever the wires are.
RowsInv == TypeOK /\ RolesNameLiveBlocks

\* The inductive invariant.  A wire's endpoints must lie in the wire's own
\* flowsheet for Connect's occupancy count, which looks at one flowsheet, to
\* cover every wire of the target.
FlowsheetInv ==
    /\ TypeOK
    /\ WiresJoinOwnBlocks
    /\ WiresOnDeclaredInputPorts
    /\ OneWirePerInputPort
    /\ RolesNameLiveBlocks

LEMMA InitEstablishesInv == Init => FlowsheetInv
  BY DEF Init, FlowsheetInv, TypeOK, WiresJoinOwnBlocks, WiresOnDeclaredInputPorts,
         OneWirePerInputPort, RolesNameLiveBlocks, NoRoles, RoleType, RoleBlocks,
         FlowBlocks

LEMMA TouchModelType ==
  ASSUME TypeOK, NEW f \in Flows, TouchModel(f)
  PROVE  modelStamp' \in [Flows -> Nat] /\ stamp' \in [Flows -> Nat]
  BY DEF TypeOK, TouchModel

LEMMA TouchLayoutType ==
  ASSUME TypeOK, NEW f \in Flows, TouchLayout(f)
  PROVE  modelStamp' \in [Flows -> Nat] /\ stamp' \in [Flows -> Nat]
  BY DEF TypeOK, TouchLayout

(***************************************************************************)
(* Edits that only add rows                                                *)
(***************************************************************************)
\* New rows above the largest id leave every old row, and so every wire and
\* role, as it was.
AddsRows ==
    /\ DOMAIN blocks \subseteq DOMAIN blocks'
    /\ DOMAIN blocks' \subseteq BlockIds
    /\ \A b \in DOMAIN blocks' : blocks'[b] \in [flow: Flows, shape: Shapes]
    /\ \A b \in DOMAIN blocks : blocks'[b] = blocks[b]
    /\ modelStamp' \in [Flows -> Nat] /\ stamp' \in [Flows -> Nat]
    /\ UNCHANGED <<wires, roles>>

LEMMA AddBlockAddsRows ==
  ASSUME TypeOK, NEW f \in Flows, NEW shape \in Shapes, AddBlock(f, shape)
  PROVE  AddsRows
<1>1. PICK top \in 0..(MaxBlockId - 1) :
        /\ IsTopRowid(top)
        /\ blocks' = [b \in DOMAIN blocks \cup {top + 1} |->
                        IF b = top + 1 THEN [flow |-> f, shape |-> shape]
                                       ELSE blocks[b]]
  BY DEF AddBlock
<1>2. top + 1 \in BlockIds /\ top + 1 \notin DOMAIN blocks
  BY <1>1, BoundsAssumption DEF BlockIds, IsTopRowid, TypeOK
<1>3. DOMAIN blocks' = DOMAIN blocks \cup {top + 1}
  BY <1>1
<1>4. \A b \in DOMAIN blocks : blocks'[b] = blocks[b]
  BY <1>1, <1>2
<1>5. \A b \in DOMAIN blocks' : blocks'[b] \in [flow: Flows, shape: Shapes]
  BY <1>1, <1>2, <1>3, <1>4 DEF TypeOK
<1>6. DOMAIN blocks' \subseteq BlockIds
  BY <1>2, <1>3 DEF TypeOK
<1>7. modelStamp' \in [Flows -> Nat] /\ stamp' \in [Flows -> Nat]
  BY TouchModelType DEF AddBlock
<1> QED
  BY <1>3, <1>4, <1>5, <1>6, <1>7 DEF AddsRows, AddBlock

LEMMA DuplicateBlocksAddsRows ==
  ASSUME TypeOK, NEW f \in Flows, NEW chosen \in Requested, DuplicateBlocks(f, chosen)
  PROVE  AddsRows
<1>1. PICK n \in 1..MaxRequest : chosen \in [1..n -> DOMAIN blocks]
  BY DEF Requested
<1>2. n \in Nat /\ DOMAIN chosen = 1..n /\ Len(chosen) = n
  <2>1. n \in Nat
    BY BoundsAssumption
  <2>2. chosen \in Seq(DOMAIN blocks)
    BY <1>1, <2>1
  <2> QED
    BY <1>1, <2>1, <2>2
<1>3. PICK top \in 0..(MaxBlockId - n) :
        /\ IsTopRowid(top)
        /\ blocks' = [b \in DOMAIN blocks \cup {top + i : i \in DOMAIN chosen} |->
                        IF b \in DOMAIN blocks THEN blocks[b]
                        ELSE [flow |-> f, shape |-> blocks[chosen[b - top]].shape]]
  BY <1>2 DEF DuplicateBlocks
<1>4. DOMAIN blocks' = DOMAIN blocks \cup {top + i : i \in 1..n}
  BY <1>2, <1>3
<1>5. \A b \in DOMAIN blocks : blocks'[b] = blocks[b]
  BY <1>3
<1>6. ASSUME NEW b \in DOMAIN blocks', b \notin DOMAIN blocks
      PROVE  blocks'[b] \in [flow: Flows, shape: Shapes]
  <2>1. PICK i \in 1..n : b = top + i
    BY <1>4, <1>6
  <2>2. b - top = i
    BY <1>2, <2>1
  <2>3. chosen[b - top] \in DOMAIN blocks
    BY <1>1, <2>2
  <2>4. blocks'[b] = [flow |-> f, shape |-> blocks[chosen[b - top]].shape]
    BY <1>3, <1>4, <1>6
  <2> QED
    BY <2>3, <2>4 DEF TypeOK
<1>7. \A b \in DOMAIN blocks' : blocks'[b] \in [flow: Flows, shape: Shapes]
  BY <1>5, <1>6 DEF TypeOK
<1>8. DOMAIN blocks' \subseteq BlockIds
  BY <1>2, <1>3, <1>4, BoundsAssumption DEF BlockIds, TypeOK
<1>9. modelStamp' \in [Flows -> Nat] /\ stamp' \in [Flows -> Nat]
  BY TouchModelType DEF DuplicateBlocks
<1> QED
  BY <1>4, <1>5, <1>7, <1>8, <1>9 DEF AddsRows, DuplicateBlocks

LEMMA AddingRowsKeepsRows ==
  ASSUME RowsInv, AddsRows
  PROVE  RowsInv'
<1>1. TypeOK'
  BY DEF RowsInv, TypeOK, AddsRows
<1>2. \A f \in Flows : FlowBlocks(f) \subseteq FlowBlocks(f)'
  BY DEF FlowBlocks, AddsRows
<1> QED
  BY <1>1, <1>2 DEF RowsInv, RolesNameLiveBlocks, RoleBlocks, AddsRows

LEMMA AddingRowsKeepsInv ==
  ASSUME FlowsheetInv, AddsRows
  PROVE  FlowsheetInv'
<1>1. RowsInv'
  BY AddingRowsKeepsRows DEF FlowsheetInv, RowsInv
<1>2. \A f \in Flows : FlowBlocks(f) \subseteq FlowBlocks(f)'
  BY DEF FlowBlocks, AddsRows
<1>3. WiresJoinOwnBlocks'
  BY <1>2 DEF FlowsheetInv, TypeOK, WiresJoinOwnBlocks, WireType, AddsRows
<1>4. WiresOnDeclaredInputPorts'
  BY DEF FlowsheetInv, TypeOK, WiresJoinOwnBlocks, WiresOnDeclaredInputPorts, WireType,
         FlowBlocks, AddsRows
<1>5. OneWirePerInputPort'
  BY DEF FlowsheetInv, OneWirePerInputPort, AddsRows
<1> QED
  BY <1>1, <1>3, <1>4, <1>5 DEF FlowsheetInv, RowsInv

(***************************************************************************)
(* Edits that only take wires                                              *)
(***************************************************************************)
LEMMA SameRowsKeepRows ==
  ASSUME RowsInv, UNCHANGED <<blocks, roles>>, wires' \subseteq WireType,
         modelStamp' \in [Flows -> Nat], stamp' \in [Flows -> Nat]
  PROVE  RowsInv'
<1>1. TypeOK'
  BY DEF RowsInv, TypeOK
<1>2. \A f \in Flows : FlowBlocks(f)' = FlowBlocks(f)
  BY DEF FlowBlocks
<1> QED
  BY <1>1, <1>2 DEF RowsInv, RolesNameLiveBlocks, RoleBlocks

\* Fewer wires between the same blocks, and the same roles.
DropsWires ==
    /\ wires' \subseteq wires
    /\ UNCHANGED <<blocks, roles>>
    /\ modelStamp' \in [Flows -> Nat] /\ stamp' \in [Flows -> Nat]

LEMMA DroppingWiresKeepsRows ==
  ASSUME RowsInv, DropsWires
  PROVE  RowsInv'
<1>1. wires' \subseteq WireType
  BY DEF RowsInv, TypeOK, DropsWires
<1> QED
  BY <1>1, SameRowsKeepRows DEF DropsWires

LEMMA DroppingWiresKeepsInv ==
  ASSUME FlowsheetInv, DropsWires
  PROVE  FlowsheetInv'
<1>1. RowsInv'
  BY DroppingWiresKeepsRows DEF FlowsheetInv, RowsInv
<1>2. \A f \in Flows : FlowBlocks(f)' = FlowBlocks(f)
  BY DEF FlowBlocks, DropsWires
<1>3. WiresJoinOwnBlocks'
  BY <1>2 DEF FlowsheetInv, TypeOK, WiresJoinOwnBlocks, WireType, DropsWires
<1>4. WiresOnDeclaredInputPorts'
  BY DEF FlowsheetInv, WiresOnDeclaredInputPorts, DropsWires
<1>5. OneWirePerInputPort'
  BY DEF FlowsheetInv, OneWirePerInputPort, DropsWires
<1> QED
  BY <1>1, <1>3, <1>4, <1>5 DEF FlowsheetInv, RowsInv

LEMMA DisconnectDropsWires ==
  ASSUME TypeOK, NEW w \in wires, Disconnect(w)
  PROVE  DropsWires
<1>1. w.flow \in Flows
  BY DEF TypeOK, WireType
<1>2. modelStamp' \in [Flows -> Nat] /\ stamp' \in [Flows -> Nat]
  BY <1>1, TouchModelType DEF Disconnect
<1> QED
  BY <1>2 DEF Disconnect, DropsWires

LEMMA DisconnectBlockDropsWires ==
  ASSUME TypeOK, NEW b \in DOMAIN blocks, DisconnectBlock(b)
  PROVE  DropsWires
<1>1. blocks[b].flow \in Flows /\ TouchModel(blocks[b].flow)
  BY DEF TypeOK, DisconnectBlock
<1>2. modelStamp' \in [Flows -> Nat] /\ stamp' \in [Flows -> Nat]
  BY <1>1, TouchModelType
<1> QED
  BY <1>2 DEF DisconnectBlock, CascadedWires, DropsWires

LEMMA ArrangeBlocksDropsWires ==
  ASSUME TypeOK, NEW f \in Flows, NEW chosen, ArrangeBlocks(f, chosen)
  PROVE  DropsWires
  BY TouchLayoutType DEF ArrangeBlocks, DropsWires

LEMMA StutteringDropsWires ==
  ASSUME TypeOK, UNCHANGED vars
  PROVE  DropsWires
  BY DEF TypeOK, vars, DropsWires

(***************************************************************************)
(* The other edits                                                         *)
(***************************************************************************)
LEMMA UpdateBlockKeepsRows ==
  ASSUME RowsInv, NEW b \in DOMAIN blocks, NEW shape \in Shapes, UpdateBlock(b, shape)
  PROVE  /\ RowsInv'
         /\ DOMAIN blocks' = DOMAIN blocks
         /\ \A c \in DOMAIN blocks : c # b => blocks'[c] = blocks[c]
         /\ blocks'[b] = [flow |-> blocks[b].flow, shape |-> shape]
         /\ \A f \in Flows : FlowBlocks(f)' = FlowBlocks(f)
<1>1. b \in BlockIds /\ blocks[b].flow \in Flows /\ TouchModel(blocks[b].flow)
  BY DEF RowsInv, TypeOK, UpdateBlock
<1>2. blocks' = [blocks EXCEPT ![b].shape = shape] /\ UNCHANGED <<wires, roles>>
  BY DEF UpdateBlock
<1>3. modelStamp' \in [Flows -> Nat] /\ stamp' \in [Flows -> Nat]
  BY <1>1, TouchModelType DEF RowsInv
<1>4. DOMAIN blocks' = DOMAIN blocks
  BY <1>2
<1>5. \A c \in DOMAIN blocks : c # b => blocks'[c] = blocks[c]
  BY <1>2
<1>6. blocks'[b] = [flow |-> blocks[b].flow, shape |-> shape]
  BY <1>1, <1>2 DEF RowsInv, TypeOK
<1>7. TypeOK'
  BY <1>1, <1>2, <1>3, <1>4, <1>5, <1>6 DEF RowsInv, TypeOK
<1>8. \A f \in Flows : FlowBlocks(f)' = FlowBlocks(f)
  BY <1>4, <1>5, <1>6 DEF FlowBlocks
<1>9. RolesNameLiveBlocks'
  BY <1>2, <1>8 DEF RowsInv, RolesNameLiveBlocks, RoleBlocks
<1> QED
  BY <1>4, <1>5, <1>6, <1>7, <1>8, <1>9 DEF RowsInv

\* checkWiredInputPorts keeps every wired input port declared.
LEMMA UpdateBlockKeepsInv ==
  ASSUME FlowsheetInv, NEW b \in DOMAIN blocks, NEW shape \in Shapes,
         UpdateBlock(b, shape)
  PROVE  FlowsheetInv'
<1>1. /\ RowsInv'
      /\ DOMAIN blocks' = DOMAIN blocks
      /\ \A c \in DOMAIN blocks : c # b => blocks'[c] = blocks[c]
      /\ blocks'[b] = [flow |-> blocks[b].flow, shape |-> shape]
      /\ \A f \in Flows : FlowBlocks(f)' = FlowBlocks(f)
  BY UpdateBlockKeepsRows DEF FlowsheetInv, RowsInv
<1>2. UNCHANGED <<wires, roles>>
  BY DEF UpdateBlock
<1>3. WiresJoinOwnBlocks'
  BY <1>1, <1>2 DEF FlowsheetInv, TypeOK, WiresJoinOwnBlocks, WireType
<1>4. WiresOnDeclaredInputPorts'
  <2>1. \A w \in wires : w.target = b => HasInputPort(shape, w.targetPort)
    BY DEF UpdateBlock, WiredPortsStay
  <2>2. \A w \in wires : w.target \in DOMAIN blocks
                           => HasInputPort(blocks'[w.target].shape, w.targetPort)
    BY <1>1, <2>1 DEF FlowsheetInv, WiresOnDeclaredInputPorts
  <2> QED
    BY <1>1, <1>2, <2>2 DEF WiresOnDeclaredInputPorts
<1>5. OneWirePerInputPort'
  BY <1>2 DEF FlowsheetInv, OneWirePerInputPort
<1> QED
  BY <1>1, <1>3, <1>4, <1>5 DEF FlowsheetInv, RowsInv

\* Only the roles of the rows' own flowsheet are looked at, which is enough
\* because no other flowsheet's roles can name them.
LEMMA ClearingRolesKeepsThemLive ==
  ASSUME RowsInv, NEW f \in Flows, NEW named, NEW gone,
         gone \subseteq named, gone \subseteq FlowBlocks(f),
         roles' = ClearedRoles(f, named),
         \A g \in Flows : FlowBlocks(g) \ gone \subseteq FlowBlocks(g)'
  PROVE  roles' \in [Flows -> RoleType] /\ RolesNameLiveBlocks'
<1>1. roles' \in [Flows -> RoleType]
  BY DEF ClearedRoles, RowsInv, TypeOK, NoRoles, RoleType
<1>2. ASSUME NEW g \in Flows
      PROVE  /\ RoleBlocks(roles'[g]) \subseteq FlowBlocks(g) \ gone
             /\ roles'[g].plant \cap roles'[g].controller = {}
  <2>1. /\ RoleBlocks(roles[g]) \subseteq FlowBlocks(g)
        /\ roles[g].plant \cap roles[g].controller = {}
    BY DEF RowsInv, RolesNameLiveBlocks
  <2>2. RoleBlocks(NoRoles) = {} /\ NoRoles.plant = {}
    BY DEF RoleBlocks, NoRoles
  <2>3. CASE g # f
    <3>1. roles'[g] = roles[g]
      BY <2>3 DEF ClearedRoles, RowsInv, TypeOK
    <3>2. FlowBlocks(g) \cap gone = {}
      BY <2>3 DEF FlowBlocks
    <3> QED
      BY <2>1, <3>1, <3>2
  <2>4. CASE g = f /\ RoleBlocks(roles[f]) \cap named = {}
    BY <2>1, <2>4 DEF ClearedRoles
  <2>5. CASE g = f /\ RoleBlocks(roles[f]) \cap named # {}
    <3>1. roles'[g] = NoRoles
      BY <2>5 DEF ClearedRoles, RowsInv, TypeOK
    <3> QED
      BY <2>2, <3>1
  <2> QED
    BY <2>3, <2>4, <2>5
<1>3. RolesNameLiveBlocks'
  BY <1>2 DEF RolesNameLiveBlocks, RoleBlocks
<1> QED
  BY <1>1, <1>3

LEMMA RemoveBlocksKeepsRows ==
  ASSUME RowsInv, NEW f \in Flows, NEW gone, gone \subseteq FlowBlocks(f),
         RemoveBlocks(f, gone)
  PROVE  RowsInv' /\ \A g \in Flows : FlowBlocks(g)' = FlowBlocks(g) \ gone
<1>1. /\ roles' = ClearedRoles(f, gone)
      /\ wires' = CascadedWires(gone)
      /\ blocks' = [b \in DOMAIN blocks \ gone |-> blocks[b]]
      /\ TouchModel(f)
  BY DEF RemoveBlocks
<1>2. modelStamp' \in [Flows -> Nat] /\ stamp' \in [Flows -> Nat]
  BY <1>1, TouchModelType DEF RowsInv
<1>3. DOMAIN blocks' = DOMAIN blocks \ gone /\ \A b \in DOMAIN blocks' : blocks'[b] = blocks[b]
  BY <1>1
<1>4. wires' \subseteq wires
  BY <1>1 DEF CascadedWires
<1>5. \A g \in Flows : FlowBlocks(g)' = FlowBlocks(g) \ gone
  BY <1>3 DEF FlowBlocks
<1>6. roles' \in [Flows -> RoleType] /\ RolesNameLiveBlocks'
  BY <1>1, <1>5, ClearingRolesKeepsThemLive
<1>7. TypeOK'
  BY <1>2, <1>3, <1>4, <1>6 DEF RowsInv, TypeOK
<1> QED
  BY <1>5, <1>6, <1>7 DEF RowsInv

\* The cascade takes every wire of a deleted row.
LEMMA RemoveBlocksKeepsInv ==
  ASSUME FlowsheetInv, NEW f \in Flows, NEW gone, gone \subseteq FlowBlocks(f),
         RemoveBlocks(f, gone)
  PROVE  FlowsheetInv'
<1>1. RowsInv' /\ \A g \in Flows : FlowBlocks(g)' = FlowBlocks(g) \ gone
  BY RemoveBlocksKeepsRows DEF FlowsheetInv, RowsInv
<1>2. \A w \in wires' : w \in wires /\ w.source \notin gone /\ w.target \notin gone
  BY DEF RemoveBlocks, CascadedWires
<1>3. WiresJoinOwnBlocks'
  BY <1>1, <1>2 DEF FlowsheetInv, TypeOK, WiresJoinOwnBlocks, WireType
<1>4. WiresOnDeclaredInputPorts'
  BY <1>2 DEF RemoveBlocks, FlowsheetInv, WiresOnDeclaredInputPorts
<1>5. OneWirePerInputPort'
  BY <1>2 DEF FlowsheetInv, OneWirePerInputPort
<1> QED
  BY <1>1, <1>3, <1>4, <1>5 DEF FlowsheetInv, RowsInv

LEMMA ConnectKeepsRows ==
  ASSUME RowsInv, NEW f \in Flows, NEW w \in Wirings(f), Connect(f, w)
  PROVE  RowsInv'
<1>1. modelStamp' \in [Flows -> Nat] /\ stamp' \in [Flows -> Nat]
  BY TouchModelType DEF Connect, RowsInv
<1>2. w \in WireType
  <2>1. PICK s \in DOMAIN blocks, t \in DOMAIN blocks,
             p \in UNION {0..(x.outputs - 1) : x \in Shapes},
             q \in UNION {0..(x.inputs - 1) : x \in Shapes} :
          w = [flow |-> f, source |-> s, sourcePort |-> p,
               target |-> t, targetPort |-> q]
    BY DEF Wirings
  <2>2. p \in Nat /\ q \in Nat
    BY ShapesAssumption DEF ShapeType
  <2>3. s \in BlockIds /\ t \in BlockIds
    BY DEF RowsInv, TypeOK
  <2> QED
    BY <2>1, <2>2, <2>3 DEF WireType
<1>3. wires' \subseteq WireType
  BY <1>2 DEF Connect, RowsInv, TypeOK
<1> QED
  BY <1>1, <1>3, SameRowsKeepRows DEF Connect

\* Connect counts the wires of one flowsheet only; every wire of the target is
\* among them because wires stay within their flowsheet.
LEMMA ConnectKeepsInv ==
  ASSUME FlowsheetInv, NEW f \in Flows, NEW w \in Wirings(f), Connect(f, w)
  PROVE  FlowsheetInv'
<1>1. RowsInv'
  BY ConnectKeepsRows DEF FlowsheetInv, RowsInv
<1>2. wires' = wires \cup {w} /\ UNCHANGED <<blocks, roles>>
  BY DEF Connect
<1>3. w.flow = f /\ {w.source, w.target} \subseteq FlowBlocks(f) /\ w.source # w.target
  BY DEF Connect
<1>4. \A g \in Flows : FlowBlocks(g)' = FlowBlocks(g)
  BY <1>2 DEF FlowBlocks
<1>5. WiresJoinOwnBlocks'
  BY <1>2, <1>3, <1>4 DEF FlowsheetInv, TypeOK, WiresJoinOwnBlocks, WireType
<1>6. WiresOnDeclaredInputPorts'
  BY <1>2 DEF FlowsheetInv, WiresOnDeclaredInputPorts, Connect
<1>7. \A v \in wires : ~(v.target = w.target /\ v.targetPort = w.targetPort)
  <2>1. SUFFICES ASSUME NEW v \in wires, v.target = w.target,
                        v.targetPort = w.targetPort
                 PROVE  FALSE
    OBVIOUS
  <2>2. w.target \in FlowBlocks(v.flow) /\ w.target \in FlowBlocks(f)
    BY <1>3, <2>1 DEF FlowsheetInv, WiresJoinOwnBlocks
  <2>3. v.flow = f
    BY <2>2 DEF FlowBlocks
  <2> QED
    BY <2>1, <2>3 DEF Connect, Occupied
<1>8. OneWirePerInputPort'
  BY <1>2, <1>7 DEF FlowsheetInv, OneWirePerInputPort
<1> QED
  BY <1>1, <1>5, <1>6, <1>8 DEF FlowsheetInv, RowsInv

LEMMA AssignControlRolesKeepsRows ==
  ASSUME RowsInv, NEW f \in Flows,
         NEW plant \in SUBSET DOMAIN blocks, NEW controller \in SUBSET DOMAIN blocks,
         AssignControlRoles(f, [plant |-> plant, controller |-> controller])
  PROVE  RowsInv'
<1> DEFINE spec == [plant |-> plant, controller |-> controller]
<1>1. modelStamp' \in [Flows -> Nat] /\ stamp' \in [Flows -> Nat]
  BY TouchLayoutType DEF AssignControlRoles, RowsInv
<1>2. roles' = [roles EXCEPT ![f] = spec] /\ UNCHANGED <<blocks, wires>>
  BY DEF AssignControlRoles
<1>3. RoleBlocks(spec) \subseteq FlowBlocks(f) /\ spec.plant \cap spec.controller = {}
  BY DEF AssignControlRoles, RolesResolve
<1>4. spec \in RoleType
  BY DEF RoleType, RowsInv, TypeOK
<1>5. TypeOK'
  BY <1>1, <1>2, <1>4 DEF RowsInv, TypeOK
<1>6. \A g \in Flows : FlowBlocks(g)' = FlowBlocks(g)
  BY <1>2 DEF FlowBlocks
<1>7. \A g \in Flows : roles'[g] = IF g = f THEN spec ELSE roles[g]
  BY <1>2 DEF RowsInv, TypeOK
<1>8. RolesNameLiveBlocks'
  BY <1>3, <1>6, <1>7 DEF RowsInv, RolesNameLiveBlocks, RoleBlocks
<1> QED
  BY <1>5, <1>8 DEF RowsInv

LEMMA AssignControlRolesKeepsInv ==
  ASSUME FlowsheetInv, NEW f \in Flows,
         NEW plant \in SUBSET DOMAIN blocks, NEW controller \in SUBSET DOMAIN blocks,
         AssignControlRoles(f, [plant |-> plant, controller |-> controller])
  PROVE  FlowsheetInv'
<1>1. RowsInv'
  BY AssignControlRolesKeepsRows DEF FlowsheetInv, RowsInv
<1>2. UNCHANGED <<blocks, wires>>
  BY DEF AssignControlRoles
<1>3. \A g \in Flows : FlowBlocks(g)' = FlowBlocks(g)
  BY <1>2 DEF FlowBlocks
<1>4. WiresJoinOwnBlocks' /\ WiresOnDeclaredInputPorts' /\ OneWirePerInputPort'
  BY <1>2, <1>3 DEF FlowsheetInv, TypeOK, WireType, WiresJoinOwnBlocks,
                    WiresOnDeclaredInputPorts, OneWirePerInputPort
<1> QED
  BY <1>1, <1>4 DEF FlowsheetInv, RowsInv

(***************************************************************************)
(* Every step                                                              *)
(***************************************************************************)
LEMMA StepKeepsRows ==
  ASSUME RowsInv, [Next]_vars
  PROVE  RowsInv'
<1>1. TypeOK
  BY DEF RowsInv
<1>2. ASSUME NEW b \in DOMAIN blocks, DeleteBlock(b)
      PROVE  RowsInv'
  <2>1. blocks[b].flow \in Flows /\ {b} \subseteq FlowBlocks(blocks[b].flow)
    BY <1>1 DEF TypeOK, FlowBlocks
  <2> QED
    BY <1>2, <2>1, RemoveBlocksKeepsRows DEF DeleteBlock
<1>3. ASSUME NEW f \in Flows, NEW chosen \in SUBSET DOMAIN blocks,
             DeleteBlocks(f, chosen)
      PROVE  RowsInv'
  BY <1>3, RemoveBlocksKeepsRows DEF DeleteBlocks
<1>4. AddsRows \/ DropsWires => RowsInv'
  BY AddingRowsKeepsRows, DroppingWiresKeepsRows
<1> QED
  BY <1>1, <1>2, <1>3, <1>4, AddBlockAddsRows, DuplicateBlocksAddsRows,
     ArrangeBlocksDropsWires, DisconnectBlockDropsWires, DisconnectDropsWires,
     StutteringDropsWires, UpdateBlockKeepsRows, ConnectKeepsRows,
     AssignControlRolesKeepsRows DEF Next

LEMMA StepKeepsInv ==
  ASSUME FlowsheetInv, [Next]_vars
  PROVE  FlowsheetInv'
<1>1. TypeOK
  BY DEF FlowsheetInv
<1>2. ASSUME NEW b \in DOMAIN blocks, DeleteBlock(b)
      PROVE  FlowsheetInv'
  <2>1. blocks[b].flow \in Flows /\ {b} \subseteq FlowBlocks(blocks[b].flow)
    BY <1>1 DEF TypeOK, FlowBlocks
  <2> QED
    BY <1>2, <2>1, RemoveBlocksKeepsInv DEF DeleteBlock
<1>3. ASSUME NEW f \in Flows, NEW chosen \in SUBSET DOMAIN blocks,
             DeleteBlocks(f, chosen)
      PROVE  FlowsheetInv'
  BY <1>3, RemoveBlocksKeepsInv DEF DeleteBlocks
<1>4. AddsRows \/ DropsWires => FlowsheetInv'
  BY AddingRowsKeepsInv, DroppingWiresKeepsInv
<1> QED
  BY <1>1, <1>2, <1>3, <1>4, AddBlockAddsRows, DuplicateBlocksAddsRows,
     ArrangeBlocksDropsWires, DisconnectBlockDropsWires, DisconnectDropsWires,
     StutteringDropsWires, UpdateBlockKeepsInv, ConnectKeepsInv,
     AssignControlRolesKeepsInv DEF Next

\* The inductive invariant holds of every flowsheet store.
THEOREM InvariantHolds == Spec => []FlowsheetInv
<1>1. FlowsheetInv /\ [Next]_vars => FlowsheetInv'
  BY StepKeepsInv
<1>2. QED
  BY <1>1, InitEstablishesInv, PTL DEF Spec

\* Whatever is edited, every row keeps its type: ids within the bound, every
\* block in a known flowsheet with a shape of the catalogue.
THEOREM TypeCorrect == Spec => []TypeOK
<1>1. FlowsheetInv => TypeOK
  BY DEF FlowsheetInv
<1>2. QED
  BY <1>1, InvariantHolds, PTL

\* No series of edits leaves a wire that leads out of its flowsheet, to a deleted
\* block, or from a block to itself.
THEOREM WiresStayHome == Spec => []WiresJoinOwnBlocks
<1>1. FlowsheetInv => WiresJoinOwnBlocks
  BY DEF FlowsheetInv
<1>2. QED
  BY <1>1, InvariantHolds, PTL

\* No series of edits leaves a wire on an input port its block does not declare.
THEOREM InputPortsDeclared == Spec => []WiresOnDeclaredInputPorts
<1>1. FlowsheetInv => WiresOnDeclaredInputPorts
  BY DEF FlowsheetInv
<1>2. QED
  BY <1>1, InvariantHolds, PTL

\* Connect's count, the only guard there is, keeps every input port to one wire.
THEOREM InputPortsUnshared == Spec => []OneWirePerInputPort
<1>1. FlowsheetInv => OneWirePerInputPort
  BY DEF FlowsheetInv
<1>2. QED
  BY <1>1, InvariantHolds, PTL

\* A role specification never names a block that is gone, another flowsheet's, or
\* one block in both roles.
THEOREM RolesStayLive == Spec => []RolesNameLiveBlocks
<1>1. FlowsheetInv => RolesNameLiveBlocks
  BY DEF FlowsheetInv
<1>2. QED
  BY <1>1, InvariantHolds, PTL

\* Every step either adds rows and leaves wires and roles alone, or adds none.
LEMMA AddingStepsAddRowsOnly ==
  ASSUME FlowsheetInv, Next
  PROVE  UNCHANGED <<wires, roles>> \/ DOMAIN blocks' \subseteq DOMAIN blocks
<1>1. ASSUME NEW f \in Flows, NEW shape \in Shapes, AddBlock(f, shape)
      PROVE  UNCHANGED <<wires, roles>>
  BY <1>1 DEF AddBlock
<1>2. ASSUME NEW b \in DOMAIN blocks, NEW shape \in Shapes, UpdateBlock(b, shape)
      PROVE  UNCHANGED <<wires, roles>>
  BY <1>2 DEF UpdateBlock
<1>3. ASSUME NEW f, NEW gone, RemoveBlocks(f, gone)
      PROVE  DOMAIN blocks' \subseteq DOMAIN blocks
  BY <1>3 DEF RemoveBlocks
<1>4. ASSUME NEW f \in Flows, NEW chosen \in Requested, DuplicateBlocks(f, chosen)
      PROVE  UNCHANGED <<wires, roles>>
  BY <1>4 DEF DuplicateBlocks
<1>5. ASSUME NEW f \in Flows, NEW chosen \in SUBSET DOMAIN blocks,
             ArrangeBlocks(f, chosen)
      PROVE  UNCHANGED <<wires, roles>>
  BY <1>5 DEF ArrangeBlocks
<1>6. ASSUME NEW f \in Flows, NEW w \in Wirings(f), Connect(f, w)
      PROVE  UNCHANGED blocks
  BY <1>6 DEF Connect
<1>7. ASSUME NEW b \in DOMAIN blocks, DisconnectBlock(b)
      PROVE  UNCHANGED blocks
  BY <1>7 DEF DisconnectBlock
<1>8. ASSUME NEW w \in wires, Disconnect(w)
      PROVE  UNCHANGED blocks
  BY <1>8 DEF Disconnect
<1>9. ASSUME NEW f \in Flows, NEW plant \in SUBSET DOMAIN blocks,
             NEW controller \in SUBSET DOMAIN blocks,
             AssignControlRoles(f, [plant |-> plant, controller |-> controller])
      PROVE  UNCHANGED blocks
  BY <1>9 DEF AssignControlRoles
<1>10. QED
  BY <1>1, <1>2, <1>3, <1>4, <1>5, <1>6, <1>7, <1>8, <1>9
     DEF Next, DeleteBlock, DeleteBlocks

\* A rowid that is free is named by no wire and by no role: whoever deleted its
\* last owner took both along.
LEMMA FreeRowidsAreUnnamed ==
  ASSUME FlowsheetInv, NEW b \in BlockIds, b \notin DOMAIN blocks
  PROVE  /\ \A w \in wires : b \notin {w.source, w.target}
         /\ \A f \in Flows : b \notin RoleBlocks(roles[f])
<1>1. \A w \in wires : b \notin {w.source, w.target}
  BY DEF FlowsheetInv, WiresJoinOwnBlocks, FlowBlocks
<1>2. \A f \in Flows : b \notin RoleBlocks(roles[f])
  BY DEF FlowsheetInv, RolesNameLiveBlocks, FlowBlocks
<1>3. QED
  BY <1>1, <1>2

\* A block that is given the id of a deleted one inherits nothing from it, in any
\* flowsheet and for any series of edits.
THEOREM NewBlocksInheritNothing == Spec => NewBlocksAreBare
<1> DEFINE Bare(b) == /\ \A w \in wires' : b \notin {w.source, w.target}
                      /\ \A f \in Flows : b \notin RoleBlocks(roles'[f])
<1>1. ASSUME FlowsheetInv, [Next]_vars
      PROVE  \A b \in BlockIds : b \notin DOMAIN blocks /\ b \in DOMAIN blocks' => Bare(b)
  <2> SUFFICES ASSUME NEW b \in BlockIds, b \notin DOMAIN blocks, b \in DOMAIN blocks'
               PROVE  Bare(b)
    OBVIOUS
  <2>1. Next
    BY <1>1 DEF vars
  <2>2. UNCHANGED <<wires, roles>>
    BY <1>1, <2>1, AddingStepsAddRowsOnly
  <2>3. QED
    BY <1>1, <2>2, FreeRowidsAreUnnamed
<1>2. QED
  BY <1>1, InvariantHolds, PTL DEF Spec, NewBlocksAreBare

(***************************************************************************)
(* The stamps                                                              *)
(***************************************************************************)
\* What ModelEditsAreStamped asks of one step.
Stamped ==
    \A f \in Flows :
        /\ <<Graph(f), FlowWires(f)>>' # <<Graph(f), FlowWires(f)>>
              => modelStamp'[f] > modelStamp[f]
        /\ modelStamp'[f] # modelStamp[f]
              => \A g \in Flows \ {f} :
                   /\ <<Graph(g), FlowWires(g)>>' = <<Graph(g), FlowWires(g)>>
                   /\ roles'[g] = roles[g]

\* The step leaves the diagram and the roles of flowsheet g as they were.
Keeps(g) == /\ Graph(g)' = Graph(g)
            /\ FlowWires(g)' = FlowWires(g)
            /\ roles'[g] = roles[g]

\* A step that stamps one flowsheet and keeps all others is stamped rightly.
LEMMA StampingOneFlow ==
  ASSUME TypeOK, NEW f \in Flows, TouchModel(f), \A g \in Flows \ {f} : Keeps(g)
  PROVE  Stamped
<1>1. \A g \in Flows : modelStamp'[g] = IF g = f THEN modelStamp[g] + 1 ELSE modelStamp[g]
  BY DEF TouchModel, TypeOK
<1>2. \A g \in Flows : modelStamp[g] \in Nat
  BY DEF TypeOK
<1>3. QED
  BY <1>1, <1>2 DEF Stamped, Keeps

\* A step that changes no diagram and stamps none needs none.
LEMMA StampingNone ==
  ASSUME UNCHANGED <<blocks, wires, modelStamp>>
  PROVE  Stamped
<1>1. \A f \in Flows : <<Graph(f), FlowWires(f)>>' = <<Graph(f), FlowWires(f)>>
  BY DEF Graph, GraphOf, FlowWires, WiresOf
<1>2. QED
  BY <1>1 DEF Stamped

\* A flowsheet whose rows stay keeps its diagram.
LEMMA SameRowsSameGraph ==
  ASSUME NEW g, {b \in DOMAIN blocks' : blocks'[b].flow = g} = FlowBlocks(g),
         \A b \in FlowBlocks(g) : blocks'[b] = blocks[b]
  PROVE  Graph(g)' = Graph(g)
  BY DEF Graph, GraphOf, FlowBlocks

LEMMA AddBlockKeepsOthers ==
  ASSUME FlowsheetInv, NEW f \in Flows, NEW shape \in Shapes, AddBlock(f, shape)
  PROVE  \A g \in Flows \ {f} : Keeps(g)
<1>1. PICK top \in 0..(MaxBlockId - 1) :
         /\ IsTopRowid(top)
         /\ blocks' = [b \in DOMAIN blocks \cup {top + 1} |->
                         IF b = top + 1 THEN [flow |-> f, shape |-> shape] ELSE blocks[b]]
  BY DEF AddBlock
<1>2. top + 1 \notin DOMAIN blocks
  BY <1>1, BoundsAssumption DEF IsTopRowid, FlowsheetInv, TypeOK, BlockIds
<1>3. ASSUME NEW g \in Flows \ {f} PROVE Keeps(g)
  <2>1. Graph(g)' = Graph(g)
    BY <1>1, <1>2, SameRowsSameGraph DEF FlowBlocks
  <2>2. QED
    BY <2>1 DEF Keeps, AddBlock, FlowWires, WiresOf
<1> QED
  BY <1>3

LEMMA UpdateBlockKeepsOthers ==
  ASSUME FlowsheetInv, NEW b \in DOMAIN blocks, NEW shape \in Shapes, UpdateBlock(b, shape)
  PROVE  \A g \in Flows \ {blocks[b].flow} : Keeps(g)
<1> DEFINE f == blocks[b].flow
<1>1. f \in Flows /\ TouchModel(f) /\ UNCHANGED <<wires, roles>>
  BY DEF UpdateBlock, FlowsheetInv, TypeOK
<1>2. blocks' = [blocks EXCEPT ![b].shape = shape]
  BY DEF UpdateBlock
<1>3. blocks'[b].flow = f
  BY <1>2 DEF FlowsheetInv, TypeOK
<1>4. ASSUME NEW g \in Flows \ {f} PROVE Keeps(g)
  <2>1. Graph(g)' = Graph(g)
    BY <1>2, <1>3, SameRowsSameGraph DEF FlowBlocks
  <2>2. QED
    BY <1>1, <2>1 DEF Keeps, FlowWires, WiresOf
<1> QED
  BY <1>4

\* Wires of another flowsheet have both ends there, so no cascade reaches them.
LEMMA CascadesStayHome ==
  ASSUME FlowsheetInv, NEW f \in Flows, NEW gone \in SUBSET FlowBlocks(f),
         NEW g \in Flows \ {f}
  PROVE  WiresOf(g, CascadedWires(gone)) = FlowWires(g)
<1>1. \A w \in wires : w.flow = g => w.source \notin gone /\ w.target \notin gone
  BY DEF FlowsheetInv, WiresJoinOwnBlocks, FlowBlocks
<1>2. QED
  BY <1>1 DEF WiresOf, FlowWires, CascadedWires

LEMMA RemoveBlocksKeepsOthers ==
  ASSUME FlowsheetInv, NEW f \in Flows, NEW gone \in SUBSET FlowBlocks(f),
         RemoveBlocks(f, gone)
  PROVE  \A g \in Flows \ {f} : Keeps(g)
<1>1. /\ blocks' = [b \in DOMAIN blocks \ gone |-> blocks[b]]
      /\ wires' = CascadedWires(gone)
      /\ roles' = ClearedRoles(f, gone)
      /\ TouchModel(f)
  BY DEF RemoveBlocks
<1>2. ASSUME NEW g \in Flows \ {f} PROVE Keeps(g)
  <2>1. Graph(g)' = Graph(g)
    BY <1>1, SameRowsSameGraph DEF FlowBlocks
  <2>2. FlowWires(g)' = FlowWires(g)
    BY <1>1, CascadesStayHome DEF FlowWires, WiresOf
  <2>3. roles'[g] = roles[g]
    BY <1>1 DEF ClearedRoles, FlowsheetInv, TypeOK
  <2>4. QED
    BY <2>1, <2>2, <2>3 DEF Keeps
<1> QED
  BY <1>2

LEMMA DuplicateBlocksKeepsOthers ==
  ASSUME FlowsheetInv, NEW f \in Flows, NEW chosen \in Requested, DuplicateBlocks(f, chosen)
  PROVE  \A g \in Flows \ {f} : Keeps(g)
<1>1. PICK top :
         blocks' = [b \in DOMAIN blocks \cup {top + i : i \in DOMAIN chosen} |->
                      IF b \in DOMAIN blocks THEN blocks[b]
                      ELSE [flow |-> f, shape |-> blocks[chosen[b - top]].shape]]
  BY DEF DuplicateBlocks
<1>2. ASSUME NEW g \in Flows \ {f} PROVE Keeps(g)
  <2>1. Graph(g)' = Graph(g)
    BY <1>1, SameRowsSameGraph DEF FlowBlocks
  <2>2. QED
    BY <2>1 DEF Keeps, DuplicateBlocks, FlowWires, WiresOf
<1> QED
  BY <1>2

LEMMA ConnectKeepsOthers ==
  ASSUME FlowsheetInv, NEW f \in Flows, NEW w, Connect(f, w)
  PROVE  \A g \in Flows \ {f} : Keeps(g)
<1>1. ASSUME NEW g \in Flows \ {f} PROVE Keeps(g)
  BY DEF Keeps, Connect, Graph, GraphOf, FlowWires, WiresOf
<1> QED
  BY <1>1

LEMMA DisconnectBlockKeepsOthers ==
  ASSUME FlowsheetInv, NEW b \in DOMAIN blocks, DisconnectBlock(b)
  PROVE  \A g \in Flows \ {blocks[b].flow} : Keeps(g)
<1> DEFINE f == blocks[b].flow
<1>1. f \in Flows /\ {b} \in SUBSET FlowBlocks(f)
  BY DEF FlowsheetInv, TypeOK, FlowBlocks
<1>2. wires' = CascadedWires({b}) /\ UNCHANGED <<blocks, roles>> /\ TouchModel(f)
  BY DEF DisconnectBlock
<1>3. ASSUME NEW g \in Flows \ {f} PROVE Keeps(g)
  <2>1. FlowWires(g)' = FlowWires(g)
    BY <1>1, <1>2, CascadesStayHome DEF FlowWires, WiresOf
  <2>2. QED
    BY <1>2, <2>1 DEF Keeps, Graph, GraphOf
<1> QED
  BY <1>3

LEMMA DisconnectKeepsOthers ==
  ASSUME FlowsheetInv, NEW w \in wires, Disconnect(w)
  PROVE  \A g \in Flows \ {w.flow} : Keeps(g)
<1>1. w.flow \in Flows
  BY DEF FlowsheetInv, TypeOK, WireType
<1>2. ASSUME NEW g \in Flows \ {w.flow} PROVE Keeps(g)
  BY DEF Keeps, Disconnect, Graph, GraphOf, FlowWires, WiresOf
<1> QED
  BY <1>2

LEMMA StepIsStamped ==
  ASSUME FlowsheetInv, [Next]_vars
  PROVE  Stamped
<1>1. ASSUME NEW f \in Flows, NEW shape \in Shapes, AddBlock(f, shape)
      PROVE  Stamped
  BY <1>1, AddBlockKeepsOthers, StampingOneFlow DEF AddBlock, FlowsheetInv
<1>2. ASSUME NEW b \in DOMAIN blocks, NEW shape \in Shapes, UpdateBlock(b, shape)
      PROVE  Stamped
  <2>1. blocks[b].flow \in Flows /\ TouchModel(blocks[b].flow)
    BY <1>2 DEF UpdateBlock, FlowsheetInv, TypeOK
  <2> QED
    BY <1>2, <2>1, UpdateBlockKeepsOthers, StampingOneFlow DEF FlowsheetInv
<1>3. ASSUME NEW f \in Flows, NEW gone \in SUBSET FlowBlocks(f), RemoveBlocks(f, gone)
      PROVE  Stamped
  BY <1>3, RemoveBlocksKeepsOthers, StampingOneFlow DEF RemoveBlocks, FlowsheetInv
<1>4. ASSUME NEW b \in DOMAIN blocks, DeleteBlock(b)
      PROVE  Stamped
  <2>1. blocks[b].flow \in Flows /\ {b} \in SUBSET FlowBlocks(blocks[b].flow)
    BY DEF FlowsheetInv, TypeOK, FlowBlocks
  <2> QED
    BY <1>3, <1>4, <2>1 DEF DeleteBlock
<1>5. ASSUME NEW f \in Flows, NEW chosen \in SUBSET DOMAIN blocks, DeleteBlocks(f, chosen)
      PROVE  Stamped
  BY <1>3, <1>5 DEF DeleteBlocks
<1>6. ASSUME NEW f \in Flows, NEW chosen \in Requested, DuplicateBlocks(f, chosen)
      PROVE  Stamped
  BY <1>6, DuplicateBlocksKeepsOthers, StampingOneFlow DEF DuplicateBlocks, FlowsheetInv
<1>7. ASSUME NEW f \in Flows, NEW chosen \in SUBSET DOMAIN blocks, ArrangeBlocks(f, chosen)
      PROVE  Stamped
  BY <1>7, StampingNone DEF ArrangeBlocks, TouchLayout
<1>8. ASSUME NEW f \in Flows, NEW w \in Wirings(f), Connect(f, w)
      PROVE  Stamped
  BY <1>8, ConnectKeepsOthers, StampingOneFlow DEF Connect, FlowsheetInv
<1>9. ASSUME NEW b \in DOMAIN blocks, DisconnectBlock(b)
      PROVE  Stamped
  <2>1. blocks[b].flow \in Flows /\ TouchModel(blocks[b].flow)
    BY <1>9 DEF DisconnectBlock, FlowsheetInv, TypeOK
  <2> QED
    BY <1>9, <2>1, DisconnectBlockKeepsOthers, StampingOneFlow DEF FlowsheetInv
<1>10. ASSUME NEW w \in wires, Disconnect(w)
       PROVE  Stamped
  <2>1. w.flow \in Flows
    BY DEF FlowsheetInv, TypeOK, WireType
  <2> QED
    BY <1>10, <2>1, DisconnectKeepsOthers, StampingOneFlow DEF Disconnect, FlowsheetInv
<1>11. ASSUME NEW f \in Flows, NEW plant \in SUBSET DOMAIN blocks,
              NEW controller \in SUBSET DOMAIN blocks,
              AssignControlRoles(f, [plant |-> plant, controller |-> controller])
       PROVE  Stamped
  BY <1>11, StampingNone DEF AssignControlRoles, TouchLayout
<1>12. CASE UNCHANGED vars
  BY <1>12, StampingNone DEF vars
<1> QED
  BY <1>1, <1>2, <1>4, <1>5, <1>6, <1>7, <1>8, <1>9, <1>10, <1>11, <1>12 DEF Next

\* Every edit of a diagram moves the model stamp of its flowsheet, and whatever
\* moves a model stamp leaves the other flowsheets alone.
THEOREM ModelEditsMoveTheStamp == Spec => ModelEditsAreStamped
<1>1. FlowsheetInv /\ [Next]_vars => Stamped
  BY StepIsStamped
<1>2. QED
  BY <1>1, InvariantHolds, PTL DEF Spec, ModelEditsAreStamped, Stamped

(***************************************************************************)
(* Loading                                                                 *)
(***************************************************************************)
\* What `snapshot` needs of a graph and wires read from the tables.
Loads(f, rows, drawn) == WidthsResolve(GraphOf(f, rows), WiresOf(f, drawn))

\* The wires of a flowsheet lie between its blocks.
LEMMA FlowWiresLieOverTheGraph ==
  ASSUME FlowsheetInv, NEW f \in Flows
  PROVE  FlowWires(f) \in SUBSET WiresOver(Graph(f), Flows, Nat, Nat)
<1> SUFFICES ASSUME NEW w \in FlowWires(f) PROVE w \in WiresOver(Graph(f), Flows, Nat, Nat)
  OBVIOUS
<1>1. w \in wires /\ w.flow = f
  BY DEF FlowWires, WiresOf
<1>2. w \in WireType /\ {w.source, w.target} \subseteq FlowBlocks(f)
  BY <1>1 DEF FlowsheetInv, TypeOK, WiresJoinOwnBlocks
<1>3. DOMAIN Graph(f) = FlowBlocks(f)
  BY DEF Graph, GraphOf, FlowBlocks
<1> QED
  BY <1>2, <1>3 DEF WireType, WiresOver

\* New rows are unwired: those of one flowsheet leave it loading.
LEMMA NewRowsLoad ==
  ASSUME FlowsheetInv, NEW f \in Flows, Loads(f, blocks, wires), AddsRows
  PROVE  Loads(f, blocks', wires')
<1> DEFINE more == GraphOf(f, blocks')
<1>1. IsFiniteSet(DOMAIN more)
  <2>1. DOMAIN more \in SUBSET BlockIds
    BY DEF GraphOf, AddsRows
  <2>2. IsFiniteSet(BlockIds)
    BY BoundsAssumption, FS_Interval DEF BlockIds
  <2> HIDE DEF more
  <2> QED
    BY <2>1, <2>2, FS_Subset
<1>2. DOMAIN Graph(f) \subseteq DOMAIN more /\ \A b \in DOMAIN Graph(f) : more[b] = Graph(f)[b]
  BY DEF Graph, GraphOf, AddsRows
<1> HIDE DEF more
<1>3. FlowWires(f) \in SUBSET WiresOver(Graph(f), Flows, Nat, Nat)
  BY FlowWiresLieOverTheGraph
<1>4. WidthsResolve(Graph(f), FlowWires(f)) <=> WidthsResolve(more, FlowWires(f))
  BY <1>1, <1>2, <1>3, UnwiredBlocksDoNotMatter
<1> QED
  BY <1>4 DEF Loads, more, Graph, FlowWires, AddsRows

LEMMA UpdateBlockLoads ==
  ASSUME FlowsheetInv, NEW b \in DOMAIN blocks, NEW shape \in Shapes, UpdateBlock(b, shape)
  PROVE  Loads(blocks[b].flow, blocks', wires')
<1> DEFINE f == blocks[b].flow
<1>1. /\ WidthsResolve([Graph(f) EXCEPT ![b] = shape], FlowWires(f))
      /\ blocks' = [blocks EXCEPT ![b].shape = shape]
      /\ UNCHANGED wires
  BY DEF UpdateBlock
<1>2. blocks'[b] = [flow |-> f, shape |-> shape]
  BY <1>1 DEF FlowsheetInv, TypeOK
<1>3. DOMAIN blocks' = DOMAIN blocks /\ \A c \in DOMAIN blocks : c # b => blocks'[c] = blocks[c]
  BY <1>1
<1>4. GraphOf(f, blocks') = [Graph(f) EXCEPT ![b] = shape]
  <2>1. {c \in DOMAIN blocks' : blocks'[c].flow = f} = {c \in DOMAIN blocks : blocks[c].flow = f}
    BY <1>2, <1>3
  <2>2. \A c \in DOMAIN blocks : blocks'[c].shape = IF c = b THEN shape ELSE blocks[c].shape
    BY <1>2, <1>3
  <2> QED
    BY <2>1, <2>2 DEF GraphOf, Graph
<1> QED
  BY <1>1, <1>4 DEF Loads, FlowWires

LEMMA ConnectLoads ==
  ASSUME NEW f, NEW w, Connect(f, w)
  PROVE  Loads(f, blocks', wires')
<1>1. WiresOf(f, wires') = FlowWires(f) \cup {w}
  BY DEF Connect, WiresOf, FlowWires
<1> QED
  BY <1>1 DEF Connect, Loads, Graph

LEMMA DisconnectLoads ==
  ASSUME NEW w, Disconnect(w)
  PROVE  Loads(w.flow, blocks', wires')
<1>1. WiresOf(w.flow, wires') = FlowWires(w.flow) \ {w}
  BY DEF Disconnect, WiresOf, FlowWires
<1> QED
  BY <1>1 DEF Disconnect, Loads, Graph

\* One flowsheet loads and the others are as they were.
LEMMA LoadingOneFlow ==
  ASSUME EveryFlowsheetLoads, NEW f \in Flows, Loads(f, blocks', wires'),
         \A g \in Flows \ {f} : Keeps(g)
  PROVE  EveryFlowsheetLoads'
<1>1. ASSUME NEW g \in Flows \ {f} PROVE Loads(g, blocks', wires')
  <2>1. GraphOf(g, blocks') = Graph(g) /\ WiresOf(g, wires') = FlowWires(g)
    BY DEF Keeps, Graph, FlowWires
  <2> QED
    BY <2>1 DEF Loads, EveryFlowsheetLoads
<1>2. \A g \in Flows : WidthsResolve(GraphOf(g, blocks'), WiresOf(g, wires'))
  BY <1>1 DEF Loads
<1> QED
  BY <1>2 DEF EveryFlowsheetLoads, Graph, FlowWires

LEMMA StepKeepsLoading ==
  ASSUME FlowsheetInv, EveryFlowsheetLoads, [Next]_vars
  PROVE  EveryFlowsheetLoads'
<1>0. \A f \in Flows : Loads(f, blocks, wires)
  BY DEF EveryFlowsheetLoads, Loads, Graph, FlowWires
<1>1. ASSUME NEW f \in Flows, NEW shape \in Shapes, AddBlock(f, shape)
      PROVE  EveryFlowsheetLoads'
  BY <1>0, <1>1, AddBlockAddsRows, NewRowsLoad, AddBlockKeepsOthers, LoadingOneFlow
     DEF FlowsheetInv
<1>2. ASSUME NEW b \in DOMAIN blocks, NEW shape \in Shapes, UpdateBlock(b, shape)
      PROVE  EveryFlowsheetLoads'
  <2>1. blocks[b].flow \in Flows
    BY DEF FlowsheetInv, TypeOK
  <2> QED
    BY <1>2, <2>1, UpdateBlockLoads, UpdateBlockKeepsOthers, LoadingOneFlow
<1>3. ASSUME NEW f \in Flows, NEW gone \in SUBSET FlowBlocks(f), RemoveBlocks(f, gone)
      PROVE  EveryFlowsheetLoads'
  <2>1. Loads(f, blocks', wires')
    BY <1>3 DEF RemoveBlocks, Loads
  <2> QED
    BY <1>3, <2>1, RemoveBlocksKeepsOthers, LoadingOneFlow
<1>4. ASSUME NEW b \in DOMAIN blocks, DeleteBlock(b)
      PROVE  EveryFlowsheetLoads'
  <2>1. blocks[b].flow \in Flows /\ {b} \in SUBSET FlowBlocks(blocks[b].flow)
    BY DEF FlowsheetInv, TypeOK, FlowBlocks
  <2> QED
    BY <1>3, <1>4, <2>1 DEF DeleteBlock
<1>5. ASSUME NEW f \in Flows, NEW chosen \in SUBSET DOMAIN blocks, DeleteBlocks(f, chosen)
      PROVE  EveryFlowsheetLoads'
  BY <1>3, <1>5 DEF DeleteBlocks
<1>6. ASSUME NEW f \in Flows, NEW chosen \in Requested, DuplicateBlocks(f, chosen)
      PROVE  EveryFlowsheetLoads'
  BY <1>0, <1>6, DuplicateBlocksAddsRows, NewRowsLoad, DuplicateBlocksKeepsOthers,
     LoadingOneFlow DEF FlowsheetInv
<1>7. CASE UNCHANGED <<blocks, wires>>
  BY <1>7 DEF EveryFlowsheetLoads, Graph, FlowWires
<1>8. ASSUME NEW f \in Flows, NEW w \in Wirings(f), Connect(f, w)
      PROVE  EveryFlowsheetLoads'
  BY <1>8, ConnectLoads, ConnectKeepsOthers, LoadingOneFlow
<1>9. ASSUME NEW b \in DOMAIN blocks, DisconnectBlock(b)
      PROVE  EveryFlowsheetLoads'
  <2>1. blocks[b].flow \in Flows
    BY DEF FlowsheetInv, TypeOK
  <2>2. Loads(blocks[b].flow, blocks', wires')
    BY <1>9 DEF DisconnectBlock, Loads, Graph
  <2> QED
    BY <1>9, <2>1, <2>2, DisconnectBlockKeepsOthers, LoadingOneFlow
<1>10. ASSUME NEW w \in wires, Disconnect(w)
       PROVE  EveryFlowsheetLoads'
  <2>1. w.flow \in Flows
    BY DEF FlowsheetInv, TypeOK, WireType
  <2> QED
    BY <1>10, <2>1, DisconnectLoads, DisconnectKeepsOthers, LoadingOneFlow
<1> QED
  BY <1>1, <1>2, <1>4, <1>5, <1>6, <1>7, <1>8, <1>9, <1>10
     DEF Next, ArrangeBlocks, AssignControlRoles, vars

\* No series of edits leaves a flowsheet that cannot be read back.  The edits that
\* take wires or reshape blocks ask WidthsResolve first; those that add blocks do
\* not, and need not, because what they add is unwired.
THEOREM EveryFlowsheetKeepsLoading == Spec => []EveryFlowsheetLoads
<1>1. Init => EveryFlowsheetLoads
  BY NoWiresResolve DEF Init, EveryFlowsheetLoads, FlowWires, WiresOf
<1>2. FlowsheetInv /\ EveryFlowsheetLoads /\ [Next]_vars => EveryFlowsheetLoads'
  BY StepKeepsLoading
<1> QED
  BY <1>1, <1>2, InvariantHolds, PTL DEF Spec


(***************************************************************************)
(* The inductive invariant                                                 *)
(***************************************************************************)
Snapshots == UNION {[names -> Shapes] : names \in SUBSET BlockIds}

ReadingRequest == [stage: {"blocks"}, flow: Flows, blocks: Snapshots, raced: BOOLEAN]
PlannedRequest == [stage: {"planned"}, flow: Flows, blocks: Snapshots,
                   wires: SUBSET WireType, raced: BOOLEAN]

RequestOK == request = Idle \/ request \in ReadingRequest \/ request \in PlannedRequest

\* What was read is what is stored, as long as no edit came between.
SnapshotHolds ==
    request # Idle /\ ~request.raced =>
        /\ request.blocks = Graph(request.flow)
        /\ request.stage = "planned" => request.wires = FlowWires(request.flow)

\* All that the single edits keep of the wires.
RulesHold ==
    /\ WiresJoinOwnBlocks
    /\ WiresOnDeclaredInputPorts
    /\ OneWirePerInputPort
    /\ EveryFlowsheetLoads

ApplyInv ==
    /\ RowsInv
    /\ tainted \in BOOLEAN
    /\ RequestOK
    /\ SnapshotHolds
    /\ ~tainted => RulesHold

LEMMA RulesAndRowsAreFlowsheetInv ==
  FlowsheetInv /\ EveryFlowsheetLoads <=> RowsInv /\ RulesHold
  BY DEF FlowsheetInv, RowsInv, RulesHold

LEMMA InitEstablishesApplyInv == InitApply => ApplyInv
<1> SUFFICES ASSUME InitApply PROVE ApplyInv
  OBVIOUS
<1>1. FlowsheetInv
  BY InitEstablishesInv DEF InitApply
<1>2. EveryFlowsheetLoads
  BY NoWiresResolve DEF InitApply, Init, EveryFlowsheetLoads, FlowWires, WiresOf
<1> QED
  BY <1>1, <1>2, RulesAndRowsAreFlowsheetInv DEF InitApply, ApplyInv, RequestOK, SnapshotHolds

\* A request under way is no idle one.
LEMMA RequestsAtWork ==
  ASSUME RequestOK
  PROVE  /\ request = Idle <=> request.stage = "idle"
         /\ request.stage = "blocks" <=> request \in ReadingRequest
         /\ request.stage = "planned" <=> request \in PlannedRequest
  BY DEF RequestOK, ReadingRequest, PlannedRequest, Idle

(***************************************************************************)
(* Steps of the apply that only read, and edits of others                  *)
(***************************************************************************)
\* Nothing is written to the tables.
LEMMA ReadingKeepsStore ==
  ASSUME ApplyInv, UNCHANGED <<vars, tainted>>
  PROVE  RowsInv' /\ tainted' \in BOOLEAN /\ (~tainted' => RulesHold')
<1>1. /\ UNCHANGED <<blocks, wires, roles, modelStamp, stamp, tainted>>
      /\ \A f \in Flows : FlowBlocks(f)' = FlowBlocks(f)
      /\ \A f \in Flows : Graph(f)' = Graph(f) /\ FlowWires(f)' = FlowWires(f)
  BY DEF vars, FlowBlocks, Graph, FlowWires
<1>2. RowsInv'
  BY <1>1, StepKeepsRows DEF ApplyInv, vars
<1>3. ASSUME ~tainted' PROVE RulesHold'
  <2>1. FlowsheetInv /\ EveryFlowsheetLoads
    BY <1>1, <1>3, RulesAndRowsAreFlowsheetInv DEF ApplyInv
  <2>2. FlowsheetInv'
    BY <2>1, <1>1, StepKeepsInv DEF vars
  <2>3. EveryFlowsheetLoads'
    BY <2>1, <1>1, StepKeepsLoading DEF vars
  <2> QED
    BY <2>2, <2>3 DEF FlowsheetInv, RulesHold
<1> QED
  BY <1>1, <1>2, <1>3 DEF ApplyInv

LEMMA ReadBlocksKeepsInv ==
  ASSUME ApplyInv, NEW f \in Flows, ReadBlocks(f)
  PROVE  ApplyInv'
<1>1. request' = [stage |-> "blocks", flow |-> f, blocks |-> Graph(f), raced |-> FALSE]
  BY DEF ReadBlocks
<1>2. Graph(f) \in Snapshots
  <2>1. Graph(f) \in [FlowBlocks(f) -> Shapes] /\ FlowBlocks(f) \in SUBSET BlockIds
    BY DEF Graph, GraphOf, FlowBlocks, ApplyInv, RowsInv, TypeOK
  <2> QED
    BY <2>1 DEF Snapshots
<1>3. RequestOK'
  BY <1>1, <1>2 DEF RequestOK, ReadingRequest
<1>4. Graph(f)' = Graph(f)
  BY DEF ReadBlocks, vars, Graph, GraphOf
<1>5. SnapshotHolds'
  BY <1>1, <1>4 DEF SnapshotHolds, Graph
<1> QED
  BY <1>3, <1>5, ReadingKeepsStore DEF ReadBlocks, ApplyInv

LEMMA ReadWiresKeepsInv ==
  ASSUME ApplyInv, ReadWires
  PROVE  ApplyInv'
<1>1. request \in ReadingRequest
  BY RequestsAtWork DEF ReadWires, ApplyInv
<1>2. request' = [stage |-> "planned", flow |-> request.flow, blocks |-> request.blocks,
                  wires |-> FlowWires(request.flow), raced |-> request.raced]
  BY DEF ReadWires
<1>3. FlowWires(request.flow) \in SUBSET WireType
  BY DEF FlowWires, WiresOf, ApplyInv, RowsInv, TypeOK
<1>4. RequestOK'
  BY <1>1, <1>2, <1>3 DEF RequestOK, ReadingRequest, PlannedRequest
<1>5. SnapshotHolds'
  <2>1. UNCHANGED <<blocks, wires>>
    BY DEF ReadWires, vars
  <2>2. request # Idle
    BY <1>1, RequestsAtWork DEF ApplyInv, ReadWires
  <2> QED
    BY <1>1, <1>2, <2>1, <2>2 DEF SnapshotHolds, ApplyInv, Graph, FlowWires
<1> QED
  BY <1>4, <1>5, ReadingKeepsStore DEF ReadWires, ApplyInv

LEMMA EndApplyKeepsInv ==
  ASSUME ApplyInv, EndApply
  PROVE  ApplyInv'
<1>1. RequestOK' /\ SnapshotHolds'
  BY DEF EndApply, RequestOK, SnapshotHolds
<1> QED
  BY <1>1, ReadingKeepsStore DEF EndApply, ApplyInv

LEMMA StutteringKeepsInv ==
  ASSUME ApplyInv, UNCHANGED applyVars
  PROVE  ApplyInv'
<1>1. RequestOK' /\ SnapshotHolds'
  BY DEF applyVars, vars, ApplyInv, RequestOK, SnapshotHolds, Graph, FlowWires
<1> QED
  BY <1>1, ReadingKeepsStore DEF applyVars, ApplyInv

\* An edit that touches what a request has read marks it.
LEMMA EditKeepsRequest ==
  ASSUME ApplyInv, Edit
  PROVE  /\ RequestOK' /\ SnapshotHolds'
         /\ request = Idle <=> request' = Idle
<1> DEFINE f == request.flow
           raced == \/ request.raced
                    \/ GraphOf(f, blocks') # GraphOf(f, blocks)
                    \/ WiresOf(f, wires') # WiresOf(f, wires)
<1>1. CASE request = Idle
  BY <1>1 DEF Edit, RequestOK, SnapshotHolds
<1>2. CASE request # Idle
  <2>1. request' = [request EXCEPT !.raced = raced]
    BY <1>2 DEF Edit
  <2>2. raced \in BOOLEAN
    BY <1>2 DEF ApplyInv, RequestOK, ReadingRequest, PlannedRequest
  <2>3. /\ request'.flow = f /\ request'.blocks = request.blocks /\ request'.raced = raced
        /\ request'.stage = request.stage
        /\ request.stage = "planned" => request'.wires = request.wires
        /\ RequestOK' /\ request' # Idle
    <3> HIDE DEF raced
    <3>1. CASE request \in ReadingRequest
      BY <2>1, <2>2, <3>1 DEF ReadingRequest, RequestOK, Idle
    <3>2. CASE request \in PlannedRequest
      BY <2>1, <2>2, <3>2 DEF PlannedRequest, RequestOK, Idle
    <3> QED
      BY <1>2, <3>1, <3>2 DEF ApplyInv, RequestOK
  <2>4. SnapshotHolds'
    <3> SUFFICES ASSUME ~raced
                 PROVE  /\ request'.blocks = GraphOf(f, blocks')
                        /\ request'.stage = "planned" => request'.wires = WiresOf(f, wires')
      BY <2>3 DEF SnapshotHolds, Graph, FlowWires
    <3> QED
      BY <1>2, <2>3 DEF ApplyInv, SnapshotHolds, Graph, FlowWires
  <2> QED
    BY <1>2, <2>3, <2>4
<1> QED
  BY <1>1, <1>2

LEMMA EditKeepsApplyInv ==
  ASSUME ApplyInv, Edit
  PROVE  ApplyInv'
<1>1. Next /\ tainted' = tainted
  BY DEF Edit
<1>2. RowsInv'
  BY <1>1, StepKeepsRows DEF ApplyInv
<1>3. ASSUME ~tainted' PROVE RulesHold'
  <2>1. FlowsheetInv /\ EveryFlowsheetLoads
    BY <1>1, <1>3, RulesAndRowsAreFlowsheetInv DEF ApplyInv
  <2>2. FlowsheetInv' /\ EveryFlowsheetLoads'
    BY <1>1, <2>1, StepKeepsInv, StepKeepsLoading
  <2> QED
    BY <2>2 DEF FlowsheetInv, RulesHold
<1> QED
  BY <1>1, <1>2, <1>3, EditKeepsRequest DEF ApplyInv

(***************************************************************************)
(* The commit, taken apart                                                 *)
(***************************************************************************)
IdOf(top, name) == IF name = NewBlock THEN top + 1 ELSE name

Left(shapes) == DOMAIN blocks \ RemovedRows(shapes)

AfterInsert(shapes, top) ==
    [b \in Left(shapes) \cup {IdOf(top, name) : name \in Added(shapes)} |->
        IF b \in Left(shapes) THEN blocks[b]
        ELSE [flow |-> request.flow, shape |-> shapes[NewBlock]]]

Updated(shapes, top) ==
    {b \in DOMAIN shapes \cap DOMAIN AfterInsert(shapes, top) :
        AfterInsert(shapes, top)[b].flow = request.flow}

InsertedWires(drawn, top) ==
    {[w EXCEPT !.source = IdOf(top, @), !.target = IdOf(top, @)] : w \in drawn}

\* What the statements of the commit have done to the rows and the wires.
Commits(shapes, drawn, top, late, written) ==
    /\ top \in 0..(MaxBlockId - Cardinality(Added(shapes)))
    /\ \A b \in Left(shapes) : b <= top
    /\ late \in {Updated(shapes, top), Updated(shapes, top) \cap Left(shapes)}
    /\ written \in [late -> Shapes]
    /\ \A b \in late : written[b] \in Overwritten(AfterInsert(shapes, top)[b], shapes[b])
    /\ blocks' = [b \in DOMAIN AfterInsert(shapes, top) |->
                    IF b \in late THEN [flow |-> request.flow, shape |-> written[b]]
                    ELSE AfterInsert(shapes, top)[b]]
    /\ IF Rewired(shapes, drawn)
       THEN /\ \A w \in InsertedWires(drawn, top) :
                  {w.source, w.target} \subseteq DOMAIN AfterInsert(shapes, top)
            /\ wires' = ReplacedWires(RemovedRows(shapes), InsertedWires(drawn, top))
       ELSE UNCHANGED wires

LEMMA CommitTakenApart ==
  ASSUME NEW shapes, NEW drawn, NEW retuned, NEW moved,
         CommitDocument(shapes, drawn, retuned, moved)
  PROVE  /\ \E top, late, written : Commits(shapes, drawn, top, late, written)
         /\ roles' = DocumentRoles(shapes)
         /\ IF ModelChanged(shapes, drawn, retuned) THEN TouchModel(request.flow)
                                                    ELSE moved /\ TouchLayout(request.flow)
         /\ request' = Idle
         /\ tainted' = (tainted \/ request.raced)
<1>1. PICK top \in 0..(MaxBlockId - Cardinality(Added(shapes))) :
        /\ \A b \in Left(shapes) : b <= top
        /\ \E late \in {Updated(shapes, top), Updated(shapes, top) \cap Left(shapes)} :
             \E written \in [late -> Shapes] :
                /\ \A b \in late : written[b] \in Overwritten(AfterInsert(shapes, top)[b], shapes[b])
                /\ blocks' = [b \in DOMAIN AfterInsert(shapes, top) |->
                                IF b \in late THEN [flow |-> request.flow, shape |-> written[b]]
                                ELSE AfterInsert(shapes, top)[b]]
        /\ IF Rewired(shapes, drawn)
           THEN /\ \A w \in InsertedWires(drawn, top) :
                      {w.source, w.target} \subseteq DOMAIN AfterInsert(shapes, top)
                /\ wires' = ReplacedWires(RemovedRows(shapes), InsertedWires(drawn, top))
           ELSE UNCHANGED wires
        /\ roles' = DocumentRoles(shapes)
        /\ IF ModelChanged(shapes, drawn, retuned) THEN TouchModel(request.flow)
                                                   ELSE moved /\ TouchLayout(request.flow)
        /\ request' = Idle
        /\ tainted' = (tainted \/ request.raced)
  BY Zenon DEF CommitDocument, AfterInsert, Updated, InsertedWires, Left, IdOf
<1>2. PICK late \in {Updated(shapes, top), Updated(shapes, top) \cap Left(shapes)} :
        \E written \in [late -> Shapes] :
                /\ \A b \in late : written[b] \in Overwritten(AfterInsert(shapes, top)[b], shapes[b])
                /\ blocks' = [b \in DOMAIN AfterInsert(shapes, top) |->
                                IF b \in late THEN [flow |-> request.flow, shape |-> written[b]]
                                ELSE AfterInsert(shapes, top)[b]]
  BY <1>1
<1>3. PICK written \in [late -> Shapes] :
                /\ \A b \in late : written[b] \in Overwritten(AfterInsert(shapes, top)[b], shapes[b])
                /\ blocks' = [b \in DOMAIN AfterInsert(shapes, top) |->
                                IF b \in late THEN [flow |-> request.flow, shape |-> written[b]]
                                ELSE AfterInsert(shapes, top)[b]]
  BY <1>2
<1>4. Commits(shapes, drawn, top, late, written)
  BY <1>1, <1>2, <1>3, Zenon DEF Commits
<1> QED
  BY <1>1, <1>4

\* The documents a request may be of: blocks of the snapshot and the new one, wires
\* of the request's flowsheet between them that resolveWires accepts.
LEMMA DocumentType ==
  ASSUME request \in PlannedRequest,
         NEW shapes \in DocumentShapes, NEW drawn \in DocumentWires(shapes)
  PROVE  /\ \A b \in DOMAIN shapes : shapes[b] \in Shapes
         /\ DOMAIN shapes \subseteq DOMAIN request.blocks \cup {NewBlock}
         /\ DOMAIN request.blocks \subseteq BlockIds
         /\ Added(shapes) \subseteq {NewBlock}
         /\ NewBlock \in DOMAIN shapes => Added(shapes) = {NewBlock}
         /\ \A b \in Reshaped(shapes) : shapes[b].kind = request.blocks[b].kind
         /\ drawn \subseteq WiresOver(shapes, {request.flow} \cup
                                         {w.flow : w \in request.wires}, Nat, Nat)
         /\ \A w \in drawn : w.flow = request.flow \/ w \in request.wires
         /\ DocumentWiresValid(shapes, drawn)
<1>1. /\ \A b \in DOMAIN shapes : shapes[b] \in Shapes
      /\ DOMAIN shapes \subseteq DOMAIN request.blocks \cup {NewBlock}
      /\ \A b \in Reshaped(shapes) : shapes[b].kind = request.blocks[b].kind
  BY DEF DocumentShapes
<1>2. DOMAIN request.blocks \subseteq BlockIds /\ request.wires \in SUBSET WireType
  BY DEF PlannedRequest, Snapshots
<1>3. NewBlock \notin DOMAIN request.blocks
  BY <1>2 DEF NewBlock, BlockIds
<1>4. Added(shapes) \subseteq {NewBlock} /\ (NewBlock \in DOMAIN shapes => Added(shapes) = {NewBlock})
  BY <1>1, <1>3 DEF Added
<1>5. DocumentWiresValid(shapes, drawn)
  BY DEF DocumentWires
<1>6. ASSUME NEW w \in drawn
      PROVE  /\ w \in WiresOver(shapes, {request.flow} \cup {v.flow : v \in request.wires}, Nat, Nat)
             /\ w.flow = request.flow \/ w \in request.wires
  <2> DEFINE kept == {v \in request.wires : {v.source, v.target} \subseteq DOMAIN shapes}
             new  == UNION {{[flow |-> request.flow, source |-> x, sourcePort |-> p,
                         target |-> t, targetPort |-> q] :
                           p \in 0..(shapes[x].outputs - 1), q \in 0..(shapes[t].inputs - 1)} :
                         x, t \in DOMAIN shapes}
  <2>1. w \in kept \/ w \in new
    BY DEF DocumentWires
  <2>2. CASE w \in kept
    BY <1>2, <2>2 DEF WireType, WiresOver
  <2>3. CASE w \in new
    <3>1. PICK x \in DOMAIN shapes, t \in DOMAIN shapes :
             w \in {[flow |-> request.flow, source |-> x, sourcePort |-> p,
                      target |-> t, targetPort |-> q] :
                           p \in 0..(shapes[x].outputs - 1), q \in 0..(shapes[t].inputs - 1)}
      BY <2>3
    <3>2. PICK p \in 0..(shapes[x].outputs - 1), q \in 0..(shapes[t].inputs - 1) :
             w = [flow |-> request.flow, source |-> x, sourcePort |-> p,
                  target |-> t, targetPort |-> q]
      BY <3>1
    <3>3. p \in Nat /\ q \in Nat
      BY <1>1, <3>2, ShapesAssumption DEF ShapeType
    <3> QED
      BY <3>2, <3>3 DEF WiresOver
  <2> QED
    BY <2>1, <2>2, <2>3
<1> QED
  BY <1>1, <1>2, <1>4, <1>5, <1>6

\* Whatever it raced with: old rows keep their flowsheet, only rows of the request's
\* flowsheet are removed, overwritten or added, and rows keep their types.
RowsCommitted(shapes, top, late, written) ==
    /\ DOMAIN blocks' \subseteq BlockIds
    /\ \A b \in DOMAIN blocks' : blocks'[b] \in [flow: Flows, shape: Shapes]
    /\ Left(shapes) \subseteq DOMAIN blocks'
    /\ \A b \in Left(shapes) : blocks'[b].flow = blocks[b].flow
    /\ \A b \in DOMAIN blocks' \ Left(shapes) :
         b = top + 1 /\ Added(shapes) = {NewBlock} /\ blocks'[b].flow = request.flow
    /\ \A b \in Left(shapes) : b \notin late => blocks'[b] = blocks[b]
    /\ \A b \in late : blocks'[b] = [flow |-> request.flow, shape |-> written[b]]
    /\ \A b \in Left(shapes) : b \in late => blocks[b].flow = request.flow
    /\ Added(shapes) # {} =>
         /\ top + 1 \in DOMAIN blocks' /\ top + 1 \notin Left(shapes)
         /\ top + 1 \notin late =>
               blocks'[top + 1] = [flow |-> request.flow, shape |-> shapes[NewBlock]]
    /\ DOMAIN blocks' = DOMAIN AfterInsert(shapes, top)

LEMMA CommittedRows ==
  ASSUME RowsInv, request \in PlannedRequest, NEW shapes \in DocumentShapes,
         NEW drawn \in DocumentWires(shapes), NEW top, NEW late, NEW written,
         Commits(shapes, drawn, top, late, written)
  PROVE  RowsCommitted(shapes, top, late, written)
<1> DEFINE left == Left(shapes)
           rows == AfterInsert(shapes, top)
           added == {IdOf(top, name) : name \in Added(shapes)}
<1>1. /\ top \in 0..(MaxBlockId - Cardinality(Added(shapes)))
      /\ \A b \in left : b <= top
      /\ late \subseteq Updated(shapes, top)
      /\ written \in [late -> Shapes]
      /\ blocks' = [b \in DOMAIN rows |->
                      IF b \in late THEN [flow |-> request.flow, shape |-> written[b]]
                      ELSE rows[b]]
  BY DEF Commits
<1>2. /\ request.flow \in Flows
      /\ Added(shapes) \subseteq {NewBlock}
      /\ NewBlock \in DOMAIN shapes => shapes[NewBlock] \in Shapes
      /\ Added(shapes) \subseteq DOMAIN shapes
  BY DocumentType DEF PlannedRequest, Added
<1>3. left \subseteq DOMAIN blocks /\ left \subseteq BlockIds
  BY DEF Left, RowsInv, TypeOK
<1>4. CASE Added(shapes) = {}
  <2>1. DOMAIN rows = left /\ \A b \in left : rows[b] = blocks[b]
    BY <1>4 DEF AfterInsert
  <2>2. late \subseteq left /\ \A b \in late : blocks[b].flow = request.flow
    BY <1>1, <2>1 DEF Updated
  <2> HIDE DEF rows, left
  <2> QED
    BY <1>1, <1>2, <1>3, <1>4, <2>1, <2>2 DEF RowsInv, TypeOK, rows, left, RowsCommitted
<1>5. CASE Added(shapes) = {NewBlock}
  <2>1. Cardinality(Added(shapes)) = 1
    BY <1>5, FS_Singleton
  <2>2. top + 1 \in BlockIds /\ top + 1 \notin left /\ added = {top + 1}
    BY <1>1, <1>3, <1>5, <2>1, BoundsAssumption DEF BlockIds, IdOf
  <2>3. /\ DOMAIN rows = left \cup {top + 1}
        /\ \A b \in left : rows[b] = blocks[b]
        /\ rows[top + 1] = [flow |-> request.flow, shape |-> shapes[NewBlock]]
    BY <2>2 DEF AfterInsert
  <2>4. late \subseteq DOMAIN rows /\ \A b \in late \cap left : blocks[b].flow = request.flow
    BY <1>1, <2>3 DEF Updated
  <2>5. shapes[NewBlock] \in Shapes
    BY <1>2, <1>5
  <2> HIDE DEF rows, left
  <2>6. DOMAIN blocks' = left \cup {top + 1}
    BY <1>1, <2>3
  <2>7. \A b \in late : blocks'[b] = [flow |-> request.flow, shape |-> written[b]]
    BY <1>1, <2>4
  <2>8. \A b \in left : b \notin late => blocks'[b] = blocks[b]
    BY <1>1, <2>3
  <2>9. top + 1 \notin late => blocks'[top + 1] = [flow |-> request.flow, shape |-> shapes[NewBlock]]
    BY <1>1, <2>3
  <2>10. ASSUME NEW b \in left PROVE blocks'[b].flow = blocks[b].flow
    <3>1. CASE b \in late
      <4>1. blocks'[b] = [flow |-> request.flow, shape |-> written[b]]
        BY <2>7, <3>1
      <4>2. blocks[b].flow = request.flow
        BY <2>4, <3>1
      <4> QED
        BY <4>1, <4>2
    <3> QED
      BY <2>8, <3>1
  <2>11. blocks'[top + 1].flow = request.flow
    <3>1. CASE top + 1 \in late
      <4>1. blocks'[top + 1] = [flow |-> request.flow, shape |-> written[top + 1]]
        BY <2>7, <3>1
      <4> QED
        BY <4>1
    <3>2. CASE top + 1 \notin late
      <4>1. blocks'[top + 1] = [flow |-> request.flow, shape |-> shapes[NewBlock]]
        BY <2>9, <3>2
      <4> QED
        BY <4>1
    <3> QED
      BY <3>1, <3>2
  <2>12. ASSUME NEW b \in DOMAIN blocks' PROVE blocks'[b] \in [flow: Flows, shape: Shapes]
    <3>1. CASE b \in late
      <4>1. blocks'[b] = [flow |-> request.flow, shape |-> written[b]] /\ written[b] \in Shapes
        BY <1>1, <2>7, <3>1
      <4> QED
        BY <1>2, <4>1
    <3>2. CASE b \notin late /\ b \in left
      <4>1. blocks'[b] = blocks[b]
        BY <2>8, <3>2
      <4> QED
        BY <1>3, <3>2, <4>1 DEF RowsInv, TypeOK
    <3>3. CASE b \notin late /\ b = top + 1
      <4>1. blocks'[b] = [flow |-> request.flow, shape |-> shapes[NewBlock]]
        BY <2>9, <3>3
      <4> QED
        BY <1>2, <2>5, <4>1
    <3> QED
      BY <2>6, <3>1, <3>2, <3>3
  <2> QED
    BY <1>3, <1>5, <2>2, <2>3, <2>4, <2>6, <2>7, <2>8, <2>9, <2>10, <2>11, <2>12
       DEF left, rows, RowsCommitted
<1> QED
  BY <1>2, <1>4, <1>5

LEMMA RemovedRowsAreLocal ==
  ASSUME NEW shapes
  PROVE  /\ RemovedRows(shapes) \subseteq Removed(shapes)
         /\ RemovedRows(shapes) \subseteq FlowBlocks(request.flow)
  BY DEF RemovedRows

LEMMA CommittedWires ==
  ASSUME RowsInv, request \in PlannedRequest, NEW shapes \in DocumentShapes,
         NEW drawn \in DocumentWires(shapes), NEW top, NEW late, NEW written,
         Commits(shapes, drawn, top, late, written)
  PROVE  wires' \subseteq WireType
<1>1. DOMAIN AfterInsert(shapes, top) \subseteq BlockIds
  BY CommittedRows DEF RowsCommitted
<1>2. ASSUME NEW w \in drawn,
             {IdOf(top, w.source), IdOf(top, w.target)} \subseteq BlockIds
      PROVE  [w EXCEPT !.source = IdOf(top, @), !.target = IdOf(top, @)] \in WireType
  <2>1. /\ w \in WiresOver(shapes, {request.flow} \cup {v.flow : v \in request.wires}, Nat, Nat)
    BY DocumentType
  <2>2. {request.flow} \cup {v.flow : v \in request.wires} \subseteq Flows
    BY DEF PlannedRequest, WireType
  <2> QED
    BY <1>2, <2>1, <2>2 DEF WiresOver, WireType
<1>3. CASE Rewired(shapes, drawn)
  <2>1. ASSUME NEW w \in InsertedWires(drawn, top) PROVE w \in WireType
    <3>1. PICK v \in drawn : w = [v EXCEPT !.source = IdOf(top, @), !.target = IdOf(top, @)]
      BY <2>1 DEF InsertedWires
    <3>2. v \in WiresOver(shapes, {request.flow} \cup {x.flow : x \in request.wires}, Nat, Nat)
      BY DocumentType
    <3>3. w.source = IdOf(top, v.source) /\ w.target = IdOf(top, v.target)
      BY <3>1, <3>2 DEF WiresOver
    <3>4. {w.source, w.target} \subseteq BlockIds
      BY <1>1, <1>3, <2>1 DEF Commits
    <3> QED
      BY <1>2, <3>1, <3>3, <3>4
  <2>2. wires' \subseteq wires \cup InsertedWires(drawn, top)
    BY <1>3 DEF Commits, ReplacedWires, CascadedWires
  <2> QED
    BY <2>1, <2>2 DEF RowsInv, TypeOK
<1> QED
  BY <1>3 DEF Commits, RowsInv, TypeOK

LEMMA ApplyKeepsRows ==
  ASSUME RowsInv, RequestOK, Apply
  PROVE  RowsInv' /\ request' = Idle /\ tainted' = (tainted \/ request.raced)
<1>0. request \in PlannedRequest
  BY RequestsAtWork DEF Apply
<1>1. PICK shapes \in DocumentShapes : \E drawn \in DocumentWires(shapes) :
         \E retuned, moved \in BOOLEAN : CommitDocument(shapes, drawn, retuned, moved)
  BY DEF Apply
<1>2. PICK drawn \in DocumentWires(shapes) :
         \E retuned, moved \in BOOLEAN : CommitDocument(shapes, drawn, retuned, moved)
  BY <1>1
<1>3. PICK retuned, moved : CommitDocument(shapes, drawn, retuned, moved)
  BY <1>2
<1>4. /\ \E top, late, written : Commits(shapes, drawn, top, late, written)
      /\ roles' = DocumentRoles(shapes)
      /\ IF ModelChanged(shapes, drawn, retuned) THEN TouchModel(request.flow)
                                                 ELSE moved /\ TouchLayout(request.flow)
      /\ request' = Idle
      /\ tainted' = (tainted \/ request.raced)
  BY <1>3, CommitTakenApart
<1>5. PICK top, late, written : Commits(shapes, drawn, top, late, written)
  BY <1>4
<1>6. request.flow \in Flows /\ TypeOK
  BY <1>0 DEF PlannedRequest, RowsInv
<1>7. modelStamp' \in [Flows -> Nat] /\ stamp' \in [Flows -> Nat]
  BY <1>4, <1>6, TouchModelType, TouchLayoutType
<1>8. /\ DOMAIN blocks' \subseteq BlockIds
      /\ \A b \in DOMAIN blocks' : blocks'[b] \in [flow: Flows, shape: Shapes]
      /\ Left(shapes) \subseteq DOMAIN blocks'
      /\ \A b \in Left(shapes) : blocks'[b].flow = blocks[b].flow
  <2>1. RowsCommitted(shapes, top, late, written)
    BY <1>0, <1>5, CommittedRows
  <2> QED
    BY <2>1 DEF RowsCommitted
<1>9. wires' \subseteq WireType
  BY <1>0, <1>5, CommittedWires
<1>10. \A g \in Flows : FlowBlocks(g) \ RemovedRows(shapes) \subseteq FlowBlocks(g)'
  BY <1>8 DEF FlowBlocks, Left
<1>11. roles' \in [Flows -> RoleType] /\ RolesNameLiveBlocks'
  <2>1. roles' = ClearedRoles(request.flow, Removed(shapes))
    BY <1>4 DEF DocumentRoles
  <2>2. /\ RemovedRows(shapes) \subseteq Removed(shapes)
        /\ RemovedRows(shapes) \subseteq FlowBlocks(request.flow)
    BY RemovedRowsAreLocal
  <2> QED
    BY <1>6, <1>10, <2>1, <2>2, ClearingRolesKeepsThemLive
<1>12. TypeOK'
  BY <1>7, <1>8, <1>9, <1>11 DEF TypeOK
<1> QED
  BY <1>4, <1>11, <1>12 DEF RowsInv

\* Rows and roles of another flowsheet are as they were, although the ids an
\* apply writes by may belong to them by now.
LEMMA CommittedElsewhere ==
  ASSUME RowsInv, request \in PlannedRequest, NEW shapes \in DocumentShapes,
         NEW drawn \in DocumentWires(shapes), NEW top, NEW late, NEW written,
         Commits(shapes, drawn, top, late, written), NEW g \in Flows \ {request.flow}
  PROVE  GraphOf(g, blocks') = GraphOf(g, blocks)
<1>1. RowsCommitted(shapes, top, late, written)
  BY CommittedRows
<1>2. \A b \in DOMAIN blocks : blocks[b].flow = g => b \in Left(shapes)
  BY DEF Left, RemovedRows, FlowBlocks
<1>3. {b \in DOMAIN blocks' : blocks'[b].flow = g} = {b \in DOMAIN blocks : blocks[b].flow = g}
  BY <1>1, <1>2 DEF Left, RowsCommitted
<1>4. \A b \in DOMAIN blocks : blocks[b].flow = g => blocks'[b] = blocks[b]
  BY <1>1, <1>2 DEF RowsCommitted
<1> QED
  BY <1>3, <1>4 DEF GraphOf

LEMMA ApplyStaysInItsFlowsheet ==
  ASSUME RowsInv, RequestOK, Apply, NEW g \in Flows \ {request.flow}
  PROVE  GraphOf(g, blocks') = GraphOf(g, blocks) /\ roles'[g] = roles[g]
<1>0. request \in PlannedRequest
  BY RequestsAtWork DEF Apply
<1>1. PICK shapes \in DocumentShapes : \E drawn \in DocumentWires(shapes) :
         \E retuned, moved \in BOOLEAN : CommitDocument(shapes, drawn, retuned, moved)
  BY DEF Apply
<1>2. PICK drawn \in DocumentWires(shapes) :
         \E retuned, moved \in BOOLEAN : CommitDocument(shapes, drawn, retuned, moved)
  BY <1>1
<1>3. /\ \E top, late, written : Commits(shapes, drawn, top, late, written)
      /\ roles' = DocumentRoles(shapes)
  BY <1>2, CommitTakenApart
<1>4. GraphOf(g, blocks') = GraphOf(g, blocks)
  BY <1>0, <1>3, CommittedElsewhere
<1>5. roles'[g] = roles[g]
  BY <1>0, <1>3 DEF DocumentRoles, ClearedRoles, RowsInv, TypeOK, PlannedRequest
<1> QED
  BY <1>4, <1>5

(***************************************************************************)
(* A commit over what was read                                             *)
(***************************************************************************)
\* Where a document's blocks are to be found once it is committed.
Stored(shapes, top) == [name \in DOMAIN shapes |-> IdOf(top, name)]

\* The flowsheet holds the document's blocks, each under its id, and no other.
GraphIsOfDocument(shapes, top) ==
    /\ IsEmbedding(Stored(shapes, top), shapes, GraphOf(request.flow, blocks'))
    /\ \A b \in DOMAIN GraphOf(request.flow, blocks') :
          \E name \in DOMAIN shapes : b = Stored(shapes, top)[name]

\* Every row the document keeps is there, holds what was read, and is written.
LEMMA UncontestedUpdates ==
  ASSUME RowsInv, request \in PlannedRequest, request.blocks = Graph(request.flow),
         NEW shapes \in DocumentShapes, NEW drawn \in DocumentWires(shapes),
         NEW top, NEW late, NEW written, Commits(shapes, drawn, top, late, written)
  PROVE  /\ late = DOMAIN shapes \ {NewBlock}
         /\ late = FlowBlocks(request.flow) \cap Left(shapes)
         /\ \A b \in late : written[b] = shapes[b]
         /\ RemovedRows(shapes) = Removed(shapes)
<1> DEFINE f == request.flow
           kept == DOMAIN shapes \ {NewBlock}
<1>1. /\ DOMAIN request.blocks = FlowBlocks(f)
      /\ \A b \in FlowBlocks(f) : request.blocks[b] = blocks[b].shape
  BY DEF Graph, GraphOf, FlowBlocks
<1>2. FlowBlocks(f) \subseteq BlockIds /\ NewBlock \notin BlockIds
  BY DEF FlowBlocks, RowsInv, TypeOK, NewBlock, BlockIds
<1>3. /\ DOMAIN shapes \subseteq FlowBlocks(f) \cup {NewBlock}
      /\ \A b \in Reshaped(shapes) : shapes[b].kind = request.blocks[b].kind
  BY <1>1, DocumentType
<1>4. RemovedRows(shapes) = Removed(shapes) /\ Removed(shapes) = FlowBlocks(f) \ DOMAIN shapes
  BY <1>1 DEF RemovedRows, Removed
<1>5. kept = FlowBlocks(f) \cap Left(shapes)
  BY <1>2, <1>3, <1>4 DEF Left, FlowBlocks
<1>6. RowsCommitted(shapes, top, late, written)
  BY CommittedRows
<1>7. DOMAIN AfterInsert(shapes, top) \subseteq BlockIds
  BY <1>6 DEF RowsCommitted
<1>8. \A b \in kept : b \in DOMAIN AfterInsert(shapes, top) /\ AfterInsert(shapes, top)[b] = blocks[b]
  BY <1>5 DEF AfterInsert
<1>9. Updated(shapes, top) = kept /\ Updated(shapes, top) \cap Left(shapes) = kept
  BY <1>2, <1>5, <1>7, <1>8 DEF Updated, FlowBlocks
<1>10. late = kept
  BY <1>9 DEF Commits
<1>11. ASSUME NEW b \in late PROVE written[b] = shapes[b]
  <2>1. b \in FlowBlocks(f) /\ b \in DOMAIN shapes /\ AfterInsert(shapes, top)[b] = blocks[b]
    BY <1>5, <1>8, <1>10
  <2>2. shapes[b].kind = blocks[b].shape.kind
    <3>1. CASE b \in Reshaped(shapes)
      BY <1>1, <1>3, <2>1, <3>1
    <3>2. CASE b \notin Reshaped(shapes)
      BY <1>1, <2>1, <3>2 DEF Reshaped
    <3> QED
      BY <3>1, <3>2
  <2>3. written[b] \in Overwritten(blocks[b], shapes[b])
    BY <2>1 DEF Commits
  <2> QED
    BY <2>2, <2>3 DEF Overwritten
<1> QED
  BY <1>4, <1>5, <1>10, <1>11

LEMMA UncontestedGraph ==
  ASSUME RowsInv, request \in PlannedRequest, request.blocks = Graph(request.flow),
         NEW shapes \in DocumentShapes, NEW drawn \in DocumentWires(shapes),
         NEW top, NEW late, NEW written, Commits(shapes, drawn, top, late, written)
  PROVE  GraphIsOfDocument(shapes, top)
<1> DEFINE f == request.flow
           m == Stored(shapes, top)
           more == GraphOf(f, blocks')
<1>1. /\ late = DOMAIN shapes \ {NewBlock}
      /\ late = FlowBlocks(f) \cap Left(shapes)
      /\ \A b \in late : written[b] = shapes[b]
  BY UncontestedUpdates
<1>2. RowsCommitted(shapes, top, late, written)
  BY CommittedRows
<1>3. NewBlock \in DOMAIN shapes <=> Added(shapes) = {NewBlock}
  BY DocumentType DEF Added
<1>4. ASSUME NEW b \in late
      PROVE  b \in DOMAIN more /\ more[b] = shapes[b] /\ m[b] = b
  <2>1. b \in Left(shapes) /\ b \in DOMAIN shapes /\ b # NewBlock
    BY <1>1
  <2>2. b \in DOMAIN blocks' /\ blocks'[b] = [flow |-> f, shape |-> shapes[b]]
    BY <1>1, <1>2, <2>1 DEF RowsCommitted
  <2>3. blocks'[b].flow = f /\ blocks'[b].shape = shapes[b]
    BY <2>2
  <2> QED
    BY <2>1, <2>2, <2>3 DEF GraphOf, Stored, IdOf
<1>5. ASSUME NewBlock \in DOMAIN shapes
      PROVE  /\ top + 1 \in DOMAIN more /\ more[top + 1] = shapes[NewBlock]
             /\ m[NewBlock] = top + 1 /\ top + 1 \notin late
  <2>1. Added(shapes) # {}
    BY <1>3, <1>5
  <2>2. top + 1 \in DOMAIN blocks' /\ top + 1 \notin late
    BY <1>1, <1>2, <2>1 DEF RowsCommitted
  <2>3. blocks'[top + 1] = [flow |-> f, shape |-> shapes[NewBlock]]
    BY <1>2, <2>1, <2>2 DEF RowsCommitted
  <2>4. blocks'[top + 1].flow = f /\ blocks'[top + 1].shape = shapes[NewBlock]
    BY <2>3
  <2>5. m[NewBlock] = top + 1
    BY <1>5 DEF Stored, IdOf
  <2> QED
    BY <2>2, <2>4, <2>5 DEF GraphOf
<1>6. ASSUME NEW b \in DOMAIN more
      PROVE  b \in late \/ (NewBlock \in DOMAIN shapes /\ b = top + 1)
  <2>1. b \in DOMAIN blocks' /\ blocks'[b].flow = f
    BY DEF GraphOf
  <2>2. CASE b \in Left(shapes)
    <3>1. blocks[b].flow = f /\ b \in DOMAIN blocks
      BY <1>2, <2>1, <2>2 DEF RowsCommitted, Left
    <3> QED
      BY <1>1, <2>2, <3>1 DEF FlowBlocks
  <2>3. CASE b \notin Left(shapes)
    BY <1>2, <1>3, <2>1, <2>3 DEF RowsCommitted
  <2> QED
    BY <2>2, <2>3
<1>7. DOMAIN m = DOMAIN shapes /\ m = [name \in DOMAIN shapes |-> m[name]]
  BY DEF Stored
<1> HIDE DEF m, more
<1>8. \A name \in DOMAIN shapes : m[name] \in DOMAIN more /\ more[m[name]] = shapes[name]
  BY <1>1, <1>4, <1>5
<1>9. \A b, c \in DOMAIN shapes : m[b] = m[c] => b = c
  BY <1>1, <1>4, <1>5
<1>10. \A b \in DOMAIN more : \E name \in DOMAIN shapes : b = m[name]
  BY <1>1, <1>4, <1>5, <1>6
<1>11. m \in [DOMAIN shapes -> DOMAIN more]
  BY <1>7, <1>8
<1> QED
  BY <1>8, <1>9, <1>10, <1>11 DEF GraphIsOfDocument, IsEmbedding, m, more

\* The flowsheet holds the document's wires between them and no other, and the
\* wires of the other flowsheets are as they were.
WiresAreOfDocument(shapes, drawn, top) ==
    /\ WiresOf(request.flow, wires') = {Moved(Stored(shapes, top), w) : w \in drawn}
    /\ \A g \in Flows \ {request.flow} : WiresOf(g, wires') = FlowWires(g)

LEMMA UncontestedDrawing ==
  ASSUME request \in PlannedRequest, request.wires = FlowWires(request.flow),
         NEW shapes \in DocumentShapes, NEW drawn \in DocumentWires(shapes)
  PROVE  drawn \in SUBSET WiresOver(shapes, {request.flow}, Nat, Nat)
<1> SUFFICES ASSUME NEW w \in drawn PROVE w \in WiresOver(shapes, {request.flow}, Nat, Nat)
  OBVIOUS
<1>1. w \in WiresOver(shapes, {request.flow} \cup {v.flow : v \in request.wires}, Nat, Nat)
  BY DocumentType
<1>2. \A v \in request.wires : v.flow = request.flow
  BY DEF FlowWires, WiresOf
<1> QED
  BY <1>1, <1>2 DEF WiresOver

LEMMA UncontestedWires ==
  ASSUME RowsInv, FlowsheetInv, request \in PlannedRequest,
         request.blocks = Graph(request.flow), request.wires = FlowWires(request.flow),
         NEW shapes \in DocumentShapes, NEW drawn \in DocumentWires(shapes),
         NEW top, NEW late, NEW written, Commits(shapes, drawn, top, late, written)
  PROVE  WiresAreOfDocument(shapes, drawn, top)
<1> DEFINE f == request.flow
           m == Stored(shapes, top)
           gone == RemovedRows(shapes)
<1>1. drawn \in SUBSET WiresOver(shapes, {f}, Nat, Nat)
  BY UncontestedDrawing
<1>2. f \in Flows /\ gone \in SUBSET FlowBlocks(f)
  BY RemovedRowsAreLocal DEF PlannedRequest
<1>3. ASSUME NEW w \in drawn
      PROVE  /\ Moved(m, w) = [w EXCEPT !.source = IdOf(top, @), !.target = IdOf(top, @)]
             /\ Moved(m, w).flow = f
  <2>1. w \in WiresOver(shapes, {f}, Nat, Nat)
    BY <1>1
  <2>2. m[w.source] = IdOf(top, w.source) /\ m[w.target] = IdOf(top, w.target)
    BY <2>1 DEF WiresOver, Stored
  <2> QED
    BY <2>1, <2>2 DEF Moved, WiresOver
<1>4. CASE Rewired(shapes, drawn)
  <2> DEFINE moved == {Moved(m, w) : w \in drawn}
  <2>1. InsertedWires(drawn, top) = moved
    BY <1>3 DEF InsertedWires
  <2>2. wires' = {w \in CascadedWires(gone) : w.flow # f} \cup moved
    BY <1>4, <2>1 DEF Commits, ReplacedWires
  <2>3. \A w \in moved : w.flow = f
    BY <1>3
  <2> HIDE DEF moved
  <2>4. WiresOf(f, wires') = moved
    BY <2>2, <2>3 DEF WiresOf
  <2>5. ASSUME NEW g \in Flows \ {f} PROVE WiresOf(g, wires') = FlowWires(g)
    <3>1. WiresOf(g, CascadedWires(gone)) = FlowWires(g)
      BY <1>2, CascadesStayHome
    <3> QED
      BY <2>2, <2>3, <3>1 DEF WiresOf
  <2> QED
    BY <2>4, <2>5 DEF WiresAreOfDocument, moved
<1>5. CASE ~Rewired(shapes, drawn)
  <2>1. wires' = wires /\ drawn = FlowWires(f) /\ Added(shapes) = {}
    BY <1>5 DEF Commits, Rewired
  <2>2. NewBlock \notin DOMAIN shapes
    BY <2>1, DocumentType
  <2>3. ASSUME NEW w \in drawn PROVE Moved(m, w) = w
    <3>1. w \in WiresOver(shapes, {f}, Nat, Nat)
      BY <1>1
    <3>2. IdOf(top, w.source) = w.source /\ IdOf(top, w.target) = w.target
      BY <2>2, <3>1 DEF WiresOver, IdOf
    <3> QED
      BY <1>3, <3>1, <3>2 DEF WiresOver
  <2>4. {Moved(m, w) : w \in drawn} = drawn
    BY <2>3
  <2> QED
    BY <2>1, <2>4 DEF WiresAreOfDocument, WiresOf, FlowWires
<1> QED
  BY <1>4, <1>5

\* A document's wires, moved to the rows its blocks have become, keep the rules there.
LEMMA DocumentKeepsRules ==
  ASSUME RowsInv, RulesHold, request \in PlannedRequest, NEW f, f = request.flow,
         NEW shapes \in DocumentShapes, NEW drawn \in DocumentWires(shapes), NEW top,
         request.wires = FlowWires(request.flow),
         GraphIsOfDocument(shapes, top), WiresAreOfDocument(shapes, drawn, top),
         RowsInv',
         \A g \in Flows \ {request.flow} : GraphOf(g, blocks') = Graph(g)
  PROVE  RulesHold'
<1> DEFINE m == Stored(shapes, top)
           more == GraphOf(f, blocks')
           moved == {Moved(m, w) : w \in drawn}
<1>1. drawn \in SUBSET WiresOver(shapes, {f}, Nat, Nat)
  BY UncontestedDrawing
<1>2. DocumentWiresValid(shapes, drawn)
  BY DocumentType
<1>3. IsEmbedding(m, shapes, more)
  BY DEF GraphIsOfDocument
<1>4. WiresOf(f, wires') = moved /\ \A g \in Flows \ {f} : WiresOf(g, wires') = FlowWires(g)
  BY DEF WiresAreOfDocument
<1>5. /\ wires' \subseteq WireType
      /\ \A b \in DOMAIN blocks' : blocks'[b] \in [flow: Flows, shape: Shapes]
      /\ DOMAIN blocks' \subseteq BlockIds
  BY DEF RowsInv, TypeOK
<1> HIDE DEF m
\* A drawn wire where it is stored.
<1>6. ASSUME NEW w \in drawn
      PROVE  /\ Moved(m, w).source = m[w.source] /\ Moved(m, w).target = m[w.target]
             /\ Moved(m, w).targetPort = w.targetPort
             /\ w.source \in DOMAIN shapes /\ w.target \in DOMAIN shapes
             /\ m[w.source] \in DOMAIN more /\ m[w.target] \in DOMAIN more
             /\ m[w.source] # m[w.target]
             /\ HasInputPort(more[m[w.target]], w.targetPort)
  <2>1. w \in WiresOver(shapes, {f}, Nat, Nat)
    BY <1>1
  <2>2. /\ Moved(m, w).source = m[w.source] /\ Moved(m, w).target = m[w.target]
        /\ Moved(m, w).targetPort = w.targetPort
        /\ w.source \in DOMAIN shapes /\ w.target \in DOMAIN shapes
        /\ m[w.source] \in DOMAIN more /\ m[w.target] \in DOMAIN more
        /\ more[m[w.target]] = shapes[w.target]
    BY <1>3, <2>1, MovedWires
  <2>3. w.source # w.target /\ HasInputPort(shapes[w.target], w.targetPort)
    BY <1>2 DEF DocumentWiresValid
  <2>4. m[w.source] # m[w.target]
    BY <1>3, <2>2, <2>3 DEF IsEmbedding
  <2> QED
    BY <2>2, <2>3, <2>4
<1>7. ASSUME NEW w \in wires'
      PROVE  \/ /\ w.flow = f
                /\ \E v \in drawn : w = Moved(m, v)
             \/ /\ w.flow \in Flows \ {f}
                /\ w \in wires
  <2>1. w.flow \in Flows
    BY <1>5 DEF WireType
  <2>2. CASE w.flow = f
    <3>1. w \in WiresOf(f, wires')
      BY <2>2 DEF WiresOf
    <3> QED
      BY <1>4, <2>2, <3>1
  <2>3. CASE w.flow # f
    <3>1. w \in WiresOf(w.flow, wires')
      BY DEF WiresOf
    <3>2. w \in FlowWires(w.flow)
      BY <1>4, <2>1, <2>3, <3>1
    <3> QED
      BY <2>1, <2>3, <3>2 DEF FlowWires, WiresOf
  <2> QED
    BY <2>2, <2>3
<1>8. \A g \in Flows : FlowBlocks(g)' = DOMAIN GraphOf(g, blocks')
  BY DEF FlowBlocks, GraphOf
<1>9. \A g \in Flows \ {f} : FlowBlocks(g)' = FlowBlocks(g)
  BY <1>8 DEF FlowBlocks, Graph, GraphOf
<1>10. FlowBlocks(f)' = DOMAIN more
  BY DEF FlowBlocks, GraphOf
<1>11. ASSUME NEW w \in wires'
       PROVE  w.source # w.target /\ {w.source, w.target} \subseteq FlowBlocks(w.flow)'
  <2>1. CASE w.flow = f /\ \E v \in drawn : w = Moved(m, v)
    BY <1>6, <1>10, <2>1
  <2>2. CASE w.flow \in Flows \ {f} /\ w \in wires
    BY <1>9, <2>2 DEF RulesHold, WiresJoinOwnBlocks
  <2> QED
    BY <1>7, <2>1, <2>2
<1>12. WiresJoinOwnBlocks'
  BY <1>11 DEF WiresJoinOwnBlocks, FlowBlocks
<1>13. WiresOnDeclaredInputPorts'
  <2> SUFFICES ASSUME NEW w \in wires'
               PROVE  HasInputPort(blocks'[w.target].shape, w.targetPort)
    BY DEF WiresOnDeclaredInputPorts
  <2>1. CASE w.flow = f /\ \E v \in drawn : w = Moved(m, v)
    <3>1. w.target \in DOMAIN more /\ HasInputPort(more[w.target], w.targetPort)
      BY <1>6, <2>1
    <3> QED
      BY <3>1 DEF GraphOf
  <2>2. CASE w.flow \in Flows \ {f} /\ w \in wires
    <3>1. w.target \in FlowBlocks(w.flow)
      BY <2>2 DEF RulesHold, WiresJoinOwnBlocks
    <3>2. w.target \in DOMAIN Graph(w.flow) /\ Graph(w.flow)[w.target] = blocks[w.target].shape
      BY <3>1 DEF Graph, GraphOf, FlowBlocks
    <3>3. GraphOf(w.flow, blocks')[w.target] = blocks'[w.target].shape
      BY <2>2, <3>2 DEF GraphOf
    <3>4. HasInputPort(blocks[w.target].shape, w.targetPort)
      BY <2>2, <3>1 DEF RulesHold, WiresOnDeclaredInputPorts, FlowBlocks
    <3> QED
      BY <2>2, <3>2, <3>3, <3>4
  <2> QED
    BY <1>7, <2>1, <2>2
<1>14. OneWirePerInputPort'
  <2> SUFFICES ASSUME NEW v \in wires', NEW w \in wires',
                      v.target = w.target, v.targetPort = w.targetPort
               PROVE  v = w
    BY DEF OneWirePerInputPort
  <2>1. v.flow = w.flow
    BY <1>11 DEF FlowBlocks
  <2>2. CASE w.flow = f
    <3>1. PICK x \in drawn : v = Moved(m, x)
      BY <1>7, <2>1, <2>2
    <3>2. PICK y \in drawn : w = Moved(m, y)
      BY <1>7, <2>2
    <3>3. x.target = y.target /\ x.targetPort = y.targetPort
      BY <1>3, <1>6, <3>1, <3>2 DEF IsEmbedding
    <3>4. x = y
      BY <1>2, <3>3 DEF DocumentWiresValid
    <3> QED
      BY <3>1, <3>2, <3>4
  <2>3. CASE w.flow # f
    <3>1. v \in wires /\ w \in wires
      BY <1>7, <2>1, <2>3
    <3> QED
      BY <3>1 DEF RulesHold, OneWirePerInputPort
  <2> QED
    BY <2>2, <2>3
<1>15. WidthsResolve(more, moved)
  <2>1. IsFiniteSet(DOMAIN more)
    <3>1. DOMAIN more \in SUBSET BlockIds
      BY <1>5 DEF GraphOf
    <3>2. IsFiniteSet(BlockIds)
      BY BoundsAssumption, FS_Interval DEF BlockIds
    <3> HIDE DEF more
    <3> QED
      BY <3>1, <3>2, FS_Subset
  <2>2. WidthsResolve(shapes, drawn)
    BY <1>2 DEF DocumentWiresValid
  <2> HIDE DEF more
  <2> QED
    BY <1>1, <1>3, <2>1, <2>2, ResolvesAlike
<1>16. \A g \in Flows : WidthsResolve(GraphOf(g, blocks'), WiresOf(g, wires'))
  BY <1>4, <1>15 DEF RulesHold, EveryFlowsheetLoads
<1>17. EveryFlowsheetLoads'
  BY <1>16 DEF EveryFlowsheetLoads, Graph, FlowWires
<1> QED
  BY <1>12, <1>13, <1>14, <1>17 DEF RulesHold

LEMMA ApplyKeepsInv ==
  ASSUME ApplyInv, Apply
  PROVE  ApplyInv'
<1>0. request \in PlannedRequest /\ request # Idle /\ request.stage = "planned"
  BY RequestsAtWork DEF Apply, ApplyInv
<1>1. RowsInv' /\ request' = Idle /\ tainted' = (tainted \/ request.raced)
  BY ApplyKeepsRows DEF ApplyInv
<1>2. PICK shapes \in DocumentShapes : \E drawn \in DocumentWires(shapes) :
         \E retuned, moved \in BOOLEAN : CommitDocument(shapes, drawn, retuned, moved)
  BY DEF Apply
<1>3. PICK drawn \in DocumentWires(shapes) :
         \E retuned, moved \in BOOLEAN : CommitDocument(shapes, drawn, retuned, moved)
  BY <1>2
<1>4. PICK top, late, written : Commits(shapes, drawn, top, late, written)
  BY <1>3, CommitTakenApart
<1>5. ASSUME ~tainted' PROVE RulesHold'
  <2>1. ~tainted /\ ~request.raced
    BY <1>1, <1>5
  <2>2. RowsInv /\ RulesHold /\ FlowsheetInv
    BY <2>1, RulesAndRowsAreFlowsheetInv DEF ApplyInv
  <2>3. request.blocks = Graph(request.flow) /\ request.wires = FlowWires(request.flow)
    BY <1>0, <2>1 DEF ApplyInv, SnapshotHolds
  <2>4. GraphIsOfDocument(shapes, top)
    BY <1>0, <1>4, <2>2, <2>3, UncontestedGraph
  <2>5. WiresAreOfDocument(shapes, drawn, top)
    BY <1>0, <1>4, <2>2, <2>3, UncontestedWires
  <2>6. \A g \in Flows \ {request.flow} : GraphOf(g, blocks') = Graph(g)
    BY <1>0, <1>4, <2>2, CommittedElsewhere DEF Graph
  <2> QED
    BY <1>0, <1>1, <2>2, <2>3, <2>4, <2>5, <2>6, DocumentKeepsRules
<1>6. RequestOK' /\ SnapshotHolds'
  BY <1>1 DEF RequestOK, SnapshotHolds
<1>7. tainted' \in BOOLEAN
  BY <1>0, <1>1 DEF ApplyInv, PlannedRequest
<1> QED
  BY <1>1, <1>5, <1>6, <1>7 DEF ApplyInv

LEMMA StepKeepsApplyInv ==
  ASSUME ApplyInv, [NextApply]_applyVars
  PROVE  ApplyInv'
  BY ReadBlocksKeepsInv, ReadWiresKeepsInv, EndApplyKeepsInv, ApplyKeepsInv, EditKeepsApplyInv,
     StutteringKeepsInv DEF NextApply

\* The inductive invariant holds of every store that documents are applied to while
\* it is edited.
THEOREM ApplyInvariantHolds == SpecApply => []ApplyInv
<1>1. ApplyInv /\ [NextApply]_applyVars => ApplyInv'
  BY StepKeepsApplyInv
<1> QED
  BY <1>1, InitEstablishesApplyInv, PTL DEF SpecApply

\* An apply keeps the types of what is stored, even when it writes by the ids of a
\* flowsheet that has changed under it.
THEOREM AppliesKeepTheTypes == SpecApply => []ApplyTypeOK
<1>1. ApplyInv => ApplyTypeOK
  BY DEF ApplyInv, RowsInv, RequestOK, ReadingRequest, PlannedRequest, Snapshots, ApplyTypeOK
<1> QED
  BY <1>1, ApplyInvariantHolds, PTL

\* Nor does it leave a role that names a block which is gone or another flowsheet's.
THEOREM AppliesKeepRolesLive == SpecApply => []RolesNameLiveBlocks
<1>1. ApplyInv => RolesNameLiveBlocks
  BY DEF ApplyInv, RowsInv
<1> QED
  BY <1>1, ApplyInvariantHolds, PTL

\* As long as no apply has overwritten an edit it had not read, all that the single
\* edits keep of the wires is kept: the plan, checked against the snapshot alone, is
\* then right for what is stored.
THEOREM UncontestedAppliesAreSafe == SpecApply => []UncontestedAppliesKeepTheRules
<1>1. ApplyInv => UncontestedAppliesKeepTheRules
  BY DEF ApplyInv, RulesHold, UncontestedAppliesKeepTheRules
<1> QED
  BY <1>1, ApplyInvariantHolds, PTL

(***************************************************************************)
(* What one apply does                                                     *)
(***************************************************************************)
\* A step in which a request ends is a commit or writes nothing.
LEMMA EndingARequest ==
  ASSUME ApplyInv, [NextApply]_applyVars, request # Idle, request' = Idle
  PROVE  Apply \/ UNCHANGED vars
<1>1. ~Edit
  BY EditKeepsRequest
<1> QED
  BY <1>1 DEF NextApply, ReadBlocks, ReadWires, EndApply, applyVars

\* Whatever it raced with, an apply writes blocks and roles of its own flowsheet only.
THEOREM AppliesStayHome == SpecApply => AppliesStayInTheirFlowsheet
<1>1. ASSUME ApplyInv, [NextApply]_applyVars, request # Idle, request' = Idle
      PROVE  \A g \in Flows \ {request.flow} : /\ GraphOf(g, blocks') = GraphOf(g, blocks)
                                               /\ roles'[g] = roles[g]
  <2>1. CASE Apply
    BY <1>1, <2>1, ApplyStaysInItsFlowsheet DEF ApplyInv
  <2>2. CASE UNCHANGED vars
    BY <2>2 DEF vars
  <2> QED
    BY <1>1, <2>1, <2>2, EndingARequest
<1> QED
  BY <1>1, ApplyInvariantHolds, PTL DEF SpecApply, AppliesStayInTheirFlowsheet

\* A commit over what was read that is planned as no model change changes no block and
\* no wire.
LEMMA UnchangedModelIsUnchanged ==
  ASSUME ApplyInv, Apply, ~request.raced
  PROVE  \/ TouchModel(request.flow)
         \/ /\ GraphOf(request.flow, blocks') = GraphOf(request.flow, blocks)
            /\ WiresOf(request.flow, wires') = WiresOf(request.flow, wires)
<1> DEFINE f == request.flow
<1>0. request \in PlannedRequest /\ request # Idle /\ request.stage = "planned"
  BY RequestsAtWork DEF Apply, ApplyInv
<1>1. RowsInv /\ request.blocks = Graph(f) /\ request.wires = FlowWires(f)
  BY <1>0 DEF ApplyInv, SnapshotHolds
<1>2. PICK shapes \in DocumentShapes : \E drawn \in DocumentWires(shapes) :
         \E retuned, moved \in BOOLEAN : CommitDocument(shapes, drawn, retuned, moved)
  BY DEF Apply
<1>3. PICK drawn \in DocumentWires(shapes) :
         \E retuned, moved \in BOOLEAN : CommitDocument(shapes, drawn, retuned, moved)
  BY <1>2
<1>4. PICK retuned, moved : CommitDocument(shapes, drawn, retuned, moved)
  BY <1>3
<1>5. PICK top, late, written : Commits(shapes, drawn, top, late, written)
  BY <1>4, CommitTakenApart
<1>6. CASE ModelChanged(shapes, drawn, retuned)
  BY <1>4, <1>6, CommitTakenApart
<1>7. CASE ~ModelChanged(shapes, drawn, retuned)
  <2>1. /\ ~Rewired(shapes, drawn) /\ Reshaped(shapes) = {}
        /\ Added(shapes) = {} /\ Removed(shapes) = {}
    BY <1>7 DEF ModelChanged, Rewired
  <2>2. WiresOf(f, wires') = WiresOf(f, wires)
    BY <1>5, <2>1 DEF Commits
  <2>3. DOMAIN shapes = DOMAIN Graph(f) /\ \A b \in DOMAIN shapes : shapes[b] = Graph(f)[b]
    BY <1>1, <2>1 DEF Added, Removed, Reshaped
  <2>4. NewBlock \notin DOMAIN shapes
    BY <1>0, <2>1, DocumentType
  <2>5. GraphIsOfDocument(shapes, top)
    BY <1>0, <1>1, <1>5, UncontestedGraph
  <2>6. \A b \in DOMAIN shapes : Stored(shapes, top)[b] = b
    BY <2>4 DEF Stored, IdOf
  <2>7. /\ DOMAIN GraphOf(f, blocks') = DOMAIN shapes
        /\ \A b \in DOMAIN shapes : GraphOf(f, blocks')[b] = shapes[b]
    BY <2>5, <2>6 DEF GraphIsOfDocument, IsEmbedding
  <2>8. GraphOf(f, blocks') = GraphOf(f, blocks)
    <3>1. DOMAIN GraphOf(f, blocks') = DOMAIN GraphOf(f, blocks)
      BY <2>3, <2>7 DEF Graph
    <3>2. \A b \in DOMAIN GraphOf(f, blocks) : GraphOf(f, blocks')[b] = GraphOf(f, blocks)[b]
      BY <2>3, <2>7 DEF Graph
    <3>3. GraphOf(f, blocks') = [b \in DOMAIN GraphOf(f, blocks') |-> GraphOf(f, blocks')[b]]
      BY DEF GraphOf
    <3>4. GraphOf(f, blocks) = [b \in DOMAIN GraphOf(f, blocks) |-> GraphOf(f, blocks)[b]]
      BY DEF GraphOf
    <3> QED
      BY <3>1, <3>2, <3>3, <3>4
  <2> QED
    BY <2>2, <2>8
<1> QED
  BY <1>6, <1>7

\* An apply that read what it overwrites and that changes a wire or a block moves the
\* model stamp of its flowsheet.
THEOREM UncontestedAppliesMoveTheStamp == SpecApply => UncontestedAppliesAreStamped
<1>1. ASSUME ApplyInv, [NextApply]_applyVars, request # Idle, request' = Idle, ~request.raced
      PROVE  LET f == request.flow
             IN  \/ modelStamp'[f] > modelStamp[f]
                 \/ /\ GraphOf(f, blocks') = GraphOf(f, blocks)
                    /\ WiresOf(f, wires') = WiresOf(f, wires)
  <2>1. CASE Apply
    <3>1. request \in PlannedRequest
      BY <1>1, <2>1, RequestsAtWork DEF Apply, ApplyInv
    <3>2. TouchModel(request.flow) => modelStamp'[request.flow] > modelStamp[request.flow]
      BY <1>1, <3>1 DEF PlannedRequest, TouchModel, ApplyInv, RowsInv, TypeOK
    <3> QED
      BY <1>1, <2>1, <3>2, UnchangedModelIsUnchanged
  <2>2. CASE UNCHANGED vars
    BY <2>2 DEF vars
  <2> QED
    BY <1>1, <2>1, <2>2, EndingARequest
<1> QED
  BY <1>1, ApplyInvariantHolds, PTL DEF SpecApply, UncontestedAppliesAreStamped
===============================================================================
