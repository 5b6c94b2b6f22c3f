---------------------------- MODULE DocumentApply ----------------------------
(***************************************************************************)
(* `flow apply`: replacing a flowsheet by a declarative document while     *)
(* other requests go on editing (internal/studio/document.go, ApplyFlow).  *)
(*                                                                         *)
(* ApplyFlow reads a snapshot outside any transaction, in two statements   *)
(* (loadModelGraph), checks and plans the document against it, and writes  *)
(* the plan in a transaction that looks neither at the flowsheet's         *)
(* revision nor at how many rows its statements touched.  Other requests'  *)
(* transactions, the actions of Flowsheet, fall between the three steps.   *)
(*                                                                         *)
(* A document names its blocks.  In the model a block of the snapshot is   *)
(* named by its id and a new block is NewBlock.                            *)
(***************************************************************************)
EXTENDS Flowsheet

CONSTANTS
    MaxEdits,  \* bound: how many blocks a document changes, adds and removes
    MayAdd     \* bound: whether documents add blocks at all; one each, if so

ASSUME EditsAssumption == MaxEdits \in Nat /\ MayAdd \in BOOLEAN

NewBlock == 0

VARIABLES
    request,  \* the apply under way, or Idle
    tainted   \* history: an apply was committed over an edit it had not read

applyVars == <<vars, request, tainted>>

Idle == [stage |-> "idle"]

InitApply == Init /\ request = Idle /\ tainted = FALSE

(***************************************************************************)
(* The document                                                            *)
(***************************************************************************)
\* validateDocumentWires and validateDocumentSignalWidths.
DocumentWiresValid(shapes, drawn) ==
    /\ \A w \in drawn : /\ {w.source, w.target} \subseteq DOMAIN shapes
                        /\ w.source # w.target
                        /\ HasOutputPort(shapes[w.source], w.sourcePort)
                        /\ HasInputPort(shapes[w.target], w.targetPort)
    /\ \A v, w \in drawn : v.target = w.target /\ v.targetPort = w.targetPort => v = w
    /\ WidthsResolve(shapes, drawn)

Removed(shapes)  == DOMAIN request.blocks \ DOMAIN shapes
Reshaped(shapes) == {b \in DOMAIN request.blocks \cap DOMAIN shapes :
                        shapes[b] # request.blocks[b]}
Added(shapes)    == DOMAIN shapes \ DOMAIN request.blocks

\* Faulty variant: a document that only rewires counts as a layout change.
ModelChangedByBlocks(shapes, drawn, retuned) ==
    Added(shapes) # {} \/ Removed(shapes) # {} \/ Reshaped(shapes) # {} \/ retuned

\* planDocument: whether the wires are to be replaced, and whether anything a
\* simulation depends on changes.  `retuned` stands for parameter changes that
\* leave every shape as it was.
Rewired(shapes, drawn) ==
    drawn # request.wires \/ Added(shapes) # {} \/ Removed(shapes) # {}
ModelChanged(shapes, drawn, retuned) ==
    Rewired(shapes, drawn) \/ Reshaped(shapes) # {} \/ retuned

\* The documents the model tries: at most MaxEdits blocks changed, added or
\* removed, one wire drawn at most.  A block that keeps its name keeps its kind
\* (prepareDocument).
DocumentShapes ==
    {shapes \in UNION {[names -> Shapes] :
                         names \in SUBSET (DOMAIN request.blocks \cup {NewBlock})} :
        /\ NewBlock \in DOMAIN shapes => MayAdd
        /\ \A b \in Reshaped(shapes) : shapes[b].kind = request.blocks[b].kind
        /\ Cardinality(Removed(shapes) \cup Reshaped(shapes) \cup Added(shapes)) <= MaxEdits}

DocumentWires(shapes) ==
    LET kept == {w \in request.wires : {w.source, w.target} \subseteq DOMAIN shapes}
        new  == UNION {{[flow |-> request.flow, source |-> s, sourcePort |-> p,
                         target |-> t, targetPort |-> q] :
                           p \in 0..(shapes[s].outputs - 1), q \in 0..(shapes[t].inputs - 1)} :
                         s, t \in DOMAIN shapes}
    IN  {drawn \in {stay \cup more : stay \in SUBSET kept, more \in {{}} \cup {{w} : w \in new}} :
            DocumentWiresValid(shapes, drawn)}

(***************************************************************************)
(* The request                                                             *)
(***************************************************************************)
ReadBlocks(f) ==
    /\ request = Idle
    /\ request' = [stage |-> "blocks", flow |-> f, blocks |-> Graph(f), raced |-> FALSE]
    /\ UNCHANGED <<vars, tainted>>

\* `snapshot` returns nothing when the widths of what it read do not resolve.
ReadWires ==
    /\ request.stage = "blocks"
    /\ WidthsResolve(request.blocks, FlowWires(request.flow))
    /\ request' = [stage |-> "planned", flow |-> request.flow, blocks |-> request.blocks,
                   wires |-> FlowWires(request.flow), raced |-> request.raced]
    /\ UNCHANGED <<vars, tainted>>

\* The snapshot or the document is refused, nothing is to change, it is a dry
\* run, the transaction fails and is rolled back, or the client goes away.
EndApply ==
    /\ request # Idle
    /\ request' = Idle
    /\ UNCHANGED <<vars, tainted>>

\* Faulty variant: the deletes are not confined to the flowsheet.
RemovedRowsAnywhere(shapes) == Removed(shapes) \cap DOMAIN blocks

\* DELETE FROM blocks WHERE id = ? AND flow_id = ?.
RemovedRows(shapes) == Removed(shapes) \cap FlowBlocks(request.flow)

\* Faulty variant: the old wires stay when new ones are inserted.
ReplacedWiresKept(gone, inserted) == CascadedWires(gone) \cup inserted

\* DELETE FROM connections WHERE flow_id = ?, and the document's wires instead.
ReplacedWires(gone, inserted) ==
    {w \in CascadedWires(gone) : w.flow # request.flow} \cup inserted

\* Faulty variant: the role specification outlives the blocks it names.
DocumentRolesKept(shapes) == roles

\* clearControlRoleSpecForBlocks with the ids of the removed blocks.
DocumentRoles(shapes) == ClearedRoles(request.flow, Removed(shapes))

\* The shapes a row may have once it holds parameters meant for `shape`.  It
\* keeps its kind; what its ports become when the parameters are another kind's
\* is left open.
Overwritten(row, shape) ==
    IF shape.kind = row.shape.kind THEN {shape}
    ELSE {x \in Shapes : x.kind = row.shape.kind}

\* applyDocumentTx.  The statements go by the ids of the snapshot: a row that is
\* gone is updated to no effect, and a row that has its id since, in the same
\* flowsheet, is updated in its place.
CommitDocument(shapes, drawn, retuned, moved) ==
    LET f    == request.flow
        gone == RemovedRows(shapes)
        left == DOMAIN blocks \ gone
        new  == Added(shapes)
    IN \E top \in 0..(MaxBlockId - Cardinality(new)) :
        LET idOf(name)  == IF name = NewBlock THEN top + 1 ELSE name
            inserted    == {[w EXCEPT !.source = idOf(@), !.target = idOf(@)] : w \in drawn}
            afterInsert == [b \in left \cup {idOf(name) : name \in new} |->
                              IF b \in left THEN blocks[b]
                              ELSE [flow |-> f, shape |-> shapes[NewBlock]]]
            \* A new row that was given the id of a vanished block of the document
            \* is updated too, if that block comes later in the document.
            updated     == {b \in DOMAIN shapes \cap DOMAIN afterInsert :
                               afterInsert[b].flow = f}
        IN /\ \A b \in left : b <= top
           /\ top = 0 \/ top \in left
           /\ \E late \in {updated, updated \cap left} : \E written \in [late -> Shapes] :
                /\ \A b \in late : written[b] \in Overwritten(afterInsert[b], shapes[b])
                /\ blocks' = [b \in DOMAIN afterInsert |->
                                IF b \in late THEN [flow |-> f, shape |-> written[b]]
                                ELSE afterInsert[b]]
           /\ IF Rewired(shapes, drawn)
              THEN /\ \A w \in inserted : {w.source, w.target} \subseteq DOMAIN afterInsert
                   /\ Cardinality(inserted) = Cardinality(drawn)
                   /\ wires' = ReplacedWires(gone, inserted)
              ELSE UNCHANGED wires
           /\ roles' = DocumentRoles(shapes)
           /\ IF ModelChanged(shapes, drawn, retuned) THEN TouchModel(f)
                                                      ELSE moved /\ TouchLayout(f)
           /\ request' = Idle
           /\ tainted' = (tainted \/ request.raced)

Apply ==
    /\ request.stage = "planned"
    /\ \E shapes \in DocumentShapes : \E drawn \in DocumentWires(shapes) :
         \E retuned, moved \in BOOLEAN : CommitDocument(shapes, drawn, retuned, moved)

\* Another request commits.
Edit ==
    /\ Next
    /\ request' =
         IF request = Idle THEN Idle
         ELSE LET f == request.flow
              IN [request EXCEPT !.raced = @ \/ GraphOf(f, blocks') # GraphOf(f, blocks)
                                             \/ WiresOf(f, wires') # WiresOf(f, wires)]
    /\ UNCHANGED tainted

NextApply ==
    \/ \E f \in Flows : ReadBlocks(f)
    \/ ReadWires
    \/ EndApply
    \/ Apply
    \/ Edit

SpecApply == InitApply /\ [][NextApply]_applyVars

(***************************************************************************)
(* Properties                                                              *)
(***************************************************************************)
\* The types of the store and of the request.
ApplyTypeOK ==
    /\ TypeOK
    /\ tainted \in BOOLEAN
    /\ request # Idle =>
         /\ request.stage \in {"blocks", "planned"}
         /\ request.flow \in Flows
         /\ DOMAIN request.blocks \subseteq BlockIds
         /\ \A b \in DOMAIN request.blocks : request.blocks[b] \in Shapes
         /\ request.stage = "planned" => request.wires \subseteq WireType

\* As long as no apply was committed over an edit it had not read, applying
\* documents keeps all that the single edits keep: wires join blocks of their own
\* flowsheet, arrive at declared ports, one to a port, and every flowsheet loads.
UncontestedAppliesKeepTheRules ==
    ~tainted => /\ WiresJoinOwnBlocks
                /\ WiresOnDeclaredInputPorts
                /\ OneWirePerInputPort
                /\ EveryFlowsheetLoads

\* Whatever it raced with, an apply writes blocks and roles of its own flowsheet
\* only, although the ids it writes by may belong to another flowsheet by now.
AppliesStayInTheirFlowsheet ==
    [][request # Idle /\ request' = Idle =>
         \A g \in Flows \ {request.flow} : /\ GraphOf(g, blocks') = GraphOf(g, blocks)
                                           /\ roles'[g] = roles[g]]_applyVars

\* An apply that read what it overwrites and that changes a wire or a block
\* moves the model stamp of its flowsheet.
UncontestedAppliesAreStamped ==
    [][request # Idle /\ request' = Idle /\ ~request.raced =>
         LET f == request.flow
         IN  \/ modelStamp'[f] > modelStamp[f]
             \/ /\ GraphOf(f, blocks') = GraphOf(f, blocks)
                /\ WiresOf(f, wires') = WiresOf(f, wires)]_applyVars
=============================================================================
