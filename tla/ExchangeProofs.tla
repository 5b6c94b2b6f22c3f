----------------------------- MODULE ExchangeProofs -----------------------------
(***************************************************************************)
(* What TLAPS proves of the exchange of commands and server: every command *)
(* of Commands keeps to a discipline (WellScripted), every route of Routes *)
(* to another (Reading, Writing), and with the two the account of a client *)
(* - where its command stands, what it was told, how often its change was  *)
(* made - stays in order whatever others do and whatever is lost.  And     *)
(* whatever clients do, the database opens as StoreProofs shows.           *)
(***************************************************************************)
EXTENDS Exchange, StoreProofs

(***************************************************************************)
(* Things inside each other                                                *)
(***************************************************************************)
Inside == {"app", "project", "flow", "block", "wire"}

\* A thing with those it is in, and what is left when one is taken away.
Around(thing) ==
    {Things[i] : i \in {j \in DOMAIN Things : \E k \in DOMAIN Things : Things[k] = thing /\ j <= k}}
Left(thing) == {Things[i] : i \in {j \in DOMAIN Things : \A k \in 1..j : Things[k] # thing}}

LEMMA ThingsInOrder ==
    /\ DOMAIN Things = 1..5
    /\ Things[1] = "app" /\ Things[2] = "project" /\ Things[3] = "flow"
    /\ Things[4] = "block" /\ Things[5] = "wire"
BY DEF Things

LEMMA ThingsAround ==
    \A thing :
        /\ thing \in Around("app") <=> thing = "app"
        /\ thing \in Around("project") <=> thing \in {"app", "project"}
        /\ thing \in Around("flow") <=> thing \in {"app", "project", "flow"}
        /\ thing \in Around("block") <=> thing \in {"app", "project", "flow", "block"}
        /\ thing \in Around("wire") <=> thing \in Inside
<1>1. \A i \in 1..5 : i = 1 \/ i = 2 \/ i = 3 \/ i = 4 \/ i = 5
  OBVIOUS
<1> QED BY <1>1, ThingsInOrder DEF Around, Inside

LEMMA ThingsLeft ==
    \A thing :
        /\ thing \notin Left("app")
        /\ thing \in Left("project") <=> thing = "app"
        /\ thing \in Left("flow") <=> thing \in {"app", "project"}
        /\ thing \in Left("block") <=> thing \in {"app", "project", "flow"}
        /\ thing \in Left("wire") <=> thing \in {"app", "project", "flow", "block"}
<1>1. \A i \in 1..5 : i = 1 \/ i = 2 \/ i = 3 \/ i = 4 \/ i = 5
  OBVIOUS
<1> QED BY <1>1, ThingsInOrder DEF Left

(***************************************************************************)
(* Routes                                                                  *)
(***************************************************************************)
Phases == {"check", "read", "commit", "put", "show"}
Committing == {"commit", "put"}
Mutates(route) == \E p \in DOMAIN route.does : route.does[p] \in Committing

IsRoute(route) ==
    /\ route.does \in Seq(Phases)
    /\ route.on \in Inside /\ route.shows \in Inside
    /\ route.drops \subseteq {"nothing"} \cup Inside
    /\ route.writes \subseteq Aspects
    /\ route.reads \subseteq {"name", "values"}
    /\ route.reads # {} => route.does # << >> /\ route.does[1] = "read"

Reading(route) == IsRoute(route) /\ ~Mutates(route) /\ route.writes = {}

\* What a change of the route leaves there.
Spares(route, thing) ==
    /\ thing \in Around(route.on)
    /\ \A gone \in route.drops : gone = "nothing" \/ thing \in Left(gone)

\* The one phase that changes something is followed by what the answer shows; a
\* candidate is stored last.
ChangesOnce(does) ==
    \E p \in DOMAIN does :
        /\ does[p] \in Committing
        /\ \A q \in DOMAIN does : q # p => does[q] \notin Committing
        /\ \A q \in DOMAIN does : q > p => does[q] = "show"
        /\ does[p] = "put" => p = Len(does)

Names(route) == IsRoute(route) /\ route.writes # {} /\ Spares(route, route.shows)
Writing(route) == Names(route) /\ ChangesOnce(route.does)

\* These routes only look.
LEMMA ReadingRoutes ==
    \A route \in {ProjectListAPI, ProjectDetailAPI, FlowListAPI, FlowDetailAPI,
                 FlowDocumentDumpAPI, BlockLibraryAPI, BlockSchemaAPI, BlockListAPI,
                 BlockDetailAPI, WireListAPI, SimulationShowAPI, SimulationHistoryAPI,
                 SimulationRunShowAPI, AnalysisShowAPI, EventsAPI, ParameterSweepRunAPI,
                 ModelStudyAPI, IdentificationEstimateAPI, IdentificationERAAPI,
                 NonlinearDefinitionShowAPI, NonlinearLinearizeAPI, NonlinearEKFAPI,
                 ControllerCandidateShowAPI, Page, ProjectPage, ProjectFlowPage, Workbench,
                 SimulationCSV, ExportResults, GetControlRoles} :
        Reading(route)
<1>1. Reading(ProjectListAPI) /\ Reading(ProjectDetailAPI) /\ Reading(FlowListAPI) /\
      Reading(FlowDetailAPI) /\ Reading(FlowDocumentDumpAPI) /\ Reading(BlockLibraryAPI) /\
      Reading(BlockSchemaAPI) /\ Reading(BlockListAPI)
  BY DEF Reading, ProjectListAPI, Shows, Route, ProjectDetailAPI, FlowListAPI,
  FlowDetailAPI, FlowDocumentDumpAPI, BlockLibraryAPI, BlockSchemaAPI, BlockListAPI,
  IsRoute, Spares, Committing, Phases, Inside, Mutates, Aspects
<1>2. Reading(BlockDetailAPI) /\ Reading(WireListAPI) /\ Reading(SimulationShowAPI) /\
      Reading(SimulationHistoryAPI) /\ Reading(SimulationRunShowAPI) /\
      Reading(AnalysisShowAPI) /\ Reading(EventsAPI) /\ Reading(ParameterSweepRunAPI)
  BY DEF Reading, BlockDetailAPI, Reports, Shows, Route, SnapshotBlockByID, WireListAPI,
  SimulationShowAPI, SimulationHistoryAPI, SimulationRunShowAPI, AnalysisShowAPI, EventsAPI,
  ParameterSweepRunAPI, IsRoute, Spares, Committing, Phases, Inside, Mutates, Aspects
<1>3. Reading(ModelStudyAPI) /\ Reading(IdentificationEstimateAPI) /\
      Reading(IdentificationERAAPI) /\ Reading(NonlinearDefinitionShowAPI) /\
      Reading(NonlinearLinearizeAPI) /\ Reading(NonlinearEKFAPI) /\
      Reading(ControllerCandidateShowAPI) /\ Reading(Page)
  BY DEF Reading, ModelStudyAPI, Shows, Route, IdentificationEstimateAPI,
  IdentificationERAAPI, NonlinearDefinitionShowAPI, NonlinearLinearizeAPI, NonlinearEKFAPI,
  ControllerCandidateShowAPI, Page, IsRoute, Spares, Committing, Phases, Inside, Mutates,
  Aspects
<1>4. Reading(ProjectPage) /\ Reading(ProjectFlowPage) /\ Reading(Workbench) /\
      Reading(SimulationCSV) /\ Reading(ExportResults) /\ Reading(GetControlRoles)
  BY DEF Reading, ProjectPage, Shows, Route, ProjectFlowPage, RequestWorkbenchView,
  Workbench, Reports, RenderWorkbench, SimulationCSV, ExportResults, GetControlRoles,
  IsRoute, Spares, Committing, Phases, Inside, Mutates, Aspects
<1> QED BY <1>1, <1>2, <1>3, <1>4

LEMMA DesignPhases ==
    LET does == DesignRoute.does
    IN  /\ does \in Seq(Phases) /\ Len(does) = 6 /\ does[6] = "put"
        /\ \A q \in 1..5 : does[q] # "put" /\ does[q] # "commit"
<1>1. DesignRoute.does = <<"check", "read", "check", "read", "check">> \o <<"put">>
  BY DEF DesignRoute, Route, StoreControllerCandidate
<1> QED BY <1>1 DEF Phases

\* These change the store once, and answer with what is still there.
LEMMA WritingRoutes ==
    \A route \in {ProjectCreateAPI, ProjectRenameAPI, ProjectDeleteAPI, FlowCreateAPI,
                 FlowRenameAPI, FlowDuplicateAPI, FlowReorderAPI, FlowDeleteAPI,
                 FlowDocumentApplyAPI, AddBlockAPI, UpdateBlockAPI, MoveBlockAPI,
                 MoveBlocksAPI, DeleteBlockAPI, DeleteBlocksAPI, DuplicateBlocksAPI,
                 WireConnectAPI, WireDisconnectAPI, WireDisconnectBlockAPI,
                 SimulationRunAPI, AnalysisRunAPI, NonlinearDefinitionRegisterAPI,
                 DesignRoute, ControllerCandidateApplyAPI, ControllerCandidateUndoAPI,
                 CreateProject, RenameProject, DeleteProject, CreateFlow, RenameFlow,
                 DuplicateFlow, ReorderFlows, DeleteFlow, AddBlock, UpdateBlock, FlipBlock,
                 MoveBlock, MoveBlocks, DeleteBlock, DeleteBlocks, DuplicateBlocks, Connect,
                 Disconnect, DisconnectBlock, RunSimulation, RunAnalysis,
                 AssignControlRoles, ApplyControllerCandidate, UndoControllerCandidate} :
        Writing(route)
<1>1. ChangesOnce(ProjectCreateAPI.does) /\ ChangesOnce(ProjectRenameAPI.does) /\
      ChangesOnce(ProjectDeleteAPI.does) /\ ChangesOnce(FlowCreateAPI.does) /\
      ChangesOnce(FlowRenameAPI.does) /\ ChangesOnce(FlowDuplicateAPI.does)
  BY DEF ChangesOnce, Committing, ProjectCreateAPI, Route, ProjectRenameAPI,
  ProjectDeleteAPI, Removes, FlowCreateAPI, FlowRenameAPI, FlowDuplicateAPI
<1>2. Names(ProjectCreateAPI) /\ Names(ProjectRenameAPI) /\ Names(ProjectDeleteAPI) /\
      Names(FlowCreateAPI) /\ Names(FlowRenameAPI) /\ Names(FlowDuplicateAPI)
  BY ThingsAround, ThingsLeft DEF Names, IsRoute, Spares, Phases, Inside, Aspects,
  ProjectCreateAPI, Route, ProjectRenameAPI, ProjectDeleteAPI, Removes, FlowCreateAPI,
  FlowRenameAPI, FlowDuplicateAPI
<1>3. ChangesOnce(FlowReorderAPI.does) /\ ChangesOnce(FlowDeleteAPI.does) /\
      ChangesOnce(FlowDocumentApplyAPI.does) /\ ChangesOnce(AddBlockAPI.does) /\
      ChangesOnce(UpdateBlockAPI.does) /\ ChangesOnce(MoveBlockAPI.does)
  BY DEF ChangesOnce, Committing, FlowReorderAPI, Route, FlowDeleteAPI, Removes,
  FlowDocumentApplyAPI, MayRemove, AddBlockAPI, UpdateBlockAPI, MoveBlockAPI
<1>4. Names(FlowReorderAPI) /\ Names(FlowDeleteAPI) /\ Names(FlowDocumentApplyAPI) /\
      Names(AddBlockAPI) /\ Names(UpdateBlockAPI) /\ Names(MoveBlockAPI)
  BY ThingsAround, ThingsLeft DEF Names, IsRoute, Spares, Phases, Inside, Aspects,
  FlowReorderAPI, Route, FlowDeleteAPI, Removes, FlowDocumentApplyAPI, MayRemove,
  AddBlockAPI, UpdateBlockAPI, MoveBlockAPI
<1>5. ChangesOnce(MoveBlocksAPI.does) /\ ChangesOnce(DeleteBlockAPI.does) /\
      ChangesOnce(DeleteBlocksAPI.does) /\ ChangesOnce(DuplicateBlocksAPI.does) /\
      ChangesOnce(WireConnectAPI.does) /\ ChangesOnce(WireDisconnectAPI.does)
  BY DEF ChangesOnce, Committing, MoveBlocksAPI, Route, DeleteBlockAPI, Removes,
  DeleteBlocksAPI, MayRemove, DuplicateBlocksAPI, WireConnectAPI, WireDisconnectAPI,
  SnapshotConnectionByID
<1>6. Names(MoveBlocksAPI) /\ Names(DeleteBlockAPI) /\ Names(DeleteBlocksAPI) /\
      Names(DuplicateBlocksAPI) /\ Names(WireConnectAPI) /\ Names(WireDisconnectAPI)
  BY ThingsAround, ThingsLeft DEF Names, IsRoute, Spares, Phases, Inside, Aspects,
  MoveBlocksAPI, Route, DeleteBlockAPI, Removes, DeleteBlocksAPI, MayRemove,
  DuplicateBlocksAPI, WireConnectAPI, WireDisconnectAPI, SnapshotConnectionByID
<1>7. ChangesOnce(WireDisconnectBlockAPI.does) /\ ChangesOnce(SimulationRunAPI.does) /\
      ChangesOnce(AnalysisRunAPI.does) /\ ChangesOnce(NonlinearDefinitionRegisterAPI.does)
      /\ ChangesOnce(DesignRoute.does) /\ ChangesOnce(ControllerCandidateApplyAPI.does)
  BY DesignPhases DEF ChangesOnce, Committing, WireDisconnectBlockAPI, MayRemove, Route,
  SnapshotBlockByID, SimulationRunAPI, AnalysisRunAPI, NonlinearDefinitionRegisterAPI,
  DesignRoute, StoreControllerCandidate, ControllerCandidateApplyAPI
<1>8. Names(WireDisconnectBlockAPI) /\ Names(SimulationRunAPI) /\ Names(AnalysisRunAPI) /\
      Names(NonlinearDefinitionRegisterAPI) /\ Names(DesignRoute) /\
      Names(ControllerCandidateApplyAPI)
  BY ThingsAround, ThingsLeft DEF Names, IsRoute, Spares, Phases, Inside, Aspects,
  WireDisconnectBlockAPI, MayRemove, Route, SnapshotBlockByID, SimulationRunAPI,
  AnalysisRunAPI, NonlinearDefinitionRegisterAPI, DesignRoute, StoreControllerCandidate,
  ControllerCandidateApplyAPI
<1>9. ChangesOnce(ControllerCandidateUndoAPI.does) /\ ChangesOnce(CreateProject.does) /\
      ChangesOnce(RenameProject.does) /\ ChangesOnce(DeleteProject.does) /\
      ChangesOnce(CreateFlow.does) /\ ChangesOnce(RenameFlow.does)
  BY DEF ChangesOnce, Committing, ControllerCandidateUndoAPI, Route, CreateProject,
  RenameProject, RenderRegisterRows, DeleteProject, Removes, CreateFlow, RenameFlow,
  RequestWorkbenchView
<1>10. Names(ControllerCandidateUndoAPI) /\ Names(CreateProject) /\ Names(RenameProject) /\
      Names(DeleteProject) /\ Names(CreateFlow) /\ Names(RenameFlow)
  BY ThingsAround, ThingsLeft DEF Names, IsRoute, Spares, Phases, Inside, Aspects,
  ControllerCandidateUndoAPI, Route, CreateProject, RenameProject, RenderRegisterRows,
  DeleteProject, Removes, CreateFlow, RenameFlow, RequestWorkbenchView
<1>11. ChangesOnce(DuplicateFlow.does) /\ ChangesOnce(ReorderFlows.does) /\
      ChangesOnce(DeleteFlow.does) /\ ChangesOnce(AddBlock.does) /\
      ChangesOnce(UpdateBlock.does) /\ ChangesOnce(FlipBlock.does)
  BY DEF ChangesOnce, Committing, DuplicateFlow, Route, RequestWorkbenchView, ReorderFlows,
  DeleteFlow, Removes, AddBlock, RenderWorkbench, UpdateBlock, FlipBlock
<1>12. Names(DuplicateFlow) /\ Names(ReorderFlows) /\ Names(DeleteFlow) /\ Names(AddBlock) /\
      Names(UpdateBlock) /\ Names(FlipBlock)
  BY ThingsAround, ThingsLeft DEF Names, IsRoute, Spares, Phases, Inside, Aspects,
  DuplicateFlow, Route, RequestWorkbenchView, ReorderFlows, DeleteFlow, Removes, AddBlock,
  RenderWorkbench, UpdateBlock, FlipBlock
<1>13. ChangesOnce(MoveBlock.does) /\ ChangesOnce(MoveBlocks.does) /\
      ChangesOnce(DeleteBlock.does) /\ ChangesOnce(DeleteBlocks.does) /\
      ChangesOnce(DuplicateBlocks.does) /\ ChangesOnce(Connect.does)
  BY DEF ChangesOnce, Committing, MoveBlock, Route, MoveBlocks, DeleteBlock, Removes,
  RenderWorkbench, RequestWorkbenchView, DeleteBlocks, MayRemove, DuplicateBlocks, Connect
<1>14. Names(MoveBlock) /\ Names(MoveBlocks) /\ Names(DeleteBlock) /\ Names(DeleteBlocks) /\
      Names(DuplicateBlocks) /\ Names(Connect)
  BY ThingsAround, ThingsLeft DEF Names, IsRoute, Spares, Phases, Inside, Aspects,
  MoveBlock, Route, MoveBlocks, DeleteBlock, Removes, RenderWorkbench, RequestWorkbenchView,
  DeleteBlocks, MayRemove, DuplicateBlocks, Connect
<1>15. ChangesOnce(Disconnect.does) /\ ChangesOnce(DisconnectBlock.does) /\
      ChangesOnce(RunSimulation.does) /\ ChangesOnce(RunAnalysis.does) /\
      ChangesOnce(AssignControlRoles.does) /\ ChangesOnce(ApplyControllerCandidate.does)
  BY DEF ChangesOnce, Committing, Disconnect, Removes, Route, RenderWorkbench,
  RequestWorkbenchView, DisconnectBlock, MayRemove, RunSimulation, RunAnalysis,
  AssignControlRoles, ApplyControllerCandidate
<1>16. Names(Disconnect) /\ Names(DisconnectBlock) /\ Names(RunSimulation) /\
      Names(RunAnalysis) /\ Names(AssignControlRoles) /\ Names(ApplyControllerCandidate)
  BY ThingsAround, ThingsLeft DEF Names, IsRoute, Spares, Phases, Inside, Aspects,
  Disconnect, Removes, Route, RenderWorkbench, RequestWorkbenchView, DisconnectBlock,
  MayRemove, RunSimulation, RunAnalysis, AssignControlRoles, ApplyControllerCandidate
<1>17. ChangesOnce(UndoControllerCandidate.does)
  BY DEF ChangesOnce, Committing, UndoControllerCandidate, Route, RenderWorkbench,
  RequestWorkbenchView
<1>18. Names(UndoControllerCandidate)
  BY ThingsAround, ThingsLeft DEF Names, IsRoute, Spares, Phases, Inside, Aspects,
  UndoControllerCandidate, Route, RenderWorkbench, RequestWorkbenchView
<1> QED BY <1>1, <1>2, <1>3, <1>4, <1>5, <1>6, <1>7, <1>8, <1>9, <1>10, <1>11, <1>12, <1>13,
  <1>14, <1>15, <1>16, <1>17, <1>18 DEF Writing

(***************************************************************************)
(* Commands                                                                *)
(***************************************************************************)
Asks(item)     == item.kind = "ask"
IsChange(item) == Asks(item) /\ Writing(item.route)

IsItem(item) ==
    \/ item.kind = "exit" /\ item.code \in {"1", "2"}
    \/ Asks(item) /\ (Reading(item.route) \/ Writing(item.route))
                  /\ item.refusal \subseteq {"0", "1"}

\* What is asked after a change cannot be refused unless somebody took away what it is about.
Follows(change, item) ==
    /\ Asks(item)
    /\ \A p \in DOMAIN item.route.does : item.route.does[p] \in {"read", "show"}
    /\ Spares(change.route, item.route.on) /\ Spares(change.route, item.route.shows)
    /\ \A p \in DOMAIN change.route.does : change.route.does[p] # "put"

\* What is sent along with a change was asked for before.
ChangesAt(command, m) ==
    LET script == command.script
    IN  /\ IsChange(script[m])
        /\ \A i \in DOMAIN script : i # m => ~IsChange(script[i])
        /\ \A i \in DOMAIN script : Asks(script[i]) => script[i].refusal = {"1"}
        /\ \A i \in DOMAIN script : i > m => Follows(script[m], script[i])
        /\ \A a \in script[m].route.writes \ command.changes :
             \E i \in 1..(m - 1) : Asks(script[i]) /\ a \in script[i].route.reads

WellScripted(command) ==
    LET script == command.script
    IN  /\ command.changes \subseteq Aspects
        /\ Len(script) \in Nat \ {0} /\ DOMAIN script = 1..Len(script)
        /\ \A i \in DOMAIN script : IsItem(script[i])
        /\ IF command.changes = {} THEN \A i \in DOMAIN script : ~IsChange(script[i])
           ELSE \E m \in DOMAIN script : ChangesAt(command, m)

LEMMA ReadingChangesNothing == \A route : Reading(route) => ~Writing(route)
BY DEF Reading, Writing, Mutates, ChangesOnce

LEMMA Items ==
    /\ \A route : Asks(Ask(route)) /\ Ask(route).route = route /\ Ask(route).refusal = {"1"}
    /\ \A route : Reading(route) => IsItem(Ask(route)) /\ ~IsChange(Ask(route))
    /\ \A route : Writing(route) => IsItem(Ask(route)) /\ IsChange(Ask(route))
    /\ IsItem(Usage) /\ ~Asks(Usage) /\ ~IsChange(Usage)
    /\ IsItem(Fails) /\ ~Asks(Fails) /\ ~IsChange(Fails)
BY ReadingChangesNothing DEF Asks, Ask, IsItem, IsChange, Usage, Fails, MayExit

LEMMA OneQuestion ==
    ASSUME NEW route, Reading(route)
    PROVE  WellScripted(Query(route))
<1> DEFINE command == Query(route)
<1>1. command.changes = {} /\ Len(command.script) = 2 /\ DOMAIN command.script = 1..2
      /\ command.script[1] = Usage /\ command.script[2] = Ask(route)
  BY DEF Query, Command, NewAPIClient
<1> HIDE DEF command
<1>2. WellScripted(command)
  BY <1>1, Items DEF WellScripted
<1> QED BY <1>2 DEF command

LEMMA OneChange ==
    ASSUME NEW route, Writing(route), NEW changes, changes \subseteq Aspects,
           route.writes \subseteq changes
    PROVE  WellScripted(Command(changes, <<Ask(route)>>))
<1> DEFINE command == Command(changes, <<Ask(route)>>)
<1>1. command.changes = changes /\ Len(command.script) = 2 /\ DOMAIN command.script = 1..2
      /\ command.script[1] = Usage /\ command.script[2] = Ask(route)
  BY DEF Command, NewAPIClient
<1>2. changes # {}
  BY DEF Writing, Names
<1> HIDE DEF command
<1>3. ChangesAt(command, 2)
  BY <1>1, Items DEF ChangesAt
<1>4. WellScripted(command)
  BY <1>1, <1>2, <1>3, Items DEF WellScripted
<1> QED BY <1>4 DEF command

LEMMA ARequest ==
    ASSUME NEW route, Reading(route) \/ Writing(route)
    PROVE  WellScripted(Request(route))
<1>1. CASE Reading(route)
  <2>1. Request(route) = Query(route)
    BY <1>1 DEF Request, Query, Reading
  <2> QED BY <1>1, <2>1, OneQuestion
<1>2. CASE Writing(route)
  <2>1. route.writes \subseteq Aspects
    BY <1>2 DEF Writing, Names, IsRoute
  <2> QED BY <1>2, <2>1, OneChange DEF Request
<1> QED BY <1>1, <1>2

LEMMA RunFlowDeleteIsWellScripted == WellScripted(RunFlowDelete)
<1> DEFINE script == RunFlowDelete.script
<1>1. /\ RunFlowDelete.changes = {"sheets"}
      /\ Len(script) = 4 /\ DOMAIN script = 1..4
      /\ script[1] = Usage /\ script[2] = Ask(FlowDetailAPI)
      /\ script[3] = Fails /\ script[4] = Ask(FlowDeleteAPI)
  BY DEF RunFlowDelete, Command, NewAPIClient, RunWorkspaceAction
<1>2. Reading(FlowDetailAPI) /\ Writing(FlowDeleteAPI)
  BY ReadingRoutes, WritingRoutes
<1>3. ChangesAt(RunFlowDelete, 4)
  BY <1>1, <1>2, Items DEF ChangesAt, FlowDeleteAPI, Route, Removes, MayRemove
<1> QED BY <1>1, <1>2, <1>3, Items DEF WellScripted, Aspects

LEMMA RunFlowApplyIsWellScripted == WellScripted(RunFlowApply)
<1> DEFINE script == RunFlowApply.script
<1>1. /\ RunFlowApply.changes = {"blocks", "name", "values", "layout", "wires", "roles"}
      /\ Len(script) = 4 /\ DOMAIN script = 1..4
      /\ script[1] = Usage /\ script[2] = Fails
      /\ script[3] = Usage /\ script[4] = Ask(FlowDocumentApplyAPI)
  BY DEF RunFlowApply, Command, NewAPIClient
<1>2. Writing(FlowDocumentApplyAPI)
  BY ReadingRoutes, WritingRoutes
<1>3. ChangesAt(RunFlowApply, 4)
  BY <1>1, <1>2, Items DEF ChangesAt, FlowDocumentApplyAPI, Route, Removes, MayRemove
<1> QED BY <1>1, <1>2, <1>3, Items DEF WellScripted, Aspects

LEMMA RunBlockHelpIsWellScripted == WellScripted(RunBlockHelp)
<1> DEFINE script == RunBlockHelp.script
<1>1. /\ RunBlockHelp.changes = {}
      /\ Len(script) = 4 /\ DOMAIN script = 1..4
      /\ script[1] = Usage /\ script[2] = Ask(BlockLibraryAPI)
      /\ script[3] = Usage /\ script[4] = Ask(BlockSchemaAPI)
  BY DEF RunBlockHelp, Command, NewAPIClient, RequestBlockLibrary, RequestBlockSchema
<1>2. Reading(BlockLibraryAPI) /\ Reading(BlockSchemaAPI)
  BY ReadingRoutes
<1> QED BY <1>1, <1>2, Items DEF WellScripted

LEMMA RunBlockAddIsWellScripted == WellScripted(RunBlockAdd)
<1> DEFINE script == RunBlockAdd.script
<1>1. /\ RunBlockAdd.changes = {"blocks"}
      /\ Len(script) = 6 /\ DOMAIN script = 1..6
      /\ script[1] = Usage /\ script[2] = Ask(BlockLibraryAPI)
      /\ script[3] = Usage /\ script[4] = Ask(BlockSchemaAPI)
      /\ script[5] = Usage /\ script[6] = Ask(AddBlockAPI)
  BY DEF RunBlockAdd, Command, NewAPIClient, RequestBlockLibrary, RequestBlockSchema
<1>2. Reading(BlockLibraryAPI) /\ Reading(BlockSchemaAPI) /\ Writing(AddBlockAPI)
  BY ReadingRoutes, WritingRoutes
<1>3. ChangesAt(RunBlockAdd, 6)
  BY <1>1, <1>2, Items DEF ChangesAt, AddBlockAPI, Route, Removes, MayRemove
<1> QED BY <1>1, <1>2, <1>3, Items DEF WellScripted, Aspects

LEMMA RunBlockSetIsWellScripted == WellScripted(RunBlockSet)
<1> DEFINE script == RunBlockSet.script
<1>1. /\ RunBlockSet.changes = {"values"}
      /\ Len(script) = 5 /\ DOMAIN script = 1..5
      /\ script[1] = Usage /\ script[2] = Ask(BlockDetailAPI)
      /\ script[3] = Ask(BlockSchemaAPI) /\ script[4] = Usage
      /\ script[5] = Ask(UpdateBlockAPI)
  BY DEF RunBlockSet, Command, NewAPIClient, RequestBlock, RequestBlockSchema
<1>2. Reading(BlockDetailAPI) /\ Reading(BlockSchemaAPI) /\ Writing(UpdateBlockAPI)
  BY ReadingRoutes, WritingRoutes
<1>3. ChangesAt(RunBlockSet, 5)
  BY <1>1, <1>2, Items DEF ChangesAt, UpdateBlockAPI, Route, Removes, MayRemove,
    BlockDetailAPI, Reports, Shows
<1> QED BY <1>1, <1>2, <1>3, Items DEF WellScripted, Aspects

LEMMA RunRolesSetIsWellScripted == WellScripted(RunRolesSet)
<1> DEFINE script == RunRolesSet.script
<1>1. /\ RunRolesSet.changes = {"roles"}
      /\ Len(script) = 5 /\ DOMAIN script = 1..5
      /\ script[1] = Usage /\ script[2] = Ask(BlockListAPI)
      /\ script[3] = Ask(WireListAPI) /\ script[4] = Fails
      /\ script[5] = Ask(AssignControlRoles)
  BY DEF RunRolesSet, Command, NewAPIClient, GetRoleBlocks, GetRoleWires, PutRoles
<1>2. Reading(BlockListAPI) /\ Reading(WireListAPI) /\ Writing(AssignControlRoles)
  BY ReadingRoutes, WritingRoutes
<1>3. ChangesAt(RunRolesSet, 5)
  BY <1>1, <1>2, Items DEF ChangesAt, AssignControlRoles, Route, Removes, MayRemove
<1> QED BY <1>1, <1>2, <1>3, Items DEF WellScripted, Aspects

LEMMA ExportedResultsIsWellScripted == WellScripted(ExportedResults)
<1> DEFINE script == ExportedResults.script
<1>1. /\ ExportedResults.changes = {}
      /\ Len(script) = 3 /\ DOMAIN script = 1..3
      /\ script[1] = Usage /\ script[2] = Ask(ExportResults)
      /\ script[3] = Fails
  BY DEF ExportedResults, Command, NewAPIClient
<1>2. Reading(ExportResults)
  BY ReadingRoutes
<1> QED BY <1>1, <1>2, Items DEF WellScripted

LEMMA RunSweepRunIsWellScripted == WellScripted(RunSweepRun)
<1> DEFINE script == RunSweepRun.script
<1>1. /\ RunSweepRun.changes = {}
      /\ Len(script) = 7 /\ DOMAIN script = 1..7
      /\ script[1] = Usage /\ script[2] = Ask(BlockDetailAPI)
      /\ script[3] = Ask(BlockSchemaAPI) /\ script[4] = Usage
      /\ script[5] = Fails /\ script[6] = Usage
      /\ script[7] = Ask(ParameterSweepRunAPI)
  BY DEF RunSweepRun, Command, NewAPIClient, ParseSweepAxes, RequestBlock, RequestBlockSchema
<1>2. Reading(BlockDetailAPI) /\ Reading(BlockSchemaAPI) /\ Reading(ParameterSweepRunAPI)
  BY ReadingRoutes
<1> QED BY <1>1, <1>2, Items DEF WellScripted

LEMMA RunIdentEstimateIsWellScripted == WellScripted(RunIdentEstimate)
<1> DEFINE script == RunIdentEstimate.script
<1>1. /\ RunIdentEstimate.changes = {}
      /\ Len(script) = 4 /\ DOMAIN script = 1..4
      /\ script[1] = Usage /\ script[2] = Fails
      /\ script[3] = Usage /\ script[4] = Ask(IdentificationEstimateAPI)
  BY DEF RunIdentEstimate, Command, NewAPIClient
<1>2. Reading(IdentificationEstimateAPI)
  BY ReadingRoutes
<1> QED BY <1>1, <1>2, Items DEF WellScripted

LEMMA RunIdentERAIsWellScripted == WellScripted(RunIdentERA)
<1> DEFINE script == RunIdentERA.script
<1>1. /\ RunIdentERA.changes = {}
      /\ Len(script) = 4 /\ DOMAIN script = 1..4
      /\ script[1] = Usage /\ script[2] = Fails
      /\ script[3] = Usage /\ script[4] = Ask(IdentificationERAAPI)
  BY DEF RunIdentERA, Command, NewAPIClient
<1>2. Reading(IdentificationERAAPI)
  BY ReadingRoutes
<1> QED BY <1>1, <1>2, Items DEF WellScripted

LEMMA RunNonlinearRegisterIsWellScripted == WellScripted(RunNonlinearRegister)
<1> DEFINE script == RunNonlinearRegister.script
<1>1. /\ RunNonlinearRegister.changes = {"library"}
      /\ Len(script) = 3 /\ DOMAIN script = 1..3
      /\ script[1] = Usage /\ script[2] = Usage
      /\ script[3] = Ask(NonlinearDefinitionRegisterAPI)
  BY DEF RunNonlinearRegister, Command, NewAPIClient
<1>2. Writing(NonlinearDefinitionRegisterAPI)
  BY ReadingRoutes, WritingRoutes
<1>3. ChangesAt(RunNonlinearRegister, 3)
  BY <1>1, <1>2, Items DEF ChangesAt, NonlinearDefinitionRegisterAPI, Route, Removes, MayRemove
<1> QED BY <1>1, <1>2, <1>3, Items DEF WellScripted, Aspects

LEMMA RunNonlinearLinearizeIsWellScripted == WellScripted(RunNonlinearLinearize)
<1> DEFINE script == RunNonlinearLinearize.script
<1>1. /\ RunNonlinearLinearize.changes = {}
      /\ Len(script) = 3 /\ DOMAIN script = 1..3
      /\ script[1] = Usage /\ script[2] = Usage
      /\ script[3] = Ask(NonlinearLinearizeAPI)
  BY DEF RunNonlinearLinearize, Command, NewAPIClient
<1>2. Reading(NonlinearLinearizeAPI)
  BY ReadingRoutes
<1> QED BY <1>1, <1>2, Items DEF WellScripted

LEMMA RunNonlinearEKFIsWellScripted == WellScripted(RunNonlinearEKF)
<1> DEFINE script == RunNonlinearEKF.script
<1>1. /\ RunNonlinearEKF.changes = {}
      /\ Len(script) = 5 /\ DOMAIN script = 1..5
      /\ script[1] = Usage /\ script[2] = Ask(NonlinearDefinitionShowAPI)
      /\ script[3] = Usage /\ script[4] = Fails
      /\ script[5] = Ask(NonlinearEKFAPI)
  BY DEF RunNonlinearEKF, Command, NewAPIClient
<1>2. Reading(NonlinearDefinitionShowAPI) /\ Reading(NonlinearEKFAPI)
  BY ReadingRoutes
<1> QED BY <1>1, <1>2, Items DEF WellScripted

LEMMA RunControllerTuneIsWellScripted == WellScripted(RunControllerTune)
<1> DEFINE script == RunControllerTune.script
<1>1. /\ RunControllerTune.changes = {"candidate"}
      /\ Len(script) = 5 /\ DOMAIN script = 1..5
      /\ script[1] = Usage /\ script[2] = Ask(GetControlRoles)
      /\ script[3] = Fails /\ script[4] = Usage
      /\ script[5] = Ask(DesignRoute)
  BY DEF RunControllerTune, Command, NewAPIClient, GetRoles, PostControllerCandidate,
    ControllerCandidateTuningAPI
<1>2. Reading(GetControlRoles) /\ Writing(DesignRoute)
  BY ReadingRoutes, WritingRoutes
<1>3. ChangesAt(RunControllerTune, 5)
  <2>1. DesignRoute.writes = {"candidate"}
    BY DEF DesignRoute, Route
  <2> QED BY <2>1, <1>1, <1>2, Items DEF ChangesAt
<1> QED BY <1>1, <1>2, <1>3, Items DEF WellScripted, Aspects

LEMMA RunControllerApplyIsWellScripted == WellScripted(RunControllerApply)
<1> DEFINE script == RunControllerApply.script
<1>1. /\ RunControllerApply.changes = {"values", "candidate"}
      /\ Len(script) = 6 /\ DOMAIN script = 1..6
      /\ script[1] = Usage /\ script[2] = Ask(FlowListAPI)
      /\ script[3] = Ask(ControllerCandidateShowAPI) /\ script[4] = Ask(BlockListAPI)
      /\ script[5] = Ask(ControllerCandidateApplyAPI) /\ script[6] = Ask(BlockListAPI)
  BY DEF RunControllerApply, Command, NewAPIClient, RunControllerAction,
    FindControllerCandidate, GetControllerBlocks, RequestControllerCandidate
<1>2. Reading(FlowListAPI) /\ Reading(ControllerCandidateShowAPI) /\ Reading(BlockListAPI)
      /\ Writing(ControllerCandidateApplyAPI)
  BY ReadingRoutes, WritingRoutes
<1>3. ChangesAt(RunControllerApply, 5)
  <2>1. Follows(Ask(ControllerCandidateApplyAPI), Ask(BlockListAPI))
    BY Items, ThingsAround DEF Follows, Spares, ControllerCandidateApplyAPI, BlockListAPI,
      Shows, Route
  <2> QED BY <2>1, <1>1, <1>2, Items DEF ChangesAt, ControllerCandidateApplyAPI, Route,
    Removes, MayRemove
<1> QED BY <1>1, <1>2, <1>3, Items DEF WellScripted, Aspects

LEMMA RunControllerUndoIsWellScripted == WellScripted(RunControllerUndo)
<1> DEFINE script == RunControllerUndo.script
<1>1. /\ RunControllerUndo.changes = {"values", "candidate"}
      /\ Len(script) = 6 /\ DOMAIN script = 1..6
      /\ script[1] = Usage /\ script[2] = Ask(FlowListAPI)
      /\ script[3] = Ask(ControllerCandidateShowAPI) /\ script[4] = Ask(BlockListAPI)
      /\ script[5] = Ask(ControllerCandidateUndoAPI) /\ script[6] = Ask(BlockListAPI)
  BY DEF RunControllerUndo, Command, NewAPIClient, RunControllerAction,
    FindControllerCandidate, GetControllerBlocks, RequestControllerCandidate
<1>2. Reading(FlowListAPI) /\ Reading(ControllerCandidateShowAPI) /\ Reading(BlockListAPI)
      /\ Writing(ControllerCandidateUndoAPI)
  BY ReadingRoutes, WritingRoutes
<1>3. ChangesAt(RunControllerUndo, 5)
  <2>1. Follows(Ask(ControllerCandidateUndoAPI), Ask(BlockListAPI))
    BY Items, ThingsAround DEF Follows, Spares, ControllerCandidateUndoAPI, BlockListAPI,
      Shows, Route
  <2> QED BY <2>1, <1>1, <1>2, Items DEF ChangesAt, ControllerCandidateUndoAPI, Route,
    Removes, MayRemove
<1> QED BY <1>1, <1>2, <1>3, Items DEF WellScripted, Aspects

LEMMA EditBlockOnPageIsWellScripted == WellScripted(EditBlockOnPage)
<1> DEFINE script == EditBlockOnPage.script
<1>1. /\ EditBlockOnPage.changes = {"values"}
      /\ Len(script) = 3 /\ DOMAIN script = 1..3
      /\ script[1] = Usage /\ script[2] = Ask(Workbench)
      /\ script[3] = Ask(UpdateBlock)
  BY DEF EditBlockOnPage, Command, NewAPIClient
<1>2. Reading(Workbench) /\ Writing(UpdateBlock)
  BY ReadingRoutes, WritingRoutes
<1>3. ChangesAt(EditBlockOnPage, 3)
  BY <1>1, <1>2, Items DEF ChangesAt, UpdateBlock, Route, Removes, MayRemove, Workbench,
    Reports, Shows
<1> QED BY <1>1, <1>2, <1>3, Items DEF WellScripted, Aspects

LEMMA RunRolesShowIsWellScripted == WellScripted(RunRolesShow)
<1> DEFINE script == RunRolesShow.script
<1>1. /\ RunRolesShow.changes = {}
      /\ Len(script) = 3 /\ DOMAIN script = 1..3
      /\ script[1] = Usage /\ script[2] = AskIfAny(GetControlRoles)
      /\ script[3] = Ask(BlockListAPI)
  BY DEF RunRolesShow, Command, NewAPIClient, GetRoleBlocks
<1>2. Reading(GetControlRoles) /\ Reading(BlockListAPI)
  BY ReadingRoutes
<1>3. IsItem(AskIfAny(GetControlRoles)) /\ ~IsChange(AskIfAny(GetControlRoles))
  BY <1>2, ReadingChangesNothing DEF IsItem, IsChange, Asks, AskIfAny
<1> QED BY <1>1, <1>2, <1>3, Items DEF WellScripted

\* Every command of the clients keeps to this discipline.
LEMMA CommandsAreWellScripted == \A command \in AllCommands : WellScripted(command)
<1>1. WellScripted(RunProjectList) /\ WellScripted(RunProjectShow) /\
      WellScripted(RunFlowList) /\ WellScripted(RunFlowShow) /\ WellScripted(RunFlowDump) /\
      WellScripted(RunBlockList) /\ WellScripted(RunWireList) /\
      WellScripted(RunSimulationShow) /\ WellScripted(RunAnalyzeChannels) /\
      WellScripted(RunAnalyzeShow) /\ WellScripted(RunStudyShow) /\ WellScripted(LogEvents)
      /\ WellScripted(RunControllerReview)
  BY ReadingRoutes, OneQuestion DEF RunProjectList, RunProjectShow, RunFlowList,
  RunFlowShow, RunFlowDump, RunBlockList, RunWireList, RunSimulationShow,
  RunAnalyzeChannels, RunAnalyzeShow, RunStudyShow, LogEvents, RunControllerReview
<1>0. WellScripted(RunBlockShow)
  BY ReadingRoutes, OneQuestion DEF RunBlockShow, RequestBlock, Query
<1>2. WellScripted(RunProjectCreate) /\ WellScripted(RunProjectRename) /\
      WellScripted(RunProjectDelete) /\ WellScripted(RunFlowCreate) /\
      WellScripted(RunFlowRename) /\ WellScripted(RunFlowDuplicate) /\
      WellScripted(RunFlowReorder)
  <2>1. Writing(ProjectCreateAPI) /\ Writing(ProjectRenameAPI) /\ Writing(ProjectDeleteAPI)
        /\ Writing(FlowCreateAPI) /\ Writing(FlowRenameAPI) /\ Writing(FlowDuplicateAPI) /\
        Writing(FlowReorderAPI)
    BY WritingRoutes
  <2> QED
    BY <2>1, OneChange DEF RunProjectCreate, RunWorkspaceAction, RunProjectRename,
    RunProjectDelete, RunFlowCreate, RunFlowRename, RunFlowDuplicate, RunFlowReorder,
    ProjectCreateAPI, Route, ProjectRenameAPI, ProjectDeleteAPI, Removes, FlowCreateAPI,
    FlowRenameAPI, FlowDuplicateAPI, FlowReorderAPI, MayRemove, Aspects
<1>3. WellScripted(RunBlockMove) /\ WellScripted(RunBlockDelete) /\
      WellScripted(RunBlockDuplicate) /\ WellScripted(RunWireConnect) /\
      WellScripted(RemoveWire(WireDisconnectAPI)) /\
      WellScripted(RemoveWire(WireDisconnectBlockAPI))
  <2>1. Writing(MoveBlocksAPI) /\ Writing(DeleteBlocksAPI) /\ Writing(DuplicateBlocksAPI) /\
        Writing(WireConnectAPI) /\ Writing(WireDisconnectAPI) /\
        Writing(WireDisconnectBlockAPI)
    BY WritingRoutes
  <2> QED
    BY <2>1, OneChange DEF RunBlockMove, RunBlockDelete, RunBlockIDsAction,
    RunBlockDuplicate, RunWireConnect, RemoveWire, MoveBlocksAPI, Route, DeleteBlocksAPI,
    MayRemove, DuplicateBlocksAPI, WireConnectAPI, WireDisconnectAPI, Removes,
    WireDisconnectBlockAPI, Aspects
<1>4. WellScripted(RunSimulationRun) /\ WellScripted(RunAnalyzeRun) /\
      WellScripted(RunControllerPID) /\ WellScripted(RunControllerStateFeedback) /\
      WellScripted(RunControllerEstimator) /\ WellScripted(RunControllerObserver) /\
      WellScripted(RunControllerRobust)
  <2>1. Writing(SimulationRunAPI) /\ Writing(AnalysisRunAPI) /\ Writing(DesignRoute)
    BY WritingRoutes
  <2>2. DesignRoute.writes = {"candidate"}
    BY DEF DesignRoute, Route
  <2> QED
    BY <2>1, <2>2, OneChange DEF RunSimulationRun, RunAnalyzeRun, RunControllerPID,
    PostControllerCandidate, RunControllerStateFeedback, RunControllerEstimator,
    RunControllerObserver, RunControllerRobust, SimulationRunAPI, Route, AnalysisRunAPI,
    ControllerCandidatePIDAPI, ControllerCandidateStateFeedbackAPI,
    ControllerCandidateEstimatorAPI, ControllerCandidateStateAPI,
    ControllerCandidateRobustAPI, Removes, MayRemove, Aspects
<1>5. \A command \in CommandTree : WellScripted(command)
  BY <1>0, <1>1, <1>2, <1>3, <1>4, RunFlowDeleteIsWellScripted, RunFlowApplyIsWellScripted,
  RunBlockHelpIsWellScripted, RunBlockAddIsWellScripted, RunBlockSetIsWellScripted,
  RunRolesSetIsWellScripted, ExportedResultsIsWellScripted, RunSweepRunIsWellScripted,
  RunIdentEstimateIsWellScripted, RunIdentERAIsWellScripted,
  RunNonlinearRegisterIsWellScripted, RunNonlinearLinearizeIsWellScripted,
  RunNonlinearEKFIsWellScripted, RunControllerTuneIsWellScripted,
  RunControllerApplyIsWellScripted, RunControllerUndoIsWellScripted,
  RunRolesShowIsWellScripted DEF CommandTree, RunWireRemove
<1>6. \A command \in PageActions \cup OtherRequests : WellScripted(command)
  BY ReadingRoutes, WritingRoutes, ARequest DEF PageActions, OtherRequests,
     DesignPIDCandidate, DesignStateCandidate, DesignRobustCandidate
<1> QED BY <1>5, <1>6, EditBlockOnPageIsWellScripted DEF AllCommands

(***************************************************************************)
(* The accounts of a client: what its command, its request and the answers *)
(* it had say of the changes made for it                                   *)
(***************************************************************************)
Codes  == {"none", "0", "1", "2", "3"}
States == {"none", "working", "ok", "refused", "lost"}
Started == AllCommands \cup {Query(BlockLibraryAPI)}
Ended   == {Command(changes, << >>) : changes \in SUBSET Aspects}
ClientRecords == [command : Started \cup Ended, step : Nat, exit : Codes]
Requests == [state : States, phase : Nat]

Now(k) == k.command.script[k.step]

\* Whether its change has been made, by where its command stands.
Made(k, r) ==
    \/ \E i \in 1..(k.step - 1) : IsChange(k.command.script[i])
    \/ r.state = "working" /\ \E p \in 1..(r.phase - 1) : Now(k).route.does[p] \in Committing
    \/ r.state = "ok" /\ IsChange(Now(k))

Counted(k, r, n, x) ==
    /\ n \in {0, 1} /\ (n = 1 => k.command.changes # {})
    /\ r.state \in {"none", "working", "ok"} => (n = 1 <=> Made(k, r))
    /\ r.state = "refused" => n = 0 \/ x

\* What its change answered with, and was to be asked about afterwards, is there.
Kept(command, there) ==
    \A m \in DOMAIN command.script :
        LET change == command.script[m].route
        IN  /\ IsChange(command.script[m])
            /\ \A p \in DOMAIN change.does : change.does[p] # "put"
            => /\ change.shows \in there
               /\ \A i \in DOMAIN command.script :
                    i > m => /\ command.script[i].route.on \in there
                             /\ command.script[i].route.shows \in there

\* What the answers of the first i questions said is still so.
KnownUpTo(k, s, by, i) ==
    \A j \in 1..i : Asks(k.command.script[j]) =>
        \A a \in k.command.script[j].route.reads : s[a] = by[a]

Known(k, r, s, by) ==
    KnownUpTo(k, s, by,
        IF r.state = "ok" \/ (r.state = "working" /\ r.phase > 1) THEN k.step ELSE k.step - 1)

Underway(k, r, s, n, x, sh) ==
    /\ WellScripted(k.command) /\ k.step \in DOMAIN k.command.script
    /\ k.exit = "none" \/ (k.exit = "3" /\ r.state = "working")
    /\ IF r.state = "none" THEN r = NoRequest ELSE Asks(Now(k))
    /\ r.state = "working" => r.phase \in DOMAIN Now(k).route.does
    /\ Counted(k, r, n, x)
    /\ n = 1 /\ ~x => Kept(k.command, sh.there)
    /\ n = 0 /\ ~x => Known(k, r, s, sh.by)

\* What an exit code says of the changes made.
Tells(code, changes, n) ==
    /\ n \in {0, 1} /\ (n = 1 => changes # {})
    /\ code = "0" /\ changes # {} => n = 1
    /\ code = "2" => n = 0

Truthful(k, r, n) == r = NoRequest /\ Tells(k.exit, k.command.changes, n)

Account(k, r, s, n, x, sh) ==
    IF k.step = 0 THEN k = Resting /\ r = NoRequest /\ n = 0
    ELSE IF k.exit = "none" \/ r.state = "working" THEN Underway(k, r, s, n, x, sh)
    ELSE Truthful(k, r, n)

\* The work of others, who may take things away and change aspects, leaves a contested
\* account as good as it was.
LEMMA OthersContest ==
    ASSUME NEW k, NEW r, NEW s, NEW n, NEW x \in BOOLEAN, NEW sh, NEW sh2,
           Account(k, r, s, n, x, sh), k \in ClientRecords
    PROVE  Account(k, r, s, n, x \/ k.step > 0, sh2)
BY DEF Account, Underway, Truthful, Tells, Counted, ClientRecords

\* A client that ends with an exit code that is true has a truthful account.
LEMMA Ending ==
    ASSUME NEW changes, changes \subseteq Aspects, NEW code \in Codes \ {"none"},
           NEW s, NEW n, NEW x, NEW sh, Tells(code, changes, n),
           NEW k, k = [command |-> Command(changes, << >>), step |-> 1, exit |-> code]
    PROVE  Account(k, NoRequest, s, n, x, sh) /\ k \in ClientRecords
<1>1. k.step = 1 /\ k.exit = code /\ k.command = Command(changes, << >>)
      /\ NoRequest.state = "none"
  BY DEF NoRequest
<1>2. k.command.changes = changes
  BY <1>1 DEF Command
<1>3. Account(k, NoRequest, s, n, x, sh)
  BY <1>1, <1>2 DEF Account, Truthful
<1>4. k \in ClientRecords
  BY DEF ClientRecords, Ended
<1> QED BY <1>3, <1>4

\* A change is made in one place of a script, and in one phase of its route.
LEMMA Changes ==
    ASSUME NEW command, WellScripted(command), NEW i \in DOMAIN command.script
    PROVE  /\ Len(command.script) \in Nat /\ DOMAIN command.script = 1..Len(command.script)
           /\ IsItem(command.script[i])
           /\ command.changes = {} => ~IsChange(command.script[i])
           /\ IsChange(command.script[i]) => command.changes # {} /\ ChangesAt(command, i)
BY DEF WellScripted, ChangesAt

LEMMA Advancing ==
    ASSUME NEW k \in ClientRecords, NEW r, NEW s, NEW n, NEW x \in BOOLEAN, NEW sh,
           Underway(k, r, s, n, x, sh), k.exit = "none", k.step # Len(k.command.script),
           r.state = "ok" \/ (r.state = "none" /\ ~Asks(Now(k))),
           NEW k2, k2 = [k EXCEPT !.step = @ + 1]
    PROVE  Underway(k2, NoRequest, s, n, x, sh) /\ k2 \in ClientRecords
<1>1. k2.command = k.command /\ k2.step = k.step + 1 /\ k2.exit = "none"
      /\ k2 \in ClientRecords /\ k.step \in Nat
  BY DEF ClientRecords
<1>2. WellScripted(k2.command) /\ k2.step \in DOMAIN k2.command.script
  BY <1>1, Changes DEF Underway
<1>3. \A i : i \in 1..(k2.step - 1) <=> i \in 1..(k.step - 1) \/ i = k.step
  BY <1>1, Changes DEF Underway
<1>6. ~Asks(Now(k)) => ~IsChange(Now(k))
  BY DEF IsChange
<1>7. Made(k2, NoRequest) <=> \E i \in 1..(k2.step - 1) : IsChange(k.command.script[i])
  BY <1>1 DEF Made, NoRequest
<1>8. Made(k, r) <=> (\E i \in 1..(k.step - 1) : IsChange(k.command.script[i])) \/ IsChange(Now(k))
  BY <1>6 DEF Made
<1>9. Made(k2, NoRequest) <=> Made(k, r)
  BY <1>3, <1>7, <1>8 DEF Now
<1>4. Counted(k2, NoRequest, n, x)
  BY <1>1, <1>9 DEF Counted, Underway, NoRequest
<1>5. n = 0 /\ ~x => Known(k2, NoRequest, s, sh.by)
  BY <1>1 DEF Known, KnownUpTo, Underway, NoRequest, Now
<1> QED BY <1>1, <1>2, <1>4, <1>5 DEF Underway, NoRequest

LEMMA Finishing ==
    ASSUME NEW k \in ClientRecords, NEW r, NEW s, NEW n, NEW x \in BOOLEAN, NEW sh,
           Underway(k, r, s, n, x, sh), k.step = Len(k.command.script),
           r.state = "ok" \/ (r.state = "none" /\ ~Asks(Now(k))),
           k.command.changes # {}
    PROVE  n = 1
<1>1. PICK m \in DOMAIN k.command.script : ChangesAt(k.command, m)
  BY DEF Underway, WellScripted
<1>2. m < k.step \/ m = k.step
  BY DEF Underway, WellScripted
<1>3. Made(k, r)
  BY <1>1, <1>2 DEF Made, Now, ChangesAt, IsChange, ClientRecords, Underway, WellScripted
<1> QED BY <1>3 DEF Underway, Counted

Opening(k) == [state |-> IF Now(k).route.does = << >> THEN "ok" ELSE "working", phase |-> 1]

LEMMA Requesting ==
    ASSUME NEW k \in ClientRecords, NEW r, NEW s, NEW n, NEW x \in BOOLEAN, NEW sh,
           Underway(k, r, s, n, x, sh), k.exit = "none", r.state = "none", Asks(Now(k)),
           NEW r2, r2 = Opening(k)
    PROVE  Underway(k, r2, s, n, x, sh) /\ r2 \in Requests
<1> DEFINE route == Now(k).route
<1>1. Reading(route) \/ Writing(route)
  BY Changes DEF Underway, IsItem, Asks, Now
<1>2. IsRoute(route)
  BY <1>1 DEF Reading, Writing, Names
<1>3. r2.phase = 1 /\ r2.state \in {"ok", "working"} /\ (r2.state = "ok" <=> route.does = << >>)
      /\ r2 \in Requests
  BY DEF Opening, Requests, States
<1>4. route.does # << >> => 1 \in DOMAIN route.does
  BY <1>2 DEF IsRoute
<1>5. route.does = << >> => ~IsChange(Now(k)) /\ route.reads = {}
  BY <1>2 DEF IsRoute, IsChange, Writing, ChangesOnce
<1>6. Made(k, r2) <=> Made(k, r)
  BY <1>3, <1>5 DEF Made
<1>7. Counted(k, r2, n, x)
  BY <1>3, <1>6 DEF Counted, Underway
<1>8. n = 0 /\ ~x => Known(k, r2, s, sh.by)
  BY <1>3, <1>5 DEF Known, KnownUpTo, Underway, Now, ClientRecords
<1> QED BY <1>3, <1>4, <1>7, <1>8 DEF Underway

\* An answer: to a client that is gone there is none.
Answer(k, state) == IF k.exit = "none" THEN [state |-> state, phase |-> 0] ELSE NoRequest

LEMMA AnsweringTheLost ==
    ASSUME NEW k \in ClientRecords, NEW r, NEW s, NEW n, NEW x \in BOOLEAN, NEW sh, NEW sh2, NEW s2,
           NEW n2 \in {0, 1}, Underway(k, r, s, n, x, sh), r.state = "working", k.exit # "none",
           n2 = 1 => k.command.changes # {}
    PROVE  Account(k, NoRequest, s2, n2, x, sh2)
<1>1. k.exit = "3" /\ k.step # 0 /\ NoRequest.state = "none"
  BY Changes DEF Underway, NoRequest
<1> QED BY <1>1 DEF Account, Truthful, Tells

LEMMA Refusing ==
    ASSUME NEW k \in ClientRecords, NEW r, NEW s, NEW n, NEW x \in BOOLEAN, NEW sh,
           Underway(k, r, s, n, x, sh), r.state = "working", n = 0 \/ x,
           NEW r2, r2 = Answer(k, "refused")
    PROVE  Account(k, r2, s, n, x, sh) /\ r2 \in Requests
<1>1. k.step \in Nat \ {0} /\ NoRequest \in Requests /\ n \in {0, 1}
      /\ (n = 1 => k.command.changes # {})
  BY Changes DEF Underway, ClientRecords, Counted, NoRequest, Requests, States
<1>2. CASE k.exit # "none"
  <2>1. Account(k, NoRequest, s, n, x, sh)
    BY <1>1, <1>2, AnsweringTheLost
  <2> QED BY <1>1, <1>2, <2>1 DEF Answer
<1>3. CASE k.exit = "none"
  <2>1. r2.state = "refused" /\ r2 \in Requests
    BY <1>3 DEF Answer, Requests, States
  <2>2. Counted(k, r2, n, x)
    BY <1>1, <2>1 DEF Counted
  <2>3. n = 0 /\ ~x => Known(k, r2, s, sh.by)
    <3>1. ASSUME n = 0, ~x
          PROVE  KnownUpTo(k, s, sh.by, k.step - 1)
      BY <3>1, <1>1 DEF Underway, Known, KnownUpTo
    <3> QED BY <3>1, <2>1 DEF Known
  <2>4. Underway(k, r2, s, n, x, sh)
    BY <1>3, <2>1, <2>2, <2>3 DEF Underway
  <2> QED BY <2>1, <2>4, <1>1, <1>3 DEF Account
<1> QED BY <1>2, <1>3

\* The next phase, or the answer.
Onward(k, r) ==
    IF r.phase = Len(Now(k).route.does) THEN Answer(k, "ok") ELSE [r EXCEPT !.phase = @ + 1]

\* What a phase has to leave for the next: the count, and what was kept or known.
Passes(k, r, n, x, s2, n2, sh2) ==
    /\ n2 \in {0, 1}
    /\ n2 = 1 <=> (n = 1 \/ Now(k).route.does[r.phase] \in Committing)
    /\ n2 = 1 => k.command.changes # {}
    /\ n2 = 1 /\ ~x => Kept(k.command, sh2.there)
    /\ n2 = 0 /\ ~x => KnownUpTo(k, s2, sh2.by, k.step)

LEMMA Proceeding ==
    ASSUME NEW k \in ClientRecords, NEW r \in Requests, NEW s, NEW n, NEW x \in BOOLEAN, NEW sh,
           Underway(k, r, s, n, x, sh), r.state = "working",
           NEW s2, NEW sh2, NEW n2, Passes(k, r, n, x, s2, n2, sh2),
           NEW r2, r2 = Onward(k, r)
    PROVE  Account(k, r2, s2, n2, x, sh2) /\ r2 \in Requests
<1>0. /\ n2 \in {0, 1}
      /\ n2 = 1 <=> (n = 1 \/ Now(k).route.does[r.phase] \in Committing)
      /\ n2 = 1 => k.command.changes # {}
      /\ n2 = 1 /\ ~x => Kept(k.command, sh2.there)
      /\ n2 = 0 /\ ~x => KnownUpTo(k, s2, sh2.by, k.step)
  BY DEF Passes
<1> DEFINE does == Now(k).route.does
<1>1. /\ k.step \in Nat \ {0} /\ NoRequest \in Requests
      /\ Asks(Now(k)) /\ IsItem(Now(k)) /\ n \in {0, 1}
      /\ r.phase \in DOMAIN does
      /\ n = 1 <=> Made(k, r)
  BY Changes DEF Underway, Counted, Now, NoRequest, Requests, States
<1>2. Reading(Now(k).route) \/ Writing(Now(k).route)
  BY <1>1 DEF IsItem, Asks
<1>3. does \in Seq(Phases)
  BY <1>2 DEF Reading, Writing, Names, IsRoute
<1>4. r.phase \in 1..Len(does) /\ Len(does) \in Nat /\ DOMAIN does = 1..Len(does)
  BY <1>1, <1>3
<1>5. n = 1 <=> \/ \E i \in 1..(k.step - 1) : IsChange(k.command.script[i])
                \/ \E p \in 1..(r.phase - 1) : does[p] \in Committing
  BY <1>1 DEF Made
<1>6. n2 = 1 <=> \/ \E i \in 1..(k.step - 1) : IsChange(k.command.script[i])
                 \/ \E p \in 1..r.phase : does[p] \in Committing
  <2>1. \A p : p \in 1..r.phase <=> p \in 1..(r.phase - 1) \/ p = r.phase
    BY <1>4
  <2> QED BY <1>0, <1>5, <2>1
<1>7. CASE r.phase = Len(does) /\ k.exit # "none"
  BY <1>0, <1>1, <1>7, AnsweringTheLost DEF Onward, Answer
<1>8. CASE r.phase = Len(does) /\ k.exit = "none"
  <2>1. r2.state = "ok" /\ r2 \in Requests
    BY <1>8 DEF Onward, Answer, Requests, States
  <2>2. IsChange(Now(k)) <=> \E p \in 1..r.phase : does[p] \in Committing
    BY <1>1, <1>2, <1>4, <1>8 DEF IsChange, Reading, Mutates, Writing, ChangesOnce
  <2>3. n2 = 1 <=> Made(k, r2)
    BY <1>6, <2>1, <2>2 DEF Made
  <2>4. Counted(k, r2, n2, x)
    BY <1>0, <2>1, <2>3 DEF Counted
  <2>5. n2 = 0 /\ ~x => Known(k, r2, s2, sh2.by)
    BY <1>0, <2>1 DEF Known
  <2>6. Underway(k, r2, s2, n2, x, sh2)
    BY <1>0, <1>1, <1>8, <2>1, <2>4, <2>5 DEF Underway
  <2> QED BY <1>1, <1>8, <2>1, <2>6 DEF Account
<1>9. CASE r.phase # Len(does)
  <2>1. r2.state = "working" /\ r2.phase = r.phase + 1 /\ r2 \in Requests
        /\ r2.phase \in DOMAIN does /\ r2.phase > 1 /\ r2.phase - 1 = r.phase
    BY <1>4, <1>9 DEF Onward, Requests
  <2>3. n2 = 1 <=> Made(k, r2)
    BY <1>6, <2>1 DEF Made
  <2>4. Counted(k, r2, n2, x)
    BY <1>0, <2>1, <2>3 DEF Counted
  <2>5. n2 = 0 /\ ~x => Known(k, r2, s2, sh2.by)
    BY <1>0, <2>1 DEF Known
  <2>6. Underway(k, r2, s2, n2, x, sh2)
    BY <1>0, <1>1, <2>1, <2>4, <2>5 DEF Underway
  <2> QED BY <1>1, <2>1, <2>6 DEF Account
<1> QED BY <1>7, <1>8, <1>9

\* A phase that only looks does not change what is known, unless it is the one that reads.
LEMMA Looking ==
    ASSUME NEW k \in ClientRecords, NEW r \in Requests, NEW s, NEW n, NEW x \in BOOLEAN, NEW sh,
           Underway(k, r, s, n, x, sh), r.state = "working",
           Now(k).route.does[r.phase] \in {"check", "show"},
           NEW r2, r2 = Onward(k, r)
    PROVE  Account(k, r2, s, n, x, sh) /\ r2 \in Requests
<1> DEFINE route == Now(k).route
<1>1. IsItem(Now(k)) /\ Asks(Now(k)) /\ n \in {0, 1} /\ r.phase \in DOMAIN route.does
      /\ k.step \in Nat /\ (n = 1 => k.command.changes # {})
  BY Changes DEF Underway, Counted, Now, ClientRecords
<1>2. IsRoute(route)
  BY <1>1 DEF IsItem, Asks, Reading, Writing, Names
<1>3. r.phase = 1 => route.reads = {}
  BY <1>2 DEF IsRoute
<1>4. r.phase >= 1 /\ r.phase \in Nat
  BY <1>1, <1>2 DEF IsRoute, Requests
<1>5. ASSUME n = 0, ~x
      PROVE  KnownUpTo(k, s, sh.by, k.step)
  <2>1. CASE r.phase > 1
    BY <1>5, <2>1 DEF Underway, Known
  <2>2. CASE r.phase = 1
    <3>1. KnownUpTo(k, s, sh.by, k.step - 1)
      BY <1>5, <2>2 DEF Underway, Known
    <3> QED BY <1>1, <1>3, <2>2, <3>1 DEF KnownUpTo, Now
  <2> QED BY <1>4, <2>1, <2>2
<1>6. n = 1 /\ ~x => Kept(k.command, sh.there)
  BY DEF Underway
<1>7. route.does[r.phase] \notin Committing
  BY DEF Committing
<1>8. Passes(k, r, n, x, s, n, sh)
  BY <1>1, <1>5, <1>6, <1>7 DEF Passes
<1> HIDE DEF route
<1> QED BY <1>8, Proceeding

\* What a client knows after an answer.
Told(s, route, by) == [a \in DOMAIN s |-> IF a \in route.reads THEN by[a] ELSE s[a]]

\* What a client has been told of a thing it asked about is how the thing is.
LEMMA ReadingAnswers ==
    ASSUME NEW k \in ClientRecords, NEW r \in Requests, NEW s, NEW n, NEW x \in BOOLEAN, NEW sh,
           Underway(k, r, s, n, x, sh), r.state = "working",
           Now(k).route.does[r.phase] = "read", DOMAIN s = {"name", "values"},
           NEW r2, r2 = Onward(k, r),
           NEW s2, s2 = Told(s, Now(k).route, sh.by)
    PROVE  Account(k, r2, s2, n, x, sh) /\ r2 \in Requests
<1> DEFINE route == Now(k).route
<1>1. IsItem(Now(k)) /\ Asks(Now(k)) /\ n \in {0, 1} /\ r.phase \in DOMAIN route.does
      /\ k.step \in Nat /\ k.step \in DOMAIN k.command.script
      /\ DOMAIN k.command.script = 1..Len(k.command.script)
      /\ (n = 1 => k.command.changes # {})
  BY Changes DEF Underway, Counted, Now, ClientRecords
<1>2. \A j \in DOMAIN k.command.script : Asks(k.command.script[j]) =>
        k.command.script[j].route.reads \subseteq {"name", "values"}
  BY Changes DEF Underway, IsItem, Asks, Reading, Writing, Names, IsRoute
<1>3. ASSUME n = 0, ~x
      PROVE  KnownUpTo(k, s2, sh.by, k.step)
  <2>1. KnownUpTo(k, s, sh.by, k.step - 1)
    BY <1>1, <1>3 DEF Underway, Known, KnownUpTo
  <2>2. SUFFICES ASSUME NEW j \in 1..k.step, Asks(k.command.script[j]),
                        NEW a \in k.command.script[j].route.reads
                 PROVE  s2[a] = sh.by[a]
    BY DEF KnownUpTo
  <2>3. a \in DOMAIN s
    BY <1>1, <1>2, <2>2
  <2>4. CASE a \in route.reads
    BY <2>3, <2>4 DEF Told
  <2>5. CASE a \notin route.reads
    <3>1. j \in 1..(k.step - 1)
      BY <1>1, <2>2, <2>5 DEF Now
    <3> QED BY <2>1, <2>2, <2>3, <2>5, <3>1 DEF KnownUpTo, Told
  <2> QED BY <2>4, <2>5
<1>6. n = 1 /\ ~x => Kept(k.command, sh.there)
  BY DEF Underway
<1>7. route.does[r.phase] \notin Committing
  BY DEF Committing
<1>8. Passes(k, r, n, x, s2, n, sh)
  BY <1>1, <1>3, <1>6, <1>7 DEF Passes
<1> HIDE DEF route
<1> QED BY <1>8, Proceeding

\* Where a change is about to be made none has been made, and there is none but this one.
LEMMA FirstChange ==
    ASSUME NEW k \in ClientRecords, NEW r \in Requests, NEW s, NEW n, NEW x \in BOOLEAN, NEW sh,
           Underway(k, r, s, n, x, sh), r.state = "working",
           Now(k).route.does[r.phase] \in Committing
    PROVE  /\ n = 0 /\ IsChange(Now(k)) /\ k.command.changes # {} /\ ChangesAt(k.command, k.step)
           /\ k.step \in Nat /\ k.step \in DOMAIN k.command.script
<1> DEFINE does == Now(k).route.does
<1>1. /\ k.step \in Nat /\ k.step \in DOMAIN k.command.script
      /\ DOMAIN k.command.script = 1..Len(k.command.script) /\ Len(k.command.script) \in Nat
      /\ IsItem(Now(k)) /\ Asks(Now(k)) /\ n \in {0, 1} /\ r.phase \in DOMAIN does
      /\ n = 1 <=> Made(k, r)
  BY Changes DEF Underway, Counted, Now, ClientRecords
<1>2. Reading(Now(k).route) \/ Writing(Now(k).route)
  BY <1>1 DEF IsItem, Asks
<1>3. does \in Seq(Phases)
  BY <1>2 DEF Reading, Writing, Names, IsRoute
<1>4. r.phase \in 1..Len(does) /\ Len(does) \in Nat /\ DOMAIN does = 1..Len(does)
  BY <1>1, <1>3
<1>5. Writing(Now(k).route)
  BY <1>1, <1>2 DEF Reading, Mutates
<1>6. IsChange(Now(k))
  BY <1>1, <1>5 DEF IsChange
<1>7. k.command.changes # {} /\ ChangesAt(k.command, k.step)
  BY <1>1, <1>6, Changes DEF Underway, Now
<1>8. ~\E i \in 1..(k.step - 1) : IsChange(k.command.script[i])
  BY <1>1, <1>7 DEF ChangesAt
<1>9. ~\E p \in 1..(r.phase - 1) : does[p] \in Committing
  BY <1>4, <1>5 DEF Writing, ChangesOnce
<1>10. n = 0
  BY <1>1, <1>8, <1>9 DEF Made
<1> QED BY <1>1, <1>6, <1>7, <1>10

InOrder(there) == there \subseteq Inside /\ \A thing \in there : Around(thing) \subseteq there

LEMMA LeftInOrder ==
    \A gone \in Inside : \A thing \in Left(gone) : thing \in Inside /\ Around(thing) \subseteq Left(gone)
BY ThingsAround, ThingsLeft DEF Inside

Taken(there, gone) == there \cap (IF gone = "nothing" THEN there ELSE Left(gone))

\* The change is about something that is there, and takes away no more than its route says.
Commit(k, r, sh, gone, sh2) ==
    /\ Now(k).route.does[r.phase] \in Committing
    /\ Now(k).route.does[r.phase] = "put" \/ Now(k).route.on \in sh.there
    /\ InOrder(sh.there)
    /\ gone \in Now(k).route.drops
    /\ sh2.there = Taken(sh.there, gone)

LEMMA Changing ==
    ASSUME NEW k \in ClientRecords, NEW r \in Requests, NEW s, NEW n, NEW x \in BOOLEAN, NEW sh,
           Underway(k, r, s, n, x, sh), r.state = "working",
           NEW gone, NEW sh2, Commit(k, r, sh, gone, sh2),
           NEW r2, r2 = Onward(k, r)
    PROVE  Account(k, r2, s, n + 1, x, sh2) /\ r2 \in Requests /\ InOrder(sh2.there)
<1> DEFINE route == Now(k).route
<1>0. /\ route.does[r.phase] \in Committing
      /\ route.does[r.phase] = "put" \/ route.on \in sh.there
      /\ InOrder(sh.there) /\ gone \in route.drops
      /\ sh2.there = Taken(sh.there, gone)
  BY DEF Commit
<1>1. /\ n = 0 /\ IsChange(Now(k)) /\ k.command.changes # {} /\ ChangesAt(k.command, k.step)
      /\ k.step \in Nat /\ k.step \in DOMAIN k.command.script /\ n + 1 = 1
  BY <1>0, FirstChange
<1>2. Writing(route) /\ IsRoute(route)
  BY <1>1 DEF IsChange, Writing, Names
<1>3. r.phase \in DOMAIN route.does
  BY DEF Underway
<1>4. ASSUME route.on \in sh.there, NEW thing, Spares(route, thing)
      PROVE  thing \in sh2.there
  BY <1>0, <1>4 DEF Spares, InOrder, Taken
<1>5. Kept(k.command, sh2.there)
  <2>1. SUFFICES ASSUME NEW m \in DOMAIN k.command.script, IsChange(k.command.script[m]),
                        \A p \in DOMAIN k.command.script[m].route.does :
                            k.command.script[m].route.does[p] # "put"
                 PROVE  /\ k.command.script[m].route.shows \in sh2.there
                        /\ \A i \in DOMAIN k.command.script :
                             i > m => /\ k.command.script[i].route.on \in sh2.there
                                      /\ k.command.script[i].route.shows \in sh2.there
    BY DEF Kept
  <2>2. m = k.step /\ k.command.script[m].route = route
    BY <1>1, <2>1 DEF ChangesAt, Now
  <2>3. route.on \in sh.there
    BY <1>0, <1>3, <2>1, <2>2
  <2>4. route.shows \in sh2.there
    BY <1>2, <1>4, <2>3 DEF Writing, Names
  <2>5. ASSUME NEW i \in DOMAIN k.command.script, i > m
        PROVE  Spares(route, k.command.script[i].route.on) /\ Spares(route, k.command.script[i].route.shows)
    BY <1>1, <2>2, <2>5 DEF ChangesAt, Follows, Now
  <2> QED BY <1>4, <2>2, <2>3, <2>4, <2>5
<1>6. Passes(k, r, n, x, s, n + 1, sh2)
  BY <1>0, <1>1, <1>5 DEF Passes
<1>7. Account(k, r2, s, n + 1, x, sh2) /\ r2 \in Requests
  BY <1>6, Proceeding
<1>8. gone = "nothing" \/ gone \in Inside
  BY <1>0, <1>2 DEF IsRoute
<1>9. InOrder(sh2.there)
  BY <1>0, <1>8, LeftInOrder DEF InOrder, Taken
<1> QED BY <1>7, <1>9

(***************************************************************************)
(* The invariant                                                           *)
(***************************************************************************)
Types ==
    /\ client \in [Clients -> ClientRecords]
    /\ request \in [Clients -> Requests]
    /\ done \in [Clients -> Nat]
    /\ contested \in [Clients -> BOOLEAN]
    /\ seen = [c \in Clients |-> seen[c]]
    /\ \A c \in Clients : DOMAIN seen[c] = {"name", "values"}

AccountOf(c) == Account(client[c], request[c], seen[c], done[c], contested[c], sheet)

\* The inductive invariant: the account of every client is in order, and a thing is only
\* there with those it is in.
ServerInv == Types /\ InOrder(sheet.there) /\ \A c \in Clients : AccountOf(c)

LEMMA ServerInvInit == ServerInit => ServerInv
<1> SUFFICES ASSUME ServerInit PROVE ServerInv
  OBVIOUS
<1> USE DEF ServerInit
<1>1. Resting \in ClientRecords /\ NoRequest \in Requests /\ Resting.step = 0
  BY DEF Resting, ClientRecords, Started, Codes, NoRequest, Requests, States
<1>2. Types
  BY <1>1 DEF Types
<1>3. sheet.there = Inside
  <2>1. \A i \in 1..5 : i = 1 \/ i = 2 \/ i = 3 \/ i = 4 \/ i = 5
    OBVIOUS
  <2> QED BY <2>1, ThingsInOrder DEF Inside
<1>4. InOrder(sheet.there)
  BY <1>3, ThingsAround DEF InOrder, Inside
<1>5. \A c \in Clients : AccountOf(c)
  BY <1>1 DEF AccountOf, Account
<1> QED BY <1>2, <1>4, <1>5 DEF ServerInv

LEMMA AtWork ==
    ASSUME ServerInv, NEW c \in Clients, Running(c) \/ State(c) = "working"
    PROVE  /\ Underway(client[c], request[c], seen[c], done[c], contested[c], sheet)
           /\ client[c] \in ClientRecords /\ request[c] \in Requests /\ contested[c] \in BOOLEAN
           /\ client[c].step > 0
<1>1. client[c] \in ClientRecords /\ request[c] \in Requests /\ contested[c] \in BOOLEAN
      /\ client[c].step \in Nat
  BY DEF ServerInv, Types, ClientRecords
<1>2. client[c].step # 0
  BY DEF ServerInv, AccountOf, Account, Running, State, NoRequest
<1> QED BY <1>1, <1>2 DEF ServerInv, AccountOf, Account, Running, State

\* What one client does for itself leaves the accounts of the others alone.
LEMMA OthersStay ==
    ASSUME ServerInv, NEW c \in Clients, UNCHANGED <<sheet, done, contested>>,
           NEW k \in ClientRecords, client' = [client EXCEPT ![c] = k],
           NEW r \in Requests, request' = [request EXCEPT ![c] = r],
           NEW s, DOMAIN s = {"name", "values"}, seen' = [seen EXCEPT ![c] = s],
           Account(k, r, s, done[c], contested[c], sheet)
    PROVE  ServerInv'
<1>1. Types'
  BY DEF ServerInv, Types
<1>2. InOrder(sheet.there)'
  BY DEF ServerInv
<1>3. ASSUME NEW d \in Clients
      PROVE  AccountOf(d)'
  <2>1. AccountOf(d)
    BY DEF ServerInv
  <2>2. CASE d = c
    BY <2>2 DEF AccountOf, ServerInv, Types
  <2>3. CASE d # c
    BY <2>1, <2>3 DEF AccountOf, ServerInv, Types
  <2> QED BY <2>2, <2>3
<1> QED BY <1>1, <1>2, <1>3 DEF ServerInv

\* The parts of a state of a client that are not assigned to are what they were.
LEMMA Untouched ==
    ASSUME ServerInv, NEW c \in Clients
    PROVE  /\ client = [client EXCEPT ![c] = client[c]]
           /\ request = [request EXCEPT ![c] = request[c]]
           /\ seen = [seen EXCEPT ![c] = seen[c]] /\ DOMAIN seen[c] = {"name", "values"}
           /\ client[c] \in ClientRecords /\ request[c] \in Requests
           /\ NoRequest \in Requests
BY DEF ServerInv, Types, NoRequest, Requests, States

LEMMA RunKeepsAccounts ==
    ASSUME ServerInv, NEW c \in Clients, Run(c)
    PROVE  ServerInv'
<1>1. PICK command \in Script(c) :
        client' = [client EXCEPT ![c].command = command, ![c].step = 1]
  BY DEF Run
<1>2. command \in AllCommands /\ WellScripted(command)
  BY ScriptAssumption, CommandsAreWellScripted
<1> DEFINE k == [command |-> command, step |-> 1, exit |-> "none"]
<1>3. client[c] = Resting /\ request[c] = NoRequest /\ done[c] = 0
  BY DEF ServerInv, AccountOf, Account, Run
<1>4. k \in ClientRecords /\ client' = [client EXCEPT ![c] = k]
  BY <1>1, <1>2, <1>3 DEF ClientRecords, Started, Codes, ServerInv, Types, Resting
<1>5. 1 \in DOMAIN command.script
  BY <1>2 DEF WellScripted
<1>6. ~Made(k, NoRequest)
  BY DEF Made, NoRequest
<1>7. Known(k, NoRequest, seen[c], sheet.by)
  BY DEF Known, KnownUpTo, NoRequest
<1>8. Underway(k, NoRequest, seen[c], 0, contested[c], sheet)
  BY <1>2, <1>5, <1>6, <1>7 DEF Underway, Counted, NoRequest
<1>9. Account(k, request[c], seen[c], done[c], contested[c], sheet)
  BY <1>3, <1>8 DEF Account
<1> HIDE DEF k
<1> QED BY <1>4, <1>9, OthersStay, Untouched DEF Run

\* An exit ends the account, if what it says is true.
LEMMA ExitKeepsAccounts ==
    ASSUME ServerInv, NEW c \in Clients, Running(c), State(c) # "working",
           NEW code \in Codes \ {"none"}, Exits(c, code), request' = [request EXCEPT ![c] = NoRequest],
           Tells(code, client[c].command.changes, done[c]),
           UNCHANGED <<sheet, seen, done, contested>>
    PROVE  ServerInv'
<1> DEFINE k == [command |-> Command(client[c].command.changes, << >>), step |-> 1, exit |-> code]
<1>1. client' = [client EXCEPT ![c] = k]
  BY DEF Exits
<1>2. client[c].command.changes \subseteq Aspects
  BY AtWork DEF Underway, WellScripted
<1>3. Account(k, NoRequest, seen[c], done[c], contested[c], sheet) /\ k \in ClientRecords
  BY <1>2, Ending
<1> HIDE DEF k
<1> QED BY <1>1, <1>3, OthersStay, Untouched

LEMMA ContinuingKeepsAccounts ==
    ASSUME ServerInv, NEW c \in Clients, Running(c),
           State(c) = "ok" \/ (State(c) = "none" /\ ~Asking(c)),
           Continues(c), request' = [request EXCEPT ![c] = NoRequest],
           UNCHANGED <<sheet, seen, done, contested>>
    PROVE  ServerInv'
<1>1. Underway(client[c], request[c], seen[c], done[c], contested[c], sheet)
      /\ client[c] \in ClientRecords /\ contested[c] \in BOOLEAN /\ client[c].exit = "none"
  BY AtWork DEF Running
<1>2. request[c].state = "ok" \/ (request[c].state = "none" /\ ~Asks(Now(client[c])))
  BY DEF State, Asking, Asks, Now, Here, Steps
<1>3. CASE client[c].step = Len(Steps(c))
  <2>1. client[c].command.changes # {} => done[c] = 1
    BY <1>1, <1>2, <1>3, Finishing DEF Steps
  <2>2. Exits(c, "0") /\ "0" \in Codes \ {"none"} /\ State(c) # "working"
        /\ Tells("0", client[c].command.changes, done[c])
    BY <1>1, <1>3, <2>1 DEF Continues, Codes, Underway, Counted, Tells
  <2> QED BY <2>1, <2>2, ExitKeepsAccounts
<1>4. CASE client[c].step # Len(Steps(c))
  <2> DEFINE k == [client[c] EXCEPT !.step = @ + 1]
  <2>1. client' = [client EXCEPT ![c] = k]
    BY <1>1, <1>4 DEF Continues, ClientRecords
  <2>5. k = [client[c] EXCEPT !.step = @ + 1] /\ client[c].step # Len(client[c].command.script)
    BY <1>4 DEF Steps
  <2> HIDE DEF k
  <2>2. Underway(k, NoRequest, seen[c], done[c], contested[c], sheet) /\ k \in ClientRecords
    BY <1>1, <1>2, <2>5, Advancing
  <2>3. k.step # 0 /\ k.exit = "none"
    BY <1>1, <2>5 DEF ClientRecords
  <2>4. Account(k, NoRequest, seen[c], done[c], contested[c], sheet)
    BY <2>2, <2>3 DEF Account
  <2> QED BY <2>1, <2>2, <2>4, OthersStay, Untouched
<1> QED BY <1>3, <1>4

\* A command decides by itself before its change is made, never after.
LEMMA DecidesBefore ==
    ASSUME NEW k \in ClientRecords, NEW r, NEW s, NEW n, NEW x, NEW sh,
           Underway(k, r, s, n, x, sh), ~Asks(Now(k))
    PROVE  r = NoRequest /\ n = 0
<1>1. r = NoRequest /\ r.state = "none"
  BY DEF Underway, NoRequest
<1>2. ASSUME NEW i \in 1..(k.step - 1), IsChange(k.command.script[i])
      PROVE  FALSE
  <2>1. i \in DOMAIN k.command.script /\ k.step > i /\ k.step \in DOMAIN k.command.script
    BY Changes DEF Underway
  <2>2. ChangesAt(k.command, i)
    BY <1>2, <2>1, Changes DEF Underway
  <2>3. Asks(k.command.script[k.step])
    BY <2>1, <2>2 DEF ChangesAt, Follows
  <2> QED BY <2>3 DEF Now
<1>3. ~Made(k, r)
  BY <1>1, <1>2 DEF Made
<1> QED BY <1>1, <1>3 DEF Underway, Counted

LEMMA DecisionsKeepAccounts ==
    ASSUME ServerInv, NEW c \in Clients, DecidesLocally(c)
    PROVE  ServerInv'
<1>1. Running(c) /\ Here(c).kind = "exit" /\ UNCHANGED <<sheet, request, seen, done, contested>>
  BY DEF DecidesLocally
<1>2. Underway(client[c], request[c], seen[c], done[c], contested[c], sheet)
      /\ request[c] \in Requests /\ client[c] \in ClientRecords
  BY <1>1, AtWork
<1>3. ~Asks(Now(client[c])) /\ ~Asking(c) /\ Here(c) = Now(client[c])
  BY <1>1 DEF Asks, Asking, Now, Here, Steps
<1>4. request[c] = NoRequest /\ State(c) = "none"
  BY <1>2, <1>3 DEF Underway, State, NoRequest
<1>5. request' = [request EXCEPT ![c] = NoRequest]
  BY <1>1, <1>4, Untouched
<1>6. CASE Continues(c)
  BY <1>1, <1>3, <1>4, <1>5, <1>6, ContinuingKeepsAccounts
<1>7. CASE Exits(c, Here(c).code)
  <2>1. Here(c).code \in {"1", "2"}
    BY <1>2, <1>3, Changes DEF Underway, IsItem, Now
  <2>2. done[c] = 0
    BY <1>2, <1>3, DecidesBefore
  <2>3. Tells(Here(c).code, client[c].command.changes, done[c])
    BY <2>1, <2>2 DEF Tells
  <2>4. Here(c).code \in Codes \ {"none"}
    BY <2>1 DEF Codes
  <2> QED BY <1>1, <1>4, <1>5, <1>7, <2>3, <2>4, ExitKeepsAccounts
<1> QED BY <1>6, <1>7 DEF DecidesLocally

LEMMA RequestsKeepAccounts ==
    ASSUME ServerInv, NEW c \in Clients, RequestAt(c)
    PROVE  ServerInv'
<1>1. Asking(c) /\ State(c) = "none" /\ Running(c) /\ UNCHANGED <<sheet, seen, done, contested>>
  BY DEF RequestAt, Asking
<1>2. Underway(client[c], request[c], seen[c], done[c], contested[c], sheet)
      /\ request[c] \in Requests /\ client[c] \in ClientRecords /\ contested[c] \in BOOLEAN
      /\ client[c].step > 0
  BY <1>1, AtWork
<1>3. request[c].state = "none" /\ Asks(Now(client[c])) /\ Here(c) = Now(client[c])
      /\ client[c].exit = "none"
  BY <1>1 DEF State, Asking, Running, Asks, Now, Here, Steps
<1>4. CASE Serving
  <2> DEFINE r == Opening(client[c])
  <2>1. request' = [request EXCEPT ![c] = r] /\ UNCHANGED client
    BY <1>3, <1>4 DEF RequestAt, Opening
  <2>2. r = Opening(client[c])
    OBVIOUS
  <2> HIDE DEF r
  <2>3. Underway(client[c], r, seen[c], done[c], contested[c], sheet) /\ r \in Requests
    BY <1>2, <1>3, <2>2, Requesting
  <2>4. Account(client[c], r, seen[c], done[c], contested[c], sheet)
    BY <1>2, <1>3, <2>3 DEF Account
  <2> QED BY <1>1, <2>1, <2>3, <2>4, OthersStay, Untouched
<1>5. CASE ~Serving
  <2>1. Exits(c, "3") /\ UNCHANGED request /\ "3" \in Codes \ {"none"}
    BY <1>5 DEF RequestAt, Codes
  <2>2. request' = [request EXCEPT ![c] = NoRequest] /\ State(c) # "working"
    BY <1>1, <1>2, <1>3, <2>1, Untouched DEF Underway
  <2>3. Tells("3", client[c].command.changes, done[c])
    BY <1>2 DEF Underway, Counted, Tells
  <2> QED BY <1>1, <2>1, <2>2, <2>3, ExitKeepsAccounts
<1> QED BY <1>4, <1>5

LEMMA AnswersKeepAccounts ==
    ASSUME ServerInv, NEW c \in Clients, Receives(c) \/ CannotRead(c) \/ LosesPatience(c)
    PROVE  ServerInv'
<1>1. Asking(c) /\ Running(c) /\ UNCHANGED <<sheet, seen, done, contested>>
  BY DEF Receives, CannotRead, LosesPatience, Asking
<1>2. Underway(client[c], request[c], seen[c], done[c], contested[c], sheet)
      /\ request[c] \in Requests /\ client[c] \in ClientRecords /\ contested[c] \in BOOLEAN
      /\ client[c].step > 0
  BY <1>1, AtWork
<1>3. request[c].state = State(c) /\ Asks(Now(client[c])) /\ Here(c) = Now(client[c])
      /\ client[c].exit = "none"
  BY <1>1 DEF State, Asking, Running, Asks, Now, Here, Steps
<1>4. \A code \in {"1", "3"} :
        code \in Codes \ {"none"} /\ Tells(code, client[c].command.changes, done[c])
  BY <1>2 DEF Underway, Counted, Tells, Codes
<1>5. CASE State(c) = "ok" /\ Continues(c) /\ Drop(c)
  BY <1>1, <1>5, ContinuingKeepsAccounts DEF Drop
<1>6. ASSUME State(c) = "refused", Drop(c), NEW code \in Here(c).refusal, Exits(c, code)
      PROVE  ServerInv'
  <2>1. code \in {"0", "1"} /\ code \in Codes \ {"none"}
    BY <1>2, <1>3, <1>6, Changes DEF Underway, IsItem, Now, Asks, Codes
  <2>2. client[c].command.changes # {} => code = "1"
    <3>1. SUFFICES ASSUME client[c].command.changes # {} PROVE code = "1"
      OBVIOUS
    <3>2. PICK m \in DOMAIN client[c].command.script : ChangesAt(client[c].command, m)
      BY <1>2, <3>1 DEF Underway, WellScripted
    <3>3. client[c].step \in DOMAIN client[c].command.script
      BY <1>2 DEF Underway
    <3>4. Here(c).refusal = {"1"}
      BY <1>3, <3>2, <3>3 DEF ChangesAt, Now
    <3> QED BY <1>6, <3>4
  <2>4. done[c] \in {0, 1} /\ (done[c] = 1 => client[c].command.changes # {})
    BY <1>2 DEF Underway, Counted
  <2>5. Tells(code, client[c].command.changes, done[c])
    BY <2>1, <2>2, <2>4 DEF Tells
  <2> QED BY <1>1, <1>6, <2>1, <2>5, ExitKeepsAccounts DEF Drop
<1>7. CASE CannotRead(c)
  BY <1>1, <1>4, <1>7, ExitKeepsAccounts DEF CannotRead, Drop
<1>8. CASE LosesPatience(c) /\ State(c) # "working"
  BY <1>1, <1>4, <1>8, ExitKeepsAccounts DEF LosesPatience, Drop
<1>9. CASE LosesPatience(c) /\ State(c) = "working"
  <2> DEFINE k == [client[c] EXCEPT !.exit = "3"]
  <2>1. client' = [client EXCEPT ![c] = k] /\ UNCHANGED request
    BY <1>9 DEF LosesPatience, Exits
  <2>2. k.command = client[c].command /\ k.step = client[c].step /\ k.exit = "3" /\ k \in ClientRecords
    BY <1>2 DEF ClientRecords, Codes
  <2> HIDE DEF k
  <2>3. Made(k, request[c]) <=> Made(client[c], request[c])
    BY <2>2 DEF Made, Now
  <2>4. Counted(k, request[c], done[c], contested[c])
    BY <1>2, <2>2, <2>3 DEF Underway, Counted
  <2>5. Known(client[c], request[c], seen[c], sheet.by) => Known(k, request[c], seen[c], sheet.by)
    BY <2>2 DEF Known, KnownUpTo
  <2>6. Underway(k, request[c], seen[c], done[c], contested[c], sheet)
    BY <1>2, <1>3, <1>9, <2>2, <2>4, <2>5 DEF Underway, Now
  <2>7. Account(k, request[c], seen[c], done[c], contested[c], sheet)
    BY <1>2, <1>3, <1>9, <2>2, <2>6 DEF Account
  <2> QED BY <1>1, <2>1, <2>2, <2>7, OthersStay, Untouched
<1>10. QED
  BY <1>5, <1>6, <1>7, <1>8, <1>9 DEF Receives

(***************************************************************************)
(* The server's steps                                                      *)
(***************************************************************************)
\* The request of c is at a phase of its route.
LEMMA AtPhase ==
    ASSUME ServerInv, NEW c \in Clients, NEW phase, At(c, phase)
    PROVE  /\ Underway(client[c], request[c], seen[c], done[c], contested[c], sheet)
           /\ client[c] \in ClientRecords /\ request[c] \in Requests /\ contested[c] \in BOOLEAN
           /\ client[c].step > 0 /\ request[c].state = "working"
           /\ Handler(c) = Now(client[c]).route
           /\ Now(client[c]).route.does[request[c].phase] = phase
BY AtWork DEF At, State, Handler, Here, Steps, Now

LEMMA AnswerOf ==
    ASSUME ServerInv, NEW c \in Clients, State(c) = "working"
    PROVE  /\ \A state : Answers(c, state)
                => request' = [request EXCEPT ![c] = Answer(client[c], state)]
           /\ Proceeds(c) => request' = [request EXCEPT ![c] = Onward(client[c], request[c])]
<1>1. client[c].step > 0 /\ request[c] \in Requests
  BY AtWork
<1>2. \A state : Answers(c, state) => request' = [request EXCEPT ![c] = Answer(client[c], state)]
  BY <1>1 DEF Answers, Answer, Running
<1>3. CASE request[c].phase = Len(Handler(c).does)
  BY <1>2, <1>3 DEF Proceeds, Onward, Handler, Here, Steps, Now
<1>4. CASE request[c].phase # Len(Handler(c).does)
  <2>1. Proceeds(c) => request' = [request EXCEPT ![c].phase = @ + 1]
    BY <1>4 DEF Proceeds
  <2>2. Onward(client[c], request[c]) = [request[c] EXCEPT !.phase = @ + 1]
    BY <1>4 DEF Onward, Handler, Here, Steps, Now
  <2>3. [request EXCEPT ![c].phase = @ + 1] = [request EXCEPT ![c] = [request[c] EXCEPT !.phase = @ + 1]]
    BY <1>1 DEF ServerInv, Types
  <2> QED BY <1>2, <2>1, <2>2, <2>3
<1> QED BY <1>2, <1>3, <1>4

LEMMA RefusalKeepsAccounts ==
    ASSUME ServerInv, NEW c \in Clients, State(c) = "working", Answers(c, "refused"),
           done[c] = 0 \/ contested[c], UNCHANGED <<sheet, client, seen, done, contested>>
    PROVE  ServerInv'
<1> DEFINE r == Answer(client[c], "refused")
<1>1. Underway(client[c], request[c], seen[c], done[c], contested[c], sheet)
      /\ client[c] \in ClientRecords /\ contested[c] \in BOOLEAN /\ request[c].state = "working"
  BY AtWork DEF State
<1>2. request' = [request EXCEPT ![c] = r]
  BY AnswerOf
<1>3. r = Answer(client[c], "refused")
  OBVIOUS
<1> HIDE DEF r
<1>4. Account(client[c], r, seen[c], done[c], contested[c], sheet) /\ r \in Requests
  BY <1>1, <1>3, Refusing
<1> QED BY <1>2, <1>4, OthersStay, Untouched

\* After the change of a command nothing is checked any more, and what is shown or read is
\* there unless somebody took it away: only a contested command is refused then.
LEMMA RefusedBeforeItsChange ==
    ASSUME ServerInv, NEW c \in Clients, State(c) = "working",
           NEW phase \in {"check", "read", "show", "commit", "put"}, At(c, phase),
           phase = "read" => ~There(Handler(c).on),
           phase = "show" => ~There(Handler(c).shows)
    PROVE  done[c] = 0 \/ contested[c]
<1> DEFINE k == client[c]
           route == Now(k).route
<1>1. /\ Underway(k, request[c], seen[c], done[c], contested[c], sheet)
      /\ k \in ClientRecords /\ request[c] \in Requests /\ contested[c] \in BOOLEAN
      /\ request[c].state = "working" /\ Handler(c) = route /\ route.does[request[c].phase] = phase
  BY AtPhase
<1>2. SUFFICES ASSUME done[c] = 1, ~contested[c] PROVE FALSE
  BY <1>1 DEF Underway, Counted
<1>3. Made(k, request[c]) /\ Kept(k.command, sheet.there)
  BY <1>1, <1>2 DEF Underway, Counted
<1>4. /\ k.step \in DOMAIN k.command.script /\ k.step \in Nat
      /\ DOMAIN k.command.script = 1..Len(k.command.script) /\ Len(k.command.script) \in Nat
      /\ IsItem(Now(k)) /\ Asks(Now(k)) /\ request[c].phase \in DOMAIN route.does
  BY <1>1, Changes DEF Underway, Now, ClientRecords
<1>5. phase \notin {"commit", "put"}
  BY <1>1, <1>2, FirstChange DEF Committing
<1>6. CASE \E i \in 1..(k.step - 1) : IsChange(k.command.script[i])
  <2>1. PICK i \in 1..(k.step - 1) : IsChange(k.command.script[i])
    BY <1>6
  <2>2. i \in DOMAIN k.command.script /\ k.step > i
    BY <1>4, <2>1
  <2>3. ChangesAt(k.command, i)
    BY <1>1, <2>1, <2>2, Changes DEF Underway
  <2>4. Follows(k.command.script[i], Now(k))
    BY <1>4, <2>2, <2>3 DEF ChangesAt, Now
  <2>5. route.on \in sheet.there /\ route.shows \in sheet.there
    BY <1>3, <1>4, <2>1, <2>2, <2>4 DEF Kept, Follows, Now
  <2>6. phase \in {"read", "show"}
    BY <1>1, <1>4, <2>4 DEF Follows
  <2> QED BY <1>1, <2>5, <2>6 DEF There
<1>7. CASE \E p \in 1..(request[c].phase - 1) : route.does[p] \in Committing
  <2>1. PICK p \in 1..(request[c].phase - 1) : route.does[p] \in Committing
    BY <1>7
  <2>2. Reading(route) \/ Writing(route)
    BY <1>4 DEF IsItem, Asks
  <2>3. route.does \in Seq(Phases)
    BY <2>2 DEF Reading, Writing, Names, IsRoute
  <2>4. /\ request[c].phase \in 1..Len(route.does) /\ Len(route.does) \in Nat
        /\ DOMAIN route.does = 1..Len(route.does)
    BY <1>4, <2>3
  <2>5. p \in DOMAIN route.does /\ p < request[c].phase /\ p # Len(route.does)
    BY <2>1, <2>4
  <2>6. Writing(route)
    BY <2>1, <2>2, <2>5 DEF Reading, Mutates
  <2>7. PICK q \in DOMAIN route.does :
            /\ route.does[q] \in Committing
            /\ \A o \in DOMAIN route.does : o # q => route.does[o] \notin Committing
            /\ \A o \in DOMAIN route.does : o > q => route.does[o] = "show"
            /\ route.does[q] = "put" => q = Len(route.does)
    BY <2>6 DEF Writing, ChangesOnce
  <2>8. q = p
    BY <2>1, <2>5, <2>7
  <2>9. phase = "show"
    BY <1>1, <1>4, <2>5, <2>7, <2>8
  <2>10. \A o \in DOMAIN route.does : route.does[o] # "put"
    BY <2>5, <2>7, <2>8 DEF Committing
  <2>11. IsChange(k.command.script[k.step])
    BY <1>4, <2>6 DEF IsChange, Now
  <2>12. route.shows \in sheet.there
    BY <1>3, <1>4, <2>10, <2>11 DEF Kept, Now
  <2> QED BY <1>1, <2>9, <2>12 DEF There
<1> QED BY <1>1, <1>3, <1>6, <1>7 DEF Made

LEMMA LooksKeepAccounts ==
    ASSUME ServerInv, NEW c \in Clients, Checks(c) \/ ShowsResult(c) \/ Reads(c)
    PROVE  ServerInv'
<1>1. PICK phase \in {"check", "show", "read"} : At(c, phase)
        /\ (phase = "check" => Checks(c)) /\ (phase = "show" => ShowsResult(c))
        /\ (phase = "read" => Reads(c))
  BY DEF Checks, ShowsResult, Reads
<1>2. /\ Underway(client[c], request[c], seen[c], done[c], contested[c], sheet)
      /\ client[c] \in ClientRecords /\ request[c] \in Requests /\ contested[c] \in BOOLEAN
      /\ request[c].state = "working" /\ State(c) = "working" /\ Handler(c) = Now(client[c]).route
      /\ Now(client[c]).route.does[request[c].phase] = phase
  BY <1>1, AtPhase DEF State
<1>3. UNCHANGED <<sheet, client, done, contested>>
  BY DEF Checks, ShowsResult, Reads
<1> DEFINE r == Onward(client[c], request[c])
<1>4. r = Onward(client[c], request[c])
  OBVIOUS
<1> HIDE DEF r
<1>5. CASE phase \in {"check", "show"} /\ Proceeds(c)
  <2>1. request' = [request EXCEPT ![c] = r] /\ UNCHANGED seen
    BY <1>1, <1>2, <1>4, <1>5, AnswerOf DEF Checks, ShowsResult
  <2>2. Account(client[c], r, seen[c], done[c], contested[c], sheet) /\ r \in Requests
    BY <1>2, <1>4, <1>5, Looking
  <2> QED BY <1>3, <2>1, <2>2, OthersStay, Untouched
<1>6. CASE phase = "read" /\ There(Handler(c).on)
  <2> DEFINE s == Told(seen[c], Now(client[c]).route, sheet.by)
  <2>1. request' = [request EXCEPT ![c] = r]
    BY <1>1, <1>2, <1>4, <1>6, AnswerOf DEF Reads
  <2>2. seen' = [seen EXCEPT ![c] = s]
    BY <1>1, <1>2, <1>6 DEF Reads, Told
  <2>3. s = Told(seen[c], Now(client[c]).route, sheet.by)
    OBVIOUS
  <2>4. DOMAIN s = {"name", "values"}
    BY Untouched DEF Told
  <2> HIDE DEF s
  <2>5. Account(client[c], r, s, done[c], contested[c], sheet) /\ r \in Requests
    <3>1. Now(client[c]).route.does[request[c].phase] = "read" /\ DOMAIN seen[c] = {"name", "values"}
      BY <1>2, <1>6, Untouched
    <3> QED BY <1>2, <1>4, <2>3, <3>1, ReadingAnswers
  <2> QED BY <1>3, <2>1, <2>2, <2>4, <2>5, OthersStay, Untouched
<1>7. CASE Answers(c, "refused") /\ (phase = "read" => ~There(Handler(c).on))
             /\ (phase = "show" => ~There(Handler(c).shows)) /\ UNCHANGED seen
  <2>1. done[c] = 0 \/ contested[c]
    BY <1>1, <1>2, <1>7, RefusedBeforeItsChange
  <2> QED BY <1>2, <1>3, <1>7, <2>1, RefusalKeepsAccounts
<1>8. CASE phase = "check"
  BY <1>1, <1>5, <1>7, <1>8 DEF Checks
<1>9. CASE phase = "show"
  BY <1>1, <1>5, <1>7, <1>9 DEF ShowsResult
<1>10. CASE phase = "read"
  BY <1>1, <1>6, <1>7, <1>10 DEF Reads
<1> QED BY <1>1, <1>8, <1>9, <1>10

LEMMA TurningDownKeepsAccounts ==
    ASSUME ServerInv, NEW c \in Clients, TurnsDown(c)
    PROVE  ServerInv'
<1>1. PICK phase \in {"commit", "put"} : At(c, phase)
  BY DEF TurnsDown
<1>2. State(c) = "working"
  BY <1>1 DEF At
<1>3. done[c] = 0 \/ contested[c]
  BY <1>1, <1>2, RefusedBeforeItsChange
<1> QED BY <1>2, <1>3, RefusalKeepsAccounts DEF TurnsDown

LEMMA CancelsKeepAccounts ==
    ASSUME ServerInv, NEW c \in Clients, IsCancelled(c)
    PROVE  ServerInv'
<1>1. State(c) = "working" /\ ~Running(c) /\ request' = [request EXCEPT ![c] = NoRequest]
      /\ UNCHANGED <<sheet, client, seen, done, contested>>
  BY DEF IsCancelled, Drop
<1>2. Underway(client[c], request[c], seen[c], done[c], contested[c], sheet)
      /\ client[c] \in ClientRecords /\ contested[c] \in BOOLEAN /\ request[c].state = "working"
      /\ client[c].exit # "none"
  BY <1>1, AtWork DEF State, Running
<1>3. done[c] \in {0, 1} /\ (done[c] = 1 => client[c].command.changes # {})
  BY <1>2 DEF Underway, Counted
<1>4. Account(client[c], NoRequest, seen[c], done[c], contested[c], sheet)
  BY <1>2, <1>3, AnsweringTheLost
<1> QED BY <1>1, <1>4, OthersStay, Untouched

LEMMA ChangesKeepAccounts ==
    ASSUME ServerInv, NEW c \in Clients, Commits(c) \/ Puts(c)
    PROVE  ServerInv'
<1>1. PICK phase \in {"commit", "put"} : At(c, phase) /\ (phase = "commit" => There(Handler(c).on))
  BY DEF Commits, Puts
<1>2. /\ Underway(client[c], request[c], seen[c], done[c], contested[c], sheet)
      /\ client[c] \in ClientRecords /\ request[c] \in Requests /\ contested[c] \in BOOLEAN
      /\ request[c].state = "working" /\ State(c) = "working" /\ Handler(c) = Now(client[c]).route
      /\ Now(client[c]).route.does[request[c].phase] = phase
  BY <1>1, AtPhase DEF State
<1>3. Takes(c)
  BY DEF Commits, Puts
<1>4. PICK gone \in Handler(c).drops : sheet'.there = sheet.there \cap Without(gone)
  BY <1>3 DEF Takes
<1>5. sheet'.there = Taken(sheet.there, gone)
  BY <1>4 DEF Without, Left, Taken
<1> DEFINE r == Onward(client[c], request[c])
<1>6. r = Onward(client[c], request[c])
  OBVIOUS
<1> HIDE DEF r
<1>7. /\ request' = [request EXCEPT ![c] = r] /\ done' = [done EXCEPT ![c] = @ + 1]
      /\ contested' = [d \in Clients |-> contested[d] \/ (d # c /\ client[d].step > 0)]
      /\ UNCHANGED <<client, seen>>
  BY <1>2, <1>3, <1>6, AnswerOf DEF Takes
<1>8. Account(client[c], r, seen[c], done[c] + 1, contested[c], sheet') /\ r \in Requests
      /\ InOrder(sheet'.there)
  <2>1. InOrder(sheet.there)
    BY DEF ServerInv
  <2>2. phase \in Committing /\ (phase = "put" \/ Now(client[c]).route.on \in sheet.there)
    BY <1>1, <1>2 DEF Committing, There
  <2>3. gone \in Now(client[c]).route.drops
    BY <1>2, <1>4
  <2>4. /\ Now(client[c]).route.does[request[c].phase] \in Committing
        /\ Now(client[c]).route.does[request[c].phase] = "put" \/ Now(client[c]).route.on \in sheet.there
    BY <1>2, <2>2
  <2> DEFINE sh == sheet'
  <2>5. sh.there = Taken(sheet.there, gone)
    BY <1>5
  <2> HIDE DEF sh
  <2>7. Commit(client[c], request[c], sheet, gone, sh)
    BY <2>1, <2>3, <2>4, <2>5 DEF Commit
  <2>6. Account(client[c], r, seen[c], done[c] + 1, contested[c], sh) /\ r \in Requests
        /\ InOrder(sh.there)
    BY <1>2, <1>6, <2>7, Changing
  <2> QED BY <2>6 DEF sh
<1>9. Types'
  BY <1>7, <1>8 DEF ServerInv, Types, ClientRecords
<1>10. ASSUME NEW d \in Clients
       PROVE  AccountOf(d)'
  <2>1. CASE d = c
    <3>1. contested'[c] = contested[c] /\ done'[c] = done[c] + 1 /\ request'[c] = r
          /\ client'[c] = client[c] /\ seen'[c] = seen[c]
      BY <1>2, <1>7 DEF ServerInv, Types
    <3> QED BY <1>8, <2>1, <3>1 DEF AccountOf
  <2>2. CASE d # c
    <3>1. contested'[d] = (contested[d] \/ client[d].step > 0) /\ done'[d] = done[d]
          /\ request'[d] = request[d] /\ client'[d] = client[d] /\ seen'[d] = seen[d]
      BY <1>7, <2>2 DEF ServerInv, Types
    <3>2. AccountOf(d) /\ client[d] \in ClientRecords /\ contested[d] \in BOOLEAN
      BY DEF ServerInv, Types
    <3>3. Account(client[d], request[d], seen[d], done[d], contested[d] \/ client[d].step > 0, sheet')
      BY <3>2, OthersContest DEF AccountOf
    <3> QED BY <3>1, <3>3 DEF AccountOf
  <2> QED BY <2>1, <2>2
<1>11. InOrder(sheet.there)'
  BY <1>8
<1> QED BY <1>9, <1>10, <1>11 DEF ServerInv

LEMMA StopKeepsAccounts ==
    ASSUME ServerInv, Stop
    PROVE  ServerInv'
<1>1. UNCHANGED <<sheet, client, seen, done, contested>>
  BY DEF Stop
<1>2. ASSUME NEW c \in Clients
      PROVE  request'[c] \in Requests /\ AccountOf(c)'
  <2>1. CASE State(c) # "working"
    <3>1. request'[c] = request[c]
      BY <2>1 DEF Stop
    <3> QED BY <1>1, <3>1 DEF ServerInv, AccountOf, Types
  <2>2. CASE State(c) = "working"
    <3>1. Underway(client[c], request[c], seen[c], done[c], contested[c], sheet)
          /\ client[c] \in ClientRecords /\ contested[c] \in BOOLEAN /\ request[c].state = "working"
          /\ client[c].step \in Nat \ {0} /\ done[c] \in {0, 1}
          /\ (done[c] = 1 => client[c].command.changes # {})
      BY <2>2, AtWork DEF State, Underway, Counted, ClientRecords
    <3>2. CASE ~Running(c)
      <4>1. request'[c] = NoRequest
        BY <2>2, <3>2 DEF Stop
      <4>2. client[c].exit # "none"
        BY <3>1, <3>2 DEF Running
      <4>3. Account(client[c], NoRequest, seen[c], done[c], contested[c], sheet)
        BY <3>1, <4>2, AnsweringTheLost
      <4> QED BY <1>1, <4>1, <4>3, Untouched DEF AccountOf
    <3>3. CASE Running(c)
      <4> DEFINE r == [state |-> "lost", phase |-> 0]
      <4>1. request'[c] = r
        BY <2>2, <3>3 DEF Stop
      <4>2. r \in Requests /\ r.state = "lost"
        BY DEF Requests, States
      <4> HIDE DEF r
      <4>3. done[c] = 0 /\ ~contested[c] => Known(client[c], r, seen[c], sheet.by)
        <5>1. ASSUME done[c] = 0, ~contested[c]
              PROVE  KnownUpTo(client[c], seen[c], sheet.by, client[c].step - 1)
          BY <3>1, <5>1 DEF Underway, Known, KnownUpTo
        <5> QED BY <4>2, <5>1 DEF Known
      <4>4. Counted(client[c], r, done[c], contested[c])
        BY <3>1, <4>2 DEF Counted
      <4>5. Underway(client[c], r, seen[c], done[c], contested[c], sheet)
        BY <3>1, <3>3, <4>2, <4>3, <4>4 DEF Underway, Running
      <4>6. Account(client[c], r, seen[c], done[c], contested[c], sheet)
        BY <3>1, <3>3, <4>5 DEF Account, Running
      <4> QED BY <1>1, <4>1, <4>2, <4>6 DEF AccountOf
    <3> QED BY <3>2, <3>3
  <2> QED BY <2>1, <2>2
<1>3. Types'
  <2>1. request' = [c \in Clients |-> request'[c]]
    BY DEF Stop
  <2> QED BY <1>1, <1>2, <2>1 DEF ServerInv, Types
<1>4. InOrder(sheet.there)'
  BY <1>1 DEF ServerInv
<1> QED BY <1>2, <1>3, <1>4 DEF ServerInv

LEMMA StandingKeepsAccounts ==
    ASSUME ServerInv, UNCHANGED exchangeVars
    PROVE  ServerInv'
BY DEF ServerInv, Types, AccountOf, exchangeVars

LEMMA ServerInvStep == ServerInv /\ [Next]_serverVars => ServerInv'
<1> SUFFICES ASSUME ServerInv, [Next]_serverVars PROVE ServerInv'
  OBVIOUS
<1>1. CASE OpenDatabase \/ StartServer \/ UNCHANGED serverVars
  <2>1. UNCHANGED exchangeVars
    BY <1>1 DEF OpenDatabase, StartServer, serverVars, exchangeVars
  <2> QED BY <2>1, StandingKeepsAccounts
<1>2. CASE Stop
  BY <1>2, StopKeepsAccounts
<1>3. ASSUME NEW c \in Clients, Run(c)
      PROVE  ServerInv'
  BY <1>3, RunKeepsAccounts
<1>4. ASSUME NEW c \in Clients, ClientStep(c)
      PROVE  ServerInv'
  BY <1>4, DecisionsKeepAccounts, RequestsKeepAccounts, AnswersKeepAccounts DEF ClientStep
<1>5. ASSUME NEW c \in Clients, Handle(c)
      PROVE  ServerInv'
  BY <1>5, LooksKeepAccounts, ChangesKeepAccounts, TurningDownKeepsAccounts, CancelsKeepAccounts
     DEF Handle
<1> QED BY <1>1, <1>2, <1>3, <1>4, <1>5 DEF Next

(***************************************************************************)
(* The theorems                                                            *)
(***************************************************************************)
\* The inductive invariant of the exchange of commands and server, for any number of clients,
\* any commands of theirs, and a server that may die as often as it likes.
THEOREM AccountsStayInOrder == Spec => []ServerInv
<1>1. ServerInv /\ [Next]_serverVars => ServerInv'
  BY ServerInvStep
<1> QED BY <1>1, ServerInvInit, PTL DEF Spec

\* What the exit codes 0 and 2 say of a change is true, of any command among any others: 0
\* that it was made, 2 that it was not.  No command makes its change twice, and one that gives
\* up by itself or is refused by the server has not made it unless somebody else was at it.
\* Codes 1 and 3 as such say nothing of it: CannotRead and LosesPatience end with them after the
\* change as well as before.
THEOREM ExitCodesStayTrue == Spec => []ExitCodesAreTrue
<1>1. ASSUME ServerInv
      PROVE  ExitCodesAreTrue
  <2>1. SUFFICES ASSUME NEW c \in Clients
                 PROVE  /\ done[c] <= IF client[c].command.changes # {} THEN 1 ELSE 0
                        /\ client[c].exit = "0" /\ client[c].command.changes # {} => done[c] = 1
                        /\ client[c].exit = "2" => done[c] = 0
                        /\ TurnedDown(c) /\ ~contested[c] => done[c] = 0
    BY DEF ExitCodesAreTrue
  <2>2. AccountOf(c)
    BY <1>1 DEF ServerInv
  <2>3. CASE client[c].step = 0
    BY <2>2, <2>3 DEF AccountOf, Account, Resting
  <2>4. CASE client[c].step # 0 /\ Underway(client[c], request[c], seen[c], done[c], contested[c], sheet)
    <3>1. ASSUME TurnedDown(c), ~contested[c]
          PROVE  done[c] = 0
      <4>1. client[c] \in ClientRecords
        BY <1>1 DEF ServerInv, Types
      <4>2. CASE Here(c).kind = "exit"
        <5>1. ~Asks(Now(client[c]))
          BY <4>2 DEF Here, Steps, Now, Asks
        <5> QED BY <2>4, <4>1, <5>1, DecidesBefore
      <4>3. CASE State(c) = "refused"
        BY <2>4, <3>1, <4>3 DEF Underway, Counted, State
      <4> QED BY <3>1, <4>2, <4>3 DEF TurnedDown
    <3> QED BY <2>4, <3>1 DEF Underway, Counted
  <2>5. CASE client[c].step # 0 /\ ~Running(c) /\ Truthful(client[c], request[c], done[c])
    BY <2>5 DEF Truthful, Tells, TurnedDown
  <2> QED BY <2>2, <2>3, <2>4, <2>5 DEF AccountOf, Account, Running
<1> QED BY <1>1, AccountsStayInOrder, PTL

\* A command that nobody else disturbs changes nothing but what its user named, although its
\* requests carry more: what they carry is what it was told, and that is still so.
THEOREM LoneCommandsAreExact == Spec => LoneCommandsChangeOnlyWhatTheyName
<1> DEFINE Exact == \A c \in Clients :
                      done'[c] > done[c] /\ ~contested[c]
                        => \A a \in Aspects \ client[c].command.changes : sheet'.by[a] = sheet.by[a]
<1>1. ASSUME ServerInv, [Next]_serverVars
      PROVE  Exact
  <2>1. SUFFICES ASSUME NEW c \in Clients, done'[c] > done[c], ~contested[c],
                        NEW a \in Aspects \ client[c].command.changes
                 PROVE  sheet'.by[a] = sheet.by[a]
    OBVIOUS
  <2>2. \A d \in Clients : done[d] \in Nat
    BY <1>1 DEF ServerInv, Types
  <2>3. UNCHANGED done \/ \E d \in Clients : Commits(d) \/ Puts(d)
    BY <1>1 DEF Next, OpenDatabase, StartServer, Stop, Run, ClientStep, DecidesLocally, RequestAt,
                Receives, CannotRead, LosesPatience, Handle, Checks, Reads, ShowsResult, TurnsDown,
                IsCancelled, serverVars, exchangeVars
  <2>4. ~UNCHANGED done
    BY <2>1, <2>2
  <2>5. PICK d \in Clients : Commits(d) \/ Puts(d)
    BY <2>3, <2>4
  <2>6. Takes(d)
    BY <2>5 DEF Commits, Puts
  <2>7. d = c
    BY <1>1, <2>1, <2>2, <2>6 DEF Takes, ServerInv, Types
  <2>8. PICK phase \in Committing : At(c, phase)
    BY <2>5, <2>7 DEF Commits, Puts, Committing
  <2>9. /\ Underway(client[c], request[c], seen[c], done[c], contested[c], sheet)
        /\ client[c] \in ClientRecords /\ request[c] \in Requests /\ contested[c] \in BOOLEAN
        /\ request[c].state = "working" /\ Handler(c) = Now(client[c]).route
        /\ Now(client[c]).route.does[request[c].phase] \in Committing
    BY <1>1, <2>8, AtPhase
  <2>10. sheet'.by[a] = IF a \in Handler(c).writes THEN Sent(c, a) ELSE sheet.by[a]
    BY <2>1, <2>6, <2>7 DEF Takes
  <2>11. SUFFICES ASSUME a \in Now(client[c]).route.writes PROVE seen[c][a] = sheet.by[a]
    BY <2>1, <2>9, <2>10 DEF Sent
  <2>12. done[c] = 0 /\ ChangesAt(client[c].command, client[c].step) /\ client[c].step \in Nat
    BY <2>9, FirstChange
  <2>13. KnownUpTo(client[c], seen[c], sheet.by, client[c].step - 1)
    BY <2>1, <2>9, <2>12 DEF Underway, Known, KnownUpTo
  <2>14. PICK i \in 1..(client[c].step - 1) : Asks(client[c].command.script[i])
                                              /\ a \in client[c].command.script[i].route.reads
    BY <2>1, <2>11, <2>12 DEF ChangesAt, Now
  <2> QED BY <2>13, <2>14 DEF KnownUpTo
<1>2. ServerInv /\ [Next]_serverVars => [Exact]_serverVars
  BY <1>1
<1>3. Spec => [][Exact]_serverVars
  BY <1>2, AccountsStayInOrder, PTL DEF Spec
<1> QED BY <1>3 DEF LoneCommandsChangeOnlyWhatTheyName

(***************************************************************************)
(* The store under the server                                              *)
(***************************************************************************)
\* Only the process opens, dies and starts over: clients and handlers do not touch how far
\* the database is opened.
LEMMA ServerStepIsOpeningStep == [Next]_serverVars => [Open \/ Crash \/ Start]_storeVars
<1> SUFFICES ASSUME [Next]_serverVars PROVE [Open \/ Crash \/ Start]_storeVars
  OBVIOUS
<1>1. CASE OpenDatabase \/ StartServer \/ Stop
  BY <1>1 DEF OpenDatabase, StartServer, Stop
<1>2. CASE \E c \in Clients : Run(c) \/ ClientStep(c) \/ Handle(c)
  BY <1>2 DEF Run, ClientStep, DecidesLocally, RequestAt, Receives, CannotRead, LosesPatience,
              Handle, Checks, Reads, ShowsResult, Commits, Puts, Takes, TurnsDown, IsCancelled
<1>3. CASE UNCHANGED serverVars
  BY <1>3 DEF serverVars, storeVars, exchangeVars
<1> QED
  BY <1>1, <1>2, <1>3 DEF Next

\* However often opening is interrupted, from whatever store it starts: what lies before
\* the part it has got to has been brought about, and rows, references and ports are in
\* order (StoreInv).
THEOREM OpeningStaysInOrder == Spec => []StoreInv
<1>1. ServerInit => StoreInv
  BY StoreInvInit DEF ServerInit
<1>2. StoreInv /\ [Next]_serverVars => StoreInv'
  BY ServerStepIsOpeningStep, OpeningSteps
<1> QED
  BY <1>1, <1>2, PTL DEF Spec

\* Whatever store of an earlier version is opened, once it is served it has every column, a
\* flowsheet, a project for each, dense tab positions, no parameters in the first version's
\* columns and one wire per declared port; and all revisions, unless the process died.
THEOREM OpenedStoresStayWellFormed == Spec => []OpenedStoresAreWellFormed
  BY OpeningStaysInOrder, ServedIsWellFormed, PTL

\* No step of opening, and no death in between, changes the store opening is going to end
\* with, but for the revisions.
THEOREM OpeningStaysResumable == Spec => OpeningIsResumable
<1> DEFINE SameEndAhead == Unstamped(Completed(store')) = Unstamped(Completed(store))
<1>1. StoreInv /\ [Next]_serverVars => [SameEndAhead]_storeVars
  BY ServerStepIsOpeningStep, OpeningSteps DEF SameEnd
<1>2. Spec => [][SameEndAhead]_storeVars
  BY <1>1, OpeningStaysInOrder, PTL DEF Spec
<1> QED
  BY <1>2 DEF OpeningIsResumable
=============================================================================
