------------------------------ MODULE Commands ------------------------------
(***************************************************************************)
(* What the clients of the server do: the commands of the command line     *)
(* (cmd/processlab) and the actions of a browser on a page.                *)
(*                                                                         *)
(* A command is a script of requests and of local decisions in between,    *)
(* each of which may end it with an exit code of its own: 2 for a usage    *)
(* error, 1 for any other.  `changes` are the aspects its user asks it to  *)
(* change; a request body also carries aspects that were only read before. *)
(* Options that only show (--help, --json, --dry-run) are left out.        *)
(***************************************************************************)
EXTENDS Routes

Ask(route)       == [kind |-> "ask", route |-> route, refusal |-> {"1"}]
AskIfAny(route)  == [kind |-> "ask", route |-> route, refusal |-> {"0", "1"}]  \* may be an answer, too
MayExit(code)    == [kind |-> "exit", code |-> code]
Usage == MayExit("2")
Fails == MayExit("1")

\* Every command may be used wrongly, have a bad --server or --timeout: NewAPIClient.
NewAPIClient == Usage
Command(changes, script) == [changes |-> changes, script |-> <<NewAPIClient>> \o script]
Query(route)    == Command({}, <<Ask(route)>>)
Request(route)  == Command(route.writes, <<Ask(route)>>)

(***************************************************************************)
(* Projects, flowsheets and documents (workspace_command.go,               *)
(* document_command.go)                                                    *)
(***************************************************************************)
RunWorkspaceAction(route) == Ask(route)

RunProjectList   == Query(ProjectListAPI)
RunProjectShow   == Query(ProjectDetailAPI)
RunProjectCreate == Command({"projects"}, <<RunWorkspaceAction(ProjectCreateAPI)>>)
RunProjectRename == Command({"project_name"}, <<RunWorkspaceAction(ProjectRenameAPI)>>)
RunProjectDelete == Command({"projects"}, <<RunWorkspaceAction(ProjectDeleteAPI)>>)
RunFlowList      == Query(FlowListAPI)
RunFlowShow      == Query(FlowDetailAPI)
RunFlowCreate    == Command({"sheets"}, <<RunWorkspaceAction(FlowCreateAPI)>>)
RunFlowRename    == Command({"tab_name"}, <<RunWorkspaceAction(FlowRenameAPI)>>)
RunFlowDuplicate == Command({"sheets"}, <<RunWorkspaceAction(FlowDuplicateAPI)>>)
RunFlowReorder   == Command({"tab_order"}, <<RunWorkspaceAction(FlowReorderAPI)>>)

\* Blocks without --force end it, here and, should some be added, in the server.
RunFlowDelete ==
    Command({"sheets"}, <<Ask(FlowDetailAPI), Fails, RunWorkspaceAction(FlowDeleteAPI)>>)

RunFlowDump  == Query(FlowDocumentDumpAPI)
RunFlowApply ==
    Command({"blocks", "name", "values", "layout", "wires", "roles"},
            <<Fails, Usage, Ask(FlowDocumentApplyAPI)>>)

(***************************************************************************)
(* Blocks and wires (block_command.go, block_edit_command.go,              *)
(* wire_command.go)                                                        *)
(***************************************************************************)
RequestBlockLibrary == Ask(BlockLibraryAPI)
RequestBlockSchema  == Ask(BlockSchemaAPI)
RequestBlock        == Ask(BlockDetailAPI)

RunBlockList == Query(BlockListAPI)
RunBlockHelp == Command({}, <<RequestBlockLibrary, Usage, RequestBlockSchema>>)
RunBlockAdd  ==
    Command({"blocks"},
            <<RequestBlockLibrary, Usage, RequestBlockSchema, Usage, Ask(AddBlockAPI)>>)
RunBlockShow == Command({}, <<RequestBlock>>)

\* Faulty variant: the rest of the form comes from the schema.
RunBlockSet_Defaults == Command({"values"}, <<RequestBlockSchema, Usage, Ask(UpdateBlockAPI)>>)

\* The name and all parameters are sent back, those the user gave replaced.
RunBlockSet ==
    Command({"values"}, <<RequestBlock, RequestBlockSchema, Usage, Ask(UpdateBlockAPI)>>)

RunBlockIDsAction(changes, route) == Command(changes, <<Ask(route)>>)
RunBlockMove      == Command({"layout"}, <<Ask(MoveBlocksAPI)>>)
RunBlockDelete    == RunBlockIDsAction({"blocks", "wires", "roles"}, DeleteBlocksAPI)
RunBlockDuplicate == RunBlockIDsAction({"blocks", "wires"}, DuplicateBlocksAPI)

RunWireList    == Query(WireListAPI)
RunWireConnect == Command({"wires"}, <<Ask(WireConnectAPI)>>)
RemoveWire(route) == Command({"wires"}, <<Ask(route)>>)
RunWireRemove == {RemoveWire(WireDisconnectAPI), RemoveWire(WireDisconnectBlockAPI)}

(***************************************************************************)
(* Roles, runs, analyses, studies                                          *)
(***************************************************************************)
GetRoles      == Ask(GetControlRoles)
PutRoles      == Ask(AssignControlRoles)
GetRoleBlocks == Ask(BlockListAPI)
GetRoleWires  == Ask(WireListAPI)

\* Cleared roles are an error of the server and an answer of the command.
RunRolesShow == Command({}, <<AskIfAny(GetControlRoles), GetRoleBlocks>>)
RunRolesSet  ==
    Command({"roles"}, <<GetRoleBlocks, GetRoleWires, Fails, PutRoles>>)

RunSimulationRun   == Command({"runs"}, <<Ask(SimulationRunAPI)>>)
RunSimulationShow  == Query(SimulationShowAPI)
RunAnalyzeChannels == Query(AnalysisShowAPI)
RunAnalyzeRun      == Command({"analysis"}, <<Ask(AnalysisRunAPI)>>)
RunAnalyzeShow     == Query(AnalysisShowAPI)
RunStudyShow       == Query(ModelStudyAPI)
ExportedResults    == Command({}, <<Ask(ExportResults), Fails>>)
LogEvents          == Query(EventsAPI)

ParseSweepAxes == <<RequestBlock, RequestBlockSchema, Usage, Fails>>
RunSweepRun    == Command({}, ParseSweepAxes \o <<Usage, Ask(ParameterSweepRunAPI)>>)

(***************************************************************************)
(* Identification, nonlinear models (ident_command.go,                     *)
(* nonlinear_command.go)                                                   *)
(***************************************************************************)
RunIdentEstimate      == Command({}, <<Fails, Usage, Ask(IdentificationEstimateAPI)>>)
RunIdentERA           == Command({}, <<Fails, Usage, Ask(IdentificationERAAPI)>>)
RunNonlinearRegister  == Command({"library"}, <<Usage, Ask(NonlinearDefinitionRegisterAPI)>>)
RunNonlinearLinearize == Command({}, <<Usage, Ask(NonlinearLinearizeAPI)>>)
RunNonlinearEKF       ==
    Command({}, <<Ask(NonlinearDefinitionShowAPI), Usage, Fails, Ask(NonlinearEKFAPI)>>)

(***************************************************************************)
(* Controllers (controller_command.go)                                     *)
(***************************************************************************)
PostControllerCandidate(route) == Ask(route)
RequestControllerCandidate == Ask(ControllerCandidateShowAPI)
GetControllerBlocks        == Ask(BlockListAPI)

\* Without --flow one flowsheet after the other is asked; those that do not have the
\* candidate are passed over.
FindControllerCandidate == <<Ask(FlowListAPI), RequestControllerCandidate>>

RunControllerPID ==
    Command({"candidate"}, <<PostControllerCandidate(ControllerCandidatePIDAPI)>>)
RunControllerStateFeedback ==
    Command({"candidate"}, <<PostControllerCandidate(ControllerCandidateStateFeedbackAPI)>>)
RunControllerEstimator ==
    Command({"candidate"}, <<PostControllerCandidate(ControllerCandidateEstimatorAPI)>>)
RunControllerObserver ==
    Command({"candidate"}, <<PostControllerCandidate(ControllerCandidateStateAPI)>>)
RunControllerRobust ==
    Command({"candidate"}, <<PostControllerCandidate(ControllerCandidateRobustAPI)>>)
RunControllerTune ==
    Command({"candidate"},
            <<GetRoles, Fails, Usage, PostControllerCandidate(ControllerCandidateTuningAPI)>>)
RunControllerReview == Query(ControllerCandidateShowAPI)

\* The blocks are compared around the action.
RunControllerAction(route) ==
    Command({"values", "candidate"},
            FindControllerCandidate \o <<GetControllerBlocks, Ask(route), GetControllerBlocks>>)
RunControllerApply == RunControllerAction(ControllerCandidateApplyAPI)
RunControllerUndo  == RunControllerAction(ControllerCandidateUndoAPI)

(***************************************************************************)
(* A browser: each handler of a page is one request, and the form of a     *)
(* block is filled when the page is drawn.                                 *)
(***************************************************************************)
EditBlockOnPage == Command({"values"}, <<Ask(Workbench), Ask(UpdateBlock)>>)

PageActions == {Request(route) : route \in
    {Page, ProjectPage, ProjectFlowPage, CreateProject, RenameProject, DeleteProject, CreateFlow,
     RenameFlow, DuplicateFlow, ReorderFlows, DeleteFlow, AddBlock, FlipBlock, MoveBlock,
     MoveBlocks, DeleteBlock, DeleteBlocks, DuplicateBlocks, Connect, Disconnect, DisconnectBlock,
     RunSimulation, RunAnalysis, SimulationCSV, DesignPIDCandidate, DesignStateCandidate,
     DesignRobustCandidate, ApplyControllerCandidate, UndoControllerCandidate}}

\* Routes no command uses: clients of the API of their own.
OtherRequests == {Request(route) : route \in
    {MoveBlockAPI, DeleteBlockAPI, SimulationHistoryAPI, SimulationRunShowAPI}}

CommandTree ==
    {RunProjectList, RunProjectShow, RunProjectCreate, RunProjectRename, RunProjectDelete,
     RunFlowList, RunFlowShow, RunFlowCreate, RunFlowRename, RunFlowDuplicate, RunFlowReorder,
     RunFlowDelete, RunFlowDump, RunFlowApply, RunBlockList, RunBlockHelp, RunBlockAdd,
     RunBlockShow, RunBlockSet, RunBlockMove, RunBlockDelete, RunBlockDuplicate, RunWireList,
     RunWireConnect, RunRolesShow, RunRolesSet, RunSimulationRun, RunSimulationShow,
     RunAnalyzeChannels, RunAnalyzeRun, RunAnalyzeShow, RunStudyShow, ExportedResults, LogEvents,
     RunSweepRun, RunIdentEstimate, RunIdentERA, RunNonlinearRegister, RunNonlinearLinearize,
     RunNonlinearEKF, RunControllerPID, RunControllerStateFeedback, RunControllerEstimator,
     RunControllerObserver, RunControllerRobust, RunControllerTune, RunControllerReview,
     RunControllerApply, RunControllerUndo}
    \cup RunWireRemove

AllCommands == CommandTree \cup PageActions \cup OtherRequests \cup {EditBlockOnPage}
=============================================================================
