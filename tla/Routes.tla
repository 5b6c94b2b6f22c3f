------------------------------- MODULE Routes -------------------------------
(***************************************************************************)
(* The handlers of the HTTP server (internal/web): the JSON API, the       *)
(* pages, and the routes of the page server the command line uses too.     *)
(*                                                                         *)
(* A handler is what it does in order, every phase one transaction of the  *)
(* store (the connection is shared, server.go has no lock of its own) or   *)
(* one calculation outside of it:                                          *)
(*   check    looks at the request or calculates, and may refuse           *)
(*   read     takes a snapshot of `on`, and refuses when that is gone      *)
(*   commit   the one transaction that changes the store, or none of it    *)
(*   put      the candidate enters the registry, or is turned away         *)
(*   show     reads `shows` for the answer, after the commit               *)
(* `writes` are the aspects the commit replaces by what the request says,  *)
(* `drops` what it may remove, `reads` what the answer tells the client.   *)
(***************************************************************************)
EXTENDS Sequences

Things == <<"app", "project", "flow", "block", "wire">>  \* each inside the one before

Aspects == {"projects", "project_name", "sheets", "tab_name", "tab_order", "blocks", "name",
            "values", "layout", "wires", "roles", "runs", "analysis", "candidate", "library"}

Route(on, shows, does, writes) ==
    [on |-> on, shows |-> shows, does |-> does, writes |-> writes,
     drops |-> {"nothing"}, reads |-> {}]
Shows(on, does) == Route(on, on, does, {})
Reports(on, does, aspects) == [Shows(on, does) EXCEPT !.reads = aspects]
Removes(thing, shows, does, writes) ==
    [Route(thing, shows, does, writes) EXCEPT !.drops = {thing}]
MayRemove(thing, route) == [route EXCEPT !.drops = {"nothing", thing}]

(***************************************************************************)
(* The API: projects and flowsheets (workspace_api.go, document_api.go)    *)
(***************************************************************************)
ProjectListAPI   == Shows("app", <<"read">>)
ProjectDetailAPI == Shows("project", <<"read">>)
ProjectCreateAPI == Route("app", "app", <<"check", "commit", "show">>, {"projects"})
ProjectRenameAPI == Route("project", "project", <<"check", "commit", "show">>, {"project_name"})
ProjectDeleteAPI == Removes("project", "app", <<"check", "commit", "show">>, {"projects"})
FlowListAPI      == Shows("app", <<"read", "check">>)
FlowDetailAPI    == Shows("flow", <<"read", "read">>)
FlowCreateAPI    == Route("project", "project", <<"check", "commit", "show">>, {"sheets"})
FlowRenameAPI    == Route("flow", "flow", <<"check", "commit", "show">>, {"tab_name"})
FlowDuplicateAPI == Route("flow", "project", <<"commit", "show">>, {"sheets"})
FlowReorderAPI   == Route("project", "project", <<"check", "commit", "show">>, {"tab_order"})

\* The blocks are counted in one transaction and deleted in another.
FlowDeleteAPI ==
    Removes("flow", "project", <<"check", "read", "read", "check", "commit", "show">>, {"sheets"})

FlowDocumentDumpAPI  == Shows("flow", <<"read">>)
FlowDocumentApplyAPI ==
    MayRemove("block",
        Route("flow", "flow", <<"check", "read", "commit", "show">>,
              {"blocks", "name", "values", "layout", "wires", "roles"}))

(***************************************************************************)
(* The API: blocks and wires (block_api.go, wire_api.go, catalog_api.go)   *)
(***************************************************************************)
BlockLibraryAPI == Shows("app", <<>>)
BlockSchemaAPI  == Shows("app", <<"check">>)
BlockListAPI    == Shows("flow", <<"read">>)

\* A block or a wire by its id alone: the register first, then the snapshots.
SnapshotBlockByID      == <<"read", "read">>
SnapshotConnectionByID == <<"read", "read">>

BlockDetailAPI == Reports("block", SnapshotBlockByID, {"name", "values"})
AddBlockAPI    == Route("flow", "flow", <<"check", "commit", "show">>, {"blocks"})
UpdateBlockAPI == Route("block", "block", <<"check", "commit", "show">>, {"name", "values"})
MoveBlockAPI   == Route("block", "block", <<"read", "read", "check", "commit", "show">>, {"layout"})
MoveBlocksAPI  == Route("flow", "flow", <<"check", "commit", "show">>, {"layout"})
DeleteBlockAPI == Removes("block", "flow", <<"commit", "show">>, {"blocks", "wires", "roles"})
DeleteBlocksAPI ==
    MayRemove("block",
        Route("flow", "flow", <<"check", "commit", "show">>, {"blocks", "wires", "roles"}))
DuplicateBlocksAPI ==
    Route("flow", "flow", <<"check", "read", "commit", "show">>, {"blocks", "wires"})

WireListAPI       == Shows("flow", <<"read">>)
WireConnectAPI    == Route("flow", "flow", <<"check", "commit", "show">>, {"wires"})
WireDisconnectAPI ==
    Removes("wire", "flow", SnapshotConnectionByID \o <<"commit", "show">>, {"wires"})
WireDisconnectBlockAPI ==
    MayRemove("wire", Route("block", "flow", SnapshotBlockByID \o <<"commit", "show">>, {"wires"}))

(***************************************************************************)
(* The API: runs, analyses, studies, identification, nonlinear models      *)
(***************************************************************************)
SimulationRunAPI ==
    Route("flow", "flow", <<"check", "read", "check", "commit", "show">>, {"runs"})
SimulationShowAPI    == Shows("flow", <<"read", "read", "read">>)
SimulationHistoryAPI == Shows("flow", <<"check", "read">>)
SimulationRunShowAPI == Shows("flow", <<"read">>)
AnalysisShowAPI      == Shows("flow", <<"read", "read">>)
AnalysisRunAPI ==
    Route("flow", "flow", <<"check", "read", "check", "commit", "show">>, {"analysis"})
EventsAPI            == Shows("flow", <<"check", "read">>)
ParameterSweepRunAPI == Shows("flow", <<"check", "read", "check">>)
ModelStudyAPI        == Shows("flow", <<"check", "read", "check">>)

IdentificationEstimateAPI      == Shows("app", <<"check">>)
IdentificationERAAPI           == Shows("app", <<"check">>)
NonlinearDefinitionRegisterAPI == Route("app", "app", <<"check", "commit">>, {"library"})
NonlinearDefinitionShowAPI     == Shows("app", <<"check", "read">>)
NonlinearLinearizeAPI          == Shows("app", <<"check", "read", "check">>)
NonlinearEKFAPI                == Shows("app", <<"check", "read", "check">>)

(***************************************************************************)
(* The API: controller candidates (controller_candidates_api.go)           *)
(***************************************************************************)
\* Design, review and StoreControllerCandidate.
StoreControllerCandidate == <<"put">>
DesignRoute ==
    Route("flow", "flow", <<"check", "read", "check", "read", "check">> \o StoreControllerCandidate,
          {"candidate"})

ControllerCandidatePIDAPI           == DesignRoute
ControllerCandidateStateAPI         == DesignRoute
ControllerCandidateStateFeedbackAPI == DesignRoute
ControllerCandidateEstimatorAPI     == DesignRoute
ControllerCandidateTuningAPI        == DesignRoute
ControllerCandidateRobustAPI        == DesignRoute
ControllerCandidateShowAPI          == Shows("flow", <<"check">>)
ControllerCandidateApplyAPI ==
    Route("flow", "flow", <<"check", "commit", "show", "show">>, {"values", "candidate"})
ControllerCandidateUndoAPI ==
    Route("flow", "flow", <<"check", "commit", "show">>, {"values", "candidate"})

(***************************************************************************)
(* The pages (server.go, navigation.go): a refusal is a banner or an error *)
(* status, a success the sheet as it is after the commit, rendered with    *)
(* one more read, or a redirect, or no content.                            *)
(***************************************************************************)
RequestWorkbenchView == <<"show">>
RenderWorkbench      == <<"show">> \o RequestWorkbenchView
RenderRegisterRows   == <<"show">>

Page            == Shows("app", <<"read">>)
ProjectPage     == Shows("project", <<"read">>)
ProjectFlowPage == Shows("flow", <<"read">> \o RequestWorkbenchView)
Workbench       == Reports("block", <<"read">> \o RenderWorkbench, {"name", "values"})

CreateProject == Route("app", "app", <<"check", "commit", "show">>, {"projects"})
RenameProject ==
    Route("project", "app", <<"check", "commit", "show">> \o RenderRegisterRows, {"project_name"})
DeleteProject == Removes("project", "app", <<"commit", "show">>, {"projects"})
CreateFlow    == Route("project", "project", <<"check", "commit", "show">>, {"sheets"})
RenameFlow ==
    Route("flow", "flow", <<"check", "commit", "show">> \o RequestWorkbenchView, {"tab_name"})
DuplicateFlow == Route("flow", "project", <<"commit", "show">> \o RequestWorkbenchView, {"sheets"})
ReorderFlows  == Route("project", "project", <<"check", "commit", "show">>, {"tab_order"})
DeleteFlow ==
    Removes("flow", "project", <<"commit", "show">> \o RequestWorkbenchView, {"sheets"})

AddBlock    == Route("flow", "flow", <<"check", "commit", "show">> \o RenderWorkbench, {"blocks"})
UpdateBlock ==
    Route("block", "flow", <<"check", "commit", "show">> \o RenderWorkbench, {"name", "values"})
FlipBlock   == Route("block", "flow", <<"commit", "show">> \o RenderWorkbench, {"layout"})
MoveBlock   == Route("block", "flow", <<"check", "commit">>, {"layout"})
MoveBlocks  == Route("flow", "flow", <<"check", "commit">>, {"layout"})
DeleteBlock ==
    Removes("block", "flow", <<"commit", "show">> \o RenderWorkbench, {"blocks", "wires", "roles"})
DeleteBlocks ==
    MayRemove("block",
        Route("flow", "flow", <<"check", "commit", "show">> \o RenderWorkbench,
              {"blocks", "wires", "roles"}))
DuplicateBlocks ==
    Route("flow", "flow", <<"check", "commit", "show">> \o RenderWorkbench, {"blocks", "wires"})
Connect    == Route("flow", "flow", <<"check", "commit", "show">> \o RenderWorkbench, {"wires"})
Disconnect == Removes("wire", "flow", <<"commit", "show">> \o RenderWorkbench, {"wires"})
DisconnectBlock ==
    MayRemove("wire", Route("block", "flow", <<"commit", "show">> \o RenderWorkbench, {"wires"}))

RunSimulation ==
    Route("flow", "flow", <<"check", "read", "check", "commit", "show">> \o RenderWorkbench, {"runs"})
RunAnalysis ==
    Route("flow", "flow", <<"check", "read", "check", "commit", "show", "show">> \o RenderWorkbench,
          {"analysis"})
SimulationCSV == Shows("flow", <<"check", "read", "check">>)
ExportResults == Shows("flow", <<"read">>)

GetControlRoles    == Shows("flow", <<"read", "check">>)
AssignControlRoles == Route("flow", "flow", <<"check", "commit">>, {"roles"})

DesignPIDCandidate       == DesignRoute
DesignStateCandidate     == DesignRoute
DesignRobustCandidate    == DesignRoute
ApplyControllerCandidate ==
    Route("flow", "flow", <<"check", "commit", "show", "show">> \o RenderWorkbench,
          {"values", "candidate"})
UndoControllerCandidate ==
    Route("flow", "flow", <<"check", "commit", "show">> \o RenderWorkbench, {"values", "candidate"})
=============================================================================
