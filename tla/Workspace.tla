------------------------------ MODULE Workspace ------------------------------
(***************************************************************************)
(* Projects and the flowsheets in their tab strips                         *)
(* (internal/studio/lifecycle.go), kept in two tables: a flows row names   *)
(* its project and an integer position, and a strip is read by ordering    *)
(* on (position, id).  Each operation is one transaction; the workspace    *)
(* it answers with is read in steps of its own after the commit, and other *)
(* clients' transactions may fall in between.  Names and times are left    *)
(* out.                                                                    *)
(***************************************************************************)
EXTENDS Naturals, Sequences, FiniteSets, SequencesExt

CONSTANTS
    Clients,       \* who sends requests, one at a time each
    MaxProjectId,  \* bound: no projects row gets a larger id
    MaxFlowId      \* bound: no flows row gets a larger id

ASSUME WorkspaceBounds == MaxProjectId \in Nat \ {0} /\ MaxFlowId \in Nat \ {0}

VARIABLES
    projects,  \* the ids of the projects table
    flows,     \* the flows table: id |-> [project, position]
    landing,   \* the <<project, flowsheet>> the last transaction lands on
    due        \* client |-> the answer its last transaction still owes

vars == <<projects, flows, landing, due>>

\* want: what is looked up next, "nothing" once the page is out and "lost" once
\* it could not be found.  disturbed records that another client deleted rows
\* since the commit.
Owed(want, project, flow) ==
    [want |-> want, project |-> project, flow |-> flow, disturbed |-> FALSE]
Answered == Owed("nothing", 0, 0)
Lost     == Owed("lost", 0, 0)
Ready(c) == due[c] \in {Answered, Lost}

\* seed: the project and the flowsheet of a new store.
Init ==
    /\ projects = {1}
    /\ flows = [f \in {1} |-> [project |-> 1, position |-> 0]]
    /\ landing = <<1, 1>>
    /\ due = [c \in Clients |-> Answered]

(***************************************************************************)
(* What the transactions share                                             *)
(***************************************************************************)
SheetsOf(p) == {f \in DOMAIN flows : flows[f].project = p}

\* The id SQLite gives the next row of a table: one more than the largest.
NextRowid(ids) == IF ids = {} THEN 1 ELSE Max(ids) + 1

\* ORDER BY position, id.
LeftOf(f, g) ==
    \/ flows[f].position < flows[g].position
    \/ flows[f].position = flows[g].position /\ f < g
Leftmost(sheets)  == CHOOSE f \in sheets : \A g \in sheets \ {f} : LeftOf(f, g)
Rightmost(sheets) == CHOOSE f \in sheets : \A g \in sheets \ {f} : LeftOf(g, f)

\* COALESCE(MAX(position) + 1, 0) over the project's flowsheets.
EndPosition(p) ==
    IF SheetsOf(p) = {} THEN 0 ELSE Max({flows[f].position : f \in SheetsOf(p)}) + 1

\* The answers of c's transaction and, of a deletion, what it does to the others'.
Owes(c, owed) == due' = [due EXCEPT ![c] = owed]
OwesAfterDeleting(c, owed) ==
    due' = [d \in Clients |-> IF d = c THEN owed
                              ELSE IF Ready(d) THEN due[d]
                              ELSE [due[d] EXCEPT !.disturbed = TRUE]]

WithFlow(table, f, row) ==
    [g \in DOMAIN table \cup {f} |-> IF g = f THEN row ELSE table[g]]

(***************************************************************************)
(* The operations                                                          *)
(***************************************************************************)
CreateProject(c) ==
    LET p == NextRowid(projects)
        f == NextRowid(DOMAIN flows)
    IN  /\ p <= MaxProjectId /\ f <= MaxFlowId
        /\ projects' = projects \cup {p}
        /\ flows' = WithFlow(flows, f, [project |-> p, position |-> EndPosition(p)])
        /\ landing' = <<p, f>>
        /\ Owes(c, Owed("tab", p, f))

\* Faulty variant: the flowsheets stay behind.
DeleteProjectOnly(c, p) ==
    /\ projects # {p}
    /\ projects' = projects \ {p}
    /\ landing' = LET q == Min({flows[f].project : f \in DOMAIN flows} \ {p})
                  IN  <<q, Leftmost(SheetsOf(q))>>
    /\ OwesAfterDeleting(c, Owed("workspace", 0, 0))
    /\ UNCHANGED flows

\* The cascade takes the flowsheets along.  CurrentWorkspace opens the first tab
\* of the lowest-numbered project that has one.
DeleteProject(c, p) ==
    /\ projects # {p}
    /\ projects' = projects \ {p}
    /\ flows' = [f \in DOMAIN flows \ SheetsOf(p) |-> flows[f]]
    /\ landing' = LET q == Min({flows[f].project : f \in DOMAIN flows} \ {p})
                  IN  <<q, Leftmost(SheetsOf(q))>>
    /\ OwesAfterDeleting(c, Owed("workspace", 0, 0))

CreateFlow(c, p) ==
    LET f == NextRowid(DOMAIN flows)
    IN  /\ f <= MaxFlowId
        /\ flows' = WithFlow(flows, f, [project |-> p, position |-> EndPosition(p)])
        /\ landing' = <<p, f>>
        /\ Owes(c, Owed("tab", p, f))
        /\ UNCHANGED projects

\* Faulty variant: no room is made for the copy.
ShiftedRightNowhere(p, position) == flows

\* UPDATE flows SET position = position + 1 WHERE project_id = ? AND position > ?.
ShiftedRight(p, position) ==
    [f \in DOMAIN flows |->
        IF f \in SheetsOf(p) /\ flows[f].position > position
        THEN [flows[f] EXCEPT !.position = @ + 1] ELSE flows[f]]

DuplicateFlow(c, f) ==
    LET p    == flows[f].project
        copy == NextRowid(DOMAIN flows)
        here == flows[f].position
    IN  /\ copy <= MaxFlowId
        /\ flows' = WithFlow(ShiftedRight(p, here), copy,
                             [project |-> p, position |-> here + 1])
        /\ landing' = <<p, copy>>
        /\ Owes(c, Owed("tab", p, copy))
        /\ UNCHANGED projects

\* Faulty variant: the gap stays open.
ClosedUpNowhere(f) == [g \in DOMAIN flows \ {f} |-> flows[g]]

\* The row is deleted and the positions right of it close up.
ClosedUp(f) ==
    [g \in DOMAIN flows \ {f} |->
        IF flows[g].project = flows[f].project /\ flows[g].position > flows[f].position
        THEN [flows[g] EXCEPT !.position = @ - 1] ELSE flows[g]]

\* Faulty variant: the deleted tab itself stays open.
LandingHere(p, f) == f

\* The left neighbour, or the right one of the first tab.
Landing(p, f) ==
    LET left == {g \in SheetsOf(p) : LeftOf(g, f)}
    IN  IF left # {} THEN Rightmost(left) ELSE Leftmost(SheetsOf(p) \ {f})

\* Faulty variant: nothing keeps the last flowsheet of a project.
DeleteAnyFlow(c, f) ==
    LET p == flows[f].project
    IN  /\ DOMAIN flows # {f}
        /\ flows' = ClosedUp(f)
        /\ landing' = IF SheetsOf(p) = {f} THEN landing ELSE <<p, Landing(p, f)>>
        /\ OwesAfterDeleting(c, Answered)
        /\ UNCHANGED projects

DeleteFlow(c, f) ==
    LET p == flows[f].project
    IN  /\ SheetsOf(p) # {f}
        /\ flows' = ClosedUp(f)
        /\ landing' = <<p, Landing(p, f)>>
        /\ OwesAfterDeleting(c, Owed("tab", p, Landing(p, f)))
        /\ UNCHANGED projects

\* The list names each of the project's flowsheets exactly once.
IsNewOrder(p, order) ==
    /\ Len(order) = Cardinality(SheetsOf(p))
    /\ ToSet(order) = SheetsOf(p)

\* Positions are written in the order of the list, a later entry over an
\* earlier one.
ReorderFlows(c, p, order) ==
    /\ IsNewOrder(p, order)
    /\ flows' = [f \in DOMAIN flows |->
                    IF f \in ToSet(order)
                    THEN [flows[f] EXCEPT !.position =
                            Max({i \in DOMAIN order : order[i] = f}) - 1]
                    ELSE flows[f]]
    /\ landing' = <<p, order[1]>>
    /\ Owes(c, Owed("project", p, 0))
    /\ UNCHANGED projects

\* RenameProject answers with ProjectWorkspace.
RenameProject(c, p) ==
    /\ landing' = <<p, Leftmost(SheetsOf(p))>>
    /\ Owes(c, Owed("project", p, 0))
    /\ UNCHANGED <<projects, flows>>

RenameFlow(c, f) ==
    /\ landing' = <<flows[f].project, f>>
    /\ Owes(c, Owed("tab", flows[f].project, f))
    /\ UNCHANGED <<projects, flows>>

\* The client sends the list of ids its strip shows, or any other.
Orders(p) == UNION {[1..n -> DOMAIN flows] : n \in 1..Cardinality(SheetsOf(p))}

(***************************************************************************)
(* Reading the answer.  A lookup keeps the disturbed mark of its answer.   *)
(***************************************************************************)
\* CurrentWorkspace: the first tab of the lowest-numbered project that has one.
FindCurrent(c) ==
    /\ due[c].want = "workspace"
    /\ LET holding == {flows[f].project : f \in DOMAIN flows}
       IN  due' = [due EXCEPT ![c] =
                     IF holding = {} THEN Lost
                     ELSE [@ EXCEPT !.want = "tab", !.project = Min(holding),
                                    !.flow = Leftmost(SheetsOf(Min(holding)))]]
    /\ UNCHANGED <<projects, flows, landing>>

\* ProjectWorkspace: the project's first tab.
FindProject(c) ==
    /\ due[c].want = "project"
    /\ LET sheets == SheetsOf(due[c].project)
       IN  due' = [due EXCEPT ![c] =
                     IF sheets = {} THEN Lost
                     ELSE [@ EXCEPT !.want = "tab", !.flow = Leftmost(sheets)]]
    /\ UNCHANGED <<projects, flows, landing>>

\* Workspace: the page of one tab, or ErrNotFound.
ShowTab(c) ==
    /\ due[c].want = "tab"
    /\ due' = [due EXCEPT ![c] =
                  IF due[c].flow \in SheetsOf(due[c].project) THEN Answered ELSE Lost]
    /\ UNCHANGED <<projects, flows, landing>>

\* The transactions a client may have run once its last answer is out.
Request(c) ==
    \/ CreateProject(c)
    \/ \E p \in projects : \/ DeleteProject(c, p)
                           \/ CreateFlow(c, p)
                           \/ RenameProject(c, p)
                           \/ \E order \in Orders(p) : ReorderFlows(c, p, order)
    \/ \E f \in DOMAIN flows : \/ DuplicateFlow(c, f)
                               \/ DeleteFlow(c, f)
                               \/ RenameFlow(c, f)

Next == \E c \in Clients : \/ Ready(c) /\ Request(c)
                           \/ FindCurrent(c)
                           \/ FindProject(c)
                           \/ ShowTab(c)

Spec == Init /\ [][Next]_vars

(***************************************************************************)
(* Properties                                                              *)
(***************************************************************************)
\* Rows have their types, and a flow's project exists (the foreign key).
TypeOK ==
    /\ projects \subseteq 1..MaxProjectId
    /\ DOMAIN flows \subseteq 1..MaxFlowId
    /\ \A f \in DOMAIN flows : flows[f] \in [project: projects, position: Nat]
    /\ landing \in (1..MaxProjectId) \X (1..MaxFlowId)
    /\ due \in [Clients -> [want: {"nothing", "lost", "tab", "project", "workspace"},
                            project: 0..MaxProjectId, flow: 0..MaxFlowId,
                            disturbed: BOOLEAN]]

\* The positions of a project's flowsheets are 0, 1, 2, ... without a hole or a
\* repetition, whatever was created, copied, deleted and reordered: appending at
\* MAX(position) + 1 and shifting by one both rely on it (DeleteFlow).
PositionsAreDense ==
    \A p \in projects :
        {flows[f].position : f \in SheetsOf(p)} = 0..(Cardinality(SheetsOf(p)) - 1)

\* There is always a project, and each has a flowsheet to open: the strip never
\* renders empty and CurrentWorkspace always finds a row (DeleteProject,
\* DeleteFlow).
EveryProjectOpens == projects # {} /\ \A p \in projects : SheetsOf(p) # {}

\* An operation that committed answers with a page, unless another client deleted
\* something after its commit: the tab it lands on is chosen so that it exists
\* (DeleteFlow, DeleteProject and the reads of workspace.go).
LostAnswersWereDisturbed ==
    [][\A c \in Clients : ~Ready(c) /\ due'[c] = Lost => due[c].disturbed]_vars

\* The strip a page draws, ORDER BY position, id: each sheet after those left of it.
Strip(p) ==
    [i \in 1..Cardinality(SheetsOf(p)) |->
        CHOOSE f \in SheetsOf(p) : Cardinality({g \in SheetsOf(p) : LeftOf(g, f)}) = i - 1]
Strips == [p \in projects |-> Strip(p)]

\* The tables implement the tab strips: a copy lands right of its source, a
\* deletion leaves the order of the rest and opens a neighbour, a new sheet comes
\* last, and an operation on one project leaves every other strip alone.
Abstract == INSTANCE TabStrip WITH Projects <- 1..MaxProjectId,
                                   Sheets <- 1..MaxFlowId,
                                   strips <- Strips,
                                   open <- landing
ImplementsTabStrips == Abstract!Spec
=============================================================================
