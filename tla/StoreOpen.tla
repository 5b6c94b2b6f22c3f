------------------------------ MODULE StoreOpen ------------------------------
(***************************************************************************)
(* Opening the database (internal/studio/store.go, Open): the chain of     *)
(* ensure... steps that brings a store of any earlier version up to date,  *)
(* each of them one or two commits, with the process dying between any two *)
(* of them and starting over.                                              *)
(*                                                                         *)
(* A store is reduced to what the steps look at: which tables and columns  *)
(* exist, the projects, the flowsheets with project and position, the      *)
(* amplitude of a source block, and the signs of a Sum with its wires.     *)
(* Rows are numbered in the order of their ids.                            *)
(***************************************************************************)
EXTENDS Integers, Sequences, FiniteSets, FiniteSetsExt

CONSTANTS
    MaxCrashes,     \* bound: how often the process dies
    LegacyStores    \* the stores an earlier version may have left

ASSUME CrashBound == MaxCrashes \in Nat

VARIABLES
    at,       \* what Open does next, "serving", or "down"
    store,    \* what is on disk
    crashes   \* how often the process died so far

storeVars == <<at, store, crashes>>

Tables == <<"projects", "flows", "blocks", "connections">>

\* The columns CREATE TABLE already has, by table.
Created == [projects    |-> {},
            flows       |-> {"model_updated_at", "project_id", "position"},
            blocks      |-> {"parameters_json"},
            connections |-> {"source_port"}]

Columns == {"model_updated_at", "parameters_json", "source_port", "project_id", "position",
            "mirrored"}

\* A project has the name of the default one, or another.
ProjectNames == {"default", "other"}
NoProject == 0
FlowRows == [project : Nat, position : Int, stamped : BOOLEAN]
Stores ==
    [tables : SUBSET {Tables[i] : i \in DOMAIN Tables}, columns : SUBSET Columns,
     projects : Seq(ProjectNames), flows : Seq(FlowRows),
     amplitude : {"none", "column", "json"}, signs : Seq({"+", "-"}), wires : Seq(Nat)]
EmptyStore ==
    [tables |-> {}, columns |-> {}, projects |-> << >>, flows |-> << >>,
     amplitude |-> "none", signs |-> << >>, wires |-> << >>]

Has(s, column) == column \in s.columns
WithColumn(s, column) == [s EXCEPT !.columns = @ \cup {column}]

(***************************************************************************)
(* What each step does to the store                                        *)
(***************************************************************************)
MissingTables(s) == {i \in DOMAIN Tables : Tables[i] \notin s.tables}

\* One CREATE TABLE IF NOT EXISTS of the schema text.
WithTable(s, table) ==
    [s EXCEPT !.tables = @ \cup {table}, !.columns = @ \cup Created[table]]

\* Rows added by ALTER TABLE have an empty revision until the UPDATE.
AddRevisions(s) ==
    [WithColumn(s, "model_updated_at") EXCEPT
        !.flows = [f \in DOMAIN s.flows |-> [s.flows[f] EXCEPT !.stamped = FALSE]]]

FillRevisions(s) ==
    [s EXCEPT !.flows = [f \in DOMAIN @ |-> [@[f] EXCEPT !.stamped = TRUE]]]

EnsureParametersJSON(s) == WithColumn(s, "parameters_json")

\* Rows without parameters get what the columns of the first version say; a Sum
\* had none there and gets the default of one sign.
EnsureLegacyBlockParameters(s) ==
    [s EXCEPT !.amplitude = IF @ = "column" THEN "json" ELSE @,
              !.signs = IF s.amplitude # "none" /\ @ = << >> THEN <<"+">> ELSE @]

\* The ports of the wires into one block follow the ids of the wires.
EnsureConnectionPorts(s) ==
    IF Has(s, "source_port") THEN s
    ELSE [WithColumn(s, "source_port") EXCEPT !.wires = [w \in DOMAIN @ |-> w - 1]]

\* A lone sign is repeated for every wired port, if a Sum may have as many; more signs
\* are left alone.
MaxInputSigns == 16
Wired(s) == Max({0} \cup {s.wires[w] + 1 : w \in DOMAIN s.wires})
EnsureDeclaredInputPorts(s) ==
    IF Wired(s) \in 2..MaxInputSigns /\ Len(s.signs) = 1
    THEN [s EXCEPT !.signs = [p \in 1..Wired(s) |-> s.signs[1]]] ELSE s

Unassigned(s) == {f \in DOMAIN s.flows : s.flows[f].project = NoProject}
EmptyDefaultProjects(s) ==
    {p \in DOMAIN s.projects :
        s.projects[p] = "default" /\ \A f \in DOMAIN s.flows : s.flows[f].project # p}

\* Flowsheets of no project go to an empty default project, or to a new one.
EnsureProjects(s) ==
    LET old  == EmptyDefaultProjects(s)
        home == IF old # {} THEN CHOOSE p \in old : \A q \in old : p <= q
                ELSE Cardinality(DOMAIN s.projects) + 1
        t    == WithColumn(s, "project_id")
    IN  IF Unassigned(s) = {} THEN t
        ELSE [t EXCEPT !.projects = [p \in DOMAIN @ \cup {home} |-> IF p \in DOMAIN @ THEN @[p] ELSE "default"],
                       !.flows = [f \in DOMAIN @ |->
                                    IF f \in Unassigned(s) THEN [@[f] EXCEPT !.project = home] ELSE @[f]]]

Siblings(s, f) == {g \in DOMAIN s.flows : s.flows[g].project = s.flows[f].project}

InvalidPositions(s) ==
    \E f \in DOMAIN s.flows :
        {s.flows[g].position : g \in Siblings(s, f)} # 0..(Cardinality(Siblings(s, f)) - 1)

\* ORDER BY position, name, id.  The names sort against the ids.
Before(s, g, f) ==
    \/ s.flows[g].position < s.flows[f].position
    \/ s.flows[g].position = s.flows[f].position /\ g > f

\* Faulty variant: a store that has the column is left alone.
EnsureFlowPositions_OnlyNew(s) ==
    IF Has(s, "position") THEN s
    ELSE [WithColumn(s, "position") EXCEPT
            !.flows = [f \in DOMAIN @ |->
                         [@[f] EXCEPT !.position =
                            Cardinality({g \in Siblings(s, f) : Before(s, g, f)})]]]

EnsureFlowPositions(s) ==
    IF Has(s, "position") /\ ~InvalidPositions(s) THEN s
    ELSE [WithColumn(s, "position") EXCEPT
            !.flows = [f \in DOMAIN @ |->
                         [@[f] EXCEPT !.position =
                            Cardinality({g \in Siblings(s, f) : Before(s, g, f)})]]]

EnsureMirrored(s) == WithColumn(s, "mirrored")

\* The example flowsheet of a store without any.
Seed(s) ==
    IF s.flows # << >> THEN s
    ELSE LET p == Cardinality(DOMAIN s.projects) + 1
         IN  [s EXCEPT !.projects = [q \in DOMAIN @ \cup {p} |-> IF q = p THEN "default" ELSE @[q]],
                       !.flows = <<[project |-> p, position |-> 0, stamped |-> TRUE]>>,
                       !.amplitude = "json", !.signs = <<"+", "+">>, !.wires = <<0, 1>>]

\* All of it at once.
AllTables(s) ==
    [s EXCEPT !.tables = @ \cup {Tables[i] : i \in MissingTables(s)},
              !.columns = @ \cup UNION {Created[Tables[i]] : i \in MissingTables(s)}]
AllRevisions(s) == IF Has(s, "model_updated_at") THEN s ELSE FillRevisions(AddRevisions(s))
AllPorts(s) == EnsureDeclaredInputPorts(EnsureConnectionPorts(s))
AllParameters(s) == EnsureLegacyBlockParameters(EnsureParametersJSON(s))
AllTabs(s) == EnsureFlowPositions(EnsureProjects(s))
Completed(s) ==
    Seed(EnsureMirrored(AllTabs(AllPorts(AllParameters(AllRevisions(AllTables(s)))))))

FreshStore == Completed(EmptyStore)

(***************************************************************************)
(* What may be found on disk                                               *)
(***************************************************************************)
\* The ports of the wires, or those they are going to be numbered with, and how many
\* ports the Sum has or can be given.
Ports(s) ==
    IF Has(s, "source_port") THEN {s.wires[w] : w \in DOMAIN s.wires}
    ELSE 0..(Len(s.wires) - 1)
Declarable(s) == IF Len(s.signs) <= 1 THEN MaxInputSigns ELSE Len(s.signs)

\* Rows lie in tables and reference what is there.  As edits leave it, no two wires share a
\* port, and a block has no more wires than the ports it can be given: Open mends neither.
IsStore(s) ==
    /\ s \in Stores
    /\ "flows" \notin s.tables => s.flows = << >>
    /\ "connections" \notin s.tables => s.wires = << >>
    /\ \A f \in DOMAIN s.flows : s.flows[f].project \in {NoProject} \cup DOMAIN s.projects
    /\ s.wires # << >> => s.amplitude # "none"
    /\ Has(s, "source_port") =>
          \A v, w \in DOMAIN s.wires : s.wires[v] = s.wires[w] => v = w
    /\ \A p \in Ports(s) : p < Declarable(s)

\* No opening was cut off between the new column and the revisions.
IsStamped(s) ==
    Has(s, "model_updated_at") => \A f \in DOMAIN s.flows : s.flows[f].stamped

ASSUME LegacyAssumption == \A s \in LegacyStores : IsStore(s) /\ IsStamped(s)

(***************************************************************************)
(* The steps                                                               *)
(***************************************************************************)
StoreInit ==
    /\ at = "schema"
    /\ store \in LegacyStores
    /\ crashes = 0

Step(here, next, s) == at = here /\ at' = next /\ store' = s /\ UNCHANGED crashes

CreateTable ==
    \E i \in MissingTables(store) :
        /\ \A j \in MissingTables(store) : i <= j
        /\ Step("schema", "schema", WithTable(store, Tables[i]))

\* On the store of a fresh database every step that follows finds nothing to do, and
\* they are one step here.
CreateIndexes ==
    /\ MissingTables(store) = {}
    /\ Step("schema", IF store = FreshStore THEN "serving" ELSE "ensureModelUpdatedAt", store)

\* Faulty variant: the column is added whether it is there or not, and Open gives up.
EnsureModelUpdatedAt_Unchecked ==
    IF Has(store, "model_updated_at") THEN Step("ensureModelUpdatedAt", "down", store)
    ELSE Step("ensureModelUpdatedAt", "fillModelUpdatedAt", AddRevisions(store))

EnsureModelUpdatedAt ==
    IF Has(store, "model_updated_at")
    THEN Step("ensureModelUpdatedAt", "ensureParametersJSON", store)
    ELSE Step("ensureModelUpdatedAt", "fillModelUpdatedAt", AddRevisions(store))

FillModelUpdatedAt == Step("fillModelUpdatedAt", "ensureParametersJSON", FillRevisions(store))

MigrateParameters ==
    \/ Step("ensureParametersJSON", "ensureLegacyBlockParameters", EnsureParametersJSON(store))
    \/ Step("ensureLegacyBlockParameters", "ensureConnectionPorts", EnsureLegacyBlockParameters(store))

\* Faulty variant: the ports are columns first and numbered in a commit of their own.
MigratePorts_TwoCommits ==
    \/ /\ ~Has(store, "source_port")
       /\ Step("ensureConnectionPorts", "numberPorts", WithColumn(store, "source_port"))
    \/ /\ Has(store, "source_port")
       /\ Step("ensureConnectionPorts", "ensureDeclaredInputPorts", store)
    \/ Step("numberPorts", "ensureDeclaredInputPorts",
            [store EXCEPT !.wires = [w \in DOMAIN @ |-> w - 1]])
    \/ Step("ensureDeclaredInputPorts", "ensureProjects", EnsureDeclaredInputPorts(store))

MigratePorts ==
    \/ Step("ensureConnectionPorts", "ensureDeclaredInputPorts", EnsureConnectionPorts(store))
    \/ Step("ensureDeclaredInputPorts", "ensureProjects", EnsureDeclaredInputPorts(store))

MigrateTabs ==
    \/ Step("ensureProjects", "ensureFlowPositions", EnsureProjects(store))
    \/ Step("ensureFlowPositions", "mirrored", EnsureFlowPositions(store))

FinishOpening ==
    \/ Step("mirrored", "seed", EnsureMirrored(store))
    \/ Step("seed", "serving", Seed(store))

Open ==
    \/ CreateTable \/ CreateIndexes \/ EnsureModelUpdatedAt \/ FillModelUpdatedAt
    \/ MigrateParameters \/ MigratePorts \/ MigrateTabs \/ FinishOpening

\* The process dies, or a step fails and Open gives up.  What was committed stays.
Crash ==
    /\ at # "down" /\ crashes < MaxCrashes
    /\ at' = "down" /\ crashes' = crashes + 1
    /\ UNCHANGED store

Start == Step("down", "schema", store)

(***************************************************************************)
(* Properties                                                              *)
(***************************************************************************)
Unstamped(s) == [s EXCEPT !.flows = [f \in DOMAIN @ |-> [@[f] EXCEPT !.stamped = TRUE]]]

\* Once it serves, the store has every column, at least one flowsheet, a project for each,
\* dense tab positions, no parameters in the columns of the first version, one wire per
\* port and no wire beyond the ports its block declares; and every flowsheet has a
\* revision unless the process died in between.
OpenedStoresAreWellFormed ==
    at = "serving" =>
        /\ Columns \subseteq store.columns
        /\ store.flows # << >> /\ ~InvalidPositions(store)
        /\ \A f \in DOMAIN store.flows : store.flows[f].project \in DOMAIN store.projects
        /\ store.amplitude # "column"
        /\ \A v, w \in DOMAIN store.wires : store.wires[v] = store.wires[w] => v = w
        /\ \A w \in DOMAIN store.wires : store.wires[w] < Len(store.signs)
        /\ crashes = 0 => store = Unstamped(store)

\* Wherever the process dies, the next opening gets to the same store, but for the
\* revisions: what the steps leave behind is never taken for finished, renumbered or
\* assigned again.
OpeningIsResumable == [][Unstamped(Completed(store')) = Unstamped(Completed(store))]_storeVars

\* Every opening ends with the server up, or with the process dying once more.
OpeningsEnd ==
    \A n \in 0..MaxCrashes :
        (at = "schema" /\ crashes = n) ~> (at = "serving" \/ crashes > n)
=============================================================================
