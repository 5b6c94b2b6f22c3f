# Process Lab: models, checks and proofs

Process Lab is a Go server for drawing block diagrams ("flowsheets"), simulating
them and designing controllers, with a SQLite file as its only persistent state, a
browser workbench and a command line client. This directory holds TLA+ models of the
parts whose correctness depends on the *order* of things: several clients edit one
store, computations run for seconds outside any transaction, rows are named by ids
that SQLite reuses, and derived facts (is this chart stale? which tab opens next? may
this controller still be undone?) are computed from stamps, positions and marks kept by
hand.

## 1. The system

| Component | State | Operations | What makes it correct |
|---|---|---|---|
| Flowsheet editing (`internal/studio/studio.go`) | rows of `blocks`, `connections`; `flows.updated_at`, `flows.model_updated_at` | add, update, delete, duplicate, move, flip, connect, disconnect | wires join declared ports of blocks of one flowsheet, one wire to an input, every flowsheet loads, model edits and only they move the model stamp |
| Signal widths (`signal_dimensions.go`) | none: computed | propagate widths through inheriting blocks, validate every wire | a stored flowsheet always resolves, or no page of it loads |
| Control roles (`control_models.go`) | one JSON specification per flowsheet, naming block ids | assign, clear, copy, build models | never names a block that is gone, though ids are reused |
| Documents (`document.go`) | none of its own | dump; apply = snapshot, plan, transaction | the same rules as the single edits keep; nothing of others is undone |
| Runs and analyses (`simulate.go`, `simulation_history.go`, `analysis_workspace.go`) | `simulation_runs`, `analysis_runs` | run, analyse, show, list | what is shown as current is of the model as it stands |
| Projects and tabs (`lifecycle.go`, `workspace.go`) | `projects`, `flows.position` | create, rename, copy, delete, reorder, open | dense positions, something to open everywhere, the promised neighbour opens |
| Opening the store (`store.go`) | the schema | a chain of migrations, each statement committed alone; seeding | resumable after a crash anywhere; what it serves is well formed |
| Controller candidates (`internal/web/controller_candidates.go`, `candidate_apply.go`) | in-memory registry under a mutex | design, review, put, apply, undo, evict | nothing in flight is evicted; an apply hits the model it was designed for; an undo restores exactly |
| Execution plan and compilation (`execution_plan.go`, `simulate.go`, `time_domain.go`, `compiled_model.go`) | none: computed | components, order, rates, delays, assembly | the order respects direct feedthrough; the system is the diagram |
| Sweeps and studies (`parameter_sweep*.go`, `model_study.go`) | none that lasts | variants, family, bounds, worst cases | every combination once, results joined to their coordinates |
| Design and identification | none that lasts | numerical algorithms | numerical |
| HTTP server (`internal/web`) | the registry above | per route: check, read, commit, show | one commit per request, in the right place |
| Client (`cmd/processlab`) | none that lasts | a script of requests per command | exit codes 0 and 2 are true, no change is made twice, every command ends |
| Browser (`internal/web/static/js`) | gesture state | one request per gesture | one gesture at a time |

How they interact. Handlers run concurrently and call `Studio`. The database pool is
limited to one connection (`store.go:127`), so each `inTx(...)` is atomic and isolated,
and each statement outside one stands alone. Everything between two such units is open
to other clients: the two `SELECT`s of `loadModelGraph`, the seconds between a snapshot
and the transaction that stores what was computed from it, the read of a page after the
commit it reports. Foreign keys cascade; ids are rowids without `AUTOINCREMENT`, one
more than the largest in the table, so a deleted block's or flowsheet's id comes back.

The candidate registry has a mutex of its own, which is released during a computation; it
is lost when the process dies, the store is not. A client has a timeout and gives up on an
answer, not on the request.

What is hard: interleavings of a long request with edits (documents, runs, analyses,
designs, pages), ids and stamps that are compared later than they were read, rules no
schema constraint backs (one wire per input, dense positions, roles), crashes between two
statements of a migration or between a commit and its answer, several representations of
one thing (two maps and a list in the registry, flat indices and coordinates in a sweep),
and boundaries (the last port, the last tab, stamps that end in zeros). `PROJECT.json`
lists each hazard at its line with the properties that cover it, or says why none does.

## 2. The modules

    SignalWidths <- Flowsheet <- DocumentApply
    TabStrip     <= Workspace                        (<= : is implemented by)
    ControllerHistory <= Candidates
    Catalog, SignalWidths <- Compilation <- ControlModels;  Catalog <- ParameterSweep
    Freshness, ExecutionPlan, ControlModels, ParameterSweep <- Calculations;  Freshness <= Calculations
    Routes <- Commands;  StoreOpen, Commands <- Exchange
    proofs: SignalWidthsProofs <- FlowsheetProofs (of Flowsheet and DocumentApply)
            SignalWidthsProofs <- PlanProofs <- StudioProofs (of Freshness and Calculations)
            StoreProofs <- ExchangeProofs;  WorkspaceProofs;  CandidatesProofs

Each `MC...` module gives one of them its small instance.

**SignalWidths** - `resolveModelSignalWidths` as operators over a graph of *shapes*. A
shape is what a block's kind and parameters say about its terminals: port counts, the
widths of its ports, whether it inherits its width, the length of its initial
condition. The propagation loop is a recursive function with one sweep per block.

**Flowsheet** - one action per transaction of `studio.go` (with role assignment). `blocks`,
`wires`, `roles`, `modelStamp` and `stamp` are the tables; the two stamps count their
moves. A wire is identified by its columns, as the UNIQUE constraint does. `MoveBlocks`,
`MoveBlock` and `FlipBlock` write drawing state only and are one action,
`ArrangeBlocks`. Refused requests change nothing and are not steps.

**DocumentApply** - `flow apply` in its three pieces, `ReadBlocks`, `ReadWires`, `Apply`, with
every action of `Flowsheet` (`Edit`) in between. The document is any change of at most
`MaxEdits` blocks and one wire that the code's validation accepts *against the snapshot*.
The transaction goes by the ids of the snapshot, as the code does, including what its
statements do to rows that are gone or belong to somebody else by then. `tainted` and
`raced` are history: they say that an edit fell between the reads and the commit.

**Freshness** - one flowsheet, its stored runs and its analysis, and `Jobs` concurrent
computations, each going through the revision read, the two graph reads, the stamp and
the commit of `Run` or `RunAnalysis`. The content of the model is the time of the last
edit of its blocks and of its wires. The flowsheet may be deleted and a new one be given
its id. `TextAtLeast` is SQLite's text comparison of RFC3339Nano stamps, with `Radix`
the place of the last digit.

**TabStrip**, **Workspace** - `TabStrip` says what the user is promised: a sequence of
tabs per project and the tab each operation opens. `Workspace` is the code: rows with integer
positions, shifts on copy and delete, `COALESCE(MAX(position) + 1, 0)` on append, reads
ordered by `(position, id)`, and answers that are looked up in steps of their own after
the commit, while another client goes on.

**ControllerHistory**, **Candidates** - `ControllerHistory` says what the controller workflow
promises about a diagram: it changes, a design is applied to it, or *the last change, which
was an apply*, is taken back. `Candidates` is the code. `flows` holds revision, content and
roles of each diagram; `byID`, `byFlow` and `order` are the three parts of the registry, and
the operators `Put`, `Evicted`, `FinishApply`, `FinishUndo`, `Forget` are its methods. `request[r]`
is the program counter of a handler with what it has read so far: a design reads roles,
revision and diagram in three statements, is reviewed and put; an apply marks the
candidate, commits in one transaction, finishes, renders, and releases the mark in a
`defer`, which also runs after a panic. Edits, role changes, deletion and creation of
flowsheets (with reused ids) and restarts fall in between.

**Catalog** - each block kind as a contract: terminals, widths, time domain, slowest rate,
number of states, direct feedthrough, exact delay. **Compilation** - `compileRequestedModel`
pass by pass with the refusals of each: widths, rates of connected blocks, terminals,
delays of paths, assembly, and the bounds of a simulation. **ControlModels** - `BuildControlModels`:
two compilations with synthetic sources at the boundary, and the loop closed over the two.
**ExecutionPlan** - Tarjan's algorithm with its recursion spelled out as a stack of calls, then
the ordering and the depths. **ParameterSweep** - validation of the axes, the variants by
mixed-radix index, the check of the family, and the running worst cases. **Calculations**
composes all of them with `Freshness`.

**StoreOpen** - `Open` as a chain of steps, one for each statement that commits alone, on a
store reduced to what the steps look at, with the process dying between any two. **Routes** -
what each HTTP route does in order, as a record of phases and of the aspects it writes.
**Commands** - each command of the client as a script over routes, with the exit code of every
way out. **Exchange** - the server, its store and clients together: opening, serving, a
request handled phase by phase, connections lost before or after the commit, the client's
deadline, the process dying and being started again.

## 3. The runs

| Run | Instance | Shows |
|---|---|---|
| `flowsheet` | 2 flowsheets (symmetric), 3 rowids, requests of 2 blocks, 7 shapes | `WiresJoinOwnBlocks`, `WiresOnDeclaredInputPorts`, `OneWirePerInputPort`, `EveryFlowsheetLoads`, `RolesNameLiveBlocks`; the actions `ModelEditsAreStamped`, `NewBlocksAreBare` |
| `flowsheet_ports` | the same | **violated**: `WiresOnDeclaredPorts` (finding 1) |
| `document` | 2 flowsheets, 2 rowids, 2 block edits per document | `UncontestedAppliesKeepTheRules`, `AppliesStayInTheirFlowsheet`, `UncontestedAppliesAreStamped`, `RolesNameLiveBlocks` |
| `document_ports` | no added blocks | **violated**: `WiresOnDeclaredInputPorts` (finding 2) |
| `freshness` | the composition `StudioSpec`: 2 jobs (symmetric), 4 clock readings, 2 stored runs; all plans of up to 3 blocks, every wiring of small diagrams, rings of plant and controller, sweeps of 2 axes | `CurrentAnalysisIsOfTheModel`, `UndisturbedRunsAreExact`, `EditsStaleStoredRuns`; `PlansAreSchedules`, `CompiledModelsAreTheDiagram`, `ControlModelsAreOfTheFlowsheet`, `SweepsCoverTheirGrid` |
| `freshness_race` / `_latest` / `_text` | the store alone, 5 clock readings; `_text` with stamps that lose a digit | **violated**: `CurrentRunIsOfTheModel`, `StaleLatestRunIsMarked`, `EditsStaleStoredRuns` (findings 3 to 5) |
| `workspace` | 2 clients (symmetric), 3 projects, 4 flowsheets | `PositionsAreDense`, `EveryProjectOpens`, `LostAnswersWereDisturbed`, and the refinement `ImplementsTabStrips` |
| `candidates` | 2 requests, 2 flowsheets, 2 contents, a registry of 1, 2 candidates, 3 clock readings | `RegistryIsConsistent`, `MarksHaveAnOwner`, `OfferedUndosAreExact`, `AppliesHitTheDesignedModel`, `WorkIsNotEvicted`, the liveness `MarksAreCleared` and the refinement `ImplementsControllerHistory` |
| `candidates_undo` | one flowsheet, no restarts | **violated**: `UndoStaysUntilTheModelChanges` (finding 6) |
| `server` | one client running any command, one that edits a block on its page or deletes the flowsheet, 1 crash, stores of every earlier version and of interrupted migrations | `ExitCodesAreTrue`, `OpenedStoresAreWellFormed`, `LoneCommandsChangeOnlyWhatTheyName`, `OpeningIsResumable`, the liveness `EveryCommandEnds` and `OpeningsEnd` |

Every passing run on a module with tables also checks one type invariant.

Why the bounds are enough. *Flowsheet:* three blocks give a chain source - inheriting
gain - sink, so that deleting the middle changes the far end; an id can be freed and
reused; a wire can be on the first and on the last port of the two-input sum and of the
two-output demux; two flowsheets are what a request can confuse. The shapes are the
kinds whose parameters change ports or widths. The stamps are left out of the VIEW: no
guard reads them, and the action property compares them over one step. *DocumentApply:*
two rowids are enough to delete a block of the snapshot and give its id to another, in
the same or in the other flowsheet. Exploration stops at the first overtaken commit
(`BeforeFirstContest`): the rules are claimed until then, and that commit itself is still
checked. *Freshness:* the findings need two jobs and five readings; what holds is checked
with four in the composition and proved for any number. *Workspace:* with three projects
deletion chooses among two; four flowsheets make a strip with a middle tab, a copy and a
foreign id. *Candidates:* two requests are what a mark, a release or an eviction can
confuse; with a registry of one and two flowsheets every put meets a full registry, in
flight or not; three readings are an edit or an apply, another one and the undo; two
flowsheet ids let one pass to a new flowsheet. *Calculations:* a plan is a graph of 1 to 3
nodes with every choice of edges and step blocks, so all shapes of components with at most
two between which order matters; a compiled diagram has at most five blocks, in every
wiring with at most one open input, so parallel paths, self-loops, algebraic loops, a wall
of continuous blocks between two rates and delays in series occur; the sweeps' limits are
set to 2 axes, 4 models, 2 states, 3 frequencies and 3 samples, and the requests lie on both
sides of each. *Server:* one crash can fall between any two steps of the opening or of a
request; a second client that edits or deletes is enough to contest a command; one project,
flowsheet, block and wire are what a command names. Every constraint on a counter is named
in CONSTANTS as a bound. Deadlock is checked except where all behaviours rightly end: at the
last clock reading or with the calculation (`freshness*`), and when every client has run its
command (`server`).

Calculations are pure functions of a snapshot, so the `freshness` run explores the store
with the calculations idle, and each calculation by itself from every snapshot and request
given (`Calculations`); their interleaving with the store is in the stages of a job.

### Findings

1. *A Demux may lose a wired output port.* The comment on ports (`catalog.go:326-330`)
   promises that `UpdateBlock` refuses it; `checkWiredInputPorts` looks at input ports only.
2. *An overtaken apply breaks the wiring rules.* `ApplyFlow` writes a plan made against an
   earlier snapshot without looking at the revision (`candidate_apply.go:193` does look). The
   same gap lets a document that only moves blocks write back old parameters under a
   layout stamp.
3. *A run of the old model counts as current* when the edit fell between its reads and its
   stamp: the stamp is taken after the computation and no revision is stored.
4. *`simulation show` may hand out a stale run unmarked*, because "latest by id" and "any
   run is current" are different questions once two runs are stored out of stamp order.
5. *Text comparison of stamps* treats `...5Z` as no older than `...51Z`, so an edit may leave
   an older run current; the history compares parsed times and disagrees.
6. *A late design discards a live undo.* `put` protects a retained undo only from candidates
   of the revision the undo is for. A design that was reviewed before an apply and is put
   after it deletes the applied candidate with its undo, although the model has not changed
   since the user was told that undo is available until it does.

*Exit codes 1 and 3* disagree with their description as well, and have no run of their own.
`docs/cli.md:36-38` says that 1 is a refusal and 3 a server that could not be reached, and
`client.go:123` prints the latter. `CannotRead` is what the code does with an answer it cannot
read or decode after the server committed: it ends with 1 (`client.go:128-134`, `156-158`,
`main.go:530`). `LosesPatience` is a deadline or a lost connection after the commit: it ends with 3
(`client.go:118-126`). Stated as invariants, "1 undisturbed, or 3, changed nothing" fails within
a single command: `Run`, `RequestAt`, `Commits`, then either of the two. So a script can trust
0 and 2, and that no change is made twice; after 1 and 3 it has to look. `ExitCodesAreTrue`
claims the former, and of 1 what is left: a command that gave up by itself, or was refused
by the server and told so, has changed nothing unless somebody else was at it.

Things that look fragile and hold: reused ids never inherit a wire or a role
(`NewBlocksAreBare`), even though roles have no foreign key; an overtaken apply never
writes to another flowsheet, thanks to the `AND flow_id = ?` of its statements
(`AppliesStayInTheirFlowsheet`); analyses, which store the revision read before the
content, are never wrongly current, not even after the flowsheet's id has gone to another
one; a candidate is never written over a model it was not designed from, although a design
reads in three statements and the registry does not hear of quiet deletions
(`AppliesHitTheDesignedModel`): stamps only grow, and a content that was read after its
revision is at least as new. A migration may die anywhere and is completed by the next
opening (`OpeningIsResumable`), with one exception the property names: `ensureModelUpdatedAt`
adds its column and fills it in two commits and looks for the column only, so a crash in
between leaves flowsheets of that store without a revision until their next edit.

## 4. Fairness

`Freshness`, `Flowsheet`, `DocumentApply` and `Workspace` state none: requests are user actions
and may stop at any point, and what is claimed of them is safety.

`Candidates` asks for weak fairness of `Proceeds(r)`: once a handler has begun, its goroutine
runs on, to its end or to a panic, whose deferred release is one of its steps. Nothing is
asked of users, edits or restarts. `MarksAreCleared` needs it, and would fail without the
deferred release.

`Exchange` asks for weak fairness of each step of `Open` and of the client's own steps of
each command of the command line, which include reaching its deadline. A page in a browser
has no such deadline, and neither is fairness asked of it nor an end claimed (`IsCommand`). Nothing is asked of the operator (a dead server may
stay down), of the server once it serves, of connections, or of what users start. So
`EveryCommandEnds` holds because of the client's timeout alone.

## 5. Proofs

All theorems are for any values of the constants that satisfy the modules' named
assumptions (bounds are naturals, at least one id, shapes and contents have their types,
clients run commands of the program, the store opened is one by the rules, a request for a
sweep lists its axes and their values, the wires of a diagram to plan join its blocks, blocks to compile are contracts, the channels and wires
of a control loop are of its blocks), which the runs evaluate. That blocks are contracts is
itself proved of every kind of the catalog and all its parameters (`KindsAreContracts`).

| Module | Inductive invariant | Properties proved |
|---|---|---|
| `FlowsheetProofs` | `FlowsheetInv` | the five invariants of the run `flowsheet`, its type, `NewBlocksAreBare`, `ModelEditsAreStamped` |
| `FlowsheetProofs` | `ApplyInv` | all of `document` |
| `StudioProofs` | `AnalysisInv`, `RunInv`, `SweepInv`, `CompileInv`, `LoopInv`, `PlanInv` | all of `freshness` |
| `CandidatesProofs` | `RegistryInv` | all of `candidates` except the liveness |
| `WorkspaceProofs` | `WorkspaceInv` | all of `workspace`, its refinement `ImplementsTabStrips` included |
| `ExchangeProofs` | `ServerInv` | `ExitCodesAreTrue`, `LoneCommandsChangeOnlyWhatTheyName` of `server` |
| `StoreProofs`, `ExchangeProofs` | `StoreInv` | `OpenedStoresAreWellFormed`, `OpeningIsResumable` of `server` |

`FlowsheetProofs` proves that

    FlowsheetInv == TypeOK /\ WiresJoinOwnBlocks /\ WiresOnDeclaredInputPorts
                    /\ OneWirePerInputPort /\ RolesNameLiveBlocks

is an invariant of `Spec` (`InvariantHolds`), and from it `TypeCorrect`, `WiresStayHome`,
`InputPortsDeclared`, `InputPortsUnshared` and `RolesStayLive`. The conjuncts need each
other. That a new row carries no wire at an undeclared port follows only from
`WiresJoinOwnBlocks` (no wire names an id that is free); that deletions keep
`WiresJoinOwnBlocks` needs the cascade on both ends; and clearing the roles is enough only
because a specification never names a block outside its flowsheet. Two action properties
follow from the same invariant. `NewBlocksInheritNothing`: a step that makes a block row adds
rows and touches no wire or role, and under the invariant nothing names a free id.
`ModelEditsMoveTheStamp`: each step stamps the flowsheet whose graph it changes and keeps the
others; for deletions this rests on `CascadesStayHome`, the cascade of a block reaching only
wires of its own flowsheet, which is `WiresJoinOwnBlocks` again.

That every stored flowsheet loads (`EveryFlowsheetKeepsLoading`) is a matter of
`SignalWidths`, and its lemmas are in `SignalWidthsProofs`. The edits that take wires or
reshape blocks ask `WidthsResolve` before they commit; adding and duplicating blocks ask
nothing, and need not, because *blocks without wires do not matter*
(`UnwiredBlocksDoNotMatter`). The larger diagram has more blocks and is swept more often, so
the two computations differ in length. But widths are only ever added (`SweepsOnlyAdd`),
so after as many sweeps as there are blocks nothing changes any more (`SweepsSettle`,
by counting the blocks whose width is known); the two diagrams agree on the smaller one's
blocks after each sweep (`SweepsAgree`), hence at the end. The lemmas are stated for an
embedding, so that they serve copies under new ids too. The inductions are by a
least counterexample (`LeastExists`).

For `DocumentApply` it adds the three pieces of an apply to those edits:

    ApplyInv == RowsInv /\ tainted \in BOOLEAN /\ RequestOK /\ SnapshotHolds
                /\ (~tainted => RulesHold)

What no apply breaks, however late, is `RowsInv`: types, and roles that name live blocks of
their flowsheet. `SnapshotHolds` says that without an edit in between what was read is
what is stored; the plan was checked against what was read, so the commit keeps
`RulesHold`. The proof follows the transaction statement by statement: which rows it
updates, deletes and adds, and which wires are left. The run stops at the first
contested commit (`BeforeFirstContest`); the theorems do not, so `AppliesStayHome` and
`AppliesKeepRolesLive` hold through any number of overtaken documents.

`StudioProofs` proves `CurrentAnalysesAreExact` by the invariant that whoever holds a
revision of the flowsheet - a job after its revision read, or the stored analysis - holds
content no newer than the model when the revision is the present one: the revision is read
*before* the content, and stamps only grow. The theorems on simulations, `UndisturbedRunsStayExact`
and `EditsStaleRuns`, carry the hypothesis `MaxTime < Radix`, that stamps print at full
length; without it finding 5 applies, and the run `freshness_text` shows it. The same module
shows that the studio with its calculations implements the store (`StudioImplementsStore`),
so `CurrentAnalysisIsOfTheModel` carries over (`StudioAnalysesAreExact`).

Of the calculations it proves the sweep, for any axes, values and order in which the library's
responses turn out (`SweepsCoverTheGrid`). Half of that is arithmetic on the mixed radix of
`SweepCoordinates`: with `weight[a]` the number of points of the axes behind `a`
(`PointsWeigh`: `weight[a - 1] = size[a] * weight[a]`), each choice of places is a
point (`PointsCoverPlaces`, built up axis by axis), and of two points the earlier one has the
smaller place at the first axis where they differ (`PointsAreInOrder`). The other half is

    SweepInv == ... /\ VariantIsInTheMaking /\ VariantsArePoints /\ WorstIsFound
                    /\ SummariesAreComplete

with `VariantsArePoints` (variant `i` has the values of point `i - 1` and everything else
from the diagram), its counterpart for the variant of which some axes are set - setting the
next one leaves those before it, because `validateSweepDefinition` lets no parameter appear
twice (`NextPoint`) - and `WorstIsFound`, the first of the largest peaks so far. Nothing
may be lost when the client reads the array by coordinates, so the property speaks of
the set of all combinations, and the bound on the number of models plays no part in the proof.

Compilation is proved pass by pass, one lemma to a pass:

    CompileInv == pass # "idle" => AskedIsADiagram /\ PassInv(pass, found)

where `PassInv` is the conjunction of what the passes so far have established: the widths
resolve, every wire joins declared ports, the rates found are `ResolvedRate` and none is
missing, every input is fed as its block asks, the system is of one time domain, the
delays are those of the ways to the sinks, a run is aligned with them; and a refusal has its
reason. A pass adds its own part, and none undoes another's, because `found` only grows
(`NextPass`). `CompiledModelsAreRight` reads the property off it for any diagram of contracts.
The hard part are the exact delays (`ExactPaths`), which the code collects by a recursion
over a path that is extended and cut back. Its termination is an argument on finite sets: a
path that repeats no block is bounded in length, so of the walks from a source there are
finitely many (`FinitelyManyWalks`), and the recursion unfolds along them (`WalkedIsWalks`).
It visits every way (`WaysAreWalked`), so when it ends with a single delay, that is the
delay of each. That ports are numbered below their count turns "as many wires as ports, no
two at one" into "exactly one at each" (`PortsAreFed`), by counting.

`ControlModelsAreRight` stands on that. `LoopInv` says of each part that has been compiled
that it is whole (`PartIsWhole`: each input of its blocks has one wire from inside, or is
on the boundary with exactly the channels of its width) and fits the clock of its system
(`PartFits`). A part with its synthetic sources is a diagram again (`SubsystemIsADiagram`, the
sources have ids no block has), so what `CompileInv` says of it holds; what is left is to
take the sources off (`CompiledPartIsWhole`).

`PlansAreRight` is about Tarjan's algorithm as the code runs it, and about the order made of its
components; its lemmas are in `PlanProofs`, the invariant there is

    PlanInv == IsNet(net) /\ (planning = "visiting" => VisitInv)
               /\ (planning \in {"ordering", "planned", "refused"} => IsCondensed)
               /\ (planning \in {"ordering", "planned"} => StepsStandAlone /\ OrderInv) /\ ...

`VisitInv` holds during the visits. Besides the bookkeeping (`AreNumbered`, `AreFiled`: numbers
grow along the stack and along the calls, a node that was met is on the stack or in a
component, never in both) it says that a node being visited leads to all above it on the
stack (`OpenLeadUp`), that everything on the stack leads down to a node being visited
(`StackLeadsDown`), that a lowlink is the number of a node on the stack that is led to
(`LowlinksAreReached`) and not above the number of any that was found from the stretch of the
stack a call owns (`LowlinksAreLow`). When a visit ends with its lowlink unmoved, nothing
above it leads below it, so what is taken off is one component (`TopIsAComponent`) that leads
to itself and to earlier components only (`ComponentsAreOrdered`). That last fact is why
ordering cannot get stuck: of the components left, the last one waits for nothing
(`SomethingIsReady`), so the code's error for a cyclic condensation is never returned. `OrderInv`
has the counts of what is waited for, depths that do not fall along a wire and rise behind
a step, and for every depth above zero the step that asked for it. `Downstream` is the least set
closed under the wires, so what holds of a path is proved by giving a closed set
(`DownstreamIsLeast`). `StepOrder` is by ranks, which are `0..n-1` for any strict order
(`RanksAreDense`).

`CandidatesProofs` rests on

    HistoryInv == DataOK /\ StampsAreOld /\ CandidatesAreExact /\ TasksAreExact

types; no revision later than the clock; and, for every candidate in the registry and
every handler in progress: *if the revision it holds is the diagram's present one, what it
holds is the diagram's present content* (for an undo: what the last apply replaced, and that
apply is the last change). It is inductive because every change of content takes a new
stamp, so a revision, once past, never returns, not even for a reused id; the handlers'
parts are needed because what a handler read earlier enters the registry later. From it:
`AppliesHitTheModel`, `UndosAreExact`, and the refinement `HistoryIsImplemented` - every step
maps to a step of `ControllerHistory` or a stutter. `MarksAreOwned` is by an invariant of its
own over `request`. The registry as a whole is

    RegistryInv == HistoryInv /\ MapsInv /\ OrderInv /\ MarksHaveAnOwner

with `MapsInv` (the maps are inverse to each other, and no id is above the last given out)
and `OrderInv` (the list names each candidate of the maps exactly once and is within the
capacity). `put` takes one id out for its flowsheet, others to make room, and appends its
own; each step must leave a list without repetition that names what the maps still hold.
Hence `CandidatesTypeCorrect`, `RegistryStaysConsistent`, and `WorkStaysInTheRegistry`: what
`put` drops is not at work.

`WorkspaceProofs` proves `PositionsStayDense`, `ProjectsStayOpen` and `AnswersAreFound` for
any number of clients by one invariant. Density (the positions are `0..n-1` for the
number `n` of tabs) makes positions distinct by counting (`PositionsDiffer`), which deletion
needs to close up right; it gives `MAX(position) + 1 = n`, which appending needs; a
reordering that names `n` ids and all of them names none twice (`NewOrderIsInjective`).
An answer that no deletion disturbed names rows that exist, because only deletions take
rows away. Least and greatest elements come from the well-foundedness of the naturals
(`LeastExists`), since the installed provers cannot use the library's induction rules.

The same module shows that the tables implement the tab strips (`TabStripsAreImplemented`).
`Strip(p)` orders the rows by `(position, id)`: the sheet at a place is the one with so many
rows left of it. Where positions are dense that number is the position (`PlaceIsPosition`),
so a strip *is* its positions, and a list of a project's sheets with positions `0, 1, 2, ...`
is the strip (`OneStrip`). Each operation then has to show that the list it promises - the old
one with an entry inserted right of its source, appended, removed, or the list the user
sent - has these positions in the table it writes, and that the rows of other projects
keep theirs (`OneStripChanges`). The tab a deletion lands on, found in the code by looking
for the nearest row to the left, is the entry before it (`LandingIsNeighbour`).

`ExchangeProofs` is about all commands of the client and all routes of the server at once.
Its first half shows that each keeps to a discipline. A route either only looks
(`ReadingRoutes`), or changes the store in one phase and afterwards only shows what its
change leaves there (`WritingRoutes`; a candidate is stored in the last phase). A command
(`CommandsAreWellScripted`) that is to change nothing sends no change; any other sends
one, after which it asks only about what the change leaves there, and what its
request carries beyond the user's words it was told before. The second half never looks at a
particular command or route: `ServerInv` says of each client that the step its script is at,
the phase its request is at, the number of commits made for it and what it was told agree,
unless another client committed meanwhile, and `AccountsStayInOrder` that this survives
every step, crashes and lost connections included. What the exit code says, 0 and
2, a refusal or a decision of the command's own, is read off the account (`ExitCodesStayTrue`):
a command decides for itself only before its change is made (`DecidesBefore`). So is
what a lone command may overwrite
(`LoneCommandsAreExact`). The run has one client that runs any command beside one that
disturbs it, and one crash; the theorems have any number of each.

`StoreProofs` takes the statements of `Open` one at a time, over a store with any number of
projects, flowsheets, signs and wires. For each it shows four things: the store stays one
by the rules (`IsStore`), the statement brings about its own end (a column, parameters in
their place, declared ports, a project for every flowsheet, dense positions, ...), it undoes
none of the ends before it (`UpTo(n, s)`), and *where its end is reached already it does
nothing*. The last is what a reopening lives on. The invariant

    StoreInv == at \in DOMAIN Reached /\ IsStore(store) /\ UpTo(Reached[at], store)
                /\ crashes \in Nat /\ (crashes = 0 /\ at # "fillModelUpdatedAt" => IsStamped(store))

says that whatever lies before the part `Open` has got to has been brought about; a crash
forgets how far it was and loses none of it. At the end `UpTo(10, store)` is the well-formed
store (`OpenedStoresStayWellFormed`). `WhatIsLeft` turns the same facts into an equation: where
the first `n` parts are done, `Completed(s)` is the rest of the chain, so each statement takes
away exactly the first of what was left (`OpeningStaysResumable`). The two commits of
`ensureModelUpdatedAt` are the exception; stores that differ in revisions only stay so through
the rest of the chain (`RestsAreAlike`), hence `Unstamped` in the property. Two arguments are
by counting: that the ranks of tabs by `(position, name, id)` are `0..n-1` (`RanksAreDense`),
which holds for any strict order, and that a lone sign is repeated far enough
(`WiredIsGreatest`). `LegacyAssumption` says of the store that is opened first that
its rows reference what is there, that no two wires share an input port and that none lies
beyond the ports its block can be given. Edits see to that; the overtaken document of
finding 2 may not, and `Open` leaves the wires of such a store as they are.

Model-checked only:
- Liveness (`MarksAreCleared`, `EveryCommandEnds`, `OpeningsEnd`), which needs fairness.

## 6. Not modelled, and why

- Numbers: what a simulation, a spectrum, a design, an identification, a nonlinear or
  model study computes. Real arithmetic, no interleaving. In `Compilation`, rates are
  whole ticks and a tolerance is equality; in `ParameterSweep` responses are arbitrary small
  numbers; the swept block is a Thiran delay or a discrete PID, the ones whose
  parameters constrain each other. A Sum of more than 16 inputs is left out.
- Names, coordinates, events, formatting: generated block names, the refusal of duplicate
  names by documents, the uniqueness of channel names in control models.
- The copy of blocks, wires and roles by `flow duplicate`, beyond the new tab, the content and
  the roles (`Workspace`, `Candidates`).
- Within a page, the reads after the first (`workspace.go:69-87`).
- A clock that stands still or steps back between two edits. The models' clocks advance
  at every reading; with equal readings `>=` would keep a run current over an edit.
- `Candidates` takes every change of content to restamp the revision. The one exception in
  the code is the overtaken document of finding 2 (`document.go:352`), a hazard on the list.
- Rendering, flags and output formats of the client (`--help`, `--json`, `--dry-run`), and
  the browser's JavaScript, whose gesture state does not outlive the pointer.
- Limits that no instance here reaches: the greatest width of a direct signal
  (`signal_dimensions.go:79-84`), and those on the values and channels of a sweep's responses.
- A design reads blocks and wires by two statements (`model_graph.go:50`); in `Candidates` that
  is one step. It reads the revision before both, so an edit in between makes it stale either
  way. `Freshness` and `DocumentApply` have the two apart.
- `LoneCommandsChangeOnlyWhatTheyName` is about a client by itself. That `block set` sends back
  parameters another client has changed since it read them is so by design of its requests.
- In `Exchange`, a second crash, and more than one row of each table: a command names at most
  one of each.

## 7. Done and left

Done, in the order of what could hurt most: the diagrams and documents, the candidates with
their refinement and liveness, the opening of the store under crashes, the calculations
from a snapshot, the client and server under lost connections, and the proofs of the
invariants above.

Left:
1. `FlowCopy`: blocks, wires and roles of a duplicated flowsheet as an isomorphism, with the
   name generators.
2. The wiring, dragging and panning of the browser as one gesture machine.
