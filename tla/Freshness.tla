------------------------------ MODULE Freshness ------------------------------
(***************************************************************************)
(* Which stored results count as current: simulations (simulate.go,        *)
(* simulation_history.go, workspace.go) and analyses                       *)
(* (analysis_workspace.go) of one flowsheet, computed outside any          *)
(* transaction while the flowsheet is edited, deleted and created anew     *)
(* under the same rowid.                                                   *)
(*                                                                         *)
(* What is simulated has two parts, the blocks and the wires, read by two  *)
(* statements; a part is known by the time of its last edit.  A simulation *)
(* is current when it was stamped no earlier than flows.model_updated_at,  *)
(* an analysis when the revision it recorded equals it.                    *)
(***************************************************************************)
EXTENDS Integers, Sequences

CONSTANTS
    Jobs,     \* concurrent requests, each running one computation at a time
    MaxTime,  \* bound: the last clock reading
    MaxRuns,  \* bound: the simulations stored of the flowsheet
    Radix     \* clock readings that print alike up to their last digit

ASSUME FreshnessBounds == MaxTime \in Nat \ {0} /\ MaxRuns \in Nat /\ Radix \in Nat \ {0}

VARIABLES
    clock,     \* the last reading of Studio.now, which always advances
    flow,      \* the flows row with the blocks and wires it owns, or NoFlow
    runs,      \* simulation_runs of the flowsheet, ordered by id
    analysis,  \* the analysis_runs row of the flowsheet, or NoRecord
    job        \* what each request is at

vars == <<clock, flow, runs, analysis, job>>

NoFlow   == [live |-> FALSE]
NoRecord == [stored |-> FALSE]
Idle     == [stage |-> "idle"]

Times   == 1..MaxTime
Content == [blocks: Times, wires: Times]
NewFlow(t) == [live |-> TRUE, model |-> t, content |-> [blocks |-> t, wires |-> t]]

Init ==
    /\ clock = 1
    /\ flow = NewFlow(1)
    /\ runs = << >>
    /\ analysis = NoRecord
    /\ job = [j \in Jobs |-> Idle]

\* A statement that reads the clock.
Now == clock + 1
Ticks == Now \in Times /\ clock' = Now

(***************************************************************************)
(* When a stored simulation is current                                     *)
(***************************************************************************)
\* SQLite compares the stamps as text.  RFC3339Nano drops trailing zeros, and
\* the Z that ends a stamp sorts after any digit: of two readings that print
\* alike up to the last digit, the one whose last digit is dropped is larger.
TextAtLeast(a, b) ==
    IF a \div Radix = b \div Radix
    THEN a % Radix = 0 \/ (b % Radix # 0 /\ a >= b)
    ELSE a >= b

IsCurrent(run) == TextAtLeast(run.created, flow.model)

\* flowSelect and snapshot.
NeedsRun == \A i \in DOMAIN runs : ~IsCurrent(runs[i])

(***************************************************************************)
(* The flowsheet                                                           *)
(***************************************************************************)
\* Every job under way may have read what changes now.
Overlapped ==
    [j \in Jobs |-> IF job[j].stage \in {"revision", "blocks", "wires"}
                    THEN [job[j] EXCEPT !.overlapped = TRUE] ELSE job[j]]

\* Faulty variant: the edit is recorded as a layout change.
EditAsLayout(parts) ==
    /\ flow.live
    /\ Ticks
    /\ flow' = [flow EXCEPT !.content = [p \in DOMAIN @ |-> IF p \in parts THEN Now ELSE @[p]]]
    /\ job' = Overlapped
    /\ UNCHANGED <<runs, analysis>>

\* Any transaction that ends in touchModel.
Edit(parts) ==
    /\ flow.live
    /\ Ticks
    /\ flow' = [live |-> TRUE, model |-> Now,
                content |-> [p \in DOMAIN flow.content |->
                               IF p \in parts THEN Now ELSE flow.content[p]]]
    /\ job' = Overlapped
    /\ UNCHANGED <<runs, analysis>>

\* DeleteFlow, or DeleteProject: the results go with the flowsheet.
DeleteFlow ==
    /\ flow.live
    /\ flow' = NoFlow
    /\ runs' = << >>
    /\ analysis' = NoRecord
    /\ job' = Overlapped
    /\ UNCHANGED clock

\* CreateFlow gives out the largest rowid plus one, which may be this one again.
CreateFlow ==
    /\ ~flow.live
    /\ Ticks
    /\ flow' = NewFlow(Now)
    /\ job' = Overlapped
    /\ UNCHANGED <<runs, analysis>>

(***************************************************************************)
(* Run and RunAnalysis                                                     *)
(***************************************************************************)
\* snapshot's first statement.
ReadRevision(j, kind) ==
    /\ job[j] = Idle
    /\ flow.live
    /\ job' = [job EXCEPT ![j] = [stage |-> "revision", kind |-> kind,
                                  revision |-> flow.model, overlapped |-> FALSE]]
    /\ UNCHANGED <<clock, flow, runs, analysis>>

\* loadModelGraph's two.  A flowsheet deleted since has no rows to return, and
\* what is computed of none cannot be stored.
ReadBlocks(j) ==
    /\ job[j].stage = "revision"
    /\ flow.live
    /\ job' = [job EXCEPT ![j] = [stage |-> "blocks", kind |-> @.kind, revision |-> @.revision,
                                  overlapped |-> @.overlapped,
                                  content |-> [blocks |-> flow.content.blocks]]]
    /\ UNCHANGED <<clock, flow, runs, analysis>>

ReadWires(j) ==
    /\ job[j].stage = "blocks"
    /\ flow.live
    /\ job' = [job EXCEPT ![j] = [stage |-> "wires", kind |-> @.kind, revision |-> @.revision,
                                  overlapped |-> @.overlapped,
                                  content |-> [blocks |-> @.content.blocks,
                                               wires  |-> flow.content.wires]]]
    /\ UNCHANGED <<clock, flow, runs, analysis>>

\* Run stamps its result when simulate has returned.
StampRun(j) ==
    /\ job[j].stage = "wires" /\ job[j].kind = "simulation"
    /\ Ticks
    /\ job' = [job EXCEPT ![j] = [stage |-> "stamped", created |-> Now,
                                  content |-> @.content, overlapped |-> @.overlapped]]
    /\ UNCHANGED <<flow, runs, analysis>>

\* Faulty variant: the row is stamped by the transaction that stores it.
RunRecordStampedLate(done) ==
    [created |-> clock, content |-> done.content, overlapped |-> done.overlapped]

\* Faulty variant: the request is stored as it is.
RunRecordRaw(done) == done

\* `overlapped` is history: whether an edit fell between the reads and the stamp.
RunRecord(done) ==
    [created |-> done.created, content |-> done.content, overlapped |-> done.overlapped]

\* The foreign key refuses the row of a flowsheet that is gone.
CommitRun(j) ==
    /\ job[j].stage = "stamped"
    /\ flow.live
    /\ Len(runs) < MaxRuns
    /\ runs' = Append(runs, RunRecord(job[j]))
    /\ job' = [job EXCEPT ![j] = Idle]
    /\ UNCHANGED <<clock, flow, analysis>>

\* Faulty variant: the revision is read again when the result is stored.
AnalysisRecordAtCommit(done) ==
    [stored |-> TRUE, revision |-> flow.model, content |-> done.content]

AnalysisRecord(done) ==
    [stored |-> TRUE, revision |-> done.revision, content |-> done.content]

\* RunAnalysis stores the revision of its snapshot; the last to commit wins.
CommitAnalysis(j) ==
    /\ job[j].stage = "wires" /\ job[j].kind = "analysis"
    /\ flow.live
    /\ analysis' = AnalysisRecord(job[j])
    /\ job' = [job EXCEPT ![j] = Idle]
    /\ UNCHANGED <<clock, flow, runs>>

\* The computation or a statement fails, or the client goes away.
EndJob(j) ==
    /\ job[j] # Idle
    /\ job' = [job EXCEPT ![j] = Idle]
    /\ UNCHANGED <<clock, flow, runs, analysis>>

Next ==
    \/ \E parts \in {{"blocks"}, {"wires"}, {"blocks", "wires"}} : Edit(parts)
    \/ DeleteFlow
    \/ CreateFlow
    \/ \E j \in Jobs :
         \/ \E kind \in {"simulation", "analysis"} : ReadRevision(j, kind)
         \/ ReadBlocks(j)
         \/ ReadWires(j)
         \/ StampRun(j)
         \/ CommitRun(j)
         \/ CommitAnalysis(j)
         \/ EndJob(j)

Spec == Init /\ [][Next]_vars

(***************************************************************************)
(* Properties                                                              *)
(***************************************************************************)
RunType == [created: Times, content: Content, overlapped: BOOLEAN]
JobType ==
    {Idle}
    \cup [stage: {"revision"}, kind: {"simulation", "analysis"}, revision: Times,
          overlapped: BOOLEAN]
    \cup [stage: {"blocks"}, kind: {"simulation", "analysis"}, revision: Times,
          overlapped: BOOLEAN, content: [blocks: Times]]
    \cup [stage: {"wires"}, kind: {"simulation", "analysis"}, revision: Times,
          overlapped: BOOLEAN, content: Content]
    \cup [stage: {"stamped"}, created: Times, content: Content, overlapped: BOOLEAN]

\* The types of the rows and of the requests.
TypeOK ==
    /\ clock \in Times
    /\ flow \in {NoFlow} \cup [live: {TRUE}, model: Times, content: Content]
    /\ runs \in Seq(RunType)
    /\ analysis \in {NoRecord} \cup [stored: {TRUE}, revision: Times, content: Content]
    /\ job \in [Jobs -> JobType]

\* An analysis that is not marked stale is of the model as it stands, however its
\* computation was interleaved with edits and with the flowsheet's deletion: the
\* revision is read before the content.
CurrentAnalysisIsOfTheModel ==
    analysis # NoRecord /\ analysis.revision = flow.model
       => analysis.content = flow.content

\* A simulation that no edit overlapped, from its reads to its stamp, is current
\* only as long as the model is the one simulated, however late it is stored.
UndisturbedRunsAreExact ==
    \A i \in DOMAIN runs : IsCurrent(runs[i]) /\ ~runs[i].overlapped
                             => runs[i].content = flow.content

\* An edit of the model makes every simulation stored until then stale
\* (touchModel: "moving model_updated_at is what makes a flowsheet's last
\* simulation run stale").
EditsStaleStoredRuns ==
    [][flow.live /\ flow'.live /\ flow'.content # flow.content => NeedsRun']_vars

\* What the workbench shows as the current run is of the model as it stands
\* (LatestSimulation: "Snapshot.LastRun deliberately omits stale results").
CurrentRunIsOfTheModel ==
    \A i \in DOMAIN runs : IsCurrent(runs[i]) => runs[i].content = flow.content

\* The answer simulationShowAPI gives: the latest run by id, and whether any run
\* is current.  A latest run that is not current must be marked stale.
StaleLatestRunIsMarked ==
    runs # << >> /\ ~NeedsRun => IsCurrent(runs[Len(runs)])
=============================================================================
