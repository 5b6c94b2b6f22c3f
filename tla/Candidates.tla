------------------------------ MODULE Candidates ------------------------------
(***************************************************************************)
(* Controller candidates: designed and reviewed outside any transaction,   *)
(* kept in the registry of controller_candidates.go, applied to the        *)
(* diagram and undone by the transactions of candidate_apply.go, by        *)
(* requests that run concurrently with each other and with edits.          *)
(*                                                                         *)
(* A diagram is what it computes, one member of Contents.  An edit gives   *)
(* it a new model revision; roles change without one.  Flowsheet ids are   *)
(* reused as SQLite reuses rowids.  The registry lives in memory: it is    *)
(* lost when the server restarts.                                          *)
(***************************************************************************)
EXTENDS Naturals, FiniteSets, SequencesExt

CONSTANTS
    Requests,   \* what the server works on at the same time
    MaxFlow,    \* bound: the largest flowsheet id
    Contents,   \* what a diagram may compute
    Blank,      \* what a new flowsheet computes
    Proposals(_), \* what the designs may make of a diagram
    RoleSpecs,  \* the role assignments a flowsheet may have
    NoRoles,    \* the assignment that names no block, which no design accepts
    Capacity,   \* maxPendingControllerCandidates
    MaxTime,    \* bound: the last edit or apply; an undo may come one later
    MaxId,      \* bound: the candidates ever designed
    None

ASSUME CandidateBounds ==
    /\ MaxFlow \in Nat \ {0} /\ Capacity \in Nat /\ MaxTime \in Nat /\ MaxId \in Nat
    /\ NoRoles \in RoleSpecs /\ Blank \in Contents /\ None \notin Contents
    /\ \A c \in Contents : Proposals(c) \subseteq Contents

VARIABLES
    clock,    \* the last reading of Studio.now
    flows,    \* the flows table: id -> what its row and blocks hold
    byID,     \* the registry: id -> pending candidate
    byFlow,   \* flowsheet -> its candidate
    order,    \* the ids by age, the oldest first
    issued,   \* the number of ids given out: they are random and never repeat
    request,  \* what each request is at
    story     \* what last happened to the diagram (see ControllerHistory)

registry == <<byID, byFlow, order>>
model == <<clock, flows, story>>
candidateVars == <<clock, flows, byID, byFlow, order, issued, request, story>>

FlowIds == 1..MaxFlow
Times   == 1..(MaxTime + 1)
Ids     == 1..MaxId
Idle    == [at |-> "idle"]

Changed == [kind |-> "changed"]
Undone == [kind |-> "undone"]
Applied(before) == [kind |-> "applied", before |-> before]

InitialFlow(c, spec) == [revision |-> 1, content |-> c, roles |-> spec]

CandidatesInit ==
    /\ clock = 1
    /\ flows = [f \in {1} |-> InitialFlow(Blank, NoRoles)]
    /\ byID = << >> /\ byFlow = << >> /\ order = << >>
    /\ issued = 0
    /\ request = [r \in Requests |-> Idle]
    /\ story = [f \in FlowIds |-> Changed]

(***************************************************************************)
(* The diagrams                                                            *)
(***************************************************************************)
\* touchModel in a transaction that leaves flowsheet f with content c.
Rewrites(f, c, event) ==
    /\ clock' = clock + 1
    /\ flows' = [flows EXCEPT ![f].revision = clock + 1, ![f].content = c]
    /\ story' = [story EXCEPT ![f] = event]

\* Any edit of the model that leaves the roles (studio.go, document.go).
EditModel(f) ==
    /\ clock < MaxTime
    /\ \E c \in Contents : Rewrites(f, c, Changed)
    /\ UNCHANGED <<byID, byFlow, order, issued, request>>

\* AssignControlRoles stamps the layout, not the model.
AssignRoles(f) ==
    /\ \E spec \in RoleSpecs : flows' = [flows EXCEPT ![f].roles = spec]
    /\ UNCHANGED <<clock, story, byID, byFlow, order, issued, request>>

\* A new row, blank or a copy of another flowsheet with its roles, gets the id
\* above the largest.
CreateFlow ==
    /\ clock < MaxTime /\ clock' = clock + 1
    /\ \E f \in FlowIds,
          row \in {flows[g] : g \in DOMAIN flows} \cup {InitialFlow(Blank, NoRoles)} :
          /\ DOMAIN flows \subseteq 1..(f - 1)
          /\ f > 1 => f - 1 \in DOMAIN flows
          /\ flows' = [g \in DOMAIN flows \cup {f} |->
                         IF g = f THEN [row EXCEPT !.revision = clock + 1] ELSE flows[g]]
          /\ story' = [story EXCEPT ![f] = Changed]
    /\ UNCHANGED <<byID, byFlow, order, issued, request>>

Drops(f) ==
    /\ DOMAIN flows # {f}
    /\ flows' = [g \in DOMAIN flows \ {f} |-> flows[g]]
    /\ story' = [story EXCEPT ![f] = Changed]

\* Deleted through the API or with its project: the registry is not told.
DeleteFlowQuietly(f) ==
    /\ Drops(f)
    /\ UNCHANGED <<clock, byID, byFlow, order, issued, request>>

(***************************************************************************)
(* The registry, one action of its mutex each                              *)
(***************************************************************************)
InFlight(candidate) == candidate.applying \/ candidate.undoing

\* A candidate whose undo the model and the roles still allow.
Undoable(candidate) == candidate.applied /\ candidate.undo # None

SameBasis(a, b) == a.revision = b.revision /\ a.roles = b.roles

Without(ids) == [i \in DOMAIN byID \ ids |-> byID[i]]
Unlisted(id) == RemoveFirst(order, id)
UnlistedOf(f) == IF f \in DOMAIN byFlow THEN Unlisted(byFlow[f]) ELSE order
Forgotten(f) == [g \in DOMAIN byFlow \ {f} |-> byFlow[g]]

\* The candidate put would replace.
Previous(f) == IF f \in DOMAIN byFlow THEN {byFlow[f]} \cap DOMAIN byID ELSE {}

Busy(f) == \E p \in Previous(f) : InFlight(byID[p])

UndoWanted(f, candidate) ==
    \E p \in Previous(f) : Undoable(byID[p]) /\ SameBasis(candidate, byID[p].undo)

NewCandidate(f, design) ==
    [flow |-> f, revision |-> design.revision, roles |-> design.roles,
     basis |-> design.basis, target |-> design.target,
     applied |-> FALSE, applying |-> FALSE, undoing |-> FALSE, undo |-> None]

\* Faulty variant: the oldest goes, whatever is being done with it.
Evicted_InFlight(ids, listed) ==
    IF Cardinality(DOMAIN ids) <= Capacity THEN [gone |-> {}, order |-> listed]
    ELSE [gone |-> {Head(listed)}, order |-> Tail(listed)]

\* The eviction of put: in-flight candidates at the old end go to the back, the
\* oldest other one is dropped.  Only one candidate can be too many, and the
\* new one, which is last and not in flight, ends the scan at the latest.
Evicted(ids, listed) ==
    LET idle == {i \in 1..Len(listed) : ~InFlight(ids[listed[i]])}
        oldest == CHOOSE i \in idle : \A j \in idle : i <= j
    IN  IF Cardinality(DOMAIN ids) <= Capacity THEN [gone |-> {}, order |-> listed]
        ELSE [gone |-> {listed[oldest]},
              order |-> SubSeq(listed, oldest + 1, Len(listed)) \o SubSeq(listed, 1, oldest - 1)]

Put(f, candidate) ==
    LET id == issued + 1
        ids == [i \in (DOMAIN byID \ Previous(f)) \cup {id} |-> IF i = id THEN candidate ELSE byID[i]]
        listed == Append(UnlistedOf(f), id)
        kept == Evicted(ids, listed)
        owners == [g \in DOMAIN byFlow \cup {f} |-> IF g = f THEN id ELSE byFlow[g]]
    IN  /\ byID' = [i \in DOMAIN ids \ kept.gone |-> ids[i]]
        /\ order' = kept.order
        /\ byFlow' = [g \in {h \in DOMAIN owners : owners[h] \notin kept.gone} |-> owners[g]]

\* finishApply.  With nothing in progress under this id it does nothing.
FinishApply(id, undo) ==
    IF id \in DOMAIN byID /\ byID[id].applying
    THEN /\ byID' = [byID EXCEPT ![id].applying = FALSE,
                                 ![id].applied = @ \/ undo # None,
                                 ![id].undo = IF undo # None THEN undo ELSE @]
         /\ UNCHANGED <<byFlow, order>>
    ELSE UNCHANGED registry

\* Faulty variant: the flowsheet keeps pointing at the used candidate.
FinishUndo_LeavesOwner(id, used) ==
    IF id \in DOMAIN byID /\ byID[id].undoing
    THEN IF used
         THEN byID' = Without({id}) /\ order' = Unlisted(id) /\ UNCHANGED byFlow
         ELSE byID' = [byID EXCEPT ![id].undoing = FALSE] /\ UNCHANGED <<byFlow, order>>
    ELSE UNCHANGED registry

\* finishUndo: a used or expired undo takes the candidate with it.
FinishUndo(id, used) ==
    IF id \in DOMAIN byID /\ byID[id].undoing
    THEN IF used
         THEN /\ byID' = Without({id})
              /\ order' = Unlisted(id)
              /\ byFlow' = [g \in {h \in DOMAIN byFlow : byFlow[h] # id} |-> byFlow[g]]
         ELSE /\ byID' = [byID EXCEPT ![id].undoing = FALSE]
              /\ UNCHANGED <<byFlow, order>>
    ELSE UNCHANGED registry

\* deleteFlow of the registry.
Forget(f) ==
    LET owned == IF f \in DOMAIN byFlow THEN {byFlow[f]} ELSE {}
    IN  /\ byFlow' = Forgotten(f)
        /\ byID' = Without(owned)
        /\ order' = UnlistedOf(f)

(***************************************************************************)
(* A request that designs a candidate                                      *)
(***************************************************************************)
Goes(r, task) == request' = [request EXCEPT ![r] = task]

\* loadControlRoleSpec, the first statement of every design.
DesignReadsRoles(r, f) ==
    /\ request[r].at = "idle"
    /\ f \in DOMAIN flows
    /\ Goes(r, [at |-> "roles", flow |-> f, roles |-> flows[f].roles])
    /\ UNCHANGED <<clock, flows, story, byID, byFlow, order, issued>>

\* snapshot reads the row with the revision first, then the diagram.
DesignReadsRevision(r) ==
    LET task == request[r] IN
    /\ task.at = "roles"
    /\ task.flow \in DOMAIN flows
    /\ Goes(r, [at |-> "revision", flow |-> task.flow, roles |-> task.roles,
                revision |-> flows[task.flow].revision])
    /\ UNCHANGED <<clock, flows, story, byID, byFlow, order, issued>>

\* resolveControlRoleSpec refuses roles that name nothing.
DesignReadsDiagram(r) ==
    LET task == request[r] IN
    /\ task.at = "revision" /\ task.roles # NoRoles
    /\ task.flow \in DOMAIN flows
    /\ \E target \in Proposals(flows[task.flow].content) :
          Goes(r, [at |-> "designed", flow |-> task.flow, roles |-> task.roles,
                   revision |-> task.revision, basis |-> flows[task.flow].content,
                   target |-> target])
    /\ UNCHANGED <<clock, flows, story, byID, byFlow, order, issued>>

\* The review looks at the revision and the roles once more.
ReviewAccepts(r) ==
    LET task == request[r] IN
    /\ task.at = "designed"
    /\ task.flow \in DOMAIN flows
    /\ SameBasis(task, flows[task.flow])
    /\ Goes(r, [task EXCEPT !.at = "reviewed"])
    /\ UNCHANGED <<clock, flows, story, byID, byFlow, order, issued>>

\* A stale review, a numerical refusal, a deleted flowsheet, a client that left.
DesignFails(r) ==
    /\ request[r].at \in {"roles", "revision", "designed", "reviewed"}
    /\ Goes(r, Idle)
    /\ UNCHANGED <<clock, flows, story, byID, byFlow, order, issued>>

DesignIsPut(r) ==
    LET task == request[r]
        candidate == NewCandidate(task.flow, task)
    IN  /\ task.at = "reviewed"
        /\ Goes(r, Idle)
        /\ IF Busy(task.flow) \/ UndoWanted(task.flow, candidate)
           THEN UNCHANGED <<byID, byFlow, order, issued>>
           ELSE /\ issued < MaxId
                /\ issued' = issued + 1
                /\ Put(task.flow, candidate)
        /\ UNCHANGED <<clock, flows, story>>

(***************************************************************************)
(* A request that applies a candidate                                      *)
(***************************************************************************)
\* beginApply, for any flowsheet and id a page may name.
BeginApply(r, id, f) ==
    /\ request[r].at = "idle"
    /\ id \in DOMAIN byID
    /\ byID[id].flow = f
    /\ ~byID[id].applied /\ ~InFlight(byID[id])
    /\ byID' = [byID EXCEPT ![id].applying = TRUE]
    /\ Goes(r, [at |-> "applying", id |-> id, candidate |-> byID[id]])
    /\ UNCHANGED <<clock, flows, story, byFlow, order, issued>>

\* Faulty variant: only the roles are compared.
Fresh_RolesOnly(f, basis) == f \in DOMAIN flows /\ basis.roles = flows[f].roles

\* The checks of applyCandidateBlockEditWithUndo; what is replaced is kept.
Fresh(f, basis) == f \in DOMAIN flows /\ SameBasis(basis, flows[f])

\* Faulty variant: nothing is kept for the undo.
CommitApply_KeepsNothing(r) ==
    LET candidate == request[r].candidate IN
    /\ request[r].at = "applying" /\ clock < MaxTime
    /\ Fresh(candidate.flow, candidate)
    /\ Rewrites(candidate.flow, candidate.target, Applied(flows[candidate.flow].content))
    /\ Goes(r, [at |-> "applied", id |-> request[r].id, undo |-> None])
    /\ UNCHANGED <<byID, byFlow, order, issued>>

\* Faulty variant: the undo keeps the parameters after the write.
CommitApply_KeepsWritten(r) ==
    LET candidate == request[r].candidate IN
    /\ request[r].at = "applying" /\ clock < MaxTime
    /\ Fresh(candidate.flow, candidate)
    /\ Rewrites(candidate.flow, candidate.target, Applied(flows[candidate.flow].content))
    /\ Goes(r, [at |-> "applied", id |-> request[r].id,
                undo |-> [revision |-> clock + 1, roles |-> candidate.roles,
                          restores |-> candidate.target]])
    /\ UNCHANGED <<byID, byFlow, order, issued>>

CommitApply(r) ==
    LET candidate == request[r].candidate
        f == candidate.flow
    IN  /\ request[r].at = "applying" /\ clock < MaxTime
        /\ Fresh(f, candidate)
        /\ Rewrites(f, candidate.target, Applied(flows[f].content))
        /\ Goes(r, [at |-> "applied", id |-> request[r].id,
                    undo |-> [revision |-> clock + 1, roles |-> candidate.roles,
                              restores |-> flows[f].content]])
        /\ UNCHANGED <<byID, byFlow, order, issued>>

\* Stale, refused by the block's validation, diagnostic only, or cancelled.
RefuseApply(r) ==
    /\ request[r].at = "applying"
    /\ Goes(r, [at |-> "refused", id |-> request[r].id])
    /\ UNCHANGED <<clock, flows, story, byID, byFlow, order, issued>>

\* The snapshot after the commit fails: the handler sees a failed apply.
LoseAppliedAnswer(r) ==
    /\ request[r].at = "applied"
    /\ Goes(r, [at |-> "refused", id |-> request[r].id])
    /\ UNCHANGED <<clock, flows, story, byID, byFlow, order, issued>>

ApplyEnds(r) ==
    LET task == request[r] IN
    /\ \/ task.at = "applied" /\ FinishApply(task.id, task.undo)
       \/ task.at = "refused" /\ FinishApply(task.id, None)
    /\ Goes(r, [at |-> "rendered", id |-> task.id])
    /\ UNCHANGED <<clock, flows, story, issued>>

\* Faulty variant: the release is not deferred, a panic skips it.
ReleaseApply_SkippedByPanic(r) ==
    /\ request[r].at \in {"applying", "rendered"}
    /\ IF request[r].at = "rendered" THEN FinishApply(request[r].id, None) ELSE UNCHANGED registry
    /\ Goes(r, Idle)
    /\ UNCHANGED <<clock, flows, story, issued>>

\* The deferred release runs after the answer is rendered, or after a panic.
ReleaseApply(r) ==
    /\ request[r].at \in {"applying", "rendered"}
    /\ FinishApply(request[r].id, None)
    /\ Goes(r, Idle)
    /\ UNCHANGED <<clock, flows, story, issued>>

(***************************************************************************)
(* A request that undoes a candidate                                       *)
(***************************************************************************)
BeginUndo(r, id, f) ==
    /\ request[r].at = "idle"
    /\ id \in DOMAIN byID
    /\ byID[id].flow = f
    /\ Undoable(byID[id]) /\ ~InFlight(byID[id])
    /\ byID' = [byID EXCEPT ![id].undoing = TRUE]
    /\ Goes(r, [at |-> "undoing", id |-> id, candidate |-> byID[id]])
    /\ UNCHANGED <<clock, flows, story, byFlow, order, issued>>

\* Faulty variant: what the undo was taken from is not compared.
CommitUndo_Unchecked(r) ==
    LET candidate == request[r].candidate IN
    /\ request[r].at = "undoing" /\ clock <= MaxTime
    /\ candidate.flow \in DOMAIN flows
    /\ Rewrites(candidate.flow, candidate.undo.restores, Undone)
    /\ Goes(r, [at |-> "undone", id |-> request[r].id])
    /\ UNCHANGED <<byID, byFlow, order, issued>>

CommitUndo(r) ==
    LET candidate == request[r].candidate
        f == candidate.flow
    IN  /\ request[r].at = "undoing" /\ clock <= MaxTime
        /\ Fresh(f, candidate.undo)
        /\ Rewrites(f, candidate.undo.restores, Undone)
        /\ Goes(r, [at |-> "undone", id |-> request[r].id])
        /\ UNCHANGED <<byID, byFlow, order, issued>>

\* A validation error or a missing flowsheet ends the undo for good.
ExpireUndo(r) ==
    LET candidate == request[r].candidate IN
    /\ request[r].at = "undoing"
    /\ ~Fresh(candidate.flow, candidate.undo)
    /\ Goes(r, [at |-> "undone", id |-> request[r].id])
    /\ UNCHANGED <<clock, flows, story, byID, byFlow, order, issued>>

\* Any other error, before the commit or in the snapshot after it, may be retried.
FailUndo(r) ==
    /\ request[r].at \in {"undoing", "undone"}
    /\ Goes(r, [at |-> "not undone", id |-> request[r].id])
    /\ UNCHANGED <<clock, flows, story, byID, byFlow, order, issued>>

UndoEnds(r) ==
    LET task == request[r] IN
    /\ \/ task.at = "undone" /\ FinishUndo(task.id, TRUE)
       \/ task.at = "not undone" /\ FinishUndo(task.id, FALSE)
    /\ Goes(r, [at |-> "undo rendered", id |-> task.id])
    /\ UNCHANGED <<clock, flows, story, issued>>

ReleaseUndo(r) ==
    /\ request[r].at \in {"undoing", "undo rendered"}
    /\ FinishUndo(request[r].id, FALSE)
    /\ Goes(r, Idle)
    /\ UNCHANGED <<clock, flows, story, issued>>

(***************************************************************************)
(* Deleting a flowsheet from its page; a restart                           *)
(***************************************************************************)
DeleteFlow(r, f) ==
    /\ request[r].at = "idle"
    /\ f \in DOMAIN flows
    /\ Drops(f)
    /\ Goes(r, [at |-> "deleted", flow |-> f])
    /\ UNCHANGED <<clock, byID, byFlow, order, issued>>

ForgetDeletedFlow(r) ==
    /\ request[r].at = "deleted"
    /\ Forget(request[r].flow)
    /\ Goes(r, Idle)
    /\ UNCHANGED <<clock, flows, story, issued>>

\* The registry and the requests die with the process; the store stays.
Restart ==
    /\ byID' = << >> /\ byFlow' = << >> /\ order' = << >>
    /\ request' = [r \in Requests |-> Idle]
    /\ UNCHANGED <<clock, flows, story, issued>>

(***************************************************************************)
(* The specification                                                       *)
(***************************************************************************)
Designs(r) ==
    \/ DesignReadsRevision(r) \/ DesignReadsDiagram(r) \/ ReviewAccepts(r)
    \/ DesignIsPut(r) \/ DesignFails(r)
Applies(r) ==
    \/ CommitApply(r) \/ RefuseApply(r) \/ LoseAppliedAnswer(r) \/ ApplyEnds(r) \/ ReleaseApply(r)
Undoes(r) ==
    \/ CommitUndo(r) \/ ExpireUndo(r) \/ FailUndo(r) \/ UndoEnds(r) \/ ReleaseUndo(r)

\* What the server does by itself once a request has arrived.
Proceeds(r) == Designs(r) \/ Applies(r) \/ Undoes(r) \/ ForgetDeletedFlow(r)

\* What users ask for.
Asks ==
    \/ \E f \in DOMAIN flows : EditModel(f) \/ AssignRoles(f) \/ DeleteFlowQuietly(f)
    \/ CreateFlow
    \/ \E r \in Requests, f \in FlowIds :
          \/ DesignReadsRoles(r, f) \/ DeleteFlow(r, f)
          \/ \E id \in Ids : BeginApply(r, id, f) \/ BeginUndo(r, id, f)

CandidatesNext == Asks \/ (\E r \in Requests : Proceeds(r)) \/ Restart

\* The goroutine of a request runs on; requests, edits and restarts need not come.
CandidatesFairness == \A r \in Requests : WF_candidateVars(Proceeds(r))

CandidatesSpec == CandidatesInit /\ [][CandidatesNext]_candidateVars /\ CandidatesFairness

(***************************************************************************)
(* Properties                                                              *)
(***************************************************************************)
UndoRecords == [revision : Times, roles : RoleSpecs, restores : Contents]

CandidateRecords ==
    [flow : FlowIds, revision : Times, roles : RoleSpecs, basis : Contents, target : Contents,
     applied : BOOLEAN, applying : BOOLEAN, undoing : BOOLEAN, undo : UndoRecords \cup {None}]

Tasks ==
    {Idle}
    \cup [at : {"roles"}, flow : FlowIds, roles : RoleSpecs]
    \cup [at : {"revision"}, flow : FlowIds, roles : RoleSpecs, revision : Times]
    \cup [at : {"designed", "reviewed"}, flow : FlowIds, roles : RoleSpecs, revision : Times,
          basis : Contents, target : Contents]
    \cup [at : {"applying", "undoing"}, id : Ids, candidate : CandidateRecords]
    \cup [at : {"applied"}, id : Ids, undo : UndoRecords]
    \cup [at : {"refused", "rendered", "undone", "not undone", "undo rendered"}, id : Ids]
    \cup [at : {"deleted"}, flow : FlowIds]

Stories == {Changed, Undone} \cup [kind : {"applied"}, before : Contents]

\* The diagrams, the registry and the requests have the shape of the Go types.
CandidatesTypeOK ==
    /\ clock \in Times
    /\ DOMAIN flows \subseteq FlowIds
    /\ \A f \in DOMAIN flows :
          flows[f] \in [revision : Times, content : Contents, roles : RoleSpecs]
    /\ DOMAIN byID \subseteq Ids
    /\ \A i \in DOMAIN byID : byID[i] \in CandidateRecords
    /\ DOMAIN byFlow \subseteq FlowIds
    /\ \A f \in DOMAIN byFlow : byFlow[f] \in Ids
    /\ order \in Seq(Ids)
    /\ issued \in 0..MaxId
    /\ request \in [Requests -> Tasks]
    /\ story \in [FlowIds -> Stories]

\* The two maps of the registry are inverse to each other.
MapsAgree ==
    /\ \A f \in DOMAIN byFlow : byFlow[f] \in DOMAIN byID /\ byID[byFlow[f]].flow = f
    /\ \A i \in DOMAIN byID : byID[i].flow \in DOMAIN byFlow /\ byFlow[byID[i].flow] = i

\* The two maps and the list of the registry describe the same candidates, one
\* for each flowsheet and never more than the capacity (put, deleteLocked).
RegistryIsConsistent ==
    /\ {order[i] : i \in 1..Len(order)} = DOMAIN byID
    /\ Len(order) = Cardinality(DOMAIN byID)
    /\ Len(order) <= Capacity
    /\ MapsAgree

WorksOn(r, id, stages) == request[r].at \in stages /\ request[r].id = id

Applying == {"applying", "applied", "refused", "rendered"}
Undoing == {"undoing", "undone", "not undone", "undo rendered"}

\* A mark of work in progress in the registry belongs to a request that will
\* clear it: no candidate stays locked after its request is gone.
MarksHaveAnOwner ==
    \A i \in DOMAIN byID :
        /\ byID[i].applying => \E r \in Requests : WorksOn(r, i, Applying)
        /\ byID[i].undoing => \E r \in Requests : WorksOn(r, i, Undoing)

\* An undo the registry offers and the store would accept puts back what the
\* apply replaced, whatever happened in between (candidate_apply.go:193).
OfferedUndosAreExact ==
    \A i \in DOMAIN byID :
        (Undoable(byID[i]) /\ Fresh(byID[i].flow, byID[i].undo))
        => story[byID[i].flow] = Applied(byID[i].undo.restores)

\* What is written to a diagram was designed from that very diagram under the
\* roles it still has, although the design read both in several steps, edits
\* fell in between and the id may have passed to another flowsheet.
AppliesHitTheDesignedModel ==
    [][\A f \in FlowIds :
          (story'[f] # story[f] /\ story'[f].kind = "applied")
          => \E r \in Requests :
                /\ request[r].at = "applying"
                /\ request[r].candidate.flow = f
                /\ request[r].candidate.basis = flows[f].content
                /\ request[r].candidate.roles = flows[f].roles
                /\ flows'[f].content = request[r].candidate.target]_candidateVars

\* While a request works on a candidate, nobody takes it out of the registry:
\* only the undo itself, the deletion of the flowsheet's page, or a restart.
WorkIsNotEvicted ==
    [][\A i \in DOMAIN byID :
          (InFlight(byID[i]) /\ i \notin DOMAIN byID')
          => \/ request' = [r \in Requests |-> Idle]
             \/ \E r \in Requests :
                   \/ request[r].at = "undone" /\ request[r].id = i
                   \/ request[r].at = "deleted" /\ request[r].flow = byID[i].flow]_candidateVars

\* Every mark is cleared, also when the handler panics between begin and finish.
MarksAreCleared ==
    \A i \in Ids : (i \in DOMAIN byID /\ InFlight(byID[i]))
                   ~> (i \notin DOMAIN byID \/ ~InFlight(byID[i]))

History == INSTANCE ControllerHistory
    WITH Flows <- FlowIds,
         content <- [f \in FlowIds |-> IF f \in DOMAIN flows THEN flows[f].content ELSE None]

\* Requests, edits and restarts together do to the diagrams what the workflow
\* promises: an undo takes back exactly the last change, which was an apply.
ImplementsControllerHistory == History!Spec

\* Without restarts, and with one flowsheet so that nothing is evicted.
UninterruptedSpec ==
    CandidatesInit /\ [][Asks \/ \E r \in Requests : Proceeds(r)]_candidateVars

\* controller_candidates.go:486: "Controller candidate applied. Undo is available
\* until the model changes."  An undo the registry holds and the store would
\* accept is gone only because it was used or its flowsheet was deleted.
UndoStaysUntilTheModelChanges ==
    [][\A i \in DOMAIN byID :
          (Undoable(byID[i]) /\ Fresh(byID[i].flow, byID[i].undo) /\ i \notin DOMAIN byID')
          => \E r \in Requests : WorksOn(r, i, {"undone"})]_candidateVars
=============================================================================
