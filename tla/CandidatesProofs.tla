--------------------------- MODULE CandidatesProofs ---------------------------
(***************************************************************************)
(* Theorems about Candidates for any requests, flowsheets, contents, roles *)
(* and capacity.  The list by age, order, decides which candidate goes     *)
(* when there are too many; only the last part depends on it.              *)
(***************************************************************************)
EXTENDS Candidates, Integers, FiniteSetTheorems, TLAPS

(***************************************************************************)
(* Types                                                                   *)
(***************************************************************************)
FlowRecords == [revision : Times, content : Contents, roles : RoleSpecs]

ModelOK ==
    /\ clock \in Times
    /\ DOMAIN flows \subseteq FlowIds
    /\ \A f \in DOMAIN flows : flows[f] \in FlowRecords
    /\ story \in [FlowIds -> Stories]

RegistryOK ==
    /\ DOMAIN byID \subseteq Ids
    /\ \A i \in DOMAIN byID : byID[i] \in CandidateRecords
    /\ DOMAIN byFlow \subseteq FlowIds
    /\ \A f \in DOMAIN byFlow : byFlow[f] \in Ids
    /\ issued \in 0..MaxId

RequestsOK == request \in [Requests -> Tasks]

DataOK == ModelOK /\ RegistryOK /\ RequestsOK

LEMMA Bounds ==
  /\ MaxTime \in Nat /\ MaxId \in Nat
  /\ \A t \in Times : t \in Int
  /\ \A i \in Ids : i \in Int
  BY CandidateBounds DEF Times, Ids

\* What a request at some stage carries.
RoleReaders     == [at : {"roles"}, flow : FlowIds, roles : RoleSpecs]
RevisionReaders == [at : {"revision"}, flow : FlowIds, roles : RoleSpecs, revision : Times]
Designers == [at : {"designed", "reviewed"}, flow : FlowIds, roles : RoleSpecs, revision : Times,
              basis : Contents, target : Contents]
Workers   == [at : {"applying", "undoing"}, id : Ids, candidate : CandidateRecords]
Appliers  == [at : {"applied"}, id : Ids, undo : UndoRecords]
LateStages == {"refused", "rendered", "undone", "not undone", "undo rendered"}
Enders    == [at : LateStages, id : Ids]
Deleters  == [at : {"deleted"}, flow : FlowIds]

LEMMA TasksByStage ==
  Tasks = {Idle} \cup RoleReaders \cup RevisionReaders \cup Designers \cup Workers
          \cup Appliers \cup Enders \cup Deleters
  BY Zenon DEF Tasks, RoleReaders, RevisionReaders, Designers, Workers, Appliers, Enders, Deleters,
               LateStages

LEMMA StagesOfTasks ==
  ASSUME NEW t \in Tasks
  PROVE  /\ t.at = "roles" => t \in RoleReaders
         /\ t.at = "revision" => t \in RevisionReaders
         /\ t.at \in {"designed", "reviewed"} => t \in Designers
         /\ t.at \in {"applying", "undoing"} => t \in Workers
         /\ t.at = "applied" => t \in Appliers
         /\ t.at \in LateStages => t \in Enders
         /\ t.at = "deleted" => t \in Deleters
<1>1. t \in {Idle} => t.at = "idle"
  BY DEF Idle
<1>2. t \in RoleReaders => t.at = "roles"
  BY DEF RoleReaders
<1>3. t \in RevisionReaders => t.at = "revision"
  BY DEF RevisionReaders
<1>4. t \in Designers => t.at \in {"designed", "reviewed"}
  BY DEF Designers
<1>5. t \in Workers => t.at \in {"applying", "undoing"}
  BY DEF Workers
<1>6. t \in Appliers => t.at = "applied"
  BY DEF Appliers
<1>7. t \in Enders => t.at \in LateStages
  BY DEF Enders
<1>8. t \in Deleters => t.at = "deleted"
  BY DEF Deleters
<1>9. t \in {Idle} \/ t \in RoleReaders \/ t \in RevisionReaders \/ t \in Designers
      \/ t \in Workers \/ t \in Appliers \/ t \in Enders \/ t \in Deleters
  BY TasksByStage, Zenon
<1> QED
  BY <1>1, <1>2, <1>3, <1>4, <1>5, <1>6, <1>7, <1>8, <1>9 DEF LateStages

LEMMA InitIsTyped == CandidatesInit => DataOK
<1> SUFFICES ASSUME CandidatesInit PROVE DataOK
  OBVIOUS
<1>1. ModelOK
  BY CandidateBounds DEF CandidatesInit, ModelOK, FlowRecords, InitialFlow, Stories, Changed, Undone,
                         Times, FlowIds
<1> QED
  BY <1>1, CandidateBounds DEF CandidatesInit, DataOK, RegistryOK, RequestsOK, Tasks
\* The diagrams: a rewrite, new and deleted flowsheets.
LEMMA RewritesAreTyped ==
  ASSUME ModelOK, NEW f \in DOMAIN flows, NEW c \in Contents, NEW event \in Stories,
         clock <= MaxTime, Rewrites(f, c, event)
  PROVE  ModelOK'
<1>1. clock' \in Times
  BY CandidateBounds DEF ModelOK, Times, Rewrites
<1>2. flows' = [flows EXCEPT ![f] = [@ EXCEPT !.revision = clock + 1, !.content = c]]
  BY DEF Rewrites
<1>3. [flows[f] EXCEPT !.revision = clock + 1, !.content = c] \in FlowRecords
  BY <1>1 DEF ModelOK, FlowRecords, Rewrites
<1>4. DOMAIN flows' = DOMAIN flows /\ \A g \in DOMAIN flows : flows'[g] \in FlowRecords
  BY <1>2, <1>3 DEF ModelOK
<1>5. story' \in [FlowIds -> Stories]
  BY DEF ModelOK, Rewrites
<1> QED
  BY <1>1, <1>4, <1>5 DEF ModelOK

LEMMA CreateFlowIsTyped ==
  ASSUME ModelOK, CreateFlow
  PROVE  ModelOK'
<1>1. clock' \in Times
  BY CandidateBounds DEF ModelOK, Times, CreateFlow
<1>2. PICK f \in FlowIds, row \in {flows[g] : g \in DOMAIN flows} \cup {InitialFlow(Blank, NoRoles)} :
          /\ flows' = [g \in DOMAIN flows \cup {f} |->
                         IF g = f THEN [row EXCEPT !.revision = clock + 1] ELSE flows[g]]
          /\ story' = [story EXCEPT ![f] = Changed]
  BY DEF CreateFlow
<1>3. row \in FlowRecords
  BY CandidateBounds DEF ModelOK, FlowRecords, InitialFlow, Times
<1>4. [row EXCEPT !.revision = clock + 1] \in FlowRecords
  BY <1>1, <1>3 DEF FlowRecords, CreateFlow
<1>5. DOMAIN flows' \subseteq FlowIds /\ \A g \in DOMAIN flows' : flows'[g] \in FlowRecords
  BY <1>2, <1>4 DEF ModelOK
<1>6. story' \in [FlowIds -> Stories]
  BY <1>2 DEF ModelOK, Stories
<1> QED
  BY <1>1, <1>5, <1>6 DEF ModelOK

LEMMA DropsIsTyped ==
  ASSUME ModelOK, NEW f \in DOMAIN flows, Drops(f), UNCHANGED clock
  PROVE  ModelOK'
  BY DEF ModelOK, Drops, Stories

(***************************************************************************)
(* The registry                                                            *)
(***************************************************************************)
\* Marks and results change a candidate in place.
LEMMA InPlaceIsTyped ==
  ASSUME RegistryOK, NEW id \in DOMAIN byID, NEW next \in CandidateRecords,
         byID' = [byID EXCEPT ![id] = next], UNCHANGED <<byFlow, issued>>
  PROVE  RegistryOK'
  BY DEF RegistryOK

LEMMA RemovalIsTyped ==
  ASSUME RegistryOK, NEW ids, NEW fs, byID' = Without(ids),
         byFlow' = [g \in fs |-> byFlow[g]], fs \subseteq DOMAIN byFlow, UNCHANGED issued
  PROVE  RegistryOK'
  BY DEF RegistryOK, Without

LEMMA FinishApplyIsTyped ==
  ASSUME RegistryOK, NEW id, NEW undo \in UndoRecords \cup {None}, FinishApply(id, undo),
         UNCHANGED issued
  PROVE  RegistryOK'
<1>1. CASE id \in DOMAIN byID /\ byID[id].applying
  <2> DEFINE next == [byID[id] EXCEPT !.applying = FALSE, !.applied = @ \/ undo # None,
                                      !.undo = IF undo # None THEN undo ELSE @]
  <2>1. byID' = [byID EXCEPT ![id] = next]
    BY <1>1 DEF FinishApply
  <2>2. next \in CandidateRecords
    BY <1>1 DEF RegistryOK, CandidateRecords
  <2> QED
    BY <1>1, <2>1, <2>2, InPlaceIsTyped DEF FinishApply
<1>2. CASE ~(id \in DOMAIN byID /\ byID[id].applying)
  BY <1>2 DEF FinishApply, RegistryOK, registry
<1> QED
  BY <1>1, <1>2

LEMMA FinishUndoIsTyped ==
  ASSUME RegistryOK, NEW id, NEW used \in BOOLEAN, FinishUndo(id, used), UNCHANGED issued
  PROVE  RegistryOK'
<1>1. CASE id \in DOMAIN byID /\ byID[id].undoing /\ used
  <2>1. byFlow' = [g \in {h \in DOMAIN byFlow : byFlow[h] # id} |-> byFlow[g]]
    BY <1>1 DEF FinishUndo
  <2> QED
    BY <1>1, <2>1, RemovalIsTyped DEF FinishUndo
<1>2. CASE id \in DOMAIN byID /\ byID[id].undoing /\ ~used
  <2> DEFINE next == [byID[id] EXCEPT !.undoing = FALSE]
  <2>1. byID' = [byID EXCEPT ![id] = next]
    BY <1>2 DEF FinishUndo
  <2>2. next \in CandidateRecords
    BY <1>2 DEF RegistryOK, CandidateRecords
  <2> QED
    BY <1>2, <2>1, <2>2, InPlaceIsTyped DEF FinishUndo
<1>3. CASE ~(id \in DOMAIN byID /\ byID[id].undoing)
  BY <1>3 DEF FinishUndo, RegistryOK, registry
<1> QED
  BY <1>1, <1>2, <1>3

\* put: whatever goes, what stays is an old candidate or the new one.
PutDropping(f, candidate, gone) ==
    /\ byID' = [i \in ((DOMAIN byID \ Previous(f)) \cup {issued + 1}) \ gone |->
                  IF i = issued + 1 THEN candidate ELSE byID[i]]
    /\ byFlow' = [g \in {h \in DOMAIN byFlow \cup {f} :
                         (IF h = f THEN issued + 1 ELSE byFlow[h]) \notin gone} |->
                    IF g = f THEN issued + 1 ELSE byFlow[g]]

LEMMA PutKeeps ==
  ASSUME NEW f, NEW candidate, Put(f, candidate)
  PROVE  \E gone : PutDropping(f, candidate, gone)
<1> DEFINE ids == [i \in (DOMAIN byID \ Previous(f)) \cup {issued + 1} |->
                     IF i = issued + 1 THEN candidate ELSE byID[i]]
           listed == Append(UnlistedOf(f), issued + 1)
           owners == [g \in DOMAIN byFlow \cup {f} |-> IF g = f THEN issued + 1 ELSE byFlow[g]]
           gone == Evicted(ids, listed).gone
<1>1. /\ byID' = [i \in DOMAIN ids \ gone |-> ids[i]]
      /\ byFlow' = [g \in {h \in DOMAIN owners : owners[h] \notin gone} |-> owners[g]]
  BY DEF Put
<1> HIDE DEF gone
<1>2. byID' = [i \in ((DOMAIN byID \ Previous(f)) \cup {issued + 1}) \ gone |->
                 IF i = issued + 1 THEN candidate ELSE byID[i]]
  BY <1>1
<1>3. byFlow' = [g \in {h \in DOMAIN byFlow \cup {f} :
                       (IF h = f THEN issued + 1 ELSE byFlow[h]) \notin gone} |->
                   IF g = f THEN issued + 1 ELSE byFlow[g]]
  BY <1>1
<1> QED
  BY <1>2, <1>3 DEF PutDropping

LEMMA PutIsTyped ==
  ASSUME RegistryOK, NEW f \in FlowIds, NEW candidate \in CandidateRecords,
         issued < MaxId, issued' = issued + 1, Put(f, candidate)
  PROVE  RegistryOK'
<1>1. issued + 1 \in Ids /\ issued' \in 0..MaxId
  BY CandidateBounds DEF RegistryOK, Ids
<1>2. PICK gone : PutDropping(f, candidate, gone)
  BY PutKeeps
<1>3. DOMAIN byID' \subseteq Ids /\ \A i \in DOMAIN byID' : byID'[i] \in CandidateRecords
  BY <1>1, <1>2 DEF RegistryOK, PutDropping
<1>4. DOMAIN byFlow' \subseteq FlowIds /\ \A g \in DOMAIN byFlow' : byFlow'[g] \in Ids
  BY <1>1, <1>2 DEF RegistryOK, PutDropping
<1> QED
  BY <1>1, <1>3, <1>4 DEF RegistryOK
(***************************************************************************)
(* The requests                                                            *)
(***************************************************************************)
LEMMA GoesIsTyped ==
  ASSUME RequestsOK, NEW r \in Requests, NEW task \in Tasks, Goes(r, task)
  PROVE  RequestsOK'
  BY DEF RequestsOK, Goes

LEMMA IdleIsTask == Idle \in Tasks
  BY DEF Tasks

LEMMA AtIsTask ==
  ASSUME NEW id \in Ids, NEW stage \in LateStages
  PROVE  [at |-> stage, id |-> id] \in Tasks
<1>1. [at |-> stage, id |-> id] \in Enders
  BY DEF Enders
<1> QED
  BY <1>1, TasksByStage

LEMMA DesignsAreTyped ==
  ASSUME DataOK, NEW r \in Requests,
         (\E f \in FlowIds : DesignReadsRoles(r, f)) \/ Designs(r)
  PROVE  DataOK'
<1> USE DEF DataOK
<1>0. request[r] \in Tasks
  BY DEF RequestsOK
<1>1. CASE \E f \in FlowIds : DesignReadsRoles(r, f)
  <2>1. PICK f \in FlowIds : DesignReadsRoles(r, f)
    BY <1>1
  <2>2. [at |-> "roles", flow |-> f, roles |-> flows[f].roles] \in RoleReaders
    BY <2>1 DEF DesignReadsRoles, ModelOK, FlowRecords, RoleReaders
  <2>3. [at |-> "roles", flow |-> f, roles |-> flows[f].roles] \in Tasks
    BY <2>2, TasksByStage
  <2> QED
    BY <2>1, <2>3, GoesIsTyped DEF DesignReadsRoles, ModelOK, RegistryOK
<1>2. CASE DesignReadsRevision(r)
  <2> DEFINE next == [at |-> "revision", flow |-> request[r].flow, roles |-> request[r].roles,
                      revision |-> flows[request[r].flow].revision]
  <2>1. request[r] \in RoleReaders /\ request[r].flow \in DOMAIN flows
    BY <1>0, <1>2, StagesOfTasks DEF DesignReadsRevision
  <2>2. next \in RevisionReaders
    BY <2>1 DEF ModelOK, FlowRecords, RoleReaders, RevisionReaders
  <2>3. next \in Tasks
    BY <2>2, TasksByStage
  <2> QED
    BY <1>2, <2>3, GoesIsTyped DEF DesignReadsRevision, ModelOK, RegistryOK
<1>3. CASE DesignReadsDiagram(r)
  <2>1. request[r] \in RevisionReaders /\ request[r].flow \in DOMAIN flows
    BY <1>0, <1>3, StagesOfTasks DEF DesignReadsDiagram
  <2>2. flows[request[r].flow].content \in Contents
    BY <2>1 DEF ModelOK, FlowRecords
  <2>3. PICK target \in Proposals(flows[request[r].flow].content) :
          Goes(r, [at |-> "designed", flow |-> request[r].flow, roles |-> request[r].roles,
                   revision |-> request[r].revision,
                   basis |-> flows[request[r].flow].content, target |-> target])
    BY <1>3 DEF DesignReadsDiagram
  <2> DEFINE next == [at |-> "designed", flow |-> request[r].flow, roles |-> request[r].roles,
                      revision |-> request[r].revision,
                      basis |-> flows[request[r].flow].content, target |-> target]
  <2>4. target \in Contents
    BY <2>2, <2>3, CandidateBounds
  <2>5. next \in Designers
    BY <2>1, <2>2, <2>4 DEF RevisionReaders, Designers
  <2>6. next \in Tasks
    BY <2>5, TasksByStage
  <2> QED
    BY <1>3, <2>3, <2>6, GoesIsTyped DEF DesignReadsDiagram, ModelOK, RegistryOK
<1>4. CASE ReviewAccepts(r)
  <2>1. request[r] \in Designers
    BY <1>0, <1>4, StagesOfTasks DEF ReviewAccepts
  <2>2. [request[r] EXCEPT !.at = "reviewed"] \in Designers
    BY <2>1 DEF Designers
  <2>3. [request[r] EXCEPT !.at = "reviewed"] \in Tasks
    BY <2>2, TasksByStage
  <2> QED
    BY <1>4, <2>3, GoesIsTyped DEF ReviewAccepts, ModelOK, RegistryOK
<1>5. CASE DesignIsPut(r)
  <2> DEFINE task == request[r]
             candidate == NewCandidate(task.flow, task)
  <2>1. task \in Designers
    BY <1>0, <1>5, StagesOfTasks DEF DesignIsPut
  <2>2. candidate \in CandidateRecords
    BY <2>1 DEF NewCandidate, CandidateRecords, Designers
  <2>3. RequestsOK'
    BY <1>5, GoesIsTyped, IdleIsTask DEF DesignIsPut
  <2>4. RegistryOK'
    <3>1. CASE Busy(task.flow) \/ UndoWanted(task.flow, candidate)
      BY <1>5, <3>1 DEF DesignIsPut, RegistryOK
    <3>2. CASE ~(Busy(task.flow) \/ UndoWanted(task.flow, candidate))
      <4>1. issued < MaxId /\ issued' = issued + 1 /\ Put(task.flow, candidate)
        BY <1>5, <3>2 DEF DesignIsPut
      <4>2. task.flow \in FlowIds
        BY <2>1 DEF Designers
      <4> QED
        BY <4>1, <4>2, <2>2, PutIsTyped
    <3> QED
      BY <3>1, <3>2
  <2> QED
    BY <1>5, <2>3, <2>4 DEF DesignIsPut, ModelOK
<1>6. CASE DesignFails(r)
  BY <1>6, GoesIsTyped, IdleIsTask DEF DesignFails, ModelOK, RegistryOK
<1> QED
  BY <1>1, <1>2, <1>3, <1>4, <1>5, <1>6 DEF Designs
LEMMA BeginIsTyped ==
  ASSUME DataOK, NEW r \in Requests, NEW id \in Ids, NEW f \in FlowIds,
         BeginApply(r, id, f) \/ BeginUndo(r, id, f)
  PROVE  DataOK'
<1> USE DEF DataOK
<1>1. id \in DOMAIN byID /\ byID[id] \in CandidateRecords
  BY DEF BeginApply, BeginUndo, RegistryOK
<1>2. CASE BeginApply(r, id, f)
  <2>1. byID' = [byID EXCEPT ![id] = [@ EXCEPT !.applying = TRUE]]
    BY <1>2 DEF BeginApply
  <2>2. [byID[id] EXCEPT !.applying = TRUE] \in CandidateRecords
    BY <1>1 DEF CandidateRecords
  <2>3. RegistryOK'
    BY <1>1, <1>2, <2>1, <2>2, InPlaceIsTyped DEF BeginApply
  <2>4. [at |-> "applying", id |-> id, candidate |-> byID[id]] \in Workers
    BY <1>1 DEF Workers
  <2>5. RequestsOK'
    BY <1>2, <2>4, TasksByStage, GoesIsTyped DEF BeginApply
  <2> QED
    BY <1>2, <2>3, <2>5 DEF BeginApply, ModelOK
<1>3. CASE BeginUndo(r, id, f)
  <2>1. byID' = [byID EXCEPT ![id] = [@ EXCEPT !.undoing = TRUE]]
    BY <1>3 DEF BeginUndo
  <2>2. [byID[id] EXCEPT !.undoing = TRUE] \in CandidateRecords
    BY <1>1 DEF CandidateRecords
  <2>3. RegistryOK'
    BY <1>1, <1>3, <2>1, <2>2, InPlaceIsTyped DEF BeginUndo
  <2>4. [at |-> "undoing", id |-> id, candidate |-> byID[id]] \in Workers
    BY <1>1 DEF Workers
  <2>5. RequestsOK'
    BY <1>3, <2>4, TasksByStage, GoesIsTyped DEF BeginUndo
  <2> QED
    BY <1>3, <2>3, <2>5 DEF BeginUndo, ModelOK
<1> QED
  BY <1>2, <1>3

LEMMA AppliesAreTyped ==
  ASSUME DataOK, NEW r \in Requests, Applies(r)
  PROVE  DataOK'
<1> USE DEF DataOK
<1>0. request[r] \in Tasks
  BY DEF RequestsOK
<1>1. CASE CommitApply(r)
  <2> DEFINE candidate == request[r].candidate
             f == candidate.flow
             next == [at |-> "applied", id |-> request[r].id,
                      undo |-> [revision |-> clock + 1, roles |-> candidate.roles,
                                restores |-> flows[f].content]]
  <2>1. request[r] \in Workers
    BY <1>0, <1>1, StagesOfTasks DEF CommitApply
  <2>2. candidate \in CandidateRecords /\ request[r].id \in Ids
    BY <2>1 DEF Workers
  <2>3. f \in DOMAIN flows /\ flows[f] \in FlowRecords
    BY <1>1 DEF CommitApply, Fresh, ModelOK
  <2>4. clock + 1 \in Times /\ clock <= MaxTime
    BY <1>1, CandidateBounds DEF CommitApply, ModelOK, Times
  <2>5. candidate.target \in Contents /\ candidate.roles \in RoleSpecs
    BY <2>2 DEF CandidateRecords
  <2>6. Applied(flows[f].content) \in Stories /\ flows[f].content \in Contents
    BY <2>3 DEF FlowRecords, Stories, Applied
  <2>7. ModelOK'
    BY <1>1, <2>3, <2>4, <2>5, <2>6, RewritesAreTyped DEF CommitApply
  <2>8. next \in Appliers
    BY <2>2, <2>4, <2>5, <2>6 DEF Appliers, UndoRecords
  <2>9. RequestsOK'
    BY <1>1, <2>8, TasksByStage, GoesIsTyped DEF CommitApply
  <2> QED
    BY <1>1, <2>7, <2>9 DEF CommitApply, RegistryOK
<1>2. CASE RefuseApply(r)
  <2>1. request[r].id \in Ids
    BY <1>0, <1>2, StagesOfTasks DEF RefuseApply, Workers
  <2> QED
    BY <1>2, <2>1, AtIsTask, GoesIsTyped DEF RefuseApply, LateStages, ModelOK, RegistryOK
<1>3. CASE LoseAppliedAnswer(r)
  <2>1. request[r].id \in Ids
    BY <1>0, <1>3, StagesOfTasks DEF LoseAppliedAnswer, Appliers
  <2> QED
    BY <1>3, <2>1, AtIsTask, GoesIsTyped DEF LoseAppliedAnswer, LateStages, ModelOK, RegistryOK
<1>4. CASE ApplyEnds(r)
  <2>1. request[r].at \in {"applied", "refused"} /\ request[r].id \in Ids
    BY <1>0, <1>4, StagesOfTasks DEF ApplyEnds, Appliers, Enders, LateStages
  <2>2. request[r].at = "applied" => request[r].undo \in UndoRecords
    BY <1>0, StagesOfTasks DEF Appliers
  <2>3. \E undo \in UndoRecords \cup {None} : FinishApply(request[r].id, undo)
    BY <1>4, <2>2 DEF ApplyEnds
  <2>4. RegistryOK'
    BY <1>4, <2>3, FinishApplyIsTyped DEF ApplyEnds
  <2> QED
    BY <1>4, <2>1, <2>4, AtIsTask, GoesIsTyped DEF ApplyEnds, LateStages, ModelOK
<1>5. CASE ReleaseApply(r)
  <2>1. RegistryOK'
    BY <1>5, FinishApplyIsTyped DEF ReleaseApply
  <2> QED
    BY <1>5, <2>1, IdleIsTask, GoesIsTyped DEF ReleaseApply, ModelOK
<1> QED
  BY <1>1, <1>2, <1>3, <1>4, <1>5 DEF Applies
\* beginUndo takes only candidates that have something to put back.
UndosHaveRecords ==
    \A r \in Requests : request[r].at = "undoing" => request[r].candidate.undo \in UndoRecords

LEMMA UndoesAreTyped ==
  ASSUME DataOK, UndosHaveRecords, NEW r \in Requests, Undoes(r)
  PROVE  DataOK'
<1> USE DEF DataOK
<1>0. request[r] \in Tasks
  BY DEF RequestsOK
<1>1. CASE CommitUndo(r)
  <2> DEFINE candidate == request[r].candidate
             f == candidate.flow
  <2>1. request[r].id \in Ids
    BY <1>0, <1>1, StagesOfTasks DEF CommitUndo, Workers
  <2>2. candidate.undo \in UndoRecords
    BY <1>1 DEF CommitUndo, UndosHaveRecords
  <2>3. f \in DOMAIN flows /\ candidate.undo.restores \in Contents /\ Undone \in Stories
    BY <1>1, <2>2 DEF CommitUndo, Fresh, UndoRecords, Stories
  <2>4. ModelOK'
    BY <1>1, <2>3, RewritesAreTyped DEF CommitUndo
  <2> QED
    BY <1>1, <2>1, <2>4, AtIsTask, GoesIsTyped DEF CommitUndo, LateStages, RegistryOK
<1>2. CASE ExpireUndo(r)
  <2>1. request[r].id \in Ids
    BY <1>0, <1>2, StagesOfTasks DEF ExpireUndo, Workers
  <2> QED
    BY <1>2, <2>1, AtIsTask, GoesIsTyped DEF ExpireUndo, LateStages, ModelOK, RegistryOK
<1>3. CASE FailUndo(r)
  <2>1. request[r].id \in Ids
    BY <1>0, <1>3, StagesOfTasks DEF FailUndo, Workers, Enders, LateStages
  <2> QED
    BY <1>3, <2>1, AtIsTask, GoesIsTyped DEF FailUndo, LateStages, ModelOK, RegistryOK
<1>4. CASE UndoEnds(r)
  <2>1. request[r].id \in Ids
    BY <1>0, <1>4, StagesOfTasks DEF UndoEnds, Enders, LateStages
  <2>2. \E used \in BOOLEAN : FinishUndo(request[r].id, used)
    BY <1>4 DEF UndoEnds
  <2>3. RegistryOK'
    BY <1>4, <2>2, FinishUndoIsTyped DEF UndoEnds
  <2> QED
    BY <1>4, <2>1, <2>3, AtIsTask, GoesIsTyped DEF UndoEnds, LateStages, ModelOK
<1>5. CASE ReleaseUndo(r)
  <2>1. RegistryOK'
    BY <1>5, FinishUndoIsTyped DEF ReleaseUndo
  <2> QED
    BY <1>5, <2>1, IdleIsTask, GoesIsTyped DEF ReleaseUndo, ModelOK
<1> QED
  BY <1>1, <1>2, <1>3, <1>4, <1>5 DEF Undoes

LEMMA DeletionsAreTyped ==
  ASSUME DataOK, NEW r \in Requests,
         (\E f \in FlowIds : DeleteFlow(r, f)) \/ ForgetDeletedFlow(r)
  PROVE  DataOK'
<1> USE DEF DataOK
<1>1. CASE \E f \in FlowIds : DeleteFlow(r, f)
  <2>1. PICK f \in FlowIds : DeleteFlow(r, f)
    BY <1>1
  <2>2. [at |-> "deleted", flow |-> f] \in Deleters
    BY DEF Deleters
  <2>3. RequestsOK'
    BY <2>1, <2>2, TasksByStage, GoesIsTyped DEF DeleteFlow
  <2>4. ModelOK'
    BY <2>1, DropsIsTyped DEF DeleteFlow
  <2> QED
    BY <2>1, <2>3, <2>4 DEF DeleteFlow, RegistryOK
<1>2. CASE ForgetDeletedFlow(r)
  <2> DEFINE f == request[r].flow
             owned == IF f \in DOMAIN byFlow THEN {byFlow[f]} ELSE {}
  <2>1. byID' = Without(owned) /\ byFlow' = [g \in DOMAIN byFlow \ {f} |-> byFlow[g]]
    BY <1>2 DEF ForgetDeletedFlow, Forget, Forgotten
  <2>2. RegistryOK'
    BY <1>2, <2>1, RemovalIsTyped DEF ForgetDeletedFlow
  <2> QED
    BY <1>2, <2>2, IdleIsTask, GoesIsTyped DEF ForgetDeletedFlow, ModelOK
<1> QED
  BY <1>1, <1>2

LEMMA EditsAreTyped ==
  ASSUME DataOK,
         \/ \E f \in DOMAIN flows : EditModel(f) \/ AssignRoles(f) \/ DeleteFlowQuietly(f)
         \/ CreateFlow
  PROVE  DataOK'
<1> USE DEF DataOK
<1>1. ASSUME NEW f \in DOMAIN flows, EditModel(f)
      PROVE  DataOK'
  <2>1. PICK c \in Contents : Rewrites(f, c, Changed)
    BY <1>1 DEF EditModel
  <2>2. Changed \in Stories /\ clock <= MaxTime
    BY <1>1, CandidateBounds DEF Stories, EditModel, ModelOK, Times
  <2>3. ModelOK'
    BY <2>1, <2>2, RewritesAreTyped
  <2> QED
    BY <1>1, <2>3 DEF EditModel, RegistryOK, RequestsOK
<1>2. ASSUME NEW f \in DOMAIN flows, AssignRoles(f)
      PROVE  DataOK'
  <2>1. PICK spec \in RoleSpecs : flows' = [flows EXCEPT ![f] = [@ EXCEPT !.roles = spec]]
    BY <1>2 DEF AssignRoles
  <2>2. [flows[f] EXCEPT !.roles = spec] \in FlowRecords
    BY DEF ModelOK, FlowRecords
  <2>3. ModelOK'
    BY <1>2, <2>1, <2>2 DEF AssignRoles, ModelOK
  <2> QED
    BY <1>2, <2>3 DEF AssignRoles, RegistryOK, RequestsOK
<1>3. ASSUME NEW f \in DOMAIN flows, DeleteFlowQuietly(f)
      PROVE  DataOK'
  BY <1>3, DropsIsTyped DEF DeleteFlowQuietly, RegistryOK, RequestsOK
<1>4. CASE CreateFlow
  BY <1>4, CreateFlowIsTyped DEF CreateFlow, RegistryOK, RequestsOK
<1> QED
  BY <1>1, <1>2, <1>3, <1>4

LEMMA RestartIsTyped ==
  ASSUME DataOK, Restart
  PROVE  DataOK'
<1>1. DOMAIN byID' = {} /\ DOMAIN byFlow' = {}
  BY DEF Restart
<1> QED
  BY <1>1, IdleIsTask DEF Restart, DataOK, ModelOK, RegistryOK, RequestsOK
(***************************************************************************)
(* What a revision says                                                    *)
(*                                                                         *)
(* Everything rests on one fact about the diagrams: a flowsheet id shows   *)
(* the same revision after a step only if it also shows the same content   *)
(* and the same last event.                                                *)
(***************************************************************************)
StampsAreOld == \A f \in DOMAIN flows : flows[f].revision <= clock

ModelMoves ==
    /\ clock <= clock'
    /\ \A f \in DOMAIN flows' :
          \/ /\ f \in DOMAIN flows
             /\ flows'[f].revision = flows[f].revision
             /\ flows'[f].content = flows[f].content
             /\ story'[f] = story[f]
          \/ clock < flows'[f].revision /\ flows'[f].revision <= clock'

LEMMA RewritesMove ==
  ASSUME ModelOK, NEW f \in DOMAIN flows, NEW c, NEW event, Rewrites(f, c, event)
  PROVE  ModelMoves
<1>1. clock \in Int /\ clock' = clock + 1
  BY Bounds DEF ModelOK, Rewrites
<1>2. flows' = [flows EXCEPT ![f] = [@ EXCEPT !.revision = clock + 1, !.content = c]]
  BY DEF Rewrites
<1>3. DOMAIN flows' = DOMAIN flows /\ flows'[f].revision = clock + 1
  BY <1>2 DEF ModelOK, FlowRecords
<1>4. \A g \in DOMAIN flows \ {f} : flows'[g] = flows[g] /\ story'[g] = story[g]
  BY <1>2 DEF ModelOK, Rewrites
<1> QED
  BY <1>1, <1>3, <1>4 DEF ModelMoves

LEMMA CreateFlowMoves ==
  ASSUME ModelOK, CreateFlow
  PROVE  ModelMoves
<1>1. clock \in Int /\ clock' = clock + 1
  BY Bounds DEF ModelOK, CreateFlow
<1>2. PICK f \in FlowIds, row \in {flows[g] : g \in DOMAIN flows} \cup {InitialFlow(Blank, NoRoles)} :
          /\ flows' = [g \in DOMAIN flows \cup {f} |->
                         IF g = f THEN [row EXCEPT !.revision = clock + 1] ELSE flows[g]]
          /\ story' = [story EXCEPT ![f] = Changed]
  BY DEF CreateFlow
<1>3. "revision" \in DOMAIN row
  BY DEF ModelOK, FlowRecords, InitialFlow
<1>4. flows'[f].revision = clock + 1
  BY <1>2, <1>3
<1>5. \A g \in DOMAIN flows' \ {f} : /\ g \in DOMAIN flows
                                     /\ flows'[g] = flows[g] /\ story'[g] = story[g]
  BY <1>2 DEF ModelOK
<1> QED
  BY <1>1, <1>4, <1>5 DEF ModelMoves

LEMMA DropsMoves ==
  ASSUME ModelOK, NEW f, Drops(f), UNCHANGED clock
  PROVE  ModelMoves
<1>1. clock \in Int
  BY Bounds DEF ModelOK
<1>2. \A g \in DOMAIN flows' : /\ g \in DOMAIN flows
                               /\ flows'[g] = flows[g] /\ story'[g] = story[g]
  BY DEF Drops, ModelOK
<1> QED
  BY <1>1, <1>2 DEF ModelMoves

LEMMA RolesMove ==
  ASSUME ModelOK, NEW f, AssignRoles(f)
  PROVE  ModelMoves
<1>1. clock \in Int /\ UNCHANGED <<clock, story>>
  BY Bounds DEF ModelOK, AssignRoles
<1>2. PICK spec : flows' = [flows EXCEPT ![f] = [@ EXCEPT !.roles = spec]]
  BY DEF AssignRoles
<1>3. \A g \in DOMAIN flows : /\ flows'[g].revision = flows[g].revision
                              /\ flows'[g].content = flows[g].content
  BY <1>2 DEF ModelOK, FlowRecords
<1> QED
  BY <1>1, <1>2, <1>3 DEF ModelMoves

LEMMA StillnessMoves ==
  ASSUME ModelOK, UNCHANGED model
  PROVE  ModelMoves
  BY Bounds DEF ModelOK, ModelMoves, model

LEMMA NextMovesTheModel ==
  ASSUME ModelOK, [CandidatesNext]_candidateVars
  PROVE  ModelMoves
<1>1. ASSUME NEW f \in DOMAIN flows, EditModel(f) \/ AssignRoles(f) \/ DeleteFlowQuietly(f)
      PROVE  ModelMoves
  BY <1>1, RewritesMove, RolesMove, DropsMoves DEF EditModel, DeleteFlowQuietly
<1>2. CASE CreateFlow
  BY <1>2, CreateFlowMoves
<1>3. ASSUME NEW r \in Requests, NEW f \in FlowIds, DeleteFlow(r, f)
      PROVE  ModelMoves
  BY <1>3, DropsMoves DEF DeleteFlow
<1>4. ASSUME NEW r \in Requests, NEW f \in FlowIds,
             DesignReadsRoles(r, f) \/ \E id \in Ids : BeginApply(r, id, f) \/ BeginUndo(r, id, f)
      PROVE  ModelMoves
  BY <1>4, StillnessMoves DEF DesignReadsRoles, BeginApply, BeginUndo, model
<1>5. ASSUME NEW r \in Requests, Designs(r)
      PROVE  ModelMoves
  BY <1>5, StillnessMoves DEF Designs, DesignReadsRevision, DesignReadsDiagram, ReviewAccepts,
                              DesignIsPut, DesignFails, model
<1>6. ASSUME NEW r \in Requests, CommitApply(r) \/ CommitUndo(r)
      PROVE  ModelMoves
  BY <1>6, RewritesMove DEF CommitApply, CommitUndo, Fresh
<1>7. ASSUME NEW r \in Requests, Applies(r) \/ Undoes(r), ~CommitApply(r), ~CommitUndo(r)
      PROVE  ModelMoves
  BY <1>7, StillnessMoves DEF Applies, Undoes, RefuseApply, LoseAppliedAnswer, ApplyEnds,
                              ReleaseApply, ExpireUndo, FailUndo, UndoEnds, ReleaseUndo, model
<1>8. ASSUME NEW r \in Requests, ForgetDeletedFlow(r)
      PROVE  ModelMoves
  BY <1>8, StillnessMoves DEF ForgetDeletedFlow, model
<1>9. CASE Restart \/ UNCHANGED candidateVars
  BY <1>9, StillnessMoves DEF Restart, model, candidateVars
<1> QED
  BY <1>1, <1>2, <1>3, <1>4, <1>5, <1>6, <1>7, <1>8, <1>9 DEF CandidatesNext, Asks, Proceeds

\* A design of content c, read from flowsheet f at revision v, is still of the diagram
\* if f still shows v; and an undo u of f still takes back the last event.
Exact(f, v, c) ==
    /\ v <= clock
    /\ f \in DOMAIN flows /\ flows[f].revision = v => flows[f].content = c

TakesBack(f, u) ==
    /\ u.revision <= clock
    /\ f \in DOMAIN flows /\ flows[f].revision = u.revision => story[f] = Applied(u.restores)

LEMMA DesignsStayExact ==
  ASSUME ModelOK, ModelOK', ModelMoves, NEW f, NEW v \in Int, NEW c, Exact(f, v, c)
  PROVE  /\ v <= clock'
         /\ f \in DOMAIN flows' /\ flows'[f].revision = v => flows'[f].content = c
<1>1. clock \in Int /\ clock' \in Int
  BY Bounds DEF ModelOK
<1>2. \A g \in DOMAIN flows' : flows'[g].revision \in Int
  BY Bounds DEF ModelOK, FlowRecords
<1> QED
  BY <1>1, <1>2 DEF ModelMoves, Exact

LEMMA UndosStayExact ==
  ASSUME ModelOK, ModelOK', ModelMoves, NEW f, NEW u \in UndoRecords, TakesBack(f, u)
  PROVE  /\ u.revision <= clock'
         /\ f \in DOMAIN flows' /\ flows'[f].revision = u.revision
              => story'[f] = Applied(u.restores)
<1>1. clock \in Int /\ clock' \in Int /\ u.revision \in Int
  BY Bounds DEF ModelOK, UndoRecords
<1>2. \A g \in DOMAIN flows' : flows'[g].revision \in Int
  BY Bounds DEF ModelOK, FlowRecords
<1> QED
  BY <1>1, <1>2 DEF ModelMoves, TakesBack
(***************************************************************************)
(* What a step does to the requests                                        *)
(***************************************************************************)
Moved(t, next) ==
    \/ next = t
    \/ /\ next.at = "revision"
          => next.flow \in DOMAIN flows /\ next.revision = flows[next.flow].revision
       /\ next.at = "designed"
          => /\ t.at = "revision" /\ next.flow = t.flow /\ next.revision = t.revision
             /\ t.flow \in DOMAIN flows /\ next.basis = flows[t.flow].content
             /\ UNCHANGED model
       /\ next.at = "reviewed"
          => /\ t.at = "designed" /\ next.flow = t.flow
             /\ next.revision = t.revision /\ next.basis = t.basis
       /\ next.at \in {"applying", "undoing"}
          => /\ next.id \in DOMAIN byID /\ next.candidate = byID[next.id]
             /\ next.at = "undoing" => Undoable(next.candidate)
       /\ next.at = "applied"
          => /\ t.at = "applying" /\ next.id = t.id
             /\ next.undo.revision = clock'
             /\ story'[t.candidate.flow] = Applied(next.undo.restores)

RequestsMove == \A q \in Requests : Moved(request[q], request'[q])

LEMMA OneRequestMoves ==
  ASSUME RequestsOK, NEW r \in Requests, NEW next, Goes(r, next), Moved(request[r], next)
  PROVE  RequestsMove
<1>1. request'[r] = next /\ \A q \in Requests \ {r} : request'[q] = request[q]
  BY DEF RequestsOK, Goes
<1> QED
  BY <1>1 DEF RequestsMove, Moved

LEMMA DesignsMoveRequests ==
  ASSUME DataOK, NEW r \in Requests,
         (\E f \in FlowIds : DesignReadsRoles(r, f)) \/ Designs(r)
  PROVE  RequestsMove
<1>0. RequestsOK /\ request[r] \in Tasks
  BY DEF DataOK, RequestsOK
<1>1. ASSUME NEW f \in FlowIds, DesignReadsRoles(r, f)
      PROVE  RequestsMove
  BY <1>0, <1>1, OneRequestMoves DEF DesignReadsRoles, Moved
<1>2. CASE DesignReadsRevision(r)
  BY <1>0, <1>2, OneRequestMoves DEF DesignReadsRevision, Moved
<1>3. CASE DesignReadsDiagram(r)
  <2>1. PICK target :
          Goes(r, [at |-> "designed", flow |-> request[r].flow, roles |-> request[r].roles,
                   revision |-> request[r].revision,
                   basis |-> flows[request[r].flow].content, target |-> target])
    BY <1>3 DEF DesignReadsDiagram
  <2> QED
    BY <1>0, <1>3, <2>1, OneRequestMoves DEF DesignReadsDiagram, Moved, model
<1>4. CASE ReviewAccepts(r)
  <2>1. request[r] \in Designers /\ request[r].at = "designed"
    BY <1>0, <1>4, StagesOfTasks DEF ReviewAccepts
  <2>2. /\ [request[r] EXCEPT !.at = "reviewed"].at = "reviewed"
        /\ [request[r] EXCEPT !.at = "reviewed"].flow = request[r].flow
        /\ [request[r] EXCEPT !.at = "reviewed"].revision = request[r].revision
        /\ [request[r] EXCEPT !.at = "reviewed"].basis = request[r].basis
    BY <2>1 DEF Designers
  <2>3. Moved(request[r], [request[r] EXCEPT !.at = "reviewed"])
    BY <2>1, <2>2 DEF Moved
  <2> QED
    BY <1>0, <1>4, <2>3, OneRequestMoves DEF ReviewAccepts
<1>5. CASE DesignIsPut(r) \/ DesignFails(r)
  BY <1>0, <1>5, OneRequestMoves DEF DesignIsPut, DesignFails, Moved, Idle
<1> QED
  BY <1>1, <1>2, <1>3, <1>4, <1>5 DEF Designs

LEMMA WorkMovesRequests ==
  ASSUME DataOK, NEW r \in Requests,
         \/ \E f \in FlowIds, id \in Ids : BeginApply(r, id, f) \/ BeginUndo(r, id, f)
         \/ Applies(r) \/ Undoes(r)
  PROVE  RequestsMove
<1>0. RequestsOK /\ request[r] \in Tasks
  BY DEF DataOK, RequestsOK
<1>1. ASSUME NEW f \in FlowIds, NEW id \in Ids, BeginApply(r, id, f)
      PROVE  RequestsMove
  BY <1>0, <1>1, OneRequestMoves DEF BeginApply, Moved
<1>2. ASSUME NEW f \in FlowIds, NEW id \in Ids, BeginUndo(r, id, f)
      PROVE  RequestsMove
  BY <1>0, <1>2, OneRequestMoves DEF BeginUndo, Moved
<1>3. CASE CommitApply(r)
  <2> DEFINE candidate == request[r].candidate
             f == candidate.flow
             next == [at |-> "applied", id |-> request[r].id,
                      undo |-> [revision |-> clock + 1, roles |-> candidate.roles,
                                restores |-> flows[f].content]]
  <2>1. request[r] \in Workers /\ request[r].at = "applying"
    BY <1>0, <1>3, StagesOfTasks DEF CommitApply
  <2>2. f \in FlowIds
    BY <2>1 DEF Workers, CandidateRecords
  <2>3. clock' = clock + 1 /\ story'[f] = Applied(flows[f].content)
    BY <1>3, <2>2 DEF CommitApply, Rewrites, DataOK, ModelOK
  <2>4. Moved(request[r], next)
    BY <2>1, <2>3 DEF Moved
  <2> QED
    BY <1>0, <1>3, <2>4, OneRequestMoves DEF CommitApply
<1>4. CASE RefuseApply(r) \/ LoseAppliedAnswer(r) \/ ApplyEnds(r) \/ ReleaseApply(r)
  BY <1>0, <1>4, OneRequestMoves
     DEF RefuseApply, LoseAppliedAnswer, ApplyEnds, ReleaseApply, Moved, Idle
<1>5. CASE Undoes(r)
  BY <1>0, <1>5, OneRequestMoves
     DEF Undoes, CommitUndo, ExpireUndo, FailUndo, UndoEnds, ReleaseUndo, Moved, Idle
<1> QED
  BY <1>1, <1>2, <1>3, <1>4, <1>5 DEF Applies

LEMMA NextMovesRequests ==
  ASSUME DataOK, [CandidatesNext]_candidateVars
  PROVE  RequestsMove
<1>0. RequestsOK
  BY DEF DataOK
<1>1. ASSUME UNCHANGED request
      PROVE  RequestsMove
  BY <1>1 DEF RequestsMove, Moved
<1>2. ASSUME \/ \E f \in DOMAIN flows : EditModel(f) \/ AssignRoles(f) \/ DeleteFlowQuietly(f)
             \/ CreateFlow \/ UNCHANGED candidateVars
      PROVE  RequestsMove
  BY <1>1, <1>2 DEF EditModel, AssignRoles, DeleteFlowQuietly, CreateFlow, candidateVars
<1>3. ASSUME NEW r \in Requests,
             (\E f \in FlowIds : DeleteFlow(r, f)) \/ ForgetDeletedFlow(r)
      PROVE  RequestsMove
  BY <1>0, <1>3, OneRequestMoves DEF DeleteFlow, ForgetDeletedFlow, Moved, Idle
<1>4. CASE Restart
  BY <1>4 DEF Restart, RequestsMove, Moved, Idle
<1> QED
  BY <1>2, <1>3, <1>4, DesignsMoveRequests, WorkMovesRequests
     DEF CandidatesNext, Asks, Proceeds
(***************************************************************************)
(* What a step does to the registry                                        *)
(***************************************************************************)
SameDesign(a, b) ==
    /\ a.flow = b.flow /\ a.revision = b.revision /\ a.roles = b.roles
    /\ a.basis = b.basis /\ a.target = b.target

\* A candidate keeps its design; its undo comes from a request that applied it.
Keeps(i) ==
    /\ i \in DOMAIN byID /\ SameDesign(byID'[i], byID[i])
    /\ \/ byID'[i].undo = byID[i].undo
       \/ \E r \in Requests : /\ request[r].at = "applied" /\ request[r].id = i
                              /\ byID'[i].undo = request[r].undo

\* A candidate under a new id comes from a request that reviewed it.
Arrives(i) ==
    /\ i = issued'
    /\ \E r \in Requests : /\ request[r].at = "reviewed"
                           /\ byID'[i] = NewCandidate(request[r].flow, request[r])

RegistryMoves ==
    /\ \/ issued' = issued /\ \A i \in DOMAIN byID' : Keeps(i)
       \/ issued' = issued + 1 /\ \A i \in DOMAIN byID' : Keeps(i) \/ Arrives(i)

LEMMA InPlaceMoves ==
  ASSUME RegistryOK, NEW id \in DOMAIN byID, NEW next, byID' = [byID EXCEPT ![id] = next],
         SameDesign(next, byID[id]), UNCHANGED issued,
         \/ next.undo = byID[id].undo
         \/ \E r \in Requests : /\ request[r].at = "applied" /\ request[r].id = id
                                /\ next.undo = request[r].undo
  PROVE  RegistryMoves
<1>1. \A i \in DOMAIN byID' : i \in DOMAIN byID /\ byID'[i] = IF i = id THEN next ELSE byID[i]
  BY DEF RegistryOK
<1> QED
  BY <1>1 DEF RegistryMoves, Keeps, SameDesign

LEMMA RemovalMoves ==
  ASSUME NEW ids, byID' = Without(ids), UNCHANGED issued
  PROVE  RegistryMoves
  BY DEF Without, RegistryMoves, Keeps, SameDesign

LEMMA FinishApplyMoves ==
  ASSUME RegistryOK, NEW id, NEW undo, FinishApply(id, undo), UNCHANGED issued,
         \/ undo = None
         \/ \E r \in Requests : /\ request[r].at = "applied" /\ request[r].id = id
                                /\ undo = request[r].undo
  PROVE  RegistryMoves
<1>1. CASE id \in DOMAIN byID /\ byID[id].applying
  <2> DEFINE next == [byID[id] EXCEPT !.applying = FALSE, !.applied = @ \/ undo # None,
                                      !.undo = IF undo # None THEN undo ELSE @]
  <2>1. byID' = [byID EXCEPT ![id] = next]
    BY <1>1 DEF FinishApply
  <2>2. byID[id] \in CandidateRecords
    BY <1>1 DEF RegistryOK
  <2>3. SameDesign(next, byID[id]) /\ next.undo = IF undo # None THEN undo ELSE byID[id].undo
    BY <2>2 DEF SameDesign, CandidateRecords
  <2> HIDE DEF next
  <2> QED
    BY <1>1, <2>1, <2>3, InPlaceMoves
<1>2. CASE ~(id \in DOMAIN byID /\ byID[id].applying)
  BY <1>2 DEF FinishApply, registry, RegistryMoves, Keeps, SameDesign
<1> QED
  BY <1>1, <1>2

LEMMA FinishUndoMoves ==
  ASSUME RegistryOK, NEW id, NEW used \in BOOLEAN, FinishUndo(id, used), UNCHANGED issued
  PROVE  RegistryMoves
<1>1. CASE id \in DOMAIN byID /\ byID[id].undoing /\ used
  BY <1>1, RemovalMoves DEF FinishUndo
<1>2. CASE id \in DOMAIN byID /\ byID[id].undoing /\ ~used
  <2> DEFINE next == [byID[id] EXCEPT !.undoing = FALSE]
  <2>1. byID' = [byID EXCEPT ![id] = next]
    BY <1>2 DEF FinishUndo
  <2>2. byID[id] \in CandidateRecords
    BY <1>2 DEF RegistryOK
  <2>3. SameDesign(next, byID[id]) /\ next.undo = byID[id].undo
    BY <2>2 DEF SameDesign, CandidateRecords
  <2> HIDE DEF next
  <2> QED
    BY <1>2, <2>1, <2>3, InPlaceMoves
<1>3. CASE ~(id \in DOMAIN byID /\ byID[id].undoing)
  BY <1>3 DEF FinishUndo, registry, RegistryMoves, Keeps, SameDesign
<1> QED
  BY <1>1, <1>2, <1>3

LEMMA PutMoves ==
  ASSUME RegistryOK, NEW r \in Requests, request[r].at = "reviewed", issued' = issued + 1,
         Put(request[r].flow, NewCandidate(request[r].flow, request[r]))
  PROVE  RegistryMoves
<1> DEFINE candidate == NewCandidate(request[r].flow, request[r])
<1>1. PICK gone : PutDropping(request[r].flow, candidate, gone)
  BY PutKeeps
<1> HIDE DEF candidate
<1>2. \A i \in DOMAIN byID' : /\ i \in DOMAIN byID \/ i = issued + 1
                              /\ byID'[i] = IF i = issued + 1 THEN candidate ELSE byID[i]
  BY <1>1 DEF PutDropping
<1>3. \A i \in DOMAIN byID' : i = issued + 1 => Arrives(i)
  BY <1>2 DEF Arrives, candidate
<1>4. \A i \in DOMAIN byID' : i # issued + 1 => Keeps(i)
  BY <1>2 DEF Keeps, SameDesign
<1> QED
  BY <1>3, <1>4 DEF RegistryMoves

LEMMA BeginMoves ==
  ASSUME RegistryOK, NEW r \in Requests, NEW id \in Ids, NEW f \in FlowIds,
         BeginApply(r, id, f) \/ BeginUndo(r, id, f)
  PROVE  RegistryMoves
<1>1. id \in DOMAIN byID /\ byID[id] \in CandidateRecords
  BY DEF BeginApply, BeginUndo, RegistryOK
<1>2. CASE BeginApply(r, id, f)
  <2> DEFINE next == [byID[id] EXCEPT !.applying = TRUE]
  <2>1. byID' = [byID EXCEPT ![id] = next]
    BY <1>2 DEF BeginApply
  <2>2. SameDesign(next, byID[id]) /\ next.undo = byID[id].undo
    BY <1>1 DEF SameDesign, CandidateRecords
  <2> HIDE DEF next
  <2> QED
    BY <1>1, <1>2, <2>1, <2>2, InPlaceMoves DEF BeginApply
<1>3. CASE BeginUndo(r, id, f)
  <2> DEFINE next == [byID[id] EXCEPT !.undoing = TRUE]
  <2>1. byID' = [byID EXCEPT ![id] = next]
    BY <1>3 DEF BeginUndo
  <2>2. SameDesign(next, byID[id]) /\ next.undo = byID[id].undo
    BY <1>1 DEF SameDesign, CandidateRecords
  <2> HIDE DEF next
  <2> QED
    BY <1>1, <1>3, <2>1, <2>2, InPlaceMoves DEF BeginUndo
<1> QED
  BY <1>2, <1>3

LEMMA NextMovesTheRegistry ==
  ASSUME RegistryOK, [CandidatesNext]_candidateVars
  PROVE  RegistryMoves
<1>1. ASSUME UNCHANGED <<byID, issued>>
      PROVE  RegistryMoves
  BY <1>1 DEF RegistryMoves, Keeps, SameDesign
<1>2. CASE \/ \E f \in DOMAIN flows : EditModel(f) \/ AssignRoles(f) \/ DeleteFlowQuietly(f)
           \/ CreateFlow \/ UNCHANGED candidateVars
  BY <1>1, <1>2 DEF EditModel, AssignRoles, DeleteFlowQuietly, CreateFlow, candidateVars
<1>3. ASSUME NEW r \in Requests, NEW f \in FlowIds, DesignReadsRoles(r, f) \/ DeleteFlow(r, f)
      PROVE  RegistryMoves
  BY <1>1, <1>3 DEF DesignReadsRoles, DeleteFlow
<1>4. ASSUME NEW r \in Requests, Designs(r)
      PROVE  RegistryMoves
  BY <1>1, <1>4, PutMoves DEF Designs, DesignReadsRevision, DesignReadsDiagram, ReviewAccepts,
                              DesignIsPut, DesignFails
<1>5. ASSUME NEW r \in Requests, Applies(r)
      PROVE  RegistryMoves
  <2>1. CASE CommitApply(r) \/ RefuseApply(r) \/ LoseAppliedAnswer(r)
    BY <1>1, <2>1 DEF CommitApply, RefuseApply, LoseAppliedAnswer
  <2>2. CASE ApplyEnds(r)
    BY <2>2, FinishApplyMoves DEF ApplyEnds
  <2>3. CASE ReleaseApply(r)
    BY <2>3, FinishApplyMoves DEF ReleaseApply
  <2> QED
    BY <1>5, <2>1, <2>2, <2>3 DEF Applies
<1>6. ASSUME NEW r \in Requests, Undoes(r)
      PROVE  RegistryMoves
  <2>1. CASE CommitUndo(r) \/ ExpireUndo(r) \/ FailUndo(r)
    BY <1>1, <2>1 DEF CommitUndo, ExpireUndo, FailUndo
  <2>2. CASE UndoEnds(r) \/ ReleaseUndo(r)
    BY <2>2, FinishUndoMoves DEF UndoEnds, ReleaseUndo
  <2> QED
    BY <1>6, <2>1, <2>2 DEF Undoes
<1>7. ASSUME NEW r \in Requests, ForgetDeletedFlow(r)
      PROVE  RegistryMoves
  BY <1>7, RemovalMoves DEF ForgetDeletedFlow, Forget
<1>8. CASE Restart
  BY <1>8 DEF Restart, RegistryMoves
<1> QED
  BY <1>2, <1>3, <1>4, <1>5, <1>6, <1>7, <1>8, BeginMoves DEF CandidatesNext, Asks, Proceeds
(***************************************************************************)
(* The invariant                                                           *)
(***************************************************************************)
CandidatesAreExact ==
    \A i \in DOMAIN byID :
        /\ i <= issued
        /\ Exact(byID[i].flow, byID[i].revision, byID[i].basis)
        /\ byID[i].undo # None => TakesBack(byID[i].flow, byID[i].undo)

\* What a request has read stays exact while it works, and so does what it will
\* leave in the registry, if its candidate is still there.
TaskIsExact(t) ==
    /\ t.at = "revision" => t.revision <= clock
    /\ t.at \in {"designed", "reviewed"} => Exact(t.flow, t.revision, t.basis)
    /\ t.at = "applying" => /\ t.id <= issued
                            /\ Exact(t.candidate.flow, t.candidate.revision, t.candidate.basis)
                            /\ t.id \in DOMAIN byID => byID[t.id].flow = t.candidate.flow
    /\ t.at = "applied" => /\ t.id <= issued
                           /\ t.id \in DOMAIN byID => TakesBack(byID[t.id].flow, t.undo)
    /\ t.at = "undoing" => /\ t.candidate.undo \in UndoRecords
                           /\ TakesBack(t.candidate.flow, t.candidate.undo)

TasksAreExact == \A r \in Requests : TaskIsExact(request[r])

HistoryInv == DataOK /\ StampsAreOld /\ CandidatesAreExact /\ TasksAreExact

LEMMA InitIsExact == CandidatesInit => HistoryInv
<1> SUFFICES ASSUME CandidatesInit PROVE HistoryInv
  OBVIOUS
<1>1. DataOK
  BY InitIsTyped
<1>2. StampsAreOld
  BY DEF CandidatesInit, StampsAreOld, InitialFlow
<1>3. CandidatesAreExact
  BY DEF CandidatesInit, CandidatesAreExact
<1>4. TasksAreExact
  BY DEF CandidatesInit, TasksAreExact, TaskIsExact, Idle
<1> QED
  BY <1>1, <1>2, <1>3, <1>4 DEF HistoryInv

LEMMA TypeStep ==
  ASSUME DataOK, TasksAreExact, [CandidatesNext]_candidateVars
  PROVE  DataOK'
<1>1. UndosHaveRecords
  BY DEF TasksAreExact, TaskIsExact, UndosHaveRecords
<1>2. CASE UNCHANGED candidateVars
  BY <1>2 DEF candidateVars, DataOK, ModelOK, RegistryOK, RequestsOK
<1> QED
  BY <1>1, <1>2, DesignsAreTyped, BeginIsTyped, AppliesAreTyped, UndoesAreTyped, DeletionsAreTyped,
     EditsAreTyped, RestartIsTyped DEF CandidatesNext, Asks, Proceeds

LEMMA StampsStayOld ==
  ASSUME ModelOK, ModelOK', StampsAreOld, ModelMoves
  PROVE  StampsAreOld'
<1>1. clock \in Int /\ clock' \in Int
  BY Bounds DEF ModelOK
<1>2. \A f \in DOMAIN flows : flows[f].revision \in Int
  BY Bounds DEF ModelOK, FlowRecords
<1> QED
  BY <1>1, <1>2 DEF StampsAreOld, ModelMoves

LEMMA CandidatesStayExact ==
  ASSUME HistoryInv, DataOK', ModelMoves, RegistryMoves
  PROVE  CandidatesAreExact'
<1> USE DEF HistoryInv, DataOK
<1>1. issued \in Int /\ issued' \in Int /\ \A i \in DOMAIN byID' : i \in Int
  BY Bounds DEF RegistryOK
<1> SUFFICES ASSUME NEW i \in DOMAIN byID'
             PROVE  /\ i <= issued'
                    /\ Exact(byID[i].flow, byID[i].revision, byID[i].basis)'
                    /\ byID'[i].undo # None => TakesBack(byID[i].flow, byID[i].undo)'
  BY DEF CandidatesAreExact
<1>2. CASE Keeps(i)
  <2>1. i \in DOMAIN byID /\ byID[i] \in CandidateRecords /\ byID'[i] \in CandidateRecords
    BY <1>2 DEF Keeps, RegistryOK
  <2>2. i <= issued'
    BY <1>1, <2>1 DEF CandidatesAreExact, RegistryMoves
  <2>3. /\ byID[i].revision <= clock'
        /\ byID[i].flow \in DOMAIN flows' /\ flows'[byID[i].flow].revision = byID[i].revision
             => flows'[byID[i].flow].content = byID[i].basis
    <3>1. byID[i].revision \in Int
      BY <2>1, Bounds DEF CandidateRecords
    <3>2. Exact(byID[i].flow, byID[i].revision, byID[i].basis)
      BY <2>1 DEF CandidatesAreExact
    <3> QED
      BY <3>1, <3>2, DesignsStayExact
  <2>4. Exact(byID[i].flow, byID[i].revision, byID[i].basis)'
    BY <1>2, <2>3 DEF Keeps, SameDesign, Exact
  <2>5. ASSUME byID'[i].undo # None
        PROVE  TakesBack(byID[i].flow, byID[i].undo)'
    <3> DEFINE u == byID'[i].undo
    <3>1. u \in UndoRecords
      BY <2>1, <2>5 DEF CandidateRecords
    <3>2. TakesBack(byID[i].flow, u)
      <4>1. CASE u = byID[i].undo
        BY <2>1, <2>5, <4>1 DEF CandidatesAreExact
      <4>2. CASE \E r \in Requests : /\ request[r].at = "applied" /\ request[r].id = i
                                     /\ u = request[r].undo
        BY <2>1, <4>2 DEF TasksAreExact, TaskIsExact
      <4> QED
        BY <1>2, <4>1, <4>2 DEF Keeps
    <3>3. /\ u.revision <= clock'
          /\ byID[i].flow \in DOMAIN flows' /\ flows'[byID[i].flow].revision = u.revision
               => story'[byID[i].flow] = Applied(u.restores)
      BY <3>1, <3>2, UndosStayExact
    <3> QED
      BY <1>2, <3>3 DEF Keeps, SameDesign, TakesBack
  <2> QED
    BY <2>2, <2>4, <2>5
<1>3. CASE ~Keeps(i)
  <2>1. i = issued' /\ Arrives(i)
    BY <1>3 DEF RegistryMoves, Arrives
  <2>2. PICK r \in Requests : /\ request[r].at = "reviewed"
                              /\ byID'[i] = NewCandidate(request[r].flow, request[r])
    BY <2>1 DEF Arrives
  <2>3. request[r] \in Designers
    BY <2>2, StagesOfTasks DEF RequestsOK
  <2>4. request[r].revision \in Int
    BY <2>3, Bounds DEF Designers
  <2>5. Exact(request[r].flow, request[r].revision, request[r].basis)
    BY <2>2 DEF TasksAreExact, TaskIsExact
  <2>6. /\ request[r].revision <= clock'
        /\ request[r].flow \in DOMAIN flows' /\ flows'[request[r].flow].revision = request[r].revision
             => flows'[request[r].flow].content = request[r].basis
    BY <2>4, <2>5, DesignsStayExact
  <2>7. /\ byID'[i].flow = request[r].flow /\ byID'[i].revision = request[r].revision
        /\ byID'[i].basis = request[r].basis /\ byID'[i].undo = None
    BY <2>2 DEF NewCandidate
  <2>8. Exact(byID[i].flow, byID[i].revision, byID[i].basis)'
    BY <2>6, <2>7 DEF Exact
  <2> QED
    BY <1>1, <2>1, <2>7, <2>8
<1> QED
  BY <1>2, <1>3
\* An id that is in use now and after the step names a candidate of the same flowsheet.
LEMMA IdsKeepTheirFlow ==
  ASSUME RegistryOK, RegistryMoves, NEW id, id \in DOMAIN byID', id <= issued
  PROVE  id \in DOMAIN byID /\ byID'[id].flow = byID[id].flow
<1>1. issued \in Int
  BY Bounds DEF RegistryOK
<1>2. ~Arrives(id) \/ issued' # issued + 1
  BY <1>1 DEF Arrives
<1> QED
  BY <1>2 DEF RegistryMoves, Keeps, SameDesign

\* A request that did not move.
LEMMA WaitingTasksStayExact ==
  ASSUME HistoryInv, DataOK', ModelMoves, RegistryMoves, NEW r \in Requests,
         request'[r] = request[r]
  PROVE  TaskIsExact(request[r])'
<1> USE DEF HistoryInv, DataOK
<1> DEFINE t == request[r]
<1>0. t \in Tasks /\ request'[r] = t
  BY DEF RequestsOK
<1>1. TaskIsExact(t)
  BY DEF TasksAreExact
<1>2. clock \in Int /\ clock' \in Int /\ clock <= clock' /\ issued \in Int /\ issued' \in Int
      /\ issued <= issued'
  BY Bounds DEF ModelOK, RegistryOK, ModelMoves, RegistryMoves
<1>3. t.at = "revision" => t.revision <= clock'
  <2>1. t.at = "revision" => t.revision \in Int
    BY <1>0, StagesOfTasks, Bounds DEF RevisionReaders
  <2> QED
    BY <1>1, <1>2, <2>1 DEF TaskIsExact
<1>4. ASSUME t.at \in {"designed", "reviewed"}
      PROVE  Exact(t.flow, t.revision, t.basis)'
  <2>1. t.revision \in Int
    BY <1>0, <1>4, StagesOfTasks, Bounds DEF Designers
  <2> QED
    BY <1>0, <1>1, <1>4, <2>1, DesignsStayExact DEF TaskIsExact, Exact
<1>5. ASSUME t.at = "applying"
      PROVE  /\ t.id <= issued'
             /\ Exact(t.candidate.flow, t.candidate.revision, t.candidate.basis)'
             /\ t.id \in DOMAIN byID' => byID'[t.id].flow = t.candidate.flow
  <2>1. t \in Workers
    BY <1>0, <1>5, StagesOfTasks
  <2>2. t.candidate.revision \in Int /\ t.id \in Int
    BY <2>1, Bounds DEF Workers, CandidateRecords
  <2>3. Exact(t.candidate.flow, t.candidate.revision, t.candidate.basis)'
    BY <1>0, <1>1, <1>5, <2>2, DesignsStayExact DEF TaskIsExact, Exact
  <2>4. t.id <= issued /\ t.id <= issued'
    BY <1>1, <1>2, <1>5, <2>2 DEF TaskIsExact
  <2>5. t.id \in DOMAIN byID' => byID'[t.id].flow = t.candidate.flow
    BY <1>1, <1>5, <2>4, IdsKeepTheirFlow DEF TaskIsExact
  <2> QED
    BY <2>3, <2>4, <2>5
<1>6. ASSUME t.at = "applied"
      PROVE  /\ t.id <= issued'
             /\ t.id \in DOMAIN byID' => TakesBack(byID[t.id].flow, t.undo)'
  <2>1. t \in Appliers
    BY <1>0, <1>6, StagesOfTasks
  <2>2. t.id \in Int /\ t.undo \in UndoRecords
    BY <2>1, Bounds DEF Appliers
  <2>3. t.id <= issued /\ t.id <= issued'
    BY <1>1, <1>2, <1>6, <2>2 DEF TaskIsExact
  <2>4. ASSUME t.id \in DOMAIN byID'
        PROVE  TakesBack(byID[t.id].flow, t.undo)'
    <3>1. t.id \in DOMAIN byID /\ byID'[t.id].flow = byID[t.id].flow
      BY <2>3, <2>4, IdsKeepTheirFlow
    <3>2. TakesBack(byID[t.id].flow, t.undo)
      BY <1>1, <1>6, <3>1 DEF TaskIsExact
    <3>3. /\ t.undo.revision <= clock'
          /\ byID[t.id].flow \in DOMAIN flows' /\ flows'[byID[t.id].flow].revision = t.undo.revision
               => story'[byID[t.id].flow] = Applied(t.undo.restores)
      BY <2>2, <3>2, UndosStayExact
    <3> QED
      BY <1>0, <3>1, <3>3 DEF TakesBack
  <2> QED
    BY <2>3, <2>4
<1>7. ASSUME t.at = "undoing"
      PROVE  t.candidate.undo \in UndoRecords /\ TakesBack(t.candidate.flow, t.candidate.undo)'
  <2>1. t.candidate.undo \in UndoRecords /\ TakesBack(t.candidate.flow, t.candidate.undo)
    BY <1>1, <1>7 DEF TaskIsExact
  <2>2. /\ t.candidate.undo.revision <= clock'
        /\ t.candidate.flow \in DOMAIN flows'
           /\ flows'[t.candidate.flow].revision = t.candidate.undo.revision
             => story'[t.candidate.flow] = Applied(t.candidate.undo.restores)
    BY <2>1, UndosStayExact
  <2> QED
    BY <1>0, <2>1, <2>2 DEF TakesBack
<1> HIDE DEF t
<1>8. request'[r] = t /\ t' = t
  BY <1>0 DEF t
<1> QED
  BY <1>3, <1>4, <1>5, <1>6, <1>7, <1>8 DEF TaskIsExact
\* A request that went on.
LEMMA MovedTasksAreExact ==
  ASSUME HistoryInv, DataOK', ModelMoves, RegistryMoves, NEW r \in Requests,
         Moved(request[r], request'[r]), request'[r] # request[r]
  PROVE  TaskIsExact(request[r])'
<1> USE DEF HistoryInv, DataOK
<1> DEFINE t == request[r]
           next == request'[r]
<1>0. t \in Tasks /\ next \in Tasks /\ TaskIsExact(t)
  BY DEF RequestsOK, TasksAreExact
<1>1. /\ clock \in Int /\ clock' \in Int /\ clock <= clock' /\ issued \in Int /\ issued' \in Int
      /\ issued <= issued' /\ \A i \in DOMAIN byID : i \in Int
  BY Bounds DEF ModelOK, RegistryOK, ModelMoves, RegistryMoves
<1>2. next.at = "revision" => next.revision <= clock'
  <2>1. ASSUME next.at = "revision"
        PROVE  next.revision \in Int /\ next.revision <= clock
    BY <1>0, <2>1, StagesOfTasks, Bounds DEF RevisionReaders, Moved, StampsAreOld
  <2> QED
    BY <1>1, <2>1
<1>3. ASSUME next.at = "designed"
      PROVE  Exact(request[r].flow, request[r].revision, request[r].basis)'
  <2>1. /\ t.at = "revision" /\ next.flow = t.flow /\ next.revision = t.revision
        /\ next.basis = flows[t.flow].content /\ UNCHANGED <<clock, flows>>
    BY <1>3 DEF Moved, model
  <2>2. next.revision <= clock'
    BY <1>0, <2>1 DEF TaskIsExact
  <2>3. next.flow \in DOMAIN flows' => flows'[next.flow].content = next.basis
    BY <2>1
  <2> QED
    BY <2>2, <2>3 DEF Exact
<1>4. ASSUME next.at = "reviewed"
      PROVE  Exact(request[r].flow, request[r].revision, request[r].basis)'
  <2>1. /\ t.at = "designed" /\ next.flow = t.flow
        /\ next.revision = t.revision /\ next.basis = t.basis
    BY <1>4 DEF Moved
  <2>2. t.revision \in Int
    BY <1>0, <2>1, StagesOfTasks, Bounds DEF Designers
  <2> QED
    BY <1>0, <2>1, <2>2, DesignsStayExact DEF TaskIsExact, Exact
<1>5. ASSUME next.at \in {"applying", "undoing"}
      PROVE  /\ next.id \in DOMAIN byID /\ next.candidate = byID[next.id]
             /\ next.candidate \in CandidateRecords
             /\ next.at = "undoing" => next.candidate.undo # None
  BY <1>5 DEF Moved, Undoable, RegistryOK
<1>6. ASSUME next.at = "applying"
      PROVE  /\ next.id <= issued'
             /\ Exact(request[r].candidate.flow, request[r].candidate.revision, request[r].candidate.basis)'
             /\ next.id \in DOMAIN byID' => byID'[next.id].flow = next.candidate.flow
  <2>1. next.candidate.revision \in Int
    BY <1>5, <1>6, Bounds DEF CandidateRecords
  <2>2. /\ next.id <= issued
        /\ Exact(next.candidate.flow, next.candidate.revision, next.candidate.basis)
    BY <1>5, <1>6 DEF CandidatesAreExact
  <2>3. Exact(request[r].candidate.flow, request[r].candidate.revision, request[r].candidate.basis)'
    BY <2>1, <2>2, DesignsStayExact DEF Exact
  <2>4. next.id <= issued'
    BY <1>1, <1>5, <1>6, <2>2
  <2>5. next.id \in DOMAIN byID' => byID'[next.id].flow = next.candidate.flow
    BY <1>5, <1>6, <2>2, IdsKeepTheirFlow
  <2> QED
    BY <2>3, <2>4, <2>5
<1>7. ASSUME next.at = "undoing"
      PROVE  next.candidate.undo \in UndoRecords /\ TakesBack(request[r].candidate.flow, request[r].candidate.undo)'
  <2>1. next.candidate.undo \in UndoRecords
    BY <1>5, <1>7 DEF CandidateRecords
  <2>2. TakesBack(next.candidate.flow, next.candidate.undo)
    BY <1>5, <1>7 DEF CandidatesAreExact
  <2> QED
    BY <2>1, <2>2, UndosStayExact DEF TakesBack
<1>8. ASSUME next.at = "applied"
      PROVE  /\ next.id <= issued'
             /\ next.id \in DOMAIN byID' => TakesBack(byID[request[r].id].flow, request[r].undo)'
  <2>1. /\ t.at = "applying" /\ next.id = t.id /\ next.undo.revision = clock'
        /\ story'[t.candidate.flow] = Applied(next.undo.restores)
    BY <1>8 DEF Moved
  <2>2. t.id \in Int
    BY <1>0, <2>1, StagesOfTasks, Bounds DEF Workers
  <2>3. t.id <= issued /\ t.id <= issued'
    BY <1>0, <1>1, <2>1, <2>2 DEF TaskIsExact
  <2>4. ASSUME t.id \in DOMAIN byID'
        PROVE  byID'[t.id].flow = t.candidate.flow
    BY <1>0, <2>1, <2>3, <2>4, IdsKeepTheirFlow DEF TaskIsExact
  <2> QED
    BY <1>1, <2>1, <2>3, <2>4 DEF TakesBack
<1> HIDE DEF t, next
<1> QED
  BY <1>2, <1>3, <1>4, <1>6, <1>7, <1>8 DEF TaskIsExact, next
LEMMA HistoryStep == HistoryInv /\ [CandidatesNext]_candidateVars => HistoryInv'
<1> SUFFICES ASSUME HistoryInv, [CandidatesNext]_candidateVars
             PROVE  HistoryInv'
  OBVIOUS
<1>1. DataOK'
  BY TypeStep DEF HistoryInv
<1>2. ModelMoves /\ RegistryMoves /\ RequestsMove
  BY NextMovesTheModel, NextMovesTheRegistry, NextMovesRequests DEF HistoryInv, DataOK
<1>3. StampsAreOld'
  BY <1>1, <1>2, StampsStayOld DEF HistoryInv, DataOK
<1>4. CandidatesAreExact'
  BY <1>1, <1>2, CandidatesStayExact
<1>5. TasksAreExact'
  BY <1>1, <1>2, WaitingTasksStayExact, MovedTasksAreExact DEF RequestsMove, TasksAreExact
<1> QED
  BY <1>1, <1>3, <1>4, <1>5 DEF HistoryInv

\* Whatever requests, edits and restarts do: a design that a request or the registry
\* holds is of the diagram, and an undo takes back its last event, as long as the
\* flowsheet shows the revision they name.
THEOREM RevisionsNameContents == CandidatesSpec => []HistoryInv
  BY InitIsExact, HistoryStep, PTL DEF CandidatesSpec

\* An undo the registry offers and the store would accept puts back what the apply
\* replaced, for any number of requests, flowsheets and candidates.
THEOREM UndosAreExact == CandidatesSpec => []OfferedUndosAreExact
<1>1. HistoryInv => OfferedUndosAreExact
  BY DEF HistoryInv, CandidatesAreExact, TakesBack, OfferedUndosAreExact, Undoable, Fresh, SameBasis
<1> QED
  BY <1>1, RevisionsNameContents, PTL

(***************************************************************************)
(* The steps on the diagrams                                               *)
(***************************************************************************)
\* What is written by an apply was designed from what it replaces.
LEMMA ApplyHitsItsDesign ==
  ASSUME HistoryInv, NEW r \in Requests, CommitApply(r)
  PROVE  LET f == request[r].candidate.flow
         IN  /\ f \in DOMAIN flows /\ f \in FlowIds
             /\ request[r].at = "applying"
             /\ request[r].candidate \in CandidateRecords
             /\ request[r].candidate.basis = flows[f].content
             /\ request[r].candidate.roles = flows[f].roles
             /\ DOMAIN flows' = DOMAIN flows
             /\ flows'[f].content = request[r].candidate.target
             /\ \A g \in DOMAIN flows \ {f} : flows'[g].content = flows[g].content
             /\ story' = [story EXCEPT ![f] = Applied(flows[f].content)]
<1> DEFINE f == request[r].candidate.flow
<1>1. f \in DOMAIN flows /\ request[r].at = "applying" /\ SameBasis(request[r].candidate, flows[f])
  BY DEF CommitApply, Fresh
<1>2. flows[f] \in FlowRecords /\ f \in FlowIds
  BY <1>1 DEF HistoryInv, DataOK, ModelOK
<1>3. request[r] \in Workers
  BY <1>1, StagesOfTasks DEF HistoryInv, DataOK, RequestsOK
<1>4. request[r].candidate.basis = flows[f].content
  BY <1>1 DEF HistoryInv, TasksAreExact, TaskIsExact, Exact, SameBasis
<1>5. /\ flows' = [flows EXCEPT ![f] = [@ EXCEPT !.revision = clock + 1,
                                               !.content = request[r].candidate.target]]
      /\ story' = [story EXCEPT ![f] = Applied(flows[f].content)]
  BY DEF CommitApply, Rewrites
<1>6. flows'[f].content = request[r].candidate.target
  BY <1>1, <1>2, <1>5 DEF FlowRecords
<1> QED
  BY <1>1, <1>2, <1>3, <1>4, <1>5, <1>6 DEF SameBasis, Workers

\* Only an apply writes the event of an apply.
LEMMA OtherStepsDoNotApply ==
  ASSUME HistoryInv, [CandidatesNext]_candidateVars, \A r \in Requests : ~CommitApply(r),
         NEW f \in FlowIds
  PROVE  story'[f] = story[f] \/ story'[f].kind # "applied"
<1>0. story \in [FlowIds -> Stories]
  BY DEF HistoryInv, DataOK, ModelOK
<1>1. ASSUME NEW g, NEW event \in {Changed, Undone}, story' = [story EXCEPT ![g] = event]
      PROVE  story'[f] = story[f] \/ story'[f].kind # "applied"
  BY <1>0, <1>1 DEF Changed, Undone
<1>2. ASSUME NEW g \in DOMAIN flows, EditModel(g) \/ AssignRoles(g) \/ DeleteFlowQuietly(g)
      PROVE  story'[f] = story[f] \/ story'[f].kind # "applied"
  BY <1>1, <1>2 DEF EditModel, AssignRoles, DeleteFlowQuietly, Rewrites, Drops
<1>3. CASE CreateFlow
  BY <1>1, <1>3 DEF CreateFlow
<1>4. ASSUME NEW r \in Requests, NEW g \in FlowIds, DeleteFlow(r, g)
      PROVE  story'[f] = story[f] \/ story'[f].kind # "applied"
  BY <1>1, <1>4 DEF DeleteFlow, Drops
<1>5. ASSUME NEW r \in Requests, CommitUndo(r)
      PROVE  story'[f] = story[f] \/ story'[f].kind # "applied"
  BY <1>1, <1>5 DEF CommitUndo, Rewrites
<1>6. CASE UNCHANGED story
  BY <1>6
<1> QED
  BY <1>2, <1>3, <1>4, <1>5, <1>6
     DEF CandidatesNext, Asks, Proceeds, Designs, Applies, Undoes, candidateVars,
         DesignReadsRoles, DesignReadsRevision, DesignReadsDiagram, ReviewAccepts, DesignIsPut,
         DesignFails, BeginApply, BeginUndo, RefuseApply, LoseAppliedAnswer, ApplyEnds,
         ReleaseApply, ExpireUndo, FailUndo, UndoEnds, ReleaseUndo, ForgetDeletedFlow, Restart

\* What is written to a diagram was designed from that very diagram, under the roles it
\* still has, although both were read in several steps.
THEOREM AppliesHitTheModel == CandidatesSpec => AppliesHitTheDesignedModel
<1>1. ASSUME HistoryInv, [CandidatesNext]_candidateVars, NEW f \in FlowIds,
             story'[f] # story[f] /\ story'[f].kind = "applied"
      PROVE  \E r \in Requests :
                /\ request[r].at = "applying"
                /\ request[r].candidate.flow = f
                /\ request[r].candidate.basis = flows[f].content
                /\ request[r].candidate.roles = flows[f].roles
                /\ flows'[f].content = request[r].candidate.target
  <2>1. PICK r \in Requests : CommitApply(r)
    BY <1>1, OtherStepsDoNotApply
  <2>2. story \in [FlowIds -> Stories]
    BY <1>1 DEF HistoryInv, DataOK, ModelOK
  <2>3. f = request[r].candidate.flow
    BY <1>1, <2>1, <2>2, ApplyHitsItsDesign
  <2> QED
    BY <1>1, <2>1, <2>3, ApplyHitsItsDesign
<1>2. HistoryInv /\ [CandidatesNext]_candidateVars
        => [\A f \in FlowIds :
              (story'[f] # story[f] /\ story'[f].kind = "applied")
              => \E r \in Requests :
                    /\ request[r].at = "applying"
                    /\ request[r].candidate.flow = f
                    /\ request[r].candidate.basis = flows[f].content
                    /\ request[r].candidate.roles = flows[f].roles
                    /\ flows'[f].content = request[r].candidate.target]_candidateVars
  BY <1>1
<1> QED
  BY <1>2, RevisionsNameContents, PTL DEF CandidatesSpec, AppliesHitTheDesignedModel
(***************************************************************************)
(* The refinement                                                          *)
(***************************************************************************)
Shown == [f \in FlowIds |-> IF f \in DOMAIN flows THEN flows[f].content ELSE None]

\* A step that leaves every flowsheet but f as it is.
OnlyShows(f) ==
    \A g \in FlowIds \ {f} : /\ g \in DOMAIN flows' <=> g \in DOMAIN flows
                             /\ g \in DOMAIN flows => flows'[g].content = flows[g].content

LEMMA ShownIsOne ==
  ASSUME NEW f \in FlowIds, OnlyShows(f)
  PROVE  Shown' = [Shown EXCEPT ![f] = Shown'[f]]
<1> DEFINE now == Shown'
<1>1. \A g \in FlowIds \ {f} : now[g] = Shown[g]
  BY DEF OnlyShows, Shown
<1>2. now = [g \in FlowIds |-> now[g]] /\ Shown = [g \in FlowIds |-> Shown[g]]
  BY DEF Shown
<1> HIDE DEF now
<1>3. now = [Shown EXCEPT ![f] = now[f]]
  BY <1>1, <1>2
<1> QED
  BY <1>3 DEF now

LEMMA ShownContents ==
  ASSUME ModelOK, NEW f \in FlowIds
  PROVE  Shown[f] \in Contents \cup {None}
  BY DEF ModelOK, FlowRecords, Shown

LEMMA ChangesImplement ==
  ASSUME ModelOK', NEW f \in FlowIds, OnlyShows(f), story' = [story EXCEPT ![f] = Changed]
  PROVE  History!Change(f)
<1>1. Shown'[f] \in Contents \cup {None}
  BY DEF ModelOK, FlowRecords, Shown
<1> QED
  BY <1>1, ShownIsOne DEF History!Change, History!Changed, Changed, Shown

LEMMA RewritesOnlyShow ==
  ASSUME ModelOK, NEW f \in DOMAIN flows, NEW c, NEW event, Rewrites(f, c, event)
  PROVE  /\ f \in FlowIds /\ OnlyShows(f) /\ Shown[f] = flows[f].content /\ Shown'[f] = c
         /\ story' = [story EXCEPT ![f] = event]
<1>1. flows' = [flows EXCEPT ![f] = [@ EXCEPT !.revision = clock + 1, !.content = c]]
  BY DEF Rewrites
<1>2. DOMAIN flows' = DOMAIN flows /\ \A g \in DOMAIN flows \ {f} : flows'[g] = flows[g]
  BY <1>1
<1>3. flows'[f].content = c /\ f \in FlowIds
  BY <1>1 DEF ModelOK, FlowRecords
<1> QED
  BY <1>2, <1>3 DEF OnlyShows, Shown, Rewrites

LEMMA EditImplements ==
  ASSUME ModelOK, ModelOK', NEW f \in DOMAIN flows, EditModel(f)
  PROVE  History!Change(f) /\ f \in FlowIds
  BY RewritesOnlyShow, ChangesImplement DEF EditModel

LEMMA CreateImplements ==
  ASSUME ModelOK, ModelOK', CreateFlow
  PROVE  \E f \in FlowIds : History!Change(f)
<1>1. PICK f \in FlowIds : \E row \in {flows[g] : g \in DOMAIN flows}
                                      \cup {InitialFlow(Blank, NoRoles)} :
          /\ flows' = [g \in DOMAIN flows \cup {f} |->
                         IF g = f THEN [row EXCEPT !.revision = clock + 1] ELSE flows[g]]
          /\ story' = [story EXCEPT ![f] = Changed]
  BY DEF CreateFlow
<1>2. OnlyShows(f)
  BY <1>1 DEF OnlyShows
<1> QED
  BY <1>1, <1>2, ChangesImplement

LEMMA DropsImplements ==
  ASSUME ModelOK, ModelOK', NEW f \in DOMAIN flows, Drops(f)
  PROVE  History!Change(f) /\ f \in FlowIds
<1>1. f \in FlowIds /\ OnlyShows(f)
  BY DEF ModelOK, Drops, OnlyShows
<1> QED
  BY <1>1, ChangesImplement DEF Drops

LEMMA ApplyImplements ==
  ASSUME HistoryInv, NEW r \in Requests, CommitApply(r)
  PROVE  \E f \in FlowIds : History!Apply(f)
<1>0. PICK f : f = request[r].candidate.flow
  OBVIOUS
<1> DEFINE target == request[r].candidate.target
<1>1. /\ ModelOK /\ f \in DOMAIN flows /\ flows[f] \in FlowRecords /\ target \in Contents
      /\ Rewrites(f, target, Applied(flows[f].content))
  BY <1>0, ApplyHitsItsDesign DEF HistoryInv, DataOK, ModelOK, CommitApply, CandidateRecords
<1>2. /\ f \in FlowIds /\ OnlyShows(f) /\ Shown[f] = flows[f].content /\ Shown'[f] = target
      /\ story' = [story EXCEPT ![f] = Applied(flows[f].content)]
  BY <1>1, RewritesOnlyShow
<1>3. Shown[f] # None /\ Shown' = [Shown EXCEPT ![f] = target]
  BY <1>1, <1>2, ShownIsOne, CandidateBounds DEF FlowRecords
<1>4. story' = [story EXCEPT ![f] = History!Applied(Shown[f])]
  BY <1>2 DEF Applied, History!Applied
<1>5. History!Apply(f)
  BY <1>1, <1>3, <1>4 DEF History!Apply, Shown
<1> QED
  BY <1>2, <1>5

LEMMA UndoImplements ==
  ASSUME HistoryInv, NEW r \in Requests, CommitUndo(r)
  PROVE  \E f \in FlowIds : History!Undo(f)
<1>0. PICK f : f = request[r].candidate.flow
  OBVIOUS
<1> DEFINE undo == request[r].candidate.undo
<1>1. /\ ModelOK /\ f \in DOMAIN flows /\ Rewrites(f, undo.restores, Undone)
  BY <1>0 DEF HistoryInv, DataOK, CommitUndo, Fresh
<1>2. story[f] = Applied(undo.restores)
  BY <1>0 DEF CommitUndo, Fresh, SameBasis, HistoryInv, TasksAreExact, TaskIsExact, TakesBack
<1>3. /\ f \in FlowIds /\ OnlyShows(f) /\ Shown'[f] = undo.restores
      /\ story' = [story EXCEPT ![f] = Undone]
  BY <1>1, RewritesOnlyShow
<1>4. Shown' = [Shown EXCEPT ![f] = story[f].before] /\ story[f].kind = "applied"
  BY <1>2, <1>3, ShownIsOne DEF Applied
<1>5. History!Undo(f)
  BY <1>3, <1>4 DEF History!Undo, History!Undone, Undone, Shown
<1> QED
  BY <1>3, <1>5

LEMMA RolesImplement ==
  ASSUME ModelOK, NEW f \in DOMAIN flows, AssignRoles(f)
  PROVE  Shown' = Shown /\ story' = story
<1>1. PICK spec : flows' = [flows EXCEPT ![f] = [@ EXCEPT !.roles = spec]]
  BY DEF AssignRoles
<1>2. \A g \in DOMAIN flows : flows'[g].content = flows[g].content
  BY <1>1 DEF ModelOK, FlowRecords
<1> QED
  BY <1>1, <1>2 DEF Shown, AssignRoles

LEMMA StepImplements ==
  ASSUME HistoryInv, HistoryInv', [CandidatesNext]_candidateVars
  PROVE  [History!Next]_(History!vars)
<1>0. ModelOK /\ ModelOK'
  BY DEF HistoryInv, DataOK
<1>1. ASSUME NEW f \in DOMAIN flows, EditModel(f) \/ DeleteFlowQuietly(f)
      PROVE  History!Next
  BY <1>0, <1>1, EditImplements, DropsImplements DEF DeleteFlowQuietly, History!Next
<1>2. CASE CreateFlow
  BY <1>0, <1>2, CreateImplements DEF History!Next
<1>3. ASSUME NEW r \in Requests, NEW f \in FlowIds, DeleteFlow(r, f)
      PROVE  History!Next
  BY <1>0, <1>3, DropsImplements DEF DeleteFlow, History!Next
<1>4. ASSUME NEW r \in Requests, CommitApply(r) \/ CommitUndo(r)
      PROVE  History!Next
  BY <1>4, ApplyImplements, UndoImplements DEF History!Next
<1>5. ASSUME NEW f \in DOMAIN flows, AssignRoles(f)
      PROVE  UNCHANGED History!vars
  BY <1>0, <1>5, RolesImplement DEF History!vars, Shown
<1>6. CASE UNCHANGED <<flows, story>>
  BY <1>6 DEF History!vars
<1> QED
  BY <1>1, <1>2, <1>3, <1>4, <1>5, <1>6
     DEF CandidatesNext, Asks, Proceeds, Designs, Applies, Undoes, candidateVars,
         DesignReadsRoles, DesignReadsRevision, DesignReadsDiagram, ReviewAccepts, DesignIsPut,
         DesignFails, BeginApply, BeginUndo, RefuseApply, LoseAppliedAnswer, ApplyEnds,
         ReleaseApply, ExpireUndo, FailUndo, UndoEnds, ReleaseUndo, ForgetDeletedFlow, Restart

\* Requests, edits and restarts together do to the diagrams what the workflow promises:
\* an undo takes back exactly the last change, which was an apply.
THEOREM HistoryIsImplemented == CandidatesSpec => ImplementsControllerHistory
<1>1. CandidatesInit => History!Init
  BY CandidateBounds DEF CandidatesInit, InitialFlow, History!Init, History!Changed, Changed
<1>2. HistoryInv /\ HistoryInv' /\ [CandidatesNext]_candidateVars => [History!Next]_(History!vars)
  BY StepImplements
<1> QED
  BY <1>1, <1>2, RevisionsNameContents, PTL
     DEF CandidatesSpec, ImplementsControllerHistory, History!Spec
(***************************************************************************)
(* Marks of work in progress                                               *)
(***************************************************************************)
LEMMA MarksFollowTheirRequest ==
  ASSUME MarksHaveAnOwner, RequestsOK, NEW r \in Requests, NEW next, Goes(r, next),
         \A i \in DOMAIN byID' : byID'[i].applying
           => \/ next.at \in Applying /\ next.id = i
              \/ i \in DOMAIN byID /\ byID[i].applying /\ ~WorksOn(r, i, Applying),
         \A i \in DOMAIN byID' : byID'[i].undoing
           => \/ next.at \in Undoing /\ next.id = i
              \/ i \in DOMAIN byID /\ byID[i].undoing /\ ~WorksOn(r, i, Undoing)
  PROVE  MarksHaveAnOwner'
<1>1. request'[r] = next /\ \A q \in Requests \ {r} : request'[q] = request[q]
  BY DEF RequestsOK, Goes
<1>2. \A i \in DOMAIN byID' : byID'[i].applying => \E q \in Requests : WorksOn(q, i, Applying)'
  BY <1>1 DEF MarksHaveAnOwner, WorksOn, Applying
<1>3. \A i \in DOMAIN byID' : byID'[i].undoing => \E q \in Requests : WorksOn(q, i, Undoing)'
  <2>1. ASSUME NEW i \in DOMAIN byID', byID'[i].undoing
        PROVE  \E q \in Requests : WorksOn(q, i, Undoing)'
    <3>1. CASE next.at \in Undoing /\ next.id = i
      BY <1>1, <3>1 DEF WorksOn
    <3>2. CASE i \in DOMAIN byID /\ byID[i].undoing /\ ~WorksOn(r, i, Undoing)
      BY <1>1, <3>2 DEF MarksHaveAnOwner, WorksOn
    <3> QED
      BY <2>1, <3>1, <3>2
  <2> QED
    BY <2>1
<1> QED
  BY <1>2, <1>3 DEF MarksHaveAnOwner

LEMMA FinishApplyClears ==
  ASSUME RegistryOK, NEW id, NEW undo, FinishApply(id, undo)
  PROVE  \A i \in DOMAIN byID' : /\ i \in DOMAIN byID
                                 /\ byID'[i].applying => byID[i].applying /\ i # id
                                 /\ byID'[i].undoing => byID[i].undoing
<1>1. CASE id \in DOMAIN byID /\ byID[id].applying
  <2> DEFINE next == [byID[id] EXCEPT !.applying = FALSE, !.applied = @ \/ undo # None,
                                      !.undo = IF undo # None THEN undo ELSE @]
  <2>1. byID' = [byID EXCEPT ![id] = next]
    BY <1>1 DEF FinishApply
  <2>2. byID[id] \in CandidateRecords
    BY <1>1 DEF RegistryOK
  <2>3. ~next.applying /\ next.undoing = byID[id].undoing
    BY <2>2 DEF CandidateRecords
  <2> HIDE DEF next
  <2> QED
    BY <2>1, <2>3 DEF RegistryOK
<1>2. CASE ~(id \in DOMAIN byID /\ byID[id].applying)
  BY <1>2 DEF FinishApply, registry
<1> QED
  BY <1>1, <1>2

LEMMA FinishUndoClears ==
  ASSUME RegistryOK, NEW id, NEW used \in BOOLEAN, FinishUndo(id, used)
  PROVE  \A i \in DOMAIN byID' : /\ i \in DOMAIN byID
                                 /\ byID'[i].undoing => byID[i].undoing /\ i # id
                                 /\ byID'[i].applying => byID[i].applying
<1>1. CASE id \in DOMAIN byID /\ byID[id].undoing /\ used
  BY <1>1 DEF FinishUndo, Without
<1>2. CASE id \in DOMAIN byID /\ byID[id].undoing /\ ~used
  <2> DEFINE next == [byID[id] EXCEPT !.undoing = FALSE]
  <2>1. byID' = [byID EXCEPT ![id] = next]
    BY <1>2 DEF FinishUndo
  <2>2. byID[id] \in CandidateRecords
    BY <1>2 DEF RegistryOK
  <2>3. ~next.undoing /\ next.applying = byID[id].applying
    BY <2>2 DEF CandidateRecords
  <2> HIDE DEF next
  <2> QED
    BY <2>1, <2>3 DEF RegistryOK
<1>3. CASE ~(id \in DOMAIN byID /\ byID[id].undoing)
  BY <1>3 DEF FinishUndo, registry
<1> QED
  BY <1>1, <1>2, <1>3

LEMMA BeginMarks ==
  ASSUME DataOK, MarksHaveAnOwner, NEW r \in Requests, NEW id \in Ids, NEW f \in FlowIds,
         BeginApply(r, id, f) \/ BeginUndo(r, id, f)
  PROVE  MarksHaveAnOwner'
<1> USE DEF DataOK
<1>1. id \in DOMAIN byID /\ byID[id] \in CandidateRecords /\ request[r].at = "idle"
  BY DEF BeginApply, BeginUndo, RegistryOK
<1>2. \A i : ~WorksOn(r, i, Applying) /\ ~WorksOn(r, i, Undoing)
  BY <1>1 DEF WorksOn, Applying, Undoing
<1>3. CASE BeginApply(r, id, f)
  <2>1. byID' = [byID EXCEPT ![id] = [@ EXCEPT !.applying = TRUE]]
    BY <1>3 DEF BeginApply
  <2>2. \A i \in DOMAIN byID' : /\ i \in DOMAIN byID /\ byID'[i].undoing = byID[i].undoing
                                /\ i # id => byID'[i].applying = byID[i].applying
    BY <1>1, <2>1 DEF CandidateRecords
  <2> QED
    BY <1>2, <1>3, <2>2, MarksFollowTheirRequest DEF BeginApply, Applying
<1>4. CASE BeginUndo(r, id, f)
  <2>1. byID' = [byID EXCEPT ![id] = [@ EXCEPT !.undoing = TRUE]]
    BY <1>4 DEF BeginUndo
  <2>2. \A i \in DOMAIN byID' : /\ i \in DOMAIN byID /\ byID'[i].applying = byID[i].applying
                                /\ i # id => byID'[i].undoing = byID[i].undoing
    BY <1>1, <2>1 DEF CandidateRecords
  <2> QED
    BY <1>2, <1>4, <2>2, MarksFollowTheirRequest DEF BeginUndo, Undoing
<1> QED
  BY <1>3, <1>4

\* Steps of a request that leave the registry alone or take marks only away.
LEMMA WorkKeepsMarks ==
  ASSUME DataOK, MarksHaveAnOwner, NEW r \in Requests, Applies(r) \/ Undoes(r)
  PROVE  MarksHaveAnOwner'
<1> USE DEF DataOK
<1>1. ASSUME CommitApply(r) \/ RefuseApply(r) \/ LoseAppliedAnswer(r)
      PROVE  MarksHaveAnOwner'
  <2>1. request[r].at \in Applying /\ request[r].at \notin Undoing /\ byID' = byID
    BY <1>1 DEF CommitApply, RefuseApply, LoseAppliedAnswer, Applying, Undoing
  <2>2. \E next : Goes(r, next) /\ next.at \in Applying /\ next.id = request[r].id
    BY <1>1 DEF CommitApply, RefuseApply, LoseAppliedAnswer, Applying
  <2> QED
    BY <2>1, <2>2, MarksFollowTheirRequest DEF WorksOn
<1>2. ASSUME CommitUndo(r) \/ ExpireUndo(r) \/ FailUndo(r)
      PROVE  MarksHaveAnOwner'
  <2>1. request[r].at \in Undoing /\ request[r].at \notin Applying /\ byID' = byID
    BY <1>2 DEF CommitUndo, ExpireUndo, FailUndo, Applying, Undoing
  <2>2. \E next : Goes(r, next) /\ next.at \in Undoing /\ next.id = request[r].id
    <3>1. {"undone", "not undone"} \subseteq Undoing
      BY DEF Undoing
    <3>2. \E stage \in {"undone", "not undone"} : Goes(r, [at |-> stage, id |-> request[r].id])
      BY <1>2 DEF CommitUndo, ExpireUndo, FailUndo
    <3>3. PICK stage \in {"undone", "not undone"} : Goes(r, [at |-> stage, id |-> request[r].id])
      BY <3>2
    <3>4. /\ [at |-> stage, id |-> request[r].id].at \in Undoing
          /\ [at |-> stage, id |-> request[r].id].id = request[r].id
      BY <3>1
    <3> QED
      BY <3>3, <3>4
  <2> QED
    BY <2>1, <2>2, MarksFollowTheirRequest DEF WorksOn
<1>3. ASSUME ApplyEnds(r) \/ ReleaseApply(r)
      PROVE  MarksHaveAnOwner'
  <2>1. request[r].at \notin Undoing
    BY <1>3 DEF ApplyEnds, ReleaseApply, Undoing
  <2>2. \E undo : FinishApply(request[r].id, undo)
    BY <1>3 DEF ApplyEnds, ReleaseApply
  <2>3. \E next : Goes(r, next)
    BY <1>3 DEF ApplyEnds, ReleaseApply
  <2> QED
    BY <2>1, <2>2, <2>3, FinishApplyClears, MarksFollowTheirRequest DEF WorksOn
<1>4. ASSUME UndoEnds(r) \/ ReleaseUndo(r)
      PROVE  MarksHaveAnOwner'
  <2>1. request[r].at \notin Applying
    BY <1>4 DEF UndoEnds, ReleaseUndo, Applying
  <2>2. \E used \in BOOLEAN : FinishUndo(request[r].id, used)
    BY <1>4 DEF UndoEnds, ReleaseUndo
  <2>3. \E next : Goes(r, next)
    BY <1>4 DEF UndoEnds, ReleaseUndo
  <2> QED
    BY <2>1, <2>2, <2>3, FinishUndoClears, MarksFollowTheirRequest DEF WorksOn
<1> QED
  BY <1>1, <1>2, <1>3, <1>4 DEF Applies, Undoes

\* Requests that work on no candidate.
LEMMA OthersKeepMarks ==
  ASSUME DataOK, MarksHaveAnOwner, NEW r \in Requests,
         \/ \E f \in FlowIds : DesignReadsRoles(r, f) \/ DeleteFlow(r, f)
         \/ Designs(r) \/ ForgetDeletedFlow(r)
  PROVE  MarksHaveAnOwner'
<1> USE DEF DataOK
<1>1. request[r].at \notin Applying /\ request[r].at \notin Undoing
  BY DEF DesignReadsRoles, DeleteFlow, Designs, ForgetDeletedFlow, DesignReadsRevision,
         DesignReadsDiagram, ReviewAccepts, DesignIsPut, DesignFails, Applying, Undoing
<1>2. \E next : Goes(r, next)
  BY DEF DesignReadsRoles, DeleteFlow, Designs, ForgetDeletedFlow, DesignReadsRevision,
         DesignReadsDiagram, ReviewAccepts, DesignIsPut, DesignFails
<1>3. \A i \in DOMAIN byID' :
         \/ i \in DOMAIN byID /\ byID'[i] = byID[i]
         \/ ~byID'[i].applying /\ ~byID'[i].undoing
  <2>1. CASE DesignIsPut(r) /\ byID' # byID
    <3> DEFINE candidate == NewCandidate(request[r].flow, request[r])
    <3>1. Put(request[r].flow, candidate)
      BY <2>1 DEF DesignIsPut
    <3>2. PICK gone : PutDropping(request[r].flow, candidate, gone)
      BY <3>1, PutKeeps
    <3>3. ~candidate.applying /\ ~candidate.undoing
      BY DEF NewCandidate
    <3> HIDE DEF candidate
    <3> QED
      BY <3>2, <3>3 DEF PutDropping
  <2>2. CASE ForgetDeletedFlow(r)
    BY <2>2 DEF ForgetDeletedFlow, Forget, Without
  <2>3. CASE byID' = byID
    BY <2>3
  <2> QED
    BY <2>1, <2>2, <2>3
       DEF DesignReadsRoles, DeleteFlow, Designs, DesignReadsRevision, DesignReadsDiagram,
           ReviewAccepts, DesignFails
<1> QED
  BY <1>1, <1>2, <1>3, MarksFollowTheirRequest DEF WorksOn

\* A mark of work in progress belongs to a request that will clear it, for any number of
\* requests: no candidate stays locked after its request is gone.
THEOREM MarksAreOwned == CandidatesSpec => []MarksHaveAnOwner
<1>1. CandidatesInit => MarksHaveAnOwner
  BY DEF CandidatesInit, MarksHaveAnOwner
<1>2. ASSUME HistoryInv, MarksHaveAnOwner, [CandidatesNext]_candidateVars
      PROVE  MarksHaveAnOwner'
  <2>1. DataOK
    BY <1>2 DEF HistoryInv
  <2>2. CASE UNCHANGED <<byID, request>>
    BY <1>2, <2>2 DEF MarksHaveAnOwner, WorksOn
  <2>3. CASE Restart
    BY <2>3 DEF Restart, MarksHaveAnOwner
  <2>4. CASE \/ \E f \in DOMAIN flows : EditModel(f) \/ AssignRoles(f) \/ DeleteFlowQuietly(f)
             \/ CreateFlow \/ UNCHANGED candidateVars
    BY <2>2, <2>4 DEF EditModel, AssignRoles, DeleteFlowQuietly, CreateFlow, candidateVars
  <2> QED
    BY <1>2, <2>1, <2>3, <2>4, BeginMarks, WorkKeepsMarks, OthersKeepMarks
       DEF CandidatesNext, Asks, Proceeds
<1>3. HistoryInv /\ MarksHaveAnOwner /\ [CandidatesNext]_candidateVars => MarksHaveAnOwner'
  BY <1>2
<1> QED
  BY <1>1, <1>3, RevisionsNameContents, PTL DEF CandidatesSpec
(***************************************************************************)
(* The two maps of the registry                                            *)
(***************************************************************************)
\* The ids in the registry were given out, so a new one is not among them.
MapsInv == MapsAgree /\ \A i \in DOMAIN byID : i <= issued

\* Changing what a candidate holds, but not its flowsheet.
LEMMA InPlaceKeepsMaps ==
  ASSUME MapsInv, byFlow' = byFlow, issued' = issued, DOMAIN byID' = DOMAIN byID,
         \A i \in DOMAIN byID : byID'[i].flow = byID[i].flow
  PROVE  MapsInv'
  BY DEF MapsInv, MapsAgree

\* Dropping candidates from both maps.
LEMMA RemovalKeepsMaps ==
  ASSUME MapsInv, NEW ids, issued' = issued, byID' = Without(ids),
         byFlow' = [g \in {h \in DOMAIN byFlow : byFlow[h] \notin ids} |-> byFlow[g]]
  PROVE  MapsInv'
  BY DEF MapsInv, MapsAgree, Without

LEMMA PutKeepsMaps ==
  ASSUME RegistryOK, MapsInv, NEW f, NEW candidate, candidate.flow = f,
         Put(f, candidate), issued' = issued + 1
  PROVE  MapsInv'
<1>1. PICK gone : PutDropping(f, candidate, gone)
  BY PutKeeps
<1>2. \A i \in DOMAIN byID : i # issued + 1 /\ i <= issued'
  BY Bounds DEF MapsInv, RegistryOK
<1>3. \A i \in DOMAIN byID : i \notin Previous(f) => byID[i].flow # f
  BY DEF MapsInv, MapsAgree, Previous
<1>4. \A g \in DOMAIN byFlow : g # f => byFlow[g] \in DOMAIN byID \ Previous(f)
  BY DEF MapsInv, MapsAgree, Previous
<1>5. \A i \in DOMAIN byID' : i <= issued'
  BY <1>1, <1>2 DEF PutDropping, RegistryOK
<1>6. \A g \in DOMAIN byFlow' : byFlow'[g] \in DOMAIN byID' /\ byID'[byFlow'[g]].flow = g
  BY <1>1, <1>2, <1>4 DEF PutDropping, MapsInv, MapsAgree
<1>7. \A i \in DOMAIN byID' : byID'[i].flow \in DOMAIN byFlow' /\ byFlow'[byID'[i].flow] = i
  BY <1>1, <1>2, <1>3 DEF PutDropping, MapsInv, MapsAgree
<1> QED
  BY <1>5, <1>6, <1>7 DEF MapsInv, MapsAgree

LEMMA FinishesKeepMaps ==
  ASSUME RegistryOK, MapsInv, issued' = issued, NEW id, NEW undo, NEW used \in BOOLEAN,
         FinishApply(id, undo) \/ FinishUndo(id, used)
  PROVE  MapsInv'
<1>1. CASE id \in DOMAIN byID /\ byID[id].undoing /\ used /\ FinishUndo(id, used)
  <2>1. {h \in DOMAIN byFlow : byFlow[h] # id} = {h \in DOMAIN byFlow : byFlow[h] \notin {id}}
    OBVIOUS
  <2>2. byID' = Without({id}) /\ byFlow' = [g \in {h \in DOMAIN byFlow : byFlow[h] # id} |-> byFlow[g]]
    BY <1>1 DEF FinishUndo
  <2>3. byFlow' = [g \in {h \in DOMAIN byFlow : byFlow[h] \notin {id}} |-> byFlow[g]]
    BY <2>1, <2>2
  <2> QED
    BY <2>2, <2>3, RemovalKeepsMaps
<1>2. CASE id \in DOMAIN byID /\ byID[id].undoing /\ ~used /\ FinishUndo(id, used)
  <2>1. byID' = [byID EXCEPT ![id] = [@ EXCEPT !.undoing = FALSE]] /\ byFlow' = byFlow
    BY <1>2 DEF FinishUndo
  <2>2. byID[id] \in CandidateRecords
    BY <1>2 DEF RegistryOK
  <2> QED
    BY <2>1, <2>2, InPlaceKeepsMaps DEF CandidateRecords
<1>3. CASE id \in DOMAIN byID /\ byID[id].applying /\ FinishApply(id, undo)
  <2> DEFINE next == [byID[id] EXCEPT !.applying = FALSE, !.applied = @ \/ undo # None,
                                      !.undo = IF undo # None THEN undo ELSE @]
  <2>1. byID' = [byID EXCEPT ![id] = next] /\ byFlow' = byFlow
    BY <1>3 DEF FinishApply
  <2>2. byID[id] \in CandidateRecords
    BY <1>3 DEF RegistryOK
  <2>3. next.flow = byID[id].flow
    BY <2>2 DEF CandidateRecords
  <2> HIDE DEF next
  <2> QED
    BY <2>1, <2>3, InPlaceKeepsMaps
<1>4. CASE UNCHANGED registry
  BY <1>4, InPlaceKeepsMaps DEF registry
<1> QED
  BY <1>1, <1>2, <1>3, <1>4 DEF FinishApply, FinishUndo

LEMMA BeginsKeepMaps ==
  ASSUME RegistryOK, MapsInv, NEW r \in Requests, NEW id \in Ids, NEW f \in FlowIds,
         BeginApply(r, id, f) \/ BeginUndo(r, id, f)
  PROVE  MapsInv'
<1>1. id \in DOMAIN byID /\ byID[id] \in CandidateRecords /\ byFlow' = byFlow /\ issued' = issued
  BY DEF BeginApply, BeginUndo, RegistryOK
<1>2. \/ byID' = [byID EXCEPT ![id] = [@ EXCEPT !.applying = TRUE]]
      \/ byID' = [byID EXCEPT ![id] = [@ EXCEPT !.undoing = TRUE]]
  BY DEF BeginApply, BeginUndo
<1> QED
  BY <1>1, <1>2, InPlaceKeepsMaps DEF CandidateRecords

LEMMA ForgettingKeepsMaps ==
  ASSUME MapsInv, NEW f, Forget(f), issued' = issued
  PROVE  MapsInv'
<1> DEFINE owned == IF f \in DOMAIN byFlow THEN {byFlow[f]} ELSE {}
<1>1. byFlow' = Forgotten(f) /\ byID' = Without(owned)
  BY DEF Forget
<1>2. \A h \in DOMAIN byFlow : byFlow[h] \notin owned <=> h # f
  BY DEF MapsInv, MapsAgree
<1> HIDE DEF owned
<1>3. {h \in DOMAIN byFlow : byFlow[h] \notin owned} = DOMAIN byFlow \ {f}
  BY <1>2
<1> QED
  BY <1>1, <1>3, RemovalKeepsMaps DEF Forgotten

LEMMA MapsStep ==
  ASSUME HistoryInv, MapsInv, [CandidatesNext]_candidateVars
  PROVE  MapsInv'
<1>1. RegistryOK
  BY DEF HistoryInv, DataOK
<1>2. CASE UNCHANGED <<byID, byFlow, issued>>
  BY <1>2, InPlaceKeepsMaps
<1>3. CASE Restart
  BY <1>3 DEF Restart, MapsInv, MapsAgree
<1>4. ASSUME NEW r \in Requests, DesignIsPut(r), ~UNCHANGED <<byID, byFlow, issued>>
      PROVE  MapsInv'
  <2> DEFINE candidate == NewCandidate(request[r].flow, request[r])
  <2>1. Put(request[r].flow, candidate) /\ issued' = issued + 1
    BY <1>4 DEF DesignIsPut
  <2>2. candidate.flow = request[r].flow
    BY DEF NewCandidate
  <2> HIDE DEF candidate
  <2> QED
    BY <1>1, <2>1, <2>2, PutKeepsMaps
<1>5. ASSUME NEW r \in Requests, ApplyEnds(r) \/ ReleaseApply(r) \/ UndoEnds(r) \/ ReleaseUndo(r)
      PROVE  MapsInv'
  <2>1. \/ \E undo : FinishApply(request[r].id, undo)
        \/ \E used \in BOOLEAN : FinishUndo(request[r].id, used)
    BY <1>5 DEF ApplyEnds, ReleaseApply, UndoEnds, ReleaseUndo
  <2>2. issued' = issued
    BY <1>5 DEF ApplyEnds, ReleaseApply, UndoEnds, ReleaseUndo
  <2> QED
    BY <1>1, <2>1, <2>2, FinishesKeepMaps
<1>6. ASSUME NEW r \in Requests, ForgetDeletedFlow(r)
      PROVE  MapsInv'
  BY <1>6, ForgettingKeepsMaps DEF ForgetDeletedFlow
<1>7. ASSUME NEW r \in Requests, NEW id \in Ids, NEW f \in FlowIds,
             BeginApply(r, id, f) \/ BeginUndo(r, id, f)
      PROVE  MapsInv'
  BY <1>1, <1>7, BeginsKeepMaps
<1> QED
  BY <1>2, <1>3, <1>4, <1>5, <1>6, <1>7
     DEF CandidatesNext, Asks, Proceeds, Designs, Applies, Undoes, candidateVars,
         EditModel, AssignRoles, DeleteFlowQuietly, CreateFlow, DesignReadsRoles, DeleteFlow,
         DesignReadsRevision, DesignReadsDiagram, ReviewAccepts, DesignFails, CommitApply,
         RefuseApply, LoseAppliedAnswer, CommitUndo, ExpireUndo, FailUndo

\* The maps of the registry stay inverse to each other, for any capacity and any number of
\* requests that put, apply, undo and delete candidates at the same time.
THEOREM MapsStayInverse == CandidatesSpec => []MapsAgree
<1>1. CandidatesInit => MapsInv
  BY DEF CandidatesInit, MapsInv, MapsAgree
<1>2. HistoryInv /\ MapsInv /\ [CandidatesNext]_candidateVars => MapsInv'
  BY MapsStep
<1>3. MapsInv => MapsAgree
  BY DEF MapsInv
<1> QED
  BY <1>1, <1>2, <1>3, RevisionsNameContents, PTL DEF CandidatesSpec

(***************************************************************************)
(* Lists without repetition                                                *)
(***************************************************************************)
\* The list names each member of S once.
Lists(list, S) ==
    /\ list \in Seq(Ids)
    /\ \A i \in 1..Len(list) : list[i] \in S
    /\ \A x \in S : \E i \in 1..Len(list) : list[i] = x
    /\ \A i, j \in 1..Len(list) : list[i] = list[j] => i = j

Below == {p \in Nat \X Nat : p[1] < p[2]}

LEMMA LeastExists ==
  ASSUME NEW S \in SUBSET Nat, S # {}
  PROVE  \E x \in S : \A y \in S : x <= y
<1>0. IsWellFoundedOn(Below, Nat)
  BY NatLessThanWellFounded DEF OpToRel, Below
<1>1. PICK x \in S : \A y \in S : ~ (<<y, x>> \in Below)
  BY WFMin, <1>0, Zenon
<1>2. ASSUME NEW y \in S PROVE x <= y
  <2>1. <<y, x>> \notin Below
    BY <1>1, Zenon
  <2>2. x \in Nat /\ y \in Nat
    OBVIOUS
  <2> QED
    BY <2>1, <2>2 DEF Below
<1> QED
  BY <1>2

LEMMA ListsCount ==
  ASSUME NEW list, NEW S, Lists(list, S)
  PROVE  /\ IsFiniteSet(S)
         /\ Cardinality(S) = Len(list)
<1>1. Len(list) \in Nat /\ list \in [1..Len(list) -> S]
  BY DEF Lists
<1>2. list \in Bijection(1..Len(list), S)
  BY <1>1 DEF Lists, Bijection, Injection, Surjection, IsInjective
<1>3. IsFiniteSet(1..Len(list)) /\ Cardinality(1..Len(list)) = Len(list)
  BY <1>1, FS_Interval
<1> QED
  BY <1>2, <1>3, FS_Bijection DEF ExistsBijection

LEMMA SubSeqOfList ==
  ASSUME NEW list \in Seq(Ids), NEW m \in 1..(Len(list) + 1), NEW n \in 0..Len(list), m <= n + 1
  PROVE  /\ SubSeq(list, m, n) \in Seq(Ids)
         /\ Len(SubSeq(list, m, n)) = n - m + 1
         /\ \A i \in 1..(n - m + 1) : SubSeq(list, m, n)[i] = list[m + i - 1]
  OBVIOUS

LEMMA ConcatOfLists ==
  ASSUME NEW s \in Seq(Ids), NEW t \in Seq(Ids)
  PROVE  /\ s \o t \in Seq(Ids) /\ Len(s \o t) = Len(s) + Len(t)
         /\ \A i \in 1..(Len(s) + Len(t)) :
               (s \o t)[i] = IF i <= Len(s) THEN s[i] ELSE t[i - Len(s)]
  OBVIOUS

\* Taking out the k-th one, and turning the list at the place where it was.
LEMMA ListsRemoveAt ==
  ASSUME NEW list, NEW S, Lists(list, S), NEW k \in 1..Len(list)
  PROVE  /\ Lists(RemoveAt(list, k), S \ {list[k]})
         /\ Len(RemoveAt(list, k)) = Len(list) - 1
<1> DEFINE front == SubSeq(list, 1, k - 1)
           back == SubSeq(list, k + 1, Len(list))
<1>0. list \in Seq(Ids) /\ Len(list) \in Nat /\ k \in Nat /\ k - 1 \in 0..Len(list)
  BY DEF Lists
<1>1. front \in Seq(Ids) /\ Len(front) = k - 1 /\ \A i \in 1..(k - 1) : front[i] = list[i]
  BY <1>0, SubSeqOfList
<1>2. /\ back \in Seq(Ids) /\ Len(back) = Len(list) - k
      /\ \A i \in 1..(Len(list) - k) : back[i] = list[k + i]
  <2>1. k + 1 \in 1..(Len(list) + 1)
    BY <1>0
  <2>2. \A i \in Int : k + 1 + i - 1 = k + i
    BY <1>0
  <2> QED
    BY <1>0, <2>1, <2>2, SubSeqOfList
<1> HIDE DEF front, back
<1> DEFINE rest == front \o back
<1>3. /\ rest \in Seq(Ids) /\ Len(rest) = Len(list) - 1
      /\ \A i \in 1..(Len(list) - 1) : rest[i] = IF i < k THEN list[i] ELSE list[i + 1]
  <2>1. /\ rest \in Seq(Ids) /\ Len(rest) = Len(list) - 1
        /\ \A i \in 1..(Len(list) - 1) :
              rest[i] = IF i <= k - 1 THEN front[i] ELSE back[i - (k - 1)]
    BY <1>0, <1>1, <1>2, ConcatOfLists
  <2>2. ASSUME NEW i \in 1..(Len(list) - 1), ~(i < k)
        PROVE  i - (k - 1) \in 1..(Len(list) - k) /\ k + (i - (k - 1)) = i + 1
    BY <1>0, <2>2
  <2>3. \A i \in 1..(Len(list) - 1) : (i < k) = (i <= k - 1) /\ (i < k => i \in 1..(k - 1))
    BY <1>0
  <2> QED
    BY <1>1, <1>2, <2>1, <2>2, <2>3
<1>4. RemoveAt(list, k) = rest
  BY DEF RemoveAt, front, back
<1> HIDE DEF rest
<1>5. Lists(rest, S \ {list[k]})
  <2>1. \A i \in 1..(Len(list) - 1) : i \in 1..Len(list) /\ i + 1 \in 1..Len(list)
    BY <1>0
  <2>2. \A i \in 1..Len(rest) : rest[i] \in S \ {list[k]}
    BY <1>0, <1>3, <2>1 DEF Lists
  <2>3. ASSUME NEW x \in S \ {list[k]} PROVE \E i \in 1..Len(rest) : rest[i] = x
    <3>1. PICK i \in 1..Len(list) : list[i] = x
      BY DEF Lists
    <3>2. CASE i < k
      BY <1>0, <1>3, <3>1, <3>2
    <3>3. CASE i > k
      <4>1. i - 1 \in 1..Len(rest) /\ rest[i - 1] = list[i]
        BY <1>0, <1>3, <3>3
      <4> QED
        BY <3>1, <4>1
    <3>4. i # k
      BY <3>1
    <3> QED
      BY <1>0, <3>2, <3>3, <3>4
  <2>4. \A i, j \in 1..Len(rest) : rest[i] = rest[j] => i = j
    BY <1>0, <1>3, <2>1 DEF Lists
  <2> QED
    BY <1>3, <2>2, <2>3, <2>4 DEF Lists
<1> QED
  BY <1>3, <1>4, <1>5

LEMMA ListsTurnAt ==
  ASSUME NEW list, NEW S, Lists(list, S), NEW k \in 1..Len(list)
  PROVE  LET rest == SubSeq(list, k + 1, Len(list)) \o SubSeq(list, 1, k - 1)
         IN  Lists(rest, S \ {list[k]}) /\ Len(rest) = Len(list) - 1
<1> DEFINE front == SubSeq(list, 1, k - 1)
           back == SubSeq(list, k + 1, Len(list))
           n == Len(list) - k
<1>0. list \in Seq(Ids) /\ Len(list) \in Nat /\ k \in Nat /\ k - 1 \in 0..Len(list) /\ n \in Nat
  BY DEF Lists
<1>1. front \in Seq(Ids) /\ Len(front) = k - 1 /\ \A i \in 1..(k - 1) : front[i] = list[i]
  BY <1>0, SubSeqOfList
<1>2. back \in Seq(Ids) /\ Len(back) = n /\ \A i \in 1..n : back[i] = list[k + i]
  <2>1. k + 1 \in 1..(Len(list) + 1)
    BY <1>0
  <2>2. \A i \in Int : k + 1 + i - 1 = k + i
    BY <1>0
  <2> QED
    BY <1>0, <2>1, <2>2, SubSeqOfList
<1> HIDE DEF front, back
<1> DEFINE rest == back \o front
<1>3. /\ rest \in Seq(Ids) /\ Len(rest) = Len(list) - 1
      /\ \A i \in 1..(Len(list) - 1) : rest[i] = IF i <= n THEN list[k + i] ELSE list[i - n]
  <2>1. /\ rest \in Seq(Ids) /\ Len(rest) = Len(list) - 1
        /\ \A i \in 1..(Len(list) - 1) : rest[i] = IF i <= n THEN back[i] ELSE front[i - n]
    BY <1>0, <1>1, <1>2, ConcatOfLists
  <2>2. \A i \in 1..(Len(list) - 1) : IF i <= n THEN i \in 1..n ELSE i - n \in 1..(k - 1)
    BY <1>0
  <2> QED
    BY <1>1, <1>2, <2>1, <2>2
<1> HIDE DEF rest, n
<1>4. n = Len(list) - k
  BY DEF n
<1>5. Lists(rest, S \ {list[k]})
  <2>1. \A i \in 1..(Len(list) - 1) : IF i <= n THEN k + i \in 1..Len(list) /\ k + i > k
                                      ELSE i - n \in 1..Len(list) /\ i - n < k
    BY <1>0, <1>4
  <2>2. ASSUME NEW i \in 1..Len(rest) PROVE rest[i] \in S \ {list[k]}
    <3> DEFINE place == IF i <= n THEN k + i ELSE i - n
    <3>1. place \in 1..Len(list) /\ place # k /\ rest[i] = list[place]
      BY <1>0, <1>3, <2>1
    <3> HIDE DEF place
    <3> QED
      BY <3>1 DEF Lists
  <2>3. ASSUME NEW x \in S \ {list[k]} PROVE \E i \in 1..Len(rest) : rest[i] = x
    <3>1. PICK i \in 1..Len(list) : list[i] = x
      BY DEF Lists
    <3>2. CASE i < k
      <4>1. i + n \in 1..(Len(list) - 1) /\ ~(i + n <= n) /\ (i + n) - n = i
        BY <1>0, <1>4, <3>2
      <4> QED
        BY <1>3, <3>1, <4>1
    <3>3. CASE i > k
      <4>1. i - k \in 1..(Len(list) - 1) /\ i - k <= n /\ k + (i - k) = i
        BY <1>0, <1>4, <3>3
      <4> QED
        BY <1>3, <3>1, <4>1
    <3>4. i # k
      BY <3>1
    <3> QED
      BY <1>0, <3>2, <3>3, <3>4
  <2>4. ASSUME NEW i \in 1..Len(rest), NEW j \in 1..Len(rest), rest[i] = rest[j] PROVE i = j
    <3> DEFINE place(h) == IF h <= n THEN k + h ELSE h - n
    <3>1. place(i) \in 1..Len(list) /\ place(j) \in 1..Len(list)
      BY <1>0, <1>3, <2>1
    <3>2. list[place(i)] = list[place(j)]
      BY <1>3, <2>4
    <3>3. place(i) = place(j)
      BY <3>1, <3>2 DEF Lists
    <3> QED
      BY <1>0, <1>3, <1>4, <3>3
  <2> QED
    BY <1>3, <2>2, <2>3, <2>4 DEF Lists
<1> QED
  BY <1>3, <1>5 DEF rest, front, back

LEMMA ListsRemoveFirst ==
  ASSUME NEW list, NEW S, Lists(list, S), NEW x
  PROVE  /\ Lists(RemoveFirst(list, x), S \ {x})
         /\ Len(RemoveFirst(list, x)) <= Len(list)
<1>1. CASE \E i \in 1..Len(list) : list[i] = x
  <2> DEFINE places == {i \in 1..Len(list) : list[i] = x}
             k == CHOOSE i \in places : \A j \in places : i <= j
  <2>1. places \in SUBSET Nat /\ places # {}
    BY <1>1
  <2>2. k \in places
    BY <2>1, LeastExists
  <2>3. SelectInSeq(list, LAMBDA v : v = x) = k
    BY <2>1 DEF SelectInSeq, Min
  <2>4. RemoveFirst(list, x) = RemoveAt(list, k)
    BY <1>1, <2>3 DEF RemoveFirst
  <2>5. k \in 1..Len(list) /\ list[k] = x
    BY <2>2
  <2> HIDE DEF k
  <2>6. Len(list) \in Nat
    BY DEF Lists
  <2>7. Lists(RemoveAt(list, k), S \ {x}) /\ Len(RemoveAt(list, k)) = Len(list) - 1
    BY <2>5, ListsRemoveAt
  <2> QED
    BY <2>4, <2>6, <2>7
<1>2. CASE ~\E i \in 1..Len(list) : list[i] = x
  <2>1. RemoveFirst(list, x) = list
    BY <1>2 DEF RemoveFirst
  <2>2. S \ {x} = S
    BY <1>2 DEF Lists
  <2> QED
    BY <2>1, <2>2 DEF Lists
<1> QED
  BY <1>1, <1>2

LEMMA ListsAppend ==
  ASSUME NEW list, NEW S, Lists(list, S), NEW x \in Ids, x \notin S
  PROVE  Lists(Append(list, x), S \cup {x}) /\ Len(Append(list, x)) = Len(list) + 1
<1>1. /\ Append(list, x) \in Seq(Ids) /\ Len(list) \in Nat /\ Len(Append(list, x)) = Len(list) + 1
      /\ Append(list, x)[Len(list) + 1] = x
      /\ \A i \in 1..Len(list) : Append(list, x)[i] = list[i]
  BY DEF Lists
<1> QED
  BY <1>1 DEF Lists

(***************************************************************************)
(* The list of the registry                                                *)
(***************************************************************************)
OrderInv == Lists(order, DOMAIN byID) /\ Len(order) <= Capacity

\* deleteLocked: the owner of f leaves the list.
LEMMA UnlistedNamesTheRest ==
  ASSUME MapsInv, OrderInv, NEW f
  PROVE  /\ Lists(UnlistedOf(f), DOMAIN byID \ Previous(f))
         /\ Len(UnlistedOf(f)) <= Len(order)
<1>1. CASE f \in DOMAIN byFlow
  <2>1. Previous(f) = {byFlow[f]}
    BY <1>1 DEF Previous, MapsInv, MapsAgree
  <2>2. UnlistedOf(f) = RemoveFirst(order, byFlow[f])
    BY <1>1 DEF UnlistedOf, Unlisted
  <2> QED
    BY <2>1, <2>2, ListsRemoveFirst DEF OrderInv
<1>2. CASE f \notin DOMAIN byFlow
  <2>1. Previous(f) = {} /\ UnlistedOf(f) = order
    BY <1>2 DEF Previous, UnlistedOf
  <2>2. DOMAIN byID \ {} = DOMAIN byID /\ Len(order) \in Nat
    BY DEF OrderInv, Lists
  <2> QED
    BY <2>1, <2>2 DEF OrderInv
<1> QED
  BY <1>1, <1>2

\* The scan of put ends at a candidate nobody works on: the new one is the last.
LEMMA PutKeepsOrder ==
  ASSUME RegistryOK, MapsInv, OrderInv, NEW f \in FlowIds, NEW candidate,
         ~InFlight(candidate), issued < MaxId, Put(f, candidate)
  PROVE  /\ OrderInv'
         /\ \A i \in DOMAIN byID \ DOMAIN byID' : i \in Previous(f) \/ ~InFlight(byID[i])
<1> DEFINE id == issued + 1
           ids == [i \in (DOMAIN byID \ Previous(f)) \cup {id} |->
                     IF i = id THEN candidate ELSE byID[i]]
           listed == Append(UnlistedOf(f), id)
           kept == Evicted(ids, listed)
<1>1. byID' = [i \in DOMAIN ids \ kept.gone |-> ids[i]] /\ order' = kept.order
  BY DEF Put
<1>2. id \in Ids /\ id \notin DOMAIN byID
  BY CandidateBounds DEF RegistryOK, MapsInv, Ids
<1>3. /\ Lists(UnlistedOf(f), DOMAIN byID \ Previous(f)) /\ Len(UnlistedOf(f)) <= Len(order)
      /\ UnlistedOf(f) \in Seq(Ids)
  BY UnlistedNamesTheRest DEF Lists
<1>4. DOMAIN ids = (DOMAIN byID \ Previous(f)) \cup {id}
  OBVIOUS
<1>5. Lists(listed, DOMAIN ids) /\ Len(listed) = Len(UnlistedOf(f)) + 1
  BY <1>2, <1>3, <1>4, ListsAppend
<1>6. Len(listed) \in Nat /\ Len(listed) <= Capacity + 1 /\ Len(listed) > 0 /\ Capacity \in Nat
  BY <1>3, <1>5, CandidateBounds DEF OrderInv, Lists
<1>7. Cardinality(DOMAIN ids) = Len(listed)
  BY <1>5, ListsCount
<1>8. ids[id] = candidate /\ listed[Len(listed)] = id
  BY <1>2, <1>3, <1>5
<1>9. \A i \in DOMAIN byID \ Previous(f) : i \in DOMAIN ids /\ ids[i] = byID[i]
  BY <1>2
<1> HIDE DEF ids, listed
<1>10. CASE Cardinality(DOMAIN ids) <= Capacity
  <2>1. kept.gone = {} /\ kept.order = listed
    BY <1>10 DEF Evicted
  <2>2. DOMAIN byID' = DOMAIN ids /\ order' = listed
    BY <1>1, <2>1
  <2>3. OrderInv'
    BY <1>5, <1>7, <1>10, <2>2 DEF OrderInv
  <2> QED
    BY <2>2, <2>3, <1>9
<1>11. CASE ~(Cardinality(DOMAIN ids) <= Capacity)
  <2> DEFINE idle == {i \in 1..Len(listed) : ~InFlight(ids[listed[i]])}
             oldest == CHOOSE i \in idle : \A j \in idle : i <= j
  <2>1. Len(listed) \in idle
    BY <1>6, <1>8
  <2>2. oldest \in idle
    <3>1. idle \in SUBSET Nat /\ idle # {}
      BY <2>1
    <3> QED
      BY <3>1, LeastExists
  <2>3. /\ kept.gone = {listed[oldest]}
        /\ kept.order = SubSeq(listed, oldest + 1, Len(listed)) \o SubSeq(listed, 1, oldest - 1)
    BY <1>11 DEF Evicted
  <2>4. oldest \in 1..Len(listed) /\ ~InFlight(ids[listed[oldest]])
    BY <2>2
  <2> HIDE DEF idle, oldest
  <2>5. DOMAIN byID' = DOMAIN ids \ {listed[oldest]}
    BY <1>1, <2>3
  <2>6. Lists(order', DOMAIN ids \ {listed[oldest]}) /\ Len(order') = Len(listed) - 1
    <3> DEFINE rest == SubSeq(listed, oldest + 1, Len(listed)) \o SubSeq(listed, 1, oldest - 1)
    <3>1. Lists(rest, DOMAIN ids \ {listed[oldest]}) /\ Len(rest) = Len(listed) - 1
      BY <1>5, <2>4, ListsTurnAt
    <3>2. order' = rest
      BY <1>1, <2>3
    <3> HIDE DEF rest
    <3> QED
      BY <3>1, <3>2
  <2>7. OrderInv'
    BY <1>6, <2>5, <2>6 DEF OrderInv
  <2>8. ASSUME NEW i \in DOMAIN byID \ DOMAIN byID', i \notin Previous(f)
        PROVE  ~InFlight(byID[i])
    <3>1. i \in DOMAIN ids /\ ids[i] = byID[i]
      BY <2>8, <1>9
    <3>2. i = listed[oldest]
      BY <2>5, <2>8, <3>1
    <3> QED
      BY <2>4, <3>1, <3>2
  <2> QED
    BY <2>7, <2>8
<1> QED
  BY <1>10, <1>11

LEMMA InPlaceKeepsOrder ==
  ASSUME OrderInv, order' = order, DOMAIN byID' = DOMAIN byID
  PROVE  OrderInv'
  BY DEF OrderInv

LEMMA FinishesKeepOrder ==
  ASSUME OrderInv, NEW id, NEW undo, NEW used \in BOOLEAN,
         FinishApply(id, undo) \/ FinishUndo(id, used)
  PROVE  OrderInv'
<1>1. CASE id \in DOMAIN byID /\ byID[id].undoing /\ used /\ FinishUndo(id, used)
  <2>1. DOMAIN byID' = DOMAIN byID \ {id} /\ order' = RemoveFirst(order, id)
    BY <1>1 DEF FinishUndo, Without, Unlisted
  <2>2. Lists(order', DOMAIN byID') /\ Len(order') <= Len(order)
    BY <2>1, ListsRemoveFirst DEF OrderInv
  <2>3. Len(order) \in Nat /\ Len(order') \in Nat /\ Capacity \in Nat
    BY <2>2, CandidateBounds DEF OrderInv, Lists
  <2> QED
    BY <2>2, <2>3 DEF OrderInv
<1>2. CASE id \in DOMAIN byID /\ byID[id].undoing /\ ~used /\ FinishUndo(id, used)
  BY <1>2, InPlaceKeepsOrder DEF FinishUndo
<1>3. CASE id \in DOMAIN byID /\ byID[id].applying /\ FinishApply(id, undo)
  BY <1>3, InPlaceKeepsOrder DEF FinishApply
<1>4. CASE UNCHANGED registry
  BY <1>4, InPlaceKeepsOrder DEF registry
<1> QED
  BY <1>1, <1>2, <1>3, <1>4 DEF FinishApply, FinishUndo

LEMMA ForgettingKeepsOrder ==
  ASSUME MapsInv, OrderInv, NEW f, Forget(f)
  PROVE  OrderInv'
<1>1. DOMAIN byID' = DOMAIN byID \ Previous(f) /\ order' = UnlistedOf(f)
  BY DEF Forget, Without, Previous
<1>2. Lists(order', DOMAIN byID') /\ Len(order') <= Len(order)
  BY <1>1, UnlistedNamesTheRest
<1>3. Len(order) \in Nat /\ Len(order') \in Nat /\ Capacity \in Nat
  BY <1>2, CandidateBounds DEF OrderInv, Lists
<1> QED
  BY <1>2, <1>3 DEF OrderInv

\* Every step keeps the list.
LEMMA OrderStep ==
  ASSUME HistoryInv, MapsInv, OrderInv, [CandidatesNext]_candidateVars
  PROVE  OrderInv'
<1>1. RegistryOK
  BY DEF HistoryInv, DataOK
<1>2. CASE UNCHANGED <<byID, order>>
  BY <1>2, InPlaceKeepsOrder
<1>3. CASE Restart
  <2>1. byID' = << >> /\ order' = << >>
    BY <1>3 DEF Restart
  <2> QED
    BY <2>1, CandidateBounds DEF OrderInv, Lists
<1>4. ASSUME NEW r \in Requests, DesignIsPut(r), ~UNCHANGED <<byID, order>>
      PROVE  OrderInv'
  <2>1. /\ Put(request[r].flow, NewCandidate(request[r].flow, request[r]))
        /\ issued < MaxId /\ request[r].at = "reviewed"
    BY <1>4 DEF DesignIsPut
  <2>2. request[r].flow \in FlowIds
    <3>1. request[r] \in Designers
      BY <2>1, StagesOfTasks DEF HistoryInv, DataOK, RequestsOK
    <3> QED
      BY <3>1 DEF Designers
  <2>3. ~InFlight(NewCandidate(request[r].flow, request[r]))
    BY DEF InFlight, NewCandidate
  <2> QED
    BY <1>1, <2>1, <2>2, <2>3, PutKeepsOrder
<1>5. ASSUME NEW r \in Requests, ApplyEnds(r) \/ ReleaseApply(r) \/ UndoEnds(r) \/ ReleaseUndo(r)
      PROVE  OrderInv'
  <2>1. \/ \E undo : FinishApply(request[r].id, undo)
        \/ \E used \in BOOLEAN : FinishUndo(request[r].id, used)
    BY <1>5 DEF ApplyEnds, ReleaseApply, UndoEnds, ReleaseUndo
  <2> QED
    BY <2>1, FinishesKeepOrder
<1>6. ASSUME NEW r \in Requests, ForgetDeletedFlow(r)
      PROVE  OrderInv'
  BY <1>6, ForgettingKeepsOrder DEF ForgetDeletedFlow
<1>7. ASSUME NEW r \in Requests, NEW id \in Ids, NEW f \in FlowIds,
             BeginApply(r, id, f) \/ BeginUndo(r, id, f)
      PROVE  OrderInv'
  BY <1>7, InPlaceKeepsOrder DEF BeginApply, BeginUndo
<1> QED
  BY <1>2, <1>3, <1>4, <1>5, <1>6, <1>7
     DEF CandidatesNext, Asks, Proceeds, Designs, Applies, Undoes, candidateVars,
         EditModel, AssignRoles, DeleteFlowQuietly, CreateFlow, DesignReadsRoles, DeleteFlow,
         DesignReadsRevision, DesignReadsDiagram, ReviewAccepts, DesignFails, CommitApply,
         RefuseApply, LoseAppliedAnswer, CommitUndo, ExpireUndo, FailUndo

\* What the registry holds, its two maps and its list, in every state.
RegistryInv == HistoryInv /\ MapsInv /\ OrderInv /\ MarksHaveAnOwner

\* It holds for any capacity, whatever the requests do at the same time.
THEOREM RegistryStaysInOrder == CandidatesSpec => []RegistryInv
<1>1. CandidatesInit => MapsInv /\ OrderInv
  <2>1. CandidatesInit => MapsInv
    BY DEF CandidatesInit, MapsInv, MapsAgree
  <2>2. CandidatesInit => OrderInv
    BY CandidateBounds DEF CandidatesInit, OrderInv, Lists
  <2> QED
    BY <2>1, <2>2
<1>2. HistoryInv /\ MapsInv /\ OrderInv /\ [CandidatesNext]_candidateVars => MapsInv' /\ OrderInv'
  BY MapsStep, OrderStep
<1> QED
  BY <1>1, <1>2, RevisionsNameContents, MarksAreOwned, PTL DEF CandidatesSpec, RegistryInv

\* The diagrams, the registry and the requests have the shape of the Go types.
THEOREM CandidatesTypeCorrect == CandidatesSpec => []CandidatesTypeOK
<1>1. RegistryInv => CandidatesTypeOK
  BY DEF RegistryInv, HistoryInv, DataOK, ModelOK, RegistryOK, RequestsOK, FlowRecords,
         OrderInv, Lists, CandidatesTypeOK
<1> QED
  BY <1>1, RegistryStaysInOrder, PTL

\* Maps and list describe the same candidates, never more than the capacity, whichever of
\* them put drops, and one for each flowsheet.
THEOREM RegistryStaysConsistent == CandidatesSpec => []RegistryIsConsistent
<1>1. ASSUME RegistryInv PROVE RegistryIsConsistent
  <2>1. Lists(order, DOMAIN byID) /\ Len(order) <= Capacity /\ MapsAgree
    BY <1>1 DEF RegistryInv, MapsInv, OrderInv
  <2>2. {order[i] : i \in 1..Len(order)} = DOMAIN byID
    <3>1. \A i \in 1..Len(order) : order[i] \in DOMAIN byID
      BY <2>1 DEF Lists
    <3>2. \A x \in DOMAIN byID : \E i \in 1..Len(order) : order[i] = x
      BY <2>1 DEF Lists
    <3> QED
      BY <3>1, <3>2
  <2>3. Len(order) = Cardinality(DOMAIN byID)
    BY <2>1, ListsCount
  <2> QED
    BY <2>1, <2>2, <2>3 DEF RegistryIsConsistent
<1> QED
  BY <1>1, RegistryStaysInOrder, PTL

\* Work is taken out of the registry by its own undo, the deletion of the flowsheet's page
\* or a restart, and never by put.
THEOREM WorkStaysInTheRegistry == CandidatesSpec => WorkIsNotEvicted
<1> DEFINE Gone(i) ==
      \/ request' = [r \in Requests |-> Idle]
      \/ \E r \in Requests :
            \/ request[r].at = "undone" /\ request[r].id = i
            \/ request[r].at = "deleted" /\ request[r].flow = byID[i].flow
<1>1. ASSUME RegistryInv, [CandidatesNext]_candidateVars, NEW i \in DOMAIN byID,
             InFlight(byID[i]), i \notin DOMAIN byID'
      PROVE  Gone(i)
  <2>1. RegistryOK /\ MapsInv /\ OrderInv
    BY <1>1 DEF RegistryInv, HistoryInv, DataOK
  <2>2. CASE Restart
    BY <2>2 DEF Restart
  <2>3. ASSUME NEW r \in Requests, DesignIsPut(r)
        PROVE  FALSE
    <3> DEFINE f == request[r].flow
    <3>1. /\ Put(f, NewCandidate(f, request[r])) /\ ~Busy(f)
          /\ issued < MaxId /\ request[r].at = "reviewed"
      BY <1>1, <2>3 DEF DesignIsPut
    <3>2. f \in FlowIds
      <4>1. request[r] \in Designers
        BY <1>1, <3>1, StagesOfTasks DEF RegistryInv, HistoryInv, DataOK, RequestsOK
      <4> QED
        BY <4>1 DEF Designers
    <3>3. ~InFlight(NewCandidate(f, request[r]))
      BY DEF InFlight, NewCandidate
    <3> HIDE DEF f
    <3>4. i \in Previous(f) \/ ~InFlight(byID[i])
      BY <1>1, <2>1, <3>1, <3>2, <3>3, PutKeepsOrder
    <3> QED
      BY <1>1, <3>1, <3>4 DEF Busy
  <2>4. ASSUME NEW r \in Requests, UndoEnds(r)
        PROVE  Gone(i)
    BY <1>1, <2>4 DEF UndoEnds, FinishUndo, Without, registry
  <2>5. ASSUME NEW r \in Requests, ApplyEnds(r) \/ ReleaseApply(r) \/ ReleaseUndo(r)
        PROVE  FALSE
    BY <1>1, <2>5 DEF ApplyEnds, ReleaseApply, ReleaseUndo, FinishApply, FinishUndo, registry
  <2>6. ASSUME NEW r \in Requests, ForgetDeletedFlow(r)
        PROVE  Gone(i)
    <3>1. request[r].flow \in DOMAIN byFlow /\ i = byFlow[request[r].flow]
      BY <1>1, <2>6 DEF ForgetDeletedFlow, Forget, Without
    <3>2. byID[i].flow = request[r].flow
      BY <2>1, <3>1 DEF MapsInv, MapsAgree
    <3> QED
      BY <2>6, <3>2 DEF ForgetDeletedFlow
  <2>7. ASSUME NEW r \in Requests, NEW id \in Ids, NEW f \in FlowIds,
               BeginApply(r, id, f) \/ BeginUndo(r, id, f)
        PROVE  FALSE
    BY <1>1, <2>7 DEF BeginApply, BeginUndo
  <2>8. ~UNCHANGED byID
    BY <1>1
  <2> QED
    BY <1>1, <2>2, <2>3, <2>4, <2>5, <2>6, <2>7, <2>8
       DEF CandidatesNext, Asks, Proceeds, Designs, Applies, Undoes, candidateVars,
           EditModel, AssignRoles, DeleteFlowQuietly, CreateFlow, DesignReadsRoles, DeleteFlow,
           DesignReadsRevision, DesignReadsDiagram, ReviewAccepts, DesignFails, CommitApply,
           RefuseApply, LoseAppliedAnswer, CommitUndo, ExpireUndo, FailUndo
<1>2. RegistryInv /\ [CandidatesNext]_candidateVars
      => [\A i \in DOMAIN byID : InFlight(byID[i]) /\ i \notin DOMAIN byID' => Gone(i)]_candidateVars
  BY <1>1
<1> QED
  BY <1>2, RegistryStaysInOrder, PTL DEF CandidatesSpec, WorkIsNotEvicted
=============================================================================
