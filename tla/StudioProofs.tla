----------------------------- MODULE StudioProofs -----------------------------
(***************************************************************************)
(* Theorems about the store, runs and analyses of Freshness, for any jobs  *)
(* and bounds, and about the studio that calculates with them: none of the *)
(* calculations' steps touches the store, a sweep covers its grid, a plan  *)
(* is a schedule, a model that is compiled is its diagram, and control     *)
(* models are those of their flowsheet.                                    *)
(***************************************************************************)
EXTENDS Calculations, PlanProofs, TLAPS

Reading == {"revision", "blocks", "wires"}

\* The inductive invariant of analyses.  A revision is read before the content it will
\* stand for, and an edit moves model_updated_at past every revision read so far: as long
\* as the two are equal, nothing was edited since the read.
FlowIsOld == flow.live => flow.model <= clock
NoFlowNoResults == ~flow.live => analysis = NoRecord /\ runs = << >>
RevisionsAreOld ==
    /\ \A j \in Jobs : job[j].stage \in Reading => job[j].revision <= clock
    /\ analysis # NoRecord => analysis.revision <= clock
JobsReadTheirRevision ==
    \A j \in Jobs : flow.live /\ job[j].stage \in Reading /\ job[j].revision = flow.model
        => /\ job[j].stage = "blocks" => job[j].content.blocks = flow.content.blocks
           /\ job[j].stage = "wires"  => job[j].content = flow.content
AnalysisInv ==
    /\ TypeOK
    /\ FlowIsOld
    /\ NoFlowNoResults
    /\ RevisionsAreOld
    /\ JobsReadTheirRevision
    /\ CurrentAnalysisIsOfTheModel

LEMMA InitEstablishesAnalysisInv == Init => AnalysisInv
  BY FreshnessBounds DEF Init, AnalysisInv, TypeOK, FlowIsOld, NoFlowNoResults, RevisionsAreOld,
     JobsReadTheirRevision, CurrentAnalysisIsOfTheModel, NewFlow, NoFlow, NoRecord, Idle, Times,
     Content, JobType, RunType, Reading

(***************************************************************************)
(* Types                                                                   *)
(***************************************************************************)
LEMMA TimesAreNumbers == \A t \in Times : t \in Int
  BY FreshnessBounds DEF Times

\* A job that has read something, whatever it has read.
LEMMA StagesOfJobs ==
  ASSUME TypeOK, NEW j \in Jobs
  PROVE  /\ job[j] # Idle /\ job[j].stage \in Reading
              => /\ job[j].revision \in Times /\ job[j].overlapped \in BOOLEAN
                 /\ job[j].kind \in {"simulation", "analysis"}
         /\ job[j].stage = "blocks" => job[j].content \in [blocks: Times]
         /\ job[j].stage = "wires"  => job[j].content \in Content
         /\ job[j].stage = "stamped" => /\ job[j].created \in Times /\ job[j].content \in Content
                                        /\ job[j].overlapped \in BOOLEAN
  BY DEF TypeOK, JobType, Idle, Reading

LEMMA OverlappedKeepsType ==
  ASSUME TypeOK
  PROVE  Overlapped \in [Jobs -> JobType]
<1> SUFFICES ASSUME NEW j \in Jobs
             PROVE  Overlapped[j] \in JobType
  BY DEF Overlapped
<1>1. job[j] \in JobType
  BY DEF TypeOK
<1>2. CASE job[j].stage \notin Reading
  BY <1>1, <1>2 DEF Overlapped, Reading
<1>3. CASE job[j].stage \in Reading
  <2>1. Overlapped[j] = [job[j] EXCEPT !.overlapped = TRUE]
    BY <1>3 DEF Overlapped, Reading
  <2> QED
    BY <1>1, <1>3, <2>1 DEF JobType, Idle, Reading
<1> QED
  BY <1>2, <1>3

\* A step of one job that changes no row.
LEMMA JobStepKeepsType ==
  ASSUME TypeOK, NEW j \in Jobs, NEW next \in JobType, job' = [job EXCEPT ![j] = next],
         clock' \in Times, UNCHANGED <<flow, runs, analysis>>
  PROVE  TypeOK'
  BY DEF TypeOK

LEMMA IdleIsJob == Idle \in JobType
  BY DEF JobType

LEMMA FlowType ==
  ASSUME TypeOK, flow.live
  PROVE  flow.model \in Times /\ flow.content \in Content
                /\ flow.content.blocks \in Times /\ flow.content.wires \in Times
<1>1. flow # NoFlow
  <2>1. NoFlow.live = FALSE
    BY DEF NoFlow
  <2> QED
    BY <2>1, Zenon
<1> QED
  BY <1>1 DEF TypeOK, Content

LEMMA ReadWiresReads ==
  ASSUME TypeOK, NEW j \in Jobs, ReadWires(j)
  PROVE  LET next == [stage |-> "wires", kind |-> job[j].kind, revision |-> job[j].revision,
                      overlapped |-> job[j].overlapped,
                      content |-> [blocks |-> job[j].content.blocks,
                                   wires  |-> flow.content.wires]]
         IN  /\ next \in JobType
             /\ job' = [job EXCEPT ![j] = next]
             /\ UNCHANGED <<clock, flow, runs, analysis>>
<1>1. job[j].stage = "blocks" /\ job[j].stage \in Reading /\ job[j] # Idle /\ flow.live
  BY DEF ReadWires, Reading, Idle
<1>2. [blocks |-> job[j].content.blocks, wires |-> flow.content.wires] \in Content
  BY <1>1, FlowType, StagesOfJobs DEF Content
<1> QED
  BY <1>1, <1>2, StagesOfJobs DEF ReadWires, JobType

LEMMA EditKeepsType ==
  ASSUME TypeOK, NEW parts \in SUBSET {"blocks", "wires"}, Edit(parts)
  PROVE  TypeOK'
<1> DEFINE content == [p \in DOMAIN flow.content |-> IF p \in parts THEN Now ELSE flow.content[p]]
<1>1. Now \in Times /\ clock' = Now
  BY DEF Edit, Ticks
<1>2. content \in Content
  <2>1. flow.content \in Content
    BY FlowType DEF Edit
  <2> QED
    BY <1>1, <2>1 DEF Content
<1>4. flow' = [live |-> TRUE, model |-> Now, content |-> content]
  BY DEF Edit
<1> HIDE DEF content
<1>5. flow' \in [live: {TRUE}, model: Times, content: Content]
  BY <1>1, <1>2, <1>4
<1> QED
  BY <1>1, <1>5, OverlappedKeepsType DEF Edit, TypeOK

LEMMA TypeStep == TypeOK /\ [Next]_vars => TypeOK'
<1> SUFFICES ASSUME TypeOK, [Next]_vars
             PROVE  TypeOK'
  OBVIOUS
<1> USE IdleIsJob
<1>1. ASSUME NEW parts \in SUBSET {"blocks", "wires"}, Edit(parts)
      PROVE  TypeOK'
  BY <1>1, EditKeepsType
<1>2. CASE DeleteFlow
  <2>1. job' \in [Jobs -> JobType]
    BY <1>2, OverlappedKeepsType DEF DeleteFlow
  <2>2. clock' = clock /\ flow' = NoFlow /\ runs' = << >> /\ analysis' = NoRecord
    BY <1>2 DEF DeleteFlow
  <2> QED
    BY <2>1, <2>2 DEF TypeOK
<1>3. CASE CreateFlow
  <2>1. Now \in Times /\ clock' = Now
    BY <1>3 DEF CreateFlow, Ticks
  <2>2. flow' \in [live: {TRUE}, model: Times, content: Content]
    BY <1>3, <2>1 DEF CreateFlow, NewFlow, Content
  <2>3. job' \in [Jobs -> JobType] /\ UNCHANGED <<runs, analysis>>
    BY <1>3, OverlappedKeepsType DEF CreateFlow
  <2> QED
    BY <2>1, <2>2, <2>3 DEF TypeOK
<1>4. ASSUME NEW j \in Jobs, NEW kind \in {"simulation", "analysis"}, ReadRevision(j, kind)
      PROVE  TypeOK'
  <2> DEFINE next == [stage |-> "revision", kind |-> kind, revision |-> flow.model,
                      overlapped |-> FALSE]
  <2>1. next \in JobType
    BY <1>4, FlowType DEF ReadRevision, JobType
  <2>2. job' = [job EXCEPT ![j] = next] /\ UNCHANGED <<clock, flow, runs, analysis>>
    BY <1>4 DEF ReadRevision
  <2> QED
    BY <2>1, <2>2, JobStepKeepsType DEF TypeOK
<1>5. ASSUME NEW j \in Jobs, ReadBlocks(j)
      PROVE  TypeOK'
  <2> DEFINE next == [stage |-> "blocks", kind |-> job[j].kind, revision |-> job[j].revision,
                      overlapped |-> job[j].overlapped,
                      content |-> [blocks |-> flow.content.blocks]]
  <2>1. job[j].stage \in Reading /\ job[j] # Idle /\ flow.live
    BY <1>5 DEF ReadBlocks, Reading, Idle
  <2>2. next \in JobType
    BY <2>1, FlowType, StagesOfJobs DEF JobType
  <2>3. job' = [job EXCEPT ![j] = next] /\ UNCHANGED <<clock, flow, runs, analysis>>
    BY <1>5 DEF ReadBlocks
  <2> QED
    BY <2>2, <2>3, JobStepKeepsType DEF TypeOK
<1>6. ASSUME NEW j \in Jobs, ReadWires(j)
      PROVE  TypeOK'
  BY <1>6, ReadWiresReads, JobStepKeepsType DEF TypeOK
<1>7. ASSUME NEW j \in Jobs, StampRun(j)
      PROVE  TypeOK'
  <2> DEFINE next == [stage |-> "stamped", created |-> Now, content |-> job[j].content,
                      overlapped |-> job[j].overlapped]
  <2>1. Now \in Times /\ clock' = Now
    BY <1>7 DEF StampRun, Ticks
  <2>2. job[j].stage = "wires" /\ job[j].stage \in Reading /\ job[j] # Idle
    BY <1>7 DEF StampRun, Reading, Idle
  <2>3. next \in JobType
    BY <2>1, <2>2, StagesOfJobs DEF JobType
  <2>4. job' = [job EXCEPT ![j] = next] /\ UNCHANGED <<flow, runs, analysis>>
    BY <1>7 DEF StampRun
  <2> QED
    BY <2>1, <2>3, <2>4, JobStepKeepsType
<1>8. ASSUME NEW j \in Jobs, CommitRun(j)
      PROVE  TypeOK'
  <2>1. RunRecord(job[j]) \in RunType
    BY <1>8, StagesOfJobs DEF CommitRun, RunRecord, RunType
  <2>2. runs' \in Seq(RunType)
    BY <1>8, <2>1 DEF CommitRun, TypeOK
  <2>3. job' \in [Jobs -> JobType] /\ UNCHANGED <<clock, flow, analysis>>
    BY <1>8 DEF CommitRun, TypeOK
  <2> QED
    BY <2>2, <2>3 DEF TypeOK
<1>9. ASSUME NEW j \in Jobs, CommitAnalysis(j)
      PROVE  TypeOK'
  <2>1. job[j].stage = "wires" /\ job[j].stage \in Reading /\ job[j] # Idle
    BY <1>9 DEF CommitAnalysis, Reading, Idle
  <2>2. analysis' \in [stored: {TRUE}, revision: Times, content: Content]
    BY <1>9, <2>1, StagesOfJobs DEF CommitAnalysis, AnalysisRecord
  <2>3. job' \in [Jobs -> JobType] /\ UNCHANGED <<clock, flow, runs>>
    BY <1>9 DEF CommitAnalysis, TypeOK
  <2> QED
    BY <2>2, <2>3 DEF TypeOK
<1>10. ASSUME NEW j \in Jobs, EndJob(j)
       PROVE  TypeOK'
  BY <1>10, JobStepKeepsType DEF EndJob, TypeOK
<1>11. CASE UNCHANGED vars
  BY <1>11 DEF vars, TypeOK
<1> QED
  BY <1>1, <1>2, <1>3, <1>4, <1>5, <1>6, <1>7, <1>8, <1>9, <1>10, <1>11 DEF Next

(***************************************************************************)
(* Analyses                                                                *)
(***************************************************************************)
LEMMA OverlappedReadsTheSame ==
  ASSUME TypeOK, NEW j \in Jobs
  PROVE  /\ Overlapped[j].stage = job[j].stage
         /\ job[j].stage \in Reading => Overlapped[j].revision = job[j].revision
         /\ job[j].stage \in {"blocks", "wires"} => Overlapped[j].content = job[j].content
<1>1. CASE job[j].stage \notin Reading
  BY <1>1 DEF Overlapped, Reading
<1>2. CASE job[j].stage \in Reading
  <2>1. Overlapped[j] = [job[j] EXCEPT !.overlapped = TRUE]
    BY <1>2 DEF Overlapped, Reading
  <2> QED
    BY <1>2, <2>1 DEF TypeOK, JobType, Idle, Reading
<1> QED
  BY <1>1, <1>2

\* A step that makes what was read old: an edit, or a flowsheet of the same rowid.
LEMMA EditingKeepsAnalysisInv ==
  ASSUME AnalysisInv, TypeOK', clock' = Now, job' = Overlapped, UNCHANGED <<runs, analysis>>,
         flow'.live, flow'.model = Now
  PROVE  AnalysisInv'
<1>1. clock \in Int /\ Now \in Int /\ Now > clock
  BY TimesAreNumbers DEF AnalysisInv, TypeOK, Now
<1>2. FlowIsOld' /\ NoFlowNoResults'
  BY <1>1 DEF FlowIsOld, NoFlowNoResults, Now
<1>3. \A j \in Jobs : job'[j].stage \in Reading => job'[j].revision <= clock
  BY OverlappedReadsTheSame DEF AnalysisInv, RevisionsAreOld
<1>4. \A j \in Jobs : job'[j].stage \in Reading => job'[j].revision \in Int
  BY OverlappedReadsTheSame, StagesOfJobs DEF AnalysisInv, Times, Reading, Idle
<1>5. analysis # NoRecord => analysis.revision \in Int /\ analysis.revision <= clock
  BY TimesAreNumbers DEF AnalysisInv, TypeOK, RevisionsAreOld
<1>6. RevisionsAreOld'
  <2>1. \A j \in Jobs : job'[j].stage \in Reading => job'[j].revision <= clock'
    BY <1>1, <1>3, <1>4
  <2>2. analysis' # NoRecord => analysis'.revision <= clock'
    BY <1>1, <1>5
  <2> QED
    BY <2>1, <2>2 DEF RevisionsAreOld
<1>7. JobsReadTheirRevision'
  BY <1>1, <1>3, <1>4 DEF JobsReadTheirRevision
<1>8. CurrentAnalysisIsOfTheModel'
  BY <1>1, <1>5 DEF CurrentAnalysisIsOfTheModel
<1> QED
  BY <1>2, <1>6, <1>7, <1>8 DEF AnalysisInv

\* A step of one job that changes no row, and what its next stage has read.
LEMMA ReadingKeepsAnalysisInv ==
  ASSUME AnalysisInv, TypeOK', NEW j \in Jobs, NEW next, job' = [job EXCEPT ![j] = next],
         clock' \in Int, clock <= clock', UNCHANGED <<flow, runs, analysis>>,
         next.stage \in Reading => next.revision <= clock,
         flow.live /\ next.stage \in Reading /\ next.revision = flow.model
           => /\ next.stage = "blocks" => next.content.blocks = flow.content.blocks
              /\ next.stage = "wires"  => next.content = flow.content
  PROVE  AnalysisInv'
<1>1. \A i \in Jobs : job'[i] = IF i = j THEN next ELSE job[i]
  BY DEF AnalysisInv, TypeOK
<1>2. FlowIsOld'
  <2> SUFFICES ASSUME flow.live
               PROVE  flow.model <= clock'
    BY DEF FlowIsOld
  <2>1. flow.model \in Int /\ clock \in Int
    BY FlowType, TimesAreNumbers DEF AnalysisInv, TypeOK
  <2>2. flow.model <= clock
    BY DEF AnalysisInv, FlowIsOld
  <2> QED
    BY <2>1, <2>2
<1>3. NoFlowNoResults' /\ CurrentAnalysisIsOfTheModel'
  BY DEF AnalysisInv, NoFlowNoResults, CurrentAnalysisIsOfTheModel
<1>4. \A i \in Jobs : job'[i].stage \in Reading => job'[i].revision <= clock
  BY <1>1 DEF AnalysisInv, RevisionsAreOld
<1>5. \A i \in Jobs : job'[i].stage \in Reading => job'[i].revision \in Int
  <2> SUFFICES ASSUME NEW i \in Jobs, job'[i].stage \in Reading
               PROVE  job'[i].revision \in Int
    OBVIOUS
  <2> QED BY DEF TypeOK, JobType, Times, Reading, Idle
<1>6. RevisionsAreOld'
  <2>1. clock \in Int /\ (analysis # NoRecord => analysis.revision \in Int)
    BY TimesAreNumbers DEF AnalysisInv, TypeOK
  <2> QED
    BY <1>4, <1>5, <2>1 DEF AnalysisInv, RevisionsAreOld
<1>7. JobsReadTheirRevision'
  BY <1>1 DEF AnalysisInv, JobsReadTheirRevision
<1> QED
  BY <1>2, <1>3, <1>6, <1>7 DEF AnalysisInv

LEMMA AnalysisStep == AnalysisInv /\ [Next]_vars => AnalysisInv'
<1> SUFFICES ASSUME AnalysisInv, [Next]_vars
             PROVE  AnalysisInv'
  OBVIOUS
<1>0. TypeOK /\ TypeOK' /\ clock \in Int
  BY TypeStep, TimesAreNumbers DEF AnalysisInv, TypeOK
<1> Idle.stage \notin Reading
  BY DEF Idle, Reading
<1>1. ASSUME NEW parts \in SUBSET {"blocks", "wires"}, Edit(parts)
      PROVE  AnalysisInv'
  BY <1>0, <1>1, EditingKeepsAnalysisInv DEF Edit, Ticks
<1>2. CASE DeleteFlow
  <2>1. /\ flow' = NoFlow /\ runs' = << >> /\ analysis' = NoRecord /\ clock' = clock
        /\ job' = Overlapped
    BY <1>2 DEF DeleteFlow
  <2>2. ~flow'.live
    BY <2>1 DEF NoFlow
  <2>3. RevisionsAreOld'
    BY <1>0, <2>1, OverlappedReadsTheSame DEF AnalysisInv, RevisionsAreOld
  <2> QED
    BY <1>0, <2>1, <2>2, <2>3
       DEF AnalysisInv, FlowIsOld, NoFlowNoResults, JobsReadTheirRevision,
           CurrentAnalysisIsOfTheModel
<1>3. CASE CreateFlow
  BY <1>0, <1>3, EditingKeepsAnalysisInv DEF CreateFlow, Ticks, NewFlow
<1>4. ASSUME NEW j \in Jobs, NEW kind \in {"simulation", "analysis"}, ReadRevision(j, kind)
      PROVE  AnalysisInv'
  <2> DEFINE next == [stage |-> "revision", kind |-> kind, revision |-> flow.model,
                      overlapped |-> FALSE]
  <2>1. job' = [job EXCEPT ![j] = next] /\ flow.live /\ UNCHANGED <<clock, flow, runs, analysis>>
    BY <1>4 DEF ReadRevision
  <2>2. next.stage = "revision" /\ next.revision <= clock
    BY <2>1 DEF AnalysisInv, FlowIsOld
  <2>3. clock' \in Int /\ clock <= clock' /\ UNCHANGED <<flow, runs, analysis>>
    BY <1>0, <2>1
  <2> HIDE DEF next
  <2> QED
    BY <1>0, <2>1, <2>2, <2>3, ReadingKeepsAnalysisInv
<1>5. ASSUME NEW j \in Jobs, ReadBlocks(j)
      PROVE  AnalysisInv'
  <2> DEFINE next == [stage |-> "blocks", kind |-> job[j].kind, revision |-> job[j].revision,
                      overlapped |-> job[j].overlapped,
                      content |-> [blocks |-> flow.content.blocks]]
  <2>1. job' = [job EXCEPT ![j] = next] /\ UNCHANGED <<clock, flow, runs, analysis>>
    BY <1>5 DEF ReadBlocks
  <2>2. /\ next.stage = "blocks" /\ next.revision = job[j].revision
        /\ next.content.blocks = flow.content.blocks
    OBVIOUS
  <2>3. job[j].revision <= clock
    BY <1>5 DEF ReadBlocks, AnalysisInv, RevisionsAreOld, Reading
  <2>4. clock' \in Int /\ clock <= clock' /\ UNCHANGED <<flow, runs, analysis>>
    BY <1>0, <2>1
  <2> HIDE DEF next
  <2> QED
    BY <1>0, <2>1, <2>2, <2>3, <2>4, ReadingKeepsAnalysisInv
<1>6. ASSUME NEW j \in Jobs, ReadWires(j)
      PROVE  AnalysisInv'
  <2> DEFINE read == [blocks |-> job[j].content.blocks, wires |-> flow.content.wires]
             next == [stage |-> "wires", kind |-> job[j].kind, revision |-> job[j].revision,
                      overlapped |-> job[j].overlapped, content |-> read]
  <2>1. job' = [job EXCEPT ![j] = next] /\ UNCHANGED <<clock, flow, runs, analysis>>
    BY <1>6 DEF ReadWires
  <2>2. next.stage = "wires" /\ next.revision = job[j].revision /\ next.content = read
    OBVIOUS
  <2>3. job[j].stage = "blocks" /\ job[j].revision <= clock /\ flow.live
    BY <1>6 DEF ReadWires, AnalysisInv, RevisionsAreOld, Reading
  <2>4. job[j].revision = flow.model => read = flow.content
    BY <1>0, <2>3, FlowType DEF AnalysisInv, JobsReadTheirRevision, Content, Reading
  <2>5. clock' \in Int /\ clock <= clock' /\ UNCHANGED <<flow, runs, analysis>>
    BY <1>0, <2>1
  <2> HIDE DEF next
  <2> QED
    BY <1>0, <2>1, <2>2, <2>3, <2>4, <2>5, ReadingKeepsAnalysisInv
<1>7. ASSUME NEW j \in Jobs, StampRun(j)
      PROVE  AnalysisInv'
  <2> DEFINE next == [stage |-> "stamped", created |-> Now, content |-> job[j].content,
                      overlapped |-> job[j].overlapped]
  <2>1. job' = [job EXCEPT ![j] = next] /\ clock' = Now /\ UNCHANGED <<flow, runs, analysis>>
    BY <1>7 DEF StampRun, Ticks
  <2>2. next.stage \notin Reading
    BY DEF Reading
  <2>3. clock' \in Int /\ clock <= clock'
    BY <1>0, <2>1 DEF Now
  <2> HIDE DEF next
  <2> QED
    BY <1>0, <2>1, <2>2, <2>3, ReadingKeepsAnalysisInv
<1>8. ASSUME NEW j \in Jobs, CommitRun(j)
      PROVE  AnalysisInv'
  BY <1>0, <1>8 DEF CommitRun, AnalysisInv, TypeOK, FlowIsOld, NoFlowNoResults, RevisionsAreOld,
       JobsReadTheirRevision, CurrentAnalysisIsOfTheModel
<1>9. ASSUME NEW j \in Jobs, CommitAnalysis(j)
      PROVE  AnalysisInv'
  <2>1. /\ job[j].stage = "wires" /\ job[j].stage \in Reading /\ flow.live
        /\ analysis' = AnalysisRecord(job[j]) /\ job' = [job EXCEPT ![j] = Idle]
        /\ UNCHANGED <<clock, flow, runs>>
    BY <1>9 DEF CommitAnalysis, Reading
  <2>2. analysis'.revision = job[j].revision /\ analysis'.content = job[j].content
    BY <2>1 DEF AnalysisRecord
  <2>3. \A i \in Jobs : job'[i] = IF i = j THEN Idle ELSE job[i]
    BY <1>0, <2>1 DEF TypeOK
  <2>4. FlowIsOld' /\ NoFlowNoResults'
    BY <2>1 DEF AnalysisInv, FlowIsOld, NoFlowNoResults
  <2>5. RevisionsAreOld' /\ JobsReadTheirRevision'
    BY <2>1, <2>2, <2>3 DEF AnalysisInv, RevisionsAreOld, JobsReadTheirRevision
  <2>6. CurrentAnalysisIsOfTheModel'
    BY <2>1, <2>2 DEF AnalysisInv, JobsReadTheirRevision, CurrentAnalysisIsOfTheModel
  <2> QED
    BY <1>0, <2>4, <2>5, <2>6 DEF AnalysisInv
<1>10. ASSUME NEW j \in Jobs, EndJob(j)
       PROVE  AnalysisInv'
  <2>1. job' = [job EXCEPT ![j] = Idle] /\ UNCHANGED <<clock, flow, runs, analysis>>
    BY <1>10 DEF EndJob
  <2>2. clock' \in Int /\ clock <= clock' /\ UNCHANGED <<flow, runs, analysis>>
    BY <1>0, <2>1
  <2> QED
    BY <1>0, <2>1, <2>2, ReadingKeepsAnalysisInv
<1>11. CASE UNCHANGED vars
  BY <1>11 DEF vars, AnalysisInv, TypeOK, FlowIsOld, NoFlowNoResults, RevisionsAreOld,
       JobsReadTheirRevision, CurrentAnalysisIsOfTheModel
<1> QED
  BY <1>1, <1>2, <1>3, <1>4, <1>5, <1>6, <1>7, <1>8, <1>9, <1>10, <1>11 DEF Next

\* The rows and the requests keep their types.
THEOREM FreshnessTypeCorrect == Spec => []TypeOK
<1>1. Init => TypeOK
  BY InitEstablishesAnalysisInv DEF AnalysisInv
<1> QED
  BY <1>1, TypeStep, PTL DEF Spec

\* An analysis that is not marked stale is of the model as it stands, for any number of
\* concurrent requests, edits and deletions.
THEOREM CurrentAnalysesAreExact == Spec => []CurrentAnalysisIsOfTheModel
<1>1. AnalysisInv => CurrentAnalysisIsOfTheModel
  BY DEF AnalysisInv
<1> QED
  BY <1>1, InitEstablishesAnalysisInv, AnalysisStep, PTL DEF Spec

(***************************************************************************)
(* Simulations, as long as all stamps print with one length                *)
(***************************************************************************)
\* Then text compares as time does.
LEMMA TextIsTime ==
  ASSUME MaxTime < Radix, NEW a \in Times, NEW b \in Times
  PROVE  TextAtLeast(a, b) <=> a >= b
<1>1. a \in Nat /\ b \in Nat /\ 0 < a /\ a < Radix /\ 0 < b /\ b < Radix /\ Radix \in Nat
  BY FreshnessBounds DEF Times
<1>2. a \div Radix = 0 /\ b \div Radix = 0
  BY <1>1
<1>3. a % Radix = a /\ b % Radix = b
  BY <1>1
<1> QED
  BY <1>1, <1>2, <1>3 DEF TextAtLeast

\* The inductive invariant of simulations.  What no edit overlapped is still the model
\* when it is stamped, and every later edit moves model_updated_at past the stamp.
UndisturbedReadsAreOfTheModel ==
    \A j \in Jobs : job[j].stage \in Reading /\ ~job[j].overlapped
        => /\ flow.live
           /\ job[j].stage = "blocks" => job[j].content.blocks = flow.content.blocks
           /\ job[j].stage = "wires"  => job[j].content = flow.content
StampsAreOld ==
    /\ \A j \in Jobs : job[j].stage = "stamped" => job[j].created <= clock
    /\ \A i \in DOMAIN runs : runs[i].created <= clock
StampedAreExact ==
    \A j \in Jobs : job[j].stage = "stamped" /\ ~job[j].overlapped
                     /\ flow.live /\ job[j].created >= flow.model
        => job[j].content = flow.content
StoredAreExact ==
    \A i \in DOMAIN runs : ~runs[i].overlapped /\ flow.live /\ runs[i].created >= flow.model
        => runs[i].content = flow.content
RunInv ==
    /\ AnalysisInv
    /\ UndisturbedReadsAreOfTheModel
    /\ StampsAreOld
    /\ StampedAreExact
    /\ StoredAreExact

LEMMA RunsHaveStamps ==
  ASSUME TypeOK, NEW i \in DOMAIN runs
  PROVE  runs[i].created \in Times /\ runs[i].content \in Content /\ runs[i].overlapped \in BOOLEAN
<1>1. runs \in Seq(RunType)
  BY DEF TypeOK
<1>2. i \in 1..Len(runs)
  BY <1>1
<1>3. runs[i] \in RunType
  BY <1>1, <1>2
<1> QED
  BY <1>3 DEF RunType

LEMMA InitEstablishesRunInv == Init => RunInv
  BY InitEstablishesAnalysisInv
     DEF Init, RunInv, UndisturbedReadsAreOfTheModel, StampsAreOld, StampedAreExact, StoredAreExact,
         Idle, Reading

LEMMA OverlappedIsMarked ==
  ASSUME TypeOK, NEW j \in Jobs
  PROVE  /\ job[j].stage \in Reading => Overlapped[j].overlapped
         /\ job[j].stage = "stamped" => Overlapped[j] = job[j]
<1>1. CASE job[j].stage \notin Reading
  BY <1>1 DEF Overlapped, Reading
<1>2. CASE job[j].stage \in Reading
  <2>1. Overlapped[j] = [job[j] EXCEPT !.overlapped = TRUE]
    BY <1>2 DEF Overlapped, Reading
  <2>2. job[j].stage # "stamped"
    BY <1>2 DEF Reading
  <2>3. "overlapped" \in DOMAIN job[j]
    BY <1>2 DEF TypeOK, JobType, Idle, Reading
  <2> QED
    BY <2>1, <2>2, <2>3
<1> QED
  BY <1>1, <1>2

LEMMA EditingKeepsRunInv ==
  ASSUME RunInv, AnalysisInv', clock' = Now, job' = Overlapped, UNCHANGED runs,
         flow'.live, flow'.model = Now
  PROVE  RunInv'
<1>1. TypeOK /\ clock \in Int /\ Now \in Int /\ Now > clock
  <2>1. TypeOK
    BY DEF RunInv, AnalysisInv
  <2>2. clock \in Int
    BY <2>1, TimesAreNumbers DEF TypeOK
  <2> QED
    BY <2>1, <2>2 DEF Now
<1>2. UndisturbedReadsAreOfTheModel'
  BY <1>1, OverlappedReadsTheSame, OverlappedIsMarked DEF UndisturbedReadsAreOfTheModel
<1>3. \A j \in Jobs : job'[j].stage = "stamped"
        => job'[j].created \in Int /\ job'[j].created <= clock
  BY <1>1, OverlappedReadsTheSame, OverlappedIsMarked, StagesOfJobs, TimesAreNumbers
     DEF RunInv, StampsAreOld
<1>4. \A i \in DOMAIN runs' : runs'[i].created \in Int /\ runs'[i].created <= clock
  BY <1>1, RunsHaveStamps, TimesAreNumbers DEF RunInv, StampsAreOld
<1>5. StampsAreOld'
  BY <1>1, <1>3, <1>4 DEF StampsAreOld
<1>6. StampedAreExact'
  BY <1>1, <1>3 DEF StampedAreExact
<1>7. StoredAreExact'
  BY <1>1, <1>4 DEF StoredAreExact
<1> QED
  BY <1>2, <1>5, <1>6, <1>7 DEF RunInv

LEMMA ReadingKeepsRunInv ==
  ASSUME RunInv, AnalysisInv', NEW j \in Jobs, NEW next, job' = [job EXCEPT ![j] = next],
         clock' \in Int, clock <= clock', UNCHANGED <<flow, runs>>,
         next.stage \in Reading /\ ~next.overlapped
           => /\ flow.live
              /\ next.stage = "blocks" => next.content.blocks = flow.content.blocks
              /\ next.stage = "wires"  => next.content = flow.content,
         next.stage = "stamped"
           => next.created <= clock' /\ (~next.overlapped => next.content = flow.content)
  PROVE  RunInv'
<1>1. TypeOK /\ clock \in Int /\ \A i \in Jobs : job'[i] = IF i = j THEN next ELSE job[i]
  BY TimesAreNumbers DEF RunInv, AnalysisInv, TypeOK
<1>2. UndisturbedReadsAreOfTheModel'
  BY <1>1 DEF RunInv, UndisturbedReadsAreOfTheModel
<1>3. \A i \in Jobs : job[i].stage = "stamped" => job[i].created \in Int /\ job[i].created <= clock
  BY <1>1, StagesOfJobs, TimesAreNumbers DEF RunInv, StampsAreOld
<1>4. \A i \in DOMAIN runs : runs[i].created \in Int /\ runs[i].created <= clock
  BY <1>1, RunsHaveStamps, TimesAreNumbers DEF RunInv, StampsAreOld
<1>5. \A i \in Jobs : job'[i].stage = "stamped" => job'[i].created <= clock'
  BY <1>1, <1>3
<1>6. \A i \in DOMAIN runs' : runs'[i].created <= clock'
  BY <1>1, <1>4
<1>7. StampedAreExact'
  BY <1>1 DEF RunInv, StampedAreExact
<1>8. StoredAreExact'
  BY DEF RunInv, StoredAreExact
<1> QED
  BY <1>2, <1>5, <1>6, <1>7, <1>8 DEF RunInv, StampsAreOld

LEMMA RunStep == RunInv /\ [Next]_vars => RunInv'
<1> SUFFICES ASSUME RunInv, [Next]_vars
             PROVE  RunInv'
  OBVIOUS
<1>0. AnalysisInv' /\ TypeOK /\ clock \in Int
  BY AnalysisStep, TimesAreNumbers DEF RunInv, AnalysisInv, TypeOK
<1>1. ASSUME NEW parts \in SUBSET {"blocks", "wires"}, Edit(parts)
      PROVE  RunInv'
  BY <1>0, <1>1, EditingKeepsRunInv DEF Edit, Ticks
<1>2. CASE DeleteFlow
  <2>1. flow' = NoFlow /\ runs' = << >> /\ clock' = clock /\ job' = Overlapped
    BY <1>2 DEF DeleteFlow
  <2>2. ~flow'.live
    BY <2>1 DEF NoFlow
  <2>3. UndisturbedReadsAreOfTheModel' /\ StampsAreOld'
    BY <1>0, <2>1, OverlappedReadsTheSame, OverlappedIsMarked
       DEF RunInv, UndisturbedReadsAreOfTheModel, StampsAreOld
  <2> QED
    BY <1>0, <2>1, <2>2, <2>3 DEF RunInv, StampedAreExact, StoredAreExact
<1>3. CASE CreateFlow
  BY <1>0, <1>3, EditingKeepsRunInv DEF CreateFlow, Ticks, NewFlow
<1>4. ASSUME NEW j \in Jobs, NEW kind \in {"simulation", "analysis"}, ReadRevision(j, kind)
      PROVE  RunInv'
  <2> DEFINE next == [stage |-> "revision", kind |-> kind, revision |-> flow.model,
                      overlapped |-> FALSE]
  <2>1. /\ job' = [job EXCEPT ![j] = next] /\ flow.live
        /\ clock' = clock /\ UNCHANGED <<flow, runs>>
    BY <1>4 DEF ReadRevision
  <2>2. next.stage = "revision"
    OBVIOUS
  <2>3. clock' \in Int /\ clock <= clock'
    BY <1>0, <2>1
  <2> HIDE DEF next
  <2> QED
    BY <1>0, <2>1, <2>2, <2>3, ReadingKeepsRunInv
<1>5. ASSUME NEW j \in Jobs, ReadBlocks(j)
      PROVE  RunInv'
  <2> DEFINE next == [stage |-> "blocks", kind |-> job[j].kind, revision |-> job[j].revision,
                      overlapped |-> job[j].overlapped,
                      content |-> [blocks |-> flow.content.blocks]]
  <2>1. /\ job' = [job EXCEPT ![j] = next] /\ flow.live
        /\ clock' = clock /\ UNCHANGED <<flow, runs>>
    BY <1>5 DEF ReadBlocks
  <2>2. next.stage = "blocks" /\ next.content.blocks = flow.content.blocks
    OBVIOUS
  <2>3. clock' \in Int /\ clock <= clock'
    BY <1>0, <2>1
  <2> HIDE DEF next
  <2> QED
    BY <1>0, <2>1, <2>2, <2>3, ReadingKeepsRunInv
<1>6. ASSUME NEW j \in Jobs, ReadWires(j)
      PROVE  RunInv'
  <2> DEFINE read == [blocks |-> job[j].content.blocks, wires |-> flow.content.wires]
             next == [stage |-> "wires", kind |-> job[j].kind, revision |-> job[j].revision,
                      overlapped |-> job[j].overlapped, content |-> read]
  <2>1. /\ job' = [job EXCEPT ![j] = next] /\ flow.live
        /\ clock' = clock /\ UNCHANGED <<flow, runs>>
    BY <1>6 DEF ReadWires
  <2>2. next.stage = "wires" /\ next.overlapped = job[j].overlapped /\ next.content = read
    OBVIOUS
  <2>3. ~job[j].overlapped => read = flow.content
    BY <1>0, <1>6, FlowType
       DEF ReadWires, RunInv, UndisturbedReadsAreOfTheModel, Content, Reading
  <2>4. clock' \in Int /\ clock <= clock'
    BY <1>0, <2>1
  <2> HIDE DEF next
  <2> QED
    BY <1>0, <2>1, <2>2, <2>3, <2>4, ReadingKeepsRunInv
<1>7. ASSUME NEW j \in Jobs, StampRun(j)
      PROVE  RunInv'
  <2> DEFINE next == [stage |-> "stamped", created |-> Now, content |-> job[j].content,
                      overlapped |-> job[j].overlapped]
  <2>1. job' = [job EXCEPT ![j] = next] /\ clock' = Now /\ UNCHANGED <<flow, runs>>
    BY <1>7 DEF StampRun, Ticks
  <2>2. /\ next.stage = "stamped" /\ next.stage \notin Reading /\ next.created = Now
        /\ next.overlapped = job[j].overlapped /\ next.content = job[j].content
    BY DEF Reading
  <2>3. ~job[j].overlapped => job[j].content = flow.content
    BY <1>7 DEF StampRun, RunInv, UndisturbedReadsAreOfTheModel, Reading
  <2>4. clock' \in Int /\ clock <= clock' /\ next.created <= clock'
    BY <1>0, <2>1, <2>2 DEF Now
  <2> HIDE DEF next
  <2> QED
    BY <1>0, <2>1, <2>2, <2>3, <2>4, ReadingKeepsRunInv
<1>8. ASSUME NEW j \in Jobs, CommitRun(j)
      PROVE  RunInv'
  <2> DEFINE record == RunRecord(job[j])
  <2>1. /\ job[j].stage = "stamped" /\ job' = [job EXCEPT ![j] = Idle]
        /\ runs' = Append(runs, record) /\ UNCHANGED <<clock, flow>>
    BY <1>8 DEF CommitRun
  <2>2. /\ record.created = job[j].created /\ record.content = job[j].content
        /\ record.overlapped = job[j].overlapped
    BY DEF RunRecord
  <2>3. runs \in Seq(RunType) /\ \A i \in Jobs : job'[i] = IF i = j THEN Idle ELSE job[i]
    BY <1>0, <2>1 DEF TypeOK
  <2> HIDE DEF record
  <2>4. \A i \in DOMAIN runs' : runs'[i] = record \/ (i \in DOMAIN runs /\ runs'[i] = runs[i])
    BY <2>1, <2>3
  <2>5. UndisturbedReadsAreOfTheModel' /\ StampedAreExact'
    BY <2>1, <2>3 DEF RunInv, UndisturbedReadsAreOfTheModel, StampedAreExact, Idle, Reading
  <2>6. StampsAreOld'
    BY <2>1, <2>2, <2>3, <2>4 DEF RunInv, StampsAreOld, Idle
  <2>7. StoredAreExact'
    BY <2>1, <2>2, <2>4 DEF RunInv, StoredAreExact, StampedAreExact
  <2> QED
    BY <1>0, <2>5, <2>6, <2>7 DEF RunInv
<1>9. ASSUME NEW j \in Jobs, CommitAnalysis(j) \/ EndJob(j)
      PROVE  RunInv'
  <2>1. /\ job' = [job EXCEPT ![j] = Idle]
        /\ clock' = clock /\ UNCHANGED <<flow, runs>>
    BY <1>9 DEF CommitAnalysis, EndJob
  <2>2. Idle.stage \notin Reading /\ Idle.stage # "stamped"
    BY DEF Idle, Reading
  <2>3. clock' \in Int /\ clock <= clock'
    BY <1>0, <2>1
  <2> QED
    BY <1>0, <2>1, <2>2, <2>3, ReadingKeepsRunInv
<1>10. CASE UNCHANGED vars
  BY <1>0, <1>10 DEF vars, RunInv, UndisturbedReadsAreOfTheModel, StampsAreOld, StampedAreExact,
       StoredAreExact
<1> QED
  BY <1>1, <1>2, <1>3, <1>4, <1>5, <1>6, <1>7, <1>8, <1>9, <1>10 DEF Next

LEMMA RunInvIsExact ==
  ASSUME MaxTime < Radix, RunInv
  PROVE  UndisturbedRunsAreExact
<1> SUFFICES ASSUME NEW i \in DOMAIN runs, IsCurrent(runs[i]), ~runs[i].overlapped
             PROVE  runs[i].content = flow.content
  BY DEF UndisturbedRunsAreExact
<1>1. flow.live
  BY DEF RunInv, AnalysisInv, NoFlowNoResults
<1>2. runs[i].created >= flow.model
  BY <1>1, TextIsTime, FlowType, RunsHaveStamps DEF IsCurrent, RunInv, AnalysisInv
<1> QED
  BY <1>1, <1>2 DEF RunInv, StoredAreExact

\* A step that changes the content of a live flowsheet is an edit, and stamps it later than
\* every run stored.
LEMMA EditsPassEveryStamp ==
  ASSUME MaxTime < Radix, RunInv, TypeOK', [Next]_vars,
         flow.live, flow'.live, flow'.content # flow.content
  PROVE  NeedsRun'
<1>1. \E parts \in SUBSET {"blocks", "wires"} : Edit(parts)
  <2>1. flow' # flow
    OBVIOUS
  <2> QED
    BY <2>1 DEF Next, vars, DeleteFlow, CreateFlow, ReadRevision, ReadBlocks, ReadWires, StampRun,
         CommitRun, CommitAnalysis, EndJob, NoFlow
<1>2. flow'.model = Now /\ clock' = Now /\ Now \in Times /\ UNCHANGED runs
  BY <1>1 DEF Edit, Ticks
<1>3. TypeOK /\ clock \in Int
  BY TimesAreNumbers DEF RunInv, AnalysisInv, TypeOK
<1>4. \A i \in DOMAIN runs : runs[i].created \in Times /\ runs[i].created \in Int
                              /\ runs[i].created < Now
  BY <1>3, RunsHaveStamps, TimesAreNumbers DEF RunInv, StampsAreOld, Now
<1>5. \A i \in DOMAIN runs : ~TextAtLeast(runs[i].created, Now)
  BY <1>2, <1>4, TextIsTime, TimesAreNumbers
<1> QED
  BY <1>2, <1>5 DEF NeedsRun, IsCurrent

\* A simulation that no edit overlapped is current only of the model it simulated, as long
\* as no two readings of the clock print with different lengths.
THEOREM UndisturbedRunsStayExact ==
  ASSUME MaxTime < Radix
  PROVE  Spec => []UndisturbedRunsAreExact
<1>1. RunInv => UndisturbedRunsAreExact
  BY RunInvIsExact
<1> QED
  BY <1>1, InitEstablishesRunInv, RunStep, PTL DEF Spec

\* Under the same condition an edit makes every stored simulation stale.
THEOREM EditsStaleRuns ==
  ASSUME MaxTime < Radix
  PROVE  Spec => EditsStaleStoredRuns
<1>1. RunInv /\ [Next]_vars
        => [flow.live /\ flow'.live /\ flow'.content # flow.content => NeedsRun']_vars
  BY EditsPassEveryStamp, TypeStep DEF RunInv, AnalysisInv
<1> QED
  BY <1>1, InitEstablishesRunInv, RunStep, PTL DEF Spec, EditsStaleStoredRuns

(***************************************************************************)
(* The studio                                                              *)
(***************************************************************************)
\* A step of the studio is a step of the store or leaves it alone.
LEMMA StudioStepIsStoreStep == [StudioNext]_studioVars => [Next]_vars
<1> SUFFICES ASSUME [StudioNext]_studioVars PROVE [Next]_vars
  OBVIOUS
<1>1. CASE \E parts \in {{"blocks"}, {"wires"}, {"blocks", "wires"}} : Stored(Edit(parts))
  BY <1>1 DEF Stored, Next
<1>2. CASE Stored(DeleteFlow) \/ Stored(CreateFlow)
  BY <1>2 DEF Stored, Next
<1>3. CASE \E j \in Jobs :
             \/ \E kind \in {"simulation", "analysis"} : Stored(ReadRevision(j, kind))
             \/ Stored(ReadBlocks(j)) \/ Stored(ReadWires(j))
             \/ Stored(StampRun(j)) \/ Stored(CommitRun(j)) \/ Stored(CommitAnalysis(j))
             \/ Stored(EndJob(j))
  BY <1>3 DEF Stored, Next
<1>4. CASE UNCHANGED vars
  BY <1>4
<1>5. CASE UNCHANGED studioVars
  BY <1>5 DEF studioVars
<1> QED
  BY <1>1, <1>2, <1>3, <1>4, <1>5 DEF StudioNext, Plans, Converts, Builds, Analyses

\* The studio implements the store it is composed with, whatever it calculates.
THEOREM StudioImplementsStore == StudioSpec => Spec
<1>1. StudioInit => Init
  BY DEF StudioInit
<1> QED
  BY <1>1, StudioStepIsStoreStep, PTL DEF StudioSpec, Spec

\* So an analysis that is not marked stale is of the model as it stands.
THEOREM StudioAnalysesAreExact == StudioSpec => []CurrentAnalysisIsOfTheModel
  BY StudioImplementsStore, CurrentAnalysesAreExact, PTL

(***************************************************************************)
(* The grid of a sweep                                                     *)
(***************************************************************************)
LEMMA QuotientType ==
  ASSUME NEW m \in Nat, NEW s \in Nat \ {0}
  PROVE  m \div s \in Nat /\ m % s \in 0..(s - 1)
  OBVIOUS

LEMMA QuotientIs ==
  ASSUME NEW m \in Nat, NEW s \in Nat \ {0}, NEW q \in Nat, NEW r \in Nat, r < s, m = q * s + r
  PROVE  m \div s = q /\ m % s = r
  OBVIOUS

LEMMA QuotientTwice ==
  ASSUME NEW m \in Nat, NEW s \in Nat \ {0}, NEW r \in Nat \ {0}
  PROVE  (m \div s) \div r = m \div (r * s)
  OBVIOUS

LEMMA QuotientGrows ==
  ASSUME NEW m \in Nat, NEW n \in Nat, NEW s \in Nat \ {0}, m <= n
  PROVE  m \div s <= n \div s
  OBVIOUS

LEMMA RemainderGrows ==
  ASSUME NEW m \in Nat, NEW n \in Nat, NEW s \in Nat \ {0}, m < n, m \div s = n \div s
  PROVE  m % s < n % s
  OBVIOUS

LEMMA QuotientVanishes ==
  ASSUME NEW m \in Nat, NEW s \in Nat \ {0}
  PROVE  m \div s = 0 <=> m < s
  OBVIOUS

LEMMA Products ==
  ASSUME NEW s \in Nat \ {0}, NEW r \in Nat \ {0}
  PROVE  s * r \in Nat \ {0}
  OBVIOUS

\* What a place of each axis weighs: as much as there are points of the axes behind it.
Weighs(weight, n, size) ==
    /\ size \in [1..n -> Nat \ {0}] /\ weight \in [0..n -> Nat \ {0}]
    /\ weight[n] = 1
    /\ \A a \in 1..n : weight[a - 1] = size[a] * weight[a]

Place(weight, size, flat, a) == (flat \div weight[a]) % size[a]

\* Two points differ, and first at an axis where the earlier point has the smaller place.
LEMMA PointsAreInOrder ==
  ASSUME NEW n \in Nat, NEW size, NEW weight, Weighs(weight, n, size),
         NEW i \in Nat, NEW j \in Nat, i < j, j < weight[0]
  PROVE  \E a \in 1..n : /\ \A b \in 1..(a - 1) : Place(weight, size, i, b) = Place(weight, size, j, b)
                         /\ Place(weight, size, i, a) < Place(weight, size, j, a)
<1> DEFINE Apart == {a \in 0..n : i \div weight[a] # j \div weight[a]}
<1>0. /\ \A a \in 0..n : weight[a] \in Nat \ {0}
      /\ \A a \in 1..n : size[a] \in Nat \ {0}
  BY DEF Weighs
<1>1. n \in Apart
  <2>1. \A m \in Nat : m \div 1 = m
    OBVIOUS
  <2> QED
    BY <2>1 DEF Weighs
<1>2. 0 \notin Apart
  <2>1. i < weight[0] /\ weight[0] \in Nat \ {0}
    BY <1>0
  <2>2. i \div weight[0] = 0 /\ j \div weight[0] = 0
    BY <2>1, QuotientVanishes
  <2> QED
    BY <2>2
<1>3. PICK a \in Apart : \A b \in Apart : a <= b
  <2>1. Apart \in SUBSET Nat
    OBVIOUS
  <2> HIDE DEF Apart
  <2> QED
    BY <1>1, <2>1, LeastExists
<1>4. a \in 1..n /\ a - 1 \in 0..n
  BY <1>2, <1>3
<1>5. \A b \in 0..(a - 1) : b \in 0..n /\ i \div weight[b] = j \div weight[b]
  BY <1>3, <1>4
<1>6. \A b \in 1..(a - 1) : Place(weight, size, i, b) = Place(weight, size, j, b)
  BY <1>5 DEF Place
<1>7. PICK w \in Nat \ {0}, s \in Nat \ {0} : w = weight[a] /\ s = size[a]
  BY <1>0, <1>4
<1>8. PICK p \in Nat, q \in Nat : p = i \div w /\ q = j \div w
  BY QuotientType
<1>9. p < q
  <2>1. p <= q
    <3>1. i <= j
      OBVIOUS
    <3> QED
      BY <1>8, <3>1, QuotientGrows
  <2>2. p # q
    BY <1>3, <1>7, <1>8
  <2> QED
    BY <2>1, <2>2
<1>10. p \div s = q \div s
  <2>1. weight[a - 1] = s * w
    BY <1>4, <1>7 DEF Weighs
  <2>2. p \div s = i \div (s * w) /\ q \div s = j \div (s * w)
    BY <1>8, QuotientTwice, Zenon
  <2> QED
    BY <1>4, <1>5, <2>1, <2>2
<1>11. p % s < q % s
  BY <1>9, <1>10, RemainderGrows
<1>12. Place(weight, size, i, a) < Place(weight, size, j, a)
  BY <1>7, <1>8, <1>11 DEF Place
<1> QED
  BY <1>4, <1>6, <1>12

\* Each combination of places is a point.  The points of the first axes, 0, 1, ...
Fronts(q, size, place, k) ==
    /\ q \in [0..k -> Nat] /\ q[0] = 0
    /\ \A a \in 1..k : q[a] = q[a - 1] * size[a] + place[a]

LEMMA FrontsExtend ==
  ASSUME NEW k \in Nat, NEW size, NEW place, NEW q, Fronts(q, size, place, k),
         size[k + 1] \in Nat, place[k + 1] \in Nat
  PROVE  \E r : Fronts(r, size, place, k + 1)
<1>1. PICK next \in Nat : next = q[k] * size[k + 1] + place[k + 1]
  <2>1. q[k] \in Nat
    BY DEF Fronts
  <2>2. \A l, m, o \in Nat : l * m + o \in Nat
    OBVIOUS
  <2> QED
    BY <2>1, <2>2
<1> DEFINE r == [a \in 0..(k + 1) |-> IF a = k + 1 THEN next ELSE q[a]]
<1>2. r \in [0..(k + 1) -> Nat] /\ r[0] = 0
  BY DEF Fronts
<1>3. ASSUME NEW a \in 1..(k + 1)
      PROVE  r[a] = r[a - 1] * size[a] + place[a]
  <2>1. CASE a = k + 1
    BY <1>1, <2>1
  <2>2. CASE a \in 1..k
    <3>1. r[a] = q[a] /\ r[a - 1] = q[a - 1]
      BY <2>2
    <3> HIDE DEF r
    <3> QED
      BY <2>2, <3>1 DEF Fronts
  <2> QED
    BY <2>1, <2>2
<1> HIDE DEF r
<1> QED
  BY <1>2, <1>3 DEF Fronts

LEMMA PointsCoverPlaces ==
  ASSUME NEW n \in Nat, NEW size, NEW weight, Weighs(weight, n, size),
         NEW place \in [1..n -> Nat], \A a \in 1..n : place[a] < size[a]
  PROVE  \E flat \in Nat : /\ flat < weight[0]
                           /\ \A a \in 1..n : Place(weight, size, flat, a) = place[a]
<1> DEFINE Good == {k \in 0..n : \E q : Fronts(q, size, place, k)}
<1>0. /\ \A a \in 0..n : weight[a] \in Nat \ {0}
      /\ \A a \in 1..n : size[a] \in Nat \ {0} /\ place[a] \in Nat
  BY DEF Weighs
<1>1. 0 \in Good
  <2>1. Fronts([a \in 0..0 |-> 0], size, place, 0)
    BY DEF Fronts
  <2> QED
    BY <2>1
<1>2. ASSUME NEW k \in 0..n, k < n, k \in Good PROVE k + 1 \in Good
  <2>1. k \in Nat /\ k + 1 \in 1..n /\ k + 1 \in 0..n
    BY <1>2
  <2>2. \E q : Fronts(q, size, place, k)
    BY <1>2
  <2>3. \E q : Fronts(q, size, place, k + 1)
    BY <1>0, <2>1, <2>2, FrontsExtend
  <2> QED
    BY <2>1, <2>3
<1> HIDE DEF Good
<1>3. n \in Good
  <2>1. \A k \in 0..n : k \in Good
    BY <1>1, <1>2, UpTo
  <2> QED
    BY <2>1
<1>4. PICK q : Fronts(q, size, place, n)
  BY <1>3 DEF Good
<1> DEFINE flat == q[n]
           Back == {k \in 0..n : flat \div weight[n - k] = q[n - k]}
<1>5. flat \in Nat /\ \A a \in 0..n : q[a] \in Nat
  BY <1>4 DEF Fronts
<1>6. 0 \in Back
  <2>1. \A m \in Nat : m \div 1 = m
    OBVIOUS
  <2> QED
    BY <1>5, <2>1 DEF Weighs
<1> HIDE DEF flat
<1>7. ASSUME NEW k \in 0..n, k < n, k \in Back PROVE k + 1 \in Back
  <2>1. PICK a \in 1..n : a = n - k
    BY <1>7
  <2>2. flat \div weight[a] = q[a]
    BY <1>7, <2>1
  <2>3. PICK w \in Nat \ {0}, s \in Nat \ {0}, m \in Nat, d \in Nat :
          w = weight[a] /\ s = size[a] /\ m = q[a - 1] /\ d = place[a]
    <3>1. a - 1 \in 0..n /\ a \in 0..n
      OBVIOUS
    <3>2. weight[a] \in Nat \ {0} /\ size[a] \in Nat \ {0} /\ q[a - 1] \in Nat /\ place[a] \in Nat
      BY <1>0, <1>5, <3>1
    <3> QED
      BY <3>2
  <2>4. q[a] = m * s + d /\ d < s /\ q[a] \in Nat
    BY <1>4, <1>5, <2>3 DEF Fronts
  <2>5. q[a] \div s = m
    BY <2>4, QuotientIs
  <2>6. weight[a - 1] = s * w
    BY <2>3 DEF Weighs
  <2>7. (flat \div w) \div s = flat \div (s * w)
    BY <1>5, QuotientTwice
  <2>8. flat \div weight[a - 1] = q[a - 1]
    BY <2>2, <2>3, <2>5, <2>6, <2>7
  <2>9. n - (k + 1) = a - 1 /\ k + 1 \in 0..n
    BY <1>7, <2>1
  <2> QED
    BY <2>8, <2>9
<1> HIDE DEF Back
<1>8. \A k \in 0..n : k \in Back
  BY <1>6, <1>7, UpTo
<1>9. \A a \in 0..n : flat \div weight[a] = q[a]
  <2> TAKE a \in 0..n
  <2>1. n - a \in 0..n /\ n - (n - a) = a
    OBVIOUS
  <2> QED
    BY <1>8, <2>1 DEF Back
<1>10. ASSUME NEW a \in 1..n PROVE Place(weight, size, flat, a) = place[a]
  <2>1. PICK s \in Nat \ {0}, m \in Nat, d \in Nat :
          s = size[a] /\ m = q[a - 1] /\ d = place[a]
    <3>1. a - 1 \in 0..n
      OBVIOUS
    <3> QED
      BY <1>0, <1>5, <3>1
  <2>2. q[a] = m * s + d /\ d < s /\ q[a] \in Nat
    BY <1>4, <1>5, <2>1 DEF Fronts
  <2>3. q[a] % s = d
    BY <2>2, QuotientIs
  <2> QED
    BY <1>9, <2>1, <2>3 DEF Place
<1>11. flat < weight[0]
  <2>1. flat \div weight[0] = 0 /\ weight[0] \in Nat \ {0}
    BY <1>0, <1>4, <1>9 DEF Fronts
  <2> QED
    BY <1>5, <2>1, QuotientVanishes
<1> QED
  BY <1>5, <1>10, <1>11

\* The products of the first sizes, which Points ends with.
IsProduct(f, t, m) == f = [k \in 0..m |-> IF k = 0 THEN 1 ELSE f[k - 1] * t[k]]

LEMMA ProductStep ==
  ASSUME NEW k \in Nat, NEW t, NEW f, IsProduct(f, t, k)
  PROVE  \E g : IsProduct(g, t, k + 1)
<1> DEFINE g == [l \in 0..(k + 1) |-> IF l = k + 1 THEN f[k] * t[k + 1] ELSE f[l]]
<1>1. \A l \in 0..k : f[l] = IF l = 0 THEN 1 ELSE f[l - 1] * t[l]
  BY DEF IsProduct
<1>2. \A l \in 0..(k + 1) : g[l] = IF l = 0 THEN 1 ELSE g[l - 1] * t[l]
  BY <1>1
<1>3. IsProduct(g, t, k + 1)
  BY <1>2 DEF IsProduct
<1> QED
  BY <1>3

LEMMA PointsAreAProduct ==
  ASSUME NEW t, NEW m \in Nat, m = Len(t)
  PROVE  \E f : IsProduct(f, t, m) /\ Points(t) = f[m]
<1> DEFINE Good == {k \in 0..m : \E f : IsProduct(f, t, k)}
<1>1. 0 \in Good
  <2>1. IsProduct([k \in 0..0 |-> 1], t, 0)
    BY DEF IsProduct
  <2> QED
    BY <2>1
<1>2. ASSUME NEW k \in 0..m, k < m, k \in Good PROVE k + 1 \in Good
  <2>1. k \in Nat /\ k + 1 \in 0..m
    BY <1>2
  <2>2. \E f : IsProduct(f, t, k)
    BY <1>2
  <2>3. \E f : IsProduct(f, t, k + 1)
    BY <2>1, <2>2, ProductStep
  <2> QED
    BY <2>1, <2>3
<1> HIDE DEF Good
<1>3. m \in Good
  <2>1. \A k \in 0..m : k \in Good
    BY <1>1, <1>2, UpTo
  <2> QED
    BY <2>1
<1>4. \E f : IsProduct(f, t, m)
  BY <1>3 DEF Good
<1> QED
  BY <1>4 DEF Points, IsProduct

LEMMA ProductType ==
  ASSUME NEW m \in Nat, NEW t \in [1..m -> Nat \ {0}], NEW f, IsProduct(f, t, m)
  PROVE  \A k \in 0..m : f[k] \in Nat \ {0}
<1> DEFINE Good == {k \in 0..m : f[k] \in Nat \ {0}}
<1>1. \A k \in 0..m : f[k] = IF k = 0 THEN 1 ELSE f[k - 1] * t[k]
  BY DEF IsProduct
<1>2. 0 \in Good
  BY <1>1
<1>3. ASSUME NEW k \in 0..m, k < m, k \in Good PROVE k + 1 \in Good
  <2>1. k + 1 \in 1..m /\ k + 1 # 0 /\ k + 1 - 1 = k /\ k + 1 \in 0..m
    BY <1>3
  <2>2. f[k + 1] = f[k] * t[k + 1]
    BY <1>1, <2>1
  <2>3. f[k] \in Nat \ {0} /\ t[k + 1] \in Nat \ {0}
    BY <1>3, <2>1
  <2>4. f[k + 1] \in Nat \ {0}
    BY <2>2, <2>3, Products
  <2> QED
    BY <2>1, <2>4
<1> HIDE DEF Good
<1>4. \A k \in 0..m : k \in Good
  BY <1>2, <1>3, UpTo
<1> QED
  BY <1>4 DEF Good

\* The points of several axes are those of the ones behind the first, once for each of its places.
LEMMA FirstAxisOut ==
  ASSUME NEW m \in Nat, NEW t \in [1..(m + 1) -> Nat \ {0}], NEW u \in [1..m -> Nat \ {0}],
         \A k \in 1..m : u[k] = t[k + 1]
  PROVE  Points(t) = t[1] * Points(u) /\ Points(u) \in Nat \ {0}
<1>1. Len(t) = m + 1 /\ Len(u) = m /\ m + 1 \in Nat
  OBVIOUS
<1>2. PICK f : IsProduct(f, t, m + 1) /\ Points(t) = f[m + 1]
  BY <1>1, PointsAreAProduct
<1>3. PICK g : IsProduct(g, u, m) /\ Points(u) = g[m]
  BY <1>1, PointsAreAProduct
<1>4. \A k \in 0..(m + 1) : f[k] = IF k = 0 THEN 1 ELSE f[k - 1] * t[k]
  BY <1>2 DEF IsProduct
<1>5. \A k \in 0..m : g[k] = IF k = 0 THEN 1 ELSE g[k - 1] * u[k]
  BY <1>3 DEF IsProduct
<1>6. \A k \in 0..m : g[k] \in Nat \ {0}
  BY <1>3, ProductType
<1> DEFINE Good == {k \in 0..m : f[k + 1] = t[1] * g[k]}
<1>7. t[1] \in Nat
  OBVIOUS
<1>8. 0 \in Good
  <2>1. f[1] = f[0] * t[1] /\ f[0] = 1 /\ g[0] = 1
    BY <1>4, <1>5
  <2>2. 1 * t[1] = t[1] /\ t[1] * 1 = t[1]
    BY <1>7
  <2> QED
    BY <2>1, <2>2
<1>9. ASSUME NEW k \in 0..m, k < m, k \in Good PROVE k + 1 \in Good
  <2>1. k + 1 \in 1..m /\ k + 1 \in 0..m /\ k + 1 # 0 /\ k + 2 # 0 /\ k + 1 - 1 = k /\ k + 2 - 1 = k + 1
        /\ k + 2 \in 0..(m + 1) /\ k + 1 + 1 = k + 2
    BY <1>9
  <2>2. f[k + 2] = f[k + 1] * t[k + 2] /\ g[k + 1] = g[k] * u[k + 1] /\ u[k + 1] = t[k + 2]
    BY <1>4, <1>5, <2>1
  <2>3. f[k + 1] = t[1] * g[k] /\ g[k] \in Nat /\ u[k + 1] \in Nat
    BY <1>6, <1>9, <2>1
  <2>4. \A a, b, c \in Nat : (a * b) * c = a * (b * c)
    OBVIOUS
  <2>5. f[k + 2] = t[1] * g[k + 1]
    BY <1>7, <2>2, <2>3, <2>4
  <2> QED
    BY <2>1, <2>5
<1> HIDE DEF Good
<1>10. m \in Good
  <2>1. \A k \in 0..m : k \in Good
    BY <1>8, <1>9, UpTo
  <2> QED
    BY <2>1
<1> QED
  BY <1>2, <1>3, <1>6, <1>10 DEF Good

LEMMA NoAxes ==
  ASSUME NEW t, Len(t) = 0
  PROVE  Points(t) = 1
<1>1. PICK f : IsProduct(f, t, 0) /\ Points(t) = f[0]
  BY PointsAreAProduct
<1> QED
  BY <1>1 DEF IsProduct

\* So the points behind an axis are what its places weigh.
LEMMA PointsWeigh ==
  ASSUME NEW n \in Nat, NEW size \in [1..n -> Nat \ {0}],
         NEW weight, weight = [a \in 0..n |-> Points(SubSeq(size, a + 1, n))]
  PROVE  Weighs(weight, n, size) /\ weight[0] = Points(size)
<1> DEFINE after(a) == SubSeq(size, a + 1, n)
<1>1. ASSUME NEW a \in 0..n
      PROVE  /\ after(a) \in [1..(n - a) -> Nat \ {0}] /\ n - a \in Nat
             /\ \A k \in 1..(n - a) : after(a)[k] = size[a + k]
  <2>1. size \in Seq(Nat \ {0}) /\ Len(size) = n
    OBVIOUS
  <2>2. /\ after(a) \in Seq(Nat \ {0}) /\ Len(after(a)) = n - a
        /\ \A k \in 1..(n - a) : after(a)[k] = size[a + k]
    BY <2>1
  <2>3. \A u \in Seq(Nat \ {0}) : u \in [1..Len(u) -> Nat \ {0}]
    OBVIOUS
  <2> QED
    BY <2>2, <2>3
<1>2. weight[n] = 1
  <2>1. n \in 0..n /\ n - n = 0
    OBVIOUS
  <2>2. Len(after(n)) = 0
    BY <1>1, <2>1
  <2> QED
    BY <2>1, <2>2, NoAxes
<1>3. weight[0] = Points(size)
  <2>1. 0 \in 0..n /\ n - 0 = n /\ \A k \in 1..n : 0 + k = k
    OBVIOUS
  <2>2. after(0) \in [1..n -> Nat \ {0}] /\ \A k \in 1..n : after(0)[k] = size[k]
    BY <1>1, <2>1
  <2>3. after(0) = size
    BY <2>2
  <2> QED
    BY <2>1, <2>3
<1> HIDE DEF after
<1>4. ASSUME NEW a \in 1..n
      PROVE  weight[a - 1] = size[a] * weight[a] /\ weight[a] \in Nat \ {0}
  <2>1. a \in 0..n /\ a - 1 \in 0..n
    OBVIOUS
  <2>2. PICK m \in Nat : m = n - a
    OBVIOUS
  <2>3. n - (a - 1) = m + 1 /\ (a - 1) + 1 = a /\ \A k \in 1..m : k + 1 \in 1..(m + 1)
        /\ (a - 1) + (k + 1) = a + k
    BY <2>2
  <2>4. /\ after(a) \in [1..m -> Nat \ {0}]
        /\ after(a - 1) \in [1..(m + 1) -> Nat \ {0}]
        /\ after(a - 1)[1] = size[a]
        /\ \A k \in 1..m : after(a)[k] = after(a - 1)[k + 1]
    <3>1. /\ after(a) \in [1..m -> Nat \ {0}]
          /\ \A k \in 1..m : after(a)[k] = size[a + k]
      BY <1>1, <2>1, <2>2
    <3>2. /\ after(a - 1) \in [1..(m + 1) -> Nat \ {0}]
          /\ \A k \in 1..(m + 1) : after(a - 1)[k] = size[(a - 1) + k]
      BY <1>1, <2>1, <2>3
    <3>3. 1 \in 1..(m + 1)
      OBVIOUS
    <3> QED
      BY <2>3, <3>1, <3>2, <3>3
  <2>5. /\ Points(after(a - 1)) = after(a - 1)[1] * Points(after(a))
        /\ Points(after(a)) \in Nat \ {0}
    BY <2>4, FirstAxisOut
  <2>6. weight[a - 1] = Points(after(a - 1)) /\ weight[a] = Points(after(a))
    BY <2>1 DEF after
  <2> QED
    BY <2>4, <2>5, <2>6
<1>5. \A a \in 0..n : weight[a] \in Nat \ {0}
  <2>1. ASSUME n # 0 PROVE weight[0] \in Nat \ {0}
    <3>1. 1 \in 1..n /\ 1 - 1 = 0
      BY <2>1
    <3>2. weight[0] = size[1] * weight[1] /\ weight[1] \in Nat \ {0} /\ size[1] \in Nat \ {0}
      BY <1>4, <3>1
    <3> QED
      BY <3>2, Products
  <2>2. ASSUME n = 0 PROVE weight[0] \in Nat \ {0}
    BY <1>2, <2>2
  <2>3. \A a \in 0..n : a # 0 => a \in 1..n
    OBVIOUS
  <2> QED
    BY <1>4, <2>1, <2>2, <2>3
<1>6. weight \in [0..n -> Nat \ {0}]
  BY <1>5
<1> QED
  BY <1>2, <1>3, <1>4, <1>6 DEF Weighs

(***************************************************************************)
(* Parameter sweeps                                                        *)
(***************************************************************************)
\* Shape and SweepCoordinates, of a request that is given.
ShapeOf(request) == [a \in DOMAIN request.axes |-> Len(request.axes[a].values)]
PlaceIn(request, flat, a) ==
    (flat \div Points(SubSeq(ShapeOf(request), a + 1, Len(ShapeOf(request))))) % ShapeOf(request)[a]

\* What a variant can be.
AnyValueOf(request) ==
    {request.base[p] : p \in DOMAIN request.base}
        \cup UNION {{request.axes[a].values[i] : i \in DOMAIN request.axes[a].values} :
                       a \in DOMAIN request.axes}
VariantsOf(request) == [DOMAIN request.base -> AnyValueOf(request)]

\* What validateSweepDefinition leaves: axes of different parameters, none without values.
IsDefined(request) ==
    /\ request.axes # << >> /\ DOMAIN request.axes # {}
    /\ \A a \in DOMAIN request.axes : request.axes[a].parameter \in DOMAIN request.base
    /\ \A a, b \in DOMAIN request.axes :
          request.axes[a].parameter = request.axes[b].parameter => a = b
    /\ \A a \in DOMAIN request.axes : Len(request.axes[a].values) # 0

\* The parameters of a point, when the first k axes are set.
IsPoint(request, v, flat, k) ==
    /\ \A a \in 1..k : v[request.axes[a].parameter] =
                           request.axes[a].values[PlaceIn(request, flat, a) + 1]
    /\ \A p \in DOMAIN request.base :
          (\A a \in 1..k : request.axes[a].parameter # p) => v[p] = request.base[p]

VariantIsInTheMaking ==
    /\ variant \in [parameters : VariantsOf(sweep), set : 0..Len(sweep.axes)]
    /\ IsPoint(sweep, variant.parameters, Len(variants), variant.set)
    /\ variant.set # 0 => AreValid(variant.parameters)

VariantsArePoints ==
    /\ variants \in Seq(VariantsOf(sweep))
    /\ \A i \in 1..Len(variants) : /\ IsPoint(sweep, variants[i], i - 1, Len(sweep.axes))
                                   /\ AreValid(variants[i])

VariantsAreAlike ==
    /\ Len(variants) = Points(ShapeOf(sweep))
    /\ \A i \in 1..Len(variants) : ModelOf(variants[i]) = ModelOf(variants[1])

IsWorst(list, w) ==
    IF Len(list) = 0 THEN w = 0
    ELSE /\ w \in 1..Len(list)
         /\ \A i \in 1..Len(list) : \/ list[i].peak < list[w].peak
                                    \/ list[i].peak = list[w].peak /\ w <= i

WorstIsFound ==
    /\ gains \in Seq([at : 1..2, peak : 0..1]) /\ values \in Seq([peak : 0..1])
    /\ worst \in [gain : Nat, value : Nat]
    /\ IsWorst(gains, worst.gain) /\ IsWorst(values, worst.value)

SummariesAreComplete ==
    /\ sweeping \in {"values", "done"} => Len(gains) = Len(variants)
    /\ sweeping = "done" => Len(values) = Len(variants)

SweepInv ==
    /\ IsSweepRequest(sweep)
    /\ sweeping \in {"idle", "define", "vary", "bound", "gains", "values", "done", "refused"}
    /\ sweeping \notin {"idle", "define", "refused"} => IsDefined(sweep)
    /\ sweeping \in {"bound", "gains", "values", "done"} => VariantsAreAlike
    /\ VariantIsInTheMaking /\ VariantsArePoints /\ WorstIsFound /\ SummariesAreComplete

LEMMA InitEstablishesSweepInv == StudioInit => SweepInv
<1> SUFFICES ASSUME NEW request, request = NoSweep \/ request \in Sweeps, SweepInit(request)
             PROVE  SweepInv
  BY DEF StudioInit, StoresOnly, PlansOnly, CompilesOnly, ControlsOnly, SweepsOnly
<1>1. IsSweepRequest(request)
  BY SweepsAssumption DEF NoSweep, IsSweepRequest, IsListed
<1>2. sweep = request /\ sweeping \in {"idle", "define"}
  BY DEF SweepInit
<1>3. VariantIsInTheMaking
  <2>1. sweep.base \in VariantsOf(sweep)
    BY <1>1, <1>2 DEF IsSweepRequest, VariantsOf, AnyValueOf
  <2>2. variant = [parameters |-> sweep.base, set |-> 0]
    BY <1>2 DEF SweepInit, FromBase
  <2>3. 0 \in 0..Len(sweep.axes)
    BY <1>1, <1>2 DEF IsSweepRequest, IsListed
  <2>4. IsPoint(sweep, sweep.base, Len(variants), 0)
    BY DEF IsPoint
  <2> QED
    BY <2>1, <2>2, <2>3, <2>4 DEF VariantIsInTheMaking
<1>4. VariantsArePoints
  BY DEF SweepInit, VariantsArePoints
<1>5. WorstIsFound
  BY DEF SweepInit, WorstIsFound, IsWorst
<1>6. SummariesAreComplete
  BY <1>2 DEF SummariesAreComplete
<1> QED
  BY <1>1, <1>2, <1>3, <1>4, <1>5, <1>6 DEF SweepInv

\* A step that only chooses the next stage.
LEMMA ChoosingKeepsSweepInv ==
  ASSUME SweepInv, NEW stage, Keeps(stage),
         stage \in {"vary", "bound", "gains", "refused"},
         stage # "refused" => IsDefined(sweep),
         stage \in {"bound", "gains"} => VariantsAreAlike
  PROVE  SweepInv'
<1>1. UNCHANGED <<sweep, variant, variants, gains, values, worst>> /\ sweeping' = stage
  BY DEF Keeps
<1>2. IsDefined(sweep') <=> IsDefined(sweep)
  BY <1>1
<1>3. VariantsAreAlike' <=> VariantsAreAlike
  BY <1>1 DEF VariantsAreAlike
<1>4. VariantIsInTheMaking' /\ VariantsArePoints' /\ WorstIsFound'
  BY <1>1 DEF SweepInv, VariantIsInTheMaking, VariantsArePoints, WorstIsFound
<1>5. SummariesAreComplete'
  BY <1>1 DEF SummariesAreComplete
<1> QED
  BY <1>1, <1>2, <1>3, <1>4, <1>5 DEF SweepInv

LEMMA ValidateDefinitionStep == SweepInv /\ ValidateDefinition => SweepInv'
<1> SUFFICES ASSUME SweepInv, ValidateDefinition PROVE SweepInv'
  OBVIOUS
<1>1. PICK ok \in BOOLEAN :
        /\ Chooses(ok, "vary")
        /\ ok => /\ Axes # {}
                 /\ \A a \in Axes : sweep.axes[a].parameter \in DOMAIN sweep.base
                 /\ ~IsRepeated([a \in Axes |-> sweep.axes[a].parameter])
                 /\ \A a \in Axes : sweep.axes[a].values # << >>
  BY DEF ValidateDefinition
<1>2. ok => IsDefined(sweep)
  <2> SUFFICES ASSUME ok PROVE IsDefined(sweep)
    OBVIOUS
  <2>1. \A a, b \in DOMAIN sweep.axes :
          sweep.axes[a].parameter = sweep.axes[b].parameter => a = b
    BY <1>1 DEF Axes, IsRepeated
  <2>2. ASSUME NEW a \in DOMAIN sweep.axes PROVE Len(sweep.axes[a].values) # 0
    <3> DEFINE list == sweep.axes[a].values
    <3>1. IsListed(list) /\ list # << >>
      BY <1>1 DEF SweepInv, IsSweepRequest, Axes
    <3> HIDE DEF list
    <3>2. ASSUME Len(list) = 0 PROVE FALSE
      BY <3>1, <3>2 DEF IsListed
    <3> QED
      BY <3>2 DEF list
  <2>3. DOMAIN sweep.axes # {}
    BY <1>1 DEF Axes
  <2>4. sweep.axes # << >>
    BY <2>3
  <2> QED
    BY <1>1, <2>1, <2>2, <2>3, <2>4 DEF IsDefined, Axes
<1>3. CASE ok
  BY <1>1, <1>2, <1>3, ChoosingKeepsSweepInv DEF Chooses
<1>4. CASE ~ok
  BY <1>1, <1>4, ChoosingKeepsSweepInv DEF Chooses
<1> QED
  BY <1>3, <1>4

\* The places of a request's axes are those of a grid.
WeightsOf(request) ==
    [a \in 0..Len(request.axes) |->
        Points(SubSeq(ShapeOf(request), a + 1, Len(request.axes)))]

LEMMA PlacesAreOfTheGrid ==
  ASSUME NEW request, IsSweepRequest(request), IsDefined(request)
  PROVE  /\ Len(request.axes) \in Nat /\ DOMAIN request.axes = 1..Len(request.axes)
         /\ Weighs(WeightsOf(request), Len(request.axes), ShapeOf(request))
         /\ WeightsOf(request)[0] = Points(ShapeOf(request))
         /\ \A flat \in Nat, a \in 1..Len(request.axes) :
               /\ PlaceIn(request, flat, a) = Place(WeightsOf(request), ShapeOf(request), flat, a)
               /\ PlaceIn(request, flat, a) \in 0..(ShapeOf(request)[a] - 1)
<1>1. PICK n \in Nat : n = Len(request.axes) /\ DOMAIN request.axes = 1..n
  BY DEF IsSweepRequest, IsListed
<1> DEFINE size == ShapeOf(request)
           weight == WeightsOf(request)
<1>2. size \in [1..n -> Nat \ {0}] /\ Len(size) = n
  BY <1>1 DEF ShapeOf, IsSweepRequest, IsListed, IsDefined
<1>3. weight = [a \in 0..n |-> Points(SubSeq(size, a + 1, n))]
  BY <1>1 DEF WeightsOf
<1> HIDE DEF size, weight
<1>4. Weighs(weight, n, size) /\ weight[0] = Points(size)
  BY <1>2, <1>3, PointsWeigh
<1>5. ASSUME NEW flat \in Nat, NEW a \in 1..n
      PROVE  /\ PlaceIn(request, flat, a) = Place(weight, size, flat, a)
             /\ PlaceIn(request, flat, a) \in 0..(size[a] - 1)
  <2>1. weight[a] = Points(SubSeq(size, a + 1, Len(size)))
    BY <1>2, <1>3
  <2>2. PlaceIn(request, flat, a) = (flat \div weight[a]) % size[a]
    BY <2>1 DEF PlaceIn, size
  <2>3. PICK w \in Nat \ {0}, s \in Nat \ {0} : w = weight[a] /\ s = size[a]
    <3>1. a \in 0..n
      OBVIOUS
    <3>2. weight[a] \in Nat \ {0} /\ size[a] \in Nat \ {0}
      BY <1>4, <3>1 DEF Weighs
    <3> QED
      BY <3>2
  <2>4. (flat \div w) % s \in 0..(s - 1)
    BY QuotientType
  <2> QED
    BY <2>2, <2>3, <2>4 DEF Place
<1> QED
  BY <1>1, <1>4, <1>5 DEF size, weight

\* Setting a parameter leaves the ones before it, because no two axes share one.
LEMMA NextPoint ==
  ASSUME NEW request, IsSweepRequest(request), IsDefined(request),
         NEW flat \in Nat, NEW k \in Nat, k < Len(request.axes),
         NEW v \in VariantsOf(request), IsPoint(request, v, flat, k),
         NEW w, w = [v EXCEPT ![request.axes[k + 1].parameter] =
                        request.axes[k + 1].values[PlaceIn(request, flat, k + 1) + 1]]
  PROVE  w \in VariantsOf(request) /\ IsPoint(request, w, flat, k + 1)
<1> DEFINE parameter(a) == request.axes[a].parameter
           value(a) == request.axes[a].values[PlaceIn(request, flat, a) + 1]
<1>1. k + 1 \in DOMAIN request.axes /\ \A a \in 1..k : a \in DOMAIN request.axes /\ a # k + 1
  BY DEF IsSweepRequest, IsListed
<1>2. ShapeOf(request)[k + 1] \in Nat \ {0}
      /\ ShapeOf(request)[k + 1] = Len(request.axes[k + 1].values)
  BY <1>1 DEF ShapeOf, IsSweepRequest, IsListed, IsDefined
<1>3. PlaceIn(request, flat, k + 1) + 1 \in DOMAIN request.axes[k + 1].values
  <2>1. PICK n \in Nat \ {0} : n = ShapeOf(request)[k + 1]
    BY <1>2
  <2>2. DOMAIN request.axes[k + 1].values = 1..n
    BY <1>1, <1>2, <2>1 DEF IsSweepRequest, IsListed
  <2>3. PlaceIn(request, flat, k + 1) \in 0..(n - 1)
    BY <1>1, <2>1, PlacesAreOfTheGrid DEF IsSweepRequest, IsListed
  <2> QED
    BY <2>1, <2>2, <2>3
<1>4. value(k + 1) \in AnyValueOf(request)
  BY <1>1, <1>3 DEF AnyValueOf
<1>5. /\ DOMAIN v = DOMAIN request.base
      /\ \A p \in DOMAIN request.base : v[p] \in AnyValueOf(request)
      /\ parameter(k + 1) \in DOMAIN request.base
  BY <1>1 DEF VariantsOf, IsDefined
<1>6. w = [p \in DOMAIN request.base |-> IF p = parameter(k + 1) THEN value(k + 1) ELSE v[p]]
  BY <1>5
<1>7. w \in VariantsOf(request)
  BY <1>4, <1>5, <1>6 DEF VariantsOf
<1> HIDE DEF value
<1>8. ASSUME NEW a \in 1..(k + 1) PROVE w[parameter(a)] = value(a)
  <2>1. CASE a = k + 1
    BY <1>5, <1>6, <2>1
  <2>2. CASE a \in 1..k
    <3>1. parameter(a) # parameter(k + 1) /\ parameter(a) \in DOMAIN request.base
      BY <1>1, <2>2 DEF IsDefined
    <3>2. v[parameter(a)] = value(a)
      BY <2>2 DEF IsPoint, value
    <3> QED
      BY <1>6, <3>1, <3>2
  <2> QED
    BY <2>1, <2>2
<1>9. ASSUME NEW p \in DOMAIN request.base, \A a \in 1..(k + 1) : parameter(a) # p
      PROVE  w[p] = request.base[p]
  <2>1. p # parameter(k + 1) /\ \A a \in 1..k : parameter(a) # p
    BY <1>9
  <2>2. v[p] = request.base[p]
    BY <2>1 DEF IsPoint
  <2> QED
    BY <1>6, <2>1, <2>2
<1> QED
  BY <1>7, <1>8, <1>9 DEF IsPoint, value

LEMMA SetParameterStep == SweepInv /\ SetParameter => SweepInv'
<1> SUFFICES ASSUME SweepInv, SetParameter PROVE SweepInv'
  OBVIOUS
<1> DEFINE axis  == sweep.axes[variant.set + 1]
           place == SweepCoordinates(Len(variants))[variant.set + 1]
           next  == [variant.parameters EXCEPT ![axis.parameter] = axis.values[place + 1]]
<1>0. IsSweepRequest(sweep) /\ IsDefined(sweep) /\ Len(sweep.axes) \in Nat
  BY DEF SweepInv, SetParameter, IsSweepRequest, IsListed
<1>1. /\ variant.parameters \in VariantsOf(sweep) /\ variant.set \in 0..Len(sweep.axes)
      /\ IsPoint(sweep, variant.parameters, Len(variants), variant.set)
      /\ variant.set < Len(sweep.axes)
      /\ Len(variants) \in Nat
  BY DEF SweepInv, VariantIsInTheMaking, VariantsArePoints, SetParameter
<1>2. variant.set \in Nat /\ variant.set + 1 \in 1..Len(sweep.axes)
  BY <1>0, <1>1
<1>3. place = PlaceIn(sweep, Len(variants), variant.set + 1)
  BY <1>0, <1>2 DEF SweepCoordinates, PlaceIn, Shape, ShapeOf, Axes, IsSweepRequest, IsListed
<1>4. next \in VariantsOf(sweep) /\ IsPoint(sweep, next, Len(variants), variant.set + 1)
  <2> HIDE DEF place
  <2> QED
    BY <1>0, <1>1, <1>2, <1>3, NextPoint
<1>5. CASE AreValid(next)
  <2>1. /\ variant' = [parameters |-> next, set |-> variant.set + 1]
        /\ UNCHANGED <<sweep, sweeping, variants, gains, values, worst>>
    BY <1>5 DEF SetParameter
  <2> HIDE DEF next
  <2>2. VariantIsInTheMaking'
    BY <1>2, <1>4, <1>5, <2>1 DEF VariantIsInTheMaking
  <2>3. VariantsArePoints' /\ WorstIsFound' /\ SummariesAreComplete'
    BY <2>1 DEF SweepInv, VariantsArePoints, WorstIsFound, SummariesAreComplete
  <2>4. VariantsAreAlike' <=> VariantsAreAlike
    BY <2>1 DEF VariantsAreAlike
  <2> QED
    BY <2>1, <2>2, <2>3, <2>4 DEF SweepInv
<1>6. CASE ~AreValid(next)
  BY <1>6, ChoosingKeepsSweepInv DEF SetParameter
<1> QED
  BY <1>5, <1>6

LEMMA CompileVariantStep == SweepInv /\ CompileVariant => SweepInv'
<1> SUFFICES ASSUME SweepInv, CompileVariant PROVE SweepInv'
  OBVIOUS
<1>1. CASE variant.parameters.rate = Inherited
  BY <1>1, ChoosingKeepsSweepInv DEF CompileVariant
<1>2. CASE variant.parameters.rate # Inherited
  <2>0. IsSweepRequest(sweep) /\ IsDefined(sweep) /\ Len(sweep.axes) \in Nat \ {0}
    <3>1. IsSweepRequest(sweep) /\ IsDefined(sweep)
      BY DEF SweepInv, CompileVariant
    <3> QED
      BY <3>1 DEF IsSweepRequest, IsListed, IsDefined
  <2>1. /\ variants' = Append(variants, variant.parameters)
        /\ variant' = [parameters |-> sweep.base, set |-> 0]
        /\ UNCHANGED <<sweep, sweeping, gains, values, worst>>
        /\ sweeping = "vary" /\ variant.set = Len(sweep.axes)
    BY <1>2 DEF CompileVariant, FromBase
  <2>2. PICK v \in VariantsOf(sweep), n \in Nat :
          /\ v = variant.parameters /\ n = Len(variants)
          /\ IsPoint(sweep, v, n, Len(sweep.axes)) /\ AreValid(v)
    BY <2>0, <2>1 DEF SweepInv, VariantIsInTheMaking, VariantsArePoints
  <2>3. /\ variants \in Seq(VariantsOf(sweep)) /\ variants' \in Seq(VariantsOf(sweep))
        /\ Len(variants') = n + 1 /\ variants'[n + 1] = v
        /\ \A i \in 1..n : variants'[i] = variants[i]
    BY <2>1, <2>2 DEF SweepInv, VariantsArePoints
  <2>4. VariantsArePoints'
    <3>1. ASSUME NEW i \in 1..(n + 1)
          PROVE  IsPoint(sweep, variants'[i], i - 1, Len(sweep.axes)) /\ AreValid(variants'[i])
      <4>1. CASE i = n + 1
        <5>1. i - 1 = n
          BY <4>1
        <5> QED
          BY <2>2, <2>3, <4>1, <5>1
      <4>2. CASE i \in 1..n
        BY <2>2, <2>3, <4>2 DEF SweepInv, VariantsArePoints
      <4> QED
        BY <4>1, <4>2
    <3> QED
      BY <2>1, <2>3, <3>1 DEF VariantsArePoints
  <2>5. VariantIsInTheMaking'
    <3>1. sweep.base \in VariantsOf(sweep)
      BY <2>0 DEF IsSweepRequest, VariantsOf, AnyValueOf
    <3>2. IsPoint(sweep, sweep.base, n + 1, 0)
      BY DEF IsPoint
    <3>3. 0 \in 0..Len(sweep.axes)
      BY <2>0
    <3> QED
      BY <2>1, <2>3, <3>1, <3>2, <3>3 DEF VariantIsInTheMaking
  <2>6. WorstIsFound' /\ SummariesAreComplete'
    BY <2>1 DEF SweepInv, WorstIsFound, SummariesAreComplete
  <2> QED
    BY <2>0, <2>1, <2>4, <2>5, <2>6 DEF SweepInv
<1> QED
  BY <1>1, <1>2

LEMMA CheckFamilyStep == SweepInv /\ CheckFamily => SweepInv'
<1> SUFFICES ASSUME SweepInv, CheckFamily PROVE SweepInv'
  OBVIOUS
<1>1. IsDefined(sweep)
  BY DEF SweepInv, CheckFamily
<1>2. PICK ok \in BOOLEAN :
        /\ Chooses(ok, "bound")
        /\ ok => \A i \in DOMAIN variants : ModelOf(variants[i]) = ModelOf(variants[1])
  BY DEF CheckFamily
<1>3. ok => VariantsAreAlike
  <2>1. Len(variants) = Points(ShapeOf(sweep))
    BY DEF CheckFamily, Shape, ShapeOf, Axes
  <2>2. DOMAIN variants = 1..Len(variants)
    BY DEF SweepInv, VariantsArePoints
  <2> QED
    BY <1>2, <2>1, <2>2 DEF VariantsAreAlike
<1>4. CASE ok
  BY <1>1, <1>2, <1>3, <1>4, ChoosingKeepsSweepInv DEF Chooses
<1>5. CASE ~ok
  BY <1>2, <1>5, ChoosingKeepsSweepInv DEF Chooses
<1> QED
  BY <1>4, <1>5

LEMMA BoundAnalysisStep == SweepInv /\ BoundAnalysis => SweepInv'
<1> SUFFICES ASSUME SweepInv, BoundAnalysis PROVE SweepInv'
  OBVIOUS
<1>1. IsDefined(sweep) /\ VariantsAreAlike
  BY DEF SweepInv, BoundAnalysis
<1>2. Keeps("gains") \/ Keeps("refused")
  BY DEF BoundAnalysis, Chooses
<1> QED
  BY <1>1, <1>2, ChoosingKeepsSweepInv

\* One summary more, and the worst of them.
LEMMA WorstOfOneMore ==
  ASSUME NEW S, \A e \in S : e.peak \in 0..1,
         NEW list \in Seq(S), NEW e \in S, NEW w \in Nat, IsWorst(list, w),
         NEW more, more = Append(list, e)
  PROVE  /\ more \in Seq(S) /\ Len(more) = Len(list) + 1
         /\ WorstOf(more, w) \in Nat /\ IsWorst(more, WorstOf(more, w))
<1>1. PICK n \in Nat : n = Len(list)
  OBVIOUS
<1>2. /\ more \in Seq(S) /\ Len(more) = n + 1 /\ more[n + 1] = e
      /\ \A i \in 1..n : more[i] = list[i]
  BY <1>1
<1>3. PICK height \in [1..(n + 1) -> 0..1] : \A i \in 1..(n + 1) : more[i].peak = height[i]
  <2>1. \A i \in 1..(n + 1) : more[i].peak \in 0..1
    BY <1>2
  <2> DEFINE height == [i \in 1..(n + 1) |-> more[i].peak]
  <2>2. height \in [1..(n + 1) -> 0..1] /\ \A i \in 1..(n + 1) : more[i].peak = height[i]
    BY <2>1
  <2> QED
    BY <2>2
<1> DEFINE Highest(m, v) ==
      \A i \in 1..m : height[i] < height[v] \/ (height[i] = height[v] /\ v <= i)
<1>4. ASSUME NEW v \in 1..(n + 1), Highest(n + 1, v) PROVE IsWorst(more, v)
  BY <1>2, <1>3, <1>4 DEF IsWorst
<1>5. CASE n = 0
  <2>1. WorstOf(more, w) = 1
    BY <1>1, <1>2, <1>5 DEF IsWorst, WorstOf
  <2>2. Highest(n + 1, 1)
    BY <1>5
  <2> QED
    BY <1>1, <1>2, <1>4, <1>5, <2>1, <2>2
<1>6. CASE n # 0
  <2>1. w \in 1..n
    BY <1>1, <1>6 DEF IsWorst
  <2>2. Highest(n, w)
    <3> TAKE i \in 1..n
    <3>1. \/ list[i].peak < list[w].peak
          \/ list[i].peak = list[w].peak /\ w <= i
      BY <1>1, <1>6 DEF IsWorst
    <3>2. list[i] = more[i] /\ list[w] = more[w] /\ i \in 1..(n + 1) /\ w \in 1..(n + 1)
      BY <1>2, <2>1
    <3>3. more[i].peak = height[i] /\ more[w].peak = height[w]
      BY <1>3, <3>2
    <3> QED
      BY <3>1, <3>2, <3>3
  <2>3. more[n + 1].peak = height[n + 1] /\ more[w].peak = height[w]
    <3>1. n + 1 \in 1..(n + 1) /\ w \in 1..(n + 1)
      BY <2>1
    <3> QED
      BY <1>3, <3>1
  <2>4. CASE height[n + 1] > height[w]
    <3>1. WorstOf(more, w) = n + 1
      BY <1>2, <2>3, <2>4 DEF WorstOf
    <3>2. Highest(n + 1, n + 1)
      BY <2>1, <2>2, <2>4
    <3> QED
      BY <1>1, <1>2, <1>4, <3>1, <3>2
  <2>5. CASE ~(height[n + 1] > height[w])
    <3>1. WorstOf(more, w) = w
      BY <1>2, <2>1, <2>3, <2>5 DEF WorstOf
    <3>2. Highest(n + 1, w)
      BY <2>1, <2>2, <2>5
    <3> QED
      BY <1>1, <1>2, <1>4, <2>1, <3>1, <3>2
  <2> QED
    BY <2>4, <2>5
<1> QED
  BY <1>5, <1>6

LEMMA PeakExists ==
  ASSUME NEW response \in [1..2 -> 0..1]
  PROVE  Peak(response) \in 1..2 /\ response[Peak(response)] \in 0..1
<1> DEFINE IsPeak(i) == /\ \A j \in DOMAIN response : response[j] <= response[i]
                        /\ \A j \in 1..(i - 1) : response[j] < response[i]
<1>1. response[1] \in 0..1 /\ response[2] \in 0..1
  OBVIOUS
<1>2. \E i \in DOMAIN response : IsPeak(i)
  <2>1. CASE response[2] <= response[1]
    <3>1. IsPeak(1)
      BY <1>1, <2>1
    <3> QED
      BY <3>1
  <2>2. CASE response[1] < response[2]
    <3>1. IsPeak(2)
      BY <1>1, <2>2
    <3> QED
      BY <3>1
  <2> QED
    BY <1>1, <2>1, <2>2
<1>3. Peak(response) \in DOMAIN response
  BY <1>2 DEF Peak
<1> QED
  BY <1>3

LEMMA SummarizeFrequencyStep == SweepInv /\ SummarizeFrequency => SweepInv'
<1> SUFFICES ASSUME SweepInv, SummarizeFrequency PROVE SweepInv'
  OBVIOUS
<1> DEFINE S == [at : 1..2, peak : 0..1]
<1>1. PICK e \in S : gains' = Append(gains, e)
  BY PeakExists DEF SummarizeFrequency
<1>2. /\ gains \in Seq(S) /\ worst \in [gain : Nat, value : Nat]
      /\ IsWorst(gains, worst.gain) /\ IsWorst(values, worst.value)
      /\ values \in Seq([peak : 0..1])
  BY DEF SweepInv, WorstIsFound
<1>3. \A f \in S : f.peak \in 0..1
  OBVIOUS
<1>4. worst' = [worst EXCEPT !.gain = WorstOf(gains', worst.gain)]
  BY DEF SummarizeFrequency
<1>5. UNCHANGED <<sweep, variant, variants, values>> /\ sweeping = "gains"
      /\ sweeping' = IF Len(gains') = Len(variants) THEN "values" ELSE "gains"
  BY DEF SummarizeFrequency
<1> HIDE DEF S
<1>6. /\ gains' \in Seq(S) /\ WorstOf(gains', worst.gain) \in Nat
      /\ IsWorst(gains', WorstOf(gains', worst.gain))
  <2>1. worst.gain \in Nat
    BY <1>2
  <2> QED
    BY <1>1, <1>2, <1>3, <2>1, WorstOfOneMore
<1>7. WorstIsFound'
  <2>1. /\ worst' \in [gain : Nat, value : Nat]
        /\ worst'.gain = WorstOf(gains', worst.gain) /\ worst'.value = worst.value
    BY <1>2, <1>4, <1>6
  <2> QED
    BY <1>2, <1>5, <1>6, <2>1 DEF WorstIsFound, S
<1>8. VariantIsInTheMaking' /\ VariantsArePoints'
  BY <1>5 DEF SweepInv, VariantIsInTheMaking, VariantsArePoints
<1>9. VariantsAreAlike'
  BY <1>5 DEF SweepInv, VariantsAreAlike
<1>10. SummariesAreComplete'
  BY <1>5 DEF SummariesAreComplete
<1> QED
  BY <1>5, <1>7, <1>8, <1>9, <1>10 DEF SweepInv

LEMMA SummarizeTimeStep == SweepInv /\ SummarizeTime => SweepInv'
<1> SUFFICES ASSUME SweepInv, SummarizeTime PROVE SweepInv'
  OBVIOUS
<1> DEFINE S == [peak : 0..1]
<1>1. PICK e \in S : values' = Append(values, e)
  BY DEF SummarizeTime
<1>2. /\ values \in Seq(S) /\ worst \in [gain : Nat, value : Nat]
      /\ IsWorst(gains, worst.gain) /\ IsWorst(values, worst.value)
      /\ gains \in Seq([at : 1..2, peak : 0..1])
  BY DEF SweepInv, WorstIsFound
<1>3. \A f \in S : f.peak \in 0..1
  OBVIOUS
<1>4. worst' = [worst EXCEPT !.value = WorstOf(values', worst.value)]
  BY DEF SummarizeTime
<1>5. UNCHANGED <<sweep, variant, variants, gains>> /\ sweeping = "values"
      /\ sweeping' = IF Len(values') = Len(variants) THEN "done" ELSE "values"
  BY DEF SummarizeTime
<1> HIDE DEF S
<1>6. /\ values' \in Seq(S) /\ WorstOf(values', worst.value) \in Nat
      /\ IsWorst(values', WorstOf(values', worst.value))
  <2>1. worst.value \in Nat
    BY <1>2
  <2> QED
    BY <1>1, <1>2, <1>3, <2>1, WorstOfOneMore
<1>7. WorstIsFound'
  <2>1. /\ worst' \in [gain : Nat, value : Nat]
        /\ worst'.value = WorstOf(values', worst.value) /\ worst'.gain = worst.gain
    BY <1>2, <1>4, <1>6
  <2> QED
    BY <1>2, <1>5, <1>6, <2>1 DEF WorstIsFound, S
<1>8. VariantIsInTheMaking' /\ VariantsArePoints'
  BY <1>5 DEF SweepInv, VariantIsInTheMaking, VariantsArePoints
<1>9. VariantsAreAlike'
  BY <1>5 DEF SweepInv, VariantsAreAlike
<1>10. SummariesAreComplete'
  BY <1>5 DEF SweepInv, SummariesAreComplete
<1> QED
  BY <1>5, <1>7, <1>8, <1>9, <1>10 DEF SweepInv

LEMMA SweepUnchanged == SweepInv /\ UNCHANGED sweepVars => SweepInv'
<1> SUFFICES ASSUME SweepInv, UNCHANGED sweepVars PROVE SweepInv'
  OBVIOUS
<1>1. UNCHANGED <<sweep, sweeping, variant, variants, gains, values, worst>>
  BY DEF sweepVars
<1>2. VariantsAreAlike' <=> VariantsAreAlike
  BY <1>1 DEF VariantsAreAlike
<1>3. VariantIsInTheMaking' /\ VariantsArePoints' /\ WorstIsFound' /\ SummariesAreComplete'
  BY <1>1 DEF SweepInv, VariantIsInTheMaking, VariantsArePoints, WorstIsFound, SummariesAreComplete
<1> QED
  BY <1>1, <1>2, <1>3 DEF SweepInv

\* The other steps of the studio leave a sweep alone.
LEMMA StudioStepIsSweepStep == [StudioNext]_studioVars => SweepStep \/ UNCHANGED sweepVars
<1> SUFFICES ASSUME [StudioNext]_studioVars, ~SweepStep PROVE UNCHANGED sweepVars
  OBVIOUS
<1>1. CASE UNCHANGED studioVars
  BY <1>1 DEF studioVars, calculationVars
<1> QED
  BY <1>1 DEF StudioNext, Analyses, SweepStep, Stored, Plans, Converts, Builds, calculationVars

LEMMA SweepStepKeepsInv == SweepInv /\ [StudioNext]_studioVars => SweepInv'
  BY StudioStepIsSweepStep, ValidateDefinitionStep, SetParameterStep, CompileVariantStep,
     CheckFamilyStep, BoundAnalysisStep, SummarizeFrequencyStep, SummarizeTimeStep,
     SweepUnchanged DEF SweepStep

\* Each combination of values is the one of the places its values are at.
LEMMA EachCombinationHasItsPoint ==
  ASSUME NEW request, IsSweepRequest(request), IsDefined(request), NEW v,
         \A a \in DOMAIN request.axes : \E i \in DOMAIN request.axes[a].values :
             v[request.axes[a].parameter] = request.axes[a].values[i],
         \A p \in DOMAIN request.base :
             (\A a \in DOMAIN request.axes : request.axes[a].parameter # p)
                 => v[p] = request.base[p]
  PROVE  \E flat \in Nat : /\ flat < Points(ShapeOf(request))
                           /\ IsPoint(request, v, flat, Len(request.axes))
<1> DEFINE size == ShapeOf(request)
           weight == WeightsOf(request)
           axis(a) == request.axes[a]
<1>1. PICK n \in Nat :
        /\ n = Len(request.axes) /\ DOMAIN request.axes = 1..n
        /\ Weighs(weight, n, size) /\ weight[0] = Points(size)
        /\ \A flat \in Nat, a \in 1..n : PlaceIn(request, flat, a) = Place(weight, size, flat, a)
  BY PlacesAreOfTheGrid
<1>2. \A a \in 1..n : /\ size[a] = Len(axis(a).values) /\ size[a] \in Nat
                      /\ DOMAIN axis(a).values = 1..size[a]
  BY <1>1 DEF ShapeOf, IsSweepRequest, IsListed
<1> DEFINE At(a, k) == k \in 0..(size[a] - 1) /\ v[axis(a).parameter] = axis(a).values[k + 1]
<1>3. ASSUME NEW a \in 1..n PROVE \E k \in Nat : At(a, k)
  <2>1. PICK i \in 1..size[a] : v[axis(a).parameter] = axis(a).values[i]
    BY <1>1, <1>2
  <2>2. i - 1 \in 0..(size[a] - 1) /\ i - 1 \in Nat /\ (i - 1) + 1 = i
    BY <1>2, <2>1
  <2> QED
    BY <2>1, <2>2
<1> DEFINE place == [a \in 1..n |-> CHOOSE k \in Nat : At(a, k)]
<1> HIDE DEF At
<1>4. place \in [1..n -> Nat] /\ \A a \in 1..n : At(a, place[a])
  BY <1>3
<1> HIDE DEF place, size, weight
<1>5. \A a \in 1..n : place[a] < size[a]
  BY <1>2, <1>4 DEF At
<1>6. PICK flat \in Nat : /\ flat < weight[0]
                         /\ \A a \in 1..n : Place(weight, size, flat, a) = place[a]
  <2>1. Weighs(weight, n, size)
    BY <1>1
  <2> HIDE DEF At
  <2> QED
    BY <1>4, <1>5, <2>1, PointsCoverPlaces
<1>7. \A a \in 1..n : v[axis(a).parameter] = axis(a).values[PlaceIn(request, flat, a) + 1]
  BY <1>1, <1>4, <1>6 DEF At
<1>8. IsPoint(request, v, flat, n)
  BY <1>1, <1>7 DEF IsPoint
<1> QED
  BY <1>1, <1>6, <1>8 DEF size

\* No two combinations have the same point.
LEMMA PointsAreOfOneVariant ==
  ASSUME NEW request, IsSweepRequest(request), IsDefined(request), NEW flat \in Nat,
         NEW S, NEW v \in [DOMAIN request.base -> S], IsPoint(request, v, flat, Len(request.axes)),
         NEW T, NEW w \in [DOMAIN request.base -> T], IsPoint(request, w, flat, Len(request.axes))
  PROVE  v = w
<1>1. ASSUME NEW p \in DOMAIN request.base PROVE v[p] = w[p]
  <2>1. CASE \E a \in 1..Len(request.axes) : request.axes[a].parameter = p
    BY <2>1 DEF IsPoint
  <2>2. CASE \A a \in 1..Len(request.axes) : request.axes[a].parameter # p
    BY <2>2 DEF IsPoint
  <2> QED
    BY <2>1, <2>2
<1> QED
  BY <1>1

\* Every analysis that ends is of the whole grid, in order, and names the first worst case.
THEOREM SweepsCoverTheGrid == StudioSpec => []SweepsCoverTheirGrid
<1> SUFFICES SweepInv => SweepsCoverTheirGrid
  BY InitEstablishesSweepInv, SweepStepKeepsInv, PTL DEF StudioSpec
<1> SUFFICES ASSUME SweepInv, sweeping = "done" PROVE SweepsCoverTheirGrid
  BY DEF SweepsCoverTheirGrid
<1> DEFINE named == {sweep.axes[a].parameter : a \in Axes}
           ValuesOf(p) == UNION {{sweep.axes[a].values[i] : i \in DOMAIN sweep.axes[a].values} :
                                    a \in {b \in Axes : sweep.axes[b].parameter = p}}
           Anything == {sweep.base[p] : p \in DOMAIN sweep.base} \cup UNION {ValuesOf(p) : p \in named}
           CanBe(p) == IF p \in named THEN ValuesOf(p) ELSE {sweep.base[p]}
           size == ShapeOf(sweep)
           weight == WeightsOf(sweep)
<1>1. PICK n \in Nat :
        /\ n = Len(sweep.axes) /\ Axes = 1..n /\ Weighs(weight, n, size)
        /\ weight[0] = Points(size)
        /\ \A flat \in Nat, a \in 1..n :
              /\ PlaceIn(sweep, flat, a) = Place(weight, size, flat, a)
              /\ PlaceIn(sweep, flat, a) \in 0..(size[a] - 1)
  BY PlacesAreOfTheGrid DEF SweepInv, Axes
<1>2. IsSweepRequest(sweep) /\ IsDefined(sweep) /\ VariantsAreAlike
  BY DEF SweepInv
<1>3. PICK m \in Nat : m = Len(variants) /\ m = weight[0] /\ DOMAIN variants = 1..m
  BY <1>1 DEF SweepInv, VariantsAreAlike, VariantsArePoints
<1>4. \A i \in 1..m : /\ variants[i] \in VariantsOf(sweep)
                      /\ IsPoint(sweep, variants[i], i - 1, n) /\ AreValid(variants[i])
  BY <1>1, <1>3 DEF SweepInv, VariantsArePoints
<1>5. \A a \in 1..n : /\ size[a] = Len(sweep.axes[a].values) /\ size[a] \in Nat \ {0}
                      /\ DOMAIN sweep.axes[a].values = 1..size[a]
                      /\ sweep.axes[a].parameter \in DOMAIN sweep.base
  BY <1>1, <1>2 DEF ShapeOf, Axes, IsSweepRequest, IsListed, IsDefined
<1>6. \A a, b \in 1..n : sweep.axes[a].parameter = sweep.axes[b].parameter => a = b
  BY <1>1, <1>2 DEF IsDefined, Axes
<1> HIDE DEF size, weight
<1>7. \A p, x : x \in ValuesOf(p) <=> \E a \in Axes :
                     /\ sweep.axes[a].parameter = p
                     /\ \E k \in DOMAIN sweep.axes[a].values : x = sweep.axes[a].values[k]
  OBVIOUS
<1>8. Axes = 1..n
  BY <1>1
<1> HIDE DEF ValuesOf
<1>9. ASSUME NEW i \in 1..m, NEW a \in 1..n
      PROVE  \E k \in 1..size[a] :
               /\ k = Place(weight, size, i - 1, a) + 1
               /\ variants[i][sweep.axes[a].parameter] = sweep.axes[a].values[k]
  <2>1. i - 1 \in Nat
    OBVIOUS
  <2>2. PICK s \in Nat \ {0} : s = size[a]
    BY <1>5
  <2>3. PICK k \in 0..(s - 1) : k = PlaceIn(sweep, i - 1, a) /\ k = Place(weight, size, i - 1, a)
    BY <1>1, <2>1, <2>2
  <2>4. variants[i][sweep.axes[a].parameter] = sweep.axes[a].values[k + 1]
    BY <1>4, <2>3 DEF IsPoint
  <2>5. k + 1 \in 1..size[a]
    BY <2>2, <2>3
  <2> QED
    BY <2>3, <2>4, <2>5
<1>10. ASSUME NEW i \in 1..m
      PROVE  /\ variants[i] \in [DOMAIN sweep.base -> Anything]
             /\ \A p \in DOMAIN sweep.base : variants[i][p] \in CanBe(p)
  <2>1. ASSUME NEW p \in DOMAIN sweep.base PROVE variants[i][p] \in CanBe(p)
    <3>1. CASE p \in named
      <4>1. PICK a \in 1..n : p = sweep.axes[a].parameter
        BY <1>1, <3>1
      <4>2. \E k \in 1..size[a] : variants[i][p] = sweep.axes[a].values[k]
        BY <1>9, <4>1
      <4>3. variants[i][p] \in ValuesOf(p)
        BY <1>5, <1>8, <1>7, <4>1, <4>2
      <4> QED
        BY <3>1, <4>3
    <3>2. CASE p \notin named
      <4>1. \A a \in 1..n : sweep.axes[a].parameter # p
        BY <1>1, <3>2
      <4>2. variants[i][p] = sweep.base[p]
        BY <1>4, <4>1 DEF IsPoint
      <4> QED
        BY <3>2, <4>2
    <3> QED
      BY <3>1, <3>2
  <2>2. ASSUME NEW p \in DOMAIN sweep.base PROVE CanBe(p) \subseteq Anything
    <3>1. CASE p \in named
      <4> HIDE DEF named
      <4>1. ValuesOf(p) \in {ValuesOf(q) : q \in named}
        BY <3>1
      <4> QED
        BY <3>1, <4>1
    <3>2. CASE p \notin named
      <4> HIDE DEF named
      <4>1. CanBe(p) = {sweep.base[p]}
        BY <3>2
      <4>2. sweep.base[p] \in Anything
        OBVIOUS
      <4> HIDE DEF CanBe, Anything
      <4> QED
        BY <4>1, <4>2
    <3> QED
      BY <3>1, <3>2
  <2>3. variants[i] = [p \in DOMAIN sweep.base |-> variants[i][p]]
    BY <1>4 DEF VariantsOf
  <2> HIDE DEF Anything, CanBe
  <2>4. \A p \in DOMAIN sweep.base : variants[i][p] \in Anything
    BY <2>1, <2>2
  <2> QED
    BY <2>1, <2>3, <2>4
<1>11. ASSUME NEW v \in [DOMAIN sweep.base -> Anything], \A p \in DOMAIN sweep.base : v[p] \in CanBe(p)
      PROVE  \E i \in 1..m : v = variants[i]
  <2>1. ASSUME NEW a \in 1..n
        PROVE  \E k \in DOMAIN sweep.axes[a].values :
                  v[sweep.axes[a].parameter] = sweep.axes[a].values[k]
    <3>1. v[sweep.axes[a].parameter] \in CanBe(sweep.axes[a].parameter)
      BY <1>5, <1>11
    <3>2. v[sweep.axes[a].parameter] \in ValuesOf(sweep.axes[a].parameter)
      BY <1>1, <3>1
    <3>3. PICK b \in 1..n : /\ sweep.axes[b].parameter = sweep.axes[a].parameter
                            /\ \E k \in DOMAIN sweep.axes[b].values :
                                  v[sweep.axes[a].parameter] = sweep.axes[b].values[k]
      BY <1>8, <1>7, <3>2
    <3>4. b = a
      BY <1>6, <3>3
    <3> QED
      BY <3>3, <3>4
  <2>2. \A p \in DOMAIN sweep.base :
          (\A a \in 1..n : sweep.axes[a].parameter # p) => v[p] = sweep.base[p]
    BY <1>1, <1>11
  <2>3. PICK flat \in Nat : flat < m /\ IsPoint(sweep, v, flat, n)
    BY <1>1, <1>2, <1>3, <2>1, <2>2, EachCombinationHasItsPoint DEF Axes, size
  <2>4. flat + 1 \in 1..m /\ (flat + 1) - 1 = flat
    BY <2>3
  <2>5. variants[flat + 1] \in [DOMAIN sweep.base -> AnyValueOf(sweep)]
        /\ IsPoint(sweep, variants[flat + 1], flat, n)
    BY <1>4, <2>4 DEF VariantsOf
  <2> HIDE DEF Anything
  <2>6. v = variants[flat + 1]
    BY <1>1, <1>2, <2>3, <2>5, PointsAreOfOneVariant
  <2> QED
    BY <2>4, <2>6
<1>12. {variants[i] : i \in DOMAIN variants} =
          {v \in [DOMAIN sweep.base -> Anything] : \A p \in DOMAIN v : v[p] \in CanBe(p)}
  <2> HIDE DEF Anything, CanBe
  <2> QED
    BY <1>3, <1>10, <1>11
<1>13. ASSUME NEW i \in 1..m, NEW j \in 1..m, i < j PROVE Precedes(variants[i], variants[j])
  <2>1. i - 1 \in Nat /\ j - 1 \in Nat /\ i - 1 < j - 1 /\ j - 1 < weight[0]
    BY <1>3, <1>13
  <2>2. PICK a \in 1..n :
          /\ \A b \in 1..(a - 1) : Place(weight, size, i - 1, b) = Place(weight, size, j - 1, b)
          /\ Place(weight, size, i - 1, a) < Place(weight, size, j - 1, a)
    BY <1>1, <2>1, PointsAreInOrder
  <2>3. \A b \in 1..(a - 1) :
          variants[i][sweep.axes[b].parameter] = variants[j][sweep.axes[b].parameter]
    <3> TAKE b \in 1..(a - 1)
    <3>1. b \in 1..n
      OBVIOUS
    <3> QED
      BY <1>9, <2>2, <3>1
  <2>4. PICK k \in 1..size[a] :
          /\ k = Place(weight, size, i - 1, a) + 1
          /\ variants[i][sweep.axes[a].parameter] = sweep.axes[a].values[k]
    BY <1>9
  <2>5. PICK l \in 1..size[a] :
          /\ l = Place(weight, size, j - 1, a) + 1
          /\ variants[j][sweep.axes[a].parameter] = sweep.axes[a].values[l]
    BY <1>9
  <2>6. k < l
    <3>1. PICK s \in Nat \ {0} : s = size[a]
      BY <1>5
    <3>2. PICK x \in 0..(s - 1), y \in 0..(s - 1) :
            x = Place(weight, size, i - 1, a) /\ y = Place(weight, size, j - 1, a)
      BY <1>1, <2>1, <3>1
    <3> QED
      BY <2>2, <2>4, <2>5, <3>2
  <2>7. k \in DOMAIN sweep.axes[a].values /\ l \in DOMAIN sweep.axes[a].values
    BY <1>5
  <2> QED
    BY <1>1, <2>3, <2>4, <2>5, <2>6, <2>7 DEF Precedes
<1>14. \A i, j \in 1..m : ModelOf(variants[i]) = ModelOf(variants[j])
  BY <1>2, <1>3 DEF VariantsAreAlike
<1>15. ASSUME NEW i \in 1..m
       PROVE  /\ gains[i].peak < gains[worst.gain].peak
                    \/ (gains[i].peak = gains[worst.gain].peak /\ worst.gain <= i)
              /\ values[i].peak < values[worst.value].peak
                    \/ (values[i].peak = values[worst.value].peak /\ worst.value <= i)
  <2>1. Len(gains) = m /\ Len(values) = m /\ m # 0
    BY <1>3 DEF SweepInv, SummariesAreComplete
  <2>2. IsWorst(gains, worst.gain) /\ IsWorst(values, worst.value)
    BY DEF SweepInv, WorstIsFound
  <2> QED
    BY <2>1, <2>2 DEF IsWorst
<1>16. /\ \A i, j \in DOMAIN variants : i < j => Precedes(variants[i], variants[j])
       /\ \A i \in DOMAIN variants : AreValid(variants[i])
       /\ \A i, j \in DOMAIN variants : ModelOf(variants[i]) = ModelOf(variants[j])
  BY <1>3, <1>4, <1>13, <1>14
<1>17. \A i \in DOMAIN variants :
              /\ gains[i].peak < gains[worst.gain].peak
                    \/ (gains[i].peak = gains[worst.gain].peak /\ worst.gain <= i)
              /\ values[i].peak < values[worst.value].peak
                    \/ (values[i].peak = values[worst.value].peak /\ worst.value <= i)
  BY <1>3, <1>15
<1> QED
  BY <1>12, <1>16, <1>17, Zenon DEF SweepsCoverTheirGrid, ValuesOf

(***************************************************************************)
(* Exact delays along paths                                                *)
(***************************************************************************)
\* What the passes are given: finitely many blocks that are contracts, and wires of theirs.
WiresJoinBlocks == \A w \in asked.wires : w.source \in Ids /\ w.target \in Ids
DelaysAreNumbers == \A b \in Ids : Block(b).delay \in Nat

IsDelaySum(t, way, n) ==
    t = [i \in 0..n |-> IF i = 0 THEN 0 ELSE t[i - 1] + Block(way[i]).delay]

LEMMA DelaySumStep ==
  ASSUME NEW k \in Nat, NEW way, NEW f, IsDelaySum(f, way, k)
  PROVE  \E g : IsDelaySum(g, way, k + 1)
<1> DEFINE g == [l \in 0..(k + 1) |-> IF l = k + 1 THEN f[k] + Block(way[k + 1]).delay ELSE f[l]]
<1>1. \A l \in 0..k : f[l] = IF l = 0 THEN 0 ELSE f[l - 1] + Block(way[l]).delay
  BY DEF IsDelaySum
<1>2. \A l \in 0..(k + 1) : g[l] = IF l = 0 THEN 0 ELSE g[l - 1] + Block(way[l]).delay
  BY <1>1
<1>3. IsDelaySum(g, way, k + 1)
  BY <1>2 DEF IsDelaySum
<1> QED
  BY <1>3

LEMMA DelayIsASum ==
  ASSUME NEW way, NEW m \in Nat, m = Len(way)
  PROVE  \E t : IsDelaySum(t, way, m) /\ DelayOf(way) = t[m]
<1> DEFINE Good == {k \in 0..m : \E t : IsDelaySum(t, way, k)}
<1>1. 0 \in Good
  <2>1. IsDelaySum([i \in 0..0 |-> 0], way, 0)
    BY DEF IsDelaySum
  <2> QED
    BY <2>1
<1>2. ASSUME NEW k \in 0..m, k < m, k \in Good PROVE k + 1 \in Good
  <2>1. k \in Nat /\ k + 1 \in 0..m
    BY <1>2
  <2>2. \E t : IsDelaySum(t, way, k)
    BY <1>2
  <2>3. \E t : IsDelaySum(t, way, k + 1)
    BY <2>1, <2>2, DelaySumStep
  <2> QED
    BY <2>1, <2>3
<1> HIDE DEF Good
<1>3. m \in Good
  <2>1. \A k \in 0..m : k \in Good
    BY <1>1, <1>2, UpTo
  <2> QED
    BY <2>1
<1>4. \E t : IsDelaySum(t, way, m)
  BY <1>3 DEF Good
<1> QED
  BY <1>4 DEF DelayOf, IsDelaySum

\* A sum from the front is one from the back.
LEMMA DelaysFromTheBack ==
  ASSUME DelaysAreNumbers, NEW way \in Seq(Ids)
  PROVE  /\ way = << >> => DelayOf(way) = 0
         /\ way # << >> => DelayOf(way) = Block(Head(way)).delay + DelayOf(Tail(way))
         /\ DelayOf(way) \in Nat
<1>1. PICK m \in Nat : m = Len(way)
  OBVIOUS
<1>2. PICK t : IsDelaySum(t, way, m) /\ DelayOf(way) = t[m]
  BY <1>1, DelayIsASum
<1>3. \A i \in 0..m : t[i] = IF i = 0 THEN 0 ELSE t[i - 1] + Block(way[i]).delay
  BY <1>2 DEF IsDelaySum
<1>4. \A i \in 1..m : Block(way[i]).delay \in Nat
  BY <1>1 DEF DelaysAreNumbers
<1>5. ASSUME way = << >> PROVE DelayOf(way) = 0
  BY <1>1, <1>2, <1>3, <1>5
<1>6. ASSUME way # << >>
      PROVE  DelayOf(way) = Block(Head(way)).delay + DelayOf(Tail(way))
  <2>1. m # 0 /\ Tail(way) \in Seq(Ids) /\ Len(Tail(way)) = m - 1 /\ m - 1 \in Nat
        /\ Head(way) = way[1] /\ \A i \in 1..(m - 1) : Tail(way)[i] = way[i + 1]
    BY <1>1, <1>6
  <2>2. PICK u : IsDelaySum(u, Tail(way), m - 1) /\ DelayOf(Tail(way)) = u[m - 1]
    BY <2>1, DelayIsASum
  <2>3. u[0] = 0 /\ \A i \in 1..(m - 1) : u[i] = u[i - 1] + Block(way[i + 1]).delay
    <3>1. \A i \in 0..(m - 1) : u[i] = IF i = 0 THEN 0 ELSE u[i - 1] + Block(Tail(way)[i]).delay
      BY <2>2 DEF IsDelaySum
    <3>2. ASSUME NEW i \in 1..(m - 1) PROVE u[i] = u[i - 1] + Block(way[i + 1]).delay
      <4>1. i \in 0..(m - 1) /\ i # 0 /\ Tail(way)[i] = way[i + 1]
        BY <2>1
      <4>2. u[i] = u[i - 1] + Block(Tail(way)[i]).delay
        BY <3>1, <4>1
      <4> QED
        BY <4>1, <4>2
    <3>3. 0 \in 0..(m - 1)
      BY <2>1
    <3> QED
      BY <3>1, <3>2, <3>3
  <2> DEFINE Good == {k \in 0..(m - 1) : u[k] \in Nat /\ t[k + 1] = Block(way[1]).delay + u[k]}
  <2>4. PICK d \in Nat : d = Block(way[1]).delay
    BY <1>4, <2>1
  <2>5. 0 \in Good
    <3>1. u[0] = 0 /\ t[0] = 0 /\ t[1] = t[0] + d
      BY <1>3, <2>1, <2>3, <2>4
    <3> QED
      BY <2>1, <2>4, <3>1
  <2>6. ASSUME NEW k \in 0..(m - 1), k < m - 1, k \in Good PROVE k + 1 \in Good
    <3>1. k + 1 \in 1..(m - 1) /\ k + 2 \in 1..m /\ k + 1 - 1 = k /\ k + 2 - 1 = k + 1
          /\ k + 1 \in 0..(m - 1) /\ k + 1 + 1 = k + 2 /\ k + 2 \in 0..m
      BY <2>1, <2>6
    <3>2. PICK e \in Nat : e = Block(way[k + 2]).delay
      BY <1>4, <3>1
    <3>3. u[k + 1] = u[k] + e
      <4>1. u[k + 1] = u[(k + 1) - 1] + Block(way[(k + 1) + 1]).delay
        BY <2>3, <3>1
      <4> QED
        BY <3>1, <3>2, <4>1
    <3>4. t[k + 2] = t[k + 1] + e
      BY <1>3, <3>1, <3>2
    <3>5. u[k] \in Nat /\ t[k + 1] = d + u[k]
      BY <2>4, <2>6
    <3>6. u[k + 1] \in Nat /\ t[k + 2] = d + u[k + 1]
      BY <3>2, <3>3, <3>4, <3>5
    <3> QED
      BY <2>4, <3>1, <3>6
  <2> HIDE DEF Good
  <2>7. m - 1 \in Good
    <3>1. \A k \in 0..(m - 1) : k \in Good
      BY <2>1, <2>5, <2>6, UpTo
    <3> QED
      BY <2>1, <3>1
  <2>8. t[m] = Block(way[1]).delay + u[m - 1]
    BY <2>1, <2>7 DEF Good
  <2> QED
    BY <1>2, <2>1, <2>2, <2>8
<1>7. DelayOf(way) \in Nat
  <2> DEFINE Good == {k \in 0..m : t[k] \in Nat}
  <2>1. 0 \in Good
    BY <1>3
  <2>2. ASSUME NEW k \in 0..m, k < m, k \in Good PROVE k + 1 \in Good
    <3>1. k + 1 \in 1..m /\ k + 1 - 1 = k /\ k + 1 \in 0..m
      BY <2>2
    <3>2. t[k + 1] = t[k] + Block(way[k + 1]).delay /\ t[k] \in Nat
      BY <1>3, <2>2, <3>1
    <3>3. Block(way[k + 1]).delay \in Nat
      BY <1>4, <3>1
    <3> QED
      BY <3>1, <3>2, <3>3
  <2> HIDE DEF Good
  <2>3. \A k \in 0..m : k \in Good
    BY <2>1, <2>2, UpTo
  <2> QED
    BY <1>2, <2>3 DEF Good
<1> QED
  BY <1>5, <1>6, <1>7

\* The recursion of PathDelays computes that sum.
IsPathDelay(f) ==
    f = [path \in Seq(Ids) |-> IF path = << >> THEN 0
                               ELSE Block(Head(path)).delay + f[Tail(path)]]

LEMMA PathDelaysAreSums ==
  ASSUME DelaysAreNumbers
  PROVE  /\ \E f : IsPathDelay(f)
         /\ \A f : IsPathDelay(f) => \A path \in Seq(Ids) : f[path] = DelayOf(path)
<1>1. \E f : IsPathDelay(f)
  <2> DEFINE f == [path \in Seq(Ids) |-> DelayOf(path)]
  <2>1. ASSUME NEW path \in Seq(Ids)
        PROVE  DelayOf(path) = IF path = << >> THEN 0 ELSE Block(Head(path)).delay + f[Tail(path)]
    <3>1. CASE path = << >>
      BY <3>1, DelaysFromTheBack
    <3>2. CASE path # << >>
      <4>1. Tail(path) \in Seq(Ids)
        BY <3>2
      <4> QED
        BY <3>2, <4>1, DelaysFromTheBack
    <3> QED
      BY <3>1, <3>2
  <2>2. IsPathDelay(f)
    BY <2>1 DEF IsPathDelay
  <2> QED
    BY <2>2
<1>2. ASSUME NEW f, IsPathDelay(f), NEW path \in Seq(Ids) PROVE f[path] = DelayOf(path)
  <2> DEFINE Wrong == {p \in Seq(Ids) : f[p] # DelayOf(p)}
             Lengths == {Len(p) : p \in Wrong}
  <2> SUFFICES ASSUME Wrong # {} PROVE FALSE
    OBVIOUS
  <2>1. Lengths \in SUBSET Nat /\ Lengths # {}
    <3>1. \A p \in Wrong : Len(p) \in Nat
      OBVIOUS
    <3> HIDE DEF Wrong
    <3> QED
      BY <3>1
  <2>2. PICK p \in Wrong : \A q \in Wrong : Len(p) <= Len(q)
    <3> HIDE DEF Wrong
    <3>1. PICK n \in Lengths : \A m \in Lengths : n <= m
      <4> HIDE DEF Lengths
      <4> QED
        BY <2>1, LeastExists
    <3> QED
      BY <3>1
  <2>3. p \in Seq(Ids) /\ f[p] = IF p = << >> THEN 0 ELSE Block(Head(p)).delay + f[Tail(p)]
    BY <1>2 DEF IsPathDelay
  <2>4. p # << >>
    BY <2>3, DelaysFromTheBack
  <2>5. Tail(p) \in Seq(Ids) /\ Len(Tail(p)) < Len(p)
    BY <2>3, <2>4
  <2>6. Tail(p) \notin Wrong
    <3>1. Len(Tail(p)) \in Nat /\ Len(p) \in Nat
      BY <2>3, <2>5
    <3>2. PICK a \in Nat, b \in Nat : a = Len(p) /\ b = Len(Tail(p)) /\ b < a
      BY <2>5, <3>1
    <3> HIDE DEF Wrong
    <3>3. Tail(p) \in Wrong => a <= b
      BY <2>2, <3>2, Zenon
    <3> QED
      BY <3>2, <3>3
  <2>7. f[Tail(p)] = DelayOf(Tail(p))
    BY <2>5, <2>6
  <2>8. f[p] = DelayOf(p)
    BY <2>3, <2>4, <2>7, DelaysFromTheBack
  <2> QED
    BY <2>8
<1> QED
  BY <1>1, <1>2

(***************************************************************************)
(* The walks of exactPathDelays                                            *)
(***************************************************************************)
WalksFrom(f, path, target) ==
    IF path[Len(path)] = target THEN {path}
    ELSE IF path[Len(path)] \in {path[i] : i \in 1..(Len(path) - 1)} THEN {<< >>}
    ELSE UNION {f[Append(path, next)] : next \in After(path[Len(path)])}

IsWalks(f, target) == f = [path \in Seq(Ids) |-> WalksFrom(f, path, target)]

\* A walk that has begun like this path and goes on until it stops.
GoesOnAt(w, i, target) ==
    /\ w[i] # target /\ w[i + 1] \in After(w[i])
    /\ \A j \in 1..(i - 1) : w[j] # w[i]
Extends(w, path, target) ==
    /\ w \in Seq(Ids) /\ Len(path) <= Len(w)
    /\ \A i \in 1..Len(path) : w[i] = path[i]
    /\ \A i \in Len(path)..(Len(w) - 1) : GoesOnAt(w, i, target)
Cycles(w, target) ==
    w[Len(w)] # target /\ \E j \in 1..(Len(w) - 1) : w[j] = w[Len(w)]
Arrivals(path, target) == {w \in Seq(Ids) : Extends(w, path, target) /\ w[Len(w)] = target}
Repeats(path, target) == {e \in {<< >>} : \E w : Extends(w, path, target) /\ Cycles(w, target)}
Walked(path, target) == Arrivals(path, target) \cup Repeats(path, target)

LEMMA ExtensionsOfOneMore ==
  ASSUME WiresJoinBlocks, NEW path \in Seq(Ids), path # << >>, NEW target, NEW w,
         path[Len(path)] # target, \A j \in 1..(Len(path) - 1) : path[j] # path[Len(path)]
  PROVE  /\ Extends(w, path, target)
              => w = path \/ \E next \in After(path[Len(path)]) :
                                Extends(w, Append(path, next), target)
         /\ \A next \in After(path[Len(path)]) :
              Extends(w, Append(path, next), target) => Extends(w, path, target) /\ w # path
<1>1. PICK n \in Nat \ {0} : n = Len(path)
  OBVIOUS
<1>2. \A next \in After(path[n]) : /\ next \in Ids /\ Append(path, next) \in Seq(Ids)
                                   /\ Len(Append(path, next)) = n + 1
                                   /\ Append(path, next)[n + 1] = next
                                   /\ \A i \in 1..n : Append(path, next)[i] = path[i]
  BY <1>1 DEF After, WiresJoinBlocks
<1>3. ASSUME Extends(w, path, target), w # path
      PROVE  \E next \in After(path[n]) : Extends(w, Append(path, next), target)
  <2>1. PICK m \in Nat : m = Len(w)
    BY <1>3 DEF Extends
  <2>2. n < m
    <3>1. n <= m /\ w \in Seq(Ids) /\ \A i \in 1..n : w[i] = path[i]
      BY <1>1, <1>3, <2>1 DEF Extends
    <3>2. ASSUME n = m PROVE w = path
      <4>1. w \in [1..n -> Ids] /\ path \in [1..n -> Ids]
        <5>1. \A s \in Seq(Ids) : s \in [1..Len(s) -> Ids]
          OBVIOUS
        <5> QED
          BY <1>1, <2>1, <3>1, <3>2, <5>1
      <4> QED
        BY <3>1, <4>1
    <3> QED
      BY <1>1, <1>3, <2>1, <3>1, <3>2
  <2>3. GoesOnAt(w, n, target) /\ w[n] = path[n]
    <3>1. n \in n..(m - 1) /\ n \in 1..n
      BY <1>1, <2>1, <2>2
    <3> QED
      BY <1>1, <1>3, <2>1, <3>1 DEF Extends
  <2>4. w[n + 1] \in After(path[n])
    BY <2>3 DEF GoesOnAt
  <2>5. Extends(w, Append(path, w[n + 1]), target)
    <3>1. n + 1 <= m /\ \A i \in (n + 1)..(m - 1) : i \in n..(m - 1)
      BY <1>1, <2>1, <2>2
    <3>2. \A i \in 1..(n + 1) : w[i] = Append(path, w[n + 1])[i]
      <4> TAKE i \in 1..(n + 1)
      <4>1. CASE i = n + 1
        BY <1>2, <2>4, <4>1
      <4>2. CASE i \in 1..n
        BY <1>1, <1>2, <1>3, <2>4, <4>2 DEF Extends
      <4>3. i = n + 1 \/ i \in 1..n
        BY <1>1
      <4> QED
        BY <4>1, <4>2, <4>3, Zenon
    <3> QED
      BY <1>1, <1>2, <1>3, <2>1, <2>4, <3>1, <3>2 DEF Extends
  <2> QED
    BY <2>4, <2>5
<1>4. ASSUME NEW next \in After(path[n]), Extends(w, Append(path, next), target)
      PROVE  Extends(w, path, target) /\ w # path
  <2>1. PICK m \in Nat : m = Len(w) /\ w \in Seq(Ids)
    BY <1>4 DEF Extends
  <2>2. /\ n + 1 <= m /\ \A i \in 1..n : w[i] = path[i]
        /\ w[n + 1] = next
        /\ \A i \in (n + 1)..(m - 1) : GoesOnAt(w, i, target)
    <3>1. /\ n + 1 <= m
          /\ \A i \in 1..(n + 1) : w[i] = Append(path, next)[i]
          /\ \A i \in (n + 1)..(m - 1) : GoesOnAt(w, i, target)
      BY <1>2, <1>4, <2>1 DEF Extends
    <3>2. n + 1 \in 1..(n + 1) /\ \A i \in 1..n : i \in 1..(n + 1)
      OBVIOUS
    <3> QED
      BY <1>2, <3>1, <3>2
  <2>3. GoesOnAt(w, n, target)
    <3>1. n \in 1..n /\ \A j \in 1..(n - 1) : j \in 1..n
      BY <1>1
    <3> QED
      BY <1>1, <2>2, <3>1 DEF GoesOnAt
  <2>4. \A i \in n..(m - 1) : i = n \/ i \in (n + 1)..(m - 1)
    BY <1>1
  <2> QED
    BY <1>1, <2>1, <2>2, <2>3, <2>4 DEF Extends
<1> QED
  BY <1>1, <1>3, <1>4

\* A path that stops has only itself to go on to.
LEMMA StoppedPaths ==
  ASSUME NEW path \in Seq(Ids), path # << >>, NEW target,
         \/ path[Len(path)] = target
         \/ \E j \in 1..(Len(path) - 1) : path[j] = path[Len(path)]
  PROVE  /\ Extends(path, path, target)
         /\ \A w : Extends(w, path, target) => w = path
<1>1. PICK n \in Nat \ {0} : n = Len(path)
  OBVIOUS
<1>2. Extends(path, path, target)
  BY <1>1 DEF Extends
<1>3. ASSUME NEW w, Extends(w, path, target) PROVE w = path
  <2>1. PICK m \in Nat : m = Len(w) /\ w \in Seq(Ids)
    BY <1>3 DEF Extends
  <2>2. n <= m /\ \A i \in 1..n : w[i] = path[i]
    BY <1>1, <1>3, <2>1 DEF Extends
  <2>3. ~(n < m)
    <3> SUFFICES ASSUME n < m PROVE FALSE
      OBVIOUS
    <3>1. n \in n..(m - 1) /\ n \in 1..n /\ \A j \in 1..(n - 1) : j \in 1..n
      BY <1>1, <2>1
    <3>2. GoesOnAt(w, n, target)
      BY <1>1, <1>3, <2>1, <3>1 DEF Extends
    <3>3. path[n] # target /\ \A j \in 1..(n - 1) : path[j] # path[n]
      BY <2>2, <3>1, <3>2 DEF GoesOnAt
    <3> QED
      BY <1>1, <3>3
  <2> QED
    BY <1>1, <2>1, <2>2, <2>3
<1> QED
  BY <1>2, <1>3

LEMMA WalkedIsWalks ==
  ASSUME WiresJoinBlocks, NEW path \in Seq(Ids), path # << >>, NEW target, NEW f,
         \A p \in Seq(Ids) : p # << >> => f[p] = Walked(p, target)
  PROVE  Walked(path, target) = WalksFrom(f, path, target)
<1> DEFINE here == path[Len(path)]
           Past == {path[i] : i \in 1..(Len(path) - 1)}
<1>1. here \in Past <=> \E j \in 1..(Len(path) - 1) : path[j] = here
  OBVIOUS
<1>2. CASE here = target
  <2>1. /\ Extends(path, path, target)
        /\ \A w : Extends(w, path, target) => w = path
    BY <1>2, StoppedPaths
  <2>2. Arrivals(path, target) = {path}
    BY <1>2, <2>1 DEF Arrivals
  <2>3. Repeats(path, target) = {}
    BY <1>2, <2>1 DEF Repeats, Cycles
  <2> QED
    BY <1>2, <2>2, <2>3 DEF Walked, WalksFrom
<1>3. CASE here # target /\ here \in Past
  <2>1. /\ Extends(path, path, target)
        /\ \A w : Extends(w, path, target) => w = path
    BY <1>1, <1>3, StoppedPaths
  <2>2. Arrivals(path, target) = {}
    BY <1>3, <2>1 DEF Arrivals
  <2>3. Cycles(path, target)
    BY <1>1, <1>3 DEF Cycles
  <2>4. Repeats(path, target) = {<< >>}
    BY <2>1, <2>3 DEF Repeats
  <2> QED
    BY <1>3, <2>2, <2>4 DEF Walked, WalksFrom
<1>4. CASE here # target /\ here \notin Past
  <2>0. \A j \in 1..(Len(path) - 1) : path[j] # here
    BY <1>1, <1>4
  <2>1. \A next \in After(here) : /\ Append(path, next) \in Seq(Ids) /\ Append(path, next) # << >>
                                  /\ f[Append(path, next)] = Walked(Append(path, next), target)
    <3> TAKE next \in After(here)
    <3>1. next \in Ids
      BY DEF After, WiresJoinBlocks
    <3>2. Append(path, next) \in Seq(Ids) /\ Append(path, next) # << >>
      BY <3>1
    <3> QED
      BY <3>2
  <2>2. WalksFrom(f, path, target) = UNION {f[Append(path, next)] : next \in After(here)}
    BY <1>4 DEF WalksFrom
  <2> HIDE DEF here
  <2>3. ASSUME NEW w
        PROVE  /\ Extends(w, path, target) =>
                     w = path \/ \E next \in After(here) : Extends(w, Append(path, next), target)
               /\ \A next \in After(here) :
                     Extends(w, Append(path, next), target) => Extends(w, path, target)
    BY <1>4, <2>0, ExtensionsOfOneMore DEF here
  <2>4. ~Cycles(path, target) /\ path[Len(path)] # target
    BY <1>4, <2>0 DEF Cycles, here
  <2>5. ASSUME NEW w
        PROVE  w \in Arrivals(path, target)
                  <=> \E next \in After(here) : w \in Arrivals(Append(path, next), target)
    BY <2>3, <2>4 DEF Arrivals
  <2>6. ASSUME NEW w
        PROVE  w \in Repeats(path, target)
                  <=> \E next \in After(here) : w \in Repeats(Append(path, next), target)
    BY <2>3, <2>4 DEF Repeats
  <2>7. ASSUME NEW w
        PROVE  w \in Walked(path, target)
                  <=> \E next \in After(here) : w \in f[Append(path, next)]
    BY <2>1, <2>5, <2>6 DEF Walked
  <2> QED
    BY <2>2, <2>7
<1> QED
  BY <1>2, <1>3, <1>4

LEMMA WalksExist ==
  ASSUME WiresJoinBlocks, NEW target
  PROVE  \E f : IsWalks(f, target)
<1> DEFINE g == [path \in Seq(Ids) |-> Walked(path, target)]
           f == [path \in Seq(Ids) |-> IF path = << >> THEN WalksFrom(g, path, target)
                                       ELSE Walked(path, target)]
<1>1. ASSUME NEW path \in Seq(Ids)
      PROVE  f[path] = WalksFrom(f, path, target)
  <2>1. CASE path = << >>
    <3>1. \A next \in After(path[Len(path)]) : Append(path, next) \in Seq(Ids) /\ Append(path, next) # << >>
      <4> TAKE next \in After(path[Len(path)])
      <4>1. next \in Ids
        BY DEF After, WiresJoinBlocks
      <4> QED
        BY <4>1
    <3>2. \A next \in After(path[Len(path)]) : g[Append(path, next)] = f[Append(path, next)]
      BY <3>1
    <3>3. f[path] = WalksFrom(g, path, target)
      BY <2>1
    <3> HIDE DEF f, g
    <3>4. UNION {g[Append(path, next)] : next \in After(path[Len(path)])}
            = UNION {f[Append(path, next)] : next \in After(path[Len(path)])}
      BY <3>2
    <3> QED
      BY <3>3, <3>4 DEF WalksFrom
  <2>2. CASE path # << >>
    <3>1. f[path] = Walked(path, target) /\ \A p \in Seq(Ids) : p # << >> => f[p] = Walked(p, target)
      BY <2>2
    <3> HIDE DEF f
    <3> QED
      BY <2>2, <3>1, WalkedIsWalks
  <2> QED
    BY <2>1, <2>2
<1>2. IsWalks(f, target)
  <2>1. f = [path \in Seq(Ids) |-> f[path]]
    OBVIOUS
  <2> HIDE DEF f
  <2> QED
    BY <1>1, <2>1 DEF IsWalks
<1> QED
  BY <1>2

\* Each step of a walk is to a block it has not been at, so there are finitely many.
Free(path) == Ids \ {path[i] : i \in 1..(Len(path) - 1)}

LEMMA FreeShrinks ==
  ASSUME IsFiniteSet(Ids), NEW path \in Seq(Ids), path # << >>,
         path[Len(path)] \notin {path[i] : i \in 1..(Len(path) - 1)}, NEW next \in Ids
  PROVE  /\ Append(path, next) \in Seq(Ids) /\ Append(path, next) # << >>
         /\ Cardinality(Free(Append(path, next))) < Cardinality(Free(path))
         /\ Cardinality(Free(path)) \in Nat /\ Cardinality(Free(Append(path, next))) \in Nat
<1>1. PICK n \in Nat \ {0} : n = Len(path)
  OBVIOUS
<1> DEFINE longer == Append(path, next)
<1>2. /\ longer \in Seq(Ids) /\ longer # << >> /\ Len(longer) = n + 1
      /\ \A i \in 1..n : longer[i] = path[i]
  BY <1>1
<1> HIDE DEF longer
<1>3. path[n] \in Free(path)
  BY <1>1 DEF Free
<1>4. Free(longer) = Free(path) \ {path[n]}
  <2>1. {longer[i] : i \in 1..n} = {path[i] : i \in 1..(n - 1)} \cup {path[n]}
    <3>1. {longer[i] : i \in 1..n} = {path[i] : i \in 1..n}
      BY <1>2
    <3>2. \A i \in 1..n : i = n \/ i \in 1..(n - 1)
      BY <1>1
    <3>3. n \in 1..n /\ \A i \in 1..(n - 1) : i \in 1..n
      BY <1>1
    <3> QED
      BY <3>1, <3>2, <3>3
  <2>2. (n + 1) - 1 = n
    BY <1>1
  <2> QED
    BY <1>1, <1>2, <2>1, <2>2 DEF Free
<1>5. IsFiniteSet(Free(path))
  BY FS_Subset DEF Free
<1>6. /\ IsFiniteSet(Free(longer))
      /\ Cardinality(Free(longer)) = Cardinality(Free(path)) - 1
  BY <1>3, <1>4, <1>5, FS_RemoveElement
<1>7. Cardinality(Free(path)) \in Nat /\ Cardinality(Free(longer)) \in Nat
  BY <1>5, <1>6, FS_CardinalityType
<1> QED
  BY <1>2, <1>6, <1>7 DEF longer

LEMMA ImagesAreFinite ==
  ASSUME NEW S, IsFiniteSet(S), NEW T, NEW g, \A x \in S : g[x] \in T,
         \A t \in T : \E x \in S : t = g[x]
  PROVE  IsFiniteSet(T)
<1>1. PICK seq \in Seq(S) : \A s \in S : \E n \in 1..Len(seq) : seq[n] = s
  BY DEF IsFiniteSet
<1> DEFINE images == [i \in 1..Len(seq) |-> g[seq[i]]]
<1>2. images \in Seq(T) /\ Len(images) = Len(seq) /\ \A i \in 1..Len(seq) : images[i] = g[seq[i]]
  OBVIOUS
<1> HIDE DEF images
<1>3. \A t \in T : \E n \in 1..Len(images) : images[n] = t
  BY <1>1, <1>2
<1> QED
  BY <1>2, <1>3 DEF IsFiniteSet

LEMMA FinitelyManyWalks ==
  ASSUME IsFiniteSet(Ids), WiresJoinBlocks, NEW target, NEW f, IsWalks(f, target),
         NEW path \in Seq(Ids), path # << >>
  PROVE  IsFiniteSet(f[path])
<1> DEFINE Wrong == {p \in Seq(Ids) : p # << >> /\ ~IsFiniteSet(f[p])}
           Sizes == {Cardinality(Free(p)) : p \in Wrong}
<1> SUFFICES ASSUME Wrong # {} PROVE FALSE
  OBVIOUS
<1>1. \A p \in Wrong : Cardinality(Free(p)) \in Nat
  <2> TAKE p \in Wrong
  <2>1. IsFiniteSet(Free(p))
    BY FS_Subset DEF Free
  <2> QED
    BY <2>1, FS_CardinalityType
<1>2. PICK p \in Wrong : \A q \in Wrong : Cardinality(Free(p)) <= Cardinality(Free(q))
  <2> HIDE DEF Wrong
  <2>1. Sizes \in SUBSET Nat /\ Sizes # {}
    BY <1>1
  <2>2. PICK n \in Sizes : \A m \in Sizes : n <= m
    <3> HIDE DEF Sizes
    <3> QED
      BY <2>1, LeastExists
  <2> QED
    BY <2>2
<1> DEFINE here == p[Len(p)]
           Past == {p[i] : i \in 1..(Len(p) - 1)}
<1>3. p \in Seq(Ids) /\ p # << >> /\ ~IsFiniteSet(f[p]) /\ f[p] = WalksFrom(f, p, target)
  BY DEF IsWalks
<1>4. here # target /\ here \notin Past /\ f[p] = UNION {f[Append(p, next)] : next \in After(here)}
  <2>1. IsFiniteSet({p}) /\ IsFiniteSet({<< >>})
    BY FS_Singleton
  <2> QED
    BY <1>3, <2>1 DEF WalksFrom
<1>5. ASSUME NEW next \in After(here) PROVE IsFiniteSet(f[Append(p, next)])
  <2>1. next \in Ids
    BY DEF After, WiresJoinBlocks
  <2>2. /\ Append(p, next) \in Seq(Ids) /\ Append(p, next) # << >>
        /\ Cardinality(Free(Append(p, next))) < Cardinality(Free(p))
        /\ Cardinality(Free(p)) \in Nat /\ Cardinality(Free(Append(p, next))) \in Nat
    BY <1>3, <1>4, <2>1, FreeShrinks
  <2>3. PICK q : q = Append(p, next)
    OBVIOUS
  <2>4. q \notin Wrong
    <3> HIDE DEF Wrong
    <3>1. PICK a \in Nat, b \in Nat : a = Cardinality(Free(p)) /\ b = Cardinality(Free(q)) /\ b < a
      BY <2>2, <2>3
    <3>2. q \in Wrong => a <= b
      BY <1>2, <3>1, Zenon
    <3> QED
      BY <3>1, <3>2
  <2> QED
    BY <2>2, <2>3, <2>4
<1>6. IsFiniteSet({f[Append(p, next)] : next \in After(here)})
  <2> HIDE DEF here
  <2>1. After(here) \subseteq Ids
    BY DEF After, WiresJoinBlocks
  <2>2. IsFiniteSet(After(here))
    BY <2>1, FS_Subset
  <2> DEFINE image == [next \in After(here) |-> f[Append(p, next)]]
  <2> DEFINE all == {f[Append(p, next)] : next \in After(here)}
  <2>3. /\ \A next \in After(here) : image[next] \in all
        /\ \A t \in all : \E next \in After(here) : t = image[next]
    OBVIOUS
  <2> HIDE DEF image, all
  <2>5. IsFiniteSet(all)
    BY <2>2, <2>3, ImagesAreFinite
  <2> QED
    BY <2>5 DEF all
<1>7. IsFiniteSet(f[p])
  <2> DEFINE S == {f[Append(p, next)] : next \in After(here)}
  <2>1. \A T \in S : IsFiniteSet(T)
    BY <1>5
  <2>2. f[p] = UNION S
    BY <1>4
  <2> HIDE DEF S
  <2>3. IsFiniteSet(UNION S)
    <3>1. IsFiniteSet(S)
      BY <1>6 DEF S
    <3> QED
      BY <2>1, <3>1, FS_UNION
  <2> QED
    BY <2>2, <2>3
<1> QED
  BY <1>3, <1>7

\* The ways from a source are sequences of blocks that begin there.
LongerBy(S) == S \cup {Append(way, next) : way \in S, next \in Ids}
AreLonger(f, source, n) ==
    f = [i \in 0..n |-> IF i = 0 THEN {<<source>>} ELSE LongerBy(f[i - 1])]

Begins(way, source) == way \in Seq(Ids) /\ Len(way) >= 1 /\ way[1] = source

LEMMA LongerExists ==
  ASSUME NEW source, NEW m \in Nat
  PROVE  \E f : AreLonger(f, source, m)
<1> DEFINE Good == {k \in 0..m : \E f : AreLonger(f, source, k)}
<1>1. 0 \in Good
  <2>1. AreLonger([i \in 0..0 |-> {<<source>>}], source, 0)
    BY DEF AreLonger
  <2> QED
    BY <2>1
<1>2. ASSUME NEW k \in 0..m, k < m, k \in Good PROVE k + 1 \in Good
  <2>1. k \in Nat /\ k + 1 \in 0..m
    BY <1>2
  <2>2. PICK f : AreLonger(f, source, k)
    BY <1>2
  <2> DEFINE g == [i \in 0..(k + 1) |-> IF i = k + 1 THEN LongerBy(f[k]) ELSE f[i]]
  <2>3. \A i \in 0..k : f[i] = IF i = 0 THEN {<<source>>}
                               ELSE LongerBy(f[i - 1])
    BY <2>2 DEF AreLonger
  <2>4. ASSUME NEW i \in 0..(k + 1)
        PROVE  g[i] = IF i = 0 THEN {<<source>>}
                      ELSE LongerBy(g[i - 1])
    <3>1. CASE i = k + 1
      <4>1. i # 0 /\ g[i] = LongerBy(f[k]) /\ g[i - 1] = f[k]
        BY <2>1, <3>1
      <4> HIDE DEF g
      <4> QED
        BY <4>1
    <3>2. CASE i \in 0..k
      <4>1. g[i] = f[i] /\ (i # 0 => g[i - 1] = f[i - 1])
        BY <2>1, <3>2
      <4> HIDE DEF g
      <4> QED
        BY <2>3, <3>2, <4>1
    <3> QED
      BY <2>1, <3>1, <3>2
  <2>5. AreLonger(g, source, k + 1)
    <3>1. g = [i \in 0..(k + 1) |-> g[i]]
      OBVIOUS
    <3> HIDE DEF g
    <3> QED
      BY <2>4, <3>1 DEF AreLonger
  <2> QED
    BY <2>1, <2>5
<1> HIDE DEF Good
<1>3. m \in Good
  <2>1. \A k \in 0..m : k \in Good
    BY <1>1, <1>2, UpTo
  <2> QED
    BY <2>1
<1> QED
  BY <1>3 DEF Good

LEMMA LongerBegin ==
  ASSUME NEW source \in Ids, NEW m \in Nat, NEW f, AreLonger(f, source, m)
  PROVE  \A way \in f[m] : Begins(way, source)
<1> DEFINE Good == {k \in 0..m : \A way \in f[k] : Begins(way, source)}
<1>0. \A i \in 0..m : f[i] = IF i = 0 THEN {<<source>>}
                             ELSE LongerBy(f[i - 1])
  BY DEF AreLonger
<1>1. 0 \in Good
  <2>1. f[0] = {<<source>>}
    BY <1>0
  <2>2. Begins(<<source>>, source)
    BY DEF Begins
  <2> QED
    BY <2>1, <2>2
<1>2. ASSUME NEW k \in 0..m, k < m, k \in Good PROVE k + 1 \in Good
  <2>1. k + 1 \in 0..m /\ k + 1 # 0 /\ (k + 1) - 1 = k
    BY <1>2
  <2>2. f[k + 1] = LongerBy(f[k])
    BY <1>0, <2>1
  <2>3. \A way \in f[k] : Begins(way, source)
    BY <1>2
  <2>4. \A way \in f[k], next \in Ids : Begins(Append(way, next), source)
    <3> TAKE way \in f[k], next \in Ids
    <3>1. way \in Seq(Ids) /\ Len(way) >= 1 /\ way[1] = source
      BY <2>3 DEF Begins
    <3> QED
      BY <3>1 DEF Begins
  <2>5. \A way \in f[k + 1] : Begins(way, source)
    <3> TAKE way \in f[k + 1]
    <3>1. way \in f[k] \/ \E old \in f[k], next \in Ids : way = Append(old, next)
      BY <2>2 DEF LongerBy
    <3> QED
      BY <2>3, <2>4, <3>1
  <2> QED
    BY <2>1, <2>5
<1> HIDE DEF Good
<1>3. m \in Good
  <2>1. \A k \in 0..m : k \in Good
    BY <1>1, <1>2, UpTo
  <2> QED
    BY <2>1
<1> QED
  BY <1>3 DEF Good

LEMMA WaysBegin ==
  ASSUME IsFiniteSet(Ids), NEW source \in Ids, NEW target, NEW way \in Ways(source, target)
  PROVE  /\ Begins(way, source) /\ way[Len(way)] = target
         /\ \A i \in 1..(Len(way) - 1) : way[i + 1] \in After(way[i])
<1>1. PICK m \in Nat : m = Cardinality(Ids) - 1
  <2>1. Cardinality(Ids) \in Nat /\ Cardinality(Ids) # 0
    BY FS_CardinalityType, FS_EmptySet
  <2> QED
    BY <2>1
<1> DEFINE all == CHOOSE f : AreLonger(f, source, m)
<1>2. AreLonger(all, source, m)
  BY LongerExists
<1>3. /\ way \in all[m]
      /\ way[Len(way)] = target
      /\ \A i \in 1..(Len(way) - 1) : way[i + 1] \in After(way[i])
  BY <1>1 DEF Ways, AreLonger, LongerBy
<1> HIDE DEF all
<1> QED
  BY <1>2, <1>3, LongerBegin

\* A way to a block nothing leaves is walked, unless the walks run into a cycle.
LEMMA WaysAreWalked ==
  ASSUME IsFiniteSet(Ids), WiresJoinBlocks, NEW source \in Ids, NEW target, After(target) = {},
         NEW f, IsWalks(f, target), NEW way \in Ways(source, target)
  PROVE  way \in f[<<source>>] \/ << >> \in f[<<source>>]
<1>1. PICK m \in Nat \ {0} : m = Len(way)
  BY WaysBegin DEF Begins
<1>2. /\ way \in Seq(Ids) /\ way[1] = source /\ way[m] = target
      /\ \A i \in 1..(m - 1) : way[i + 1] \in After(way[i])
  BY <1>1, WaysBegin DEF Begins
<1> DEFINE Begun(k) == SubSeq(way, 1, k)
           Good == {k \in 0..(m - 1) : way \in f[Begun(m - k)] \/ << >> \in f[Begun(m - k)]}
<1>3. \A k \in 1..m : /\ Begun(k) \in Seq(Ids) /\ Len(Begun(k)) = k /\ Begun(k) # << >>
                      /\ Begun(k)[k] = way[k]
                      /\ f[Begun(k)] = WalksFrom(f, Begun(k), target)
  <2>1. \A k \in 1..m : /\ Begun(k) \in Seq(Ids) /\ Len(Begun(k)) = k /\ Begun(k) # << >>
                        /\ Begun(k)[k] = way[k]
    BY <1>1, <1>2
  <2> QED
    BY <2>1 DEF IsWalks
<1>4. 0 \in Good
  <2>1. Begun(m) = way
    BY <1>1, <1>2
  <2>2. WalksFrom(f, way, target) = {way}
    BY <1>1, <1>2 DEF WalksFrom
  <2>3. m \in 1..m /\ 0 \in 0..(m - 1) /\ m - 0 = m
    BY <1>1
  <2>4. f[Begun(m)] = {way}
    BY <1>3, <2>1, <2>2, <2>3
  <2> HIDE DEF Begun
  <2> QED
    BY <2>1, <2>3, <2>4
<1>5. ASSUME NEW k \in 0..(m - 1), k < m - 1, k \in Good PROVE k + 1 \in Good
  <2> HIDE DEF Good, Begun
  <2>0. k \in Nat /\ k < m - 1
    BY <1>1, <1>5
  <2>1. PICK n \in Nat \ {0} : n = m - (k + 1)
    <3>1. m - (k + 1) \in Nat \ {0}
      BY <1>1, <2>0
    <3> QED
      BY <3>1
  <2>2. n \in 1..m /\ n + 1 \in 1..m /\ n \in 1..(m - 1) /\ n + 1 = m - k /\ k + 1 \in 0..(m - 1)
    BY <1>1, <2>0, <2>1
  <2>3. way[n + 1] \in After(way[n]) /\ way[n] # target
    BY <1>2, <2>2
  <2>4. Begun(n + 1) = Append(Begun(n), way[n + 1])
    BY <1>1, <1>2, <2>2 DEF Begun
  <2>5. f[Begun(n)] = {<< >>} \/ f[Begun(n + 1)] \subseteq f[Begun(n)]
    <3>1. Len(Begun(n)) = n /\ Begun(n)[n] = way[n] /\ f[Begun(n)] = WalksFrom(f, Begun(n), target)
      BY <1>3, <2>2
    <3> HIDE DEF Begun
    <3> QED
      BY <2>3, <2>4, <3>1 DEF WalksFrom
  <2>6. way \in f[Begun(n + 1)] \/ << >> \in f[Begun(n + 1)]
    BY <1>5, <2>2 DEF Good
  <2> QED
    BY <2>1, <2>2, <2>5, <2>6 DEF Good
<1> HIDE DEF Good
<1>6. m - 1 \in Good
  <2>1. m - 1 \in Nat
    BY <1>1
  <2>2. \A k \in 0..(m - 1) : k \in Good
    BY <1>4, <1>5, <2>1, UpTo
  <2> QED
    BY <2>1, <2>2
<1>7. Begun(m - (m - 1)) = <<source>>
  <2>1. m - (m - 1) = 1 /\ 1 \in 1..m
    BY <1>1
  <2>2. SubSeq(way, 1, 1) = <<source>>
    <3>1. PICK short : short = SubSeq(way, 1, 1)
      OBVIOUS
    <3>2. short \in Seq(Ids) /\ Len(short) = 1 /\ short[1] = source
      BY <1>1, <1>2, <3>1
    <3>3. \A s \in Seq(Ids) : s \in [1..Len(s) -> Ids]
      OBVIOUS
    <3>4. PICK one : one = <<source>>
      OBVIOUS
    <3>5. one \in Seq(Ids) /\ Len(one) = 1 /\ one[1] = source
      BY <3>4
    <3>6. short \in [1..1 -> Ids] /\ one \in [1..1 -> Ids]
      BY <3>2, <3>3, <3>5
    <3>7. \A i \in 1..1 : short[i] = one[i]
      BY <3>2, <3>5
    <3>8. short = one
      BY <3>6, <3>7
    <3> QED
      BY <3>1, <3>4, <3>8
  <2> QED
    BY <2>1, <2>2
<1> QED
  BY <1>6, <1>7 DEF Good

(***************************************************************************)
(* The exact delay of a pair                                               *)
(***************************************************************************)
ArePathDelays(paths, f, d, source, target) ==
    /\ IsWalks(f, target) /\ IsPathDelay(d)
    /\ paths.cycle = (<< >> \in f[<<source>>])
    /\ paths.delays = {d[path] : path \in f[<<source>>] \ {<< >>}}

LEMMA PathDelaysAre ==
  ASSUME WiresJoinBlocks, DelaysAreNumbers, NEW source, NEW target
  PROVE  \E f, d : ArePathDelays(PathDelays(source, target), f, d, source, target)
<1> DEFINE f == CHOOSE g : IsWalks(g, target)
           d == CHOOSE g : IsPathDelay(g)
<1>1. IsWalks(f, target)
  BY WalksExist
<1>2. IsPathDelay(d)
  BY PathDelaysAreSums
<1>3. PathDelays(source, target) =
        [cycle  |-> << >> \in f[<<source>>],
         delays |-> {d[path] : path \in f[<<source>>] \ {<< >>}}]
  BY DEF PathDelays, IsWalks, WalksFrom, IsPathDelay
<1> HIDE DEF f, d
<1>4. ArePathDelays(PathDelays(source, target), f, d, source, target)
  BY <1>1, <1>2, <1>3 DEF ArePathDelays
<1> QED
  BY <1>4

LEMMA AtMostOne ==
  ASSUME NEW S, IsFiniteSet(S), Cardinality(S) <= 1, NEW a \in S, NEW b \in S
  PROVE  a = b
<1> SUFFICES ASSUME a # b PROVE FALSE
  OBVIOUS
<1>1. IsFiniteSet({b}) /\ Cardinality({b}) = 1
  BY FS_Singleton
<1>2. Cardinality({b}) = Cardinality(S) => {b} = S
  BY <1>1, FS_Subset
<1>3. Cardinality({b}) <= Cardinality(S) /\ Cardinality(S) \in Nat
  BY FS_Subset, FS_CardinalityType
<1> QED
  BY <1>1, <1>2, <1>3

\* If the delays from a source to a target that nothing leaves are exact, they are those
\* of every way between them.
LEMMA ExactPaths ==
  ASSUME IsFiniteSet(Ids), WiresJoinBlocks, DelaysAreNumbers, NEW source \in Ids, NEW target,
         After(target) = {}, NEW way \in Ways(source, target),
         IsExact(PathDelays(source, target))
  PROVE  /\ PathDelays(source, target).delays # {}
         /\ DelayOf(way) = CHOOSE d \in PathDelays(source, target).delays : TRUE
<1>0. PICK f, d : ArePathDelays(PathDelays(source, target), f, d, source, target)
  BY PathDelaysAre
<1>1. /\ IsWalks(f, target) /\ IsPathDelay(d)
      /\ PathDelays(source, target).cycle = (<< >> \in f[<<source>>])
      /\ PathDelays(source, target).delays = {d[path] : path \in f[<<source>>] \ {<< >>}}
  BY <1>0 DEF ArePathDelays
<1> DEFINE walks == f[<<source>>] \ {<< >>}
           delays == {d[path] : path \in walks}
<1>2. << >> \notin f[<<source>>] /\ Cardinality(delays) <= 1
  BY <1>1 DEF IsExact
<1>3. way \in walks
  <2>1. way \in Seq(Ids) /\ Len(way) >= 1
    BY WaysBegin DEF Begins
  <2>2. way \in f[<<source>>]
    BY <1>1, <1>2, WaysAreWalked
  <2> QED
    BY <2>1, <2>2
<1>4. d[way] = DelayOf(way)
  BY <1>1, PathDelaysAreSums, WaysBegin DEF Begins
<1>5. IsFiniteSet(delays)
  <2>1. IsFiniteSet(f[<<source>>])
    <3>1. <<source>> \in Seq(Ids) /\ <<source>> # << >>
      OBVIOUS
    <3> QED
      BY <1>1, <3>1, FinitelyManyWalks
  <2>2. IsFiniteSet(walks)
    BY <2>1, FS_Subset
  <2>3. /\ \A path \in walks : d[path] \in delays
        /\ \A t \in delays : \E path \in walks : t = d[path]
    OBVIOUS
  <2> HIDE DEF walks, delays
  <2> QED
    BY <2>2, <2>3, ImagesAreFinite
<1>6. d[way] \in delays
  BY <1>3
<1>7. PathDelays(source, target).delays = delays
  BY <1>1
<1> HIDE DEF delays, walks
<1>8. (CHOOSE e \in delays : TRUE) \in delays
  BY <1>6
<1>9. (CHOOSE e \in delays : TRUE) = d[way]
  BY <1>2, <1>5, <1>6, <1>8, AtMostOne
<1> QED
  BY <1>4, <1>6, <1>7, <1>9

(***************************************************************************)
(* The passes of a compilation                                             *)
(***************************************************************************)
AskedIsADiagram ==
    /\ IsFiniteSet(Ids) /\ \A b \in Ids : IsContract(Block(b))
    /\ asked.step \in Nat
    /\ \A w \in asked.wires : /\ w.source \in Ids /\ w.target \in Ids
                              /\ w.sourcePort \in Nat /\ w.targetPort \in Nat

Ended == {"compiled", "simulated"}
AfterDelays  == {"connect"} \cup Ended
AfterDomains == {"outputs", "delays"} \cup AfterDelays
AfterInputs  == {"realize", "domains"} \cup AfterDomains
AfterRates   == {"inputs"} \cup AfterInputs
AfterWires   == {"rates"} \cup AfterRates
AfterWidths  == {"wires"} \cup AfterWires

PortsAreDeclared ==
    \A w \in asked.wires : /\ HasOutputPort(Block(w.source), w.sourcePort)
                           /\ HasInputPort(Block(w.target), w.targetPort)
RatesAreResolved(f) ==
    /\ f.rates = [b \in Timed |-> ResolvedRate(b)]
    /\ \A b \in Timed : f.rates[b] # 0
SystemIsOfTheBlocks(f) ==
    \/ Timed = {} /\ f.system = Continuous
    \/ /\ Timed # {} /\ Dynamical = {} /\ RatesAgree(f.rates)
       /\ \E b \in Timed : f.system = Discrete(f.rates[b])
DelaysAreOfTheWays(f) ==
    \A p \in DOMAIN f.delays : p[2].block \in Sinks =>
        \A way \in Ways(p[1], p[2].block) : DelayOf(way) = f.delays[p]
RunIsAligned(f) ==
    /\ asked.step > 0
    /\ f.system = Continuous /\ HasDelay => \A b \in Ids : Block(b).delay % asked.step = 0
RefusalHasReason(f) ==
    f.why \in {"contested", "unrated", "rates", "mixed"} =>
         \/ Timed # {} /\ Dynamical # {}
         \/ \E b, d \in Timed : TimeOf(b).rate # TimeOf(d).rate
         \/ \E b \in Timed : (asked.step = 0 /\ Inherits(b)) \/ TimeOf(b).rate \notin {Inherited, asked.step}

IsFound(f) ==
    f = [rates |-> f.rates, outputs |-> f.outputs, delays |-> f.delays, system |-> f.system,
         why |-> f.why]

\* What a compilation that has come to this pass has found.
PassInv(q, f) ==
    /\ IsFound(f)
    /\ q \in AfterWidths => WidthsResolve(asked.blocks, asked.wires)
    /\ q \in AfterWires => PortsAreDeclared
    /\ q \in AfterRates => RatesAreResolved(f)
    /\ q \in AfterInputs => \A b \in Ids : InputsAreRight(b)
    /\ q \in AfterDomains => SystemIsOfTheBlocks(f)
    /\ q \notin AfterDelays \cup {"refused"} => f.delays = << >>
    /\ q \in AfterDelays => DelaysAreOfTheWays(f)
    /\ q = "simulated" => RunIsAligned(f)
    /\ q = "refused" => RefusalHasReason(f)

CompileInv == pass # "idle" => AskedIsADiagram /\ PassInv(pass, found)

LEMMA NextPass ==
  ASSUME AskedIsADiagram, PassInv(pass', found'), asked' = asked
  PROVE  CompileInv'
<1>1. AskedIsADiagram'
  BY DEF AskedIsADiagram, Ids, Block
<1>2. /\ Ids' = Ids /\ Timed' = Timed /\ Dynamical' = Dynamical /\ Sinks' = Sinks
      /\ \A b : Block(b)' = Block(b) /\ TimeOf(b)' = TimeOf(b) /\ Into(b)' = Into(b)
  BY DEF Ids, Timed, Dynamical, Sinks, Block, TimeOf, Into
<1>3. PortsAreDeclared' = PortsAreDeclared
  BY DEF PortsAreDeclared, Block
<1>4. \A b : ResolvedRate(b)' = ResolvedRate(b)
  <2> TAKE b
  <2> QED
  BY <1>2 DEF ResolvedRate, Inherits, Anchors, Component, Neighbors, Ids, Timed, Dynamical, Block, TimeOf
<1>5. \A b : InputsAreRight(b)' = InputsAreRight(b)
  BY <1>2 DEF InputsAreRight
<1>6. \A s, t : Ways(s, t)' = Ways(s, t)
  <2> TAKE s, t
  <2> QED
  BY <1>2 DEF Ways, After, Ids
<1>7. \A way : DelayOf(way)' = DelayOf(way)
  BY <1>2 DEF DelayOf
<1>8. DelaysAreOfTheWays(found)' = DelaysAreOfTheWays(found')
  BY <1>2, <1>6, <1>7 DEF DelaysAreOfTheWays
<1>9. RatesAreResolved(found)' = RatesAreResolved(found')
  BY <1>2, <1>4 DEF RatesAreResolved
<1>10. SystemIsOfTheBlocks(found)' = SystemIsOfTheBlocks(found')
  BY <1>2 DEF SystemIsOfTheBlocks, RatesAgree
<1>11. RunIsAligned(found)' = RunIsAligned(found')
  BY <1>2 DEF RunIsAligned, HasDelay
<1>12. RefusalHasReason(found)' = RefusalHasReason(found')
  BY <1>2 DEF RefusalHasReason, Inherits
<1>13. PassInv(pass, found)'
  BY <1>2, <1>3, <1>5, <1>8, <1>9, <1>10, <1>11, <1>12 DEF PassInv, IsFound
<1> QED
  BY <1>1, <1>13 DEF CompileInv

Passing == CompileInv /\ pass # "idle"

LEMMA Passed ==
  ASSUME Passing
  PROVE  /\ AskedIsADiagram /\ PassInv(pass, found) /\ IsFound(found)
         /\ WiresJoinBlocks /\ DelaysAreNumbers
  BY DEF Passing, CompileInv, PassInv, AskedIsADiagram, WiresJoinBlocks, DelaysAreNumbers, IsContract

LEMMA RefusedPass ==
  ASSUME Passing, NEW why, Refuses(why), RefusalHasReason([found EXCEPT !.why = why])
  PROVE  CompileInv'
<1>1. IsFound(found')
  BY Passed DEF Refuses, IsFound
<1>2. PassInv("refused", found')
  BY <1>1 DEF PassInv, Refuses, AfterWidths, AfterWires, AfterRates, AfterInputs, AfterDomains,
     AfterDelays, Ended
<1> QED
  BY <1>2, Passed, NextPass DEF Refuses

\* A refusal for any other reason says nothing of the rates.
LEMMA PlainRefusal ==
  ASSUME Passing, NEW why, Refuses(why), why \notin {"contested", "unrated", "rates", "mixed"}
  PROVE  CompileInv'
<1>1. RefusalHasReason([found EXCEPT !.why = why])
  BY Passed DEF RefusalHasReason, IsFound
<1> QED
  BY <1>1, RefusedPass

LEMMA GoneOn ==
  ASSUME Passing, NEW next, GoesOn(next), PassInv(next, found)
  PROVE  CompileInv'
  BY Passed, NextPass DEF GoesOn

LEMMA CollectBlocksStep == CompileInv /\ CollectBlocks => CompileInv'
<1> SUFFICES ASSUME CompileInv, CollectBlocks PROVE CompileInv'
  OBVIOUS
<1>1. Passing /\ pass = "collect"
  BY DEF Passing, CollectBlocks
<1>2. CASE Refuses("ends")
  BY <1>1, <1>2, PlainRefusal
<1>3. CASE GoesOn("widths")
  <2>1. PassInv("widths", found)
    BY <1>1, Passed DEF PassInv, AfterWidths, AfterWires, AfterRates, AfterInputs, AfterDomains,
       AfterDelays, Ended
  <2> QED
    BY <1>1, <1>3, <2>1, GoneOn
<1> QED
  BY <1>2, <1>3 DEF CollectBlocks, Passes

LEMMA ResolveSignalWidthsStep == CompileInv /\ ResolveSignalWidths => CompileInv'
<1> SUFFICES ASSUME CompileInv, ResolveSignalWidths PROVE CompileInv'
  OBVIOUS
<1>1. Passing /\ pass = "widths"
  BY DEF Passing, ResolveSignalWidths
<1>2. CASE Refuses("widths")
  BY <1>1, <1>2, PlainRefusal
<1>3. CASE GoesOn("wires") /\ WidthsResolve(asked.blocks, asked.wires)
  <2>1. PassInv("wires", found)
    BY <1>1, <1>3, Passed DEF PassInv, AfterWidths, AfterWires, AfterRates, AfterInputs, AfterDomains,
       AfterDelays, Ended
  <2> QED
    BY <1>1, <1>3, <2>1, GoneOn
<1> QED
  BY <1>2, <1>3 DEF ResolveSignalWidths, Passes

LEMMA CheckWiresStep == CompileInv /\ CheckWires => CompileInv'
<1> SUFFICES ASSUME CompileInv, CheckWires PROVE CompileInv'
  OBVIOUS
<1>1. Passing /\ pass = "wires"
  BY DEF Passing, CheckWires
<1>2. CASE Refuses("ports")
  BY <1>1, <1>2, PlainRefusal
<1>3. CASE GoesOn("rates") /\ PortsAreDeclared
  <2>1. PassInv("rates", found)
    BY <1>1, <1>3, Passed DEF PassInv, AfterWidths, AfterWires, AfterRates, AfterInputs, AfterDomains,
       AfterDelays, Ended
  <2> QED
    BY <1>1, <1>3, <2>1, GoneOn
<1> QED
  BY <1>2, <1>3 DEF CheckWires, Passes, PortsAreDeclared

LEMMA CheckInputsStep == CompileInv /\ CheckInputs => CompileInv'
<1> SUFFICES ASSUME CompileInv, CheckInputs PROVE CompileInv'
  OBVIOUS
<1>1. Passing /\ pass = "inputs"
  BY DEF Passing, CheckInputs
<1>2. CASE Refuses("inputs")
  BY <1>1, <1>2, PlainRefusal
<1>3. CASE GoesOn("realize") /\ \A b \in Ids : InputsAreRight(b)
  <2>1. PassInv("realize", found)
    BY <1>1, <1>3, Passed DEF PassInv, AfterWidths, AfterWires, AfterRates, AfterInputs, AfterDomains,
       AfterDelays, Ended
  <2> QED
    BY <1>1, <1>3, <2>1, GoneOn
<1> QED
  BY <1>2, <1>3 DEF CheckInputs, Passes

LEMMA RealizeBlocksStep == CompileInv /\ RealizeBlocks => CompileInv'
<1> SUFFICES ASSUME CompileInv, RealizeBlocks PROVE CompileInv'
  OBVIOUS
<1>1. Passing /\ pass = "realize"
  BY DEF Passing, RealizeBlocks
<1>2. CASE Refuses("realization")
  BY <1>1, <1>2, PlainRefusal
<1>3. CASE GoesOn("domains")
  <2>1. PassInv("domains", found)
    BY <1>1, <1>3, Passed DEF PassInv, AfterWidths, AfterWires, AfterRates, AfterInputs, AfterDomains,
       AfterDelays, Ended
  <2> QED
    BY <1>1, <1>3, <2>1, GoneOn
<1> QED
  BY <1>2, <1>3 DEF RealizeBlocks, Passes

(***************************************************************************)
(* Rates                                                                   *)
(***************************************************************************)
LEMMA TwoOfMany ==
  ASSUME NEW S, Cardinality(S) > 1
  PROVE  \E a, b \in S : a # b
<1> SUFFICES ASSUME \A a, b \in S : a = b PROVE FALSE
  OBVIOUS
<1>1. S = {} \/ \E a : S = {a}
  OBVIOUS
<1>2. Cardinality(S) \in {0, 1}
  BY <1>1, FS_EmptySet, FS_Singleton
<1> QED
  BY <1>2

\* A rate is that of a block with a clock of its own, or the step.
LEMMA WhoseRate ==
  ASSUME NEW b \in Timed
  PROVE  \/ \E d \in Timed : ~Inherits(d) /\ ResolvedRate(b) = TimeOf(d).rate
         \/ Inherits(b) /\ ResolvedRate(b) = asked.step
<1>1. CASE ~Inherits(b)
  BY <1>1 DEF ResolvedRate
<1>2. CASE Inherits(b) /\ Anchors(b) # {}
  <2>1. ResolvedRate(b) \in Anchors(b)
    BY <1>2 DEF ResolvedRate
  <2> QED
    BY <2>1 DEF Anchors, Inherits
<1>3. CASE Inherits(b) /\ Anchors(b) = {}
  BY <1>3 DEF ResolvedRate
<1> QED
  BY <1>1, <1>2, <1>3

LEMMA ContestedHasReason ==
  ASSUME NEW f, NEW b \in Timed, AreContested(b)
  PROVE  RefusalHasReason(f)
<1>1. PICK r, s \in Anchors(b) : r # s
  BY TwoOfMany DEF AreContested
<1> QED
  BY <1>1 DEF Anchors, RefusalHasReason

LEMMA UnratedHasReason ==
  ASSUME NEW f, NEW b \in Timed, ResolvedRate(b) = 0
  PROVE  RefusalHasReason(f)
  BY WhoseRate DEF RefusalHasReason, Inherits, Inherited

LEMMA RatesHaveReason ==
  ASSUME NEW f, asked.step \in Nat, RatesAreResolved(found), ~RatesAgree(found.rates)
  PROVE  RefusalHasReason(f)
<1>1. DOMAIN found.rates = Timed /\ \A b \in Timed : found.rates[b] = ResolvedRate(b) /\ ResolvedRate(b) # 0
  BY DEF RatesAreResolved
<1>2. ASSUME asked.step = 0 PROVE RefusalHasReason(f)
  <2>1. PICK b, d \in Timed : ResolvedRate(b) # ResolvedRate(d)
    BY <1>1, <1>2 DEF RatesAgree
  <2>2. \A c \in Timed : \E o \in Timed : ResolvedRate(c) = TimeOf(o).rate
    BY <1>1, <1>2, WhoseRate
  <2> QED
    BY <2>1, <2>2 DEF RefusalHasReason
<1>3. ASSUME asked.step # 0 PROVE RefusalHasReason(f)
  <2>1. PICK b \in Timed : ResolvedRate(b) # asked.step
    BY <1>1 DEF RatesAgree
  <2>2. PICK d \in Timed : ~Inherits(d) /\ ResolvedRate(b) = TimeOf(d).rate
    BY <2>1, WhoseRate
  <2> QED
    BY <2>1, <2>2 DEF RefusalHasReason, Inherits
<1> QED
  BY <1>2, <1>3

LEMMA ResolveSampleTimesStep == CompileInv /\ ResolveSampleTimes => CompileInv'
<1> SUFFICES ASSUME CompileInv, ResolveSampleTimes PROVE CompileInv'
  OBVIOUS
<1>1. Passing /\ pass = "rates"
  BY DEF Passing, ResolveSampleTimes
<1> DEFINE rates == [b \in Timed |-> ResolvedRate(b)]
<1>2. CASE Refuses("contested") /\ \E b \in Timed : AreContested(b)
  BY <1>1, <1>2, ContestedHasReason, RefusedPass
<1>3. CASE Refuses("unrated") /\ \E b \in Timed : rates[b] = 0
  BY <1>1, <1>3, UnratedHasReason, RefusedPass
<1>4. CASE Refuses("parameters")
  BY <1>1, <1>4, PlainRefusal
<1>5. CASE /\ ~\E b \in Timed : rates[b] = 0
           /\ pass' = "inputs" /\ found' = [found EXCEPT !.rates = rates] /\ UNCHANGED asked
  <2> HIDE DEF rates
  <2>1. /\ found'.rates = rates /\ found'.delays = found.delays /\ IsFound(found')
    BY <1>1, <1>5, Passed DEF IsFound
  <2>2. RatesAreResolved(found')
    BY <1>5, <2>1 DEF RatesAreResolved, rates
  <2>3. PassInv("inputs", found')
    BY <1>1, <2>1, <2>2, Passed DEF PassInv, AfterWidths, AfterWires, AfterRates, AfterInputs,
       AfterDomains, AfterDelays, Ended
  <2> QED
    BY <1>1, <1>5, <2>3, Passed, NextPass
<1> QED
  BY <1>2, <1>3, <1>4, <1>5 DEF ResolveSampleTimes

LEMMA ApplyTimeDomainsStep == CompileInv /\ ApplyTimeDomains => CompileInv'
<1> SUFFICES ASSUME CompileInv, ApplyTimeDomains PROVE CompileInv'
  OBVIOUS
<1>1. Passing /\ pass = "domains"
  BY DEF Passing, ApplyTimeDomains
<1>2. CASE Refuses("mixed") /\ Timed # {} /\ Dynamical # {}
  <2>1. RefusalHasReason([found EXCEPT !.why = "mixed"])
    BY <1>2 DEF RefusalHasReason
  <2> QED
    BY <1>1, <1>2, <2>1, RefusedPass
<1>3. CASE Refuses("rates") /\ ~RatesAgree(found.rates)
  <2>1. RatesAreResolved(found) /\ asked.step \in Nat
    BY <1>1, Passed DEF PassInv, AskedIsADiagram, AfterRates, AfterInputs
  <2>2. RefusalHasReason([found EXCEPT !.why = "rates"])
    BY <1>3, <2>1, RatesHaveReason
  <2> QED
    BY <1>1, <1>3, <2>2, RefusedPass
<1>4. ASSUME NEW system, pass' = "outputs", UNCHANGED asked, found' = [found EXCEPT !.system = system],
             SystemIsOfTheBlocks([found EXCEPT !.system = system])
      PROVE  CompileInv'
  <2>1. /\ found'.rates = found.rates /\ found'.delays = found.delays /\ IsFound(found')
    BY <1>1, <1>4, Passed DEF IsFound
  <2>2. PassInv("outputs", found')
    BY <1>1, <1>4, <2>1, Passed DEF PassInv, AfterWidths, AfterWires, AfterRates, AfterInputs,
       AfterDomains, AfterDelays, Ended, RatesAreResolved
  <2> QED
    BY <1>1, <1>4, <2>2, Passed, NextPass
<1>5. IsFound(found)
  BY <1>1, Passed
<1>6. CASE /\ Timed = {}
           /\ pass' = "outputs" /\ UNCHANGED asked /\ found' = [found EXCEPT !.system = Continuous]
  <2>1. SystemIsOfTheBlocks([found EXCEPT !.system = Continuous])
    BY <1>5, <1>6 DEF SystemIsOfTheBlocks, IsFound
  <2> QED
    BY <1>4, <1>6, <2>1
<1>7. CASE /\ Timed # {} /\ Dynamical = {} /\ RatesAgree(found.rates)
           /\ pass' = "outputs" /\ UNCHANGED asked
           /\ \E b \in Timed : found' = [found EXCEPT !.system = Discrete(found.rates[b])]
  <2>1. PICK b \in Timed : found' = [found EXCEPT !.system = Discrete(found.rates[b])]
    BY <1>7
  <2>2. SystemIsOfTheBlocks([found EXCEPT !.system = Discrete(found.rates[b])])
    BY <1>5, <1>7 DEF SystemIsOfTheBlocks, IsFound
  <2> QED
    BY <1>4, <1>7, <2>1, <2>2
<1> QED
  BY <1>2, <1>3, <1>6, <1>7 DEF ApplyTimeDomains

LEMMA SelectOutputsStep == CompileInv /\ SelectOutputs => CompileInv'
<1> SUFFICES ASSUME CompileInv, SelectOutputs PROVE CompileInv'
  OBVIOUS
<1>1. Passing /\ pass = "outputs"
  BY DEF Passing, SelectOutputs
<1>2. CASE Refuses("probe")
  BY <1>1, <1>2, PlainRefusal
<1>3. ASSUME NEW probes, pass' = "delays", UNCHANGED asked, found' = [found EXCEPT !.outputs = probes]
      PROVE  CompileInv'
  <2>1. /\ found'.rates = found.rates /\ found'.delays = found.delays /\ IsFound(found')
        /\ found'.system = found.system
    BY <1>1, <1>3, Passed DEF IsFound
  <2>2. PassInv("delays", found')
    BY <1>1, <1>3, <2>1, Passed DEF PassInv, AfterWidths, AfterWires, AfterRates, AfterInputs,
       AfterDomains, AfterDelays, Ended, RatesAreResolved, SystemIsOfTheBlocks
  <2> QED
    BY <1>1, <1>3, <2>2, Passed, NextPass
<1> QED
  BY <1>2, <1>3 DEF SelectOutputs

\* Nothing leaves a sink.
LEMMA SinksEnd ==
  ASSUME AskedIsADiagram, PortsAreDeclared, NEW b \in Sinks
  PROVE  After(b) = {}
<1> SUFFICES ASSUME NEW w \in asked.wires, w.source = b PROVE FALSE
  BY DEF After
<1>1. w.sourcePort \in Nat /\ Block(b).outputs = 0
  BY DEF AskedIsADiagram, IsContract, Sinks
<1>2. w.sourcePort < Block(b).outputs
  BY DEF PortsAreDeclared, HasOutputPort
<1> QED
  BY <1>1, <1>2

TheDelay(delays) == IF delays = {} THEN 0 ELSE CHOOSE d \in delays : TRUE
ExactDelays(pairs) == [p \in pairs |-> TheDelay(PathDelays(p[1], p[2].block).delays)]

LEMMA AttachExactDelaysStep == CompileInv /\ AttachExactDelays => CompileInv'
<1> SUFFICES ASSUME CompileInv, AttachExactDelays PROVE CompileInv'
  OBVIOUS
<1>1. Passing /\ pass = "delays"
  BY DEF Passing, AttachExactDelays
<1>2. CASE Refuses("delays")
  BY <1>1, <1>2, PlainRefusal
<1>3. CASE GoesOn("connect")
  <2>1. found.delays = << >>
    BY <1>1, Passed DEF PassInv, AfterDelays, Ended
  <2>2. DelaysAreOfTheWays(found)
    BY <2>1 DEF DelaysAreOfTheWays
  <2>3. PassInv("connect", found)
    BY <1>1, <2>2, Passed DEF PassInv, AfterWidths, AfterWires, AfterRates, AfterInputs,
       AfterDomains, AfterDelays, Ended
  <2> QED
    BY <1>1, <1>3, <2>3, GoneOn
<1> DEFINE pairs == Sources \X found.outputs
           delays == ExactDelays(pairs)
<1>4. CASE /\ \A p \in pairs : IsExact(PathDelays(p[1], p[2].block))
           /\ pass' = "connect" /\ UNCHANGED asked /\ found' = [found EXCEPT !.delays = delays]
  <2>1. /\ found'.rates = found.rates /\ found'.delays = delays /\ IsFound(found')
        /\ found'.system = found.system
    BY <1>1, <1>4, Passed DEF IsFound
  <2>2. ASSUME NEW p \in pairs, p[2].block \in Sinks, NEW way \in Ways(p[1], p[2].block)
        PROVE  DelayOf(way) = delays[p]
    <3>1. /\ AskedIsADiagram /\ WiresJoinBlocks /\ DelaysAreNumbers /\ IsFiniteSet(Ids)
          /\ PortsAreDeclared
      BY <1>1, Passed DEF PassInv, AfterWires, AfterRates, AfterInputs, AfterDomains, AskedIsADiagram
    <3>2. After(p[2].block) = {}
      BY <2>2, <3>1, SinksEnd
    <3>3. p[1] \in Ids /\ IsExact(PathDelays(p[1], p[2].block))
      BY <1>4, <2>2 DEF Sources
    <3>4. PICK source, target : source = p[1] /\ target = p[2].block
      OBVIOUS
    <3>5. /\ PathDelays(source, target).delays # {}
          /\ DelayOf(way) = CHOOSE d \in PathDelays(source, target).delays : TRUE
      BY <2>2, <3>1, <3>2, <3>3, <3>4, ExactPaths
    <3> QED
      BY <2>2, <3>4, <3>5 DEF ExactDelays, TheDelay
  <2>3. DOMAIN delays = pairs
    BY DEF ExactDelays
  <2> HIDE DEF pairs, delays
  <2>4. DelaysAreOfTheWays(found')
    BY <2>1, <2>2, <2>3 DEF DelaysAreOfTheWays
  <2>5. PassInv("connect", found')
    BY <1>1, <2>1, <2>4, Passed DEF PassInv, AfterWidths, AfterWires, AfterRates, AfterInputs,
       AfterDomains, AfterDelays, Ended, RatesAreResolved, SystemIsOfTheBlocks
  <2> QED
    BY <1>1, <1>4, <2>5, Passed, NextPass
<1>5. \/ Refuses("delays") \/ GoesOn("connect")
      \/ /\ \A p \in pairs : IsExact(PathDelays(p[1], p[2].block))
         /\ pass' = "connect" /\ UNCHANGED asked /\ found' = [found EXCEPT !.delays = delays]
  <2>1. CASE IsStatic /\ \E b \in Ids : Block(b).delay > 0
    <3> DEFINE paths == [p \in pairs |-> PathDelays(p[1], p[2].block)]
    <3>1. \/ Refuses("delays")
          \/ /\ \A p \in pairs : IsExact(paths[p])
             /\ pass' = "connect" /\ UNCHANGED asked
             /\ found' = [found EXCEPT !.delays =
                            [p \in pairs |-> TheDelay(paths[p].delays)]]
      BY <2>1, Zenon DEF AttachExactDelays, TheDelay
    <3>2. \A p \in pairs : paths[p] = PathDelays(p[1], p[2].block)
      OBVIOUS
    <3>3. [p \in pairs |-> TheDelay(paths[p].delays)] = delays
      BY <3>2 DEF ExactDelays
    <3> HIDE DEF delays, paths, pairs
    <3> QED
      BY <3>1, <3>2, <3>3
  <2> QED
    BY <2>1 DEF AttachExactDelays
<1> HIDE DEF pairs, delays
<1> QED
  BY <1>2, <1>3, <1>4, <1>5

LEMMA ConnectByNameStep == CompileInv /\ ConnectByName => CompileInv'
<1> SUFFICES ASSUME CompileInv, ConnectByName PROVE CompileInv'
  OBVIOUS
<1>1. Passing /\ pass = "connect"
  BY DEF Passing, ConnectByName
<1>2. CASE Refuses("channels")
  BY <1>1, <1>2, PlainRefusal
<1>3. CASE Refuses("loop")
  BY <1>1, <1>3, PlainRefusal
<1>4. CASE GoesOn("compiled")
  <2>1. PassInv("compiled", found)
    BY <1>1, Passed DEF PassInv, AfterWidths, AfterWires, AfterRates, AfterInputs, AfterDomains,
       AfterDelays, Ended
  <2> QED
    BY <1>1, <1>4, <2>1, GoneOn
<1> QED
  BY <1>2, <1>3, <1>4 DEF ConnectByName

LEMMA SimulateStep == CompileInv /\ Simulate => CompileInv'
<1> SUFFICES ASSUME CompileInv, Simulate PROVE CompileInv'
  OBVIOUS
<1>1. Passing /\ pass = "compiled" /\ asked.step > 0
  BY DEF Passing, Simulate
<1>2. CASE Refuses("run")
  BY <1>1, <1>2, PlainRefusal
<1>3. CASE GoesOn("simulated") /\ DelaysAreAligned
  <2>1. RunIsAligned(found)
    BY <1>1, <1>3 DEF RunIsAligned, DelaysAreAligned
  <2>2. PassInv("simulated", found)
    BY <1>1, <2>1, Passed DEF PassInv, AfterWidths, AfterWires, AfterRates, AfterInputs,
       AfterDomains, AfterDelays, Ended
  <2> QED
    BY <1>1, <1>3, <2>2, GoneOn
<1> QED
  BY <1>2, <1>3 DEF Simulate, Passes

LEMMA CompilePassStep == CompileInv /\ CompileStep => CompileInv'
  BY CollectBlocksStep, ResolveSignalWidthsStep, CheckWiresStep, ResolveSampleTimesStep,
     CheckInputsStep, RealizeBlocksStep, ApplyTimeDomainsStep, SelectOutputsStep,
     AttachExactDelaysStep, ConnectByNameStep, SimulateStep DEF CompileStep, CompilePass

LEMMA FilledPorts ==
  ASSUME NEW S, IsFiniteSet(S), NEW n \in Nat, Cardinality(S) = n, NEW g \in [S -> 0..(n - 1)],
         \A x, y \in S : g[x] = g[y] => x = y
  PROVE  \A p \in 0..(n - 1) : \E x \in S : g[x] = p
<1> SUFFICES ASSUME NEW p \in 0..(n - 1), \A x \in S : g[x] # p
             PROVE  FALSE
  OBVIOUS
<1> DEFINE all  == 0..(n - 1)
           rest == all \ {p}
<1>1. IsFiniteSet(all) /\ Cardinality(all) = n
  <2>1. n - 1 \in Int
    OBVIOUS
  <2>2. IsFiniteSet(all) /\ Cardinality(all) = IF 0 > n - 1 THEN 0 ELSE n - 1 - 0 + 1
    BY <2>1, FS_Interval
  <2> HIDE DEF all
  <2> QED
    BY <2>2
<1>2. p \in all /\ g \in [S -> rest]
  OBVIOUS
<1> HIDE DEF all
<1>3. IsFiniteSet(rest) /\ Cardinality(rest) = n - 1
  BY <1>1, <1>2, FS_RemoveElement
<1> HIDE DEF rest
<1>4. Cardinality(rest) < Cardinality(S)
  BY <1>3
<1> QED
  BY <1>2, <1>3, <1>4, FS_PigeonHole


\* Each declared input of a block hears one wire.
LEMMA PortsAreFed ==
  ASSUME AskedIsADiagram, PortsAreDeclared, NEW b \in Ids, InputsAreRight(b),
         NEW port \in 0..(Block(b).inputs - 1)
  PROVE  \E w : {v \in Into(b) : v.targetPort = port} = {w}
<1> DEFINE here == {w \in Into(b) : w.targetPort = port}
<1>1. PICK n \in Nat : n = Block(b).inputs
  BY DEF AskedIsADiagram, IsContract
<1>2. /\ \A w \in Into(b) : w.targetPort \in 0..(n - 1)
      /\ \A v, w \in Into(b) : v.targetPort = w.targetPort => v = w
  BY <1>1 DEF AskedIsADiagram, PortsAreDeclared, Into, InputsAreRight, HasInputPort
<1>3. IsFiniteSet(Into(b))
  <2> DEFINE used == {w.targetPort : w \in Into(b)}
             wireAt == [p \in used |-> CHOOSE w \in Into(b) : w.targetPort = p]
  <2>1. IsFiniteSet(used)
    <3>1. used \subseteq 0..(n - 1)
      BY <1>2
    <3>2. n - 1 \in Int
      OBVIOUS
    <3> HIDE DEF used
    <3>3. IsFiniteSet(0..(n - 1))
      BY <3>2, FS_Interval
    <3> QED
      BY <3>1, <3>3, FS_Subset
  <2>2. \A w \in Into(b) : w.targetPort \in used /\ wireAt[w.targetPort] = w
    BY <1>2
  <2>3. \A p \in used : wireAt[p] \in Into(b)
    BY <2>2
  <2>4. \A w \in Into(b) : \E p \in used : w = wireAt[p]
    BY <2>2
  <2> HIDE DEF used, wireAt
  <2> QED
    BY <2>1, <2>3, <2>4, ImagesAreFinite
<1>4. \E w \in Into(b) : w.targetPort = port
  <2>1. Block(b).role # "source"
    BY <1>1 DEF AskedIsADiagram, IsContract
  <2>2. CASE n = 1
    <3>1. Into(b) # {}
      BY <2>1, FS_EmptySet DEF InputsAreRight, Arity
    <3> QED
      BY <1>1, <1>2, <2>2, <3>1
  <2>3. CASE Block(b).every
    <3> DEFINE portOf == [w \in Into(b) |-> w.targetPort]
    <3>1. Cardinality(Into(b)) = n
      BY <1>1, <2>3 DEF InputsAreRight
    <3>2. portOf \in [Into(b) -> 0..(n - 1)] /\ \A v, w \in Into(b) : portOf[v] = portOf[w] => v = w
      BY <1>2
    <3>3. \A w \in Into(b) : portOf[w] = w.targetPort
      OBVIOUS
    <3> HIDE DEF portOf
    <3>4. \A p \in 0..(n - 1) : \E w \in Into(b) : portOf[w] = p
      BY <1>3, <3>1, <3>2, FilledPorts
    <3> QED
      BY <1>1, <3>3, <3>4
  <2> QED
    BY <1>1, <2>1, <2>2, <2>3 DEF AskedIsADiagram, IsContract
<1>5. PICK w : here = {w}
  BY <1>2, <1>4
<1> QED
  BY <1>5

\* The third part of the property, of a simulated model.
LEMMA RunsAreOnTheGrid ==
  ASSUME AskedIsADiagram, Timed = {}, SystemIsOfTheBlocks(found), RunIsAligned(found), NEW b \in Ids
  PROVE  Block(b).delay % asked.step = 0
<1>1. found.system = Continuous
  BY DEF SystemIsOfTheBlocks
<1>2. Block(b).delay \in Nat /\ asked.step \in Nat \ {0}
  BY DEF AskedIsADiagram, IsContract, RunIsAligned
<1>3. CASE HasDelay
  BY <1>1, <1>3 DEF RunIsAligned
<1>4. CASE ~HasDelay
  <2>1. Block(b).delay = 0
    BY <1>2, <1>4 DEF HasDelay
  <2>2. PICK s \in Nat \ {0} : s = asked.step
    BY <1>2
  <2>3. 0 % s = 0
    BY <2>2
  <2> QED
    BY <2>1, <2>2, <2>3
<1> QED
  BY <1>3, <1>4

LEMMA OneTimeAndRate ==
  ASSUME AskedIsADiagram, RatesAreResolved(found), SystemIsOfTheBlocks(found)
  PROVE  /\ Timed # {} => Dynamical = {} /\ found.system.kind = "discrete"
         /\ \A b \in Timed : /\ found.rates[b] = found.system.rate
                             /\ TimeOf(b).rate \in {Inherited, found.system.rate}
                             /\ asked.step \in {0, found.system.rate}
<1> SUFFICES ASSUME Timed # {}
             PROVE  /\ Dynamical = {} /\ found.system.kind = "discrete"
                    /\ \A b \in Timed : /\ found.rates[b] = found.system.rate
                                        /\ TimeOf(b).rate \in {Inherited, found.system.rate}
                                        /\ asked.step \in {0, found.system.rate}
  OBVIOUS
<1>1. PICK d \in Timed : found.system = Discrete(found.rates[d])
  BY DEF SystemIsOfTheBlocks
<1>2. found.system.kind = "discrete" /\ found.system.rate = found.rates[d]
  BY <1>1 DEF Discrete
<1>3. DOMAIN found.rates = Timed /\ \A b \in Timed : found.rates[b] = ResolvedRate(b)
  BY DEF RatesAreResolved
<1>4. Dynamical = {} /\ RatesAgree(found.rates)
  BY DEF SystemIsOfTheBlocks
<1>5. asked.step \in Nat
  BY DEF AskedIsADiagram
<1>6. ASSUME NEW b \in Timed
      PROVE  /\ found.rates[b] = found.system.rate
             /\ TimeOf(b).rate \in {Inherited, found.system.rate}
             /\ asked.step \in {0, found.system.rate}
  <2>1. found.rates[b] = found.system.rate
    BY <1>2, <1>3, <1>4 DEF RatesAgree
  <2>2. ~Inherits(b) => found.rates[b] = TimeOf(b).rate
    BY <1>3 DEF ResolvedRate
  <2>3. asked.step > 0 => found.rates[b] = asked.step
    BY <1>3, <1>4 DEF RatesAgree
  <2> QED
    BY <1>5, <2>1, <2>2, <2>3 DEF Inherits
<1> QED
  BY <1>2, <1>4, <1>6

LEMMA CompiledModels == CompileInv => CompiledModelsAreTheDiagram
<1> SUFFICES ASSUME CompileInv PROVE CompiledModelsAreTheDiagram
  OBVIOUS
<1>1. ASSUME IsCompiled
      PROVE  /\ \A b \in Ids : \A port \in 0..(Block(b).inputs - 1) :
                  Cardinality({w \in Into(b) : w.targetPort = port}) = 1
             /\ \A w \in asked.wires :
                  ResolvedWidths(asked.blocks, asked.wires)[w.source]
                    = InWidth(asked.blocks, ResolvedWidths(asked.blocks, asked.wires), w.target)
             /\ Timed # {} => Dynamical = {} /\ found.system.kind = "discrete"
             /\ \A b \in Timed : /\ found.rates[b] = found.system.rate
                                 /\ TimeOf(b).rate \in {Inherited, found.system.rate}
                                 /\ asked.step \in {0, found.system.rate}
             /\ \A p \in DOMAIN found.delays : p[2].block \in Sinks =>
                  \A way \in Ways(p[1], p[2].block) : DelayOf(way) = found.delays[p]
  <2>1. /\ AskedIsADiagram /\ WidthsResolve(asked.blocks, asked.wires) /\ PortsAreDeclared
        /\ RatesAreResolved(found) /\ \A b \in Ids : InputsAreRight(b)
        /\ SystemIsOfTheBlocks(found) /\ DelaysAreOfTheWays(found)
    BY <1>1 DEF CompileInv, PassInv, IsCompiled, AfterWidths, AfterWires, AfterRates, AfterInputs,
       AfterDomains, AfterDelays, Ended
  <2>2. \A b \in Ids : \A port \in 0..(Block(b).inputs - 1) :
           Cardinality({w \in Into(b) : w.targetPort = port}) = 1
    <3> TAKE b \in Ids
    <3> TAKE port \in 0..(Block(b).inputs - 1)
    <3>1. PICK v : {w \in Into(b) : w.targetPort = port} = {v}
      BY <2>1, PortsAreFed
    <3>2. Cardinality({v}) = 1
      BY FS_Singleton
    <3> QED
      BY <3>1, <3>2
  <2>3. \A w \in asked.wires :
           ResolvedWidths(asked.blocks, asked.wires)[w.source]
             = InWidth(asked.blocks, ResolvedWidths(asked.blocks, asked.wires), w.target)
    BY <2>1 DEF WidthsResolve, PortsAreDeclared, AskedIsADiagram, Block, Ids
  <2> QED
    BY <2>1, <2>2, <2>3, OneTimeAndRate DEF DelaysAreOfTheWays
<1>2. ASSUME pass = "simulated", Timed = {}, NEW b \in Ids
      PROVE  Block(b).delay % asked.step = 0
  <2>1. AskedIsADiagram /\ SystemIsOfTheBlocks(found) /\ RunIsAligned(found)
    BY <1>2 DEF CompileInv, PassInv, AfterDomains, AfterDelays, Ended
  <2> QED
    BY <1>2, <2>1, RunsAreOnTheGrid
<1>3. pass = "refused" => RefusalHasReason(found)
  BY DEF CompileInv, PassInv
<1> QED
  BY <1>1, <1>2, <1>3 DEF CompiledModelsAreTheDiagram, RefusalHasReason

(***************************************************************************)
(* The control models                                                      *)
(***************************************************************************)
IsCompileRequest(request) ==
    /\ IsFiniteSet(DOMAIN request.blocks)
    /\ \A b \in DOMAIN request.blocks : IsContract(request.blocks[b])
    /\ request.step \in Nat
    /\ \A w \in request.wires :
          /\ w.source \in DOMAIN request.blocks /\ w.target \in DOMAIN request.blocks
          /\ w.sourcePort \in Nat /\ w.targetPort \in Nat

LEMMA StartedPass ==
  ASSUME IsCompileRequest(asked'), pass' = "collect", found' = NothingFound
  PROVE  CompileInv'
<1>1. AskedIsADiagram'
  BY DEF IsCompileRequest, AskedIsADiagram, Ids, Block
<1>2. PassInv(pass, found)'
  BY DEF PassInv, IsFound, NothingFound, AfterWidths, AfterWires, AfterRates, AfterInputs,
     AfterDomains, AfterDelays, Ended
<1> QED
  BY <1>1, <1>2 DEF CompileInv

Parts == {"plant", "controller"}

\* The parts of a sound specification: blocks of the flowsheet and channels of theirs.
LEMMA PartsOfSoundRoles ==
  ASSUME IsControlLoop(loop), RolesAreSound, NEW part \in Parts
  PROVE  /\ Members[part] \subseteq DOMAIN loop.blocks
         /\ IsFiniteSet(Members[part])
         /\ Boundary[part] \in Seq(Channel)
         /\ \A ref \in Refs(Boundary[part]) : ref.block \in Members[part] /\ IsInput(ref)
         /\ ExposesPorts(part)
<1>1. Members[part] \subseteq DOMAIN loop.blocks
  BY DEF Parts, Members, RolesAreSound, AreBlocks
<1>2. IsFiniteSet(DOMAIN loop.blocks)
  BY DEF IsControlLoop, IsDiagram
<1>3. IsFiniteSet(Members[part])
  BY <1>1, <1>2, FS_Subset
<1>4. Boundary[part] \in Seq(Channel)
  <2>1. /\ Roles.exogenous \in Seq(Channel) /\ Roles.control \in Seq(Channel)
        /\ Roles.references \in Seq(Channel) /\ Roles.measurements \in Seq(Channel)
    BY DEF IsControlLoop, Roles
  <2>2. /\ Roles.exogenous \o Roles.control \in Seq(Channel)
        /\ Roles.references \o Roles.measurements \in Seq(Channel)
    BY <2>1
  <2> QED
    <3>1. CASE part = "plant"
      BY <2>2, <3>1 DEF Boundary
    <3>2. CASE part = "controller"
      BY <2>2, <3>2 DEF Boundary
    <3> QED
      BY <3>1, <3>2 DEF Parts
<1>5. ChannelsResolve(part) /\ ExposesPorts(part)
  BY DEF RolesAreSound, Parts
<1> QED
  BY <1>1, <1>2, <1>3, <1>4, <1>5 DEF ChannelsResolve

LEMMA WidthsInTheLoop ==
  ASSUME IsControlLoop(loop), NEW b \in DOMAIN loop.blocks
  PROVE  InputWidth(b) \in Nat
<1>1. PICK graph, wires : graph = loop.blocks /\ wires = loop.wires
  OBVIOUS
<1>2. /\ IsFiniteSet(DOMAIN graph)
      /\ \A d \in DOMAIN graph : {graph[d].in, graph[d].out, graph[d].initial} \subseteq Nat
  BY <1>1 DEF IsControlLoop, IsDiagram, IsContract
<1>3. InWidth(graph, ResolvedWidths(graph, wires), b) \in Nat
  BY <1>1, <1>2, WidthsAreNumbers
<1> QED
  BY <1>1, <1>3 DEF InputWidth, LoopWidths

LEMMA FedPorts ==
  ASSUME IsControlLoop(loop), RolesAreSound, NEW part \in Parts
  PROVE  /\ IsFiniteSet(Fed(part))
         /\ \A f \in Fed(part) : /\ f.block \in Members[part] /\ f.port \in Nat
                                 /\ SourceOf(part, f) \notin Members[part]
<1> DEFINE list == Boundary[part]
<1>1. list \in Seq(Channel) /\ \A ref \in Refs(list) : ref.block \in Members[part]
  BY PartsOfSoundRoles
<1>2. IsFiniteSet(Fed(part))
  <2> DEFINE portAt == [i \in 1..Len(list) |-> [block |-> list[i].block, port |-> list[i].port]]
  <2>1. PICK n \in Nat : n = Len(list)
    BY <1>1
  <2>2. IsFiniteSet(1..n)
    BY FS_Interval
  <2>3. DOMAIN list = 1..n
    BY <1>1, <2>1
  <2>4. /\ \A i \in 1..n : portAt[i] \in Fed(part)
        /\ \A f \in Fed(part) : \E i \in 1..n : f = portAt[i]
    BY <2>1, <2>3 DEF Fed, Refs
  <2> HIDE DEF portAt
  <2> QED
    BY <2>2, <2>4, ImagesAreFinite
<1>3. ASSUME NEW f \in Fed(part)
      PROVE  /\ f.block \in Members[part] /\ f.port \in Nat
             /\ SourceOf(part, f) \notin Members[part]
  <2>1. PICK ref \in Refs(list) : f = [block |-> ref.block, port |-> ref.port]
    BY DEF Fed
  <2>2. ref \in Channel
    BY <1>1 DEF Refs
  <2>3. f.block \in Nat /\ f.port \in Nat /\ f.block \in Members[part]
    BY <1>1, <2>1, <2>2 DEF Channel
  <2>4. DOMAIN list \subseteq Nat \ {0}
    BY <1>1
  <2>5. PICK i \in DOMAIN list : ref = list[i]
    BY <2>1 DEF Refs
  <2>6. \E j \in DOMAIN list : list[j].block = f.block /\ list[j].port = f.port
    BY <2>1, <2>5
  <2>7. PICK j \in DOMAIN list : SourceOf(part, f) = -j
    BY <2>6 DEF SourceOf
  <2>8. SourceOf(part, f) \notin Nat
    BY <2>4, <2>7
  <2>9. Members[part] \subseteq Nat
    BY PartsOfSoundRoles DEF IsControlLoop
  <2> QED
    BY <2>3, <2>8, <2>9
<1> QED
  BY <1>2, <1>3

\* A part of a flowsheet is a diagram.
LEMMA SubsystemIsADiagram ==
  ASSUME IsControlLoop(loop), RolesAreSound, NEW part \in Parts, NEW step \in Nat
  PROVE  IsCompileRequest(Subsystem(part, step))
<1> DEFINE members == Members[part]
           sources == {SourceOf(part, f) : f \in Fed(part)}
           sub     == Subsystem(part, step)
<1>1. /\ members \subseteq DOMAIN loop.blocks /\ IsFiniteSet(members)
  BY PartsOfSoundRoles
<1>2. IsFiniteSet(sources)
  <2> DEFINE source == [f \in Fed(part) |-> SourceOf(part, f)]
  <2>1. /\ \A f \in Fed(part) : source[f] \in sources
        /\ \A s \in sources : \E f \in Fed(part) : s = source[f]
    OBVIOUS
  <2> HIDE DEF source, sources
  <2> QED
    BY <2>1, FedPorts, ImagesAreFinite
<1>3. DOMAIN sub.blocks = members \cup sources
  BY DEF Subsystem
<1>4. IsFiniteSet(DOMAIN sub.blocks)
  BY <1>1, <1>2, <1>3, FS_Union
<1>5. \A b \in members : IsContract(sub.blocks[b])
  BY <1>1 DEF Subsystem, IsControlLoop, IsDiagram
<1>6. ASSUME NEW b \in sources PROVE IsContract(sub.blocks[b])
  <2>1. PICK f \in Fed(part) : f = CHOOSE g \in Fed(part) : SourceOf(part, g) = b
    OBVIOUS
  <2>2. InputWidth(f.block) \in Nat
    BY <1>1, FedPorts, WidthsInTheLoop
  <2>3. b \notin members
    BY FedPorts
  <2>4. sub.blocks[b] = VectorConstant(InputWidth(f.block))
    BY <2>1, <2>3 DEF Subsystem
  <2> QED
    BY <2>2, <2>4 DEF VectorConstant, Source, Definition, IsContract, Neutral, Inherited
<1>7. \A w \in sub.wires :
          /\ w.source \in members \cup sources /\ w.target \in members \cup sources
          /\ w.sourcePort \in Nat /\ w.targetPort \in Nat
  <2> TAKE w \in sub.wires
  <2>1. CASE w \in loop.wires /\ {w.source, w.target} \subseteq members
    BY <2>1 DEF IsControlLoop
  <2>2. CASE \E f \in Fed(part) : w = [source |-> SourceOf(part, f), sourcePort |-> 0,
                                       target |-> f.block, targetPort |-> f.port]
    BY <2>2, FedPorts
  <2> QED
    BY <2>1, <2>2 DEF Subsystem
<1>8. sub.step \in Nat
  BY DEF Subsystem
<1> HIDE DEF sub, members, sources
<1>9. IsCompileRequest(sub)
  BY <1>3, <1>4, <1>5, <1>6, <1>7, <1>8 DEF IsCompileRequest
<1> QED
  BY <1>9 DEF sub

Inside(part, b, p) ==
    {w \in loop.wires : w.target = b /\ w.targetPort = p /\ w.source \in Members[part]}
Exposed(part, b, p) == {ref \in Refs(Boundary[part]) : ref.block = b /\ ref.port = p}
PartIsWhole(part) ==
    \A b \in Members[part] : \A p \in 0..(loop.blocks[b].inputs - 1) :
      \/ Cardinality(Inside(part, b, p)) = 1 /\ Exposed(part, b, p) = {}
      \/ /\ Inside(part, b, p) = {}
         /\ {ref.channel : ref \in Exposed(part, b, p)} = 0..(InputWidth(b) - 1)
PartFits(part, system) ==
    \A b \in Members[part] :
      loop.blocks[b].time.kind # "neutral" =>
        /\ loop.blocks[b].time.kind = system.kind
        /\ loop.blocks[b].time.rate \in {Inherited, system.rate}
        /\ loop.blocks[b].time.kind = "discrete" => loop.step \in {0, system.rate}

LEMMA BlocksOfSubsystem ==
  ASSUME IsControlLoop(loop), RolesAreSound, NEW part \in Parts, NEW step,
         asked = Subsystem(part, step), NEW b \in Members[part]
  PROVE  b \in Ids /\ Block(b) = loop.blocks[b]
  BY DEF Subsystem, Ids, Block

LEMMA CompiledPartFits ==
  ASSUME IsControlLoop(loop), RolesAreSound, NEW part \in Parts, NEW step,
         asked = Subsystem(part, step), loop.step \in {0, step}, CompileInv, pass = "compiled"
  PROVE  PartFits(part, found.system)
<1>1. AskedIsADiagram /\ RatesAreResolved(found) /\ SystemIsOfTheBlocks(found)
  BY DEF CompileInv, PassInv, AfterRates, AfterInputs, AfterDomains, AfterDelays, Ended
<1>2. asked.step = step
  BY DEF Subsystem
<1> SUFFICES ASSUME NEW b \in Members[part], loop.blocks[b].time.kind # "neutral"
             PROVE  /\ loop.blocks[b].time.kind = found.system.kind
                    /\ loop.blocks[b].time.rate \in {Inherited, found.system.rate}
                    /\ loop.blocks[b].time.kind = "discrete" => loop.step \in {0, found.system.rate}
  BY DEF PartFits
<1>3. b \in Ids /\ Block(b) = loop.blocks[b] /\ TimeOf(b) = loop.blocks[b].time
  BY BlocksOfSubsystem DEF TimeOf
<1>4. TimeOf(b) \in {Continuous, Discrete(TimeOf(b).rate)}
  BY <1>1, <1>3 DEF AskedIsADiagram, IsContract, TimeOf, Neutral
<1>5. CASE TimeOf(b) = Continuous
  <2>1. b \in Dynamical
    BY <1>3, <1>5 DEF Dynamical, Continuous
  <2>2. found.system = Continuous
    BY <1>1, <2>1 DEF SystemIsOfTheBlocks
  <2> QED
    BY <1>3, <1>5, <2>2 DEF Continuous
<1>6. CASE TimeOf(b).kind = "discrete"
  <2>1. b \in Timed
    BY <1>3, <1>6 DEF Timed
  <2> QED
    BY <1>1, <1>2, <1>3, <1>6, <2>1, OneTimeAndRate
<1> QED
  BY <1>4, <1>5, <1>6 DEF Discrete

LEMMA CompiledPartIsWhole ==
  ASSUME IsControlLoop(loop), RolesAreSound, NEW part \in Parts, NEW step,
         asked = Subsystem(part, step), CompileInv, pass = "compiled"
  PROVE  PartIsWhole(part)
<1>1. AskedIsADiagram /\ PortsAreDeclared /\ \A b \in Ids : InputsAreRight(b)
  BY DEF CompileInv, PassInv, AfterWires, AfterRates, AfterInputs, AfterDomains, AfterDelays, Ended
<1> SUFFICES ASSUME NEW b \in Members[part], NEW p \in 0..(loop.blocks[b].inputs - 1)
             PROVE  \/ Cardinality(Inside(part, b, p)) = 1 /\ Exposed(part, b, p) = {}
                    \/ /\ Inside(part, b, p) = {}
                       /\ {ref.channel : ref \in Exposed(part, b, p)} = 0..(InputWidth(b) - 1)
  BY DEF PartIsWhole
<1> USE DEF Inside, Exposed
<1> DEFINE inside  == Inside(part, b, p)
           exposed == Exposed(part, b, p)
           FedWire(f) == [source |-> SourceOf(part, f), sourcePort |-> 0,
                          target |-> f.block, targetPort |-> f.port]
<1>2. PICK x : {v \in Into(b) : v.targetPort = p} = {x}
  <2>1. b \in Ids /\ Block(b) = loop.blocks[b]
    BY BlocksOfSubsystem
  <2> QED
    BY <1>1, <2>1, PortsAreFed
<1>3. asked.wires = {w \in loop.wires : {w.source, w.target} \subseteq Members[part]}
                       \cup {FedWire(f) : f \in Fed(part)}
  BY DEF Subsystem
<1>4. inside \subseteq {x}
  BY <1>2, <1>3 DEF Into
<1>5. \A ref \in exposed : x.source \notin Members[part]
  <2> TAKE ref \in exposed
  <2>1. PICK f \in Fed(part) : f = [block |-> b, port |-> p]
    BY DEF Fed
  <2>2. FedWire(f) \in asked.wires /\ FedWire(f).target = b /\ FedWire(f).targetPort = p
    BY <1>3, <2>1
  <2>3. FedWire(f) = x
    BY <1>2, <2>2 DEF Into
  <2> QED
    BY <2>3, FedPorts
<1>6. CASE x \in loop.wires /\ {x.source, x.target} \subseteq Members[part]
  <2>1. x.target = b /\ x.targetPort = p
    BY <1>2 DEF Into
  <2>2. inside = {x} /\ exposed = {}
    BY <1>4, <1>5, <1>6, <2>1
  <2> HIDE DEF inside, exposed
  <2>3. Cardinality(inside) = 1
    BY <2>2, FS_Singleton
  <2> QED
    BY <2>2, <2>3 DEF inside, exposed
<1>7. CASE \E f \in Fed(part) : x = FedWire(f)
  <2>1. PICK f \in Fed(part) : x = FedWire(f)
    BY <1>7
  <2>2. f.block = b /\ f.port = p
    BY <1>2, <2>1 DEF Into
  <2>3. PICK ref \in Refs(Boundary[part]) : f = [block |-> ref.block, port |-> ref.port]
    BY DEF Fed
  <2>4. ref \in exposed
    BY <2>2, <2>3
  <2>5. inside = {}
    BY <1>4, <1>5, <2>4
  <2>6. /\ \A r \in Refs(Boundary[part]) : r \in Channel /\ IsInput(r)
        /\ InputWidth(b) \in Nat /\ ExposesPorts(part)
    <3>1. Boundary[part] \in Seq(Channel)
      BY PartsOfSoundRoles
    <3> QED
      BY <3>1, PartsOfSoundRoles, WidthsInTheLoop DEF Refs
  <2>7. \A r \in exposed : r.channel \in 0..(InputWidth(b) - 1)
    BY <2>6 DEF IsInput, Channel
  <2>8. \A c \in 0..(InputWidth(b) - 1) : \E r \in exposed : r.channel = c
    <3> TAKE c \in 0..(InputWidth(b) - 1)
    <3>1. [ref EXCEPT !.channel = c] \in Refs(Boundary[part])
      BY <2>4, <2>6 DEF ExposesPorts
    <3>2. ref \in Channel /\ ref.block = b /\ ref.port = p
      BY <2>4, <2>6
    <3>3. /\ [ref EXCEPT !.channel = c].channel = c
          /\ [ref EXCEPT !.channel = c].block = b /\ [ref EXCEPT !.channel = c].port = p
      BY <3>2 DEF Channel
    <3> QED
      BY <3>1, <3>3
  <2>9. {r.channel : r \in exposed} = 0..(InputWidth(b) - 1)
    BY <2>7, <2>8
  <2> QED
    BY <2>5, <2>9
<1>8. x \in asked.wires
  BY <1>2 DEF Into
<1> QED
  BY <1>3, <1>6, <1>7, <1>8

Working == {"plant", "controller", "assemble", "built"}
AfterPlant == Working \ {"plant"}
AfterBoth == {"assemble", "built"}

LoopInv ==
    /\ building # "idle" => IsControlLoop(loop)
    /\ building \in Working => RolesAreSound
    /\ building = "plant" => asked = Subsystem("plant", loop.step)
    /\ building = "controller" =>
         \E step \in Nat : asked = Subsystem("controller", step) /\ loop.step \in {0, step}
    /\ building \in AfterPlant => PartIsWhole("plant") /\ PartFits("plant", plant.system)
    /\ building \in AfterBoth =>
         /\ PartIsWhole("controller") /\ PartFits("controller", controller.system)
         /\ plant.system = controller.system

\* The pieces of a subsystem.
FedAs(part, b) == CHOOSE f \in Fed(part) : SourceOf(part, f) = b
SubBlocks(part) ==
    [b \in Members[part] \cup {SourceOf(part, f) : f \in Fed(part)} |->
        IF b \in Members[part] THEN loop.blocks[b]
        ELSE VectorConstant(InputWidth(FedAs(part, b).block))]
SubWires(part) ==
    {w \in loop.wires : {w.source, w.target} \subseteq Members[part]}
      \cup {[source |-> SourceOf(part, f), sourcePort |-> 0,
             target |-> f.block, targetPort |-> f.port] : f \in Fed(part)}

LEMMA LoopKept ==
  ASSUME loop' = loop
  PROVE  /\ RolesAreSound' = RolesAreSound
         /\ \A part : PartIsWhole(part)' = PartIsWhole(part)
         /\ \A part, system : PartFits(part, system)' = PartFits(part, system)
         /\ \A part, step : Subsystem(part, step)' = Subsystem(part, step)
<1>1. /\ Roles' = Roles /\ Members' = Members /\ Boundary' = Boundary /\ Watched' = Watched
      /\ Regulated' = Regulated /\ LoopWidths' = LoopWidths
  BY DEF Roles, Members, Boundary, Watched, Regulated, LoopWidths
<1>2. \A b : InputWidth(b)' = InputWidth(b) /\ OutputWidth(b)' = OutputWidth(b)
  BY <1>1 DEF InputWidth, OutputWidth
<1>3. \A part : /\ Fed(part)' = Fed(part)
                /\ \A f : SourceOf(part, f)' = SourceOf(part, f)
  BY <1>1 DEF Fed, SourceOf
<1>4. \A part : ChannelsResolve(part)' = ChannelsResolve(part) /\ ExposesPorts(part)' = ExposesPorts(part)
  BY <1>1, <1>2 DEF ChannelsResolve, ExposesPorts, IsInput, IsOutput
<1>5. \A location : IsDrawn(location)' = IsDrawn(location)
  BY <1>1 DEF IsDrawn, PairsAt
<1>6. \A members : AreBlocks(members)' = AreBlocks(members)
  BY DEF AreBlocks
<1>7. RolesAreSound' = RolesAreSound
  BY <1>1, <1>4, <1>5, <1>6 DEF RolesAreSound
<1>8. \A part : PartIsWhole(part)' = PartIsWhole(part)
  <2> TAKE part
  <2>1. \A b, p : Inside(part, b, p)' = Inside(part, b, p) /\ Exposed(part, b, p)' = Exposed(part, b, p)
    BY <1>1 DEF Inside, Exposed
  <2> QED
    BY <1>1, <1>2, <2>1 DEF PartIsWhole
<1>9. \A part, system : PartFits(part, system)' = PartFits(part, system)
  BY <1>1 DEF PartFits
<1>10. \A part, step : Subsystem(part, step)' = Subsystem(part, step)
  <2> TAKE part, step
  <2>1. /\ Members[part]' = Members[part] /\ Fed(part)' = Fed(part)
        /\ \A f : SourceOf(part, f)' = SourceOf(part, f)
    BY <1>1, <1>3
  <2>2. \A b : FedAs(part, b)' = FedAs(part, b)
    BY <2>1 DEF FedAs
  <2>3. SubBlocks(part)' = SubBlocks(part)
    BY <1>2, <2>1, <2>2 DEF SubBlocks
  <2>4. SubWires(part)' = SubWires(part)
    BY <2>1 DEF SubWires
  <2>5. {[block |-> ref.block, port |-> ref.port] : ref \in Refs(Watched[part])}'
           = {[block |-> ref.block, port |-> ref.port] : ref \in Refs(Watched[part])}
    BY <1>1
  <2> QED
    BY <2>3, <2>4, <2>5, Zenon DEF Subsystem, SubBlocks, SubWires, FedAs
<1> QED
  BY <1>7, <1>8, <1>9, <1>10

LEMMA CompileStutters == CompileInv /\ UNCHANGED compileVars => CompileInv'
<1> SUFFICES ASSUME CompileInv, UNCHANGED compileVars, pass # "idle" PROVE CompileInv'
  BY DEF CompileInv, compileVars
<1>1. AskedIsADiagram /\ PassInv(pass', found') /\ asked' = asked
  BY DEF CompileInv, compileVars
<1> QED
  BY <1>1, NextPass

LEMMA CompilingKeepsAsked == CompileStep => asked' = asked
  BY DEF CompileStep, CompilePass, CollectBlocks, ResolveSignalWidths, CheckWires,
     ResolveSampleTimes, CheckInputs, RealizeBlocks, ApplyTimeDomains, SelectOutputs,
     AttachExactDelays, ConnectByName, Simulate, Passes, GoesOn, Refuses

LEMMA LoopStutters == LoopInv /\ asked' = asked /\ UNCHANGED controlVars => LoopInv'
<1> SUFFICES ASSUME LoopInv, asked' = asked, UNCHANGED controlVars PROVE LoopInv'
  OBVIOUS
<1>1. loop' = loop /\ building' = building /\ plant' = plant /\ controller' = controller
  BY DEF controlVars
<1>2. \A part, step : (asked = Subsystem(part, step))' = (asked = Subsystem(part, step))
  BY <1>1, LoopKept
<1>3. PartFits("plant", plant.system)' = PartFits("plant", plant.system)
      /\ PartFits("controller", controller.system)' = PartFits("controller", controller.system)
  BY <1>1, LoopKept
<1> QED
  BY <1>1, <1>2, <1>3, LoopKept DEF LoopInv

LEMMA SystemRateIsANumber ==
  ASSUME CompileInv, pass = "compiled", found.system.kind = "discrete"
  PROVE  found.system.rate \in Nat
<1>1. AskedIsADiagram /\ RatesAreResolved(found) /\ SystemIsOfTheBlocks(found)
  BY DEF CompileInv, PassInv, AfterRates, AfterInputs, AfterDomains, AfterDelays, Ended
<1>2. PICK b \in Timed : found.system = Discrete(found.rates[b])
  BY <1>1 DEF SystemIsOfTheBlocks, Continuous
<1>3. found.system.rate = ResolvedRate(b)
  BY <1>1, <1>2 DEF RatesAreResolved, Discrete
<1>4. asked.step \in Nat /\ \A d \in Timed : TimeOf(d).rate \in Nat
  BY <1>1 DEF AskedIsADiagram, IsContract, Timed, TimeOf
<1> QED
  BY <1>3, <1>4, WhoseRate

LEMMA StartedPart ==
  ASSUME IsControlLoop(loop), RolesAreSound, NEW part \in Parts, NEW step \in Nat,
         Compiles(part, step), loop' = loop
  PROVE  CompileInv' /\ building' = part /\ (asked = Subsystem(part, step))'
<1>1. asked' = Subsystem(part, step) /\ pass' = "collect" /\ found' = NothingFound /\ building' = part
  BY DEF Compiles
<1>2. IsCompileRequest(asked')
  BY <1>1, SubsystemIsADiagram
<1>3. (asked = Subsystem(part, step))'
  BY <1>1, LoopKept
<1> QED
  BY <1>1, <1>2, <1>3, StartedPass

StudioBuilds == CompileInv /\ LoopInv

LEMMA GivenUp == StudioBuilds /\ building # "idle" /\ GivesUp => StudioBuilds'
<1> SUFFICES ASSUME StudioBuilds, building # "idle", GivesUp PROVE StudioBuilds'
  OBVIOUS
<1>1. CompileInv'
  BY CompileStutters DEF StudioBuilds, GivesUp
<1>2. IsControlLoop(loop)' /\ building' = "refused"
  BY DEF StudioBuilds, LoopInv, GivesUp
<1>3. LoopInv'
  BY <1>2 DEF LoopInv, Working, AfterPlant, AfterBoth
<1> QED
  BY <1>1, <1>3 DEF StudioBuilds

LEMMA ResolveRolesStep == StudioBuilds /\ ResolveRoles => StudioBuilds'
<1> SUFFICES ASSUME StudioBuilds, ResolveRoles PROVE StudioBuilds'
  OBVIOUS
<1>1. building = "roles" /\ IsControlLoop(loop)
  BY DEF StudioBuilds, LoopInv, ResolveRoles
<1>2. CASE GivesUp
  BY <1>1, <1>2, GivenUp
<1>3. CASE RolesAreSound /\ Compiles("plant", loop.step) /\ UNCHANGED <<loop, plant, controller>>
  <2>1. loop.step \in Nat /\ loop' = loop
    BY <1>1, <1>3 DEF IsControlLoop
  <2>2. CompileInv' /\ building' = "plant" /\ (asked = Subsystem("plant", loop.step))'
    BY <1>1, <1>3, <2>1, StartedPart, LoopKept DEF Parts
  <2>3. RolesAreSound' /\ IsControlLoop(loop)'
    BY <1>1, <1>3, <2>1, LoopKept
  <2>4. LoopInv'
    BY <2>2, <2>3 DEF LoopInv, Working, AfterPlant, AfterBoth
  <2> QED
    BY <2>2, <2>4 DEF StudioBuilds
<1> QED
  BY <1>2, <1>3 DEF ResolveRoles

LEMMA BuildControllerStep == StudioBuilds /\ BuildController => StudioBuilds'
<1> SUFFICES ASSUME StudioBuilds, BuildController PROVE StudioBuilds'
  OBVIOUS
<1>1. /\ building = "plant" /\ pass = "compiled" /\ CompileInv /\ IsControlLoop(loop)
      /\ RolesAreSound /\ asked = Subsystem("plant", loop.step) /\ loop' = loop
  BY DEF StudioBuilds, LoopInv, BuildController, Working
<1>2. PICK step \in Nat : loop.step \in {0, step} /\ Compiles("controller", step)
  <2> DEFINE rate == IF loop.step = 0 /\ found.system.kind = "discrete" /\ UsesInherited(Roles.controller)
                     THEN found.system.rate ELSE loop.step
  <2>1. rate \in Nat /\ loop.step \in {0, rate}
    BY <1>1, SystemRateIsANumber DEF IsControlLoop
  <2>2. Compiles("controller", rate)
    BY DEF BuildController
  <2> HIDE DEF rate
  <2> QED
    BY <2>1, <2>2
<1>3. plant' = [NoModel EXCEPT !.system = found.system]
  BY DEF BuildController
<1>4. CompileInv' /\ building' = "controller" /\ (asked = Subsystem("controller", step))'
  BY <1>1, <1>2, <1>3, StartedPart DEF Parts
<1>5. plant'.system = found.system
  BY <1>3 DEF NoModel
<1>6. PartIsWhole("plant") /\ PartFits("plant", found.system)
  BY <1>1, CompiledPartIsWhole, CompiledPartFits DEF Parts
<1>7. PartIsWhole("plant")' /\ PartFits("plant", plant.system)'
  BY <1>1, <1>5, <1>6, LoopKept
<1>8. RolesAreSound' /\ IsControlLoop(loop)'
  BY <1>1, LoopKept
<1>9. (\E s \in Nat : asked = Subsystem("controller", s) /\ loop.step \in {0, s})'
  BY <1>1, <1>2, <1>4
<1>10. LoopInv'
  BY <1>4, <1>7, <1>8, <1>9 DEF LoopInv, Working, AfterPlant, AfterBoth
<1> QED
  BY <1>4, <1>10 DEF StudioBuilds

LEMMA CloseLoopStep == StudioBuilds /\ CloseLoop => StudioBuilds'
<1> SUFFICES ASSUME StudioBuilds, CloseLoop PROVE StudioBuilds'
  OBVIOUS
<1>1. PICK step \in Nat :
      /\ building = "controller" /\ pass = "compiled" /\ CompileInv /\ IsControlLoop(loop)
      /\ RolesAreSound /\ asked = Subsystem("controller", step) /\ loop.step \in {0, step}
      /\ PartIsWhole("plant") /\ PartFits("plant", plant.system)
      /\ loop' = loop /\ plant' = plant /\ UNCHANGED compileVars
  BY DEF StudioBuilds, LoopInv, CloseLoop, Working, AfterPlant
<1>2. CompileInv'
  BY <1>1, CompileStutters
<1>3. PartIsWhole("controller") /\ PartFits("controller", found.system)
  BY <1>1, CompiledPartIsWhole, CompiledPartFits DEF Parts
<1> DEFINE neutral == plant.system.kind = "discrete" /\ UsesOnlyNeutral(Roles.controller)
           model   == [system  |-> IF neutral THEN plant.system ELSE found.system,
                       negated |-> Roles.references # << >> \/ Roles.signed]
<1>4. controller' = model /\ building' = IF model.system = plant.system THEN "assemble" ELSE "refused"
  BY DEF CloseLoop
<1>5. PartFits("controller", model.system)
  <2>1. CASE neutral
    <3>1. \A b \in Members["controller"] : loop.blocks[b].time = Neutral
      BY <2>1 DEF UsesOnlyNeutral, TimesIn, Members
    <3> QED
      BY <3>1 DEF PartFits, Neutral
  <2>2. CASE ~neutral
    BY <1>3, <2>2
  <2> QED
    BY <2>1, <2>2
<1> HIDE DEF model
<1>6. PartIsWhole("controller")' /\ PartFits("controller", controller.system)'
  BY <1>1, <1>3, <1>4, <1>5, LoopKept
<1>7. PartIsWhole("plant")' /\ PartFits("plant", plant.system)' /\ RolesAreSound' /\ IsControlLoop(loop)'
  BY <1>1, LoopKept
<1>8. building' \in {"assemble", "refused"}
      /\ (building' = "assemble" => plant'.system = controller'.system)
  BY <1>1, <1>4
<1>9. LoopInv'
  BY <1>6, <1>7, <1>8 DEF LoopInv, Working, AfterPlant, AfterBoth
<1> QED
  BY <1>2, <1>9 DEF StudioBuilds

LEMMA AssemblePointsStep == StudioBuilds /\ AssemblePoints => StudioBuilds'
<1> SUFFICES ASSUME StudioBuilds, AssemblePoints PROVE StudioBuilds'
  OBVIOUS
<1>1. /\ building = "assemble" /\ building' \in {"built", "refused"}
      /\ loop' = loop /\ plant' = plant /\ controller' = controller /\ UNCHANGED compileVars
  BY DEF AssemblePoints
<1>2. CompileInv'
  BY <1>1, CompileStutters DEF StudioBuilds
<1>3. /\ IsControlLoop(loop) /\ RolesAreSound
      /\ PartIsWhole("plant") /\ PartFits("plant", plant.system)
      /\ PartIsWhole("controller") /\ PartFits("controller", controller.system)
      /\ plant.system = controller.system
  BY <1>1 DEF StudioBuilds, LoopInv, Working, AfterPlant, AfterBoth
<1>4. /\ IsControlLoop(loop)' /\ RolesAreSound'
      /\ PartIsWhole("plant")' /\ PartFits("plant", plant.system)'
      /\ PartIsWhole("controller")' /\ PartFits("controller", controller.system)'
      /\ (plant.system = controller.system)'
  BY <1>1, <1>3, LoopKept
<1>5. LoopInv'
  BY <1>1, <1>4 DEF LoopInv, Working, AfterPlant, AfterBoth
<1> QED
  BY <1>2, <1>5 DEF StudioBuilds

LEMMA StopBuildingStep == StudioBuilds /\ StopBuilding => StudioBuilds'
  BY GivenUp DEF StopBuilding

LEMMA NoJobStands ==
  ASSUME CompileInit(NoJob)
  PROVE  CompileInv
  BY DEF CompileInit, CompileInv

LEMMA WiringsAreDiagrams ==
  ASSUME NEW blocks \in Diagrams, NEW request \in CompileRequests,
         NEW feeds \in [InputsOf(blocks) -> OutputsOf(blocks) \cup {NoPort}],
         CompileInit([blocks |-> blocks, wires |-> Wiring(feeds), sinks |-> request.sinks,
                      probes |-> request.probes, step |-> request.step])
  PROVE  CompileInv
<1>1. /\ asked.blocks = blocks /\ asked.wires = Wiring(feeds) /\ asked.step = request.step
      /\ pass \in {"idle", "collect"} /\ found = NothingFound
  BY DEF CompileInit
<1>2. IsDiagram(blocks) /\ request.step \in Nat
  BY DiagramsAssumption, RequestsAssumption
<1>3. /\ \A i \in InputsOf(blocks) : i.block \in DOMAIN blocks /\ i.port \in Nat
      /\ \A o \in OutputsOf(blocks) : o.block \in DOMAIN blocks /\ o.port \in Nat
  BY DEF InputsOf, OutputsOf, Ports
<1>4. \A w \in Wiring(feeds) : /\ w.source \in DOMAIN blocks /\ w.target \in DOMAIN blocks
                               /\ w.sourcePort \in Nat /\ w.targetPort \in Nat
  <2> TAKE w \in Wiring(feeds)
  <2>1. PICK i \in InputsOf(blocks) :
          /\ feeds[i] # NoPort
          /\ w = [source |-> feeds[i].block, sourcePort |-> feeds[i].port,
                  target |-> i.block, targetPort |-> i.port]
    BY DEF Wiring
  <2>2. feeds[i] \in OutputsOf(blocks)
    BY <2>1
  <2> QED
    BY <1>3, <2>1, <2>2
<1>5. AskedIsADiagram
  BY <1>1, <1>2, <1>4 DEF AskedIsADiagram, Ids, Block, IsDiagram
<1>6. PassInv(pass, found)
  BY <1>1 DEF PassInv, IsFound, NothingFound, AfterWidths, AfterWires, AfterRates, AfterInputs,
     AfterDomains, AfterDelays, Ended
<1> QED
  BY <1>5, <1>6 DEF CompileInv

LEMMA InitEstablishesStudioBuilds == StudioInit => StudioBuilds
<1> SUFFICES ASSUME StudioInit PROVE StudioBuilds
  OBVIOUS
<1>1. CompileInv
  <2>1. CASE CompileInit(NoJob)
    BY <2>1, NoJobStands
  <2>2. CASE CompilesOnly
    BY <2>2, WiringsAreDiagrams DEF CompilesOnly
  <2> QED
    BY <2>1, <2>2 DEF StudioInit, StoresOnly, PlansOnly, ControlsOnly, SweepsOnly
<1>2. LoopInv
  <2>1. CASE ControlInit(NoLoop)
    BY <2>1 DEF ControlInit, LoopInv, Working, AfterPlant, AfterBoth
  <2>2. CASE ControlsOnly
    <3>1. PICK request \in ControlLoops : ControlInit(request)
      BY <2>2 DEF ControlsOnly
    <3> QED
      BY <3>1, LoopsAssumption DEF ControlInit, LoopInv, Working, AfterPlant, AfterBoth
  <2> QED
    BY <2>1, <2>2 DEF StudioInit, StoresOnly, PlansOnly, CompilesOnly, SweepsOnly
<1> QED
  BY <1>1, <1>2 DEF StudioBuilds

LEMMA StudioKeepsBuilds == StudioBuilds /\ [StudioNext]_studioVars => StudioBuilds'
<1> SUFFICES ASSUME StudioBuilds, [StudioNext]_studioVars PROVE StudioBuilds'
  OBVIOUS
<1>1. CASE UNCHANGED <<compileVars, controlVars>>
  <2>1. CompileInv' /\ asked' = asked
    BY <1>1, CompileStutters DEF StudioBuilds, compileVars
  <2> QED
    BY <1>1, <2>1, LoopStutters DEF StudioBuilds
<1>2. CASE CompileStep /\ UNCHANGED controlVars
  BY <1>2, CompilePassStep, CompilingKeepsAsked, LoopStutters DEF StudioBuilds
<1>3. CASE ControlStep
  BY <1>3, ResolveRolesStep, BuildControllerStep, CloseLoopStep, StopBuildingStep,
     AssemblePointsStep DEF ControlStep
<1>4. \/ UNCHANGED <<compileVars, controlVars>>
      \/ CompileStep /\ UNCHANGED controlVars
      \/ ControlStep
  <2>1. CASE UNCHANGED studioVars
    BY <2>1 DEF studioVars, calculationVars
  <2>2. CASE StudioNext
    BY <2>2 DEF StudioNext, Stored, Plans, Converts, Builds, Analyses, calculationVars,
       CompileStep, CompilePass, ControlStep
  <2> QED
    BY <2>1, <2>2
<1> QED
  BY <1>1, <1>2, <1>3, <1>4

LEMMA BuiltModels == StudioBuilds => ControlModelsAreOfTheFlowsheet
<1> SUFFICES ASSUME StudioBuilds, building = "built" PROVE ControlModelsAreOfTheFlowsheet
  BY DEF ControlModelsAreOfTheFlowsheet
<1>1. /\ PartIsWhole("plant") /\ PartFits("plant", plant.system)
      /\ PartIsWhole("controller") /\ PartFits("controller", controller.system)
      /\ plant.system = controller.system
  BY DEF StudioBuilds, LoopInv, AfterPlant, AfterBoth, Working
<1>2. \A b \in Roles.plant \cup Roles.controller :
              LET time == loop.blocks[b].time
              IN  time.kind # "neutral" =>
                    /\ time.kind = plant.system.kind
                    /\ time.rate \in {Inherited, plant.system.rate}
                    /\ time.kind = "discrete" => loop.step \in {0, plant.system.rate}
  BY <1>1 DEF PartFits, Members
<1>3. \A part \in {"plant", "controller"} : PartIsWhole(part)
  BY <1>1
<1> QED
  BY <1>1, <1>2, <1>3 DEF ControlModelsAreOfTheFlowsheet, PartIsWhole, Inside, Exposed

LEMMA StudioBuildsAlways == StudioSpec => []StudioBuilds
  BY InitEstablishesStudioBuilds, StudioKeepsBuilds, PTL DEF StudioSpec

(***************************************************************************)
(* What compiling a diagram and building control models promises           *)
(***************************************************************************)
\* Whatever is compiled, for whatever diagrams and requests: a compiled model has its wires,
\* its rate and its delays, and a compilation refused for its rates had no common one.
THEOREM CompiledModelsAreRight == StudioSpec => []CompiledModelsAreTheDiagram
<1>1. StudioBuilds => CompiledModelsAreTheDiagram
  BY CompiledModels DEF StudioBuilds
<1> QED
  BY <1>1, StudioBuildsAlways, PTL

\* Whatever flowsheet and roles they are built from, plant and controller run on one clock
\* that suits the blocks of both, and no input of theirs is left open or fed twice.
THEOREM ControlModelsAreRight == StudioSpec => []ControlModelsAreOfTheFlowsheet
  BY BuiltModels, StudioBuildsAlways, PTL

(***************************************************************************)
(* Plans                                                                   *)
(***************************************************************************)
LEMMA InitEstablishesPlanInv == StudioInit => PlanInv
<1> SUFFICES ASSUME StudioInit PROVE PlanInv
  OBVIOUS
<1>1. CASE PlanInit(Nobody)
  <2>1. IsFiniteSet({})
    BY FS_EmptySet
  <2>2. IsNet(Nobody)
    BY <2>1 DEF IsNet, Nobody
  <2> QED
    BY <1>1, <2>2, PlanStarts
<1>2. CASE PlansOnly
  <2>1. PICK graph \in PlanGraphs : PlanInit(graph)
    BY <1>2 DEF PlansOnly
  <2> QED
    BY <2>1, PlansAssumption, PlanStarts
<1> QED
  BY <1>1, <1>2 DEF StudioInit, StoresOnly, CompilesOnly, ControlsOnly, SweepsOnly

LEMMA StudioKeepsPlanInv == PlanInv /\ [StudioNext]_studioVars => PlanInv'
<1> SUFFICES ASSUME PlanInv, [StudioNext]_studioVars PROVE PlanInv'
  OBVIOUS
<1>1. CASE UNCHANGED studioVars
  <2>1. UNCHANGED planVars
    BY <1>1 DEF studioVars, calculationVars
  <2> QED
    BY <2>1, PlanKept
<1>2. CASE StudioNext
  <2>1. PlanStep \/ UNCHANGED planVars
    BY <1>2 DEF StudioNext, Stored, Plans, Converts, Builds, Analyses, calculationVars, PlanStep
  <2> QED
    BY <2>1, PlanKept, PlanSteps
<1> QED
  BY <1>1, <1>2

\* Whatever diagram is planned, the plan runs each block once and after what feeds it, in no
\* more depths than its steps ask for, and it is refused for a step in a cycle only.
THEOREM PlansAreRight == StudioSpec => []PlansAreSchedules
  BY InitEstablishesPlanInv, StudioKeepsPlanInv, PlansAreInOrder, PTL DEF StudioSpec

(***************************************************************************)
(* The catalog                                                             *)
(***************************************************************************)
Clocks == {Neutral, Continuous} \cup {Discrete(rate) : rate \in Nat}

LEMMA ClocksKeepTheirShape ==
  ASSUME NEW time \in Clocks
  PROVE  time.rate \in Nat /\ time \in {Neutral, Continuous, Discrete(time.rate)}
  BY DEF Clocks, Neutral, Continuous, Discrete, Inherited

LEMMA ClocksExist ==
  /\ Neutral \in Clocks /\ Continuous \in Clocks
  /\ \A rate \in Nat : Discrete(rate) \in Clocks
  BY DEF Clocks

LEMMA DynamicIsContract ==
  ASSUME NEW states, NEW time \in Clocks, NEW direct
  PROVE  /\ IsContract(Dynamic(states, time, direct))
         /\ Dynamic(states, time, direct) =
              [Definition EXCEPT !.states = states, !.time = time, !.direct = direct]
  BY ClocksKeepTheirShape DEF Dynamic, Definition, IsContract

LEMMA NamedIsContract ==
  ASSUME NEW states, NEW inputs \in Nat, NEW outputs \in Nat, NEW time \in Clocks, NEW direct
  PROVE  IsContract(Named(states, inputs, outputs, time, direct))
  BY ClocksKeepTheirShape DEF Named, Of, Dynamic, Definition, IsContract

\* What Calculations assumes of the blocks of a diagram every kind of the catalog keeps,
\* with any parameters the editor stores.
THEOREM KindsAreContracts ==
  /\ \A kind \in {Constant, Sine, Scope, Spectrum, Lag, Integrator} : IsContract(kind)
  /\ \A width \in Nat : \A kind \in {VectorConstant(width), VectorScope(width), Gain(width),
                                     Mux(width), Demux(width), Permutation(width)} : IsContract(kind)
  /\ \A rows, columns \in Nat : \A kind \in {MatrixGain(rows, columns), Selector(rows, columns)} :
        IsContract(kind)
  /\ \A signs \in Nat \ {0}, width \in Nat : \A kind \in {Sum(signs, width), VectorSum(signs, width)} :
        IsContract(kind)
  /\ \A states \in Nat, time \in Clocks : \A kind \in {PID(time, states), PID2(time, states)} :
        IsContract(kind)
  /\ \A order \in Nat, rate \in Nat, direct \in BOOLEAN :
        \A kind \in {Transfer(order, direct), PadeDelay(order), DiscreteTransfer(order, rate, direct),
                     DiscretizedTransfer(order, rate, direct)} : IsContract(kind)
  /\ \A delay \in Nat, history \in BOOLEAN : IsContract(ExactDelay(delay, history))
  /\ \A delay \in Nat, order \in Nat \ {0}, rate \in Nat : IsContract(ThiranDelay(delay, order, rate))
  /\ \A width, initial, rate \in Nat : IsContract(UnitDelay(width, initial, rate))
  /\ \A states, inputs, outputs \in Nat, time \in Clocks, direct \in BOOLEAN :
        \A kind \in {StateSpace(states, inputs, outputs, time, direct),
                     MIMOTransfer(states, inputs, outputs, time, direct),
                     ZPK(states, inputs, outputs, time, direct), FRD(inputs, outputs, time)} :
           IsContract(kind)
  /\ \A states, inputs, outputs, rate \in Nat, direct \in BOOLEAN :
        IsContract(DiscreteStateSpace(states, inputs, outputs, rate, direct))
<1>1. /\ IsContract(Constant) /\ IsContract(Sine) /\ IsContract(Scope) /\ IsContract(Spectrum)
  <2>1. IsContract(Source)
    BY DEF Source, IsContract, Definition, Neutral, Inherited
  <2>2. IsContract(Scope)
    BY DEF Scope, IsContract, Definition, Neutral, Inherited
  <2> QED
    BY <2>1, <2>2 DEF Constant, Sine, Spectrum
<1>2. IsContract(Lag) /\ IsContract(Integrator)
  BY ClocksExist, DynamicIsContract DEF Lag, Integrator
<1>3. \A width \in Nat : IsContract(VectorConstant(width)) /\ IsContract(VectorScope(width))
  BY DEF VectorConstant, VectorScope, Source, Scope, IsContract, Definition, Neutral, Inherited
<1>4. \A width \in Nat : IsContract(Gain(width)) /\ IsContract(Mux(width)) /\ IsContract(Demux(width))
  BY DEF Gain, Direct, Of, Mux, Demux, IsContract, Definition, Neutral, Inherited
<1>5. \A rows, columns \in Nat : /\ IsContract(MatrixGain(rows, columns))
                                 /\ IsContract(Selector(rows, columns))
  BY DEF MatrixGain, Selector, Of, IsContract, Definition, Neutral, Inherited
<1>6. \A width \in Nat : IsContract(Permutation(width))
  BY <1>5 DEF Permutation
<1>7. \A signs \in Nat \ {0}, width \in Nat :
        IsContract(Sum(signs, width)) /\ IsContract(VectorSum(signs, width))
  <2> TAKE signs \in Nat \ {0}, width \in Nat
  <2>1. IsContract(Sum(signs, width))
    <3>1. Sum(signs, width).every = (signs > 1)
      BY DEF Sum, Of, Definition
    <3>2. signs = 1 \/ signs > 1
      OBVIOUS
    <3>3. signs = 1 \/ Sum(signs, width).every
      BY <3>1, <3>2
    <3>4. /\ Sum(signs, width).role = "dynamic" /\ Sum(signs, width).variadic
          /\ Sum(signs, width).inputs = signs
      BY DEF Sum, Of, Definition
    <3> QED
      BY <3>3, <3>4 DEF Sum, Of, IsContract, Definition, Neutral, Inherited
  <2> QED
    BY <2>1 DEF VectorSum
<1>8. \A states \in Nat, time \in Clocks : IsContract(PID(time, states))
  BY DynamicIsContract DEF PID
<1>9. \A states \in Nat, time \in Clocks : IsContract(PID2(time, states))
  BY ClocksKeepTheirShape DEF PID2, Dynamic, Definition, IsContract
<1>10. \A order \in Nat, rate \in Nat, direct \in BOOLEAN :
         \A kind \in {Transfer(order, direct), PadeDelay(order), DiscreteTransfer(order, rate, direct),
                      DiscretizedTransfer(order, rate, direct)} : IsContract(kind)
  <2> TAKE order \in Nat, rate \in Nat, direct \in BOOLEAN
  <2>1. Continuous \in Clocks /\ Discrete(rate) \in Clocks
    BY ClocksExist
  <2>2. /\ IsContract(Dynamic(order, Continuous, direct)) /\ IsContract(Dynamic(order, Continuous, TRUE))
        /\ IsContract(Dynamic(order, Discrete(rate), direct))
    BY <2>1, DynamicIsContract
  <2> QED
    BY <2>2 DEF Transfer, PadeDelay, DiscreteTransfer, DiscretizedTransfer
<1>11. \A delay \in Nat, history \in BOOLEAN : IsContract(ExactDelay(delay, history))
  <2> TAKE delay \in Nat, history \in BOOLEAN
  <2>1. PICK states, direct : ExactDelay(delay, history) =
                                [Dynamic(states, Continuous, direct) EXCEPT !.delay = delay]
    BY DEF ExactDelay
  <2> QED
    BY <2>1 DEF Dynamic, Continuous, IsContract, Definition, Neutral, Inherited
<1>12. \A delay \in Nat, order \in Nat \ {0}, rate \in Nat : IsContract(ThiranDelay(delay, order, rate))
  <2> TAKE delay \in Nat, order \in Nat \ {0}, rate \in Nat
  <2>1. PICK slowest : ThiranDelay(delay, order, rate) =
                         [Dynamic(order, Discrete(rate), TRUE) EXCEPT !.slowest = slowest]
    BY DEF ThiranDelay
  <2> QED
    BY <2>1 DEF Dynamic, Discrete, IsContract, Definition, Neutral, Inherited
<1>13. \A width, initial, rate \in Nat : IsContract(UnitDelay(width, initial, rate))
  BY DEF UnitDelay, Direct, Of, Discrete, IsContract, Definition, Neutral, Inherited
<1>14. \A states, inputs, outputs \in Nat, time \in Clocks, direct \in BOOLEAN :
         /\ IsContract(StateSpace(states, inputs, outputs, time, direct))
         /\ IsContract(MIMOTransfer(states, inputs, outputs, time, direct))
         /\ IsContract(ZPK(states, inputs, outputs, time, direct))
  BY NamedIsContract DEF StateSpace, MIMOTransfer, ZPK
<1>15. \A inputs, outputs \in Nat, time \in Clocks : IsContract(FRD(inputs, outputs, time))
  <2> TAKE inputs \in Nat, outputs \in Nat, time \in Clocks
  <2> QED
    BY ClocksKeepTheirShape DEF FRD, Named, Of, Dynamic, Definition, IsContract
<1>16. \A states, inputs, outputs, rate \in Nat, direct \in BOOLEAN :
         IsContract(DiscreteStateSpace(states, inputs, outputs, rate, direct))
  BY NamedIsContract, ClocksExist DEF DiscreteStateSpace
<1>17. \A states, inputs, outputs \in Nat, time \in Clocks, direct \in BOOLEAN :
         \A kind \in {StateSpace(states, inputs, outputs, time, direct),
                      MIMOTransfer(states, inputs, outputs, time, direct),
                      ZPK(states, inputs, outputs, time, direct), FRD(inputs, outputs, time)} :
            IsContract(kind)
  <2> TAKE states, inputs, outputs \in Nat, time \in Clocks, direct \in BOOLEAN
  <2>1. IsContract(FRD(inputs, outputs, time))
    BY <1>15
  <2> QED
    BY <1>14, <2>1, Zenon
<1>18. \A states \in Nat, time \in Clocks : \A kind \in {PID(time, states), PID2(time, states)} :
         IsContract(kind)
  BY <1>8, <1>9, Zenon
<1>19. \A width \in Nat : \A kind \in {VectorConstant(width), VectorScope(width), Gain(width),
                                       Mux(width), Demux(width), Permutation(width)} : IsContract(kind)
  BY <1>3, <1>4, <1>6, Zenon
<1>20. \A kind \in {Constant, Sine, Scope, Spectrum, Lag, Integrator} : IsContract(kind)
  BY <1>1, <1>2, Zenon
<1>21. \A rows, columns \in Nat : \A kind \in {MatrixGain(rows, columns), Selector(rows, columns)} :
         IsContract(kind)
  BY <1>5, Zenon
<1>22. \A signs \in Nat \ {0}, width \in Nat : \A kind \in {Sum(signs, width), VectorSum(signs, width)} :
         IsContract(kind)
  BY <1>7, Zenon
<1> QED
  BY <1>10, <1>11, <1>12, <1>13, <1>16, <1>17, <1>18, <1>19, <1>20, <1>21, <1>22, Zenon
=============================================================================
