-------------------------- MODULE JobEngineProofs ---------------------------
(***************************************************************************)
(* JobEngine keeps its types, and a RUNNING row of a live worker has a     *)
(* task, for any number of jobs, workers, tasks, clients and stages, any   *)
(* pattern of rivals, and any bounds on faults.                            *)
(***************************************************************************)
EXTENDS JobEngine, TLAPS

-----------------------------------------------------------------------------
(* Rows *)

\* Every operation of JobStore maps rows to rows.
LEMMA RowOperations ==
    ASSUME NEW row \in Row, NEW i \in 0 .. NStages, NEW sel \in SUBSET Stages
    PROVE  /\ EnsureSteps(row) \in Row
           /\ ResetForRetry(row, sel) \in Row
           /\ RequestCancel(row) \in Row
           /\ StageStarted(row, i) \in Row
           /\ \A o \in OutcomeStatuses : StageFinished(row, i, o) \in Row
           /\ HandleFailure(row, i) \in Row
           /\ FinalizeSuccess(row) \in Row
           /\ ApplyCancellation(row) \in Row
           /\ FailBeforePipeline(row) \in Row
           /\ Interrupted(row) \in Row
           /\ MediaReleased(row) \in Row
<1>1. EnsureSteps(row) \in Row
  BY DEF EnsureSteps, Row, StepStatuses
<1>2. ResetForRetry(row, sel) \in Row
  BY DEF ResetForRetry, Row, StepStatuses, JobStatuses
<1>3. RequestCancel(row) \in Row
  BY DEF RequestCancel, StepsCancelled, Row, StepStatuses, JobStatuses
<1>4. StageStarted(row, i) \in Row
  BY DEF StageStarted, Row, StepStatuses
<1>5. \A o \in OutcomeStatuses : StageFinished(row, i, o) \in Row
  BY DEF StageFinished, Row, StepStatuses, OutcomeStatuses
<1>6. HandleFailure(row, i) \in Row
  BY DEF HandleFailure, Row, StepStatuses, JobStatuses
<1>7. FinalizeSuccess(row) \in Row
  BY DEF FinalizeSuccess, Row, JobStatuses
<1>8. ApplyCancellation(row) \in Row
  BY DEF ApplyCancellation, StepsCancelled, Row, StepStatuses, JobStatuses
<1>9. FailBeforePipeline(row) \in Row
  BY DEF FailBeforePipeline, StepsCancelled, Row, StepStatuses, JobStatuses
<1>10. Interrupted(row) \in Row
  BY DEF Interrupted, Row, StepStatuses, JobStatuses
<1>11. MediaReleased(row) \in Row
  BY DEF MediaReleased, Row, StepStatuses
<1>. QED  BY <1>1, <1>2, <1>3, <1>4, <1>5, <1>6, <1>7, <1>8, <1>9, <1>10, <1>11

\* So do the cancellation of the service, the claim, and the two fixed rows.
LEMMA RowsOfTheQueue ==
    /\ AbsentRow \in Row
    /\ InsertedRow \in Row
    /\ \A row \in Row : CancelJob(row) \in Row
    /\ \A row \in Row, w \in Workers : ClaimedRow(row, w) \in Row
<1>1. AbsentRow \in Row
  BY DEF AbsentRow, Row, StepStatuses, JobStatuses
<1>2. InsertedRow \in Row
  BY <1>1 DEF InsertedRow, Row, JobStatuses
<1>3. \A row \in Row : CancelJob(row) \in Row
  BY RowOperations, StageAssumption DEF CancelJob, Row, JobStatuses
<1>4. \A row \in Row, w \in Workers : ClaimedRow(row, w) \in Row
  BY DEF ClaimedRow, Row, JobStatuses
<1>. QED  BY <1>1, <1>2, <1>3, <1>4

\* A commit leaves a row.
LEMMA FlushRow ==
    ASSUME NEW db \in Row, NEW a \in Row, NEW b \in Row
    PROVE  Flush(db, a, b) \in Row
BY DEF Flush, Changed, Row

-----------------------------------------------------------------------------
(* Types *)

\* The values tasks, slots and requests start from.
LEMMA InitialValues ==
    /\ AnyJob \in Jobs
    /\ IdleRun \in RunType
    /\ NoRequest \in RequestType
    /\ \A pc \in Pcs, w \in Workers \cup {NoWorker}, j \in Jobs, row \in Row :
           NewRun(pc, w, j, row) \in RunType
<1>1. AnyJob \in Jobs
  BY EngineAssumption DEF AnyJob
<1>2. IdleRun \in RunType
  BY <1>1, RowsOfTheQueue, StageAssumption DEF IdleRun, RunType, Pcs, TaskPcs, PipelinePcs
<1>3. NoRequest \in RequestType
  BY <1>1, RowsOfTheQueue DEF NoRequest, RequestType
<1>4. ASSUME NEW pc \in Pcs, NEW w \in Workers \cup {NoWorker}, NEW j \in Jobs, NEW row \in Row
      PROVE  NewRun(pc, w, j, row) \in RunType
  BY <1>2 DEF NewRun, RunType
<1>. QED  BY <1>1, <1>2, <1>3, <1>4

\* Committing a session keeps the type of the table.
LEMMA CommitType ==
    ASSUME TypeOK, NEW c \in Runs, NEW row \in Row, Commit(c, row)
    PROVE  job' \in [Jobs -> Row]
<1>1. run[c].j \in Jobs /\ run[c].base \in Row
  BY DEF TypeOK, RunType
<1>2. Flush(job[run[c].j], run[c].base, row) \in Row
  BY <1>1, FlushRow DEF TypeOK
<1>. QED  BY <1>1, <1>2 DEF TypeOK, Commit

\* The retry and cancel requests keep the type of the database.
LEMMA ApiEffectType ==
    ASSUME TypeOK, NEW j \in Jobs, NEW row \in Row, NEW sel \in SUBSET Stages,
           RetryEffect(j, row, sel) \/ CancelEffect(j, row)
    PROVE  /\ job' \in [Jobs -> Row]
           /\ stale' \subseteq Jobs
           /\ ahead' \in [Jobs -> SUBSET Jobs]
<1>1. /\ Flush(job[j], row, ResetForRetry(row, sel)) \in Row
      /\ Flush(job[j], row, CancelJob(row)) \in Row
  BY RowOperations, RowsOfTheQueue, FlushRow, StageAssumption DEF TypeOK
<1>2. ToBack(j) \in [Jobs -> SUBSET Jobs]
  BY DEF ToBack, TypeOK
<1>. QED  BY <1>1, <1>2 DEF RetryEffect, CancelEffect, TypeOK, dbVars

\* Steps of the API keep the types.
LEMMA ApiType ==
    ASSUME TypeOK, ApiStep \/ \E r \in Clients : ApiCommits(r)
    PROVE  TypeOK'
<1>1. \A j \in Jobs : Selections(job[j]) \subseteq SUBSET Stages
  BY DEF Selections
<1>2. ASSUME NEW j \in Jobs, Submit(j) PROVE TypeOK'
  BY <1>2, RowsOfTheQueue DEF Submit, ToBack, TypeOK, workerVars, faultVars
<1>3. ASSUME NEW j \in Jobs, RetryNow(j) PROVE TypeOK'
  BY <1>1, <1>3, ApiEffectType DEF RetryNow, TypeOK, workerVars, faultVars
<1>4. ASSUME NEW j \in Jobs, CancelNow(j) PROVE TypeOK'
  BY <1>4, ApiEffectType DEF CancelNow, TypeOK, workerVars, faultVars
<1>5. ASSUME NEW r \in Clients, NEW j \in Jobs, RetryRead(r, j) PROVE TypeOK'
  BY <1>1, <1>5 DEF RetryRead, TypeOK, RequestType, dbVars, workerVars, faultVars
<1>6. ASSUME NEW r \in Clients, NEW j \in Jobs, CancelRead(r, j) PROVE TypeOK'
  BY <1>6 DEF CancelRead, TypeOK, RequestType, dbVars, workerVars, faultVars
<1>7. \A r \in Clients : req[r].j \in Jobs /\ req[r].row \in Row /\ req[r].sel \in SUBSET Stages
  BY DEF TypeOK, RequestType
<1>8. ASSUME NEW r \in Clients, RetryCommit(r) PROVE TypeOK'
  BY <1>7, <1>8, ApiEffectType, InitialValues DEF RetryCommit, TypeOK, workerVars, faultVars
<1>9. ASSUME NEW r \in Clients, CancelCommit(r) PROVE TypeOK'
  BY <1>7, <1>9, ApiEffectType, InitialValues DEF CancelCommit, TypeOK, workerVars, faultVars
<1>. QED  BY <1>2, <1>3, <1>4, <1>5, <1>6, <1>8, <1>9 DEF ApiStep, ApiCommits

\* Ending a task, and winding it down, keep the types of slots and keys.
LEMMA EndTaskType ==
    ASSUME TypeOK, NEW c \in Runs
    PROVE  /\ EndTask(c) => /\ run' \in [Runs -> RunType]
                            /\ tasks' \in [Workers -> SUBSET Jobs]
           /\ WindDown(c) => run' \in [Runs -> RunType]
<1>1. run[c].w \in Workers \cup {NoWorker} /\ run[c].j \in Jobs
  BY DEF TypeOK, RunType
<1>2. NewRun("ending", run[c].w, run[c].j, AbsentRow) \in RunType
  BY <1>1, InitialValues, RowsOfTheQueue DEF Pcs, TaskPcs
<1>. QED  BY <1>2, InitialValues DEF EndTask, WindDown, TypeOK

\* The steps of a task up to its pipeline keep the types.
LEMMA TaskStartType ==
    ASSUME TypeOK, NEW c \in Runs,
           \/ Load(c) \/ TaskDies(c) \/ Ready(c) \/ ContextFails(c) \/ FailBefore(c)
           \/ PipelineError(c) \/ TaskDone(c)
    PROVE  TypeOK'
<1> USE DEF dbVars, workerVars, faultVars
<1>0. run[c] \in RunType /\ run[c].j \in Jobs /\ job[run[c].j] \in Row
  BY DEF TypeOK, RunType
<1>1. CASE Load(c)
  <2>1. EnsureSteps(job[run[c].j]) \in Row
    BY <1>0, RowOperations, StageAssumption
  <2>2. run' \in [Runs -> RunType] /\ tasks' \in [Workers -> SUBSET Jobs]
    BY <1>0, <1>1, <2>1, EndTaskType DEF Load, TypeOK, RunType, Pcs, TaskPcs, PipelinePcs
  <2>. QED  BY <1>1, <2>2 DEF Load, TypeOK
<1>2. CASE TaskDies(c)
  BY <1>0, <1>2, EndTaskType, EngineAssumption DEF TaskDies, TypeOK
<1>3. CASE Ready(c)
  <2>1. run[c].row \in Row
    BY <1>0 DEF RunType
  <2>2. job' \in [Jobs -> Row]
    BY <1>3, <2>1, CommitType DEF Ready
  <2>. QED  BY <1>0, <1>3, <2>1, <2>2 DEF Ready, TypeOK, RunType, Pcs, TaskPcs, PipelinePcs
<1>4. CASE ContextFails(c)
  BY <1>0, <1>4 DEF ContextFails, Goto, TypeOK, RunType, Pcs, TaskPcs
<1>5. CASE FailBefore(c)
  <2>1. FailBeforePipeline(run[c].row) \in Row
    BY <1>0, RowOperations, StageAssumption DEF RunType
  <2>2. job' \in [Jobs -> Row]
    BY <1>5, <2>1, CommitType DEF FailBefore
  <2>. QED  BY <1>5, <2>2, EndTaskType DEF FailBefore, TypeOK
<1>6. CASE PipelineError(c)
  <2>1. run' \in [Runs -> RunType]
    BY <1>0, <1>6 DEF PipelineError, TypeOK, RunType, Pcs, TaskPcs
  <2>2. errors' \in 0 .. MaxErrors
    BY <1>6, EngineAssumption DEF PipelineError, TypeOK
  <2>. QED  BY <1>6, <2>1, <2>2 DEF PipelineError, TypeOK
<1>7. CASE TaskDone(c)
  BY <1>7, EndTaskType DEF TaskDone, TypeOK
<1>. QED  BY <1>1, <1>2, <1>3, <1>4, <1>5, <1>6, <1>7

\* The steps of the pipeline keep the types.
LEMMA PipelineType ==
    ASSUME TypeOK, NEW c \in Runs,
           \/ Refresh(c) \/ StartStage(c) \/ AttachMedia(c) \/ CleanupMedia(c)
           \/ \E outcome \in Outcomes : StageOk(c, outcome)
           \/ StageFails(c) \/ StageCancelled(c)
           \/ Release(c) \/ CommitFailure(c) \/ CommitCancellation(c) \/ Finalize(c)
    PROVE  TypeOK'
<1> USE DEF dbVars, workerVars, faultVars
<1>0. /\ run[c] \in RunType /\ run[c].j \in Jobs /\ job[run[c].j] \in Row
      /\ run[c].row \in Row /\ run[c].base \in Row /\ run[c].i \in 0 .. NStages
  BY DEF TypeOK, RunType
<1>1. CASE Refresh(c)
  <2>1. PICK s \in Todo(c) : run' =
             [run EXCEPT ![c].base = job[run[c].j], ![c].row = job[run[c].j],
                 ![c].pc = IF CancelSeen(job[run[c].j]) THEN "cancelling" ELSE "starting",
                 ![c].i = IF CancelSeen(job[run[c].j]) THEN 0 ELSE s]
    BY <1>1 DEF Refresh
  <2>2. (IF CancelSeen(job[run[c].j]) THEN 0 ELSE s) \in 0 .. NStages
    BY StageAssumption DEF Todo, Stages
  <2>3. (IF CancelSeen(job[run[c].j]) THEN "cancelling" ELSE "starting") \in Pcs
    BY DEF Pcs, TaskPcs, PipelinePcs
  <2>4. run' \in [Runs -> RunType]
    BY <1>0, <2>1, <2>2, <2>3 DEF TypeOK, RunType
  <2>. QED  BY <1>1, <2>4 DEF Refresh, TypeOK
<1>2. CASE StartStage(c)
  <2>1. StageStarted(run[c].row, run[c].i) \in Row
    BY <1>0, RowOperations
  <2>2. job' \in [Jobs -> Row]
    BY <1>2, <2>1, CommitType DEF StartStage
  <2>. QED  BY <1>0, <1>2, <2>1, <2>2 DEF StartStage, TypeOK, RunType, Pcs, TaskPcs, PipelinePcs
<1>3. CASE AttachMedia(c)
  BY <1>0, <1>3 DEF AttachMedia, TypeOK, RunType
<1>4. CASE CleanupMedia(c)
  <2>1. [run[c].row EXCEPT !.removed = TRUE] \in Row
    BY <1>0 DEF Row
  <2>2. run' = [run EXCEPT ![c] = [@ EXCEPT !.eff = TRUE, !.row = [run[c].row EXCEPT !.removed = TRUE]]]
    BY <1>4, <1>0 DEF CleanupMedia, TypeOK, RunType
  <2>3. run' \in [Runs -> RunType]
    BY <1>0, <2>1, <2>2 DEF TypeOK, RunType
  <2>. QED  BY <1>4, <2>3 DEF CleanupMedia, TypeOK
<1>5. ASSUME NEW outcome \in Outcomes, StageOk(c, outcome) PROVE TypeOK'
  <2>1. StageFinished(run[c].row, run[c].i, outcome) \in Row
    BY <1>0, RowOperations, EngineAssumption
  <2>2. job' \in [Jobs -> Row]
    BY <1>5, <2>1, CommitType DEF StageOk
  <2>. QED  BY <1>0, <1>5, <2>1, <2>2 DEF StageOk, TypeOK, RunType, Pcs, TaskPcs, PipelinePcs
<1>6. CASE StageFails(c)
  <2>1. HandleFailure(run[c].row, run[c].i) \in Row
    BY <1>0, RowOperations
  <2>. QED  BY <1>0, <1>6, <2>1 DEF StageFails, TypeOK, RunType, Pcs, TaskPcs, PipelinePcs
<1>7. CASE StageCancelled(c)
  <2>1. [run[c].row EXCEPT !.steps[run[c].i] = "CANCELLED"] \in Row
    BY <1>0 DEF Row, StepStatuses
  <2>2. run' = [run EXCEPT ![c] = [@ EXCEPT !.pc = "cancelling",
                        !.row = [run[c].row EXCEPT !.steps[run[c].i] = "CANCELLED"]]]
    BY <1>7, <1>0 DEF StageCancelled, TypeOK, RunType
  <2>3. run' \in [Runs -> RunType]
    BY <1>0, <2>1, <2>2 DEF TypeOK, RunType, Pcs, TaskPcs, PipelinePcs
  <2>. QED  BY <1>7, <2>3 DEF StageCancelled, TypeOK
<1>8. CASE Release(c)
  <2>1. MediaReleased(run[c].row) \in Row
    BY <1>0, RowOperations
  <2>2. run[c].pc \in {"failing", "cancelling", "releasing"}
    BY <1>8 DEF Release, AfterRelease
  <2>3. AfterRelease[run[c].pc] \in Pcs
    BY <2>2 DEF AfterRelease, Pcs, TaskPcs, PipelinePcs
  <2>. QED  BY <1>0, <1>8, <2>1, <2>3 DEF Release, TypeOK, RunType
<1>9. CASE CommitFailure(c)
  BY <1>0, <1>9, CommitType, EndTaskType DEF CommitFailure, TypeOK
<1>10. CASE CommitCancellation(c)
  <2>1. ApplyCancellation(run[c].row) \in Row
    BY <1>0, RowOperations
  <2>2. job' \in [Jobs -> Row]
    BY <1>10, <2>1, CommitType DEF CommitCancellation
  <2>3. run' \in [Runs -> RunType]
    BY <1>0, <1>10, <2>1, EndTaskType DEF CommitCancellation, TypeOK, RunType, Pcs, TaskPcs, PipelinePcs
  <2>. QED  BY <1>10, <2>2, <2>3 DEF CommitCancellation, TypeOK
<1>11. CASE Finalize(c)
  <2>1. FinalizeSuccess(run[c].row) \in Row
    BY <1>0, RowOperations
  <2>. QED  BY <1>11, <2>1, CommitType, EndTaskType DEF Finalize, TypeOK
<1>. QED  BY <1>1, <1>2, <1>3, <1>4, <1>5, <1>6, <1>7, <1>8, <1>9, <1>10, <1>11

\* Claims, heartbeats and the reaper keep the types.
LEMMA ClaimAndReapType ==
    ASSUME TypeOK,
           \/ \E w \in Workers : ClaimStep(w) \/ ReapStep(w)
           \/ \E c \in Runs : Heartbeat(c) \/ CommitRelease(c)
           \/ \E j \in Jobs : HeartbeatExpires(j) \/ HeartbeatsLost(j)
    PROVE  TypeOK'
<1> USE DEF dbVars, workerVars, faultVars
<1>1. ASSUME NEW w \in Workers, NEW j \in Jobs, NEW c \in Runs, Claim(w, j, c) PROVE TypeOK'
  <2>1. ClaimedRow(job[j], w) \in Row /\ NewRun("start", w, j, AbsentRow) \in RunType
    BY RowsOfTheQueue, InitialValues DEF TypeOK, Pcs, TaskPcs
  <2>. QED  BY <1>1, <2>1 DEF Claim, TypeOK
<1>2. ASSUME NEW w \in Workers, NEW j \in Jobs, NEW c \in Runs, Reap(w, j, c) PROVE TypeOK'
  <2>1. Interrupted(job[j]) \in Row
    BY RowOperations, StageAssumption DEF TypeOK
  <2>2. NewRun("releasing", w, j, Interrupted(job[j])) \in RunType
    BY <2>1, InitialValues DEF Pcs
  <2>. QED  BY <1>2, <2>1, <2>2 DEF Reap, TypeOK
<1>3. ASSUME NEW c \in Runs, Heartbeat(c) PROVE TypeOK'
  <2>0. job[run[c].j].cancel \in BOOLEAN /\ run[c].ev \in BOOLEAN
    BY DEF TypeOK, RunType, Row
  <2>1. run' \in [Runs -> RunType] /\ tasks' \in [Workers -> SUBSET Jobs]
    BY <1>3, <2>0, EndTaskType DEF Heartbeat, TypeOK, RunType
  <2>. QED  BY <1>3, <2>1 DEF Heartbeat, TypeOK
<1>4. ASSUME NEW c \in Runs, CommitRelease(c) PROVE TypeOK'
  <2>1. run[c].row \in Row
    BY DEF TypeOK, RunType
  <2>. QED  BY <1>4, <2>1, CommitType, EndTaskType DEF CommitRelease, TypeOK
<1>5. ASSUME NEW j \in Jobs, HeartbeatExpires(j) PROVE TypeOK'
  BY <1>5 DEF HeartbeatExpires, TypeOK
<1>6. ASSUME NEW j \in Jobs, HeartbeatsLost(j) PROVE TypeOK'
  BY <1>6, EngineAssumption DEF HeartbeatsLost, TypeOK
<1>. QED  BY <1>1, <1>2, <1>3, <1>4, <1>5, <1>6 DEF ClaimStep, ReapStep

\* The rows that named a process name no process once it is gone.
LEMMA VanishType ==
    ASSUME TypeOK, NEW w \in Workers, Vanish(w)
    PROVE  /\ job' \in [Jobs -> Row]
           /\ tasks' \in [Workers -> SUBSET Jobs]
           /\ up' \in [Workers -> {"up", "stopping", "down"}]
<1>1. \A j \in Jobs : [job[j] EXCEPT !.worker = GoneWorker] \in Row
  BY DEF TypeOK, Row
<1>. QED  BY <1>1 DEF Vanish, TypeOK

\* Shutdown, crash and restart keep the types.
LEMMA ShutdownType ==
    ASSUME TypeOK,
           \/ \E w \in Workers : Stop(w) \/ Exit(w) \/ Crash(w) \/ Restart(w)
           \/ \E c \in Runs : Interrupt(c) \/ MarkInterrupted(c) \/ Park(c)
    PROVE  TypeOK'
<1> USE DEF dbVars, workerVars, faultVars
<1>0. \A c \in Runs : /\ run[c].j \in Jobs /\ job[run[c].j] \in Row
                      /\ run[c].w \in Workers \cup {NoWorker}
                      /\ run[c].row \in Row /\ run[c].base \in Row
  BY DEF TypeOK, RunType
<1>1. ASSUME NEW w \in Workers, Stop(w) PROVE TypeOK'
  BY <1>1, EngineAssumption DEF Stop, TypeOK
<1>2. ASSUME NEW w \in Workers, Exit(w) PROVE TypeOK'
  BY <1>2, VanishType DEF Exit, TypeOK
<1>3. ASSUME NEW w \in Workers, Crash(w) PROVE TypeOK'
  <2>1. run' \in [Runs -> RunType]
    BY <1>3, InitialValues DEF Crash, TypeOK
  <2>2. faults' \in 0 .. MaxFaults
    BY <1>3, EngineAssumption DEF Crash, TypeOK
  <2>. QED  BY <1>3, <2>1, <2>2, VanishType DEF Crash, TypeOK
<1>4. ASSUME NEW w \in Workers, Restart(w) PROVE TypeOK'
  BY <1>4 DEF Restart, TypeOK
<1>5. ASSUME NEW c \in Runs, Interrupt(c) PROVE TypeOK'
  <2>1. NewRun("mark", run[c].w, run[c].j, AbsentRow) \in RunType
    BY <1>0, InitialValues, RowsOfTheQueue DEF Pcs, TaskPcs
  <2>. QED  BY <1>5, <2>1 DEF Interrupt, TypeOK
<1>6. ASSUME NEW c \in Runs, MarkInterrupted(c) PROVE TypeOK'
  <2>1. Interrupted(job[run[c].j]) \in Row
    BY <1>0, RowOperations, StageAssumption
  <2>2. run' \in [Runs -> RunType] /\ tasks' \in [Workers -> SUBSET Jobs]
    <3>1. CASE job[run[c].j].status = "RUNNING" /\ job[run[c].j].worker = run[c].w
      <4>1. run' = [run EXCEPT ![c] = [@ EXCEPT !.pc = "park", !.base = job[run[c].j],
                                                !.row = Interrupted(job[run[c].j])]]
        BY <1>6, <3>1 DEF MarkInterrupted
      <4>2. ASSUME NEW base \in Row, NEW row \in Row
            PROVE  [run[c] EXCEPT !.pc = "park", !.base = base, !.row = row] \in RunType
        BY DEF TypeOK, RunType, Pcs, TaskPcs
      <4>3. run' \in [Runs -> RunType]
        BY <1>0, <2>1, <4>1, <4>2 DEF TypeOK
      <4>. QED  BY <1>6, <3>1, <4>3 DEF MarkInterrupted, TypeOK
    <3>2. CASE ~(job[run[c].j].status = "RUNNING" /\ job[run[c].j].worker = run[c].w)
      BY <1>6, <3>2, EndTaskType DEF MarkInterrupted
    <3>. QED  BY <3>1, <3>2
  <2>. QED  BY <1>6, <2>2 DEF MarkInterrupted, TypeOK
<1>7. ASSUME NEW c \in Runs, Park(c) PROVE TypeOK'
  <2>1. Flush(job[run[c].j], run[c].base, run[c].row) \in Row
    BY <1>0, FlushRow
  <2>2. run' \in [Runs -> RunType] /\ tasks' \in [Workers -> SUBSET Jobs]
    BY <1>0, <1>7, EndTaskType DEF Park, TypeOK, RunType, Pcs
  <2>. QED  BY <1>0, <1>7, <2>1, <2>2 DEF Park, TypeOK
<1>. QED  BY <1>1, <1>2, <1>3, <1>4, <1>5, <1>6, <1>7

\* Every step keeps the types.
LEMMA NextType ==
    ASSUME TypeOK, [Next]_vars
    PROVE  TypeOK'
<1>1. CASE ApiStep \/ \E r \in Clients : ApiCommits(r)
  BY <1>1, ApiType
<1>2. ASSUME NEW c \in Runs, TaskStep(c) PROVE TypeOK'
  BY <1>2, TaskStartType, PipelineType, ClaimAndReapType, ShutdownType DEF TaskStep
<1>3. ASSUME NEW c \in Runs, Heartbeat(c) \/ Interrupt(c) PROVE TypeOK'
  BY <1>3, ClaimAndReapType, ShutdownType
<1>4. ASSUME NEW w \in Workers, ClaimStep(w) \/ ReapStep(w) \/ Exit(w) \/ Restart(w) PROVE TypeOK'
  BY <1>4, ClaimAndReapType, ShutdownType
<1>5. ASSUME NEW j \in Jobs, HeartbeatExpires(j) PROVE TypeOK'
  BY <1>5, ClaimAndReapType
<1>6. CASE FaultStep
  BY <1>6, ClaimAndReapType, ShutdownType, TaskStartType DEF FaultStep
<1>7. CASE UNCHANGED vars
  BY <1>7 DEF vars, TypeOK
<1>. QED  BY <1>1, <1>2, <1>3, <1>4, <1>5, <1>6, <1>7 DEF Next

\* The initial state has its types.
LEMMA InitType == Init => TypeOK
BY InitialValues, RowsOfTheQueue, EngineAssumption DEF Init, TypeOK

\* Rows, sessions and slots keep their types: in particular no commit of a
\* stale session ever writes a status or a worker id outside its domain.
THEOREM TypeCorrect == Spec => []TypeOK
BY InitType, NextType, PTL DEF Spec

-----------------------------------------------------------------------------
(* A RUNNING row of a live worker has a task *)

Held(j, w) == job[j].status = "RUNNING" /\ job[j].worker = w /\ j \notin lost

\* Where a task's session holds the row it loaded.
SessionPcs == PipelinePcs \cup {"loaded", "failbefore", "park"}

\* Run c is a task of w for j that will read the row again, or whose session
\* knows the row as RUNNING, so that its last commit writes another status.
Carries(c, w, j) ==
    /\ run[c].w = w
    /\ run[c].j = j
    /\ \/ run[c].pc \in {"start", "mark"}
       \/ run[c].pc \in SessionPcs /\ run[c].base.status = "RUNNING"

Executed == \A j \in Jobs, w \in Workers : Held(j, w) => \E c \in Runs : Carries(c, w, j)

\* What a session has changed and not committed: a failure and an interruption
\* keep a new status across an await, and no session names another worker.
SessionOK(c) ==
    /\ run[c].row.worker \in {run[c].base.worker, NoWorker}
    /\ run[c].pc \in {"failing", "failed"} => run[c].row.status \in Terminal
    /\ run[c].pc = "park" => run[c].row.status = "INTERRUPTED"
    /\ run[c].pc \notin {"failing", "failed", "park"} =>
           run[c].row.status = run[c].base.status

\* Rivals are never active together.
ActiveExclusive ==
    \A j \in Jobs : \A k \in Clash[j] : ~(job[j].status \in Active /\ job[k].status \in Active)

HeldInv == TypeOK /\ (\A c \in Runs : SessionOK(c)) /\ ActiveExclusive /\ Executed

\* The status and the worker id each operation leaves.
LEMMA StatusOfOperations ==
    ASSUME NEW row \in Row, NEW i \in 0 .. NStages, NEW sel \in SUBSET Stages
    PROVE  /\ EnsureSteps(row).status = row.status /\ EnsureSteps(row).worker = row.worker
           /\ ResetForRetry(row, sel).status = "QUEUED" /\ ResetForRetry(row, sel).worker = NoWorker
           /\ CancelJob(row).status \in {row.status, "QUEUED", "CANCELLED"}
           /\ CancelJob(row).worker = row.worker
           /\ StageStarted(row, i).status = row.status /\ StageStarted(row, i).worker = row.worker
           /\ \A o : /\ StageFinished(row, i, o).status = row.status
                     /\ StageFinished(row, i, o).worker = row.worker
           /\ HandleFailure(row, i).status \in Terminal /\ HandleFailure(row, i).worker = row.worker
           /\ FinalizeSuccess(row).status = "COMPLETED" /\ FinalizeSuccess(row).worker = row.worker
           /\ ApplyCancellation(row).status = "CANCELLED"
           /\ ApplyCancellation(row).worker = row.worker
           /\ FailBeforePipeline(row).status = "FAILED" /\ FailBeforePipeline(row).worker = NoWorker
           /\ Interrupted(row).status = "INTERRUPTED" /\ Interrupted(row).worker = NoWorker
           /\ MediaReleased(row).status = row.status /\ MediaReleased(row).worker = row.worker
<1>1. /\ EnsureSteps(row).status = row.status /\ EnsureSteps(row).worker = row.worker
      /\ ResetForRetry(row, sel).status = "QUEUED" /\ ResetForRetry(row, sel).worker = NoWorker
  BY DEF EnsureSteps, ResetForRetry, Row
<1>2. /\ CancelJob(row).status \in {row.status, "QUEUED", "CANCELLED"}
      /\ CancelJob(row).worker = row.worker
  BY DEF CancelJob, RequestCancel, Row
<1>3. /\ StageStarted(row, i).status = row.status /\ StageStarted(row, i).worker = row.worker
      /\ \A o : /\ StageFinished(row, i, o).status = row.status
                /\ StageFinished(row, i, o).worker = row.worker
  BY DEF StageStarted, StageFinished, Row
<1>4. /\ HandleFailure(row, i).status \in Terminal /\ HandleFailure(row, i).worker = row.worker
      /\ FinalizeSuccess(row).status = "COMPLETED" /\ FinalizeSuccess(row).worker = row.worker
  BY DEF HandleFailure, FinalizeSuccess, Terminal, Row
<1>5. /\ ApplyCancellation(row).status = "CANCELLED"
      /\ ApplyCancellation(row).worker = row.worker
      /\ FailBeforePipeline(row).status = "FAILED" /\ FailBeforePipeline(row).worker = NoWorker
  BY DEF ApplyCancellation, FailBeforePipeline, Row
<1>6. /\ Interrupted(row).status = "INTERRUPTED" /\ Interrupted(row).worker = NoWorker
      /\ MediaReleased(row).status = row.status /\ MediaReleased(row).worker = row.worker
  BY DEF Interrupted, MediaReleased, Row
<1>. QED  BY <1>1, <1>2, <1>3, <1>4, <1>5, <1>6

\* A change of one row keeps rivals apart if it activates nobody beside one.
LEMMA OneRowChanges ==
    ASSUME TypeOK, ActiveExclusive, NEW j \in Jobs, NEW row \in Row,
           job' = [job EXCEPT ![j] = row],
           row.status \in Active => \/ job[j].status \in Active
                                   \/ \A k \in Clash[j] : job[k].status \notin Active
    PROVE  ActiveExclusive'
BY EngineAssumption DEF ActiveExclusive, TypeOK

\* One slot moves; the rows it leaves RUNNING it still carries.
LEMMA RunStep ==
    ASSUME HeldInv, TypeOK', NEW c \in Runs,
           \A d \in Runs \ {c} : run'[d] = run[d],
           SessionOK(c)',
           ActiveExclusive',
           \A j \in Jobs, w \in Workers :
               Held(j, w)' => Held(j, w) /\ (Carries(c, w, j) => Carries(c, w, j)')
    PROVE  HeldInv'
<1>1. \A d \in Runs : SessionOK(d)'
  BY DEF HeldInv, SessionOK
<1>2. Executed'
  BY DEF HeldInv, Executed, Carries
<1>. QED  BY <1>1, <1>2 DEF HeldInv

\* A step that changes one slot and no row.
LEMMA QuietStep ==
    ASSUME HeldInv, TypeOK', NEW c \in Runs,
           \A d \in Runs \ {c} : run'[d] = run[d],
           UNCHANGED <<job, lost>>,
           SessionOK(c)',
           \A j \in Jobs, w \in Workers :
               Held(j, w) /\ Carries(c, w, j) => Carries(c, w, j)'
    PROVE  HeldInv'
<1>1. ActiveExclusive'
  BY DEF HeldInv, ActiveExclusive
<1>2. \A j \in Jobs, w \in Workers : Held(j, w)' <=> Held(j, w)
  BY DEF Held
<1>. QED  BY <1>1, <1>2, RunStep

\* A commit of a session makes no row RUNNING and gives none to a worker, and
\* a session that knows its row as RUNNING takes it out of RUNNING when it
\* writes another status.
LEMMA CommitStep ==
    ASSUME HeldInv, NEW c \in Runs, NEW row \in Row, Commit(c, row), UNCHANGED lost,
           row.status \in Terminal \cup {run[c].base.status},
           row.worker \in {run[c].base.worker, NoWorker}
    PROVE  /\ ActiveExclusive'
           /\ \A j \in Jobs, w \in Workers :
                  Held(j, w)' =>
                      /\ Held(j, w)
                      /\ run[c].j = j /\ run[c].base.status = "RUNNING" => row.status = "RUNNING"
<1> DEFINE j0 == run[c].j
           new == Flush(job[j0], run[c].base, row)
<1>1. j0 \in Jobs /\ run[c].base \in Row /\ job[j0] \in Row
  BY DEF HeldInv, TypeOK, RunType
<1>2. new \in Row /\ job' = [job EXCEPT ![j0] = new]
  BY <1>1, FlushRow DEF Commit
<1>3. /\ new.status = Changed(job[j0].status, run[c].base.status, row.status)
      /\ new.worker = Changed(job[j0].worker, run[c].base.worker, row.worker)
  BY DEF Flush
<1>4. new.status \in Terminal \cup {job[j0].status} /\ new.worker \in {job[j0].worker, NoWorker}
  BY <1>3 DEF Changed
<1>5. ActiveExclusive'
  <2>1. new.status \in Active => job[j0].status \in Active
    BY <1>4 DEF Terminal, Active
  <2>. QED  BY <1>1, <1>2, <2>1, OneRowChanges DEF HeldInv
<1>6. ASSUME NEW j \in Jobs, NEW w \in Workers, Held(j, w)'
      PROVE  /\ Held(j, w)
             /\ run[c].j = j /\ run[c].base.status = "RUNNING" => row.status = "RUNNING"
  <2>1. CASE j = j0
    BY <1>1, <1>2, <1>3, <1>4, <1>6, <2>1, WorkerAssumption DEF Held, HeldInv, TypeOK, Terminal, Changed
  <2>2. CASE j # j0
    BY <1>1, <1>2, <1>6, <2>2 DEF Held, HeldInv, TypeOK
  <2>. QED  BY <2>1, <2>2
<1>. QED  BY <1>5, <1>6

\* A task that ends although it carries a row has seen that the row is not
\* RUNNING or not its worker's any more.
LEMMA EndedTask ==
    ASSUME HeldInv, TypeOK', NEW c \in Runs, EndTask(c), UNCHANGED <<job, lost>>,
           \/ run[c].pc = "ending"
           \/ ~(job[run[c].j].status = "RUNNING" /\ job[run[c].j].worker = run[c].w)
    PROVE  HeldInv'
<1>1. run'[c] = IdleRun /\ \A d \in Runs \ {c} : run'[d] = run[d]
  BY DEF EndTask, HeldInv, TypeOK
<1>2. SessionOK(c)'
  BY <1>1 DEF SessionOK, IdleRun
<1>3. \A j \in Jobs, w \in Workers : ~(Held(j, w) /\ Carries(c, w, j))
  BY DEF Held, Carries, SessionPcs, PipelinePcs
<1>. QED  BY <1>1, <1>2, <1>3, QuietStep

\* The steps of a task that commit nothing preserve the invariant.
LEMMA QuietTaskSteps ==
    ASSUME HeldInv, TypeOK', NEW c \in Runs,
           \/ Load(c) \/ ContextFails(c) \/ Refresh(c) \/ AttachMedia(c) \/ CleanupMedia(c)
           \/ StageFails(c) \/ StageCancelled(c) \/ Release(c) \/ PipelineError(c)
           \/ TaskDone(c) \/ Heartbeat(c) \/ Interrupt(c) \/ MarkInterrupted(c)
    PROVE  HeldInv'
<1> USE DEF dbVars, workerVars, faultVars
<1>0. /\ run[c] \in RunType /\ run[c].j \in Jobs /\ job[run[c].j] \in Row
      /\ run[c].row \in Row /\ run[c].base \in Row /\ run[c].i \in 0 .. NStages
      /\ run \in [Runs -> RunType]
      /\ SessionOK(c)
  BY DEF HeldInv, TypeOK, RunType
<1>1. CASE Load(c)
  <2>1. CASE job[run[c].j].status = "RUNNING" /\ job[run[c].j].worker = run[c].w
    <3>1. run' = [run EXCEPT ![c] = [@ EXCEPT !.pc = "loaded", !.base = job[run[c].j],
                                              !.row = EnsureSteps(job[run[c].j])]]
      BY <1>1, <2>1 DEF Load
    <3>2. /\ run'[c].pc = "loaded" /\ run'[c].w = run[c].w /\ run'[c].j = run[c].j
          /\ run'[c].base = job[run[c].j] /\ run'[c].row = EnsureSteps(job[run[c].j])
          /\ \A d \in Runs \ {c} : run'[d] = run[d]
      BY <1>0, <3>1 DEF RunType
    <3>3. SessionOK(c)'
      BY <1>0, <3>2, StatusOfOperations, StageAssumption DEF SessionOK
    <3>. QED  BY <1>1, <2>1, <3>2, <3>3, QuietStep DEF Load, Carries, SessionPcs
  <2>2. CASE ~(job[run[c].j].status = "RUNNING" /\ job[run[c].j].worker = run[c].w)
    BY <1>1, <2>2, EndedTask DEF Load
  <2>. QED  BY <2>1, <2>2
<1>2. CASE ContextFails(c)
  <2>1. /\ run'[c].pc = "failbefore" /\ run'[c].w = run[c].w /\ run'[c].j = run[c].j
        /\ run'[c].base = run[c].base /\ run'[c].row = run[c].row
        /\ \A d \in Runs \ {c} : run'[d] = run[d]
    BY <1>0, <1>2 DEF ContextFails, Goto, RunType
  <2>. QED  BY <1>0, <1>2, <2>1, QuietStep DEF ContextFails, SessionOK, Carries, SessionPcs
<1>3. CASE Refresh(c)
  <2>1. /\ run'[c].pc \in {"cancelling", "starting"} /\ run'[c].w = run[c].w
        /\ run'[c].j = run[c].j
        /\ run'[c].base = job[run[c].j] /\ run'[c].row = job[run[c].j]
        /\ \A d \in Runs \ {c} : run'[d] = run[d]
    <3>1. PICK s \in Todo(c) : run' =
               [run EXCEPT ![c].base = job[run[c].j], ![c].row = job[run[c].j],
                   ![c].pc = IF CancelSeen(job[run[c].j]) THEN "cancelling" ELSE "starting",
                   ![c].i = IF CancelSeen(job[run[c].j]) THEN 0 ELSE s]
      BY <1>3 DEF Refresh
    <3>. QED  BY <1>0, <3>1 DEF RunType
  <2>2. SessionOK(c)'
    BY <2>1 DEF SessionOK
  <2>. QED  BY <1>3, <2>1, <2>2, QuietStep DEF Refresh, Carries, Held, SessionPcs, PipelinePcs
<1>4. CASE AttachMedia(c) \/ CleanupMedia(c)
  <2>0. PICK row : /\ row.status = run[c].row.status /\ row.worker = run[c].row.worker
                   /\ run' = [run EXCEPT ![c] = [@ EXCEPT !.eff = TRUE, !.row = row]]
    <3>1. CASE AttachMedia(c)
      BY <1>0, <3>1 DEF AttachMedia, RunType
    <3>2. CASE CleanupMedia(c)
      <4>1. /\ [run[c].row EXCEPT !.removed = TRUE].status = run[c].row.status
            /\ [run[c].row EXCEPT !.removed = TRUE].worker = run[c].row.worker
        BY <1>0 DEF Row
      <4>2. run' = [run EXCEPT ![c] = [@ EXCEPT !.eff = TRUE,
                                                !.row = [run[c].row EXCEPT !.removed = TRUE]]]
        BY <1>0, <3>2 DEF CleanupMedia, RunType
      <4>. QED  BY <4>1, <4>2
    <3>. QED  BY <1>4, <3>1, <3>2
  <2>1. /\ run'[c].pc = run[c].pc /\ run'[c].w = run[c].w /\ run'[c].j = run[c].j
        /\ run'[c].base = run[c].base /\ run'[c].row = row
        /\ \A d \in Runs \ {c} : run'[d] = run[d]
    BY <1>0, <2>0 DEF RunType
  <2>. QED  BY <1>0, <1>4, <2>0, <2>1, QuietStep DEF AttachMedia, CleanupMedia, SessionOK, Carries
<1>5. CASE StageFails(c)
  <2>1. /\ run'[c].pc = "failing" /\ run'[c].w = run[c].w /\ run'[c].j = run[c].j
        /\ run'[c].base = run[c].base /\ run'[c].row = HandleFailure(run[c].row, run[c].i)
        /\ run[c].pc = "handler"
        /\ \A d \in Runs \ {c} : run'[d] = run[d]
    BY <1>0, <1>5 DEF StageFails, RunType
  <2>2. /\ HandleFailure(run[c].row, run[c].i).status \in Terminal
        /\ HandleFailure(run[c].row, run[c].i).worker = run[c].row.worker
    BY <1>0, StatusOfOperations
  <2>3. SessionOK(c)'
    BY <1>0, <2>1, <2>2 DEF SessionOK
  <2>. QED  BY <1>5, <2>1, <2>3, QuietStep DEF StageFails, Carries, SessionPcs, PipelinePcs
<1>6. CASE StageCancelled(c)
  <2>1. /\ run'[c].pc = "cancelling" /\ run'[c].w = run[c].w /\ run'[c].j = run[c].j
        /\ run'[c].base = run[c].base /\ run[c].pc = "handler"
        /\ run'[c].row.status = run[c].row.status /\ run'[c].row.worker = run[c].row.worker
        /\ \A d \in Runs \ {c} : run'[d] = run[d]
    BY <1>0, <1>6 DEF StageCancelled, RunType, Row
  <2>. QED  BY <1>0, <1>6, <2>1, QuietStep DEF StageCancelled, SessionOK, Carries, SessionPcs, PipelinePcs
<1>7. CASE Release(c)
  <2>0. /\ run[c].pc \in {"failing", "cancelling", "releasing"}
        /\ AfterRelease["failing"] = "failed" /\ AfterRelease["cancelling"] = "cancelled"
        /\ AfterRelease["releasing"] = "released"
    BY <1>7 DEF Release, AfterRelease
  <2>1. /\ run'[c].pc = AfterRelease[run[c].pc] /\ run'[c].w = run[c].w /\ run'[c].j = run[c].j
        /\ run'[c].base = run[c].base /\ run'[c].row \in {run[c].row, MediaReleased(run[c].row)}
        /\ \A d \in Runs \ {c} : run'[d] = run[d]
    BY <1>0, <1>7 DEF Release, RunType
  <2>2. run'[c].row.status = run[c].row.status /\ run'[c].row.worker = run[c].row.worker
    <3>1. /\ MediaReleased(run[c].row).status = run[c].row.status
          /\ MediaReleased(run[c].row).worker = run[c].row.worker
      BY <1>0, StatusOfOperations
    <3>. QED  BY <2>1, <3>1
  <2>3. SessionOK(c)'
    BY <1>0, <2>0, <2>1, <2>2 DEF SessionOK
  <2>. QED  BY <1>7, <2>0, <2>1, <2>3, QuietStep DEF Release, Carries, SessionPcs, PipelinePcs
<1>8. CASE PipelineError(c)
  <2>1. /\ run'[c].pc = "failbefore" /\ run'[c].w = run[c].w /\ run'[c].j = run[c].j
        /\ run'[c].base = job[run[c].j] /\ run'[c].row = job[run[c].j]
        /\ \A d \in Runs \ {c} : run'[d] = run[d]
    BY <1>0, <1>8 DEF PipelineError, RunType
  <2>2. SessionOK(c)'
    BY <2>1 DEF SessionOK
  <2>. QED  BY <1>8, <2>1, <2>2, QuietStep DEF PipelineError, Carries, Held, SessionPcs
<1>9. CASE TaskDone(c)
  BY <1>9, EndedTask DEF TaskDone
<1>10. CASE Heartbeat(c)
  <2>1. CASE EndTask(c) /\ ~(job[run[c].j].worker = run[c].w /\ job[run[c].j].status = "RUNNING")
    BY <1>10, <2>1, EndedTask DEF Heartbeat
  <2>2. CASE run' = [run EXCEPT ![c].ev = @ \/ job[run[c].j].cancel]
    <3>1. /\ run'[c].pc = run[c].pc /\ run'[c].w = run[c].w /\ run'[c].j = run[c].j
          /\ run'[c].base = run[c].base /\ run'[c].row = run[c].row
          /\ \A d \in Runs \ {c} : run'[d] = run[d]
      BY <1>0, <2>2 DEF RunType
    <3>. QED  BY <1>0, <1>10, <3>1, QuietStep DEF Heartbeat, SessionOK, Carries
  <2>. QED  BY <1>10, <2>1, <2>2 DEF Heartbeat
<1>11. CASE Interrupt(c)
  <2>1. /\ run'[c] = NewRun("mark", run[c].w, run[c].j, AbsentRow)
        /\ \A d \in Runs \ {c} : run'[d] = run[d]
    BY <1>0, <1>11 DEF Interrupt
  <2>2. /\ run'[c].pc = "mark" /\ run'[c].w = run[c].w /\ run'[c].j = run[c].j
        /\ run'[c].row = run'[c].base
    BY <2>1 DEF NewRun, IdleRun
  <2>3. SessionOK(c)'
    BY <2>2 DEF SessionOK
  <2>. QED  BY <1>11, <2>1, <2>2, <2>3, QuietStep DEF Interrupt, Carries
<1>12. CASE MarkInterrupted(c)
  <2>1. CASE job[run[c].j].status = "RUNNING" /\ job[run[c].j].worker = run[c].w
    <3>1. run' = [run EXCEPT ![c] = [@ EXCEPT !.pc = "park", !.base = job[run[c].j],
                                              !.row = Interrupted(job[run[c].j])]]
      BY <1>12, <2>1 DEF MarkInterrupted
    <3>2. /\ run'[c].pc = "park" /\ run'[c].w = run[c].w /\ run'[c].j = run[c].j
          /\ run'[c].base = job[run[c].j] /\ run'[c].row = Interrupted(job[run[c].j])
          /\ \A d \in Runs \ {c} : run'[d] = run[d]
      BY <1>0, <3>1 DEF RunType
    <3>3. SessionOK(c)'
      BY <1>0, <3>2, StatusOfOperations, StageAssumption DEF SessionOK
    <3>. QED  BY <1>12, <2>1, <3>2, <3>3, QuietStep DEF MarkInterrupted, Carries, SessionPcs
  <2>2. CASE ~(job[run[c].j].status = "RUNNING" /\ job[run[c].j].worker = run[c].w)
    BY <1>12, <2>2, EndedTask DEF MarkInterrupted
  <2>. QED  BY <2>1, <2>2
<1>. QED  BY <1>1, <1>2, <1>3, <1>4, <1>5, <1>6, <1>7, <1>8, <1>9, <1>10, <1>11, <1>12

\* A commit after which the task goes on with the committed row.
LEMMA CommitAndGoOn ==
    ASSUME HeldInv, TypeOK', NEW c \in Runs, NEW row \in Row, NEW pc \in PipelinePcs,
           pc \notin {"failing", "failed"},
           run[c].pc \in SessionPcs, Commit(c, row), UNCHANGED lost,
           row.status \in Terminal \cup {run[c].base.status},
           row.worker \in {run[c].base.worker, NoWorker},
           run'[c].pc = pc, run'[c].w = run[c].w, run'[c].j = run[c].j,
           run'[c].base = row, run'[c].row = row,
           \A d \in Runs \ {c} : run'[d] = run[d]
    PROVE  HeldInv'
<1>1. SessionOK(c)'
  BY DEF SessionOK, PipelinePcs
<1>2. \A j \in Jobs, w \in Workers :
          Held(j, w)' => Held(j, w) /\ (Carries(c, w, j) => Carries(c, w, j)')
  BY CommitStep DEF Carries, SessionPcs, PipelinePcs
<1>. QED  BY <1>1, <1>2, CommitStep, RunStep

\* A commit of a terminal status, or by a reaper that carries nothing, after
\* which the slot carries nothing.
LEMMA CommitAndEnd ==
    ASSUME HeldInv, TypeOK', NEW c \in Runs, NEW row \in Row,
           Commit(c, row), UNCHANGED lost,
           \/ run[c].pc \in SessionPcs /\ row.status \in Terminal
           \/ run[c].pc = "released" /\ row.status = run[c].base.status,
           row.worker \in {run[c].base.worker, NoWorker},
           WindDown(c) \/ EndTask(c)
    PROVE  HeldInv'
<1>1. /\ run'[c].row = run'[c].base /\ run'[c].pc \in {"ending", "idle"}
      /\ \A d \in Runs \ {c} : run'[d] = run[d]
  <2>1. run \in [Runs -> RunType]
    BY DEF HeldInv, TypeOK
  <2>2. CASE WindDown(c)
    BY <2>1, <2>2 DEF WindDown, NewRun, IdleRun
  <2>3. CASE EndTask(c)
    BY <2>1, <2>3 DEF EndTask, IdleRun
  <2>. QED  BY <2>2, <2>3
<1>2. SessionOK(c)'
  BY <1>1 DEF SessionOK
<1>3. \A j \in Jobs, w \in Workers : Held(j, w)' => Held(j, w) /\ ~Carries(c, w, j)
  BY CommitStep DEF Carries, SessionPcs, PipelinePcs, Terminal
<1>. QED  BY <1>1, <1>2, <1>3, CommitStep, RunStep

\* The steps of a task that commit preserve the invariant.
LEMMA CommitTaskSteps ==
    ASSUME HeldInv, TypeOK', NEW c \in Runs,
           \/ Ready(c) \/ FailBefore(c) \/ StartStage(c)
           \/ \E outcome \in Outcomes : StageOk(c, outcome)
           \/ CommitFailure(c) \/ CommitCancellation(c) \/ Finalize(c) \/ CommitRelease(c)
    PROVE  HeldInv'
<1> USE DEF dbVars, workerVars, faultVars
<1>0. /\ run[c] \in RunType /\ run[c].j \in Jobs /\ job[run[c].j] \in Row
      /\ run[c].row \in Row /\ run[c].base \in Row /\ run[c].i \in 0 .. NStages
      /\ run \in [Runs -> RunType]
      /\ SessionOK(c)
  BY DEF HeldInv, TypeOK, RunType
<1>1. CASE Ready(c)
  <2>1. /\ run'[c].pc = "loop" /\ run'[c].w = run[c].w /\ run'[c].j = run[c].j
        /\ run'[c].base = run[c].row /\ run'[c].row = run[c].row
        /\ \A d \in Runs \ {c} : run'[d] = run[d]
    BY <1>0, <1>1 DEF Ready, RunType
  <2>. QED  BY <1>0, <1>1, <2>1, CommitAndGoOn DEF Ready, SessionOK, SessionPcs, PipelinePcs
<1>2. CASE FailBefore(c)
  <2>1. /\ FailBeforePipeline(run[c].row) \in Row
        /\ FailBeforePipeline(run[c].row).status = "FAILED"
        /\ FailBeforePipeline(run[c].row).worker = NoWorker
    BY <1>0, RowOperations, StatusOfOperations
  <2>. QED  BY <1>2, <2>1, CommitAndEnd DEF FailBefore, SessionPcs, Terminal
<1>3. CASE StartStage(c)
  <2>1. /\ StageStarted(run[c].row, run[c].i) \in Row
        /\ StageStarted(run[c].row, run[c].i).status = run[c].row.status
        /\ StageStarted(run[c].row, run[c].i).worker = run[c].row.worker
    BY <1>0, RowOperations, StatusOfOperations
  <2>2. /\ run'[c].pc = "handler" /\ run'[c].w = run[c].w /\ run'[c].j = run[c].j
        /\ run'[c].base = StageStarted(run[c].row, run[c].i)
        /\ run'[c].row = StageStarted(run[c].row, run[c].i)
        /\ \A d \in Runs \ {c} : run'[d] = run[d]
    BY <1>0, <1>3 DEF StartStage, RunType
  <2>. QED  BY <1>0, <1>3, <2>1, <2>2, CommitAndGoOn DEF StartStage, SessionOK, SessionPcs, PipelinePcs
<1>4. ASSUME NEW outcome \in Outcomes, StageOk(c, outcome) PROVE HeldInv'
  <2> DEFINE new == StageFinished(run[c].row, run[c].i, outcome)
  <2>1. new \in Row /\ new.status = run[c].row.status /\ new.worker = run[c].row.worker
    <3>1. new \in Row
      BY <1>0, RowOperations, EngineAssumption
    <3>2. new.status = run[c].row.status /\ new.worker = run[c].row.worker
      BY <1>0, StatusOfOperations
    <3>. QED  BY <3>1, <3>2
  <2>2. /\ run'[c].pc = "loop" /\ run'[c].w = run[c].w /\ run'[c].j = run[c].j
        /\ run'[c].base = new /\ run'[c].row = new
        /\ \A d \in Runs \ {c} : run'[d] = run[d]
    BY <1>0, <1>4 DEF StageOk, RunType
  <2>3. run[c].pc = "handler" /\ Commit(c, new) /\ UNCHANGED lost
    BY <1>4 DEF StageOk
  <2> HIDE DEF new
  <2>. QED  BY <1>0, <2>1, <2>2, <2>3, CommitAndGoOn DEF SessionOK, SessionPcs, PipelinePcs
<1>5. CASE CommitFailure(c)
  BY <1>0, <1>5, CommitAndEnd DEF CommitFailure, SessionOK, SessionPcs, PipelinePcs
<1>6. CASE CommitCancellation(c)
  <2> DEFINE new == ApplyCancellation(run[c].row)
  <2>1. new \in Row /\ new.status = "CANCELLED" /\ new.worker = run[c].row.worker
    BY <1>0, RowOperations, StatusOfOperations
  <2>2. run[c].pc = "cancelled" /\ Commit(c, new) /\ UNCHANGED lost
    BY <1>6 DEF CommitCancellation
  <2>3. CASE run[c].i = 0
    <3>1. WindDown(c)
      BY <1>6, <2>3 DEF CommitCancellation
    <3> HIDE DEF new
    <3>. QED  BY <1>0, <2>1, <2>2, <3>1, CommitAndEnd DEF SessionOK, SessionPcs, PipelinePcs, Terminal
  <2>4. CASE run[c].i # 0
    <3>1. /\ run'[c].pc = "loop" /\ run'[c].w = run[c].w /\ run'[c].j = run[c].j
          /\ run'[c].base = new /\ run'[c].row = new
          /\ \A d \in Runs \ {c} : run'[d] = run[d]
      BY <1>0, <1>6, <2>4 DEF CommitCancellation, RunType
    <3> HIDE DEF new
    <3>. QED  BY <1>0, <2>1, <2>2, <3>1, CommitAndGoOn DEF SessionOK, SessionPcs, PipelinePcs, Terminal
  <2>. QED  BY <2>3, <2>4
<1>7. CASE Finalize(c)
  <2>1. /\ FinalizeSuccess(run[c].row) \in Row
        /\ FinalizeSuccess(run[c].row).status = "COMPLETED"
        /\ FinalizeSuccess(run[c].row).worker = run[c].row.worker
    BY <1>0, RowOperations, StatusOfOperations
  <2>. QED  BY <1>0, <1>7, <2>1, CommitAndEnd DEF Finalize, SessionOK, SessionPcs, PipelinePcs, Terminal
<1>8. CASE CommitRelease(c)
  BY <1>0, <1>8, CommitAndEnd DEF CommitRelease, SessionOK
<1>. QED  BY <1>1, <1>2, <1>3, <1>4, <1>5, <1>6, <1>7, <1>8

\* Parking a job: while its row is RUNNING no rival is active, so the index
\* cannot reject the commit that takes the row out of RUNNING.
LEMMA ParkStep ==
    ASSUME HeldInv, TypeOK', NEW c \in Runs, Park(c)
    PROVE  HeldInv'
<1> USE DEF dbVars, workerVars, faultVars
<1> DEFINE j0 == run[c].j
           new == Flush(job[j0], run[c].base, run[c].row)
<1>0. /\ run[c].pc = "park" /\ j0 \in Jobs /\ job[j0] \in Row
      /\ run[c].row \in Row /\ run[c].base \in Row
      /\ run \in [Runs -> RunType] /\ UNCHANGED lost
      /\ SessionOK(c)
  BY DEF HeldInv, TypeOK, RunType, Park
<1>1. /\ new \in Row
      /\ new.status = Changed(job[j0].status, run[c].base.status, "INTERRUPTED")
      /\ new.worker = Changed(job[j0].worker, run[c].base.worker, run[c].row.worker)
  BY <1>0, FlushRow DEF Flush, SessionOK
<1>2. CASE IndexAllows(j0, new)
  <2>1. job' = [job EXCEPT ![j0] = new]
    BY <1>2 DEF Park
  <2>2. /\ run'[c].pc = "releasing" /\ run'[c].base = run[c].row /\ run'[c].row = run[c].row
        /\ \A d \in Runs \ {c} : run'[d] = run[d]
    BY <1>0, <1>2 DEF Park, RunType
  <2>3. SessionOK(c)'
    BY <2>2 DEF SessionOK
  <2>4. ActiveExclusive'
    BY <1>0, <1>1, <1>2, <2>1, OneRowChanges DEF IndexAllows, HeldInv
  <2>5. ASSUME NEW j \in Jobs, NEW w \in Workers, Held(j, w)'
        PROVE  Held(j, w) /\ ~Carries(c, w, j)
    <3>1. CASE j = j0
      BY <1>0, <1>1, <2>1, <2>5, <3>1, WorkerAssumption
         DEF Held, Carries, Changed, SessionOK, HeldInv, TypeOK
    <3>2. CASE j # j0
      BY <1>0, <2>1, <2>5, <3>2 DEF Held, Carries, HeldInv, TypeOK
    <3>. QED  BY <3>1, <3>2
  <2>. QED  BY <2>2, <2>3, <2>4, <2>5, RunStep
<1>3. CASE ~IndexAllows(j0, new)
  <2>1. EndTask(c) /\ UNCHANGED job
    BY <1>3 DEF Park
  <2>2. PICK k \in Clash[j0] : new.status \in Active /\ job[k].status \in Active
    BY <1>3 DEF IndexAllows
  <2>3. job[j0].status # "RUNNING"
    BY <1>0, <2>2 DEF HeldInv, ActiveExclusive, Active
  <2>. QED  BY <1>0, <2>1, <2>3, EndedTask
<1>. QED  BY <1>2, <1>3

\* A step that leaves the slots alone preserves the invariant when it keeps
\* rivals apart and gives no row to a worker.
LEMMA SlotsUnchanged ==
    ASSUME HeldInv, TypeOK', UNCHANGED run, ActiveExclusive',
           \A j \in Jobs, w \in Workers : Held(j, w)' => Held(j, w)
    PROVE  HeldInv'
BY DEF HeldInv, SessionOK, Executed, Carries

\* A retry or cancel request, however stale the row it read, takes rows out of
\* RUNNING only, and past the indexes.
LEMMA ApiEffectStep ==
    ASSUME HeldInv, NEW j \in Jobs, NEW row \in Row, NEW sel \in SUBSET Stages,
           RetryEffect(j, row, sel) \/ CancelEffect(j, row), UNCHANGED lost
    PROVE  /\ ActiveExclusive'
           /\ \A k \in Jobs, w \in Workers : Held(k, w)' => Held(k, w)
<1>1. CASE UNCHANGED job
  BY <1>1 DEF HeldInv, ActiveExclusive, Held
<1>2. ASSUME NEW new \in Row, job' = [job EXCEPT ![j] = new], IndexAllows(j, new),
             new.status \in {job[j].status, "QUEUED", "CANCELLED"},
             new.worker \in {job[j].worker, NoWorker}
      PROVE  /\ ActiveExclusive'
             /\ \A k \in Jobs, w \in Workers : Held(k, w)' => Held(k, w)
  <2>1. ActiveExclusive'
    BY <1>2, OneRowChanges DEF HeldInv, IndexAllows
  <2>2. \A k \in Jobs, w \in Workers : Held(k, w)' => Held(k, w)
    BY <1>2, WorkerAssumption DEF Held, HeldInv, TypeOK
  <2>. QED  BY <2>1, <2>2
<1>3. CASE RetryEffect(j, row, sel) /\ ~UNCHANGED job
  <2> DEFINE new == Flush(job[j], row, ResetForRetry(row, sel))
  <2>1. /\ ResetForRetry(row, sel) \in Row
        /\ ResetForRetry(row, sel).status = "QUEUED" /\ ResetForRetry(row, sel).worker = NoWorker
    BY RowOperations, StatusOfOperations, StageAssumption
  <2>2. new \in Row
    BY <2>1, FlushRow DEF HeldInv, TypeOK
  <2>3. new.status \in {job[j].status, "QUEUED"} /\ new.worker \in {job[j].worker, NoWorker}
    BY <2>1 DEF Flush, Changed
  <2>4. job' = [job EXCEPT ![j] = new] /\ IndexAllows(j, new)
    BY <1>3 DEF RetryEffect, dbVars
  <2>. QED  BY <1>2, <2>2, <2>3, <2>4
<1>4. CASE CancelEffect(j, row) /\ ~UNCHANGED job
  <2> DEFINE new == Flush(job[j], row, CancelJob(row))
  <2>1. /\ CancelJob(row) \in Row
        /\ CancelJob(row).status \in {row.status, "QUEUED", "CANCELLED"}
        /\ CancelJob(row).worker = row.worker
    BY RowsOfTheQueue, StatusOfOperations, StageAssumption
  <2>2. new \in Row
    BY <2>1, FlushRow DEF HeldInv, TypeOK
  <2>3. new.status \in {job[j].status, "QUEUED", "CANCELLED"} /\ new.worker = job[j].worker
    BY <2>1 DEF Flush, Changed
  <2>4. job' = [job EXCEPT ![j] = new] /\ IndexAllows(j, new)
    BY <1>4 DEF CancelEffect, dbVars
  <2>. QED  BY <1>2, <2>2, <2>3, <2>4
<1>. QED  BY <1>1, <1>3, <1>4

\* The API preserves the invariant.
LEMMA ApiSteps ==
    ASSUME HeldInv, TypeOK', ApiStep \/ \E r \in Clients : ApiCommits(r)
    PROVE  HeldInv'
<1> USE DEF dbVars, workerVars, faultVars
<1>0. /\ \A j \in Jobs : job[j] \in Row /\ Selections(job[j]) \subseteq SUBSET Stages
      /\ \A r \in Clients : req[r].j \in Jobs /\ req[r].row \in Row /\ req[r].sel \in SUBSET Stages
  BY DEF HeldInv, TypeOK, RequestType, Selections
<1>1. ASSUME NEW j \in Jobs, Submit(j) PROVE HeldInv'
  <2>1. InsertedRow \in Row /\ InsertedRow.status = "QUEUED"
    BY RowsOfTheQueue DEF InsertedRow, AbsentRow
  <2>2. ActiveExclusive'
    BY <1>1, <2>1, OneRowChanges DEF Submit, IndexAllows, HeldInv
  <2>3. \A k \in Jobs, w \in Workers : Held(k, w)' => Held(k, w)
    BY <1>1, <2>1 DEF Submit, Held, HeldInv, TypeOK
  <2>. QED  BY <1>1, <2>2, <2>3, SlotsUnchanged DEF Submit
<1>2. ASSUME NEW j \in Jobs, RetryNow(j) \/ CancelNow(j) PROVE HeldInv'
  <2>1. PICK sel \in SUBSET Stages : RetryEffect(j, job[j], sel) \/ CancelEffect(j, job[j])
    BY <1>0, <1>2 DEF RetryNow, CancelNow
  <2>2. UNCHANGED <<run, lost>>
    BY <1>2 DEF RetryNow, CancelNow
  <2>. QED  BY <1>0, <2>1, <2>2, ApiEffectStep, SlotsUnchanged
<1>3. ASSUME NEW r \in Clients, NEW j \in Jobs, RetryRead(r, j) \/ CancelRead(r, j) PROVE HeldInv'
  <2>1. UNCHANGED <<job, run, lost>>
    BY <1>3 DEF RetryRead, CancelRead
  <2>. QED  BY <2>1, SlotsUnchanged DEF HeldInv, ActiveExclusive, Held
<1>4. ASSUME NEW r \in Clients, RetryCommit(r) \/ CancelCommit(r) PROVE HeldInv'
  <2>1. RetryEffect(req[r].j, req[r].row, req[r].sel) \/ CancelEffect(req[r].j, req[r].row)
    BY <1>4 DEF RetryCommit, CancelCommit
  <2>2. UNCHANGED <<run, lost>>
    BY <1>4 DEF RetryCommit, CancelCommit
  <2>. QED  BY <1>0, <2>1, <2>2, ApiEffectStep, SlotsUnchanged
<1>. QED  BY <1>1, <1>2, <1>3, <1>4 DEF ApiStep, ApiCommits

\* A claim gives the row to a worker together with a task that carries it.
LEMMA ClaimKeepsInv ==
    ASSUME HeldInv, TypeOK', NEW w \in Workers, NEW j \in Jobs, NEW c \in Runs, Claim(w, j, c)
    PROVE  HeldInv'
<1>1. /\ run'[c] = NewRun("start", w, j, AbsentRow)
      /\ \A d \in Runs \ {c} : run'[d] = run[d]
      /\ run[c].pc = "idle" /\ lost' = lost \ {j}
      /\ job' = [job EXCEPT ![j] = ClaimedRow(job[j], w)]
      /\ job \in [Jobs -> Row]
      /\ job[j].status = "QUEUED"
  BY DEF Claim, Idle, HeldInv, TypeOK, Due
<1>2. /\ run'[c].pc = "start" /\ run'[c].w = w /\ run'[c].j = j /\ run'[c].row = run'[c].base
  BY <1>1 DEF NewRun, IdleRun
<1>3. \A d \in Runs : SessionOK(d)'
  BY <1>1, <1>2 DEF HeldInv, SessionOK
<1>4. ActiveExclusive'
  BY <1>1, OneRowChanges, RowsOfTheQueue DEF HeldInv, Active
<1>5. Executed'
  <2> SUFFICES ASSUME NEW k \in Jobs, NEW v \in Workers, Held(k, v)'
               PROVE  \E d \in Runs : Carries(d, v, k)'
    BY DEF Executed
  <2>1. CASE k = j
    <3>1. v = w
      BY <1>1, <2>1 DEF Held, ClaimedRow, Row
    <3>. QED  BY <1>2, <2>1, <3>1 DEF Carries
  <2>2. CASE k # j
    <3>1. Held(k, v)
      BY <1>1, <2>2 DEF Held
    <3>2. PICK d \in Runs : Carries(d, v, k)
      BY <3>1 DEF HeldInv, Executed
    <3>3. d # c
      BY <1>1, <3>2 DEF Carries, SessionPcs, PipelinePcs
    <3>. QED  BY <1>1, <3>2, <3>3 DEF Carries
  <2>. QED  BY <2>1, <2>2
<1>. QED  BY <1>3, <1>4, <1>5 DEF HeldInv

\* The reaper takes a row out of RUNNING and moves a free slot.
LEMMA ReapKeepsInv ==
    ASSUME HeldInv, TypeOK', NEW w \in Workers, NEW j \in Jobs, NEW c \in Runs, Reap(w, j, c)
    PROVE  HeldInv'
<1>1. /\ run'[c] = NewRun("releasing", w, j, Interrupted(job[j]))
      /\ \A d \in Runs \ {c} : run'[d] = run[d]
      /\ run[c].pc = "idle" /\ lost' = lost
      /\ job' = [job EXCEPT ![j] = Interrupted(job[j])]
      /\ job \in [Jobs -> Row]
      /\ job[j].status = "RUNNING"
  BY DEF Reap, Idle, HeldInv, TypeOK, StaleRunning, faultVars
<1>2. run'[c].pc = "releasing" /\ run'[c].row = run'[c].base
  BY <1>1 DEF NewRun, IdleRun
<1>3. Interrupted(job[j]) \in Row /\ Interrupted(job[j]).status = "INTERRUPTED"
  BY <1>1, RowOperations, StatusOfOperations, StageAssumption
<1>4. SessionOK(c)'
  BY <1>2 DEF SessionOK
<1>5. ActiveExclusive'
  BY <1>1, <1>3, OneRowChanges DEF HeldInv, Active
<1>6. \A k \in Jobs, v \in Workers : Held(k, v)' => Held(k, v) /\ ~Carries(c, v, k)
  BY <1>1, <1>3 DEF Held, Carries, SessionPcs, PipelinePcs
<1>. QED  BY <1>1, <1>4, <1>5, <1>6, RunStep

\* A task that dies unguarded is accounted for in lost.
LEMMA TaskDiesKeepsInv ==
    ASSUME HeldInv, TypeOK', NEW c \in Runs, TaskDies(c)
    PROVE  HeldInv'
<1>1. /\ run'[c] = IdleRun /\ \A d \in Runs \ {c} : run'[d] = run[d]
      /\ lost' = lost \cup {run[c].j} /\ UNCHANGED job
  BY DEF TaskDies, EndTask, HeldInv, TypeOK, dbVars
<1>2. SessionOK(c)'
  BY <1>1 DEF SessionOK, IdleRun
<1>3. ActiveExclusive'
  BY <1>1 DEF HeldInv, ActiveExclusive
<1>4. \A j \in Jobs, w \in Workers : Held(j, w)' => Held(j, w) /\ ~Carries(c, w, j)
  BY <1>1 DEF Held, Carries
<1>. QED  BY <1>1, <1>2, <1>3, <1>4, RunStep

\* A process that is gone holds no row, and the tasks of the others stay.
LEMMA VanishKeepsInv ==
    ASSUME HeldInv, TypeOK', NEW w \in Workers, Vanish(w), UNCHANGED lost,
           run' = [c \in Runs |-> IF run[c].w = w THEN IdleRun ELSE run[c]]
    PROVE  HeldInv'
<1>1. \A j \in Jobs : /\ job'[j].status = job[j].status
                      /\ job'[j].worker = IF job[j].worker = w THEN GoneWorker ELSE job[j].worker
  BY DEF Vanish, HeldInv, TypeOK, Row
<1>2. \A c \in Runs : SessionOK(c)'
  BY DEF HeldInv, SessionOK, IdleRun
<1>3. ActiveExclusive'
  BY <1>1, EngineAssumption DEF HeldInv, ActiveExclusive
<1>4. Executed'
  <2> SUFFICES ASSUME NEW k \in Jobs, NEW v \in Workers, Held(k, v)'
               PROVE  \E d \in Runs : Carries(d, v, k)'
    BY DEF Executed
  <2>1. Held(k, v) /\ v # w
    BY <1>1, WorkerAssumption DEF Held
  <2>2. PICK d \in Runs : Carries(d, v, k)
    BY <2>1 DEF HeldInv, Executed
  <2>. QED  BY <2>1, <2>2 DEF Carries
<1>. QED  BY <1>2, <1>3, <1>4 DEF HeldInv

\* Every step preserves the invariant.
LEMMA NextKeepsHeldInv ==
    ASSUME HeldInv, [Next]_vars
    PROVE  HeldInv'
<1> USE DEF dbVars, workerVars, faultVars
<1>0. TypeOK'
  BY NextType DEF HeldInv
<1>1. CASE ApiStep \/ \E r \in Clients : ApiCommits(r)
  BY <1>0, <1>1, ApiSteps
<1>2. ASSUME NEW c \in Runs, TaskStep(c) PROVE HeldInv'
  BY <1>0, <1>2, QuietTaskSteps, CommitTaskSteps, ParkStep DEF TaskStep
<1>3. ASSUME NEW c \in Runs, Heartbeat(c) \/ Interrupt(c) PROVE HeldInv'
  BY <1>0, <1>3, QuietTaskSteps
<1>4. ASSUME NEW w \in Workers, ClaimStep(w) \/ ReapStep(w) PROVE HeldInv'
  BY <1>0, <1>4, ClaimKeepsInv, ReapKeepsInv DEF ClaimStep, ReapStep
<1>5. ASSUME NEW w \in Workers, Exit(w) PROVE HeldInv'
  <2>1. run' = [c \in Runs |-> IF run[c].w = w THEN IdleRun ELSE run[c]]
    BY <1>5 DEF Exit, RunsOf, HeldInv, TypeOK
  <2>. QED  BY <1>0, <1>5, <2>1, VanishKeepsInv DEF Exit
<1>6. ASSUME NEW w \in Workers, Crash(w) PROVE HeldInv'
  BY <1>0, <1>6, VanishKeepsInv DEF Crash
<1>7. ASSUME NEW c \in Runs, TaskDies(c) \/ PipelineError(c) PROVE HeldInv'
  BY <1>0, <1>7, TaskDiesKeepsInv, QuietTaskSteps
<1>8. ASSUME UNCHANGED <<job, run, lost>> PROVE HeldInv'
  BY <1>0, <1>8, SlotsUnchanged DEF HeldInv, ActiveExclusive, Held
<1>9. ASSUME NEW w \in Workers, Stop(w) \/ Restart(w) PROVE HeldInv'
  BY <1>8, <1>9 DEF Stop, Restart
<1>10. ASSUME NEW j \in Jobs, HeartbeatExpires(j) \/ HeartbeatsLost(j) PROVE HeldInv'
  BY <1>8, <1>10 DEF HeartbeatExpires, HeartbeatsLost
<1>11. CASE UNCHANGED vars
  BY <1>8, <1>11 DEF vars
<1>. QED  BY <1>1, <1>2, <1>3, <1>4, <1>5, <1>6, <1>7, <1>9, <1>10, <1>11 DEF Next, FaultStep

\* No row exists and no slot is in use at the start.
LEMMA InitHeldInv == Init => HeldInv
<1> SUFFICES ASSUME Init PROVE HeldInv
  OBVIOUS
<1>1. TypeOK
  BY InitType
<1>2. \A c \in Runs : SessionOK(c)
  BY DEF Init, SessionOK, IdleRun
<1>3. \A j \in Jobs : job[j].status = "ABSENT"
  BY DEF Init, AbsentRow
<1>4. ActiveExclusive /\ Executed
  BY <1>3, EngineAssumption DEF ActiveExclusive, Active, Executed, Held
<1>. QED  BY <1>1, <1>2, <1>4 DEF HeldInv

\* The inductive invariant of JobEngine.
THEOREM EngineInvariant == Spec => []HeldInv
BY InitHeldInv, NextKeepsHeldInv, PTL DEF Spec

\* A worker never holds a RUNNING job that none of its tasks is executing,
\* with stale requests, retries at any moment, lost heartbeats, crashes,
\* shutdowns and the reaper all interleaved (claim_due_jobs' promise).
THEOREM HeldJobsExecuted == Spec => []HeldJobsAreExecuted
<1>1. HeldInv => HeldJobsAreExecuted
  BY DEF HeldInv, Executed, Held, Carries, SessionPcs, HeldJobsAreExecuted, LiveTask, TaskPcs
<1>. QED  BY <1>1, EngineInvariant, PTL

\* Two jobs with one VM name or one static address are never active together:
\* no commit, however stale its session, gets past the partial unique indexes.
THEOREM RivalsExclusive == Spec => []ActiveExclusive
<1>1. HeldInv => ActiveExclusive
  BY DEF HeldInv
<1>. QED  BY <1>1, EngineInvariant, PTL
=============================================================================
