----------------------------- MODULE JobEngine ------------------------------
(***************************************************************************)
(* Worker processes, their job tasks and the API, all working on the rows  *)
(* of JobStore through sessions that may be stale.                         *)
(*                                                                         *)
(* A "run" is one asyncio task of JobEngine._process_job (or the tail of   *)
(* one reaper pass that is still removing answer media).  Its pc names the *)
(* await it is suspended at; every action takes it to the next await that  *)
(* other processes can observe, normally a commit.                         *)
(***************************************************************************)
EXTENDS JobStore, FiniteSets

CONSTANTS
    Jobs,           \* job ids
    Clash,          \* Clash[j]: jobs with j's VM name or static IPv4 address
    Runs,           \* task slots: bounds the tasks alive at one time
    Clients,        \* API requests that may be caught between read and commit
    Concurrency,    \* worker_concurrency
    Outcomes,       \* outcomes a stage handler may return
    RetryDuring,    \* points of a job's earlier task at which a retry may come
    CrashDuring,    \* points of its tasks at which a worker may crash
    ReleaseMayFail, \* TRUE: vCenter may refuse to remove the answer media
    MaxFaults,      \* bound on worker crashes and shutdowns
    MaxErrors,      \* bound on database errors that reach a task
    MaxOutages      \* bound on heartbeats lost while their worker lives

VARIABLES
    job,      \* the committed row of every job
    stale,    \* jobs whose heartbeat_at is older than worker_heartbeat_timeout
    ahead,    \* ahead[j]: jobs whose queued_at is earlier than j's
    media,    \* jobs whose answer media exists on the datastore (vCenter)
    run,      \* the task slots
    tasks,    \* tasks[w]: the keys of JobEngine._tasks of worker w
    up,       \* state of each worker process
    req,      \* API requests that have read a job and not committed yet
    lost,     \* jobs whose last task died of an error outside its guarded part
    faults,   \* crashes and shutdowns so far
    errors,   \* database errors so far
    outages   \* outages so far

dbVars == <<job, stale, ahead>>
workerVars == <<tasks, up>>
faultVars == <<lost, faults, errors, outages>>
vars == <<job, stale, ahead, media, run, tasks, up, req, lost, faults, errors,
          outages>>

\* Where a task can be suspended while its heartbeat loop runs.
PipelinePcs ==
    {"loop", "starting", "handler", "failing", "failed", "cancelling", "cancelled"}

TaskPcs == PipelinePcs \cup {"start", "loaded", "failbefore", "ending", "mark", "park"}

Pcs == TaskPcs \cup {"idle", "releasing", "released"}

ASSUME EngineAssumption ==
    /\ Jobs # {}
    /\ Clash \in [Jobs -> SUBSET Jobs]
    /\ \A j, k \in Jobs : j \in Clash[k] <=> k \in Clash[j]
    /\ \A j \in Jobs : j \notin Clash[j]
    /\ Concurrency \in Nat \ {0}
    /\ Outcomes \subseteq OutcomeStatuses
    /\ RetryDuring \subseteq Pcs
    /\ CrashDuring \subseteq Pcs
    /\ ReleaseMayFail \in BOOLEAN
    /\ MaxFaults \in Nat
    /\ MaxErrors \in Nat
    /\ MaxOutages \in Nat

Idle(c) == run[c].pc = "idle"

AnyJob == CHOOSE j \in Jobs : TRUE

\* A free slot holds no information.
IdleRun ==
    [pc |-> "idle", w |-> NoWorker, j |-> AnyJob, i |-> 0,
     base |-> AbsentRow, row |-> AbsentRow, ev |-> FALSE, eff |-> FALSE]

NewRun(pc, w, j, row) ==
    [IdleRun EXCEPT !.pc = pc, !.w = w, !.j = j, !.base = row, !.row = row]

RunType ==
    [pc : Pcs, w : Workers \cup {NoWorker}, j : Jobs, i : 0 .. NStages,
     base : Row, row : Row, ev : BOOLEAN, eff : BOOLEAN]

NoRequest == [kind |-> "none", j |-> AnyJob, row |-> AbsentRow, sel |-> {}]

RequestType ==
    [kind : {"none", "retry", "cancel"}, j : Jobs, row : Row, sel : SUBSET Stages]

\* The type invariant.
TypeOK ==
    /\ job \in [Jobs -> Row]
    /\ stale \subseteq Jobs
    /\ ahead \in [Jobs -> SUBSET Jobs]
    /\ media \subseteq Jobs
    /\ run \in [Runs -> RunType]
    /\ tasks \in [Workers -> SUBSET Jobs]
    /\ up \in [Workers -> {"up", "stopping", "down"}]
    /\ req \in [Clients -> RequestType]
    /\ lost \subseteq Jobs
    /\ faults \in 0 .. MaxFaults
    /\ errors \in 0 .. MaxErrors
    /\ outages \in 0 .. MaxOutages

Init ==
    /\ job = [j \in Jobs |-> AbsentRow]
    /\ stale = {}
    /\ ahead = [j \in Jobs |-> {}]
    /\ media = {}
    /\ run = [c \in Runs |-> IdleRun]
    /\ tasks = [w \in Workers |-> {}]
    /\ up = [w \in Workers |-> "up"]
    /\ req = [r \in Clients |-> NoRequest]
    /\ lost = {}
    /\ faults = 0
    /\ errors = 0
    /\ outages = 0

-----------------------------------------------------------------------------
(* Shared steps *)

\* Seeded fault: the partial unique indexes are missing.
IndexMissing(j, row) == TRUE

\* The partial unique indexes reject a row that becomes active beside a rival.
IndexAllows(j, row) ==
    row.status \in Active => \A k \in Clash[j] : job[k].status \notin Active

\* Seeded fault: a requeued job keeps the queued_at of its submission.
KeepsPlace(j) == ahead

\* queued_at := now() moves a job behind every other one.
ToBack(j) ==
    [k \in Jobs |-> IF k = j THEN Jobs \ {j} ELSE ahead[k] \ {j}]

Queued == {j \in Jobs : job[j].status = "QUEUED"}

FreeSlots(w) ==
    IF Cardinality(tasks[w]) < Concurrency THEN Concurrency - Cardinality(tasks[w]) ELSE 0

\* The main loop of w is inside reap_stale_jobs, removing media.
Reaping(w) == \E c \in Runs : run[c].w = w /\ run[c].pc \in {"releasing", "released"}

Alive(w) == up[w] # "down"

\* Some task of a live worker executes j (or is winding down).
LiveTask(w, j) == \E c \in Runs : run[c].pc \in TaskPcs /\ run[c].w = w /\ run[c].j = j

LiveRun(j) == \E c \in Runs : ~Idle(c) /\ run[c].j = j

Goto(c, pc) == run' = [run EXCEPT ![c].pc = pc]

\* The pipeline is through; publishing and stopping the heartbeat remain.
WindDown(c) == run' = [run EXCEPT ![c] = NewRun("ending", @.w, @.j, AbsentRow)]

\* The task ends; _done pops the job id from _tasks whichever task it names.
EndTask(c) ==
    /\ run' = [run EXCEPT ![c] = IdleRun]
    /\ tasks' = [tasks EXCEPT ![run[c].w] = @ \ {run[c].j}]

\* Commit the session of run c with its row changed to "row".
Commit(c, row) ==
    job' = [job EXCEPT ![run[c].j] = Flush(@, run[c].base, row)]

-----------------------------------------------------------------------------
(* The API: submission, retry and cancellation *)

\* create_job commits; the races before the INSERT are Submission's subject.
Submit(j) ==
    /\ job[j].status = "ABSENT"
    /\ IndexAllows(j, InsertedRow)
    /\ job' = [job EXCEPT ![j] = InsertedRow]
    /\ ahead' = ToBack(j)
    /\ UNCHANGED <<stale, media, run, workerVars, req, faultVars>>

RetryStatuses == {"FAILED", "PARTIALLY_COMPLETED", "CANCELLED", "INTERRUPTED"}

\* A retry names one stage that failed or was cancelled, or the whole job.
Selections(row) ==
    {Stages} \cup {{s} : s \in {t \in Stages : row.steps[t] \in {"FAILED", "CANCELLED"}}}

\* The conditions of retry_stages on the job as the request read it.
MayRetry(row, sel) ==
    /\ row.status \in RetryStatuses
    /\ sel \in Selections(row)
    /\ ResetSteps(row, sel) # {}

\* retry_stages from a session that loaded "row": has_active_job_for_vm and
\* the indexes reject a rival, otherwise the reset is committed.
RetryEffect(j, row, sel) ==
    LET new == Flush(job[j], row, ResetForRetry(row, sel)) IN
    IF IndexAllows(j, new)
    THEN /\ job' = [job EXCEPT ![j] = new]
         /\ ahead' = ToBack(j)
         /\ stale' = stale \ {j}
    ELSE UNCHANGED dbVars

\* Users see the new status before the task that wrote it has ended.
RetryAllowed(j) ==
    \A c \in Runs : Idle(c) \/ run[c].j # j \/ run[c].pc \in RetryDuring

RetryNow(j) ==
    \E sel \in Selections(job[j]) :
        /\ MayRetry(job[j], sel)
        /\ RetryAllowed(j)
        /\ RetryEffect(j, job[j], sel)
        /\ UNCHANGED <<media, run, workerVars, req, faultVars>>

MayCancel(row) == row.status \in {"QUEUED", "RUNNING", "INTERRUPTED"}

\* cancel_job from a session that loaded "row".
CancelEffect(j, row) ==
    LET new == Flush(job[j], row, CancelJob(row)) IN
    IF IndexAllows(j, new)
    THEN /\ job' = [job EXCEPT ![j] = new]
         /\ ahead' = IF CancelJob(row).status = "QUEUED" THEN ToBack(j) ELSE ahead
         /\ UNCHANGED stale
    ELSE UNCHANGED dbVars

CancelNow(j) ==
    /\ MayCancel(job[j])
    /\ CancelEffect(j, job[j])
    /\ UNCHANGED <<media, run, workerVars, req, faultVars>>

\* A request that is overtaken by other processes after it read the job.
RetryRead(r, j) ==
    \E sel \in Selections(job[j]) :
        /\ req[r].kind = "none"
        /\ MayRetry(job[j], sel)
        /\ RetryAllowed(j)
        /\ req' = [req EXCEPT ![r] = [kind |-> "retry", j |-> j, row |-> job[j], sel |-> sel]]
        /\ UNCHANGED <<dbVars, media, run, workerVars, faultVars>>

CancelRead(r, j) ==
    /\ req[r].kind = "none"
    /\ MayCancel(job[j])
    /\ req' = [req EXCEPT ![r] = [kind |-> "cancel", j |-> j, row |-> job[j], sel |-> {}]]
    /\ UNCHANGED <<dbVars, media, run, workerVars, faultVars>>

RetryCommit(r) ==
    /\ req[r].kind = "retry"
    /\ RetryEffect(req[r].j, req[r].row, req[r].sel)
    /\ req' = [req EXCEPT ![r] = NoRequest]
    /\ UNCHANGED <<media, run, workerVars, faultVars>>

CancelCommit(r) ==
    /\ req[r].kind = "cancel"
    /\ CancelEffect(req[r].j, req[r].row)
    /\ req' = [req EXCEPT ![r] = NoRequest]
    /\ UNCHANGED <<media, run, workerVars, faultVars>>

-----------------------------------------------------------------------------
(* Claiming and starting a task *)

\* Seeded fault: the claim does not look at the status it overwrites.
DueOrRunning(j) == job[j].status \in {"QUEUED", "RUNNING"}

\* The oldest queued job.
Due(j) == job[j].status = "QUEUED" /\ ahead[j] \cap Queued = {}

\* One row of claim_due_jobs and its _spawn.  A transaction that claims
\* several rows is a succession of such steps.
Claim(w, j, c) ==
    /\ up[w] = "up"
    /\ ~Reaping(w)
    /\ FreeSlots(w) > 0
    /\ Due(j)
    /\ Idle(c)
    /\ job' = [job EXCEPT ![j] = ClaimedRow(@, w)]
    /\ stale' = stale \ {j}
    /\ run' = [run EXCEPT ![c] = NewRun("start", w, j, AbsentRow)]
    /\ tasks' = [tasks EXCEPT ![w] = @ \cup {j}]
    /\ lost' = lost \ {j}
    /\ UNCHANGED <<ahead, media, up, req, faults, errors, outages>>

\* _execute_job reads the job and gives up unless this worker owns it.
Load(c) ==
    LET row == job[run[c].j] IN
    /\ run[c].pc = "start"
    /\ IF row.status = "RUNNING" /\ row.worker = run[c].w
       THEN /\ run' = [run EXCEPT ![c].pc = "loaded", ![c].base = row,
                                  ![c].row = EnsureSteps(row)]
            /\ UNCHANGED tasks
       ELSE EndTask(c)
    /\ UNCHANGED <<dbVars, media, up, req, faultVars>>

\* A database error outside the guarded part of the task: the exception is
\* never handled, the row stays as it is and no run is left for it.
TaskDies(c) ==
    /\ run[c].pc \in {"start", "loaded", "failbefore"}
    /\ errors < MaxErrors
    /\ errors' = errors + 1
    /\ lost' = lost \cup {run[c].j}
    /\ EndTask(c)
    /\ UNCHANGED <<dbVars, media, up, req, faults, outages>>

\* The context is built and the step rows are committed.
Ready(c) ==
    /\ run[c].pc = "loaded"
    /\ Commit(c, run[c].row)
    /\ run' = [run EXCEPT ![c].pc = "loop", ![c].base = run[c].row]
    /\ UNCHANGED <<stale, ahead, media, workerVars, req, faultVars>>

\* _build_context raised; _fail_before_pipeline comes next.
ContextFails(c) ==
    /\ run[c].pc = "loaded"
    /\ Goto(c, "failbefore")
    /\ UNCHANGED <<dbVars, media, workerVars, req, faultVars>>

FailBefore(c) ==
    /\ run[c].pc = "failbefore"
    /\ Commit(c, FailBeforePipeline(run[c].row))
    /\ WindDown(c)
    /\ UNCHANGED <<stale, ahead, media, workerVars, req, faultVars>>

-----------------------------------------------------------------------------
(* ProvisioningPipeline *)

\* Seeded fault: a resumed pipeline skips cancelled stages too.
TodoWithoutCancelled(c) ==
    {s \in Stages : s > run[c].i /\ run[c].row.steps[s] \notin Done \cup {"CANCELLED"}}

\* The stages the for loop of execute has not passed and does not skip.
Todo(c) ==
    {s \in Stages : s > run[c].i /\ run[c].row.steps[s] \notin Done}

\* Seeded fault: the cancel request found at a stage boundary is ignored.
CancelIgnored(row) == FALSE

CancelSeen(row) == row.cancel

\* execute picks the next stage from the session's copy of the steps, then
\* refreshes the job; a cancel request found there ends the pipeline.
Refresh(c) ==
    \E s \in Todo(c) :
        /\ run[c].pc = "loop"
        /\ \A t \in Todo(c) : s <= t
        /\ LET row == job[run[c].j] IN
           run' = [run EXCEPT ![c].base = row, ![c].row = row,
                              ![c].pc = IF CancelSeen(row) THEN "cancelling" ELSE "starting",
                              ![c].i = IF CancelSeen(row) THEN 0 ELSE s]
        /\ UNCHANGED <<dbVars, media, workerVars, req, faultVars>>

\* _run_stage marks the step RUNNING and commits; its handler starts.
StartStage(c) ==
    LET row == StageStarted(run[c].row, run[c].i) IN
    /\ run[c].pc = "starting"
    /\ Commit(c, row)
    /\ run' = [run EXCEPT ![c].pc = "handler", ![c].base = row, ![c].row = row,
                          ![c].eff = FALSE]
    /\ UNCHANGED <<stale, ahead, media, workerVars, req, faultVars>>

\* Inside stage_prepare_unattended_install: the media exists from here on,
\* whatever becomes of the stage.
AttachMedia(c) ==
    /\ run[c].pc = "handler"
    /\ run[c].i = StagePrepare
    /\ ~run[c].eff
    /\ media' = media \cup {run[c].j}
    /\ run' = [run EXCEPT ![c].eff = TRUE]
    /\ UNCHANGED <<dbVars, workerVars, req, faultVars>>

\* Inside stage_cleanup_unattended_media: the recorded media is removed, and
\* media_removed is set in the session before the rest of the stage runs.
CleanupMedia(c) ==
    /\ run[c].pc = "handler"
    /\ run[c].i = StageCleanup
    /\ ~run[c].eff
    /\ run[c].row.path
    /\ media' = media \ {run[c].j}
    /\ run' = [run EXCEPT ![c].eff = TRUE, ![c].row.removed = TRUE]
    /\ UNCHANGED <<dbVars, workerVars, req, faultVars>>

\* Seeded fault: the cleanup stage carries on when the removal fails.
HandlerCompleteAnyway(c) == run[c].i = StagePrepare => run[c].eff

\* The handler's own work that must precede its return is done.
HandlerComplete(c) ==
    /\ run[c].i = StagePrepare => run[c].eff
    /\ run[c].i = StageCleanup => run[c].eff \/ ~run[c].row.path

\* The preparation and the power-on have one outcome.
StageOk(c, outcome) ==
    LET row == StageFinished(run[c].row, run[c].i, outcome) IN
    /\ run[c].pc = "handler"
    /\ HandlerComplete(c)
    /\ run[c].i \in {StagePrepare, StagePowerOn} => outcome = "SUCCEEDED"
    /\ Commit(c, row)
    /\ run' = [run EXCEPT ![c].pc = "loop", ![c].base = row, ![c].row = row]
    /\ UNCHANGED <<stale, ahead, media, workerVars, req, faultVars>>

\* The handler raised or ran into its timeout.
StageFails(c) ==
    /\ run[c].pc = "handler"
    /\ run' = [run EXCEPT ![c].pc = "failing",
                          ![c].row = HandleFailure(run[c].row, run[c].i)]
    /\ UNCHANGED <<dbVars, media, workerVars, req, faultVars>>

\* cancel_event won the race against the handler.
StageCancelled(c) ==
    /\ run[c].pc = "handler"
    /\ run[c].ev
    /\ run' = [run EXCEPT ![c].pc = "cancelling",
                          ![c].row.steps[run[c].i] = "CANCELLED"]
    /\ UNCHANGED <<dbVars, media, workerVars, req, faultVars>>

AfterRelease == [failing |-> "failed", cancelling |-> "cancelled", releasing |-> "released"]

\* release_unattended_media: nothing recorded, removed, or refused by vCenter
\* (or, after an interruption, no context to reach vCenter with).
Release(c) ==
    /\ run[c].pc \in DOMAIN AfterRelease
    /\ \/ /\ MayHoldUnattendedMedia(run[c].row)
          /\ media' = media \ {run[c].j}
          /\ run' = [run EXCEPT ![c].pc = AfterRelease[@],
                                ![c].row = MediaReleased(run[c].row)]
       \/ /\ MayHoldUnattendedMedia(run[c].row) => ReleaseMayFail
          /\ run' = [run EXCEPT ![c].pc = AfterRelease[@]]
          /\ UNCHANGED media
    /\ UNCHANGED <<dbVars, workerVars, req, faultVars>>

\* Seeded fault: the failure path returns before its commit.
FailureNotCommitted(c) ==
    /\ run[c].pc = "failed"
    /\ WindDown(c)
    /\ UNCHANGED <<dbVars, media, workerVars, req, faultVars>>

\* _handle_failure commits after the release.
CommitFailure(c) ==
    /\ run[c].pc = "failed"
    /\ Commit(c, run[c].row)
    /\ WindDown(c)
    /\ UNCHANGED <<stale, ahead, media, workerVars, req, faultVars>>

\* _apply_cancellation commits after the release.  When it was called for a
\* cancelled stage (i # 0) execute carries on with the next stage.
CommitCancellation(c) ==
    LET row == ApplyCancellation(run[c].row) IN
    /\ run[c].pc = "cancelled"
    /\ Commit(c, row)
    /\ IF run[c].i = 0
       THEN WindDown(c)
       ELSE run' = [run EXCEPT ![c].pc = "loop", ![c].base = row, ![c].row = row]
    /\ UNCHANGED <<stale, ahead, media, workerVars, req, faultVars>>

Finalize(c) ==
    /\ run[c].pc = "loop"
    /\ Todo(c) = {}
    /\ Commit(c, FinalizeSuccess(run[c].row))
    /\ WindDown(c)
    /\ UNCHANGED <<stale, ahead, media, workerVars, req, faultVars>>

\* An exception inside the pipeline: rollback, re-read, fail the job.
PipelineError(c) ==
    LET row == job[run[c].j] IN
    /\ run[c].pc \in PipelinePcs
    /\ errors < MaxErrors
    /\ errors' = errors + 1
    /\ run' = [run EXCEPT ![c].pc = "failbefore", ![c].base = row, ![c].row = row]
    /\ UNCHANGED <<dbVars, media, workerVars, req, lost, faults, outages>>

TaskDone(c) ==
    /\ run[c].pc = "ending"
    /\ EndTask(c)
    /\ UNCHANGED <<dbVars, media, up, req, faultVars>>

-----------------------------------------------------------------------------
(* Heartbeat, shutdown, crash and the reaper *)

\* One beat of _heartbeat_loop: refresh the heartbeat and deliver a cancel
\* request; leave a job this worker finished alone; drop a job it lost.
Heartbeat(c) ==
    LET row == job[run[c].j]
        own == row.worker = run[c].w
    IN
    /\ run[c].pc \in PipelinePcs
    /\ \/ /\ own /\ row.status = "RUNNING"
          /\ stale' = stale \ {run[c].j}
          /\ run' = [run EXCEPT ![c].ev = @ \/ row.cancel]
          /\ UNCHANGED tasks
       \/ /\ ~(own /\ (row.status = "RUNNING" \/ row.status \in Terminal))
          /\ EndTask(c)
          /\ UNCHANGED stale
    /\ UNCHANGED <<job, ahead, media, up, req, faultVars>>

\* worker_heartbeat_timeout passes without a beat because no task of the
\* owner executes the job any more ...
HeartbeatExpires(j) ==
    /\ job[j].status = "RUNNING"
    /\ j \notin stale
    /\ \A w \in Workers : job[j].worker = w => ~LiveTask(w, j)
    /\ stale' = stale \cup {j}
    /\ UNCHANGED <<job, ahead, media, run, workerVars, req, faultVars>>

\* ... or because the beats of a live worker do not get through.
HeartbeatsLost(j) ==
    /\ job[j].status = "RUNNING"
    /\ j \notin stale
    /\ \E w \in Workers : job[j].worker = w /\ LiveTask(w, j)
    /\ outages < MaxOutages
    /\ outages' = outages + 1
    /\ stale' = stale \cup {j}
    /\ UNCHANGED <<job, ahead, media, run, workerVars, req, lost, faults, errors>>

\* Seeded fault: the reaper only looks at jobs of workers it knows.
StaleOfKnownWorker(w, j) ==
    job[j].status = "RUNNING" /\ j \in stale /\ j \notin tasks[w] /\ job[j].worker # GoneWorker

\* claim_stale_running_jobs, with the keys of _tasks as exclude_ids.
StaleRunning(w, j) == job[j].status = "RUNNING" /\ j \in stale /\ j \notin tasks[w]

\* reap_stale_jobs holds the row lock from its read to the commit of
\* _interrupt; the media is removed afterwards, without the lock.
Reap(w, j, c) ==
    /\ up[w] = "up"
    /\ ~Reaping(w)
    /\ StaleRunning(w, j)
    /\ Idle(c)
    /\ job' = [job EXCEPT ![j] = Interrupted(@)]
    /\ stale' = stale \ {j}
    /\ run' = [run EXCEPT ![c] = NewRun("releasing", w, j, Interrupted(job[j]))]
    /\ UNCHANGED <<ahead, media, workerVars, req, faultVars>>

\* The second commit of _interrupt.
CommitRelease(c) ==
    /\ run[c].pc = "released"
    /\ Commit(c, run[c].row)
    /\ EndTask(c)
    /\ UNCHANGED <<stale, ahead, media, up, req, faultVars>>

Stop(w) ==
    /\ up[w] = "up"
    /\ faults < MaxFaults
    /\ faults' = faults + 1
    /\ up' = [up EXCEPT ![w] = "stopping"]
    /\ UNCHANGED <<dbVars, media, run, tasks, req, lost, errors, outages>>

\* drain: the grace period is over, the task is cancelled.
Interrupt(c) ==
    /\ run[c].pc \in TaskPcs \ {"mark", "park"}
    /\ up[run[c].w] = "stopping"
    /\ run' = [run EXCEPT ![c] = NewRun("mark", @.w, @.j, AbsentRow)]
    /\ UNCHANGED <<dbVars, media, workerVars, req, faultVars>>

\* _mark_interrupted reads the job (no lock) ...
MarkInterrupted(c) ==
    LET row == job[run[c].j] IN
    /\ run[c].pc = "mark"
    /\ IF row.status = "RUNNING" /\ row.worker = run[c].w
       THEN /\ run' = [run EXCEPT ![c].pc = "park", ![c].base = row,
                                  ![c].row = Interrupted(row)]
            /\ UNCHANGED tasks
       ELSE EndTask(c)
    /\ UNCHANGED <<dbVars, media, up, req, faultVars>>

\* ... and _interrupt commits; an index violation is swallowed.
Park(c) ==
    LET new == Flush(job[run[c].j], run[c].base, run[c].row) IN
    /\ run[c].pc = "park"
    /\ IF IndexAllows(run[c].j, new)
       THEN /\ job' = [job EXCEPT ![run[c].j] = new]
            /\ stale' = stale \ {run[c].j}
            /\ run' = [run EXCEPT ![c].pc = "releasing", ![c].base = run[c].row]
            /\ UNCHANGED tasks
       ELSE EndTask(c) /\ UNCHANGED <<job, stale>>
    /\ UNCHANGED <<ahead, media, up, req, faultVars>>

RunsOf(w) == {c \in Runs : run[c].w = w}

\* A process is gone.  Its worker_id never comes back (make_worker_id), so the
\* rows that name it now name no process.
Vanish(w) ==
    /\ up' = [up EXCEPT ![w] = "down"]
    /\ tasks' = [tasks EXCEPT ![w] = {}]
    /\ job' = [j \in Jobs |-> IF job[j].worker = w
                              THEN [job[j] EXCEPT !.worker = GoneWorker] ELSE job[j]]

Exit(w) ==
    /\ up[w] = "stopping"
    /\ RunsOf(w) = {}
    /\ Vanish(w)
    /\ UNCHANGED <<stale, ahead, media, run, req, faultVars>>

\* The process dies wherever it is; sessions that were not committed are lost.
Crash(w) ==
    /\ Alive(w)
    /\ \A c \in RunsOf(w) : run[c].pc \in CrashDuring
    /\ faults < MaxFaults
    /\ faults' = faults + 1
    /\ Vanish(w)
    /\ run' = [c \in Runs |-> IF run[c].w = w THEN IdleRun ELSE run[c]]
    /\ UNCHANGED <<stale, ahead, media, req, lost, errors, outages>>

Restart(w) ==
    /\ up[w] = "down"
    /\ up' = [up EXCEPT ![w] = "up"]
    /\ UNCHANGED <<dbVars, media, run, tasks, req, faultVars>>

-----------------------------------------------------------------------------
(* The specification *)

ApiStep ==
    \/ \E j \in Jobs : Submit(j) \/ RetryNow(j) \/ CancelNow(j)
    \/ \E r \in Clients, j \in Jobs : RetryRead(r, j) \/ CancelRead(r, j)

ApiCommits(r) == RetryCommit(r) \/ CancelCommit(r)

\* What a task does by itself, each step at the latest when its timeout fires.
TaskStep(c) ==
    \/ Load(c) \/ Ready(c) \/ ContextFails(c) \/ FailBefore(c)
    \/ Refresh(c) \/ StartStage(c) \/ AttachMedia(c) \/ CleanupMedia(c)
    \/ \E outcome \in Outcomes : StageOk(c, outcome)
    \/ StageFails(c) \/ StageCancelled(c)
    \/ Release(c) \/ CommitFailure(c) \/ CommitCancellation(c) \/ Finalize(c)
    \/ TaskDone(c) \/ MarkInterrupted(c) \/ Park(c) \/ CommitRelease(c)

ClaimStep(w) == \E j \in Jobs, c \in Runs : Claim(w, j, c)

ReapStep(w) == \E j \in Jobs, c \in Runs : Reap(w, j, c)

FaultStep ==
    \/ \E j \in Jobs : HeartbeatsLost(j)
    \/ \E c \in Runs : TaskDies(c) \/ PipelineError(c)
    \/ \E w \in Workers : Stop(w) \/ Crash(w)

Next ==
    \/ ApiStep
    \/ \E r \in Clients : ApiCommits(r)
    \/ \E c \in Runs : TaskStep(c) \/ Heartbeat(c) \/ Interrupt(c)
    \/ \E w \in Workers : ClaimStep(w) \/ ReapStep(w) \/ Exit(w) \/ Restart(w)
    \/ \E j \in Jobs : HeartbeatExpires(j)
    \/ FaultStep

\* Users owe nothing.  Processes, timers and the supervisor that restarts a
\* stopped worker take their steps.
Fairness ==
    /\ \A r \in Clients : WF_vars(ApiCommits(r))
    /\ \A c \in Runs : WF_vars(TaskStep(c)) /\ WF_vars(Heartbeat(c)) /\ WF_vars(Interrupt(c))
    /\ \A w \in Workers : /\ WF_vars(ClaimStep(w)) /\ WF_vars(ReapStep(w))
                          /\ WF_vars(Exit(w)) /\ WF_vars(Restart(w))
    /\ \A j \in Jobs : WF_vars(HeartbeatExpires(j))

Spec == Init /\ [][Next]_vars

FairSpec == Spec /\ Fairness

-----------------------------------------------------------------------------
(* Properties *)

\* A worker never holds a RUNNING job that none of its tasks is executing
\* (claim_due_jobs' docstring), unless a database error killed the task
\* outside its guarded part (lost): whatever finishes, loses, cancels or
\* interrupts a task has first taken the row out of RUNNING or seen that
\* somebody else did.
HeldJobsAreExecuted ==
    \A j \in Jobs, w \in Workers :
        job[j].status = "RUNNING" /\ job[j].worker = w /\ j \notin lost => LiveTask(w, j)

\* No two pipelines work on one job: a second task is never inside execute
\* while another one is (claims, reaper, drain and retry exclude each other).
ExclusiveExecution ==
    \A c, d \in Runs :
        c # d /\ run[c].pc \in PipelinePcs /\ run[d].pc \in PipelinePcs => run[c].j # run[d].j

\* "drives the pipeline with bounded concurrency" (engine.py): a worker runs at
\* most worker_concurrency tasks.  free_slots counts the keys of _tasks, which
\* has one entry per job, not per task: a cancelled task that is still inside
\* its stage when the job is claimed again is not counted.
TasksWithinConcurrency ==
    \A w \in Workers :
        Cardinality({c \in Runs : run[c].w = w /\ run[c].pc \in TaskPcs}) <= Concurrency

\* Retries and interruptions keep every successful stage ("completed stages
\* are not repeated"); only a preparation whose media was removed before the
\* VM booted from it is undone.
CompletedStagesAreKept ==
    [][\A j \in Jobs, s \in Stages :
         job[j].steps[s] \in Done /\ s # StagePrepare => job'[j].steps[s] \in Done]_vars

\* "A worker that loses ownership of a job stops executing it."
\* (docs/architecture.md): an INTERRUPTED job waits for a retry or a
\* cancellation, and the task that lost it does not write to it any more.
InterruptedIsParked ==
    [][\A j \in Jobs :
         job[j].status = "INTERRUPTED" =>
             job'[j].status \in {"INTERRUPTED", "QUEUED", "CANCELLED"}]_vars

\* COMPLETED means that every stage, final validation included, was applied
\* and verified.
CompletedIsVerified ==
    \A j \in Jobs, s \in Stages : job[j].status = "COMPLETED" => job[j].steps[s] \in Done

\* The same for jobs nobody asked to cancel.
UncancelledCompletedIsVerified ==
    \A j \in Jobs, s \in Stages :
        job[j].status = "COMPLETED" /\ ~job[j].cancel => job[j].steps[s] \in Done

\* The VM is powered on only with the answer media in its drive: a retry that
\* finds the media gone prepares it again.
PowerOnHasMedia ==
    \A c \in Runs : run[c].pc = "handler" /\ run[c].i = StagePowerOn => run[c].j \in media

\* The job has stopped for good (until a retry) and nobody is cleaning up.
AtRest(j) == job[j].status \in Terminal /\ ~LiveRun(j)

\* Answer media recorded on the preparation step is gone once the job is at
\* rest, whichever path ended it.
RecordedMediaIsReleased ==
    \A j \in Jobs : AtRest(j) /\ job[j].path => j \notin media

\* Media that outlives a job is marked as removed by an earlier attempt: every
\* failure, cancellation and interruption path releases unmarked media.
UnmarkedMediaIsReleased ==
    \A j \in Jobs : AtRest(j) /\ job[j].path /\ ~job[j].removed => j \notin media

\* A job parked by the reaper or by a shutdown can be retried: "retry resumes
\* at the interrupted stage".
InterruptedCanBeRetried ==
    \A j \in Jobs : job[j].status = "INTERRUPTED" => ResetSteps(job[j], Stages) # {}

\* A completed deployment leaves no answer media behind.
CompletedHasNoMedia ==
    \A j \in Jobs : job[j].status = "COMPLETED" => j \notin media

\* A RUNNING job does not stay RUNNING: its stages time out, or its worker's
\* heartbeat does and the reaper parks it.
RunningEnds == \A j \in Jobs : job[j].status = "RUNNING" ~> job[j].status # "RUNNING"

\* A queued job is claimed or cancelled, however often others are requeued.
QueuedIsClaimed == \A j \in Jobs : job[j].status = "QUEUED" ~> job[j].status # "QUEUED"

\* A cancelled job that was handed back to a worker for its media ends
\* without running to completion, unless it is interrupted or retried.
CancelHandoverEnds ==
    \A j \in Jobs :
        job[j].status = "QUEUED" /\ job[j].cancel
            ~> job[j].status \in {"CANCELLED", "FAILED", "INTERRUPTED"} \/ ~job[j].cancel

=============================================================================
