------------------------------ MODULE JobStore ------------------------------
(***************************************************************************)
(* The provisioning_jobs row (with its provisioning_job_steps) and what    *)
(* each repository, service and pipeline operation does to one.            *)
(*                                                                         *)
(* A row is modelled by the attributes some decision reads: status,        *)
(* cancel_requested, worker_id, the step statuses, and the two artifacts   *)
(* of the preparation step that steer the answer-media release.  Texts,    *)
(* timestamps, progress and the display sub-statuses are left out;         *)
(* heartbeat_at is the variable "stale" of JobEngine and queued_at its     *)
(* variable "ahead".                                                       *)
(*                                                                         *)
(* The module has no variables: every operator maps a row to a row, and    *)
(* JobEngine says who applies it to which copy of the row and when.        *)
(***************************************************************************)
EXTENDS Naturals

CONSTANTS
    NStages,        \* number of stages in ORDERED_STAGES
    StageCreate,    \* position of create_vm, 0 when the instance has none
    StagePrepare,   \* position of prepare_unattended_install, or 0
    StagePowerOn,   \* position of power_on, or 0
    StageCleanup,   \* position of cleanup_unattended_media, or 0
    Workers,        \* worker ids of processes that may be alive
    NoWorker,       \* worker_id NULL
    GoneWorker      \* the worker_id of a process that no longer exists

ASSUME StageAssumption ==
    /\ NStages \in Nat \ {0}
    /\ {StageCreate, StagePrepare, StagePowerOn, StageCleanup} \subseteq 0 .. NStages

ASSUME WorkerAssumption ==
    /\ NoWorker \notin Workers
    /\ GoneWorker \notin Workers
    /\ NoWorker # GoneWorker

Stages == 1 .. NStages

\* ABSENT: the row has not been inserted yet.
JobStatuses ==
    {"ABSENT", "QUEUED", "RUNNING", "COMPLETED", "PARTIALLY_COMPLETED",
     "FAILED", "CANCELLED", "INTERRUPTED"}

Terminal == {"COMPLETED", "PARTIALLY_COMPLETED", "FAILED", "CANCELLED"}

Active == {"QUEUED", "RUNNING", "INTERRUPTED"}

\* NONE: ensure_steps has not created the step row yet.
StepStatuses ==
    {"NONE", "PENDING", "RUNNING", "SUCCEEDED", "FAILED", "SKIPPED",
     "WARNING", "NOT_APPLICABLE", "CANCELLED"}

\* The statuses ProvisioningPipeline.execute skips on a resume.
Done == {"SUCCEEDED", "SKIPPED", "WARNING", "NOT_APPLICABLE"}

\* The statuses a StageOutcome may carry.
OutcomeStatuses == {"SUCCEEDED", "SKIPPED", "WARNING", "NOT_APPLICABLE"}

Row ==
    [status  : JobStatuses,
     cancel  : BOOLEAN,
     worker  : Workers \cup {NoWorker, GoneWorker},
     steps   : [Stages -> StepStatuses],
     path    : BOOLEAN,   \* prepare.artifacts has a datastore_path
     removed : BOOLEAN]   \* prepare.artifacts has media_removed

AbsentRow ==
    [status |-> "ABSENT", cancel |-> FALSE, worker |-> NoWorker,
     steps |-> [s \in Stages |-> "NONE"], path |-> FALSE, removed |-> FALSE]

-----------------------------------------------------------------------------
(***************************************************************************)
(* Sessions.  A SQLAlchemy session keeps the attributes as it loaded them  *)
(* and as the code changed them; a commit issues UPDATEs for the changed   *)
(* attributes only and leaves every other column as other sessions wrote   *)
(* it.  There is no version column and the API takes no row lock.          *)
(***************************************************************************)
Changed(db, loaded, mine) == IF mine # loaded THEN mine ELSE db

\* The artifacts of the preparation are one column.
Flush(db, loaded, mine) ==
    LET artifacts == IF mine.path # loaded.path \/ mine.removed # loaded.removed THEN mine ELSE db
    IN [status  |-> Changed(db.status, loaded.status, mine.status),
        cancel  |-> Changed(db.cancel, loaded.cancel, mine.cancel),
        worker  |-> Changed(db.worker, loaded.worker, mine.worker),
        steps   |-> [s \in Stages |-> Changed(db.steps[s], loaded.steps[s], mine.steps[s])],
        path    |-> artifacts.path,
        removed |-> artifacts.removed]

-----------------------------------------------------------------------------
(* Repository operations *)

InsertedRow == [AbsentRow EXCEPT !.status = "QUEUED"]

ClaimedRow(row, w) == [row EXCEPT !.status = "RUNNING", !.worker = w]

EnsureSteps(row) ==
    [row EXCEPT !.steps =
        [s \in Stages |-> IF row.steps[s] = "NONE" THEN "PENDING" ELSE row.steps[s]]]

\* PENDING and RUNNING steps become CANCELLED (three callers share the loop).
StepsCancelled(steps) ==
    [s \in Stages |-> IF steps[s] \in {"PENDING", "RUNNING"} THEN "CANCELLED" ELSE steps[s]]

\* Seeded fault: the status of the step is not looked at.
ResetAllSteps(row, sel) == sel

\* Steps reset_for_retry puts back to PENDING when it is asked for "sel".
ResetSteps(row, sel) ==
    {s \in sel : \/ row.steps[s] \in {"FAILED", "CANCELLED"}
                 \/ row.steps[s] = "RUNNING" /\ row.status = "INTERRUPTED"}

ResetForRetry(row, sel) ==
    [row EXCEPT
        !.steps = [s \in Stages |->
            IF s \in ResetSteps(row, sel) THEN "PENDING" ELSE row.steps[s]],
        !.status = "QUEUED",
        !.cancel = FALSE,
        !.worker = NoWorker]

Booted(row) ==
    StagePowerOn # 0 /\ row.steps[StagePowerOn] \in {"SUCCEEDED", "SKIPPED"}

\* Seeded fault: media is forgotten once the VM has booted from it.
MayHoldUntilBoot(row) == row.path /\ ~row.removed /\ ~Booted(row)

\* may_hold_unattended_media; release_unattended_media tests the same thing.
MayHoldUnattendedMedia(row) ==
    /\ row.path
    /\ ~row.removed
    /\ StageCleanup # 0 => row.steps[StageCleanup] # "SUCCEEDED"

RequestCancel(row) ==
    IF row.status \in {"QUEUED", "INTERRUPTED"}
    THEN [row EXCEPT !.cancel = TRUE, !.status = "CANCELLED",
                     !.steps = StepsCancelled(row.steps)]
    ELSE [row EXCEPT !.cancel = TRUE]

\* cancel_job: an INTERRUPTED job that may hold media goes back to the queue
\* so that a worker removes the media before the job becomes CANCELLED.
CancelJob(row) ==
    IF row.status = "INTERRUPTED" /\ MayHoldUnattendedMedia(row)
    THEN [row EXCEPT !.cancel = TRUE, !.status = "QUEUED"]
    ELSE RequestCancel(row)

-----------------------------------------------------------------------------
(* Pipeline and engine operations *)

StageStarted(row, i) == [row EXCEPT !.steps[i] = "RUNNING"]

\* The outcome's artifacts are merged into the step's, so a recorded
\* media_removed survives the datastore_path of a later preparation.
StageFinished(row, i, outcome) ==
    [row EXCEPT !.steps[i] = outcome,
                !.path = row.path \/ i = StagePrepare]

VmCreated(row) ==
    StageCreate # 0 /\ row.steps[StageCreate] \in {"SUCCEEDED", "SKIPPED"}

\* Seeded fault: a status outside the enum.
FailureWithUnknownStatus(row, i) == [row EXCEPT !.steps[i] = "FAILED", !.status = "ERROR"]

HandleFailure(row, i) ==
    [row EXCEPT
        !.steps[i] = "FAILED",
        !.status = IF VmCreated([row EXCEPT !.steps[i] = "FAILED"])
                   THEN "PARTIALLY_COMPLETED" ELSE "FAILED"]

FinalizeSuccess(row) == [row EXCEPT !.status = "COMPLETED"]

ApplyCancellation(row) ==
    [row EXCEPT !.steps = StepsCancelled(row.steps), !.status = "CANCELLED"]

FailBeforePipeline(row) ==
    [row EXCEPT !.status = "FAILED", !.worker = NoWorker,
                !.steps = StepsCancelled(row.steps)]

Interrupted(row) ==
    [row EXCEPT
        !.steps = [s \in Stages |-> IF row.steps[s] = "RUNNING" THEN "FAILED" ELSE row.steps[s]],
        !.status = "INTERRUPTED",
        !.worker = NoWorker]

\* Seeded fault: the preparation keeps its status.
MediaReleasedWithoutReset(row) == [row EXCEPT !.removed = TRUE]

\* What release_unattended_media records once vCenter removed the media: the
\* preparation is reset when the VM has not booted from it yet.
MediaReleased(row) ==
    [row EXCEPT
        !.removed = TRUE,
        !.steps = [s \in Stages |->
            IF s = StagePrepare /\ row.steps[s] = "SUCCEEDED" /\ ~Booted(row)
            THEN "PENDING" ELSE row.steps[s]]]

=============================================================================
