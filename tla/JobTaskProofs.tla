--------------------------- MODULE JobTaskProofs ----------------------------
(***************************************************************************)
(* What JobEngine guarantees as long as nobody acts on a job behind the    *)
(* back of its task: a job has one task, a worker has at most              *)
(* worker_concurrency, finished stages stay finished, an uncancelled job   *)
(* completes with every stage done, and the statuses follow JobLifecycle.  *)
(* The second half follows the answer media: a completed job has none, the *)
(* VM never boots without it, and a job at rest has released what it had.  *)
(* Jobs, workers, tasks, stages, rivals, crashes, shutdowns, database      *)
(* errors and refused media removals are unbounded (the last two theorems  *)
(* exclude errors, refusals and a kill inside an interruption: Orderly).   *)
(***************************************************************************)
EXTENDS JobEngineProofs, JobEngineRefines, FiniteSetTheorems, TLAPS

-----------------------------------------------------------------------------
(* The inductive invariant *)

\* Nobody acts on a job behind the back of its task: users retry a job when
\* its task has ended, no request is overtaken between its read and its
\* commit, and the beats of a live worker get through.
Calm == RetryDuring = {} /\ Clients = {} /\ MaxOutages = 0

ReleasePcs == {"releasing", "released"}

RowOf(c) == job[run[c].j]

\* A task has a key in its worker's _tasks and a row that is its worker's, or
\* that is finished.
TaskInv(c) ==
    run[c].pc \in TaskPcs =>
        /\ run[c].w \in Workers /\ run[c].j \in tasks[run[c].w]
        /\ RowOf(c).status \in Terminal \cup {"RUNNING"}
        /\ RowOf(c).status = "RUNNING" => RowOf(c).worker = run[c].w /\ run[c].j \notin stale

\* Two sessions hold one step, except that of the preparation, in one status.
SameSteps(a, b) == \A s \in Stages : s # StagePrepare => a.steps[s] = b.steps[s]

\* Nothing that was done in "a" is undone in "b".
KeepsDone(a, b) ==
    \A s \in Stages : s # StagePrepare /\ a.steps[s] \in Done => b.steps[s] \in Done

\* A session knows the row, and knows all of it unless the job is being cancelled.
SessionInv(c) ==
    run[c].pc \in SessionPcs =>
        /\ RowOf(c).status = run[c].base.status
        /\ RowOf(c).status \in {"RUNNING", "CANCELLED"}
        /\ run[c].row.cancel = run[c].base.cancel
        /\ run[c].pc # "park" => run[c].row.worker = run[c].base.worker
        /\ SameSteps(RowOf(c), run[c].base)
        /\ KeepsDone(run[c].base, run[c].row)
        /\ ~RowOf(c).cancel => RowOf(c) = run[c].base /\ RowOf(c).status = "RUNNING"

\* Where a task may be while its job is, or is not, being cancelled.
CancelInv(c) ==
    /\ run[c].pc \in PipelinePcs \cup {"start", "loaded"} /\ run[c].ev => RowOf(c).cancel
    /\ run[c].pc \in {"cancelling", "cancelled"} => RowOf(c).cancel
    /\ run[c].pc \in {"loaded", "starting", "handler", "failing", "failed", "park"} =>
         RowOf(c).status = "RUNNING"
    /\ run[c].pc = "failbefore" /\ MaxErrors = 0 => RowOf(c).status = "RUNNING"

\* How far execute has come.
ProgressInv(c) ==
    /\ run[c].pc \in {"failing", "failed"} => run[c].row.status \in {"FAILED", "PARTIALLY_COMPLETED"}
    /\ run[c].pc \in {"start", "loaded"} => run[c].i = 0
    /\ run[c].pc \in {"loop", "starting"} => run[c].row = run[c].base
    /\ run[c].pc \in {"starting", "handler"} => run[c].i \in Stages
    /\ run[c].pc = "starting" => run[c].i = StagePrepare \/ run[c].row.steps[run[c].i] \notin Done
    /\ run[c].pc = "handler" => run[c].base.steps[run[c].i] \notin Done
    /\ run[c].pc = "loop" /\ ~RowOf(c).cancel =>
         \A s \in Stages : s <= run[c].i => run[c].row.steps[s] \in Done
    /\ run[c].pc \in {"starting", "handler"} /\ ~RowOf(c).cancel =>
         \A s \in Stages : s < run[c].i => run[c].row.steps[s] \in Done

\* What is left of an interrupted task only records the removal of the media.
ReleaseInv(c) ==
    run[c].pc \in ReleasePcs =>
        /\ run[c].w \in Workers
        /\ RowOf(c).status # "ABSENT"
        /\ RowOf(c).status = "INTERRUPTED" \/ RowOf(c).cancel
        /\ run[c].row.status = run[c].base.status /\ run[c].row.worker = run[c].base.worker
        /\ run[c].row.cancel = run[c].base.cancel /\ SameSteps(run[c].row, run[c].base)

RunInv(c) == TaskInv(c) /\ SessionInv(c) /\ CancelInv(c) /\ ProgressInv(c) /\ ReleaseInv(c)

\* A job has one task, and the worker that still releases its media has none for it.
AloneInv ==
    \A c, d \in Runs :
        /\ c # d /\ run[c].pc \in TaskPcs /\ run[d].pc \in TaskPcs => run[c].j # run[d].j
        /\ run[c].pc \in TaskPcs /\ run[d].pc \in ReleasePcs /\ run[c].w = run[d].w => run[c].j # run[d].j

KeysInv == \A w \in Workers : IsFiniteSet(tasks[w]) /\ Cardinality(tasks[w]) <= Concurrency

\* No stage of a job that was never submitted is done.
AbsentInv ==
    \A j \in Jobs, s \in Stages :
        job[j].status = "ABSENT" /\ s # StagePrepare => job[j].steps[s] \notin Done

RowsInv == UncancelledCompletedIsVerified /\ AbsentInv

CalmInv ==
    /\ HeldInv
    /\ \A c \in Runs : RunInv(c)
    /\ AloneInv /\ KeysInv
    /\ RowsInv

-----------------------------------------------------------------------------
(* What a step does to the rows *)

\* The edges of the lifecycle, and the one a database error adds: the pipeline
\* of a cancelled stage carries on, and an exception there fails the job.
Edges ==
    {<<"ABSENT", "QUEUED">>, <<"QUEUED", "RUNNING">>, <<"RUNNING", "INTERRUPTED">>,
     <<"QUEUED", "CANCELLED">>, <<"INTERRUPTED", "CANCELLED">>, <<"INTERRUPTED", "QUEUED">>,
     <<"CANCELLED", "COMPLETED">>}
        \cup ({"RUNNING"} \X Terminal)
        \cup ((Terminal \ {"COMPLETED"}) \X {"QUEUED"})

Edge(a, b) ==
    \/ a = b
    \/ <<a, b>> \in Edges
    \/ MaxErrors # 0 /\ a = "CANCELLED" /\ b = "FAILED"

\* At most one status changes, along an edge, and past the indexes when the
\* job is queued; nothing done is undone.
RowStep(j) ==
    /\ \A k \in Jobs : KeepsDone(job[k], job'[k])
    /\ \A k \in Jobs \ {j} : job'[k].status = job[k].status
    /\ Edge(job[j].status, job'[j].status)
    /\ (job'[j].status = "QUEUED" /\ job[j].status # "QUEUED") =>
         \A k \in Clash[j] : job[k].status \notin Active

RowsStep == \E j \in Jobs : RowStep(j)

-----------------------------------------------------------------------------
(* Rows *)

\* No operation of a task touches cancel_requested.
LEMMA CancelOfOperations ==
    ASSUME NEW row \in Row, NEW i \in 0 .. NStages, NEW w
    PROVE  /\ EnsureSteps(row).cancel = row.cancel
           /\ StageStarted(row, i).cancel = row.cancel
           /\ \A o : StageFinished(row, i, o).cancel = row.cancel
           /\ HandleFailure(row, i).cancel = row.cancel
           /\ FinalizeSuccess(row).cancel = row.cancel
           /\ ApplyCancellation(row).cancel = row.cancel
           /\ FailBeforePipeline(row).cancel = row.cancel
           /\ Interrupted(row).cancel = row.cancel
           /\ MediaReleased(row).cancel = row.cancel
           /\ ClaimedRow(row, w).cancel = row.cancel
<1>1. /\ EnsureSteps(row).cancel = row.cancel
      /\ StageStarted(row, i).cancel = row.cancel
      /\ \A o : StageFinished(row, i, o).cancel = row.cancel
      /\ HandleFailure(row, i).cancel = row.cancel
  BY DEF EnsureSteps, StageStarted, StageFinished, HandleFailure, Row
<1>2. /\ FinalizeSuccess(row).cancel = row.cancel
      /\ ApplyCancellation(row).cancel = row.cancel
      /\ FailBeforePipeline(row).cancel = row.cancel
  BY DEF FinalizeSuccess, ApplyCancellation, FailBeforePipeline, Row
<1>3. /\ Interrupted(row).cancel = row.cancel
      /\ MediaReleased(row).cancel = row.cancel
      /\ ClaimedRow(row, w).cancel = row.cancel
  BY DEF Interrupted, MediaReleased, ClaimedRow, Row
<1>. QED  BY <1>1, <1>2, <1>3

\* Repository operations, cancellations and interruptions undo nothing.
LEMMA OperationsKeepDone ==
    ASSUME NEW row \in Row, NEW sel \in SUBSET Stages, NEW w
    PROVE  /\ KeepsDone(row, EnsureSteps(row))
           /\ KeepsDone(row, ResetForRetry(row, sel))
           /\ KeepsDone(row, CancelJob(row))
           /\ KeepsDone(row, FinalizeSuccess(row))
           /\ KeepsDone(row, ApplyCancellation(row))
           /\ KeepsDone(row, FailBeforePipeline(row))
           /\ KeepsDone(row, Interrupted(row))
           /\ KeepsDone(row, ClaimedRow(row, w))
           /\ SameSteps(row, MediaReleased(row))
<1>1. KeepsDone(row, EnsureSteps(row))
  BY DEF KeepsDone, EnsureSteps, Row, Done
<1>2. KeepsDone(row, ResetForRetry(row, sel))
  BY DEF KeepsDone, ResetForRetry, ResetSteps, Row, Done
<1>3. KeepsDone(row, CancelJob(row))
  BY DEF KeepsDone, CancelJob, RequestCancel, StepsCancelled, Row, Done
<1>4. KeepsDone(row, FinalizeSuccess(row)) /\ KeepsDone(row, ClaimedRow(row, w))
  BY DEF KeepsDone, FinalizeSuccess, ClaimedRow, Row
<1>5. KeepsDone(row, ApplyCancellation(row)) /\ KeepsDone(row, FailBeforePipeline(row))
  BY DEF KeepsDone, ApplyCancellation, FailBeforePipeline, StepsCancelled, Row, Done
<1>6. KeepsDone(row, Interrupted(row))
  BY DEF KeepsDone, Interrupted, Row, Done
<1>7. SameSteps(row, MediaReleased(row))
  BY DEF SameSteps, MediaReleased, Row
<1>. QED  BY <1>1, <1>2, <1>3, <1>4, <1>5, <1>6, <1>7

\* What the operations on one stage do to the steps.
LEMMA StepsOfStage ==
    ASSUME NEW row \in Row, NEW i \in Stages, NEW s \in Stages
    PROVE  /\ StageStarted(row, i).steps[s] = IF s = i THEN "RUNNING" ELSE row.steps[s]
           /\ \A o : StageFinished(row, i, o).steps[s] = IF s = i THEN o ELSE row.steps[s]
           /\ HandleFailure(row, i).steps[s] = IF s = i THEN "FAILED" ELSE row.steps[s]
           /\ [row EXCEPT !.steps[i] = "CANCELLED"].steps[s] = IF s = i THEN "CANCELLED" ELSE row.steps[s]
BY DEF StageStarted, StageFinished, HandleFailure, Row

\* A stage that fails leaves the job failed.
LEMMA FailureStatus ==
    ASSUME NEW row \in Row, NEW i \in 0 .. NStages
    PROVE  HandleFailure(row, i).status \in {"FAILED", "PARTIALLY_COMPLETED"}
BY DEF HandleFailure, Row

\* Keeping and agreeing compose.
LEMMA StepsCompose ==
    ASSUME NEW a, NEW b, NEW d
    PROVE  /\ SameSteps(a, a) /\ KeepsDone(a, a)
           /\ SameSteps(a, b) => SameSteps(b, a) /\ KeepsDone(a, b)
           /\ SameSteps(a, b) /\ SameSteps(b, d) => SameSteps(a, d)
           /\ KeepsDone(a, b) /\ KeepsDone(b, d) => KeepsDone(a, d)
BY DEF SameSteps, KeepsDone

\* A session that knows the status and the steps of the row writes its own.
LEMMA FlushAgrees ==
    ASSUME NEW db \in Row, NEW base \in Row, NEW row \in Row
    PROVE  /\ Flush(db, base, row) \in Row
           /\ (db.status = base.status => Flush(db, base, row).status = row.status)
           /\ (row.cancel = base.cancel => Flush(db, base, row).cancel = db.cancel)
           /\ (row.worker = base.worker => Flush(db, base, row).worker = db.worker)
           /\ (row.status = base.status => Flush(db, base, row).status = db.status)
           /\ (SameSteps(db, base) => SameSteps(Flush(db, base, row), row))
           /\ (SameSteps(row, base) => SameSteps(Flush(db, base, row), db))
           /\ (db = base => Flush(db, base, row) = row)
<1>1. Flush(db, base, row) \in Row
  BY FlushRow
<1>2. /\ (db.status = base.status => Flush(db, base, row).status = row.status)
      /\ (row.cancel = base.cancel => Flush(db, base, row).cancel = db.cancel)
      /\ (row.worker = base.worker => Flush(db, base, row).worker = db.worker)
      /\ (row.status = base.status => Flush(db, base, row).status = db.status)
  BY DEF Flush, Changed
<1>3. \A s \in Stages : Flush(db, base, row).steps[s] = Changed(db.steps[s], base.steps[s], row.steps[s])
  BY DEF Flush
<1>4. (SameSteps(db, base) => SameSteps(Flush(db, base, row), row))
  BY <1>3 DEF SameSteps, Changed
<1>5. (SameSteps(row, base) => SameSteps(Flush(db, base, row), db))
  BY <1>3 DEF SameSteps, Changed
<1>6. ASSUME db = base PROVE Flush(db, base, row) = row
  <2>1. row = [status |-> row.status, cancel |-> row.cancel, worker |-> row.worker,
               steps |-> row.steps, path |-> row.path, removed |-> row.removed]
    BY DEF Row
  <2>2. row.steps = [s \in Stages |-> row.steps[s]]
    BY DEF Row
  <2>3. [s \in Stages |-> Changed(db.steps[s], base.steps[s], row.steps[s])] = [s \in Stages |-> row.steps[s]]
    BY <1>6 DEF Changed
  <2>4. /\ Changed(db.status, base.status, row.status) = row.status
        /\ Changed(db.cancel, base.cancel, row.cancel) = row.cancel
        /\ Changed(db.worker, base.worker, row.worker) = row.worker
    BY <1>6 DEF Changed
  <2>5. LET artifacts == IF row.path # base.path \/ row.removed # base.removed THEN row ELSE db
        IN artifacts.path = row.path /\ artifacts.removed = row.removed
    BY <1>6
  <2>. QED  BY <2>1, <2>2, <2>3, <2>4, <2>5 DEF Flush
<1>. QED  BY <1>1, <1>2, <1>4, <1>5, <1>6

-----------------------------------------------------------------------------
(* What a step of somebody else may do to a task *)

\* The row of j changes in nothing a task of it relies on.
QuietRow(j) ==
    /\ job'[j].status = job[j].status
    /\ job[j].cancel => job'[j].cancel
    /\ SameSteps(job[j], job'[j])
    /\ job[j].status = "RUNNING" => job'[j].worker = job[j].worker
    /\ job[j].status = "RUNNING" /\ ~job'[j].cancel => job'[j] = job[j]

\* The types of one slot.
LEMMA SlotType ==
    ASSUME TypeOK, NEW c \in Runs
    PROVE  /\ run \in [Runs -> RunType] /\ run[c] \in RunType
           /\ run[c].pc \in Pcs /\ run[c].j \in Jobs /\ job[run[c].j] \in Row
           /\ run[c].w \in Workers \cup {NoWorker}
           /\ run[c].row \in Row /\ run[c].base \in Row /\ run[c].i \in 0 .. NStages
           /\ run[c].ev \in BOOLEAN /\ run[c].eff \in BOOLEAN
BY DEF TypeOK, RunType

\* The pcs of a task, of the tail of an interruption and of a free slot differ.
LEMMA PcsDiffer ==
    /\ \A pc \in TaskPcs : pc \notin ReleasePcs /\ pc # "idle"
    /\ \A pc \in SessionPcs : pc \in TaskPcs
    /\ \A pc \in PipelinePcs : pc \in TaskPcs /\ pc \in SessionPcs
    /\ "idle" \notin ReleasePcs
    /\ {"start", "loaded", "failbefore", "ending", "mark", "park"} \subseteq TaskPcs
BY DEF TaskPcs, ReleasePcs, SessionPcs, PipelinePcs

\* A task survives what others do to its row when that is quiet; the tail of an
\* interruption survives anything that leaves its job interrupted or cancelled.
LEMMA Bystander ==
    ASSUME NEW d \in Runs, RunInv(d), TypeOK, TypeOK',
           run'[d] = run[d],
           run[d].pc \in TaskPcs => /\ QuietRow(run[d].j)
                                    /\ run[d].j \in tasks'[run[d].w]
                                    /\ run[d].j \in stale' => run[d].j \in stale,
           run[d].pc \in ReleasePcs => /\ job'[run[d].j].status # "ABSENT"
                                       /\ job'[run[d].j].status = "INTERRUPTED" \/ job'[run[d].j].cancel
    PROVE  RunInv(d)'
<1>0. /\ RowOf(d)' = job'[run[d].j] /\ RowOf(d) = job[run[d].j]
      /\ RowOf(d).cancel \in BOOLEAN /\ RowOf(d)'.cancel \in BOOLEAN
  BY DEF RowOf, TypeOK, RunType, Row
<1>1. TaskInv(d)'
  BY <1>0 DEF RunInv, TaskInv, QuietRow
<1>2. SessionInv(d)'
  <2> SUFFICES ASSUME run[d].pc \in SessionPcs
               PROVE  /\ RowOf(d)'.status = run[d].base.status
                      /\ RowOf(d)'.status \in {"RUNNING", "CANCELLED"}
                      /\ run[d].row.cancel = run[d].base.cancel
                      /\ (run[d].pc # "park" => run[d].row.worker = run[d].base.worker)
                      /\ SameSteps(RowOf(d)', run[d].base)
                      /\ KeepsDone(run[d].base, run[d].row)
                      /\ (~RowOf(d)'.cancel => RowOf(d)' = run[d].base /\ RowOf(d)'.status = "RUNNING")
    BY DEF SessionInv, SameSteps
  <2>1. /\ RowOf(d).status = run[d].base.status
        /\ RowOf(d).status \in {"RUNNING", "CANCELLED"}
        /\ run[d].row.cancel = run[d].base.cancel
        /\ (run[d].pc # "park" => run[d].row.worker = run[d].base.worker)
        /\ SameSteps(RowOf(d), run[d].base)
        /\ KeepsDone(run[d].base, run[d].row)
        /\ (~RowOf(d).cancel => RowOf(d) = run[d].base /\ RowOf(d).status = "RUNNING")
    BY DEF RunInv, SessionInv
  <2>2. QuietRow(run[d].j)
    BY PcsDiffer
  <2>3. SameSteps(RowOf(d)', run[d].base)
    BY <1>0, <2>1, <2>2, StepsCompose DEF QuietRow
  <2>4. ASSUME ~RowOf(d)'.cancel PROVE RowOf(d)' = run[d].base /\ RowOf(d)'.status = "RUNNING"
    BY <1>0, <2>1, <2>2, <2>4 DEF QuietRow
  <2>. QED  BY <1>0, <2>1, <2>2, <2>3, <2>4 DEF QuietRow
<1>3. CancelInv(d)'
  BY <1>0, PcsDiffer DEF RunInv, CancelInv, QuietRow, PipelinePcs, TaskPcs
<1>4. ProgressInv(d)'
  BY <1>0, PcsDiffer DEF RunInv, ProgressInv, QuietRow, PipelinePcs, TaskPcs
<1>5. ReleaseInv(d)'
  BY <1>0 DEF RunInv, ReleaseInv, SameSteps
<1>. QED  BY <1>1, <1>2, <1>3, <1>4, <1>5 DEF RunInv

\* A free slot needs nothing.
LEMMA IdleInv ==
    ASSUME NEW c \in Runs, run[c].pc = "idle"
    PROVE  RunInv(c)
<1>1. run[c].pc \notin TaskPcs /\ run[c].pc \notin SessionPcs /\ run[c].pc \notin PipelinePcs
      /\ run[c].pc \notin ReleasePcs
  BY DEF TaskPcs, SessionPcs, PipelinePcs, ReleasePcs
<1>. QED  BY <1>1 DEF RunInv, TaskInv, SessionInv, CancelInv, ProgressInv, ReleaseInv

\* Tasks that end, or turn into the tail of an interruption, leave the others alone.
LEMMA AloneKept ==
    ASSUME AloneInv,
           \A d \in Runs :
               /\ run'[d].pc \in TaskPcs =>
                      run[d].pc \in TaskPcs /\ run'[d].w = run[d].w /\ run'[d].j = run[d].j
               /\ run'[d].pc \in ReleasePcs =>
                      /\ run[d].pc \in TaskPcs \cup ReleasePcs
                      /\ run'[d].w = run[d].w /\ run'[d].j = run[d].j
    PROVE  AloneInv'
<1> SUFFICES ASSUME NEW c \in Runs, NEW d \in Runs
             PROVE  /\ (c # d /\ run'[c].pc \in TaskPcs /\ run'[d].pc \in TaskPcs => run'[c].j # run'[d].j)
                    /\ (run'[c].pc \in TaskPcs /\ run'[d].pc \in ReleasePcs /\ run'[c].w = run'[d].w
                           => run'[c].j # run'[d].j)
  BY DEF AloneInv
<1>1. c # d /\ run'[c].pc \in TaskPcs /\ run'[d].pc \in TaskPcs => run'[c].j # run'[d].j
  BY DEF AloneInv
<1>2. (run'[c].pc \in TaskPcs /\ run'[d].pc \in ReleasePcs /\ run'[c].w = run'[d].w)
          => run'[c].j # run'[d].j
  BY PcsDiffer DEF AloneInv
<1>. QED  BY <1>1, <1>2

\* Keys that are dropped make room.
LEMMA KeysKept ==
    ASSUME KeysInv, \A w \in Workers : tasks'[w] \subseteq tasks[w]
    PROVE  KeysInv'
<1> SUFFICES ASSUME NEW w \in Workers
             PROVE  IsFiniteSet(tasks'[w]) /\ Cardinality(tasks'[w]) <= Concurrency
  BY DEF KeysInv
<1>1. IsFiniteSet(tasks[w]) /\ Cardinality(tasks[w]) <= Concurrency
  BY DEF KeysInv
<1>2. IsFiniteSet(tasks'[w]) /\ Cardinality(tasks'[w]) <= Cardinality(tasks[w])
  BY <1>1, FS_Subset
<1>3. Cardinality(tasks[w]) \in Nat /\ Cardinality(tasks'[w]) \in Nat
  BY <1>1, <1>2, FS_CardinalityType
<1>. QED  BY <1>1, <1>2, <1>3, EngineAssumption

\* The row of a task: changes that keep it the task's, or finish it.
RowMove(j) ==
    /\ job'[j].cancel = job[j].cancel
    /\ KeepsDone(job[j], job'[j])
    /\ job'[j].status \in Terminal \cup {"RUNNING"}
    /\ Edge(job[j].status, job'[j].status)
    /\ job'[j].status = "COMPLETED" /\ ~job'[j].cancel => \A s \in Stages : job'[j].steps[s] \in Done

\* A task moves, and writes to its own row at most.
LEMMA TaskMoves ==
    ASSUME CalmInv, HeldInv', NEW c \in Runs, run[c].pc \in TaskPcs,
           \A d \in Runs \ {c} : run'[d] = run[d],
           run'[c].pc \in TaskPcs, run'[c].w = run[c].w, run'[c].j = run[c].j,
           \A k \in Jobs \ {run[c].j} : job'[k] = job[k],
           UNCHANGED tasks, stale' \subseteq stale,
           RowMove(run[c].j),
           RunInv(c)'
    PROVE  CalmInv' /\ RowsStep
<1> DEFINE j0 == run[c].j
<1>0. TypeOK /\ TypeOK' /\ j0 \in Jobs /\ (\A d \in Runs : run[d].j \in Jobs /\ RunInv(d))
  BY DEF CalmInv, HeldInv, TypeOK, RunType
<1>1. job[j0].status \in Terminal \cup {"RUNNING"}
  BY <1>0 DEF RunInv, TaskInv, RowOf
<1>2. ASSUME NEW d \in Runs PROVE RunInv(d)'
  <2>1. CASE d = c
    BY <2>1
  <2>2. CASE d # c /\ run[d].pc \in TaskPcs
    <3>1. run[d].j # j0
      BY <2>2 DEF CalmInv, AloneInv
    <3>2. job'[run[d].j] = job[run[d].j]
      BY <1>0, <3>1
    <3>3. QuietRow(run[d].j)
      BY <3>2, StepsCompose DEF QuietRow
    <3>4. run[d].j \in tasks'[run[d].w]
      BY <1>0, <2>2 DEF RunInv, TaskInv
    <3>. QED  BY <1>0, <2>2, <3>3, <3>4, PcsDiffer, Bystander
  <2>3. CASE d # c /\ run[d].pc \in ReleasePcs
    <3>1. /\ job[run[d].j].status # "ABSENT"
          /\ job[run[d].j].status = "INTERRUPTED" \/ job[run[d].j].cancel
      BY <1>0, <2>3 DEF RunInv, ReleaseInv, RowOf
    <3>2. CASE run[d].j = j0
      <4>1. job[j0].cancel
        BY <1>1, <3>1, <3>2 DEF Terminal
      <4>2. job'[j0].cancel /\ job'[j0].status # "ABSENT"
        BY <4>1 DEF RowMove, Terminal
      <4>. QED  BY <1>0, <2>3, <3>2, <4>2, PcsDiffer, Bystander
    <3>3. CASE run[d].j # j0
      <4>1. job'[run[d].j] = job[run[d].j]
        BY <1>0, <3>3
      <4>. QED  BY <1>0, <2>3, <3>1, <4>1, PcsDiffer, Bystander
    <3>. QED  BY <3>2, <3>3
  <2>4. CASE d # c /\ run[d].pc \notin TaskPcs \cup ReleasePcs
    BY <1>0, <2>4, Bystander
  <2>. QED  BY <2>1, <2>2, <2>3, <2>4
<1>3. AloneInv'
  <2>1. \A d \in Runs : /\ (run'[d].pc \in TaskPcs =>
                              run[d].pc \in TaskPcs /\ run'[d].w = run[d].w /\ run'[d].j = run[d].j)
                        /\ (run'[d].pc \in ReleasePcs =>
                              /\ run[d].pc \in TaskPcs \cup ReleasePcs
                              /\ run'[d].w = run[d].w /\ run'[d].j = run[d].j)
    OBVIOUS
  <2>. QED  BY <2>1, AloneKept DEF CalmInv
<1>4. KeysInv'
  BY KeysKept DEF CalmInv
<1>5. RowsInv'
  <2>1. UncancelledCompletedIsVerified'
    BY <1>0 DEF CalmInv, RowsInv, UncancelledCompletedIsVerified, RowMove
  <2>2. AbsentInv'
    BY <1>0 DEF CalmInv, RowsInv, AbsentInv, RowMove, Terminal
  <2>. QED  BY <2>1, <2>2 DEF RowsInv
<1>6. RowStep(j0)
  <2>1. \A k \in Jobs : KeepsDone(job[k], job'[k])
    BY StepsCompose DEF RowMove
  <2>2. job'[j0].status # "QUEUED" /\ Edge(job[j0].status, job'[j0].status)
    BY DEF RowMove, Terminal
  <2>. QED  BY <2>1, <2>2 DEF RowStep
<1>. QED  BY <1>0, <1>2, <1>3, <1>4, <1>5, <1>6 DEF CalmInv, RowsStep

\* A task, or the tail of an interruption, ends.
LEMMA RunEnds ==
    ASSUME CalmInv, HeldInv', NEW c \in Runs, EndTask(c),
           run[c].pc \in TaskPcs \cup ReleasePcs,
           \A k \in Jobs : QuietRow(k),
           \A k \in Jobs : job'[k].cancel = job[k].cancel,
           \A k \in Jobs : job[k].cancel \/ job'[k] = job[k] \/ job[k].status = "INTERRUPTED",
           stale' \subseteq stale
    PROVE  CalmInv' /\ RowsStep
<1>0. TypeOK /\ TypeOK' /\ (\A d \in Runs : run[d].j \in Jobs /\ RunInv(d))
  BY DEF CalmInv, HeldInv, TypeOK, RunType
<1>1. /\ run'[c] = IdleRun /\ run'[c].pc = "idle" /\ (\A d \in Runs \ {c} : run'[d] = run[d])
      /\ tasks' = [tasks EXCEPT ![run[c].w] = @ \ {run[c].j}]
      /\ tasks \in [Workers -> SUBSET Jobs]
  BY <1>0 DEF EndTask, IdleRun, TypeOK
<1>2. ASSUME NEW d \in Runs PROVE RunInv(d)'
  <2>1. CASE d = c
    <3>1. run'[d].pc = "idle"
      BY <1>1, <2>1
    <3>2. /\ run'[d].pc \notin TaskPcs /\ run'[d].pc \notin SessionPcs /\ run'[d].pc \notin PipelinePcs
          /\ run'[d].pc \notin ReleasePcs
      BY <3>1 DEF TaskPcs, SessionPcs, PipelinePcs, ReleasePcs
    <3>. QED  BY <3>1, <3>2 DEF RunInv, TaskInv, SessionInv, CancelInv, ProgressInv, ReleaseInv
  <2>2. CASE d # c /\ run[d].pc \in TaskPcs
    <3>1. run[d].w \in Workers /\ run[d].j \in tasks[run[d].w]
      BY <1>0, <2>2 DEF RunInv, TaskInv
    <3>2. run[d].w = run[c].w => run[d].j # run[c].j
      BY <2>2 DEF CalmInv, AloneInv
    <3>3. run[d].j \in tasks'[run[d].w]
      BY <1>1, <3>1, <3>2
    <3>. QED  BY <1>0, <1>1, <2>2, <3>3, PcsDiffer, Bystander
  <2>3. CASE d # c /\ run[d].pc \in ReleasePcs
    <3>1. /\ job[run[d].j].status # "ABSENT"
          /\ job[run[d].j].status = "INTERRUPTED" \/ job[run[d].j].cancel
      BY <1>0, <2>3 DEF RunInv, ReleaseInv, RowOf
    <3>2. /\ job'[run[d].j].status # "ABSENT"
          /\ job'[run[d].j].status = "INTERRUPTED" \/ job'[run[d].j].cancel
      BY <1>0, <3>1 DEF QuietRow
    <3>. QED  BY <1>0, <1>1, <2>3, <3>2, PcsDiffer, Bystander
  <2>4. CASE d # c /\ run[d].pc \notin TaskPcs \cup ReleasePcs
    BY <1>0, <1>1, <2>4, Bystander
  <2>. QED  BY <2>1, <2>2, <2>3, <2>4
<1>3. AloneInv'
  <2>1. \A d \in Runs : /\ (run'[d].pc \in TaskPcs =>
                              run[d].pc \in TaskPcs /\ run'[d].w = run[d].w /\ run'[d].j = run[d].j)
                        /\ (run'[d].pc \in ReleasePcs =>
                              /\ run[d].pc \in TaskPcs \cup ReleasePcs
                              /\ run'[d].w = run[d].w /\ run'[d].j = run[d].j)
    BY <1>1, PcsDiffer
  <2>. QED  BY <2>1, AloneKept DEF CalmInv
<1>4. KeysInv'
  <2>1. \A w \in Workers : tasks'[w] \subseteq tasks[w]
    BY <1>1
  <2>. QED  BY <2>1, KeysKept DEF CalmInv
<1>5. RowsInv'
  <2>1. UncancelledCompletedIsVerified'
    BY <1>0 DEF CalmInv, RowsInv, UncancelledCompletedIsVerified, QuietRow
  <2>2. AbsentInv'
    BY DEF CalmInv, RowsInv, AbsentInv, QuietRow, SameSteps
  <2>. QED  BY <2>1, <2>2 DEF RowsInv
<1>6. \A k \in Jobs : KeepsDone(job[k], job'[k]) /\ job'[k].status = job[k].status
  BY StepsCompose DEF QuietRow
<1>7. RowStep(run[c].j)
  BY <1>0, <1>6 DEF RowStep, Edge
<1>. QED  BY <1>0, <1>2, <1>3, <1>4, <1>5, <1>7 DEF CalmInv, RowsStep

-----------------------------------------------------------------------------
(* The steps of a task *)

\* A row that is not written makes no illegal move.
LEMMA SameRowMoves ==
    ASSUME CalmInv, NEW c \in Runs, run[c].pc \in TaskPcs, UNCHANGED job
    PROVE  RowMove(run[c].j)
<1>1. RunInv(c) /\ run[c].j \in Jobs
  BY DEF CalmInv, HeldInv, TypeOK, RunType
<1>2. job[run[c].j].status \in Terminal \cup {"RUNNING"}
  BY <1>1 DEF RunInv, TaskInv, RowOf
<1>. QED  BY <1>1, <1>2, StepsCompose DEF CalmInv, RowsInv, UncancelledCompletedIsVerified, RowMove, Edge

\* What the commit of a session makes of the row.
LEMMA CommitMoves ==
    ASSUME CalmInv, NEW c \in Runs, run[c].pc \in SessionPcs, NEW row \in Row, Commit(c, row),
           KeepsDone(run[c].base, row), row.cancel = run[c].base.cancel,
           row.status \in Terminal \cup {"RUNNING"},
           Edge(run[c].base.status, row.status),
           (row.status = "COMPLETED" /\ ~job[run[c].j].cancel) => \A s \in Stages : row.steps[s] \in Done
    PROVE  /\ RowMove(run[c].j)
           /\ \A k \in Jobs \ {run[c].j} : job'[k] = job[k]
           /\ job'[run[c].j] \in Row
           /\ job'[run[c].j].status = row.status
           /\ job'[run[c].j].cancel = job[run[c].j].cancel
           /\ SameSteps(job'[run[c].j], row)
           /\ ~job[run[c].j].cancel => job'[run[c].j] = row
           /\ row.worker = run[c].base.worker => job'[run[c].j].worker = job[run[c].j].worker
<1> DEFINE j0 == run[c].j
           new == Flush(job[j0], run[c].base, row)
<1>1. RunInv(c) /\ j0 \in Jobs /\ job[j0] \in Row /\ run[c].base \in Row /\ job \in [Jobs -> Row]
  BY DEF CalmInv, HeldInv, TypeOK, RunType
<1>2. job'[j0] = new /\ \A k \in Jobs \ {j0} : job'[k] = job[k]
  BY <1>1 DEF Commit
<1>3. /\ job[j0].status = run[c].base.status
      /\ SameSteps(job[j0], run[c].base)
      /\ (~job[j0].cancel => job[j0] = run[c].base)
  BY <1>1 DEF RunInv, SessionInv, RowOf
<1>4. /\ new \in Row /\ new.status = row.status /\ new.cancel = job[j0].cancel
      /\ SameSteps(new, row)
      /\ (row.worker = run[c].base.worker => new.worker = job[j0].worker)
      /\ (~job[j0].cancel => new = row)
  <2> DEFINE db == job[j0]
             base == run[c].base
  <2>0. db \in Row /\ base \in Row
    BY <1>1
  <2>1. /\ Flush(db, base, row) \in Row
        /\ (db.status = base.status => Flush(db, base, row).status = row.status)
        /\ (row.cancel = base.cancel => Flush(db, base, row).cancel = db.cancel)
        /\ (row.worker = base.worker => Flush(db, base, row).worker = db.worker)
        /\ (SameSteps(db, base) => SameSteps(Flush(db, base, row), row))
        /\ (db = base => Flush(db, base, row) = row)
    <3> HIDE DEF db, base, j0
    <3>. QED  BY <2>0, FlushAgrees
  <2>. QED  BY <1>3, <2>1
<1> HIDE DEF new
<1>5. KeepsDone(job[j0], new)
  <2>1. KeepsDone(job[j0], run[c].base) /\ KeepsDone(row, new)
    BY <1>3, <1>4, StepsCompose
  <2>. QED  BY <2>1, StepsCompose
<1>6. RowMove(j0)
  BY <1>2, <1>3, <1>4, <1>5 DEF RowMove
<1>. QED  BY <1>2, <1>4, <1>6

\* A task whose last commit finishes the job winds down.
LEMMA CommitWindsDown ==
    ASSUME CalmInv, HeldInv', NEW c \in Runs, run[c].pc \in SessionPcs, NEW row \in Row, Commit(c, row),
           WindDown(c), UNCHANGED <<tasks, stale>>,
           KeepsDone(run[c].base, row), row.cancel = run[c].base.cancel,
           row.status \in Terminal,
           Edge(run[c].base.status, row.status),
           (row.status = "COMPLETED" /\ ~job[run[c].j].cancel) => \A s \in Stages : row.steps[s] \in Done
    PROVE  CalmInv' /\ RowsStep
<1>1. /\ RunInv(c) /\ run[c].j \in Jobs /\ run \in [Runs -> RunType]
      /\ run[c].pc \in TaskPcs
  BY PcsDiffer DEF CalmInv, HeldInv, TypeOK, RunType
<1>2. /\ run'[c].pc = "ending" /\ run'[c].w = run[c].w /\ run'[c].j = run[c].j
      /\ \A d \in Runs \ {c} : run'[d] = run[d]
  BY <1>1 DEF WindDown, NewRun, IdleRun
<1>3. /\ RowMove(run[c].j)
      /\ \A k \in Jobs \ {run[c].j} : job'[k] = job[k]
      /\ job'[run[c].j].status = row.status
  BY CommitMoves
<1>4. RunInv(c)'
  <2>1. RowOf(c)'.status \in Terminal /\ RowOf(c)'.status # "RUNNING"
    BY <1>2, <1>3 DEF RowOf, Terminal
  <2>2. TaskInv(c)'
    BY <1>1, <1>2, <2>1 DEF RunInv, TaskInv
  <2>3. SessionInv(c)' /\ CancelInv(c)' /\ ProgressInv(c)' /\ ReleaseInv(c)'
    BY <1>2 DEF SessionInv, CancelInv, ProgressInv, ReleaseInv, SessionPcs, PipelinePcs, ReleasePcs
  <2>. QED  BY <2>2, <2>3 DEF RunInv
<1>. QED  BY <1>1, <1>2, <1>3, <1>4, PcsDiffer, TaskMoves

\* A task that commits and goes on holds what it wrote.
LEMMA CommitGoesOn ==
    ASSUME CalmInv, HeldInv', NEW c \in Runs, run[c].pc \in SessionPcs, NEW row \in Row, Commit(c, row),
           \A d \in Runs \ {c} : run'[d] = run[d],
           run'[c].pc \in {"loop", "handler"}, run'[c].w = run[c].w, run'[c].j = run[c].j,
           run'[c].base = row, run'[c].row = row,
           UNCHANGED <<tasks, stale>>,
           KeepsDone(run[c].base, row), row.cancel = run[c].base.cancel,
           row.worker = run[c].base.worker,
           row.status \in {"RUNNING", "CANCELLED"},
           Edge(run[c].base.status, row.status),
           row.status = "RUNNING" => run[c].base.status = "RUNNING",
           ~job[run[c].j].cancel => row.status = "RUNNING",
           job'[run[c].j].cancel = job[run[c].j].cancel /\ job'[run[c].j].status = row.status
               => CancelInv(c)' /\ ProgressInv(c)'
    PROVE  CalmInv' /\ RowsStep
<1>1. /\ RunInv(c) /\ run[c].j \in Jobs /\ run \in [Runs -> RunType]
      /\ run[c].pc \in TaskPcs
      /\ run'[c].pc \in TaskPcs
  BY PcsDiffer DEF CalmInv, HeldInv, TypeOK, RunType, TaskPcs, PipelinePcs
<1>2. /\ RowMove(run[c].j)
      /\ \A k \in Jobs \ {run[c].j} : job'[k] = job[k]
      /\ job'[run[c].j].status = row.status
      /\ job'[run[c].j].cancel = job[run[c].j].cancel
      /\ SameSteps(job'[run[c].j], row)
      /\ (~job[run[c].j].cancel => job'[run[c].j] = row)
      /\ job'[run[c].j].worker = job[run[c].j].worker
  BY CommitMoves DEF Terminal
<1>3. RowOf(c)' = job'[run[c].j] /\ RowOf(c) = job[run[c].j]
  BY DEF RowOf
<1>4. TaskInv(c)'
  <2>1. RowOf(c).status = run[c].base.status
    BY <1>1 DEF RunInv, SessionInv
  <2>. QED  BY <1>1, <1>2, <1>3, <2>1 DEF RunInv, TaskInv, Terminal
<1>5. SessionInv(c)'
  <2>1. KeepsDone(row, row)
    BY StepsCompose
  <2>. QED  BY <1>2, <1>3, <2>1 DEF SessionInv, SameSteps, KeepsDone
<1>6. CancelInv(c)' /\ ProgressInv(c)'
  BY <1>2
<1>7. ReleaseInv(c)'
  BY DEF ReleaseInv, ReleasePcs
<1>8. RunInv(c)'
  BY <1>4, <1>5, <1>6, <1>7 DEF RunInv
<1>. QED  BY <1>1, <1>2, <1>8, TaskMoves

\* A task moves without a commit.
LEMMA QuietMoves ==
    ASSUME CalmInv, HeldInv', NEW c \in Runs, run[c].pc \in TaskPcs,
           \A d \in Runs \ {c} : run'[d] = run[d],
           run'[c].pc \in TaskPcs, run'[c].w = run[c].w, run'[c].j = run[c].j,
           UNCHANGED <<job, tasks>>, stale' \subseteq stale,
           SessionInv(c)', CancelInv(c)', ProgressInv(c)'
    PROVE  CalmInv' /\ RowsStep
<1>1. RunInv(c)
  BY DEF CalmInv
<1>2. TaskInv(c)' /\ ReleaseInv(c)'
  BY <1>1, PcsDiffer DEF RunInv, TaskInv, ReleaseInv, RowOf
<1>3. RunInv(c)'
  BY <1>2 DEF RunInv
<1>. QED  BY <1>3, SameRowMoves, TaskMoves

\* A task ends without a commit.
LEMMA QuietEnd ==
    ASSUME CalmInv, HeldInv', NEW c \in Runs, run[c].pc \in TaskPcs, EndTask(c),
           UNCHANGED job, stale' \subseteq stale
    PROVE  CalmInv' /\ RowsStep
<1>1. \A k \in Jobs : QuietRow(k)
  BY StepsCompose DEF QuietRow
<1>. QED  BY <1>1, RunEnds

\* What the invariant says of a session.
LEMMA SessionFacts ==
    ASSUME CalmInv, NEW c \in Runs, run[c].pc \in SessionPcs
    PROVE  /\ run[c].pc \in TaskPcs /\ RowOf(c) = job[run[c].j]
           /\ job[run[c].j].status = run[c].base.status
           /\ job[run[c].j].status \in {"RUNNING", "CANCELLED"}
           /\ run[c].row.cancel = run[c].base.cancel
           /\ (run[c].pc # "park" => run[c].row.worker = run[c].base.worker)
           /\ SameSteps(job[run[c].j], run[c].base)
           /\ KeepsDone(run[c].base, run[c].row)
           /\ (~job[run[c].j].cancel => job[run[c].j] = run[c].base /\ job[run[c].j].status = "RUNNING")
           /\ CancelInv(c) /\ ProgressInv(c) /\ SessionOK(c)
           /\ (run[c].pc \in PipelinePcs \cup {"loaded", "failbefore"} =>
                 run[c].pc \in {"failing", "failed"} \/ run[c].row.status = run[c].base.status)
<1>1. RunInv(c) /\ SessionOK(c)
  BY DEF CalmInv, HeldInv
<1>2. SessionInv(c) /\ CancelInv(c) /\ ProgressInv(c)
  BY <1>1 DEF RunInv
<1>3. run[c].pc \in PipelinePcs \cup {"loaded", "failbefore"} =>
                 run[c].pc \in {"failing", "failed"} \/ run[c].row.status = run[c].base.status
  BY <1>1 DEF SessionOK, PipelinePcs
<1>. QED  BY <1>1, <1>2, <1>3, PcsDiffer DEF SessionInv, RowOf

\* The start of a task, and its end.
LEMMA StartAndEndCalm ==
    ASSUME CalmInv, HeldInv', NEW c \in Runs,
           \/ Load(c) \/ Ready(c) \/ ContextFails(c) \/ FailBefore(c) \/ TaskDone(c) \/ TaskDies(c)
    PROVE  CalmInv' /\ RowsStep
<1> USE DEF dbVars, workerVars, faultVars
<1>0. /\ TypeOK /\ RunInv(c)
      /\ run \in [Runs -> RunType] /\ run[c] \in RunType
      /\ run[c].j \in Jobs /\ job[run[c].j] \in Row
      /\ run[c].row \in Row /\ run[c].base \in Row /\ run[c].i \in 0 .. NStages
      /\ run[c].ev \in BOOLEAN
  BY SlotType DEF CalmInv, HeldInv
<1>1. CASE Load(c)
  <2>0. run[c].pc = "start" /\ run[c].pc \in TaskPcs /\ UNCHANGED <<job, stale>>
    BY <1>1 DEF Load, TaskPcs
  <2>1. CASE job[run[c].j].status = "RUNNING" /\ job[run[c].j].worker = run[c].w
    <3>1. run' = [run EXCEPT ![c] = [@ EXCEPT !.pc = "loaded", !.base = job[run[c].j],
                                              !.row = EnsureSteps(job[run[c].j])]]
      BY <1>1, <2>1 DEF Load
    <3>2. /\ run'[c].pc = "loaded" /\ run'[c].w = run[c].w /\ run'[c].j = run[c].j
          /\ run'[c].base = job[run[c].j] /\ run'[c].row = EnsureSteps(job[run[c].j])
          /\ run'[c].i = run[c].i /\ run'[c].ev = run[c].ev
          /\ \A d \in Runs \ {c} : run'[d] = run[d]
      BY <1>0, <3>1 DEF RunType
    <3>3. /\ EnsureSteps(job[run[c].j]).cancel = job[run[c].j].cancel
          /\ EnsureSteps(job[run[c].j]).worker = job[run[c].j].worker
          /\ KeepsDone(job[run[c].j], EnsureSteps(job[run[c].j]))
      BY <1>0, CancelOfOperations, StatusOfOperations, OperationsKeepDone, StageAssumption
    <3>4. SessionInv(c)'
      BY <2>0, <2>1, <3>2, <3>3, StepsCompose DEF SessionInv, RowOf, SameSteps, KeepsDone
    <3>5. CancelInv(c)'
      BY <1>0, <2>0, <2>1, <3>2 DEF RunInv, CancelInv, RowOf, PipelinePcs
    <3>6. ProgressInv(c)'
      BY <1>0, <2>0, <3>2 DEF RunInv, ProgressInv
    <3>7. run'[c].pc \in TaskPcs /\ UNCHANGED tasks
      BY <1>1, <2>1, <3>2 DEF Load, TaskPcs
    <3>. QED  BY <2>0, <3>2, <3>4, <3>5, <3>6, <3>7, QuietMoves
  <2>2. CASE ~(job[run[c].j].status = "RUNNING" /\ job[run[c].j].worker = run[c].w)
    BY <1>1, <2>0, <2>2, QuietEnd DEF Load
  <2>. QED  BY <2>1, <2>2
<1>2. CASE Ready(c)
  <2>0. run[c].pc = "loaded" /\ run[c].pc \in SessionPcs
    BY <1>2 DEF Ready, SessionPcs
  <2>1. /\ Commit(c, run[c].row) /\ UNCHANGED <<tasks, stale>>
        /\ run'[c].pc = "loop" /\ run'[c].w = run[c].w /\ run'[c].j = run[c].j
        /\ run'[c].base = run[c].row /\ run'[c].row = run[c].row
        /\ run'[c].i = run[c].i /\ run'[c].ev = run[c].ev
        /\ \A d \in Runs \ {c} : run'[d] = run[d]
    BY <1>0, <1>2 DEF Ready, RunType
  <2>2. /\ job[run[c].j].status = "RUNNING" /\ run[c].i = 0
        /\ run[c].base.status = "RUNNING" /\ run[c].row.status = "RUNNING"
        /\ run[c].row.cancel = run[c].base.cancel
        /\ run[c].row.worker = run[c].base.worker
        /\ KeepsDone(run[c].base, run[c].row)
        /\ (run[c].ev => job[run[c].j].cancel)
    BY <2>0, SessionFacts DEF CancelInv, ProgressInv, PipelinePcs
  <2>3. \A s \in Stages : ~(s <= 0)
    BY DEF Stages
  <2>4. job'[run[c].j].cancel = job[run[c].j].cancel => CancelInv(c)' /\ ProgressInv(c)'
    BY <2>1, <2>2, <2>3 DEF CancelInv, ProgressInv, RowOf
  <2>. QED  BY <1>0, <2>0, <2>1, <2>2, <2>4, CommitGoesOn DEF Edge
<1>3. CASE ContextFails(c)
  <2>0. run[c].pc = "loaded" /\ run[c].pc \in SessionPcs /\ UNCHANGED <<job, tasks, stale>>
    BY <1>3 DEF ContextFails, SessionPcs
  <2>1. /\ run'[c].pc = "failbefore" /\ run'[c].w = run[c].w /\ run'[c].j = run[c].j
        /\ run'[c].base = run[c].base /\ run'[c].row = run[c].row
        /\ \A d \in Runs \ {c} : run'[d] = run[d]
    BY <1>0, <1>3 DEF ContextFails, Goto, RunType
  <2>2. SessionInv(c)'
    BY <1>0, <2>0, <2>1 DEF RunInv, SessionInv, RowOf, SameSteps, KeepsDone
  <2>3. CancelInv(c)' /\ ProgressInv(c)'
    BY <1>0, <2>0, <2>1 DEF RunInv, CancelInv, ProgressInv, RowOf, PipelinePcs
  <2>. QED  BY <2>0, <2>1, <2>2, <2>3, PcsDiffer, QuietMoves
<1>4. CASE FailBefore(c)
  <2>0. run[c].pc = "failbefore" /\ run[c].pc \in SessionPcs
    BY <1>4 DEF FailBefore, SessionPcs
  <2> DEFINE new == FailBeforePipeline(run[c].row)
  <2>1. /\ new \in Row /\ new.status = "FAILED" /\ new.cancel = run[c].row.cancel
        /\ KeepsDone(run[c].row, new)
    BY <1>0, RowOperations, StatusOfOperations, CancelOfOperations, OperationsKeepDone
  <2>2. Commit(c, new) /\ WindDown(c) /\ UNCHANGED <<tasks, stale>>
    BY <1>4 DEF FailBefore
  <2> HIDE DEF new
  <2>3. /\ new.cancel = run[c].base.cancel
        /\ KeepsDone(run[c].base, new)
        /\ Edge(run[c].base.status, new.status)
    <3>1. /\ run[c].row.cancel = run[c].base.cancel /\ KeepsDone(run[c].base, run[c].row)
          /\ run[c].base.status \in {"RUNNING", "CANCELLED"}
          /\ (MaxErrors = 0 => run[c].base.status = "RUNNING")
      BY <2>0, SessionFacts DEF CancelInv
    <3>2. KeepsDone(run[c].base, new)
      BY <2>1, <3>1, StepsCompose
    <3>. QED  BY <2>1, <3>1, <3>2 DEF Edge, Edges, Terminal
  <2>. QED  BY <2>0, <2>1, <2>2, <2>3, CommitWindsDown DEF Terminal
<1>5. CASE TaskDone(c)
  BY <1>5, QuietEnd DEF TaskDone, TaskPcs
<1>6. CASE TaskDies(c)
  BY <1>6, QuietEnd DEF TaskDies, TaskPcs
<1>. QED  BY <1>1, <1>2, <1>3, <1>4, <1>5, <1>6

\* The stages the loop has not passed: everything before the next one is done.
LEMMA NextStage ==
    ASSUME CalmInv, NEW c \in Runs, run[c].pc = "loop", ~job[run[c].j].cancel,
           NEW s \in Todo(c), \A t \in Todo(c) : s <= t
    PROVE  /\ s \in Stages /\ job[run[c].j] = run[c].row
           /\ run[c].row.steps[s] \notin Done
           /\ \A t \in Stages : t < s => run[c].row.steps[t] \in Done
<1>1. run[c].pc \in SessionPcs /\ run[c].i \in 0 .. NStages /\ NStages \in Nat
  BY SlotType, StageAssumption DEF SessionPcs, PipelinePcs, CalmInv, HeldInv
<1>2. /\ job[run[c].j] = run[c].base /\ run[c].row = run[c].base
      /\ \A t \in Stages : t <= run[c].i => run[c].row.steps[t] \in Done
  BY <1>1, SessionFacts DEF ProgressInv
<1>3. s \in Stages /\ run[c].row.steps[s] \notin Done
  BY DEF Todo
<1>4. ASSUME NEW t \in Stages, t < s PROVE run[c].row.steps[t] \in Done
  <2>1. t \in Nat /\ s \in Nat /\ ~(s <= t)
    BY <1>1, <1>3, <1>4 DEF Stages
  <2>2. t \notin Todo(c)
    BY <2>1
  <2>3. t > run[c].i \/ t <= run[c].i
    BY <1>1, <2>1
  <2>. QED  BY <1>2, <2>2, <2>3 DEF Todo
<1>. QED  BY <1>2, <1>3, <1>4

\* execute picks a stage and refreshes the job.
LEMMA RefreshCalm ==
    ASSUME CalmInv, HeldInv', NEW c \in Runs, Refresh(c)
    PROVE  CalmInv' /\ RowsStep
<1> USE DEF dbVars, workerVars, faultVars
<1> DEFINE row == job[run[c].j]
<1>0. /\ TypeOK /\ RunInv(c)
      /\ run \in [Runs -> RunType] /\ run[c] \in RunType /\ run[c].j \in Jobs /\ row \in Row
      /\ run[c].ev \in BOOLEAN
  BY SlotType DEF CalmInv, HeldInv
<1>1. PICK s \in Todo(c) :
         /\ \A t \in Todo(c) : s <= t
         /\ run' = [run EXCEPT ![c].base = row, ![c].row = row,
                ![c].pc = IF CancelSeen(row) THEN "cancelling" ELSE "starting",
                ![c].i = IF CancelSeen(row) THEN 0 ELSE s]
  BY DEF Refresh
<1>2. run[c].pc = "loop" /\ run[c].pc \in SessionPcs /\ UNCHANGED <<job, tasks, stale>>
  BY DEF Refresh, SessionPcs, PipelinePcs
<1>3. /\ run'[c].pc = (IF row.cancel THEN "cancelling" ELSE "starting")
      /\ run'[c].i = (IF row.cancel THEN 0 ELSE s)
      /\ run'[c].base = row /\ run'[c].row = row
      /\ run'[c].w = run[c].w /\ run'[c].j = run[c].j /\ run'[c].ev = run[c].ev
      /\ \A d \in Runs \ {c} : run'[d] = run[d]
  BY <1>0, <1>1 DEF RunType, CancelSeen
<1>4. /\ row.status \in {"RUNNING", "CANCELLED"}
      /\ (~row.cancel => row.status = "RUNNING")
      /\ (run[c].ev => row.cancel)
  BY <1>2, SessionFacts DEF CancelInv, PipelinePcs
<1>5. RowOf(c)' = row
  BY <1>2, <1>3 DEF RowOf
<1>6. SessionInv(c)'
  BY <1>3, <1>4, <1>5, StepsCompose DEF SessionInv, SameSteps, KeepsDone
<1>7. CancelInv(c)'
  BY <1>3, <1>4, <1>5 DEF CancelInv
<1>8. ProgressInv(c)'
  <2>1. CASE row.cancel
    BY <1>3, <1>5, <2>1 DEF ProgressInv
  <2>2. CASE ~row.cancel
    <3>1. /\ s \in Stages /\ row.steps[s] \notin Done
          /\ \A t \in Stages : t < s => row.steps[t] \in Done
      BY <1>1, <1>2, <2>2, NextStage
    <3>. QED  BY <1>3, <1>5, <2>2, <3>1 DEF ProgressInv
  <2>. QED  BY <2>1, <2>2
<1>9. run'[c].pc \in TaskPcs
  BY <1>3 DEF TaskPcs, PipelinePcs
<1>. QED  BY <1>2, <1>3, <1>6, <1>7, <1>8, <1>9, PcsDiffer, QuietMoves

\* The steps of a stage.
LEMMA StageCalm ==
    ASSUME CalmInv, HeldInv', NEW c \in Runs,
           \/ StartStage(c) \/ AttachMedia(c) \/ CleanupMedia(c)
           \/ \E outcome \in Outcomes : StageOk(c, outcome)
           \/ StageFails(c) \/ StageCancelled(c)
    PROVE  CalmInv' /\ RowsStep
<1> USE DEF dbVars, workerVars, faultVars
<1>0. /\ TypeOK /\ RunInv(c)
      /\ run \in [Runs -> RunType] /\ run[c] \in RunType
      /\ run[c].j \in Jobs /\ job[run[c].j] \in Row
      /\ run[c].row \in Row /\ run[c].base \in Row /\ run[c].i \in 0 .. NStages
      /\ run[c].ev \in BOOLEAN /\ NStages \in Nat
  BY SlotType, StageAssumption DEF CalmInv, HeldInv
<1>a. run[c].pc \in {"starting", "handler"}
  BY DEF StartStage, AttachMedia, CleanupMedia, StageOk, StageFails, StageCancelled
<1>b. run[c].pc \in SessionPcs /\ run[c].pc \in TaskPcs
  BY <1>a DEF SessionPcs, TaskPcs, PipelinePcs
<1>c. /\ run[c].i \in Stages
      /\ job[run[c].j].status = "RUNNING"
      /\ run[c].base.status = "RUNNING" /\ run[c].row.status = "RUNNING"
      /\ run[c].row.cancel = run[c].base.cancel /\ run[c].row.worker = run[c].base.worker
      /\ SameSteps(job[run[c].j], run[c].base)
      /\ KeepsDone(run[c].base, run[c].row)
      /\ (~job[run[c].j].cancel => job[run[c].j] = run[c].base)
      /\ (run[c].ev => job[run[c].j].cancel)
      /\ (~job[run[c].j].cancel => \A s \in Stages : s < run[c].i => run[c].row.steps[s] \in Done)
      /\ (run[c].pc = "handler" => run[c].base.steps[run[c].i] \notin Done)
      /\ (run[c].pc = "starting" => /\ run[c].row = run[c].base
                                    /\ run[c].i = StagePrepare \/ run[c].row.steps[run[c].i] \notin Done)
  BY <1>a, <1>b, SessionFacts DEF CancelInv, ProgressInv, PipelinePcs
<1>1. CASE StartStage(c)
  <2> DEFINE new == StageStarted(run[c].row, run[c].i)
  <2>1. /\ run[c].pc = "starting" /\ Commit(c, new) /\ UNCHANGED <<tasks, stale>>
        /\ run'[c].pc = "handler" /\ run'[c].w = run[c].w /\ run'[c].j = run[c].j
        /\ run'[c].base = new /\ run'[c].row = new
        /\ run'[c].i = run[c].i /\ run'[c].ev = run[c].ev
        /\ \A d \in Runs \ {c} : run'[d] = run[d]
    BY <1>0, <1>1 DEF StartStage, RunType
  <2>2. /\ new \in Row /\ new.status = "RUNNING" /\ new.cancel = run[c].base.cancel
        /\ new.worker = run[c].base.worker
    <3>1. /\ new \in Row /\ new.status = run[c].row.status /\ new.cancel = run[c].row.cancel
          /\ new.worker = run[c].row.worker
      <4>1. new \in Row
        BY <1>0, RowOperations
      <4>2. new.status = run[c].row.status /\ new.worker = run[c].row.worker
        BY <1>0, StatusOfOperations
      <4>3. new.cancel = run[c].row.cancel
        BY <1>0, CancelOfOperations
      <4>. QED  BY <4>1, <4>2, <4>3
    <3> HIDE DEF new
    <3>. QED  BY <1>c, <3>1
  <2>3. \A s \in Stages : new.steps[s] = IF s = run[c].i THEN "RUNNING" ELSE run[c].row.steps[s]
    BY <1>0, <1>c, StepsOfStage
  <2> HIDE DEF new
  <2>4. KeepsDone(run[c].base, new)
    BY <1>c, <2>1, <2>3 DEF KeepsDone
  <2>5. job'[run[c].j].cancel = job[run[c].j].cancel /\ job'[run[c].j].status = new.status
            => CancelInv(c)'
    BY <1>c, <2>1, <2>2 DEF CancelInv, RowOf
  <2>6. ASSUME job'[run[c].j].cancel = job[run[c].j].cancel PROVE ProgressInv(c)'
    <3>1. new.steps[run[c].i] \notin Done
      BY <1>c, <2>3 DEF Done
    <3>2. \A s \in Stages : s < run[c].i => s # run[c].i
      BY <1>0 DEF Stages
    <3>3. ~job[run[c].j].cancel => \A s \in Stages : s < run[c].i => new.steps[s] \in Done
      BY <1>c, <2>3, <3>2
    <3>. QED  BY <1>c, <2>1, <2>6, <3>1, <3>3 DEF ProgressInv, RowOf
  <2>. QED  BY <1>b, <1>c, <2>1, <2>2, <2>4, <2>5, <2>6, CommitGoesOn DEF Edge
<1>2. CASE AttachMedia(c)
  <2>1. /\ run[c].pc = "handler" /\ UNCHANGED <<job, tasks, stale>>
        /\ run'[c].pc = "handler" /\ run'[c].w = run[c].w /\ run'[c].j = run[c].j
        /\ run'[c].base = run[c].base /\ run'[c].row = run[c].row
        /\ run'[c].i = run[c].i /\ run'[c].ev = run[c].ev
        /\ \A d \in Runs \ {c} : run'[d] = run[d]
    BY <1>0, <1>2 DEF AttachMedia, RunType
  <2>2. SessionInv(c)' /\ CancelInv(c)' /\ ProgressInv(c)'
    BY <1>0, <2>1 DEF RunInv, SessionInv, CancelInv, ProgressInv, RowOf, SameSteps, KeepsDone
  <2>. QED  BY <1>b, <2>1, <2>2, QuietMoves
<1>3. CASE CleanupMedia(c)
  <2> DEFINE new == [run[c].row EXCEPT !.removed = TRUE]
  <2>1. /\ new.status = run[c].row.status /\ new.cancel = run[c].row.cancel
        /\ new.worker = run[c].row.worker /\ new.steps = run[c].row.steps
    BY <1>0 DEF Row
  <2>2. run' = [run EXCEPT ![c] = [@ EXCEPT !.eff = TRUE, !.row = new]]
    BY <1>0, <1>3 DEF CleanupMedia, RunType
  <2> HIDE DEF new
  <2>3. /\ run[c].pc = "handler" /\ UNCHANGED <<job, tasks, stale>>
        /\ run'[c].pc = "handler" /\ run'[c].w = run[c].w /\ run'[c].j = run[c].j
        /\ run'[c].base = run[c].base /\ run'[c].row = new
        /\ run'[c].i = run[c].i /\ run'[c].ev = run[c].ev
        /\ \A d \in Runs \ {c} : run'[d] = run[d]
    <3>1. run[c].pc = "handler" /\ UNCHANGED <<job, tasks, stale>>
      BY <1>3 DEF CleanupMedia
    <3>. QED  BY <1>0, <2>2, <3>1 DEF RunType
  <2>4. SessionInv(c)'
    BY <1>0, <2>1, <2>3 DEF RunInv, SessionInv, RowOf, SameSteps, KeepsDone
  <2>5. CancelInv(c)' /\ ProgressInv(c)'
    BY <1>0, <2>1, <2>3 DEF RunInv, CancelInv, ProgressInv, RowOf
  <2>. QED  BY <1>b, <2>3, <2>4, <2>5, QuietMoves
<1>4. ASSUME NEW o \in Outcomes, StageOk(c, o) PROVE CalmInv' /\ RowsStep
  <2> DEFINE new == StageFinished(run[c].row, run[c].i, o)
  <2>0. o \in OutcomeStatuses /\ o \in Done
    BY EngineAssumption DEF OutcomeStatuses, Done
  <2>1. /\ run[c].pc = "handler" /\ Commit(c, new) /\ UNCHANGED <<tasks, stale>>
        /\ run'[c].pc = "loop" /\ run'[c].w = run[c].w /\ run'[c].j = run[c].j
        /\ run'[c].base = new /\ run'[c].row = new
        /\ run'[c].i = run[c].i /\ run'[c].ev = run[c].ev
        /\ \A d \in Runs \ {c} : run'[d] = run[d]
    BY <1>0, <1>4 DEF StageOk, RunType
  <2>2. /\ new \in Row /\ new.status = "RUNNING" /\ new.cancel = run[c].base.cancel
        /\ new.worker = run[c].base.worker
    <3>1. /\ new \in Row /\ new.status = run[c].row.status /\ new.cancel = run[c].row.cancel
          /\ new.worker = run[c].row.worker
      <4>1. new \in Row
        BY <1>0, <2>0, RowOperations
      <4>2. new.status = run[c].row.status /\ new.worker = run[c].row.worker
        <5>1. \A row \in Row, i \in 0 .. NStages : \A p :
                  StageFinished(row, i, p).status = row.status /\ StageFinished(row, i, p).worker = row.worker
          BY StatusOfOperations
        <5>. QED  BY <1>0, <5>1
      <4>3. new.cancel = run[c].row.cancel
        <5>1. \A row \in Row, i \in 0 .. NStages : \A p : StageFinished(row, i, p).cancel = row.cancel
          BY CancelOfOperations
        <5>. QED  BY <1>0, <5>1
      <4>. QED  BY <4>1, <4>2, <4>3
    <3> HIDE DEF new
    <3>. QED  BY <1>c, <3>1
  <2>3. \A s \in Stages : new.steps[s] = IF s = run[c].i THEN o ELSE run[c].row.steps[s]
    BY <1>0, <1>c, StepsOfStage
  <2> HIDE DEF new
  <2>4. KeepsDone(run[c].base, new)
    BY <1>c, <2>0, <2>3 DEF KeepsDone
  <2>5. job'[run[c].j].cancel = job[run[c].j].cancel => CancelInv(c)'
    BY <1>c, <2>1, <2>2 DEF CancelInv, RowOf
  <2>6. ASSUME job'[run[c].j].cancel = job[run[c].j].cancel PROVE ProgressInv(c)'
    <3>1. \A s \in Stages : s <= run[c].i => s = run[c].i \/ s < run[c].i
      BY <1>0 DEF Stages
    <3>2. ~job[run[c].j].cancel => \A s \in Stages : s <= run[c].i => new.steps[s] \in Done
      BY <1>c, <2>0, <2>3, <3>1
    <3>. QED  BY <1>c, <2>1, <2>6, <3>2 DEF ProgressInv, RowOf
  <2>. QED  BY <1>b, <1>c, <2>1, <2>2, <2>4, <2>5, <2>6, CommitGoesOn DEF Edge
<1>5. CASE StageFails(c)
  <2> DEFINE new == HandleFailure(run[c].row, run[c].i)
  <2>1. /\ run[c].pc = "handler" /\ UNCHANGED <<job, tasks, stale>>
        /\ run'[c].pc = "failing" /\ run'[c].w = run[c].w /\ run'[c].j = run[c].j
        /\ run'[c].base = run[c].base /\ run'[c].row = new
        /\ run'[c].i = run[c].i /\ run'[c].ev = run[c].ev
        /\ \A d \in Runs \ {c} : run'[d] = run[d]
    BY <1>0, <1>5 DEF StageFails, RunType
  <2>2. /\ new.status \in {"FAILED", "PARTIALLY_COMPLETED"} /\ new.cancel = run[c].base.cancel
        /\ new.worker = run[c].base.worker
    <3>1. /\ new.status \in {"FAILED", "PARTIALLY_COMPLETED"} /\ new.cancel = run[c].row.cancel
          /\ new.worker = run[c].row.worker
      BY <1>0, FailureStatus, StatusOfOperations, CancelOfOperations
    <3> HIDE DEF new
    <3>. QED  BY <1>c, <3>1
  <2>3. \A s \in Stages : new.steps[s] = IF s = run[c].i THEN "FAILED" ELSE run[c].row.steps[s]
    BY <1>0, <1>c, StepsOfStage
  <2> HIDE DEF new
  <2>4. KeepsDone(run[c].base, new)
    BY <1>c, <2>1, <2>3 DEF KeepsDone
  <2>5. SessionInv(c)'
    BY <1>c, <2>1, <2>2, <2>4 DEF SessionInv, RowOf, SameSteps, KeepsDone
  <2>6. CancelInv(c)' /\ ProgressInv(c)'
    BY <1>c, <2>1, <2>2 DEF CancelInv, ProgressInv, RowOf
  <2>7. run'[c].pc \in TaskPcs
    BY <2>1 DEF TaskPcs, PipelinePcs
  <2>. QED  BY <1>b, <2>1, <2>5, <2>6, <2>7, QuietMoves
<1>6. CASE StageCancelled(c)
  <2> DEFINE new == [run[c].row EXCEPT !.steps[run[c].i] = "CANCELLED"]
  <2>1. run' = [run EXCEPT ![c] = [@ EXCEPT !.pc = "cancelling", !.row = new]]
    BY <1>0, <1>6 DEF StageCancelled, RunType
  <2>2. /\ new.status = run[c].row.status /\ new.cancel = run[c].row.cancel
        /\ new.worker = run[c].row.worker
    BY <1>0 DEF Row
  <2>3. \A s \in Stages : new.steps[s] = IF s = run[c].i THEN "CANCELLED" ELSE run[c].row.steps[s]
    BY <1>0, <1>c, StepsOfStage
  <2> HIDE DEF new
  <2>4. /\ run[c].pc = "handler" /\ run[c].ev /\ UNCHANGED <<job, tasks, stale>>
        /\ run'[c].pc = "cancelling" /\ run'[c].w = run[c].w /\ run'[c].j = run[c].j
        /\ run'[c].base = run[c].base /\ run'[c].row = new
        /\ run'[c].i = run[c].i /\ run'[c].ev = run[c].ev
        /\ \A d \in Runs \ {c} : run'[d] = run[d]
    <3>1. run[c].pc = "handler" /\ run[c].ev /\ UNCHANGED <<job, tasks, stale>>
      BY <1>6 DEF StageCancelled
    <3>. QED  BY <1>0, <2>1, <3>1 DEF RunType
  <2>5. KeepsDone(run[c].base, new)
    BY <1>c, <2>4, <2>3 DEF KeepsDone
  <2>6. SessionInv(c)'
    BY <1>c, <2>2, <2>4, <2>5 DEF SessionInv, RowOf, SameSteps, KeepsDone
  <2>7. CancelInv(c)' /\ ProgressInv(c)'
    BY <1>c, <2>4 DEF CancelInv, ProgressInv, RowOf
  <2>8. run'[c].pc \in TaskPcs
    BY <2>4 DEF TaskPcs, PipelinePcs
  <2>. QED  BY <1>b, <2>4, <2>6, <2>7, <2>8, QuietMoves
<1>. QED  BY <1>1, <1>2, <1>3, <1>4, <1>5, <1>6

-----------------------------------------------------------------------------
(* Steps that meet other tasks *)

\* One row changes, and the slots in "moved": the other tasks and tails of
\* interruptions survive when they are not of this job, or when they may see
\* the change.
LEMMA OneRowStep ==
    ASSUME CalmInv, HeldInv', NEW moved \in SUBSET Runs, NEW j \in Jobs,
           \A d \in Runs \ moved : run'[d] = run[d],
           \A d \in moved : RunInv(d)',
           \A k \in Jobs \ {j} : job'[k] = job[k],
           \A w \in Workers : tasks[w] \subseteq tasks'[w],
           stale' \subseteq stale,
           \A d \in Runs \ moved : run[d].pc \in TaskPcs /\ run[d].j = j => QuietRow(j),
           \A d \in Runs \ moved : run[d].pc \in ReleasePcs /\ run[d].j = j =>
               job'[j].status # "ABSENT" /\ (job'[j].status = "INTERRUPTED" \/ job'[j].cancel)
    PROVE  \A d \in Runs : RunInv(d)'
<1> SUFFICES ASSUME NEW d \in Runs, d \notin moved PROVE RunInv(d)'
  OBVIOUS
<1>1. TypeOK /\ TypeOK' /\ run[d].j \in Jobs /\ RunInv(d) /\ run'[d] = run[d]
  BY DEF CalmInv, HeldInv, TypeOK, RunType
<1>2. CASE run[d].pc \in TaskPcs
  <2>1. QuietRow(run[d].j)
    <3>1. CASE run[d].j = j
      BY <1>2, <3>1
    <3>2. CASE run[d].j # j
      <4>1. job'[run[d].j] = job[run[d].j]
        BY <1>1, <3>2
      <4>. QED  BY <4>1, StepsCompose DEF QuietRow
    <3>. QED  BY <3>1, <3>2
  <2>2. run[d].j \in tasks'[run[d].w]
    BY <1>1, <1>2 DEF RunInv, TaskInv
  <2>. QED  BY <1>1, <1>2, <2>1, <2>2, PcsDiffer, Bystander
<1>3. CASE run[d].pc \in ReleasePcs
  <2>1. /\ job[run[d].j].status # "ABSENT"
        /\ job[run[d].j].status = "INTERRUPTED" \/ job[run[d].j].cancel
    BY <1>1, <1>3 DEF RunInv, ReleaseInv, RowOf
  <2>2. /\ job'[run[d].j].status # "ABSENT"
        /\ job'[run[d].j].status = "INTERRUPTED" \/ job'[run[d].j].cancel
    BY <1>1, <1>3, <2>1
  <2>. QED  BY <1>1, <1>3, <2>2, PcsDiffer, Bystander
<1>4. CASE run[d].pc \notin TaskPcs \cup ReleasePcs
  BY <1>1, <1>4, Bystander
<1>. QED  BY <1>2, <1>3, <1>4

\* The media of a failed, cancelled or interrupted job is released.
LEMMA ReleaseCalm ==
    ASSUME CalmInv, HeldInv', NEW c \in Runs, Release(c)
    PROVE  CalmInv' /\ RowsStep
<1> USE DEF dbVars, workerVars, faultVars
<1>0. /\ TypeOK /\ RunInv(c)
      /\ run \in [Runs -> RunType] /\ run[c] \in RunType
      /\ run[c].j \in Jobs /\ job[run[c].j] \in Row
      /\ run[c].row \in Row /\ run[c].base \in Row
      /\ run[c].ev \in BOOLEAN
  BY SlotType DEF CalmInv, HeldInv
<1>1. run[c].pc \in {"failing", "cancelling", "releasing"} /\ UNCHANGED <<job, tasks, stale>>
  BY DEF Release, AfterRelease
<1>2. /\ run'[c].pc = AfterRelease[run[c].pc]
      /\ run'[c].row \in {run[c].row, MediaReleased(run[c].row)}
      /\ run'[c].base = run[c].base /\ run'[c].w = run[c].w /\ run'[c].j = run[c].j
      /\ run'[c].i = run[c].i /\ run'[c].ev = run[c].ev
      /\ \A d \in Runs \ {c} : run'[d] = run[d]
  BY <1>0 DEF Release, RunType
<1>3. /\ (run[c].pc = "failing" => run'[c].pc = "failed")
      /\ (run[c].pc = "cancelling" => run'[c].pc = "cancelled")
      /\ (run[c].pc = "releasing" => run'[c].pc = "released")
  BY <1>2 DEF AfterRelease
<1>4. /\ run'[c].row.status = run[c].row.status /\ run'[c].row.worker = run[c].row.worker
      /\ run'[c].row.cancel = run[c].row.cancel
      /\ SameSteps(run[c].row, run'[c].row)
  <2>1. /\ MediaReleased(run[c].row).status = run[c].row.status
        /\ MediaReleased(run[c].row).worker = run[c].row.worker
    BY <1>0, StatusOfOperations, StageAssumption
  <2>2. MediaReleased(run[c].row).cancel = run[c].row.cancel
    BY <1>0, CancelOfOperations, StageAssumption
  <2>3. SameSteps(run[c].row, MediaReleased(run[c].row))
    BY <1>0, OperationsKeepDone
  <2>4. CASE run'[c].row = run[c].row
    BY <2>4, StepsCompose
  <2>5. CASE run'[c].row = MediaReleased(run[c].row)
    BY <2>1, <2>2, <2>3, <2>5
  <2>. QED  BY <1>2, <2>4, <2>5
<1>5. CASE run[c].pc \in {"failing", "cancelling"}
  <2>1. run[c].pc \in SessionPcs /\ run[c].pc \in TaskPcs /\ run'[c].pc \in TaskPcs
        /\ run'[c].pc \in {"failed", "cancelled"}
    BY <1>3, <1>5 DEF SessionPcs, TaskPcs, PipelinePcs
  <2>2. KeepsDone(run[c].base, run'[c].row)
    <3>1. KeepsDone(run[c].row, run'[c].row)
      BY <1>4, StepsCompose
    <3>. QED  BY <2>1, <3>1, SessionFacts, StepsCompose
  <2>3. SessionInv(c)'
    <3>1. /\ job[run[c].j].status = run[c].base.status
          /\ job[run[c].j].status \in {"RUNNING", "CANCELLED"}
          /\ run[c].row.cancel = run[c].base.cancel
          /\ run[c].row.worker = run[c].base.worker
          /\ SameSteps(job[run[c].j], run[c].base)
          /\ (~job[run[c].j].cancel => job[run[c].j] = run[c].base /\ job[run[c].j].status = "RUNNING")
      BY <1>5, <2>1, SessionFacts
    <3>. QED  BY <1>1, <1>2, <1>4, <2>2, <3>1 DEF SessionInv, RowOf, SameSteps, KeepsDone
  <2>4. CancelInv(c)'
    BY <1>0, <1>1, <1>2, <1>3, <1>5 DEF RunInv, CancelInv, RowOf, PipelinePcs
  <2>5. ProgressInv(c)'
    BY <1>0, <1>1, <1>2, <1>3, <1>4, <1>5 DEF RunInv, ProgressInv, RowOf
  <2>. QED  BY <1>1, <1>2, <2>1, <2>3, <2>4, <2>5, QuietMoves
<1>6. CASE run[c].pc = "releasing"
  <2>1. run'[c].pc = "released"
    BY <1>3, <1>6
  <2>2. /\ run'[c].pc \notin TaskPcs /\ run'[c].pc \notin SessionPcs /\ run'[c].pc \notin PipelinePcs
        /\ run[c].pc \in ReleasePcs /\ run[c].pc \notin TaskPcs
    BY <1>6, <2>1 DEF TaskPcs, SessionPcs, PipelinePcs, ReleasePcs
  <2>3. ReleaseInv(c)'
    <3>1. /\ run[c].w \in Workers
          /\ job[run[c].j].status # "ABSENT"
          /\ job[run[c].j].status = "INTERRUPTED" \/ job[run[c].j].cancel
          /\ run[c].row.status = run[c].base.status /\ run[c].row.worker = run[c].base.worker
          /\ run[c].row.cancel = run[c].base.cancel /\ SameSteps(run[c].row, run[c].base)
      BY <1>0, <2>2 DEF RunInv, ReleaseInv, RowOf
    <3>2. SameSteps(run'[c].row, run[c].base)
      BY <1>4, <3>1, StepsCompose
    <3>. QED  BY <1>1, <1>2, <1>4, <3>1, <3>2 DEF ReleaseInv, RowOf, SameSteps
  <2>4. RunInv(c)'
    BY <2>1, <2>2, <2>3 DEF RunInv, TaskInv, SessionInv, CancelInv, ProgressInv
  <2>5. \A k \in Jobs : QuietRow(k)
    BY <1>1, StepsCompose DEF QuietRow
  <2>6. \A d \in Runs : run[d].pc \in ReleasePcs =>
            /\ job[run[d].j].status # "ABSENT"
            /\ job[run[d].j].status = "INTERRUPTED" \/ job[run[d].j].cancel
    BY DEF CalmInv, RunInv, ReleaseInv, RowOf
  <2>7. \A d \in Runs : RunInv(d)'
    <3>1. \A d \in Runs \ {c} : run[d].pc \in ReleasePcs /\ run[d].j = run[c].j =>
              /\ job'[run[c].j].status # "ABSENT"
              /\ (job'[run[c].j].status = "INTERRUPTED" \/ job'[run[c].j].cancel)
      BY <1>1, <2>6
    <3>. QED  BY <1>0, <1>1, <1>2, <2>4, <2>5, <3>1, OneRowStep
  <2>8. AloneInv'
    <3>1. \A d \in Runs : /\ (run'[d].pc \in TaskPcs =>
                                run[d].pc \in TaskPcs /\ run'[d].w = run[d].w /\ run'[d].j = run[d].j)
                          /\ (run'[d].pc \in ReleasePcs =>
                                /\ run[d].pc \in TaskPcs \cup ReleasePcs
                                /\ run'[d].w = run[d].w /\ run'[d].j = run[d].j)
      BY <1>2, <2>2
    <3>. QED  BY <3>1, AloneKept DEF CalmInv
  <2>9. KeysInv' /\ RowsInv'
    BY <1>1 DEF CalmInv, KeysInv, RowsInv, AbsentInv, UncancelledCompletedIsVerified
  <2>10. RowStep(run[c].j)
    BY <1>1, StepsCompose DEF RowStep, Edge
  <2>. QED  BY <1>0, <2>7, <2>8, <2>9, <2>10 DEF CalmInv, RowsStep
<1>. QED  BY <1>1, <1>5, <1>6

\* The last commits of a pipeline, and the exception that ends one.
LEMMA PipelineEndsCalm ==
    ASSUME CalmInv, HeldInv', NEW c \in Runs,
           CommitFailure(c) \/ CommitCancellation(c) \/ Finalize(c) \/ PipelineError(c)
    PROVE  CalmInv' /\ RowsStep
<1> USE DEF dbVars, workerVars, faultVars
<1>0. /\ TypeOK /\ RunInv(c)
      /\ run \in [Runs -> RunType] /\ run[c] \in RunType
      /\ run[c].j \in Jobs /\ job[run[c].j] \in Row
      /\ run[c].row \in Row /\ run[c].base \in Row /\ run[c].i \in 0 .. NStages
      /\ run[c].ev \in BOOLEAN
  BY SlotType DEF CalmInv, HeldInv
<1>a. run[c].pc \in PipelinePcs /\ run[c].pc \in SessionPcs /\ run[c].pc \in TaskPcs
  BY PcsDiffer DEF CommitFailure, CommitCancellation, Finalize, PipelineError, PipelinePcs
<1>b. /\ job[run[c].j].status = run[c].base.status
      /\ job[run[c].j].status \in {"RUNNING", "CANCELLED"}
      /\ run[c].row.cancel = run[c].base.cancel /\ run[c].row.worker = run[c].base.worker
      /\ KeepsDone(run[c].base, run[c].row)
      /\ (~job[run[c].j].cancel => job[run[c].j] = run[c].base /\ job[run[c].j].status = "RUNNING")
      /\ (run[c].ev => job[run[c].j].cancel)
      /\ CancelInv(c) /\ ProgressInv(c) /\ RowOf(c) = job[run[c].j]
  BY <1>a, SessionFacts DEF CancelInv, PipelinePcs
<1>1. CASE CommitFailure(c)
  <2>1. /\ run[c].pc = "failed" /\ Commit(c, run[c].row) /\ WindDown(c)
        /\ UNCHANGED <<tasks, stale>>
    BY <1>1 DEF CommitFailure
  <2>2. /\ run[c].row.status \in {"FAILED", "PARTIALLY_COMPLETED"}
        /\ job[run[c].j].status = "RUNNING"
    BY <1>b, <2>1 DEF CancelInv, ProgressInv
  <2>3. Edge(run[c].base.status, run[c].row.status) /\ run[c].row.status \in Terminal
    BY <1>b, <2>2 DEF Edge, Edges, Terminal
  <2>. QED  BY <1>0, <1>a, <1>b, <2>1, <2>2, <2>3, CommitWindsDown
<1>2. CASE CommitCancellation(c)
  <2> DEFINE new == ApplyCancellation(run[c].row)
  <2>1. new \in Row /\ new.status = "CANCELLED" /\ new.worker = run[c].row.worker
    BY <1>0, RowOperations, StatusOfOperations
  <2>2. new.cancel = run[c].row.cancel
    BY <1>0, CancelOfOperations
  <2>3. KeepsDone(run[c].row, new)
    BY <1>0, OperationsKeepDone
  <2>4. /\ run[c].pc = "cancelled" /\ Commit(c, new) /\ UNCHANGED <<tasks, stale>>
    BY <1>2 DEF CommitCancellation
  <2>5. CASE run[c].i = 0
    <3>1. WindDown(c)
      BY <1>2, <2>5 DEF CommitCancellation
    <3> HIDE DEF new
    <3>2. KeepsDone(run[c].base, new) /\ new.cancel = run[c].base.cancel
      BY <1>b, <2>2, <2>3, StepsCompose
    <3>3. Edge(run[c].base.status, new.status) /\ new.status \in Terminal
      BY <1>b, <2>1 DEF Edge, Edges, Terminal
    <3>. QED  BY <1>0, <1>a, <2>1, <2>4, <3>1, <3>2, <3>3, CommitWindsDown
  <2>6. CASE run[c].i # 0
    <3>1. /\ run'[c].pc = "loop" /\ run'[c].w = run[c].w /\ run'[c].j = run[c].j
          /\ run'[c].base = new /\ run'[c].row = new
          /\ run'[c].i = run[c].i /\ run'[c].ev = run[c].ev
          /\ \A d \in Runs \ {c} : run'[d] = run[d]
      BY <1>0, <1>2, <2>6 DEF CommitCancellation, RunType
    <3> HIDE DEF new
    <3>2. KeepsDone(run[c].base, new) /\ new.cancel = run[c].base.cancel
      BY <1>b, <2>2, <2>3, StepsCompose
    <3>3. Edge(run[c].base.status, new.status)
      BY <1>b, <2>1 DEF Edge, Edges, Terminal
    <3>4. job[run[c].j].cancel
      BY <1>b, <2>4 DEF CancelInv
    <3>5. job'[run[c].j].cancel = job[run[c].j].cancel => CancelInv(c)' /\ ProgressInv(c)'
      BY <3>1, <3>4 DEF CancelInv, ProgressInv, RowOf
    <3>. QED  BY <1>0, <1>a, <1>b, <2>1, <2>4, <3>1, <3>2, <3>3, <3>4, <3>5, CommitGoesOn
  <2>. QED  BY <2>5, <2>6
<1>3. CASE Finalize(c)
  <2> DEFINE new == FinalizeSuccess(run[c].row)
  <2>1. new \in Row /\ new.status = "COMPLETED" /\ new.steps = run[c].row.steps
    BY <1>0, RowOperations, StatusOfOperations DEF FinalizeSuccess, Row
  <2>2. new.cancel = run[c].row.cancel
    BY <1>0, CancelOfOperations
  <2>3. KeepsDone(run[c].row, new)
    BY <1>0, OperationsKeepDone
  <2>4. /\ run[c].pc = "loop" /\ Todo(c) = {} /\ Commit(c, new) /\ WindDown(c)
        /\ UNCHANGED <<tasks, stale>>
    BY <1>3 DEF Finalize
  <2> HIDE DEF new
  <2>5. KeepsDone(run[c].base, new) /\ new.cancel = run[c].base.cancel
    BY <1>b, <2>2, <2>3, StepsCompose
  <2>6. Edge(run[c].base.status, new.status) /\ new.status \in Terminal
    BY <1>b, <2>1 DEF Edge, Edges, Terminal
  <2>7. ASSUME ~job[run[c].j].cancel, NEW s \in Stages PROVE new.steps[s] \in Done
    <3>1. s <= run[c].i \/ s > run[c].i
      BY <1>0, StageAssumption DEF Stages
    <3>2. s > run[c].i => run[c].row.steps[s] \in Done
      BY <2>4 DEF Todo
    <3>3. s <= run[c].i => run[c].row.steps[s] \in Done
      BY <1>b, <2>4, <2>7 DEF ProgressInv
    <3>. QED  BY <2>1, <3>1, <3>2, <3>3
  <2>. QED  BY <1>0, <1>a, <2>1, <2>4, <2>5, <2>6, <2>7, CommitWindsDown
<1>4. CASE PipelineError(c)
  <2>1. UNCHANGED <<job, tasks, stale>> /\ MaxErrors # 0
    BY <1>0, <1>4, EngineAssumption DEF PipelineError, TypeOK
  <2>2. /\ run'[c].pc = "failbefore" /\ run'[c].w = run[c].w /\ run'[c].j = run[c].j
        /\ run'[c].base = job[run[c].j] /\ run'[c].row = job[run[c].j]
        /\ \A d \in Runs \ {c} : run'[d] = run[d]
    BY <1>0, <1>4 DEF PipelineError, RunType
  <2>3. SessionInv(c)'
    BY <1>b, <2>1, <2>2 DEF SessionInv, RowOf, SameSteps, KeepsDone
  <2>4. CancelInv(c)' /\ ProgressInv(c)'
    BY <2>1, <2>2 DEF CancelInv, ProgressInv, PipelinePcs
  <2>. QED  BY <1>a, <2>1, <2>2, <2>3, <2>4, PcsDiffer, QuietMoves
<1>. QED  BY <1>1, <1>2, <1>3, <1>4

\* Heartbeats, the drain, and what it leaves of a task.
LEMMA ShutdownCalm ==
    ASSUME CalmInv, HeldInv', NEW c \in Runs,
           Heartbeat(c) \/ Interrupt(c) \/ MarkInterrupted(c)
    PROVE  CalmInv' /\ RowsStep
<1> USE DEF dbVars, workerVars, faultVars
<1>0. /\ TypeOK /\ RunInv(c)
      /\ run \in [Runs -> RunType] /\ run[c] \in RunType
      /\ run[c].j \in Jobs /\ job[run[c].j] \in Row
      /\ run[c].row \in Row /\ run[c].base \in Row
      /\ run[c].ev \in BOOLEAN /\ job[run[c].j].cancel \in BOOLEAN
  BY SlotType DEF CalmInv, HeldInv, Row
<1>1. CASE Heartbeat(c)
  <2>0. run[c].pc \in PipelinePcs /\ run[c].pc \in TaskPcs /\ UNCHANGED job
    BY <1>1, PcsDiffer DEF Heartbeat
  <2>1. CASE EndTask(c) /\ UNCHANGED stale
    BY <2>0, <2>1, QuietEnd
  <2>2. CASE /\ stale' = stale \ {run[c].j}
             /\ run' = [run EXCEPT ![c].ev = @ \/ job[run[c].j].cancel]
             /\ UNCHANGED tasks
    <3>1. /\ run'[c].pc = run[c].pc /\ run'[c].w = run[c].w /\ run'[c].j = run[c].j
          /\ run'[c].base = run[c].base /\ run'[c].row = run[c].row /\ run'[c].i = run[c].i
          /\ (run'[c].ev => run[c].ev \/ job[run[c].j].cancel)
          /\ \A d \in Runs \ {c} : run'[d] = run[d]
      BY <1>0, <2>2 DEF RunType
    <3>2. SessionInv(c)'
      BY <1>0, <2>0, <3>1 DEF RunInv, SessionInv, RowOf, SameSteps, KeepsDone
    <3>3. ProgressInv(c)'
      BY <1>0, <2>0, <3>1 DEF RunInv, ProgressInv, RowOf
    <3>4. CancelInv(c)'
      BY <1>0, <2>0, <3>1 DEF RunInv, CancelInv, RowOf
    <3>. QED  BY <2>0, <2>2, <3>1, <3>2, <3>3, <3>4, QuietMoves
  <2>. QED  BY <1>1, <2>1, <2>2 DEF Heartbeat
<1>2. CASE Interrupt(c)
  <2>1. run[c].pc \in TaskPcs /\ UNCHANGED <<job, tasks, stale>>
    BY <1>2 DEF Interrupt
  <2>2. /\ run'[c].pc = "mark" /\ run'[c].w = run[c].w /\ run'[c].j = run[c].j
        /\ \A d \in Runs \ {c} : run'[d] = run[d]
    BY <1>0, <1>2 DEF Interrupt, NewRun, IdleRun
  <2>3. SessionInv(c)' /\ CancelInv(c)' /\ ProgressInv(c)'
    BY <2>2 DEF SessionInv, CancelInv, ProgressInv, SessionPcs, PipelinePcs
  <2>. QED  BY <2>1, <2>2, <2>3, PcsDiffer, QuietMoves
<1>3. CASE MarkInterrupted(c)
  <2>0. run[c].pc = "mark" /\ run[c].pc \in TaskPcs /\ UNCHANGED <<job, stale>>
    BY <1>3, PcsDiffer DEF MarkInterrupted
  <2>1. CASE job[run[c].j].status = "RUNNING" /\ job[run[c].j].worker = run[c].w
    <3> DEFINE row == job[run[c].j]
               new == Interrupted(row)
    <3>1. run' = [run EXCEPT ![c] = [@ EXCEPT !.pc = "park", !.base = row, !.row = new]]
          /\ UNCHANGED tasks
      BY <1>3, <2>1 DEF MarkInterrupted
    <3>2. new.cancel = row.cancel
      BY <1>0, CancelOfOperations, StageAssumption
    <3>3. KeepsDone(row, new)
      BY <1>0, OperationsKeepDone
    <3> HIDE DEF new
    <3>4. /\ run'[c].pc = "park" /\ run'[c].w = run[c].w /\ run'[c].j = run[c].j
          /\ run'[c].base = row /\ run'[c].row = new
          /\ \A d \in Runs \ {c} : run'[d] = run[d]
      BY <1>0, <3>1 DEF RunType
    <3>5. SessionInv(c)'
      BY <2>0, <2>1, <3>2, <3>3, <3>4 DEF SessionInv, RowOf, SameSteps, KeepsDone
    <3>6. CancelInv(c)' /\ ProgressInv(c)'
      BY <2>0, <2>1, <3>4 DEF CancelInv, ProgressInv, RowOf, PipelinePcs
    <3>. QED  BY <2>0, <3>1, <3>4, <3>5, <3>6, PcsDiffer, QuietMoves
  <2>2. CASE ~(job[run[c].j].status = "RUNNING" /\ job[run[c].j].worker = run[c].w)
    BY <1>3, <2>0, <2>2, QuietEnd DEF MarkInterrupted
  <2>. QED  BY <2>1, <2>2
<1>. QED  BY <1>1, <1>2, <1>3

\* A slot holds the tail of an interruption.
LEMMA TailInv ==
    ASSUME NEW c \in Runs, run'[c].pc = "releasing", run'[c].w \in Workers,
           run'[c].row = run'[c].base, job'[run'[c].j].status = "INTERRUPTED"
    PROVE  RunInv(c)'
<1>1. /\ run'[c].pc \notin TaskPcs /\ run'[c].pc \notin SessionPcs /\ run'[c].pc \notin PipelinePcs
  BY DEF TaskPcs, SessionPcs, PipelinePcs
<1>2. ReleaseInv(c)'
  BY DEF ReleaseInv, RowOf, SameSteps
<1>. QED  BY <1>1, <1>2 DEF RunInv, TaskInv, SessionInv, CancelInv, ProgressInv

\* The drain parks a job.
LEMMA ParkCalm ==
    ASSUME CalmInv, HeldInv', NEW c \in Runs, Park(c)
    PROVE  CalmInv' /\ RowsStep
<1> USE DEF dbVars, workerVars, faultVars
<1> DEFINE j0 == run[c].j
           new == Flush(job[j0], run[c].base, run[c].row)
<1>0. /\ TypeOK /\ RunInv(c) /\ SessionOK(c)
      /\ run \in [Runs -> RunType] /\ run[c] \in RunType
      /\ j0 \in Jobs /\ job[j0] \in Row /\ job \in [Jobs -> Row]
      /\ run[c].row \in Row /\ run[c].base \in Row
  BY SlotType DEF CalmInv, HeldInv, TypeOK
<1>1. run[c].pc = "park" /\ run[c].pc \in SessionPcs /\ run[c].pc \in TaskPcs
  BY PcsDiffer DEF Park, SessionPcs
<1>2. CASE IndexAllows(j0, new)
  <2>1. /\ job' = [job EXCEPT ![j0] = new] /\ stale' = stale \ {j0} /\ UNCHANGED tasks
        /\ run'[c].pc = "releasing" /\ run'[c].w = run[c].w /\ run'[c].j = j0
        /\ run'[c].base = run[c].row /\ run'[c].row = run[c].row
        /\ \A d \in Runs \ {c} : run'[d] = run[d]
    BY <1>0, <1>2 DEF Park, RunType
  <2>2. /\ job[j0].status = "RUNNING" /\ run[c].row.status = "INTERRUPTED"
        /\ job[j0].status = run[c].base.status /\ SameSteps(job[j0], run[c].base)
        /\ KeepsDone(run[c].base, run[c].row)
    BY <1>0, <1>1, SessionFacts DEF CancelInv, SessionOK
  <2>3. new.status = "INTERRUPTED" /\ KeepsDone(job[j0], new)
    <3> DEFINE db == job[j0]
               base == run[c].base
               row == run[c].row
    <3>0. db \in Row /\ base \in Row /\ row \in Row
      BY <1>0
    <3>1. /\ (db.status = base.status => Flush(db, base, row).status = row.status)
          /\ (SameSteps(db, base) => SameSteps(Flush(db, base, row), row))
      <4> HIDE DEF db, base, row
      <4>. QED  BY <3>0, FlushAgrees
    <3>2. KeepsDone(db, base) /\ KeepsDone(row, new)
      BY <2>2, <3>1, StepsCompose
    <3>. QED  BY <2>2, <3>1, <3>2, StepsCompose
  <2> HIDE DEF new
  <2>4. job'[j0] = new /\ \A k \in Jobs \ {j0} : job'[k] = job[k]
    BY <1>0, <2>1
  <2>5. RunInv(c)'
    <3>1. run[c].w \in Workers
      BY <1>0, <1>1 DEF RunInv, TaskInv
    <3>. QED  BY <2>1, <2>3, <2>4, <3>1, TailInv
  <2>6. \A d \in Runs : RunInv(d)'
    <3>1. \A d \in Runs \ {c} : ~(run[d].pc \in TaskPcs /\ run[d].j = j0)
      BY <1>1 DEF CalmInv, AloneInv
    <3>2. job'[j0].status = "INTERRUPTED"
      BY <2>3, <2>4
    <3>3. {c} \in SUBSET Runs /\ \A w \in Workers : tasks[w] \subseteq tasks'[w]
      BY <2>1
    <3>. QED  BY <1>0, <2>1, <2>4, <2>5, <3>1, <3>2, <3>3, OneRowStep
  <2>7. AloneInv'
    <3>1. \A d \in Runs : /\ (run'[d].pc \in TaskPcs =>
                                run[d].pc \in TaskPcs /\ run'[d].w = run[d].w /\ run'[d].j = run[d].j)
                          /\ (run'[d].pc \in ReleasePcs =>
                                /\ run[d].pc \in TaskPcs \cup ReleasePcs
                                /\ run'[d].w = run[d].w /\ run'[d].j = run[d].j)
      BY <1>1, <2>1, PcsDiffer DEF ReleasePcs
    <3>. QED  BY <3>1, AloneKept DEF CalmInv
  <2>8. KeysInv' /\ RowsInv'
    BY <2>1, <2>3, <2>4 DEF CalmInv, KeysInv, RowsInv, AbsentInv, UncancelledCompletedIsVerified
  <2>9. RowStep(j0)
    <3>1. \A k \in Jobs : KeepsDone(job[k], job'[k])
      BY <2>3, <2>4, StepsCompose
    <3>. QED  BY <2>2, <2>3, <2>4, <3>1 DEF RowStep, Edge, Edges
  <2>. QED  BY <1>0, <2>6, <2>7, <2>8, <2>9 DEF CalmInv, RowsStep
<1>3. CASE ~IndexAllows(j0, new)
  BY <1>1, <1>3, QuietEnd DEF Park
<1>. QED  BY <1>2, <1>3

\* The second commit of an interruption records the removal of the media, and
\* nothing a later task of another worker relies on.
LEMMA CommitReleaseCalm ==
    ASSUME CalmInv, HeldInv', NEW c \in Runs, CommitRelease(c)
    PROVE  CalmInv' /\ RowsStep
<1> USE DEF dbVars, workerVars, faultVars
<1> DEFINE j0 == run[c].j
           new == Flush(job[j0], run[c].base, run[c].row)
<1>0. /\ TypeOK /\ RunInv(c)
      /\ j0 \in Jobs /\ job[j0] \in Row /\ job \in [Jobs -> Row]
      /\ run[c].row \in Row /\ run[c].base \in Row
  BY SlotType DEF CalmInv, HeldInv, TypeOK
<1>1. /\ run[c].pc = "released" /\ run[c].pc \in ReleasePcs
      /\ job' = [job EXCEPT ![j0] = new] /\ EndTask(c) /\ UNCHANGED stale
  BY DEF CommitRelease, Commit, ReleasePcs
<1>2. /\ job[j0].status = "INTERRUPTED" \/ job[j0].cancel
      /\ run[c].row.status = run[c].base.status /\ run[c].row.worker = run[c].base.worker
      /\ run[c].row.cancel = run[c].base.cancel /\ SameSteps(run[c].row, run[c].base)
  BY <1>0, <1>1 DEF RunInv, ReleaseInv, RowOf
<1>3. /\ new.status = job[j0].status /\ new.worker = job[j0].worker /\ new.cancel = job[j0].cancel
      /\ SameSteps(new, job[j0])
  <2> DEFINE db == job[j0]
             base == run[c].base
             row == run[c].row
  <2>0. db \in Row /\ base \in Row /\ row \in Row
    BY <1>0
  <2>1. /\ (row.status = base.status => Flush(db, base, row).status = db.status)
        /\ (row.worker = base.worker => Flush(db, base, row).worker = db.worker)
        /\ (row.cancel = base.cancel => Flush(db, base, row).cancel = db.cancel)
        /\ (SameSteps(row, base) => SameSteps(Flush(db, base, row), db))
    <3> HIDE DEF db, base, row
    <3>. QED  BY <2>0, FlushAgrees
  <2>. QED  BY <1>2, <2>1
<1> HIDE DEF new
<1>4. job'[j0] = new /\ \A k \in Jobs \ {j0} : job'[k] = job[k]
  BY <1>0, <1>1
<1>5. ASSUME NEW k \in Jobs
      PROVE  /\ QuietRow(k) /\ job'[k].cancel = job[k].cancel
             /\ job[k].cancel \/ job'[k] = job[k] \/ job[k].status = "INTERRUPTED"
  <2>1. CASE k = j0
    BY <1>2, <1>3, <1>4, <2>1, StepsCompose DEF QuietRow
  <2>2. CASE k # j0
    BY <1>4, <2>2, StepsCompose DEF QuietRow
  <2>. QED  BY <2>1, <2>2
<1>. QED  BY <1>1, <1>5, RunEnds

\* A claim starts the only task of a queued job.
LEMMA ClaimCalm ==
    ASSUME CalmInv, HeldInv', NEW w \in Workers, NEW j \in Jobs, NEW c \in Runs, Claim(w, j, c)
    PROVE  CalmInv' /\ RowsStep
<1> DEFINE new == ClaimedRow(job[j], w)
<1>0. /\ TypeOK /\ run \in [Runs -> RunType] /\ job \in [Jobs -> Row] /\ job[j] \in Row
      /\ tasks \in [Workers -> SUBSET Jobs]
      /\ \A d \in Runs : RunInv(d) /\ run[d].j \in Jobs
  BY DEF CalmInv, HeldInv, TypeOK, RunType
<1>1. /\ job[j].status = "QUEUED" /\ ~Reaping(w) /\ run[c].pc = "idle" /\ FreeSlots(w) > 0
      /\ job' = [job EXCEPT ![j] = new] /\ stale' = stale \ {j}
      /\ tasks' = [tasks EXCEPT ![w] = @ \cup {j}]
      /\ run'[c] = NewRun("start", w, j, AbsentRow)
      /\ \A d \in Runs \ {c} : run'[d] = run[d]
  BY <1>0 DEF Claim, Due, Idle
<1>2. /\ run'[c].pc = "start" /\ run'[c].w = w /\ run'[c].j = j
      /\ run'[c].i = 0 /\ run'[c].ev = FALSE
  BY <1>1 DEF NewRun, IdleRun
<1>3. new.status = "RUNNING" /\ new.worker = w /\ new.cancel = job[j].cancel /\ KeepsDone(job[j], new)
  <2>1. new.status = "RUNNING" /\ new.worker = w
    BY <1>0 DEF ClaimedRow, Row
  <2>2. new.cancel = job[j].cancel
    BY <1>0, CancelOfOperations, StageAssumption
  <2>3. KeepsDone(job[j], new)
    BY <1>0, OperationsKeepDone
  <2>. QED  BY <2>1, <2>2, <2>3
<1> HIDE DEF new
<1>4. job'[j] = new /\ \A k \in Jobs \ {j} : job'[k] = job[k]
  BY <1>0, <1>1
<1>5. \A d \in Runs : ~(run[d].pc \in TaskPcs /\ run[d].j = j)
  BY <1>0, <1>1 DEF RunInv, TaskInv, RowOf, Terminal
<1>6. RunInv(c)'
  <2>1. TaskInv(c)'
    BY <1>0, <1>1, <1>2, <1>3, <1>4 DEF TaskInv, RowOf
  <2>2. SessionInv(c)' /\ CancelInv(c)' /\ ProgressInv(c)' /\ ReleaseInv(c)'
    BY <1>2 DEF SessionInv, CancelInv, ProgressInv, ReleaseInv, SessionPcs, PipelinePcs, ReleasePcs
  <2>. QED  BY <2>1, <2>2 DEF RunInv
<1>7. \A d \in Runs : RunInv(d)'
  <2>1. \A d \in Runs \ {c} : run[d].pc \in ReleasePcs /\ run[d].j = j =>
            /\ job'[j].status # "ABSENT"
            /\ (job'[j].status = "INTERRUPTED" \/ job'[j].cancel)
    BY <1>0, <1>1, <1>3, <1>4 DEF RunInv, ReleaseInv, RowOf
  <2>2. {c} \in SUBSET Runs /\ stale' \subseteq stale /\ \A v \in Workers : tasks[v] \subseteq tasks'[v]
    BY <1>0, <1>1
  <2>. QED  BY <1>1, <1>4, <1>5, <1>6, <2>1, <2>2, OneRowStep
<1>8. AloneInv'
  <2> SUFFICES ASSUME NEW d \in Runs, NEW e \in Runs
               PROVE  /\ (d # e /\ run'[d].pc \in TaskPcs /\ run'[e].pc \in TaskPcs => run'[d].j # run'[e].j)
                      /\ ((run'[d].pc \in TaskPcs /\ run'[e].pc \in ReleasePcs /\ run'[d].w = run'[e].w)
                             => run'[d].j # run'[e].j)
    BY DEF AloneInv
  <2>1. d # e /\ run'[d].pc \in TaskPcs /\ run'[e].pc \in TaskPcs => run'[d].j # run'[e].j
    BY <1>1, <1>2, <1>5 DEF CalmInv, AloneInv
  <2>2. ASSUME run'[d].pc \in TaskPcs, run'[e].pc \in ReleasePcs, run'[d].w = run'[e].w
        PROVE  run'[d].j # run'[e].j
    <3>1. e # c
      BY <1>2, <2>2 DEF ReleasePcs
    <3>2. CASE d = c
      BY <1>1, <1>2, <2>2, <3>1, <3>2 DEF Reaping, ReleasePcs
    <3>3. CASE d # c
      BY <1>1, <2>2, <3>1, <3>3 DEF CalmInv, AloneInv
    <3>. QED  BY <3>2, <3>3
  <2>. QED  BY <2>1, <2>2
<1>9. KeysInv'
  <2> SUFFICES ASSUME NEW v \in Workers
               PROVE  IsFiniteSet(tasks'[v]) /\ Cardinality(tasks'[v]) <= Concurrency
    BY DEF KeysInv
  <2>1. CASE v # w
    BY <1>0, <1>1, <2>1 DEF CalmInv, KeysInv
  <2>2. CASE v = w
    <3>1. IsFiniteSet(tasks[w])
      BY DEF CalmInv, KeysInv
    <3>2. Cardinality(tasks[w]) \in Nat
      BY <3>1, FS_CardinalityType
    <3>3. Cardinality(tasks[w]) < Concurrency
      BY <1>1, <3>2, EngineAssumption DEF FreeSlots
    <3>4. /\ IsFiniteSet(tasks[w] \cup {j})
          /\ (Cardinality(tasks[w] \cup {j}) = Cardinality(tasks[w])
                \/ Cardinality(tasks[w] \cup {j}) = Cardinality(tasks[w]) + 1)
      BY <3>1, FS_AddElement
    <3>. QED  BY <1>0, <1>1, <2>2, <3>2, <3>3, <3>4, EngineAssumption
  <2>. QED  BY <2>1, <2>2
<1>10. RowsInv'
  BY <1>3, <1>4 DEF CalmInv, RowsInv, AbsentInv, UncancelledCompletedIsVerified
<1>11. RowStep(j)
  <2>1. \A k \in Jobs : KeepsDone(job[k], job'[k])
    BY <1>3, <1>4, StepsCompose
  <2>. QED  BY <1>1, <1>3, <1>4, <2>1 DEF RowStep, Edge, Edges
<1>. QED  BY <1>7, <1>8, <1>9, <1>10, <1>11 DEF CalmInv, RowsStep

\* The reaper parks a job that has no task.
LEMMA ReapCalm ==
    ASSUME CalmInv, HeldInv', NEW w \in Workers, NEW j \in Jobs, NEW c \in Runs, Reap(w, j, c)
    PROVE  CalmInv' /\ RowsStep
<1> USE DEF dbVars, workerVars, faultVars
<1> DEFINE new == Interrupted(job[j])
<1>0. /\ TypeOK /\ run \in [Runs -> RunType] /\ job \in [Jobs -> Row] /\ job[j] \in Row
      /\ \A d \in Runs : RunInv(d) /\ run[d].j \in Jobs
  BY DEF CalmInv, HeldInv, TypeOK, RunType
<1>1. /\ job[j].status = "RUNNING" /\ j \in stale /\ run[c].pc = "idle"
      /\ job' = [job EXCEPT ![j] = new] /\ stale' = stale \ {j} /\ UNCHANGED tasks
      /\ run'[c] = NewRun("releasing", w, j, new)
      /\ \A d \in Runs \ {c} : run'[d] = run[d]
  BY <1>0 DEF Reap, StaleRunning, Idle
<1>2. new.status = "INTERRUPTED" /\ KeepsDone(job[j], new)
  <2>1. new.status = "INTERRUPTED"
    BY <1>0, StatusOfOperations, StageAssumption
  <2>2. KeepsDone(job[j], new)
    BY <1>0, OperationsKeepDone
  <2>. QED  BY <2>1, <2>2
<1> HIDE DEF new
<1>3. /\ run'[c].pc = "releasing" /\ run'[c].w = w /\ run'[c].j = j
      /\ run'[c].row = run'[c].base
  BY <1>1 DEF NewRun, IdleRun
<1>4. job'[j] = new /\ \A k \in Jobs \ {j} : job'[k] = job[k]
  BY <1>0, <1>1
<1>5. \A d \in Runs : ~(run[d].pc \in TaskPcs /\ run[d].j = j)
  BY <1>0, <1>1 DEF RunInv, TaskInv, RowOf, Terminal
<1>6. RunInv(c)'
  BY <1>2, <1>3, <1>4, TailInv
<1>7. \A d \in Runs : RunInv(d)'
  <2>1. job'[j].status = "INTERRUPTED"
    BY <1>2, <1>4
  <2>2. {c} \in SUBSET Runs /\ stale' \subseteq stale /\ \A v \in Workers : tasks[v] \subseteq tasks'[v]
    BY <1>1
  <2>. QED  BY <1>1, <1>4, <1>5, <1>6, <2>1, <2>2, OneRowStep
<1>8. AloneInv'
  <2>1. run'[c].pc \notin TaskPcs
    BY <1>3 DEF TaskPcs, PipelinePcs
  <2>. QED  BY <1>1, <1>3, <1>5, <2>1 DEF CalmInv, AloneInv
<1>9. KeysInv' /\ RowsInv'
  BY <1>1, <1>2, <1>4 DEF CalmInv, KeysInv, RowsInv, AbsentInv, UncancelledCompletedIsVerified
<1>10. RowStep(j)
  <2>1. \A k \in Jobs : KeepsDone(job[k], job'[k])
    BY <1>2, <1>4, StepsCompose
  <2>. QED  BY <1>1, <1>2, <1>4, <2>1 DEF RowStep, Edge, Edges
<1>. QED  BY <1>7, <1>8, <1>9, <1>10 DEF CalmInv, RowsStep

\* A step of the API on one row.
LEMMA ApiCalm ==
    ASSUME CalmInv, HeldInv', NEW j \in Jobs, NEW new \in Row,
           job' = [job EXCEPT ![j] = new],
           UNCHANGED <<run, tasks>>, stale' \subseteq stale,
           KeepsDone(job[j], new),
           Edge(job[j].status, new.status),
           new.status # "ABSENT",
           new.status = "COMPLETED" => job[j].status = "COMPLETED" /\ new = job[j],
           IndexAllows(j, new),
           \A d \in Runs : run[d].pc \in TaskPcs /\ run[d].j = j => QuietRow(j),
           \A d \in Runs : run[d].pc \in ReleasePcs /\ run[d].j = j => new.cancel
    PROVE  CalmInv' /\ RowsStep
<1>0. job \in [Jobs -> Row]
  BY DEF CalmInv, HeldInv, TypeOK
<1>1. job'[j] = new /\ \A k \in Jobs \ {j} : job'[k] = job[k]
  BY <1>0
<1>2. \A d \in Runs : RunInv(d)'
  <2>1. {} \in SUBSET Runs
    OBVIOUS
  <2>. QED  BY <1>1, <2>1, OneRowStep
<1>3. AloneInv' /\ KeysInv'
  BY DEF CalmInv, AloneInv, KeysInv
<1>4. RowsInv'
  BY <1>1 DEF CalmInv, RowsInv, AbsentInv, UncancelledCompletedIsVerified
<1>5. RowStep(j)
  <2>1. \A k \in Jobs : KeepsDone(job[k], job'[k])
    BY <1>1, StepsCompose
  <2>2. new.status = "QUEUED" => \A k \in Clash[j] : job[k].status \notin Active
    BY DEF IndexAllows, Active
  <2>. QED  BY <1>1, <2>1, <2>2 DEF RowStep
<1>. QED  BY <1>2, <1>3, <1>4, <1>5 DEF CalmInv, RowsStep

\* A step that changes no row, no slot and no key, and makes no task stale.
LEMMA NothingCalm ==
    ASSUME CalmInv, HeldInv', UNCHANGED <<job, run, tasks>>,
           \A d \in Runs : run[d].pc \in TaskPcs /\ job[run[d].j].status = "RUNNING"
               => (run[d].j \in stale' => run[d].j \in stale)
    PROVE  CalmInv' /\ RowsStep
<1>1. ASSUME NEW d \in Runs PROVE RunInv(d)'
  <2>1. RunInv(d)
    BY DEF CalmInv
  <2>2. TaskInv(d)'
    BY <2>1 DEF RunInv, TaskInv, RowOf
  <2>3. SessionInv(d)' /\ CancelInv(d)' /\ ProgressInv(d)' /\ ReleaseInv(d)'
    BY <2>1 DEF RunInv, SessionInv, CancelInv, ProgressInv, ReleaseInv, RowOf, SameSteps, KeepsDone
  <2>. QED  BY <2>2, <2>3 DEF RunInv
<1>2. AloneInv' /\ KeysInv' /\ RowsInv'
  BY DEF CalmInv, AloneInv, KeysInv, RowsInv, AbsentInv, UncancelledCompletedIsVerified
<1>3. PICK j \in Jobs : TRUE
  BY EngineAssumption
<1>4. RowStep(j)
  BY StepsCompose DEF RowStep, Edge
<1>. QED  BY <1>1, <1>2, <1>4 DEF CalmInv, RowsStep

\* Submissions, retries and cancellations.
LEMMA UsersCalm ==
    ASSUME Calm, CalmInv, HeldInv', NEW j \in Jobs, Submit(j) \/ RetryNow(j) \/ CancelNow(j)
    PROVE  CalmInv' /\ RowsStep
<1> USE DEF dbVars, workerVars, faultVars
<1>0. /\ TypeOK /\ job \in [Jobs -> Row] /\ job[j] \in Row
      /\ \A d \in Runs : RunInv(d) /\ run[d].j \in Jobs
  BY DEF CalmInv, HeldInv, TypeOK, RunType
<1>a. \A d \in Runs : run[d].pc \in TaskPcs /\ run[d].j = j => job[j].status \in Terminal \cup {"RUNNING"}
  BY <1>0 DEF RunInv, TaskInv, RowOf
<1>b. \A d \in Runs : run[d].pc \in ReleasePcs /\ run[d].j = j =>
          job[j].status # "ABSENT" /\ (job[j].status = "INTERRUPTED" \/ job[j].cancel)
  BY <1>0 DEF RunInv, ReleaseInv, RowOf
<1>c. ASSUME UNCHANGED <<job, stale, run, tasks>> PROVE CalmInv' /\ RowsStep
  BY <1>c, NothingCalm
<1>1. CASE Submit(j)
  <2>1. InsertedRow \in Row /\ InsertedRow.status = "QUEUED"
    BY RowsOfTheQueue DEF InsertedRow, AbsentRow
  <2>2. /\ job[j].status = "ABSENT" /\ job' = [job EXCEPT ![j] = InsertedRow]
        /\ IndexAllows(j, InsertedRow) /\ UNCHANGED <<stale, run, tasks>>
    BY <1>1 DEF Submit
  <2>4. \A d \in Runs : /\ ~(run[d].pc \in TaskPcs /\ run[d].j = j)
                        /\ ~(run[d].pc \in ReleasePcs /\ run[d].j = j)
    BY <1>a, <1>b, <2>2 DEF Terminal
  <2>5. KeepsDone(job[j], InsertedRow)
    BY <2>2 DEF KeepsDone, CalmInv, RowsInv, AbsentInv
  <2>6. Edge(job[j].status, InsertedRow.status)
    BY <2>1, <2>2 DEF Edge, Edges
  <2>. QED  BY <2>1, <2>2, <2>4, <2>5, <2>6, ApiCalm
<1>2. CASE RetryNow(j)
  <2>1. PICK sel \in Selections(job[j]) :
            /\ MayRetry(job[j], sel) /\ RetryAllowed(j) /\ RetryEffect(j, job[j], sel)
            /\ UNCHANGED <<run, tasks>>
    BY <1>2 DEF RetryNow
  <2> DEFINE new == ResetForRetry(job[j], sel)
  <2>2. sel \in SUBSET Stages
    BY DEF Selections
  <2>3. new \in Row
    BY <1>0, <2>2, RowOperations, StageAssumption
  <2>4. new.status = "QUEUED"
    BY <1>0, <2>2, StatusOfOperations, StageAssumption
  <2>5. KeepsDone(job[j], new)
    BY <1>0, <2>2, OperationsKeepDone
  <2>6. job[j].status \in RetryStatuses
    BY <2>1 DEF MayRetry
  <2>7. Flush(job[j], job[j], new) = new
    BY <1>0, <2>3, FlushAgrees
  <2>8. CASE UNCHANGED <<job, stale>>
    BY <1>c, <2>1, <2>8
  <2>9. CASE job' = [job EXCEPT ![j] = new] /\ IndexAllows(j, new) /\ stale' = stale \ {j}
    <3> HIDE DEF new
    <3>1. \A d \in Runs : /\ ~(run[d].pc \in TaskPcs /\ run[d].j = j)
                          /\ ~(run[d].pc \in ReleasePcs /\ run[d].j = j)
      BY <2>1, PcsDiffer DEF RetryAllowed, Idle, Calm
    <3>2. Edge(job[j].status, new.status)
      BY <2>4, <2>6 DEF Edge, Edges, RetryStatuses, Terminal
    <3>. QED  BY <2>1, <2>3, <2>4, <2>5, <2>9, <3>1, <3>2, ApiCalm
  <2>. QED  BY <2>1, <2>7, <2>8, <2>9 DEF RetryEffect
<1>3. CASE CancelNow(j)
  <2> DEFINE new == CancelJob(job[j])
  <2>1. /\ MayCancel(job[j]) /\ CancelEffect(j, job[j]) /\ UNCHANGED <<run, tasks>>
    BY <1>3 DEF CancelNow
  <2>2. new \in Row
    BY <1>0, RowsOfTheQueue
  <2>3. KeepsDone(job[j], new)
    BY <1>0, OperationsKeepDone, StageAssumption
  <2>4. /\ new.cancel
        /\ (job[j].status = "RUNNING" =>
              /\ new.status = "RUNNING" /\ new.worker = job[j].worker
              /\ new.steps = job[j].steps)
        /\ (job[j].status = "QUEUED" => new.status = "CANCELLED")
        /\ (job[j].status = "INTERRUPTED" => new.status \in {"QUEUED", "CANCELLED"})
    BY <1>0, <2>1 DEF CancelJob, RequestCancel, MayCancel, Row
  <2>5. job[j].status \in {"QUEUED", "RUNNING", "INTERRUPTED"}
    BY <2>1 DEF MayCancel
  <2>6. Flush(job[j], job[j], new) = new
    BY <1>0, <2>2, FlushAgrees
  <2>7. CASE UNCHANGED <<job, stale>>
    BY <1>c, <2>1, <2>7
  <2>8. CASE job' = [job EXCEPT ![j] = new] /\ IndexAllows(j, new) /\ UNCHANGED stale
    <3> HIDE DEF new
    <3>1. ASSUME NEW d \in Runs, run[d].pc \in TaskPcs, run[d].j = j PROVE QuietRow(j)
      <4>1. job[j].status = "RUNNING"
        BY <1>a, <2>5, <3>1 DEF Terminal
      <4>2. SameSteps(job[j], new)
        BY <2>4, <4>1 DEF SameSteps
      <4>3. job'[j] = new
        BY <1>0, <2>8
      <4>. QED  BY <2>4, <4>1, <4>2, <4>3 DEF QuietRow
    <3>2. Edge(job[j].status, new.status) /\ new.status # "ABSENT" /\ new.status # "COMPLETED"
      BY <2>4, <2>5 DEF Edge, Edges
    <3>. QED  BY <2>1, <2>2, <2>3, <2>4, <2>8, <3>1, <3>2, ApiCalm
  <2>. QED  BY <2>1, <2>6, <2>7, <2>8 DEF CancelEffect
<1>. QED  BY <1>1, <1>2, <1>3

\* A process is gone: the rows that name it have no task of another worker.
LEMMA VanishCalm ==
    ASSUME CalmInv, HeldInv', NEW w \in Workers, Vanish(w), UNCHANGED stale,
           run' = [c \in Runs |-> IF run[c].w = w THEN IdleRun ELSE run[c]]
    PROVE  CalmInv' /\ RowsStep
<1>0. /\ TypeOK /\ TypeOK' /\ tasks \in [Workers -> SUBSET Jobs]
      /\ \A d \in Runs : RunInv(d) /\ run[d].j \in Jobs
  BY DEF CalmInv, HeldInv, TypeOK, RunType
<1>1. \A j \in Jobs : /\ job'[j].status = job[j].status /\ job'[j].cancel = job[j].cancel
                      /\ job'[j].steps = job[j].steps
                      /\ (job[j].worker # w => job'[j] = job[j])
  BY <1>0 DEF Vanish, TypeOK, Row
<1>2. \A j \in Jobs : SameSteps(job[j], job'[j]) /\ KeepsDone(job[j], job'[j])
  BY <1>1 DEF SameSteps, KeepsDone
<1>3. ASSUME NEW d \in Runs PROVE RunInv(d)'
  <2>1. CASE run[d].w = w
    <3>1. run'[d].pc = "idle"
      BY <2>1 DEF IdleRun
    <3>2. /\ run'[d].pc \notin TaskPcs /\ run'[d].pc \notin SessionPcs /\ run'[d].pc \notin PipelinePcs
          /\ run'[d].pc \notin ReleasePcs
      BY <3>1 DEF TaskPcs, SessionPcs, PipelinePcs, ReleasePcs
    <3>. QED  BY <3>1, <3>2 DEF RunInv, TaskInv, SessionInv, CancelInv, ProgressInv, ReleaseInv
  <2>2. CASE run[d].w # w
    <3>0. run'[d] = run[d]
      BY <2>2
    <3>1. CASE run[d].pc \in TaskPcs
      <4>1. /\ run[d].w \in Workers /\ run[d].j \in tasks[run[d].w]
            /\ (job[run[d].j].status = "RUNNING" => job[run[d].j].worker = run[d].w)
        BY <1>0, <3>1 DEF RunInv, TaskInv, RowOf
      <4>2. QuietRow(run[d].j)
        BY <1>0, <1>1, <1>2, <2>2, <4>1 DEF QuietRow
      <4>3. run[d].j \in tasks'[run[d].w]
        BY <1>0, <2>2, <4>1 DEF Vanish
      <4>. QED  BY <1>0, <3>0, <3>1, <4>2, <4>3, PcsDiffer, Bystander
    <3>2. CASE run[d].pc \in ReleasePcs
      <4>1. /\ job'[run[d].j].status # "ABSENT"
            /\ job'[run[d].j].status = "INTERRUPTED" \/ job'[run[d].j].cancel
        BY <1>0, <1>1, <3>2 DEF RunInv, ReleaseInv, RowOf
      <4>. QED  BY <1>0, <3>0, <3>2, <4>1, PcsDiffer, Bystander
    <3>3. CASE run[d].pc \notin TaskPcs \cup ReleasePcs
      BY <1>0, <3>0, <3>3, Bystander
    <3>. QED  BY <3>1, <3>2, <3>3
  <2>. QED  BY <2>1, <2>2
<1>4. AloneInv'
  <2>1. "idle" \notin TaskPcs \cup ReleasePcs /\ IdleRun.pc = "idle"
    BY DEF TaskPcs, PipelinePcs, ReleasePcs, IdleRun
  <2>2. \A d \in Runs : /\ (run'[d].pc \in TaskPcs =>
                              run[d].pc \in TaskPcs /\ run'[d].w = run[d].w /\ run'[d].j = run[d].j)
                        /\ (run'[d].pc \in ReleasePcs =>
                              /\ run[d].pc \in TaskPcs \cup ReleasePcs
                              /\ run'[d].w = run[d].w /\ run'[d].j = run[d].j)
    BY <2>1
  <2>. QED  BY <2>2, AloneKept DEF CalmInv
<1>5. KeysInv'
  <2>1. \A v \in Workers : tasks'[v] \subseteq tasks[v]
    BY <1>0 DEF Vanish
  <2>. QED  BY <2>1, KeysKept DEF CalmInv
<1>6. RowsInv'
  BY <1>1 DEF CalmInv, RowsInv, AbsentInv, UncancelledCompletedIsVerified
<1>7. PICK j \in Jobs : TRUE
  BY EngineAssumption
<1>8. RowStep(j)
  BY <1>1, <1>2 DEF RowStep, Edge
<1>. QED  BY <1>3, <1>4, <1>5, <1>6, <1>8 DEF CalmInv, RowsStep

\* Every step preserves the invariant and moves rows along the lifecycle.
LEMMA NextCalm ==
    ASSUME Calm, CalmInv, [Next]_vars
    PROVE  CalmInv' /\ RowsStep
<1> USE DEF dbVars, workerVars, faultVars
<1>0. HeldInv' /\ TypeOK
  BY NextKeepsHeldInv DEF CalmInv, HeldInv
<1>1. CASE ApiStep \/ \E r \in Clients : ApiCommits(r)
  BY <1>0, <1>1, UsersCalm DEF ApiStep, Calm
<1>2. ASSUME NEW c \in Runs, TaskStep(c) PROVE CalmInv' /\ RowsStep
  BY <1>0, <1>2, StartAndEndCalm, RefreshCalm, StageCalm, ReleaseCalm, PipelineEndsCalm, ShutdownCalm,
     ParkCalm, CommitReleaseCalm DEF TaskStep
<1>3. ASSUME NEW c \in Runs, Heartbeat(c) \/ Interrupt(c) PROVE CalmInv' /\ RowsStep
  BY <1>0, <1>3, ShutdownCalm
<1>4. ASSUME NEW w \in Workers, ClaimStep(w) \/ ReapStep(w) PROVE CalmInv' /\ RowsStep
  BY <1>0, <1>4, ClaimCalm, ReapCalm DEF ClaimStep, ReapStep
<1>5. ASSUME NEW w \in Workers, Exit(w) PROVE CalmInv' /\ RowsStep
  <2>1. run' = [c \in Runs |-> IF run[c].w = w THEN IdleRun ELSE run[c]]
    BY <1>0, <1>5 DEF Exit, RunsOf, TypeOK
  <2>. QED  BY <1>0, <1>5, <2>1, VanishCalm DEF Exit
<1>6. ASSUME NEW w \in Workers, Crash(w) PROVE CalmInv' /\ RowsStep
  BY <1>0, <1>6, VanishCalm DEF Crash
<1>7. ASSUME NEW c \in Runs, TaskDies(c) \/ PipelineError(c) PROVE CalmInv' /\ RowsStep
  BY <1>0, <1>7, StartAndEndCalm, PipelineEndsCalm
<1>8. ASSUME NEW w \in Workers, Stop(w) \/ Restart(w) PROVE CalmInv' /\ RowsStep
  BY <1>0, <1>8, NothingCalm DEF Stop, Restart
<1>9. ASSUME NEW j \in Jobs, HeartbeatExpires(j) PROVE CalmInv' /\ RowsStep
  <2>1. /\ UNCHANGED <<job, run, tasks>> /\ stale' = stale \cup {j}
        /\ \A w \in Workers : job[j].worker = w => ~LiveTask(w, j)
    BY <1>9 DEF HeartbeatExpires
  <2>2. ASSUME NEW d \in Runs, run[d].pc \in TaskPcs, job[run[d].j].status = "RUNNING"
        PROVE  run[d].j # j
    <3>1. run[d].w \in Workers /\ job[run[d].j].worker = run[d].w
      BY <2>2 DEF CalmInv, RunInv, TaskInv, RowOf
    <3>2. LiveTask(run[d].w, run[d].j)
      BY <2>2 DEF LiveTask
    <3>. QED  BY <2>1, <3>1, <3>2
  <2>. QED  BY <1>0, <2>1, <2>2, NothingCalm
<1>10. ASSUME NEW j \in Jobs, HeartbeatsLost(j) PROVE FALSE
  BY <1>0, <1>10 DEF HeartbeatsLost, Calm, TypeOK
<1>11. CASE UNCHANGED vars
  BY <1>0, <1>11, NothingCalm DEF vars
<1>. QED  BY <1>1, <1>2, <1>3, <1>4, <1>5, <1>6, <1>7, <1>8, <1>9, <1>10, <1>11 DEF Next, FaultStep

\* No row exists and no slot is in use at the start.
LEMMA InitCalm == Init => CalmInv
<1> SUFFICES ASSUME Init PROVE CalmInv
  OBVIOUS
<1>1. \A c \in Runs : run[c].pc = "idle"
  BY DEF Init, IdleRun
<1>2. \A c \in Runs : RunInv(c)
  BY <1>1, IdleInv
<1>3. AloneInv
  BY <1>1, PcsDiffer DEF AloneInv
<1>4. KeysInv
  BY FS_EmptySet, EngineAssumption DEF Init, KeysInv
<1>5. RowsInv
  BY DEF Init, RowsInv, AbsentInv, UncancelledCompletedIsVerified, AbsentRow, Done
<1>. QED  BY <1>2, <1>3, <1>4, <1>5, InitHeldInv DEF CalmInv

-----------------------------------------------------------------------------
(* What the invariant gives *)

\* The inductive invariant of JobEngine while nobody acts behind a task's back.
THEOREM CalmInvariant == Calm => (Spec => []CalmInv)
<1> SUFFICES ASSUME Calm PROVE Spec => []CalmInv
  OBVIOUS
<1>1. CalmInv /\ [Next]_vars => CalmInv'
  BY NextCalm
<1>. QED  BY <1>1, InitCalm, PTL DEF Spec

\* A job is never inside two pipelines: claims, the reaper, the drain, crashes
\* and retries of ended tasks exclude each other.
THEOREM OnePipelinePerJob == Calm => (Spec => []ExclusiveExecution)
<1> SUFFICES ASSUME Calm PROVE Spec => []ExclusiveExecution
  OBVIOUS
<1>1. CalmInv => ExclusiveExecution
  BY PcsDiffer DEF CalmInv, AloneInv, ExclusiveExecution
<1>. QED  BY <1>1, CalmInvariant, PTL

\* A worker never runs more than worker_concurrency tasks: no task is alive
\* without its key in _tasks, although _done pops keys by job id.
THEOREM ConcurrencyIsBounded == Calm => (Spec => []TasksWithinConcurrency)
<1> SUFFICES ASSUME Calm PROVE Spec => []TasksWithinConcurrency
  OBVIOUS
<1>1. ASSUME CalmInv PROVE TasksWithinConcurrency
  <2> SUFFICES ASSUME NEW w \in Workers
               PROVE  Cardinality({c \in Runs : run[c].w = w /\ run[c].pc \in TaskPcs}) <= Concurrency
    BY DEF TasksWithinConcurrency
  <2> DEFINE S == {c \in Runs : run[c].w = w /\ run[c].pc \in TaskPcs}
             f == [c \in S |-> run[c].j]
  <2>1. \A c \in S : run[c].j \in tasks[w]
    BY <1>1 DEF CalmInv, RunInv, TaskInv
  <2>2. \A c, d \in S : run[c].j = run[d].j => c = d
    BY <1>1 DEF CalmInv, AloneInv
  <2>3. f \in Injection(S, tasks[w])
    <3>1. f \in [S -> tasks[w]]
      BY <2>1
    <3>2. \A c, d \in S : f[c] = f[d] => c = d
      BY <2>2
    <3>. QED  BY <3>1, <3>2 DEF Injection, IsInjective
  <2>4. IsFiniteSet(tasks[w]) /\ Cardinality(tasks[w]) <= Concurrency
    BY <1>1 DEF CalmInv, KeysInv
  <2>5. IsFiniteSet(S) /\ Cardinality(S) <= Cardinality(tasks[w])
    BY <2>3, <2>4, FS_Injection
  <2>6. Cardinality(S) \in Nat /\ Cardinality(tasks[w]) \in Nat
    BY <2>4, <2>5, FS_CardinalityType
  <2>. QED  BY <2>4, <2>5, <2>6, EngineAssumption
<1>. QED  BY <1>1, CalmInvariant, PTL

\* A job nobody asked to cancel is COMPLETED only when every stage is done.
THEOREM CompletedJobsAreVerified == Calm => (Spec => []UncancelledCompletedIsVerified)
<1> SUFFICES ASSUME Calm PROVE Spec => []UncancelledCompletedIsVerified
  OBVIOUS
<1>1. CalmInv => UncancelledCompletedIsVerified
  BY DEF CalmInv, RowsInv
<1>. QED  BY <1>1, CalmInvariant, PTL

\* Retries, interruptions and cancellations keep every finished stage.
THEOREM StagesAreKept == Calm => (Spec => CompletedStagesAreKept)
<1> SUFFICES ASSUME Calm PROVE Spec => CompletedStagesAreKept
  OBVIOUS
<1>1. ASSUME CalmInv, [Next]_vars
      PROVE  [\A j \in Jobs, s \in Stages :
                job[j].steps[s] \in Done /\ s # StagePrepare => job'[j].steps[s] \in Done]_vars
  <2>1. RowsStep
    BY <1>1, NextCalm
  <2>. QED  BY <2>1 DEF RowsStep, RowStep, KeepsDone
<1>. QED  BY <1>1, CalmInvariant, PTL DEF Spec, CompletedStagesAreKept

\* Without database errors the statuses behave like JobLifecycle.
THEOREM EngineImplementsLifecycle == Calm /\ MaxErrors = 0 => (Spec => ImplementsLifecycle)
<1> SUFFICES ASSUME Calm, MaxErrors = 0 PROVE Spec => ImplementsLifecycle
  OBVIOUS
<1> DEFINE status == [j \in Jobs |-> job[j].status]
<1>1. Init => Lifecycle!LifecycleInit
  BY DEF Init, AbsentRow, Lifecycle!LifecycleInit
<1>2. ASSUME CalmInv, [Next]_vars PROVE [Lifecycle!LifecycleNext]_status
  <2>1. PICK j \in Jobs : RowStep(j)
    BY <1>2, NextCalm DEF RowsStep
  <2>2. status' = [status EXCEPT ![j] = job'[j].status]
    BY <2>1 DEF RowStep
  <2>3. CASE job'[j].status = job[j].status
    BY <2>2, <2>3
  <2>4. CASE job'[j].status # job[j].status
    <3>1. <<job[j].status, job'[j].status>> \in Edges
      BY <2>1, <2>4 DEF RowStep, Edge
    <3>2. job'[j].status = "QUEUED" => Lifecycle!Free(j)
      <4>1. Clash[j] \subseteq Jobs
        BY EngineAssumption
      <4>. QED  BY <2>1, <2>4, <4>1 DEF RowStep, Lifecycle!Free, Lifecycle!Holding, Active
    <3>3. \A new : job'[j].status = new => Lifecycle!Become(j, new)
      BY <2>2 DEF Lifecycle!Become
    <3>4. status[j] = job[j].status
      OBVIOUS
    <3> HIDE DEF status
    <3>5. \/ Lifecycle!Submitted(j) \/ Lifecycle!Claimed(j) \/ Lifecycle!Ended(j) \/ Lifecycle!Parked(j)
          \/ Lifecycle!CancelledUnclaimed(j) \/ Lifecycle!Requeued(j) \/ Lifecycle!CompletedAfterCancel(j)
      BY <3>1, <3>2, <3>3 DEF Edges, Terminal, Lifecycle!Submitted, Lifecycle!Claimed, Lifecycle!Ended,
         Lifecycle!Parked, Lifecycle!CancelledUnclaimed, Lifecycle!Requeued, Lifecycle!CompletedAfterCancel
    <3>. QED  BY <3>5 DEF Lifecycle!LifecycleNext
  <2>. QED  BY <2>3, <2>4
<1>. QED  BY <1>1, <1>2, CalmInvariant, PTL DEF Spec, ImplementsLifecycle, Lifecycle!LifecycleSpec

-----------------------------------------------------------------------------
(* The answer media: what rows and sessions know of it *)

\* The order of the stages in the pipeline: the media is prepared, the VM boots
\* from it, it is cleaned up, and stages of the guest follow.
MediaStages ==
    0 < StagePrepare /\ StagePrepare < StagePowerOn /\ StagePowerOn < StageCleanup
        /\ StageCleanup < NStages

Finished(row, s) == row.steps[s] \in Done

\* The preparation counts as done and the VM has not booted from the media yet.
Awaits(row) == Finished(row, StagePrepare) /\ ~Finished(row, StagePowerOn)

\* No media is recorded, or it is recorded as removed.
Marked(row) == row.path => row.removed

\* The removal is recorded and nothing waits for the media.
Settled(row) == row.removed /\ ~Awaits(row)

\* What a row says about its own stages.
RowOk(row) ==
    /\ Finished(row, StagePrepare) => row.steps[StagePrepare] = "SUCCEEDED" /\ row.path
    /\ Finished(row, StagePowerOn) => row.steps[StagePowerOn] = "SUCCEEDED"
    /\ Finished(row, StageCleanup) => Finished(row, StagePrepare) /\ row.removed
    /\ Finished(row, NStages) => Finished(row, StageCleanup)

SameMedia(a, b) ==
    /\ a.path = b.path /\ a.removed = b.removed
    /\ \A s \in Stages : Finished(a, s) <=> Finished(b, s)

SameOthers(a, b) ==
    /\ a.path = b.path
    /\ \A s \in Stages : s # StagePrepare => (Finished(a, s) <=> Finished(b, s))

\* "db" is what "row" was, except that the media may have been removed since.
Agrees(db, row) ==
    /\ SameOthers(db, row)
    /\ Finished(db, StagePrepare) => Finished(row, StagePrepare)
    /\ SameMedia(db, row) \/ Settled(db)

\* "row" differs from "base" by a removal of the media at most.
Follows(base, row) ==
    /\ SameOthers(base, row)
    /\ row.steps[StagePrepare] = base.steps[StagePrepare] \/ ~Finished(row, StagePrepare)
    /\ SameMedia(base, row) \/ Settled(row)

\* Two sessions loaded the same media, or one of them loaded its removal.
Alike(a, b) == SameMedia(a, b) \/ Settled(a) \/ Settled(b)

\* The relations compose.
LEMMA MediaCompose ==
    ASSUME MediaStages, NEW a, NEW b, NEW d
    PROVE  /\ SameMedia(a, a) /\ Agrees(a, a) /\ Follows(a, a)
           /\ SameMedia(a, b) => /\ SameMedia(b, a) /\ Agrees(a, b)
                                 /\ (Settled(a) <=> Settled(b)) /\ (Awaits(a) <=> Awaits(b))
                                 /\ (Marked(a) <=> Marked(b))
           /\ SameMedia(a, b) /\ SameMedia(b, d) => SameMedia(a, d)
           /\ Agrees(a, b) /\ Agrees(b, d) => Agrees(a, d)
           /\ Follows(a, b) /\ Follows(b, d) => Follows(a, d)
           /\ Alike(a, b) => Alike(b, a)
           /\ Alike(a, b) /\ Follows(a, d) => Alike(d, b)
           /\ Agrees(a, b) => Alike(a, b)
<1>0. StagePrepare \in Stages /\ StagePowerOn \in Stages /\ StageCleanup \in Stages /\ StagePowerOn # StagePrepare
  BY StageAssumption DEF MediaStages, Stages
<1>1. SameMedia(a, a) /\ Agrees(a, a) /\ Follows(a, a)
  BY DEF SameMedia, Agrees, Follows, SameOthers
<1>2. SameMedia(a, b) => /\ SameMedia(b, a) /\ Agrees(a, b)
                         /\ (Settled(a) <=> Settled(b)) /\ (Awaits(a) <=> Awaits(b))
                         /\ (Marked(a) <=> Marked(b))
  BY <1>0 DEF SameMedia, Agrees, SameOthers, Settled, Awaits, Marked
<1>3. SameMedia(a, b) /\ SameMedia(b, d) => SameMedia(a, d)
  BY DEF SameMedia
<1>4. SameOthers(a, b) /\ SameOthers(b, d) => SameOthers(a, d)
  BY DEF SameOthers
<1>5. SameMedia(b, d) => (Settled(b) <=> Settled(d))
  BY <1>0 DEF SameMedia, Settled, Awaits
<1>6. ASSUME Agrees(a, b), Agrees(b, d) PROVE Agrees(a, d)
  <2>1. SameMedia(a, d) \/ Settled(a)
    BY <1>2, <1>3, <1>6 DEF Agrees
  <2>. QED  BY <1>4, <1>6, <2>1 DEF Agrees
<1>7. ASSUME Follows(a, b), Follows(b, d) PROVE Follows(a, d)
  <2>1. SameMedia(a, d) \/ Settled(d)
    BY <1>3, <1>5, <1>7 DEF Follows
  <2>2. d.steps[StagePrepare] = a.steps[StagePrepare] \/ ~Finished(d, StagePrepare)
    BY <1>7 DEF Follows, Finished
  <2>. QED  BY <1>4, <1>7, <2>1, <2>2 DEF Follows
<1>8. Alike(a, b) => Alike(b, a)
  BY <1>2 DEF Alike
<1>9. ASSUME Alike(a, b), Follows(a, d) PROVE Alike(d, b)
  <2>1. CASE Settled(d)
    BY <2>1 DEF Alike
  <2>2. CASE SameMedia(a, d)
    <3>1. SameMedia(d, a) /\ (Settled(a) => Settled(d))
      BY <1>0, <2>2 DEF SameMedia, Settled, Awaits
    <3>2. SameMedia(a, b) => SameMedia(d, b)
      BY <3>1 DEF SameMedia
    <3>. QED  BY <1>9, <3>1, <3>2 DEF Alike
  <2>. QED  BY <1>9, <2>1, <2>2 DEF Follows
<1>10. Agrees(a, b) => Alike(a, b)
  BY DEF Agrees, Alike
<1>. QED  BY <1>1, <1>2, <1>3, <1>6, <1>7, <1>8, <1>9, <1>10

\* A commit merges what a session did with what others did since.
LEMMA FlushMedia ==
    ASSUME MediaStages, NEW db \in Row, NEW base \in Row, NEW row \in Row,
           RowOk(db), RowOk(row), Agrees(db, base), Follows(base, row)
    PROVE  /\ RowOk(Flush(db, base, row))
           /\ Agrees(Flush(db, base, row), db)
           /\ Agrees(Flush(db, base, row), row)
           /\ (Marked(row) => Marked(Flush(db, base, row)))
           /\ (SameMedia(db, base) /\ SameMedia(base, row) => SameMedia(Flush(db, base, row), row))
<1> DEFINE new == Flush(db, base, row)
<1>0. /\ StagePrepare \in Stages /\ StagePowerOn \in Stages /\ StageCleanup \in Stages /\ NStages \in Stages
      /\ StagePowerOn # StagePrepare /\ StageCleanup # StagePrepare /\ NStages # StagePrepare
  BY StageAssumption DEF MediaStages, Stages
<1>1. /\ \A s \in Stages : new.steps[s] = IF row.steps[s] # base.steps[s] THEN row.steps[s] ELSE db.steps[s]
      /\ new.path = (IF row.path # base.path \/ row.removed # base.removed THEN row.path ELSE db.path)
      /\ new.removed = (IF row.path # base.path \/ row.removed # base.removed THEN row.removed ELSE db.removed)
  BY DEF Flush, Changed
<1>2. db.removed \in BOOLEAN /\ base.removed \in BOOLEAN /\ row.removed \in BOOLEAN
  BY DEF Row
<1> HIDE DEF new
<1>3. /\ new.path = row.path /\ row.path = base.path /\ db.path = base.path
      /\ (row.removed => new.removed) /\ (db.removed => new.removed)
  BY <1>1, <1>2 DEF Agrees, Follows, SameOthers, SameMedia, Settled
<1>4. \A s \in Stages : s # StagePrepare => /\ (Finished(new, s) <=> Finished(db, s))
                                            /\ (Finished(new, s) <=> Finished(row, s))
                                            /\ (new.steps[s] = row.steps[s] \/ new.steps[s] = db.steps[s])
  BY <1>1 DEF Finished, Agrees, Follows, SameOthers
<1>5. /\ (Finished(new, StagePrepare) => Finished(db, StagePrepare) /\ Finished(row, StagePrepare))
      /\ (new.steps[StagePrepare] = row.steps[StagePrepare] \/ new.steps[StagePrepare] = db.steps[StagePrepare])
      /\ (Finished(db, StagePrepare) /\ Finished(row, StagePrepare) => Finished(new, StagePrepare))
  BY <1>0, <1>1 DEF Finished, Agrees, Follows
<1>6. SameOthers(new, db) /\ SameOthers(new, row)
  BY <1>3, <1>4 DEF SameOthers
<1>7. RowOk(new)
  <2>1. Finished(new, StagePrepare) => new.steps[StagePrepare] = "SUCCEEDED" /\ new.path
    BY <1>3, <1>5 DEF RowOk
  <2>2. Finished(new, StagePowerOn) => new.steps[StagePowerOn] = "SUCCEEDED"
    BY <1>0, <1>4 DEF RowOk
  <2>3. Finished(new, StageCleanup) => Finished(new, StagePrepare) /\ new.removed
    BY <1>0, <1>3, <1>4, <1>5 DEF RowOk
  <2>4. Finished(new, NStages) => Finished(new, StageCleanup)
    BY <1>0, <1>4 DEF RowOk
  <2>. QED  BY <2>1, <2>2, <2>3, <2>4 DEF RowOk
<1>8. CASE SameMedia(db, base) /\ SameMedia(base, row)
  <2>1. \A s \in Stages : (Finished(new, s) <=> Finished(db, s)) /\ (Finished(new, s) <=> Finished(row, s))
    BY <1>1, <1>8 DEF Finished, SameMedia
  <2>2. new.removed = db.removed /\ new.removed = row.removed
    BY <1>1, <1>8 DEF SameMedia
  <2>3. SameMedia(new, db) /\ SameMedia(new, row)
    BY <1>3, <2>1, <2>2 DEF SameMedia
  <2>. QED  BY <1>3, <1>5, <1>6, <1>7, <2>3 DEF Agrees, Marked, new
<1>9. CASE ~(SameMedia(db, base) /\ SameMedia(base, row))
  <2>0. Settled(db) \/ Settled(row)
    BY <1>9 DEF Agrees, Follows
  <2>1. new.removed
    BY <1>3, <2>0 DEF Settled
  <2>2. ~Awaits(new)
    BY <1>0, <1>4, <1>5, <2>0 DEF Settled, Awaits
  <2>3. Settled(new)
    BY <2>1, <2>2 DEF Settled
  <2>. QED  BY <1>3, <1>5, <1>6, <1>7, <1>9, <2>3 DEF Agrees, Marked, new
<1>. QED  BY <1>8, <1>9

\* The repository, the API and the worker leave the media of a row alone.
LEMMA OperationsSameMedia ==
    ASSUME MediaStages, NEW row \in Row, NEW sel \in SUBSET Stages, NEW w
    PROVE  /\ SameMedia(EnsureSteps(row), row)
           /\ SameMedia(ResetForRetry(row, sel), row)
           /\ SameMedia(CancelJob(row), row)
           /\ SameMedia(ClaimedRow(row, w), row)
           /\ SameMedia(FinalizeSuccess(row), row)
           /\ SameMedia(ApplyCancellation(row), row)
           /\ SameMedia(FailBeforePipeline(row), row)
           /\ SameMedia(Interrupted(row), row)
<1>1. SameMedia(EnsureSteps(row), row)
  BY DEF SameMedia, Finished, EnsureSteps, Row, Done
<1>2. SameMedia(ResetForRetry(row, sel), row)
  BY DEF SameMedia, Finished, ResetForRetry, ResetSteps, Row, Done
<1>3. SameMedia(CancelJob(row), row)
  BY DEF SameMedia, Finished, CancelJob, RequestCancel, StepsCancelled, Row, Done
<1>4. SameMedia(ClaimedRow(row, w), row) /\ SameMedia(FinalizeSuccess(row), row)
  BY DEF SameMedia, Finished, ClaimedRow, FinalizeSuccess, Row
<1>5. SameMedia(ApplyCancellation(row), row) /\ SameMedia(FailBeforePipeline(row), row)
  BY DEF SameMedia, Finished, ApplyCancellation, FailBeforePipeline, StepsCancelled, Row, Done
<1>6. SameMedia(Interrupted(row), row)
  BY DEF SameMedia, Finished, Interrupted, Row, Done
<1>. QED  BY <1>1, <1>2, <1>3, <1>4, <1>5, <1>6

\* They leave finished steps in their status, too.
LEMMA OperationsKeepSteps ==
    ASSUME NEW row \in Row, NEW sel \in SUBSET Stages, NEW w, NEW s \in Stages, Finished(row, s)
    PROVE  /\ EnsureSteps(row).steps[s] = row.steps[s]
           /\ ResetForRetry(row, sel).steps[s] = row.steps[s]
           /\ CancelJob(row).steps[s] = row.steps[s]
           /\ ClaimedRow(row, w).steps[s] = row.steps[s]
           /\ FinalizeSuccess(row).steps[s] = row.steps[s]
           /\ ApplyCancellation(row).steps[s] = row.steps[s]
           /\ FailBeforePipeline(row).steps[s] = row.steps[s]
           /\ Interrupted(row).steps[s] = row.steps[s]
<1>1. EnsureSteps(row).steps[s] = row.steps[s]
  BY DEF Finished, EnsureSteps, Row, Done
<1>2. ResetForRetry(row, sel).steps[s] = row.steps[s]
  BY DEF Finished, ResetForRetry, ResetSteps, Row, Done
<1>3. CancelJob(row).steps[s] = row.steps[s]
  BY DEF Finished, CancelJob, RequestCancel, StepsCancelled, Row, Done
<1>4. ClaimedRow(row, w).steps[s] = row.steps[s] /\ FinalizeSuccess(row).steps[s] = row.steps[s]
  BY DEF ClaimedRow, FinalizeSuccess, Row
<1>5. ApplyCancellation(row).steps[s] = row.steps[s] /\ FailBeforePipeline(row).steps[s] = row.steps[s]
  BY DEF Finished, ApplyCancellation, FailBeforePipeline, StepsCancelled, Row, Done
<1>6. Interrupted(row).steps[s] = row.steps[s]
  BY DEF Finished, Interrupted, Row, Done
<1>. QED  BY <1>1, <1>2, <1>3, <1>4, <1>5, <1>6

\* A row with the same media and the same finished steps is as good.
LEMMA SameMediaOk ==
    ASSUME MediaStages, NEW a, NEW b, SameMedia(b, a),
           \A s \in Stages : Finished(a, s) => b.steps[s] = a.steps[s]
    PROVE  (RowOk(a) => RowOk(b)) /\ Follows(a, b) /\ Agrees(b, a)
<1>0. /\ StagePrepare \in Stages /\ StagePowerOn \in Stages /\ StageCleanup \in Stages /\ NStages \in Stages
  BY StageAssumption DEF MediaStages, Stages
<1>1. Follows(a, b)
  BY <1>0 DEF Follows, SameOthers, SameMedia
<1>2. Agrees(b, a)
  BY <1>0 DEF Agrees, SameOthers, SameMedia
<1>3. RowOk(a) => RowOk(b)
  BY <1>0 DEF RowOk, SameMedia
<1>. QED  BY <1>1, <1>2, <1>3

\* So a row stays as good through them.
LEMMA OperationsAccount ==
    ASSUME MediaStages, NEW row \in Row, RowOk(row), NEW sel \in SUBSET Stages, NEW w
    PROVE  /\ RowOk(EnsureSteps(row)) /\ Follows(row, EnsureSteps(row))
           /\ RowOk(ResetForRetry(row, sel)) /\ Follows(row, ResetForRetry(row, sel))
           /\ RowOk(CancelJob(row)) /\ Follows(row, CancelJob(row))
           /\ RowOk(ClaimedRow(row, w)) /\ Follows(row, ClaimedRow(row, w))
           /\ RowOk(FinalizeSuccess(row)) /\ Follows(row, FinalizeSuccess(row))
           /\ RowOk(ApplyCancellation(row)) /\ Follows(row, ApplyCancellation(row))
           /\ RowOk(FailBeforePipeline(row)) /\ Follows(row, FailBeforePipeline(row))
           /\ RowOk(Interrupted(row)) /\ Follows(row, Interrupted(row))
<1>1. RowOk(EnsureSteps(row)) /\ Follows(row, EnsureSteps(row))
  <2>1. SameMedia(EnsureSteps(row), row) /\ \A s \in Stages : Finished(row, s) => EnsureSteps(row).steps[s] = row.steps[s]
    BY OperationsSameMedia, OperationsKeepSteps
  <2>. QED  BY <2>1, SameMediaOk
<1>2. RowOk(ResetForRetry(row, sel)) /\ Follows(row, ResetForRetry(row, sel))
  <2>1. SameMedia(ResetForRetry(row, sel), row) /\ \A s \in Stages : Finished(row, s) => ResetForRetry(row, sel).steps[s] = row.steps[s]
    BY OperationsSameMedia, OperationsKeepSteps
  <2>. QED  BY <2>1, SameMediaOk
<1>3. RowOk(CancelJob(row)) /\ Follows(row, CancelJob(row))
  <2>1. SameMedia(CancelJob(row), row) /\ \A s \in Stages : Finished(row, s) => CancelJob(row).steps[s] = row.steps[s]
    BY OperationsSameMedia, OperationsKeepSteps
  <2>. QED  BY <2>1, SameMediaOk
<1>4. RowOk(ClaimedRow(row, w)) /\ Follows(row, ClaimedRow(row, w))
  <2>1. SameMedia(ClaimedRow(row, w), row) /\ \A s \in Stages : Finished(row, s) => ClaimedRow(row, w).steps[s] = row.steps[s]
    BY OperationsSameMedia, OperationsKeepSteps
  <2>. QED  BY <2>1, SameMediaOk
<1>5. RowOk(FinalizeSuccess(row)) /\ Follows(row, FinalizeSuccess(row))
  <2>1. SameMedia(FinalizeSuccess(row), row) /\ \A s \in Stages : Finished(row, s) => FinalizeSuccess(row).steps[s] = row.steps[s]
    BY OperationsSameMedia, OperationsKeepSteps
  <2>. QED  BY <2>1, SameMediaOk
<1>6. RowOk(ApplyCancellation(row)) /\ Follows(row, ApplyCancellation(row))
  <2>1. SameMedia(ApplyCancellation(row), row) /\ \A s \in Stages : Finished(row, s) => ApplyCancellation(row).steps[s] = row.steps[s]
    BY OperationsSameMedia, OperationsKeepSteps
  <2>. QED  BY <2>1, SameMediaOk
<1>7. RowOk(FailBeforePipeline(row)) /\ Follows(row, FailBeforePipeline(row))
  <2>1. SameMedia(FailBeforePipeline(row), row) /\ \A s \in Stages : Finished(row, s) => FailBeforePipeline(row).steps[s] = row.steps[s]
    BY OperationsSameMedia, OperationsKeepSteps
  <2>. QED  BY <2>1, SameMediaOk
<1>8. RowOk(Interrupted(row)) /\ Follows(row, Interrupted(row))
  <2>1. SameMedia(Interrupted(row), row) /\ \A s \in Stages : Finished(row, s) => Interrupted(row).steps[s] = row.steps[s]
    BY OperationsSameMedia, OperationsKeepSteps
  <2>. QED  BY <2>1, SameMediaOk
<1>. QED  BY <1>1, <1>2, <1>3, <1>4, <1>5, <1>6, <1>7, <1>8

\* The steps of a stage that is not finished touch nothing that is.
LEMMA StageSameMedia ==
    ASSUME MediaStages, NEW row \in Row, NEW i \in Stages, ~Finished(row, i), RowOk(row),
           NEW new, \/ new = StageStarted(row, i) \/ new = HandleFailure(row, i)
                    \/ new = [row EXCEPT !.steps[i] = "CANCELLED"]
    PROVE  SameMedia(new, row) /\ RowOk(new) /\ Follows(row, new)
<1>1. new.path = row.path /\ new.removed = row.removed
  BY DEF StageStarted, HandleFailure, Row
<1>2. \A s \in Stages : new.steps[s] = row.steps[s] \/ (s = i /\ ~Finished(new, s))
  <2>1. \A s \in Stages : /\ StageStarted(row, i).steps[s] = IF s = i THEN "RUNNING" ELSE row.steps[s]
                          /\ HandleFailure(row, i).steps[s] = IF s = i THEN "FAILED" ELSE row.steps[s]
                          /\ [row EXCEPT !.steps[i] = "CANCELLED"].steps[s]
                               = IF s = i THEN "CANCELLED" ELSE row.steps[s]
    BY StepsOfStage
  <2>2. \A s \in Stages : new.steps[s] = row.steps[s]
                          \/ (s = i /\ new.steps[s] \in {"RUNNING", "FAILED", "CANCELLED"})
    BY <2>1
  <2>. QED  BY <2>2 DEF Finished, Done
<1>3. SameMedia(new, row) /\ \A s \in Stages : Finished(row, s) => new.steps[s] = row.steps[s]
  BY <1>1, <1>2 DEF SameMedia, Finished
<1>. QED  BY <1>3, SameMediaOk

\* may_hold_unattended_media says that media is recorded and not marked.
LEMMA HeldIsUnmarked ==
    ASSUME MediaStages, NEW row \in Row, RowOk(row)
    PROVE  /\ MayHoldUnattendedMedia(row) <=> ~Marked(row)
           /\ ~Marked(row) => row.path /\ ~row.removed
BY DEF MayHoldUnattendedMedia, RowOk, Marked, Finished, Done, Row, MediaStages

\* release_unattended_media settles the row.
LEMMA ReleasedRow ==
    ASSUME MediaStages, NEW row \in Row, RowOk(row), ~Marked(row)
    PROVE  /\ RowOk(MediaReleased(row)) /\ Follows(row, MediaReleased(row))
           /\ Settled(MediaReleased(row)) /\ Marked(MediaReleased(row))
           /\ \A s \in Stages : s # StagePrepare => MediaReleased(row).steps[s] = row.steps[s]
<1> DEFINE new == MediaReleased(row)
<1>0. /\ StagePrepare \in Stages /\ StagePowerOn \in Stages /\ StageCleanup \in Stages /\ NStages \in Stages
      /\ StagePowerOn # StagePrepare /\ StageCleanup # StagePrepare /\ NStages # StagePrepare
      /\ StagePowerOn # 0
  BY StageAssumption DEF MediaStages, Stages
<1>1. /\ new.path = row.path /\ new.removed /\ row.path /\ ~row.removed
      /\ \A s \in Stages : s # StagePrepare => new.steps[s] = row.steps[s]
      /\ new.steps[StagePrepare] = IF row.steps[StagePrepare] = "SUCCEEDED" /\ ~Booted(row)
                                   THEN "PENDING" ELSE row.steps[StagePrepare]
  BY <1>0, HeldIsUnmarked DEF MediaReleased, Row
<1>2. Finished(row, StagePrepare) => row.steps[StagePrepare] = "SUCCEEDED"
  BY DEF RowOk
<1>3. ~Finished(row, StageCleanup) /\ ~Finished(row, NStages)
  BY <1>1 DEF RowOk
<1>4. Finished(row, StagePowerOn) => Booted(row)
  BY <1>0 DEF RowOk, Booted
<1>5. Booted(row) => Finished(row, StagePowerOn)
  BY DEF Booted, Finished, Done
<1> HIDE DEF new
<1>6. ~Awaits(new)
  BY <1>0, <1>1, <1>2, <1>5 DEF Awaits, Finished, Done
<1>7. new.steps[StagePrepare] = row.steps[StagePrepare] \/ ~Finished(new, StagePrepare)
  BY <1>1 DEF Finished, Done
<1>8. Follows(row, new)
  BY <1>1, <1>6, <1>7 DEF Follows, SameOthers, Finished, Settled
<1>9. RowOk(new)
  <2>1. Finished(new, StagePrepare) => new.steps[StagePrepare] = "SUCCEEDED" /\ new.path
    BY <1>1, <1>2, <1>7 DEF Finished
  <2>2. Finished(new, StagePowerOn) => new.steps[StagePowerOn] = "SUCCEEDED"
    BY <1>0, <1>1 DEF RowOk, Finished
  <2>3. ~Finished(new, StageCleanup) /\ ~Finished(new, NStages)
    BY <1>0, <1>1, <1>3 DEF Finished
  <2>. QED  BY <2>1, <2>2, <2>3 DEF RowOk
<1>. QED  BY <1>1, <1>6, <1>8, <1>9 DEF Settled, Marked, new

\* So does the clean-up stage, which runs after the boot.
LEMMA CleanedRow ==
    ASSUME MediaStages, NEW row \in Row, RowOk(row), Finished(row, StagePowerOn)
    PROVE  LET new == [row EXCEPT !.removed = TRUE]
           IN  /\ RowOk(new) /\ Follows(row, new) /\ Settled(new) /\ new.removed
               /\ new.steps = row.steps /\ new.status = row.status
<1> DEFINE new == [row EXCEPT !.removed = TRUE]
<1>1. /\ new.path = row.path /\ new.removed /\ new.steps = row.steps /\ new.status = row.status
  BY DEF Row
<1> HIDE DEF new
<1>2. RowOk(new) /\ Follows(row, new) /\ Settled(new)
  BY <1>1 DEF RowOk, Follows, Settled, SameOthers, Finished, Awaits
<1>. QED  BY <1>1, <1>2 DEF new

\* The commit of a stage that is done.
LEMMA FinishedRow ==
    ASSUME MediaStages, NEW db \in Row, NEW base \in Row, NEW row \in Row, NEW i \in Stages, NEW o \in Done,
           RowOk(db), RowOk(row), SameMedia(db, base), Follows(base, row),
           ~Finished(row, i), ~Finished(base, i),
           \A s \in Stages : s < i => Finished(row, s),
           i \in {StagePrepare, StagePowerOn} => o = "SUCCEEDED",
           i = StageCleanup => row.removed
    PROVE  LET new == StageFinished(row, i, o)
               merged == Flush(db, base, new)
           IN  /\ RowOk(new) /\ RowOk(merged) /\ SameMedia(merged, new)
               /\ new.removed = row.removed
               /\ new.status = row.status
               /\ \A s \in Stages : new.steps[s] = IF s = i THEN o ELSE row.steps[s]
<1> DEFINE new == StageFinished(row, i, o)
           merged == Flush(db, base, new)
<1>0. /\ StagePrepare \in Stages /\ StagePowerOn \in Stages /\ StageCleanup \in Stages /\ NStages \in Stages
      /\ StagePrepare < StageCleanup /\ StageCleanup < NStages
      /\ StagePowerOn # StagePrepare /\ StageCleanup # StagePrepare /\ NStages # StagePrepare
      /\ NStages # StageCleanup
  BY StageAssumption DEF MediaStages, Stages
<1>1. /\ new.removed = row.removed /\ new.status = row.status
      /\ new.path = (row.path \/ i = StagePrepare)
      /\ \A s \in Stages : new.steps[s] = IF s = i THEN o ELSE row.steps[s]
  <2>1. new.removed = row.removed /\ new.status = row.status /\ new.path = (row.path \/ i = StagePrepare)
    BY DEF StageFinished, Row
  <2>. QED  BY <2>1, StepsOfStage
<1>2. /\ \A s \in Stages : merged.steps[s] = IF new.steps[s] # base.steps[s] THEN new.steps[s] ELSE db.steps[s]
      /\ merged.path = (IF new.path # base.path \/ new.removed # base.removed THEN new.path ELSE db.path)
      /\ merged.removed = (IF new.path # base.path \/ new.removed # base.removed THEN new.removed ELSE db.removed)
  BY DEF Flush, Changed
<1> HIDE DEF new, merged
<1>3. \A s \in Stages : Finished(merged, s) <=> Finished(new, s)
  BY <1>2 DEF Finished, SameMedia
<1>4. merged.path = new.path /\ merged.removed = new.removed
  BY <1>2 DEF SameMedia
<1>5. SameMedia(merged, new)
  BY <1>3, <1>4 DEF SameMedia
<1>6. RowOk(new)
  <2>1. Finished(new, StagePrepare) => new.steps[StagePrepare] = "SUCCEEDED" /\ new.path
    BY <1>0, <1>1 DEF RowOk, Finished
  <2>2. Finished(new, StagePowerOn) => new.steps[StagePowerOn] = "SUCCEEDED"
    BY <1>0, <1>1 DEF RowOk, Finished
  <2>3. Finished(new, StageCleanup) => Finished(new, StagePrepare) /\ new.removed
    <3>1. CASE i = StageCleanup
      BY <1>0, <1>1, <3>1 DEF Finished
    <3>2. CASE i # StageCleanup
      BY <1>0, <1>1, <3>2 DEF RowOk, Finished
    <3>. QED  BY <3>1, <3>2
  <2>4. Finished(new, NStages) => Finished(new, StageCleanup)
    <3>1. CASE i = NStages
      BY <1>0, <1>1, <3>1 DEF Finished
    <3>2. CASE i # NStages
      BY <1>0, <1>1, <3>2 DEF RowOk, Finished
    <3>. QED  BY <3>1, <3>2
  <2>. QED  BY <2>1, <2>2, <2>3, <2>4 DEF RowOk
<1>7. RowOk(merged)
  <2>1. \A s \in Stages : merged.steps[s] = new.steps[s] \/ merged.steps[s] = db.steps[s]
    BY <1>2
  <2>2. \A s \in Stages : merged.steps[s] = db.steps[s] => (Finished(merged, s) => Finished(db, s))
    BY DEF Finished
  <2>3. Finished(merged, StagePrepare) => merged.steps[StagePrepare] = "SUCCEEDED" /\ merged.path
    BY <1>0, <1>3, <1>4, <1>6, <2>1, <2>2 DEF RowOk
  <2>4. Finished(merged, StagePowerOn) => merged.steps[StagePowerOn] = "SUCCEEDED"
    BY <1>0, <1>3, <1>6, <2>1, <2>2 DEF RowOk
  <2>5. Finished(merged, StageCleanup) => Finished(merged, StagePrepare) /\ merged.removed
    BY <1>0, <1>3, <1>4, <1>6 DEF RowOk
  <2>6. Finished(merged, NStages) => Finished(merged, StageCleanup)
    BY <1>0, <1>3, <1>6 DEF RowOk
  <2>. QED  BY <2>3, <2>4, <2>5, <2>6 DEF RowOk
<1>. QED  BY <1>1, <1>5, <1>6, <1>7 DEF new, merged

-----------------------------------------------------------------------------
(* The account of the media *)

\* The points of a run at which it holds a session on its job.
HoldPcs == SessionPcs \cup ReleasePcs

Holds(c, j) == run[c].pc \in HoldPcs /\ run[c].j = j

\* A session differs from the row, and its row from what it loaded, by a
\* removal of the media at most.
SessionAccount(c) ==
    run[c].pc \in HoldPcs =>
        /\ RowOk(run[c].base) /\ RowOk(run[c].row)
        /\ Agrees(RowOf(c), run[c].base) /\ Follows(run[c].base, run[c].row)

\* A stage runs when every earlier one is finished, on the media of the row,
\* and nobody is still removing media of an earlier attempt.
StageAccount(c) ==
    run[c].pc \in {"starting", "handler"} =>
        /\ SameMedia(RowOf(c), run[c].base)
        /\ \A s \in Stages : s < run[c].i => Finished(run[c].row, s)
        /\ ~Finished(run[c].row, run[c].i)
        /\ \A d \in Runs : run[d].pc \in ReleasePcs => run[d].j # run[c].j

\* The pipeline passes the clean-up only when it is finished.
CleanupAccount(c) ==
    /\ run[c].pc \in PipelinePcs /\ run[c].i > StageCleanup => Finished(run[c].row, StageCleanup)
    /\ run[c].pc = "handler" /\ run[c].i = StageCleanup /\ run[c].eff =>
         run[c].j \notin media /\ run[c].row.removed

RunAccount(c) == SessionAccount(c) /\ StageAccount(c) /\ CleanupAccount(c)

\* The media is gone when the clean-up is finished, and the clean-up is when
\* the job is COMPLETED, cancelled or not.
JobAccount(j) ==
    /\ RowOk(job[j])
    /\ Finished(job[j], StageCleanup) => j \notin media
    /\ job[j].status = "COMPLETED" => Finished(job[j], StageCleanup)

PairAccount(c, d) ==
    run[c].pc \in HoldPcs /\ run[d].pc \in HoldPcs /\ run[c].j = run[d].j =>
        Alike(run[c].base, run[d].base)

AccountInv ==
    /\ \A j \in Jobs : JobAccount(j)
    /\ \A c \in Runs : RunAccount(c)
    /\ \A c, d \in Runs : PairAccount(c, d)

\* Which points are sessions.
LEMMA HoldPoints ==
    /\ \A pc \in SessionPcs : pc \in HoldPcs
    /\ \A pc \in ReleasePcs : pc \in HoldPcs
    /\ \A pc \in PipelinePcs : pc \in HoldPcs
    /\ \A pc \in HoldPcs : pc \in TaskPcs \cup ReleasePcs
    /\ {"starting", "handler"} \subseteq PipelinePcs
    /\ {"idle", "start", "ending", "mark"} \cap HoldPcs = {}
BY DEF HoldPcs, SessionPcs, PipelinePcs, ReleasePcs, TaskPcs

\* What the account says of a session.
LEMMA AccountFacts ==
    ASSUME CalmInv, AccountInv, NEW c \in Runs
    PROVE  /\ run[c].j \in Jobs /\ job[run[c].j] \in Row /\ run[c].base \in Row /\ run[c].row \in Row
           /\ RowOk(job[run[c].j])
           /\ RunAccount(c) /\ RunInv(c)
           /\ (run[c].pc \in HoldPcs =>
                 /\ RowOk(run[c].base) /\ RowOk(run[c].row)
                 /\ Agrees(job[run[c].j], run[c].base) /\ Follows(run[c].base, run[c].row))
<1>1. TypeOK
  BY DEF CalmInv, HeldInv
<1>2. run[c].j \in Jobs /\ job[run[c].j] \in Row /\ run[c].base \in Row /\ run[c].row \in Row
  BY <1>1, SlotType
<1>3. RunAccount(c) /\ RunInv(c) /\ JobAccount(run[c].j)
  BY <1>2 DEF AccountInv, CalmInv
<1>. QED  BY <1>2, <1>3 DEF RunAccount, SessionAccount, JobAccount, RowOf

\* While a stage runs, no other run has anything to do with its job.
LEMMA StageIsAlone ==
    ASSUME CalmInv, AccountInv, NEW c \in Runs, NEW d \in Runs, c # d,
           run[d].pc \in {"starting", "handler"}, run[c].pc \in TaskPcs \cup ReleasePcs
    PROVE  run[c].j # run[d].j
<1>1. run[d].pc \in TaskPcs
  BY DEF TaskPcs, PipelinePcs
<1>2. CASE run[c].pc \in TaskPcs
  BY <1>1, <1>2 DEF CalmInv, AloneInv
<1>3. CASE run[c].pc \in ReleasePcs
  BY <1>3 DEF AccountInv, RunAccount, StageAccount
<1>. QED  BY <1>2, <1>3

\* Rows change in nothing that concerns the media, and sessions end at most.
LEMMA AccountOfRows ==
    ASSUME MediaStages, CalmInv, AccountInv, UNCHANGED media,
           \A k \in Jobs : /\ RowOk(job'[k])
                           /\ (job'[k].status = "COMPLETED" => job[k].status = "COMPLETED")
                           /\ \/ SameMedia(job'[k], job[k])
                              \/ /\ job'[k].status # "COMPLETED" /\ ~Finished(job'[k], StageCleanup)
                                 /\ \A d \in Runs : ~Holds(d, k),
           \A d \in Runs : run'[d] = run[d] \/ run'[d].pc \notin HoldPcs
    PROVE  AccountInv'
<1>0. StageCleanup \in Stages
  BY StageAssumption DEF MediaStages, Stages
<1>1. ASSUME NEW k \in Jobs PROVE JobAccount(k)'
  BY <1>0, <1>1 DEF AccountInv, JobAccount, SameMedia
<1>2. ASSUME NEW d \in Runs, NEW e \in Runs PROVE PairAccount(d, e)'
  BY <1>2 DEF AccountInv, PairAccount
<1>3. ASSUME NEW d \in Runs PROVE RunAccount(d)'
  <2>1. CASE run'[d].pc \notin HoldPcs
    <3>1. run'[d].pc \notin PipelinePcs /\ run'[d].pc \notin {"starting", "handler"}
      BY <2>1, HoldPoints
    <3>. QED  BY <2>1, <3>1 DEF RunAccount, SessionAccount, StageAccount, CleanupAccount
  <2>2. CASE run[d].pc \in HoldPcs /\ run'[d] = run[d]
    <3>0. RunAccount(d) /\ run[d].j \in Jobs /\ RowOf(d) = job[run[d].j] /\ RowOf(d)' = job'[run[d].j]
      BY <2>2, AccountFacts DEF RowOf
    <3>1. SameMedia(RowOf(d)', RowOf(d))
      BY <2>2, <3>0 DEF Holds
    <3>2. SessionAccount(d)'
      <4>1. Agrees(RowOf(d)', RowOf(d))
        BY <3>1, MediaCompose
      <4>2. Agrees(RowOf(d)', run[d].base)
        BY <2>2, <3>0, <4>1, MediaCompose DEF RunAccount, SessionAccount
      <4>. QED  BY <2>2, <3>0, <4>2 DEF RunAccount, SessionAccount
    <3>3. StageAccount(d)'
      <4>1. ASSUME run[d].pc \in {"starting", "handler"} PROVE SameMedia(RowOf(d)', run[d].base)
        BY <3>0, <3>1, <4>1, MediaCompose DEF RunAccount, StageAccount
      <4>2. \A e \in Runs : run'[e].pc \in ReleasePcs => run'[e] = run[e]
        BY HoldPoints
      <4>. QED  BY <2>2, <3>0, <4>1, <4>2 DEF RunAccount, StageAccount
    <3>4. CleanupAccount(d)'
      BY <2>2, <3>0 DEF RunAccount, CleanupAccount
    <3>. QED  BY <3>2, <3>3, <3>4 DEF RunAccount
  <2>. QED  BY <2>1, <2>2
<1>. QED  BY <1>1, <1>2, <1>3 DEF AccountInv

\* One run moves, and writes to the row of its job at most.
LEMMA AccountOfRun ==
    ASSUME MediaStages, CalmInv, AccountInv, NEW c \in Runs, NEW k \in Jobs,
           \A d \in Runs \ {c} : run'[d] = run[d],
           \A m \in Jobs \ {k} : job'[m] = job[m],
           \A m \in Jobs \ {k} : m \in media' => m \in media,
           run'[c].pc \in HoldPcs => run'[c].j = k,
           JobAccount(k)', RunAccount(c)',
           \A d \in Runs \ {c} : Holds(d, k) =>
               /\ Agrees(job'[k], job[k])
               /\ run'[c].pc \in HoldPcs => Alike(run'[c].base, run[d].base),
           \A d \in Runs \ {c} : run[d].pc \in {"starting", "handler"} => run[d].j # k
    PROVE  AccountInv'
<1>1. ASSUME NEW m \in Jobs PROVE JobAccount(m)'
  <2>1. CASE m = k
    BY <2>1
  <2>2. CASE m # k
    BY <2>2 DEF AccountInv, JobAccount
  <2>. QED  BY <2>1, <2>2
<1>2. ASSUME NEW d \in Runs, NEW e \in Runs PROVE PairAccount(d, e)'
  <2>1. CASE d # c /\ e # c
    BY <2>1 DEF AccountInv, PairAccount
  <2>2. CASE d = c /\ e # c
    BY <2>2 DEF PairAccount, Holds
  <2>3. CASE d # c /\ e = c
    <3>1. PairAccount(e, d)'
      BY <2>3 DEF PairAccount, Holds
    <3>. QED  BY <3>1, MediaCompose DEF PairAccount
  <2>4. CASE d = c /\ e = c
    BY <2>4, MediaCompose DEF PairAccount, Alike
  <2>. QED  BY <2>1, <2>2, <2>3, <2>4
<1>3. ASSUME NEW d \in Runs PROVE RunAccount(d)'
  <2>1. CASE d = c
    BY <2>1
  <2>2. CASE d # c
    <3>0. /\ RunAccount(d) /\ run[d].j \in Jobs /\ run'[d] = run[d]
          /\ RowOf(d) = job[run[d].j] /\ RowOf(d)' = job'[run[d].j]
      BY <2>2, AccountFacts DEF RowOf
    <3>1. SessionAccount(d)'
      <4>1. CASE run[d].pc \in HoldPcs /\ run[d].j = k
        <5>1. Agrees(RowOf(d)', RowOf(d))
          BY <2>2, <3>0, <4>1 DEF Holds
        <5>2. Agrees(RowOf(d)', run[d].base)
          BY <3>0, <4>1, <5>1, MediaCompose DEF RunAccount, SessionAccount
        <5>. QED  BY <3>0, <5>2 DEF RunAccount, SessionAccount
      <4>2. CASE ~(run[d].pc \in HoldPcs /\ run[d].j = k)
        BY <3>0, <4>2 DEF RunAccount, SessionAccount
      <4>. QED  BY <4>1, <4>2
    <3>2. StageAccount(d)'
      <4>1. ASSUME run[d].pc \in {"starting", "handler"}
            PROVE  RowOf(d)' = RowOf(d) /\ \A e \in Runs : run'[e].pc \in ReleasePcs => run'[e].j # run[d].j
        <5>1. run[d].j # k
          BY <2>2, <4>1
        <5>2. \A e \in Runs \ {c} : run[e].pc \in ReleasePcs => run[e].j # run[d].j
          BY <3>0, <4>1 DEF RunAccount, StageAccount
        <5>. QED  BY <3>0, <5>1, <5>2, HoldPoints
      <4>. QED  BY <3>0, <4>1 DEF RunAccount, StageAccount
    <3>3. CleanupAccount(d)'
      BY <2>2, <3>0 DEF RunAccount, CleanupAccount
    <3>. QED  BY <3>1, <3>2, <3>3 DEF RunAccount
  <2>. QED  BY <2>1, <2>2
<1>. QED  BY <1>1, <1>2, <1>3 DEF AccountInv

\* What the commit of a session makes of the row.
LEMMA CommitMedia ==
    ASSUME MediaStages, CalmInv, AccountInv, NEW c \in Runs, run[c].pc \in HoldPcs,
           NEW k \in Jobs, k = run[c].j, NEW row \in Row, Commit(c, row),
           RowOk(row), Follows(run[c].base, row),
           row.status = run[c].base.status \/ (row.status = "COMPLETED" => Finished(row, StageCleanup)),
           k \in media' => k \in media
    PROVE  /\ \A m \in Jobs \ {k} : job'[m] = job[m]
           /\ Agrees(job'[k], job[k]) /\ Agrees(job'[k], row)
           /\ (Marked(row) => Marked(job'[k]))
           /\ (SameMedia(job[k], run[c].base) /\ SameMedia(run[c].base, row) => SameMedia(job'[k], row))
           /\ JobAccount(k)'
<1> DEFINE db == job[k]
           base == run[c].base
           new == Flush(db, base, row)
<1>0. /\ db \in Row /\ base \in Row /\ job \in [Jobs -> Row] /\ StageCleanup \in Stages
      /\ StageCleanup # StagePrepare
      /\ RowOk(db) /\ Agrees(db, base) /\ JobAccount(k)
  BY AccountFacts, StageAssumption DEF CalmInv, HeldInv, TypeOK, AccountInv, MediaStages, Stages
<1>1. job'[k] = new /\ \A m \in Jobs \ {k} : job'[m] = job[m]
  BY <1>0 DEF Commit
<1>2. /\ RowOk(new) /\ Agrees(new, db) /\ Agrees(new, row) /\ (Marked(row) => Marked(new))
      /\ (SameMedia(db, base) /\ SameMedia(base, row) => SameMedia(new, row))
  <2>1. /\ RowOk(Flush(db, base, row))
        /\ Agrees(Flush(db, base, row), db) /\ Agrees(Flush(db, base, row), row)
        /\ (Marked(row) => Marked(Flush(db, base, row)))
        /\ (SameMedia(db, base) /\ SameMedia(base, row) => SameMedia(Flush(db, base, row), row))
    <3>1. db \in Row /\ base \in Row /\ RowOk(db) /\ Agrees(db, base) /\ Follows(base, row)
      BY <1>0
    <3> HIDE DEF db, base
    <3>. QED  BY <3>1, FlushMedia
  <2>. QED  BY <2>1
<1>3. new.status = "COMPLETED" => (row.status = "COMPLETED" /\ row.status # base.status) \/ db.status = "COMPLETED"
  BY DEF Flush, Changed
<1> HIDE DEF new, db, base
<1>4. (Finished(new, StageCleanup) <=> Finished(db, StageCleanup)) /\ (Finished(new, StageCleanup) <=> Finished(row, StageCleanup))
  BY <1>0, <1>2 DEF Agrees, SameOthers
<1>5. JobAccount(k)'
  BY <1>0, <1>1, <1>2, <1>3, <1>4 DEF JobAccount, db, base
<1>. QED  BY <1>1, <1>2, <1>5 DEF db, base

\* A session commits, and ends or goes on with what it wrote.
LEMMA AccountOfCommit ==
    ASSUME MediaStages, CalmInv, AccountInv, NEW c \in Runs, run[c].pc \in HoldPcs,
           NEW k \in Jobs, k = run[c].j, NEW row \in Row, Commit(c, row),
           RowOk(row), Follows(run[c].base, row),
           row.status = run[c].base.status \/ (row.status = "COMPLETED" => Finished(row, StageCleanup)),
           UNCHANGED media,
           \A d \in Runs \ {c} : run'[d] = run[d],
           run'[c].pc \in HoldPcs => run'[c].j = k /\ run'[c].base = row /\ run'[c].row = row,
           StageAccount(c)', CleanupAccount(c)'
    PROVE  AccountInv'
<1>1. /\ \A m \in Jobs \ {k} : job'[m] = job[m]
      /\ Agrees(job'[k], job[k]) /\ Agrees(job'[k], row) /\ JobAccount(k)'
  BY CommitMedia
<1>2. RunAccount(c)'
  <2>1. Follows(row, row)
    BY MediaCompose
  <2>. QED  BY <1>1, <2>1 DEF RunAccount, SessionAccount, RowOf
<1>3. ASSUME NEW d \in Runs \ {c}, Holds(d, k), run'[c].pc \in HoldPcs PROVE Alike(run'[c].base, run[d].base)
  <2>1. Alike(run[c].base, run[d].base)
    BY <1>3 DEF Holds, AccountInv, PairAccount
  <2>2. Alike(row, run[d].base)
    BY <2>1, MediaCompose
  <2>. QED  BY <1>3, <2>2
<1>4. \A d \in Runs \ {c} : run[d].pc \in {"starting", "handler"} => run[d].j # k
  BY StageIsAlone, HoldPoints
<1>. QED  BY <1>1, <1>2, <1>3, <1>4, AccountOfRun

\* A run moves without a commit: its session is opened, changed or closed.
LEMMA AccountOfQuiet ==
    ASSUME MediaStages, CalmInv, AccountInv, NEW c \in Runs, run[c].pc \in TaskPcs \cup ReleasePcs,
           NEW k \in Jobs, k = run[c].j, UNCHANGED job, media' \subseteq media,
           \A d \in Runs \ {c} : run'[d] = run[d],
           run'[c].pc \in HoldPcs =>
               /\ run'[c].j = k /\ RowOk(run'[c].row) /\ Follows(run'[c].base, run'[c].row)
               /\ run'[c].base = job[k] \/ (run[c].pc \in HoldPcs /\ run'[c].base = run[c].base),
           StageAccount(c)', CleanupAccount(c)'
    PROVE  AccountInv'
<1>0. JobAccount(k) /\ RunAccount(c)
  BY DEF AccountInv
<1>1. JobAccount(k)'
  BY <1>0 DEF JobAccount
<1>2. RunAccount(c)'
  <2>1. SessionAccount(c)'
    <3>1. Agrees(job[k], job[k]) /\ RowOk(job[k])
      BY <1>0, MediaCompose DEF JobAccount
    <3>. QED  BY <1>0, <3>1 DEF RunAccount, SessionAccount, RowOf
  <2>. QED  BY <2>1 DEF RunAccount
<1>3. ASSUME NEW d \in Runs \ {c}, Holds(d, k), run'[c].pc \in HoldPcs PROVE Alike(run'[c].base, run[d].base)
  <2>1. Agrees(job[k], run[d].base)
    BY <1>3 DEF Holds, AccountInv, RunAccount, SessionAccount, RowOf
  <2>2. Alike(job[k], run[d].base)
    BY <2>1, MediaCompose
  <2>3. run[c].pc \in HoldPcs => Alike(run[c].base, run[d].base)
    BY <1>3 DEF Holds, AccountInv, PairAccount
  <2>. QED  BY <1>3, <2>2, <2>3
<1>4. \A d \in Runs \ {c} : run[d].pc \in {"starting", "handler"} => run[d].j # k
  BY StageIsAlone
<1>5. Agrees(job'[k], job[k])
  BY MediaCompose
<1>. QED  BY <1>1, <1>2, <1>3, <1>4, <1>5, AccountOfRun

\* The slots of a task that ends or winds down.
LEMMA EndedSlots ==
    ASSUME CalmInv, NEW c \in Runs, EndTask(c) \/ WindDown(c)
    PROVE  /\ run'[c].pc \notin HoldPcs /\ \A d \in Runs \ {c} : run'[d] = run[d]
           /\ StageAccount(c)' /\ CleanupAccount(c)'
<1>1. run \in [Runs -> RunType]
  BY DEF CalmInv, HeldInv, TypeOK
<1>2. run'[c].pc \in {"idle", "ending"} /\ \A d \in Runs \ {c} : run'[d] = run[d]
  <2>1. CASE EndTask(c)
    BY <1>1, <2>1 DEF EndTask, IdleRun
  <2>2. CASE WindDown(c)
    BY <1>1, <2>2 DEF WindDown, NewRun, IdleRun
  <2>. QED  BY <2>1, <2>2
<1>3. StageAccount(c)' /\ CleanupAccount(c)'
  BY <1>2, HoldPoints DEF StageAccount, CleanupAccount
<1>. QED  BY <1>2, <1>3, HoldPoints

\* A step that concerns the media of no row: rows are inserted, claimed, retried
\* or cancelled, tasks are started, and sessions end.
PlainRow(k) ==
    \/ SameMedia(job'[k], job[k]) /\ (job[k].status = "RUNNING" => job'[k].status = "RUNNING")
    \/ job'[k] = InsertedRow /\ \A d \in Runs : ~Holds(d, k)

PlainRun(d) ==
    \/ run'[d] = run[d]
    \/ /\ run'[d].pc \in {"idle", "ending", "mark"}
       /\ run[d].pc \in ReleasePcs => run[d].pc \in CrashDuring
    \/ run[d].pc = "idle" /\ run'[d].pc = "start" /\ job[run'[d].j].status # "RUNNING"

PlainStep ==
    /\ UNCHANGED media
    /\ \A k \in Jobs : /\ RowOk(job'[k]) /\ PlainRow(k)
                       /\ job'[k].status = "COMPLETED" => job[k].status = "COMPLETED"
    /\ \A d \in Runs : PlainRun(d)

\* Such a step keeps the account.
LEMMA AccountOfPlain ==
    ASSUME MediaStages, CalmInv, AccountInv, PlainStep
    PROVE  AccountInv'
<1>1. /\ InsertedRow.status # "COMPLETED"
      /\ ~Finished(InsertedRow, StageCleanup)
  <2>1. StageCleanup \in Stages
    BY StageAssumption DEF MediaStages, Stages
  <2>. QED  BY <2>1 DEF InsertedRow, AbsentRow, Finished, Done
<1>2. \A d \in Runs : run'[d] = run[d] \/ run'[d].pc \notin HoldPcs
  BY HoldPoints DEF PlainStep, PlainRun
<1>. QED  BY <1>1, <1>2, AccountOfRows DEF PlainStep, PlainRow

\* Rows that stay as they are stay as good.
LEMMA SameRowsArePlain ==
    ASSUME MediaStages, AccountInv, UNCHANGED <<job, media>>
    PROVE  \A k \in Jobs : /\ RowOk(job'[k]) /\ PlainRow(k)
                           /\ job'[k].status = "COMPLETED" => job[k].status = "COMPLETED"
BY MediaCompose DEF AccountInv, JobAccount, PlainRow

\* A task ends without a commit.
LEMMA EndIsPlain ==
    ASSUME MediaStages, CalmInv, AccountInv, NEW c \in Runs, run[c].pc \in TaskPcs, EndTask(c),
           UNCHANGED <<job, media>>
    PROVE  PlainStep
<1>1. run \in [Runs -> RunType] /\ run[c].pc \notin ReleasePcs
  BY PcsDiffer DEF CalmInv, HeldInv, TypeOK
<1>2. run'[c].pc = "idle" /\ \A d \in Runs \ {c} : run'[d] = run[d]
  BY <1>1 DEF EndTask, IdleRun
<1>. QED  BY <1>1, <1>2, SameRowsArePlain DEF PlainStep, PlainRun

\* The start of a task, and the ends it may come to outside the pipeline.
LEMMA StartAccount ==
    ASSUME MediaStages, CalmInv, AccountInv, NEW c \in Runs,
           Load(c) \/ Ready(c) \/ ContextFails(c) \/ FailBefore(c) \/ PipelineError(c)
    PROVE  AccountInv'
<1> USE DEF dbVars, workerVars, faultVars
<1>0. /\ run \in [Runs -> RunType] /\ run[c] \in RunType
      /\ run[c].j \in Jobs /\ job[run[c].j] \in Row /\ run[c].base \in Row /\ run[c].row \in Row
      /\ RowOk(job[run[c].j]) /\ RunInv(c)
      /\ (run[c].pc \in HoldPcs => /\ RowOk(run[c].row) /\ Follows(run[c].base, run[c].row))
  BY AccountFacts DEF CalmInv, HeldInv, TypeOK
<1>k. PICK k \in Jobs : k = run[c].j
  BY <1>0
<1>1. CASE Load(c)
  <2>0. run[c].pc = "start" /\ run[c].pc \in TaskPcs /\ UNCHANGED <<job, media>>
    BY <1>1 DEF Load, TaskPcs
  <2>1. CASE job[run[c].j].status = "RUNNING" /\ job[run[c].j].worker = run[c].w
    <3>1. run' = [run EXCEPT ![c] = [@ EXCEPT !.pc = "loaded", !.base = job[run[c].j],
                                              !.row = EnsureSteps(job[run[c].j])]]
      BY <1>1, <2>1 DEF Load
    <3>2. /\ run'[c].pc = "loaded" /\ run'[c].j = run[c].j
          /\ run'[c].base = job[run[c].j] /\ run'[c].row = EnsureSteps(job[run[c].j])
          /\ \A d \in Runs \ {c} : run'[d] = run[d]
      BY <1>0, <3>1 DEF RunType
    <3>3. RowOk(EnsureSteps(job[run[c].j])) /\ Follows(job[run[c].j], EnsureSteps(job[run[c].j]))
      BY <1>0, OperationsAccount
    <3>4. StageAccount(c)' /\ CleanupAccount(c)'
      BY <3>2 DEF StageAccount, CleanupAccount, PipelinePcs
    <3>. QED  BY <1>k, <2>0, <3>2, <3>3, <3>4, AccountOfQuiet
  <2>2. CASE ~(job[run[c].j].status = "RUNNING" /\ job[run[c].j].worker = run[c].w)
    BY <1>1, <2>0, <2>2, EndIsPlain, AccountOfPlain DEF Load
  <2>. QED  BY <2>1, <2>2
<1>2. CASE Ready(c)
  <2>1. /\ run[c].pc = "loaded" /\ Commit(c, run[c].row) /\ UNCHANGED media
        /\ run'[c].pc = "loop" /\ run'[c].j = run[c].j
        /\ run'[c].base = run[c].row /\ run'[c].row = run[c].row /\ run'[c].i = run[c].i
        /\ \A d \in Runs \ {c} : run'[d] = run[d]
    BY <1>0, <1>2 DEF Ready, RunType
  <2>2. run[c].pc \in HoldPcs /\ run[c].pc \in SessionPcs
    BY <2>1 DEF HoldPcs, SessionPcs
  <2>3. run[c].row.status = run[c].base.status /\ run[c].i = 0
    BY <2>1, <2>2, SessionFacts DEF PipelinePcs, ProgressInv
  <2>4. StageAccount(c)' /\ CleanupAccount(c)'
    BY <2>1, <2>3, StageAssumption DEF StageAccount, CleanupAccount, MediaStages
  <2>. QED  BY <1>0, <1>k, <2>1, <2>2, <2>3, <2>4, AccountOfCommit
<1>3. CASE ContextFails(c)
  <2>1. /\ run[c].pc = "loaded" /\ UNCHANGED <<job, media>>
        /\ run'[c].pc = "failbefore" /\ run'[c].j = run[c].j
        /\ run'[c].base = run[c].base /\ run'[c].row = run[c].row
        /\ \A d \in Runs \ {c} : run'[d] = run[d]
    BY <1>0, <1>3 DEF ContextFails, Goto, RunType
  <2>2. run[c].pc \in HoldPcs /\ run[c].pc \in TaskPcs
    BY <2>1 DEF HoldPcs, SessionPcs, TaskPcs
  <2>3. StageAccount(c)' /\ CleanupAccount(c)'
    BY <2>1 DEF StageAccount, CleanupAccount, PipelinePcs
  <2>. QED  BY <1>0, <1>k, <2>1, <2>2, <2>3, AccountOfQuiet
<1>4. CASE FailBefore(c)
  <2> DEFINE new == FailBeforePipeline(run[c].row)
  <2>1. run[c].pc = "failbefore" /\ run[c].pc \in HoldPcs
    BY <1>4 DEF FailBefore, HoldPcs, SessionPcs
  <2>2. new \in Row /\ new.status = "FAILED"
    BY <1>0, RowOperations, StatusOfOperations, StageAssumption
  <2>3. RowOk(new) /\ Follows(run[c].row, new)
    BY <1>0, <2>1, OperationsAccount
  <2>4. Commit(c, new) /\ WindDown(c) /\ UNCHANGED media
    BY <1>4 DEF FailBefore
  <2> HIDE DEF new
  <2>5. Follows(run[c].base, new)
    BY <1>0, <2>1, <2>3, MediaCompose
  <2>. QED  BY <1>k, <2>1, <2>2, <2>3, <2>4, <2>5, EndedSlots, AccountOfCommit
<1>5. CASE PipelineError(c)
  <2>1. /\ run[c].pc \in PipelinePcs /\ UNCHANGED <<job, media>>
        /\ run'[c].pc = "failbefore" /\ run'[c].j = run[c].j
        /\ run'[c].base = job[run[c].j] /\ run'[c].row = job[run[c].j]
        /\ \A d \in Runs \ {c} : run'[d] = run[d]
    BY <1>0, <1>5 DEF PipelineError, RunType
  <2>2. run[c].pc \in TaskPcs /\ Follows(job[run[c].j], job[run[c].j])
    BY <2>1, PcsDiffer, MediaCompose
  <2>3. StageAccount(c)' /\ CleanupAccount(c)'
    BY <2>1 DEF StageAccount, CleanupAccount, PipelinePcs
  <2>. QED  BY <1>0, <1>k, <2>1, <2>2, <2>3, AccountOfQuiet
<1>. QED  BY <1>1, <1>2, <1>3, <1>4, <1>5

\* Nobody removes media of a job that is executed and not being cancelled.
LEMMA NoTail ==
    ASSUME CalmInv, NEW c \in Runs, NEW d \in Runs, run[c].pc \in SessionPcs, ~job[run[c].j].cancel,
           run[d].pc \in ReleasePcs
    PROVE  run[d].j # run[c].j
<1>1. job[run[c].j].status = "RUNNING"
  BY SessionFacts
<1>2. job[run[d].j].status = "INTERRUPTED" \/ job[run[d].j].cancel
  BY DEF CalmInv, RunInv, ReleaseInv, RowOf
<1>. QED  BY <1>1, <1>2

\* execute picks a stage and refreshes the job.
LEMMA RefreshAccount ==
    ASSUME MediaStages, CalmInv, AccountInv, NEW c \in Runs, Refresh(c)
    PROVE  AccountInv'
<1> USE DEF dbVars, workerVars, faultVars
<1> DEFINE row == job[run[c].j]
<1>0. /\ run \in [Runs -> RunType] /\ run[c] \in RunType
      /\ run[c].j \in Jobs /\ row \in Row /\ RowOk(row)
      /\ StageCleanup \in Stages /\ NStages \in Nat /\ StageCleanup \in Nat
  BY AccountFacts, StageAssumption DEF CalmInv, HeldInv, TypeOK, MediaStages, Stages
<1>k. PICK k \in Jobs : k = run[c].j
  BY <1>0
<1>1. PICK s \in Todo(c) :
         /\ \A t \in Todo(c) : s <= t
         /\ run' = [run EXCEPT ![c].base = row, ![c].row = row,
                ![c].pc = IF CancelSeen(row) THEN "cancelling" ELSE "starting",
                ![c].i = IF CancelSeen(row) THEN 0 ELSE s]
  BY DEF Refresh
<1>2. /\ run[c].pc = "loop" /\ run[c].pc \in SessionPcs /\ run[c].pc \in TaskPcs
      /\ UNCHANGED <<job, media>>
  BY DEF Refresh, SessionPcs, PipelinePcs, TaskPcs
<1>3. /\ run'[c].pc = (IF row.cancel THEN "cancelling" ELSE "starting")
      /\ run'[c].i = (IF row.cancel THEN 0 ELSE s)
      /\ run'[c].base = row /\ run'[c].row = row /\ run'[c].j = run[c].j
      /\ \A d \in Runs \ {c} : run'[d] = run[d]
  BY <1>0, <1>1 DEF RunType, CancelSeen
<1>4. Follows(row, row) /\ SameMedia(row, row)
  BY MediaCompose
<1>5. StageAccount(c)' /\ CleanupAccount(c)'
  <2>1. CASE row.cancel
    BY <1>0, <1>3, <2>1 DEF StageAccount, CleanupAccount
  <2>2. CASE ~row.cancel
    <3>1. /\ s \in Stages /\ row.steps[s] \notin Done
          /\ \A t \in Stages : t < s => row.steps[t] \in Done
      BY <1>1, <1>2, <2>2, NextStage
    <3>2. \A d \in Runs : run'[d].pc \in ReleasePcs => run'[d].j # run'[c].j
      <4>1. run'[c].pc \notin ReleasePcs
        BY <1>3, <2>2 DEF ReleasePcs
      <4>. QED  BY <1>2, <1>3, <2>2, <4>1, NoTail
    <3>3. StageAccount(c)'
      BY <1>2, <1>3, <1>4, <2>2, <3>1, <3>2 DEF StageAccount, RowOf, Finished
    <3>4. s > StageCleanup => Finished(row, StageCleanup)
      BY <1>0, <3>1 DEF Finished, Stages
    <3>5. CleanupAccount(c)'
      BY <1>3, <2>2, <3>4 DEF CleanupAccount
    <3>. QED  BY <3>3, <3>5
  <2>. QED  BY <2>1, <2>2
<1>. QED  BY <1>0, <1>k, <1>2, <1>3, <1>4, <1>5, AccountOfQuiet

\* What the account says of a stage that runs.
LEMMA StageFacts ==
    ASSUME MediaStages, CalmInv, AccountInv, NEW c \in Runs, run[c].pc \in {"starting", "handler"}
    PROVE  /\ run[c].pc \in HoldPcs /\ run[c].pc \in SessionPcs /\ run[c].pc \in TaskPcs
           /\ run[c].pc \in PipelinePcs
           /\ run[c].i \in Stages /\ run[c].i \in Nat
           /\ RowOk(run[c].row) /\ RowOk(run[c].base) /\ RowOk(job[run[c].j])
           /\ SameMedia(job[run[c].j], run[c].base) /\ Follows(run[c].base, run[c].row)
           /\ \A s \in Stages : s < run[c].i => Finished(run[c].row, s)
           /\ ~Finished(run[c].row, run[c].i)
           /\ \A d \in Runs : run[d].pc \in ReleasePcs => run[d].j # run[c].j
           /\ run[c].row.status = run[c].base.status /\ run[c].base.status = "RUNNING"
           /\ (run[c].pc = "starting" => run[c].row = run[c].base)
           /\ (run[c].pc = "handler" => ~Finished(run[c].base, run[c].i))
           /\ CleanupAccount(c)
<1>1. run[c].pc \in HoldPcs /\ run[c].pc \in SessionPcs /\ run[c].pc \in TaskPcs /\ run[c].pc \in PipelinePcs
  BY HoldPoints, PcsDiffer
<1>2. /\ RowOk(run[c].row) /\ RowOk(run[c].base) /\ RowOk(job[run[c].j])
      /\ Follows(run[c].base, run[c].row) /\ RunAccount(c)
  BY <1>1, AccountFacts
<1>3. /\ job[run[c].j].status = run[c].base.status /\ CancelInv(c) /\ ProgressInv(c)
      /\ run[c].row.status = run[c].base.status
  BY <1>1, SessionFacts
<1>4. run[c].i \in Stages /\ run[c].base.status = "RUNNING"
  BY <1>3 DEF ProgressInv, CancelInv, RowOf
<1>5. (run[c].pc = "starting" => run[c].row = run[c].base) /\ (run[c].pc = "handler" => ~Finished(run[c].base, run[c].i))
  BY <1>3 DEF ProgressInv, Finished
<1>6. run[c].i \in Nat
  BY <1>4 DEF Stages
<1>. QED  BY <1>1, <1>2, <1>3, <1>4, <1>5, <1>6 DEF RunAccount, StageAccount, RowOf

\* A stage starts.
LEMMA StartStageAccount ==
    ASSUME MediaStages, CalmInv, AccountInv, NEW c \in Runs, StartStage(c)
    PROVE  AccountInv'
<1> USE DEF dbVars, workerVars, faultVars
<1> DEFINE new == StageStarted(run[c].row, run[c].i)
<1>0. /\ run \in [Runs -> RunType] /\ run[c] \in RunType /\ run[c].j \in Jobs /\ run[c].row \in Row
      /\ StageCleanup \in Stages /\ StageCleanup \in Nat /\ Stages \subseteq 0 .. NStages
  BY AccountFacts, StageAssumption DEF CalmInv, HeldInv, TypeOK, MediaStages, Stages
<1>k. PICK k \in Jobs : k = run[c].j
  BY <1>0
<1>1. /\ run[c].pc = "starting" /\ Commit(c, new) /\ UNCHANGED media
      /\ run'[c].pc = "handler" /\ run'[c].j = run[c].j
      /\ run'[c].base = new /\ run'[c].row = new /\ run'[c].i = run[c].i /\ ~run'[c].eff
      /\ \A d \in Runs \ {c} : run'[d] = run[d]
  BY <1>0 DEF StartStage, RunType
<1>2. /\ run[c].pc \in HoldPcs /\ run[c].i \in Stages /\ run[c].i \in Nat
      /\ run[c].row = run[c].base /\ RowOk(run[c].row) /\ ~Finished(run[c].row, run[c].i)
      /\ SameMedia(job[run[c].j], run[c].base)
      /\ \A s \in Stages : s < run[c].i => Finished(run[c].row, s)
      /\ \A d \in Runs : run[d].pc \in ReleasePcs => run[d].j # run[c].j
      /\ CleanupAccount(c) /\ run[c].pc \in PipelinePcs
  BY <1>1, StageFacts
<1>3. SameMedia(new, run[c].row) /\ RowOk(new) /\ Follows(run[c].row, new)
  BY <1>0, <1>2, StageSameMedia
<1>4. new \in Row /\ new.status = run[c].row.status
  <2>0. run[c].i \in 0 .. NStages
    BY <1>0, <1>2
  <2>1. new \in Row
    BY <1>0, <2>0, RowOperations
  <2>2. new.status = run[c].row.status
    BY <1>0, <2>0, StatusOfOperations
  <2>. QED  BY <2>1, <2>2
<1> HIDE DEF new
<1>5. SameMedia(job'[k], new)
  <2>1. SameMedia(run[c].base, new)
    BY <1>2, <1>3, MediaCompose
  <2>. QED  BY <1>k, <1>1, <1>2, <1>3, <1>4, <2>1, CommitMedia
<1>6. StageAccount(c)'
  <2>1. /\ \A s \in Stages : s < run[c].i => Finished(new, s)
        /\ ~Finished(new, run[c].i)
    BY <1>2, <1>3 DEF SameMedia
  <2>2. \A d \in Runs : run'[d].pc \in ReleasePcs => run'[d].j # run'[c].j
    <3>1. run'[c].pc \notin ReleasePcs
      BY <1>1 DEF ReleasePcs
    <3>. QED  BY <1>1, <1>2, <3>1
  <2>. QED  BY <1>k, <1>1, <1>5, <2>1, <2>2 DEF StageAccount, RowOf
<1>7. CleanupAccount(c)'
  <2>1. run[c].i > StageCleanup => Finished(new, StageCleanup)
    BY <1>0, <1>2, <1>3 DEF SameMedia
  <2>. QED  BY <1>1, <2>1 DEF CleanupAccount
<1>. QED  BY <1>k, <1>1, <1>2, <1>3, <1>4, <1>6, <1>7, AccountOfCommit

\* A stage ends well.
LEMMA StageOkAccount ==
    ASSUME MediaStages, CalmInv, AccountInv, NEW c \in Runs, NEW o \in Outcomes, StageOk(c, o)
    PROVE  AccountInv'
<1> USE DEF dbVars, workerVars, faultVars
<1> DEFINE new == StageFinished(run[c].row, run[c].i, o)
           merged == Flush(job[run[c].j], run[c].base, new)
<1>0. /\ run \in [Runs -> RunType] /\ run[c] \in RunType /\ run[c].j \in Jobs /\ job \in [Jobs -> Row]
      /\ run[c].row \in Row /\ run[c].base \in Row /\ job[run[c].j] \in Row
      /\ StageCleanup \in Stages /\ StageCleanup \in Nat
      /\ StagePrepare \in Stages /\ StagePrepare < StageCleanup
      /\ o \in Done
  BY AccountFacts, StageAssumption, EngineAssumption
  DEF CalmInv, HeldInv, TypeOK, MediaStages, Stages, OutcomeStatuses, Done
<1>k. PICK k \in Jobs : k = run[c].j
  BY <1>0
<1>1. /\ run[c].pc = "handler" /\ HandlerComplete(c) /\ Commit(c, new) /\ UNCHANGED media
      /\ (run[c].i \in {StagePrepare, StagePowerOn} => o = "SUCCEEDED")
      /\ run'[c].pc = "loop" /\ run'[c].j = run[c].j
      /\ run'[c].base = new /\ run'[c].row = new /\ run'[c].i = run[c].i
      /\ \A d \in Runs \ {c} : run'[d] = run[d]
  BY <1>0 DEF StageOk, RunType
<1>2. /\ run[c].pc \in TaskPcs /\ run[c].i \in Stages /\ run[c].i \in Nat
      /\ RowOk(run[c].row) /\ RowOk(run[c].base) /\ RowOk(job[run[c].j])
      /\ ~Finished(run[c].row, run[c].i) /\ ~Finished(run[c].base, run[c].i)
      /\ SameMedia(job[run[c].j], run[c].base) /\ Follows(run[c].base, run[c].row)
      /\ \A s \in Stages : s < run[c].i => Finished(run[c].row, s)
      /\ \A d \in Runs : run[d].pc \in ReleasePcs => run[d].j # run[c].j
      /\ run[c].row.status = "RUNNING"
      /\ CleanupAccount(c)
  BY <1>1, StageFacts
<1>3. run[c].i = StageCleanup => run[c].row.removed /\ run[c].j \notin media
  <2>1. run[c].i = StageCleanup => run[c].row.path
    BY <1>0, <1>2 DEF RowOk
  <2>. QED  BY <1>1, <1>2, <2>1 DEF HandlerComplete, CleanupAccount
<1>4. /\ RowOk(new) /\ RowOk(merged) /\ SameMedia(merged, new)
      /\ new.status = run[c].row.status
      /\ \A s \in Stages : new.steps[s] = IF s = run[c].i THEN o ELSE run[c].row.steps[s]
  <2> DEFINE db == job[run[c].j]
             base == run[c].base
             row == run[c].row
             i == run[c].i
  <2>1. /\ db \in Row /\ base \in Row /\ row \in Row /\ i \in Stages
        /\ RowOk(db) /\ RowOk(row) /\ SameMedia(db, base) /\ Follows(base, row)
        /\ ~Finished(row, i) /\ ~Finished(base, i)
        /\ \A s \in Stages : s < i => Finished(row, s)
        /\ (i \in {StagePrepare, StagePowerOn} => o = "SUCCEEDED")
        /\ (i = StageCleanup => row.removed)
    BY <1>0, <1>1, <1>2, <1>3
  <2>2. /\ RowOk(StageFinished(row, i, o)) /\ RowOk(Flush(db, base, StageFinished(row, i, o)))
        /\ SameMedia(Flush(db, base, StageFinished(row, i, o)), StageFinished(row, i, o))
        /\ StageFinished(row, i, o).status = row.status
        /\ \A s \in Stages : StageFinished(row, i, o).steps[s] = IF s = i THEN o ELSE row.steps[s]
    <3> HIDE DEF db, base, row, i
    <3>. QED  BY <1>0, <2>1, FinishedRow
  <2>. QED  BY <2>2
<1>5. job'[k] = merged /\ \A m \in Jobs \ {k} : job'[m] = job[m]
  BY <1>0, <1>k, <1>1 DEF Commit
<1>6. merged.status # "COMPLETED" \/ job[k].status = "COMPLETED"
  BY <1>k, <1>2, <1>4 DEF Flush, Changed
<1>7. \A s \in Stages : Finished(new, s) <=> (s = run[c].i \/ Finished(run[c].row, s))
  BY <1>0, <1>4 DEF Finished
<1> HIDE DEF new, merged
<1>8. JobAccount(k)'
  <2>1. JobAccount(k)
    BY DEF AccountInv
  <2>2. Finished(job[k], StageCleanup) <=> Finished(run[c].row, StageCleanup)
    BY <1>0, <1>k, <1>2 DEF SameMedia, Follows, SameOthers
  <2>3. Finished(merged, StageCleanup) <=> (StageCleanup = run[c].i \/ Finished(run[c].row, StageCleanup))
    BY <1>0, <1>4, <1>7 DEF SameMedia
  <2>. QED  BY <1>k, <1>1, <1>3, <1>4, <1>5, <1>6, <2>1, <2>2, <2>3 DEF JobAccount
<1>9. RunAccount(c)'
  <2>1. SessionAccount(c)'
    <3>1. Agrees(merged, new) /\ Follows(new, new)
      BY <1>4, MediaCompose
    <3>. QED  BY <1>k, <1>1, <1>4, <1>5, <3>1 DEF SessionAccount, RowOf
  <2>2. StageAccount(c)'
    BY <1>1 DEF StageAccount
  <2>3. run[c].i > StageCleanup => Finished(new, StageCleanup)
    BY <1>0, <1>2, <1>7
  <2>4. CleanupAccount(c)'
    BY <1>1, <2>3 DEF CleanupAccount
  <2>. QED  BY <2>1, <2>2, <2>4 DEF RunAccount
<1>10. \A d \in Runs \ {c} : ~Holds(d, k)
  <2>1. \A d \in Runs \ {c} : run[d].pc \in TaskPcs => run[d].j # k
    BY <1>k, <1>2 DEF CalmInv, AloneInv
  <2>. QED  BY <1>k, <1>2, <2>1, HoldPoints DEF Holds
<1>11. \A d \in Runs \ {c} : run[d].pc \in {"starting", "handler"} => run[d].j # k
  BY <1>10, HoldPoints DEF Holds
<1>. QED  BY <1>k, <1>1, <1>5, <1>8, <1>9, <1>10, <1>11, AccountOfRun

\* The other steps of a handler.
LEMMA HandlerAccount ==
    ASSUME MediaStages, CalmInv, AccountInv, NEW c \in Runs,
           AttachMedia(c) \/ CleanupMedia(c) \/ StageFails(c) \/ StageCancelled(c)
    PROVE  AccountInv'
<1> USE DEF dbVars, workerVars, faultVars
<1>0. /\ run \in [Runs -> RunType] /\ run[c] \in RunType /\ run[c].j \in Jobs
      /\ run[c].row \in Row /\ run[c].base \in Row /\ job[run[c].j] \in Row
      /\ StageCleanup \in Stages /\ StageCleanup \in Nat /\ StagePowerOn \in Stages /\ StagePowerOn < StageCleanup
      /\ StagePrepare \in Stages /\ StagePrepare # StageCleanup
  BY AccountFacts, StageAssumption DEF CalmInv, HeldInv, TypeOK, MediaStages, Stages
<1>k. PICK k \in Jobs : k = run[c].j
  BY <1>0
<1>1. run[c].pc = "handler" /\ UNCHANGED job
  BY DEF AttachMedia, CleanupMedia, StageFails, StageCancelled
<1>2. /\ run[c].pc \in TaskPcs /\ run[c].pc \in HoldPcs /\ run[c].i \in Stages /\ run[c].i \in Nat
      /\ RowOk(run[c].row) /\ RowOk(job[run[c].j])
      /\ ~Finished(run[c].row, run[c].i)
      /\ SameMedia(job[run[c].j], run[c].base) /\ Follows(run[c].base, run[c].row)
      /\ \A s \in Stages : s < run[c].i => Finished(run[c].row, s)
      /\ \A d \in Runs : run[d].pc \in ReleasePcs => run[d].j # run[c].j
      /\ CleanupAccount(c) /\ run[c].pc \in PipelinePcs
  BY <1>1, StageFacts
<1>3. CASE AttachMedia(c)
  <2>1. /\ run[c].i = StagePrepare /\ media' = media \cup {run[c].j}
        /\ run'[c].pc = "handler" /\ run'[c].j = run[c].j
        /\ run'[c].base = run[c].base /\ run'[c].row = run[c].row /\ run'[c].i = run[c].i
        /\ \A d \in Runs \ {c} : run'[d] = run[d]
    BY <1>0, <1>3 DEF AttachMedia, RunType
  <2>2. ~Finished(job[k], StageCleanup)
    BY <1>0, <1>k, <1>2, <2>1 DEF RowOk, SameMedia, Follows, SameOthers
  <2>3. JobAccount(k)'
    BY <1>1, <2>2 DEF AccountInv, JobAccount
  <2>4. RunAccount(c)'
    <3>0. RunAccount(c) /\ RowOf(c)' = RowOf(c)
      BY <1>1, <2>1 DEF AccountInv, RowOf
    <3>1. SessionAccount(c)'
      BY <1>2, <2>1, <3>0 DEF RunAccount, SessionAccount
    <3>2. \A d \in Runs : run'[d].pc \in ReleasePcs => run'[d].j # run'[c].j
      <4>1. run'[c].pc \notin ReleasePcs
        BY <2>1 DEF ReleasePcs
      <4>. QED  BY <1>2, <2>1, <4>1
    <3>3. StageAccount(c)'
      BY <1>1, <2>1, <3>0, <3>2 DEF RunAccount, StageAccount
    <3>4. CleanupAccount(c)'
      BY <1>0, <1>1, <2>1, <3>0, <1>2 DEF RunAccount, CleanupAccount
    <3>. QED  BY <3>1, <3>3, <3>4 DEF RunAccount
  <2>5. \A d \in Runs \ {c} : Holds(d, k) => Agrees(job'[k], job[k]) /\ Alike(run'[c].base, run[d].base)
    BY <1>k, <1>1, <1>2, <2>1, MediaCompose DEF Holds, AccountInv, PairAccount
  <2>6. \A d \in Runs \ {c} : run[d].pc \in {"starting", "handler"} => run[d].j # k
    BY <1>k, <1>2, StageIsAlone
  <2>. QED  BY <1>k, <1>1, <2>1, <2>3, <2>4, <2>5, <2>6, AccountOfRun
<1>4. CASE CleanupMedia(c)
  <2> DEFINE new == [run[c].row EXCEPT !.removed = TRUE]
  <2>1. /\ run[c].i = StageCleanup /\ media' = media \ {run[c].j}
        /\ run' = [run EXCEPT ![c] = [@ EXCEPT !.eff = TRUE, !.row = new]]
    BY <1>0, <1>4 DEF CleanupMedia, RunType
  <2>2. /\ RowOk(new) /\ Follows(run[c].row, new) /\ new.removed /\ new.steps = run[c].row.steps
    BY <1>0, <1>2, <2>1, CleanedRow
  <2> HIDE DEF new
  <2>3. /\ run'[c].pc = "handler" /\ run'[c].j = run[c].j
        /\ run'[c].base = run[c].base /\ run'[c].row = new /\ run'[c].i = run[c].i
        /\ \A d \in Runs \ {c} : run'[d] = run[d]
    BY <1>0, <1>1, <2>1 DEF RunType
  <2>4. Follows(run[c].base, new)
    BY <1>2, <2>2, MediaCompose
  <2>5. StageAccount(c)'
    <3>1. \A d \in Runs : run'[d].pc \in ReleasePcs => run'[d].j # run'[c].j
      <4>1. run'[c].pc \notin ReleasePcs
        BY <2>3 DEF ReleasePcs
      <4>. QED  BY <1>2, <2>3, <4>1
    <3>. QED  BY <1>1, <1>2, <2>2, <2>3, <3>1 DEF StageAccount, RowOf, Finished
  <2>6. CleanupAccount(c)'
    BY <1>0, <1>2, <2>1, <2>2, <2>3 DEF CleanupAccount
  <2>. QED  BY <1>k, <1>1, <1>2, <2>1, <2>2, <2>3, <2>4, <2>5, <2>6, AccountOfQuiet
<1>5. CASE StageFails(c) \/ StageCancelled(c)
  <2>1. PICK new : /\ \/ new = HandleFailure(run[c].row, run[c].i)
                      \/ new = [run[c].row EXCEPT !.steps[run[c].i] = "CANCELLED"]
                   /\ UNCHANGED media
                   /\ run'[c].pc \in {"failing", "cancelling"} /\ run'[c].j = run[c].j
                   /\ run'[c].base = run[c].base /\ run'[c].row = new /\ run'[c].i = run[c].i
                   /\ \A d \in Runs \ {c} : run'[d] = run[d]
    <3>1. CASE StageFails(c)
      BY <1>0, <3>1 DEF StageFails, RunType
    <3>2. CASE StageCancelled(c)
      BY <1>0, <3>2 DEF StageCancelled, RunType
    <3>. QED  BY <1>5, <3>1, <3>2
  <2>2. SameMedia(new, run[c].row) /\ RowOk(new) /\ Follows(run[c].row, new)
    BY <1>0, <1>2, <2>1, StageSameMedia
  <2>3. Follows(run[c].base, new)
    BY <1>2, <2>2, MediaCompose
  <2>4. StageAccount(c)'
    BY <2>1 DEF StageAccount
  <2>5. CleanupAccount(c)'
    BY <1>0, <1>2, <2>1, <2>2 DEF CleanupAccount, SameMedia
  <2>. QED  BY <1>k, <1>1, <1>2, <2>1, <2>2, <2>3, <2>4, <2>5, AccountOfQuiet
<1>. QED  BY <1>3, <1>4, <1>5

\* The media is released, or there is nothing to release, or vCenter refuses.
LEMMA ReleaseAccount ==
    ASSUME MediaStages, CalmInv, AccountInv, NEW c \in Runs, Release(c)
    PROVE  AccountInv'
<1> USE DEF dbVars, workerVars, faultVars
<1>0. /\ run \in [Runs -> RunType] /\ run[c] \in RunType /\ run[c].j \in Jobs /\ run[c].row \in Row
      /\ StageCleanup \in Stages /\ StageCleanup # StagePrepare
  BY AccountFacts, StageAssumption DEF CalmInv, HeldInv, TypeOK, MediaStages, Stages
<1>k. PICK k \in Jobs : k = run[c].j
  BY <1>0
<1>1. run[c].pc \in {"failing", "cancelling", "releasing"} /\ UNCHANGED job
  BY DEF Release, AfterRelease
<1>2. run[c].pc \in HoldPcs /\ run[c].pc \in TaskPcs \cup ReleasePcs
  BY <1>1 DEF HoldPcs, SessionPcs, PipelinePcs, ReleasePcs, TaskPcs
<1>3. RowOk(run[c].row) /\ Follows(run[c].base, run[c].row) /\ CleanupAccount(c)
  BY <1>2, AccountFacts DEF RunAccount
<1>4. AfterRelease[run[c].pc] \in {"failed", "cancelled", "released"}
      /\ (AfterRelease[run[c].pc] \in PipelinePcs => run[c].pc \in PipelinePcs)
  BY <1>1 DEF AfterRelease, PipelinePcs
<1>5. PICK new : /\ run'[c].pc = AfterRelease[run[c].pc] /\ run'[c].j = run[c].j
                 /\ run'[c].base = run[c].base /\ run'[c].row = new /\ run'[c].i = run[c].i
                 /\ \A d \in Runs \ {c} : run'[d] = run[d]
                 /\ media' \subseteq media
                 /\ \/ new = run[c].row
                    \/ new = MediaReleased(run[c].row) /\ MayHoldUnattendedMedia(run[c].row)
  <2>1. CASE run' = [run EXCEPT ![c].pc = AfterRelease[@], ![c].row = MediaReleased(run[c].row)]
             /\ media' = media \ {run[c].j} /\ MayHoldUnattendedMedia(run[c].row)
    BY <1>0, <2>1 DEF RunType
  <2>2. CASE run' = [run EXCEPT ![c].pc = AfterRelease[@]] /\ UNCHANGED media
    BY <1>0, <2>2 DEF RunType
  <2>. QED  BY <2>1, <2>2 DEF Release
<1>6. RowOk(new) /\ Follows(run[c].row, new) /\ new.steps[StageCleanup] = run[c].row.steps[StageCleanup]
  <2>1. CASE new = run[c].row
    BY <1>3, <2>1, MediaCompose
  <2>2. CASE new = MediaReleased(run[c].row) /\ MayHoldUnattendedMedia(run[c].row)
    BY <1>0, <1>3, <2>2, HeldIsUnmarked, ReleasedRow
  <2>. QED  BY <1>5, <2>1, <2>2
<1>7. Follows(run[c].base, new)
  BY <1>3, <1>6, MediaCompose
<1>8. StageAccount(c)' /\ CleanupAccount(c)'
  <2>1. run'[c].pc \notin {"starting", "handler"}
    BY <1>4, <1>5
  <2>. QED  BY <1>3, <1>4, <1>5, <1>6, <2>1 DEF StageAccount, CleanupAccount, Finished
<1>. QED  BY <1>k, <1>1, <1>2, <1>5, <1>6, <1>7, <1>8, AccountOfQuiet

\* A pipeline that is through has finished the clean-up.
LEMMA ThroughIsClean ==
    ASSUME MediaStages, CalmInv, AccountInv, NEW c \in Runs, run[c].pc = "loop", Todo(c) = {}
    PROVE  Finished(run[c].row, StageCleanup)
<1>0. /\ run[c].i \in Nat /\ StageCleanup \in Stages /\ NStages \in Stages /\ StageCleanup \in Nat
      /\ NStages \in Nat /\ StageCleanup < NStages
      /\ RowOk(run[c].row) /\ CleanupAccount(c) /\ run[c].pc \in PipelinePcs
  <2>1. TypeOK /\ run[c].pc \in PipelinePcs
    BY DEF CalmInv, HeldInv, PipelinePcs
  <2>2. run[c].i \in Nat
    BY <2>1, SlotType, StageAssumption
  <2>3. RowOk(run[c].row) /\ CleanupAccount(c)
    BY <2>1, HoldPoints, AccountFacts DEF RunAccount
  <2>. QED  BY <2>1, <2>2, <2>3, StageAssumption DEF MediaStages, Stages
<1>1. CASE run[c].i > StageCleanup
  BY <1>0, <1>1 DEF CleanupAccount
<1>2. CASE run[c].i < StageCleanup
  <2>1. StageCleanup > run[c].i
    BY <1>0, <1>2
  <2>. QED  BY <1>0, <2>1 DEF Todo, Finished
<1>3. CASE run[c].i = StageCleanup
  <2>1. NStages > run[c].i
    BY <1>0, <1>3
  <2>2. Finished(run[c].row, NStages)
    BY <1>0, <2>1 DEF Todo, Finished
  <2>. QED  BY <1>0, <2>2 DEF RowOk
<1>. QED  BY <1>0, <1>1, <1>2, <1>3

\* The last commits of a pipeline, of the reaper and of a shutdown.
LEMMA LastCommitsAccount ==
    ASSUME MediaStages, CalmInv, AccountInv, NEW c \in Runs,
           CommitFailure(c) \/ CommitCancellation(c) \/ Finalize(c) \/ CommitRelease(c)
    PROVE  AccountInv'
<1> USE DEF dbVars, workerVars, faultVars
<1>0. /\ run \in [Runs -> RunType] /\ run[c] \in RunType /\ run[c].j \in Jobs /\ run[c].row \in Row
      /\ StageCleanup \in Stages /\ StageCleanup \in Nat
      /\ (run[c].pc \in HoldPcs => RowOk(run[c].row) /\ Follows(run[c].base, run[c].row))
      /\ RunInv(c) /\ CleanupAccount(c)
  BY AccountFacts, StageAssumption DEF CalmInv, HeldInv, TypeOK, MediaStages, Stages, RunAccount
<1>k. PICK k \in Jobs : k = run[c].j
  BY <1>0
<1>1. CASE CommitFailure(c)
  <2>1. run[c].pc = "failed" /\ Commit(c, run[c].row) /\ WindDown(c) /\ UNCHANGED media
    BY <1>1 DEF CommitFailure
  <2>2. run[c].pc \in HoldPcs
    BY <2>1 DEF HoldPcs, SessionPcs, PipelinePcs
  <2>3. run[c].row.status # "COMPLETED"
    BY <1>0, <2>1 DEF RunInv, ProgressInv
  <2>. QED  BY <1>0, <1>k, <2>1, <2>2, <2>3, EndedSlots, AccountOfCommit
<1>2. CASE CommitCancellation(c)
  <2> DEFINE new == ApplyCancellation(run[c].row)
  <2>1. run[c].pc = "cancelled" /\ Commit(c, new) /\ UNCHANGED media
    BY <1>2 DEF CommitCancellation
  <2>2. run[c].pc \in HoldPcs /\ run[c].pc \in PipelinePcs
    BY <2>1 DEF HoldPcs, SessionPcs, PipelinePcs
  <2>3. RowOk(new) /\ Follows(run[c].row, new) /\ new \in Row /\ new.status = "CANCELLED"
    <3>1. RowOk(new) /\ Follows(run[c].row, new)
      BY <1>0, <2>2, OperationsAccount
    <3>2. new \in Row /\ new.status = "CANCELLED"
      BY <1>0, RowOperations, StatusOfOperations, StageAssumption
    <3>. QED  BY <3>1, <3>2
  <2>4. CASE run[c].i = 0
    <3>1. WindDown(c)
      BY <1>2, <2>4 DEF CommitCancellation
    <3> HIDE DEF new
    <3>2. Follows(run[c].base, new)
      BY <1>0, <2>2, <2>3, MediaCompose
    <3>. QED  BY <1>0, <1>k, <2>1, <2>2, <2>3, <3>1, <3>2, EndedSlots, AccountOfCommit
  <2>5. CASE run[c].i # 0
    <3>1. /\ run'[c].pc = "loop" /\ run'[c].j = run[c].j /\ run'[c].base = new /\ run'[c].row = new
          /\ run'[c].i = run[c].i /\ \A d \in Runs \ {c} : run'[d] = run[d]
      BY <1>0, <1>2, <2>5 DEF CommitCancellation, RunType
    <3> HIDE DEF new
    <3>2. Follows(run[c].base, new)
      BY <1>0, <2>2, <2>3, MediaCompose
    <3>3. StageAccount(c)'
      BY <3>1 DEF StageAccount
    <3>4. Finished(run[c].row, StageCleanup) => Finished(new, StageCleanup)
      BY <1>0, <2>3, StageAssumption DEF Follows, SameOthers, MediaStages
    <3>5. CleanupAccount(c)'
      BY <1>0, <2>2, <3>1, <3>4 DEF CleanupAccount
    <3>. QED  BY <1>0, <1>k, <2>1, <2>2, <2>3, <3>1, <3>2, <3>3, <3>5, AccountOfCommit
  <2>. QED  BY <2>4, <2>5
<1>3. CASE Finalize(c)
  <2> DEFINE new == FinalizeSuccess(run[c].row)
  <2>1. run[c].pc = "loop" /\ Todo(c) = {} /\ Commit(c, new) /\ WindDown(c) /\ UNCHANGED media
    BY <1>3 DEF Finalize
  <2>2. run[c].pc \in HoldPcs
    BY <2>1 DEF HoldPcs, SessionPcs, PipelinePcs
  <2>3. RowOk(new) /\ Follows(run[c].row, new) /\ new \in Row
    BY <1>0, <2>2, OperationsAccount, RowOperations, StageAssumption
  <2>4. new.steps = run[c].row.steps
    BY <1>0 DEF FinalizeSuccess, Row
  <2> HIDE DEF new
  <2>5. Finished(new, StageCleanup)
    BY <2>1, <2>4, ThroughIsClean DEF Finished
  <2>6. Follows(run[c].base, new)
    BY <1>0, <2>2, <2>3, MediaCompose
  <2>. QED  BY <1>k, <2>1, <2>2, <2>3, <2>5, <2>6, EndedSlots, AccountOfCommit
<1>4. CASE CommitRelease(c)
  <2>1. run[c].pc = "released" /\ Commit(c, run[c].row) /\ EndTask(c) /\ UNCHANGED media
    BY <1>4 DEF CommitRelease
  <2>2. run[c].pc \in HoldPcs /\ run[c].pc \in ReleasePcs
    BY <2>1 DEF HoldPcs, ReleasePcs
  <2>3. run[c].row.status = run[c].base.status
    BY <1>0, <2>2 DEF RunInv, ReleaseInv
  <2>. QED  BY <1>0, <1>k, <2>1, <2>2, <2>3, EndedSlots, AccountOfCommit
<1>. QED  BY <1>1, <1>2, <1>3, <1>4

\* One row is rewritten with the same media.
LEMMA RewriteIsPlain ==
    ASSUME MediaStages, CalmInv, AccountInv, NEW j \in Jobs, NEW new, RowOk(new), UNCHANGED media,
           job' = [job EXCEPT ![j] = new],
           \/ SameMedia(new, job[j]) /\ (job[j].status = "RUNNING" => new.status = "RUNNING")
           \/ new = InsertedRow /\ \A d \in Runs : ~Holds(d, j),
           new.status = "COMPLETED" => job[j].status = "COMPLETED",
           \A d \in Runs : PlainRun(d)
    PROVE  PlainStep
<1>1. job'[j] = new /\ \A k \in Jobs \ {j} : job'[k] = job[k]
  BY DEF CalmInv, HeldInv, TypeOK
<1>2. \A k \in Jobs : RowOk(job[k]) /\ SameMedia(job[k], job[k])
  BY MediaCompose DEF AccountInv, JobAccount
<1>. QED  BY <1>1, <1>2 DEF PlainStep, PlainRow

\* What users do to the rows.
LEMMA UsersPlain ==
    ASSUME MediaStages, CalmInv, AccountInv, NEW j \in Jobs, Submit(j) \/ RetryNow(j) \/ CancelNow(j)
    PROVE  PlainStep
<1> USE DEF dbVars, workerVars, faultVars
<1>0. /\ job[j] \in Row /\ RowOk(job[j]) /\ \A d \in Runs : RunInv(d)
  BY DEF CalmInv, HeldInv, TypeOK, AccountInv, JobAccount
<1>1. UNCHANGED <<media, run>> /\ \A d \in Runs : PlainRun(d)
  BY DEF Submit, RetryNow, CancelNow, PlainRun
<1>2. CASE UNCHANGED job
  BY <1>1, <1>2, SameRowsArePlain DEF PlainStep
<1>3. CASE Submit(j)
  <2>1. job' = [job EXCEPT ![j] = InsertedRow] /\ job[j].status = "ABSENT"
    BY <1>3 DEF Submit
  <2>2. ASSUME NEW d \in Runs, Holds(d, j) PROVE FALSE
    <3>1. run[d].pc \in TaskPcs => job[j].status \in Terminal \cup {"RUNNING"}
      BY <1>0, <2>2 DEF RunInv, TaskInv, RowOf, Holds
    <3>2. run[d].pc \in ReleasePcs => job[j].status # "ABSENT"
      BY <1>0, <2>2 DEF RunInv, ReleaseInv, RowOf, Holds
    <3>. QED  BY <2>1, <2>2, <3>1, <3>2, HoldPoints DEF Holds, Terminal
  <2>3. RowOk(InsertedRow) /\ InsertedRow.status # "COMPLETED"
    BY StageAssumption DEF InsertedRow, AbsentRow, RowOk, Finished, Done, MediaStages, Stages
  <2>. QED  BY <1>1, <2>1, <2>2, <2>3, RewriteIsPlain
<1>4. CASE RetryNow(j)
  <2>1. PICK sel \in Selections(job[j]) : MayRetry(job[j], sel) /\ RetryEffect(j, job[j], sel)
    BY <1>4 DEF RetryNow
  <2> DEFINE new == ResetForRetry(job[j], sel)
  <2>2. sel \in SUBSET Stages /\ job[j].status # "RUNNING"
    BY <2>1 DEF Selections, MayRetry, RetryStatuses
  <2>3. new \in Row /\ new.status = "QUEUED"
    BY <1>0, <2>2, RowOperations, StatusOfOperations, StageAssumption
  <2>4. RowOk(new) /\ SameMedia(new, job[j])
    BY <1>0, <2>2, OperationsAccount, OperationsSameMedia
  <2>5. Flush(job[j], job[j], new) = new
    BY <1>0, <2>3, FlushAgrees
  <2>6. UNCHANGED job \/ job' = [job EXCEPT ![j] = new]
    BY <2>1, <2>5 DEF RetryEffect
  <2> HIDE DEF new
  <2>. QED  BY <1>1, <1>2, <2>2, <2>3, <2>4, <2>6, RewriteIsPlain
<1>5. CASE CancelNow(j)
  <2> DEFINE new == CancelJob(job[j])
  <2>1. CancelEffect(j, job[j])
    BY <1>5 DEF CancelNow
  <2>2. new \in Row /\ new.status \in {job[j].status, "QUEUED", "CANCELLED"}
    <3>1. new \in Row
      BY <1>0, RowsOfTheQueue
    <3>2. new.status \in {job[j].status, "QUEUED", "CANCELLED"}
      BY <1>0, StatusOfOperations, StageAssumption
    <3>. QED  BY <3>1, <3>2
  <2>3. job[j].status = "RUNNING" => new.status = "RUNNING"
    BY <1>0 DEF CancelJob, RequestCancel, Row
  <2>4. RowOk(new) /\ SameMedia(new, job[j])
    BY <1>0, OperationsAccount, OperationsSameMedia
  <2>5. Flush(job[j], job[j], new) = new
    BY <1>0, <2>2, FlushAgrees
  <2>6. UNCHANGED job \/ job' = [job EXCEPT ![j] = new]
    BY <2>1, <2>5 DEF CancelEffect
  <2> HIDE DEF new
  <2>. QED  BY <1>1, <1>2, <2>2, <2>3, <2>4, <2>6, RewriteIsPlain
<1>. QED  BY <1>3, <1>4, <1>5

\* A worker claims a job.
LEMMA ClaimPlain ==
    ASSUME MediaStages, CalmInv, AccountInv, NEW w \in Workers, NEW j \in Jobs, NEW c \in Runs, Claim(w, j, c)
    PROVE  PlainStep
<1>0. job[j] \in Row /\ RowOk(job[j]) /\ run \in [Runs -> RunType]
  BY DEF CalmInv, HeldInv, TypeOK, AccountInv, JobAccount
<1> DEFINE new == ClaimedRow(job[j], w)
<1>1. RowOk(new) /\ SameMedia(new, job[j]) /\ new.status = "RUNNING"
  <2>1. RowOk(new) /\ SameMedia(new, job[j])
    BY <1>0, OperationsAccount, OperationsSameMedia
  <2>2. new.status = "RUNNING"
    BY <1>0 DEF ClaimedRow, Row
  <2>. QED  BY <2>1, <2>2
<1>2. job' = [job EXCEPT ![j] = new] /\ UNCHANGED media /\ job[j].status = "QUEUED"
  BY DEF Claim, Due
<1>3. \A d \in Runs : PlainRun(d)
  <2>1. /\ run[c].pc = "idle" /\ run'[c].pc = "start" /\ run'[c].j = j
        /\ \A d \in Runs \ {c} : run'[d] = run[d]
    BY <1>0 DEF Claim, Idle, NewRun, IdleRun
  <2>. QED  BY <1>2, <2>1 DEF PlainRun
<1> HIDE DEF new
<1>. QED  BY <1>1, <1>2, <1>3, RewriteIsPlain

\* A process is gone.
LEMMA VanishPlain ==
    ASSUME MediaStages, CalmInv, AccountInv, NEW w \in Workers, Exit(w) \/ Crash(w)
    PROVE  PlainStep
<1> USE DEF dbVars, workerVars, faultVars
<1>0. /\ job \in [Jobs -> Row] /\ run \in [Runs -> RunType]
      /\ \A k \in Jobs : job[k] \in Row /\ RowOk(job[k])
  BY DEF CalmInv, HeldInv, TypeOK, AccountInv, JobAccount
<1>1. Vanish(w) /\ UNCHANGED media
  BY DEF Exit, Crash
<1>2. \A k \in Jobs : /\ job'[k].status = job[k].status /\ job'[k].steps = job[k].steps
                      /\ job'[k].path = job[k].path /\ job'[k].removed = job[k].removed
  BY <1>0, <1>1 DEF Vanish, Row
<1>3. \A k \in Jobs : RowOk(job'[k]) /\ SameMedia(job'[k], job[k])
  BY <1>0, <1>2 DEF RowOk, SameMedia, Finished
<1>4. \A d \in Runs : PlainRun(d)
  <2>1. CASE Exit(w)
    BY <2>1 DEF Exit, PlainRun
  <2>2. CASE Crash(w)
    <3>1. \A d \in Runs : IF run[d].w = w THEN run'[d].pc = "idle" /\ run[d].pc \in CrashDuring
                                          ELSE run'[d] = run[d]
      BY <2>2 DEF Crash, RunsOf, IdleRun
    <3>. QED  BY <3>1 DEF PlainRun
  <2>. QED  BY <2>1, <2>2
<1>. QED  BY <1>1, <1>2, <1>3, <1>4 DEF PlainStep, PlainRow

\* Tasks that end, and steps that touch neither rows nor slots.
LEMMA EndsPlain ==
    ASSUME MediaStages, CalmInv, AccountInv,
           \/ \E c \in Runs : TaskDone(c) \/ TaskDies(c) \/ Interrupt(c)
           \/ \E w \in Workers : Stop(w) \/ Restart(w)
           \/ \E j \in Jobs : HeartbeatExpires(j)
           \/ UNCHANGED vars
    PROVE  PlainStep
<1> USE DEF dbVars, workerVars, faultVars
<1>1. ASSUME NEW c \in Runs, TaskDone(c) PROVE PlainStep
  BY <1>1, EndIsPlain DEF TaskDone, TaskPcs
<1>2. ASSUME NEW c \in Runs, TaskDies(c) PROVE PlainStep
  BY <1>2, EndIsPlain DEF TaskDies, TaskPcs
<1>3. ASSUME NEW c \in Runs, Interrupt(c) PROVE PlainStep
  <2>1. run \in [Runs -> RunType]
    BY DEF CalmInv, HeldInv, TypeOK
  <2>2. /\ run'[c].pc = "mark" /\ run[c].pc \notin ReleasePcs /\ UNCHANGED <<job, media>>
        /\ \A d \in Runs \ {c} : run'[d] = run[d]
    BY <1>3, <2>1, PcsDiffer DEF Interrupt, NewRun, IdleRun
  <2>. QED  BY <2>2, SameRowsArePlain DEF PlainStep, PlainRun
<1>4. ASSUME UNCHANGED <<job, media, run>> PROVE PlainStep
  BY <1>4, SameRowsArePlain DEF PlainStep, PlainRun
<1>. QED  BY <1>1, <1>2, <1>3, <1>4 DEF Stop, Restart, HeartbeatExpires, vars

\* The heartbeat, and the first half of a shutdown.
LEMMA HeartbeatAccount ==
    ASSUME MediaStages, CalmInv, AccountInv, NEW c \in Runs, Heartbeat(c) \/ MarkInterrupted(c)
    PROVE  AccountInv'
<1> USE DEF dbVars, workerVars, faultVars
<1>0. /\ run \in [Runs -> RunType] /\ run[c] \in RunType /\ run[c].j \in Jobs
      /\ job[run[c].j] \in Row /\ RowOk(job[run[c].j])
      /\ (run[c].pc \in HoldPcs => RowOk(run[c].row) /\ Follows(run[c].base, run[c].row))
      /\ StageAccount(c) /\ CleanupAccount(c)
  BY AccountFacts DEF CalmInv, HeldInv, TypeOK, RunAccount
<1>k. PICK k \in Jobs : k = run[c].j
  BY <1>0
<1>1. run[c].pc \in TaskPcs /\ UNCHANGED <<job, media>>
  BY DEF Heartbeat, MarkInterrupted, TaskPcs
<1>2. CASE EndTask(c)
  BY <1>1, <1>2, EndIsPlain, AccountOfPlain
<1>3. CASE Heartbeat(c) /\ ~EndTask(c)
  <2>1. /\ run[c].pc \in PipelinePcs
        /\ run'[c].pc = run[c].pc /\ run'[c].j = run[c].j /\ run'[c].i = run[c].i
        /\ run'[c].base = run[c].base /\ run'[c].row = run[c].row /\ run'[c].eff = run[c].eff
        /\ \A d \in Runs \ {c} : run'[d] = run[d]
    BY <1>0, <1>3 DEF Heartbeat, RunType
  <2>2. run[c].pc \in HoldPcs
    BY <2>1, HoldPoints
  <2>3. StageAccount(c)'
    BY <1>0, <1>1, <2>1 DEF StageAccount, RowOf
  <2>4. CleanupAccount(c)'
    BY <1>0, <1>1, <2>1 DEF CleanupAccount
  <2>. QED  BY <1>0, <1>k, <1>1, <2>1, <2>2, <2>3, <2>4, AccountOfQuiet
<1>4. CASE MarkInterrupted(c) /\ ~EndTask(c)
  <2>1. /\ run'[c].pc = "park" /\ run'[c].j = run[c].j
        /\ run'[c].base = job[run[c].j] /\ run'[c].row = Interrupted(job[run[c].j])
        /\ \A d \in Runs \ {c} : run'[d] = run[d]
    BY <1>0, <1>4 DEF MarkInterrupted, RunType
  <2>2. RowOk(Interrupted(job[run[c].j])) /\ Follows(job[run[c].j], Interrupted(job[run[c].j]))
    BY <1>0, OperationsAccount
  <2>3. StageAccount(c)' /\ CleanupAccount(c)'
    BY <2>1 DEF StageAccount, CleanupAccount, PipelinePcs
  <2>. QED  BY <1>0, <1>k, <1>1, <2>1, <2>2, <2>3, AccountOfQuiet
<1>. QED  BY <1>2, <1>3, <1>4

\* An interrupted job is parked by its worker.
LEMMA ParkAccount ==
    ASSUME MediaStages, CalmInv, AccountInv, NEW c \in Runs, Park(c)
    PROVE  AccountInv'
<1> USE DEF dbVars, workerVars, faultVars
<1>0. /\ run \in [Runs -> RunType] /\ run[c] \in RunType /\ run[c].j \in Jobs /\ run[c].row \in Row
      /\ (run[c].pc \in HoldPcs => RowOk(run[c].row) /\ Follows(run[c].base, run[c].row))
  BY AccountFacts DEF CalmInv, HeldInv, TypeOK
<1>k. PICK k \in Jobs : k = run[c].j
  BY <1>0
<1>1. run[c].pc = "park" /\ run[c].pc \in TaskPcs /\ run[c].pc \in HoldPcs /\ UNCHANGED media
  BY DEF Park, TaskPcs, HoldPcs, SessionPcs
<1>2. CASE EndTask(c) /\ UNCHANGED job
  BY <1>1, <1>2, EndIsPlain, AccountOfPlain
<1>3. CASE ~(EndTask(c) /\ UNCHANGED job)
  <2>1. /\ Commit(c, run[c].row)
        /\ run'[c].pc = "releasing" /\ run'[c].j = run[c].j
        /\ run'[c].base = run[c].row /\ run'[c].row = run[c].row
        /\ \A d \in Runs \ {c} : run'[d] = run[d]
    <3>1. /\ run' = [run EXCEPT ![c].pc = "releasing", ![c].base = run[c].row]
          /\ job' = [job EXCEPT ![run[c].j] = Flush(job[run[c].j], run[c].base, run[c].row)]
      BY <1>3 DEF Park
    <3>2. job' = [job EXCEPT ![run[c].j] = Flush(@, run[c].base, run[c].row)]
      BY <3>1
    <3>. QED  BY <1>0, <3>1, <3>2 DEF RunType, Commit
  <2>2. StageAccount(c)' /\ CleanupAccount(c)'
    BY <2>1 DEF StageAccount, CleanupAccount, PipelinePcs
  <2>3. run[c].row.status # "COMPLETED"
    BY <1>1 DEF CalmInv, HeldInv, SessionOK
  <2>. QED  BY <1>0, <1>k, <1>1, <2>1, <2>2, <2>3, AccountOfCommit
<1>. QED  BY <1>2, <1>3

\* The reaper parks a job nobody executes.
LEMMA ReapAccount ==
    ASSUME MediaStages, CalmInv, AccountInv, NEW w \in Workers, NEW j \in Jobs, NEW c \in Runs, Reap(w, j, c)
    PROVE  AccountInv'
<1> USE DEF dbVars, workerVars, faultVars
<1> DEFINE new == Interrupted(job[j])
<1>0. /\ run \in [Runs -> RunType] /\ job \in [Jobs -> Row] /\ job[j] \in Row /\ JobAccount(j)
      /\ \A d \in Runs : RunInv(d) /\ run[d].j \in Jobs
  BY DEF CalmInv, HeldInv, TypeOK, RunType, AccountInv
<1>1. /\ job[j].status = "RUNNING" /\ j \in stale /\ UNCHANGED media
      /\ job'[j] = new /\ \A m \in Jobs \ {j} : job'[m] = job[m]
      /\ run'[c].pc = "releasing" /\ run'[c].j = j /\ run'[c].base = new /\ run'[c].row = new
      /\ \A d \in Runs \ {c} : run'[d] = run[d]
  BY <1>0 DEF Reap, StaleRunning, NewRun, IdleRun
<1>2. RowOk(new) /\ SameMedia(new, job[j]) /\ new.status = "INTERRUPTED"
  <2>1. new.status = "INTERRUPTED"
    BY <1>0, StatusOfOperations, StageAssumption
  <2>2. RowOk(new) /\ SameMedia(new, job[j])
    BY <1>0, OperationsAccount, OperationsSameMedia DEF JobAccount
  <2>. QED  BY <2>1, <2>2
<1> HIDE DEF new
<1>3. Agrees(new, job[j]) /\ Agrees(new, new) /\ Follows(new, new)
  BY <1>2, MediaCompose
<1>4. \A d \in Runs : ~(run[d].pc \in TaskPcs /\ run[d].j = j)
  BY <1>0, <1>1 DEF RunInv, TaskInv, RowOf, Terminal
<1>5. JobAccount(j)'
  <2>1. StageCleanup \in Stages
    BY StageAssumption DEF MediaStages, Stages
  <2>. QED  BY <1>0, <1>1, <1>2, <2>1 DEF JobAccount, SameMedia
<1>6. RunAccount(c)'
  BY <1>1, <1>2, <1>3 DEF RunAccount, SessionAccount, StageAccount, CleanupAccount, PipelinePcs, RowOf
<1>7. ASSUME NEW d \in Runs \ {c}, Holds(d, j) PROVE Alike(new, run[d].base)
  <2>1. Agrees(job[j], run[d].base)
    BY <1>7 DEF Holds, AccountInv, RunAccount, SessionAccount, RowOf
  <2>2. Agrees(new, run[d].base)
    BY <1>3, <2>1, MediaCompose
  <2>. QED  BY <2>2, MediaCompose
<1>8. \A d \in Runs \ {c} : run[d].pc \in {"starting", "handler"} => run[d].j # j
  BY <1>4 DEF TaskPcs, PipelinePcs
<1>. QED  BY <1>1, <1>3, <1>5, <1>6, <1>7, <1>8, AccountOfRun

\* Every step keeps the account.
LEMMA NextAccount ==
    ASSUME Calm, MediaStages, CalmInv, AccountInv, [Next]_vars
    PROVE  AccountInv'
<1>1. CASE ApiStep \/ \E r \in Clients : ApiCommits(r)
  BY <1>1, UsersPlain, AccountOfPlain DEF ApiStep, Calm
<1>2. ASSUME NEW c \in Runs, TaskStep(c) PROVE AccountInv'
  BY <1>2, StartAccount, RefreshAccount, StartStageAccount, StageOkAccount, HandlerAccount, ReleaseAccount,
     LastCommitsAccount, HeartbeatAccount, ParkAccount, EndsPlain, AccountOfPlain DEF TaskStep
<1>3. ASSUME NEW c \in Runs, Heartbeat(c) \/ Interrupt(c) PROVE AccountInv'
  BY <1>3, HeartbeatAccount, EndsPlain, AccountOfPlain
<1>4. ASSUME NEW w \in Workers, ClaimStep(w) \/ ReapStep(w) PROVE AccountInv'
  BY <1>4, ClaimPlain, ReapAccount, AccountOfPlain DEF ClaimStep, ReapStep
<1>5. ASSUME NEW w \in Workers, Exit(w) \/ Restart(w) \/ Stop(w) \/ Crash(w) PROVE AccountInv'
  BY <1>5, VanishPlain, EndsPlain, AccountOfPlain
<1>6. ASSUME NEW c \in Runs, TaskDies(c) \/ PipelineError(c) PROVE AccountInv'
  BY <1>6, EndsPlain, StartAccount, AccountOfPlain
<1>7. ASSUME NEW j \in Jobs, HeartbeatExpires(j) PROVE AccountInv'
  BY <1>7, EndsPlain, AccountOfPlain
<1>8. ASSUME NEW j \in Jobs, HeartbeatsLost(j) PROVE FALSE
  BY <1>8 DEF HeartbeatsLost, Calm, CalmInv, HeldInv, TypeOK
<1>9. CASE UNCHANGED vars
  BY <1>9, EndsPlain, AccountOfPlain
<1>. QED  BY <1>1, <1>2, <1>3, <1>4, <1>5, <1>6, <1>7, <1>8, <1>9 DEF Next, FaultStep

\* Nothing is prepared and nobody holds a session at the start.
LEMMA InitAccount == MediaStages /\ Init => AccountInv
<1> SUFFICES ASSUME MediaStages, Init PROVE AccountInv
  OBVIOUS
<1>0. StagePrepare \in Stages /\ StagePowerOn \in Stages /\ StageCleanup \in Stages /\ NStages \in Stages
  BY StageAssumption DEF MediaStages, Stages
<1>1. \A j \in Jobs : JobAccount(j)
  BY <1>0 DEF Init, AbsentRow, JobAccount, RowOk, Finished, Done
<1>2. \A c \in Runs : run[c].pc = "idle"
  BY DEF Init, IdleRun
<1>3. \A c \in Runs : RunAccount(c)
  BY <1>2, HoldPoints DEF RunAccount, SessionAccount, StageAccount, CleanupAccount
<1>4. \A c, d \in Runs : PairAccount(c, d)
  BY <1>2, HoldPoints DEF PairAccount
<1>. QED  BY <1>1, <1>3, <1>4 DEF AccountInv

\* The account of the media is right in every reachable state: whatever is
\* refused, lost or killed, rows and sessions disagree about a removal only.
THEOREM AccountInvariant == Calm /\ MediaStages => (Spec => [](CalmInv /\ AccountInv))
<1> SUFFICES ASSUME Calm, MediaStages PROVE Spec => [](CalmInv /\ AccountInv)
  OBVIOUS
<1>1. CalmInv /\ AccountInv /\ [Next]_vars => AccountInv'
  BY NextAccount
<1>2. Init => AccountInv
  BY InitAccount
<1>. QED  BY <1>1, <1>2, CalmInvariant, PTL DEF Spec

\* A COMPLETED job has no answer media on the datastore, even when vCenter
\* refused removals and workers were killed on the way.
THEOREM CompletedJobsHaveNoMedia == Calm /\ MediaStages => (Spec => []CompletedHasNoMedia)
<1> SUFFICES ASSUME Calm, MediaStages PROVE Spec => []CompletedHasNoMedia
  OBVIOUS
<1>1. AccountInv => CompletedHasNoMedia
  BY DEF AccountInv, JobAccount, CompletedHasNoMedia
<1>. QED  BY <1>1, AccountInvariant, PTL

-----------------------------------------------------------------------------
(* Where the media is *)

\* vCenter removes what it is asked to, no database error reaches a task, and
\* no worker is killed between the two commits of an interruption.
Orderly == MaxErrors = 0 /\ ~ReleaseMayFail /\ CrashDuring \cap ReleasePcs = {}

\* The points before a pipeline, and those before it has released anything.
OpeningPcs == {"start", "loaded", "failbefore"}

UnreleasedPcs == OpeningPcs \cup {"loop", "starting", "handler", "failing", "cancelling"}

\* An interruption of j is still removing media.
Tail(j) == \E c \in Runs : run[c].pc \in ReleasePcs /\ run[c].j = j

NoneAt(j, pcs) == \A c \in Runs : run[c].j = j => run[c].pc \notin pcs

\* A session that waits for the media and does not know how to release it has it.
SessionMedia(c) ==
    /\ run[c].pc \in HoldPcs /\ Awaits(run[c].row) /\ Marked(run[c].row) => run[c].j \in media
    /\ run[c].pc = "handler" /\ run[c].i = StagePrepare /\ run[c].eff => run[c].j \in media
    /\ run[c].pc \in {"failed", "cancelled", "released"} => Marked(run[c].row)

\* A row that waits for the media has it, or somebody who has released it, or
\* the reaper, still has to record that.
RowMedia(j) ==
    (Awaits(job[j]) => j \in media)
        \/ (~Marked(job[j]) /\ (Tail(j) \/ (job[j].status = "RUNNING" /\ NoneAt(j, UnreleasedPcs))))

\* Media that is recorded and not marked belongs to a job that is executed, or
\* will be reaped, or is being interrupted.
RowMarked(j) ==
    Marked(job[j]) \/ Tail(j) \/ (job[j].status = "RUNNING" /\ NoneAt(j, OpeningPcs))

MediaInv ==
    /\ \A c \in Runs : SessionMedia(c)
    /\ \A j \in Jobs : RowMedia(j) /\ RowMarked(j)

\* The points named above.
LEMMA MediaPoints ==
    /\ OpeningPcs \subseteq UnreleasedPcs /\ UnreleasedPcs \subseteq TaskPcs
    /\ UnreleasedPcs \cap ReleasePcs = {}
    /\ {"idle", "ending", "mark", "park", "failed", "cancelled", "released", "releasing"} \cap UnreleasedPcs = {}
    /\ {"handler", "failed", "cancelled", "released"} \subseteq HoldPcs
    /\ {"loop", "starting", "handler"} \cap OpeningPcs = {}
    /\ {"idle", "ending", "mark", "start"} \cap HoldPcs = {}
BY DEF OpeningPcs, UnreleasedPcs, TaskPcs, PipelinePcs, ReleasePcs, HoldPcs, SessionPcs

\* One run moves, and writes to the row and the media of its job at most.
LEMMA MediaOfRun ==
    ASSUME CalmInv, MediaInv, NEW c \in Runs, NEW k \in Jobs,
           \A d \in Runs \ {c} : run'[d] = run[d],
           \A m \in Jobs \ {k} : job'[m] = job[m] /\ (m \in media' <=> m \in media),
           run[c].pc \in ReleasePcs => run[c].j = k,
           run'[c].pc \in TaskPcs \cup ReleasePcs => run'[c].j = k,
           SessionMedia(c)', RowMedia(k)', RowMarked(k)',
           k \in media /\ k \notin media' =>
               \A d \in Runs \ {c} : Holds(d, k) =>
                   run[d].pc # "handler" /\ ~(Awaits(run[d].row) /\ Marked(run[d].row))
    PROVE  MediaInv'
<1>1. ASSUME NEW d \in Runs PROVE SessionMedia(d)'
  <2>1. CASE d = c
    BY <2>1
  <2>2. CASE d # c
    <3>1. run[d].j \in Jobs /\ run'[d] = run[d] /\ SessionMedia(d)
      BY <2>2 DEF CalmInv, HeldInv, TypeOK, RunType, MediaInv
    <3>2. CASE run[d].j \in media => run[d].j \in media'
      BY <3>1, <3>2 DEF SessionMedia
    <3>3. CASE run[d].j \in media /\ run[d].j \notin media'
      <4>1. run[d].j = k /\ k \in media /\ k \notin media'
        BY <3>1, <3>3
      <4>2. run[d].pc \in HoldPcs => run[d].pc # "handler" /\ ~(Awaits(run[d].row) /\ Marked(run[d].row))
        BY <2>2, <4>1 DEF Holds
      <4>. QED  BY <3>1, <4>2, MediaPoints DEF SessionMedia
    <3>. QED  BY <3>2, <3>3
  <2>. QED  BY <2>1, <2>2
<1>2. ASSUME NEW m \in Jobs PROVE RowMedia(m)' /\ RowMarked(m)'
  <2>1. CASE m = k
    BY <2>1
  <2>2. CASE m # k
    <3>1. job'[m] = job[m] /\ (m \in media' <=> m \in media) /\ RowMedia(m) /\ RowMarked(m)
      BY <2>2 DEF MediaInv
    <3>2. Tail(m) => Tail(m)'
      BY <2>2 DEF Tail
    <3>3. ASSUME NEW pcs, pcs \subseteq TaskPcs, NoneAt(m, pcs) PROVE NoneAt(m, pcs)'
      BY <2>2, <3>3 DEF NoneAt
    <3>4. (NoneAt(m, UnreleasedPcs) => NoneAt(m, UnreleasedPcs)') /\ (NoneAt(m, OpeningPcs) => NoneAt(m, OpeningPcs)')
      <4>1. UnreleasedPcs \subseteq TaskPcs /\ OpeningPcs \subseteq TaskPcs
        BY MediaPoints
      <4>. QED  BY <3>3, <4>1
    <3>. QED  BY <3>1, <3>2, <3>4 DEF RowMedia, RowMarked
  <2>. QED  BY <2>1, <2>2
<1>. QED  BY <1>1, <1>2 DEF MediaInv

\* A run moves without a commit and without touching the media.
LEMMA MediaOfQuiet ==
    ASSUME MediaStages, CalmInv, MediaInv, NEW c \in Runs, run[c].pc \in TaskPcs \cup ReleasePcs,
           NEW k \in Jobs, k = run[c].j, UNCHANGED <<job, media>>,
           \A d \in Runs \ {c} : run'[d] = run[d],
           run'[c].pc \in TaskPcs \cup ReleasePcs => run'[c].j = k,
           run[c].pc \in ReleasePcs => run'[c].pc \in ReleasePcs,
           run'[c].pc \in UnreleasedPcs => run[c].pc \in UnreleasedPcs,
           run'[c].pc \in OpeningPcs => run[c].pc \in OpeningPcs,
           run'[c].pc \in HoldPcs =>
               \/ SameMedia(run'[c].row, job[k])
               \/ run[c].pc \in HoldPcs /\ SameMedia(run'[c].row, run[c].row),
           run'[c].pc = "handler" => run[c].pc = "handler" /\ run'[c].i = run[c].i /\ run'[c].eff = run[c].eff,
           run'[c].pc \in {"failed", "cancelled", "released"} => Marked(run'[c].row)
    PROVE  MediaInv'
<1>0. RowMedia(k) /\ RowMarked(k) /\ SessionMedia(c)
  BY DEF MediaInv
<1>1. Tail(k) => Tail(k)'
  <2> SUFFICES ASSUME NEW d \in Runs, run[d].pc \in ReleasePcs, run[d].j = k PROVE Tail(k)'
    BY DEF Tail
  <2>1. run'[d].pc \in ReleasePcs /\ run'[d].j = k
    BY PcsDiffer
  <2>. QED  BY <2>1 DEF Tail
<1>2. (NoneAt(k, UnreleasedPcs) => NoneAt(k, UnreleasedPcs)') /\ (NoneAt(k, OpeningPcs) => NoneAt(k, OpeningPcs)')
  BY DEF NoneAt
<1>3. RowMedia(k)' /\ RowMarked(k)'
  BY <1>0, <1>1, <1>2 DEF RowMedia, RowMarked
<1>4. SessionMedia(c)'
  <2>1. ASSUME run'[c].pc \in HoldPcs, Awaits(run'[c].row), Marked(run'[c].row) PROVE k \in media
    <3>1. CASE SameMedia(run'[c].row, job[k])
      BY <1>0, <2>1, <3>1, MediaCompose DEF RowMedia
    <3>2. CASE run[c].pc \in HoldPcs /\ SameMedia(run'[c].row, run[c].row)
      BY <1>0, <2>1, <3>2, MediaCompose DEF SessionMedia
    <3>. QED  BY <2>1, <3>1, <3>2
  <2>2. run'[c].pc \in HoldPcs => run'[c].j = k
    BY HoldPoints
  <2>3. "handler" \in HoldPcs
    BY MediaPoints
  <2>. QED  BY <1>0, <2>1, <2>2, <2>3 DEF SessionMedia
<1>. QED  BY <1>3, <1>4, MediaOfRun

\* A session commits.  It has released what it recorded, or leaves that to its
\* tail, or has not come far enough for the row to depend on it, or goes on.
LEMMA MediaOfCommit ==
    ASSUME MediaStages, CalmInv, AccountInv, MediaInv, NEW c \in Runs, run[c].pc \in HoldPcs,
           NEW k \in Jobs, k = run[c].j, NEW row \in Row, Commit(c, row),
           RowOk(row), Follows(run[c].base, row),
           row.status = run[c].base.status \/ (row.status = "COMPLETED" => Finished(row, StageCleanup)),
           UNCHANGED media,
           \A d \in Runs \ {c} : run'[d] = run[d],
           run'[c].pc \in TaskPcs \cup ReleasePcs => run'[c].j = k,
           \/ Marked(row)
           \/ run'[c].pc \in ReleasePcs
           \/ run[c].pc \in OpeningPcs
           \/ /\ run[c].pc \in UnreleasedPcs /\ run'[c].pc \notin OpeningPcs
              /\ job[k].status = "RUNNING" => job'[k].status = "RUNNING",
           run'[c].pc \in HoldPcs => SameMedia(run'[c].row, run[c].row),
           run'[c].pc = "handler" => ~run'[c].eff,
           run'[c].pc \notin {"failed", "cancelled", "released"}
    PROVE  MediaInv'
<1>0. RowMedia(k) /\ RowMarked(k) /\ SessionMedia(c)
  BY DEF MediaInv
<1>1. /\ \A m \in Jobs \ {k} : job'[m] = job[m]
      /\ Agrees(job'[k], job[k]) /\ (Marked(row) => Marked(job'[k]))
  BY CommitMedia
<1>2. Settled(job'[k]) \/ (/\ Awaits(job'[k]) => Awaits(job[k])
                           /\ Marked(job'[k]) <=> Marked(job[k]))
  BY <1>1, MediaCompose DEF Agrees
<1>3. Settled(job'[k]) => Marked(job'[k]) /\ ~Awaits(job'[k])
  BY DEF Settled, Marked
<1>4. run[c].pc \in UnreleasedPcs => /\ (Tail(k) => Tail(k)') /\ ~NoneAt(k, UnreleasedPcs)
  <2>1. run[c].pc \in UnreleasedPcs => run[c].pc \notin ReleasePcs
    BY MediaPoints
  <2>. QED  BY <2>1 DEF Tail, NoneAt
<1>5. RowMedia(k)' /\ RowMarked(k)'
  <2>1. CASE Marked(row)
    BY <1>0, <1>1, <1>2, <1>3, <2>1 DEF RowMedia, RowMarked
  <2>2. CASE run'[c].pc \in ReleasePcs
    <3>1. Tail(k)'
      BY <2>2 DEF Tail
    <3>. QED  BY <1>0, <1>2, <1>3, <3>1 DEF RowMedia, RowMarked
  <2>3. CASE run[c].pc \in OpeningPcs
    <3>1. run[c].pc \in UnreleasedPcs /\ ~NoneAt(k, OpeningPcs)
      BY <2>3, MediaPoints DEF NoneAt
    <3>. QED  BY <1>0, <1>2, <1>3, <1>4, <3>1 DEF RowMedia, RowMarked
  <2>4. CASE /\ run[c].pc \in UnreleasedPcs /\ run'[c].pc \notin OpeningPcs
             /\ job[k].status = "RUNNING" => job'[k].status = "RUNNING"
    <3>1. NoneAt(k, OpeningPcs) => NoneAt(k, OpeningPcs)'
      BY <2>4 DEF NoneAt
    <3>. QED  BY <1>0, <1>2, <1>3, <1>4, <2>4, <3>1 DEF RowMedia, RowMarked
  <2>. QED  BY <2>1, <2>2, <2>3, <2>4
<1>6. SessionMedia(c)'
  <2>1. run'[c].pc \in HoldPcs => run'[c].j = k
    BY HoldPoints
  <2>2. ASSUME run'[c].pc \in HoldPcs, Awaits(run'[c].row), Marked(run'[c].row) PROVE k \in media
    BY <1>0, <2>2, MediaCompose DEF SessionMedia
  <2>. QED  BY <2>1, <2>2 DEF SessionMedia
<1>. QED  BY <1>1, <1>5, <1>6, MediaOfRun

\* A step that concerns the media of no row.
LEMMA MediaOfPlain ==
    ASSUME Orderly, MediaStages, CalmInv, MediaInv, PlainStep
    PROVE  MediaInv'
<1>0. ASSUME NEW d \in Runs, run[d].pc \in ReleasePcs PROVE run'[d] = run[d]
  BY <1>0 DEF PlainStep, PlainRun, Orderly, ReleasePcs
<1>1. ASSUME NEW d \in Runs PROVE SessionMedia(d)'
  <2>1. CASE run'[d] = run[d]
    BY <2>1 DEF PlainStep, MediaInv, SessionMedia
  <2>2. CASE run'[d].pc \in {"idle", "ending", "mark", "start"}
    BY <2>2, MediaPoints DEF SessionMedia
  <2>. QED  BY <2>1, <2>2 DEF PlainStep, PlainRun
<1>2. ASSUME NEW k \in Jobs PROVE RowMedia(k)' /\ RowMarked(k)'
  <2>0. RowMedia(k) /\ RowMarked(k) /\ PlainRow(k) /\ UNCHANGED media
    BY DEF MediaInv, PlainStep
  <2>1. CASE job'[k] = InsertedRow
    <3>1. Marked(InsertedRow) /\ ~Awaits(InsertedRow)
      BY StageAssumption DEF InsertedRow, AbsentRow, Marked, Awaits, Finished, Done, MediaStages, Stages
    <3>. QED  BY <2>1, <3>1 DEF RowMedia, RowMarked
  <2>2. CASE SameMedia(job'[k], job[k]) /\ (job[k].status = "RUNNING" => job'[k].status = "RUNNING")
    <3>1. (Awaits(job'[k]) <=> Awaits(job[k])) /\ (Marked(job'[k]) <=> Marked(job[k]))
      BY <2>2, MediaCompose
    <3>2. Tail(k) => Tail(k)'
      BY <1>0 DEF Tail
    <3>3. ASSUME NEW pcs, pcs \subseteq UnreleasedPcs, job[k].status = "RUNNING", NoneAt(k, pcs)
          PROVE  NoneAt(k, pcs)'
      <4> SUFFICES ASSUME NEW d \in Runs, run'[d].j = k PROVE run'[d].pc \notin pcs
        BY DEF NoneAt
      <4>1. CASE run'[d] = run[d]
        BY <3>3, <4>1 DEF NoneAt
      <4>2. CASE run'[d].pc \in {"idle", "ending", "mark"}
        BY <3>3, <4>2, MediaPoints
      <4>3. ~(job[run'[d].j].status # "RUNNING")
        BY <3>3
      <4>. QED  BY <4>1, <4>2, <4>3 DEF PlainStep, PlainRun
    <3>4. job[k].status = "RUNNING" =>
            /\ (NoneAt(k, UnreleasedPcs) => NoneAt(k, UnreleasedPcs)')
            /\ (NoneAt(k, OpeningPcs) => NoneAt(k, OpeningPcs)')
      BY <3>3, MediaPoints
    <3>. QED  BY <2>0, <2>2, <3>1, <3>2, <3>4 DEF RowMedia, RowMarked
  <2>. QED  BY <2>0, <2>1, <2>2 DEF PlainRow
<1>. QED  BY <1>1, <1>2 DEF MediaInv

\* A task loads its job, and starts or fails before its pipeline.
LEMMA StartMedia ==
    ASSUME MediaStages, CalmInv, AccountInv, MediaInv, Orderly, NEW c \in Runs,
           Load(c) \/ Ready(c) \/ ContextFails(c) \/ FailBefore(c)
    PROVE  MediaInv'
<1> USE DEF dbVars, workerVars, faultVars
<1>0. /\ run \in [Runs -> RunType] /\ run[c] \in RunType /\ run[c].j \in Jobs
      /\ job[run[c].j] \in Row /\ run[c].row \in Row
      /\ (run[c].pc \in HoldPcs => RowOk(run[c].row) /\ Follows(run[c].base, run[c].row))
  BY AccountFacts DEF CalmInv, HeldInv, TypeOK
<1>k. PICK k \in Jobs : k = run[c].j
  BY <1>0
<1>m. SameMedia(run[c].row, run[c].row)
  BY MediaCompose
<1>1. run[c].pc \in OpeningPcs /\ run[c].pc \in UnreleasedPcs /\ run[c].pc \in TaskPcs /\ run[c].pc \notin ReleasePcs
  BY DEF Load, Ready, ContextFails, FailBefore, OpeningPcs, UnreleasedPcs, TaskPcs, ReleasePcs
<1>2. CASE Load(c)
  <2>1. CASE EndTask(c)
    <3>1. UNCHANGED <<job, media>>
      BY <1>2 DEF Load
    <3>. QED  BY <1>1, <2>1, <3>1, EndIsPlain, MediaOfPlain
  <2>2. CASE ~EndTask(c)
    <3>1. /\ run'[c].pc = "loaded" /\ run'[c].j = run[c].j /\ run'[c].row = EnsureSteps(job[run[c].j])
          /\ UNCHANGED <<job, media>> /\ \A d \in Runs \ {c} : run'[d] = run[d]
      BY <1>0, <1>2, <2>2 DEF Load, RunType
    <3>2. SameMedia(EnsureSteps(job[run[c].j]), job[run[c].j])
      BY <1>0, OperationsSameMedia
    <3>. QED  BY <1>k, <1>1, <3>1, <3>2, MediaOfQuiet
  <2>. QED  BY <2>1, <2>2
<1>3. CASE Ready(c)
  <2>1. /\ run[c].pc = "loaded" /\ Commit(c, run[c].row) /\ UNCHANGED media
        /\ run'[c].pc = "loop" /\ run'[c].j = run[c].j /\ run'[c].row = run[c].row
        /\ \A d \in Runs \ {c} : run'[d] = run[d]
    BY <1>0, <1>3 DEF Ready, RunType
  <2>2. run[c].pc \in HoldPcs
    BY <2>1 DEF HoldPcs, SessionPcs
  <2>3. run[c].row.status = run[c].base.status
    BY <2>1 DEF CalmInv, HeldInv, SessionOK
  <2>. QED  BY <1>0, <1>k, <1>m, <1>1, <2>1, <2>2, <2>3, MediaOfCommit
<1>4. CASE ContextFails(c)
  <2>1. /\ run[c].pc = "loaded" /\ UNCHANGED <<job, media>>
        /\ run'[c].pc = "failbefore" /\ run'[c].j = run[c].j /\ run'[c].row = run[c].row
        /\ \A d \in Runs \ {c} : run'[d] = run[d]
    BY <1>0, <1>4 DEF ContextFails, Goto, RunType
  <2>2. run[c].pc \in HoldPcs
    BY <2>1 DEF HoldPcs, SessionPcs
  <2>. QED  BY <1>k, <1>m, <1>1, <2>1, <2>2, MediaOfQuiet
<1>5. CASE FailBefore(c)
  <2> DEFINE new == FailBeforePipeline(run[c].row)
  <2>1. run[c].pc = "failbefore" /\ run[c].pc \in HoldPcs
    BY <1>5 DEF FailBefore, HoldPcs, SessionPcs
  <2>2. new \in Row /\ new.status = "FAILED"
    BY <1>0, RowOperations, StatusOfOperations, StageAssumption
  <2>3. RowOk(new) /\ Follows(run[c].row, new)
    BY <1>0, <2>1, OperationsAccount
  <2>4. /\ Commit(c, new) /\ UNCHANGED media /\ run'[c].pc = "ending" /\ run'[c].j = run[c].j
        /\ \A d \in Runs \ {c} : run'[d] = run[d]
    BY <1>0, <1>5 DEF FailBefore, WindDown, NewRun, IdleRun
  <2> HIDE DEF new
  <2>5. Follows(run[c].base, new)
    BY <1>0, <2>1, <2>3, MediaCompose
  <2>6. run'[c].pc \notin HoldPcs
    BY <2>4, MediaPoints
  <2>. QED  BY <1>k, <1>1, <2>1, <2>2, <2>3, <2>4, <2>5, <2>6, MediaOfCommit
<1>. QED  BY <1>2, <1>3, <1>4, <1>5

\* execute refreshes the job; the heartbeat and the shutdown look at it.
LEMMA LookMedia ==
    ASSUME MediaStages, CalmInv, AccountInv, MediaInv, Orderly, NEW c \in Runs,
           Refresh(c) \/ Heartbeat(c) \/ MarkInterrupted(c)
    PROVE  MediaInv'
<1> USE DEF dbVars, workerVars, faultVars
<1>0. /\ run \in [Runs -> RunType] /\ run[c] \in RunType /\ run[c].j \in Jobs /\ job[run[c].j] \in Row
      /\ SessionMedia(c)
  BY AccountFacts DEF CalmInv, HeldInv, TypeOK, MediaInv
<1>k. PICK k \in Jobs : k = run[c].j
  BY <1>0
<1>m. SameMedia(run[c].row, run[c].row) /\ SameMedia(job[run[c].j], job[run[c].j])
  BY MediaCompose
<1>1. run[c].pc \in TaskPcs /\ UNCHANGED <<job, media>> /\ run[c].pc \notin ReleasePcs
  BY DEF Refresh, Heartbeat, MarkInterrupted, TaskPcs, PipelinePcs, ReleasePcs
<1>2. CASE Refresh(c)
  <2>1. /\ run[c].pc = "loop" /\ run'[c].pc \in {"cancelling", "starting"} /\ run'[c].j = run[c].j
        /\ run'[c].row = job[run[c].j] /\ \A d \in Runs \ {c} : run'[d] = run[d]
    <3> DEFINE row == job[run[c].j]
    <3>1. run[c].pc = "loop"
      BY <1>2 DEF Refresh
    <3>2. PICK s \in Todo(c) :
             run' = [run EXCEPT ![c].base = row, ![c].row = row,
                                ![c].pc = IF CancelSeen(row) THEN "cancelling" ELSE "starting",
                                ![c].i = IF CancelSeen(row) THEN 0 ELSE s]
      BY <1>2 DEF Refresh
    <3>. QED  BY <1>0, <3>1, <3>2 DEF RunType
  <2>2. run[c].pc \in UnreleasedPcs /\ run'[c].pc \notin OpeningPcs
    BY <2>1 DEF UnreleasedPcs, OpeningPcs
  <2>. QED  BY <1>k, <1>m, <1>1, <2>1, <2>2, MediaOfQuiet
<1>3. CASE EndTask(c)
  BY <1>1, <1>3, EndIsPlain, MediaOfPlain
<1>4. CASE Heartbeat(c) /\ ~EndTask(c)
  <2>1. /\ run[c].pc \in PipelinePcs
        /\ run'[c].pc = run[c].pc /\ run'[c].j = run[c].j /\ run'[c].i = run[c].i
        /\ run'[c].row = run[c].row /\ run'[c].eff = run[c].eff
        /\ \A d \in Runs \ {c} : run'[d] = run[d]
    BY <1>0, <1>4 DEF Heartbeat, RunType
  <2>2. run[c].pc \in HoldPcs
    BY <2>1, HoldPoints
  <2>. QED  BY <1>0, <1>k, <1>m, <1>1, <2>1, <2>2, MediaOfQuiet DEF SessionMedia
<1>5. CASE MarkInterrupted(c) /\ ~EndTask(c)
  <2>1. /\ run'[c].pc = "park" /\ run'[c].j = run[c].j /\ run'[c].row = Interrupted(job[run[c].j])
        /\ \A d \in Runs \ {c} : run'[d] = run[d]
    BY <1>0, <1>5 DEF MarkInterrupted, RunType
  <2>2. SameMedia(Interrupted(job[run[c].j]), job[run[c].j])
    BY <1>0, OperationsSameMedia
  <2>3. run'[c].pc \notin UnreleasedPcs /\ run'[c].pc \notin OpeningPcs
    BY <2>1 DEF UnreleasedPcs, OpeningPcs
  <2>. QED  BY <1>k, <1>1, <2>1, <2>2, <2>3, MediaOfQuiet
<1>. QED  BY <1>2, <1>3, <1>4, <1>5

\* A job is parked by its worker.
LEMMA ParkMedia ==
    ASSUME MediaStages, CalmInv, AccountInv, MediaInv, Orderly, NEW c \in Runs, Park(c)
    PROVE  MediaInv'
<1> USE DEF dbVars, workerVars, faultVars
<1>0. /\ run \in [Runs -> RunType] /\ run[c] \in RunType /\ run[c].j \in Jobs /\ run[c].row \in Row
      /\ (run[c].pc \in HoldPcs => RowOk(run[c].row) /\ Follows(run[c].base, run[c].row))
  BY AccountFacts DEF CalmInv, HeldInv, TypeOK
<1>k. PICK k \in Jobs : k = run[c].j
  BY <1>0
<1>1. run[c].pc = "park" /\ run[c].pc \in TaskPcs /\ run[c].pc \in HoldPcs /\ UNCHANGED media
  BY DEF Park, TaskPcs, HoldPcs, SessionPcs
<1>2. CASE EndTask(c) /\ UNCHANGED job
  BY <1>1, <1>2, EndIsPlain, MediaOfPlain
<1>3. CASE ~(EndTask(c) /\ UNCHANGED job)
  <2>1. /\ Commit(c, run[c].row)
        /\ run'[c].pc = "releasing" /\ run'[c].j = run[c].j /\ run'[c].row = run[c].row
        /\ \A d \in Runs \ {c} : run'[d] = run[d]
    <3>1. /\ run' = [run EXCEPT ![c].pc = "releasing", ![c].base = run[c].row]
          /\ job' = [job EXCEPT ![run[c].j] = Flush(job[run[c].j], run[c].base, run[c].row)]
      BY <1>3 DEF Park
    <3>2. job' = [job EXCEPT ![run[c].j] = Flush(@, run[c].base, run[c].row)]
      BY <3>1
    <3>. QED  BY <1>0, <3>1, <3>2 DEF RunType, Commit
  <2>2. run'[c].pc \in ReleasePcs /\ SameMedia(run[c].row, run[c].row)
    BY <2>1, MediaCompose DEF ReleasePcs
  <2>3. run[c].row.status # "COMPLETED"
    BY <1>1 DEF CalmInv, HeldInv, SessionOK
  <2>. QED  BY <1>0, <1>k, <1>1, <2>1, <2>2, <2>3, MediaOfCommit
<1>. QED  BY <1>2, <1>3

\* The reaper parks a job nobody executes.
LEMMA ReapMedia ==
    ASSUME MediaStages, CalmInv, AccountInv, MediaInv, NEW w \in Workers, NEW j \in Jobs, NEW c \in Runs,
           Reap(w, j, c)
    PROVE  MediaInv'
<1> USE DEF dbVars, workerVars, faultVars
<1> DEFINE new == Interrupted(job[j])
<1>0. /\ run \in [Runs -> RunType] /\ job \in [Jobs -> Row] /\ job[j] \in Row
      /\ RowMedia(j) /\ RowMarked(j)
  BY DEF CalmInv, HeldInv, TypeOK, MediaInv
<1>1. /\ run[c].pc = "idle" /\ UNCHANGED media
      /\ job'[j] = new /\ \A m \in Jobs \ {j} : job'[m] = job[m]
      /\ run'[c].pc = "releasing" /\ run'[c].j = j /\ run'[c].row = new
      /\ \A d \in Runs \ {c} : run'[d] = run[d]
  BY <1>0 DEF Reap, Idle, NewRun, IdleRun
<1>2. (Awaits(new) <=> Awaits(job[j])) /\ (Marked(new) <=> Marked(job[j]))
  <2>1. SameMedia(new, job[j])
    BY <1>0, OperationsSameMedia
  <2>. QED  BY <2>1, MediaCompose
<1> HIDE DEF new
<1>3. Tail(j)'
  BY <1>1 DEF Tail, ReleasePcs
<1>4. RowMedia(j)' /\ RowMarked(j)'
  BY <1>0, <1>1, <1>2, <1>3 DEF RowMedia, RowMarked
<1>5. SessionMedia(c)'
  BY <1>0, <1>1, <1>2 DEF SessionMedia, RowMedia
<1>6. run[c].pc \notin ReleasePcs
  BY <1>1 DEF ReleasePcs
<1>. QED  BY <1>1, <1>4, <1>5, <1>6, MediaOfRun

\* What the rows and runs of a job look like while one of its stages runs: the
\* row has the media if it waits for it, and nobody else holds the job.
LEMMA StageMedia ==
    ASSUME MediaStages, CalmInv, AccountInv, MediaInv, NEW c \in Runs, run[c].pc \in {"starting", "handler"},
           NEW k \in Jobs, k = run[c].j
    PROVE  /\ job[k].status = "RUNNING" /\ RowMarked(k)
           /\ Awaits(job[k]) => k \in media
           /\ Awaits(run[c].row) => k \in media
           /\ \A d \in Runs \ {c} : ~Holds(d, k)
           /\ \A d \in Runs \ {c} : run[d].j = k => run[d].pc \notin TaskPcs \cup ReleasePcs
<1>1. /\ run[c].pc \in TaskPcs /\ run[c].pc \in SessionPcs
      /\ SameMedia(job[run[c].j], run[c].base) /\ Follows(run[c].base, run[c].row)
      /\ \A d \in Runs : run[d].pc \in ReleasePcs => run[d].j # run[c].j
  BY StageFacts
<1>2. job[k].status = "RUNNING" /\ RowMarked(k) /\ RowMedia(k)
  BY DEF CalmInv, RunInv, CancelInv, RowOf, MediaInv
<1>3. ~Tail(k) /\ ~NoneAt(k, UnreleasedPcs)
  BY <1>1 DEF Tail, NoneAt, UnreleasedPcs
<1>4. Awaits(job[k]) => k \in media
  BY <1>2, <1>3 DEF RowMedia
<1>5. Awaits(run[c].row) => Awaits(job[k])
  <2>1. SameMedia(run[c].base, run[c].row) => SameMedia(job[k], run[c].row)
    BY <1>1, MediaCompose
  <2>2. SameMedia(job[k], run[c].row) => (Awaits(run[c].row) => Awaits(job[k]))
    BY MediaCompose
  <2>3. Settled(run[c].row) => ~Awaits(run[c].row)
    BY DEF Settled
  <2>. QED  BY <1>1, <2>1, <2>2, <2>3 DEF Follows
<1>6. \A d \in Runs \ {c} : run[d].j = k => run[d].pc \notin TaskPcs \cup ReleasePcs
  BY <1>1 DEF CalmInv, AloneInv
<1>7. \A d \in Runs \ {c} : ~Holds(d, k)
  BY <1>6, HoldPoints DEF Holds
<1>. QED  BY <1>2, <1>4, <1>5, <1>6, <1>7

\* A stage starts.
LEMMA StartStageMedia ==
    ASSUME MediaStages, CalmInv, AccountInv, MediaInv, NEW c \in Runs, StartStage(c)
    PROVE  MediaInv'
<1> USE DEF dbVars, workerVars, faultVars
<1> DEFINE new == StageStarted(run[c].row, run[c].i)
<1>0. /\ run \in [Runs -> RunType] /\ run[c] \in RunType /\ run[c].j \in Jobs /\ run[c].row \in Row
      /\ job \in [Jobs -> Row] /\ Stages \subseteq 0 .. NStages
  BY AccountFacts, StageAssumption DEF CalmInv, HeldInv, TypeOK, Stages
<1>k. PICK k \in Jobs : k = run[c].j
  BY <1>0
<1>1. /\ run[c].pc = "starting" /\ Commit(c, new) /\ UNCHANGED media
      /\ run'[c].pc = "handler" /\ run'[c].j = run[c].j /\ run'[c].row = new /\ ~run'[c].eff
      /\ \A d \in Runs \ {c} : run'[d] = run[d]
  BY <1>0 DEF StartStage, RunType
<1>2. /\ run[c].pc \in HoldPcs /\ run[c].i \in Stages /\ run[c].row = run[c].base
      /\ RowOk(run[c].row) /\ ~Finished(run[c].row, run[c].i)
  BY <1>1, StageFacts
<1>3. SameMedia(new, run[c].row) /\ RowOk(new) /\ Follows(run[c].row, new)
  BY <1>0, <1>2, StageSameMedia
<1>4. new \in Row /\ new.status = run[c].row.status
  <2>0. run[c].i \in 0 .. NStages
    BY <1>0, <1>2
  <2>1. new \in Row
    BY <1>0, <2>0, RowOperations
  <2>2. new.status = run[c].row.status
    BY <1>0, <2>0, StatusOfOperations
  <2>. QED  BY <2>1, <2>2
<1>5. job'[k].status = job[k].status
  <2>1. job'[k] = Flush(job[k], run[c].base, new)
    BY <1>0, <1>k, <1>1 DEF Commit
  <2>. QED  BY <1>2, <1>4, <2>1 DEF Flush, Changed
<1> HIDE DEF new
<1>6. run[c].pc \in UnreleasedPcs /\ run'[c].pc \notin OpeningPcs
  BY <1>1 DEF UnreleasedPcs, OpeningPcs
<1>. QED  BY <1>k, <1>1, <1>2, <1>3, <1>4, <1>5, <1>6, MediaOfCommit

\* A stage ends well: the preparation has attached the media, and the row has
\* stopped waiting for it once the VM is powered on.
LEMMA StageOkMedia ==
    ASSUME MediaStages, CalmInv, AccountInv, MediaInv, NEW c \in Runs, NEW o \in Outcomes, StageOk(c, o)
    PROVE  MediaInv'
<1> USE DEF dbVars, workerVars, faultVars
<1> DEFINE new == StageFinished(run[c].row, run[c].i, o)
           merged == Flush(job[run[c].j], run[c].base, new)
<1>0. /\ run \in [Runs -> RunType] /\ run[c] \in RunType /\ run[c].j \in Jobs /\ job \in [Jobs -> Row]
      /\ run[c].row \in Row /\ run[c].base \in Row /\ job[run[c].j] \in Row
      /\ StagePrepare \in Stages /\ StagePowerOn \in Stages /\ StageCleanup \in Stages
      /\ StagePrepare \in Nat /\ StageCleanup \in Nat /\ StagePrepare < StageCleanup
      /\ o \in Done
  BY AccountFacts, StageAssumption, EngineAssumption
  DEF CalmInv, HeldInv, TypeOK, MediaStages, Stages, OutcomeStatuses, Done
<1>k. PICK k \in Jobs : k = run[c].j
  BY <1>0
<1>1. /\ run[c].pc = "handler" /\ HandlerComplete(c) /\ Commit(c, new) /\ UNCHANGED media
      /\ (run[c].i \in {StagePrepare, StagePowerOn} => o = "SUCCEEDED")
      /\ run'[c].pc = "loop" /\ run'[c].j = run[c].j /\ run'[c].row = new
      /\ \A d \in Runs \ {c} : run'[d] = run[d]
  BY <1>0 DEF StageOk, RunType
<1>2. /\ run[c].i \in Stages /\ RowOk(run[c].row) /\ RowOk(job[run[c].j])
      /\ ~Finished(run[c].row, run[c].i) /\ ~Finished(run[c].base, run[c].i)
      /\ SameMedia(job[run[c].j], run[c].base) /\ Follows(run[c].base, run[c].row)
      /\ \A s \in Stages : s < run[c].i => Finished(run[c].row, s)
      /\ run[c].row.status = run[c].base.status
      /\ CleanupAccount(c)
  BY <1>1, StageFacts
<1>3. run[c].i = StageCleanup => run[c].row.removed
  <2>1. run[c].i = StageCleanup => run[c].row.path
    BY <1>0, <1>2 DEF RowOk
  <2>. QED  BY <1>1, <1>2, <2>1 DEF HandlerComplete, CleanupAccount
<1>4. /\ SameMedia(merged, new) /\ new.status = run[c].row.status
      /\ \A s \in Stages : new.steps[s] = IF s = run[c].i THEN o ELSE run[c].row.steps[s]
  <2> DEFINE db == job[run[c].j]
             base == run[c].base
             row == run[c].row
             i == run[c].i
  <2>1. /\ db \in Row /\ base \in Row /\ row \in Row /\ i \in Stages
        /\ RowOk(db) /\ RowOk(row) /\ SameMedia(db, base) /\ Follows(base, row)
        /\ ~Finished(row, i) /\ ~Finished(base, i)
        /\ \A s \in Stages : s < i => Finished(row, s)
        /\ (i \in {StagePrepare, StagePowerOn} => o = "SUCCEEDED")
        /\ (i = StageCleanup => row.removed)
    BY <1>0, <1>1, <1>2, <1>3
  <2>2. /\ SameMedia(Flush(db, base, StageFinished(row, i, o)), StageFinished(row, i, o))
        /\ StageFinished(row, i, o).status = row.status
        /\ \A s \in Stages : StageFinished(row, i, o).steps[s] = IF s = i THEN o ELSE row.steps[s]
    <3> HIDE DEF db, base, row, i
    <3>. QED  BY <1>0, <2>1, FinishedRow
  <2>. QED  BY <2>2
<1>5. job'[k] = merged /\ \A m \in Jobs \ {k} : job'[m] = job[m]
  BY <1>0, <1>k, <1>1 DEF Commit
<1>6. merged.status = job[k].status
  BY <1>k, <1>2, <1>4 DEF Flush, Changed
<1>7. \A s \in Stages : Finished(new, s) <=> (s = run[c].i \/ Finished(run[c].row, s))
  BY <1>0, <1>4 DEF Finished
<1> HIDE DEF new, merged
<1>8. /\ job[k].status = "RUNNING" /\ (Awaits(run[c].row) => k \in media)
      /\ \A d \in Runs \ {c} : run[d].j = k => run[d].pc \notin TaskPcs
  BY <1>k, <1>1, StageMedia
<1>9. ASSUME Awaits(new) PROVE k \in media
  <2>1. Finished(new, StagePrepare) /\ ~Finished(new, StagePowerOn)
    BY <1>9 DEF Awaits
  <2>2. CASE run[c].i = StagePrepare
    BY <1>k, <1>1, <2>2 DEF HandlerComplete, MediaInv, SessionMedia
  <2>3. CASE run[c].i # StagePrepare
    <3>1. Awaits(run[c].row)
      BY <1>0, <1>7, <2>1, <2>3 DEF Awaits
    <3>. QED  BY <1>8, <3>1
  <2>. QED  BY <2>2, <2>3
<1>10. RowMedia(k)'
  <2>1. Awaits(merged) => Awaits(new)
    BY <1>4, MediaCompose
  <2>. QED  BY <1>1, <1>5, <1>9, <2>1 DEF RowMedia
<1>11. RowMarked(k)'
  <2>1. NoneAt(k, OpeningPcs)'
    <3>1. run'[c].pc \notin OpeningPcs
      BY <1>1 DEF OpeningPcs
    <3>. QED  BY <1>1, <1>8, <3>1, MediaPoints DEF NoneAt
  <2>. QED  BY <1>5, <1>6, <1>8, <2>1 DEF RowMarked
<1>12. SessionMedia(c)'
  BY <1>k, <1>1, <1>9 DEF SessionMedia
<1>13. run[c].pc \notin ReleasePcs
  BY <1>1 DEF ReleasePcs
<1>. QED  BY <1>k, <1>1, <1>5, <1>10, <1>11, <1>12, <1>13, MediaOfRun

\* The other steps of a handler.
LEMMA HandlerMedia ==
    ASSUME MediaStages, CalmInv, AccountInv, MediaInv, NEW c \in Runs,
           AttachMedia(c) \/ CleanupMedia(c) \/ StageFails(c) \/ StageCancelled(c)
    PROVE  MediaInv'
<1> USE DEF dbVars, workerVars, faultVars
<1>0. /\ run \in [Runs -> RunType] /\ run[c] \in RunType /\ run[c].j \in Jobs /\ run[c].row \in Row
      /\ StagePowerOn \in Stages /\ StageCleanup \in Stages /\ StagePowerOn < StageCleanup
      /\ StagePrepare # StageCleanup
  BY AccountFacts, StageAssumption DEF CalmInv, HeldInv, TypeOK, MediaStages, Stages
<1>k. PICK k \in Jobs : k = run[c].j
  BY <1>0
<1>1. run[c].pc = "handler" /\ UNCHANGED job
  BY DEF AttachMedia, CleanupMedia, StageFails, StageCancelled
<1>2. /\ run[c].pc \in TaskPcs /\ run[c].pc \in HoldPcs /\ run[c].pc \in UnreleasedPcs
      /\ run[c].pc \notin ReleasePcs /\ run[c].pc \notin OpeningPcs
  BY <1>1, HoldPoints, PcsDiffer DEF UnreleasedPcs, OpeningPcs, ReleasePcs
<1>3. /\ RowOk(run[c].row) /\ ~Finished(run[c].row, run[c].i) /\ run[c].i \in Stages
      /\ SameMedia(job[run[c].j], run[c].base) /\ Follows(run[c].base, run[c].row)
      /\ \A s \in Stages : s < run[c].i => Finished(run[c].row, s)
  BY <1>1, StageFacts
<1>4. RowMarked(k) /\ \A d \in Runs \ {c} : ~Holds(d, k)
  BY <1>k, <1>1, StageMedia
<1>5. ASSUME run'[c].pc = "handler", run'[c].j = k, \A d \in Runs \ {c} : run'[d] = run[d]
      PROVE  RowMarked(k)'
  <2>1. (Tail(k) => Tail(k)') /\ (NoneAt(k, OpeningPcs) => NoneAt(k, OpeningPcs)')
    BY <1>1, <1>2, <1>5 DEF Tail, NoneAt
  <2>. QED  BY <1>1, <1>4, <2>1 DEF RowMarked
<1>6. CASE AttachMedia(c)
  <2>1. /\ media' = media \cup {k} /\ run'[c].pc = "handler" /\ run'[c].j = k
        /\ \A d \in Runs \ {c} : run'[d] = run[d]
    BY <1>0, <1>k, <1>6 DEF AttachMedia, RunType
  <2>2. SessionMedia(c)' /\ RowMedia(k)'
    BY <2>1 DEF SessionMedia, RowMedia
  <2>. QED  BY <1>k, <1>1, <1>2, <1>5, <2>1, <2>2, MediaOfRun
<1>7. CASE CleanupMedia(c)
  <2>1. /\ media' = media \ {k} /\ run'[c].pc = "handler" /\ run'[c].j = k
        /\ run[c].i = StageCleanup /\ run'[c].i = StageCleanup /\ run'[c].row.steps = run[c].row.steps
        /\ \A d \in Runs \ {c} : run'[d] = run[d]
    <3>1. run' = [run EXCEPT ![c] = [@ EXCEPT !.eff = TRUE, !.row = [run[c].row EXCEPT !.removed = TRUE]]]
      BY <1>0, <1>7 DEF CleanupMedia, RunType
    <3>2. [run[c].row EXCEPT !.removed = TRUE].steps = run[c].row.steps
      BY <1>0 DEF Row
    <3>. QED  BY <1>0, <1>k, <1>1, <1>7, <3>1, <3>2 DEF CleanupMedia, RunType
  <2>2. Finished(run[c].row, StagePowerOn)
    BY <1>0, <1>3, <2>1
  <2>3. ~Awaits(run'[c].row)
    BY <2>1, <2>2 DEF Awaits, Finished
  <2>4. ~Awaits(job[k])
    BY <1>0, <1>k, <1>3, <2>2, StageAssumption DEF Awaits, SameMedia, Follows, SameOthers, MediaStages
  <2>5. SessionMedia(c)' /\ RowMedia(k)'
    BY <1>0, <1>1, <2>1, <2>3, <2>4 DEF SessionMedia, RowMedia
  <2>. QED  BY <1>k, <1>1, <1>2, <1>4, <1>5, <2>1, <2>5, MediaOfRun
<1>8. CASE StageFails(c) \/ StageCancelled(c)
  <2>1. PICK new : /\ \/ new = HandleFailure(run[c].row, run[c].i)
                      \/ new = [run[c].row EXCEPT !.steps[run[c].i] = "CANCELLED"]
                   /\ UNCHANGED media
                   /\ run'[c].pc \in {"failing", "cancelling"} /\ run'[c].j = run[c].j /\ run'[c].row = new
                   /\ \A d \in Runs \ {c} : run'[d] = run[d]
    <3>1. CASE StageFails(c)
      BY <1>0, <3>1 DEF StageFails, RunType
    <3>2. CASE StageCancelled(c)
      BY <1>0, <3>2 DEF StageCancelled, RunType
    <3>. QED  BY <1>8, <3>1, <3>2
  <2>2. SameMedia(new, run[c].row)
    BY <1>0, <1>3, <2>1, StageSameMedia
  <2>3. run'[c].pc \notin OpeningPcs /\ run'[c].pc \notin {"handler", "failed", "cancelled", "released"}
    BY <2>1 DEF OpeningPcs
  <2>. QED  BY <1>k, <1>1, <1>2, <2>1, <2>2, <2>3, MediaOfQuiet
<1>. QED  BY <1>6, <1>7, <1>8

\* What another session of the job knows when one of them releases the media:
\* it has the release to record as well, or knows of one.
LEMMA ReleaseIsKnown ==
    ASSUME MediaStages, CalmInv, AccountInv, NEW c \in Runs, run[c].pc \in HoldPcs, ~Marked(run[c].row),
           NEW k \in Jobs, k = run[c].j
    PROVE  /\ Awaits(job[k]) => ~Marked(job[k])
           /\ \A d \in Runs : Holds(d, k) => ~(Awaits(run[d].row) /\ Marked(run[d].row))
<1>0. /\ Agrees(job[k], run[c].base) /\ Follows(run[c].base, run[c].row)
      /\ RowOk(run[c].base) /\ run[c].base \in Row /\ run[c].row \in Row
  BY AccountFacts
<1>1. ~Settled(run[c].row)
  BY DEF Settled, Marked
<1>2. SameMedia(run[c].base, run[c].row) /\ ~Marked(run[c].base) /\ ~Settled(run[c].base)
  <2>1. SameMedia(run[c].base, run[c].row)
    BY <1>0, <1>1 DEF Follows
  <2>. QED  BY <1>1, <2>1, MediaCompose
<1>3. Awaits(job[k]) => ~Marked(job[k])
  <2>1. Awaits(job[k]) => SameMedia(job[k], run[c].base)
    BY <1>0 DEF Agrees, Settled
  <2>2. SameMedia(job[k], run[c].base) => (Marked(job[k]) <=> Marked(run[c].base))
    BY MediaCompose
  <2>. QED  BY <1>2, <2>1, <2>2
<1>4. ASSUME NEW d \in Runs, Holds(d, k), Awaits(run[d].row), Marked(run[d].row) PROVE FALSE
  <2>1. Follows(run[d].base, run[d].row) /\ Alike(run[c].base, run[d].base)
    BY <1>4, AccountFacts DEF Holds, AccountInv, PairAccount
  <2>2. SameMedia(run[d].base, run[d].row)
    BY <1>4, <2>1 DEF Follows, Settled
  <2>3. Awaits(run[d].base) /\ Marked(run[d].base)
    BY <1>4, <2>2, MediaCompose
  <2>4. SameMedia(run[c].base, run[d].base)
    BY <1>2, <2>1, <2>3 DEF Alike, Settled
  <2>. QED  BY <1>2, <2>3, <2>4, MediaCompose
<1>. QED  BY <1>3, <1>4

\* The media is released, or there is nothing to release.
LEMMA ReleaseMedia ==
    ASSUME MediaStages, CalmInv, AccountInv, MediaInv, Orderly, NEW c \in Runs, Release(c)
    PROVE  MediaInv'
<1> USE DEF dbVars, workerVars, faultVars
<1>0. /\ run \in [Runs -> RunType] /\ run[c] \in RunType /\ run[c].j \in Jobs /\ run[c].row \in Row
  BY AccountFacts DEF CalmInv, HeldInv, TypeOK
<1>k. PICK k \in Jobs : k = run[c].j
  BY <1>0
<1>1. run[c].pc \in {"failing", "cancelling", "releasing"} /\ UNCHANGED job
  BY DEF Release, AfterRelease
<1>2. run[c].pc \in HoldPcs /\ run[c].pc \in TaskPcs \cup ReleasePcs
  BY <1>1 DEF HoldPcs, SessionPcs, PipelinePcs, ReleasePcs, TaskPcs
<1>3. RowOk(run[c].row)
  BY <1>2, AccountFacts
<1>4. /\ AfterRelease[run[c].pc] \in {"failed", "cancelled", "released"}
      /\ (run[c].pc \in ReleasePcs => AfterRelease[run[c].pc] \in ReleasePcs)
      /\ AfterRelease[run[c].pc] \notin UnreleasedPcs /\ AfterRelease[run[c].pc] \notin OpeningPcs
  BY <1>1 DEF AfterRelease, ReleasePcs, UnreleasedPcs, OpeningPcs
<1>5. CASE Marked(run[c].row)
  <2>1. /\ run'[c].pc = AfterRelease[run[c].pc] /\ run'[c].j = run[c].j /\ run'[c].row = run[c].row
        /\ UNCHANGED media /\ \A d \in Runs \ {c} : run'[d] = run[d]
    <3>1. ~MayHoldUnattendedMedia(run[c].row)
      BY <1>0, <1>3, <1>5, HeldIsUnmarked
    <3>. QED  BY <1>0, <3>1 DEF Release, RunType
  <2>2. SameMedia(run[c].row, run[c].row)
    BY MediaCompose
  <2>. QED  BY <1>k, <1>1, <1>2, <1>4, <1>5, <2>1, <2>2, MediaOfQuiet
<1>6. CASE ~Marked(run[c].row)
  <2> DEFINE new == MediaReleased(run[c].row)
  <2>1. /\ run'[c].pc = AfterRelease[run[c].pc] /\ run'[c].j = k /\ run'[c].row = new
        /\ media' = media \ {k} /\ \A d \in Runs \ {c} : run'[d] = run[d]
    <3>1. MayHoldUnattendedMedia(run[c].row)
      BY <1>0, <1>3, <1>6, HeldIsUnmarked
    <3>. QED  BY <1>0, <1>k, <3>1 DEF Release, RunType, Orderly
  <2>2. Settled(new) /\ Marked(new)
    BY <1>0, <1>3, <1>6, ReleasedRow
  <2> HIDE DEF new
  <2>3. SessionMedia(c)'
    BY <1>4, <2>1, <2>2 DEF SessionMedia, Settled
  <2>4. /\ (Awaits(job[k]) => ~Marked(job[k]))
        /\ \A d \in Runs : Holds(d, k) => ~(Awaits(run[d].row) /\ Marked(run[d].row))
    BY <1>k, <1>2, <1>6, ReleaseIsKnown
  <2>5. \A d \in Runs \ {c} : Holds(d, k) => run[d].pc # "handler"
    BY <1>k, <1>2, StageIsAlone DEF Holds
  <2>6. RowMarked(k) /\ (Tail(k) => Tail(k)') /\ (NoneAt(k, OpeningPcs) => NoneAt(k, OpeningPcs)')
    <3>1. RowMarked(k)
      BY DEF MediaInv
    <3>2. Tail(k) => Tail(k)'
      <4> SUFFICES ASSUME NEW d \in Runs, run[d].pc \in ReleasePcs, run[d].j = k PROVE Tail(k)'
        BY DEF Tail
      <4>1. run'[d].pc \in ReleasePcs /\ run'[d].j = k
        BY <1>4, <2>1
      <4>. QED  BY <4>1 DEF Tail
    <3>3. NoneAt(k, OpeningPcs) => NoneAt(k, OpeningPcs)'
      BY <1>4, <2>1 DEF NoneAt
    <3>. QED  BY <3>1, <3>2, <3>3
  <2>7. RowMarked(k)'
    BY <1>1, <2>6 DEF RowMarked
  <2>8. Tail(k)' \/ NoneAt(k, UnreleasedPcs)'
    <3>1. CASE run[c].pc \in ReleasePcs
      BY <1>4, <2>1, <3>1 DEF Tail
    <3>2. CASE run[c].pc \in TaskPcs
      <4>1. \A d \in Runs \ {c} : run[d].j = k => run[d].pc \notin TaskPcs
        BY <1>k, <3>2 DEF CalmInv, AloneInv
      <4>. QED  BY <1>4, <2>1, <4>1, MediaPoints DEF NoneAt
    <3>. QED  BY <1>2, <3>1, <3>2
  <2>9. RowMedia(k)'
    BY <1>1, <2>4, <2>6, <2>8 DEF RowMedia, RowMarked
  <2>. QED  BY <1>k, <1>1, <2>1, <2>3, <2>4, <2>5, <2>7, <2>9, MediaOfRun
<1>. QED  BY <1>5, <1>6

\* The last commits of a pipeline, of the reaper and of a shutdown: each has
\* released what it recorded, or finished the clean-up.
LEMMA LastCommitsMedia ==
    ASSUME MediaStages, CalmInv, AccountInv, MediaInv, NEW c \in Runs,
           CommitFailure(c) \/ CommitCancellation(c) \/ Finalize(c) \/ CommitRelease(c)
    PROVE  MediaInv'
<1> USE DEF dbVars, workerVars, faultVars
<1>0. /\ run \in [Runs -> RunType] /\ run[c] \in RunType /\ run[c].j \in Jobs /\ run[c].row \in Row
      /\ (run[c].pc \in HoldPcs => RowOk(run[c].row) /\ Follows(run[c].base, run[c].row))
      /\ RunInv(c)
  BY AccountFacts DEF CalmInv, HeldInv, TypeOK
<1>k. PICK k \in Jobs : k = run[c].j
  BY <1>0
<1>1. run[c].pc \in {"failed", "cancelled", "released", "loop"} /\ UNCHANGED media
  BY DEF CommitFailure, CommitCancellation, Finalize, CommitRelease
<1>2. run[c].pc \in HoldPcs
  BY <1>1 DEF HoldPcs, SessionPcs, PipelinePcs, ReleasePcs
<1>3. run[c].pc # "loop" => Marked(run[c].row)
  BY <1>1 DEF MediaInv, SessionMedia
<1>4. ASSUME EndTask(c) \/ WindDown(c)
      PROVE  /\ run'[c].pc \in {"idle", "ending"} /\ run'[c].pc \notin HoldPcs
             /\ (run'[c].pc \in TaskPcs \cup ReleasePcs => run'[c].j = k)
             /\ \A d \in Runs \ {c} : run'[d] = run[d]
  <2>1. CASE EndTask(c)
    <3>1. run'[c].pc = "idle" /\ \A d \in Runs \ {c} : run'[d] = run[d]
      BY <1>0, <2>1 DEF EndTask, IdleRun
    <3>. QED  BY <3>1, MediaPoints, PcsDiffer
  <2>2. CASE WindDown(c)
    <3>1. run'[c].pc = "ending" /\ run'[c].j = k /\ \A d \in Runs \ {c} : run'[d] = run[d]
      BY <1>0, <1>k, <2>2 DEF WindDown, NewRun, IdleRun
    <3>. QED  BY <3>1, MediaPoints
  <2>. QED  BY <1>4, <2>1, <2>2
<1>5. CASE CommitFailure(c)
  <2>1. run[c].pc = "failed" /\ Commit(c, run[c].row) /\ WindDown(c)
    BY <1>5 DEF CommitFailure
  <2>2. run[c].row.status # "COMPLETED"
    BY <1>0, <2>1 DEF RunInv, ProgressInv
  <2>. QED  BY <1>0, <1>k, <1>1, <1>2, <1>3, <1>4, <2>1, <2>2, MediaOfCommit
<1>6. CASE CommitCancellation(c)
  <2> DEFINE new == ApplyCancellation(run[c].row)
  <2>1. run[c].pc = "cancelled" /\ Commit(c, new)
    BY <1>6 DEF CommitCancellation
  <2>2. RowOk(new) /\ Follows(run[c].row, new) /\ new \in Row /\ new.status = "CANCELLED"
    <3>1. RowOk(new) /\ Follows(run[c].row, new)
      BY <1>0, <1>2, OperationsAccount
    <3>2. new \in Row /\ new.status = "CANCELLED"
      BY <1>0, RowOperations, StatusOfOperations, StageAssumption
    <3>. QED  BY <3>1, <3>2
  <2>3. SameMedia(new, run[c].row)
    BY <1>0, OperationsSameMedia
  <2>4. \/ WindDown(c)
        \/ /\ run'[c].pc = "loop" /\ run'[c].j = run[c].j /\ run'[c].row = new
           /\ \A d \in Runs \ {c} : run'[d] = run[d]
    BY <1>0, <1>6 DEF CommitCancellation, RunType
  <2> HIDE DEF new
  <2>5. Follows(run[c].base, new) /\ Marked(new)
    BY <1>0, <1>2, <1>3, <2>1, <2>2, <2>3, MediaCompose
  <2>6. CASE WindDown(c)
    BY <1>k, <1>1, <1>2, <1>4, <2>1, <2>2, <2>5, <2>6, MediaOfCommit
  <2>7. CASE ~WindDown(c)
    BY <1>k, <1>1, <1>2, <2>1, <2>2, <2>3, <2>4, <2>5, <2>7, MediaOfCommit
  <2>. QED  BY <2>6, <2>7
<1>7. CASE Finalize(c)
  <2> DEFINE new == FinalizeSuccess(run[c].row)
  <2>1. run[c].pc = "loop" /\ Todo(c) = {} /\ Commit(c, new) /\ WindDown(c)
    BY <1>7 DEF Finalize
  <2>2. RowOk(new) /\ Follows(run[c].row, new) /\ new \in Row
    BY <1>0, <1>2, OperationsAccount, RowOperations, StageAssumption
  <2>3. new.steps = run[c].row.steps
    BY <1>0 DEF FinalizeSuccess, Row
  <2> HIDE DEF new
  <2>4. Finished(new, StageCleanup)
    BY <2>1, <2>3, ThroughIsClean DEF Finished
  <2>5. Follows(run[c].base, new) /\ Marked(new)
    BY <1>0, <1>2, <2>2, <2>4, MediaCompose DEF RowOk, Marked
  <2>. QED  BY <1>k, <1>1, <1>2, <1>4, <2>1, <2>2, <2>4, <2>5, MediaOfCommit
<1>8. CASE CommitRelease(c)
  <2>1. run[c].pc = "released" /\ Commit(c, run[c].row) /\ EndTask(c)
    BY <1>8 DEF CommitRelease
  <2>2. run[c].row.status = run[c].base.status
    BY <1>0, <2>1 DEF RunInv, ReleaseInv, ReleasePcs
  <2>. QED  BY <1>0, <1>k, <1>1, <1>2, <1>3, <1>4, <2>1, <2>2, MediaOfCommit
<1>. QED  BY <1>5, <1>6, <1>7, <1>8

\* Every step keeps the media where the rows expect it.
LEMMA NextMedia ==
    ASSUME Calm, Orderly, MediaStages, CalmInv, AccountInv, MediaInv, [Next]_vars
    PROVE  MediaInv'
<1>1. CASE ApiStep \/ \E r \in Clients : ApiCommits(r)
  BY <1>1, UsersPlain, MediaOfPlain DEF ApiStep, Calm
<1>2. ASSUME NEW c \in Runs, TaskStep(c) PROVE MediaInv'
  BY <1>2, StartMedia, LookMedia, StartStageMedia, StageOkMedia, HandlerMedia, ReleaseMedia,
     LastCommitsMedia, ParkMedia, EndsPlain, MediaOfPlain DEF TaskStep
<1>3. ASSUME NEW c \in Runs, Heartbeat(c) \/ Interrupt(c) PROVE MediaInv'
  BY <1>3, LookMedia, EndsPlain, MediaOfPlain
<1>4. ASSUME NEW w \in Workers, ClaimStep(w) \/ ReapStep(w) PROVE MediaInv'
  BY <1>4, ClaimPlain, ReapMedia, MediaOfPlain DEF ClaimStep, ReapStep
<1>5. ASSUME NEW w \in Workers, Exit(w) \/ Restart(w) \/ Stop(w) \/ Crash(w) PROVE MediaInv'
  BY <1>5, VanishPlain, EndsPlain, MediaOfPlain
<1>6. ASSUME NEW c \in Runs, TaskDies(c) \/ PipelineError(c) PROVE FALSE
  BY <1>6 DEF TaskDies, PipelineError, Orderly, CalmInv, HeldInv, TypeOK
<1>7. ASSUME NEW j \in Jobs, HeartbeatExpires(j) PROVE MediaInv'
  BY <1>7, EndsPlain, MediaOfPlain
<1>8. ASSUME NEW j \in Jobs, HeartbeatsLost(j) PROVE FALSE
  BY <1>8 DEF HeartbeatsLost, Calm, CalmInv, HeldInv, TypeOK
<1>9. CASE UNCHANGED vars
  BY <1>9, EndsPlain, MediaOfPlain
<1>. QED  BY <1>1, <1>2, <1>3, <1>4, <1>5, <1>6, <1>7, <1>8, <1>9 DEF Next, FaultStep

\* No row waits for media at the start.
LEMMA InitMedia == MediaStages /\ Init => MediaInv
<1> SUFFICES ASSUME MediaStages, Init PROVE MediaInv
  OBVIOUS
<1>1. \A c \in Runs : SessionMedia(c)
  BY MediaPoints DEF Init, IdleRun, SessionMedia
<1>2. Marked(AbsentRow) /\ ~Awaits(AbsentRow)
  BY StageAssumption DEF AbsentRow, Marked, Awaits, Finished, Done, MediaStages, Stages
<1>3. \A j \in Jobs : RowMedia(j) /\ RowMarked(j)
  BY <1>2 DEF Init, RowMedia, RowMarked
<1>. QED  BY <1>1, <1>3 DEF MediaInv

\* Whatever the interleaving, a row that waits for its media has it, or the run
\* that removed it, or the reaper, has yet to record the removal.
THEOREM MediaInvariant == Calm /\ Orderly /\ MediaStages => (Spec => [](CalmInv /\ AccountInv /\ MediaInv))
<1> SUFFICES ASSUME Calm, Orderly, MediaStages PROVE Spec => [](CalmInv /\ AccountInv /\ MediaInv)
  OBVIOUS
<1>1. CalmInv /\ AccountInv /\ MediaInv /\ [Next]_vars => MediaInv'
  BY NextMedia
<1>2. Init => MediaInv
  BY InitMedia
<1>. QED  BY <1>1, <1>2, AccountInvariant, PTL DEF Spec

\* The VM is powered on only with the answer media in its drive: retries after
\* failures, cancellations, shutdowns and crashes prepare removed media again.
THEOREM PowerOnFindsMedia == Calm /\ Orderly /\ MediaStages => (Spec => []PowerOnHasMedia)
<1> SUFFICES ASSUME Calm, Orderly, MediaStages PROVE Spec => []PowerOnHasMedia
  OBVIOUS
<1>1. ASSUME CalmInv, AccountInv, MediaInv PROVE PowerOnHasMedia
  <2> SUFFICES ASSUME NEW c \in Runs, run[c].pc = "handler", run[c].i = StagePowerOn
               PROVE  run[c].j \in media
    BY DEF PowerOnHasMedia
  <2>1. PICK k \in Jobs : k = run[c].j
    BY <1>1, AccountFacts
  <2>2. Awaits(run[c].row)
    <3>1. StagePrepare \in Stages /\ StagePrepare < StagePowerOn
      BY StageAssumption DEF MediaStages, Stages
    <3>. QED  BY <1>1, <3>1, StageFacts DEF Awaits
  <2>. QED  BY <1>1, <2>1, <2>2, StageMedia
<1>. QED  BY <1>1, MediaInvariant, PTL

\* A job at rest has no unmarked answer media: the failure, cancellation and
\* interruption paths and the clean-up stage release what was recorded.
THEOREM UnmarkedMediaIsGone == Calm /\ Orderly /\ MediaStages => (Spec => []UnmarkedMediaIsReleased)
<1> SUFFICES ASSUME Calm, Orderly, MediaStages PROVE Spec => []UnmarkedMediaIsReleased
  OBVIOUS
<1>1. ASSUME MediaInv PROVE UnmarkedMediaIsReleased
  <2> SUFFICES ASSUME NEW j \in Jobs, AtRest(j), job[j].path, ~job[j].removed PROVE FALSE
    BY DEF UnmarkedMediaIsReleased
  <2>1. RowMarked(j) /\ ~Marked(job[j])
    BY <1>1 DEF MediaInv, Marked
  <2>2. job[j].status # "RUNNING" /\ ~Tail(j)
    BY DEF AtRest, LiveRun, Idle, Tail, ReleasePcs, Terminal
  <2>. QED  BY <2>1, <2>2 DEF RowMarked
<1>. QED  BY <1>1, MediaInvariant, PTL
=============================================================================
