# InfraOps: TLA+ models, checks and proofs

InfraOps provisions Windows servers on vSphere. A FastAPI process accepts
requests and stores *jobs* in PostgreSQL; worker processes claim the jobs and
drive each one through an ordered list of stages; a React client submits,
watches, retries and cancels. This directory holds the formal models of the
parts in which several processes work on the same rows, of the stages that
build and configure the virtual machine, which have to survive attempts that
stop half way in a world that changes around them, of the checks and algorithms
that decide what is accepted, and of the browser sessions that watch it all.

`PROJECT.json` lists the components, the runs, the definitions and the source
lines they model, the hazards, the findings and the theorems.

## 1. Inventory

| Component | State | Operations | Hard behaviour |
|---|---|---|---|
| Job store (`models/jobs.py`, `repositories/jobs.py`) | `provisioning_jobs`, `provisioning_job_steps`, partial unique indexes on VM name and static address of active jobs, unique idempotency key | create, claim, heartbeat, find stale, ensure steps, reset for retry, request cancel | sessions keep attributes as loaded and write back only what they changed; only the claim and the reaper lock rows |
| Job engine (`workers/engine.py`) | `_tasks` of each process, one asyncio task and one heartbeat task per job | claim, spawn, execute, heartbeat, reap, drain, interrupt | crash at any await, shutdown racing a stage, a reaper racing a slow worker |
| Pipeline (`workers/pipeline.py`) | the session's job row, `cancel_event` | execute, run stage, handle failure, finalise, apply cancellation | cancellation racing the end of a stage; commits that follow slow vCenter calls |
| Stage handlers (`workers/stages.py`) | step artifacts | 26 stages | rerun after a partial first attempt; what a stage keeps in memory is lost on a retry |
| Submission (`services/provisioning/service.py`, `api/v1/provisioning.py`) | none of its own | submit, retry, cancel | look-ups, a preflight of seconds, then an insert; repeated requests |
| Answer media (`stages.py`, `vsphere.py`) | file on the datastore, CD drive, `datastore_path` and `media_removed` on the preparation step | prepare, release, clean up | must not outlive the job on any path; must be there when the VM boots |
| VMware adapter (`services/vmware`) | vCenter inventory | create VM, disks, power, media | external system; a call runs in a thread that outlives a stopped attempt, its vCenter task outlives the thread |
| Guest operations (`services/guest`) | name, membership, boot time of Windows | rename, join, restart, scripts over VMware Tools | an effect whose answer is lost; VMware Tools answers until the restart begins |
| Preflight and placement (`services/provisioning`, `services/network`) | none; reads the inventory, the catalogs and the settings | validate, choose a datastore, look for address conflicts | its verdict is used minutes to hours later by stages that ask again, with other questions |
| Certificates, applications (`services/certificates`, `services/applications`, their administration) | catalog rows, the guest's store and programs | resolve, probe, import, install, validate, edit | order of dependencies, a catalog edited while a job runs, installers that outlive their timeout |
| Sessions (`auth`, `api/v1/auth.py`, `core/security.py`) | `refresh_tokens` in families, one cookie that all tabs share | login, refresh, logout, purge | two tabs refreshing at once, lost answers, a logout racing a refresh |
| Job events (`workers/events.py`, `auth/stream_tickets.py`, `api/v1/provisioning.py`) | stream tickets and pub/sub in Redis | issue, consume, subscribe, snapshot, relay | pub/sub delivers to present subscribers only; tickets travel in a URL |
| Web client (`frontend/src`) | session, wizard draft, event stream | refresh, idle timeout, job view | timers and callbacks |

Interactions: API and workers share nothing but the database; the queue is the
set of `QUEUED` rows ordered by `queued_at`; a cancellation reaches a running
stage through the row, the heartbeat loop and `cancel_event`; a dead worker is
noticed only by the age of `heartbeat_at`.

What makes each part correct is in the *Properties* section of its module; the
hazards those properties aim at are under `hazards` in `PROJECT.json`.

## 2. Modules

| Module | Models | Remarks |
|---|---|---|
| `JobStore` | the job row and what each operation does to one | no variables; every operator maps a row to a row; `Flush` is SQLAlchemy's write-back of changed attributes |
| `JobEngine` | API requests, worker processes, tasks, heartbeat, reaper, vCenter's media, all acting on the rows | EXTENDS `JobStore` |
| `JobLifecycle` | abstract: the status of each job and nothing else | |
| `JobEngineRefines` | `JobEngine` implements `JobLifecycle` with `status[j] <- job[j].status` | |
| `Submission` | racing `submit_provisioning` calls | separate from `JobEngine`, which takes a submission as one insert |
| `VmBuild` | the stages `create_vm` to `initialize_data_disks` and the vCenter tasks they issue | one job; the engine is reduced to `Abort` and `Retry` |
| `GuestIdentity` | `configure_hostname`, `join_domain`, `reboot_guest`, `wait_guest_ready`, `final_validation` | one job, one guest; the same reduction |
| `Dependencies` | what an application catalog is and what a correct install order of a selection is | no variables; the abstract side of the resolver: closure as the least closed set, cycles, order |
| `InstallOrder` | `resolve_install_order` step by step: search with its stack, errors, topological sort | EXTENDS `Dependencies` |
| `Preflight` | what the preflight, the first stages and the adapter decide about a request in a given world | no variables; EXTENDS `Dependencies` |
| `Delivery` | one job from the preflight to the final validation while the world changes | EXTENDS `Preflight`; uses the abstract install order, which `InstallOrder` is proved to compute |
| `Sessions` | refresh tokens: sign-in, rotation, reuse detection, sign-out, in transactions with row locks | |
| `JobStream` | stream tickets and the event stream of a job, opened by the tabs of `Sessions` | EXTENDS `Sessions`; `Next` composes both |
| `JobEngineProofs`, `SubmissionProofs`, `InstallOrderProofs`, `GuestIdentityProofs`, `VmBuildProofs`, `DeliveryProofs`, `JobStreamProofs` | theorems about the module each is named after (`JobStreamProofs`: also `Sessions`) | checked by TLAPS |
| `JobTaskProofs` | theorems about `JobEngine` while nobody acts on a job behind the back of its task, the answer media among them; the refinement of `JobLifecycle` | EXTENDS `JobEngineProofs` and `JobEngineRefines`; checked by TLAPS |
| `MCJobEngine`, `MCSubmission`, `MCVmBuild`, `MCInstallOrder`, `MCDelivery`, `MCJobStream` | instances for TLC | |

### JobEngine and the code

A *run* is one asyncio task of `_process_job`, or the part of
`reap_stale_jobs` that follows its first commit. `pc` names the await it is
suspended at, `base` is the row as its session loaded it, `row` as the session
has changed it, `i` the stage, `ev` the `cancel_event`, and `eff` whether the
media part of the current handler has happened. A step runs up to the next
effect other processes can see, which is a commit, a vCenter call, or a read
that a later decision uses.

| pc | Where the code is |
|---|---|
| `start`, `loaded` | `_execute_job` before and after its read; steps not yet committed |
| `loop` | `execute`, before the next `session.refresh` |
| `starting`, `handler` | `_run_stage`, before the RUNNING commit; inside the handler |
| `failing`, `failed` | `_handle_failure`, before and after `release_unattended_media` |
| `cancelling`, `cancelled` | `_apply_cancellation`, the same two points |
| `failbefore`, `ending` | `_fail_before_pipeline`; everything is committed, the heartbeat is being stopped |
| `mark`, `park`, `releasing`, `released` | `_mark_interrupted` and `_interrupt`: read, first commit, media, second commit |

Details taken from the session configuration (`db/session.py`):
`expire_on_commit=False` and `autoflush=False`, so a session keeps its copy
after a commit and writes at a commit only; `refresh` reloads the steps as well
because the relationship is `lazy="selectin"`. There is no version column:
`Flush` therefore merges attribute by attribute, and the last writer of an
attribute wins. The artifacts of a step are one JSONB column, so its path and
its mark of removal are written together.

Time is abstracted to what decisions compare. `heartbeat_at` older than the
timeout is membership in `stale`; the order of `queued_at` is `ahead`. A worker
process that goes away never returns under its id (`make_worker_id` draws a new
one), so `Vanish` replaces its id in the rows by `GoneWorker`; this keeps the
set of ids finite and loses nothing, because ids are only compared for
equality with the id of a live process.

`JobStore` gives a row the attributes that decisions read. Left out: error
texts, timestamps, progress, display statuses, notifications, audit rows,
metrics.

### VmBuild and the code

An adapter call reads the inventory, issues one vCenter task and waits for it.
`plan` is the call, `pc = "issue"` its thread just before the task, `"wait"`
inside `_wait_for_task`, `"ok"` and `"error"` after it. `Abort` stops the
attempt at any await (error, timeout, cancellation, crash). `task` may then end
later or be cancelled by its thread, and a thread that had not issued its task
stays in `stray` and may issue it during the retry. `Retry` starts again at
`stage`, as the pipeline does.

VMs are known by name and by managed object reference. `Named` is what a
look-up by name finds, `ref` the `vm_id` artifact of `create_vm`. Reference 1
is the VM somebody else gave the same name, 2 and above are ours; a VM created
after a deletion has a new reference. The ownership marker is `Owned`.
Placement, specifications, CPU and memory are the same on every attempt and are
left out. The answer media, which these stages also carry, is in `JobEngine`.

vCenter tasks after `create_vm` go by reference. Guest calls go by name
(`_find_vm`), with credentials that are a stored reference jobs share: when ours
is gone and one foreign VM has the name, the call runs there
(`ForeignAnswers`). `touched` records whether a vCenter task or a guest call of
the job has reached the foreign VM. `PressKey` is one press of the 45-second key
loop of `power_on`; it may start Setup, and the loop goes on until `KeysSent`,
so that an attempt may stop with Setup running.

### GuestIdentity and the code

`guest` is Windows: the active name, the name in the registry that the next
start activates, membership, whether a join waits for a restart, whether a
restart is scheduled, and the number of starts, which stands for the boot time.
A name is the one requested or another one. `pc` is `"begin"` before the first
guest call of a stage, then `"rename"`, `"add"` or `"schedule"` before the call
that changes Windows. `join` and `reboot` are artifacts and survive a retry;
`changed` is `ctx.hostname_changed` and does not. What `probe_windows_identity`
reads between `Add-Computer` and the restart is left open (`Observations`).

### InstallOrder and the code

The recursion of `visit` is `stack`: one frame per active call, with the
dependencies it has still to visit. `black` is the colour BLACK; GRAY are the
applications on the stack, which is also `chain`. `required` keeps its order of
insertion, as Python dictionaries do. Each error kind is a member of a set, its
wording is left out. Dependencies are visited in the order of their ids; ready
applications with equal names are taken in any order.

### Preflight, Delivery and the code

`world` is what preflight and stages read: hosts, datastores with free space in
units, the ISO, the preferred list, who holds the address, both catalogs, and
`broken`, the parts (vCenter row, credentials, network, image, gateway...) that
are only there or not. `PreflightFailures` is the set of blocking checks that
fail; `ValidRequest`, `ValidInfrastructure`, `PlacementDatastores` and
`AdapterAccepts` are what the stages and `create_vm` of the adapter ask later.
Addresses have `Bits` bits and the prefixes `MinPrefix .. Bits` stand for
8 .. 32; the code's tests are written in terms of the block size, the property
in terms of the subnet as a set.

In `Delivery`, `job` is the stage and the status with the reason of a failure
(`"refused"` by a check, `"fault"`), `guest` is Windows (address, what VMware
Tools reports, certificates, those imported again, programs that detection
finds, programs of which only the installer said so, counts of installations),
`record` the step artifacts, `loop` the local variables of
`stage_install_applications`. The stages of `VmBuild` and `GuestIdentity` that
read nothing of the world are passed over by `Pipeline`. `Break` is a call that
fails or whose answer is lost, with or without its effect; `LateInstall` is an
installer that ends after its timeout. Administrators' operations are the
handlers of `api/v1/admin_applications.py` and `admin_certificates.py` with
their guards; `Drift` is everything other people change. `guest.digest` is the
digest of the thumbprints the guest reports: SHA-1 on Windows, SHA-256 on the
mock guest of `services/guest/mock.py`; scenarios have either. An installer that
exits with 0 or 3010 while its detection rule does not match leaves its
application in `silent` (`Undetected`). Whether the guest's own address, before
VMware Tools reports it, is taken for a conflict depends on the guest's
firewall and is a choice (`Claimed`, `Unclaimed`).

### Submission and the code

Requests race through the look-ups, the preflight and the insert; an answer
names the job it gives. `Legacy` are requests whose jobs are older than the
column `request_fingerprint` (migration 0007): their jobs exist at the start,
the indexes the migration creates hold of them, and a reuse of their key by the
same user is answered with them whatever its body.

### Sessions, JobStream and the code

A request of a tab is a transaction: `pc` is where it stands, `seen` the rows
its UPDATE found when it started, `fresh` the successor it inserted and has not
committed. `rotate_refresh_token` locks its row (`with_for_update`); the logout
and `revoke_family` do not read with a lock, and wait for locked rows when they
update. The tabs share one cookie; answers may be lost. Time is abstracted to
whether a use is within the grace period (`"recent"`, `"old"`).

`version` counts the commits of the watched job; a publisher commits, then
publishes; Redis gives an event to the streams subscribed at that moment.
A publish error is swallowed by the code, and two commits have no event of their
own: the claim, and the release of the media after an interruption. `unheard`
says that such a change has not been read yet.

### External systems

Assumed of vCenter: one task at a time on a VM (the second is refused), no two
VMs of one name in a folder, no disk on an occupied unit. Assumed of Windows:
`shutdown.exe` refuses a second scheduled restart; a name is active after the
next start. Assumed of time: Windows takes longer to start than the code takes
from one guest call to the next (`ComeUp`); what stopped attempts left behind in
vCenter has ended when Windows Setup, which takes many minutes, has finished
(`SetupFinishes`); a guest script whose attempt stopped has ended by the retry,
so its effect is decided at the stop.

## 3. Runs

CHECK_DEADLOCK is FALSE in every run: a system with no submitted job, or with
every job or attempt ended, may rest.

### Passing

| Run | Checks | Instance |
|---|---|---|
| `rivals` | `ExclusiveExecution`, `UncancelledCompletedIsVerified`, `CompletedStagesAreKept`, `ImplementsLifecycle` | 2 jobs with one VM name, 2 workers, 2 stages, 1 crash or shutdown |
| `queue` | `QueuedIsClaimed` | 2 jobs, 1 worker, 1 slot, unlimited retries, fairness |
| `liveness` | `RunningEnds`, `CancelHandoverEnds` | 1 job, 2 workers, media stages, 1 crash or shutdown, 1 database error, removals that may fail, fairness |
| `slow_requests` | `TypeOK`, `HeldJobsAreExecuted` | 1 job, 2 workers, 1 request caught between read and commit, 1 crash, 1 loss of heartbeats |
| `answer_media` | `PowerOnHasMedia`, `UnmarkedMediaIsReleased`, `CompletedHasNoMedia` | 1 job, 2 workers, 5 stages including create, prepare, power on and clean up, 2 crashes or shutdowns, no crash between the two commits of an interruption |
| `submission` | `ReservationsAreExclusive`, `KeyCreatesOneJob`, `ReplaysAreFaithful` | a legacy job and 5 requests: an original, its repetition, a reuse of the key, a rival for name and address, a reuse of the legacy key |
| `vm_build` | `TypeOK`, `ForeignNotReconfigured`, `OneAdapter`, `DisksMatchRequest`, `RestartedFromDisk` | one job, the largest request (seven data disks, two of one size), 3 stopped attempts, late tasks, a VM of the same name that comes and goes, deletion of ours |
| `guest_identity` | `TypeOK`, `JoinedOnce`, `NoRestartAhead`, `CompletedIsJoined`, `RetriesComplete` | one job with or without a join, 3 stops or lost answers, fairness |
| `install_order` | `ResultIsInstallOrder`, `ErrorsAreExact`, `Terminates` | every catalog of three applications (missing, disabled, circular entries included), selections of one, two in either order, and a repeated one; fairness |
| `delivery` | `PlacementIsSound`, `AcceptedAddressIsUsable`, `CompletedIsDelivered`, `NoRepeatedWork`, `ReadyIsAccepted`, `RetriesDeliver` | one job; families of scenarios that vary one aspect of request and world each, and some in which faults or changes happen, with both kinds of thumbprint; fairness |
| `sessions` | `ClosedFamiliesStayClosed`, `TabsDoNotSignOutEachOther`, `TicketOpensOneStream`, `QuietViewIsCurrent` | two tabs; four refresh tokens, or three with two expiries or deactivations, or one with two tickets and two updates of a job |

`ForeignNotReconfigured` needs three facts of the code together: every later
vCenter task goes by reference, the reference comes from a marked VM only, and
`create_vm` gives up when a name is ambiguous. It says nothing of guest calls,
which go by name (`v_foreign`). `DisksMatchRequest` survives a task of a
stopped attempt that ends after the retry has counted the disks, because the
retry then chooses the same units and vCenter refuses them. `RetriesComplete`
says that the action each failure recommends resolves it; the exception it
names, a guest that `Add-Computer` joined under its old name, is one the code
asks a person to repair.

`ReadyIsAccepted` compares two independent pieces of code: what the preflight
asks, and what `validate_request` to `final_validation` ask. Its exceptions are
the questions only the stages can ask, one that the preflight could ask and does
not (DNS servers, below), and one that no real guest answers with yes
(thumbprints, `v_thumbprint`). `PlacementIsSound` holds although the adapter
checks the room for the OS disk only, because the stage and the preflight have
checked the sum. `NoRepeatedWork` says that a retry after a lost answer installs
nothing twice that detection finds; certificates are not in it, because the code
does import them again. `RetriesDeliver` promises completion unless the job
comes to something that no retry mends (`Hopeless`). In `sessions`, both session
properties name the one window the code leaves open.

### Violation (finding)

This run states what the documents say of a completed job and shows a behaviour
of the code that contradicts it.

- `v_rename` (`CompletedAppliesName`): without a join, an attempt that stops
  between `Rename-Computer` and `reboot_guest` loses `hostname_changed`; the
  retry skips the restart and the job is COMPLETED with the old name active.

### Known windows

Nine more configurations reproduce a behaviour that contradicts a comment or a
document; they belong to no run of `PROJECT.json` and TLC reports a violation
for each (`tlc -config <name>.cfg <module>`). Of VM and delivery:

- `v_foreign` (`ForeignUntouched`, `MCVmBuild`): our VM is deleted after Setup
  and another VM has its name; `wait_for_tools` passes on that one, the failed
  detach is a warning, and the clean-up runs its commands in it and restarts it.
  `docs/vmware-integration.md:33-35` says that such a VM is never reconfigured.
- `v_setup` (`RerunFindsNoSetup`, `MCVmBuild`): `power_on` stops after the press
  that started Setup; its rerun resets the VM. `stages.py:946` says that Setup
  cannot have started.
- `v_thumbprint` (`CertificatesAreRecognised`, `MCDelivery`):
  `store_logic.py:45` records a SHA-256 fingerprint and the probe of line 81
  compares it with Windows' SHA-1 thumbprint. Certificates that are in the store
  are refused by `validate_certificates` on every attempt, and imported again by
  a retry of their stage; `deployer.py:5` and
  `docs/guest-configuration.md:74-82` describe the deployment as idempotent.

With `MCJobEngine`:

- `v_late_worker` (`InterruptedIsParked`; one job, two workers, one loss of
  heartbeats): the reaper makes the job INTERRUPTED while its worker is alive;
  the worker's session still holds the row as loaded and commits FAILED over it.
  `docs/architecture.md:82`: "A worker that loses ownership of a job stops
  executing it." It does so at its next heartbeat, and what it commits before
  is not checked. Fairness is stated (`FairSpec`) although the counterexample is
  finite.
- `v_slots` (`TasksWithinConcurrency`; one worker, two slots, two jobs): a job
  is cancelled, retried while the cancelled task is still in `execute`, and
  claimed by the same worker. `_tasks` has one key for both tasks, `free_slots`
  counts one, and a third task starts. `engine.py:4` speaks of bounded
  concurrency.
- `v_completed`: cancelling during the last stage ends in COMPLETED with that
  stage CANCELLED. `execute` leaves its loop and finalises (`pipeline.py:77`;
  `pipeline.py:297` says that only a verified deployment gets there).
- `v_sticky`: fail after preparation, retry, fail again. The second media is not
  released because `media_removed` of the first release is still on the step
  (`stages.py:1205`, `pipeline.py:148`; `stages.py:1192` says that it must never
  outlive such a job).
- `v_noretry`: a worker that dies between two stages leaves an INTERRUPTED job
  that the retry rejects (`service.py:272`; `docs/vm-deployment-lifecycle.md:30`
  allows a retry from INTERRUPTED).
- `v_killed`: `_interrupt` commits INTERRUPTED, removes the media, and the
  process is killed before the commit that resets the preparation
  (`engine.py:349`). The retry finds the preparation SUCCEEDED and powers the VM
  on without media; `PowerOnHasMedia` fails (`stages.py:1193` says that the
  preparation is reset so that a retry regenerates the media). The constant
  `CrashDuring` is `AnyPoint` there. A kill before the removal leaves unmarked
  media on a job that nobody works on, and `UnmarkedMediaIsReleased` fails.

More windows are in the models and are kept out of the passing runs by a
constant or by what a property speaks of, not by a guard of the code.

Of engine, media and VM:

- `RetryDuring` with `"releasing"` or `"released"`: a retry while the reaper is
  still removing media lets the second commit of `_interrupt` and the new
  task's preparation cross; `PowerOnHasMedia` fails.
- `MaxOutages = 1` in `rivals`: a live worker whose heartbeats are lost keeps
  its session and commits over the INTERRUPTED row (`v_late_worker`);
  `ImplementsLifecycle` fails too. `HeldJobsAreExecuted` still holds, and
  `slow_requests` checks it with an outage.
- `RetryDuring` with `"loop"`: a retry between the commit of a cancelled stage
  and the old task's next refresh puts two tasks on one job (`v_slots`), and
  `CompletedStagesAreKept` fails too.
- `Clients` not empty, without any fault: of two retries that both read a FAILED
  job, the second commits after a worker has claimed the first, and the job is
  claimed once more; `ExclusiveExecution`, `CompletedStagesAreKept` and
  `UncancelledCompletedIsVerified` fail. A
  cancellation that read a QUEUED job commits CANCELLED after the claim, and the
  task goes on from there; `ImplementsLifecycle` fails. `HeldJobsAreExecuted`
  still holds (`slow_requests`).
- `MaxErrors = 1` in `rivals`: an exception that escapes the pipeline after a
  cancelled stage turns CANCELLED into FAILED (`engine.py:239`);
  `ImplementsLifecycle` fails, the other properties of the run hold.
- `MaxErrors = 1` with the media stages: an exception that escapes the pipeline
  fails the job at `engine.py:239` without the release, and
  `UnmarkedMediaIsReleased` fails.
- A preparation that fails after its upload (`stages.py:884`) leaves media that
  no path is recorded for. The media properties speak of recorded media.
- `LateOps` with `"adapter"`: the task of a stopped `attach_network_adapter`
  that ends after the retry has listed the cards adds a second one;
  `OneAdapter` fails.
- `NoRestartAhead` is claimed for jobs with a join. Without one, a retry within
  the ten seconds of a scheduled restart skips the wait for it.
- In `Submission`, a repetition that races its original may be answered 409
  instead of 200; `docs/architecture.md:60` documents that, so no property
  forbids it. A legacy job is replayed for any body (`service.py:84-86`);
  `ReplaysAreFaithful` excepts it.

Of preflight and delivery:

- A static address without DNS servers passes the schema and the preflight; the
  wizard asks for one, the API does not. `final_validation` then always fails
  its check "DNS servers configured". `ReadyIsAccepted` and `RetriesDeliver`
  name it as an exception (`NameServersConfigured`).
- An installer that reports success and stays undetected is accepted by
  `install_applications` and refused by `validate_applications`; the retry
  resumes at the validation and never installs again. `ReadyIsAccepted` and
  `RetriesDeliver` name it as an exception (`Unrecognised`). Administrators'
  edits of detection rules are not modelled.
- `docs/guest-configuration.md:64` says that the VM's own address is ignored on
  a retry; it is, once VMware Tools reports it. Until then the retry is refused
  if the guest answers ICMP (an exception of `ReadyIsAccepted`).
- Preflight does not look at the expiry of certificates; the stage refuses them.
- A dependent is installed although its dependency has failed; the stage fails
  afterwards.
- After a failed `validate_certificates` the recommended retry resumes at the
  validation and imports nothing; a certificate enabled after the installation
  keeps the job failing. An application renamed or deleted after its
  installation does the same in `validate_applications`, which looks rows up by
  name; with two rows of one name it may probe the other one. The properties
  that promise completion speak of an unchanged world.
- Two administrators who save at the same time may create a cycle of
  dependencies; the resolver reports it (`ErrorsAreExact` covers circular
  catalogs), and no job installs it.

Of sessions and events:

- A logout, or a detected reuse, that runs while a refresh of the same family
  has inserted its successor and not committed it does not revoke the
  successor. `ClosedFamiliesStayClosed` speaks of revocations that had no such
  refresh beside them (`alone`).
- An answer that takes longer than the grace period makes the browser's next
  refresh look like theft, and the family is revoked (`strained`).
- An event whose publication failed is lost, and the claim and the release of an
  interrupted job's media have none; the view is current again after the next
  event or snapshot.

### Bounds and why they are enough

- `Runs`: two task slots (three in `v_slots`). Two tasks on one job, or two jobs
  side by side, are the smallest cases of every race here; a third task adds no
  new pair.
- `MaxFaults` 1: a crash or shutdown of one of two workers, while the other
  reaps. 2 in `answer_media`: a second one hits the retry of the first.
  `Restart` is unbounded.
- `CrashDuring`: the points at which a worker may crash. All of them, except in
  `answer_media`, where a crash may not fall between the two commits of an
  interruption; `v_killed` has those.
- `MaxErrors`, `MaxOutages`: database errors that reach a task, heartbeats lost
  while the worker lives. Zero where the property does not survive them, as
  listed above.
- `NStages`: 1 where stages do not matter, 2 for "between two stages", 5 for
  the media stages plus one stage after the clean-up. `StageX = 0` means that
  the instance has no such stage.
- `Clients`: requests that hold a stale read. Requests that are not overtaken
  are `RetryNow` and `CancelNow`, unlimited in every run.
- `Outcomes`: SUCCEEDED, in `answer_media` also WARNING, with which the clean-up
  stage reports that it could not disconnect the installation ISOs. The other
  outcomes differ only in what `Booted` and `VmCreated` make of them.
  Preparation and power-on have the one outcome their handlers return.
- `RetryDuring`: points of the earlier task at which a user's retry may come.
  Empty in the passing runs: users retry when the task that wrote the status has
  ended. `v_slots` has `"loop"`; the other choices are listed above.
- `MaxAborts` 3: a second stop during the retry of a first, and one more in a
  later stage. The proofs about `GuestIdentity` need no bound.
- `MaxVms` 2: ours is created, deleted and created again.
- `LateOps`: the operations whose task or thread may outlive its attempt. Power
  operations end at once; the adapter is discussed above.
- `DataDisks`: seven is the largest request the schema accepts and the first
  that passes the controller's unit.

- `Apps` three: the smallest set with a shared dependency, a chain of two and a
  cycle with an entrance. The proofs about `InstallOrder` need no bound.
- `Scenarios`: one aspect at a time, because the checks of different aspects
  share no variable but the verdict; the pairs of `BrokenParts` cover masking.
  The faulty scenarios hold everything at once.
- `Legacy` one: a job without fingerprint, active or ended, and a reuse of its
  key.
- `Bits` 3, `MinPrefix` 1: every prefix from a block of four to the single
  address, every address and gateway.
- `Tokens`: a family of four, or two families; `Tabs` two.
- `MaxTickets`, `MaxUpdates` two: one stream after another, and an update before
  and after the snapshot.

Workers, slots, clients and tabs are interchangeable; the safety runs use that
as symmetry, the liveness runs do not.

### Fairness

`FairSpec` assumes weak fairness of each task (every stage has a timeout, every
await of the engine is a database or vCenter call that returns or raises), of
each heartbeat loop, of each worker's claim and reap passes (`run_forever` is a
loop with a poll interval), of the passing of the heartbeat timeout, of the
grace period of `drain`, and of the supervisor that restarts a worker
(`restart: unless-stopped`). Users owe nothing there: submissions, retries and
cancellations are never fair.

`GuestIdentity`'s `FairSpec` is a statement about what the product tells its
users, so it assumes that they follow it: weak fairness of the handler (stages
have timeouts), of Windows going down and coming up, and of the retry; strong
fairness of the restart by hand, since a user who is told to restart the guest
and only retries is told again.

`Delivery`'s `FairSpec` is of the same kind: the worker takes every stage to its
end, VMware Tools keeps reporting, and the operator retries. Nothing is assumed
of installers that outlived their attempt, nor of administrators.
`InstallOrder`'s is weak fairness of the function itself. `sessions` checks
safety only.

## 4. Proofs

Assumptions: `StageAssumption`, `WorkerAssumption` (ids of live workers differ
from NULL and from dead ids), `EngineAssumption` (`Clash` is symmetric and
irreflexive, bounds are naturals), `AttributesAssumption` (the body of a request
determines its name and, legacy jobs apart, its address), `IdentityAssumption`
and `BuildAssumption` (bounds are naturals, at most seven data disks), the
assumptions of `Dependencies` and `InstallOrder` on the catalogs and selections,
`PreflightAssumption`, `DeliveryAssumption`, `SessionsAssumption` and
`JobStreamAssumption` (the types of their constants), and `PowersAssumption`,
two laws of exponents that the provers do not know. TLC evaluates them on every
run. Two theorems on single properties and all those of `JobTaskProofs` have a
hypothesis on the constants besides; each is named below, and *Known windows*
describes how the properties fail without it.

`SubmissionProofs`, for any set of requests and any attributes:
`ReservationsExclusive`, `OneJobPerKey`, `ReplaysFaithful`. The three properties
with the type invariant are inductive together (`SubmissionInvariant`): a
replay is faithful because jobs never disappear. Legacy jobs are there from the
start, as many as one likes.

`JobEngineProofs`, for any jobs, rival relation, workers, slots, stages and
bounds, retries at any point and lost heartbeats included:

- `TypeCorrect`: `TypeOK` is inductive, with a lemma for each operator of
  `JobStore`.
- `EngineInvariant`: `HeldInv` is inductive. `HeldJobsAreExecuted` alone is not:
  a task may only end once the row has left RUNNING, and whether its last commit
  takes it there depends on what its session loaded, because `Flush` writes an
  attribute only if the session changed it. `Executed` therefore asks for a task
  that will read the row again, or whose session loaded it as RUNNING;
  `SessionOK` says that between two awaits only a failure and an interruption
  hold a status they have not committed, and that no session writes another
  worker's id. `ActiveExclusive` is needed for `Park`: the commit of
  `_interrupt` is swallowed if an index rejects it, and it cannot be, because
  the row it turns INTERRUPTED was active and its rivals were not.
- `HeldJobsExecuted` and `RivalsExclusive` follow.

`GuestIdentityProofs`, for any number of stops and lost answers (`MaxAborts` is
only assumed to be a natural number): `JoinsAtMostOnce`, `RestartsAreOver` and
`CompletedJobsAreJoined`, from the inductive `IdentityInv`. `JoinInv` ties the
number of joins to the membership, which is what the probe before `Add-Computer`
reads. For the restart, `BootInv` says that the boot time a handler holds is
that of the guest it is about to restart, and `RestartInv` where a restart may
be scheduled at all and that `wait_guest_ready` then compares with the start
before it: without them, a restart scheduled by a stopped attempt could still
be ahead when the wait ends.

`InstallOrderProofs`, for any finite set of applications, any catalog (cycles,
missing and disabled entries included) and any selection: `ResolverIsCorrect`
(an answer is a dependency-first order of exactly the closure), `RejectsExactly`
(a selection is rejected exactly when something in its closure is missing,
disabled or on a cycle) and `NoInternalError` (the branch the code marks
`no cover` is unreachable). The invariant has two halves. Of the search,
`VisitInv` says that the stack is a path of dependencies without repetition
(`Stacked`, `PathsDown`), that `required` holds the finished applications that
exist (`Collected`), that an error has its reason in the closure (`Blamed`), and
that without an error `required` is itself in dependency order
(`VisitedInOrder`): a sequence in which everything comes after its dependencies
has no cycle. Of the sort, `Sorting` says that indegrees count what is still
waited for and that exactly the applications that wait for nothing are ready or
ordered; if nothing is ready and something is left, the first of it in
`required` waits for something before it, which is the contradiction behind
`NoInternalError`.

`GuestIdentityProofs` also proves the type invariant (`TypeCorrect`).

`JobTaskProofs`, for any jobs, workers, slots, stages and rivals, and any number
of crashes, shutdowns, database errors and refused media removals. The
hypothesis is `Calm`: users retry a job after its task has ended
(`RetryDuring = {}`), no request is overtaken between its read and its commit
(`Clients = {}`), and the heartbeats of a live worker get through
(`MaxOutages = 0`). *Known windows* has the behaviours that break these
properties otherwise.

- `CalmInvariant`: `CalmInv`, which adds to `HeldInv` what a task may rely on.
  `TaskInv` says that a task has its key in `_tasks` and that its row is its
  worker's or finished. `SessionInv` says that the session knows the row: all of
  it, unless the job is being cancelled, because a cancellation is the one thing
  others still write. `ReleaseInv` is about the tail of an interruption, which
  outlives the task and may run beside the next one: its session holds nothing
  but the removal of the media. `AloneInv` (one task for each job) is inductive
  only with these: a job becomes claimable by a status that its own task, or
  the reaper after that task's death, has written.
- `OnePipelinePerJob`, `ConcurrencyIsBounded` (`free_slots` counts the keys of
  `_tasks`; by `TaskInv` and `AloneInv` the tasks of a worker inject into them,
  which `RetryDuring = {}` is needed for, see `v_slots`)
  and `CompletedJobsAreVerified` (`ProgressInv`: every stage before the current
  one is done) follow.
- `StagesAreKept` is an action property, from `RowStep`: a step changes the
  status of at most one job, along an edge of the lifecycle, past the unique
  indexes if the job becomes active, and undoes nothing that was done except the
  preparation.
- `EngineImplementsLifecycle`: `Spec => ImplementsLifecycle`, so that every step
  maps to a step of `JobLifecycle` or to a stutter. Also assumes
  `MaxErrors = 0`: an exception that escapes the pipeline after a cancelled
  stage takes the row from CANCELLED to FAILED (`engine.py:239`), which the
  lifecycle has no edge for. The other theorems above do not need that.

The second half of `JobTaskProofs` follows the answer media. It also assumes
`MediaStages`: preparation, power-on and clean-up come in this order and are not
the last stage, as in `ORDERED_STAGES`.

- `AccountInvariant`: `AccountInv` is inductive with `CalmInv`, whatever
  crashes, fails or is refused. The media is a file in vCenter, its record two
  attributes of a step that up to three sessions hold a copy of: the row, a
  task, and the tail of an interruption that ended before the task began.
  `SessionAccount` says that such copies differ by a recorded removal at most,
  so that `Flush` never takes a removal back; `PairAccount` says the same of two
  sessions of one job. `StageAccount` says that a stage runs when all earlier
  ones are finished and nobody still removes media of an earlier attempt,
  `CleanupAccount` that the pipeline passes the clean-up only when it is
  finished. `JobAccount` is the result: a finished clean-up means no media, and
  a COMPLETED job, cancelled or not, has finished its clean-up.
- `CompletedJobsHaveNoMedia` follows.
- `MediaInvariant` adds `MediaInv`, under `Orderly`: `MaxErrors = 0`, removals
  are not refused, and no crash falls between the two commits of an
  interruption. *Known windows* has the behaviour without each of them.
  `PowerOnHasMedia` is not inductive because the row lags behind the file:
  between a removal and its commit the row promises media that is gone.
  `RowMedia` therefore says that a row whose preparation is done and whose VM
  has not been started has its media, or that somebody will record the removal:
  the tail of an interruption, or the reaper, which will find the media recorded
  and not there. `SessionMedia` says the same of an open session, and
  `RowMarked` that unmarked media belongs to a job that a task executes, that
  will be reaped, or that is being interrupted, which is what a job at rest is
  not.
- `PowerOnFindsMedia` and `UnmarkedMediaIsGone` follow.

`VmBuildProofs`, for every request of at most seven data disks, any late tasks
and any number of stops and deletions: `TypeCorrect`,
`ForeignVmIsNotReconfigured`, `DisksAreTheRequest`, `RestartIsFromDisk`. The
invariant is about `Live`, the calls that may still take effect: the handler's,
those of threads left behind and those queued in vCenter. `CallsInv` says that
each of them addresses the VM that `create_vm` recorded, and that every call for
disks has the same unit for each disk. A second such call is therefore refused
as a whole, or finds nothing to add; this is the lemma about `Placed`, that
units are assigned in order and pass over the controller's. `RestartInv` follows
the restart of the clean-up from the detach to the later start, and `GuestInv`
adds that no boot order of `create_vm` is left for a VM with Windows on it.
`AdapterIsSingle` assumes `"adapter" \notin LateOps`.

`DeliveryProofs`, for every set of scenarios, that is any request, world, number
of faults and number of changes, and addresses of any width: `TypeCorrect`,
`PlacementsAreSound`, `AcceptedAddressesAreUsable`, `CompletedJobsAreDelivered`,
`WorkIsNotRepeated`. `DeliveryInv` says what the stages that are done have left
behind (`OrderInv`, `CertInv`), that the installation loop has installed
everything before its position unless it has recorded a failure (`LoopInv`), and
that a second installation has an installer that was left behind or left its
application undetected (`InstallInv`). Each part separates what holds whatever
administrators do from what holds until their first change. The address lemmas
show that the code's arithmetic modulo the block size agrees with the definition
of a subnet. None of this depends on how the guest reports thumbprints.
`ReadyRequestsAreAccepted` assumes that no two applications of a scenario have
one name, since `validate_applications` looks rows up by name; `DeployedInv`
says that the certificates of the finished deployment stages are in the guest.
It is an action property and goes through every way a stage can refuse: the
preflight's report rules each one out, save for the exceptions the property
names.

`JobStreamProofs`, for any tabs, tokens, tickets and changes of the row:
`TypeCorrect`, `ClosedFamiliesAreClosed`, `TabsCoexist`, `TicketsOpenOnce`,
`QuietViewsAreCurrent`. Of the sessions, `FreshSound` says that an id that was
drawn and not delivered is known to nobody else, `RevocationSound` that the
UPDATE of a revocation without a rotation beside it covers the whole family
(needed because it commits later than it reads), and `ReasonsSound` that a token
presented after its grace period has strained its family. Of the stream,
`ViewSound` says that a client behind the row has something to read or to fetch,
or that an event is pending, lost or never sent; it holds because the
subscription precedes the snapshot.

Only model-checked: liveness, because fairness is out of the prover's reach
(`RunningEnds`, `QueuedIsClaimed`, `CancelHandoverEnds`, `Terminates`,
`RetriesDeliver`, `RetriesComplete`). Every other property of the passing runs
is proved.

## 5. Not modelled

- The web client: presentation, a wizard draft and timers. What it does to the
  server (refresh, streams, repeated submissions) is in the models as requests.
- The login rate limit: two counters in Redis with an expiry, read by nobody
  else. Permissions are a table; password hashing and encryption are libraries.
- The answer file, guest scripts, detection rules and command lines: text.
- Notifications, audit rows, logs and metrics: written beside a transition and
  read by pages only.
- Inventory browsing for the wizard, dashboards, the VMware and guest mocks,
  console screenshots.
- Migrations and database roles: run offline.

`PROJECT.json` gives the reason for each component.

## 6. Plan

1. Done: job store, engine, pipeline, lifecycle, answer media, submission.
2. Done: VM creation and ownership, network adapter, power on, clean-up
   restart, data disks; hostname, domain join, restart, final validation.
3. Done: the resolver against its definition, network validation, conflict
   detection, placement and the preflight's verdict.
4. Done: guest network, certificates, applications, and their administration.
5. Done: refresh-token families, stream tickets, the event stream.
6. Done, proofs: the safety properties of `Sessions`, `JobStream`, `Delivery`
   and `VmBuild`; `ExclusiveExecution` and the other engine properties under
   `Calm`; the refinement of `JobLifecycle`; the three media invariants.

Known gaps: a stop between the two tasks of `create_vm` leaves the boot order as
created, which is a behaviour of `VmBuild` that no property speaks of; what a
Setup that was reset half way leaves on the disk (`v_setup`) is outside the
model, where it simply starts again. A grace period of 0 for the shutdown
is not modelled.
