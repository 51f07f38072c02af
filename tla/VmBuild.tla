------------------------------- MODULE VmBuild -------------------------------
(***************************************************************************)
(* The stages of workers/stages.py that build the virtual machine through  *)
(* services/vmware/vsphere.py: create_vm, configure_hardware,              *)
(* attach_network_adapter, power_on, wait_for_guest_os, wait_for_tools,    *)
(* cleanup_unattended_media, add_data_disks and initialize_data_disks.     *)
(* (The answer media itself is modelled in JobEngine.)                     *)
(*                                                                         *)
(* An adapter call runs in a thread: it reads the inventory, issues one    *)
(* vCenter task and waits for it.  An attempt may stop at any await; the   *)
(* thread it leaves behind may still issue its task, and a task left       *)
(* behind may still take effect, also while a retry is under way.          *)
(* Administrators may create and remove a foreign VM with the same name    *)
(* and delete ours.                                                        *)
(***************************************************************************)
EXTENDS Naturals, Sequences, FiniteSets, Functions

CONSTANTS
    DataDisks,   \* request.hardware.disks[1:], as a sequence of sizes
    LateOps,     \* operations whose tasks may outlive the attempt
    MaxVms,      \* bound on VMs created for the job, the deleted ones included
    MaxAborts    \* bound on attempts that stop for reasons outside the model

Ops == {"create", "boot", "adapter", "on", "reset", "detach", "disks"}

ASSUME BuildAssumption ==
    /\ DataDisks \in Seq(Nat) /\ Len(DataDisks) <= 7
    /\ LateOps \subseteq Ops
    /\ MaxVms \in Nat /\ MaxAborts \in Nat

VARIABLES
    vm,       \* the VM that carries this job's ownership marker
    foreign,  \* a VM of the same name without it: absent, in our folder, elsewhere
    touched,  \* history: the foreign VM had a vCenter "task" or a "guest" call of this job
    task,     \* the vCenter task in progress
    stray,    \* calls of stopped attempts whose thread has not issued its task
    stage,    \* the first stage that is not done
    pc,       \* where the handler is, "stopped" without a running attempt
    plan,     \* the call being made
    ref,      \* artifact vm_id of create_vm
    seen,     \* the boot time the handler read
    warned,   \* cleanup ends with WARNING: the ISOs could not be detached
    aborts

vars == <<vm, foreign, touched, task, stray, stage, pc, plan, ref, seen, warned, aborts>>

StageOrder == <<"create_vm", "configure_hardware", "attach_network_adapter", "power_on",
                "wait_for_guest_os", "wait_for_tools", "cleanup_unattended_media",
                "add_data_disks", "initialize_data_disks", "done">>

Stages == Range(StageOrder)

\* s is a stage before the current one.
Past(s) == \E i, j \in DOMAIN StageOrder : i < j /\ StageOrder[i] = s /\ StageOrder[j] = stage

Pcs == {"stopped", "begin", "create", "issue", "wait", "ok", "error", "keys",
        "pressed", "scrub", "boottime", "schedule", "restart"}

\* SCSI units for data disks: 0 holds the OS disk, 7 is the controller.
Units == (1 .. 15) \ {7}

NoDisks == [u \in {} |-> 0]

\* Managed object references: a VM created after a deletion has a new one.
NoRef == 0
ForeignRef == 1

NoCall == [op |-> "none"]

\* boots counts the starts of Windows from a configuration; bootedFrom is the
\* boot order at the last one.
NoVm == [exists |-> FALSE, id |-> ForeignRef, boot |-> "default", nics |-> 0, powered |-> FALSE, os |-> "empty",
         disks |-> NoDisks, up |-> FALSE, due |-> FALSE, boots |-> 0, bootedFrom |-> "default"]

\* The shape of the state.
TypeOK ==
    /\ DOMAIN vm = DOMAIN NoVm
    /\ vm.boot \in {"default", "install", "disk"}
    /\ vm.bootedFrom \in {"default", "install", "disk"}
    /\ vm.os \in {"empty", "prompt", "setup", "installed"}
    /\ vm.nics \in Nat /\ vm.boots \in Nat /\ seen \in Nat
    /\ DOMAIN vm.disks \subseteq Units
    /\ foreign \in {"absent", "folder", "elsewhere"}
    /\ touched \subseteq {"task", "guest"}
    /\ \A c \in stray \cup {task, plan} : c = NoCall \/ (c.op \in Ops /\ DOMAIN c.disks \subseteq Units)
    /\ stage \in Stages
    /\ pc \in Pcs
    /\ ref \in Nat /\ vm.id \in Nat

Init ==
    /\ vm = NoVm
    /\ foreign = "absent"
    /\ touched = {}
    /\ task = NoCall
    /\ stray = {}
    /\ stage = "create_vm"
    /\ pc = "begin"
    /\ plan = NoCall
    /\ ref = NoRef
    /\ seen = 0
    /\ warned = FALSE
    /\ aborts = 0

-----------------------------------------------------------------------------
(* vCenter *)

\* _find_vms_by_name
Named == {id \in {vm.id, ForeignRef} : (id = vm.id /\ vm.exists) \/ (id = ForeignRef /\ foreign # "absent")}

\* _find_by_moref
Found(id) == id \in Named

\* A task that fails: the name is taken in the folder, the VM is gone, a card
\* to remove is gone, the unit of a new disk is occupied.
Refused(c) ==
    CASE c.op = "create" -> vm.exists \/ foreign = "folder"
      [] c.op = "adapter" -> ~Found(c.on) \/ (c.on = vm.id /\ c.nics > vm.nics)
      [] c.op = "disks"  -> ~Found(c.on) \/ (c.on = vm.id /\ DOMAIN c.disks \cap DOMAIN vm.disks # {})
      [] OTHER           -> ~Found(c.on)

\* What a task does to our VM.  A reset takes Setup back to the prompt of the
\* installation media, and restarts an installed Windows.
Applied(c) ==
    CASE c.op = "create"  -> [NoVm EXCEPT !.exists = TRUE, !.id = vm.id + 1]
      [] c.op = "boot"    -> [vm EXCEPT !.boot = "install"]
      [] c.op = "adapter" -> [vm EXCEPT !.nics = (@ + 1) - c.nics]
      [] c.op = "on"      -> [vm EXCEPT !.powered = TRUE, !.os = IF @ = "empty" THEN "prompt" ELSE @]
      [] c.op = "reset"   -> [vm EXCEPT !.os = IF @ = "setup" THEN "prompt" ELSE @, !.up = FALSE, !.due = FALSE]
      [] c.op = "detach"  -> [vm EXCEPT !.boot = "disk"]
      [] c.op = "disks"   -> [vm EXCEPT !.disks =
                                [u \in DOMAIN @ \cup DOMAIN c.disks |->
                                    IF u \in DOMAIN c.disks THEN c.disks[u] ELSE @[u]]]

\* One task at a time: vCenter answers TaskInProgress to another one.
TaskEnds ==
    /\ task # NoCall
    /\ task' = NoCall
    /\ pc' = IF pc # "wait" THEN pc ELSE IF Refused(task) THEN "error" ELSE "ok"
    /\ vm' = IF Refused(task) \/ task.on = ForeignRef THEN vm ELSE Applied(task)
    /\ touched' = touched \cup (IF task.on = ForeignRef /\ ~Refused(task) THEN {"task"} ELSE {})
    /\ UNCHANGED <<foreign, stray, stage, plan, ref, seen, warned, aborts>>

\* _wait_for_task of an abandoned thread cancels its task.
TaskCancelled ==
    /\ task # NoCall /\ pc # "wait"
    /\ task' = NoCall
    /\ UNCHANGED <<vm, foreign, touched, stray, stage, pc, plan, ref, seen, warned, aborts>>

\* The thread of a stopped attempt issues its task.
StrayIssues ==
    \E c \in stray :
        /\ stray' = stray \ {c}
        /\ task' = IF task = NoCall THEN c ELSE task
        /\ UNCHANGED <<vm, foreign, touched, stage, pc, plan, ref, seen, warned, aborts>>

ForeignAppears ==
    /\ foreign = "absent"
    /\ foreign' \in {"elsewhere"} \cup (IF vm.exists THEN {} ELSE {"folder"})
    /\ UNCHANGED <<vm, touched, task, stray, stage, pc, plan, ref, seen, warned, aborts>>

ForeignRemoved ==
    /\ foreign # "absent"
    /\ foreign' = "absent"
    /\ UNCHANGED <<vm, touched, task, stray, stage, pc, plan, ref, seen, warned, aborts>>

OursDeleted ==
    /\ vm.exists /\ vm.id <= MaxVms
    /\ vm' = [NoVm EXCEPT !.id = vm.id]
    /\ UNCHANGED <<foreign, touched, task, stray, stage, pc, plan, ref, seen, warned, aborts>>

-----------------------------------------------------------------------------
(* How an attempt moves, fails and is retried *)

At(s, p) == stage = s /\ pc = p

Advance(next) == stage' = next /\ pc' = "begin"

Fail == pc' = "stopped" /\ UNCHANGED stage

Continue(p) == pc' = p /\ UNCHANGED stage

\* The thread holds its call and is about to issue the task.
Call(c) == Continue("issue") /\ plan' = c

OnRef(op) == [op |-> op, on |-> ref, nics |-> 0, disks |-> NoDisks]

\* Error, timeout, cancellation or crash.  A task in progress survives if its
\* operation may be late; the thread of a cancelled call may go on to issue it.
Abort ==
    /\ aborts < MaxAborts
    /\ pc # "stopped" /\ stage # "done"
    /\ pc = "wait" => task.op \in LateOps
    /\ aborts' = aborts + 1
    /\ Fail
    /\ stray' \in {stray} \cup (IF pc = "issue" /\ plan.op \in LateOps THEN {stray \cup {plan}} ELSE {})
    /\ UNCHANGED <<vm, foreign, touched, task, plan, ref, seen, warned>>

Retry ==
    /\ pc = "stopped"
    /\ Continue("begin")
    /\ plan' = NoCall
    /\ UNCHANGED <<vm, foreign, touched, task, stray, ref, seen, warned, aborts>>

\* ReconfigVM_Task, PowerOnVM_Task, ResetVM_Task or CreateVM_Task; a detach that
\* vCenter refuses is a warning.
Issue ==
    /\ pc = "issue"
    /\ \/ task = NoCall /\ task' = plan /\ Continue("wait")
       \/ task # NoCall /\ UNCHANGED task /\ Continue("error")
    /\ UNCHANGED <<vm, foreign, touched, stray, plan, ref, seen, warned, aborts>>

TaskFailed ==
    /\ pc = "error" /\ plan.op # "detach"
    /\ Fail
    /\ UNCHANGED <<vm, foreign, touched, task, stray, plan, ref, seen, warned, aborts>>

-----------------------------------------------------------------------------
(* create_vm *)

\* A VM of that name is taken for ours.
AnyVm(id) == TRUE

\* owner_job_id == job_marker
Owned(id) == id # ForeignRef

LookUp ==
    /\ At("create_vm", "begin")
    /\ \/ Cardinality(Named) > 1 /\ Fail /\ UNCHANGED ref
       \/ \E id \in Named : /\ Named = {id}
                            /\ \/ ~Owned(id) /\ Fail /\ UNCHANGED ref
                               \/ Owned(id) /\ Advance("configure_hardware") /\ ref' = id
       \/ Named = {} /\ Continue("create") /\ UNCHANGED ref
    /\ UNCHANGED <<vm, foreign, touched, task, stray, plan, seen, warned, aborts>>

\* create_vm looks again before it builds the specification.
CreateVm ==
    /\ At("create_vm", "create")
    /\ \/ Named # {} /\ Fail /\ UNCHANGED plan
       \/ Named = {} /\ Call([op |-> "create", on |-> NoRef, nics |-> 0, disks |-> NoDisks])
    /\ UNCHANGED <<vm, foreign, touched, task, stray, ref, seen, warned, aborts>>

\* CD-then-disk boot of the task's result, in a task of its own.
OrderBoot ==
    /\ At("create_vm", "ok") /\ plan.op = "create"
    /\ Call([op |-> "boot", on |-> vm.id, nics |-> 0, disks |-> NoDisks])
    /\ UNCHANGED <<vm, foreign, touched, task, stray, ref, seen, warned, aborts>>

VmCreated ==
    /\ At("create_vm", "ok") /\ plan.op = "boot"
    /\ ref' = plan.on
    /\ Advance("configure_hardware")
    /\ UNCHANGED <<vm, foreign, touched, task, stray, plan, seen, warned, aborts>>

-----------------------------------------------------------------------------
(* configure_hardware, attach_network_adapter *)

\* CPU and memory are those of the create specification: nothing to change.
ConfigureHardware ==
    /\ At("configure_hardware", "begin")
    /\ IF Found(ref) THEN Advance("attach_network_adapter") ELSE Fail
    /\ UNCHANGED <<vm, foreign, touched, task, stray, plan, ref, seen, warned, aborts>>

\* The cards of an earlier attempt stay.
KeepCards == 0

\* Every card the VM has is replaced.
CardsToRemove == vm.nics

AttachNetwork ==
    /\ At("attach_network_adapter", "begin")
    /\ \/ ~Found(ref) /\ Fail /\ UNCHANGED plan
       \/ Found(ref) /\ Call([OnRef("adapter") EXCEPT !.nics = CardsToRemove])
    /\ UNCHANGED <<vm, foreign, touched, task, stray, ref, seen, warned, aborts>>

NetworkAttached ==
    /\ At("attach_network_adapter", "ok")
    /\ Advance("power_on")
    /\ UNCHANGED <<vm, foreign, touched, task, stray, plan, ref, seen, warned, aborts>>

-----------------------------------------------------------------------------
(* power_on, wait_for_guest_os, wait_for_tools *)

\* The power state is looked up by name, the VM is powered by reference.
PowerOn ==
    /\ At("power_on", "begin")
    /\ \/ (Cardinality(Named) > 1 \/ ~Found(ref)) /\ Fail /\ UNCHANGED plan
       \/ /\ Cardinality(Named) = 1 /\ Found(ref)
          /\ Call(OnRef(IF vm.powered THEN "reset" ELSE "on"))
    /\ UNCHANGED <<vm, foreign, touched, task, stray, ref, seen, warned, aborts>>

PoweredOn ==
    /\ At("power_on", "ok")
    /\ Continue("keys")
    /\ UNCHANGED <<vm, foreign, touched, task, stray, plan, ref, seen, warned, aborts>>

\* "Press any key to boot from CD or DVD": before Setup has started, and again
\* at each start while the CD comes first in the boot order.
AtPrompt == vm.os = "prompt" \/ (vm.os = "installed" /\ ~vm.up /\ vm.boot = "install")

\* One of the presses of the space bar, every three seconds: it may come before
\* or after the prompt.
PressKey ==
    /\ stage = "power_on" /\ pc \in {"keys", "pressed"}
    /\ \/ ~Found(ref) /\ Fail /\ UNCHANGED vm
       \/ Found(ref) /\ Continue("pressed") /\ UNCHANGED vm
       \/ Found(ref) /\ Continue("pressed") /\ ref = vm.id /\ AtPrompt /\ vm' = [vm EXCEPT !.os = "setup"]
    /\ UNCHANGED <<foreign, touched, task, stray, plan, ref, seen, warned, aborts>>

\* 45 seconds are over.
KeysSent ==
    /\ At("power_on", "pressed")
    /\ Advance("wait_for_guest_os")
    /\ UNCHANGED <<vm, foreign, touched, task, stray, plan, ref, seen, warned, aborts>>

\* The first logon has installed VMware Tools.  Setup takes many minutes: what
\* stopped attempts left behind has ended by then.
SetupFinishes ==
    /\ vm.os = "setup" /\ task = NoCall /\ stray = {}
    /\ vm' = [vm EXCEPT !.os = "installed", !.up = TRUE]
    /\ UNCHANGED <<foreign, touched, task, stray, stage, pc, plan, ref, seen, warned, aborts>>

WaitForGuestOs ==
    /\ At("wait_for_guest_os", "begin")
    /\ \/ ~Found(ref) /\ Fail
       \/ Found(ref) /\ vm.up /\ Advance("wait_for_tools")
    /\ UNCHANGED <<vm, foreign, touched, task, stray, plan, ref, seen, warned, aborts>>

\* The state of VMware Tools is looked up by name.
WaitForTools ==
    /\ At("wait_for_tools", "begin")
    /\ \/ /\ Named = {ForeignRef} \/ (Named = {vm.id} /\ vm.up)
          /\ Advance("cleanup_unattended_media")
       \/ ~(Named = {vm.id} /\ vm.up) /\ Fail
    /\ UNCHANGED <<vm, foreign, touched, task, stray, plan, ref, seen, warned, aborts>>

-----------------------------------------------------------------------------
(* cleanup_unattended_media after the answer media *)

Detach ==
    /\ At("cleanup_unattended_media", "begin")
    /\ \/ Found(ref) /\ Call(OnRef("detach")) /\ warned' = FALSE
       \/ ~Found(ref) /\ Continue("scrub") /\ warned' = TRUE /\ UNCHANGED plan
    /\ UNCHANGED <<vm, foreign, touched, task, stray, ref, seen, aborts>>

Detached ==
    /\ stage = "cleanup_unattended_media"
    /\ pc \in {"ok", "error"}
    /\ warned' = (pc = "error")
    /\ Continue("scrub")
    /\ UNCHANGED <<vm, foreign, touched, task, stray, plan, ref, seen, aborts>>

\* A guest call finds the VM by name and needs VMware Tools.
Reachable == Named = {vm.id} /\ vm.up

\* The administrator credentials are a stored reference that jobs share: once
\* ours is deleted, another VM of the name may accept them.
ForeignAnswers == Named = {ForeignRef}

TouchForeign == touched' = touched \cup {"guest"}

GuestCallFails ==
    /\ pc \in {"scrub", "boottime", "schedule"} /\ ~Reachable
    /\ Fail
    /\ UNCHANGED <<vm, foreign, touched, task, stray, plan, ref, seen, warned, aborts>>

Scrub ==
    /\ pc = "scrub"
    /\ \/ Reachable /\ UNCHANGED touched
       \/ ForeignAnswers /\ TouchForeign
    /\ Continue("boottime")
    /\ UNCHANGED <<vm, foreign, task, stray, plan, ref, seen, warned, aborts>>

\* The start of a foreign VM is compared with none of ours.
ReadBootTime ==
    /\ pc = "boottime"
    /\ \/ Reachable /\ seen' = vm.boots
       \/ ForeignAnswers /\ UNCHANGED seen
    /\ Continue("schedule")
    /\ UNCHANGED <<vm, foreign, touched, task, stray, plan, ref, warned, aborts>>

\* shutdown.exe refuses a second scheduled restart.  (A lost answer is Abort.)
ScheduleRestart ==
    /\ pc = "schedule"
    /\ \/ Reachable /\ vm.due /\ Fail /\ UNCHANGED <<vm, touched>>
       \/ Reachable /\ ~vm.due /\ vm' = [vm EXCEPT !.due = TRUE] /\ Continue("restart") /\ UNCHANGED touched
       \/ ForeignAnswers /\ TouchForeign /\ Continue("restart") /\ UNCHANGED vm
    /\ UNCHANGED <<foreign, task, stray, plan, ref, seen, warned, aborts>>

\* The first answer after the restart was scheduled.
AnyAnswer == TRUE

\* Windows reports a later start.
StartedLater == vm.boots # seen

RestartSeen ==
    /\ pc = "restart"
    /\ (Reachable /\ StartedLater) \/ ForeignAnswers
    /\ Advance("add_data_disks")
    /\ UNCHANGED <<vm, foreign, touched, task, stray, plan, ref, seen, warned, aborts>>

GoDown ==
    /\ vm.up /\ vm.due
    /\ vm' = [vm EXCEPT !.up = FALSE, !.due = FALSE]
    /\ UNCHANGED <<foreign, touched, task, stray, stage, pc, plan, ref, seen, warned, aborts>>

\* Starting takes longer than the code takes from one guest call to the next.
ComeUp ==
    /\ vm.os = "installed" /\ ~vm.up /\ pc \notin {"scrub", "boottime", "schedule"}
    /\ vm' = [vm EXCEPT !.up = TRUE, !.boots = @ + 1, !.bootedFrom = vm.boot]
    /\ UNCHANGED <<foreign, touched, task, stray, stage, pc, plan, ref, seen, warned, aborts>>

-----------------------------------------------------------------------------
(* add_data_disks, initialize_data_disks *)

\* Every requested disk, whatever an earlier attempt added.
AllDisks(have) == DataDisks

\* disks[len(existing) - 1:]
Missing(have) == SubSeq(DataDisks, have + 1, Len(DataDisks))

\* The lowest units, the controller's and the OS disk's included.
PlacedFromZero(sizes, used) ==
    LET free == (0 .. 15) \ used
        rank(u) == Cardinality({v \in free : v <= u})
    IN  [u \in {v \in free : rank(v) <= Len(sizes)} |-> sizes[rank(u)]]

\* _free_unit for each missing disk in turn: the k-th takes the k-th free unit.
Placed(sizes, used) ==
    LET free == Units \ used
        rank(u) == Cardinality({v \in free : v <= u})
    IN  [u \in {v \in free : rank(v) <= Len(sizes)} |-> sizes[rank(u)]]

AddDataDisks ==
    /\ At("add_data_disks", "begin")
    /\ LET used == DOMAIN vm.disks
           missing == Missing(Cardinality(used))
       IN \/ DataDisks # <<>> /\ ~Found(ref) /\ Fail /\ UNCHANGED plan
          \/ /\ DataDisks = <<>> \/ (Found(ref) /\ missing = <<>>)
             /\ Advance("initialize_data_disks")
             /\ UNCHANGED plan
          \/ /\ Found(ref) /\ missing # <<>>
             /\ Call([OnRef("disks") EXCEPT !.disks = Placed(missing, used)])
    /\ UNCHANGED <<vm, foreign, touched, task, stray, ref, seen, warned, aborts>>

DisksAdded ==
    /\ At("add_data_disks", "ok")
    /\ Advance("initialize_data_disks")
    /\ UNCHANGED <<vm, foreign, touched, task, stray, plan, ref, seen, warned, aborts>>

Count(f, x) == Cardinality({i \in DOMAIN f : f[i] = x})

SameSizes(disks) == \A x \in Range(DataDisks) \cup Range(disks) : Count(disks, x) = Count(DataDisks, x)

\* The script formats the raw disks it finds; then the sizes that Windows reports
\* are compared with the request.
InitializeDisks ==
    /\ At("initialize_data_disks", "begin")
    /\ \/ DataDisks = <<>> /\ Advance("done") /\ UNCHANGED touched
       \/ DataDisks # <<>> /\ Reachable /\ SameSizes(vm.disks) /\ Advance("done") /\ UNCHANGED touched
       \/ DataDisks # <<>> /\ ~(Reachable /\ SameSizes(vm.disks)) /\ Fail /\ UNCHANGED touched
       \/ DataDisks # <<>> /\ ForeignAnswers /\ TouchForeign /\ (Advance("done") \/ Fail)
    /\ UNCHANGED <<vm, foreign, task, stray, plan, ref, seen, warned, aborts>>

-----------------------------------------------------------------------------

Handler ==
    \/ Issue \/ TaskFailed
    \/ LookUp \/ CreateVm \/ OrderBoot \/ VmCreated
    \/ ConfigureHardware \/ AttachNetwork \/ NetworkAttached
    \/ PowerOn \/ PoweredOn \/ PressKey \/ KeysSent \/ WaitForGuestOs \/ WaitForTools
    \/ Detach \/ Detached \/ GuestCallFails \/ Scrub \/ ReadBootTime \/ ScheduleRestart \/ RestartSeen
    \/ AddDataDisks \/ DisksAdded \/ InitializeDisks

Environment ==
    \/ TaskEnds \/ TaskCancelled \/ StrayIssues
    \/ ForeignAppears \/ ForeignRemoved \/ OursDeleted
    \/ SetupFinishes \/ GoDown \/ ComeUp

Next == Handler \/ Environment \/ Abort \/ Retry

Spec == Init /\ [][Next]_vars

-----------------------------------------------------------------------------
(* Properties *)

\* create_vm: "Never adopt, reconfigure or power on a VM this job did not
\* create", whenever a VM of that name appears and whenever ours is deleted: no
\* vCenter task of the job, late ones included, takes effect on it.
ForeignNotReconfigured == "task" \notin touched

\* docs/vmware-integration.md: any other VM with the requested name "is never
\* reconfigured, powered on, renamed, re-addressed or joined to the domain".
\* The guest calls go to whatever VM has the name.
ForeignUntouched == touched = {}

\* power_on: "This stage reruns only after it failed, so Setup cannot have
\* started".  The key loop goes on after the press that starts Setup, and may
\* stop there.
RerunFindsNoSetup == At("power_on", "begin") => vm.os \in {"empty", "prompt"}

\* A retry of attach_network_adapter replaces the card a stopped attempt added.
OneAdapter == Past("attach_network_adapter") /\ Found(ref) => vm.nics = 1

\* "a retry only adds the rest": however attempts, their threads and their
\* tasks overlap, the VM ends with the requested disks, no more and no fewer.
DisksMatchRequest == Past("add_data_disks") /\ Found(ref) => SameSizes(vm.disks)

\* The restart of the clean-up "proves Windows now boots from its disk without
\* the installation media": it has happened, after the detach.
RestartedFromDisk ==
    Past("cleanup_unattended_media") /\ Found(ref) =>
        ~vm.due /\ (warned \/ vm.bootedFrom = "disk")
=============================================================================
