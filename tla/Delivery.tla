------------------------------ MODULE Delivery -------------------------------
(***************************************************************************)
(* One request from its submission to COMPLETED: the preflight, the stages *)
(* that check it again, the placement, and the stages that configure the   *)
(* guest (address, certificates, applications, final validation), while    *)
(* administrators edit the catalogs, the infrastructure drifts, calls fail *)
(* before or after their effect, and the operator retries.                 *)
(*                                                                         *)
(* A stage is one step, except the installation of applications: it runs   *)
(* for a long time and is one step per probe and per installer.  The other *)
(* stages of the pipeline are in VmBuild and GuestIdentity, the engine     *)
(* that runs them in JobEngine.                                            *)
(***************************************************************************)
EXTENDS Preflight

CONSTANTS
    Scenarios,     \* records: request, world, digest that the guest reports as
                   \* Thumbprint, and the numbers of faults and changes
    NoStore        \* the VM does not exist yet

\* Windows reports SHA-1, the simulated guest (services/guest/mock.py) SHA-256.
Digests == {"sha1", "sha256"}

ASSUME DeliveryAssumption ==
    /\ Scenarios \subseteq [request : Request, world : World, digest : Digests, faults : Nat, changes : Nat]
    /\ NoStore \notin Stores

VARIABLES
    request,
    world,
    job,           \* status, stage and why the last attempt failed
    placed,        \* datastore of the VM
    guest,         \* what is in the guest
    record,        \* artifacts of the steps
    loop,          \* local variables of stage_install_applications
    budget,        \* faults and changes that may still happen
    changed        \* the world is no longer the one that the preflight saw

vars == <<request, world, job, placed, guest, record, loop, budget, changed>>

Pipeline ==
    <<"validate_request", "connect_vcenter", "validate_infrastructure", "create_vm",
      "configure_guest_network", "validate_network",
      "install_root_certificates", "install_intermediate_certificates", "validate_certificates",
      "resolve_dependencies", "install_applications", "validate_applications", "final_validation">>

Names == 0 .. Cardinality(Apps)

\* An id that was never given to an application.
NoRow == [exists |-> FALSE, name |-> Cardinality(Apps) + 1, enabled |-> FALSE, deps |-> {}]

NoLoop == [on |-> FALSE, pos |-> 1, rows |-> [a \in Apps |-> NoRow], failed |-> {}, starting |-> FALSE]

TypeOK ==
    /\ request \in Request
    /\ world \in World
    /\ job \in [status : {"submitted", "rejected", "running", "failed", "completed"},
                stage : DOMAIN Pipeline, why : {"", "refused", "fault"}]
    /\ placed \in Stores \cup {NoStore}
    /\ guest \in [address : BOOLEAN, reported : BOOLEAN, digest : Digests,
                  certs : SUBSET Certs, again : SUBSET Certs,
                  installed : SUBSET Apps, silent : SUBSET Apps, installs : [Apps -> Nat],
                  late : SUBSET Apps, overran : SUBSET Apps]
    /\ record \in [order : Seq(Apps), outcomes : SUBSET Nat, verified : SUBSET Certs]
    /\ loop \in [on : BOOLEAN, pos : Nat, rows : Catalog,
                 failed : SUBSET {"missing", "fault"}, starting : BOOLEAN]
    /\ budget \in [faults : Nat, changes : Nat]
    /\ changed \in BOOLEAN

Init ==
    \E s \in Scenarios :
        /\ request = s.request
        /\ world = s.world
        /\ job = [status |-> "submitted", stage |-> 1, why |-> ""]
        /\ placed = NoStore
        /\ guest = [address |-> FALSE, reported |-> FALSE, digest |-> s.digest,
                    certs |-> {}, again |-> {},
                    installed |-> {}, silent |-> {}, installs |-> [a \in Apps |-> 0], late |-> {}, overran |-> {}]
        /\ record = [order |-> <<>>, outcomes |-> {}, verified |-> {}]
        /\ loop = NoLoop
        /\ budget = [faults |-> s.faults, changes |-> s.changes]
        /\ changed = FALSE

-----------------------------------------------------------------------------
(* Submission and retry *)

\* POST /provisioning: the schema, then the preflight, which blocks.
Submit ==
    /\ job.status = "submitted"
    /\ LET ready == /\ request.static => SchemaAccepts(request.ipv4)
                    /\ PreflightFailures(request, world) = {}
       IN job' = [job EXCEPT !.status = IF ready THEN "running" ELSE "rejected"]
    /\ UNCHANGED <<request, world, placed, guest, record, loop, budget, changed>>

\* The retry of a whole job: the failed stage is the first that is not done.
\* Without the connection the context cannot be built and the job fails again.
Retry ==
    /\ job.status = "failed"
    /\ "vcenter_row" \notin world.broken
    /\ job' = [job EXCEPT !.status = "running", !.why = ""]
    /\ UNCHANGED <<request, world, placed, guest, record, loop, budget, changed>>

Key == Pipeline[job.stage]

\* _load_certificates
Wanted(type) ==
    {c \in Certs : /\ request.certs
                   /\ world.package = "enabled"
                   /\ world.certs[c].listed /\ world.certs[c].enabled
                   /\ world.certs[c].type = type}

Selected == Wanted("ROOT") \cup Wanted("INTERMEDIATE")

\* The stage returns before it calls vCenter or the guest.
NothingToDo ==
    \/ Key = "install_root_certificates" /\ Wanted("ROOT") = {}
    \/ Key = "install_intermediate_certificates" /\ Wanted("INTERMEDIATE") = {}
    \/ Key = "validate_certificates" /\ Selected = {}
    \/ Key = "install_applications" /\ loop.pos \notin DOMAIN record.order
    \/ Key = "validate_applications" /\ record.outcomes = {}

\* What makes the current stage raise when it is broken: the connection is
\* loaded with the job, the credentials by every stage that enters the guest.
Needs ==
    IF Key = "validate_request" THEN {"vcenter_row"}
    ELSE IF Key \in {"connect_vcenter", "resolve_dependencies"} \/ NothingToDo THEN {}
    ELSE IF Key \in {"validate_infrastructure", "create_vm"} THEN {"vcenter"}
    ELSE {"vcenter", "credentials"}

At(key) == job.status = "running" /\ Key = key /\ Needs \cap world.broken = {}

Advance ==
    /\ job' = IF job.stage = Len(Pipeline) THEN [job EXCEPT !.status = "completed"]
              ELSE [job EXCEPT !.stage = @ + 1]
    /\ UNCHANGED budget

\* The handler raises because of what it found.
Refuse ==
    /\ job' = [job EXCEPT !.status = "failed", !.why = "refused"]
    /\ UNCHANGED budget

Spend == budget.faults > 0 /\ budget' = [budget EXCEPT !.faults = @ - 1]

\* A call failed or its answer was lost.
Break ==
    /\ Spend
    /\ job' = [job EXCEPT !.status = "failed", !.why = "fault"]

\* An error, a timeout or the end of the worker stops a stage before its
\* next effect, and so does what the stage needs and does not have.  An
\* installer that was started may still be running.
StageBreaks ==
    /\ job.status = "running"
    /\ Break \/ (Needs \cap world.broken # {} /\ Refuse)
    /\ \E left \in SUBSET (IF loop.starting THEN {record.order[loop.pos]} ELSE {}) :
         guest' = [guest EXCEPT !.late = @ \cup left, !.overran = @ \cup left]
    /\ loop' = NoLoop
    /\ UNCHANGED <<request, world, placed, record, changed>>

-----------------------------------------------------------------------------
(* From the request to the VM *)

Verdict(ok) == IF ok THEN Advance ELSE Refuse

ValidateRequest ==
    /\ At("validate_request")
    /\ Verdict(ValidRequest(request, world))
    /\ UNCHANGED <<request, world, placed, guest, record, loop, changed>>

ConnectVcenter ==
    /\ At("connect_vcenter")
    /\ Verdict("vcenter" \notin world.broken)
    /\ UNCHANGED <<request, world, placed, guest, record, loop, changed>>

ValidateInfrastructure ==
    /\ At("validate_infrastructure")
    /\ Verdict(ValidInfrastructure(request, world))
    /\ UNCHANGED <<request, world, placed, guest, record, loop, changed>>

\* A VM that an earlier attempt created is adopted where it is.
CreateVm ==
    /\ At("create_vm")
    /\ \/ placed # NoStore /\ Advance /\ UNCHANGED placed
       \/ /\ placed = NoStore
          /\ \E s \in PlacementDatastores(request, world) :
               \/ AdapterAccepts(request, world, s) /\ placed' = s /\ (Advance \/ Break)
               \/ ~AdapterAccepts(request, world, s) /\ Refuse /\ UNCHANGED placed
       \/ /\ placed = NoStore
          /\ PlacementDatastores(request, world) = {}
          /\ Refuse
          /\ UNCHANGED placed
    /\ UNCHANGED <<request, world, guest, record, loop, changed>>

-----------------------------------------------------------------------------
(* The address *)

\* Without the early return for an address that Tools reports.
ClaimedByOwnGuest ==
    request.static /\ (guest.address \/ ConflictDetected(world, {"icmp", "inventory"}))

\* assert_static_address_unclaimed: an address that VMware Tools reports for
\* this VM is its own; otherwise this VM's guest answers ICMP like any other,
\* if its firewall lets it.
Claimed ==
    /\ request.static
    /\ ~guest.reported
    /\ guest.address \/ ConflictDetected(world, {"icmp", "inventory"})

Unclaimed ==
    \/ ~request.static
    \/ guest.reported
    \/ ~ConflictDetected(world, {"icmp", "inventory"})

ConfigureGuestNetwork ==
    /\ At("configure_guest_network")
    /\ \/ Claimed /\ Refuse /\ UNCHANGED guest
       \/ Unclaimed /\ guest' = [guest EXCEPT !.address = TRUE] /\ (Advance \/ Break)
    /\ UNCHANGED <<request, world, placed, record, loop, changed>>

\* VMware Tools reports the addresses of the guest from time to time.
ToolsReport ==
    /\ guest.address
    /\ ~guest.reported
    /\ guest' = [guest EXCEPT !.reported = TRUE]
    /\ UNCHANGED <<request, world, job, placed, record, loop, budget, changed>>

ValidateNetwork ==
    /\ At("validate_network")
    /\ Verdict("gateway" \notin world.broken)
    /\ UNCHANGED <<request, world, placed, guest, record, loop, changed>>

-----------------------------------------------------------------------------
(* Certificates: workers/stages.py and services/certificates/deployer.py *)

\* The presence probe: the recorded SHA-256 fingerprint equals the Thumbprint
\* of a certificate in the store.
Present(c) == c \in guest.certs /\ guest.digest = "sha256"

Unexpired(type) == {c \in Wanted(type) : ~world.certs[c].expired}

\* Certificates of the group that are imported.
Missing(type) == {c \in Unexpired(type) : ~Present(c)}

\* CertificateDeployer.deploy: every certificate is tried; a failed import
\* may have reached the store.  Some may have been in the store all along.
DeployCertificates(type) ==
    LET missing == Missing(type)
    IN \E lost \in SUBSET missing : \E landed \in SUBSET lost :
         LET imported == (missing \ lost) \cup landed
         IN /\ guest' = [guest EXCEPT
                 !.certs = @ \cup imported,
                 !.again = @ \cup (imported \cap guest.certs)]
            /\ \/ lost # {} /\ Break
               \/ lost = {} /\ Verdict(Wanted(type) = Unexpired(type))

InstallRootCertificates ==
    /\ At("install_root_certificates")
    /\ DeployCertificates("ROOT")
    /\ UNCHANGED <<request, world, placed, record, loop, changed>>

InstallIntermediateCertificates ==
    /\ At("install_intermediate_certificates")
    /\ DeployCertificates("INTERMEDIATE")
    /\ UNCHANGED <<request, world, placed, record, loop, changed>>

ValidateCertificates ==
    /\ At("validate_certificates")
    /\ IF \A c \in Selected : Present(c)
       THEN Advance /\ record' = [record EXCEPT !.verified = Selected]
       ELSE Refuse /\ UNCHANGED record
    /\ UNCHANGED <<request, world, placed, guest, loop, changed>>

-----------------------------------------------------------------------------
(* Applications: workers/stages.py and services/applications/installer.py *)

\* The catalog with all rows, disabled ones included; the resolver's order
\* is one of these (InstallOrder).
ResolveDependencies ==
    /\ At("resolve_dependencies")
    /\ LET needed == Closure(world.apps, Elements(request.apps))
       IN IF Installable(world.apps, Elements(request.apps))
          THEN \E s \in [1 .. Cardinality(needed) -> needed] :
                 /\ IsInstallOrder(world.apps, Elements(request.apps), s)
                 /\ record' = [record EXCEPT !.order = s]
                 /\ Advance
          ELSE Refuse /\ UNCHANGED record
    /\ UNCHANGED <<request, world, placed, guest, loop, changed>>

\* The definitions are read once, before the first installer.
StartInstalls ==
    /\ At("install_applications")
    /\ ~loop.on
    /\ \/ record.order = <<>> /\ Advance /\ UNCHANGED loop
       \/ /\ record.order # <<>>
          /\ loop' = [NoLoop EXCEPT !.on = TRUE, !.rows = world.apps]
          /\ UNCHANGED <<job, budget>>
    /\ UNCHANGED <<request, world, placed, guest, record, changed>>

Current == record.order[loop.pos]

NextEntry(failure) == [loop EXCEPT !.pos = @ + 1, !.failed = @ \cup failure, !.starting = FALSE]

\* The detection rule is not asked.
NeverDetected(a) == FALSE

\* ApplicationInstaller.detect
Detected(a) == a \in guest.installed

\* The loop goes on after an entry that failed.
ProbeApplication ==
    /\ At("install_applications")
    /\ loop.on /\ ~loop.starting /\ loop.pos \in DOMAIN record.order
    /\ \/ ~loop.rows[Current].exists /\ loop' = NextEntry({"missing"}) /\ UNCHANGED budget
       \/ /\ loop.rows[Current].exists
          /\ \/ Detected(Current) /\ loop' = NextEntry({}) /\ UNCHANGED budget
             \/ ~Detected(Current) /\ loop' = [loop EXCEPT !.starting = TRUE] /\ UNCHANGED budget
             \/ Spend /\ loop' = NextEntry({"fault"})
    /\ UNCHANGED <<request, world, job, placed, guest, record, changed>>

Installed(a) == [guest EXCEPT !.installed = @ \cup {a}, !.installs[a] = @ + 1]

\* The installer reports success and the detection rule does not match.
Undetected(a) == [guest EXCEPT !.silent = @ \cup {a}, !.installs[a] = @ + 1]

\* Exit code 0 or 3010, for a package whose detection rule matches or not;
\* another exit code, an answer that is lost, or a timeout that ends the
\* runner and not what it started.
RunInstaller ==
    /\ At("install_applications")
    /\ loop.starting
    /\ \/ guest' = Installed(Current) /\ loop' = NextEntry({}) /\ UNCHANGED budget
       \/ guest' = Undetected(Current) /\ loop' = NextEntry({}) /\ Spend
       \/ /\ Spend
          /\ loop' = NextEntry({"fault"})
          /\ guest' \in {guest, Installed(Current),
                         [guest EXCEPT !.late = @ \cup {Current}, !.overran = @ \cup {Current}]}
    /\ UNCHANGED <<request, world, job, placed, record, changed>>

\* An installer that outlived its attempt ends.
LateInstall ==
    /\ \E a \in guest.late : guest' = [Installed(a) EXCEPT !.late = @ \ {a}]
    /\ UNCHANGED <<request, world, job, placed, record, loop, budget, changed>>

\* The name of every entry that was found in the catalog.
Outcomes == {loop.rows[a].name : a \in {b \in Elements(record.order) : loop.rows[b].exists}}

\* An application without a row is passed over.
FailuresOfInstallers == loop.failed \ {"missing"}

Failures == loop.failed

FinishInstalls ==
    /\ At("install_applications")
    /\ loop.on /\ loop.pos \notin DOMAIN record.order
    /\ loop' = NoLoop
    /\ IF Failures = {}
       THEN /\ record' = [record EXCEPT !.outcomes = Outcomes]
            /\ Advance
       ELSE /\ job' = [job EXCEPT !.status = "failed",
                                  !.why = IF "fault" \in Failures THEN "fault" ELSE "refused"]
            /\ UNCHANGED <<record, budget>>
    /\ UNCHANGED <<request, world, placed, guest, changed>>

\* Entries are looked up by name; of two rows with a name any may be found.
RowsNamed(n) == {a \in Apps : world.apps[a].exists /\ world.apps[a].name = n}

ValidateApplications ==
    /\ At("validate_applications")
    /\ \/ /\ \A n \in record.outcomes : RowsNamed(n) \cap guest.installed # {}
          /\ Advance
       \/ /\ \E n \in record.outcomes : RowsNamed(n) = {} \/ ~(RowsNamed(n) \subseteq guest.installed)
          /\ Refuse
    /\ UNCHANGED <<request, world, placed, guest, record, loop, changed>>

\* The checklist asks for DNS servers, which the request may leave out.
NameServersConfigured == request.static => request.ipv4.dns # <<>>

FinalValidation ==
    /\ At("final_validation")
    /\ Verdict(guest.reported /\ "edition" \notin world.broken /\ NameServersConfigured)
    /\ UNCHANGED <<request, world, placed, guest, record, loop, changed>>

-----------------------------------------------------------------------------
(* What changes around the job *)

Change(w) ==
    /\ job.status \in {"running", "failed"}
    /\ budget.changes > 0
    /\ budget' = [budget EXCEPT !.changes = @ - 1]
    /\ world' = w
    /\ changed' = TRUE
    /\ UNCHANGED <<request, job, placed, guest, record, loop>>

\* _replace_dependencies and _assert_acyclic
ValidDependencies(nodes) ==
    /\ \A a \in Apps : \A d \in nodes[a].deps : d # a /\ nodes[d].exists
    /\ Acyclic(nodes)

CreateApplication ==
    \E a \in Apps, n \in Names, d \in SUBSET Apps :
        LET nodes == [world.apps EXCEPT ![a] = [exists |-> TRUE, name |-> n, enabled |-> TRUE, deps |-> d]]
        IN /\ world.apps[a] = NoRow
           /\ RowsNamed(n) = {}
           /\ ValidDependencies(nodes)
           /\ Change([world EXCEPT !.apps = nodes])

\* No check of the name; the dependencies are checked when they are sent.
UpdateApplication ==
    \E a \in Apps :
        /\ world.apps[a].exists
        /\ \/ \E n \in Names : Change([world EXCEPT !.apps[a].name = n])
           \/ Change([world EXCEPT !.apps[a].enabled = ~@])
           \/ \E d \in SUBSET Apps :
                /\ ValidDependencies([world.apps EXCEPT ![a].deps = d])
                /\ Change([world EXCEPT !.apps[a].deps = d])

DeleteApplication ==
    \E a \in Apps :
        /\ world.apps[a].exists
        /\ \A b \in Apps : a \notin world.apps[b].deps
        /\ Change([world EXCEPT !.apps[a].exists = FALSE, !.apps[a].deps = {}])

\* Registration, update and removal of a certificate, and of the package.
EditCertificates ==
    \/ \E c \in Certs :
         \/ world.certs[c].listed /\ Change([world EXCEPT !.certs[c].enabled = ~@])
         \/ world.certs[c].listed /\ Change([world EXCEPT !.certs[c].listed = FALSE])
         \/ /\ ~world.certs[c].listed /\ world.package # "missing"
            /\ Change([world EXCEPT !.certs[c].listed = TRUE, !.certs[c].enabled = TRUE])
    \/ world.package = "enabled" /\ Change([world EXCEPT !.package = "disabled"])
    \/ world.package = "disabled" /\ Change([world EXCEPT !.package = "enabled"])
    \/ /\ world.package # "missing"
       /\ Change([world EXCEPT !.package = "missing", !.certs = [c \in Certs |-> [@[c] EXCEPT !.listed = FALSE]]])

\* Other users of the infrastructure: datastores fill up or are lost, hosts
\* enter maintenance, a device takes the address; settings and secrets are
\* edited, vCenter, the gateway or the image come and go.
Drift ==
    \/ \E s \in Stores :
         \/ world.stores[s].free > 0 /\ Change([world EXCEPT !.stores[s].free = @ - 1])
         \/ Change([world EXCEPT !.stores[s].accessible = ~@])
    \/ \E h \in Hosts : Change([world EXCEPT !.hosts[h].available = ~@])
    \/ \E d \in Holders : Change([world EXCEPT !.holder = d])
    \/ \E p \in Parts : Change([world EXCEPT !.broken = IF p \in @ THEN @ \ {p} ELSE @ \cup {p}])

-----------------------------------------------------------------------------

Stage ==
    \/ ValidateRequest \/ ConnectVcenter \/ ValidateInfrastructure \/ CreateVm
    \/ ConfigureGuestNetwork \/ ValidateNetwork
    \/ InstallRootCertificates \/ InstallIntermediateCertificates \/ ValidateCertificates
    \/ ResolveDependencies \/ StartInstalls \/ ProbeApplication \/ RunInstaller \/ FinishInstalls
    \/ ValidateApplications \/ FinalValidation

Next ==
    \/ Submit
    \/ Retry
    \/ Stage
    \/ StageBreaks
    \/ ToolsReport
    \/ LateInstall
    \/ CreateApplication
    \/ UpdateApplication
    \/ DeleteApplication
    \/ EditCertificates
    \/ Drift

Spec == Init /\ [][Next]_vars

\* The worker runs the stages, VMware Tools keeps reporting, and the operator
\* does not give up retrying.  An overrun installer may never end.
FairSpec == Spec /\ WF_vars(Submit) /\ WF_vars(Stage) /\ WF_vars(Retry) /\ WF_vars(ToolsReport)

-----------------------------------------------------------------------------
(* Properties *)

\* Installers reported success and detection does not find what they installed.
Unrecognised == guest.silent \ guest.installed

\* A request that the preflight reports as ready is not refused later by
\* what the preflight could have seen: without a change of the world a stage
\* refuses only an expired certificate, certificates whose thumbprints it
\* cannot compare, an unreachable gateway, an application that its installer
\* left undetected, the edition, an address that VMware Tools does not report
\* yet, or, at the very end, a static address without DNS servers.
ReadyIsAccepted ==
    [][job.status = "running" /\ job'.why = "refused" /\ ~changed =>
        \/ /\ Key \in {"install_root_certificates", "install_intermediate_certificates"}
           /\ \E c \in Selected : world.certs[c].expired
        \/ Key = "validate_certificates" /\ guest.digest # "sha256"
        \/ Key = "configure_guest_network" /\ guest.address
        \/ Key = "validate_network" /\ "gateway" \in world.broken
        \/ Key = "validate_applications" /\ Unrecognised # {}
        \/ Key = "final_validation" /\ (\/ ~guest.reported
                                          \/ "edition" \in world.broken
                                          \/ ~NameServersConfigured)]_vars

\* "Skip when explicitly disabled or already present (thumbprint match)" and
\* "Re-probe the store and verify the exact thumbprint exists" (deployer.py): a
\* certificate in the guest is not imported again, and the validation does not
\* refuse certificates that are all in the guest.
CertificatesAreRecognised ==
    [][/\ guest'.again = {}
       /\ At("validate_certificates") /\ job'.why = "refused" => ~(Selected \subseteq guest.certs)]_vars

\* The VM lands on a datastore with room for all its disks, although
\* create_vm only asks for the OS disk; on automatic, on the first preferred
\* datastore that has it (placement.py).
PlacementIsSound ==
    placed # NoStore /\ ~changed =>
        /\ HasRoom(world, placed, request.size)
        /\ request.store = Automatic /\ world.preferred # <<>> =>
             \E j \in DOMAIN world.preferred :
                 /\ world.preferred[j] = placed
                 /\ \A i \in 1 .. (j - 1) : ~HasRoom(world, world.preferred[i], request.size)

\* The subnet of an address, without the arithmetic of the code.
Subnet(a, prefix) == {x \in Addresses : x \div 2 ^ (Bits - prefix) = a \div 2 ^ (Bits - prefix)}

HostAddress(a, block) == \E x, y \in block : x < a /\ a < y

\* A static address that was accepted and its gateway are two different host
\* addresses of one subnet (network/validation.py, schemas/provisioning.py).
AcceptedAddressIsUsable ==
    request.static /\ job.status \in {"running", "failed", "completed"} =>
        LET block == Subnet(request.ipv4.address, request.ipv4.prefix)
        IN /\ request.ipv4.gateway \in block \ {request.ipv4.address}
           /\ HostAddress(request.ipv4.address, block)
           /\ HostAddress(request.ipv4.gateway, block)

\* COMPLETED means that the guest has what was asked for: the address, every
\* selected application whatever administrators edited meanwhile (or its
\* installer said so), and the certificates that were verified; without edits
\* also what the selection needs, each found by the detection rule of a row
\* of its name, and all enabled certificates of the package.
CompletedIsDelivered ==
    job.status = "completed" =>
        /\ guest.reported
        /\ Elements(request.apps) \subseteq guest.installed \cup guest.silent
        /\ record.verified \subseteq guest.certs
        /\ ~changed =>
             /\ \A a \in Closure(world.apps, Elements(request.apps)) :
                  /\ a \in guest.installed \cup guest.silent
                  /\ RowsNamed(world.apps[a].name) \cap guest.installed # {}
             /\ Selected \subseteq guest.certs

\* "already-installed items are skipped" (stage_install_applications): a retry
\* after a lost answer repeats no installation, unless an installer outlived
\* its attempt or left the application undetected.
NoRepeatedWork ==
    \A a \in Apps : guest.installs[a] > 1 => a \in guest.overran \cup guest.silent

\* What no retry can mend.
Hopeless ==
    \/ {"gateway", "edition"} \cap world.broken # {}
    \/ ~NameServersConfigured
    \/ \E c \in Selected : world.certs[c].expired
    \/ Selected # {} /\ guest.digest # "sha256"
    \/ Unrecognised # {}

\* Faults alone do not keep a request from being delivered: as long as the
\* operator retries and nothing else changes, an accepted request completes,
\* unless it comes to what no retry can mend and stays there.
RetriesDeliver ==
    \/ <>(job.status \in {"rejected", "completed"} \/ changed)
    \/ <>[]Hopeless
=============================================================================
