--------------------------- MODULE DeliveryProofs ----------------------------
(***************************************************************************)
(* Theorems of Delivery, for every set of scenarios: any request, any      *)
(* world, any number of faults and of changes.                             *)
(***************************************************************************)
EXTENDS Delivery, FiniteSetTheorems, TLAPS

-----------------------------------------------------------------------------
(* The preflight report *)

\* A check reports its code when its condition holds.
LEMMA FailsWhen == \A code, condition : Fails(code, condition) = {} <=> ~condition
BY DEF Fails

\* What a report without failures says about the infrastructure.
LEMMA ReadyInfrastructure ==
    ASSUME NEW r, NEW w, CheckVcenter(w) = {}, CheckInfrastructure(r, w) = {}, CheckNameUnique(w) = {}
    PROVE  /\ "vcenter_row" \notin w.broken /\ "vcenter" \notin w.broken /\ "name" \notin w.broken
           /\ DatacenterFound(w) /\ ClusterFound(w) /\ NetworkFound(w)
           /\ HostUsable(r, w) /\ PoolFound(r, w) /\ CheckStorage(r, w)
           /\ IsoFound(w) /\ w.stores[w.iso].listed
<1>1. "vcenter_row" \notin w.broken /\ "vcenter" \notin w.broken /\ "name" \notin w.broken
  BY FailsWhen DEF CheckVcenter, CheckNameUnique
<1>2. DatacenterFound(w) /\ ClusterFound(w)
  BY <1>1 DEF CheckInfrastructure
<1>3. /\ Fails("host", ~HostUsable(r, w)) = {}
      /\ Fails("resource_pool", ~PoolFound(r, w)) = {}
      /\ Fails("storage", ~CheckStorage(r, w)) = {}
      /\ Fails("network", ~NetworkFound(w)) = {}
      /\ CheckIso(w) = {}
  BY <1>1, <1>2 DEF CheckInfrastructure
<1>4. HostUsable(r, w) /\ PoolFound(r, w) /\ CheckStorage(r, w) /\ NetworkFound(w)
  BY <1>3, FailsWhen
<1>5. IsoFound(w) /\ w.stores[w.iso].listed
  BY <1>3, FailsWhen DEF CheckIso
<1> QED  BY <1>1, <1>2, <1>4, <1>5

\* What it says about the rest of the request.
LEMMA ReadyRequest ==
    ASSUME NEW r, NEW w, PreflightFailures(r, w) = {}
    PROVE  /\ CheckVcenter(w) = {} /\ CheckInfrastructure(r, w) = {} /\ CheckNameUnique(w) = {}
           /\ "vcenter_row" \notin w.broken
           /\ "policy" \notin w.broken /\ "credentials" \notin w.broken
           /\ r.static => validate_static_ipv4(r.ipv4) /\ ~ConflictDetected(w, {"icmp", "dns", "inventory"})
           /\ \A a \in Elements(r.apps) : w.apps[a].exists
           /\ Installable(EnabledOnly(w.apps), Elements(r.apps))
           /\ SelectedRows(r, w) # {} => "roots" \notin w.broken /\ SelectedRows(r, w) \cap w.outside = {}
<1>1. /\ CheckVcenter(w) = {} /\ CheckNamePolicy(w) = {} /\ CheckAddress(r, w) = {}
      /\ CheckApplications(r, w) = {} /\ CheckInstallerRoots(r, w) = {} /\ CheckCredentials(w) = {}
      /\ "vcenter_row" \notin w.broken => CheckInfrastructure(r, w) = {} /\ CheckNameUnique(w) = {}
  BY DEF PreflightFailures
<1>2. "vcenter_row" \notin w.broken
  BY <1>1, FailsWhen DEF CheckVcenter
<1>3. "policy" \notin w.broken /\ "credentials" \notin w.broken
  BY <1>1, FailsWhen DEF CheckNamePolicy, CheckCredentials
<1>4. ASSUME r.static
      PROVE  validate_static_ipv4(r.ipv4) /\ ~ConflictDetected(w, {"icmp", "dns", "inventory"})
  <2> DEFINE C == ConflictDetected(w, {"icmp", "dns", "inventory"})
  <2> HIDE DEF C
  <2>1. /\ Fails("ip_syntax", ~validate_static_ipv4(r.ipv4)) = {}
        /\ Fails("ip_conflict", validate_static_ipv4(r.ipv4) /\ "vcenter_row" \notin w.broken /\ C) = {}
    BY <1>1, <1>4 DEF CheckAddress, C
  <2>2. validate_static_ipv4(r.ipv4) /\ ~C
    BY <1>2, <2>1, FailsWhen
  <2> QED  BY <2>2 DEF C
<1>5. ~(\E a \in Elements(r.apps) : ~w.apps[a].exists \/ ~w.apps[a].enabled) /\ Installable(EnabledOnly(w.apps), Elements(r.apps))
  BY <1>1, FailsWhen DEF CheckApplications
<1>6. ~(SelectedRows(r, w) # {} /\ ("roots" \in w.broken \/ SelectedRows(r, w) \cap w.outside # {}))
  BY <1>1, FailsWhen DEF CheckInstallerRoots
<1> QED  BY <1>1, <1>2, <1>3, <1>4, <1>5, <1>6

-----------------------------------------------------------------------------
(* Addresses *)

\* Division with remainder.
LEMMA Division ==
    ASSUME NEW a \in Nat, NEW b \in Nat \ {0}
    PROVE  /\ a \div b \in Nat /\ a % b \in Nat /\ a % b < b
           /\ a - (a % b) = (a \div b) * b
OBVIOUS

\* The quotient of every address of a block.
LEMMA Quotient ==
    ASSUME NEW b \in Nat \ {0}, NEW q \in Nat, NEW r \in Nat, r < b
    PROVE  (q * b + r) \div b = q
OBVIOUS

\* Blocks divide the address space: a block that begins in it ends in it.
LEMMA BlockFits ==
    ASSUME NEW b \in Nat \ {0}, NEW n \in Nat, NEW q \in Nat, q * b <= n * b - 1
    PROVE  q * b + b <= n * b
<1>1. q < n
  <2>1. SUFFICES ASSUME q >= n PROVE FALSE
    OBVIOUS
  <2>2. q * b >= n * b
    BY <2>1
  <2>3. q * b \in Nat /\ n * b \in Nat
    OBVIOUS
  <2> QED  BY <2>2, <2>3
<1>2. q + 1 <= n
  BY <1>1
<1>3. (q + 1) * b <= n * b
  BY <1>2
<1>4. (q + 1) * b = q * b + b
  OBVIOUS
<1> QED  BY <1>3, <1>4

\* Distances from the start of a block.
LEMMA Offset ==
    ASSUME NEW m \in Nat, NEW x \in Nat, NEW y \in Nat, x - y = m
    PROVE  x = m + y
OBVIOUS

\* An address that is neither the first nor the last of its block is between them.
LEMMA Inside ==
    ASSUME NEW m \in Nat, NEW b \in Nat \ {0}, NEW x, NEW y \in Nat, y < b, x = m + y,
           x # m, x # m + b - 1
    PROVE  m < x /\ x < m + (b - 1)
OBVIOUS

\* Addresses that validate_static_ipv4 accepts are usable.
LEMMA ValidIsUsable ==
    ASSUME NEW ip \in Ipv4Config, validate_static_ipv4(ip)
    PROVE  LET block == Subnet(ip.address, ip.prefix)
           IN /\ ip.gateway \in block \ {ip.address}
              /\ HostAddress(ip.address, block)
              /\ HostAddress(ip.gateway, block)
<1> DEFINE a == ip.address
           g == ip.gateway
           b == 2 ^ (Bits - ip.prefix)
           N == 2 ^ Bits
           n == 2 ^ ip.prefix
           q == a \div b
<1>1. a \in 0 .. (N - 1) /\ g \in 0 .. (N - 1) /\ ip.prefix \in 0 .. Bits
  BY DEF Ipv4Config, Addresses
<1>2. b \in Nat \ {0} /\ N \in Nat \ {0} /\ n \in Nat \ {0} /\ n * b = N
  <2>1. Bits - ip.prefix \in 0 .. Bits /\ Bits \in 0 .. Bits
    BY <1>1, PreflightAssumption
  <2> QED  BY <1>1, <2>1, PowersAssumption
<1>3. /\ a # a - (a % b) /\ a # a - (a % b) + b - 1
      /\ g - (g % b) = a - (a % b)
      /\ g # a - (a % b) /\ g # a - (a % b) + b - 1 /\ g # a
  BY DEF validate_static_ipv4, NetworkAddress, BroadcastAddress, BlockSize
<1>4. Subnet(a, ip.prefix) = {x \in 0 .. (N - 1) : x \div b = q}
  BY DEF Subnet, Addresses
<1> HIDE DEF a, g, b, N, n
<1>5. /\ q \in Nat /\ a % b \in Nat /\ a % b < b /\ a - (a % b) = q * b
      /\ g \div b \in Nat /\ g % b \in Nat /\ g % b < b /\ g - (g % b) = (g \div b) * b
  <2>1. a \in Nat /\ g \in Nat
    BY <1>1, <1>2
  <2> QED  BY <1>2, <2>1, Division
<1> HIDE DEF q
<1>6. q * b \in Nat /\ q * b <= N - 1
  BY <1>1, <1>2, <1>5
<1>7. q * b + b <= N
  BY <1>2, <1>5, <1>6, BlockFits
<1>8. \A r \in Nat : r < b => (q * b + r) \div b = q
  BY <1>2, <1>5, Quotient
<1>9. a = q * b + (a % b) /\ g = q * b + (g % b)
  <2>1. a \in Nat /\ g \in Nat /\ a - (a % b) = q * b /\ g - (g % b) = q * b
    BY <1>1, <1>2, <1>3, <1>5
  <2> QED  BY <1>5, <1>6, <2>1, Offset
<1> DEFINE S == {x \in 0 .. (N - 1) : x \div b = q}
           lo == q * b
           hi == q * b + (b - 1)
<1>10. lo \in S /\ hi \in S /\ g \in S
  <2>1. lo \in 0 .. (N - 1) /\ hi \in 0 .. (N - 1)
    BY <1>2, <1>6, <1>7
  <2>2. b - 1 \in Nat /\ b - 1 < b /\ 0 < b
    BY <1>2
  <2>3. (q * b + 0) \div b = q /\ hi \div b = q /\ g \div b = q
    BY <1>5, <1>8, <1>9, <2>2
  <2>4. q * b + 0 = lo
    BY <1>6
  <2> QED  BY <1>1, <2>1, <2>3, <2>4
<1>11. lo < a /\ a < hi /\ lo < g /\ g < hi
  <2>1. a # lo /\ a # lo + b - 1 /\ g # lo /\ g # lo + b - 1
    BY <1>3, <1>5
  <2> QED  BY <1>2, <1>5, <1>6, <1>9, <2>1, Inside
<1>12. g # a
  BY <1>3
<1> HIDE DEF S, lo, hi
<1>13. g \in S \ {a} /\ HostAddress(a, S) /\ HostAddress(g, S)
  BY <1>10, <1>11, <1>12 DEF HostAddress
<1>14. Subnet(a, ip.prefix) = S
  BY <1>4 DEF S
<1> QED  BY <1>13, <1>14 DEF a, g

-----------------------------------------------------------------------------
(* Placement *)

\* An automatic placement has room, and is the first preferred one that has.
LEMMA AutomaticHasRoom ==
    ASSUME NEW w \in World, NEW size, NEW s \in choose_automatic_datastore(w, size)
    PROVE  /\ s \in Stores /\ HasRoom(w, s, size)
           /\ w.preferred # <<>> =>
                \E j \in DOMAIN w.preferred :
                    /\ w.preferred[j] = s
                    /\ \A i \in 1 .. (j - 1) : ~HasRoom(w, w.preferred[i], size)
<1>1. \A j \in DOMAIN w.preferred : w.preferred[j] \in Stores
  <2>1. w.preferred \in Seq(Stores)
    BY DEF World
  <2> QED  BY <2>1
<1> QED  BY <1>1 DEF choose_automatic_datastore

\* Room for all disks is room for the OS disk.
LEMMA RoomForLess ==
    ASSUME NEW w \in World, NEW s \in Stores, NEW m \in Nat, NEW n \in Nat, m <= n, HasRoom(w, s, n)
    PROVE  HasRoom(w, s, m)
<1>1. w.stores[s].free \in Nat
  BY DEF World, StoreState
<1> QED  BY <1>1 DEF HasRoom

\* The fields of a request.
LEMMA RequestFields ==
    ASSUME NEW r \in Request
    PROVE  /\ r.store \in Stores \cup {Automatic}
           /\ r.os \in Nat /\ r.size \in Nat /\ r.os <= r.size
           /\ r.static \in BOOLEAN /\ r.certs \in BOOLEAN /\ r.ipv4 \in Ipv4Config
           /\ r.apps \in Seq(Apps) /\ Elements(r.apps) \subseteq Apps
<1>1. r.apps \in Seq(Apps)
  BY DEF Request
<1>2. Elements(r.apps) \subseteq Apps
  BY <1>1 DEF Elements
<1> QED  BY <1>1, <1>2 DEF Request

-----------------------------------------------------------------------------
(* Applications that are installable for the preflight *)

\* The closure contains what is selected, is closed, and is the least such set.
LEMMA ClosureFacts ==
    ASSUME NEW nodes, NEW T \in SUBSET Apps
    PROVE  /\ T \subseteq Closure(nodes, T) /\ Closure(nodes, T) \subseteq Apps
           /\ \A a \in Closure(nodes, T) : nodes[a].exists /\ nodes[a].deps \subseteq Apps =>
                nodes[a].deps \subseteq Closure(nodes, T)
           /\ \A S \in SUBSET Apps : T \subseteq S /\ Closed(nodes, S) => Closure(nodes, T) \subseteq S
BY DEF Closure, Closed

\* A selection that is installable among the enabled rows is installable in
\* the whole catalog: what the preflight resolves, the stage resolves too.
LEMMA EnabledIsEnough ==
    ASSUME NEW nodes \in Catalog, NEW T \in SUBSET Apps, Installable(EnabledOnly(nodes), T)
    PROVE  Installable(nodes, T)
<1> DEFINE E == EnabledOnly(nodes)
<1>1. \A a \in Apps : /\ nodes[a].deps \subseteq Apps /\ E[a].deps = nodes[a].deps /\ E[a].enabled = nodes[a].enabled
                      /\ E[a].exists <=> (nodes[a].exists /\ nodes[a].enabled)
  <2> TAKE a \in Apps
  <2>1. nodes[a] \in AppNode
    BY DEF Catalog
  <2>2. E[a] = [nodes[a] EXCEPT !.exists = nodes[a].exists /\ nodes[a].enabled]
    BY DEF EnabledOnly
  <2> QED  BY <2>1, <2>2 DEF AppNode
<1>2. \A a \in Closure(E, T) : a \in Apps /\ E[a].exists /\ ~OnCycle(E, a)
  BY ClosureFacts DEF Installable
<1> HIDE DEF E
<1>3. ASSUME NEW U \in SUBSET Apps, \A a \in Closure(E, U) : E[a].exists
      PROVE  Closure(nodes, U) \subseteq Closure(E, U)
  <2> DEFINE C == Closure(E, U)
  <2>1. U \subseteq C /\ C \in SUBSET Apps /\ \A a \in C : E[a].deps \subseteq C
    BY <1>1, <1>3, ClosureFacts
  <2> HIDE DEF C
  <2>2. Closed(nodes, C)
    BY <1>1, <2>1 DEF Closed
  <2>3. Closure(nodes, U) \subseteq C
    BY <2>1, <2>2, ClosureFacts
  <2> QED  BY <2>3 DEF C
<1>4. Closure(nodes, T) \subseteq Closure(E, T)
  BY <1>2, <1>3
<1>5. ASSUME NEW a \in Closure(nodes, T) PROVE nodes[a].exists /\ nodes[a].enabled /\ ~OnCycle(nodes, a)
  <2>1. a \in Apps /\ a \in Closure(E, T) /\ E[a].exists /\ ~OnCycle(E, a)
    BY <1>2, <1>4
  <2>2. nodes[a].exists /\ nodes[a].enabled /\ E[a].deps = nodes[a].deps /\ nodes[a].deps \in SUBSET Apps
    BY <1>1, <2>1
  <2> DEFINE D == nodes[a].deps
  <2>3. Closure(E, D) \subseteq Closure(E, T)
    <3>1. D \subseteq Closure(E, T) /\ Closure(E, T) \in SUBSET Apps
      BY <2>1, <2>2, ClosureFacts
    <3>2. Closed(E, Closure(E, T))
      BY <1>1, ClosureFacts DEF Closed
    <3> HIDE DEF D
    <3> QED  BY <2>2, <3>1, <3>2, ClosureFacts DEF D
  <2>4. Closure(nodes, D) \subseteq Closure(E, D)
    BY <1>2, <1>3, <2>2, <2>3
  <2>5. a \notin Closure(E, D)
    BY <2>1, <2>2 DEF OnCycle
  <2> QED  BY <2>2, <2>4, <2>5 DEF OnCycle
<1> QED  BY <1>5 DEF Installable

-----------------------------------------------------------------------------
(* The inductive invariant *)

JobType == [status : {"submitted", "rejected", "running", "failed", "completed"},
            stage : 1 .. 13, why : {"", "refused", "fault"}]

GuestType == [address : BOOLEAN, reported : BOOLEAN, digest : Digests, certs : SUBSET Certs, again : SUBSET Certs,
              installed : SUBSET Apps, silent : SUBSET Apps, installs : [Apps -> Nat],
              late : SUBSET Apps, overran : SUBSET Apps]

RecordType == [order : Seq(Apps), outcomes : SUBSET Nat, verified : SUBSET Certs]

LoopType == [on : BOOLEAN, pos : Nat \ {0}, rows : Catalog, failed : SUBSET {"missing", "fault"}, starting : BOOLEAN]

BudgetType == [faults : Nat, changes : Nat]

Types ==
    /\ request \in Request
    /\ world \in World
    /\ job \in JobType
    /\ placed \in Stores \cup {NoStore}
    /\ guest \in GuestType
    /\ record \in RecordType
    /\ loop \in LoopType
    /\ budget \in BudgetType
    /\ changed \in BOOLEAN

Accepted == job.status \in {"running", "failed", "completed"}

\* The preflight reported the request as ready, and would still do so.
AcceptedInv ==
    Accepted => /\ request.static => validate_static_ipv4(request.ipv4)
                /\ ~changed => PreflightFailures(request, world) = {}

\* Only a stage that stops has a reason.
ReasonInv == job.status \in {"submitted", "running"} => job.why = ""

\* The installation loop: what it has gone through, from the rows it read.
LoopInv ==
    /\ loop.on => job.status = "running" /\ job.stage = 11
    /\ loop.starting => loop.on /\ loop.pos \in DOMAIN record.order
    /\ loop.on /\ loop.failed = {} =>
         \A i \in DOMAIN record.order : i < loop.pos => record.order[i] \in guest.installed \cup guest.silent
    /\ loop.on /\ ~changed => loop.rows = world.apps /\ "missing" \notin loop.failed

\* An application is installed twice only by an installer that was left behind,
\* or because it was not detected.
InstallInv ==
    /\ guest.late \subseteq guest.overran
    /\ \A a \in Apps : /\ guest.installs[a] > 0 => a \in guest.installed \cup guest.silent
                       /\ guest.installs[a] > 1 => a \in guest.overran \cup guest.silent
    /\ loop.starting =>
         LET a == record.order[loop.pos] IN guest.installs[a] = 0 \/ a \in guest.overran \cup guest.silent

\* What the stages that are done have left in the records and in the guest.
OrderInv ==
    /\ job.stage <= 11 => record.outcomes = {}
    /\ job.stage > 10 =>
         /\ Elements(request.apps) \subseteq Elements(record.order)
         /\ ~changed => Elements(record.order) = Closure(world.apps, Elements(request.apps))
    /\ job.stage > 11 =>
         /\ Elements(record.order) \subseteq guest.installed \cup guest.silent
         /\ ~changed => /\ \A n \in record.outcomes :
                             \E a \in Elements(record.order) : world.apps[a].exists /\ world.apps[a].name = n
                        /\ \A a \in Elements(record.order) : world.apps[a].name \in record.outcomes
    /\ job.stage > 12 /\ ~changed =>
         \A n \in record.outcomes : \E a \in guest.installed : world.apps[a].exists /\ world.apps[a].name = n

CertInv ==
    /\ record.verified \subseteq guest.certs
    /\ job.stage > 9 /\ ~changed => Selected \subseteq guest.certs

DoneInv == job.status = "completed" => job.stage = 13 /\ guest.reported

DeliveryInv ==
    /\ Types /\ AcceptedInv /\ ReasonInv /\ PlacementIsSound
    /\ LoopInv /\ InstallInv /\ OrderInv /\ CertInv /\ DoneInv

\* What was deployed is in the guest, whether or not a probe can tell.
DeployedInv ==
    /\ job.stage > 7 /\ ~changed => Wanted("ROOT") \subseteq guest.certs
    /\ job.stage > 8 /\ ~changed => Wanted("INTERMEDIATE") \subseteq guest.certs

\* Until a change, the world is that of the scenario.
ScenarioInv == \E s \in Scenarios : request = s.request /\ (~changed => world = s.world)

-----------------------------------------------------------------------------
(* Records *)

\* The numbers of the stages.
LEMMA StageNumbers ==
    /\ DOMAIN Pipeline = 1 .. 13 /\ Len(Pipeline) = 13
    /\ \A i \in 1 .. 13 :
         /\ Pipeline[i] = "validate_request" => i = 1
         /\ Pipeline[i] = "connect_vcenter" => i = 2
         /\ Pipeline[i] = "validate_infrastructure" => i = 3
         /\ Pipeline[i] = "create_vm" => i = 4
         /\ Pipeline[i] = "configure_guest_network" => i = 5
         /\ Pipeline[i] = "validate_network" => i = 6
         /\ Pipeline[i] = "install_root_certificates" => i = 7
         /\ Pipeline[i] = "install_intermediate_certificates" => i = 8
         /\ Pipeline[i] = "validate_certificates" => i = 9
         /\ Pipeline[i] = "resolve_dependencies" => i = 10
         /\ Pipeline[i] = "install_applications" => i = 11
         /\ Pipeline[i] = "validate_applications" => i = 12
         /\ Pipeline[i] = "final_validation" => i = 13
BY DEF Pipeline

\* The stage is done, or the job failed in it.
Passed ==
    /\ job' \in JobType /\ job'.why = job.why
    /\ IF job.stage = 13 THEN job'.status = "completed" /\ job'.stage = 13
       ELSE job'.status = job.status /\ job'.stage = job.stage + 1

Stopped == job' \in JobType /\ job'.status = "failed" /\ job'.stage = job.stage

\* The four ways in which a stage ends.
LEMMA Moves ==
    ASSUME job \in JobType, budget \in BudgetType
    PROVE  /\ Advance => Passed /\ budget' \in BudgetType
           /\ Refuse => Stopped /\ budget' \in BudgetType /\ job'.why = "refused"
           /\ Break => Stopped /\ budget' \in BudgetType /\ job'.why = "fault"
           /\ Spend => budget' \in BudgetType
<1>1. ASSUME Advance PROVE Passed /\ budget' \in BudgetType
  <2>1. job.stage \in 1 .. 13
    BY DEF JobType
  <2>2. CASE job.stage = 13
    <3>1. job' = [job EXCEPT !.status = "completed"]
      BY <1>1, <2>2, StageNumbers DEF Advance
    <3>2. job' \in JobType /\ job'.why = job.why /\ job'.status = "completed" /\ job'.stage = job.stage
      BY <3>1 DEF JobType
    <3> QED  BY <1>1, <2>2, <3>2 DEF Passed, Advance
  <2>3. CASE job.stage # 13
    <3>1. job' = [job EXCEPT !.stage = job.stage + 1] /\ job.stage + 1 \in 1 .. 13
      BY <1>1, <2>1, <2>3, StageNumbers DEF Advance
    <3>2. job' \in JobType /\ job'.why = job.why /\ job'.status = job.status /\ job'.stage = job.stage + 1
      BY <3>1 DEF JobType
    <3> QED  BY <1>1, <2>3, <3>2 DEF Passed, Advance
  <2> QED  BY <2>2, <2>3
<1>2. ASSUME Refuse PROVE Stopped /\ budget' \in BudgetType /\ job'.why = "refused"
  BY <1>2 DEF Refuse, Stopped, JobType
<1>3. ASSUME Spend PROVE budget' \in BudgetType
  <2>1. budget.faults \in Nat /\ budget.faults > 0
    BY <1>3 DEF Spend, BudgetType
  <2>2. budget.faults - 1 \in Nat
    BY <2>1
  <2> QED  BY <1>3, <2>2 DEF Spend, BudgetType
<1>4. ASSUME Break PROVE Stopped /\ budget' \in BudgetType /\ job'.why = "fault"
  <2>1. budget' \in BudgetType
    BY <1>3, <1>4 DEF Break
  <2> QED  BY <1>4, <2>1 DEF Break, Stopped, JobType
<1> QED  BY <1>1, <1>2, <1>3, <1>4

\* A running stage has the number of its key.
LEMMA StageOf ==
    ASSUME Types, NEW key, At(key)
    PROVE  job.status = "running" /\ Pipeline[job.stage] = key /\ job.stage \in 1 .. 13
BY DEF At, Key, Types, JobType

-----------------------------------------------------------------------------
(* What the steps do *)

\* The stages that only judge.
Judges ==
    \/ ValidateRequest \/ ConnectVcenter \/ ValidateInfrastructure \/ ValidateNetwork
    \/ ValidateApplications \/ FinalValidation

\* A stage that judges moves the job and nothing else.
LEMMA JudgesEffect ==
    ASSUME Types, Judges
    PROVE  /\ UNCHANGED <<request, world, placed, guest, record, loop, changed>>
           /\ job.status = "running" /\ job.stage \in {1, 2, 3, 6, 12, 13} /\ budget' \in BudgetType
           /\ \/ /\ Passed /\ (job.stage = 13 => guest.reported)
                 /\ job.stage = 12 => \A n \in record.outcomes :
                      \E a \in guest.installed : world.apps[a].exists /\ world.apps[a].name = n
              \/ Stopped
<1>0. job \in JobType /\ budget \in BudgetType
  BY DEF Types
<1> USE <1>0 DEF Verdict
<1>1. CASE ValidateRequest
  <2>1. job.status = "running" /\ job.stage = 1
    BY <1>1, StageOf, StageNumbers DEF ValidateRequest
  <2> QED  BY <1>1, <2>1, Moves DEF ValidateRequest
<1>2. CASE ConnectVcenter
  <2>1. job.status = "running" /\ job.stage = 2
    BY <1>2, StageOf, StageNumbers DEF ConnectVcenter
  <2> QED  BY <1>2, <2>1, Moves DEF ConnectVcenter
<1>3. CASE ValidateInfrastructure
  <2>1. job.status = "running" /\ job.stage = 3
    BY <1>3, StageOf, StageNumbers DEF ValidateInfrastructure
  <2> QED  BY <1>3, <2>1, Moves DEF ValidateInfrastructure
<1>4. CASE ValidateNetwork
  <2>1. job.status = "running" /\ job.stage = 6
    BY <1>4, StageOf, StageNumbers DEF ValidateNetwork
  <2> QED  BY <1>4, <2>1, Moves DEF ValidateNetwork
<1>5. CASE ValidateApplications
  <2>1. job.status = "running" /\ job.stage = 12
    BY <1>5, StageOf, StageNumbers DEF ValidateApplications
  <2>2. CASE Advance /\ \A n \in record.outcomes : RowsNamed(n) \cap guest.installed # {}
    <3>1. \A n \in record.outcomes : \E a \in guest.installed : world.apps[a].exists /\ world.apps[a].name = n
      BY <2>2 DEF RowsNamed
    <3> QED  BY <1>5, <2>1, <2>2, <3>1, Moves DEF ValidateApplications
  <2>3. CASE Refuse
    BY <1>5, <2>1, <2>3, Moves DEF ValidateApplications
  <2> QED  BY <1>5, <2>2, <2>3 DEF ValidateApplications
<1>6. CASE FinalValidation
  <2>1. job.status = "running" /\ job.stage = 13
    BY <1>6, StageOf, StageNumbers DEF FinalValidation
  <2> QED  BY <1>6, <2>1, Moves DEF FinalValidation
<1> QED  BY <1>1, <1>2, <1>3, <1>4, <1>5, <1>6 DEF Judges

\* create_vm places the VM on a datastore of the placement, or adopts it.
LEMMA CreateVmEffect ==
    ASSUME Types, CreateVm
    PROVE  /\ UNCHANGED <<request, world, guest, record, loop, changed>>
           /\ job.status = "running" /\ job.stage = 4 /\ budget' \in BudgetType
           /\ Passed \/ Stopped
           /\ placed' = placed \/ (placed' \in PlacementDatastores(request, world) /\ placed' \in Stores)
<1>0. job \in JobType /\ budget \in BudgetType
  BY DEF Types
<1>1. job.status = "running" /\ job.stage = 4
  BY StageOf, StageNumbers DEF CreateVm
<1>2. PlacementDatastores(request, world) \subseteq Stores
  <2>1. CASE request.store # Automatic
    BY <2>1, RequestFields DEF PlacementDatastores, Types
  <2>2. CASE request.store = Automatic
    BY <2>2, AutomaticHasRoom DEF PlacementDatastores, Types
  <2> QED  BY <2>1, <2>2
<1>3. /\ UNCHANGED <<request, world, guest, record, loop, changed>>
      /\ Advance \/ Break \/ Refuse
      /\ placed' = placed \/ placed' \in PlacementDatastores(request, world)
  BY DEF CreateVm
<1> QED  BY <1>0, <1>1, <1>2, <1>3, Moves

\* The fields of the guest that an address does not change.
SameSoftware ==
    /\ guest' \in GuestType
    /\ guest'.certs = guest.certs
    /\ guest'.installed = guest.installed /\ guest'.silent = guest.silent /\ guest'.installs = guest.installs
    /\ guest'.late = guest.late /\ guest'.overran = guest.overran

\* The address and the report leave the software of the guest alone.
LEMMA AddressEffect ==
    ASSUME guest \in GuestType
    PROVE  /\ guest' = guest => SameSoftware
           /\ guest' = [guest EXCEPT !.address = TRUE] => SameSoftware /\ guest'.reported = guest.reported
           /\ guest' = [guest EXCEPT !.reported = TRUE] => SameSoftware /\ guest'.reported
BY DEF SameSoftware, GuestType

\* stage_configure_guest_network changes the address only.
LEMMA ConfigureGuestNetworkEffect ==
    ASSUME Types, ConfigureGuestNetwork
    PROVE  /\ UNCHANGED <<request, world, placed, record, loop, changed>>
           /\ job.status = "running" /\ job.stage = 5 /\ budget' \in BudgetType
           /\ Passed \/ Stopped
           /\ SameSoftware /\ guest'.reported = guest.reported
<1>0. job \in JobType /\ budget \in BudgetType /\ guest \in GuestType
  BY DEF Types
<1>1. job.status = "running" /\ job.stage = 5
  BY StageOf, StageNumbers DEF ConfigureGuestNetwork
<1>2. /\ UNCHANGED <<request, world, placed, record, loop, changed>>
      /\ Advance \/ Break \/ Refuse
      /\ guest' = guest \/ guest' = [guest EXCEPT !.address = TRUE]
  BY DEF ConfigureGuestNetwork
<1> QED  BY <1>0, <1>1, <1>2, Moves, AddressEffect

\* The report of VMware Tools.
LEMMA ToolsReportEffect ==
    ASSUME Types, ToolsReport
    PROVE  /\ UNCHANGED <<request, world, job, placed, record, loop, budget, changed>>
           /\ SameSoftware /\ guest'.reported
BY AddressEffect DEF ToolsReport, Types

\* Certificates are added where the probe did not find them.
LEMMA DeployEffect ==
    ASSUME Types, NEW type \in CertificateTypes, DeployCertificates(type)
    PROVE  /\ budget' \in BudgetType /\ (Stopped \/ (Passed /\ Wanted(type) \subseteq guest'.certs))
           /\ guest' \in GuestType /\ guest.certs \subseteq guest'.certs
           /\ guest'.installed = guest.installed /\ guest'.silent = guest.silent /\ guest'.installs = guest.installs
           /\ guest'.late = guest.late /\ guest'.overran = guest.overran /\ guest'.reported = guest.reported
<1>0. job \in JobType /\ budget \in BudgetType /\ guest \in GuestType
  BY DEF Types
<1>1. PICK lost \in SUBSET Missing(type) : \E landed \in SUBSET lost :
         LET imported == (Missing(type) \ lost) \cup landed
         IN /\ guest' = [guest EXCEPT
                 !.certs = @ \cup imported,
                 !.again = @ \cup (imported \cap guest.certs)]
            /\ \/ lost # {} /\ Break
               \/ lost = {} /\ Verdict(Wanted(type) = Unexpired(type))
  BY DEF DeployCertificates
<1>2. PICK imported \in SUBSET Missing(type) :
         /\ lost = {} => imported = Missing(type)
         /\ guest' = [guest EXCEPT !.certs = guest.certs \cup imported,
                                  !.again = guest.again \cup (imported \cap guest.certs)]
         /\ \/ lost # {} /\ Break
            \/ lost = {} /\ Verdict(Wanted(type) = Unexpired(type))
  BY <1>1
<1>3. Missing(type) \subseteq Certs
  BY DEF Missing, Unexpired, Wanted
<1> DEFINE A == guest.again \cup (imported \cap guest.certs)
           C == guest.certs \cup imported
<1>4. A \in SUBSET Certs /\ C \in SUBSET Certs
  <2>1. guest.again \in SUBSET Certs /\ guest.certs \in SUBSET Certs
    BY <1>0 DEF GuestType
  <2> QED  BY <1>3, <2>1
<1>5. guest' = [guest EXCEPT !.certs = C, !.again = A]
  BY <1>2
<1>6. guest.certs \subseteq C /\ imported \subseteq C
  OBVIOUS
<1> HIDE DEF A, C
<1>7. /\ guest' \in GuestType /\ guest'.certs = C
      /\ guest'.installed = guest.installed /\ guest'.silent = guest.silent /\ guest'.installs = guest.installs
      /\ guest'.late = guest.late /\ guest'.overran = guest.overran /\ guest'.reported = guest.reported
  BY <1>0, <1>4, <1>5 DEF GuestType
<1>8. budget' \in BudgetType /\ (Stopped \/ (Passed /\ lost = {} /\ Wanted(type) = Unexpired(type)))
  BY <1>0, <1>2, Moves DEF Verdict
<1>9. lost = {} => Unexpired(type) \subseteq guest'.certs
  BY <1>2, <1>6, <1>7 DEF Missing, Present
<1> QED  BY <1>6, <1>7, <1>8, <1>9

\* Certificates are recorded as verified when all of them are in the guest.
LEMMA ValidateCertificatesEffect ==
    ASSUME Types, ValidateCertificates
    PROVE  /\ UNCHANGED <<request, world, placed, guest, loop, changed>>
           /\ job.status = "running" /\ job.stage = 9 /\ budget' \in BudgetType
           /\ record' \in RecordType /\ record'.order = record.order /\ record'.outcomes = record.outcomes
           /\ \/ Passed /\ record'.verified = Selected /\ Selected \subseteq guest.certs
              \/ Stopped /\ record' = record
<1>0. job \in JobType /\ budget \in BudgetType /\ record \in RecordType /\ Selected \subseteq Certs
  BY DEF Types, Selected, Wanted
<1>1. job.status = "running" /\ job.stage = 9
  BY StageOf, StageNumbers DEF ValidateCertificates
<1>2. /\ UNCHANGED <<request, world, placed, guest, loop, changed>>
      /\ \/ /\ \A c \in Selected : Present(c)
            /\ Advance /\ record' = [record EXCEPT !.verified = Selected]
         \/ Refuse /\ record' = record
  BY DEF ValidateCertificates
<1>3. record' = [record EXCEPT !.verified = Selected] =>
        /\ record' \in RecordType /\ record'.order = record.order /\ record'.outcomes = record.outcomes
        /\ record'.verified = Selected
  BY <1>0 DEF RecordType
<1>4. (\A c \in Selected : Present(c)) => Selected \subseteq guest.certs
  BY DEF Present
<1> QED  BY <1>0, <1>1, <1>2, <1>3, <1>4, Moves

\* The order that is recorded holds what the selection needs.
LEMMA ResolveDependenciesEffect ==
    ASSUME Types, ResolveDependencies
    PROVE  /\ UNCHANGED <<request, world, placed, guest, loop, changed>>
           /\ job.status = "running" /\ job.stage = 10 /\ budget' \in BudgetType
           /\ record' \in RecordType /\ record'.outcomes = record.outcomes /\ record'.verified = record.verified
           /\ \/ Passed /\ Elements(record'.order) = Closure(world.apps, Elements(request.apps))
              \/ Stopped /\ record' = record /\ ~Installable(world.apps, Elements(request.apps))
<1>0. job \in JobType /\ budget \in BudgetType /\ record \in RecordType
  BY DEF Types
<1>1. job.status = "running" /\ job.stage = 10
  BY StageOf, StageNumbers DEF ResolveDependencies
<1> DEFINE needed == Closure(world.apps, Elements(request.apps))
<1>2. needed \subseteq Apps /\ Cardinality(needed) \in Nat
  <2>1. needed \subseteq Apps
    BY DEF Closure
  <2>2. IsFiniteSet(needed)
    BY <2>1, AppsAssumption, FS_Subset
  <2> QED  BY <2>1, <2>2, FS_CardinalityType
<1>3. /\ UNCHANGED <<request, world, placed, guest, loop, changed>>
      /\ \/ \E s \in [1 .. Cardinality(needed) -> needed] :
              /\ Elements(s) = needed /\ record' = [record EXCEPT !.order = s] /\ Advance
         \/ Refuse /\ record' = record /\ ~Installable(world.apps, Elements(request.apps))
  BY DEF ResolveDependencies, IsInstallOrder
<1> HIDE DEF needed
<1>4. CASE \E s \in [1 .. Cardinality(needed) -> needed] :
              /\ Elements(s) = needed /\ record' = [record EXCEPT !.order = s] /\ Advance
  <2>1. PICK s \in [1 .. Cardinality(needed) -> needed] :
              /\ Elements(s) = needed /\ record' = [record EXCEPT !.order = s] /\ Advance
    BY <1>4
  <2>2. s \in Seq(Apps)
    <3>1. s \in [1 .. Cardinality(needed) -> Apps]
      BY <1>2
    <3> QED  BY <1>2, <3>1, Cardinality(needed) \in Nat
  <2>3. record' \in RecordType /\ record'.order = s /\ record'.outcomes = record.outcomes /\ record'.verified = record.verified
    BY <1>0, <2>1, <2>2 DEF RecordType
  <2> QED  BY <1>0, <1>1, <1>3, <2>1, <2>3, Moves DEF needed
<1>5. CASE Refuse /\ record' = record /\ ~Installable(world.apps, Elements(request.apps))
  BY <1>0, <1>1, <1>3, <1>5, Moves
<1> QED  BY <1>3, <1>4, <1>5

\* The loop begins with the catalog of the moment.
LEMMA StartInstallsEffect ==
    ASSUME Types, StartInstalls
    PROVE  /\ UNCHANGED <<request, world, placed, guest, record, changed>>
           /\ job.status = "running" /\ job.stage = 11 /\ budget' \in BudgetType
           /\ loop' \in LoopType
           /\ \/ Passed /\ loop' = loop /\ ~loop.on /\ Elements(record.order) = {}
              \/ /\ job' = job /\ loop'.on /\ loop'.pos = 1 /\ loop'.rows = world.apps
                 /\ loop'.failed = {} /\ ~loop'.starting
<1>0. job \in JobType /\ budget \in BudgetType /\ loop \in LoopType /\ world.apps \in Catalog
  BY DEF Types, World
<1>1. job.status = "running" /\ job.stage = 11
  BY StageOf, StageNumbers DEF StartInstalls
<1>2. /\ UNCHANGED <<request, world, placed, guest, record, changed>>
      /\ \/ record.order = <<>> /\ Advance /\ loop' = loop /\ ~loop.on
         \/ loop' = [NoLoop EXCEPT !.on = TRUE, !.rows = world.apps] /\ UNCHANGED <<job, budget>>
  BY DEF StartInstalls
<1>3. record.order = <<>> => Elements(record.order) = {}
  BY DEF Elements
<1>4. CASE loop' = [NoLoop EXCEPT !.on = TRUE, !.rows = world.apps] /\ UNCHANGED <<job, budget>>
  <2>1. loop' = [on |-> TRUE, pos |-> 1, rows |-> world.apps, failed |-> {}, starting |-> FALSE]
    BY <1>4 DEF NoLoop
  <2>2. loop' \in LoopType
    BY <1>0, <2>1 DEF LoopType
  <2>3. loop'.on /\ loop'.pos = 1 /\ loop'.rows = world.apps /\ loop'.failed = {} /\ ~loop'.starting
    BY <2>1
  <2> QED  BY <1>0, <1>1, <1>2, <1>4, <2>2, <2>3
<1> QED  BY <1>0, <1>1, <1>2, <1>3, <1>4, Moves

\* No loop is under way.
LEMMA NoLoopType == NoLoop \in LoopType /\ ~NoLoop.on /\ ~NoLoop.starting
<1>1. Cardinality(Apps) \in Nat
  BY AppsAssumption, FS_CardinalityType
<1>2. NoRow \in AppNode
  BY <1>1 DEF NoRow, AppNode
<1>3. [a \in Apps |-> NoRow] \in Catalog
  BY <1>2 DEF Catalog
<1> QED  BY <1>3 DEF NoLoop, LoopType

\* The next entry of the loop.
LEMMA NextEntryEffect ==
    ASSUME loop \in LoopType, NEW failure \in SUBSET {"missing", "fault"}
    PROVE  /\ NextEntry(failure) \in LoopType
           /\ NextEntry(failure).on = loop.on /\ NextEntry(failure).pos = loop.pos + 1
           /\ NextEntry(failure).rows = loop.rows /\ NextEntry(failure).failed = loop.failed \cup failure
           /\ ~NextEntry(failure).starting
<1>1. loop.pos \in Nat \ {0} /\ loop.failed \in SUBSET {"missing", "fault"}
  BY DEF LoopType
<1> DEFINE p == loop.pos + 1
           f == loop.failed \cup failure
<1>2. p \in Nat \ {0} /\ f \in SUBSET {"missing", "fault"}
  <2>1. p \in Nat \ {0}
    BY <1>1
  <2>2. f \in SUBSET {"missing", "fault"}
    BY <1>1, Zenon
  <2> QED  BY <2>1, <2>2
<1>3. NextEntry(failure) = [loop EXCEPT !.pos = p, !.failed = f, !.starting = FALSE]
  BY DEF NextEntry
<1> HIDE DEF p, f
<1>4. /\ NextEntry(failure) \in LoopType
      /\ NextEntry(failure).on = loop.on /\ NextEntry(failure).pos = p
      /\ NextEntry(failure).rows = loop.rows /\ NextEntry(failure).failed = f
      /\ ~NextEntry(failure).starting
  BY <1>2, <1>3 DEF LoopType
<1> QED  BY <1>4 DEF p, f

\* A probe finds no row, an installed application, work to do, or fails.
LEMMA ProbeApplicationEffect ==
    ASSUME Types, ProbeApplication
    PROVE  /\ UNCHANGED <<request, world, job, placed, guest, record, changed>>
           /\ job.status = "running" /\ job.stage = 11 /\ budget' \in BudgetType
           /\ loop' \in LoopType /\ loop.on /\ loop'.on /\ loop'.rows = loop.rows
           /\ loop.pos \in DOMAIN record.order
           /\ \/ /\ ~loop.rows[Current].exists /\ loop'.pos = loop.pos + 1
                 /\ loop'.failed = loop.failed \cup {"missing"} /\ ~loop'.starting
              \/ Current \in guest.installed /\ loop'.pos = loop.pos + 1 /\ loop'.failed = loop.failed /\ ~loop'.starting
              \/ Current \notin guest.installed /\ loop'.pos = loop.pos /\ loop'.failed = loop.failed /\ loop'.starting
              \/ loop'.pos = loop.pos + 1 /\ loop'.failed = loop.failed \cup {"fault"} /\ ~loop'.starting
<1>0. job \in JobType /\ budget \in BudgetType /\ loop \in LoopType
  BY DEF Types
<1>1. job.status = "running" /\ job.stage = 11
  BY StageOf, StageNumbers DEF ProbeApplication
<1>2. /\ UNCHANGED <<request, world, job, placed, guest, record, changed>>
      /\ loop.on /\ loop.pos \in DOMAIN record.order
      /\ budget' = budget \/ Spend
      /\ \/ ~loop.rows[Current].exists /\ loop' = NextEntry({"missing"})
         \/ Current \in guest.installed /\ loop' = NextEntry({})
         \/ Current \notin guest.installed /\ loop' = [loop EXCEPT !.starting = TRUE]
         \/ loop' = NextEntry({"fault"})
  BY DEF ProbeApplication, Detected
<1>3. budget' \in BudgetType
  BY <1>0, <1>2, Moves
<1>4. CASE ~loop.rows[Current].exists /\ loop' = NextEntry({"missing"})
  BY <1>0, <1>1, <1>2, <1>3, <1>4, NextEntryEffect
<1>5. CASE Current \in guest.installed /\ loop' = NextEntry({})
  <2>1. loop.failed \cup {} = loop.failed
    OBVIOUS
  <2> QED  BY <1>0, <1>1, <1>2, <1>3, <1>5, <2>1, NextEntryEffect
<1>6. CASE Current \notin guest.installed /\ loop' = [loop EXCEPT !.starting = TRUE]
  <2>1. /\ loop' \in LoopType /\ loop'.on = loop.on /\ loop'.pos = loop.pos /\ loop'.rows = loop.rows
        /\ loop'.failed = loop.failed /\ loop'.starting
    BY <1>0, <1>6 DEF LoopType
  <2> QED  BY <1>1, <1>2, <1>3, <1>6, <2>1
<1>7. CASE loop' = NextEntry({"fault"})
  BY <1>0, <1>1, <1>2, <1>3, <1>7, NextEntryEffect
<1> QED  BY <1>2, <1>4, <1>5, <1>6, <1>7

\* An application in the guest.
LEMMA InstalledEffect ==
    ASSUME guest \in GuestType, NEW a \in Apps
    PROVE  /\ Installed(a) \in GuestType
           /\ Installed(a).reported = guest.reported /\ Installed(a).certs = guest.certs
           /\ Installed(a).silent = guest.silent /\ Installed(a).late = guest.late
           /\ Installed(a).overran = guest.overran /\ Installed(a).installed = guest.installed \cup {a}
           /\ \A b \in Apps : Installed(a).installs[b] = IF b = a THEN guest.installs[b] + 1 ELSE guest.installs[b]
<1>1. guest.installs \in [Apps -> Nat] /\ guest.installed \in SUBSET Apps
  BY DEF GuestType
<1> DEFINE I == [guest.installs EXCEPT ![a] = guest.installs[a] + 1]
           S == guest.installed \cup {a}
<1>2. I \in [Apps -> Nat] /\ S \in SUBSET Apps
  BY <1>1
<1>3. \A b \in Apps : I[b] = IF b = a THEN guest.installs[b] + 1 ELSE guest.installs[b]
  BY <1>1
<1>4. Installed(a) = [guest EXCEPT !.installed = S, !.installs = I]
  BY DEF Installed, GuestType
<1> HIDE DEF I, S
<1>5. /\ Installed(a) \in GuestType
      /\ Installed(a).reported = guest.reported /\ Installed(a).certs = guest.certs
      /\ Installed(a).silent = guest.silent /\ Installed(a).late = guest.late
      /\ Installed(a).overran = guest.overran /\ Installed(a).installed = S /\ Installed(a).installs = I
  BY <1>2, <1>4 DEF GuestType
<1> QED  BY <1>3, <1>5 DEF S

\* An application that its detection rule does not find.
LEMMA UndetectedEffect ==
    ASSUME guest \in GuestType, NEW a \in Apps
    PROVE  /\ Undetected(a) \in GuestType
           /\ Undetected(a).reported = guest.reported /\ Undetected(a).certs = guest.certs
           /\ Undetected(a).installed = guest.installed /\ Undetected(a).late = guest.late
           /\ Undetected(a).overran = guest.overran /\ Undetected(a).silent = guest.silent \cup {a}
           /\ \A b \in Apps : Undetected(a).installs[b] = IF b = a THEN guest.installs[b] + 1 ELSE guest.installs[b]
<1>1. guest.installs \in [Apps -> Nat] /\ guest.silent \in SUBSET Apps
  BY DEF GuestType
<1> DEFINE I == [guest.installs EXCEPT ![a] = guest.installs[a] + 1]
           S == guest.silent \cup {a}
<1>2. I \in [Apps -> Nat] /\ S \in SUBSET Apps
  BY <1>1
<1>3. \A b \in Apps : I[b] = IF b = a THEN guest.installs[b] + 1 ELSE guest.installs[b]
  BY <1>1
<1>4. Undetected(a) = [guest EXCEPT !.silent = S, !.installs = I]
  BY DEF Undetected, GuestType
<1> HIDE DEF I, S
<1>5. /\ Undetected(a) \in GuestType
      /\ Undetected(a).reported = guest.reported /\ Undetected(a).certs = guest.certs
      /\ Undetected(a).installed = guest.installed /\ Undetected(a).late = guest.late
      /\ Undetected(a).overran = guest.overran /\ Undetected(a).silent = S /\ Undetected(a).installs = I
  BY <1>2, <1>4 DEF GuestType
<1> QED  BY <1>3, <1>5 DEF S

\* Installers that are left behind.
LEMMA LeftBehind ==
    ASSUME guest \in GuestType, NEW L \in SUBSET Apps,
           guest' = [guest EXCEPT !.late = @ \cup L, !.overran = @ \cup L]
    PROVE  /\ guest' \in GuestType
           /\ guest'.reported = guest.reported /\ guest'.certs = guest.certs
           /\ guest'.installed = guest.installed /\ guest'.silent = guest.silent /\ guest'.installs = guest.installs
           /\ guest'.late = guest.late \cup L /\ guest'.overran = guest.overran \cup L
<1>1. guest.late \cup L \in SUBSET Apps /\ guest.overran \cup L \in SUBSET Apps
  BY DEF GuestType
<1>2. guest' = [guest EXCEPT !.late = guest.late \cup L, !.overran = guest.overran \cup L]
  OBVIOUS
<1> QED  BY <1>1, <1>2 DEF GuestType

\* The recorded order holds applications.
LEMMA OrderEntries ==
    ASSUME Types
    PROVE  /\ \A i \in DOMAIN record.order : record.order[i] \in Apps
           /\ Elements(record.order) \subseteq Apps
           /\ DOMAIN record.order = 1 .. Len(record.order) /\ Len(record.order) \in Nat
<1>1. record.order \in Seq(Apps)
  BY DEF Types, RecordType
<1> QED  BY <1>1 DEF Elements

\* An installer ends, fails with or without its effect, or is left behind.
LEMMA RunInstallerEffect ==
    ASSUME Types, LoopInv, RunInstaller
    PROVE  /\ UNCHANGED <<request, world, job, placed, record, changed>>
           /\ job.status = "running" /\ job.stage = 11 /\ budget' \in BudgetType
           /\ loop' \in LoopType /\ loop.starting /\ loop.on /\ loop'.on /\ loop'.pos = loop.pos + 1
           /\ loop'.rows = loop.rows /\ ~loop'.starting /\ loop.pos \in DOMAIN record.order /\ Current \in Apps
           /\ guest' \in GuestType /\ guest'.reported = guest.reported /\ guest'.certs = guest.certs
           /\ loop'.failed \in {loop.failed, loop.failed \cup {"fault"}}
           /\ \/ /\ \/ guest'.installed = guest.installed \cup {Current} /\ guest'.silent = guest.silent
                    \/ guest'.installed = guest.installed /\ guest'.silent = guest.silent \cup {Current}
                 /\ guest'.late = guest.late /\ guest'.overran = guest.overran
                 /\ \A b \in Apps : guest'.installs[b] = IF b = Current THEN guest.installs[b] + 1 ELSE guest.installs[b]
              \/ guest' = guest /\ "fault" \in loop'.failed
              \/ /\ guest'.installed = guest.installed /\ guest'.silent = guest.silent
                 /\ guest'.installs = guest.installs /\ "fault" \in loop'.failed
                 /\ guest'.late = guest.late \cup {Current} /\ guest'.overran = guest.overran \cup {Current}
<1>0. job \in JobType /\ budget \in BudgetType /\ loop \in LoopType /\ guest \in GuestType
  BY DEF Types
<1>1. job.status = "running" /\ job.stage = 11
  BY StageOf, StageNumbers DEF RunInstaller
<1>2. loop.starting /\ loop.on /\ loop.pos \in DOMAIN record.order /\ Current \in Apps
  BY OrderEntries DEF RunInstaller, LoopInv, Current
<1>3. /\ UNCHANGED <<request, world, job, placed, record, changed>>
      /\ budget' = budget \/ Spend
      /\ \/ guest' = Installed(Current) /\ loop' = NextEntry({})
         \/ guest' = Undetected(Current) /\ loop' = NextEntry({})
         \/ guest' = Installed(Current) /\ loop' = NextEntry({"fault"})
         \/ guest' = guest /\ loop' = NextEntry({"fault"})
         \/ /\ guest' = [guest EXCEPT !.late = @ \cup {Current}, !.overran = @ \cup {Current}]
            /\ loop' = NextEntry({"fault"})
  BY DEF RunInstaller
<1>4. budget' \in BudgetType
  BY <1>0, <1>3, Moves
<1>5. /\ loop' \in LoopType /\ loop'.on /\ loop'.pos = loop.pos + 1 /\ loop'.rows = loop.rows /\ ~loop'.starting
      /\ loop'.failed \in {loop.failed, loop.failed \cup {"fault"}}
  <2>1. loop.failed \cup {} = loop.failed
    OBVIOUS
  <2>2. CASE loop' = NextEntry({})
    <3>1. {} \in SUBSET {"missing", "fault"}
      OBVIOUS
    <3> QED  BY <1>0, <1>2, <2>1, <2>2, <3>1, NextEntryEffect
  <2>3. CASE loop' = NextEntry({"fault"})
    <3>1. {"fault"} \in SUBSET {"missing", "fault"}
      OBVIOUS
    <3> QED  BY <1>0, <1>2, <2>3, <3>1, NextEntryEffect
  <2> QED  BY <1>3, <2>2, <2>3
<1>6. CASE guest' = Installed(Current)
  BY <1>0, <1>1, <1>2, <1>3, <1>4, <1>5, <1>6, InstalledEffect
<1>8. CASE guest' = Undetected(Current)
  BY <1>0, <1>1, <1>2, <1>3, <1>4, <1>5, <1>8, UndetectedEffect
<1>7. CASE guest' # Installed(Current) /\ guest' # Undetected(Current)
  <2>1. "fault" \in loop'.failed
    BY <1>0, <1>3, <1>7, NextEntryEffect
  <2>2. CASE guest' = guest
    BY <1>0, <1>1, <1>2, <1>3, <1>4, <1>5, <2>1, <2>2
  <2>3. CASE guest' = [guest EXCEPT !.late = @ \cup {Current}, !.overran = @ \cup {Current}]
    <3>1. {Current} \in SUBSET Apps
      BY <1>2
    <3> QED  BY <1>0, <1>1, <1>2, <1>3, <1>4, <1>5, <2>1, <2>3, <3>1, LeftBehind
  <2> QED  BY <1>3, <1>7, <2>2, <2>3
<1> QED  BY <1>6, <1>7, <1>8

\* An installer that was left behind ends.
LEMMA LateInstallEffect ==
    ASSUME Types, LateInstall
    PROVE  /\ UNCHANGED <<request, world, job, placed, record, loop, budget, changed>>
           /\ guest' \in GuestType /\ guest'.reported = guest.reported /\ guest'.certs = guest.certs
           /\ guest'.silent = guest.silent /\ guest'.overran = guest.overran
           /\ \E a \in guest.late :
                /\ a \in Apps /\ guest'.installed = guest.installed \cup {a} /\ guest'.late = guest.late \ {a}
                /\ \A b \in Apps : guest'.installs[b] = IF b = a THEN guest.installs[b] + 1 ELSE guest.installs[b]
<1>0. guest \in GuestType
  BY DEF Types
<1>1. PICK a \in guest.late : guest' = [Installed(a) EXCEPT !.late = @ \ {a}]
  BY DEF LateInstall
<1>2. a \in Apps
  BY <1>0 DEF GuestType
<1> DEFINE g == Installed(a)
<1>3. /\ g \in GuestType
      /\ g.reported = guest.reported /\ g.certs = guest.certs
      /\ g.silent = guest.silent /\ g.late = guest.late
      /\ g.overran = guest.overran /\ g.installed = guest.installed \cup {a}
      /\ \A b \in Apps : g.installs[b] = IF b = a THEN guest.installs[b] + 1 ELSE guest.installs[b]
  BY <1>0, <1>2, InstalledEffect
<1>4. guest' = [g EXCEPT !.late = g.late \ {a}]
  BY <1>1
<1> HIDE DEF g
<1>5. /\ guest' \in GuestType /\ guest'.reported = g.reported /\ guest'.certs = g.certs /\ guest'.silent = g.silent
      /\ guest'.late = g.late \ {a} /\ guest'.overran = g.overran /\ guest'.installed = g.installed
      /\ guest'.installs = g.installs
  BY <1>3, <1>4 DEF GuestType
<1>6. UNCHANGED <<request, world, job, placed, record, loop, budget, changed>>
  BY DEF LateInstall
<1> QED  BY <1>2, <1>3, <1>5, <1>6

\* The loop ends: with the outcomes, or with its failures.
LEMMA FinishInstallsEffect ==
    ASSUME Types, FinishInstalls
    PROVE  /\ UNCHANGED <<request, world, placed, guest, changed>>
           /\ job.status = "running" /\ job.stage = 11 /\ budget' \in BudgetType
           /\ loop.on /\ loop.pos \notin DOMAIN record.order /\ loop' = NoLoop
           /\ record' \in RecordType /\ record'.order = record.order /\ record'.verified = record.verified
           /\ \/ loop.failed = {} /\ Passed /\ record'.outcomes = Outcomes
              \/ /\ loop.failed # {} /\ Stopped /\ record' = record
                 /\ job'.why = "refused" => "fault" \notin loop.failed
<1>0. job \in JobType /\ budget \in BudgetType /\ loop \in LoopType /\ record \in RecordType
  BY DEF Types
<1>1. job.status = "running" /\ job.stage = 11
  BY StageOf, StageNumbers DEF FinishInstalls
<1>2. Outcomes \in SUBSET Nat
  <2>1. \A a \in Apps : loop.rows[a].name \in Nat
    BY <1>0 DEF LoopType, Catalog, AppNode
  <2> QED  BY <2>1, OrderEntries DEF Outcomes
<1>3. /\ UNCHANGED <<request, world, placed, guest, changed>>
      /\ loop.on /\ loop.pos \notin DOMAIN record.order /\ loop' = NoLoop
  BY DEF FinishInstalls
<1>4. CASE loop.failed = {}
  <2>1. Advance /\ record' = [record EXCEPT !.outcomes = Outcomes]
    BY <1>4 DEF FinishInstalls, Failures
  <2>2. /\ record' \in RecordType /\ record'.order = record.order /\ record'.verified = record.verified
        /\ record'.outcomes = Outcomes
    BY <1>0, <1>2, <2>1 DEF RecordType
  <2> QED  BY <1>0, <1>1, <1>3, <1>4, <2>1, <2>2, Moves
<1>5. CASE loop.failed # {}
  <2>1. /\ job' = [job EXCEPT !.status = "failed", !.why = IF "fault" \in loop.failed THEN "fault" ELSE "refused"]
        /\ UNCHANGED <<record, budget>>
    BY <1>5 DEF FinishInstalls, Failures
  <2>2. Stopped /\ (job'.why = "refused" => "fault" \notin loop.failed)
    BY <1>0, <2>1 DEF Stopped, JobType
  <2> QED  BY <1>0, <1>1, <1>3, <1>5, <2>1, <2>2
<1> QED  BY <1>4, <1>5

\* A stage that stops may leave an installer behind.
LEMMA StageBreaksEffect ==
    ASSUME Types, LoopInv, StageBreaks
    PROVE  /\ UNCHANGED <<request, world, placed, record, changed>>
           /\ job.status = "running" /\ budget' \in BudgetType /\ Stopped /\ loop' = NoLoop
           /\ job'.why = "refused" => Needs \cap world.broken # {}
           /\ guest' \in GuestType
           /\ guest'.reported = guest.reported /\ guest'.certs = guest.certs
           /\ guest'.installed = guest.installed /\ guest'.silent = guest.silent /\ guest'.installs = guest.installs
           /\ \E L \in SUBSET Apps : guest'.late = guest.late \cup L /\ guest'.overran = guest.overran \cup L
<1>0. job \in JobType /\ budget \in BudgetType /\ guest \in GuestType
  BY DEF Types
<1>1. PICK L \in SUBSET (IF loop.starting THEN {record.order[loop.pos]} ELSE {}) :
         guest' = [guest EXCEPT !.late = @ \cup L, !.overran = @ \cup L]
  BY DEF StageBreaks
<1>2. L \in SUBSET Apps
  BY OrderEntries DEF LoopInv
<1>3. /\ UNCHANGED <<request, world, placed, record, changed>> /\ job.status = "running" /\ loop' = NoLoop
      /\ Break \/ (Refuse /\ Needs \cap world.broken # {})
  BY DEF StageBreaks
<1>4. budget' \in BudgetType /\ Stopped /\ (job'.why = "refused" => Needs \cap world.broken # {})
  BY <1>0, <1>3, Moves
<1>5. /\ guest' \in GuestType
      /\ guest'.reported = guest.reported /\ guest'.certs = guest.certs
      /\ guest'.installed = guest.installed /\ guest'.silent = guest.silent /\ guest'.installs = guest.installs
      /\ guest'.late = guest.late \cup L /\ guest'.overran = guest.overran \cup L
  BY <1>0, <1>1, <1>2, LeftBehind
<1> QED  BY <1>2, <1>3, <1>4, <1>5

\* Whoever edits the world.
Edits == CreateApplication \/ UpdateApplication \/ DeleteApplication \/ EditCertificates \/ Drift

\* Updates that keep the shape of the world.
LEMMA WorldUpdates ==
    ASSUME NEW w \in World
    PROVE  /\ \A x \in Catalog : [w EXCEPT !.apps = x] \in World
           /\ \A x \in [Stores -> StoreState] : [w EXCEPT !.stores = x] \in World
           /\ \A x \in [Hosts -> HostState] : [w EXCEPT !.hosts = x] \in World
           /\ \A x \in [Certs -> CertificateRow] :
                /\ [w EXCEPT !.certs = x] \in World
                /\ \A p \in PackageStates : [w EXCEPT !.package = p, !.certs = x] \in World
           /\ \A p \in PackageStates : [w EXCEPT !.package = p] \in World
           /\ \A x \in Holders : [w EXCEPT !.holder = x] \in World
           /\ \A x \in SUBSET Parts : [w EXCEPT !.broken = x] \in World
BY DEF World

\* A change keeps the rest of the state, and is remembered.
LEMMA ChangeEffect ==
    ASSUME Types, NEW w, Change(w)
    PROVE  /\ UNCHANGED <<request, job, placed, guest, record, loop>> /\ changed' = TRUE
           /\ world' = w /\ budget' \in BudgetType /\ job.status \in {"running", "failed"}
<1>1. budget \in BudgetType
  BY DEF Types
<1>2. budget.changes \in Nat /\ budget.changes > 0
  BY <1>1 DEF Change, BudgetType
<1>3. budget.changes - 1 \in Nat
  BY <1>2
<1>4. budget' \in BudgetType
  BY <1>1, <1>3 DEF Change, BudgetType
<1> QED  BY <1>4 DEF Change

\* Edits of the applications keep the shape of the world.
LEMMA CatalogEdits ==
    ASSUME Types, CreateApplication \/ UpdateApplication \/ DeleteApplication
    PROVE  \E w \in World : Change(w)
<1>0. world \in World /\ world.apps \in Catalog
  BY DEF Types, World
<1>1. Names \subseteq Nat
  BY AppsAssumption, FS_CardinalityType DEF Names
<1>2. \A a \in Apps, x \in AppNode : [world EXCEPT !.apps = [world.apps EXCEPT ![a] = x]] \in World
  <2>1. \A a \in Apps, x \in AppNode : [world.apps EXCEPT ![a] = x] \in Catalog
    BY <1>0 DEF Catalog
  <2> QED  BY <1>0, <2>1, WorldUpdates
<1>3. CASE CreateApplication
  <2>1. PICK a \in Apps, n \in Names, d \in SUBSET Apps :
          Change([world EXCEPT !.apps = [world.apps EXCEPT ![a] = [exists |-> TRUE, name |-> n, enabled |-> TRUE, deps |-> d]]])
    BY <1>3 DEF CreateApplication
  <2>2. [exists |-> TRUE, name |-> n, enabled |-> TRUE, deps |-> d] \in AppNode
    BY <1>1 DEF AppNode
  <2> QED  BY <1>2, <2>1, <2>2
<1>4. CASE UpdateApplication
  <2>1. PICK a \in Apps :
           \/ \E n \in Names : Change([world EXCEPT !.apps[a].name = n])
           \/ Change([world EXCEPT !.apps[a].enabled = ~@])
           \/ \E d \in SUBSET Apps : Change([world EXCEPT !.apps[a].deps = d])
    BY <1>4 DEF UpdateApplication
  <2>2. world.apps[a] \in AppNode
    BY <1>0 DEF Catalog
  <2>3. CASE \E n \in Names : Change([world EXCEPT !.apps[a].name = n])
    <3>1. PICK n \in Names : Change([world EXCEPT !.apps = [world.apps EXCEPT ![a] = [world.apps[a] EXCEPT !.name = n]]])
      BY <2>3
    <3>2. [world.apps[a] EXCEPT !.name = n] \in AppNode
      BY <1>1, <2>2 DEF AppNode
    <3> QED  BY <1>2, <3>1, <3>2
  <2>4. CASE Change([world EXCEPT !.apps[a].enabled = ~@])
    <3>1. Change([world EXCEPT !.apps = [world.apps EXCEPT ![a] = [world.apps[a] EXCEPT !.enabled = ~world.apps[a].enabled]]])
      BY <2>4
    <3>2. [world.apps[a] EXCEPT !.enabled = ~world.apps[a].enabled] \in AppNode
      BY <2>2 DEF AppNode
    <3> QED  BY <1>2, <3>1, <3>2
  <2>5. CASE \E d \in SUBSET Apps : Change([world EXCEPT !.apps[a].deps = d])
    <3>1. PICK d \in SUBSET Apps : Change([world EXCEPT !.apps = [world.apps EXCEPT ![a] = [world.apps[a] EXCEPT !.deps = d]]])
      BY <2>5
    <3>2. [world.apps[a] EXCEPT !.deps = d] \in AppNode
      BY <2>2 DEF AppNode
    <3> QED  BY <1>2, <3>1, <3>2
  <2> QED  BY <2>1, <2>3, <2>4, <2>5
<1>5. CASE DeleteApplication
  <2>1. PICK a \in Apps : Change([world EXCEPT !.apps[a].exists = FALSE, !.apps[a].deps = {}])
    BY <1>5 DEF DeleteApplication
  <2>2. world.apps[a] \in AppNode
    BY <1>0 DEF Catalog
  <2>3. Change([world EXCEPT !.apps = [world.apps EXCEPT ![a] = [world.apps[a] EXCEPT !.exists = FALSE, !.deps = {}]]])
    BY <1>0, <2>1 DEF World, Catalog, AppNode
  <2>4. [world.apps[a] EXCEPT !.exists = FALSE, !.deps = {}] \in AppNode
    BY <2>2 DEF AppNode
  <2> QED  BY <1>2, <2>3, <2>4
<1> QED  BY <1>3, <1>4, <1>5

\* Edits of the certificates keep the shape of the world.
LEMMA CertificateEdits ==
    ASSUME Types, EditCertificates
    PROVE  \E w \in World : Change(w)
<1>0. world \in World /\ world.certs \in [Certs -> CertificateRow]
  BY DEF Types, World
<1>1. \A c \in Certs, x \in CertificateRow : [world EXCEPT !.certs = [world.certs EXCEPT ![c] = x]] \in World
  <2>1. \A c \in Certs, x \in CertificateRow : [world.certs EXCEPT ![c] = x] \in [Certs -> CertificateRow]
    BY <1>0
  <2> QED  BY <1>0, <2>1, WorldUpdates
<1>2. CASE \E c \in Certs :
         \/ Change([world EXCEPT !.certs[c].enabled = ~@])
         \/ Change([world EXCEPT !.certs[c].listed = FALSE])
         \/ Change([world EXCEPT !.certs[c].listed = TRUE, !.certs[c].enabled = TRUE])
  <2>1. PICK c \in Certs :
         \/ Change([world EXCEPT !.certs[c].enabled = ~@])
         \/ Change([world EXCEPT !.certs[c].listed = FALSE])
         \/ Change([world EXCEPT !.certs[c].listed = TRUE, !.certs[c].enabled = TRUE])
    BY <1>2
  <2>2. world.certs[c] \in CertificateRow
    BY <1>0
  <2>3. CASE Change([world EXCEPT !.certs[c].enabled = ~@])
    <3>1. Change([world EXCEPT !.certs = [world.certs EXCEPT ![c] = [world.certs[c] EXCEPT !.enabled = ~world.certs[c].enabled]]])
      BY <2>3
    <3>2. [world.certs[c] EXCEPT !.enabled = ~world.certs[c].enabled] \in CertificateRow
      BY <2>2 DEF CertificateRow
    <3> QED  BY <1>1, <3>1, <3>2
  <2>4. CASE Change([world EXCEPT !.certs[c].listed = FALSE])
    <3>1. Change([world EXCEPT !.certs = [world.certs EXCEPT ![c] = [world.certs[c] EXCEPT !.listed = FALSE]]])
      BY <2>4
    <3>2. [world.certs[c] EXCEPT !.listed = FALSE] \in CertificateRow
      BY <2>2 DEF CertificateRow
    <3> QED  BY <1>1, <3>1, <3>2
  <2>5. CASE Change([world EXCEPT !.certs[c].listed = TRUE, !.certs[c].enabled = TRUE])
    <3>1. Change([world EXCEPT !.certs = [world.certs EXCEPT ![c] = [world.certs[c] EXCEPT !.listed = TRUE, !.enabled = TRUE]]])
      BY <1>0, <2>5 DEF World, CertificateRow
    <3>2. [world.certs[c] EXCEPT !.listed = TRUE, !.enabled = TRUE] \in CertificateRow
      BY <2>2 DEF CertificateRow
    <3> QED  BY <1>1, <3>1, <3>2
  <2> QED  BY <2>1, <2>3, <2>4, <2>5
<1>3. CASE Change([world EXCEPT !.package = "disabled"]) \/ Change([world EXCEPT !.package = "enabled"])
  BY <1>0, <1>3, WorldUpdates DEF PackageStates
<1>4. CASE Change([world EXCEPT !.package = "missing", !.certs = [c \in Certs |-> [@[c] EXCEPT !.listed = FALSE]]])
  <2> DEFINE X == [c \in Certs |-> [world.certs[c] EXCEPT !.listed = FALSE]]
  <2>1. Change([world EXCEPT !.package = "missing", !.certs = X])
    BY <1>4
  <2>2. X \in [Certs -> CertificateRow]
    <3>1. \A c \in Certs : [world.certs[c] EXCEPT !.listed = FALSE] \in CertificateRow
      BY <1>0 DEF CertificateRow
    <3> QED  BY <3>1
  <2> HIDE DEF X
  <2> QED  BY <1>0, <2>1, <2>2, WorldUpdates DEF PackageStates
<1> QED  BY <1>2, <1>3, <1>4 DEF EditCertificates

\* Drift keeps the shape of the world.
LEMMA DriftEdits ==
    ASSUME Types, Drift
    PROVE  \E w \in World : Change(w)
<1>0. /\ world \in World /\ world.stores \in [Stores -> StoreState] /\ world.hosts \in [Hosts -> HostState]
      /\ world.broken \in SUBSET Parts
  BY DEF Types, World
<1>1. CASE \E s \in Stores :
         \/ world.stores[s].free > 0 /\ Change([world EXCEPT !.stores[s].free = @ - 1])
         \/ Change([world EXCEPT !.stores[s].accessible = ~@])
  <2>1. PICK s \in Stores :
         \/ world.stores[s].free > 0 /\ Change([world EXCEPT !.stores[s].free = @ - 1])
         \/ Change([world EXCEPT !.stores[s].accessible = ~@])
    BY <1>1
  <2>2. world.stores[s] \in StoreState
    BY <1>0
  <2>3. \A x \in StoreState : [world EXCEPT !.stores = [world.stores EXCEPT ![s] = x]] \in World
    <3>1. \A x \in StoreState : [world.stores EXCEPT ![s] = x] \in [Stores -> StoreState]
      BY <1>0
    <3> QED  BY <1>0, <3>1, WorldUpdates
  <2>4. CASE world.stores[s].free > 0 /\ Change([world EXCEPT !.stores[s].free = @ - 1])
    <3>1. Change([world EXCEPT !.stores = [world.stores EXCEPT ![s] = [world.stores[s] EXCEPT !.free = world.stores[s].free - 1]]])
      BY <2>4
    <3>2. world.stores[s].free \in Nat
      BY <2>2 DEF StoreState
    <3>3. world.stores[s].free - 1 \in Nat
      BY <2>4, <3>2
    <3>4. [world.stores[s] EXCEPT !.free = world.stores[s].free - 1] \in StoreState
      BY <2>2, <3>3 DEF StoreState
    <3> QED  BY <2>3, <3>1, <3>4
  <2>5. CASE Change([world EXCEPT !.stores[s].accessible = ~@])
    <3>1. Change([world EXCEPT !.stores = [world.stores EXCEPT ![s] = [world.stores[s] EXCEPT !.accessible = ~world.stores[s].accessible]]])
      BY <2>5
    <3>2. [world.stores[s] EXCEPT !.accessible = ~world.stores[s].accessible] \in StoreState
      BY <2>2 DEF StoreState
    <3> QED  BY <2>3, <3>1, <3>2
  <2> QED  BY <2>1, <2>4, <2>5
<1>2. CASE \E h \in Hosts : Change([world EXCEPT !.hosts[h].available = ~@])
  <2>1. PICK h \in Hosts : Change([world EXCEPT !.hosts = [world.hosts EXCEPT ![h] = [world.hosts[h] EXCEPT !.available = ~world.hosts[h].available]]])
    BY <1>2
  <2>2. [world.hosts[h] EXCEPT !.available = ~world.hosts[h].available] \in HostState
    BY <1>0 DEF HostState
  <2>3. \A x \in HostState : [world.hosts EXCEPT ![h] = x] \in [Hosts -> HostState]
    BY <1>0
  <2> QED  BY <1>0, <2>1, <2>2, <2>3, WorldUpdates
<1>3. CASE \E d \in Holders : Change([world EXCEPT !.holder = d])
  BY <1>0, <1>3, WorldUpdates
<1>4. CASE \E p \in Parts : Change([world EXCEPT !.broken = IF p \in @ THEN @ \ {p} ELSE @ \cup {p}])
  <2>1. PICK p \in Parts : Change([world EXCEPT !.broken = IF p \in world.broken THEN world.broken \ {p} ELSE world.broken \cup {p}])
    BY <1>4
  <2> DEFINE X == IF p \in world.broken THEN world.broken \ {p} ELSE world.broken \cup {p}
  <2>2. X \in SUBSET Parts
    BY <1>0
  <2>3. Change([world EXCEPT !.broken = X])
    BY <2>1
  <2> HIDE DEF X
  <2> QED  BY <1>0, <2>2, <2>3, WorldUpdates
<1> QED  BY <1>1, <1>2, <1>3, <1>4 DEF Drift

\* Edits touch neither the job nor the guest.
LEMMA EditsEffect ==
    ASSUME Types, Edits
    PROVE  /\ UNCHANGED <<request, job, placed, guest, record, loop>> /\ changed' = TRUE
           /\ world' \in World /\ budget' \in BudgetType /\ job.status \in {"running", "failed"}
<1>1. PICK w \in World : Change(w)
  BY CatalogEdits, CertificateEdits, DriftEdits DEF Edits
<1> QED  BY <1>1, ChangeEffect

\* A request that runs was ready.
LEMMA SubmitEffect ==
    ASSUME Types, Submit
    PROVE  /\ UNCHANGED <<request, world, placed, guest, record, loop, budget, changed>>
           /\ job.status = "submitted" /\ job' \in JobType /\ job'.stage = job.stage /\ job'.why = job.why
           /\ \/ job'.status = "rejected"
              \/ job'.status = "running" /\ PreflightFailures(request, world) = {}
BY DEF Submit, Types, JobType

\* A retry runs the failed stage again.
LEMMA RetryEffect ==
    ASSUME Types, Retry
    PROVE  /\ UNCHANGED <<request, world, placed, guest, record, loop, budget, changed>>
           /\ job.status = "failed" /\ job' \in JobType /\ job'.stage = job.stage /\ job'.why = ""
           /\ job'.status = "running"
BY DEF Retry, Types, JobType

\* The root certificates.
LEMMA InstallRootCertificatesEffect ==
    ASSUME Types, InstallRootCertificates
    PROVE  /\ UNCHANGED <<request, world, placed, record, loop, changed>>
           /\ job.status = "running" /\ job.stage = 7 /\ DeployCertificates("ROOT") /\ "ROOT" \in CertificateTypes
BY StageOf, StageNumbers DEF InstallRootCertificates, CertificateTypes

\* The intermediate certificates.
LEMMA InstallIntermediateCertificatesEffect ==
    ASSUME Types, InstallIntermediateCertificates
    PROVE  /\ UNCHANGED <<request, world, placed, record, loop, changed>>
           /\ job.status = "running" /\ job.stage = 8 /\ DeployCertificates("INTERMEDIATE")
           /\ "INTERMEDIATE" \in CertificateTypes
BY StageOf, StageNumbers DEF InstallIntermediateCertificates, CertificateTypes

-----------------------------------------------------------------------------
(* The steps *)

\* The state keeps its shape.
LEMMA TypesStep ==
    ASSUME DeliveryInv, [Next]_vars
    PROVE  Types'
<1>0. Types /\ LoopInv /\ job.stage \in 1 .. 13
  BY DEF DeliveryInv, Types, JobType
<1> USE <1>0
<1> USE NoLoopType DEF Types, Passed, Stopped, SameSoftware
<1>1. CASE Submit
  BY <1>1, SubmitEffect
<1>2. CASE Retry
  BY <1>2, RetryEffect
<1>3. CASE Judges
  BY <1>3, JudgesEffect
<1>4. CASE CreateVm
  BY <1>4, CreateVmEffect
<1>5. CASE ConfigureGuestNetwork
  BY <1>5, ConfigureGuestNetworkEffect
<1>6. CASE InstallRootCertificates
  BY <1>6, InstallRootCertificatesEffect, DeployEffect
<1>7. CASE InstallIntermediateCertificates
  BY <1>7, InstallIntermediateCertificatesEffect, DeployEffect
<1>8. CASE ValidateCertificates
  BY <1>8, ValidateCertificatesEffect
<1>9. CASE ResolveDependencies
  BY <1>9, ResolveDependenciesEffect
<1>10. CASE StartInstalls
  BY <1>10, StartInstallsEffect
<1>11. CASE ProbeApplication
  BY <1>11, ProbeApplicationEffect
<1>12. CASE RunInstaller
  BY <1>12, RunInstallerEffect
<1>13. CASE FinishInstalls
  BY <1>13, FinishInstallsEffect
<1>14. CASE StageBreaks
  BY <1>14, StageBreaksEffect
<1>15. CASE ToolsReport
  BY <1>15, ToolsReportEffect
<1>16. CASE LateInstall
  BY <1>16, LateInstallEffect
<1>17. CASE Edits
  BY <1>17, EditsEffect
<1>18. CASE UNCHANGED vars
  BY <1>18 DEF vars
<1> QED
  BY <1>1, <1>2, <1>3, <1>4, <1>5, <1>6, <1>7, <1>8, <1>9, <1>10, <1>11, <1>12, <1>13, <1>14,
     <1>15, <1>16, <1>17, <1>18
  DEF Next, Stage, Judges, Edits

\* An accepted request stays as the preflight saw it, until a change.
LEMMA AcceptedStep ==
    ASSUME DeliveryInv, [Next]_vars
    PROVE  AcceptedInv' /\ ReasonInv'
<1>0. Types /\ LoopInv /\ job.stage \in 1 .. 13
  BY DEF DeliveryInv, Types, JobType
<1> USE <1>0
<1> USE DEF DeliveryInv, AcceptedInv, ReasonInv, Accepted, Passed, Stopped
<1>1. CASE Submit
  BY <1>1, SubmitEffect, ReadyRequest
<1>2. CASE Retry
  BY <1>2, RetryEffect
<1>3. CASE Judges
  BY <1>3, JudgesEffect
<1>4. CASE CreateVm
  BY <1>4, CreateVmEffect
<1>5. CASE ConfigureGuestNetwork
  BY <1>5, ConfigureGuestNetworkEffect
<1>6. CASE InstallRootCertificates
  BY <1>6, InstallRootCertificatesEffect, DeployEffect
<1>7. CASE InstallIntermediateCertificates
  BY <1>7, InstallIntermediateCertificatesEffect, DeployEffect
<1>8. CASE ValidateCertificates
  BY <1>8, ValidateCertificatesEffect
<1>9. CASE ResolveDependencies
  BY <1>9, ResolveDependenciesEffect
<1>10. CASE StartInstalls
  BY <1>10, StartInstallsEffect
<1>11. CASE ProbeApplication
  BY <1>11, ProbeApplicationEffect
<1>12. CASE RunInstaller
  BY <1>12, RunInstallerEffect
<1>13. CASE FinishInstalls
  BY <1>13, FinishInstallsEffect
<1>14. CASE StageBreaks
  BY <1>14, StageBreaksEffect
<1>15. CASE ToolsReport
  BY <1>15, ToolsReportEffect
<1>16. CASE LateInstall
  BY <1>16, LateInstallEffect
<1>17. CASE Edits
  BY <1>17, EditsEffect
<1>18. CASE UNCHANGED vars
  BY <1>18 DEF vars
<1> QED
  BY <1>1, <1>2, <1>3, <1>4, <1>5, <1>6, <1>7, <1>8, <1>9, <1>10, <1>11, <1>12, <1>13, <1>14,
     <1>15, <1>16, <1>17, <1>18
  DEF Next, Stage, Judges, Edits

\* The VM was placed with room for all its disks.
LEMMA PlacementStep ==
    ASSUME DeliveryInv, [Next]_vars
    PROVE  PlacementIsSound'
<1>0. Types /\ LoopInv /\ job.stage \in 1 .. 13
  BY DEF DeliveryInv, Types, JobType
<1> USE <1>0
<1>1. CASE Submit
  BY <1>1, SubmitEffect DEF DeliveryInv, PlacementIsSound
<1>2. CASE Retry
  BY <1>2, RetryEffect DEF DeliveryInv, PlacementIsSound
<1>3. CASE Judges
  BY <1>3, JudgesEffect DEF DeliveryInv, PlacementIsSound
<1>4. CASE CreateVm
  <2> DEFINE first(s) == \E j \in DOMAIN world.preferred :
                 /\ world.preferred[j] = s
                 /\ \A i \in 1 .. (j - 1) : ~HasRoom(world, world.preferred[i], request.size)
  <2>1. UNCHANGED <<request, world, changed>> /\ job.status = "running"
    BY <1>4, CreateVmEffect
  <2>2. CASE placed' = placed
    BY <2>1, <2>2 DEF DeliveryInv, PlacementIsSound
  <2>3. CASE changed
    BY <2>1, <2>3 DEF PlacementIsSound
  <2>4. CASE ~changed /\ placed' # placed
    <3>1. placed' \in PlacementDatastores(request, world) /\ world \in World /\ request \in Request
      BY <1>4, <2>4, CreateVmEffect DEF Types
    <3>2. PreflightFailures(request, world) = {}
      BY <2>1, <2>4 DEF DeliveryInv, AcceptedInv, Accepted
    <3>3. CheckStorage(request, world)
      BY <3>2, ReadyRequest, ReadyInfrastructure
    <3>4. CASE request.store # Automatic
      <4>1. HasRoom(world, placed', request.size)
        BY <3>1, <3>3, <3>4 DEF PlacementDatastores, CheckStorage
      <4> QED  BY <2>1, <3>4, <4>1 DEF PlacementIsSound
    <3>5. CASE request.store = Automatic
      <4>1. HasRoom(world, placed', request.size) /\ (world.preferred # <<>> => first(placed'))
        BY <3>1, <3>5, AutomaticHasRoom DEF PlacementDatastores
      <4> QED  BY <2>1, <4>1 DEF PlacementIsSound
    <3> QED  BY <3>4, <3>5
  <2> QED  BY <2>2, <2>3, <2>4
<1>5. CASE ConfigureGuestNetwork
  BY <1>5, ConfigureGuestNetworkEffect DEF DeliveryInv, PlacementIsSound
<1>6. CASE InstallRootCertificates
  BY <1>6, InstallRootCertificatesEffect DEF DeliveryInv, PlacementIsSound
<1>7. CASE InstallIntermediateCertificates
  BY <1>7, InstallIntermediateCertificatesEffect DEF DeliveryInv, PlacementIsSound
<1>8. CASE ValidateCertificates
  BY <1>8, ValidateCertificatesEffect DEF DeliveryInv, PlacementIsSound
<1>9. CASE ResolveDependencies
  BY <1>9, ResolveDependenciesEffect DEF DeliveryInv, PlacementIsSound
<1>10. CASE StartInstalls
  BY <1>10, StartInstallsEffect DEF DeliveryInv, PlacementIsSound
<1>11. CASE ProbeApplication
  BY <1>11, ProbeApplicationEffect DEF DeliveryInv, PlacementIsSound
<1>12. CASE RunInstaller
  BY <1>12, RunInstallerEffect DEF DeliveryInv, PlacementIsSound
<1>13. CASE FinishInstalls
  BY <1>13, FinishInstallsEffect DEF DeliveryInv, PlacementIsSound
<1>14. CASE StageBreaks
  BY <1>14, StageBreaksEffect DEF DeliveryInv, PlacementIsSound
<1>15. CASE ToolsReport
  BY <1>15, ToolsReportEffect DEF DeliveryInv, PlacementIsSound
<1>16. CASE LateInstall
  BY <1>16, LateInstallEffect DEF DeliveryInv, PlacementIsSound
<1>17. CASE Edits
  BY <1>17, EditsEffect DEF DeliveryInv, PlacementIsSound
<1>18. CASE UNCHANGED vars
  BY <1>18 DEF vars, DeliveryInv, PlacementIsSound
<1> QED
  BY <1>1, <1>2, <1>3, <1>4, <1>5, <1>6, <1>7, <1>8, <1>9, <1>10, <1>11, <1>12, <1>13, <1>14,
     <1>15, <1>16, <1>17, <1>18
  DEF Next, Stage, Judges, Edits

\* Until a change, every entry of the order has a row that is enabled.
LEMMA EntriesExist ==
    ASSUME DeliveryInv, ~changed, Accepted
    PROVE  /\ Installable(world.apps, Elements(request.apps))
           /\ job.stage > 10 => \A a \in Elements(record.order) : world.apps[a].exists
<1>1. PreflightFailures(request, world) = {} /\ request \in Request /\ world.apps \in Catalog
  BY DEF DeliveryInv, AcceptedInv, Types, World
<1>2. Installable(world.apps, Elements(request.apps))
  BY <1>1, ReadyRequest, RequestFields, EnabledIsEnough
<1> QED  BY <1>2 DEF DeliveryInv, OrderInv, Installable

\* The loop has installed what it has gone through without a failure.
LEMMA LoopStep ==
    ASSUME DeliveryInv, [Next]_vars
    PROVE  LoopInv'
<1>0. Types /\ LoopInv /\ job.stage \in 1 .. 13
  BY DEF DeliveryInv, Types, JobType
<1> USE <1>0
<1>00. DeliveryInv
  OBVIOUS
<1> USE <1>00, NoLoopType DEF LoopInv, Passed, Stopped, SameSoftware
<1>1. CASE Submit
  BY <1>1, SubmitEffect
<1>2. CASE Retry
  BY <1>2, RetryEffect
<1>3. CASE Judges
  BY <1>3, JudgesEffect
<1>4. CASE CreateVm
  BY <1>4, CreateVmEffect
<1>5. CASE ConfigureGuestNetwork
  BY <1>5, ConfigureGuestNetworkEffect
<1>6. CASE InstallRootCertificates
  BY <1>6, InstallRootCertificatesEffect, DeployEffect
<1>7. CASE InstallIntermediateCertificates
  BY <1>7, InstallIntermediateCertificatesEffect, DeployEffect
<1>8. CASE ValidateCertificates
  BY <1>8, ValidateCertificatesEffect
<1>9. CASE ResolveDependencies
  BY <1>9, ResolveDependenciesEffect
<1>10. CASE StartInstalls
  <2>1. \A i \in DOMAIN record.order : ~(i < 1)
    BY OrderEntries
  <2> QED  BY <1>10, <2>1, StartInstallsEffect
<1>11. CASE ProbeApplication
  <2>1. /\ UNCHANGED <<world, job, guest, record, changed>> /\ loop.on /\ loop'.on /\ loop'.rows = loop.rows
        /\ job.status = "running" /\ job.stage = 11 /\ loop.pos \in DOMAIN record.order
    BY <1>11, ProbeApplicationEffect
  <2>2. ~changed => loop.rows[Current].exists
    <3>1. Current \in Elements(record.order)
      BY <2>1 DEF Current, Elements
    <3> QED  BY <2>1, <3>1, EntriesExist DEF Accepted
  <2>3. loop'.starting => loop'.pos = loop.pos
    BY <1>11, ProbeApplicationEffect
  <2>4. ~changed => "missing" \notin loop'.failed
    BY <1>11, <2>1, <2>2, ProbeApplicationEffect
  <2>5. loop'.failed = {} => /\ loop.failed = {}
                             /\ loop'.pos = loop.pos \/ (loop'.pos = loop.pos + 1 /\ Current \in guest.installed)
    BY <1>11, ProbeApplicationEffect
  <2>6. loop'.failed = {} =>
          \A i \in DOMAIN record.order : i < loop'.pos => record.order[i] \in guest.installed \cup guest.silent
    <3>1. \A i \in DOMAIN record.order : i < loop.pos + 1 => i < loop.pos \/ i = loop.pos
      BY OrderEntries DEF LoopType, Types
    <3> QED  BY <2>1, <2>5, <3>1 DEF Current
  <2> QED  BY <2>1, <2>3, <2>4, <2>6
<1>12. CASE RunInstaller
  <2>1. /\ UNCHANGED <<world, job, record, changed>> /\ loop.on /\ loop'.on /\ loop'.rows = loop.rows
        /\ loop'.pos = loop.pos + 1 /\ ~loop'.starting /\ loop.pos \in DOMAIN record.order
    BY <1>12, RunInstallerEffect
  <2>2. /\ loop'.failed = {} => /\ loop.failed = {} /\ Current \in guest'.installed \cup guest'.silent
                                /\ guest.installed \cup guest.silent \subseteq guest'.installed \cup guest'.silent
        /\ "missing" \notin loop.failed => "missing" \notin loop'.failed
    BY <1>12, RunInstallerEffect
  <2>3. loop'.failed = {} =>
          \A i \in DOMAIN record.order : i < loop'.pos => record.order[i] \in guest'.installed \cup guest'.silent
    <3>1. \A i \in DOMAIN record.order : i < loop.pos + 1 => i < loop.pos \/ i = loop.pos
      BY OrderEntries DEF LoopType, Types
    <3> QED  BY <2>1, <2>2, <3>1 DEF Current
  <2> QED  BY <2>1, <2>2, <2>3
<1>13. CASE FinishInstalls
  BY <1>13, FinishInstallsEffect
<1>14. CASE StageBreaks
  BY <1>14, StageBreaksEffect
<1>15. CASE ToolsReport
  BY <1>15, ToolsReportEffect
<1>16. CASE LateInstall
  BY <1>16, LateInstallEffect
<1>17. CASE Edits
  BY <1>17, EditsEffect
<1>18. CASE UNCHANGED vars
  BY <1>18 DEF vars
<1> QED
  BY <1>1, <1>2, <1>3, <1>4, <1>5, <1>6, <1>7, <1>8, <1>9, <1>10, <1>11, <1>12, <1>13, <1>14,
     <1>15, <1>16, <1>17, <1>18
  DEF Next, Stage, Judges, Edits

\* An application is installed again only after an installer that was left behind.
LEMMA InstallStep ==
    ASSUME DeliveryInv, [Next]_vars
    PROVE  InstallInv'
<1>0. Types /\ LoopInv /\ job.stage \in 1 .. 13
  BY DEF DeliveryInv, Types, JobType
<1> USE <1>0
<1>00. InstallInv
  BY DEF DeliveryInv
<1> USE <1>00, NoLoopType DEF InstallInv, Passed, Stopped, SameSoftware
<1>1. CASE Submit
  BY <1>1, SubmitEffect
<1>2. CASE Retry
  BY <1>2, RetryEffect
<1>3. CASE Judges
  BY <1>3, JudgesEffect
<1>4. CASE CreateVm
  BY <1>4, CreateVmEffect
<1>5. CASE ConfigureGuestNetwork
  BY <1>5, ConfigureGuestNetworkEffect
<1>6. CASE InstallRootCertificates
  BY <1>6, InstallRootCertificatesEffect, DeployEffect
<1>7. CASE InstallIntermediateCertificates
  BY <1>7, InstallIntermediateCertificatesEffect, DeployEffect
<1>8. CASE ValidateCertificates
  BY <1>8, ValidateCertificatesEffect
<1>9. CASE ResolveDependencies
  BY <1>9, ResolveDependenciesEffect DEF LoopInv
<1>10. CASE StartInstalls
  BY <1>10, StartInstallsEffect
<1>11. CASE ProbeApplication
  <2>1. UNCHANGED <<guest, record>> /\ loop.pos \in DOMAIN record.order
    BY <1>11, ProbeApplicationEffect
  <2>2. loop'.starting => loop'.pos = loop.pos /\ Current \notin guest.installed
    BY <1>11, ProbeApplicationEffect
  <2>3. Current \in Apps
    BY <2>1, OrderEntries DEF Current
  <2>4. guest.installs[Current] \in Nat
    BY <2>3 DEF Types, GuestType
  <2>5. loop'.starting => \/ guest.installs[record.order[loop.pos]] = 0
                          \/ record.order[loop.pos] \in guest.silent
    BY <2>2, <2>3, <2>4 DEF Current
  <2> QED  BY <2>1, <2>2, <2>5
<1>12. CASE RunInstaller
  <2>1. /\ record' = record /\ ~loop'.starting /\ loop.starting /\ Current \in Apps
        /\ guest.installs \in [Apps -> Nat]
    BY <1>12, RunInstallerEffect DEF Types, GuestType
  <2>2. guest.installs[Current] = 0 \/ Current \in guest.overran \cup guest.silent
    BY <2>1 DEF Current
  <2>3. \A b \in Apps : guest.installs[b] \in Nat
    BY <2>1
  <2>4. CASE /\ \/ guest'.installed = guest.installed \cup {Current} /\ guest'.silent = guest.silent
                \/ guest'.installed = guest.installed /\ guest'.silent = guest.silent \cup {Current}
             /\ guest'.late = guest.late /\ guest'.overran = guest.overran
             /\ \A b \in Apps : guest'.installs[b] = IF b = Current THEN guest.installs[b] + 1 ELSE guest.installs[b]
    BY <2>1, <2>2, <2>3, <2>4
  <2>5. CASE guest' = guest
    BY <2>1, <2>5
  <2>6. CASE /\ guest'.installed = guest.installed /\ guest'.silent = guest.silent /\ guest'.installs = guest.installs
             /\ guest'.late = guest.late \cup {Current} /\ guest'.overran = guest.overran \cup {Current}
    BY <2>1, <2>6
  <2> QED  BY <1>12, <2>4, <2>5, <2>6, RunInstallerEffect
<1>13. CASE FinishInstalls
  BY <1>13, FinishInstallsEffect
<1>14. CASE StageBreaks
  BY <1>14, StageBreaksEffect
<1>15. CASE ToolsReport
  BY <1>15, ToolsReportEffect
<1>16. CASE LateInstall
  <2>1. UNCHANGED <<record, loop>> /\ guest'.overran = guest.overran /\ guest'.silent = guest.silent
    BY <1>16, LateInstallEffect
  <2>2. PICK a \in guest.late :
          /\ a \in Apps /\ guest'.installed = guest.installed \cup {a} /\ guest'.late = guest.late \ {a}
          /\ \A b \in Apps : guest'.installs[b] = IF b = a THEN guest.installs[b] + 1 ELSE guest.installs[b]
    BY <1>16, LateInstallEffect
  <2>3. a \in guest.overran
    BY <2>2
  <2>4. \A b \in Apps : guest.installs[b] \in Nat
    BY DEF Types, GuestType
  <2>5. loop.starting => record.order[loop.pos] \in Apps
    BY OrderEntries DEF LoopInv
  <2>6. \A b \in Apps : /\ guest'.installs[b] > 0 => b \in guest'.installed \cup guest'.silent
                        /\ guest'.installs[b] > 1 => b \in guest'.overran \cup guest'.silent
    BY <2>1, <2>2, <2>3, <2>4
  <2>7. \A b \in Apps : guest.installs[b] = 0 => guest'.installs[b] = 0 \/ b \in guest'.overran
    BY <2>1, <2>2, <2>3, <2>4
  <2> QED  BY <2>1, <2>2, <2>5, <2>6, <2>7
<1>17. CASE Edits
  BY <1>17, EditsEffect
<1>18. CASE UNCHANGED vars
  BY <1>18 DEF vars
<1> QED
  BY <1>1, <1>2, <1>3, <1>4, <1>5, <1>6, <1>7, <1>8, <1>9, <1>10, <1>11, <1>12, <1>13, <1>14,
     <1>15, <1>16, <1>17, <1>18
  DEF Next, Stage, Judges, Edits

\* The order holds what is selected, and what it holds is installed.
LEMMA OrderStep ==
    ASSUME DeliveryInv, [Next]_vars
    PROVE  OrderInv'
<1>0. Types /\ LoopInv /\ job.stage \in 1 .. 13
  BY DEF DeliveryInv, Types, JobType
<1> USE <1>0
<1>00. OrderInv /\ CertInv /\ DoneInv
  BY DEF DeliveryInv
<1> USE <1>00 DEF OrderInv, Passed, Stopped, SameSoftware
<1>1. CASE Submit
  BY <1>1, SubmitEffect
<1>2. CASE Retry
  <2>1. UNCHANGED <<request, world, guest, record, changed>> /\ job'.stage = job.stage
    BY <1>2, RetryEffect
  <2> QED  BY <2>1
<1>3. CASE Judges
  BY <1>3, JudgesEffect
<1>4. CASE CreateVm
  BY <1>4, CreateVmEffect
<1>5. CASE ConfigureGuestNetwork
  BY <1>5, ConfigureGuestNetworkEffect
<1>6. CASE InstallRootCertificates
  BY <1>6, InstallRootCertificatesEffect, DeployEffect
<1>7. CASE InstallIntermediateCertificates
  BY <1>7, InstallIntermediateCertificatesEffect, DeployEffect
<1>8. CASE ValidateCertificates
  BY <1>8, ValidateCertificatesEffect
<1>9. CASE ResolveDependencies
  <2>1. Elements(request.apps) \subseteq Closure(world.apps, Elements(request.apps))
    BY RequestFields, ClosureFacts DEF Types
  <2> QED  BY <1>9, <2>1, ResolveDependenciesEffect
<1>10. CASE StartInstalls
  BY <1>10, StartInstallsEffect
<1>11. CASE ProbeApplication
  BY <1>11, ProbeApplicationEffect
<1>12. CASE RunInstaller
  BY <1>12, RunInstallerEffect
<1>13. CASE FinishInstalls
  <2>1. /\ UNCHANGED <<request, world, guest, changed>> /\ record'.order = record.order /\ job.stage = 11
        /\ loop.on /\ loop.pos \notin DOMAIN record.order
    BY <1>13, FinishInstallsEffect
  <2>2. CASE loop.failed = {} /\ Passed /\ record'.outcomes = Outcomes
    <3>1. \A i \in DOMAIN record.order : i < loop.pos
      BY <2>1, OrderEntries DEF Types, LoopType
    <3>2. Elements(record.order) \subseteq guest.installed \cup guest.silent
      BY <2>1, <2>2, <3>1 DEF LoopInv, Elements
    <3>3. ~changed => \A n \in Outcomes :
            \E a \in Elements(record.order) : world.apps[a].exists /\ world.apps[a].name = n
      BY <2>1 DEF LoopInv, Outcomes
    <3>4. ~changed => \A a \in Elements(record.order) : world.apps[a].name \in Outcomes
      <4>1. ~changed => \A a \in Elements(record.order) : world.apps[a].exists
        BY <1>13, <2>1, EntriesExist, FinishInstallsEffect DEF Accepted
      <4> QED  BY <2>1, <4>1 DEF LoopInv, Outcomes
    <3> QED  BY <2>1, <2>2, <3>2, <3>3, <3>4
  <2>3. CASE Stopped /\ record' = record
    BY <2>1, <2>3
  <2> QED  BY <1>13, <2>2, <2>3, FinishInstallsEffect
<1>14. CASE StageBreaks
  BY <1>14, StageBreaksEffect
<1>15. CASE ToolsReport
  BY <1>15, ToolsReportEffect
<1>16. CASE LateInstall
  BY <1>16, LateInstallEffect
<1>17. CASE Edits
  BY <1>17, EditsEffect
<1>18. CASE UNCHANGED vars
  BY <1>18 DEF vars
<1> QED
  BY <1>1, <1>2, <1>3, <1>4, <1>5, <1>6, <1>7, <1>8, <1>9, <1>10, <1>11, <1>12, <1>13, <1>14,
     <1>15, <1>16, <1>17, <1>18
  DEF Next, Stage, Judges, Edits

\* A completed job has gone through its last check.
LEMMA DoneStep ==
    ASSUME DeliveryInv, [Next]_vars
    PROVE  DoneInv'
<1>0. Types /\ LoopInv /\ job.stage \in 1 .. 13
  BY DEF DeliveryInv, Types, JobType
<1> USE <1>0
<1>00. OrderInv /\ CertInv /\ DoneInv
  BY DEF DeliveryInv
<1> USE <1>00 DEF DoneInv, Passed, Stopped, SameSoftware
<1>1. CASE Submit
  BY <1>1, SubmitEffect
<1>2. CASE Retry
  BY <1>2, RetryEffect
<1>3. CASE Judges
  BY <1>3, JudgesEffect
<1>4. CASE CreateVm
  BY <1>4, CreateVmEffect
<1>5. CASE ConfigureGuestNetwork
  BY <1>5, ConfigureGuestNetworkEffect
<1>6. CASE InstallRootCertificates
  BY <1>6, InstallRootCertificatesEffect, DeployEffect
<1>7. CASE InstallIntermediateCertificates
  BY <1>7, InstallIntermediateCertificatesEffect, DeployEffect
<1>8. CASE ValidateCertificates
  BY <1>8, ValidateCertificatesEffect
<1>9. CASE ResolveDependencies
  BY <1>9, ResolveDependenciesEffect
<1>10. CASE StartInstalls
  BY <1>10, StartInstallsEffect
<1>11. CASE ProbeApplication
  BY <1>11, ProbeApplicationEffect
<1>12. CASE RunInstaller
  BY <1>12, RunInstallerEffect
<1>13. CASE FinishInstalls
  BY <1>13, FinishInstallsEffect
<1>14. CASE StageBreaks
  BY <1>14, StageBreaksEffect
<1>15. CASE ToolsReport
  BY <1>15, ToolsReportEffect
<1>16. CASE LateInstall
  BY <1>16, LateInstallEffect
<1>17. CASE Edits
  BY <1>17, EditsEffect
<1>18. CASE UNCHANGED vars
  BY <1>18 DEF vars
<1> QED
  BY <1>1, <1>2, <1>3, <1>4, <1>5, <1>6, <1>7, <1>8, <1>9, <1>10, <1>11, <1>12, <1>13, <1>14,
     <1>15, <1>16, <1>17, <1>18
  DEF Next, Stage, Judges, Edits

\* The selected certificates depend on the request and the world alone.
LEMMA SameWanted ==
    ASSUME request' = request, world' = world
    PROVE  Selected' = Selected /\ Wanted("ROOT")' = Wanted("ROOT") /\ Wanted("INTERMEDIATE")' = Wanted("INTERMEDIATE")
BY DEF Selected, Wanted

\* Verified certificates stay in the guest.
LEMMA CertStep ==
    ASSUME DeliveryInv, [Next]_vars
    PROVE  CertInv'
<1>0. Types /\ LoopInv /\ job.stage \in 1 .. 13
  BY DEF DeliveryInv, Types, JobType
<1> USE <1>0
<1>00. OrderInv /\ CertInv /\ DoneInv
  BY DEF DeliveryInv
<1> USE <1>00 DEF CertInv, Passed, Stopped, SameSoftware
<1>1. CASE Submit
  BY <1>1, SubmitEffect, SameWanted
<1>2. CASE Retry
  BY <1>2, RetryEffect, SameWanted
<1>3. CASE Judges
  BY <1>3, JudgesEffect, SameWanted
<1>4. CASE CreateVm
  BY <1>4, CreateVmEffect, SameWanted
<1>5. CASE ConfigureGuestNetwork
  BY <1>5, ConfigureGuestNetworkEffect, SameWanted
<1>6. CASE InstallRootCertificates
  BY <1>6, InstallRootCertificatesEffect, DeployEffect, SameWanted
<1>7. CASE InstallIntermediateCertificates
  BY <1>7, InstallIntermediateCertificatesEffect, DeployEffect, SameWanted
<1>8. CASE ValidateCertificates
  BY <1>8, ValidateCertificatesEffect, SameWanted
<1>9. CASE ResolveDependencies
  BY <1>9, ResolveDependenciesEffect, SameWanted
<1>10. CASE StartInstalls
  BY <1>10, StartInstallsEffect, SameWanted
<1>11. CASE ProbeApplication
  BY <1>11, ProbeApplicationEffect, SameWanted
<1>12. CASE RunInstaller
  BY <1>12, RunInstallerEffect, SameWanted
<1>13. CASE FinishInstalls
  BY <1>13, FinishInstallsEffect, SameWanted
<1>14. CASE StageBreaks
  BY <1>14, StageBreaksEffect, SameWanted
<1>15. CASE ToolsReport
  BY <1>15, ToolsReportEffect, SameWanted
<1>16. CASE LateInstall
  BY <1>16, LateInstallEffect, SameWanted
<1>17. CASE Edits
  BY <1>17, EditsEffect
<1>18. CASE UNCHANGED vars
  BY <1>18, SameWanted DEF vars
<1> QED
  BY <1>1, <1>2, <1>3, <1>4, <1>5, <1>6, <1>7, <1>8, <1>9, <1>10, <1>11, <1>12, <1>13, <1>14,
     <1>15, <1>16, <1>17, <1>18
  DEF Next, Stage, Judges, Edits

\* A deployment that is done has brought every certificate of its group.
LEMMA DeployedStep ==
    ASSUME DeliveryInv, DeployedInv, [Next]_vars
    PROVE  DeployedInv'
<1>0. Types /\ LoopInv /\ job.stage \in 1 .. 13
  BY DEF DeliveryInv, Types, JobType
<1> USE <1>0
<1> USE DEF DeployedInv, Passed, Stopped
<1>1. CASE Submit
  BY <1>1, SubmitEffect, SameWanted DEF SameSoftware
<1>2. CASE Retry
  BY <1>2, RetryEffect, SameWanted DEF SameSoftware
<1>3. CASE Judges
  BY <1>3, JudgesEffect, SameWanted DEF SameSoftware
<1>4. CASE CreateVm
  BY <1>4, CreateVmEffect, SameWanted DEF SameSoftware
<1>5. CASE ConfigureGuestNetwork
  BY <1>5, ConfigureGuestNetworkEffect, SameWanted DEF SameSoftware
<1>6. CASE InstallRootCertificates
  <2>1. /\ UNCHANGED <<request, world, changed>> /\ DeployCertificates("ROOT") /\ "ROOT" \in CertificateTypes
        /\ job.stage = 7
    BY <1>6, InstallRootCertificatesEffect
  <2>2. guest.certs \subseteq guest'.certs
    BY <2>1, DeployEffect
  <2>4. Stopped \/ (Passed /\ Wanted("ROOT") \subseteq guest'.certs)
    BY <2>1, DeployEffect
  <2>6. job'.stage > 7 /\ ~changed' => Wanted("ROOT")' \subseteq guest'.certs
    BY <2>1, <2>2, <2>4, SameWanted DEF Passed, Stopped
  <2>7. job'.stage > 8 /\ ~changed' => Wanted("INTERMEDIATE")' \subseteq guest'.certs
    BY <2>1, <2>2, <2>4, SameWanted DEF Passed, Stopped
  <2> QED  BY <2>6, <2>7
<1>7. CASE InstallIntermediateCertificates
  <2>1. /\ UNCHANGED <<request, world, changed>> /\ DeployCertificates("INTERMEDIATE") /\ "INTERMEDIATE" \in CertificateTypes
        /\ job.stage = 8
    BY <1>7, InstallIntermediateCertificatesEffect
  <2>2. guest.certs \subseteq guest'.certs
    BY <2>1, DeployEffect
  <2>4. Stopped \/ (Passed /\ Wanted("INTERMEDIATE") \subseteq guest'.certs)
    BY <2>1, DeployEffect
  <2>6. job'.stage > 7 /\ ~changed' => Wanted("ROOT")' \subseteq guest'.certs
    BY <2>1, <2>2, <2>4, SameWanted DEF Passed, Stopped
  <2>7. job'.stage > 8 /\ ~changed' => Wanted("INTERMEDIATE")' \subseteq guest'.certs
    BY <2>1, <2>2, <2>4, SameWanted DEF Passed, Stopped
  <2> QED  BY <2>6, <2>7
<1>8. CASE ValidateCertificates
  BY <1>8, ValidateCertificatesEffect, SameWanted DEF SameSoftware
<1>9. CASE ResolveDependencies
  BY <1>9, ResolveDependenciesEffect, SameWanted DEF SameSoftware
<1>10. CASE StartInstalls
  BY <1>10, StartInstallsEffect, SameWanted DEF SameSoftware
<1>11. CASE ProbeApplication
  BY <1>11, ProbeApplicationEffect, SameWanted DEF SameSoftware
<1>12. CASE RunInstaller
  BY <1>12, RunInstallerEffect, SameWanted DEF SameSoftware
<1>13. CASE FinishInstalls
  BY <1>13, FinishInstallsEffect, SameWanted DEF SameSoftware
<1>14. CASE StageBreaks
  BY <1>14, StageBreaksEffect, SameWanted DEF SameSoftware
<1>15. CASE ToolsReport
  BY <1>15, ToolsReportEffect, SameWanted DEF SameSoftware
<1>16. CASE LateInstall
  BY <1>16, LateInstallEffect, SameWanted DEF SameSoftware
<1>17. CASE Edits
  BY <1>17, EditsEffect, SameWanted DEF SameSoftware
<1>18. CASE UNCHANGED vars
  BY <1>18, SameWanted DEF vars
<1> QED
  BY <1>1, <1>2, <1>3, <1>4, <1>5, <1>6, <1>7, <1>8, <1>9, <1>10, <1>11, <1>12, <1>13, <1>14,
     <1>15, <1>16, <1>17, <1>18
  DEF Next, Stage, Judges, Edits

\* The request does not change, and a change of the world is noticed.
LEMMA ScenarioStep ==
    ASSUME DeliveryInv, ScenarioInv, [Next]_vars
    PROVE  ScenarioInv'
<1>0. Types /\ LoopInv /\ job.stage \in 1 .. 13
  BY DEF DeliveryInv, Types, JobType
<1> USE <1>0
<1> USE DEF ScenarioInv
<1>1. CASE Submit
  BY <1>1, SubmitEffect
<1>2. CASE Retry
  BY <1>2, RetryEffect
<1>3. CASE Judges
  BY <1>3, JudgesEffect
<1>4. CASE CreateVm
  BY <1>4, CreateVmEffect
<1>5. CASE ConfigureGuestNetwork
  BY <1>5, ConfigureGuestNetworkEffect
<1>6. CASE InstallRootCertificates
  BY <1>6, InstallRootCertificatesEffect
<1>7. CASE InstallIntermediateCertificates
  BY <1>7, InstallIntermediateCertificatesEffect
<1>8. CASE ValidateCertificates
  BY <1>8, ValidateCertificatesEffect
<1>9. CASE ResolveDependencies
  BY <1>9, ResolveDependenciesEffect
<1>10. CASE StartInstalls
  BY <1>10, StartInstallsEffect
<1>11. CASE ProbeApplication
  BY <1>11, ProbeApplicationEffect
<1>12. CASE RunInstaller
  BY <1>12, RunInstallerEffect
<1>13. CASE FinishInstalls
  BY <1>13, FinishInstallsEffect
<1>14. CASE StageBreaks
  BY <1>14, StageBreaksEffect
<1>15. CASE ToolsReport
  BY <1>15, ToolsReportEffect
<1>16. CASE LateInstall
  BY <1>16, LateInstallEffect
<1>17. CASE Edits
  BY <1>17, EditsEffect
<1>18. CASE UNCHANGED vars
  BY <1>18 DEF vars
<1> QED
  BY <1>1, <1>2, <1>3, <1>4, <1>5, <1>6, <1>7, <1>8, <1>9, <1>10, <1>11, <1>12, <1>13, <1>14,
     <1>15, <1>16, <1>17, <1>18
  DEF Next, Stage, Judges, Edits

-----------------------------------------------------------------------------
(* Initial states and theorems *)

\* A request that was sent, and nothing else.
LEMMA InitDelivery == Init => DeliveryInv /\ DeployedInv /\ ScenarioInv
<1> SUFFICES ASSUME Init PROVE DeliveryInv /\ DeployedInv /\ ScenarioInv
  OBVIOUS
<1>1. PICK s \in Scenarios :
        /\ request = s.request /\ world = s.world
        /\ guest = [address |-> FALSE, reported |-> FALSE, digest |-> s.digest, certs |-> {}, again |-> {},
                    installed |-> {}, silent |-> {}, installs |-> [a \in Apps |-> 0], late |-> {}, overran |-> {}]
        /\ budget = [faults |-> s.faults, changes |-> s.changes]
  BY DEF Init
<1>2. /\ job = [status |-> "submitted", stage |-> 1, why |-> ""] /\ placed = NoStore
      /\ record = [order |-> <<>>, outcomes |-> {}, verified |-> {}]
      /\ loop = NoLoop /\ changed = FALSE
  BY DEF Init
<1>3. s \in [request : Request, world : World, digest : Digests, faults : Nat, changes : Nat]
  BY DeliveryAssumption
<1>4. request \in Request /\ world \in World /\ budget \in BudgetType
  BY <1>1, <1>3 DEF BudgetType
<1>5. job \in JobType /\ job.status = "submitted" /\ job.stage = 1 /\ job.why = ""
  <2>1. 1 \in 1 .. 13
    OBVIOUS
  <2> QED  BY <1>2, <2>1 DEF JobType
<1>6. /\ guest \in GuestType /\ guest.late = {} /\ guest.overran = {}
      /\ \A a \in Apps : guest.installs[a] = 0
  BY <1>1, <1>3 DEF GuestType
<1>7. record \in RecordType /\ record.order = <<>> /\ record.outcomes = {} /\ record.verified = {}
  <2>1. <<>> \in Seq(Apps) /\ {} \in SUBSET Nat /\ {} \in SUBSET Certs
    OBVIOUS
  <2> QED  BY <1>2, <2>1 DEF RecordType
<1>8. Types
  BY <1>2, <1>4, <1>5, <1>6, <1>7, NoLoopType DEF Types
<1>9. AcceptedInv /\ ReasonInv /\ PlacementIsSound /\ DoneInv
  BY <1>2, <1>5 DEF AcceptedInv, Accepted, ReasonInv, PlacementIsSound, DoneInv
<1>10. LoopInv /\ InstallInv
  <2>1. LoopInv
    BY <1>2, NoLoopType DEF LoopInv
  <2>2. InstallInv
    <3>1. \A a \in Apps : guest.installs[a] \in Nat
      BY <1>6 DEF GuestType
    <3>2. \A a \in Apps : ~(guest.installs[a] > 0) /\ ~(guest.installs[a] > 1)
      BY <1>6, <3>1
    <3> QED  BY <1>2, <1>6, <3>2, NoLoopType DEF InstallInv
  <2> QED  BY <2>1, <2>2
<1>11. ~(job.stage > 7) /\ ~(job.stage > 8) /\ ~(job.stage > 9) /\ ~(job.stage > 10)
       /\ ~(job.stage > 11) /\ ~(job.stage > 12)
  <2>1. \A n \in Nat : n = 1 => ~(n > 7) /\ ~(n > 8) /\ ~(n > 9) /\ ~(n > 10) /\ ~(n > 11) /\ ~(n > 12)
    OBVIOUS
  <2>2. job.stage = 1
    BY <1>5
  <2> QED  BY <2>1, <2>2, 1 \in Nat, Zenon
<1>12. OrderInv /\ CertInv
  BY <1>7, <1>11 DEF OrderInv, CertInv
<1>13. DeployedInv
  BY <1>11 DEF DeployedInv
<1>14. ScenarioInv
  BY <1>1 DEF ScenarioInv
<1> QED  BY <1>8, <1>9, <1>10, <1>12, <1>13, <1>14 DEF DeliveryInv

\* The inductive invariant: an accepted request is what the preflight saw,
\* and every stage that is done has left its result in the records and in
\* the guest, across faults, retries and edits.
THEOREM DeliveryInvariant == Spec => []DeliveryInv
<1>1. Init => DeliveryInv
  BY InitDelivery
<1>2. DeliveryInv /\ [Next]_vars => DeliveryInv'
  BY TypesStep, AcceptedStep, PlacementStep, LoopStep, InstallStep, OrderStep, CertStep, DoneStep DEF DeliveryInv
<1> QED  BY <1>1, <1>2, PTL DEF Spec

\* Type correctness.
THEOREM TypeCorrect == Spec => []TypeOK
<1>1. DeliveryInv => TypeOK
  <2> SUFFICES ASSUME DeliveryInv PROVE TypeOK
    OBVIOUS
  <2>1. Types
    BY DEF DeliveryInv
  <2>2. loop \in [on : BOOLEAN, pos : Nat, rows : Catalog, failed : SUBSET {"missing", "fault"}, starting : BOOLEAN]
    BY <2>1 DEF Types, LoopType
  <2> QED  BY <2>1, <2>2, StageNumbers DEF Types, JobType, GuestType, RecordType, BudgetType, TypeOK
<1> QED  BY <1>1, DeliveryInvariant, PTL

\* The VM lands on a datastore with room for all its disks, on automatic on
\* the first preferred one, although create_vm asks the adapter for the OS
\* disk only (services/provisioning/placement.py): the preflight's check of
\* the sum is what makes it true.
THEOREM PlacementsAreSound == Spec => []PlacementIsSound
<1>1. DeliveryInv => PlacementIsSound
  BY DEF DeliveryInv
<1> QED  BY <1>1, DeliveryInvariant, PTL

\* For every width of addresses and every prefix: the bit arithmetic of
\* network/validation.py and schemas/provisioning.py leaves only addresses
\* that are host addresses of one subnet, in the sense of division.
THEOREM AcceptedAddressesAreUsable == Spec => []AcceptedAddressIsUsable
<1>1. DeliveryInv => AcceptedAddressIsUsable
  <2> SUFFICES ASSUME DeliveryInv, request.static, job.status \in {"running", "failed", "completed"}
               PROVE  LET block == Subnet(request.ipv4.address, request.ipv4.prefix)
                      IN /\ request.ipv4.gateway \in block \ {request.ipv4.address}
                         /\ HostAddress(request.ipv4.address, block)
                         /\ HostAddress(request.ipv4.gateway, block)
    BY DEF AcceptedAddressIsUsable
  <2>1. request.ipv4 \in Ipv4Config
    BY RequestFields DEF DeliveryInv, Types
  <2>2. validate_static_ipv4(request.ipv4)
    BY DEF DeliveryInv, AcceptedInv, Accepted
  <2> QED  BY <2>1, <2>2, ValidIsUsable
<1> QED  BY <1>1, DeliveryInvariant, PTL

\* COMPLETED means that the guest has what was asked for, whatever fails,
\* is retried or is edited meanwhile (workers/stages.py).
THEOREM CompletedJobsAreDelivered == Spec => []CompletedIsDelivered
<1>1. DeliveryInv => CompletedIsDelivered
  <2> SUFFICES ASSUME DeliveryInv, job.status = "completed"
               PROVE  /\ guest.reported
                      /\ Elements(request.apps) \subseteq guest.installed \cup guest.silent
                      /\ record.verified \subseteq guest.certs
                      /\ ~changed =>
                           /\ \A a \in Closure(world.apps, Elements(request.apps)) :
                                /\ a \in guest.installed \cup guest.silent
                                /\ RowsNamed(world.apps[a].name) \cap guest.installed # {}
                           /\ Selected \subseteq guest.certs
    BY DEF CompletedIsDelivered
  <2>1. job.stage = 13 /\ guest.reported
    BY DEF DeliveryInv, DoneInv
  <2>2. OrderInv /\ CertInv
    BY DEF DeliveryInv
  <2>3. guest.installed \subseteq Apps
    BY DEF DeliveryInv, Types, GuestType
  <2>4. ASSUME ~changed, NEW a \in Elements(record.order)
        PROVE  RowsNamed(world.apps[a].name) \cap guest.installed # {}
    BY <2>1, <2>2, <2>3, <2>4 DEF OrderInv, RowsNamed
  <2> QED  BY <2>1, <2>2, <2>4 DEF OrderInv, CertInv
<1> QED  BY <1>1, DeliveryInvariant, PTL

\* A retry repeats no installation, unless an installer outlived its attempt
\* or its detection rule does not match (services/applications/installer.py).
THEOREM WorkIsNotRepeated == Spec => []NoRepeatedWork
<1>1. DeliveryInv => NoRepeatedWork
  BY DEF DeliveryInv, InstallInv, NoRepeatedWork
<1> QED  BY <1>1, DeliveryInvariant, PTL

-----------------------------------------------------------------------------
(* What the preflight promises *)

\* Until a change, the later checks find what the preflight found.
LEMMA StillReady ==
    ASSUME DeliveryInv, ~changed, job.status = "running"
    PROVE  /\ {"vcenter_row", "vcenter", "credentials"} \cap world.broken = {}
           /\ ValidRequest(request, world) /\ ValidInfrastructure(request, world)
           /\ PlacementDatastores(request, world) # {}
           /\ \A s \in PlacementDatastores(request, world) : AdapterAccepts(request, world, s)
           /\ request.static => ~ConflictDetected(world, {"icmp", "inventory"})
           /\ Installable(world.apps, Elements(request.apps))
<1>1. PreflightFailures(request, world) = {} /\ request \in Request /\ world \in World
  BY DEF DeliveryInv, AcceptedInv, Accepted, Types
<1>2. /\ "vcenter_row" \notin world.broken /\ "vcenter" \notin world.broken /\ "name" \notin world.broken
      /\ DatacenterFound(world) /\ ClusterFound(world) /\ NetworkFound(world)
      /\ HostUsable(request, world) /\ PoolFound(request, world) /\ CheckStorage(request, world)
      /\ IsoFound(world) /\ world.stores[world.iso].listed
  BY <1>1, ReadyRequest, ReadyInfrastructure
<1>3. /\ "policy" \notin world.broken /\ "credentials" \notin world.broken
      /\ request.static => ~ConflictDetected(world, {"icmp", "dns", "inventory"})
      /\ \A a \in Elements(request.apps) : world.apps[a].exists
      /\ SelectedRows(request, world) # {} =>
           "roots" \notin world.broken /\ SelectedRows(request, world) \cap world.outside = {}
  BY <1>1, ReadyRequest
<1>4. ValidRequest(request, world)
  <2>1. request.apps # <<>> => SelectedRows(request, world) # {}
    <3>1. request.apps \in Seq(Apps)
      BY <1>1, RequestFields
    <3>2. request.apps # <<>> => 1 \in DOMAIN request.apps
      BY <3>1
    <3> QED  BY <1>3, <3>2 DEF SelectedRows, Elements
  <2> QED  BY <1>3, <2>1 DEF ValidRequest
<1>5. ASSUME NEW s \in PlacementDatastores(request, world)
      PROVE  s \in Stores /\ HasRoom(world, s, request.size)
  <2>1. CASE request.store # Automatic
    BY <1>1, <1>2, <1>5, <2>1, RequestFields DEF PlacementDatastores, CheckStorage
  <2>2. CASE request.store = Automatic
    BY <1>1, <1>5, <2>2, AutomaticHasRoom DEF PlacementDatastores
  <2> QED  BY <2>1, <2>2
<1>6. PlacementDatastores(request, world) # {}
  BY <1>2 DEF PlacementDatastores, CheckStorage
<1>7. ValidInfrastructure(request, world)
  <2>1. IF request.store # Automatic THEN HasRoom(world, request.store, request.size)
        ELSE \E s \in Stores : HasRoom(world, s, request.size)
    BY <1>2, <1>5, <1>6 DEF CheckStorage
  <2> QED  BY <1>2, <2>1 DEF ValidInfrastructure
<1>8. ASSUME NEW s \in PlacementDatastores(request, world)
      PROVE  AdapterAccepts(request, world, s)
  <2>1. HasRoom(world, s, request.os)
    BY <1>1, <1>5, RequestFields, RoomForLess
  <2> QED  BY <1>2, <2>1 DEF AdapterAccepts, IsoFound
<1>9. request.static => ~ConflictDetected(world, {"icmp", "inventory"})
  BY <1>3 DEF ConflictDetected
<1>10. Installable(world.apps, Elements(request.apps))
  BY EntriesExist DEF Accepted
<1> QED  BY <1>2, <1>3, <1>4, <1>6, <1>7, <1>8, <1>9, <1>10

\* No two rows of a catalog that exist have one name.
DistinctNames(nodes) ==
    \A a, b \in Apps : nodes[a].exists /\ nodes[b].exists /\ nodes[a].name = nodes[b].name => a = b

\* The refusals that are left: what the preflight cannot see.
Unforeseen ==
    \/ /\ Key \in {"install_root_certificates", "install_intermediate_certificates"}
       /\ \E c \in Selected : world.certs[c].expired
    \/ Key = "validate_certificates" /\ guest.digest # "sha256"
    \/ Key = "configure_guest_network" /\ guest.address
    \/ Key = "validate_network" /\ "gateway" \in world.broken
    \/ Key = "validate_applications" /\ Unrecognised # {}
    \/ Key = "final_validation" /\ (\/ ~guest.reported
                                      \/ "edition" \in world.broken
                                      \/ ~NameServersConfigured)

Refused == job.status = "running" /\ job'.why = "refused" /\ ~changed

\* A stage that is done, or that a fault stops, refuses nothing.
LEMMA OnlyRefuse ==
    ASSUME DeliveryInv, Refused
    PROVE  ~Advance /\ ~Break /\ job' # job
<1>1. job \in JobType /\ budget \in BudgetType /\ job.why = ""
  BY DEF DeliveryInv, Types, ReasonInv, Refused
<1> QED  BY <1>1, Moves DEF Passed, Refused

\* The stages up to the VM.
LEMMA RefusedEarly ==
    ASSUME DeliveryInv, Refused, ValidateRequest \/ ConnectVcenter \/ ValidateInfrastructure \/ CreateVm
    PROVE  FALSE
<1>1. ~Advance /\ ~Break /\ ~changed /\ job.status = "running"
  BY OnlyRefuse DEF Refused
<1>2. CASE ValidateRequest
  BY <1>1, <1>2, StillReady DEF ValidateRequest, Verdict
<1>3. CASE ConnectVcenter
  BY <1>1, <1>3, StillReady DEF ConnectVcenter, Verdict
<1>4. CASE ValidateInfrastructure
  BY <1>1, <1>4, StillReady DEF ValidateInfrastructure, Verdict
<1>5. CASE CreateVm
  BY <1>1, <1>5, StillReady DEF CreateVm
<1> QED  BY <1>2, <1>3, <1>4, <1>5

\* The stages of the address, and the last one.
LEMMA RefusedAddress ==
    ASSUME DeliveryInv, Refused, ConfigureGuestNetwork \/ ValidateNetwork \/ FinalValidation
    PROVE  Unforeseen
<1>1. ~Advance /\ ~Break /\ ~changed /\ job.status = "running"
  BY OnlyRefuse DEF Refused
<1>2. CASE ConfigureGuestNetwork
  <2>1. Key = "configure_guest_network" /\ Claimed
    BY <1>1, <1>2 DEF ConfigureGuestNetwork, At
  <2> QED  BY <1>1, <2>1, StillReady DEF Claimed, Unforeseen
<1>3. CASE ValidateNetwork
  BY <1>1, <1>3 DEF ValidateNetwork, Verdict, At, Unforeseen
<1>4. CASE FinalValidation
  BY <1>1, <1>4 DEF FinalValidation, Verdict, At, Unforeseen
<1> QED  BY <1>2, <1>3, <1>4

\* A deployment refuses an expired certificate only.
LEMMA RefusedDeployment ==
    ASSUME DeliveryInv, Refused, NEW type \in CertificateTypes, DeployCertificates(type)
    PROVE  \E c \in Selected : world.certs[c].expired
<1>1. ~Advance /\ ~Break
  BY OnlyRefuse
<1>2. Verdict(Wanted(type) = Unexpired(type))
  BY <1>1 DEF DeployCertificates
<1>3. Wanted(type) # Unexpired(type)
  BY <1>1, <1>2 DEF Verdict
<1>4. \E c \in Wanted(type) : world.certs[c].expired
  BY <1>3 DEF Unexpired
<1> QED  BY <1>4 DEF Selected, CertificateTypes

\* What is deployed is found again by the validation, if thumbprints can be compared.
LEMMA RefusedCertificates ==
    ASSUME DeliveryInv, DeployedInv, Refused,
           InstallRootCertificates \/ InstallIntermediateCertificates \/ ValidateCertificates
    PROVE  Unforeseen
<1>0. Types
  BY DEF DeliveryInv
<1>1. CASE InstallRootCertificates
  <2>1. Key = "install_root_certificates" /\ DeployCertificates("ROOT")
    BY <1>1 DEF InstallRootCertificates, At
  <2> QED  BY <2>1, RefusedDeployment DEF CertificateTypes, Unforeseen
<1>2. CASE InstallIntermediateCertificates
  <2>1. Key = "install_intermediate_certificates" /\ DeployCertificates("INTERMEDIATE")
    BY <1>2 DEF InstallIntermediateCertificates, At
  <2> QED  BY <2>1, RefusedDeployment DEF CertificateTypes, Unforeseen
<1>3. CASE ValidateCertificates
  <2>1. job.stage = 9 /\ ~changed
    BY <1>0, <1>3, ValidateCertificatesEffect DEF Refused
  <2>2. Selected \subseteq guest.certs
    BY <2>1 DEF DeployedInv, Selected
  <2>3. Key = "validate_certificates" /\ ~(\A c \in Selected : Present(c))
    BY <1>3, OnlyRefuse DEF ValidateCertificates, At
  <2>4. guest.digest # "sha256"
    BY <2>2, <2>3 DEF Present
  <2> QED  BY <2>3, <2>4 DEF Unforeseen
<1> QED  BY <1>1, <1>2, <1>3

\* What the preflight resolves is found in the catalog, and in the guest unless
\* an installer left it undetected.
LEMMA RefusedApplications ==
    ASSUME DeliveryInv, DistinctNames(world.apps), Refused,
           ResolveDependencies \/ StartInstalls \/ ProbeApplication \/ RunInstaller \/ FinishInstalls
             \/ ValidateApplications
    PROVE  Unforeseen
<1>0. /\ Types /\ LoopInv /\ OrderInv /\ ~changed /\ job.status = "running" /\ job.why = ""
      /\ ~Advance /\ job' # job
  BY OnlyRefuse DEF DeliveryInv, ReasonInv, Refused
<1>1. CASE ResolveDependencies
  BY <1>0, <1>1, StillReady DEF ResolveDependencies
<1>2. CASE StartInstalls
  BY <1>0, <1>2 DEF StartInstalls
<1>3. CASE ProbeApplication \/ RunInstaller
  BY <1>0, <1>3 DEF ProbeApplication, RunInstaller
<1>4. CASE FinishInstalls
  <2>1. loop.on /\ (Passed \/ (loop.failed # {} /\ "fault" \notin loop.failed))
    BY <1>0, <1>4, FinishInstallsEffect DEF Refused
  <2>2. "missing" \notin loop.failed /\ loop.failed \in SUBSET {"missing", "fault"}
    BY <1>0, <2>1 DEF LoopInv, Types, LoopType
  <2> QED  BY <1>0, <2>1, <2>2 DEF Passed, Refused
<1>5. CASE ValidateApplications
  <2>1. job.stage > 11
    <3>1. job.stage = 12 /\ job.stage \in 1 .. 13
      BY <1>0, <1>5, StageOf, StageNumbers DEF ValidateApplications
    <3>2. \A i \in 1 .. 13 : i = 12 => i > 11
      OBVIOUS
    <3> QED  BY <3>1, <3>2
  <2>2. PICK n \in record.outcomes : RowsNamed(n) = {} \/ ~(RowsNamed(n) \subseteq guest.installed)
    BY <1>0, <1>5 DEF ValidateApplications
  <2>3. PICK a \in Elements(record.order) : world.apps[a].exists /\ world.apps[a].name = n
    BY <1>0, <2>1, <2>2 DEF OrderInv
  <2>4. a \in Apps /\ a \in guest.installed \cup guest.silent
    BY <1>0, <2>1, <2>3, OrderEntries DEF OrderInv
  <2>5. RowsNamed(n) = {a}
    BY <2>3, <2>4 DEF RowsNamed, DistinctNames
  <2>6. a \in Unrecognised
    BY <2>2, <2>4, <2>5 DEF Unrecognised
  <2>7. Key = "validate_applications"
    BY <1>5 DEF ValidateApplications, At
  <2> QED  BY <2>6, <2>7 DEF Unforeseen
<1> QED  BY <1>1, <1>2, <1>3, <1>4, <1>5

\* Nothing that a stage needs is broken.
LEMMA RefusedBreak ==
    ASSUME DeliveryInv, Refused, StageBreaks
    PROVE  FALSE
<1>1. Types /\ LoopInv /\ ~changed /\ job.status = "running"
  BY DEF DeliveryInv, Refused
<1>2. Needs \cap world.broken # {}
  BY <1>1, StageBreaksEffect DEF Refused
<1>3. Needs \subseteq {"vcenter_row", "vcenter", "credentials"}
  BY DEF Needs
<1> QED  BY <1>1, <1>2, <1>3, StillReady

\* A request that the preflight reports as ready is refused later only by
\* what the preflight cannot see, if the catalog has no two applications of
\* one name: the checks of stage_validate_infrastructure, of the placement, of
\* the adapter and of the resolver ask for no more than the report did.
THEOREM ReadyRequestsAreAccepted ==
    (\A s \in Scenarios : DistinctNames(s.world.apps)) => (Spec => ReadyIsAccepted)
<1> SUFFICES ASSUME \A s \in Scenarios : DistinctNames(s.world.apps)
             PROVE  Spec => ReadyIsAccepted
  OBVIOUS
<1>1. Init => DeployedInv /\ ScenarioInv
  BY InitDelivery
<1>2. DeliveryInv /\ DeployedInv /\ ScenarioInv /\ [Next]_vars => DeployedInv' /\ ScenarioInv'
  BY DeployedStep, ScenarioStep
<1>3. DeliveryInv /\ DeployedInv /\ ScenarioInv /\ [Next]_vars => [Refused => Unforeseen]_vars
  <2> SUFFICES ASSUME DeliveryInv, DeployedInv, ScenarioInv, Next, Refused PROVE Unforeseen
    OBVIOUS
  <2>1. DistinctNames(world.apps)
    BY DEF ScenarioInv, Refused
  <2>2. job.status = "running" /\ job' # job
    BY OnlyRefuse DEF Refused
  <2>3. CASE Submit \/ Retry
    BY <2>2, <2>3 DEF Submit, Retry
  <2>4. CASE ToolsReport \/ LateInstall
    BY <2>2, <2>4 DEF ToolsReport, LateInstall
  <2>5. CASE Edits
    BY <2>2, <2>5, EditsEffect DEF DeliveryInv
  <2>6. CASE Stage
    BY <2>1, <2>6, RefusedEarly, RefusedAddress, RefusedCertificates, RefusedApplications DEF Stage
  <2>7. CASE StageBreaks
    BY <2>7, RefusedBreak
  <2> QED  BY <2>3, <2>4, <2>5, <2>6, <2>7 DEF Next, Edits
<1>4. (Refused => Unforeseen) <=>
        (job.status = "running" /\ job'.why = "refused" /\ ~changed =>
          \/ /\ Key \in {"install_root_certificates", "install_intermediate_certificates"}
             /\ \E c \in Selected : world.certs[c].expired
          \/ Key = "validate_certificates" /\ guest.digest # "sha256"
          \/ Key = "configure_guest_network" /\ guest.address
          \/ Key = "validate_network" /\ "gateway" \in world.broken
          \/ Key = "validate_applications" /\ Unrecognised # {}
          \/ Key = "final_validation" /\ (\/ ~guest.reported
                                            \/ "edition" \in world.broken
                                            \/ ~NameServersConfigured))
  BY DEF Refused, Unforeseen
<1> QED  BY <1>1, <1>2, <1>3, <1>4, DeliveryInvariant, PTL DEF Spec, ReadyIsAccepted
=============================================================================
