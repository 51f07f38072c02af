------------------------------ MODULE Preflight ------------------------------
(***************************************************************************)
(* What is decided about a request before anything is built: the schema's  *)
(* validators, the preflight report of services/provisioning/preflight.py  *)
(* and the checks that the first pipeline stages repeat.  All operators    *)
(* are functions of a request and of the world at the moment of the call;  *)
(* Delivery runs them at different moments.                                *)
(*                                                                         *)
(* An IPv4 address is a number of Bits bits; the code's 8..32 prefixes are *)
(* MinPrefix..Bits.                                                        *)
(***************************************************************************)
EXTENDS Dependencies

CONSTANTS
    Hosts,         \* ESXi hosts
    Stores,        \* datastores, known by their names
    Automatic,     \* "no host" or "no datastore" in a request
    Certs,         \* certificates that may be registered in the selected package
    Bits,
    MinPrefix

ASSUME PreflightAssumption ==
    /\ Automatic \notin Hosts \cup Stores
    /\ Bits \in Nat /\ MinPrefix \in 0 .. Bits

\* Laws of exponents that the provers do not know.
ASSUME PowersAssumption ==
    \A k \in 0 .. Bits : 2 ^ k \in Nat \ {0} /\ 2 ^ k * 2 ^ (Bits - k) = 2 ^ Bits

\* What is checked as a whole: it is in order, or broken.
Parts ==
    {"vcenter_row", "vcenter", "datacenter", "cluster", "pool", "network", "iso", "media",
     "policy", "name", "roots", "credentials", "product_key", "gateway", "edition"}

\* What may sit on the requested address: a device that answers ICMP, a VM
\* known to vCenter, only a PTR record, or a device that no source sees.
Holders == {"nobody", "answers", "registered", "ptr", "silent"}

Addresses == 0 .. (2 ^ Bits - 1)

Ipv4Config == [address : Addresses, prefix : 0 .. Bits, gateway : Addresses, dns : Seq(Addresses)]

\* os is the size of the OS disk, size that of all disks.
Request ==
    {r \in [host : Hosts \cup {Automatic}, pool : BOOLEAN,
            store : Stores \cup {Automatic}, os : Nat, size : Nat,
            static : BOOLEAN, ipv4 : Ipv4Config, apps : Seq(Apps), certs : BOOLEAN] : r.os <= r.size}

\* What get_hosts and check_host_https tell of a host.
HostState == [listed : BOOLEAN, available : BOOLEAN, https : BOOLEAN]

\* What get_datastores tells of a datastore.
StoreState == [listed : BOOLEAN, accessible : BOOLEAN, free : Nat]

CertificateTypes == {"ROOT", "INTERMEDIATE"}

CertificateRow == [listed : BOOLEAN, enabled : BOOLEAN, type : CertificateTypes, expired : BOOLEAN]

PackageStates == {"enabled", "disabled", "missing"}

World ==
    [broken    : SUBSET Parts,
     hosts     : [Hosts -> HostState],
     stores    : [Stores -> StoreState],
     iso       : Stores,            \* datastore of the selected image
     preferred : Seq(Stores),       \* setting preferred_datastores
     holder    : Holders,
     apps      : Catalog,
     outside   : SUBSET Apps,       \* installer path not within an approved root
     package   : PackageStates,
     certs     : [Certs -> CertificateRow]]

Fails(code, condition) == IF condition THEN {code} ELSE {}

-----------------------------------------------------------------------------
(* IPv4: schemas/provisioning.py and services/network/validation.py *)

BlockSize(prefix) == 2 ^ (Bits - prefix)

NetworkAddress(a, prefix) == a - (a % BlockSize(prefix))

BroadcastAddress(a, prefix) == NetworkAddress(a, prefix) + BlockSize(prefix) - 1

SupportedPrefix(prefix) == MinPrefix <= prefix /\ prefix <= Bits

NoDuplicates(s) == \A i, j \in DOMAIN s : s[i] = s[j] => i = j

\* Ipv4Config._validate_addresses
SchemaAccepts(ip) ==
    /\ SupportedPrefix(ip.prefix)
    /\ ip.address # NetworkAddress(ip.address, ip.prefix)
    /\ ip.address # BroadcastAddress(ip.address, ip.prefix)
    /\ NetworkAddress(ip.gateway, ip.prefix) = NetworkAddress(ip.address, ip.prefix)
    /\ ip.gateway # ip.address
    /\ NoDuplicates(ip.dns)

\* validate_static_ipv4 returns no issue.
validate_static_ipv4(ip) ==
    /\ SupportedPrefix(ip.prefix)
    /\ ip.address # NetworkAddress(ip.address, ip.prefix)
    /\ ip.address # BroadcastAddress(ip.address, ip.prefix)
    /\ NetworkAddress(ip.gateway, ip.prefix) = NetworkAddress(ip.address, ip.prefix)
    /\ ip.gateway # NetworkAddress(ip.address, ip.prefix)
    /\ ip.gateway # BroadcastAddress(ip.address, ip.prefix)
    /\ ip.gateway # ip.address
    /\ \A i \in DOMAIN ip.dns : ip.dns[i] \notin {0, 2 ^ Bits - 1}
    /\ NoDuplicates(ip.dns)

\* IcmpPingProvider
IcmpConflict(w) == w.holder = "answers"

\* DnsForwardProvider
DnsConflict(w) == w.holder = "ptr"

\* VMwareInventoryProvider; an error is not a conflict.
InventoryConflict(w) == w.holder = "registered" /\ "vcenter" \notin w.broken

\* run_conflict_check with these providers
ConflictDetected(w, providers) ==
    \/ "icmp" \in providers /\ IcmpConflict(w)
    \/ "dns" \in providers /\ DnsConflict(w)
    \/ "inventory" \in providers /\ InventoryConflict(w)

-----------------------------------------------------------------------------
(* Storage: services/provisioning/placement.py *)

HasRoom(w, s, size) ==
    w.stores[s].listed /\ w.stores[s].accessible /\ w.stores[s].free >= size

\* The datastores that choose_automatic_datastore may return: the first of
\* the preferred list that fits, or, without a list, one with the most room.
choose_automatic_datastore(w, size) ==
    IF w.preferred = <<>>
    THEN {s \in Stores : /\ HasRoom(w, s, size)
                         /\ \A t \in Stores : HasRoom(w, t, size) => w.stores[t].free <= w.stores[s].free}
    ELSE {w.preferred[i] : i \in {k \in DOMAIN w.preferred :
                                     /\ HasRoom(w, w.preferred[k], size)
                                     /\ \A j \in 1 .. (k - 1) : ~HasRoom(w, w.preferred[j], size)}}

CheckStorage(r, w) ==
    IF r.store # Automatic THEN HasRoom(w, r.store, r.size)
    ELSE choose_automatic_datastore(w, r.size) # {}

-----------------------------------------------------------------------------
(* The inventory, as the preflight, the stages and the adapter look it up *)

DatacenterFound(w) == "datacenter" \notin w.broken

ClusterFound(w) == "cluster" \notin w.broken

PoolFound(r, w) == r.pool => "pool" \notin w.broken

NetworkFound(w) == "network" \notin w.broken

\* get_isos browses the accessible datastores of the datacenter.
IsoFound(w) == "iso" \notin w.broken /\ w.stores[w.iso].accessible

HostUsable(r, w) == \A h \in Hosts : r.host = h => w.hosts[h].listed /\ w.hosts[h].available

-----------------------------------------------------------------------------
(* The preflight report: the codes that fail and block *)

CheckVcenter(w) == Fails("vcenter", {"vcenter_row", "vcenter"} \cap w.broken # {})

\* Hosts that VMware Tools transfers may go to; with none of them the check
\* is left out.
TransferHosts(r, w) ==
    IF r.host # Automatic THEN {h \in {r.host} : w.hosts[h].listed}
    ELSE {h \in Hosts : w.hosts[h].listed /\ w.hosts[h].available}

CheckHostFileTransfers(r, w) == Fails("esxi_https", \E h \in TransferHosts(r, w) : ~w.hosts[h].https)

CheckIso(w) == Fails("iso", ~IsoFound(w) \/ ~w.stores[w.iso].listed)

\* The volume label of the image is read only when the image is there.
CheckWindowsServerMedia(w) == Fails("windows_media", CheckIso(w) = {} /\ "media" \in w.broken)

\* _check_infrastructure: an error or a missing parent ends the section.
CheckInfrastructure(r, w) ==
    IF "vcenter" \in w.broken THEN {"infrastructure"}
    ELSE IF ~DatacenterFound(w) THEN {"datacenter"}
    ELSE IF ~ClusterFound(w) THEN {"cluster"}
    ELSE UNION {
        Fails("host", ~HostUsable(r, w)),
        CheckHostFileTransfers(r, w),
        Fails("resource_pool", ~PoolFound(r, w)),
        Fails("storage", ~CheckStorage(r, w)),
        Fails("network", ~NetworkFound(w)),
        CheckIso(w),
        CheckWindowsServerMedia(w)}

\* A policy that is no regular expression cannot be saved (schemas/admin.py).
CheckNamePolicy(w) == Fails("name_policy", "policy" \in w.broken)

CheckNameUnique(w) == Fails("vm_name_unique", {"vcenter", "name"} \cap w.broken # {})

CheckAddress(r, w) ==
    IF ~r.static THEN {}
    ELSE UNION {
        Fails("ip_syntax", ~validate_static_ipv4(r.ipv4)),
        Fails("ip_conflict", /\ validate_static_ipv4(r.ipv4)
                             /\ "vcenter_row" \notin w.broken
                             /\ ConflictDetected(w, {"icmp", "dns", "inventory"}))}

CheckCertificates(r, w) ==
    Fails("certificates", /\ r.certs
                          /\ \/ w.package # "enabled"
                             \/ \A c \in Certs : ~(w.certs[c].listed /\ w.certs[c].enabled))

\* The preflight gives the resolver the enabled rows only.
EnabledOnly(nodes) == [a \in Apps |-> [nodes[a] EXCEPT !.exists = @ /\ nodes[a].enabled]]

\* Without the resolver: only the selected rows are looked at.
CheckSelectedRows(r, w) ==
    Fails("applications", \E a \in Elements(r.apps) : ~w.apps[a].exists \/ ~w.apps[a].enabled)

CheckApplications(r, w) ==
    Fails("applications",
          \/ \E a \in Elements(r.apps) : ~w.apps[a].exists \/ ~w.apps[a].enabled
          \/ ~Installable(EnabledOnly(w.apps), Elements(r.apps)))

\* Paths are checked for the selected applications, not for what they need.
SelectedRows(r, w) == {a \in Elements(r.apps) : w.apps[a].exists}

CheckInstallerRoots(r, w) ==
    Fails("installer_policy",
          SelectedRows(r, w) # {} /\ ("roots" \in w.broken \/ SelectedRows(r, w) \cap w.outside # {}))

CheckProductKey(w) == Fails("product_key", "product_key" \in w.broken)

CheckCredentials(w) == Fails("credentials", "credentials" \in w.broken)

\* PreflightValidator.validate; the report is ready when this is empty.
PreflightFailures(r, w) == UNION {
    CheckVcenter(w),
    IF "vcenter_row" \in w.broken THEN {} ELSE CheckInfrastructure(r, w) \cup CheckNameUnique(w),
    CheckNamePolicy(w),
    CheckAddress(r, w),
    CheckCertificates(r, w),
    CheckApplications(r, w),
    CheckInstallerRoots(r, w),
    CheckProductKey(w),
    CheckCredentials(w)}

-----------------------------------------------------------------------------
(* What the first stages of the job check again *)

\* stage_validate_request (rival jobs are in Submission).
ValidRequest(r, w) ==
    /\ "policy" \notin w.broken
    /\ r.apps # <<>> => "roots" \notin w.broken /\ SelectedRows(r, w) \cap w.outside = {}

\* stage_validate_infrastructure: the automatic choice is not repeated, any
\* accessible datastore with room will do.
ValidInfrastructure(r, w) ==
    /\ DatacenterFound(w) /\ ClusterFound(w) /\ NetworkFound(w)
    /\ HostUsable(r, w)
    /\ PoolFound(r, w)
    /\ IF r.store # Automatic THEN HasRoom(w, r.store, r.size)
       ELSE \E s \in Stores : HasRoom(w, s, r.size)
    /\ IsoFound(w) /\ w.stores[w.iso].listed

\* With the size of the OS disk instead of the sum.
PlacementForOsDisk(r, w) ==
    IF r.store # Automatic THEN {r.store} ELSE choose_automatic_datastore(w, r.os)

\* _placement_datastore: the datastores create_vm may use.  A selected one
\* is taken as it is.
PlacementDatastores(r, w) ==
    IF r.store # Automatic THEN {r.store} ELSE choose_automatic_datastore(w, r.size)

\* The checks of the adapter's create_vm: room for the OS disk only; of the
\* image the datastore and not the file.
AdapterAccepts(r, w, s) ==
    /\ "name" \notin w.broken
    /\ DatacenterFound(w) /\ ClusterFound(w)
    /\ HostUsable(r, w)
    /\ PoolFound(r, w)
    /\ HasRoom(w, s, r.os)
    /\ w.stores[w.iso].listed /\ w.stores[w.iso].accessible
=============================================================================
