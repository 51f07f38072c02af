----------------------------- MODULE MCDelivery ------------------------------
(* Families of scenarios: each varies one aspect of the request and of the   *)
(* world and leaves the rest in order; the last two have faults and changes. *)
EXTENDS Delivery

MCHosts == {"h1", "h2"}
MCStores == {"fast", "slow"}
MCCerts == {"root", "sub"}

Row(n, d) == [exists |-> TRUE, name |-> n, enabled |-> TRUE, deps |-> d]

GoodHost == [listed |-> TRUE, available |-> TRUE, https |-> TRUE]

Cert(t) == [listed |-> TRUE, enabled |-> TRUE, type |-> t, expired |-> FALSE]

GoodWorld ==
    [broken    |-> {},
     hosts     |-> [h \in Hosts |-> GoodHost],
     stores    |-> [s \in Stores |-> [listed |-> TRUE, accessible |-> TRUE, free |-> 2]],
     iso       |-> "slow",
     preferred |-> <<"fast">>,
     holder    |-> "nobody",
     apps      |-> [a \in Apps |-> NoRow],
     outside   |-> {},
     package   |-> "enabled",
     certs     |-> [root |-> Cert("ROOT"), sub |-> Cert("INTERMEDIATE")]]

Plain ==
    [host |-> Automatic, pool |-> FALSE, store |-> Automatic, os |-> 1, size |-> 2,
     static |-> FALSE, ipv4 |-> [address |-> 1, prefix |-> 0, gateway |-> 2, dns |-> <<>>],
     apps |-> <<>>, certs |-> FALSE]

\* Only requests with certificates tell the digests apart.
Quiet(r, w) == [request |-> r, world |-> w, digest |-> "sha1", faults |-> 0, changes |-> 0]

OnMock(s) == [s EXCEPT !.digest = "sha256"]

\* Up to two broken parts.
BrokenParts ==
    {Quiet([Plain EXCEPT !.pool = p], [GoodWorld EXCEPT !.broken = {x, y}]) :
        p \in BOOLEAN, x \in Parts, y \in Parts}

\* Two hosts in all states.
HostChoices ==
    {Quiet([Plain EXCEPT !.host = h], [GoodWorld EXCEPT !.hosts = f]) :
        h \in Hosts \cup {Automatic}, f \in [Hosts -> HostState]}

\* Two datastores in all states, all lists, all choices.
StoreStates == {[listed |-> l, accessible |-> a, free |-> n] : l \in BOOLEAN, a \in BOOLEAN, n \in 0 .. 2}

StorageChoices ==
    {Quiet([Plain EXCEPT !.store = s, !.size = n], [GoodWorld EXCEPT !.stores = f, !.preferred = p]) :
        s \in Stores \cup {Automatic}, n \in 1 .. 2, f \in [Stores -> StoreStates],
        p \in {<<>>, <<"fast">>, <<"slow", "fast">>, <<"fast", "fast", "slow">>}}

\* All addresses, prefixes and gateways.
AddressChoices ==
    {Quiet([Plain EXCEPT !.static = TRUE, !.ipv4 = [address |-> a, prefix |-> p, gateway |-> g, dns |-> d]], GoodWorld) :
        a \in Addresses, p \in 0 .. Bits, g \in Addresses, d \in {<<>>, <<0>>, <<1, 1>>, <<1, 2>>}}

Static == [Plain EXCEPT !.static = TRUE, !.ipv4 = [address |-> 1, prefix |-> MinPrefix, gateway |-> 2, dns |-> <<3>>]]

AddressHolders ==
    {Quiet(Static, [GoodWorld EXCEPT !.holder = h, !.broken = b]) : h \in Holders, b \in {{}, {"vcenter"}, {"vcenter_row"}}}

\* All catalogs that the administration accepts; rows that others need may be disabled.
AdminCatalogs ==
    {n \in {[a \in Apps |-> [exists |-> a \in present, name |-> a, enabled |-> a \in usable,
                             deps |-> IF a \in present THEN d[a] ELSE {}]] :
               present \in SUBSET Apps, usable \in SUBSET Apps, d \in [Apps -> SUBSET Apps]} :
        ValidDependencies(n)}

CatalogChoices ==
    {Quiet([Plain EXCEPT !.apps = s], [GoodWorld EXCEPT !.apps = n, !.outside = o]) :
        s \in {<<0>>, <<2, 1>>}, n \in AdminCatalogs, o \in {{}, {1}}}
    \cup {Quiet([Plain EXCEPT !.apps = <<0>>], [GoodWorld EXCEPT !.apps = n, !.broken = {"roots"}]) :
        n \in {[a \in Apps |-> NoRow], [a \in Apps |-> Row(a, {})]}}

CertificateChoices ==
    {Quiet([Plain EXCEPT !.certs = TRUE], [GoodWorld EXCEPT !.package = p, !.certs = f]) :
        p \in {"enabled", "disabled", "missing"},
        f \in [Certs -> {[listed |-> l, enabled |-> e, type |-> t, expired |-> x] :
                             l \in BOOLEAN, e \in BOOLEAN, x \in BOOLEAN, t \in CertificateTypes}]}

\* Application 0 needs application 1; names are not in the order of the ids.
TwoApps == [a \in Apps |-> CASE a = 0 -> Row(1, {1}) [] a = 1 -> Row(0, {}) [] OTHER -> NoRow]

Everything == [Static EXCEPT !.apps = <<0>>, !.certs = TRUE]

Faulty ==
    {[request |-> Everything, world |-> [GoodWorld EXCEPT !.apps = TwoApps], digest |-> "sha256",
      faults |-> 2, changes |-> 0],
     [request |-> [Everything EXCEPT !.certs = FALSE], world |-> [GoodWorld EXCEPT !.apps = TwoApps], digest |-> "sha1",
      faults |-> 2, changes |-> 0]}

Edited ==
    {[request |-> [Static EXCEPT !.apps = <<0>>], world |-> [GoodWorld EXCEPT !.apps = TwoApps],
      digest |-> "sha1", faults |-> 1, changes |-> 1],
     [request |-> [Plain EXCEPT !.certs = TRUE], world |-> [GoodWorld EXCEPT !.certs["sub"].listed = FALSE],
      digest |-> "sha256", faults |-> 0, changes |-> 2]}

\* Certificates on a Windows guest, with one lost answer.
OnWindows ==
    {[request |-> [Plain EXCEPT !.certs = TRUE], world |-> GoodWorld, digest |-> "sha1", faults |-> 1, changes |-> 0]}

AllScenarios ==
    UNION {BrokenParts, HostChoices, StorageChoices, AddressChoices, AddressHolders,
           CatalogChoices, CertificateChoices, {OnMock(s) : s \in CertificateChoices},
           OnWindows, Faulty, Edited}
=============================================================================
