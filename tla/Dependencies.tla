---------------------------- MODULE Dependencies -----------------------------
(***************************************************************************)
(* The application catalog as the resolver sees it (AppNode of             *)
(* services/applications/resolver.py) and what "an installation order of a *)
(* selection" means, stated without an algorithm.  InstallOrder shows that *)
(* the algorithm computes it; Preflight and Delivery rely on it.           *)
(*                                                                         *)
(* Application ids are naturals in the order of str(id); names are         *)
(* naturals in their alphabetical order.                                   *)
(***************************************************************************)
EXTENDS Naturals, Sequences, FiniteSets

CONSTANTS Apps     \* ids that a selection or a dependency may mention

ASSUME AppsAssumption == Apps \subseteq Nat /\ IsFiniteSet(Apps)

\* exists: the id is a key of the dictionary that the resolver is given.
AppNode == [exists : BOOLEAN, name : Nat, enabled : BOOLEAN, deps : SUBSET Apps]

Catalog == [Apps -> AppNode]

Elements(s) == {s[i] : i \in DOMAIN s}

Closed(nodes, S) == \A a \in S : nodes[a].exists => nodes[a].deps \subseteq S

\* The ids that T needs: the least set with T that is closed.
Closure(nodes, T) ==
    {a \in Apps : \A S \in SUBSET Apps : T \subseteq S /\ Closed(nodes, S) => a \in S}

OnCycle(nodes, a) == nodes[a].exists /\ a \in Closure(nodes, nodes[a].deps)

Acyclic(nodes) == \A a \in Apps : ~OnCycle(nodes, a)

\* What can be installed: nothing that T needs is missing, disabled or on a cycle.
Installable(nodes, T) ==
    \A a \in Closure(nodes, T) : nodes[a].exists /\ nodes[a].enabled /\ ~OnCycle(nodes, a)

\* Every element once, after everything it depends on.
DependenciesFirst(nodes, s) ==
    \A i \in DOMAIN s : nodes[s[i]].deps \subseteq {s[j] : j \in 1 .. (i - 1)}

IsInstallOrder(nodes, T, s) ==
    /\ Elements(s) = Closure(nodes, T)
    /\ Len(s) = Cardinality(Elements(s))
    /\ DependenciesFirst(nodes, s)
=============================================================================
