--------------------------- MODULE MCInstallOrder ----------------------------
(* All catalogs of a few applications. *)
EXTENDS InstallOrder

\* Alphabetical order differs from the order of the ids.
NameOf(a) == (a + 2) % Cardinality(Apps)

\* The table forbids an edge from an application to itself.
AllCatalogs ==
    {[a \in Apps |-> [exists |-> a \in present, name |-> NameOf(a), enabled |-> a \in usable, deps |-> d[a]]] :
        present \in SUBSET Apps,
        usable \in SUBSET Apps,
        d \in {f \in [Apps -> SUBSET Apps] : \A a \in Apps : a \notin f[a]}}

\* One, two (in either order) and a repeated application.
SomeSelections == {<<0>>, <<1, 2>>, <<2, 1>>, <<1, 1>>}
=============================================================================
