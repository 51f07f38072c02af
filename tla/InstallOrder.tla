---------------------------- MODULE InstallOrder -----------------------------
(***************************************************************************)
(* resolve_install_order of services/applications/resolver.py: a depth     *)
(* first visit that collects what the selection needs and reports missing, *)
(* disabled and circular entries, then Kahn's algorithm on what it         *)
(* collected.  A step is a call of visit, its return, or an iteration of a *)
(* loop.  White ids are neither black nor on the stack; grey ids are the   *)
(* frames of the stack, which is also the code's list `chain`.             *)
(***************************************************************************)
EXTENDS Dependencies

CONSTANTS
    Catalogs,      \* the catalogs to resolve against
    Selections     \* the sequences of selected ids

ASSUME ArgumentsAssumption ==
    Catalogs \subseteq Catalog /\ Selections \subseteq Seq(Apps)

VARIABLES
    phase,         \* "visit", "sort", then the result "ok" or "error"
    nodes,         \* the argument `catalog`
    selected,      \* the argument `selected_ids`
    next,          \* position of the loop over selected_ids
    stack,         \* frames of visit: the id and the dependencies still to visit
    black,         \* ids with color BLACK
    required,      \* keys of the dictionary `required`, in insertion order
    errors,        \* kinds of messages in the list `errors`
    indegree,
    ready,         \* the list `ready`, taken in the order of the names
    order          \* ordered_ids

vars == <<phase, nodes, selected, next, stack, black, required, errors, indegree, ready, order>>

arguments == <<nodes, selected>>

ErrorKinds == {"circular", "missing", "disabled", "internal"}

Frame == [app : Apps, deps : SUBSET Apps]

\* What the type invariant says: the shape of the resolver's local state.
TypeOK ==
    /\ phase \in {"visit", "sort", "ok", "error"}
    /\ nodes \in Catalog
    /\ selected \in Seq(Apps)
    /\ next \in Nat
    /\ stack \in Seq(Frame)
    /\ black \in SUBSET Apps
    /\ required \in Seq(Apps)
    /\ errors \in SUBSET ErrorKinds
    /\ indegree \in [Apps -> Nat]
    /\ ready \in SUBSET Apps
    /\ order \in Seq(Apps)

Init ==
    /\ phase = "visit"
    /\ nodes \in Catalogs
    /\ selected \in Selections
    /\ next = 1
    /\ stack = <<>>
    /\ black = {}
    /\ required = <<>>
    /\ errors = {}
    /\ indegree = [a \in Apps |-> 0]
    /\ ready = {}
    /\ order = <<>>

-----------------------------------------------------------------------------
(* The visit *)

Chain == {stack[i].app : i \in DOMAIN stack}

Top == stack[Len(stack)]

\* A call visit(a); `rest` is the stack of the caller.
Visit(a, rest) ==
    \/ /\ a \in black
       /\ stack' = rest
       /\ UNCHANGED <<black, errors>>
    \/ /\ a \notin black
       /\ a \in Chain
       /\ errors' = errors \cup {"circular"}
       /\ stack' = rest
       /\ UNCHANGED black
    \/ /\ a \notin black \cup Chain
       /\ ~nodes[a].exists
       /\ errors' = errors \cup {"missing"}
       /\ black' = black \cup {a}
       /\ stack' = rest
    \/ /\ a \notin black \cup Chain
       /\ nodes[a].exists
       /\ stack' = Append(rest, [app |-> a, deps |-> nodes[a].deps])
       /\ UNCHANGED <<black, errors>>

VisitSelected ==
    /\ phase = "visit"
    /\ stack = <<>>
    /\ next \in DOMAIN selected
    /\ next' = next + 1
    /\ Visit(selected[next], stack)
    /\ UNCHANGED <<phase, nodes, selected, required, indegree, ready, order>>

\* The dependency is looked at and not taken from the frame.
PeekDependency ==
    /\ phase = "visit"
    /\ stack # <<>>
    /\ \E d \in Top.deps : (\A e \in Top.deps : d <= e) /\ Visit(d, stack)
    /\ UNCHANGED <<phase, nodes, selected, next, required, indegree, ready, order>>

\* The loop over sorted(node.dependency_ids).
VisitDependency ==
    /\ phase = "visit"
    /\ stack # <<>>
    /\ \E d \in Top.deps :
         /\ \A e \in Top.deps : d <= e
         /\ Visit(d, [stack EXCEPT ![Len(stack)].deps = @ \ {d}])
    /\ UNCHANGED <<phase, nodes, selected, next, required, indegree, ready, order>>

\* The end of visit.
Leave ==
    /\ phase = "visit"
    /\ stack # <<>>
    /\ Top.deps = {}
    /\ stack' = SubSeq(stack, 1, Len(stack) - 1)
    /\ black' = black \cup {Top.app}
    /\ required' = Append(required, Top.app)
    /\ UNCHANGED <<phase, nodes, selected, next, errors, indegree, ready, order>>

\* Only the selected applications are looked at, not what they need.
DisabledSelection(s) == \E i \in DOMAIN s : s[i] \in Elements(selected) /\ ~nodes[s[i]].enabled

\* One of the collected applications is disabled.
Disabled(s) == \E i \in DOMAIN s : ~nodes[s[i]].enabled

\* An error ends the resolution with an empty order.
Rejected ==
    /\ phase = "visit"
    /\ stack = <<>>
    /\ next \notin DOMAIN selected
    /\ errors # {} \/ Disabled(required)
    /\ errors' = errors \cup (IF Disabled(required) THEN {"disabled"} ELSE {})
    /\ phase' = "error"
    /\ UNCHANGED <<nodes, selected, next, stack, black, required, indegree, ready, order>>

-----------------------------------------------------------------------------
(* The sort *)

\* Only the dependencies that were selected count.
WaitingForSelected(a, done) == (nodes[a].deps \cap Elements(selected)) \ done

\* Dependencies of a that were collected and are not in `done`.
Waiting(a, done) == (nodes[a].deps \cap Elements(required)) \ done

StartSort ==
    /\ phase = "visit"
    /\ stack = <<>>
    /\ next \notin DOMAIN selected
    /\ errors = {}
    /\ ~Disabled(required)
    /\ phase' = "sort"
    /\ indegree' = [a \in Apps |-> IF a \in Elements(required) THEN Cardinality(Waiting(a, {})) ELSE 0]
    /\ ready' = {a \in Elements(required) : indegree'[a] = 0}
    /\ UNCHANGED <<nodes, selected, next, stack, black, required, errors, order>>

\* edges_out[current]
Dependents(current) == {a \in Elements(required) : current \in nodes[a].deps}

\* ready.pop(0) of the list sorted by name; equal names in any order.
TakeReady ==
    /\ phase = "sort"
    /\ \E current \in ready :
         /\ \A other \in ready : nodes[current].name <= nodes[other].name
         /\ order' = Append(order, current)
         /\ indegree' = [a \in Apps |-> IF a \in Dependents(current) THEN indegree[a] - 1 ELSE indegree[a]]
         /\ ready' = (ready \ {current}) \cup {a \in Dependents(current) : indegree'[a] = 0}
    /\ UNCHANGED <<phase, nodes, selected, next, stack, black, required, errors>>

Finish ==
    /\ phase = "sort"
    /\ ready = {}
    /\ IF Len(order) = Len(required)
       THEN phase' = "ok" /\ UNCHANGED errors
       ELSE phase' = "error" /\ errors' = errors \cup {"internal"}
    /\ UNCHANGED <<nodes, selected, next, stack, black, required, indegree, ready, order>>

Next ==
    \/ VisitSelected
    \/ VisitDependency
    \/ Leave
    \/ Rejected
    \/ StartSort
    \/ TakeReady
    \/ Finish

Spec == Init /\ [][Next]_vars

\* A pure function: nothing can stop it between two steps.
FairSpec == Spec /\ WF_vars(Next)

-----------------------------------------------------------------------------
(* Properties *)

\* The docstring of resolve_install_order: the result holds exactly the
\* selected applications and what they need, each once, dependencies first.
ResultIsInstallOrder ==
    phase = "ok" => IsInstallOrder(nodes, Elements(selected), order)

\* A selection is rejected exactly when something it needs is missing,
\* disabled or on a cycle (the errors of resolve_install_order).
ErrorsAreExact ==
    /\ phase = "ok" => Installable(nodes, Elements(selected))
    /\ phase = "error" => ~Installable(nodes, Elements(selected))

\* The length check after the sort, which the code marks "no cover", is
\* never the one that rejects: the visit lets no cycle through.
SortIsComplete == "internal" \notin errors

\* Resolution ends, circular catalogs included.
Terminates == <>(phase \in {"ok", "error"})
=============================================================================
