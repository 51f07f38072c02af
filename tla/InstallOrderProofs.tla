-------------------------- MODULE InstallOrderProofs --------------------------
(***************************************************************************)
(* For every catalog of finitely many applications and every selection,    *)
(* resolve_install_order returns an installation order of the selection    *)
(* exactly when there is one.  Cycles are spoken of through closed sets,   *)
(* so that no induction over paths is needed: the invariant carries it     *)
(* along the stack (PathsDown) and along the visit (VisitedInOrder).       *)
(***************************************************************************)
EXTENDS InstallOrder, SequenceTheorems, FiniteSetTheorems, WellFoundedInduction, TLAPS

-----------------------------------------------------------------------------
(* Sequences and numbers *)

NoRepeat(s) == \A i, j \in 1 .. Len(s) : s[i] = s[j] => i = j

\* A non-empty set of naturals has a least element.
LEMMA LeastNatural ==
    ASSUME NEW I \in SUBSET Nat, I # {}
    PROVE  \E n \in I : \A m \in I : n <= m
<1> DEFINE R == {p \in Nat \X Nat : p[1] < p[2]}
<1>1. IsWellFoundedOn(R, Nat)
  BY NatLessThanWellFounded DEF OpToRel
<1>2. PICK n \in I : \A m \in I : ~(<<m, n>> \in R)
  <2> HIDE DEF R
  <2> QED BY <1>1, WFMin
<1>3. ASSUME NEW m \in I PROVE n <= m
  <2>1. <<m, n>> \in Nat \X Nat /\ <<m, n>>[1] = m /\ <<m, n>>[2] = n
    OBVIOUS
  <2>2. ~(<<m, n>>[1] < <<m, n>>[2])
    BY <1>2, <2>1
  <2> QED BY <2>1, <2>2
<1> QED BY <1>3

\* What Append does to the elements of a sequence.
LEMMA AppendElements ==
    ASSUME NEW S, NEW s \in Seq(S), NEW e \in S
    PROVE  /\ Append(s, e) \in Seq(S)
           /\ Len(Append(s, e)) = Len(s) + 1
           /\ \A i \in 1 .. Len(s) : Append(s, e)[i] = s[i]
           /\ Append(s, e)[Len(s) + 1] = e
           /\ Elements(Append(s, e)) = Elements(s) \cup {e}
           /\ NoRepeat(s) /\ e \notin Elements(s) => NoRepeat(Append(s, e))
<1> DEFINE t == Append(s, e)
<1>1. /\ t \in Seq(S)
      /\ Len(t) = Len(s) + 1
      /\ \A i \in 1 .. Len(s) : t[i] = s[i]
      /\ t[Len(s) + 1] = e
      /\ Len(s) \in Nat
      /\ DOMAIN s = 1 .. Len(s)
      /\ DOMAIN t = 1 .. Len(t)
  BY AppendProperties, LenProperties
<1> HIDE DEF t
<1>2. Elements(t) = Elements(s) \cup {e}
  BY <1>1 DEF Elements
<1>3. NoRepeat(s) /\ e \notin Elements(s) => NoRepeat(t)
  BY <1>1 DEF NoRepeat, Elements
<1> QED BY <1>1, <1>2, <1>3 DEF t

\* The length of a sequence without repetition counts its elements.
LEMMA LengthCounts ==
    ASSUME NEW S, NEW s \in Seq(S), NoRepeat(s)
    PROVE  IsFiniteSet(Elements(s)) /\ Len(s) = Cardinality(Elements(s))
<1>1. Len(s) \in Nat /\ DOMAIN s = 1 .. Len(s) /\ s \in [1 .. Len(s) -> S]
  BY LenProperties
<1>2. s \in [1 .. Len(s) -> Elements(s)] /\ \A e \in Elements(s) : \E i \in 1 .. Len(s) : s[i] = e
  BY <1>1 DEF Elements
<1>2a. s \in Bijection(1 .. Len(s), Elements(s))
  BY <1>1, <1>2 DEF NoRepeat, Bijection, Injection, Surjection, IsInjective
<1>3. ExistsBijection(1 .. Len(s), Elements(s))
  BY <1>2a DEF ExistsBijection
<1>4. IsFiniteSet(1 .. Len(s)) /\ Cardinality(1 .. Len(s)) = Len(s)
  BY <1>1, FS_Interval
<1> QED BY <1>3, <1>4, FS_Bijection

-----------------------------------------------------------------------------
(* Closures *)

\* The closure contains its generators.
LEMMA ClosureContains ==
    ASSUME NEW g, NEW T \in SUBSET Apps
    PROVE  T \subseteq Closure(g, T) /\ Closure(g, T) \subseteq Apps
BY DEF Closure

\* The closure is closed.
LEMMA ClosureClosed ==
    ASSUME NEW g \in Catalog, NEW T \in SUBSET Apps, NEW a \in Closure(g, T), g[a].exists
    PROVE  g[a].deps \subseteq Closure(g, T)
BY DEF Closure, Closed, Catalog, AppNode

\* The closure is the least closed set.
LEMMA ClosureLeast ==
    ASSUME NEW g, NEW T \in SUBSET Apps, NEW S \in SUBSET Apps, T \subseteq S, Closed(g, S)
    PROVE  Closure(g, T) \subseteq S
BY DEF Closure

\* An application whose closure lies before it in an order is on no cycle.
LEMMA OrderedIsAcyclic ==
    ASSUME NEW g \in Catalog, NEW s \in Seq(Apps), NoRepeat(s), DependenciesFirst(g, s),
           NEW a \in Elements(s)
    PROVE  ~OnCycle(g, a)
<1>1. Len(s) \in Nat /\ DOMAIN s = 1 .. Len(s) /\ \A i \in 1 .. Len(s) : s[i] \in Apps
  BY LenProperties, ElementOfSeq
<1>2. PICK i \in 1 .. Len(s) : a = s[i]
  BY <1>1 DEF Elements
<1> DEFINE P == {s[j] : j \in 1 .. (i - 1)}
<1>3. P \in SUBSET Apps
  BY <1>1
<1>4. Closed(g, P)
  <2> SUFFICES ASSUME NEW j \in 1 .. (i - 1) PROVE g[s[j]].deps \subseteq P
    BY DEF Closed
  <2>1. g[s[j]].deps \subseteq {s[k] : k \in 1 .. (j - 1)}
    BY <1>1 DEF DependenciesFirst
  <2>2. {s[k] : k \in 1 .. (j - 1)} \subseteq P
    BY <1>1
  <2> QED BY <2>1, <2>2
<1>5. g[a].deps \subseteq P
  BY <1>1, <1>2 DEF DependenciesFirst
<1>6. Closure(g, g[a].deps) \subseteq P
  <2> HIDE DEF P
  <2> QED BY <1>3, <1>4, <1>5, ClosureLeast
<1>7. a \notin P
  BY <1>1, <1>2 DEF NoRepeat
<1> QED BY <1>6, <1>7 DEF OnCycle

\* An index below the top frame is the last one below it or comes before that.
LEMMA LastOrBefore == \A n \in Nat : \A k \in 1 .. (n - 1) : k = n - 1 \/ k < n - 1
OBVIOUS

-----------------------------------------------------------------------------
(* The inductive invariant *)

\* The grey applications: needed, existing, distinct, not yet finished.
Stacked ==
    /\ \A k \in 1 .. Len(stack) :
         /\ nodes[stack[k].app].exists
         /\ stack[k].deps \subseteq nodes[stack[k].app].deps
         /\ stack[k].app \notin black
         /\ stack[k].app \in Closure(nodes, Elements(selected))
    /\ \A k, m \in 1 .. Len(stack) : stack[k].app = stack[m].app => k = m

\* Every frame is needed by the ones below it.
PathsDown ==
    \A m \in 1 .. Len(stack) : \A k \in 1 .. (m - 1) :
        stack[m].app \in Closure(nodes, nodes[stack[k].app].deps)

\* `required` holds the finished applications that exist.
Collected ==
    /\ black \subseteq Closure(nodes, Elements(selected))
    /\ Elements(required) = {a \in black : nodes[a].exists}
    /\ NoRepeat(required)

\* Without an error, `required` is itself in dependency order, and what was
\* visited for a frame or for the caller is finished or is the next frame.
VisitedInOrder ==
    errors = {} =>
        /\ black = Elements(required)
        /\ DependenciesFirst(nodes, required)
        /\ \A k \in 1 .. Len(stack) : \A d \in nodes[stack[k].app].deps \ stack[k].deps :
             d \in Elements(required) \/ (k < Len(stack) /\ d = stack[k + 1].app)
        /\ \A i \in DOMAIN selected :
             i < next => selected[i] \in Elements(required) \/ (Len(stack) > 0 /\ selected[i] = stack[1].app)

\* An error names something that makes the selection impossible.
Blamed == errors # {} => ~Installable(nodes, Elements(selected))

VisitInv == Stacked /\ PathsDown /\ Collected /\ VisitedInOrder /\ Blamed

\* Kahn's algorithm: indegree counts what is still waited for, and exactly
\* the applications that wait for nothing are ready or ordered.
Sorting ==
    phase \in {"sort", "ok"} =>
        /\ stack = <<>> /\ next \notin DOMAIN selected /\ errors = {} /\ ~Disabled(required)
        /\ NoRepeat(order)
        /\ DependenciesFirst(nodes, order)
        /\ Elements(order) \subseteq Elements(required)
        /\ ready \subseteq Elements(required) \ Elements(order)
        /\ \A a \in Elements(required) :
             /\ indegree[a] = Cardinality(Waiting(a, Elements(order)))
             /\ a \in ready \cup Elements(order) <=> indegree[a] = 0

Phases ==
    /\ phase = "visit" => order = <<>>
    /\ phase = "error" => errors # {}
    /\ phase = "ok" => Elements(order) = Elements(required)
    /\ "internal" \notin errors
    /\ next >= 1

IInv == TypeOK /\ VisitInv /\ Sorting /\ Phases

-----------------------------------------------------------------------------
(* The visit *)

\* Shape of sequences in the state.
LEMMA StateSequences ==
    ASSUME TypeOK
    PROVE  /\ Len(stack) \in Nat /\ DOMAIN stack = 1 .. Len(stack)
           /\ Len(required) \in Nat /\ DOMAIN required = 1 .. Len(required)
           /\ Len(selected) \in Nat /\ DOMAIN selected = 1 .. Len(selected)
           /\ Len(order) \in Nat /\ DOMAIN order = 1 .. Len(order)
           /\ \A k \in 1 .. Len(stack) : stack[k] \in Frame
           /\ \A k \in 1 .. Len(required) : required[k] \in Apps
           /\ \A k \in 1 .. Len(selected) : selected[k] \in Apps
           /\ \A k \in 1 .. Len(order) : order[k] \in Apps
           /\ Elements(selected) \in SUBSET Apps
           /\ Elements(required) \in SUBSET Apps
           /\ Elements(order) \in SUBSET Apps
           /\ \A a \in Apps : nodes[a].deps \in SUBSET Apps /\ nodes[a].exists \in BOOLEAN
           /\ stack = <<>> <=> Len(stack) = 0
<1>1. /\ Len(stack) \in Nat /\ DOMAIN stack = 1 .. Len(stack)
      /\ Len(required) \in Nat /\ DOMAIN required = 1 .. Len(required)
      /\ Len(selected) \in Nat /\ DOMAIN selected = 1 .. Len(selected)
      /\ Len(order) \in Nat /\ DOMAIN order = 1 .. Len(order)
  BY LenProperties DEF TypeOK
<1>2. /\ \A k \in 1 .. Len(stack) : stack[k] \in Frame
      /\ \A k \in 1 .. Len(required) : required[k] \in Apps
      /\ \A k \in 1 .. Len(selected) : selected[k] \in Apps
      /\ \A k \in 1 .. Len(order) : order[k] \in Apps
  BY ElementOfSeq DEF TypeOK
<1>3. \A a \in Apps : nodes[a].deps \in SUBSET Apps /\ nodes[a].exists \in BOOLEAN
  BY DEF TypeOK, Catalog, AppNode
<1>4. stack = <<>> <=> Len(stack) = 0
  BY EmptySeq, <1>1 DEF TypeOK
<1>5. /\ Elements(selected) \in SUBSET Apps
      /\ Elements(required) \in SUBSET Apps
      /\ Elements(order) \in SUBSET Apps
  BY <1>1, <1>2 DEF Elements
<1> QED BY <1>1, <1>2, <1>3, <1>4, <1>5

\* What a caller of visit(a) owes: a is needed by the selection and by every
\* frame, and `rest` is the stack with a taken from the top frame's loop.
Calls(a, rest, nxt) ==
    /\ rest \in Seq(Frame)
    /\ Len(rest) = Len(stack)
    /\ \A k \in 1 .. Len(stack) :
         /\ rest[k].app = stack[k].app
         /\ rest[k].deps \subseteq stack[k].deps
         /\ \A d \in stack[k].deps \ rest[k].deps : k = Len(stack) /\ d = a
         /\ a \in Closure(nodes, nodes[stack[k].app].deps)
    /\ a \in Closure(nodes, Elements(selected))
    /\ \A i \in DOMAIN selected :
         i < nxt => i < next \/ (stack = <<>> /\ selected[i] = a)

\* One call of visit keeps the invariant of the visit.
LEMMA VisitStep ==
    ASSUME TypeOK, VisitInv, NEW a \in Apps, NEW rest, Calls(a, rest, next'), next' \in Nat,
           Visit(a, rest), UNCHANGED <<nodes, selected, required>>
    PROVE  /\ stack' \in Seq(Frame) /\ black' \in SUBSET Apps
           /\ errors' \in SUBSET ErrorKinds
           /\ "internal" \in errors' => "internal" \in errors
           /\ VisitInv'
<1> USE StateSequences
<1>r. /\ \A k \in 1 .. Len(rest) : rest[k] \in Frame
      /\ Len(rest) \in Nat /\ DOMAIN rest = 1 .. Len(rest)
      /\ nodes' = nodes /\ selected' = selected /\ required' = required
  BY LenProperties, ElementOfSeq DEF Calls
<1>s. ASSUME stack' = rest, NEW B \in SUBSET Apps, black' = B, black \subseteq B,
             B \cap {stack[k].app : k \in 1 .. Len(stack)} = {}
      PROVE  Stacked' /\ PathsDown'
  <2>1. /\ Len(stack') = Len(stack)
        /\ \A k \in 1 .. Len(stack) : stack'[k].app = stack[k].app /\ stack'[k].deps \subseteq stack[k].deps
    BY <1>s DEF Calls
  <2>2. \A k \in 1 .. Len(stack) : stack[k].app \notin B
    BY <1>s
  <2>3. Stacked'
    <3>1. ASSUME NEW k \in 1 .. Len(stack')
          PROVE  /\ nodes[stack'[k].app].exists
                 /\ stack'[k].deps \subseteq nodes[stack'[k].app].deps
                 /\ stack'[k].app \notin B
                 /\ stack'[k].app \in Closure(nodes, Elements(selected))
      <4>1. k \in 1 .. Len(stack)
        BY <2>1
      <4>2. /\ nodes[stack[k].app].exists
            /\ stack[k].deps \subseteq nodes[stack[k].app].deps
            /\ stack[k].app \in Closure(nodes, Elements(selected))
        BY <4>1 DEF Stacked, VisitInv
      <4> QED BY <2>1, <2>2, <4>1, <4>2
    <3>2. ASSUME NEW k \in 1 .. Len(stack'), NEW m \in 1 .. Len(stack'), stack'[k].app = stack'[m].app
          PROVE  k = m
      BY <3>2, <2>1 DEF Stacked, VisitInv
    <3> QED BY <1>r, <1>s, <3>1, <3>2 DEF Stacked
  <2>4. PathsDown'
    <3> SUFFICES ASSUME NEW m \in 1 .. Len(stack), NEW k \in 1 .. (m - 1)
                 PROVE  stack'[m].app \in Closure(nodes, nodes[stack'[k].app].deps)
      BY <1>r, <2>1 DEF PathsDown
    <3>1. k \in 1 .. Len(stack)
      OBVIOUS
    <3> QED BY <2>1, <3>1 DEF PathsDown, VisitInv
  <2> QED BY <2>3, <2>4
<1>1. CASE a \in black /\ stack' = rest /\ UNCHANGED <<black, errors>>
  <2>1. Stacked' /\ PathsDown'
    BY <1>s, <1>1 DEF VisitInv, Stacked, TypeOK
  <2>2. Collected' /\ Blamed'
    BY <1>1, <1>r DEF VisitInv, Collected, Blamed
  <2>3. VisitedInOrder'
    <3> SUFFICES ASSUME errors = {}
                 PROVE  /\ \A k \in 1 .. Len(rest) : \A d \in nodes[rest[k].app].deps \ rest[k].deps :
                            d \in Elements(required) \/ (k < Len(rest) /\ d = rest[k + 1].app)
                        /\ \A i \in DOMAIN selected :
                            i < next' => selected[i] \in Elements(required) \/ (Len(rest) > 0 /\ selected[i] = rest[1].app)
      BY <1>1, <1>r DEF VisitInv, VisitedInOrder
    <3>1. a \in Elements(required)
      BY <1>1 DEF VisitInv, VisitedInOrder
    <3>2. ASSUME NEW k \in 1 .. Len(rest), NEW d \in nodes[rest[k].app].deps \ rest[k].deps
          PROVE  d \in Elements(required) \/ (k < Len(rest) /\ d = rest[k + 1].app)
      <4>1. k \in 1 .. Len(stack) /\ rest[k].app = stack[k].app
        BY DEF Calls
      <4>2. CASE d \in stack[k].deps
        BY <3>1, <4>1, <4>2 DEF Calls
      <4>3. CASE d \notin stack[k].deps
        <5>1. d \in Elements(required) \/ (k < Len(stack) /\ d = stack[k + 1].app)
          BY <4>1, <4>3 DEF VisitInv, VisitedInOrder
        <5>2. k < Len(stack) => k + 1 \in 1 .. Len(stack)
          BY <4>1
        <5> QED BY <5>1, <5>2 DEF Calls
      <4> QED BY <4>2, <4>3
    <3>3. ASSUME NEW i \in DOMAIN selected, i < next'
          PROVE  selected[i] \in Elements(required) \/ (Len(rest) > 0 /\ selected[i] = rest[1].app)
      <4>1. CASE i < next
        <5>1. selected[i] \in Elements(required) \/ (Len(stack) > 0 /\ selected[i] = stack[1].app)
          BY <4>1 DEF VisitInv, VisitedInOrder
        <5>2. Len(stack) > 0 => 1 \in 1 .. Len(stack)
          OBVIOUS
        <5> QED BY <5>1, <5>2 DEF Calls
      <4>2. CASE stack = <<>> /\ selected[i] = a
        BY <4>2, <3>1
      <4> QED BY <3>3, <4>1, <4>2 DEF Calls
    <3> QED BY <3>2, <3>3
  <2> QED BY <1>1, <1>r, <2>1, <2>2, <2>3 DEF VisitInv, Calls, TypeOK
<1>2. CASE a \notin black /\ a \in Chain /\ errors' = errors \cup {"circular"} /\ stack' = rest /\ UNCHANGED black
  <2>1. Stacked' /\ PathsDown'
    BY <1>s, <1>2 DEF VisitInv, Stacked, TypeOK
  <2>2. Collected' /\ VisitedInOrder'
    BY <1>2, <1>r DEF VisitInv, Collected, VisitedInOrder
  <2>3. Blamed'
    <3>1. PICK k \in 1 .. Len(stack) : a = stack[k].app
      BY <1>2 DEF Chain
    <3>2. OnCycle(nodes, a)
      BY <3>1 DEF OnCycle, VisitInv, Stacked, Calls
    <3> QED BY <1>r, <3>2 DEF Blamed, Installable, Calls
  <2> QED BY <1>2, <1>r, <2>1, <2>2, <2>3 DEF VisitInv, Calls, TypeOK, ErrorKinds
<1>3. CASE a \notin black \cup Chain /\ ~nodes[a].exists /\ errors' = errors \cup {"missing"} /\ black' = black \cup {a} /\ stack' = rest
  <2>1. Stacked' /\ PathsDown'
    <3>1. (black \cup {a}) \cap {stack[k].app : k \in 1 .. Len(stack)} = {}
      BY <1>3 DEF VisitInv, Stacked, Chain
    <3>2. black \cup {a} \in SUBSET Apps
      BY DEF TypeOK
    <3> QED BY <1>s, <1>3, <3>1, <3>2
  <2>2. Collected' /\ VisitedInOrder'
    BY <1>3, <1>r DEF VisitInv, Collected, VisitedInOrder, Calls
  <2>3. Blamed'
    BY <1>3, <1>r DEF Blamed, Installable, Calls
  <2> QED BY <1>3, <1>r, <2>1, <2>2, <2>3 DEF VisitInv, Calls, TypeOK, ErrorKinds
<1>4. CASE a \notin black \cup Chain /\ nodes[a].exists /\ stack' = Append(rest, [app |-> a, deps |-> nodes[a].deps]) /\ UNCHANGED <<black, errors>>
  <2> DEFINE f == [app |-> a, deps |-> nodes[a].deps]
  <2>1. f \in Frame /\ f.app = a /\ f.deps = nodes[a].deps
    BY DEF Frame
  <2> HIDE DEF f
  <2>2. stack' = Append(rest, f)
    BY <1>4 DEF f
  <2>3. /\ stack' \in Seq(Frame)
        /\ Len(stack') = Len(stack) + 1
        /\ \A k \in 1 .. Len(stack) : stack'[k] = rest[k]
        /\ stack'[Len(stack) + 1] = f
    BY <2>1, <2>2, AppendElements DEF Calls
  <2>3a. /\ \A k \in 1 .. Len(stack) : stack'[k].app = stack[k].app /\ stack[k].app # a
         /\ stack'[Len(stack) + 1].app = a
         /\ \A k \in 1 .. Len(stack') : k \in 1 .. Len(stack) \/ k = Len(stack) + 1
    <3>1. \A k \in 1 .. Len(stack) : stack'[k].app = stack[k].app
      BY <2>3 DEF Calls
    <3>2. \A k \in 1 .. Len(stack) : stack[k].app # a
      BY <1>4 DEF Chain
    <3> QED BY <2>1, <2>3, <3>1, <3>2
  <2>4. Stacked'
    <3>1. ASSUME NEW k \in 1 .. Len(stack')
          PROVE  /\ nodes[stack'[k].app].exists
                 /\ stack'[k].deps \subseteq nodes[stack'[k].app].deps
                 /\ stack'[k].app \notin black
                 /\ stack'[k].app \in Closure(nodes, Elements(selected))
      <4>1. CASE k = Len(stack) + 1
        BY <1>4, <2>1, <2>3, <2>3a, <4>1 DEF Calls
      <4>2. CASE k \in 1 .. Len(stack)
        <5>1. /\ nodes[stack[k].app].exists
              /\ stack[k].deps \subseteq nodes[stack[k].app].deps
              /\ stack[k].app \notin black
              /\ stack[k].app \in Closure(nodes, Elements(selected))
          BY <4>2 DEF VisitInv, Stacked
        <5>2. stack'[k].deps \subseteq stack[k].deps /\ stack'[k].app = stack[k].app
          BY <2>3, <2>3a, <4>2 DEF Calls
        <5> QED BY <5>1, <5>2
      <4> QED BY <2>3a, <4>1, <4>2
    <3>2. ASSUME NEW k \in 1 .. Len(stack'), NEW m \in 1 .. Len(stack'), stack'[k].app = stack'[m].app
          PROVE  k = m
      BY <3>2, <2>3a DEF VisitInv, Stacked
    <3> QED BY <1>4, <1>r, <3>1, <3>2 DEF Stacked
  <2>5. PathsDown'
    <3> SUFFICES ASSUME NEW m \in 1 .. Len(stack'), NEW k \in 1 .. (m - 1)
                 PROVE  stack'[m].app \in Closure(nodes, nodes[stack'[k].app].deps)
      BY <1>r DEF PathsDown
    <3>1. k \in 1 .. Len(stack)
      BY <2>3
    <3>2. CASE m = Len(stack) + 1
      BY <2>3a, <3>1, <3>2 DEF Calls
    <3>3. CASE m \in 1 .. Len(stack)
      BY <2>3a, <3>1, <3>3 DEF VisitInv, PathsDown
    <3> QED BY <2>3a, <3>2, <3>3
  <2>6. Collected' /\ Blamed'
    BY <1>4, <1>r DEF VisitInv, Collected, Blamed
  <2>7. VisitedInOrder'
    <3> SUFFICES ASSUME errors = {}
                 PROVE  /\ \A k \in 1 .. Len(stack') : \A d \in nodes[stack'[k].app].deps \ stack'[k].deps :
                            d \in Elements(required) \/ (k < Len(stack') /\ d = stack'[k + 1].app)
                        /\ \A i \in DOMAIN selected :
                            i < next' => selected[i] \in Elements(required) \/ (Len(stack') > 0 /\ selected[i] = stack'[1].app)
      BY <1>4, <1>r DEF VisitInv, VisitedInOrder
    <3>1. ASSUME NEW k \in 1 .. Len(stack'), NEW d \in nodes[stack'[k].app].deps \ stack'[k].deps
          PROVE  d \in Elements(required) \/ (k < Len(stack') /\ d = stack'[k + 1].app)
      <4>1. CASE k = Len(stack) + 1
        BY <4>1, <2>1, <2>3
      <4>2. CASE k \in 1 .. Len(stack)
        <5>1. stack'[k] = rest[k] /\ stack'[k].app = stack[k].app
          BY <4>2, <2>3, <2>3a
        <5>2. CASE d \in stack[k].deps
          BY <4>2, <5>1, <5>2, <2>3, <2>3a DEF Calls
        <5>3. CASE d \notin stack[k].deps
          <6>1. d \in Elements(required) \/ (k < Len(stack) /\ d = stack[k + 1].app)
            BY <4>2, <5>1, <5>3 DEF VisitInv, VisitedInOrder
          <6>2. k < Len(stack) => k + 1 \in 1 .. Len(stack)
            BY <4>2
          <6> QED BY <6>1, <6>2, <2>3, <2>3a
        <5> QED BY <5>2, <5>3
      <4> QED BY <4>1, <4>2, <2>3
    <3>2. ASSUME NEW i \in DOMAIN selected, i < next'
          PROVE  selected[i] \in Elements(required) \/ (Len(stack') > 0 /\ selected[i] = stack'[1].app)
      BY <3>2, <2>1, <2>3 DEF VisitInv, VisitedInOrder, Calls
    <3> QED BY <3>1, <3>2
  <2> QED BY <1>4, <2>3, <2>4, <2>5, <2>6, <2>7 DEF VisitInv, TypeOK
<1> QED BY <1>1, <1>2, <1>3, <1>4 DEF Visit

\* The loop over the selection.
LEMMA VisitSelectedStep ==
    ASSUME IInv, VisitSelected
    PROVE  IInv'
<1> USE StateSequences
<1>1. phase = "visit" /\ stack = <<>> /\ next \in DOMAIN selected /\ TypeOK /\ VisitInv
  BY DEF VisitSelected, IInv
<1>2. selected[next] \in Elements(selected) /\ selected[next] \in Apps
  BY <1>1 DEF Elements
<1>3. Calls(selected[next], stack, next')
  <2>1. selected[next] \in Closure(nodes, Elements(selected))
    BY <1>1, <1>2, ClosureContains
  <2>2. Len(stack) = 0 /\ 1 .. Len(stack) = {} /\ stack \in Seq(Frame)
    BY <1>1 DEF TypeOK
  <2>3. \A i \in DOMAIN selected : i < next' => i < next \/ i = next
    BY <1>1 DEF VisitSelected, TypeOK
  <2> QED BY <1>1, <2>1, <2>2, <2>3 DEF Calls
<1>4. next' \in Nat /\ next' >= 1
  BY <1>1 DEF VisitSelected, TypeOK
<1>5. /\ stack' \in Seq(Frame) /\ black' \in SUBSET Apps /\ errors' \in SUBSET ErrorKinds
      /\ "internal" \in errors' => "internal" \in errors
      /\ VisitInv'
  BY <1>1, <1>2, <1>3, <1>4, VisitStep DEF VisitSelected
<1>6. TypeOK'
  BY <1>1, <1>4, <1>5 DEF VisitSelected, TypeOK
<1>7. Sorting' /\ Phases'
  BY <1>1, <1>4, <1>5 DEF IInv, VisitSelected, Sorting, Phases
<1> QED BY <1>5, <1>6, <1>7 DEF IInv

\* The loop over the dependencies of the top frame.
LEMMA VisitDependencyStep ==
    ASSUME IInv, VisitDependency
    PROVE  IInv'
<1> USE StateSequences
<1>1. phase = "visit" /\ stack # <<>> /\ Len(stack) > 0 /\ TypeOK /\ VisitInv
  BY DEF VisitDependency, IInv
<1>2. PICK d \in Top.deps : Visit(d, [stack EXCEPT ![Len(stack)].deps = @ \ {d}])
  BY DEF VisitDependency
<1> DEFINE n == Len(stack)
           f == [Top EXCEPT !.deps = @ \ {d}]
           rest == [stack EXCEPT ![n] = f]
<1>3. Top \in Frame /\ f \in Frame /\ f.app = Top.app /\ f.deps = Top.deps \ {d} /\ d \in Apps
  BY <1>1 DEF Top, Frame
<1>4. [stack EXCEPT ![Len(stack)].deps = @ \ {d}] = rest
  BY DEF Top
<1>5. rest \in Seq(Frame) /\ Len(rest) = n /\ \A j \in 1 .. n : rest[j] = IF j = n THEN f ELSE stack[j]
  <2> HIDE DEF f
  <2> QED BY <1>1, <1>3, ExceptSeq DEF TypeOK
<1>6. stack[n].app \in Apps /\ nodes[stack[n].app].exists /\ d \in nodes[stack[n].app].deps
      /\ stack[n].app \in Closure(nodes, Elements(selected)) /\ n \in 1 .. Len(stack)
  BY <1>1, <1>3 DEF VisitInv, Stacked, Top, Frame
<1>7. d \in Closure(nodes, Elements(selected))
  BY <1>1, <1>6, ClosureClosed DEF TypeOK
<1>8. ASSUME NEW k \in 1 .. n PROVE d \in Closure(nodes, nodes[stack[k].app].deps)
  <2>1. nodes[stack[k].app].deps \in SUBSET Apps
    BY <1>1 DEF Frame
  <2>2. CASE k = n
    BY <1>6, <2>1, <2>2, ClosureContains
  <2>3. CASE k # n
    <3>1. stack[n].app \in Closure(nodes, nodes[stack[k].app].deps)
      <4>1. k \in 1 .. (n - 1)
        BY <1>6, <2>3
      <4> QED BY <1>1, <1>6, <4>1 DEF VisitInv, PathsDown
    <3> QED BY <1>1, <1>6, <2>1, <3>1, ClosureClosed DEF TypeOK
  <2> QED BY <2>2, <2>3
<1> HIDE DEF rest, f
<1>9. Calls(d, rest, next')
  BY <1>1, <1>3, <1>5, <1>6, <1>7, <1>8 DEF Calls, VisitDependency, Top
<1>10. next' \in Nat
  BY DEF VisitDependency, IInv, TypeOK
<1>11. Visit(d, rest)
  BY <1>2, <1>4
<1>12. /\ stack' \in Seq(Frame) /\ black' \in SUBSET Apps /\ errors' \in SUBSET ErrorKinds
       /\ "internal" \in errors' => "internal" \in errors
       /\ VisitInv'
  BY <1>1, <1>3, <1>9, <1>10, <1>11, VisitStep DEF VisitDependency
<1>13. TypeOK'
  BY <1>1, <1>12 DEF VisitDependency, TypeOK
<1>14. Sorting' /\ Phases'
  BY <1>1, <1>12 DEF IInv, VisitDependency, Sorting, Phases
<1> QED BY <1>12, <1>13, <1>14 DEF IInv

\* The return of visit.
LEMMA LeaveStep ==
    ASSUME IInv, Leave
    PROVE  IInv'
<1> USE StateSequences
<1> DEFINE n == Len(stack)
<1>1. phase = "visit" /\ n > 0 /\ Top.deps = {} /\ TypeOK /\ VisitInv
  BY DEF Leave, IInv
<1>2. n \in 1 .. Len(stack) /\ Top = stack[n] /\ Top.app \in Apps /\ nodes[Top.app].exists
      /\ Top.app \notin black /\ Top.app \in Closure(nodes, Elements(selected))
  BY <1>1 DEF Top, Frame, VisitInv, Stacked
<1>3. /\ stack' \in Seq(Frame)
      /\ Len(stack') = n - 1
      /\ \A k \in 1 .. (n - 1) : stack'[k] = stack[k]
  <2>1. \A i \in 1 .. (n - 1) : stack[i] \in Frame
    BY <1>1
  <2>2. /\ SubSeq(stack, 1, n - 1) \in Seq(Frame)
        /\ Len(SubSeq(stack, 1, n - 1)) = IF 1 <= n - 1 THEN (n - 1) - 1 + 1 ELSE 0
        /\ \A i \in 1 .. ((n - 1) - 1 + 1) : SubSeq(stack, 1, n - 1)[i] = stack[1 + i - 1]
    BY <1>1, <2>1, SubSeqProperties
  <2> QED BY <1>1, <2>2 DEF Leave
<1>4. /\ required' \in Seq(Apps)
      /\ Len(required') = Len(required) + 1
      /\ \A i \in 1 .. Len(required) : required'[i] = required[i]
      /\ required'[Len(required) + 1] = Top.app
      /\ Elements(required') = Elements(required) \cup {Top.app}
      /\ NoRepeat(required) /\ Top.app \notin Elements(required) => NoRepeat(required')
  BY <1>1, <1>2, AppendElements DEF Leave, TypeOK
<1>5. /\ black' = black \cup {Top.app} /\ nodes' = nodes /\ selected' = selected
      /\ errors' = errors /\ next' = next
  BY DEF Leave
<1>6. TypeOK'
  BY <1>1, <1>2, <1>3, <1>4 DEF Leave, TypeOK
<1>7. Stacked'
  <2>1. ASSUME NEW k \in 1 .. (n - 1)
        PROVE  /\ nodes[stack[k].app].exists
               /\ stack[k].deps \subseteq nodes[stack[k].app].deps
               /\ stack[k].app \notin black \cup {Top.app}
               /\ stack[k].app \in Closure(nodes, Elements(selected))
    BY <1>1, <1>2 DEF VisitInv, Stacked
  <2>2. ASSUME NEW k \in 1 .. (n - 1), NEW m \in 1 .. (n - 1), stack[k].app = stack[m].app
        PROVE  k = m
    BY <1>1, <2>2 DEF VisitInv, Stacked
  <2> QED BY <1>3, <1>5, <2>1, <2>2 DEF Stacked
<1>8. PathsDown'
  <2> SUFFICES ASSUME NEW m \in 1 .. (n - 1), NEW k \in 1 .. (m - 1)
               PROVE  stack'[m].app \in Closure(nodes, nodes[stack'[k].app].deps)
    BY <1>3, <1>5 DEF PathsDown
  <2>1. k \in 1 .. (n - 1) /\ m \in 1 .. Len(stack)
    BY <1>1
  <2> QED BY <1>1, <1>3, <2>1 DEF VisitInv, PathsDown
<1>9. Collected'
  <2>1. Top.app \notin Elements(required)
    BY <1>1, <1>2 DEF VisitInv, Collected
  <2> QED BY <1>1, <1>2, <1>4, <1>5, <2>1 DEF VisitInv, Collected
<1>10. Blamed'
  BY <1>1, <1>5 DEF VisitInv, Blamed
<1>11. VisitedInOrder'
  <2> SUFFICES ASSUME errors = {}
               PROVE  /\ black' = Elements(required')
                      /\ DependenciesFirst(nodes, required')
                      /\ \A k \in 1 .. Len(stack') : \A d \in nodes[stack'[k].app].deps \ stack'[k].deps :
                           d \in Elements(required') \/ (k < Len(stack') /\ d = stack'[k + 1].app)
                      /\ \A i \in DOMAIN selected :
                           i < next => selected[i] \in Elements(required') \/ (Len(stack') > 0 /\ selected[i] = stack'[1].app)
    BY <1>5 DEF VisitedInOrder
  <2>1. black' = Elements(required')
    BY <1>1, <1>4, <1>5 DEF VisitInv, VisitedInOrder
  <2>2. nodes[Top.app].deps \subseteq Elements(required)
    BY <1>1, <1>2 DEF VisitInv, VisitedInOrder
  <2>3. DependenciesFirst(nodes, required')
    <3>1. DOMAIN required' = 1 .. (Len(required) + 1)
      BY <1>4, <1>6, LenProperties DEF TypeOK
    <3> SUFFICES ASSUME NEW i \in 1 .. (Len(required) + 1)
                 PROVE  nodes[required'[i]].deps \subseteq {required'[j] : j \in 1 .. (i - 1)}
      BY <3>1 DEF DependenciesFirst
    <3>2. {required'[j] : j \in 1 .. (i - 1)} = {required[j] : j \in 1 .. (i - 1)}
      BY <1>1, <1>4
    <3>3. CASE i = Len(required) + 1
      BY <1>1, <1>4, <2>2, <3>2, <3>3 DEF Elements
    <3>4. CASE i \in 1 .. Len(required)
      BY <1>1, <1>4, <3>2, <3>4 DEF VisitInv, VisitedInOrder, DependenciesFirst
    <3> QED BY <1>1, <3>3, <3>4
  <2>4. ASSUME NEW k \in 1 .. (n - 1), NEW d \in nodes[stack[k].app].deps \ stack[k].deps
        PROVE  d \in Elements(required') \/ (k < n - 1 /\ d = stack[k + 1].app)
    <3>1. d \in Elements(required) \/ (k < n /\ d = stack[k + 1].app)
      BY <1>1 DEF VisitInv, VisitedInOrder
    <3>2. CASE k = n - 1
      BY <1>1, <1>2, <1>4, <3>1, <3>2
    <3>3. CASE k < n - 1
      BY <1>4, <3>1, <3>3
    <3>4. n \in Nat
      BY <1>1
    <3>5. k = n - 1 \/ k < n - 1
      BY <3>4, LastOrBefore
    <3> QED BY <3>2, <3>3, <3>5
  <2>5. ASSUME NEW k \in 1 .. Len(stack'), NEW d \in nodes[stack'[k].app].deps \ stack'[k].deps
        PROVE  d \in Elements(required') \/ (k < Len(stack') /\ d = stack'[k + 1].app)
    <3>1. k \in 1 .. (n - 1) /\ stack'[k] = stack[k] /\ (k < n - 1 => stack'[k + 1] = stack[k + 1])
      BY <1>1, <1>3
    <3> QED BY <1>3, <2>4, <3>1
  <2>6. ASSUME NEW i \in DOMAIN selected, i < next
        PROVE  selected[i] \in Elements(required') \/ (Len(stack') > 0 /\ selected[i] = stack'[1].app)
    <3>1. selected[i] \in Elements(required) \/ selected[i] = stack[1].app
      BY <1>1, <2>6 DEF VisitInv, VisitedInOrder
    <3>2. CASE n = 1
      BY <1>2, <1>4, <3>1, <3>2
    <3>3. CASE n > 1
      BY <1>3, <1>4, <3>1, <3>3
    <3> QED BY <1>1, <3>2, <3>3
  <2> QED BY <2>1, <2>3, <2>5, <2>6
<1>12. Sorting' /\ Phases'
  BY <1>1, <1>5 DEF Leave, IInv, Sorting, Phases
<1> QED BY <1>6, <1>7, <1>8, <1>9, <1>10, <1>11, <1>12 DEF IInv, VisitInv

\* The resolution ends with errors.
LEMMA RejectedStep ==
    ASSUME IInv, Rejected
    PROVE  IInv'
<1> USE StateSequences
<1>1. phase = "visit" /\ TypeOK /\ VisitInv /\ stack = <<>>
  BY DEF Rejected, IInv
<1>2. Disabled(required) => ~Installable(nodes, Elements(selected))
  <2> SUFFICES ASSUME Disabled(required) PROVE ~Installable(nodes, Elements(selected))
    OBVIOUS
  <2>1. PICK i \in 1 .. Len(required) : ~nodes[required[i]].enabled
    BY <1>1 DEF Disabled
  <2>2. required[i] \in Elements(required)
    BY <1>1 DEF Elements
  <2>3. required[i] \in Closure(nodes, Elements(selected))
    BY <1>1, <2>2 DEF VisitInv, Collected
  <2> QED BY <2>1, <2>3 DEF Installable
<1>3. errors' # {} /\ errors' \in SUBSET ErrorKinds /\ "internal" \notin errors'
  BY DEF Rejected, IInv, TypeOK, Phases, ErrorKinds
<1>4. /\ nodes' = nodes /\ selected' = selected /\ required' = required /\ stack' = stack
      /\ black' = black /\ next' = next /\ order' = order /\ phase' = "error"
      /\ indegree' = indegree /\ ready' = ready
  BY DEF Rejected
<1>5. Blamed'
  BY <1>1, <1>2, <1>4 DEF Rejected, VisitInv, Blamed
<1>6. Stacked' /\ PathsDown' /\ Collected' /\ VisitedInOrder'
  BY <1>1, <1>3, <1>4 DEF VisitInv, Stacked, PathsDown, Collected, VisitedInOrder
<1>7. TypeOK'
  BY <1>1, <1>3, <1>4 DEF TypeOK
<1>8. Sorting' /\ Phases'
  BY <1>3, <1>4 DEF IInv, Sorting, Phases
<1> QED BY <1>5, <1>6, <1>7, <1>8 DEF IInv, VisitInv

-----------------------------------------------------------------------------
(* The sort *)

\* The sets that indegree counts are finite.
LEMMA WaitingFinite ==
    ASSUME TypeOK, NEW a \in Apps, NEW D
    PROVE  IsFiniteSet(Waiting(a, D)) /\ Cardinality(Waiting(a, D)) \in Nat
<1>1. Waiting(a, D) \in SUBSET Apps
  BY StateSequences DEF Waiting
<1>2. IsFiniteSet(Waiting(a, D))
  BY <1>1, FS_Subset, AppsAssumption
<1> QED BY <1>2, FS_CardinalityType

\* The visit is over and found nothing wrong.
LEMMA StartSortStep ==
    ASSUME IInv, StartSort
    PROVE  IInv'
<1> USE StateSequences
<1>1. phase = "visit" /\ TypeOK /\ VisitInv /\ order = <<>> /\ Elements(order) = {}
  BY DEF StartSort, IInv, Phases, Elements
<1>2. /\ nodes' = nodes /\ selected' = selected /\ required' = required /\ stack' = stack
      /\ black' = black /\ next' = next /\ order' = order /\ phase' = "sort" /\ errors' = errors
  BY DEF StartSort
<1>3. indegree' \in [Apps -> Nat] /\ \A a \in Elements(required) : indegree'[a] = Cardinality(Waiting(a, {}))
  <2>1. \A a \in Apps : Cardinality(Waiting(a, {})) \in Nat
    BY <1>1, WaitingFinite
  <2> QED BY <1>1, <2>1 DEF StartSort
<1>4. ready' \subseteq Elements(required) /\ \A a \in Elements(required) : a \in ready' <=> indegree'[a] = 0
  BY DEF StartSort
<1>5. TypeOK'
  BY <1>1, <1>2, <1>3, <1>4 DEF TypeOK
<1>6. VisitInv'
  BY <1>1, <1>2 DEF VisitInv, Stacked, PathsDown, Collected, VisitedInOrder, Blamed
<1>7. \A a \in Elements(required) : Waiting(a, {})' = Waiting(a, {})
  BY <1>2 DEF Waiting
<1>8. NoRepeat(order) /\ DependenciesFirst(nodes, order)
  BY <1>1 DEF NoRepeat, DependenciesFirst
<1>9. Sorting'
  <2>1. stack = <<>> /\ next \notin DOMAIN selected /\ errors = {} /\ ~Disabled(required)
    BY DEF StartSort
  <2>2. \A a \in Elements(required) :
          /\ indegree'[a] = Cardinality(Waiting(a, Elements(order)))
          /\ a \in ready' \cup Elements(order) <=> indegree'[a] = 0
    BY <1>1, <1>3, <1>4
  <2> QED BY <1>1, <1>2, <1>4, <1>8, <2>1, <2>2 DEF Sorting, Waiting, Disabled
<1>10. Phases'
  BY <1>2 DEF IInv, Phases
<1> QED BY <1>5, <1>6, <1>9, <1>10 DEF IInv

\* An application without unordered dependencies is taken.
LEMMA TakeReadyStep ==
    ASSUME IInv, TakeReady
    PROVE  IInv'
<1> USE StateSequences
<1>1. phase = "sort" /\ TypeOK /\ VisitInv /\ Sorting
  BY DEF TakeReady, IInv
<1>2. PICK current \in ready :
        /\ order' = Append(order, current)
        /\ indegree' = [a \in Apps |-> IF a \in Dependents(current) THEN indegree[a] - 1 ELSE indegree[a]]
        /\ ready' = (ready \ {current}) \cup {a \in Dependents(current) : indegree'[a] = 0}
  BY DEF TakeReady
<1>3. /\ nodes' = nodes /\ selected' = selected /\ required' = required /\ stack' = stack
      /\ black' = black /\ next' = next /\ phase' = phase /\ errors' = errors
  BY DEF TakeReady
<1>4. current \in Apps /\ current \in Elements(required) /\ current \notin Elements(order)
  BY <1>1 DEF Sorting
<1>5. /\ order' \in Seq(Apps)
      /\ Len(order') = Len(order) + 1
      /\ \A i \in 1 .. Len(order) : order'[i] = order[i]
      /\ order'[Len(order) + 1] = current
      /\ Elements(order') = Elements(order) \cup {current}
      /\ NoRepeat(order')
  BY <1>1, <1>2, <1>4, AppendElements DEF TypeOK, Sorting
<1>6. ASSUME NEW a \in Elements(required)
      PROVE  /\ indegree'[a] = Cardinality(Waiting(a, Elements(order')))
             /\ indegree'[a] \in Nat
  <2>1. a \in Apps /\ IsFiniteSet(Waiting(a, Elements(order))) /\ Cardinality(Waiting(a, Elements(order))) \in Nat
    BY <1>1, WaitingFinite
  <2>2. Waiting(a, Elements(order')) = Waiting(a, Elements(order)) \ {current}
    BY <1>5 DEF Waiting
  <2>3. /\ IsFiniteSet(Waiting(a, Elements(order)) \ {current})
        /\ Cardinality(Waiting(a, Elements(order)) \ {current}) =
              IF current \in Waiting(a, Elements(order)) THEN Cardinality(Waiting(a, Elements(order))) - 1
              ELSE Cardinality(Waiting(a, Elements(order)))
    BY <2>1, FS_RemoveElement
  <2>4. Cardinality(Waiting(a, Elements(order)) \ {current}) \in Nat
    BY <2>3, FS_CardinalityType
  <2>5. current \in Waiting(a, Elements(order)) <=> a \in Dependents(current)
    BY <1>4 DEF Waiting, Dependents
  <2>6. indegree[a] = Cardinality(Waiting(a, Elements(order)))
    BY <1>1 DEF Sorting
  <2>7. indegree'[a] = IF a \in Dependents(current) THEN indegree[a] - 1 ELSE indegree[a]
    BY <1>2, <2>1
  <2> QED BY <2>2, <2>3, <2>4, <2>5, <2>6, <2>7
<1>7. indegree' \in [Apps -> Nat]
  <2> SUFFICES ASSUME NEW a \in Apps PROVE indegree'[a] \in Nat
    BY <1>2
  <2>1. CASE a \in Elements(required)
    BY <1>6, <2>1
  <2>2. CASE a \notin Elements(required)
    BY <1>1, <1>2, <2>2 DEF Dependents, TypeOK
  <2> QED BY <2>1, <2>2
<1>8. TypeOK'
  BY <1>1, <1>2, <1>3, <1>5, <1>7 DEF TypeOK, Dependents
<1>9. VisitInv'
  BY <1>1, <1>3 DEF VisitInv, Stacked, PathsDown, Collected, VisitedInOrder, Blamed
<1>10. nodes[current].deps \subseteq Elements(order)
  <2>1. indegree[current] = 0 /\ Cardinality(Waiting(current, Elements(order))) = 0
    BY <1>1, <1>4 DEF Sorting
  <2>2. Waiting(current, Elements(order)) = {}
    BY <1>1, <1>4, <2>1, WaitingFinite, FS_EmptySet
  <2>3. nodes[current].deps \subseteq Elements(required)
    <3>1. PICK i \in 1 .. Len(required) : current = required[i]
      BY <1>1, <1>4 DEF Elements
    <3> QED BY <1>1, <3>1 DEF VisitInv, VisitedInOrder, Sorting, DependenciesFirst, Elements
  <2> QED BY <2>2, <2>3 DEF Waiting
<1>11. DependenciesFirst(nodes, order')
  <2>1. DOMAIN order' = 1 .. (Len(order) + 1)
    BY <1>5, LenProperties
  <2> SUFFICES ASSUME NEW i \in 1 .. (Len(order) + 1)
               PROVE  nodes[order'[i]].deps \subseteq {order'[j] : j \in 1 .. (i - 1)}
    BY <2>1 DEF DependenciesFirst
  <2>2. {order'[j] : j \in 1 .. (i - 1)} = {order[j] : j \in 1 .. (i - 1)}
    BY <1>1, <1>5
  <2>3. CASE i = Len(order) + 1
    BY <1>1, <1>5, <1>10, <2>2, <2>3 DEF Elements
  <2>4. CASE i \in 1 .. Len(order)
    BY <1>1, <1>5, <2>2, <2>4 DEF Sorting, DependenciesFirst
  <2> QED BY <1>1, <2>3, <2>4
<1>12. ASSUME NEW a \in Elements(required)
       PROVE  a \in ready' \cup Elements(order') <=> indegree'[a] = 0
  <2>1. a \in Apps /\ indegree[a] \in Nat /\ (a \in ready \cup Elements(order) <=> indegree[a] = 0)
    BY <1>1 DEF Sorting, TypeOK
  <2>2. indegree'[a] = IF a \in Dependents(current) THEN indegree[a] - 1 ELSE indegree[a]
    BY <1>2, <2>1
  <2>3. indegree'[a] \in Nat
    BY <1>6
  <2>4. CASE a \in Dependents(current)
    BY <1>2, <1>5, <2>1, <2>2, <2>3, <2>4
  <2>5. CASE a \notin Dependents(current)
    BY <1>2, <1>5, <2>1, <2>2, <2>5
  <2> QED BY <2>4, <2>5
<1>13. ready' \subseteq Elements(required) \ Elements(order')
  <2> SUFFICES ASSUME NEW a \in ready' PROVE a \in Elements(required) /\ a \notin Elements(order')
    OBVIOUS
  <2>1. CASE a \in ready \ {current}
    BY <1>1, <1>5, <2>1 DEF Sorting
  <2>2. CASE a \in Dependents(current) /\ indegree'[a] = 0
    <3>1. a \in Elements(required) /\ a \in Apps
      BY <1>1, <2>2 DEF Dependents
    <3>2. indegree[a] = 1
      BY <1>1, <1>2, <2>2, <3>1 DEF TypeOK
    <3>3. a \notin ready \cup Elements(order)
      BY <1>1, <3>1, <3>2 DEF Sorting
    <3> QED BY <1>5, <3>1, <3>3
  <2> QED BY <1>2, <2>1, <2>2
<1>14. Sorting'
  <2>1. stack = <<>> /\ next \notin DOMAIN selected /\ errors = {} /\ ~Disabled(required)
        /\ Elements(order) \subseteq Elements(required)
    BY <1>1 DEF Sorting
  <2>2. \A a \in Elements(required) :
          /\ indegree'[a] = Cardinality(Waiting(a, Elements(order')))
          /\ a \in ready' \cup Elements(order') <=> indegree'[a] = 0
    BY <1>6, <1>12
  <2>3. Elements(order') \subseteq Elements(required)
    BY <1>4, <1>5, <2>1
  <2> QED BY <1>3, <1>5, <1>11, <1>13, <2>1, <2>2, <2>3 DEF Sorting, Waiting, Disabled
<1>15. Phases'
  BY <1>1, <1>3 DEF IInv, Phases
<1> QED BY <1>8, <1>9, <1>14, <1>15 DEF IInv

\* Everything that was collected is ordered once nothing is ready: the first
\* application of `required` that is not would wait for nothing.
LEMMA SortEnds ==
    ASSUME IInv, phase = "sort", ready = {}
    PROVE  Elements(order) = Elements(required) /\ Len(order) = Len(required)
<1> USE StateSequences
<1>1. TypeOK /\ VisitInv /\ Sorting /\ errors = {}
  BY DEF IInv, Sorting
<1> DEFINE I == {i \in 1 .. Len(required) : required[i] \notin Elements(order)}
<1>2. I = {}
  <2> SUFFICES ASSUME I # {} PROVE FALSE
    OBVIOUS
  <2>1. I \in SUBSET Nat
    BY <1>1
  <2>2. PICK n \in I : \A m \in I : n <= m
    <3> HIDE DEF I
    <3> QED BY <2>1, LeastNatural
  <2>3. n \in 1 .. Len(required) /\ required[n] \notin Elements(order) /\ required[n] \in Elements(required)
    BY <1>1, <2>2 DEF Elements
  <2>4. \A j \in 1 .. (n - 1) : required[j] \in Elements(order)
    BY <1>1, <2>2, <2>3
  <2>5. nodes[required[n]].deps \subseteq Elements(order)
    BY <1>1, <2>3, <2>4 DEF VisitInv, VisitedInOrder, DependenciesFirst
  <2>6. Waiting(required[n], Elements(order)) = {}
    BY <2>5 DEF Waiting
  <2>7. indegree[required[n]] = 0
    BY <1>1, <2>3, <2>6, FS_EmptySet DEF Sorting
  <2> QED BY <1>1, <2>3, <2>7 DEF Sorting
<1>3. Elements(order) = Elements(required)
  <2>1. \A i \in 1 .. Len(required) : required[i] \in Elements(order)
    BY <1>2
  <2> QED BY <1>1, <2>1 DEF Sorting, Elements
<1>4. Len(order) = Cardinality(Elements(order)) /\ Len(required) = Cardinality(Elements(required))
  BY <1>1, LengthCounts DEF TypeOK, VisitInv, Collected, Sorting
<1> QED BY <1>3, <1>4

\* The length check at the end always succeeds.
LEMMA FinishStep ==
    ASSUME IInv, Finish
    PROVE  IInv'
<1>1. phase = "sort" /\ ready = {} /\ TypeOK /\ VisitInv
  BY DEF Finish, IInv
<1>2. Elements(order) = Elements(required) /\ Len(order) = Len(required)
  BY <1>1, SortEnds
<1>3. /\ nodes' = nodes /\ selected' = selected /\ required' = required /\ stack' = stack
      /\ black' = black /\ next' = next /\ order' = order /\ phase' = "ok" /\ errors' = errors
      /\ indegree' = indegree /\ ready' = ready
  BY <1>2 DEF Finish
<1>4. TypeOK'
  BY <1>1, <1>3 DEF TypeOK
<1>5. VisitInv'
  BY <1>1, <1>3 DEF VisitInv, Stacked, PathsDown, Collected, VisitedInOrder, Blamed
<1>6. Sorting'
  BY <1>1, <1>3 DEF IInv, Sorting, Waiting, Disabled
<1>7. Phases'
  BY <1>1, <1>2, <1>3 DEF IInv, Phases
<1> QED BY <1>4, <1>5, <1>6, <1>7 DEF IInv

-----------------------------------------------------------------------------
(* The theorems *)

\* A resolution starts within the invariant.
LEMMA InitInvariant ==
    ASSUME Init
    PROVE  IInv
<1>1. /\ <<>> \in Seq(Frame) /\ <<>> \in Seq(Apps) /\ Len(<<>>) = 0
      /\ Elements(<<>>) = {} /\ 1 .. 0 = {}
  BY EmptySeq DEF Elements
<1>2. TypeOK
  BY <1>1, ArgumentsAssumption DEF Init, TypeOK
<1>3. Stacked /\ PathsDown /\ Collected /\ Blamed
  BY <1>1 DEF Init, Stacked, PathsDown, Collected, Blamed, NoRepeat
<1>4. VisitedInOrder
  <2>1. DOMAIN selected = 1 .. Len(selected) /\ Len(selected) \in Nat
    BY <1>2, StateSequences
  <2>2. \A i \in DOMAIN selected : ~(i < next)
    BY <2>1 DEF Init
  <2> QED BY <1>1, <2>2 DEF Init, VisitedInOrder, DependenciesFirst
<1>5. Sorting /\ Phases
  BY DEF Init, Sorting, Phases
<1> QED BY <1>2, <1>3, <1>4, <1>5 DEF IInv, VisitInv

\* Every step of the resolver keeps the invariant.
LEMMA NextInvariant ==
    ASSUME IInv, [Next]_vars
    PROVE  IInv'
<1>1. CASE Next
  BY <1>1, VisitSelectedStep, VisitDependencyStep, LeaveStep, RejectedStep, StartSortStep,
     TakeReadyStep, FinishStep DEF Next
<1>2. CASE UNCHANGED vars
  BY <1>2 DEF vars, IInv, TypeOK, VisitInv, Stacked, PathsDown, Collected, VisitedInOrder, Blamed,
     Sorting, Phases, Waiting, Disabled
<1> QED BY <1>1, <1>2

\* The inductive invariant holds in every state of the resolver.
THEOREM Invariance == Spec => []IInv
<1> QED BY InitInvariant, NextInvariant, PTL DEF Spec

\* The local variables of the resolver keep their types.
THEOREM TypeCorrect == Spec => []TypeOK
<1>1. IInv => TypeOK
  BY DEF IInv
<1> QED BY <1>1, Invariance, PTL

\* What the finished visit collected is the closure of the selection.
LEMMA CollectedIsClosure ==
    ASSUME IInv, phase = "ok"
    PROVE  Elements(required) = Closure(nodes, Elements(selected))
<1> USE StateSequences
<1>1. TypeOK /\ VisitInv /\ Sorting /\ errors = {} /\ stack = <<>> /\ Len(stack) = 0
  BY DEF IInv, Sorting
<1>2. \A i \in 1 .. Len(selected) : i < next
  BY <1>1 DEF IInv, Sorting, Phases, TypeOK
<1>3. Elements(selected) \subseteq Elements(required)
  BY <1>1, <1>2 DEF VisitInv, VisitedInOrder, Elements
<1>4. Closed(nodes, Elements(required))
  <2> SUFFICES ASSUME NEW i \in 1 .. Len(required) PROVE nodes[required[i]].deps \subseteq Elements(required)
    BY <1>1 DEF Closed, Elements
  <2>1. nodes[required[i]].deps \subseteq {required[j] : j \in 1 .. (i - 1)}
    BY <1>1 DEF VisitInv, VisitedInOrder, DependenciesFirst
  <2>2. {required[j] : j \in 1 .. (i - 1)} \subseteq Elements(required)
    BY <1>1 DEF Elements
  <2> QED BY <2>1, <2>2
<1>5. Closure(nodes, Elements(selected)) \subseteq Elements(required)
  BY <1>1, <1>3, <1>4, ClosureLeast
<1> QED BY <1>1, <1>5 DEF VisitInv, Collected

\* A returned order holds what the selection needs, once, dependencies first.
THEOREM ResolverIsCorrect == Spec => []ResultIsInstallOrder
<1>1. ASSUME IInv PROVE ResultIsInstallOrder
  <2> SUFFICES ASSUME phase = "ok" PROVE IsInstallOrder(nodes, Elements(selected), order)
    BY DEF ResultIsInstallOrder
  <2>1. Elements(order) = Closure(nodes, Elements(selected))
    BY <1>1, CollectedIsClosure DEF IInv, Phases
  <2>2. order \in Seq(Apps) /\ NoRepeat(order) /\ DependenciesFirst(nodes, order)
    BY <1>1 DEF IInv, TypeOK, Sorting
  <2>3. Len(order) = Cardinality(Elements(order))
    BY <2>2, LengthCounts
  <2> QED BY <2>1, <2>2, <2>3 DEF IsInstallOrder
<1> QED BY <1>1, Invariance, PTL

\* A selection is rejected exactly when it cannot be installed.
THEOREM RejectsExactly == Spec => []ErrorsAreExact
<1>1. ASSUME IInv PROVE ErrorsAreExact
  <2>1. ASSUME phase = "ok" PROVE Installable(nodes, Elements(selected))
    <3> SUFFICES ASSUME NEW a \in Closure(nodes, Elements(selected))
                 PROVE  nodes[a].exists /\ nodes[a].enabled /\ ~OnCycle(nodes, a)
      BY DEF Installable
    <3>1. a \in Elements(required) /\ a \in Elements(order)
      BY <1>1, <2>1, CollectedIsClosure DEF IInv, Phases
    <3>2. nodes \in Catalog /\ order \in Seq(Apps) /\ NoRepeat(order) /\ DependenciesFirst(nodes, order)
      BY <1>1, <2>1 DEF IInv, TypeOK, Sorting
    <3>3. ~OnCycle(nodes, a)
      BY <3>1, <3>2, OrderedIsAcyclic
    <3>4. nodes[a].exists
      BY <1>1, <3>1 DEF IInv, VisitInv, Collected
    <3>5. nodes[a].enabled
      BY <1>1, <2>1, <3>1 DEF IInv, Sorting, Disabled, Elements
    <3> QED BY <3>3, <3>4, <3>5
  <2>2. ASSUME phase = "error" PROVE ~Installable(nodes, Elements(selected))
    BY <1>1, <2>2 DEF IInv, Phases, VisitInv, Blamed
  <2> QED BY <2>1, <2>2 DEF ErrorsAreExact
<1> QED BY <1>1, Invariance, PTL

\* The error that the code marks "no cover" is never reported.
THEOREM NoInternalError == Spec => []SortIsComplete
<1>1. IInv => SortIsComplete
  BY DEF IInv, Phases, SortIsComplete
<1> QED BY <1>1, Invariance, PTL
=============================================================================
