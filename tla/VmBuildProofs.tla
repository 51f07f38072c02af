---------------------------- MODULE VmBuildProofs ----------------------------
(***************************************************************************)
(* Theorems of VmBuild, for every request of at most seven data disks, any *)
(* operations whose tasks may be late, and any number of stopped attempts  *)
(* and deleted VMs.                                                        *)
(***************************************************************************)
EXTENDS VmBuild, FiniteSetTheorems, TLAPS

-----------------------------------------------------------------------------
(* The inductive invariant *)

\* What add_data_disks makes of a VM without data disks.
FullDisks == Placed(DataDisks, {})

VmType ==
    [exists : BOOLEAN, id : Nat \ {0}, boot : {"default", "install", "disk"}, nics : Nat, powered : BOOLEAN,
     os : {"empty", "prompt", "setup", "installed"}, disks : {NoDisks, FullDisks}, up : BOOLEAN, due : BOOLEAN,
     boots : Nat, bootedFrom : {"default", "install", "disk"}]

CallType == [op : Ops, on : Nat \ {ForeignRef}, nics : Nat, disks : {NoDisks, FullDisks}]

Types ==
    /\ vm \in VmType
    /\ foreign \in {"absent", "folder", "elsewhere"}
    /\ touched \subseteq {"guest"}
    /\ task \in CallType \cup {NoCall}
    /\ stray \subseteq CallType
    /\ stage \in Stages
    /\ pc \in Pcs
    /\ plan \in CallType \cup {NoCall}
    /\ ref \in Nat \ {ForeignRef}
    /\ seen \in Nat
    /\ warned \in BOOLEAN

\* The handler has made its call.
Calling == pc \in {"issue", "wait", "ok", "error"}

OpsOf(s) ==
    CASE s = "create_vm"                -> {"create", "boot"}
      [] s = "attach_network_adapter"   -> {"adapter"}
      [] s = "power_on"                 -> {"on", "reset"}
      [] s = "cleanup_unattended_media" -> {"detach"}
      [] s = "add_data_disks"           -> {"disks"}
      [] OTHER                          -> {}

\* Where the handler of each stage can be, and the call it has made.
ControlInv ==
    /\ Calling => plan.op \in OpsOf(stage)
    /\ pc = "wait" => task = plan
    /\ pc = "create" => stage = "create_vm"
    /\ pc \in {"keys", "pressed"} => stage = "power_on"
    /\ pc \in {"scrub", "boottime", "schedule", "restart"} => stage = "cleanup_unattended_media"

\* Calls that may still take effect: of the handler, of threads, in vCenter.
Live == stray \cup {task} \cup (IF Calling THEN {plan} ELSE {})

\* Only the VM that create_vm has recorded is changed after its creation, and
\* a boot order goes to a VM that was created.
CallOk(c) ==
    /\ c.op \notin {"none", "create", "boot"} => c.on = ref /\ stage # "create_vm"
    /\ c.op = "boot" => c.on \in 2 .. vm.id
    /\ c.op = "create" => c.on = NoRef
    /\ c.op = "disks" => c.disks = FullDisks

CallsInv == \A c \in Live : CallOk(c)

\* The VM that create_vm has recorded is there.
Ours == vm.exists /\ vm.id = ref

\* References only grow, and are recorded once.
RefInv ==
    /\ ref <= vm.id
    /\ vm.exists => vm.id > 1
    /\ stage = "create_vm" <=> ref = NoRef
    /\ stage = "create_vm" /\ pc = "ok" => vm.id > 1

\* Windows runs on our VM alone, and when it is installed no boot order of
\* create_vm is left for it.
GuestInv ==
    /\ vm.os # "empty" => Ours
    /\ vm.up => vm.os = "installed"
    /\ vm.due => vm.up
    /\ vm.os = "installed" => \A c \in stray \cup {task} : ~(c.op = "boot" /\ c.on = vm.id)

DisksInv ==
    /\ stage = "add_data_disks" /\ pc = "ok" /\ Ours => vm.disks = FullDisks
    /\ stage \in {"initialize_data_disks", "done"} /\ Ours => vm.disks = FullDisks

BuildInv == Types /\ ControlInv /\ CallsInv /\ RefInv /\ GuestInv /\ DisksInv

\* The restart of the clean-up, from the detach to the later start of Windows.
DetachedInv == warned \/ vm.boot = "disk"

RestartDone == ~vm.due /\ DetachedInv /\ (warned \/ vm.bootedFrom = "disk")

RestartInv ==
    Ours =>
        /\ stage \in {"wait_for_tools", "cleanup_unattended_media", "add_data_disks", "initialize_data_disks",
                     "done"} => vm.os = "installed"
        /\ stage = "cleanup_unattended_media" =>
             /\ pc = "ok" => vm.boot = "disk"
             /\ pc \in {"scrub", "boottime", "schedule", "restart"} => DetachedInv
             /\ pc = "schedule" => seen = vm.boots
             /\ pc = "restart" => \/ seen = vm.boots /\ (vm.up <=> vm.due)
                                  \/ seen < vm.boots /\ RestartDone
        /\ stage \in {"add_data_disks", "initialize_data_disks", "done"} => RestartDone

\* With no late task of attach_network_adapter, the card count its handler read
\* is current.
AdapterInv ==
    /\ \A c \in stray : c.op # "adapter"
    /\ task.op = "adapter" => pc = "wait"
    /\ Ours =>
         /\ stage = "attach_network_adapter" /\ pc \in {"issue", "wait"} => plan.nics = vm.nics
         /\ stage = "attach_network_adapter" /\ pc = "ok" => vm.nics = 1
         /\ stage \notin {"create_vm", "configure_hardware", "attach_network_adapter"} => vm.nics = 1

-----------------------------------------------------------------------------
(* The units of the data disks *)

\* The place of a unit among those that may hold a data disk.
Rank(u) == Cardinality({v \in Units : v <= u})

\* The size of an interval.
LEMMA UpTo ==
    ASSUME NEW n \in Nat
    PROVE  IsFiniteSet(1 .. n) /\ Cardinality(1 .. n) = n
<1>1. n \in Int /\ 1 \in Int
  OBVIOUS
<1>2. IsFiniteSet(1 .. n) /\ Cardinality(1 .. n) = IF 1 > n THEN 0 ELSE n - 1 + 1
  BY <1>1, FS_Interval, Zenon
<1> QED  BY <1>2

\* The controller's unit has no place, and the eighth unit is the seventh place.
LEMMA Ranks ==
    /\ \A u \in 1 .. 6 : Rank(u) = u
    /\ Rank(8) = 7
    /\ \A u \in 9 .. 15 : Rank(u) \in Nat /\ Rank(u) > 7
<1>1. ASSUME NEW u \in 1 .. 6 PROVE Rank(u) = u
  <2>1. {v \in Units : v <= u} = 1 .. u
    BY DEF Units
  <2>2. u \in Nat
    OBVIOUS
  <2> QED  BY <2>1, <2>2, UpTo, Zenon DEF Rank
<1>2. /\ IsFiniteSet(1 .. 8) /\ Cardinality(1 .. 8) = 8
      /\ IsFiniteSet(1 .. 9) /\ Cardinality(1 .. 9) = 9
      /\ IsFiniteSet(1 .. 15)
  <2>1. 8 \in Nat /\ 9 \in Nat /\ 15 \in Nat
    OBVIOUS
  <2> QED  BY <2>1, UpTo, Zenon
<1>3. /\ Cardinality((1 .. 8) \ {7}) = 7
      /\ Cardinality((1 .. 9) \ {7}) = 8
  <2>1. 7 \in 1 .. 8 /\ 7 \in 1 .. 9 /\ 8 - 1 = 7 /\ 9 - 1 = 8
    OBVIOUS
  <2> QED  BY <1>2, <2>1, FS_RemoveElement
<1>4. Rank(8) = 7
  <2>1. {v \in Units : v <= 8} = (1 .. 8) \ {7}
    BY DEF Units
  <2> QED  BY <1>3, <2>1 DEF Rank
<1>5. ASSUME NEW u \in 9 .. 15 PROVE Rank(u) \in Nat /\ Rank(u) > 7
  <2> DEFINE S == {v \in Units : v <= u}
  <2>1. S \subseteq 1 .. 15 /\ (1 .. 9) \ {7} \subseteq S
    BY DEF Units
  <2> HIDE DEF S
  <2>2. IsFiniteSet(S)
    BY <1>2, <2>1, FS_Subset
  <2>3. Cardinality((1 .. 9) \ {7}) <= Cardinality(S)
    BY <2>1, <2>2, FS_Subset
  <2>4. Cardinality(S) \in Nat
    BY <2>2, FS_CardinalityType
  <2>5. Cardinality(S) > 7
    BY <1>3, <2>3, <2>4
  <2> QED  BY <2>4, <2>5 DEF Rank, S
<1> QED  BY <1>1, <1>4, <1>5

\* The schema accepts at most seven data disks.
LEMMA RequestLength ==
    /\ DataDisks \in Seq(Nat)
    /\ Len(DataDisks) \in 0 .. 7 /\ DOMAIN DataDisks = 1 .. Len(DataDisks)
    /\ Len(DataDisks) = 0 <=> DataDisks = <<>>
<1>1. DataDisks \in Seq(Nat) /\ Len(DataDisks) <= 7
  BY BuildAssumption
<1>2. Len(DataDisks) \in Nat /\ DOMAIN DataDisks = 1 .. Len(DataDisks)
  BY <1>1
<1>3. Len(DataDisks) = 0 <=> DataDisks = <<>>
  BY <1>1
<1>4. \A k \in Nat : k <= 7 => k \in 0 .. 7
  OBVIOUS
<1>5. Len(DataDisks) \in 0 .. 7
  BY <1>1, <1>2, <1>4, Zenon
<1> QED  BY <1>1, <1>2, <1>3, <1>5

\* add_data_disks takes the units 1 to 6, and 8 for the seventh disk.
LEMMA FullDisksShape ==
    /\ Len(DataDisks) <= 6 =>
         FullDisks = [u \in 1 .. Len(DataDisks) |-> DataDisks[u]]
    /\ Len(DataDisks) = 7 =>
         FullDisks = [u \in (1 .. 8) \ {7} |-> DataDisks[IF u = 8 THEN 7 ELSE u]]
<1> DEFINE n == Len(DataDisks)
<1>0. n \in 0 .. 7
  BY RequestLength
<1>1. FullDisks = [u \in {v \in Units : Rank(v) <= n} |-> DataDisks[Rank(u)]]
  <2>1. Units \ {} = Units
    OBVIOUS
  <2> QED  BY <2>1, Zenon DEF FullDisks, Placed, Rank
<1> HIDE DEF n
<1>2. ASSUME n <= 6 PROVE FullDisks = [u \in 1 .. n |-> DataDisks[u]]
  <2>1. {v \in Units : Rank(v) <= n} = 1 .. n
    <3>1. ASSUME NEW v \in Units PROVE Rank(v) <= n <=> v \in 1 .. n
      BY <1>0, <1>2, Ranks, v \in 1 .. 6 \/ v = 8 \/ v \in 9 .. 15 DEF Units
    <3>2. 1 .. n \subseteq Units
      BY <1>0, <1>2 DEF Units
    <3> QED  BY <3>1, <3>2
  <2>2. \A u \in 1 .. n : Rank(u) = u
    BY <1>0, <1>2, Ranks
  <2> QED  BY <1>1, <2>1, <2>2
<1>3. ASSUME n = 7 PROVE FullDisks = [u \in (1 .. 8) \ {7} |-> DataDisks[IF u = 8 THEN 7 ELSE u]]
  <2>1. {v \in Units : Rank(v) <= n} = (1 .. 8) \ {7}
    <3>1. ASSUME NEW v \in Units PROVE Rank(v) <= n <=> v \in (1 .. 8) \ {7}
      BY <1>3, Ranks, v \in 1 .. 6 \/ v = 8 \/ v \in 9 .. 15 DEF Units
    <3>2. (1 .. 8) \ {7} \subseteq Units
      BY DEF Units
    <3> QED  BY <3>1, <3>2
  <2>2. \A u \in (1 .. 8) \ {7} : Rank(u) = IF u = 8 THEN 7 ELSE u
    BY <1>3, Ranks
  <2> QED  BY <1>1, <2>1, <2>2
<1> QED  BY <1>2, <1>3 DEF n

\* The count that the retry compares with the request, the sizes, and what is
\* missing before and after.
LEMMA FullDisksFacts ==
    /\ DOMAIN FullDisks \subseteq Units
    /\ Cardinality(DOMAIN FullDisks) = Len(DataDisks)
    /\ DataDisks # <<>> => DOMAIN FullDisks # {}
    /\ DataDisks = <<>> => FullDisks = NoDisks
    /\ DOMAIN NoDisks = {} /\ Cardinality(DOMAIN NoDisks) = 0
    /\ Missing(0) = DataDisks /\ Missing(Len(DataDisks)) = <<>>
<1> DEFINE n == Len(DataDisks)
<1>0. n \in 0 .. 7 /\ DataDisks \in Seq(Nat) /\ (n = 0 <=> DataDisks = <<>>)
  BY RequestLength
<1>1. DOMAIN FullDisks = IF n = 7 THEN (1 .. 8) \ {7} ELSE 1 .. n
  <2>1. CASE n = 7
    BY <2>1, FullDisksShape
  <2>2. CASE n # 7
    <3> HIDE DEF n
    <3>1. n <= 6
      BY <1>0, <2>2
    <3>2. FullDisks = [u \in 1 .. n |-> DataDisks[u]]
      BY <3>1, FullDisksShape DEF n
    <3> QED  BY <2>2, <3>2
  <2> QED  BY <2>1, <2>2
<1>2. Missing(0) = DataDisks /\ Missing(n) = <<>>
  BY <1>0 DEF Missing
<1>3. DOMAIN NoDisks = {} /\ Cardinality(DOMAIN NoDisks) = 0
  BY FS_EmptySet DEF NoDisks
<1>4. n = 0 => FullDisks = NoDisks
  BY FullDisksShape DEF NoDisks
<1> HIDE DEF n
<1>5. DOMAIN FullDisks \subseteq Units /\ (n # 0 => DOMAIN FullDisks # {})
  <2>1. CASE n = 7
    BY <1>1, <2>1 DEF Units
  <2>2. CASE n # 7
    <3>1. DOMAIN FullDisks = 1 .. n
      BY <1>1, <2>2
    <3>2. n \in 0 .. 6
      BY <1>0, <2>2
    <3>3. n # 0 => 1 \in 1 .. n
      BY <3>2
    <3>4. 1 .. n \subseteq Units
      BY <3>2 DEF Units
    <3> QED  BY <3>1, <3>3, <3>4
  <2> QED  BY <2>1, <2>2
<1>6. Cardinality(DOMAIN FullDisks) = n
  <2>1. IsFiniteSet(1 .. 8) /\ Cardinality(1 .. 8) = 8 /\ Cardinality(1 .. n) = n
    <3>1. 8 \in Nat /\ n \in Nat
      BY <1>0
    <3> QED  BY <3>1, UpTo, Zenon
  <2>2. Cardinality((1 .. 8) \ {7}) = 7
    <3>1. 7 \in 1 .. 8 /\ 8 - 1 = 7
      OBVIOUS
    <3>2. Cardinality((1 .. 8) \ {7}) = Cardinality(1 .. 8) - 1
      BY <2>1, <3>1, FS_RemoveElement, Zenon
    <3> QED  BY <2>1, <3>1, <3>2
  <2> QED  BY <1>1, <2>1, <2>2
<1> QED  BY <1>0, <1>2, <1>3, <1>4, <1>5, <1>6 DEF n

\* The disks of the units are those of the request, whatever sizes repeat.
LEMMA FullDisksSizes == SameSizes(FullDisks)
<1> SUFFICES ASSUME NEW x PROVE Count(FullDisks, x) = Count(DataDisks, x)
  BY DEF SameSizes
<1> DEFINE n == Len(DataDisks)
<1>0. n \in 0 .. 7 /\ DOMAIN DataDisks = 1 .. n
  BY RequestLength
<1>1. CASE n <= 6
  <2>1. FullDisks = [u \in 1 .. n |-> DataDisks[u]]
    BY <1>1, FullDisksShape
  <2> HIDE DEF n
  <2>2. {i \in DOMAIN FullDisks : FullDisks[i] = x} = {i \in DOMAIN DataDisks : DataDisks[i] = x}
    BY <1>0, <2>1
  <2> QED  BY <2>2 DEF Count
<1>2. CASE n = 7
  <2> DEFINE S == {i \in 1 .. 6 : DataDisks[i] = x}
             A == {i \in DOMAIN FullDisks : FullDisks[i] = x}
             B == {i \in DOMAIN DataDisks : DataDisks[i] = x}
  <2>1. FullDisks = [u \in (1 .. 8) \ {7} |-> DataDisks[IF u = 8 THEN 7 ELSE u]]
    BY <1>2, FullDisksShape
  <2>2. B = IF DataDisks[7] = x THEN S \cup {7} ELSE S
    BY <1>0, <1>2
  <2>3. A = IF DataDisks[7] = x THEN S \cup {8} ELSE S
    <3>1. DOMAIN FullDisks = 1 .. 6 \cup {8}
      BY <2>1
    <3>2. FullDisks[8] = DataDisks[7] /\ \A u \in 1 .. 6 : FullDisks[u] = DataDisks[u]
      BY <2>1
    <3> QED  BY <3>1, <3>2
  <2>4. IsFiniteSet(S) /\ 7 \notin S /\ 8 \notin S
    <3>1. S \in SUBSET (1 .. 6) /\ 6 \in Nat /\ 7 \notin S /\ 8 \notin S
      OBVIOUS
    <3>2. IsFiniteSet(1 .. 6)
      BY <3>1, UpTo, Zenon
    <3> QED  BY <3>1, <3>2, FS_Subset, Zenon
  <2> HIDE DEF S
  <2>5. Cardinality(A) = Cardinality(B)
    <3>1. CASE DataDisks[7] = x
      <4>1. A = S \cup {8} /\ B = S \cup {7}
        BY <2>2, <2>3, <3>1
      <4>2. Cardinality(S \cup {8}) = Cardinality(S) + 1 /\ Cardinality(S \cup {7}) = Cardinality(S) + 1
        BY <2>4, FS_AddElement, Zenon
      <4> HIDE DEF A, B
      <4> QED  BY <4>1, <4>2
    <3>2. CASE DataDisks[7] # x
      BY <2>2, <2>3, <3>2
    <3> QED  BY <3>1, <3>2
  <2> QED  BY <2>5 DEF Count
<1> QED  BY <1>0, <1>1, <1>2

-----------------------------------------------------------------------------
(* Records *)

\* The stages, as a set.
LEMMA StagesAre ==
    Stages = {"create_vm", "configure_hardware", "attach_network_adapter", "power_on", "wait_for_guest_os",
              "wait_for_tools", "cleanup_unattended_media", "add_data_disks", "initialize_data_disks", "done"}
<1> DEFINE S == {"create_vm", "configure_hardware", "attach_network_adapter", "power_on", "wait_for_guest_os",
                 "wait_for_tools", "cleanup_unattended_media", "add_data_disks", "initialize_data_disks", "done"}
<1>1. DOMAIN StageOrder = 1 .. 10
  BY DEF StageOrder
<1>2. \A i \in 1 .. 10 : StageOrder[i] \in S
  BY DEF StageOrder
<1>3. \A x \in S : \E i \in 1 .. 10 : StageOrder[i] = x
  BY DEF StageOrder
<1>4. Stages = {StageOrder[i] : i \in 1 .. 10}
  BY <1>1 DEF Stages, Range
<1> HIDE DEF S
<1>5. Stages = S
  BY <1>2, <1>3, <1>4
<1> QED  BY <1>5 DEF S

\* What the stages and vCenter do to a VM.
LEMMA VmUpdates ==
    ASSUME NEW v \in VmType
    PROVE  /\ NoVm \in VmType
           /\ [NoVm EXCEPT !.id = v.id] \in VmType
           /\ [NoVm EXCEPT !.exists = TRUE, !.id = v.id + 1] \in VmType
           /\ \A b \in {"install", "disk"} : [v EXCEPT !.boot = b] \in VmType
           /\ \A n \in Nat : [v EXCEPT !.nics = n] \in VmType
           /\ \A o \in {"empty", "prompt", "setup", "installed"} :
                /\ [v EXCEPT !.os = o] \in VmType
                /\ [v EXCEPT !.powered = TRUE, !.os = o] \in VmType
                /\ [v EXCEPT !.os = o, !.up = TRUE] \in VmType
                /\ [v EXCEPT !.os = o, !.up = FALSE, !.due = FALSE] \in VmType
           /\ [v EXCEPT !.disks = FullDisks] \in VmType
           /\ [v EXCEPT !.due = TRUE] \in VmType
           /\ [v EXCEPT !.up = FALSE, !.due = FALSE] \in VmType
           /\ [v EXCEPT !.up = TRUE, !.boots = v.boots + 1, !.bootedFrom = v.boot] \in VmType
<1>1. NoVm \in VmType
  BY DEF NoVm, VmType, ForeignRef
<1>2. [NoVm EXCEPT !.id = v.id] \in VmType /\ [NoVm EXCEPT !.exists = TRUE, !.id = v.id + 1] \in VmType
  <2>1. v.id \in Nat \ {0} /\ v.id + 1 \in Nat \ {0}
    BY DEF VmType
  <2>2. \A i \in Nat \ {0} : [NoVm EXCEPT !.id = i] \in VmType /\ [NoVm EXCEPT !.exists = TRUE, !.id = i] \in VmType
    BY <1>1 DEF VmType
  <2> QED  BY <2>1, <2>2
<1>3. /\ \A b \in {"install", "disk"} : [v EXCEPT !.boot = b] \in VmType
      /\ \A n \in Nat : [v EXCEPT !.nics = n] \in VmType
  BY DEF VmType
<1>4. ASSUME NEW o \in {"empty", "prompt", "setup", "installed"}
      PROVE  /\ [v EXCEPT !.os = o] \in VmType
             /\ [v EXCEPT !.powered = TRUE, !.os = o] \in VmType
             /\ [v EXCEPT !.os = o, !.up = TRUE] \in VmType
             /\ [v EXCEPT !.os = o, !.up = FALSE, !.due = FALSE] \in VmType
  BY DEF VmType
<1>5. /\ [v EXCEPT !.disks = FullDisks] \in VmType
      /\ [v EXCEPT !.due = TRUE] \in VmType
      /\ [v EXCEPT !.up = FALSE, !.due = FALSE] \in VmType
  BY DEF VmType
<1>6. [v EXCEPT !.up = TRUE, !.boots = v.boots + 1, !.bootedFrom = v.boot] \in VmType
  <2>1. v.boots + 1 \in Nat
    BY DEF VmType
  <2>2. \A n \in Nat : [v EXCEPT !.up = TRUE, !.boots = n, !.bootedFrom = v.boot] \in VmType
    BY DEF VmType
  <2> QED  BY <2>1, <2>2
<1> QED  BY <1>1, <1>2, <1>3, <1>4, <1>5, <1>6

\* The calls that the stages make.
LEMMA Calls ==
    /\ NoCall \notin CallType /\ NoCall.op = "none"
    /\ \A r \in Nat \ {ForeignRef}, n \in Nat, d \in {NoDisks, FullDisks}, o \in Ops :
         [op |-> o, on |-> r, nics |-> n, disks |-> d] \in CallType
    /\ \A c \in CallType : c.op \in Ops /\ c.op # "none"
<1>1. NoCall.op = "none"
  BY DEF NoCall
<1>2. \A c \in CallType : c.op \in Ops /\ c.op # "none"
  <2>1. \A c \in CallType : c.op \in Ops
    BY DEF CallType
  <2>2. "none" \notin Ops
    BY DEF Ops
  <2> QED  BY <2>1, <2>2
<1>3. NoCall \notin CallType
  BY <1>1, <1>2
<1>4. \A r \in Nat \ {ForeignRef}, n \in Nat, d \in {NoDisks, FullDisks}, o \in Ops :
         [op |-> o, on |-> r, nics |-> n, disks |-> d] \in CallType
  BY DEF CallType
<1> QED  BY <1>1, <1>2, <1>3, <1>4

\* How a task ends: refused, a new VM, or a change of the VM it was for.
LEMMA TaskEnding ==
    ASSUME Types, CallOk(task), TaskEnds
    PROVE  /\ task \in CallType /\ task' = NoCall
           /\ pc' = IF pc # "wait" THEN pc ELSE IF Refused(task) THEN "error" ELSE "ok"
           /\ touched' = touched
           /\ UNCHANGED <<foreign, stray, stage, plan, ref, seen, warned, aborts>>
           /\ \/ Refused(task) /\ vm' = vm
              \/ /\ ~Refused(task) /\ task.op = "create" /\ ~vm.exists
                 /\ vm' = [NoVm EXCEPT !.exists = TRUE, !.id = vm.id + 1]
              \/ /\ ~Refused(task) /\ vm.exists /\ task.on = vm.id
                 /\ \/ task.op = "boot" /\ vm' = [vm EXCEPT !.boot = "install"]
                    \/ task.op = "adapter" /\ task.nics <= vm.nics
                       /\ vm' = [vm EXCEPT !.nics = (vm.nics + 1) - task.nics]
                    \/ task.op = "on" /\ \E o \in {vm.os, "prompt"} :
                         (vm.os # "empty" => o = vm.os) /\ vm' = [vm EXCEPT !.powered = TRUE, !.os = o]
                    \/ task.op = "reset" /\ \E o \in {vm.os, "prompt"} :
                         (vm.os # "setup" => o = vm.os)
                         /\ vm' = [vm EXCEPT !.os = o, !.up = FALSE, !.due = FALSE]
                    \/ task.op = "detach" /\ vm' = [vm EXCEPT !.boot = "disk"]
                    \/ task.op = "disks" /\ vm' = [vm EXCEPT !.disks = FullDisks]
<1>1. task \in CallType /\ vm \in VmType /\ task.op \in Ops /\ task.on # ForeignRef
  BY Calls DEF Types, TaskEnds, CallType
<1>2. /\ task' = NoCall
      /\ pc' = IF pc # "wait" THEN pc ELSE IF Refused(task) THEN "error" ELSE "ok"
      /\ touched' = touched
      /\ vm' = IF Refused(task) THEN vm ELSE Applied(task)
      /\ UNCHANGED <<foreign, stray, stage, plan, ref, seen, warned, aborts>>
  BY <1>1 DEF TaskEnds, Types
<1>3. CASE Refused(task)
  BY <1>1, <1>2, <1>3
<1>4. CASE ~Refused(task) /\ task.op = "create"
  BY <1>1, <1>2, <1>4 DEF Refused, Applied
<1>5. CASE ~Refused(task) /\ task.op # "create"
  <2>1. vm.exists /\ task.on = vm.id
    BY <1>1, <1>5 DEF Refused, Found, Named
  <2>2. CASE task.op = "boot"
    BY <1>1, <1>2, <1>5, <2>1, <2>2 DEF Applied
  <2>3. CASE task.op = "adapter"
    <3>1. task.nics <= vm.nics
      BY <1>1, <1>5, <2>1, <2>3 DEF Refused, VmType, CallType
    <3> QED  BY <1>1, <1>2, <1>5, <2>1, <2>3, <3>1 DEF Applied
  <2>4. CASE task.op = "on"
    <3>1. vm' = [vm EXCEPT !.powered = TRUE, !.os = IF vm.os = "empty" THEN "prompt" ELSE vm.os]
      BY <1>1, <1>2, <1>5, <2>4 DEF Applied
    <3> QED  BY <1>1, <1>2, <1>5, <2>1, <2>4, <3>1
  <2>5. CASE task.op = "reset"
    <3>1. vm' = [vm EXCEPT !.os = IF vm.os = "setup" THEN "prompt" ELSE vm.os, !.up = FALSE, !.due = FALSE]
      BY <1>1, <1>2, <1>5, <2>5 DEF Applied
    <3> QED  BY <1>1, <1>2, <1>5, <2>1, <2>5, <3>1
  <2>6. CASE task.op = "detach"
    BY <1>1, <1>2, <1>5, <2>1, <2>6 DEF Applied
  <2>7. CASE task.op = "disks"
    <3> DEFINE D == [u \in DOMAIN vm.disks \cup DOMAIN task.disks |->
                       IF u \in DOMAIN task.disks THEN task.disks[u] ELSE vm.disks[u]]
    <3>1. vm' = [vm EXCEPT !.disks = D]
      BY <1>1, <1>2, <1>5, <2>7 DEF Applied
    <3>2. task.disks = FullDisks
      BY <2>7 DEF CallOk
    <3>3. DOMAIN vm.disks \subseteq DOMAIN FullDisks
      BY <1>1, FullDisksFacts DEF VmType
    <3>4. FullDisks = [u \in DOMAIN FullDisks |-> FullDisks[u]]
      BY DEF FullDisks, Placed
    <3>5. D = FullDisks
      BY <3>2, <3>3, <3>4
    <3> HIDE DEF D
    <3> QED  BY <1>1, <1>2, <1>5, <2>1, <2>7, <3>1, <3>5
  <2> QED  BY <1>1, <1>5, <2>2, <2>3, <2>4, <2>5, <2>6, <2>7 DEF Ops
<1> QED  BY <1>3, <1>4, <1>5

\* The handlers that make a call or record a reference, in terms of records.
LEMMA LookingUp ==
    ASSUME Types, LookUp
    PROVE  \/ pc' \in {"stopped", "create"} /\ UNCHANGED <<stage, ref>>
           \/ vm.exists /\ vm.id # ForeignRef /\ ref' = vm.id /\ stage' = "configure_hardware" /\ pc' = "begin"
<1>1. CASE Cardinality(Named) > 1 /\ Fail /\ UNCHANGED ref
  BY <1>1 DEF Fail
<1>2. CASE \E id \in Named : /\ Named = {id}
                             /\ \/ ~Owned(id) /\ Fail /\ UNCHANGED ref
                                \/ Owned(id) /\ Advance("configure_hardware") /\ ref' = id
  BY <1>2 DEF Fail, Advance, Owned, Named
<1>3. CASE Named = {} /\ Continue("create") /\ UNCHANGED ref
  BY <1>3 DEF Continue
<1> QED  BY <1>1, <1>2, <1>3 DEF LookUp

\* The calls on the recorded VM.
LEMMA CallRecords ==
    ASSUME Types
    PROVE  /\ \A o \in Ops : OnRef(o) \in CallType /\ OnRef(o).op = o /\ OnRef(o).on = ref
           /\ LET c == [OnRef("adapter") EXCEPT !.nics = CardsToRemove]
              IN c \in CallType /\ c.op = "adapter" /\ c.on = ref /\ c.nics = vm.nics
           /\ LET c == [OnRef("disks") EXCEPT !.disks = FullDisks]
              IN c \in CallType /\ c.op = "disks" /\ c.on = ref /\ c.disks = FullDisks
<1>1. ref \in Nat \ {ForeignRef} /\ vm.nics \in Nat /\ "adapter" \in Ops /\ "disks" \in Ops
  BY DEF Types, VmType, Ops
<1>2. \A o \in Ops : OnRef(o) \in CallType /\ OnRef(o).op = o /\ OnRef(o).on = ref
  BY <1>1 DEF OnRef, CallType
<1>3. LET c == [OnRef("adapter") EXCEPT !.nics = CardsToRemove]
      IN c \in CallType /\ c.op = "adapter" /\ c.on = ref /\ c.nics = vm.nics
  BY <1>1 DEF OnRef, CallType, CardsToRemove
<1>4. LET c == [OnRef("disks") EXCEPT !.disks = FullDisks]
      IN c \in CallType /\ c.op = "disks" /\ c.on = ref /\ c.disks = FullDisks
  BY <1>1 DEF OnRef, CallType
<1> QED  BY <1>2, <1>3, <1>4

\* "a retry only adds the rest": all of the request, or nothing.
LEMMA AddingDisks ==
    ASSUME Types, AddDataDisks
    PROVE  \/ pc' = "stopped" /\ UNCHANGED <<stage, plan>>
           \/ /\ vm.disks = FullDisks
              /\ stage' = "initialize_data_disks" /\ pc' = "begin" /\ UNCHANGED plan
           \/ /\ Found(ref) /\ plan' = [OnRef("disks") EXCEPT !.disks = FullDisks]
              /\ pc' = "issue" /\ UNCHANGED stage
<1> DEFINE used == DOMAIN vm.disks
           missing == Missing(Cardinality(used))
<1>1. vm.disks \in {NoDisks, FullDisks}
  BY DEF Types, VmType
<1>2. vm.disks = FullDisks => missing = <<>>
  BY FullDisksFacts
<1>3. vm.disks = NoDisks => missing = DataDisks /\ Placed(missing, used) = FullDisks
  BY FullDisksFacts DEF FullDisks
<1>4. missing = <<>> \/ DataDisks = <<>> => vm.disks = FullDisks
  BY <1>1, <1>3, FullDisksFacts
<1>5. missing # <<>> => Placed(missing, used) = FullDisks
  BY <1>1, <1>2, <1>3
<1>6. \/ Fail /\ UNCHANGED plan
      \/ (DataDisks = <<>> \/ missing = <<>>) /\ Advance("initialize_data_disks") /\ UNCHANGED plan
      \/ Found(ref) /\ missing # <<>> /\ Call([OnRef("disks") EXCEPT !.disks = Placed(missing, used)])
  BY DEF AddDataDisks
<1> HIDE DEF missing, used
<1> QED  BY <1>4, <1>5, <1>6 DEF Fail, Advance, Call, Continue

\* The fields that a change of the VM leaves alone.
LEMMA VmFields ==
    ASSUME NEW v \in VmType
    PROVE  /\ v.id \in Nat \ {0} /\ v.nics \in Nat /\ v.boots \in Nat
           /\ LET w == [NoVm EXCEPT !.exists = TRUE, !.id = v.id + 1]
              IN /\ w.exists /\ w.id = v.id + 1 /\ w.os = "empty" /\ ~w.up /\ ~w.due /\ w.nics = 0
                 /\ w.disks = NoDisks
           /\ \A b : LET w == [v EXCEPT !.boot = b]
                    IN /\ w.exists = v.exists /\ w.id = v.id /\ w.os = v.os /\ w.up = v.up /\ w.due = v.due
                       /\ w.nics = v.nics /\ w.disks = v.disks /\ w.boots = v.boots /\ w.bootedFrom = v.bootedFrom
                       /\ w.boot = b
           /\ \A n : LET w == [v EXCEPT !.nics = n]
                    IN /\ w.exists = v.exists /\ w.id = v.id /\ w.os = v.os /\ w.up = v.up /\ w.due = v.due
                       /\ w.disks = v.disks /\ w.boots = v.boots /\ w.bootedFrom = v.bootedFrom /\ w.boot = v.boot
                       /\ w.nics = n
           /\ \A d : LET w == [v EXCEPT !.disks = d]
                    IN /\ w.exists = v.exists /\ w.id = v.id /\ w.os = v.os /\ w.up = v.up /\ w.due = v.due
                       /\ w.nics = v.nics /\ w.boots = v.boots /\ w.bootedFrom = v.bootedFrom /\ w.boot = v.boot
                       /\ w.disks = d
           /\ \A s : LET w == [v EXCEPT !.os = s, !.up = FALSE, !.due = FALSE]
                    IN /\ w.exists = v.exists /\ w.id = v.id /\ ~w.up /\ ~w.due /\ w.nics = v.nics
                       /\ w.disks = v.disks /\ w.boots = v.boots /\ w.bootedFrom = v.bootedFrom /\ w.boot = v.boot
                       /\ w.os = s
           /\ \A s : LET w == [v EXCEPT !.powered = TRUE, !.os = s]
                    IN /\ w.exists = v.exists /\ w.id = v.id /\ w.up = v.up /\ w.due = v.due /\ w.nics = v.nics
                       /\ w.disks = v.disks /\ w.boots = v.boots /\ w.bootedFrom = v.bootedFrom /\ w.boot = v.boot
                       /\ w.os = s
<1>1. v.id \in Nat \ {0} /\ v.nics \in Nat /\ v.boots \in Nat
  BY DEF VmType
<1> QED  BY <1>1 DEF VmType, NoVm

\* The fields of the VM after a task.
LEMMA TaskEffect ==
    ASSUME Types, CallOk(task), TaskEnds
    PROVE  \/ Refused(task) /\ vm' = vm
           \/ /\ ~Refused(task) /\ task.op = "create" /\ ~vm.exists
              /\ vm'.exists /\ vm'.id = vm.id + 1 /\ vm'.os = "empty" /\ ~vm'.up /\ ~vm'.due
              /\ vm'.nics = 0 /\ vm'.disks = NoDisks
           \/ /\ ~Refused(task) /\ task.op # "create" /\ vm.exists /\ task.on = vm.id
              /\ vm'.exists /\ vm'.id = vm.id
              /\ task.op # "reset" => vm'.up = vm.up /\ vm'.due = vm.due
              /\ task.op = "reset" => ~vm'.up /\ ~vm'.due
              /\ vm'.boots = vm.boots /\ vm'.bootedFrom = vm.bootedFrom
              /\ task.op \notin {"boot", "detach"} => vm'.boot = vm.boot
              /\ task.op = "detach" => vm'.boot = "disk"
              /\ task.op # "adapter" => vm'.nics = vm.nics
              /\ task.op = "adapter" => task.nics <= vm.nics /\ vm'.nics = (vm.nics + 1) - task.nics
              /\ task.op # "disks" => vm'.disks = vm.disks
              /\ task.op = "disks" => vm'.disks = FullDisks
              /\ task.op \notin {"on", "reset"} => vm'.os = vm.os
              /\ task.op \in {"on", "reset"} => vm'.os \in {vm.os, "prompt"} /\ (vm.os = "installed" => vm'.os = "installed")
<1> DEFINE B(b) == [vm EXCEPT !.boot = b]
           N(n) == [vm EXCEPT !.nics = n]
           D(d) == [vm EXCEPT !.disks = d]
           O(s) == [vm EXCEPT !.os = s, !.up = FALSE, !.due = FALSE]
           P(s) == [vm EXCEPT !.powered = TRUE, !.os = s]
           C == [NoVm EXCEPT !.exists = TRUE, !.id = vm.id + 1]
           Like(w) == /\ w.exists = vm.exists /\ w.id = vm.id
                      /\ w.boots = vm.boots /\ w.bootedFrom = vm.bootedFrom
           Same(w) == Like(w) /\ w.up = vm.up /\ w.due = vm.due
<1>1. vm \in VmType
  BY DEF Types
<1>2. /\ C.exists /\ C.id = vm.id + 1 /\ C.os = "empty" /\ ~C.up /\ ~C.due
      /\ C.nics = 0 /\ C.disks = NoDisks
  BY <1>1, VmFields
<1>3. \A b : LET w == B(b) IN Same(w) /\ w.boot = b /\ w.nics = vm.nics /\ w.disks = vm.disks /\ w.os = vm.os
  BY <1>1, VmFields
<1>4. \A n : LET w == N(n) IN Same(w) /\ w.boot = vm.boot /\ w.nics = n /\ w.disks = vm.disks /\ w.os = vm.os
  BY <1>1, VmFields
<1>5. \A d : LET w == D(d) IN Same(w) /\ w.boot = vm.boot /\ w.nics = vm.nics /\ w.disks = d /\ w.os = vm.os
  BY <1>1, VmFields
<1>6. \A s : LET w == O(s) IN Like(w) /\ ~w.up /\ ~w.due /\ w.boot = vm.boot /\ w.nics = vm.nics /\ w.disks = vm.disks /\ w.os = s
  BY <1>1, VmFields
<1>7. \A s : LET w == P(s) IN Same(w) /\ w.boot = vm.boot /\ w.nics = vm.nics /\ w.disks = vm.disks /\ w.os = s
  BY <1>1, VmFields
<1>8. \/ Refused(task) /\ vm' = vm
      \/ ~Refused(task) /\ task.op = "create" /\ ~vm.exists /\ vm' = C
      \/ /\ ~Refused(task) /\ vm.exists /\ task.on = vm.id
         /\ \/ task.op = "boot" /\ vm' = B("install")
            \/ task.op = "detach" /\ vm' = B("disk")
            \/ task.op = "adapter" /\ task.nics <= vm.nics /\ vm' = N((vm.nics + 1) - task.nics)
            \/ task.op = "on" /\ \E o \in {vm.os, "prompt"} : (vm.os # "empty" => o = vm.os) /\ vm' = P(o)
            \/ task.op = "reset" /\ \E o \in {vm.os, "prompt"} : (vm.os # "setup" => o = vm.os) /\ vm' = O(o)
            \/ task.op = "disks" /\ vm' = D(FullDisks)
  BY TaskEnding
<1> HIDE DEF B, N, D, O, P, C
<1>9. CASE Refused(task)
  BY <1>8, <1>9
<1>10. CASE ~Refused(task) /\ task.op = "create"
  BY <1>2, <1>8, <1>10
<1>11. CASE ~Refused(task) /\ task.op \in {"boot", "detach"}
  BY <1>3, <1>8, <1>11
<1>12. CASE ~Refused(task) /\ task.op = "adapter"
  BY <1>4, <1>8, <1>12
<1>13. CASE ~Refused(task) /\ task.op = "on"
  BY <1>7, <1>8, <1>13
<1>14. CASE ~Refused(task) /\ task.op = "reset"
  BY <1>6, <1>8, <1>14
<1>15. CASE ~Refused(task) /\ task.op = "disks"
  BY <1>5, <1>8, <1>15
<1> QED  BY <1>8, <1>9, <1>10, <1>11, <1>12, <1>13, <1>14, <1>15

\* A key changes the state of Setup alone, of a VM whose Windows does not run.
LEMMA PressKeyEffect ==
    ASSUME vm \in VmType, vm.up => vm.os = "installed", PressKey
    PROVE  /\ vm'.exists = vm.exists /\ vm'.id = vm.id /\ vm'.up = vm.up /\ vm'.due = vm.due
           /\ vm'.boots = vm.boots /\ vm'.bootedFrom = vm.bootedFrom /\ vm'.boot = vm.boot
           /\ vm'.nics = vm.nics /\ vm'.disks = vm.disks
           /\ vm'.os = vm.os \/ (vm.os # "empty" /\ ~vm.up /\ vm'.os = "setup")
<1> QED  BY DEF PressKey, AtPrompt, VmType

\* The restart is scheduled on a guest of ours that answers, once.
LEMMA ScheduleRestartEffect ==
    ASSUME vm \in VmType, ScheduleRestart
    PROVE  \/ vm' = vm /\ (pc' = "stopped" \/ (pc' = "restart" /\ ForeignAnswers))
           \/ /\ vm'.exists = vm.exists /\ vm'.id = vm.id /\ vm'.up = vm.up
              /\ vm'.boots = vm.boots /\ vm'.bootedFrom = vm.bootedFrom /\ vm'.boot = vm.boot
              /\ vm'.nics = vm.nics /\ vm'.disks = vm.disks /\ vm'.os = vm.os
              /\ vm.up /\ vm'.due = TRUE /\ pc' = "restart"
<1>1. CASE ForeignAnswers /\ Continue("restart") /\ UNCHANGED vm
  BY <1>1 DEF Continue
<1>2. CASE vm.due /\ Fail /\ UNCHANGED vm
  BY <1>2 DEF Fail
<1>3. CASE Reachable /\ vm' = [vm EXCEPT !.due = TRUE] /\ Continue("restart")
  BY <1>3 DEF VmType, Reachable, Continue
<1> QED  BY <1>1, <1>2, <1>3 DEF ScheduleRestart

\* A foreign VM answers only when the recorded one is gone.
LEMMA ForeignIsNotOurs ==
    ASSUME Types, ForeignAnswers
    PROVE  ~Ours
<1> QED  BY DEF Types, ForeignAnswers, Named, Ours

\* Setup ends with Windows and VMware Tools running.
LEMMA SetupFinishesEffect ==
    ASSUME vm \in VmType, SetupFinishes
    PROVE  /\ vm'.exists = vm.exists /\ vm'.id = vm.id /\ vm'.up /\ vm'.due = vm.due
           /\ vm'.boots = vm.boots /\ vm'.bootedFrom = vm.bootedFrom /\ vm'.boot = vm.boot
           /\ vm'.nics = vm.nics /\ vm'.disks = vm.disks
           /\ vm.os = "setup" /\ vm'.os = "installed"
<1> QED  BY DEF SetupFinishes, VmType

\* The scheduled restart stops Windows.
LEMMA GoDownEffect ==
    ASSUME vm \in VmType, GoDown
    PROVE  /\ vm'.exists = vm.exists /\ vm'.id = vm.id /\ ~vm'.up /\ vm'.due = FALSE
           /\ vm'.boots = vm.boots /\ vm'.bootedFrom = vm.bootedFrom /\ vm'.boot = vm.boot
           /\ vm'.nics = vm.nics /\ vm'.disks = vm.disks /\ vm'.os = vm.os
<1> QED  BY DEF GoDown, VmType

\* Windows starts from the boot order of the moment.
LEMMA ComeUpEffect ==
    ASSUME vm \in VmType, ComeUp
    PROVE  /\ vm'.exists = vm.exists /\ vm'.id = vm.id /\ vm'.up /\ vm'.due = vm.due
           /\ vm'.boots = vm.boots + 1 /\ vm'.bootedFrom = vm.boot /\ vm'.boot = vm.boot
           /\ vm'.nics = vm.nics /\ vm'.disks = vm.disks
           /\ vm.os = "installed" /\ vm'.os = vm.os
<1> QED  BY DEF ComeUp, VmType

\* Nothing is left of a deleted VM but its reference.
LEMMA OursDeletedEffect ==
    ASSUME vm \in VmType, OursDeleted
    PROVE  ~vm'.exists /\ vm'.id = vm.id /\ ~vm'.up /\ ~vm'.due /\ vm'.os = "empty"
<1> QED  BY DEF OursDeleted, VmType, NoVm

-----------------------------------------------------------------------------
(* The steps *)

\* Calls, VM and handler stay of their types, and no task is for a foreign VM.
LEMMA TypesStep ==
    ASSUME BuildInv, [Next]_vars
    PROVE  Types'
<1> USE StagesAre, Calls DEF Types, Advance, Fail, Continue, Call, OnRef, At, Pcs, NoRef, ForeignRef
<1>0. BuildInv
  OBVIOUS
<1> USE <1>0 DEF BuildInv
<1>1. CASE Issue
  BY <1>1 DEF Issue
<1>2. CASE TaskFailed
  BY <1>2 DEF TaskFailed
<1>3. CASE LookUp
  <2>1. UNCHANGED <<vm, foreign, touched, task, stray, plan, seen, warned>>
    BY <1>3 DEF LookUp
  <2>2. vm.id \in Nat
    BY DEF VmType
  <2> QED  BY <1>3, <2>1, <2>2, LookingUp
<1>4. CASE CreateVm
  <2>1. [op |-> "create", on |-> NoRef, nics |-> 0, disks |-> NoDisks] \in CallType
    BY DEF CallType, Ops
  <2> QED  BY <1>4, <2>1 DEF CreateVm
<1>5. CASE OrderBoot
  <2>1. vm.id \in Nat \ {ForeignRef}
    BY <1>5 DEF OrderBoot, RefInv, VmType
  <2>2. [op |-> "boot", on |-> vm.id, nics |-> 0, disks |-> NoDisks] \in CallType
    BY <2>1 DEF CallType, Ops
  <2> QED  BY <1>5, <2>2 DEF OrderBoot
<1>6. CASE VmCreated
  <2>1. plan \in CallType
    BY <1>6 DEF VmCreated
  <2>2. plan.on \in Nat \ {ForeignRef}
    BY <2>1 DEF CallType
  <2> QED  BY <1>6, <2>2 DEF VmCreated
<1>7. CASE ConfigureHardware
  BY <1>7 DEF ConfigureHardware
<1>8. CASE AttachNetwork
  BY <1>8, CallRecords DEF AttachNetwork
<1>9. CASE NetworkAttached
  BY <1>9 DEF NetworkAttached
<1>10. CASE PowerOn
  <2>1. \A b \in BOOLEAN : OnRef(IF b THEN "reset" ELSE "on") \in CallType
    BY CallRecords DEF Ops
  <2>2. vm.powered \in BOOLEAN
    BY DEF VmType
  <2> HIDE DEF OnRef
  <2> QED  BY <1>10, <2>1, <2>2 DEF PowerOn
<1>11. CASE PoweredOn
  BY <1>11 DEF PoweredOn
<1>12. CASE PressKey
  <2>1. vm' \in VmType
    BY <1>12, VmUpdates DEF PressKey
  <2> QED  BY <1>12, <2>1 DEF PressKey
<1>37. CASE KeysSent
  BY <1>37 DEF KeysSent
<1>13. CASE WaitForGuestOs
  BY <1>13 DEF WaitForGuestOs
<1>14. CASE WaitForTools
  BY <1>14 DEF WaitForTools
<1>15. CASE Detach
  <2>1. OnRef("detach") \in CallType
    BY CallRecords DEF Ops
  <2> HIDE DEF OnRef
  <2> QED  BY <1>15, <2>1 DEF Detach
<1>16. CASE Detached
  BY <1>16 DEF Detached
<1>17. CASE GuestCallFails
  BY <1>17 DEF GuestCallFails
<1>18. CASE Scrub
  BY <1>18 DEF Scrub, TouchForeign
<1>19. CASE ReadBootTime
  <2>1. vm.boots \in Nat
    BY DEF VmType
  <2> QED  BY <1>19, <2>1 DEF ReadBootTime
<1>20. CASE ScheduleRestart
  <2>1. vm' \in VmType
    BY <1>20, VmUpdates DEF ScheduleRestart
  <2> QED  BY <1>20, <2>1 DEF ScheduleRestart, TouchForeign
<1>21. CASE RestartSeen
  BY <1>21 DEF RestartSeen
<1>22. CASE AddDataDisks
  <2>1. UNCHANGED <<vm, foreign, touched, task, stray, ref, seen, warned>>
    BY <1>22 DEF AddDataDisks
  <2>2. [OnRef("disks") EXCEPT !.disks = FullDisks] \in CallType
    BY CallRecords
  <2> HIDE DEF OnRef
  <2> QED  BY <1>22, <2>1, <2>2, AddingDisks
<1>23. CASE DisksAdded
  BY <1>23 DEF DisksAdded
<1>24. CASE InitializeDisks
  BY <1>24 DEF InitializeDisks, TouchForeign
<1>25. CASE TaskEnds
  <2>1. CallOk(task)
    BY DEF CallsInv, Live
  <2>2. vm' \in VmType
    <3>1. vm.os \in {"empty", "prompt", "setup", "installed"} /\ vm.nics \in Nat
      BY DEF VmType
    <3>2. task \in CallType /\ task.nics <= vm.nics => (vm.nics + 1) - task.nics \in Nat
      BY <3>1 DEF CallType
    <3>3. /\ \A b \in {"install", "disk"} : [vm EXCEPT !.boot = b] \in VmType
          /\ \A n \in Nat : [vm EXCEPT !.nics = n] \in VmType
          /\ [vm EXCEPT !.disks = FullDisks] \in VmType
          /\ [NoVm EXCEPT !.exists = TRUE, !.id = vm.id + 1] \in VmType
      BY VmUpdates
    <3>4. \A o \in {vm.os, "prompt"} : /\ [vm EXCEPT !.os = o, !.up = FALSE, !.due = FALSE] \in VmType
                                       /\ [vm EXCEPT !.powered = TRUE, !.os = o] \in VmType
      BY <3>1, VmUpdates
    <3>5. CASE Refused(task) \/ task.op = "create"
      BY <1>25, <2>1, <3>3, <3>5, TaskEnding
    <3>6. CASE ~Refused(task) /\ task.op \in {"boot", "detach", "disks"}
      BY <1>25, <2>1, <3>3, <3>6, TaskEnding
    <3>7. CASE ~Refused(task) /\ task.op = "adapter"
      BY <1>25, <2>1, <3>2, <3>3, <3>7, TaskEnding
    <3>8. CASE ~Refused(task) /\ task.op \in {"on", "reset"}
      BY <1>25, <2>1, <3>4, <3>8, TaskEnding
    <3> QED  BY <1>25, <2>1, <3>5, <3>6, <3>7, <3>8, TaskEnding DEF CallType, Ops
  <2> QED  BY <1>25, <2>1, <2>2, TaskEnding
<1>26. CASE TaskCancelled
  BY <1>26 DEF TaskCancelled
<1>27. CASE StrayIssues
  BY <1>27 DEF StrayIssues
<1>28. CASE ForeignAppears
  BY <1>28 DEF ForeignAppears
<1>29. CASE ForeignRemoved
  BY <1>29 DEF ForeignRemoved
<1>30. CASE OursDeleted
  <2>1. vm' \in VmType
    BY <1>30, VmUpdates DEF OursDeleted
  <2> QED  BY <1>30, <2>1 DEF OursDeleted
<1>31. CASE SetupFinishes
  <2>1. vm' \in VmType
    BY <1>31, VmUpdates DEF SetupFinishes
  <2> QED  BY <1>31, <2>1 DEF SetupFinishes
<1>32. CASE GoDown
  <2>1. vm' \in VmType
    BY <1>32, VmUpdates DEF GoDown
  <2> QED  BY <1>32, <2>1 DEF GoDown
<1>33. CASE ComeUp
  <2>1. vm' = [vm EXCEPT !.up = TRUE, !.boots = vm.boots + 1, !.bootedFrom = vm.boot]
    BY <1>33 DEF ComeUp
  <2>2. vm' \in VmType
    BY <2>1, VmUpdates
  <2> QED  BY <1>33, <2>2 DEF ComeUp
<1>34. CASE Abort
  <2>1. stray' \subseteq CallType
    BY <1>34 DEF Abort, ControlInv, Calling, OpsOf
  <2> QED  BY <1>34, <2>1 DEF Abort
<1>35. CASE Retry
  BY <1>35 DEF Retry
<1>36. CASE UNCHANGED vars
  BY <1>36 DEF vars
<1> QED
  BY <1>1, <1>2, <1>3, <1>4, <1>5, <1>6, <1>7, <1>8, <1>9, <1>10, <1>11, <1>12, <1>13, <1>14,
     <1>15, <1>16, <1>17, <1>18, <1>19, <1>20, <1>21, <1>22, <1>23, <1>24, <1>25, <1>26,
     <1>27, <1>28, <1>29, <1>30, <1>31, <1>32, <1>33, <1>34, <1>35, <1>36, <1>37
  DEF Next, Handler, Environment

\* The handler stays where its stage puts it, with the call it has made.
LEMMA ControlStep ==
    ASSUME BuildInv, [Next]_vars
    PROVE  ControlInv'
<1>0. BuildInv
  OBVIOUS
<1> USE <1>0 DEF BuildInv
<1> USE Calls DEF ControlInv, Calling, OpsOf, Advance, Fail, Continue, Call, OnRef, At
<1>1. CASE Issue
  BY <1>1 DEF Issue
<1>2. CASE TaskFailed
  BY <1>2 DEF TaskFailed
<1>3. CASE LookUp
  BY <1>3, LookingUp DEF LookUp
<1>4. CASE CreateVm
  BY <1>4 DEF CreateVm
<1>5. CASE OrderBoot
  BY <1>5 DEF OrderBoot
<1>6. CASE VmCreated
  BY <1>6 DEF VmCreated
<1>7. CASE ConfigureHardware
  BY <1>7 DEF ConfigureHardware
<1>8. CASE AttachNetwork
  <2>1. [OnRef("adapter") EXCEPT !.nics = CardsToRemove].op = "adapter"
    BY CallRecords
  <2> HIDE DEF OnRef
  <2> QED  BY <1>8, <2>1 DEF AttachNetwork
<1>9. CASE NetworkAttached
  BY <1>9 DEF NetworkAttached
<1>10. CASE PowerOn
  <2>1. \A b \in BOOLEAN : OnRef(IF b THEN "reset" ELSE "on").op \in {"on", "reset"}
    BY CallRecords DEF Ops
  <2>2. vm.powered \in BOOLEAN
    BY DEF Types, VmType
  <2> HIDE DEF OnRef
  <2> QED  BY <1>10, <2>1, <2>2 DEF PowerOn
<1>11. CASE PoweredOn
  BY <1>11 DEF PoweredOn
<1>12. CASE PressKey
  BY <1>12 DEF PressKey
<1>37. CASE KeysSent
  BY <1>37 DEF KeysSent
<1>13. CASE WaitForGuestOs
  BY <1>13 DEF WaitForGuestOs
<1>14. CASE WaitForTools
  BY <1>14 DEF WaitForTools
<1>15. CASE Detach
  <2>1. OnRef("detach").op = "detach"
    BY CallRecords DEF Ops
  <2> HIDE DEF OnRef
  <2> QED  BY <1>15, <2>1 DEF Detach
<1>16. CASE Detached
  BY <1>16 DEF Detached
<1>17. CASE GuestCallFails
  BY <1>17 DEF GuestCallFails
<1>18. CASE Scrub
  BY <1>18 DEF Scrub
<1>19. CASE ReadBootTime
  BY <1>19 DEF ReadBootTime
<1>20. CASE ScheduleRestart
  BY <1>20 DEF ScheduleRestart
<1>21. CASE RestartSeen
  BY <1>21 DEF RestartSeen
<1>22. CASE AddDataDisks
  <2>1. [OnRef("disks") EXCEPT !.disks = FullDisks].op = "disks"
    BY CallRecords
  <2> HIDE DEF OnRef
  <2> QED  BY <1>22, <2>1, AddingDisks DEF AddDataDisks
<1>23. CASE DisksAdded
  BY <1>23 DEF DisksAdded
<1>24. CASE InitializeDisks
  BY <1>24 DEF InitializeDisks
<1>25. CASE TaskEnds
  BY <1>25, TaskEnding DEF CallsInv, Live
<1>26. CASE TaskCancelled
  BY <1>26 DEF TaskCancelled
<1>27. CASE StrayIssues
  BY <1>27 DEF StrayIssues
<1>28. CASE ForeignAppears
  BY <1>28 DEF ForeignAppears
<1>29. CASE ForeignRemoved
  BY <1>29 DEF ForeignRemoved
<1>30. CASE OursDeleted
  BY <1>30 DEF OursDeleted
<1>31. CASE SetupFinishes
  BY <1>31 DEF SetupFinishes
<1>32. CASE GoDown
  BY <1>32 DEF GoDown
<1>33. CASE ComeUp
  BY <1>33 DEF ComeUp
<1>34. CASE Abort
  BY <1>34 DEF Abort
<1>35. CASE Retry
  BY <1>35 DEF Retry
<1>36. CASE UNCHANGED vars
  BY <1>36 DEF vars
<1> QED
  BY <1>1, <1>2, <1>3, <1>4, <1>5, <1>6, <1>7, <1>8, <1>9, <1>10, <1>11, <1>12, <1>13, <1>14,
     <1>15, <1>16, <1>17, <1>18, <1>19, <1>20, <1>21, <1>22, <1>23, <1>24, <1>25, <1>26,
     <1>27, <1>28, <1>29, <1>30, <1>31, <1>32, <1>33, <1>34, <1>35, <1>36, <1>37
  DEF Next, Handler, Environment

\* A reference never goes back, is recorded once, and stays ours.
LEMMA RefStep ==
    ASSUME BuildInv, [Next]_vars
    PROVE  RefInv' /\ vm'.id \in Nat /\ vm.id <= vm'.id /\ (ref # NoRef => ref' = ref)
<1>0. BuildInv
  OBVIOUS
<1> USE <1>0 DEF BuildInv
<1>00. vm \in VmType /\ vm.id \in Nat \ {0} /\ ref \in Nat
  BY DEF Types, VmType
<1> USE <1>00 DEF RefInv, Advance, Fail, Continue, Call, At, NoRef, ForeignRef
<1>1. CASE Issue
  BY <1>1 DEF Issue
<1>2. CASE TaskFailed
  BY <1>2 DEF TaskFailed
<1>3. CASE LookUp
  BY <1>3, LookingUp DEF LookUp
<1>4. CASE CreateVm
  BY <1>4 DEF CreateVm
<1>5. CASE OrderBoot
  BY <1>5 DEF OrderBoot
<1>6. CASE VmCreated
  <2>1. CallOk(plan)
    BY <1>6 DEF VmCreated, CallsInv, Live, Calling
  <2>2. plan.on \in 2 .. vm.id
    BY <1>6, <2>1 DEF VmCreated, CallOk
  <2> QED  BY <1>6, <2>2 DEF VmCreated
<1>7. CASE ConfigureHardware
  BY <1>7 DEF ConfigureHardware
<1>8. CASE AttachNetwork
  BY <1>8 DEF AttachNetwork
<1>9. CASE NetworkAttached
  BY <1>9 DEF NetworkAttached
<1>10. CASE PowerOn
  BY <1>10 DEF PowerOn
<1>11. CASE PoweredOn
  BY <1>11 DEF PoweredOn
<1>12. CASE PressKey
  <2>1. vm'.id = vm.id /\ (vm'.exists => vm.exists)
    BY <1>12 DEF PressKey, VmType, NoVm
  <2> QED  BY <1>12, <2>1 DEF PressKey
<1>37. CASE KeysSent
  BY <1>37 DEF KeysSent
<1>13. CASE WaitForGuestOs
  BY <1>13 DEF WaitForGuestOs
<1>14. CASE WaitForTools
  BY <1>14 DEF WaitForTools
<1>15. CASE Detach
  BY <1>15 DEF Detach
<1>16. CASE Detached
  BY <1>16 DEF Detached
<1>17. CASE GuestCallFails
  BY <1>17 DEF GuestCallFails
<1>18. CASE Scrub
  BY <1>18 DEF Scrub
<1>19. CASE ReadBootTime
  BY <1>19 DEF ReadBootTime
<1>20. CASE ScheduleRestart
  <2>1. vm'.id = vm.id /\ (vm'.exists => vm.exists)
    BY <1>20 DEF ScheduleRestart, VmType, NoVm
  <2> QED  BY <1>20, <2>1 DEF ScheduleRestart
<1>21. CASE RestartSeen
  BY <1>21 DEF RestartSeen, ControlInv
<1>22. CASE AddDataDisks
  BY <1>22, AddingDisks DEF AddDataDisks
<1>23. CASE DisksAdded
  BY <1>23 DEF DisksAdded
<1>24. CASE InitializeDisks
  BY <1>24 DEF InitializeDisks
<1>25. CASE TaskEnds
  <2>1. CallOk(task) /\ (pc = "wait" /\ stage = "create_vm" => task.op \in {"create", "boot"})
    BY DEF CallsInv, Live, ControlInv, Calling, OpsOf
  <2>2. UNCHANGED <<stage, ref>>
    BY <1>25, <2>1, TaskEnding
  <2>3. vm.id <= vm'.id /\ vm'.id \in Nat /\ (vm'.exists => vm'.id > 1)
    BY <1>25, <2>1, TaskEffect
  <2>4. stage = "create_vm" /\ pc' = "ok" => vm'.id > 1
    BY <1>25, <2>1, <2>3, TaskEffect, TaskEnding DEF CallOk
  <2> QED  BY <2>2, <2>3, <2>4
<1>26. CASE TaskCancelled
  BY <1>26 DEF TaskCancelled
<1>27. CASE StrayIssues
  BY <1>27 DEF StrayIssues
<1>28. CASE ForeignAppears
  BY <1>28 DEF ForeignAppears
<1>29. CASE ForeignRemoved
  BY <1>29 DEF ForeignRemoved
<1>30. CASE OursDeleted
  <2>1. vm'.id = vm.id /\ (vm'.exists => vm.exists)
    BY <1>30 DEF OursDeleted, VmType, NoVm
  <2> QED  BY <1>30, <2>1 DEF OursDeleted
<1>31. CASE SetupFinishes
  <2>1. vm'.id = vm.id /\ (vm'.exists => vm.exists)
    BY <1>31 DEF SetupFinishes, VmType, NoVm
  <2> QED  BY <1>31, <2>1 DEF SetupFinishes
<1>32. CASE GoDown
  <2>1. vm'.id = vm.id /\ (vm'.exists => vm.exists)
    BY <1>32 DEF GoDown, VmType, NoVm
  <2> QED  BY <1>32, <2>1 DEF GoDown
<1>33. CASE ComeUp
  <2>1. vm'.id = vm.id /\ (vm'.exists => vm.exists)
    BY <1>33 DEF ComeUp, VmType, NoVm
  <2> QED  BY <1>33, <2>1 DEF ComeUp
<1>34. CASE Abort
  BY <1>34 DEF Abort
<1>35. CASE Retry
  BY <1>35 DEF Retry
<1>36. CASE UNCHANGED vars
  BY <1>36 DEF vars
<1> QED
  BY <1>1, <1>2, <1>3, <1>4, <1>5, <1>6, <1>7, <1>8, <1>9, <1>10, <1>11, <1>12, <1>13, <1>14,
     <1>15, <1>16, <1>17, <1>18, <1>19, <1>20, <1>21, <1>22, <1>23, <1>24, <1>25, <1>26,
     <1>27, <1>28, <1>29, <1>30, <1>31, <1>32, <1>33, <1>34, <1>35, <1>36, <1>37
  DEF Next, Handler, Environment

\* A call that was right stays right: its VM is the recorded one, for good.
LEMMA CallKept ==
    ASSUME BuildInv, RefInv', vm'.id \in Nat, vm.id <= vm'.id, ref # NoRef => ref' = ref,
           NEW c \in CallType \cup {NoCall}, CallOk(c)
    PROVE  CallOk(c)'
<1>1. vm.id \in Nat
  BY DEF BuildInv, Types, VmType
<1>2. c.op \notin {"none", "create", "boot"} => c.on = ref' /\ stage' # "create_vm"
  BY DEF CallOk, BuildInv, RefInv
<1>3. c.op = "boot" => c.on \in 2 .. vm'.id
  BY <1>1 DEF CallOk
<1> QED  BY <1>2, <1>3 DEF CallOk

\* A call that a step makes, or hands on, is for the recorded VM.
LEMMA CallsMade ==
    ASSUME BuildInv, [Next]_vars
    PROVE  \A c \in Live' : CallOk(c)
<1>0. BuildInv
  OBVIOUS
<1> USE <1>0 DEF BuildInv
<1>00. CallOk(NoCall) /\ CallOk(task) /\ (Calling => CallOk(plan)) /\ \A c \in stray : CallOk(c)
  BY Calls DEF CallsInv, Live, CallOk
<1> USE <1>00 DEF Live, Calling, Advance, Fail, Continue, Call, At
<1>1. CASE Issue
  BY <1>1 DEF Issue
<1>2. CASE TaskFailed
  BY <1>2 DEF TaskFailed
<1>3. CASE LookUp
  BY <1>3, LookingUp DEF LookUp
<1>4. CASE CreateVm
  <2>1. CallOk([op |-> "create", on |-> NoRef, nics |-> 0, disks |-> NoDisks])
    BY DEF CallOk
  <2> QED  BY <1>4, <2>1 DEF CreateVm
<1>5. CASE OrderBoot
  <2>1. vm.id \in 2 .. vm.id
    BY <1>5 DEF OrderBoot, RefInv, Types, VmType
  <2>2. CallOk([op |-> "boot", on |-> vm.id, nics |-> 0, disks |-> NoDisks])
    BY <2>1 DEF CallOk
  <2> QED  BY <1>5, <2>2 DEF OrderBoot
<1>6. CASE VmCreated
  BY <1>6 DEF VmCreated
<1>7. CASE ConfigureHardware
  BY <1>7 DEF ConfigureHardware
<1>8. CASE AttachNetwork
  <2>1. stage # "create_vm" => CallOk([OnRef("adapter") EXCEPT !.nics = CardsToRemove])
    BY CallRecords DEF CallOk
  <2> HIDE DEF OnRef
  <2> QED  BY <1>8, <2>1 DEF AttachNetwork
<1>9. CASE NetworkAttached
  BY <1>9 DEF NetworkAttached
<1>10. CASE PowerOn
  <2>1. \A p \in {"on", "reset"} : stage # "create_vm" => CallOk(OnRef(p))
    BY CallRecords DEF CallOk, Ops
  <2> HIDE DEF OnRef
  <2> QED  BY <1>10, <2>1 DEF PowerOn
<1>11. CASE PoweredOn
  BY <1>11 DEF PoweredOn
<1>12. CASE PressKey
  BY <1>12 DEF PressKey
<1>37. CASE KeysSent
  BY <1>37 DEF KeysSent
<1>13. CASE WaitForGuestOs
  BY <1>13 DEF WaitForGuestOs
<1>14. CASE WaitForTools
  BY <1>14 DEF WaitForTools
<1>15. CASE Detach
  <2>1. \A p \in {"detach"} : stage # "create_vm" => CallOk(OnRef(p))
    BY CallRecords DEF CallOk, Ops
  <2> HIDE DEF OnRef
  <2> QED  BY <1>15, <2>1 DEF Detach
<1>16. CASE Detached
  BY <1>16 DEF Detached
<1>17. CASE GuestCallFails
  BY <1>17 DEF GuestCallFails
<1>18. CASE Scrub
  BY <1>18 DEF Scrub
<1>19. CASE ReadBootTime
  BY <1>19 DEF ReadBootTime
<1>20. CASE ScheduleRestart
  BY <1>20 DEF ScheduleRestart
<1>21. CASE RestartSeen
  BY <1>21 DEF RestartSeen
<1>22. CASE AddDataDisks
  <2>1. stage # "create_vm" => CallOk([OnRef("disks") EXCEPT !.disks = FullDisks])
    BY CallRecords DEF CallOk
  <2> HIDE DEF OnRef
  <2> QED  BY <1>22, <2>1, AddingDisks DEF AddDataDisks
<1>23. CASE DisksAdded
  BY <1>23 DEF DisksAdded
<1>24. CASE InitializeDisks
  BY <1>24 DEF InitializeDisks
<1>25. CASE TaskEnds
  BY <1>25, TaskEnding
<1>26. CASE TaskCancelled
  BY <1>26 DEF TaskCancelled
<1>27. CASE StrayIssues
  BY <1>27 DEF StrayIssues
<1>28. CASE ForeignAppears
  BY <1>28 DEF ForeignAppears
<1>29. CASE ForeignRemoved
  BY <1>29 DEF ForeignRemoved
<1>30. CASE OursDeleted
  BY <1>30 DEF OursDeleted
<1>31. CASE SetupFinishes
  BY <1>31 DEF SetupFinishes
<1>32. CASE GoDown
  BY <1>32 DEF GoDown
<1>33. CASE ComeUp
  BY <1>33 DEF ComeUp
<1>34. CASE Abort
  BY <1>34 DEF Abort
<1>35. CASE Retry
  BY <1>35 DEF Retry
<1>36. CASE UNCHANGED vars
  BY <1>36 DEF vars
<1> QED
  BY <1>1, <1>2, <1>3, <1>4, <1>5, <1>6, <1>7, <1>8, <1>9, <1>10, <1>11, <1>12, <1>13, <1>14,
     <1>15, <1>16, <1>17, <1>18, <1>19, <1>20, <1>21, <1>22, <1>23, <1>24, <1>25, <1>26,
     <1>27, <1>28, <1>29, <1>30, <1>31, <1>32, <1>33, <1>34, <1>35, <1>36, <1>37
  DEF Next, Handler, Environment

\* The calls that may still take effect stay right.
LEMMA CallsStep ==
    ASSUME BuildInv, [Next]_vars
    PROVE  CallsInv'
<1>1. Types' /\ RefInv' /\ vm'.id \in Nat /\ vm.id <= vm'.id /\ (ref # NoRef => ref' = ref)
  BY TypesStep, RefStep
<1>2. ASSUME NEW c \in Live' PROVE CallOk(c)'
  <2>1. c \in CallType \cup {NoCall}
    BY <1>1, <1>2, Calls DEF Live, Calling, ControlInv, Types
  <2>2. CallOk(c)
    BY <1>2, CallsMade
  <2> QED  BY <1>1, <2>1, <2>2, CallKept
<1> QED  BY <1>2 DEF CallsInv

\* Windows stays on our VM, and no boot order waits for it.
LEMMA GuestStep ==
    ASSUME BuildInv, [Next]_vars
    PROVE  GuestInv'
<1>0. BuildInv
  OBVIOUS
<1> USE <1>0 DEF BuildInv
<1>00. vm \in VmType /\ vm.id \in Nat \ {0} /\ (stage = "create_vm" => vm.os = "empty")
  BY DEF Types, VmType, RefInv, GuestInv, Ours, NoRef
<1> USE <1>00, Calls DEF GuestInv, Ours, Advance, Fail, Continue, Call, At
<1>1. CASE Issue
  BY <1>1 DEF Issue, ControlInv, Calling, OpsOf
<1>2. CASE TaskFailed
  BY <1>2 DEF TaskFailed
<1>3. CASE LookUp
  BY <1>3, LookingUp DEF LookUp
<1>4. CASE CreateVm
  BY <1>4 DEF CreateVm
<1>5. CASE OrderBoot
  BY <1>5 DEF OrderBoot
<1>6. CASE VmCreated
  BY <1>6 DEF VmCreated
<1>7. CASE ConfigureHardware
  BY <1>7 DEF ConfigureHardware
<1>8. CASE AttachNetwork
  BY <1>8 DEF AttachNetwork
<1>9. CASE NetworkAttached
  BY <1>9 DEF NetworkAttached
<1>10. CASE PowerOn
  BY <1>10 DEF PowerOn
<1>11. CASE PoweredOn
  BY <1>11 DEF PoweredOn
<1>12. CASE PressKey
  BY <1>12, PressKeyEffect DEF PressKey, GuestInv
<1>37. CASE KeysSent
  BY <1>37 DEF KeysSent
<1>13. CASE WaitForGuestOs
  BY <1>13 DEF WaitForGuestOs
<1>14. CASE WaitForTools
  BY <1>14 DEF WaitForTools
<1>15. CASE Detach
  BY <1>15 DEF Detach
<1>16. CASE Detached
  BY <1>16 DEF Detached
<1>17. CASE GuestCallFails
  BY <1>17 DEF GuestCallFails
<1>18. CASE Scrub
  BY <1>18 DEF Scrub
<1>19. CASE ReadBootTime
  BY <1>19 DEF ReadBootTime
<1>20. CASE ScheduleRestart
  BY <1>20, ScheduleRestartEffect DEF ScheduleRestart
<1>21. CASE RestartSeen
  BY <1>21 DEF RestartSeen
<1>22. CASE AddDataDisks
  BY <1>22, AddingDisks DEF AddDataDisks
<1>23. CASE DisksAdded
  BY <1>23 DEF DisksAdded
<1>24. CASE InitializeDisks
  BY <1>24 DEF InitializeDisks
<1>25. CASE TaskEnds
  <2>1. CallOk(task)
    BY DEF CallsInv, Live
  <2>2. task' = NoCall /\ UNCHANGED <<ref, stray>>
    BY <1>25, <2>1, TaskEnding
  <2>3. \/ vm'.os = vm.os /\ vm'.id = vm.id /\ (vm.exists => vm'.exists) /\ vm'.up = vm.up /\ vm'.due = vm.due
        \/ vm'.os = "empty" /\ ~vm'.up /\ ~vm'.due
        \/ /\ task.op \in {"on", "reset"} /\ task.on = vm.id
           /\ vm'.exists /\ vm'.id = vm.id
           /\ (vm'.up = vm.up /\ vm'.due = vm.due) \/ (~vm'.up /\ ~vm'.due)
           /\ vm'.os \in {vm.os, "prompt"} /\ (vm.os = "installed" => vm'.os = "installed")
    <3>1. CASE Refused(task)
      BY <1>25, <2>1, <3>1, TaskEffect
    <3>2. CASE ~Refused(task) /\ task.op = "create"
      BY <1>25, <2>1, <3>2, TaskEffect
    <3>3. CASE ~Refused(task) /\ task.op \in {"on", "reset"}
      <4>1. /\ task.on = vm.id /\ vm'.exists /\ vm'.id = vm.id
            /\ (vm'.up = vm.up /\ vm'.due = vm.due) \/ (~vm'.up /\ ~vm'.due)
        BY <1>25, <2>1, <3>3, TaskEffect
      <4>2. vm'.os \in {vm.os, "prompt"} /\ (vm.os = "installed" => vm'.os = "installed")
        BY <1>25, <2>1, <3>3, TaskEffect
      <4> QED  BY <3>3, <4>1, <4>2
    <3>4. CASE ~Refused(task) /\ task.op \notin {"create", "on", "reset"}
      BY <1>25, <2>1, <3>4, TaskEffect
    <3> QED  BY <3>1, <3>2, <3>3, <3>4
  <2>4. (vm'.os # "empty" => Ours') /\ (vm'.up => vm'.os = "installed") /\ (vm'.due => vm'.up)
    BY <2>1, <2>2, <2>3 DEF CallOk
  <2>5. vm'.os = "installed" => vm.os = "installed" /\ vm'.id = vm.id
    BY <2>3
  <2> QED  BY <2>2, <2>4, <2>5
<1>26. CASE TaskCancelled
  BY <1>26 DEF TaskCancelled
<1>27. CASE StrayIssues
  BY <1>27 DEF StrayIssues
<1>28. CASE ForeignAppears
  BY <1>28 DEF ForeignAppears
<1>29. CASE ForeignRemoved
  BY <1>29 DEF ForeignRemoved
<1>30. CASE OursDeleted
  BY <1>30, OursDeletedEffect DEF OursDeleted
<1>31. CASE SetupFinishes
  BY <1>31, SetupFinishesEffect DEF SetupFinishes
<1>32. CASE GoDown
  BY <1>32, GoDownEffect DEF GoDown
<1>33. CASE ComeUp
  BY <1>33, ComeUpEffect DEF ComeUp
<1>34. CASE Abort
  BY <1>34 DEF Abort, ControlInv, Calling, OpsOf
<1>35. CASE Retry
  BY <1>35 DEF Retry
<1>36. CASE UNCHANGED vars
  BY <1>36 DEF vars
<1> QED
  BY <1>1, <1>2, <1>3, <1>4, <1>5, <1>6, <1>7, <1>8, <1>9, <1>10, <1>11, <1>12, <1>13, <1>14,
     <1>15, <1>16, <1>17, <1>18, <1>19, <1>20, <1>21, <1>22, <1>23, <1>24, <1>25, <1>26,
     <1>27, <1>28, <1>29, <1>30, <1>31, <1>32, <1>33, <1>34, <1>35, <1>36, <1>37
  DEF Next, Handler, Environment

\* Past add_data_disks the recorded VM has every disk of the request.
LEMMA DisksStep ==
    ASSUME BuildInv, [Next]_vars
    PROVE  DisksInv'
<1>0. BuildInv
  OBVIOUS
<1> USE <1>0 DEF BuildInv
<1>00. vm \in VmType /\ vm.id \in Nat /\ ref \in Nat
  BY DEF Types, VmType
<1> USE <1>00 DEF DisksInv, Ours, Advance, Fail, Continue, Call, At
<1>1. CASE Issue
  BY <1>1 DEF Issue
<1>2. CASE TaskFailed
  BY <1>2 DEF TaskFailed
<1>3. CASE LookUp
  BY <1>3, LookingUp DEF LookUp
<1>4. CASE CreateVm
  BY <1>4 DEF CreateVm
<1>5. CASE OrderBoot
  BY <1>5 DEF OrderBoot
<1>6. CASE VmCreated
  BY <1>6 DEF VmCreated
<1>7. CASE ConfigureHardware
  BY <1>7 DEF ConfigureHardware
<1>8. CASE AttachNetwork
  BY <1>8 DEF AttachNetwork
<1>9. CASE NetworkAttached
  BY <1>9 DEF NetworkAttached
<1>10. CASE PowerOn
  BY <1>10 DEF PowerOn
<1>11. CASE PoweredOn
  BY <1>11 DEF PoweredOn
<1>12. CASE PressKey
  BY <1>12, PressKeyEffect DEF PressKey, GuestInv
<1>37. CASE KeysSent
  BY <1>37 DEF KeysSent
<1>13. CASE WaitForGuestOs
  BY <1>13 DEF WaitForGuestOs
<1>14. CASE WaitForTools
  BY <1>14 DEF WaitForTools
<1>15. CASE Detach
  BY <1>15 DEF Detach
<1>16. CASE Detached
  BY <1>16 DEF Detached
<1>17. CASE GuestCallFails
  BY <1>17 DEF GuestCallFails
<1>18. CASE Scrub
  BY <1>18 DEF Scrub
<1>19. CASE ReadBootTime
  BY <1>19 DEF ReadBootTime
<1>20. CASE ScheduleRestart
  BY <1>20, ScheduleRestartEffect DEF ScheduleRestart, ControlInv
<1>21. CASE RestartSeen
  BY <1>21 DEF RestartSeen, ControlInv
<1>22. CASE AddDataDisks
  BY <1>22, AddingDisks DEF AddDataDisks
<1>23. CASE DisksAdded
  BY <1>23 DEF DisksAdded
<1>24. CASE InitializeDisks
  BY <1>24 DEF InitializeDisks
<1>25. CASE TaskEnds
  <2>1. CallOk(task)
    BY DEF CallsInv, Live
  <2>2. UNCHANGED <<ref, stage>>
    BY <1>25, <2>1, TaskEnding
  <2>3. Ours' => Ours /\ vm'.disks \in {vm.disks, FullDisks} /\ (~Refused(task) /\ task.op = "disks" => vm'.disks = FullDisks)
    BY <1>25, <2>1, <2>2, TaskEffect DEF RefInv
  <2>4. stage = "add_data_disks" /\ pc' = "ok" => pc = "ok" \/ (~Refused(task) /\ task.op = "disks")
    BY <1>25, <2>1, TaskEnding DEF ControlInv, Calling, OpsOf
  <2> QED  BY <2>2, <2>3, <2>4
<1>26. CASE TaskCancelled
  BY <1>26 DEF TaskCancelled
<1>27. CASE StrayIssues
  BY <1>27 DEF StrayIssues
<1>28. CASE ForeignAppears
  BY <1>28 DEF ForeignAppears
<1>29. CASE ForeignRemoved
  BY <1>29 DEF ForeignRemoved
<1>30. CASE OursDeleted
  BY <1>30, OursDeletedEffect DEF OursDeleted
<1>31. CASE SetupFinishes
  BY <1>31, SetupFinishesEffect DEF SetupFinishes
<1>32. CASE GoDown
  BY <1>32, GoDownEffect DEF GoDown
<1>33. CASE ComeUp
  BY <1>33, ComeUpEffect DEF ComeUp
<1>34. CASE Abort
  BY <1>34 DEF Abort
<1>35. CASE Retry
  BY <1>35 DEF Retry
<1>36. CASE UNCHANGED vars
  BY <1>36 DEF vars
<1> QED
  BY <1>1, <1>2, <1>3, <1>4, <1>5, <1>6, <1>7, <1>8, <1>9, <1>10, <1>11, <1>12, <1>13, <1>14,
     <1>15, <1>16, <1>17, <1>18, <1>19, <1>20, <1>21, <1>22, <1>23, <1>24, <1>25, <1>26,
     <1>27, <1>28, <1>29, <1>30, <1>31, <1>32, <1>33, <1>34, <1>35, <1>36, <1>37
  DEF Next, Handler, Environment

\* From the detach to the restart, on the VM that create_vm has recorded.
LEMMA RestartStep ==
    ASSUME BuildInv, RestartInv, [Next]_vars
    PROVE  RestartInv'
<1>0. BuildInv
  OBVIOUS
<1> USE <1>0 DEF BuildInv
<1>00. vm \in VmType /\ vm.id \in Nat /\ ref \in Nat
  BY DEF Types, VmType
<1>01. vm.boots \in Nat /\ seen \in Nat /\ vm.up \in BOOLEAN /\ vm.due \in BOOLEAN
  BY DEF Types, VmType
<1> USE <1>00, <1>01 DEF RestartInv, DetachedInv, RestartDone, Reachable, Ours, Advance, Fail, Continue, Call, At,
                        ForeignRef
<1>1. CASE Issue
  BY <1>1 DEF Issue
<1>2. CASE TaskFailed
  BY <1>2 DEF TaskFailed
<1>3. CASE LookUp
  BY <1>3, LookingUp DEF LookUp
<1>4. CASE CreateVm
  BY <1>4 DEF CreateVm
<1>5. CASE OrderBoot
  BY <1>5 DEF OrderBoot
<1>6. CASE VmCreated
  BY <1>6 DEF VmCreated
<1>7. CASE ConfigureHardware
  BY <1>7 DEF ConfigureHardware
<1>8. CASE AttachNetwork
  BY <1>8 DEF AttachNetwork
<1>9. CASE NetworkAttached
  BY <1>9 DEF NetworkAttached
<1>10. CASE PowerOn
  BY <1>10 DEF PowerOn
<1>11. CASE PoweredOn
  BY <1>11 DEF PoweredOn
<1>12. CASE PressKey
  BY <1>12, PressKeyEffect DEF PressKey, GuestInv
<1>37. CASE KeysSent
  BY <1>37 DEF KeysSent
<1>13. CASE WaitForGuestOs
  BY <1>13 DEF WaitForGuestOs, Found, Named, GuestInv
<1>14. CASE WaitForTools
  BY <1>14 DEF WaitForTools
<1>15. CASE Detach
  BY <1>15 DEF Detach, Found, Named
<1>16. CASE Detached
  BY <1>16 DEF Detached
<1>17. CASE GuestCallFails
  BY <1>17 DEF GuestCallFails, ControlInv
<1>18. CASE Scrub
  BY <1>18 DEF Scrub, ControlInv
<1>19. CASE ReadBootTime
  BY <1>19, ForeignIsNotOurs DEF ReadBootTime, ControlInv
<1>20. CASE ScheduleRestart
  BY <1>20, ScheduleRestartEffect, ForeignIsNotOurs DEF ScheduleRestart, ControlInv
<1>21. CASE RestartSeen
  BY <1>21, ForeignIsNotOurs DEF RestartSeen, ControlInv, StartedLater
<1>22. CASE AddDataDisks
  BY <1>22, AddingDisks DEF AddDataDisks
<1>23. CASE DisksAdded
  BY <1>23 DEF DisksAdded
<1>24. CASE InitializeDisks
  BY <1>24 DEF InitializeDisks
<1>25. CASE TaskEnds
  <2>1. CallOk(task)
    BY DEF CallsInv, Live
  <2>2. UNCHANGED <<ref, stage, seen, warned>>
    BY <1>25, <2>1, TaskEnding
  <2>3. Ours' => /\ Ours /\ vm'.boots = vm.boots /\ vm'.bootedFrom = vm.bootedFrom
                 /\ (vm'.up = vm.up /\ vm'.due = vm.due) \/ (~vm'.up /\ ~vm'.due)
                 /\ (vm.os = "installed" => vm'.os = "installed")
    BY <1>25, <2>1, <2>2, TaskEffect DEF RefInv
  <2>4. Ours' /\ vm.os = "installed" =>
          vm'.boot \in {vm.boot, "disk"} /\ (~Refused(task) /\ task.op = "detach" => vm'.boot = "disk")
    BY <1>25, <2>1, <2>2, TaskEffect DEF RefInv, GuestInv
  <2>5. stage = "cleanup_unattended_media" /\ pc' = "ok" => pc = "ok" \/ (~Refused(task) /\ task.op = "detach")
    BY <1>25, <2>1, TaskEnding DEF ControlInv, Calling, OpsOf
  <2>6. pc' \in {"ok", "error", pc}
    BY <1>25, <2>1, TaskEnding
  <2> QED  BY <2>2, <2>3, <2>4, <2>5, <2>6
<1>26. CASE TaskCancelled
  BY <1>26 DEF TaskCancelled
<1>27. CASE StrayIssues
  BY <1>27 DEF StrayIssues
<1>28. CASE ForeignAppears
  BY <1>28 DEF ForeignAppears
<1>29. CASE ForeignRemoved
  BY <1>29 DEF ForeignRemoved
<1>30. CASE OursDeleted
  BY <1>30, OursDeletedEffect DEF OursDeleted
<1>31. CASE SetupFinishes
  BY <1>31, SetupFinishesEffect DEF SetupFinishes
<1>32. CASE GoDown
  BY <1>32, GoDownEffect DEF GoDown
<1>33. CASE ComeUp
  <2>1. UNCHANGED <<stage, pc, ref, seen, warned>> /\ ~vm.up /\ pc # "schedule"
    BY <1>33 DEF ComeUp
  <2>2. vm'.exists = vm.exists /\ vm'.id = vm.id /\ vm'.boot = vm.boot /\ vm'.os = vm.os /\ vm'.due = vm.due
    BY <1>33, ComeUpEffect
  <2>3. vm'.up /\ vm'.boots = vm.boots + 1 /\ vm'.bootedFrom = vm.boot
    BY <1>33, ComeUpEffect
  <2>4. Ours' => Ours
    BY <2>1, <2>2
  <2>5. Ours /\ stage = "cleanup_unattended_media" /\ pc = "restart" => seen < vm'.boots /\ RestartDone'
    BY <2>1, <2>2, <2>3
  <2> QED  BY <2>1, <2>2, <2>3, <2>4, <2>5
<1>34. CASE Abort
  BY <1>34 DEF Abort
<1>35. CASE Retry
  BY <1>35 DEF Retry
<1>36. CASE UNCHANGED vars
  BY <1>36 DEF vars
<1> QED
  BY <1>1, <1>2, <1>3, <1>4, <1>5, <1>6, <1>7, <1>8, <1>9, <1>10, <1>11, <1>12, <1>13, <1>14,
     <1>15, <1>16, <1>17, <1>18, <1>19, <1>20, <1>21, <1>22, <1>23, <1>24, <1>25, <1>26,
     <1>27, <1>28, <1>29, <1>30, <1>31, <1>32, <1>33, <1>34, <1>35, <1>36, <1>37
  DEF Next, Handler, Environment

\* The card count that attach_network_adapter has read stays current.
LEMMA AdapterStep ==
    ASSUME BuildInv, AdapterInv, "adapter" \notin LateOps, [Next]_vars
    PROVE  AdapterInv'
<1>0. BuildInv
  OBVIOUS
<1> USE <1>0 DEF BuildInv
<1>00. vm \in VmType /\ vm.id \in Nat /\ ref \in Nat
  BY DEF Types, VmType
<1>01. vm.nics \in Nat
  BY DEF Types, VmType
<1> USE <1>00, <1>01, Calls DEF AdapterInv, Ours, Advance, Fail, Continue, Call, At
<1>1. CASE Issue
  BY <1>1 DEF Issue
<1>2. CASE TaskFailed
  BY <1>2 DEF TaskFailed
<1>3. CASE LookUp
  BY <1>3, LookingUp DEF LookUp
<1>4. CASE CreateVm
  BY <1>4 DEF CreateVm
<1>5. CASE OrderBoot
  BY <1>5 DEF OrderBoot
<1>6. CASE VmCreated
  BY <1>6 DEF VmCreated
<1>7. CASE ConfigureHardware
  BY <1>7 DEF ConfigureHardware
<1>8. CASE AttachNetwork
  <2>1. [OnRef("adapter") EXCEPT !.nics = CardsToRemove].nics = vm.nics
    BY CallRecords
  <2> QED  BY <1>8, <2>1 DEF AttachNetwork
<1>9. CASE NetworkAttached
  BY <1>9 DEF NetworkAttached
<1>10. CASE PowerOn
  BY <1>10 DEF PowerOn
<1>11. CASE PoweredOn
  BY <1>11 DEF PoweredOn
<1>12. CASE PressKey
  BY <1>12, PressKeyEffect DEF PressKey, GuestInv
<1>37. CASE KeysSent
  BY <1>37 DEF KeysSent
<1>13. CASE WaitForGuestOs
  BY <1>13 DEF WaitForGuestOs
<1>14. CASE WaitForTools
  BY <1>14 DEF WaitForTools
<1>15. CASE Detach
  BY <1>15 DEF Detach
<1>16. CASE Detached
  BY <1>16 DEF Detached
<1>17. CASE GuestCallFails
  BY <1>17 DEF GuestCallFails
<1>18. CASE Scrub
  BY <1>18 DEF Scrub
<1>19. CASE ReadBootTime
  BY <1>19 DEF ReadBootTime
<1>20. CASE ScheduleRestart
  BY <1>20, ScheduleRestartEffect DEF ScheduleRestart, ControlInv
<1>21. CASE RestartSeen
  BY <1>21 DEF RestartSeen, ControlInv
<1>22. CASE AddDataDisks
  BY <1>22, AddingDisks DEF AddDataDisks
<1>23. CASE DisksAdded
  BY <1>23 DEF DisksAdded
<1>24. CASE InitializeDisks
  BY <1>24 DEF InitializeDisks
<1>25. CASE TaskEnds
  <2>1. CallOk(task)
    BY DEF CallsInv, Live
  <2>2. task' = NoCall /\ UNCHANGED <<ref, stage, stray, plan>>
    BY <1>25, <2>1, TaskEnding
  <2>3. Ours' => Ours /\ (task.op # "adapter" \/ Refused(task) => vm'.nics = vm.nics)
    BY <1>25, <2>1, <2>2, TaskEffect DEF RefInv
  <2>4. task.op = "adapter" => pc = "wait" /\ task = plan /\ stage = "attach_network_adapter"
    BY DEF ControlInv, Calling, OpsOf
  <2>5. Ours' /\ task.op = "adapter" /\ ~Refused(task) => vm'.nics = 1
    <3>1. Ours' /\ task.op = "adapter" /\ ~Refused(task) => vm'.nics = (vm.nics + 1) - task.nics /\ task.nics = vm.nics
      BY <1>25, <2>1, <2>2, <2>3, <2>4, TaskEffect
    <3> QED  BY <3>1
  <2>6. stage = "attach_network_adapter" /\ pc = "wait" => task.op = "adapter"
    BY DEF ControlInv, Calling, OpsOf
  <2>7. pc' = IF pc # "wait" THEN pc ELSE IF Refused(task) THEN "error" ELSE "ok"
    BY <1>25, <2>1, TaskEnding
  <2> QED  BY <2>2, <2>3, <2>4, <2>5, <2>6, <2>7
<1>26. CASE TaskCancelled
  BY <1>26 DEF TaskCancelled
<1>27. CASE StrayIssues
  BY <1>27 DEF StrayIssues
<1>28. CASE ForeignAppears
  BY <1>28 DEF ForeignAppears
<1>29. CASE ForeignRemoved
  BY <1>29 DEF ForeignRemoved
<1>30. CASE OursDeleted
  BY <1>30, OursDeletedEffect DEF OursDeleted
<1>31. CASE SetupFinishes
  BY <1>31, SetupFinishesEffect DEF SetupFinishes
<1>32. CASE GoDown
  BY <1>32, GoDownEffect DEF GoDown
<1>33. CASE ComeUp
  BY <1>33, ComeUpEffect DEF ComeUp
<1>34. CASE Abort
  BY <1>34 DEF Abort
<1>35. CASE Retry
  BY <1>35 DEF Retry
<1>36. CASE UNCHANGED vars
  BY <1>36 DEF vars
<1> QED
  BY <1>1, <1>2, <1>3, <1>4, <1>5, <1>6, <1>7, <1>8, <1>9, <1>10, <1>11, <1>12, <1>13, <1>14,
     <1>15, <1>16, <1>17, <1>18, <1>19, <1>20, <1>21, <1>22, <1>23, <1>24, <1>25, <1>26,
     <1>27, <1>28, <1>29, <1>30, <1>31, <1>32, <1>33, <1>34, <1>35, <1>36, <1>37
  DEF Next, Handler, Environment

-----------------------------------------------------------------------------
(* Theorems *)

\* The stages after the three that the properties name.
LEMMA StagesPast ==
    /\ Past("attach_network_adapter") =>
         stage \notin {"create_vm", "configure_hardware", "attach_network_adapter"}
    /\ Past("cleanup_unattended_media") => stage \in {"add_data_disks", "initialize_data_disks", "done"}
    /\ Past("add_data_disks") => stage \in {"initialize_data_disks", "done"}
<1>1. DOMAIN StageOrder = 1 .. 10
  BY DEF StageOrder
<1>2. /\ \A i \in 1 .. 10 : StageOrder[i] = "attach_network_adapter" => i = 3
      /\ \A i \in 1 .. 10 : StageOrder[i] = "cleanup_unattended_media" => i = 7
      /\ \A i \in 1 .. 10 : StageOrder[i] = "add_data_disks" => i = 8
  BY DEF StageOrder
<1>3. /\ \A j \in 1 .. 10 : j > 3 =>
            StageOrder[j] \notin {"create_vm", "configure_hardware", "attach_network_adapter"}
      /\ \A j \in 1 .. 10 : j > 7 => StageOrder[j] \in {"add_data_disks", "initialize_data_disks", "done"}
      /\ \A j \in 1 .. 10 : j > 8 => StageOrder[j] \in {"initialize_data_disks", "done"}
  BY DEF StageOrder
<1>4. ASSUME NEW s, Past(s) PROVE \E i, j \in 1 .. 10 : i < j /\ StageOrder[i] = s /\ StageOrder[j] = stage
  BY <1>1, <1>4 DEF Past
<1> QED  BY <1>2, <1>3, <1>4

\* A reference that is found is the recorded VM.
LEMMA FoundIsOurs ==
    ASSUME Types, Found(ref)
    PROVE  Ours
<1> QED  BY DEF Types, Found, Named, Ours

\* The initial state.
LEMMA InitBuild ==
    ASSUME Init
    PROVE  BuildInv /\ RestartInv /\ AdapterInv
<1> USE DEF Init
<1>1. NoVm \in VmType
  BY DEF NoVm, VmType, ForeignRef
<1>2. ~vm.exists /\ vm.os = "empty" /\ ~vm.up /\ ~vm.due /\ vm.id = 1
  BY DEF NoVm, ForeignRef
<1>3. Types
  <2>1. vm \in VmType
    BY <1>1
  <2>2. task \in {NoCall} /\ plan \in {NoCall} /\ stray = {} /\ stage \in Stages
    BY StagesAre
  <2>3. pc \in Pcs /\ ref \in Nat \ {ForeignRef} /\ seen \in Nat
    BY DEF Pcs, NoRef, ForeignRef
  <2>4. touched = {} /\ warned \in BOOLEAN /\ foreign \in {"absent", "folder", "elsewhere"}
    BY Zenon
  <2> QED  BY <2>1, <2>2, <2>3, <2>4 DEF Types
<1>4. ControlInv /\ CallsInv
  BY Calls DEF ControlInv, CallsInv, Calling, Live, CallOk
<1>5. RefInv /\ GuestInv /\ DisksInv /\ RestartInv
  BY <1>2 DEF RefInv, GuestInv, DisksInv, RestartInv, Ours, NoRef
<1>6. AdapterInv
  BY <1>2, Calls DEF AdapterInv, Ours
<1> QED  BY <1>3, <1>4, <1>5, <1>6 DEF BuildInv

\* Every step keeps the invariant.
LEMMA BuildStep ==
    ASSUME BuildInv, [Next]_vars
    PROVE  BuildInv'
<1>1. Types' /\ ControlInv' /\ RefInv'
  BY TypesStep, ControlStep, RefStep
<1>2. CallsInv' /\ GuestInv' /\ DisksInv'
  BY CallsStep, GuestStep, DisksStep
<1> QED  BY <1>1, <1>2 DEF BuildInv

\* The inductive invariant of the VM stages: whatever attempts stop, whatever
\* their threads and tasks still do, and whoever creates or deletes VMs.
THEOREM BuildInvariant == Spec => [](BuildInv /\ RestartInv)
<1>1. Init => BuildInv /\ RestartInv
  BY InitBuild
<1>2. BuildInv /\ RestartInv /\ [Next]_vars => (BuildInv /\ RestartInv)'
  BY BuildStep, RestartStep
<1> QED  BY <1>1, <1>2, PTL DEF Spec

\* The shape of the state: calls, VM and handler of vsphere.py and stages.py.
THEOREM TypeCorrect == Spec => []TypeOK
<1>1. BuildInv => TypeOK
  <2> SUFFICES ASSUME BuildInv PROVE TypeOK
    OBVIOUS
  <2>1. Types
    BY DEF BuildInv
  <2>2. DOMAIN vm = DOMAIN NoVm
    BY <2>1 DEF Types, VmType, NoVm
  <2>3. /\ vm.boot \in {"default", "install", "disk"} /\ vm.bootedFrom \in {"default", "install", "disk"}
        /\ vm.os \in {"empty", "prompt", "setup", "installed"} /\ vm.nics \in Nat /\ vm.boots \in Nat /\ vm.id \in Nat
        /\ vm.disks \in {NoDisks, FullDisks}
    BY <2>1 DEF Types, VmType
  <2>4. \A d \in {NoDisks, FullDisks} : DOMAIN d \subseteq Units
    BY FullDisksFacts
  <2>5. \A c \in CallType : c.op \in Ops /\ c.disks \in {NoDisks, FullDisks}
    BY DEF CallType
  <2>6. \A c \in stray \cup {task, plan} : c = NoCall \/ (c.op \in Ops /\ DOMAIN c.disks \subseteq Units)
    BY <2>1, <2>4, <2>5 DEF Types
  <2>7. DOMAIN vm.disks \subseteq Units
    BY <2>3, <2>4
  <2> QED  BY <2>1, <2>2, <2>3, <2>6, <2>7 DEF Types, TypeOK
<1> QED  BY <1>1, BuildInvariant, PTL

\* create_vm: "Never adopt, reconfigure or power on a VM this job did not
\* create": no vCenter task of any attempt, late ones included, is for such a
\* VM, for every number of attempts and VMs.
THEOREM ForeignVmIsNotReconfigured == Spec => []ForeignNotReconfigured
<1>1. BuildInv => ForeignNotReconfigured
  BY DEF BuildInv, Types, ForeignNotReconfigured
<1> QED  BY <1>1, BuildInvariant, PTL

\* add_data_disks, "a retry only adds the rest": the VM ends with the disks of
\* the request, for every request of up to seven disks, equal sizes included.
THEOREM DisksAreTheRequest == Spec => []DisksMatchRequest
<1>1. BuildInv => DisksMatchRequest
  <2> SUFFICES ASSUME BuildInv, Past("add_data_disks"), Found(ref) PROVE SameSizes(vm.disks)
    BY DEF DisksMatchRequest
  <2>1. vm.disks = FullDisks
    BY StagesPast, FoundIsOurs DEF BuildInv, DisksInv
  <2> QED  BY <2>1, FullDisksSizes
<1> QED  BY <1>1, BuildInvariant, PTL

\* cleanup_unattended_media: when it is done Windows has restarted, from its
\* disk unless the handler warned, and no restart is pending.
THEOREM RestartIsFromDisk == Spec => []RestartedFromDisk
<1>1. BuildInv /\ RestartInv => RestartedFromDisk
  BY StagesPast, FoundIsOurs DEF BuildInv, RestartInv, RestartDone, RestartedFromDisk
<1> QED  BY <1>1, BuildInvariant, PTL

\* attach_network_adapter leaves one card, unless its own task outlives the
\* attempt that issued it.
THEOREM AdapterIsSingle == "adapter" \notin LateOps => (Spec => []OneAdapter)
<1> SUFFICES ASSUME "adapter" \notin LateOps PROVE Spec => []OneAdapter
  OBVIOUS
<1>1. Init => BuildInv /\ AdapterInv
  BY InitBuild
<1>2. BuildInv /\ AdapterInv /\ [Next]_vars => (BuildInv /\ AdapterInv)'
  BY BuildStep, AdapterStep
<1>3. BuildInv /\ AdapterInv => OneAdapter
  BY StagesPast, FoundIsOurs DEF BuildInv, AdapterInv, OneAdapter
<1> QED  BY <1>1, <1>2, <1>3, PTL DEF Spec
=============================================================================
