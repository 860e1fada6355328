------------------------ MODULE ProcessList_proofs -------------------------
(***************************************************************************)
(* Proofs about ProcessList, for every set of pids, objects and entries:   *)
(* the listing functions use the objects only through ProcessInfo's own    *)
(* operations, and what they list is complete, sound and in order.         *)
(***************************************************************************)
EXTENDS ProcessList, ProcessInfo_proofs

-----------------------------------------------------------------------------
\* What the steps do to the walk, apart from the cache.

WalkTypeOK ==
  /\ doing \in {"idle", "scan", "make", "held"}
  /\ objects \in BOOLEAN
  /\ passed \in Pid \cup {-1, 0}
  /\ entries \subseteq Pid \cup Other
  /\ process_pid_list \in Seq(Pid)
  /\ process_list \in Seq(Obj)
  /\ scans \in 0 .. MaxScans
  /\ there \subseteq met /\ met \subseteq Pid

LEMMA LastDropped ==
  ASSUME NEW S, NEW s \in Seq(S), s # <<>>
  PROVE  /\ Len(s) \in Nat \ {0}
         /\ SubSeq(s, 1, Len(s) - 1) \in Seq(S)
         /\ Len(SubSeq(s, 1, Len(s) - 1)) = Len(s) - 1
         /\ \A k \in 1 .. Len(s) - 1 : SubSeq(s, 1, Len(s) - 1)[k] = s[k]
<1>1. PICK n \in Nat : n = Len(s) /\ n > 0
  OBVIOUS
<1>2. /\ SubSeq(s, 1, n - 1) \in Seq(S)
      /\ Len(SubSeq(s, 1, n - 1)) = n - 1
      /\ \A k \in 1 .. n - 1 : SubSeq(s, 1, n - 1)[k] = s[k]
  BY <1>1
<1> QED BY <1>1, <1>2

LEMMA OneMore ==
  ASSUME NEW S, NEW s \in Seq(S), NEW e \in S
  PROVE  /\ Append(s, e) \in Seq(S)
         /\ Len(s) \in Nat /\ Len(Append(s, e)) = Len(s) + 1
         /\ \A k \in 1 .. Len(s) : Append(s, e)[k] = s[k]
         /\ Append(s, e)[Len(s) + 1] = e
OBVIOUS

LEMMA Indexes ==
  ASSUME NEW S, NEW s \in Seq(S)
  PROVE  DOMAIN s = 1 .. Len(s) /\ Len(s) \in Nat /\ \A k \in 1 .. Len(s) : s[k] \in S
OBVIOUS

LEMMA WalkTypeInit == ListInit => WalkTypeOK
<1> SUFFICES ASSUME ListInit PROVE WalkTypeOK
  OBVIOUS
<1>1. <<>> \in Seq(Pid) /\ <<>> \in Seq(Obj)
  OBVIOUS
<1>2. 0 \in 0 .. MaxScans
  BY ListAssumption
<1>3. /\ doing \in {"idle", "scan", "make", "held"} /\ objects \in BOOLEAN
      /\ entries \subseteq Pid \cup Other /\ there \subseteq met /\ met \subseteq Pid
  BY DEF ListInit
<1>4. passed \in Pid \cup {-1, 0} /\ process_pid_list = <<>> /\ process_list = <<>> /\ scans = 0
  BY DEF ListInit
<1> QED BY <1>1, <1>2, <1>3, <1>4 DEF WalkTypeOK

LEMMA WalkTypeStep == WalkTypeOK /\ [ListNext]_listVars => WalkTypeOK'
<1> SUFFICES ASSUME WalkTypeOK, [ListNext]_listVars PROVE WalkTypeOK'
  OBVIOUS
<1> USE DEF WalkTypeOK
<1>1. CASE UNCHANGED listVars
  BY <1>1 DEF listVars, walkVars
<1>2. CASE ListKernel
  BY <1>2 DEF ListKernel, Watched, walkVars, Living
<1>3. ASSUME NEW o \in BOOLEAN, Begin(o) PROVE WalkTypeOK'
  BY <1>3, ListAssumption DEF Begin, Living
<1>4. CASE getdents
  <2>1. passed' \in Pid \cup {0} /\ entries' \subseteq Pid \cup Other
    BY <1>4 DEF getdents, Coming, Living
  <2> QED BY <1>4, <2>1 DEF getdents
<1>5. ASSUME NEW e \in Other, Skip(e) PROVE WalkTypeOK'
  BY <1>5 DEF Skip
<1>6. ASSUME NEW p \in Pid, Take(p) PROVE WalkTypeOK'
  <2>1. process_pid_list' \in Seq(Pid)
    BY <1>6, OneMore DEF Take
  <2> QED BY <1>6, <2>1 DEF Take
<1>7. CASE EndOfDirectory \/ MakeEnd
  BY <1>7 DEF EndOfDirectory, MakeEnd
<1>8. ASSUME NEW o \in Obj, Make(o) PROVE WalkTypeOK'
  <2>1. process_list' \in Seq(Obj)
    BY <1>8, OneMore DEF Make
  <2> QED BY <1>8, <2>1 DEF Make
<1>9. CASE Drop
  <2>1. process_list' \in Seq(Obj)
    <3>1. CASE Len(process_list) = 0
      BY <1>9, <3>1 DEF Drop
    <3>2. CASE Len(process_list) # 0
      <4>1. process_list # <<>>
        BY <3>2
      <4> QED BY <1>9, <3>2, <4>1, LastDropped DEF Drop
    <3> QED BY <3>1, <3>2
  <2> QED BY <1>9, <2>1 DEF Drop
<1> QED BY <1>1, <1>2, <1>3, <1>4, <1>5, <1>6, <1>7, <1>8, <1>9 DEF ListNext, Walk

-----------------------------------------------------------------------------
\* The objects.

\* Every step of the three functions is a step of the cache or leaves it alone.
LEMMA ListStepIsStep == WalkTypeOK /\ [ListNext]_listVars => [Next]_vars
<1> SUFFICES ASSUME WalkTypeOK, [ListNext]_listVars PROVE [Next]_vars
  OBVIOUS
<1>1. UNCHANGED listVars \/ (\E o \in BOOLEAN : Begin(o)) \/ getdents \/ EndOfDirectory \/ MakeEnd
      \/ (\E e \in Other : Skip(e)) \/ (\E p \in Pid : Take(p)) => UNCHANGED vars
  BY DEF listVars, Begin, getdents, EndOfDirectory, MakeEnd, Skip, Take
<1>2. CASE ListKernel
  BY <1>2 DEF ListKernel, Next
<1>3. ASSUME NEW o \in Obj, Make(o) PROVE Next
  <2>1. process_pid_list[Len(process_list) + 1] \in Pid
    BY <1>3, Indexes DEF Make, WalkTypeOK
  <2> QED BY <1>3, <2>1 DEF Make, Next, Client
<1>4. CASE Drop
  <2>1. CASE Len(process_list) = 0
    BY <1>4, <2>1 DEF Drop
  <2>2. CASE Len(process_list) # 0
    <3>1. process_list[Len(process_list)] \in Obj
      BY <2>2, Indexes DEF WalkTypeOK
    <3> QED BY <1>4, <2>2, <3>1 DEF Drop, Next, Client
  <2> QED BY <2>1, <2>2
<1> QED BY <1>1, <1>2, <1>3, <1>4 DEF ListNext, Walk

\* Every behaviour of the three functions is one of the cache, by the shape of
\* the actions; so the theorems about the cache hold of it.
LEMMA ListRefines == ListSpec => Spec
<1>1. ListInit => Init
  BY DEF ListInit
<1> QED BY <1>1, WalkTypeInit, WalkTypeStep, ListStepIsStep, PTL DEF ListSpec, Spec

\* ListTypeOK: the cache's types, which every behaviour of the cache keeps,
\* and those of the walk.
THEOREM ListTypeCorrect == ListSpec => []ListTypeOK
<1>1. TypeOK /\ WalkTypeOK => ListTypeOK
  BY DEF WalkTypeOK, ListTypeOK
<1> QED BY <1>1, WalkTypeInit, WalkTypeStep, ListRefines, TypeCorrect, PTL DEF ListSpec

\* Only Make and Drop touch the objects; nobody else makes or destroys one.
ObjectsOK ==
  /\ OneObjectPerPid
  /\ doing \in {"idle", "scan"} => process_list = <<>>

LEMMA ObjectsStep == WalkTypeOK /\ TypeOK /\ ObjectsOK /\ [ListNext]_listVars => ObjectsOK'
<1> SUFFICES ASSUME WalkTypeOK, TypeOK, ObjectsOK, [ListNext]_listVars PROVE ObjectsOK'
  OBVIOUS
<1> USE DEF ObjectsOK, OneObjectPerPid
<1>0. /\ pidof \in [Obj -> Pid \cup {NoPid}]
      /\ process_list \in Seq(Obj) /\ process_pid_list \in Seq(Pid)
  BY DEF WalkTypeOK, TypeOK
<1>1. CASE UNCHANGED <<pidof, process_list, process_pid_list, doing>>
  BY <1>1
<1>2. \/ UNCHANGED listVars \/ ListKernel \/ getdents \/ \E e \in Other : Skip(e)
      => UNCHANGED <<pidof, process_list, process_pid_list, doing>>
  BY DEF listVars, walkVars, vars, objectVars, ListKernel, getdents, Skip, Kernel, Spawn, Exit,
         Change, Tick
<1>3. ASSUME NEW o \in BOOLEAN, Begin(o) PROVE ObjectsOK'
  <2>1. process_list = <<>> /\ UNCHANGED <<pidof, process_list>>
    BY <1>3 DEF Begin, vars, objectVars
  <2>2. DOMAIN process_list = {}
    BY <2>1
  <2> QED BY <2>1, <2>2
<1>4. ASSUME NEW p \in Pid, Take(p) PROVE ObjectsOK'
  <2>1. process_list = <<>> /\ UNCHANGED <<pidof, process_list, doing>>
    BY <1>4 DEF Take, vars, objectVars
  <2>2. DOMAIN process_list = {}
    BY <2>1
  <2> QED BY <2>1, <2>2
<1>5. CASE EndOfDirectory \/ MakeEnd
  BY <1>5 DEF EndOfDirectory, MakeEnd, vars, objectVars
<1>6. ASSUME NEW o \in Obj, Make(o) PROVE ObjectsOK'
  <2>1. PICK n \in Nat : n = Len(process_list) /\ n + 1 <= Len(process_pid_list)
    BY <1>0, <1>6, Indexes DEF Make
  <2>2. /\ doing' = "make" /\ pidof[o] = NoPid
        /\ pidof' = [pidof EXCEPT ![o] = process_pid_list[n + 1]]
        /\ process_list' = Append(process_list, o)
        /\ process_pid_list' = process_pid_list
    BY <1>6, <2>1 DEF Make, Construct
  <2>3. /\ DOMAIN process_list' = 1 .. n + 1
        /\ \A k \in 1 .. n : process_list'[k] = process_list[k] /\ process_list[k] \in Obj
        /\ process_list'[n + 1] = o
    BY <1>0, <2>1, <2>2, OneMore, Indexes
  <2>4. \A k \in 1 .. n : process_list[k] # o
    <3>1. \A k \in 1 .. n : pidof[process_list[k]] \in Pid
      BY <1>0, <2>1, Indexes
    <3> QED BY <3>1, <2>2, ConstantsAssumption
  <2>5. /\ pidof'[o] = process_pid_list[n + 1]
        /\ \A q \in Obj : q # o => pidof'[q] = pidof[q]
    BY <1>0, <2>2
  <2>6. DOMAIN process_list = 1 .. n /\ \A k \in 1 .. n + 1 : k \in 1 .. n \/ k = n + 1
    BY <1>0, <2>1, Indexes
  <2>7. \A k \in 1 .. n + 1 : k \in DOMAIN process_pid_list
    BY <1>0, <2>1, Indexes
  <2>8. \A j, k \in DOMAIN process_list' : process_list'[j] = process_list'[k] => j = k
    BY <2>3, <2>4, <2>6
  <2>9. \A k \in DOMAIN process_list' :
          k \in DOMAIN process_pid_list' /\ pidof'[process_list'[k]] = process_pid_list'[k]
    <3> SUFFICES ASSUME NEW k \in 1 .. n + 1
                 PROVE  pidof'[process_list'[k]] = process_pid_list[k]
      BY <2>2, <2>3, <2>7
    <3>1. CASE k \in 1 .. n
      BY <3>1, <2>3, <2>4, <2>5, <2>6
    <3>2. CASE k = n + 1
      BY <3>2, <2>3, <2>5
    <3> QED BY <3>1, <3>2, <2>6
  <2>10. \A q \in Obj : pidof'[q] # NoPid => \E k \in DOMAIN process_list' : process_list'[k] = q
    BY <2>3, <2>5, <2>6
  <2> QED BY <2>2, <2>8, <2>9, <2>10
<1>7. CASE Drop
  <2>1. CASE Len(process_list) = 0
    <3>1. process_list = <<>>
      BY <2>1, <1>0
    <3> QED BY <1>7, <2>1, <3>1 DEF Drop, vars, objectVars
  <2>2. CASE Len(process_list) # 0
    <3>1. PICK n \in Nat : n = Len(process_list) /\ n > 0
      BY <1>0, <2>2, Indexes
    <3> DEFINE o == process_list[n]
    <3>2. /\ doing = "held" /\ doing' = "held" /\ o \in Obj
          /\ pidof' = [pidof EXCEPT ![o] = NoPid]
          /\ process_list' = SubSeq(process_list, 1, n - 1)
          /\ process_pid_list' = process_pid_list
      BY <1>0, <1>7, <2>2, <3>1, Indexes DEF Drop, Destroy
    <3>3. /\ DOMAIN process_list' = 1 .. n - 1
          /\ \A k \in 1 .. n - 1 : process_list'[k] = process_list[k]
      <4>1. process_list # <<>>
        BY <2>2
      <4>2. /\ process_list' \in Seq(Obj) /\ Len(process_list') = n - 1
            /\ \A k \in 1 .. n - 1 : process_list'[k] = process_list[k]
        BY <4>1, <1>0, <3>1, <3>2, LastDropped
      <4> QED BY <4>2, Indexes
    <3>4. DOMAIN process_list = 1 .. n /\ \A k \in 1 .. n : process_list[k] \in Obj
      BY <1>0, <3>1, Indexes
    <3>5. \A k \in 1 .. n - 1 : k \in 1 .. n /\ process_list[k] # o
      BY <3>1, <3>4
    <3>6. pidof'[o] = NoPid /\ \A q \in Obj : q # o => pidof'[q] = pidof[q]
      BY <1>0, <3>2
    <3>7. \A j, k \in DOMAIN process_list' : process_list'[j] = process_list'[k] => j = k
      BY <3>3, <3>4, <3>5
    <3>8. \A k \in DOMAIN process_list' :
            k \in DOMAIN process_pid_list' /\ pidof'[process_list'[k]] = process_pid_list'[k]
      BY <3>2, <3>3, <3>4, <3>5, <3>6
    <3>9. \A q \in Obj : pidof'[q] # NoPid => \E k \in DOMAIN process_list' : process_list'[k] = q
      <4> SUFFICES ASSUME NEW q \in Obj, pidof'[q] # NoPid
                   PROVE  \E k \in 1 .. n - 1 : process_list'[k] = q
        BY <3>3
      <4>1. q # o /\ pidof[q] # NoPid
        BY <3>6
      <4>2. PICK k \in 1 .. n : process_list[k] = q
        BY <4>1, <3>4
      <4>3. k \in 1 .. n - 1
        BY <4>1, <4>2, <3>1
      <4> QED BY <4>2, <4>3, <3>3
    <3> QED BY <3>2, <3>7, <3>8, <3>9
  <2> QED BY <2>1, <2>2
<1> QED BY <1>1, <1>2, <1>3, <1>4, <1>5, <1>6, <1>7 DEF ListNext, Walk

\* processList() makes one object of its own for each pid, in order.
THEOREM ListObjects == ListSpec => []OneObjectPerPid
<1>1. ListInit => ObjectsOK
  BY DEF ListInit, Init, ObjectsOK, OneObjectPerPid
<1>2. ObjectsOK => OneObjectPerPid
  BY DEF ObjectsOK
<1>3. ListTypeOK => TypeOK /\ WalkTypeOK
  BY DEF ListTypeOK, WalkTypeOK
<1> QED BY <1>1, <1>2, <1>3, ListTypeCorrect, ObjectsStep, PTL DEF ListSpec

-----------------------------------------------------------------------------
\* The walk.  What is listed comes before what is buffered, and that before
\* what the kernel has still to hand over; whoever has lived since the call is
\* in one of the three.

Buffered == entries \cap Pid

ScanOrder ==
  /\ \A k \in DOMAIN process_pid_list, e \in Buffered : process_pid_list[k] < e
  /\ \A e \in Buffered : e <= passed
  /\ \A k \in DOMAIN process_pid_list : process_pid_list[k] <= passed

ScanSets ==
  /\ Buffered \subseteq met
  /\ there \subseteq Living /\ Living \subseteq met
  /\ \A p \in there : p \in Listed \/ p \in entries \/ p > passed

WalkOrder ==
  /\ ListedOnce
  /\ ListedIfThere
  /\ ListedWereMet
  /\ doing = "scan" => ScanOrder /\ ScanSets

\* A number added to the list's end, in whatever the list is about.
LEMMA ListedAppend ==
  ASSUME WalkTypeOK, NEW p \in Pid, process_pid_list' = Append(process_pid_list, p)
  PROVE  /\ Listed' = Listed \cup {p}
         /\ \A k \in DOMAIN process_pid_list' :
              \/ process_pid_list'[k] = p
              \/ k \in DOMAIN process_pid_list /\ process_pid_list'[k] = process_pid_list[k]
         /\ (\A k \in DOMAIN process_pid_list : process_pid_list[k] < p) /\ ListedOnce
              => ListedOnce'
<1>1. process_pid_list \in Seq(Pid)
  BY DEF WalkTypeOK
<1>2. PICK n \in Nat : n = Len(process_pid_list) /\ DOMAIN process_pid_list = 1 .. n
  BY <1>1, Indexes
<1>3. /\ DOMAIN process_pid_list' = 1 .. n + 1
      /\ \A k \in 1 .. n : process_pid_list'[k] = process_pid_list[k]
      /\ process_pid_list'[n + 1] = p
  BY <1>1, <1>2, OneMore, Indexes
<1>4. \A k \in 1 .. n + 1 : k \in 1 .. n \/ k = n + 1
  BY <1>2
<1>5. n + 1 \in 1 .. n + 1 /\ \A k \in 1 .. n : k \in 1 .. n + 1
  BY <1>2
<1>6. Listed' = Listed \cup {p}
  BY <1>2, <1>3, <1>4, <1>5 DEF Listed
<1>7. ASSUME \A k \in 1 .. n : process_pid_list[k] < p, ListedOnce,
             NEW j \in 1 .. n + 1, NEW k \in 1 .. n + 1, j < k
      PROVE  process_pid_list'[j] < process_pid_list'[k]
  <2>1. j \in 1 .. n
    BY <1>2, <1>7
  <2>2. CASE k \in 1 .. n
    BY <1>2, <1>3, <1>7, <2>1, <2>2 DEF ListedOnce
  <2>3. CASE k = n + 1
    BY <1>3, <1>7, <2>1, <2>3
  <2> QED BY <1>4, <2>2, <2>3
<1>8. (\A k \in 1 .. n : process_pid_list[k] < p) /\ ListedOnce => ListedOnce'
  BY <1>3, <1>7 DEF ListedOnce
<1>9. \A k \in DOMAIN process_pid_list' :
        \/ process_pid_list'[k] = p
        \/ k \in DOMAIN process_pid_list /\ process_pid_list'[k] = process_pid_list[k]
  BY <1>2, <1>3, <1>4
<1>10. (\A k \in DOMAIN process_pid_list : process_pid_list[k] < p) /\ ListedOnce => ListedOnce'
  BY <1>2, <1>8
<1> QED BY <1>6, <1>9, <1>10

LEMMA WalkOrderStep == WalkTypeOK /\ WalkOrder /\ [ListNext]_listVars => WalkOrder'
<1> SUFFICES ASSUME WalkTypeOK, WalkOrder, [ListNext]_listVars PROVE WalkOrder'
  OBVIOUS
<1>0. /\ process_pid_list \in Seq(Pid) /\ passed \in Pid \cup {-1, 0}
      /\ entries \subseteq Pid \cup Other /\ Pid \subseteq Nat \ {0} /\ Other \cap Pid = {}
      /\ there \subseteq met /\ met \subseteq Pid /\ Living \subseteq Pid
      /\ \A k \in DOMAIN process_pid_list : process_pid_list[k] \in Pid
  BY ListAssumption, Indexes DEF WalkTypeOK, Living
<1>1. CASE UNCHANGED listVars
  BY <1>1 DEF listVars, walkVars, vars, kernelVars, WalkOrder, ListedOnce, ListedIfThere,
              ListedWereMet, Listed, ScanOrder, ScanSets, Buffered, Living
<1>2. CASE ListKernel
  <2>1. /\ UNCHANGED <<doing, passed, entries, process_pid_list>> /\ Watched
        /\ Listed' = Listed /\ Buffered' = Buffered /\ Living' \subseteq Pid
    BY <1>2 DEF ListKernel, walkVars, Listed, Buffered, Living
  <2>2. CASE doing = "scan"
    <3>1. /\ there' = there \cap Living' /\ met' = met \cup Living'
          /\ ListedOnce' /\ ListedIfThere' /\ ListedWereMet'
      BY <2>1, <2>2 DEF Watched, WalkOrder, ListedOnce, ListedIfThere, ListedWereMet
    <3>2. ScanOrder' /\ ScanSets'
      BY <2>1, <2>2, <3>1 DEF WalkOrder, ScanOrder, ScanSets
    <3> QED BY <3>1, <3>2 DEF WalkOrder
  <2>3. CASE doing # "scan"
    BY <2>1, <2>3 DEF Watched, WalkOrder, ListedOnce, ListedIfThere, ListedWereMet
  <2> QED BY <2>2, <2>3
<1>3. ASSUME NEW o \in BOOLEAN, Begin(o) PROVE WalkOrder'
  <2>1. /\ doing' = "scan" /\ passed' = -1 /\ entries' = {} /\ process_pid_list' = <<>>
        /\ there' = Living /\ met' = Living /\ Living' = Living
    BY <1>3 DEF Begin, vars, kernelVars, Living
  <2>2. DOMAIN process_pid_list' = {} /\ Listed' = {} /\ Buffered' = {}
    BY <2>1 DEF Listed, Buffered
  <2>3. \A p \in Pid : p > -1
    BY <1>0
  <2>4. ScanOrder' /\ ScanSets'
    BY <1>0, <2>1, <2>2, <2>3 DEF ScanOrder, ScanSets
  <2> QED BY <2>1, <2>2, <2>4 DEF WalkOrder, ListedOnce, ListedIfThere, ListedWereMet
<1>4. CASE getdents
  <2>1. /\ doing = "scan" /\ entries = {} /\ Living' = Living /\ Listed' = Listed
        /\ UNCHANGED <<doing, process_pid_list, there, met>>
    BY <1>4 DEF getdents, vars, kernelVars, Living, Listed
  <2>2. PICK end \in Coming \cup (IF passed = -1 THEN {0} ELSE {}) :
          /\ entries' = {p \in Coming : p <= end} \cup (IF passed = -1 THEN Other ELSE {})
          /\ passed' = end
    BY <1>4 DEF getdents
  <2>3. Coming \subseteq Pid /\ \A p \in Coming : p > passed /\ p \in Living
    BY <1>0 DEF Coming
  <2>4. Buffered' = {p \in Coming : p <= end}
    BY <1>0, <2>2, <2>3 DEF Buffered
  <2>5. end \in Nat /\ passed <= end
    BY <1>0, <2>2, <2>3
  <2>6. ScanOrder /\ ScanSets
    BY <2>1 DEF WalkOrder
  <2>7. ScanOrder'
    <3>1. ASSUME NEW k \in DOMAIN process_pid_list
          PROVE  process_pid_list[k] <= end /\ \A e \in Buffered' : process_pid_list[k] < e
      <4>0. passed \in Int /\ process_pid_list[k] \in Nat
        <5>1. process_pid_list[k] \in Pid /\ Pid \subseteq Nat
          BY ONLY <1>0, <3>1
        <5>2. passed \in Nat \/ passed = -1
          BY <1>0, <5>1
        <5>3. passed \in Int
          BY ONLY <5>2
        <5>4. process_pid_list[k] \in Nat
          BY ONLY <5>1
        <5> QED BY <5>3, <5>4
      <4>1. process_pid_list[k] \in Nat /\ process_pid_list[k] <= passed /\ passed \in Int
        BY <2>6, <4>0 DEF ScanOrder
      <4>2. \A e \in Buffered' : e \in Nat /\ e > passed
        BY <1>0, <2>3, <2>4
      <4> QED BY <2>5, <4>1, <4>2
    <3>2. \A e \in Buffered' : e <= end
      BY <2>4
    <3> QED BY <2>1, <2>2, <3>1, <3>2 DEF ScanOrder
  <2>8. \A p \in there : p \in Listed \/ p \in entries' \/ p > end
    <3> SUFFICES ASSUME NEW p \in there, p \notin Listed, ~(p > end)
                 PROVE  p \in entries'
      OBVIOUS
    <3>1. p > passed /\ p \in Living
      BY <2>1, <2>6 DEF ScanSets
    <3>2. p \in Coming /\ p <= end
      BY <1>0, <2>5, <3>1 DEF Coming
    <3> QED BY <2>2, <3>2
  <2>9. ScanSets'
    BY <2>1, <2>2, <2>3, <2>4, <2>6, <2>8 DEF ScanSets
  <2>10. ListedOnce' /\ ListedIfThere' /\ ListedWereMet'
    BY <2>1 DEF WalkOrder, ListedOnce, ListedIfThere, ListedWereMet
  <2> QED BY <2>7, <2>9, <2>10 DEF WalkOrder
<1>5. ASSUME NEW e \in Other, Skip(e) PROVE WalkOrder'
  <2>1. /\ doing = "scan" /\ entries' = entries \ {e} /\ Living' = Living /\ Listed' = Listed
        /\ UNCHANGED <<doing, passed, process_pid_list, there, met>>
    BY <1>5 DEF Skip, vars, kernelVars, Living, Listed
  <2>2. Buffered' = Buffered /\ \A p \in there : p \in entries => p \in entries'
    BY <1>0, <2>1 DEF Buffered
  <2>3. ScanOrder' /\ ScanSets'
    BY <2>1, <2>2 DEF WalkOrder, ScanOrder, ScanSets
  <2> QED BY <2>1, <2>3 DEF WalkOrder, ListedOnce, ListedIfThere, ListedWereMet
<1>6. ASSUME NEW p \in Pid, Take(p) PROVE WalkOrder'
  <2>1. /\ doing = "scan" /\ p \in entries /\ p \in Buffered
        /\ \A q \in entries \ Other : p <= q
        /\ entries' = entries \ {p} /\ Living' = Living
        /\ UNCHANGED <<doing, passed, there, met>>
    BY <1>6 DEF Take, vars, kernelVars, Living, Buffered
  <2>2. Buffered' = Buffered \ {p} /\ \A q \in Buffered' : p < q
    <3>1. Buffered' = Buffered \ {p}
      BY <2>1 DEF Buffered
    <3>2. ASSUME NEW q \in Buffered' PROVE p < q
      <4>1. q \in entries \ Other /\ q # p /\ q \in Nat
        BY <1>0, <3>1, <3>2 DEF Buffered
      <4> QED BY <1>0, <2>1, <4>1
    <3> QED BY <3>1, <3>2
  <2>3. ScanOrder /\ ScanSets /\ ListedOnce /\ ListedWereMet
    BY <2>1 DEF WalkOrder
  <2>4. CASE process_pid_list' = Append(process_pid_list, p)
    <3>1. /\ Listed' = Listed \cup {p}
          /\ \A k \in DOMAIN process_pid_list' :
               \/ process_pid_list'[k] = p
               \/ k \in DOMAIN process_pid_list /\ process_pid_list'[k] = process_pid_list[k]
          /\ ListedOnce'
      BY <2>1, <2>3, <2>4, ListedAppend DEF ScanOrder
    <3>2. ScanOrder'
      BY <2>1, <2>2, <2>3, <3>1 DEF ScanOrder
    <3>3. ScanSets'
      BY <2>1, <2>2, <2>3, <3>1 DEF ScanSets
    <3> QED BY <2>1, <2>3, <3>1, <3>2, <3>3 DEF WalkOrder, ListedIfThere, ListedWereMet, ScanSets
  <2>5. CASE ~alive[p] /\ UNCHANGED process_pid_list
    <3>1. Listed' = Listed /\ p \notin there
      BY <2>3, <2>5 DEF Listed, ScanSets, Living
    <3>2. ScanOrder' /\ ScanSets'
      BY <2>1, <2>2, <2>3, <2>5, <3>1 DEF ScanOrder, ScanSets
    <3> QED BY <2>1, <2>3, <2>5, <3>1, <3>2 DEF WalkOrder, ListedOnce, ListedIfThere, ListedWereMet
  <2> QED BY <1>6, <2>4, <2>5 DEF Take
<1>7. CASE EndOfDirectory
  <2>1. /\ doing = "scan" /\ entries = {} /\ Coming = {} /\ doing' \in {"make", "held"}
        /\ Listed' = Listed /\ UNCHANGED <<process_pid_list, there, met>>
    BY <1>7 DEF EndOfDirectory, Listed
  <2>2. there \subseteq Listed
    <3> SUFFICES ASSUME NEW p \in there, p \notin Listed PROVE FALSE
      OBVIOUS
    <3>1. p > passed /\ p \in Living
      BY <2>1 DEF WalkOrder, ScanSets
    <3> QED BY <2>1, <3>1 DEF Coming
  <2> QED BY <2>1, <2>2 DEF WalkOrder, ListedOnce, ListedIfThere, ListedWereMet
<1>8. CASE MakeEnd \/ Drop \/ \E o \in Obj : Make(o)
  <2>1. /\ doing \in {"make", "held"} /\ doing' # "scan"
        /\ Listed' = Listed /\ UNCHANGED <<process_pid_list, there, met>>
    BY <1>8 DEF MakeEnd, Drop, Make, Listed
  <2> QED BY <2>1 DEF WalkOrder, ListedOnce, ListedIfThere, ListedWereMet
<1> QED BY <1>1, <1>2, <1>3, <1>4, <1>5, <1>6, <1>7, <1>8 DEF ListNext, Walk

LEMMA WalkOrderHolds == ListSpec => []WalkOrder
<1>1. ListInit => WalkOrder
  <2> SUFFICES ASSUME ListInit PROVE WalkOrder
    OBVIOUS
  <2>1. doing = "idle" /\ DOMAIN process_pid_list = {}
    BY DEF ListInit
  <2> QED BY <2>1 DEF WalkOrder, ListedOnce, ListedIfThere, ListedWereMet
<1> QED BY <1>1, WalkTypeInit, WalkTypeStep, WalkOrderStep, PTL DEF ListSpec

\* ListedOnce: no pid is listed twice, however processes come and go.
THEOREM ListRises == ListSpec => []ListedOnce
<1>1. WalkOrder => ListedOnce
  BY DEF WalkOrder
<1> QED BY <1>1, WalkOrderHolds, PTL

\* ListedIfThere: a process that lives all through the walk is listed.
THEOREM ListComplete == ListSpec => []ListedIfThere
<1>1. WalkOrder => ListedIfThere
  BY DEF WalkOrder
<1> QED BY <1>1, WalkOrderHolds, PTL

\* ListedWereMet: nobody is listed who has not lived since the call.
THEOREM ListSound == ListSpec => []ListedWereMet
<1>1. WalkOrder => ListedWereMet
  BY DEF WalkOrder
<1> QED BY <1>1, WalkOrderHolds, PTL

-----------------------------------------------------------------------------
\* The walk is a listing.

LEMMA WalkBegin == ListInit => WalkView!Init
<1> SUFFICES ASSUME ListInit PROVE WalkView!Init
  OBVIOUS
<1>1. doing = "idle" /\ Listed = {}
  BY DEF ListInit, Listed
<1> QED BY <1>1 DEF WalkView!Init

LEMMA WalkReturn ==
  ASSUME WalkTypeOK, WalkOrder, EndOfDirectory
  PROVE  \E A \in SUBSET met : WalkView!Return(A)
<1>0. PICK A : A = Listed
  OBVIOUS
<1>1. /\ doing = "scan" /\ doing' \in {"make", "held"}
      /\ UNCHANGED <<process_pid_list, there, met>>
      /\ Living' = Living /\ Listed' = Listed
  BY DEF EndOfDirectory, vars, kernelVars, Living, Listed
<1>2. there \subseteq A /\ A \subseteq met
  <2>1. WalkOrder'
    BY WalkOrderStep DEF ListNext, Walk
  <2> QED BY <1>0, <1>1, <2>1 DEF WalkOrder, ListedIfThere, ListedWereMet
<1>3. A = {PidOf(p) : p \in A}
  BY DEF PidOf
<1>4. WalkView!Return(A)
  BY <1>0, <1>1, <1>2, <1>3 DEF WalkView!Return, WalkView!End, PidOf
<1> QED BY <1>2, <1>4

LEMMA WalkStep ==
  WalkTypeOK /\ WalkOrder /\ [ListNext]_listVars => [WalkView!Next]_(WalkView!snapshotVars)
<1> SUFFICES ASSUME WalkTypeOK, WalkOrder, [ListNext]_listVars
             PROVE  [WalkView!Next]_(WalkView!snapshotVars)
  OBVIOUS
<1>0. doing \in {"idle", "scan", "make", "held"}
  BY DEF WalkTypeOK
<1>1. ASSUME kernelVars' = kernelVars, process_pid_list' = process_pid_list
      PROVE  Living' = Living /\ Listed' = Listed
  BY <1>1 DEF kernelVars, Living, Listed
\* Steps in the while of processListPid(), and those that are not about the pids.
<1>2. ASSUME kernelVars' = kernelVars, UNCHANGED <<doing, there, met>>,
             doing = "scan" \/ process_pid_list' = process_pid_list
      PROVE  UNCHANGED WalkView!snapshotVars
  <2>1. Living' = Living
    BY <1>2 DEF kernelVars, Living
  <2>2. doing = "scan" \/ Listed' = Listed
    BY <1>1, <1>2
  <2> QED BY <1>2, <2>1, <2>2 DEF WalkView!snapshotVars
<1>3. CASE ListKernel
  <2>1. UNCHANGED <<doing, process_pid_list>> /\ Listed' = Listed
    BY <1>3 DEF ListKernel, walkVars, Listed
  <2>2. IF doing = "scan" THEN there' = there \cap Living' /\ met' = met \cup Living'
        ELSE UNCHANGED <<there, met>>
    BY <1>3 DEF ListKernel, Watched
  <2>3. WalkView!Alter
    BY <1>0, <2>1, <2>2 DEF WalkView!Alter
  <2> QED BY <2>3 DEF WalkView!Next
<1>4. ASSUME NEW o \in BOOLEAN, Begin(o) PROVE [WalkView!Next]_(WalkView!snapshotVars)
  <2>1. /\ doing = "idle" /\ doing' = "scan" /\ there' = Living /\ met' = Living
        /\ Living' = Living
    BY <1>4 DEF Begin, vars, kernelVars, Living
  <2>2. WalkView!Begin
    BY <2>1 DEF WalkView!Begin
  <2> QED BY <2>2 DEF WalkView!Next
<1>5. CASE getdents
  BY <1>2, <1>5 DEF getdents, vars
<1>6. ASSUME NEW e \in Other, Skip(e) PROVE UNCHANGED WalkView!snapshotVars
  BY <1>2, <1>6 DEF Skip, vars
<1>7. ASSUME NEW p \in Pid, Take(p) PROVE UNCHANGED WalkView!snapshotVars
  BY <1>2, <1>7 DEF Take, vars
<1>8. CASE EndOfDirectory
  <2>1. (\E A \in SUBSET met : WalkView!Return(A)) /\ doing = "scan"
    BY <1>8, WalkReturn DEF EndOfDirectory
  <2> QED BY <2>1 DEF WalkView!Next
<1>9. ASSUME NEW o \in Obj, Make(o) PROVE UNCHANGED WalkView!snapshotVars
  BY <1>2, <1>9 DEF Make, Construct
<1>10. CASE MakeEnd
  <2>1. /\ doing = "make" /\ doing' = "held" /\ UNCHANGED <<there, met>>
        /\ Living' = Living /\ Listed' = Listed
    BY <1>1, <1>10 DEF MakeEnd, vars
  <2> QED BY <2>1 DEF WalkView!snapshotVars
<1>11. CASE Drop
  <2>1. /\ doing = "held" /\ UNCHANGED <<there, met, process_pid_list, kernelVars>>
        /\ doing' \in {"idle", "held"}
    BY <1>11 DEF Drop, Destroy, vars
  <2>2. Living' = Living /\ Listed' = Listed
    BY <1>1, <2>1
  <2>3. CASE doing' = "held"
    BY <2>1, <2>2, <2>3 DEF WalkView!snapshotVars
  <2>4. CASE doing' = "idle"
    <3>1. WalkView!Dismiss
      BY <2>1, <2>2, <2>4 DEF WalkView!Dismiss
    <3> QED BY <3>1 DEF WalkView!Next
  <2> QED BY <2>1, <2>3, <2>4
<1>12. CASE UNCHANGED listVars
  BY <1>2, <1>12 DEF listVars, walkVars, vars
<1> QED BY <1>3, <1>4, <1>5, <1>6, <1>7, <1>8, <1>9, <1>10, <1>11, <1>12 DEF ListNext, Walk

\* WalkIsAListing: whoever starts and exits between two batches, the list of
\* pids is made of processes met on the walk, leaves out none that lived all
\* through it, and nothing done with the objects changes it.
THEOREM WalkListing == ListSpec => WalkIsAListing
<1> QED BY WalkBegin, WalkStep, WalkTypeInit, WalkTypeStep, WalkOrderHolds, PTL
       DEF ListSpec, WalkIsAListing, WalkView!Spec
=============================================================================
