------------------------ MODULE ProcessUsage_proofs ------------------------
(***************************************************************************)
(* Proofs about ProcessUsage: it uses the cache only through the cache's   *)
(* own operations; its types; and, for clients that call cpuUsage() and    *)
(* no other getter that reads the stat file, that cpu usages are sound.    *)
(***************************************************************************)
EXTENDS ProcessUsage, ProcessInfo_proofs

-----------------------------------------------------------------------------
\* Every step is a step of the cache, or leaves the cache alone.

LEMMA KernelIsStep == TypeOK /\ UsageKernel => [Next]_vars
<1> SUFFICES ASSUME TypeOK, UsageKernel PROVE [Next]_vars OBVIOUS
<1>1. ASSUME NEW p \in Pid, NEW f \in {"stat", "io"}, NEW c, Change(p, f, c),
             c \in Contents(f)
      PROVE  Next
  BY <1>1 DEF Next, Kernel, Change
<1>2. ASSUME NEW p \in Pid, Run(p) PROVE Next
  <2> DEFINE c == [file[p]["stat"] EXCEPT !.line = @ + 1]
  <2>1. file[p]["stat"] \in Content("stat")
    BY <1>2 DEF Run, TypeOK, FileOK, Files
  <2>2. c \in Contents("stat") BY <1>2, <2>1 DEF Run, Content, Contents
  <2>3. Change(p, "stat", c) BY <1>2 DEF Run
  <2> QED BY <1>1, <2>2, <2>3
<1>3. ASSUME NEW p \in Pid, Retitle(p) PROVE Next
  <2> DEFINE c == [file[p]["stat"] EXCEPT !.comm = "blank"]
  <2>1. file[p]["stat"] \in Content("stat")
    BY <1>3 DEF Retitle, TypeOK, FileOK, Files
  <2>2. c \in Contents("stat") BY <2>1 DEF Content, Contents
  <2>3. Change(p, "stat", c) BY <1>3 DEF Retitle
  <2> QED BY <1>1, <2>2, <2>3
<1>4. ASSUME NEW p \in Pid, NEW r \in 0 .. 1, NEW w \in 0 .. 1, Transfer(p, r, w) PROVE Next
  <2> DEFINE c == [rb |-> file[p]["io"].rb + r, wb |-> file[p]["io"].wb + w]
  <2>1. c \in Contents("io") BY <1>4 DEF Transfer, Content, Contents
  <2>2. Change(p, "io", c) BY <1>4 DEF Transfer
  <2> QED BY <1>1, <2>1, <2>2
<1>5. ASSUME NEW p \in Pid, Hide(p) PROVE Next
  BY <1>1, <1>5 DEF Hide, Contents, Private
<1> QED BY <1>2, <1>3, <1>4, <1>5 DEF UsageKernel, RunOther, Next, Kernel

LEMMA ClientIsStep == UsageTypeOK /\ UsageClient => [Next]_vars
<1> SUFFICES ASSUME UsageTypeOK, UsageClient PROVE [Next]_vars OBVIOUS
<1>1. ASSUME NEW o \in Obj, NEW f \in Files, Through(o, f) PROVE [Next]_vars
  BY <1>1 DEF Through, Get, Next, Client
<1>2. CASE EndCpuUsage
  <2>1. call \in Call BY <1>2 DEF EndCpuUsage, Quiet, UsageTypeOK
  <2>2. Through(call.obj, "stat") BY <1>2 DEF EndCpuUsage
  <2> QED BY <1>1, <2>1, <2>2 DEF Call, Files
<1>3. ASSUME NEW o \in Obj, NEW p \in Pid, NewObject(o, p) PROVE Next
  BY <1>3 DEF NewObject, Next, Client
<1>4. ASSUME NEW o \in Obj, NEW q \in Obj, CopyObject(o, q) PROVE Next
  BY <1>4 DEF CopyObject, Next, Client
<1>5. ASSUME NEW o \in Obj, DeleteObject(o) \/ UpdateObject(o) PROVE Next
  BY <1>5 DEF DeleteObject, UpdateObject, Next, Client
<1>6. ASSUME NEW o \in Obj, NEW f \in {"stat", "io"}, PlainGet(o, f) PROVE [Next]_vars
  BY <1>1, <1>6 DEF PlainGet, Through, Files
<1>7. ASSUME NEW o \in Obj, BeginCpuUsage(o) PROVE UNCHANGED vars
  BY <1>7 DEF BeginCpuUsage
<1>8. ASSUME NEW o \in Obj, NEW k, NEW j, IoUsage(o, k) \/ IoTotalUsage(o, k, j)
      PROVE  [Next]_vars
  <2>1. Through(o, "io") BY <1>8 DEF IoUsage, IoTotalUsage
  <2> QED BY <1>1, <2>1 DEF Files
<1> QED BY <1>2, <1>3, <1>4, <1>5, <1>6, <1>7, <1>8 DEF UsageClient

LEMMA UsageStepIsStep == UsageTypeOK /\ [UsageNext]_allVars => [Next]_vars
BY KernelIsStep, ClientIsStep DEF UsageNext, allVars, UsageTypeOK

-----------------------------------------------------------------------------
\* Types.

LEMMA MinusType ==
  ASSUME NEW a \in Int \cup {Unset}, NEW b \in Int \cup {Unset}
  PROVE  Minus(a, b) \in (0 .. Word - 1) \cup {Unset}
<1>1. Word \in Nat /\ Word > 0 BY ConstantsAssumption, UsageAssumption
<1> QED BY <1>1 DEF Minus

LEMMA QuotientType ==
  ASSUME NEW n \in (0 .. Word - 1) \cup {Unset}, NEW d \in Int \cup {Unset}
  PROVE  Quotient(n, d) \in Reading
<1>1. Word \in Nat /\ Word > 0 BY ConstantsAssumption, UsageAssumption
<1> QED BY <1>1 DEF Quotient, Zero, Reading

LEMMA ValInt == Val \subseteq Int /\ 0 .. MaxTotal \subseteq Int
BY UsageAssumption

LEMMA IoRateType ==
  ASSUME NEW f \in {"ior", "iow"}, NEW old \in Baseline \cup {NoOld}, NEW io \in Member("io")
  PROVE  IoRate(f, old, io) \in Reading
<1>1. CASE old = NoOld
  <2>1. Word > 0 /\ Word \in Nat BY ConstantsAssumption, UsageAssumption
  <2> QED BY <1>1, <2>1 DEF IoRate, Zero, Reading
<1>2. CASE old \in Baseline /\ old # NoOld
  <2>1. old.io \in Member("io") BY <1>2 DEF Baseline
  <2>2. /\ io[Counter[f]] \in Val \cup {Unset} /\ old.io[Counter[f]] \in Val \cup {Unset}
        /\ io.at - old.io.at \in Int
    BY <2>1 DEF Member, Counter
  <2>3. Minus(io[Counter[f]], old.io[Counter[f]]) \in (0 .. Word - 1) \cup {Unset}
    BY <2>2, MinusType, ValInt
  <2> QED BY <1>2, <2>2, <2>3, QuotientType DEF IoRate
<1> QED BY <1>1, <1>2

LEMMA CpuRateType ==
  ASSUME NEW old \in Baseline \cup {NoOld}, NEW total \in (0 .. MaxTotal) \cup {Unset},
         NEW ticks \in Val \cup {Unset}
  PROVE  CpuRate(old, total, ticks) \in Reading
<1>1. CASE old = NoOld
  <2>1. Word > 0 /\ Word \in Nat BY ConstantsAssumption, UsageAssumption
  <2> QED BY <1>1, <2>1 DEF CpuRate, Zero, Reading
<1>2. CASE old \in Baseline /\ old # NoOld
  <2>1. Minus(ticks, old.proc) \in (0 .. Word - 1) \cup {Unset}
    BY <1>2, MinusType, ValInt DEF Baseline
  <2>2. Minus(total, old.cpu) \in (0 .. Word - 1) \cup {Unset}
    BY <1>2, MinusType, ValInt DEF Baseline
  <2>3. Minus(total, old.cpu) \in Int \cup {Unset} BY <2>2, UsageAssumption
  <2> QED BY <1>2, <2>1, <2>3, QuotientType DEF CpuRate
<1> QED BY <1>1, <1>2

LEMMA RebasedType ==
  ASSUME NEW old \in Baseline \cup {NoOld}, NEW io \in Member("io"),
         NEW total \in (0 .. MaxTotal) \cup {Unset}, NEW ticks \in Val \cup {Unset}
  PROVE  /\ IoRebased(old, io) \in Baseline
         /\ CpuRebased(old, total, ticks, io) \in Baseline
BY DEF IoRebased, CpuRebased, Baseline

LEMMA FreshUsageType == FreshUsage \in [Kinds -> Reading]
BY DEF FreshUsage, Reading

LEMMA BillType ==
  ASSUME NEW b \in [Pid -> [Kinds -> Nat \cup {Unset}]], NEW p \in Pid, NEW k \in Kinds,
         NEW r \in Reading
  PROVE  Bill(b, p, k, r) \in [Pid -> [Kinds -> Nat \cup {Unset}]]
<1>1. r.num # Unset => r.num \in Nat BY UsageAssumption DEF Reading
<1> QED BY <1>1 DEF Bill

LEMMA UsageInitType == UsageInit => UsageTypeOK
<1> SUFFICES ASSUME UsageInit PROVE UsageTypeOK OBVIOUS
<1>1. TypeOK BY InitType DEF UsageInit
<1>2. cpuTotal \in 0 .. MaxTotal BY UsageAssumption DEF UsageInit
<1> QED BY <1>1, <1>2, FreshUsageType DEF UsageInit, UsageTypeOK

LEMMA MemTypes ==
  TypeOK => \A o \in Obj : /\ mem[o]["io"] \in Member("io")
                           /\ mem[o]["stat"].rest \in Val \cup {Unset}
<1>1. TypeOK => \A o \in Obj : /\ mem[o]["io"] \in Member("io")
                               /\ mem[o]["stat"] \in Member("stat")
  BY DEF TypeOK, MemOK, Files
<1> QED BY <1>1 DEF Member

LEMMA NextMemTypes ==
  (TypeOK => \A o \in Obj : /\ mem[o]["io"] \in Member("io")
                            /\ mem[o]["stat"].rest \in Val \cup {Unset})'
BY MemTypes, PTL

LEMMA UsageStepType == UsageTypeOK /\ [UsageNext]_allVars => UsageTypeOK'
<1> SUFFICES ASSUME UsageTypeOK, [UsageNext]_allVars PROVE UsageTypeOK' OBVIOUS
<1>0. TypeOK' BY UsageStepIsStep, StepType DEF UsageTypeOK
<1>1. /\ \A o \in Obj : mem[o]["io"] \in Member("io")
      /\ \A o \in Obj : mem'[o]["io"] \in Member("io")
      /\ \A o \in Obj : mem'[o]["stat"].rest \in Val \cup {Unset}
  BY <1>0, MemTypes, NextMemTypes DEF UsageTypeOK
<1>2. ASSUME usageVars' = usageVars, pidof' = pidof PROVE UsageTypeOK'
  BY <1>0, <1>2 DEF usageVars, UsageTypeOK
<1>3. CASE UsageKernel
  <2>1. pidof' = pidof
    BY <1>3 DEF UsageKernel, Spawn, Exit, Tick, Run, RunOther, Retitle, Transfer, Hide,
                Change, vars, objectVars
  <2>2. ASSUME NEW p \in Pid, Run(p) PROVE UsageTypeOK'
    BY <1>0, <2>1, <2>2, UsageAssumption DEF Run, UsageTypeOK
  <2>3. CASE RunOther BY <1>0, <2>1, <2>3, UsageAssumption DEF RunOther, UsageTypeOK
  <2> QED BY <1>2, <1>3, <2>1, <2>2, <2>3 DEF UsageKernel, Retitle, Transfer, Hide
<1>4. ASSUME NEW o \in Obj, NEW p \in Pid, NewObject(o, p) PROVE UsageTypeOK'
  BY <1>0, <1>4, FreshUsageType DEF NewObject, Quiet, UsageTypeOK
<1>5. ASSUME NEW o \in Obj, NEW q \in Obj, CopyObject(o, q) PROVE UsageTypeOK'
  BY <1>0, <1>5 DEF CopyObject, Quiet, UsageTypeOK
<1>6. ASSUME NEW o \in Obj, DeleteObject(o) PROVE UsageTypeOK'
  BY <1>0, <1>6, FreshUsageType DEF DeleteObject, Quiet, UsageTypeOK
<1>7. ASSUME NEW o \in Obj, UpdateObject(o) PROVE UsageTypeOK'
  BY <1>0, <1>7 DEF UpdateObject, Quiet, UsageTypeOK
<1>8. ASSUME NEW o \in Obj, NEW f \in {"stat", "io"}, PlainGet(o, f) PROVE UsageTypeOK'
  BY <1>2, <1>8 DEF PlainGet, Get, Refresh
<1>9. ASSUME NEW o \in Obj, BeginCpuUsage(o) PROVE UsageTypeOK'
  <2>1. call' \in Call
    BY <1>9 DEF BeginCpuUsage, UsageTypeOK, Call
  <2>2. call'.obj = o /\ pidof'[o] # NoPid
    BY <1>9 DEF BeginCpuUsage, Held, vars, objectVars
  <2> QED BY <1>0, <1>9, <2>1, <2>2 DEF BeginCpuUsage, UsageTypeOK
<1>10. CASE EndCpuUsage
  <2> DEFINE o == call.obj
             p == pidof[o]
             ticks == mem'[o]["stat"].rest
             r == CpuRate(oldstate[p], call.total, ticks)
             b == CpuRebased(oldstate[p], call.total, ticks, mem[o]["io"])
  <2>1. call \in Call /\ p # NoPid BY <1>10 DEF EndCpuUsage, Quiet, UsageTypeOK
  <2>2. o \in Obj /\ call.total \in (0 .. MaxTotal) \cup {Unset} BY <2>1 DEF Call
  <2>3. p \in Pid BY <2>1, <2>2 DEF UsageTypeOK, TypeOK
  <2>4. ticks \in Val \cup {Unset} /\ mem[o]["io"] \in Member("io") BY <1>1, <2>2
  <2>5. oldstate[p] \in Baseline \cup {NoOld} BY <2>3 DEF UsageTypeOK
  <2>6. r \in Reading /\ b \in Baseline
    BY <2>2, <2>4, <2>5, CpuRateType, RebasedType
  <2>7. /\ usage' = [usage EXCEPT ![o]["cpu"] = r]
        /\ oldstate' = [oldstate EXCEPT ![p] = b]
        /\ due' = [due EXCEPT ![o] = @ \ {"cpu"}]
        /\ billed' = Bill(billed, p, "cpu", r)
        /\ call' = NoCall /\ UNCHANGED <<cpuTotal, owed>>
    BY <1>10 DEF EndCpuUsage
  <2>8. billed' \in [Pid -> [Kinds -> Nat \cup {Unset}]]
    BY <2>3, <2>6, <2>7, BillType DEF UsageTypeOK, Kinds
  <2>9. usage' \in [Obj -> [Kinds -> Reading]] /\ oldstate' \in [Pid -> Baseline \cup {NoOld}]
    <3> HIDE DEF r, b, o, p
    <3> QED BY <2>6, <2>7 DEF UsageTypeOK, Kinds
  <2> QED BY <1>0, <2>7, <2>8, <2>9 DEF UsageTypeOK
<1>11. ASSUME NEW o \in Obj, NEW k \in {"ior", "iow"}, IoUsage(o, k) PROVE UsageTypeOK'
  <2> DEFINE p == pidof[o]
             r == IoRate(k, oldstate[p], mem'[o]["io"])
             b == IoRebased(oldstate[p], mem'[o]["io"])
  <2>1. p \in Pid BY <1>11 DEF IoUsage, Held, UsageTypeOK, TypeOK
  <2>2. oldstate[p] \in Baseline \cup {NoOld} BY <2>1 DEF UsageTypeOK
  <2>3. r \in Reading BY <1>1, <2>2, IoRateType
  <2>4. b \in Baseline BY <1>1, <2>2, RebasedType
  <2>5. /\ usage' = [usage EXCEPT ![o][k] = r]
        /\ oldstate' = [oldstate EXCEPT ![p] = b]
        /\ due' = [due EXCEPT ![o] = @ \ {k}]
        /\ billed' = Bill(billed, p, k, r)
        /\ UNCHANGED <<cpuTotal, call, owed>>
    BY <1>11 DEF IoUsage
  <2>6. billed' \in [Pid -> [Kinds -> Nat \cup {Unset}]]
    BY <2>1, <2>3, <2>5, BillType DEF UsageTypeOK, Kinds
  <2>7. usage' \in [Obj -> [Kinds -> Reading]] /\ oldstate' \in [Pid -> Baseline \cup {NoOld}]
    <3> HIDE DEF r, b, p
    <3> QED BY <2>3, <2>4, <2>5 DEF UsageTypeOK, Kinds
  <2>8. call = NoCall BY <1>11 DEF IoUsage, Quiet
  <2> QED BY <1>0, <2>5, <2>6, <2>7, <2>8 DEF UsageTypeOK
<1>12. ASSUME NEW o \in Obj, NEW first \in {"ior", "iow"}, NEW second \in {"ior", "iow"},
              IoTotalUsage(o, first, second)
       PROVE  UsageTypeOK'
  <2> DEFINE p == pidof[o]
             io == mem'[o]["io"]
             old == [f \in {first, second} |->
                       IF f = second /\ first \in due[o] THEN IoRebased(oldstate[p], io)
                       ELSE oldstate[p]]
             todo == {first, second} \cap due[o]
             r == [f \in todo |-> IoRate(f, old[f], io)]
             w == [f \in todo |-> IoRate(f, oldstate[p], io)]
             bs == [f \in todo |-> Bill(billed, p, f, r[f])[p][f]]
             b == IoRebased(oldstate[p], io)
  <2>1. p \in Pid BY <1>12 DEF IoTotalUsage, Held, UsageTypeOK, TypeOK
  <2>2. oldstate[p] \in Baseline \cup {NoOld} BY <2>1 DEF UsageTypeOK
  <2>3. io \in Member("io") BY <1>1
  <2>4. b \in Baseline BY <2>2, <2>3, RebasedType
  <2>5. \A f \in todo : old[f] \in Baseline \cup {NoOld} BY <2>2, <2>4
  <2>6. r \in [todo -> Reading]
    <3> HIDE DEF old, io
    <3> QED BY <2>3, <2>5, IoRateType
  <2>7. w \in [todo -> Reading]
    <3> HIDE DEF io
    <3> QED BY <2>2, <2>3, IoRateType
  <2>8. bs \in [todo -> Nat \cup {Unset}]
    <3>1. ASSUME NEW f \in todo PROVE Bill(billed, p, f, r[f])[p][f] \in Nat \cup {Unset}
      <4>1. r[f] \in Reading /\ f \in Kinds BY <2>6 DEF Kinds
      <4> HIDE DEF r
      <4>2. Bill(billed, p, f, r[f]) \in [Pid -> [Kinds -> Nat \cup {Unset}]]
        BY <2>1, <4>1, BillType DEF UsageTypeOK
      <4> QED BY <2>1, <4>1, <4>2
    <3> QED BY <3>1
  <2>9. /\ usage' = [usage EXCEPT ![o] = Over(r, @)]
        /\ owed' = [owed EXCEPT ![o] = Over(w, @)]
        /\ billed' = [billed EXCEPT ![p] = Over(bs, @)]
        /\ oldstate' = [oldstate EXCEPT ![p] = b]
        /\ due' = [due EXCEPT ![o] = @ \ todo]
        /\ UNCHANGED <<cpuTotal, call>>
    BY <1>12 DEF IoTotalUsage
  <2>10. todo \cup Kinds = Kinds BY DEF Kinds
  <2> HIDE DEF r, w, bs, b, todo, p
  <2>11. /\ Over(r, usage[o]) \in [Kinds -> Reading] /\ Over(w, owed[o]) \in [Kinds -> Reading]
         /\ Over(bs, billed[p]) \in [Kinds -> Nat \cup {Unset}]
    <3>1. /\ usage[o] \in [Kinds -> Reading] /\ owed[o] \in [Kinds -> Reading]
          /\ billed[p] \in [Kinds -> Nat \cup {Unset}]
      BY <2>1 DEF UsageTypeOK
    <3> QED BY <2>6, <2>7, <2>8, <2>10, <3>1, OverType
  <2>12. call = NoCall BY <1>12 DEF IoTotalUsage, Quiet
  <2> QED BY <1>0, <2>4, <2>9, <2>11, <2>12 DEF UsageTypeOK
<1>13. CASE UNCHANGED allVars BY <1>2, <1>13 DEF allVars, vars, objectVars
<1> QED BY <1>3, <1>4, <1>5, <1>6, <1>7, <1>8, <1>9, <1>10, <1>11, <1>12, <1>13
        DEF UsageNext, UsageClient

\* Usages, baselines and counters keep their types for every mix of calls.
THEOREM UsageTypeCorrect == UsageSpec => []UsageTypeOK
<1> QED BY UsageInitType, UsageStepType, PTL DEF UsageSpec

\* The computed getters, and the kernel as they see it, do nothing to the
\* cache that ProcessInfo does not: all its theorems hold here too.
THEOREM UsageRefines == UsageSpec => Spec
<1>1. UsageInit => Init BY DEF UsageInit
<1> QED BY <1>1, UsageStepIsStep, UsageTypeCorrect, PTL DEF UsageSpec, Spec
-----------------------------------------------------------------------------
\* cpuUsage(), for a client that calls no other getter of the stat file and
\* computes no other usage, while every file opens, under a kernel that
\* charges no interrupt to a process.

CpuOnly == Calls \subseteq {"cpu", "io"} /\ OpenMayFail = FALSE /\ InterruptTicks = FALSE

\* The kernel leaves the objects alone.
LEMMA KernelFrame ==
  ASSUME UsageTypeOK, UsageKernel
  PROVE  /\ UNCHANGED <<oldstate, due, usage, call, billed, pidof, dirty>>
         /\ cpuTotal <= cpuTotal'
         /\ \A p \in Pid : spawns[p] <= spawns'[p]
<1> USE DEF UsageTypeOK, TypeOK
<1>1. cpuTotal \in Nat /\ \A p \in Pid : spawns[p] \in Nat
  BY UsageAssumption, ConstantsAssumption
<1>2. ASSUME NEW q \in Pid, NEW f, NEW c, Change(q, f, c)
      PROVE  pidof' = pidof /\ dirty' = dirty /\ \A p \in Pid : spawns[p] <= spawns'[p]
  BY <1>1, <1>2 DEF Change, objectVars
<1>3. ASSUME NEW q \in Pid, Run(q)
      PROVE  /\ UNCHANGED <<oldstate, due, usage, call, billed, pidof, dirty>>
             /\ cpuTotal <= cpuTotal'
             /\ \A p \in Pid : spawns[p] <= spawns'[p]
  BY <1>1, <1>2, <1>3 DEF Run
<1>4. ASSUME NEW q \in Pid, Spawn(q), UNCHANGED usageVars
      PROVE  /\ UNCHANGED <<oldstate, due, usage, call, billed, pidof, dirty>>
             /\ cpuTotal <= cpuTotal'
             /\ \A p \in Pid : spawns[p] <= spawns'[p]
  BY <1>1, <1>4 DEF Spawn, objectVars, usageVars
<1>5. ASSUME UNCHANGED <<usageVars, pidof, dirty, spawns>>
      PROVE  /\ UNCHANGED <<oldstate, due, usage, call, billed, pidof, dirty>>
             /\ cpuTotal <= cpuTotal'
             /\ \A p \in Pid : spawns[p] <= spawns'[p]
  BY <1>1, <1>5 DEF usageVars
<1>6. CASE RunOther BY <1>1, <1>6 DEF RunOther, vars, kernelVars, objectVars
<1>7. ASSUME NEW q \in Pid, NEW f, NEW c, Change(q, f, c), UNCHANGED usageVars
      PROVE  UNCHANGED <<usageVars, pidof, dirty, spawns>>
  BY <1>7 DEF Change, objectVars
<1>8. ASSUME NEW q \in Pid, Exit(q), UNCHANGED usageVars
      PROVE  UNCHANGED <<usageVars, pidof, dirty, spawns>>
  BY <1>8 DEF Exit, objectVars
<1>9. CASE Tick /\ UNCHANGED usageVars BY <1>5, <1>9 DEF Tick, objectVars
<1> QED BY <1>3, <1>4, <1>5, <1>6, <1>7, <1>8, <1>9
        DEF UsageKernel, Retitle, Transfer, Hide

\* A process that is read now was read before, or has just started; its ticks
\* are ticks of the machine, unless interrupts are charged to it.
Advances(p) ==
  /\ spawns'[p] = spawns[p]
  /\ Readable(p, "stat")
  /\ \/ file'[p]["stat"].line = file[p]["stat"].line /\ cpuTotal <= cpuTotal'
     \/ /\ file'[p]["stat"].line = file[p]["stat"].line + 1
        /\ InterruptTicks = TRUE \/ cpuTotal' = cpuTotal + 1

Starts(p) == ~alive[p] /\ spawns'[p] = spawns[p] + 1

LEMMA SameFileAdvances ==
  ASSUME NEW p \in Pid, Readable(p, "stat")', cpuTotal \in Nat, cpuTotal' = cpuTotal,
         file'[p]["stat"] = file[p]["stat"], alive'[p] => alive[p], spawns'[p] = spawns[p]
  PROVE  Advances(p)
BY DEF Advances, Readable

LEMMA ReadKernelStep ==
  ASSUME UsageTypeOK, UsageKernel, NEW p \in Pid, Readable(p, "stat")'
  PROVE  Advances(p) \/ Starts(p)
<1> USE DEF UsageTypeOK, TypeOK
<1>0. cpuTotal \in Nat BY UsageAssumption
<1>1. ASSUME NEW q \in Pid, Spawn(q), UNCHANGED usageVars
      PROVE  Advances(p) \/ Starts(p)
  <2>1. CASE p = q BY <1>1, <2>1 DEF Spawn, Starts
  <2>2. CASE p # q
    <3>1. /\ file'[p] = file[p] /\ alive'[p] = alive[p] /\ spawns'[p] = spawns[p]
          /\ cpuTotal' = cpuTotal
      BY <1>1, <2>2 DEF Spawn, SetFiles, SetFilesThrough, FileOK, usageVars
    <3> QED BY <1>0, <3>1, SameFileAdvances
  <2> QED BY <2>1, <2>2
<1>2. ASSUME NEW q \in Pid, Exit(q), UNCHANGED usageVars PROVE Advances(p)
  <2>1. q # p
    <3>1. q = p => ~alive'[p] BY <1>2 DEF Exit
    <3> QED BY <3>1 DEF Readable
  <2>2. /\ file'[p] = file[p] /\ alive'[p] = alive[p] /\ spawns'[p] = spawns[p]
        /\ cpuTotal' = cpuTotal
    BY <1>2, <2>1 DEF Exit, SetFiles, SetFilesThrough, FileOK, usageVars
  <2> QED BY <1>0, <2>2, SameFileAdvances
<1>3. ASSUME NEW q \in Pid, NEW f \in Files, NEW c, Change(q, f, c)
      PROVE  /\ alive' = alive /\ spawns' = spawns
             /\ file'[p]["stat"] = IF p = q /\ f = "stat" THEN c ELSE file[p]["stat"]
  BY <1>3 DEF Change, SetFiles, SetFilesThrough, FileOK, Files
<1>4. ASSUME NEW q \in Pid, Run(q) PROVE Advances(p)
  <2> DEFINE c == [file[q]["stat"] EXCEPT !.line = file[q]["stat"].line + 1]
  <2>1. file[q]["stat"] \in Content("stat") BY <1>4 DEF Run, FileOK, Files
  <2>2. /\ Change(q, "stat", c) /\ file[q]["stat"] # NoFile
        /\ cpuTotal' = cpuTotal + 1 \/ (InterruptTicks = TRUE /\ cpuTotal' = cpuTotal)
    BY <1>4, UsageAssumption DEF Run
  <2>3. c.line = file[q]["stat"].line + 1 /\ c.comm = file[q]["stat"].comm
    BY <2>1 DEF Content
  <2> HIDE DEF c
  <2>4. /\ alive' = alive /\ spawns' = spawns
        /\ file'[p]["stat"] = IF p = q THEN c ELSE file[p]["stat"]
    BY <1>3, <2>2 DEF Files
  <2>5. CASE p = q BY <2>2, <2>3, <2>4, <2>5 DEF Advances, Readable
  <2>6. CASE p # q
    <3>1. Readable(p, "stat") BY <2>4, <2>6 DEF Readable
    <3> QED BY <1>0, <2>2, <2>4, <2>6, <3>1 DEF Advances
  <2> QED BY <2>5, <2>6
<1>5. ASSUME NEW q \in Pid, Retitle(q) PROVE Advances(p)
  <2> DEFINE c == [file[q]["stat"] EXCEPT !.comm = "blank"]
  <2>1. file[q]["stat"] \in Content("stat") BY <1>5 DEF Retitle, FileOK, Files
  <2>2. Change(q, "stat", c) /\ cpuTotal' = cpuTotal BY <1>5 DEF Retitle, usageVars
  <2>3. c.comm = "blank" BY <2>1 DEF Content
  <2> HIDE DEF c
  <2>4. /\ alive' = alive /\ spawns' = spawns
        /\ file'[p]["stat"] = IF p = q THEN c ELSE file[p]["stat"]
    BY <1>3, <2>2 DEF Files
  <2>5. p # q BY <2>3, <2>4 DEF Readable
  <2> QED BY <1>0, <2>2, <2>4, <2>5, SameFileAdvances
<1>6. ASSUME NEW q \in Pid, NEW c, Change(q, "io", c), UNCHANGED usageVars PROVE Advances(p)
  <2>1. alive' = alive /\ spawns' = spawns /\ file'[p]["stat"] = file[p]["stat"]
    BY <1>3, <1>6 DEF Files
  <2> QED BY <1>0, <1>6, <2>1, SameFileAdvances DEF usageVars
<1>7. CASE Tick /\ UNCHANGED usageVars
  BY <1>0, <1>7, SameFileAdvances DEF Tick, usageVars
<1>8. CASE RunOther
  <2>1. Readable(p, "stat") BY <1>8 DEF RunOther, vars, kernelVars, Readable
  <2> QED BY <1>0, <1>8, <2>1 DEF RunOther, vars, kernelVars, Advances
<1> QED BY <1>1, <1>2, <1>4, <1>5, <1>6, <1>7, <1>8 DEF UsageKernel, Transfer, Hide

\* The same for the first process of a pid.
Counts(p) == Countable(p, "stat") /\ Advances(p)

LEMMA CountingKernelStep ==
  ASSUME UsageTypeOK, UsageKernel, NEW p \in Pid, Countable(p, "stat")'
  PROVE  Counts(p) \/ (spawns[p] = 0 /\ oldstate[p] = oldstate'[p] /\ billed[p] = billed'[p])
<1>1. Advances(p) \/ Starts(p) BY ReadKernelStep DEF Countable
<1>2. spawns'[p] = 1 BY DEF Countable
<1>3. spawns[p] \in Nat BY ConstantsAssumption DEF UsageTypeOK, TypeOK
<1> QED BY <1>1, <1>2, <1>3, KernelFrame DEF Counts, Countable, Advances, Starts

-----------------------------------------------------------------------------
\* The usage that a call ending now computes.

LEMMA MinusValue ==
  ASSUME NEW a \in 0 .. Word - 1, NEW b \in 0 .. Word - 1, b <= a, Unset \notin {a, b}
  PROVE  Minus(a, b) = a - b
<1>1. a - b \in 0 .. Word - 1 /\ Word \in Nat /\ Word > 0 BY UsageAssumption
<1>2. (a - b) % Word = a - b BY <1>1
<1> QED BY <1>2 DEF Minus

LEMMA LineType ==
  ASSUME UsageTypeOK, NEW p \in Pid, Readable(p, "stat")
  PROVE  file[p]["stat"].line \in Val /\ file[p]["stat"].line # Unset
<1>1. file[p]["stat"] \in Content("stat")
  BY DEF Readable, UsageTypeOK, TypeOK, FileOK, Files
<1> QED BY <1>1, ConstantsAssumption DEF Content, Special

\* Of a process whose entry is aligned a call reports no more ticks than the
\* machine has had and, of the first process of a pid, none a second time.
LEMMA CpuRateValue ==
  ASSUME UsageTypeOK, NEW p \in Pid, Readable(p, "stat"), Aligned(p),
         NEW total \in 0 .. cpuTotal, oldstate[p] # NoOld => oldstate[p].cpu <= total,
         NEW r, r = CpuRate(oldstate[p], total, file[p]["stat"].line)
  PROVE  /\ r.num \in Nat /\ r.den \in Nat
         /\ r.num # Unset /\ r.den # Unset
         /\ r.num <= r.den + (cpuTotal - total)
         /\ BilledBelowBaseline /\ Countable(p, "stat") =>
              billed[p]["cpu"] + r.num <= file[p]["stat"].line
<1> DEFINE line == file[p]["stat"].line
           old == oldstate[p]
           bill == billed[p]["cpu"]
<1>1. /\ line \in 0 .. Word - 1 /\ line # Unset
      /\ cpuTotal \in 0 .. Word - 1 /\ total \in 0 .. Word - 1 /\ Word \in Nat
  <2>1. line \in Val /\ line # Unset BY LineType
  <2>2. cpuTotal \in 0 .. MaxTotal BY DEF UsageTypeOK
  <2> HIDE DEF line
  <2>3. line \in 0 .. Word - 1 BY <2>1, UsageAssumption DEF line
  <2>4. Word \in Nat /\ MaxTotal \in 0 .. Word - 1 BY UsageAssumption
  <2>5. cpuTotal \in 0 .. Word - 1 /\ total \in 0 .. Word - 1 BY <2>2, <2>4
  <2> QED BY <2>1, <2>3, <2>4, <2>5 DEF line
<1>2. BilledBelowBaseline => bill \in Nat
  BY DEF UsageTypeOK, Kinds, BilledBelowBaseline
<1>0. Unset \notin Nat BY UsageAssumption
<1>3. CASE old = NoOld
  <2>1. r = Zero BY <1>3 DEF CpuRate
  <2>2. BilledBelowBaseline /\ Countable(p, "stat") => bill = 0
    BY <1>3 DEF BilledBelowBaseline
  <2> QED BY <1>0, <1>1, <2>1, <2>2 DEF Zero
<1>4. CASE old # NoOld
  <2>1. old \in Baseline BY <1>4 DEF UsageTypeOK
  <2>2. /\ Unset \notin {old.cpu, old.proc}
        /\ old.proc <= line /\ old.cpu <= total
        /\ line - old.proc <= cpuTotal - old.cpu
    BY <1>4 DEF Aligned
  <2>3. old.cpu \in 0 .. Word - 1 /\ old.proc \in 0 .. Word - 1
    <3>1. old.cpu \in 0 .. MaxTotal /\ old.proc \in Val BY <2>1, <2>2 DEF Baseline
    <3> HIDE DEF old
    <3>2. old.proc \in 0 .. Word - 1 BY <3>1, UsageAssumption
    <3>3. Word \in Nat /\ MaxTotal \in 0 .. Word - 1 BY UsageAssumption
    <3>4. old.cpu \in 0 .. Word - 1 BY <3>1, <3>3
    <3> QED BY <3>2, <3>4
  <2>4. BilledBelowBaseline /\ Countable(p, "stat") => bill <= old.proc
    BY <1>4 DEF BilledBelowBaseline
  <2> HIDE DEF line, old, bill
  <2>5. Minus(line, old.proc) = line - old.proc
    BY <1>1, <2>2, <2>3, MinusValue
  <2>6. total # Unset BY UsageAssumption DEF UsageTypeOK
  <2>7. Minus(total, old.cpu) = total - old.cpu
    BY <1>1, <2>2, <2>3, <2>6, MinusValue
  <2>8. r = Quotient(line - old.proc, total - old.cpu)
    BY <1>4, <2>5, <2>7 DEF CpuRate, line, old
  <2>9. CASE total = old.cpu
    <3>1. r = Zero BY <2>3, <2>8, <2>9, <1>1 DEF Quotient
    <3> QED BY <1>0, <1>1, <1>2, <2>2, <2>3, <2>4, <3>1 DEF Zero, line, bill
  <2>10. CASE total # old.cpu
    <3>1. r.num = line - old.proc /\ r.den = total - old.cpu
      BY <1>1, <2>3, <2>8, <2>10 DEF Quotient
    <3> QED BY <1>0, <1>1, <1>2, <2>2, <2>3, <2>4, <3>1 DEF line, bill
  <2> QED BY <2>9, <2>10
<1> QED BY <1>3, <1>4

-----------------------------------------------------------------------------
\* CpuInv is inductive.

LEMMA CpuInitInv == UsageInit => CpuInv
<1> SUFFICES ASSUME UsageInit PROVE CpuInv OBVIOUS
<1> USE DEF UsageInit, Init
<1>1. DueIsDirty BY DEF DueIsDirty
<1>2. CallIsLater BY DEF CallIsLater
<1>0. 0 # Unset
  <2>1. 0 \in Int OBVIOUS
  <2> QED BY <2>1, UsageAssumption
<1>3. BilledBelowBaseline BY <1>0 DEF BilledBelowBaseline, Kinds
<1>4. BaselineAligned BY DEF BaselineAligned, Aligned
<1>5. EntriesNotAhead BY DEF EntriesNotAhead
<1> QED BY <1>1, <1>2, <1>3, <1>4, <1>5 DEF CpuInv

\* A tick of the process is one of the machine: an aligned entry stays so.
LEMMA KernelKeepsAligned ==
  ASSUME CpuOnly, UsageTypeOK, UsageKernel, NEW p \in Pid, Aligned(p), Advances(p)
  PROVE  Aligned(p)'
<1> SUFFICES ASSUME oldstate[p] # NoOld
             PROVE  /\ Unset \notin {oldstate[p].cpu, oldstate[p].proc}
                    /\ oldstate[p].cpu <= cpuTotal'
                    /\ oldstate[p].proc <= file'[p]["stat"].line
                    /\ file'[p]["stat"].line - oldstate[p].proc
                         <= cpuTotal' - oldstate[p].cpu
  BY KernelFrame DEF Aligned
<1>1. /\ Unset \notin {oldstate[p].cpu, oldstate[p].proc}
      /\ oldstate[p].cpu <= cpuTotal /\ oldstate[p].proc <= file[p]["stat"].line
      /\ file[p]["stat"].line - oldstate[p].proc <= cpuTotal - oldstate[p].cpu
  BY DEF Aligned
<1>2. oldstate[p].cpu \in Int /\ oldstate[p].proc \in Int /\ file[p]["stat"].line \in Int
  <2>1. oldstate[p] \in Baseline BY DEF UsageTypeOK
  <2>2. oldstate[p].cpu \in 0 .. MaxTotal /\ oldstate[p].proc \in Val
    BY <1>1, <2>1 DEF Baseline
  <2>3. file[p]["stat"].line \in Val BY LineType DEF Advances
  <2> QED BY <2>2, <2>3, ValInt
<1>3. cpuTotal \in Int /\ cpuTotal' \in Int
  BY UsageAssumption, UsageStepType DEF UsageTypeOK, UsageNext
<1> QED BY <1>1, <1>2, <1>3 DEF Advances, CpuOnly

LEMMA KernelKeepsCpuInv ==
  ASSUME CpuOnly, UsageTypeOK, CpuInv, UsageKernel PROVE CpuInv'
<1>1. /\ UNCHANGED <<oldstate, due, usage, call, billed, pidof, dirty>>
      /\ cpuTotal <= cpuTotal'
      /\ \A p \in Pid : spawns[p] <= spawns'[p]
  BY KernelFrame
<1>2. /\ cpuTotal \in Int /\ cpuTotal' \in Int
      /\ \A p \in Pid : spawns[p] \in Nat /\ spawns'[p] \in Nat
      /\ pidof \in [Obj -> Pid \cup {NoPid}]
  <2>1. UsageTypeOK' BY UsageStepType DEF UsageNext
  <2>2. \A p \in Pid : spawns[p] \in 0 .. MaxSpawns /\ spawns'[p] \in 0 .. MaxSpawns
    BY <2>1 DEF UsageTypeOK, TypeOK
  <2>3. MaxSpawns \in Nat BY ConstantsAssumption
  <2>4. cpuTotal \in 0 .. MaxTotal /\ cpuTotal' \in 0 .. MaxTotal BY <2>1 DEF UsageTypeOK
  <2> QED BY <2>2, <2>3, <2>4 DEF UsageTypeOK, TypeOK
<1>3. ASSUME NEW p \in Pid, Countable(p, "stat")'
      PROVE  Counts(p) \/ (oldstate[p] = NoOld /\ billed[p]["cpu"] = 0)
  BY <1>3, CountingKernelStep DEF CpuInv, BilledBelowBaseline
<1>4. DueIsDirty'
  <2> SUFFICES ASSUME NEW o \in Obj, pidof[o] # NoPid
               PROVE  spawns'[pidof[o]] > 0 /\ ("cpu" \in due[o] => "stat" \in dirty[o])
    BY <1>1 DEF DueIsDirty
  <2>1. pidof[o] \in Pid BY <1>2
  <2>2. spawns[pidof[o]] > 0 /\ ("cpu" \in due[o] => "stat" \in dirty[o])
    BY DEF CpuInv, DueIsDirty
  <2> QED BY <1>1, <1>2, <2>1, <2>2
<1>5. CallIsLater'
  <2> SUFFICES ASSUME call # NoCall, NEW p \in Pid, p = pidof[call.obj]
               PROVE  /\ "cpu" \in due[call.obj]
                      /\ call.total \in 0 .. cpuTotal'
                      /\ oldstate[p] # NoOld => oldstate[p].cpu <= call.total
    BY <1>1, <1>2 DEF CallIsLater, UsageTypeOK, Call
  <2>1. /\ "cpu" \in due[call.obj] /\ call.total \in 0 .. cpuTotal
        /\ oldstate[p] # NoOld => oldstate[p].cpu <= call.total
    BY DEF CpuInv, CallIsLater
  <2> QED BY <1>1, <1>2, <2>1
<1>6. EntriesNotAhead'
  BY <1>1, <1>2 DEF CpuInv, EntriesNotAhead
<1>7. BilledBelowBaseline'
  <2> SUFFICES ASSUME NEW p \in Pid
               PROVE  /\ billed[p]["cpu"] # Unset
                      /\ spawns'[p] = 0 => oldstate[p] = NoOld /\ billed[p]["cpu"] = 0
                      /\ Countable(p, "stat")' =>
                           IF oldstate[p] = NoOld THEN billed[p]["cpu"] = 0
                           ELSE billed[p]["cpu"] <= oldstate[p].proc
    BY <1>1 DEF BilledBelowBaseline
  <2>1. spawns'[p] = 0 => spawns[p] = 0 BY <1>1, <1>2
  <2> QED BY <1>3, <2>1 DEF CpuInv, BilledBelowBaseline, Counts
<1>8. BaselineAligned'
  <2> SUFFICES ASSUME NEW p \in Pid, Countable(p, "stat")' PROVE Aligned(p)'
    BY DEF BaselineAligned
  <2>1. CASE Counts(p)
    BY <2>1, KernelKeepsAligned DEF Counts, CpuInv, BaselineAligned
  <2>2. CASE oldstate[p] = NoOld BY <1>1, <2>2 DEF Aligned
  <2> QED BY <1>3, <2>1, <2>2
<1> QED BY <1>4, <1>5, <1>6, <1>7, <1>8 DEF CpuInv

\* What a call that ends does: its object's stat file is read again, and the
\* entry of its pid is made of that and of the total it holds.
LEMMA EndOfCall ==
  ASSUME CpuOnly, UsageTypeOK, CpuInv, EndCpuUsage,
         NEW o, o = call.obj, NEW p, p = pidof[o]
  PROVE  /\ o \in Obj /\ p \in Pid /\ spawns[p] > 0 /\ call.total \in 0 .. cpuTotal
         /\ oldstate[p] # NoOld => oldstate[p].cpu <= call.total
         /\ UNCHANGED <<kernelVars, pidof, cpuTotal>>
         /\ dirty' = [dirty EXCEPT ![o] = dirty[o] \ {"stat"}]
         /\ Readable(p, "stat") => mem'[o]["stat"].rest = file[p]["stat"].line
         /\ \A q \in Pid \ {p} : oldstate'[q] = oldstate[q]
         /\ oldstate'[p] # NoOld /\ oldstate'[p].cpu = call.total
         /\ oldstate'[p].proc = mem'[o]["stat"].rest
<1>1. call \in Call /\ call # NoCall /\ p # NoPid
  BY DEF EndCpuUsage, Quiet, UsageTypeOK
<1>2. o \in Obj /\ p \in Pid BY <1>1 DEF Call, UsageTypeOK, TypeOK
<1>3. /\ "cpu" \in due[o] /\ call.total \in 0 .. cpuTotal
      /\ oldstate[p] # NoOld => oldstate[p].cpu <= call.total
  BY <1>1 DEF CpuInv, CallIsLater
<1>4. spawns[p] > 0 /\ "stat" \in dirty[o] BY <1>1, <1>2, <1>3 DEF CpuInv, DueIsDirty
<1>5. Get(o, "stat") BY <1>4 DEF EndCpuUsage, Through
<1>6. PICK c \in Opened(p, "stat") : Refresh(o, "stat", c) BY <1>5 DEF Get
<1>7. c = file[p]["stat"] BY <1>6 DEF CpuOnly, Opened
<1>8. /\ mem' = [mem EXCEPT ![o]["stat"] = readStat(mem[o]["stat"], c)]
      /\ dirty' = [dirty EXCEPT ![o] = dirty[o] \ {"stat"}]
      /\ UNCHANGED <<kernelVars, pidof>>
  BY <1>6 DEF Refresh, read
<1>9. mem'[o]["stat"] = readStat(mem[o]["stat"], c)
  BY <1>2, <1>8 DEF UsageTypeOK, TypeOK, MemOK, Files
<1>10. Readable(p, "stat") => mem'[o]["stat"].rest = c.line
  BY <1>7, <1>9 DEF Readable, readStat
<1> DEFINE ticks == mem'[o]["stat"].rest
           b == CpuRebased(oldstate[p], call.total, ticks, mem[o]["io"])
<1>11. oldstate' = [oldstate EXCEPT ![p] = b] /\ cpuTotal' = cpuTotal
  BY DEF EndCpuUsage
<1>12. oldstate[p] \in Baseline \cup {NoOld} /\ mem[o]["io"] \in Member("io")
  BY <1>2, MemTypes DEF UsageTypeOK
<1>13. ticks \in Val \cup {Unset}
  <2>1. TypeOK' BY UsageStepType DEF UsageTypeOK, UsageNext, UsageClient
  <2> QED BY <1>2, <2>1, NextMemTypes
<1>14. b \in Baseline /\ b.cpu = call.total /\ b.proc = ticks
  <2>1. call.total \in (0 .. MaxTotal) \cup {Unset} BY <1>1 DEF Call
  <2> HIDE DEF ticks
  <2> QED BY <1>12, <1>13, <2>1, RebasedType DEF CpuRebased, Baseline
<1>15. b # NoOld BY <1>14, UsageAssumption
<1> HIDE DEF b
<1>16. oldstate'[p] = b /\ \A q \in Pid \ {p} : oldstate'[q] = oldstate[q]
  BY <1>2, <1>11 DEF UsageTypeOK
<1> QED BY <1>2, <1>3, <1>4, <1>7, <1>8, <1>10, <1>11, <1>14, <1>15, <1>16

\* Whatever the entry was, the one a call leaves for a process it could read
\* is aligned.
LEMMA EndAligns ==
  ASSUME CpuOnly, UsageTypeOK, CpuInv, EndCpuUsage,
         NEW p \in Pid, p = pidof[call.obj], Readable(p, "stat")
  PROVE  Aligned(p)'
<1>1. /\ oldstate'[p].cpu = call.total /\ oldstate'[p].proc = file[p]["stat"].line
      /\ call.total \in 0 .. cpuTotal /\ cpuTotal' = cpuTotal /\ file' = file
  BY EndOfCall DEF kernelVars
<1>2. file[p]["stat"].line \in Int /\ file[p]["stat"].line # Unset BY LineType, ValInt
<1>3. cpuTotal \in Int /\ call.total # Unset BY <1>1, UsageAssumption DEF UsageTypeOK
<1> QED BY <1>1, <1>2, <1>3 DEF Aligned

LEMMA EndKeepsCpuInv ==
  ASSUME CpuOnly, UsageTypeOK, CpuInv, EndCpuUsage PROVE CpuInv'
<1> DEFINE r == CpuRate(oldstate[pidof[call.obj]], call.total, mem'[call.obj]["stat"].rest)
<1>1. PICK o \in Obj, p \in Pid : o = call.obj /\ p = pidof[o] BY EndOfCall
<1>2. /\ spawns[p] > 0 /\ call.total \in 0 .. cpuTotal
      /\ oldstate[p] # NoOld => oldstate[p].cpu <= call.total
      /\ UNCHANGED <<kernelVars, pidof>> /\ cpuTotal' = cpuTotal
      /\ dirty' = [dirty EXCEPT ![o] = dirty[o] \ {"stat"}]
      /\ Readable(p, "stat") => mem'[o]["stat"].rest = file[p]["stat"].line
      /\ \A q \in Pid \ {p} : oldstate'[q] = oldstate[q]
      /\ oldstate'[p] # NoOld /\ oldstate'[p].cpu = call.total
      /\ oldstate'[p].proc = mem'[o]["stat"].rest
  BY <1>1, EndOfCall
<1>3. /\ due' = [due EXCEPT ![o] = due[o] \ {"cpu"}]
      /\ billed' = Bill(billed, p, "cpu", r)
      /\ call' = NoCall
  BY <1>1 DEF EndCpuUsage
<1>4. /\ file' = file /\ alive' = alive /\ spawns' = spawns
      /\ \A q \in Pid : Countable(q, "stat")' <=> Countable(q, "stat")
  BY <1>2 DEF kernelVars, Countable, Readable
<1>5. /\ \A q \in Pid \ {p} : billed'[q] = billed[q]
      /\ ~Countable(p, "stat") => billed' = billed
  BY <1>3 DEF UsageTypeOK, Bill, FileOf
<1>6. ASSUME Countable(p, "stat")
      PROVE  billed'[p]["cpu"] # Unset /\ billed'[p]["cpu"] <= file[p]["stat"].line
  <2>0. Readable(p, "stat") BY <1>6 DEF Countable
  <2>1. /\ r.num \in Nat /\ r.num # Unset /\ r.den # Unset
        /\ billed[p]["cpu"] # Unset
        /\ billed[p]["cpu"] + r.num <= file[p]["stat"].line
    <3>1. r = CpuRate(oldstate[p], call.total, file[p]["stat"].line)
      BY <1>1, <1>2, <2>0
    <3>2. Aligned(p) /\ BilledBelowBaseline BY <1>6 DEF CpuInv, BaselineAligned
    <3> HIDE DEF r
    <3>3. billed[p]["cpu"] # Unset BY <3>2 DEF BilledBelowBaseline
    <3> QED BY <1>2, <1>6, <2>0, <3>1, <3>2, <3>3, CpuRateValue
  <2> HIDE DEF r
  <2>2. billed'[p]["cpu"] = billed[p]["cpu"] + r.num
    BY <1>3, <1>6, <2>1 DEF Bill, FileOf, UsageTypeOK, Kinds
  <2>3. billed[p]["cpu"] \in Nat
    BY <2>1 DEF UsageTypeOK, Kinds
  <2> QED BY <2>1, <2>2, <2>3, UsageAssumption
<1> HIDE DEF r
<1>7. DueIsDirty'
  BY <1>1, <1>2, <1>3, <1>4 DEF CpuInv, DueIsDirty, UsageTypeOK, TypeOK
<1>8. CallIsLater' BY <1>3 DEF CallIsLater
<1>9. EntriesNotAhead'
  BY <1>1, <1>2 DEF CpuInv, EntriesNotAhead
<1>10. BilledBelowBaseline'
  <2> SUFFICES ASSUME NEW q \in Pid
               PROVE  /\ billed'[q]["cpu"] # Unset
                      /\ spawns[q] = 0 => oldstate'[q] = NoOld /\ billed'[q]["cpu"] = 0
                      /\ Countable(q, "stat") =>
                           IF oldstate'[q] = NoOld THEN billed'[q]["cpu"] = 0
                           ELSE billed'[q]["cpu"] <= oldstate'[q].proc
    BY <1>4 DEF BilledBelowBaseline
  <2>1. CASE q # p BY <1>2, <1>5, <2>1 DEF CpuInv, BilledBelowBaseline
  <2>2. CASE q = p /\ Countable(p, "stat")
    BY <1>2, <1>6, <2>2 DEF Countable
  <2>3. CASE q = p /\ ~Countable(p, "stat")
    BY <1>2, <1>5, <2>3 DEF CpuInv, BilledBelowBaseline
  <2> QED BY <2>1, <2>2, <2>3
<1>11. BaselineAligned'
  <2> SUFFICES ASSUME NEW q \in Pid, Countable(q, "stat") PROVE Aligned(q)'
    BY <1>4 DEF BaselineAligned
  <2>1. CASE q # p BY <1>2, <1>4, <2>1 DEF CpuInv, BaselineAligned, Aligned
  <2>2. CASE q = p BY <1>1, <2>2, EndAligns DEF Countable
  <2> QED BY <2>1, <2>2
<1> QED BY <1>7, <1>8, <1>9, <1>10, <1>11 DEF CpuInv

\* What the client of CpuOnly does.
LEMMA CpuOnlyClient ==
  ASSUME CpuOnly, UsageClient
  PROVE  \/ \E o \in Obj, p \in Pid : NewObject(o, p)
         \/ \E o, q \in Obj : CopyObject(o, q)
         \/ \E o \in Obj : DeleteObject(o) \/ UpdateObject(o) \/ BeginCpuUsage(o)
         \/ EndCpuUsage
         \/ \E o \in Obj : PlainGet(o, "io")
<1>1. ASSUME NEW o \in Obj PROVE ~PlainGet(o, "stat")
  BY DEF CpuOnly, PlainGet
<1>2. ASSUME NEW o \in Obj, NEW k \in {"ior", "iow"} PROVE ~IoUsage(o, k)
  BY DEF CpuOnly, IoUsage
<1>3. ASSUME NEW o \in Obj, NEW first, NEW second PROVE ~IoTotalUsage(o, first, second)
  BY DEF CpuOnly, IoTotalUsage
<1> QED BY <1>1, <1>2, <1>3 DEF UsageClient

LEMMA CpuInvStep ==
  ASSUME CpuOnly, UsageTypeOK, CpuInv, [UsageNext]_allVars PROVE CpuInv'
<1> USE DEF UsageTypeOK, TypeOK
\* Steps that touch an object and no baseline.
<1>1. ASSUME UNCHANGED <<kernelVars, cpuTotal, oldstate, billed>>, DueIsDirty', CallIsLater'
      PROVE  CpuInv'
  <2>1. \A q \in Pid : Countable(q, "stat")' <=> Countable(q, "stat")
    BY <1>1 DEF kernelVars, Countable, Readable
  <2>2. BilledBelowBaseline'
    BY <1>1, <2>1 DEF CpuInv, BilledBelowBaseline, kernelVars
  <2>3. BaselineAligned'
    BY <1>1, <2>1 DEF CpuInv, BaselineAligned, Aligned, kernelVars
  <2>4. EntriesNotAhead' BY <1>1 DEF CpuInv, EntriesNotAhead
  <2> QED BY <1>1, <2>2, <2>3, <2>4 DEF CpuInv
<1>2. call = NoCall /\ call' = NoCall => CallIsLater' BY DEF CallIsLater
<1>3. ASSUME NEW o \in Obj, NEW p \in Pid, NewObject(o, p) PROVE CpuInv'
  <2>1. DueIsDirty'
    BY <1>3, ConstantsAssumption
    DEF NewObject, Construct, CpuInv, DueIsDirty, kernelVars, Files
  <2> QED BY <1>1, <1>2, <1>3, <2>1 DEF NewObject, Quiet, Construct, kernelVars
<1>4. ASSUME NEW o \in Obj, NEW q \in Obj, CopyObject(o, q) PROVE CpuInv'
  <2>1. DueIsDirty'
    BY <1>4 DEF CopyObject, Copy, CpuInv, DueIsDirty, kernelVars
  <2> QED BY <1>1, <1>2, <1>4, <2>1 DEF CopyObject, Quiet, Copy, kernelVars
<1>5. ASSUME NEW o \in Obj, DeleteObject(o) PROVE CpuInv'
  <2>1. DueIsDirty'
    BY <1>5 DEF DeleteObject, Destroy, CpuInv, DueIsDirty, kernelVars
  <2> QED BY <1>1, <1>2, <1>5, <2>1 DEF DeleteObject, Quiet, Destroy, kernelVars
<1>6. ASSUME NEW o \in Obj, UpdateObject(o) PROVE CpuInv'
  <2>1. DueIsDirty'
    BY <1>6 DEF UpdateObject, needUpdate, CpuInv, DueIsDirty, kernelVars, Files
  <2> QED BY <1>1, <1>2, <1>6, <2>1 DEF UpdateObject, Quiet, needUpdate, kernelVars
<1>7. ASSUME NEW o \in Obj, BeginCpuUsage(o) PROVE CpuInv'
  <2>1. /\ call' = [obj |-> o, total |-> cpuTotal] /\ "cpu" \in due[o]
        /\ UNCHANGED <<vars, cpuTotal, oldstate, due, usage, billed, owed>>
    BY <1>7 DEF BeginCpuUsage, CpuOnly
  <2>2. UNCHANGED <<file, alive, spawns, pidof, dirty>>
    BY <2>1 DEF vars, kernelVars, objectVars
  <2>3. DueIsDirty' BY <2>1, <2>2 DEF CpuInv, DueIsDirty
  <2>4. pidof[o] \in Pid BY <1>7 DEF BeginCpuUsage, Held
  <2>5. cpuTotal \in 0 .. cpuTotal BY UsageAssumption
  <2>6. CallIsLater'
    BY <1>2, <2>1, <2>2, <2>4, <2>5 DEF CallIsLater, CpuInv, EntriesNotAhead
  <2> QED BY <1>1, <2>1, <2>3, <2>6 DEF vars
<1>8. CASE EndCpuUsage BY <1>8, EndKeepsCpuInv
<1>9. CASE UsageKernel BY <1>9, KernelKeepsCpuInv
<1>10. CASE UNCHANGED allVars
  <2>1. /\ UNCHANGED <<kernelVars, file, alive, spawns, pidof, dirty>>
        /\ UNCHANGED <<cpuTotal, oldstate, due, call, billed>>
    BY <1>10 DEF allVars, vars, usageVars, kernelVars, objectVars
  <2>2. DueIsDirty' BY <2>1 DEF CpuInv, DueIsDirty
  <2>3. CallIsLater' BY <2>1 DEF CpuInv, CallIsLater, Countable, Readable
  <2> QED BY <1>1, <2>1, <2>2, <2>3
<1>11. ASSUME NEW o \in Obj, PlainGet(o, "io") PROVE CpuInv'
  <2>1. /\ UNCHANGED <<kernelVars, cpuTotal, oldstate, billed, due, call, pidof>>
        /\ call = NoCall /\ dirty' = [dirty EXCEPT ![o] = dirty[o] \ {"io"}]
    BY <1>11 DEF PlainGet, Quiet, Get, Refresh, usageVars
  <2>2. DueIsDirty' BY <2>1 DEF CpuInv, DueIsDirty, kernelVars
  <2> QED BY <1>1, <1>2, <2>1, <2>2
<1> QED BY <1>3, <1>4, <1>5, <1>6, <1>7, <1>8, <1>9, <1>10, <1>11, CpuOnlyClient DEF UsageNext

\* The inductive invariant of a client that calls cpuUsage() and no other
\* reading getter of the stat file: what is due will be read, a call under way
\* is not older than the entry, what is billed is in the entry.
THEOREM CpuInvariant == ASSUME CpuOnly PROVE UsageSpec => []CpuInv
<1>1. UsageTypeOK /\ CpuInv /\ [UsageNext]_allVars => CpuInv' BY CpuInvStep
<1> QED BY <1>1, CpuInitInv, UsageTypeCorrect, PTL DEF UsageSpec

\* A client that calls cpuUsage() and no other reading getter, on any number
\* of objects, keeps the two old values of cpuUsage() together: neither is
\* ahead of the kernel, and the process has not run more since than the
\* machine.
THEOREM CpuBaselines == ASSUME CpuOnly PROVE UsageSpec => []BaselineAligned
<1>1. CpuInv => BaselineAligned BY DEF CpuInv
<1> QED BY <1>1, CpuInvariant, PTL

\* Nor do the usages it is told add up to more ticks than the process ran:
\* none of them is made from a value nothing wrote, so that they do add up.
THEOREM CpuBilledOnce == ASSUME CpuOnly PROVE UsageSpec => []NoTickCountedTwice
<1>1. ASSUME UsageTypeOK, CpuInv PROVE NoTickCountedTwice
  <2> SUFFICES ASSUME NEW p \in Pid, Countable(p, "stat")
               PROVE  billed[p]["cpu"] <= file[p]["stat"].line
    BY DEF NoTickCountedTwice, AtMost
  <2>1. file[p]["stat"].line \in 0 .. Word - 1
    BY <1>1, LineType, UsageAssumption DEF Countable
  <2>2. billed[p]["cpu"] \in Nat
    BY <1>1 DEF UsageTypeOK, Kinds, CpuInv, BilledBelowBaseline
  <2>3. CASE oldstate[p] = NoOld
    BY <1>1, <2>1, <2>3, UsageAssumption DEF CpuInv, BilledBelowBaseline
  <2>4. CASE oldstate[p] # NoOld
    <3>1. oldstate[p] \in Baseline BY <1>1, <2>4 DEF UsageTypeOK
    <3>2. oldstate[p].proc \in Val /\ billed[p]["cpu"] <= oldstate[p].proc
      BY <1>1, <2>4, <3>1 DEF CpuInv, BilledBelowBaseline, Baseline,
        BaselineAligned, Aligned
    <3>3. oldstate[p].proc \in Int BY <3>2, ValInt
    <3>4. oldstate[p].proc <= file[p]["stat"].line
      BY <1>1, <2>4 DEF CpuInv, BaselineAligned, Aligned
    <3> QED BY <2>1, <2>2, <3>2, <3>3, <3>4, UsageAssumption
  <2> QED BY <2>3, <2>4
<1> QED BY <1>1, CpuInvariant, UsageTypeCorrect, PTL

\* Only the end of a cpuUsage() ends one.
LEMMA OnlyEndEnds ==
  ASSUME UsageTypeOK, UsageNext, NEW o, Ends(o) PROVE EndCpuUsage
<1>1. UsageKernel => call' = call BY KernelFrame
<1>2. UsageClient => EndCpuUsage \/ Quiet
  <2>1. /\ \A q, k : NewObject(q, k) => Quiet
        /\ \A q, k : CopyObject(q, k) => Quiet
        /\ \A q : DeleteObject(q) => Quiet
        /\ \A q : UpdateObject(q) => Quiet
        /\ \A q, f : PlainGet(q, f) => Quiet
        /\ \A q : BeginCpuUsage(q) => Quiet
    BY DEF NewObject, CopyObject, DeleteObject, UpdateObject, PlainGet, BeginCpuUsage
  <2>2. \A q, k : IoUsage(q, k) => Quiet
    BY DEF IoUsage
  <2>3. ASSUME NEW q, NEW k, NEW j, IoTotalUsage(q, k, j) PROVE Quiet
    BY <2>3, Zenon DEF IoTotalUsage
  <2> QED BY <2>1, <2>2, <2>3, Zenon DEF UsageClient
<1> QED BY <1>1, <1>2 DEF UsageNext, Quiet, Ends

\* And each of them stays within what the machine did between the two
\* readings of /proc/stat, but for what it did after the second: also those
\* of a later process of the pid, once the entry is aligned.
THEOREM CpuWithinMachine == ASSUME CpuOnly PROVE UsageSpec => UsageWithinMachine
<1> DEFINE InMachine ==
      \A o \in Obj :
        /\ Ends(o) /\ Readable(pidof[o], "stat")
        /\ spawns[pidof[o]] = 1 \/ Aligned(pidof[o])
        => usage'[o]["cpu"].num <= usage'[o]["cpu"].den + (cpuTotal - call.total)
<1>1. ASSUME UsageTypeOK, CpuInv, UsageNext PROVE InMachine
  <2> SUFFICES ASSUME NEW o \in Obj, Ends(o), Readable(pidof[o], "stat"),
                      spawns[pidof[o]] = 1 \/ Aligned(pidof[o])
               PROVE  usage'[o]["cpu"].num
                        <= usage'[o]["cpu"].den + (cpuTotal - call.total)
    OBVIOUS
  <2>1. EndCpuUsage /\ o = call.obj BY <1>1, OnlyEndEnds DEF Ends
  <2>2. PICK p \in Pid : p = pidof[o] BY <1>1, <2>1, EndOfCall
  <2>3. /\ call.total \in 0 .. cpuTotal /\ mem'[o]["stat"].rest = file[p]["stat"].line
        /\ oldstate[p] # NoOld => oldstate[p].cpu <= call.total
    BY <1>1, <2>1, <2>2, EndOfCall
  <2>4. usage'[o]["cpu"] = CpuRate(oldstate[p], call.total, file[p]["stat"].line)
    BY <1>1, <2>1, <2>2, <2>3 DEF EndCpuUsage, UsageTypeOK, Kinds
  <2>5. Aligned(p) BY <1>1, <2>2 DEF CpuInv, BaselineAligned, Countable
  <2> QED BY <1>1, <2>2, <2>3, <2>4, <2>5, CpuRateValue
<1>2. UsageTypeOK /\ CpuInv /\ [UsageNext]_allVars => [InMachine]_allVars BY <1>1
<1>3. UsageSpec => [][InMachine]_allVars
  BY <1>2, CpuInvariant, UsageTypeCorrect, PTL DEF UsageSpec
<1> QED BY <1>3 DEF UsageWithinMachine

\* A stale entry is subtracted once: whatever a dead process, an unreadable
\* file or a command name left there, the next call that reads the process
\* leaves an aligned entry, and nothing but the end of the process, or a
\* command name, undoes that.
THEOREM CpuAlignedAgain == ASSUME CpuOnly PROVE UsageSpec => AlignedAgain
<1> DEFINE Again ==
      /\ \A o \in Obj : Ends(o) /\ Readable(pidof[o], "stat") => Aligned(pidof[o])'
      /\ \A p \in Pid : Readable(p, "stat") /\ Aligned(p) /\ Readable(p, "stat")' => Aligned(p)'
<1>1. ASSUME UsageTypeOK, CpuInv, UsageNext PROVE Again
  <2>1. ASSUME NEW o \in Obj, Ends(o), Readable(pidof[o], "stat") PROVE Aligned(pidof[o])'
    <3>1. EndCpuUsage /\ o = call.obj BY <1>1, <2>1, OnlyEndEnds DEF Ends
    <3>2. PICK p \in Pid : p = pidof[o] BY <1>1, <3>1, EndOfCall
    <3>3. Aligned(p)' BY <1>1, <2>1, <3>1, <3>2, EndAligns
    <3>4. pidof'[o] = p BY <1>1, <3>1, <3>2, EndOfCall
    <3> QED BY <3>3, <3>4 DEF Aligned
  <2>2. ASSUME NEW p \in Pid, Readable(p, "stat"), Aligned(p), Readable(p, "stat")'
        PROVE  Aligned(p)'
    <3>1. CASE UsageKernel
      <4>1. ~Starts(p) BY <2>2 DEF Readable, Starts
      <4> QED BY <1>1, <2>2, <3>1, <4>1, ReadKernelStep, KernelKeepsAligned
    <3>2. CASE EndCpuUsage
      <4>1. CASE p = pidof[call.obj] BY <1>1, <2>2, <3>2, <4>1, EndAligns
      <4>2. CASE p # pidof[call.obj]
        <5>1. oldstate'[p] = oldstate[p] /\ cpuTotal' = cpuTotal /\ file' = file
          BY <1>1, <3>2, <4>2, EndOfCall DEF kernelVars
        <5> QED BY <2>2, <5>1 DEF Aligned
      <4> QED BY <4>1, <4>2
    <3>3. ASSUME UsageClient, ~EndCpuUsage PROVE Aligned(p)'
      <4>1. oldstate' = oldstate /\ cpuTotal' = cpuTotal /\ file' = file
        BY <3>3, CpuOnlyClient
        DEF NewObject, Construct, CopyObject, Copy, DeleteObject, Destroy, UpdateObject,
            needUpdate, BeginCpuUsage, PlainGet, Get, Refresh, usageVars, vars, kernelVars
      <4> QED BY <2>2, <4>1 DEF Aligned
    <3> QED BY <1>1, <3>1, <3>2, <3>3 DEF UsageNext
  <2> QED BY <2>1, <2>2
<1>2. UsageTypeOK /\ CpuInv /\ [UsageNext]_allVars => [Again]_allVars BY <1>1
<1>3. UsageSpec => [][Again]_allVars
  BY <1>2, CpuInvariant, UsageTypeCorrect, PTL DEF UsageSpec
<1> QED BY <1>3 DEF AlignedAgain

=============================================================================
