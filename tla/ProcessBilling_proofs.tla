----------------------- MODULE ProcessBilling_proofs -----------------------
(***************************************************************************)
(* Proofs about what the usages of ProcessUsage add up to.  What is billed *)
(* is in the entry of the pid and the entry is in what the file says.  Two *)
(* kinds of client keep it so: one that holds at most one object of each   *)
(* process, whatever it calls and whatever fails, and one that reads each  *)
(* file through one getter only, on any number of objects.  A third part   *)
(* says when no usage, and so no sum of them, is made from a value nothing *)
(* wrote; only then do the first two speak of all that was reported.       *)
(***************************************************************************)
EXTENDS ProcessUsage_proofs

-----------------------------------------------------------------------------
\* Values.

LEMMA Numbers ==
  /\ Val \subseteq Nat /\ \A v \in Val : v \in 0 .. Word - 1
  /\ Unset \notin Int /\ Unset \notin Val /\ FirstVal = 0 /\ 0 \in Val /\ Word \in Nat
BY UsageAssumption, ConstantsAssumption DEF Special

LEMMA SaidType ==
  ASSUME UsageTypeOK, NEW p \in Pid, NEW k \in Kinds, Countable(p, FileOf(k))
  PROVE  Said(p, k) \in Val
<1>1. file[p][FileOf(k)] \in Content(FileOf(k))
  BY DEF Countable, Readable, UsageTypeOK, TypeOK, FileOK, Files, FileOf
<1>2. CASE k = "cpu" BY <1>1, <1>2 DEF Content, Said, FileOf
<1>3. CASE k = "ior" BY <1>1, <1>3 DEF Content, Said, FileOf, Counter
<1>4. CASE k = "iow" BY <1>1, <1>4 DEF Content, Said, FileOf, Counter
<1> QED BY <1>2, <1>3, <1>4 DEF Kinds

LEMMA SaidTypes ==
  UsageTypeOK => \A p \in Pid, k \in Kinds : Countable(p, FileOf(k)) => Said(p, k) \in Val
BY SaidType

LEMMA CopiedType ==
  ASSUME UsageTypeOK, NEW o \in Obj, NEW k \in Kinds PROVE Copied(o, k) \in Val \cup {Unset}
<1>1. mem[o]["io"] \in Member("io") /\ mem[o]["stat"].rest \in Val \cup {Unset}
  BY MemTypes DEF UsageTypeOK
<1> QED BY <1>1 DEF Member, Copied, Counter, Kinds

LEMMA CopiedTypes ==
  UsageTypeOK => \A q \in Obj, k \in Kinds : Copied(q, k) \in Val \cup {Unset}
BY CopiedType

LEMMA LeftType ==
  ASSUME UsageTypeOK, NEW p \in Pid, NEW k \in Kinds PROVE Left(p, k) \in Val \cup {Unset}
<1>1. CASE oldstate[p] = NoOld BY <1>1 DEF Left
<1>2. CASE oldstate[p] # NoOld
  <2>1. oldstate[p] \in Baseline BY <1>2 DEF UsageTypeOK
  <2>2. oldstate[p].io \in Member("io") /\ oldstate[p].proc \in Val \cup {Unset}
    BY <2>1 DEF Baseline
  <2> QED BY <1>2, <2>2 DEF Left, Member, Counter, Kinds
<1> QED BY <1>1, <1>2

LEMMA BilledType ==
  ASSUME UsageTypeOK, NEW p \in Pid, NEW k \in Kinds PROVE billed[p][k] \in Nat \cup {Unset}
BY DEF UsageTypeOK

LEMMA AtMostFacts ==
  ASSUME NEW a \in Int \cup {Unset}, NEW b \in Int \cup {Unset}, NEW c \in Int \cup {Unset}
  PROVE  /\ AtMost(a, a) /\ AtMost(a, Unset) /\ AtMost(Unset, a)
         /\ b # Unset /\ AtMost(a, b) /\ AtMost(b, c) => AtMost(a, c)
BY Numbers DEF AtMost

-----------------------------------------------------------------------------
\* The kernel: a process that is counted was counted before, or is the first
\* of its pid; what its files say does not go back.

IoCounts(p) ==
  /\ Countable(p, "io")
  /\ \A c \in {"rb", "wb"} : file[p]["io"][c] <= file'[p]["io"][c]

LEMMA FileCounters ==
  ASSUME UsageTypeOK, NEW p \in Pid, Countable(p, "io")
  PROVE  /\ file[p]["io"].rb \in Val /\ file[p]["io"].wb \in Val
         /\ \A c \in {"rb", "wb"} : file[p]["io"][c] \in Nat
<1>1. file[p]["io"] \in Content("io")
  BY DEF Countable, Readable, UsageTypeOK, TypeOK, FileOK, Files
<1> QED BY <1>1, Numbers DEF Content

LEMMA SameIoCounts ==
  ASSUME UsageTypeOK, NEW p \in Pid, Countable(p, "io")',
         file'[p]["io"] = file[p]["io"], alive'[p] => alive[p], spawns'[p] = spawns[p]
  PROVE  IoCounts(p)
<1>1. Countable(p, "io")
  BY DEF Countable, Readable
<1> QED BY <1>1, FileCounters DEF IoCounts

LEMMA IoCountingKernelStep ==
  ASSUME UsageTypeOK, UsageKernel, NEW p \in Pid, Countable(p, "io")'
  PROVE  IoCounts(p) \/ spawns[p] = 0
<1> USE DEF UsageTypeOK, TypeOK
<1>1. ASSUME NEW q \in Pid, Spawn(q) PROVE IoCounts(p) \/ spawns[p] = 0
  <2>1. CASE p = q
    <3>1. spawns'[p] = spawns[p] + 1 /\ spawns[p] \in Nat
      BY <1>1, <2>1, ConstantsAssumption DEF Spawn
    <3>2. spawns'[p] = 1 BY DEF Countable, Readable
    <3> QED BY <3>1, <3>2
  <2>2. CASE p # q
    <3>1. file'[p] = file[p] /\ alive'[p] = alive[p] /\ spawns'[p] = spawns[p]
      BY <1>1, <2>2 DEF Spawn, SetFiles, SetFilesThrough, FileOK
    <3> QED BY <3>1, SameIoCounts
  <2> QED BY <2>1, <2>2
<1>2. ASSUME NEW q \in Pid, Exit(q) PROVE IoCounts(p)
  <2>1. q # p
    <3>1. q = p => ~alive'[p] BY <1>2 DEF Exit
    <3> QED BY <3>1 DEF Countable, Readable
  <2>2. file'[p] = file[p] /\ alive'[p] = alive[p] /\ spawns'[p] = spawns[p]
    BY <1>2, <2>1 DEF Exit, SetFiles, SetFilesThrough, FileOK
  <2> QED BY <2>2, SameIoCounts
<1>3. ASSUME NEW q \in Pid, NEW f \in Files, NEW c, Change(q, f, c)
      PROVE  /\ alive' = alive /\ spawns' = spawns
             /\ file'[p]["io"] = IF p = q /\ f = "io" THEN c ELSE file[p]["io"]
  BY <1>3 DEF Change, SetFiles, SetFilesThrough, FileOK, Files
<1>4. ASSUME NEW q \in Pid, NEW c, Change(q, "stat", c) PROVE IoCounts(p)
  <2>1. alive' = alive /\ spawns' = spawns /\ file'[p]["io"] = file[p]["io"]
    BY <1>3, <1>4 DEF Files
  <2> QED BY <2>1, SameIoCounts
<1>5. ASSUME NEW q \in Pid, NEW r \in 0 .. 1, NEW w \in 0 .. 1, Transfer(q, r, w)
      PROVE  IoCounts(p)
  <2> DEFINE c == [rb |-> file[q]["io"].rb + r, wb |-> file[q]["io"].wb + w]
  <2>1. /\ Change(q, "io", c) /\ file[q]["io"] # NoFile
        /\ c.rb \in Val /\ c.wb \in Val
    BY <1>5 DEF Transfer
  <2>2. c.rb = file[q]["io"].rb + r /\ c.wb = file[q]["io"].wb + w
    OBVIOUS
  <2> HIDE DEF c
  <2>3. /\ alive' = alive /\ spawns' = spawns
        /\ file'[p]["io"] = IF p = q THEN c ELSE file[p]["io"]
    BY <1>3, <2>1 DEF Files
  <2>4. CASE p # q BY <2>3, <2>4, SameIoCounts
  <2>5. CASE p = q
    <3>1. Countable(p, "io") BY <2>1, <2>3, <2>5 DEF Countable, Readable
    <3>2. file[p]["io"].rb \in Val /\ file[p]["io"].wb \in Val BY <3>1, FileCounters
    <3>3. file[p]["io"].rb \in Nat /\ file[p]["io"].wb \in Nat
      BY <3>2, Numbers
    <3>4. file[p]["io"].rb <= c.rb /\ file[p]["io"].wb <= c.wb
      BY <2>2, <2>5, <3>3
    <3> QED BY <2>3, <2>5, <3>1, <3>3, <3>4 DEF IoCounts
  <2> QED BY <2>4, <2>5
<1>6. ASSUME NEW q \in Pid, Change(q, "io", NoFile) PROVE IoCounts(p)
  <2>1. /\ alive' = alive /\ spawns' = spawns
        /\ file'[p]["io"] = IF p = q THEN NoFile ELSE file[p]["io"]
    BY <1>3, <1>6 DEF Files
  <2>2. p # q BY <2>1 DEF Countable, Readable
  <2> QED BY <2>1, <2>2, SameIoCounts
<1>7. CASE Tick BY <1>7, SameIoCounts DEF Tick
<1>8. CASE RunOther BY <1>8, SameIoCounts DEF RunOther, vars, kernelVars
<1> QED BY <1>1, <1>2, <1>4, <1>5, <1>6, <1>7, <1>8 DEF UsageKernel, Run, Retitle, Hide

LEMMA KernelMem ==
  ASSUME UsageTypeOK, UsageKernel
  PROVE  UNCHANGED <<oldstate, due, usage, call, billed, pidof, dirty, mem>>
<1>1. ASSUME NEW q, NEW f, NEW c, Change(q, f, c) PROVE mem' = mem
  BY <1>1 DEF Change, objectVars
<1>2. mem' = mem
  BY <1>1 DEF UsageKernel, Spawn, Exit, Tick, Run, RunOther, Retitle, Transfer, Hide,
              vars, objectVars
<1> QED BY <1>2, KernelFrame

\* What the kernel does to the file behind usage k.
LEMMA KernelSays ==
  ASSUME UsageTypeOK, UsageKernel, NEW p \in Pid, NEW k \in Kinds, Countable(p, FileOf(k))'
  PROVE  spawns[p] = 0 \/ (Countable(p, FileOf(k)) /\ Said(p, k) <= Said(p, k)')
<1>1. CASE k = "cpu"
  <2>1. Countable(p, "stat")' BY <1>1 DEF FileOf
  <2>2. Counts(p) \/ spawns[p] = 0 BY <2>1, CountingKernelStep
  <2>3. Countable(p, "stat") => file[p]["stat"].line \in Nat
    BY LineType, Numbers DEF Countable
  <2> QED BY <1>1, <2>2, <2>3 DEF Counts, Advances, FileOf, Said
<1>2. CASE k \in {"ior", "iow"}
  <2>1. Countable(p, "io")' BY <1>2 DEF FileOf
  <2>2. IoCounts(p) \/ spawns[p] = 0 BY <2>1, IoCountingKernelStep
  <2>3. Counter[k] \in {"rb", "wb"} BY <1>2 DEF Counter
  <2> QED BY <1>2, <2>2, <2>3 DEF IoCounts, FileOf, Said
<1> QED BY <1>1, <1>2 DEF Kinds

LEMMA KernelKeepsBills ==
  ASSUME UsageTypeOK, BillsInv, UsageKernel
  PROVE  /\ BillsInv'
         /\ \A o \in Obj, k \in Kinds :
              pidof[o] # NoPid /\ Countable(pidof[o], FileOf(k))' =>
                Countable(pidof[o], FileOf(k)) /\ UpToDate(o, k)' = UpToDate(o, k)
<1>1. UNCHANGED <<oldstate, due, usage, call, billed, pidof, dirty, mem>>
  BY KernelMem
<1>2. UsageTypeOK' BY UsageStepType DEF UsageNext
<1>0. (UsageTypeOK => \A p \in Pid, k \in Kinds : Countable(p, FileOf(k)) => Said(p, k) \in Val)'
  BY SaidTypes, PTL
<1>3. \A p \in Pid : spawns[p] \in Nat /\ spawns'[p] \in Nat /\ spawns[p] <= spawns'[p]
  <2>1. \A p \in Pid : spawns[p] \in 0 .. MaxSpawns /\ spawns'[p] \in 0 .. MaxSpawns
    BY <1>2 DEF UsageTypeOK, TypeOK
  <2>2. MaxSpawns \in Nat BY ConstantsAssumption
  <2> QED BY <2>1, <2>2, KernelFrame
<1>4. \A p \in Pid, k \in Kinds : Left(p, k)' = Left(p, k)
  BY <1>1 DEF Left
<1>5. \A o \in Obj, k \in Kinds : Copied(o, k)' = Copied(o, k)
  BY <1>1 DEF Copied
<1>6. ASSUME NEW p \in Pid, NEW k \in Kinds
      PROVE  spawns[p] = 0 => billed[p][k] = 0 /\ oldstate[p] = NoOld /\ \A o \in Obj : pidof[o] # p
  BY DEF BillsInv
<1>7. ASSUME NEW p \in Pid, NEW k \in Kinds, Countable(p, FileOf(k))', spawns[p] = 0
      PROVE  /\ Ledger(p, k)' /\ \A o \in Obj : pidof[o] # p
  <2>1. billed[p][k] = 0 /\ oldstate[p] = NoOld /\ \A o \in Obj : pidof[o] # p
    BY <1>6, <1>7
  <2>2. Left(p, k)' = Unset BY <1>4, <2>1 DEF Left
  <2>3. Said(p, k)' \in Nat BY <1>2, <1>7, <1>0, Numbers
  <2> QED BY <1>1, <2>1, <2>2, <2>3 DEF Ledger, AtMost
<1>8. ASSUME NEW p \in Pid, NEW k \in Kinds, Countable(p, FileOf(k)),
             Countable(p, FileOf(k))', Said(p, k) <= Said(p, k)'
      PROVE  Ledger(p, k)' /\ \A o \in Obj : pidof[o] = p => AtMost(Copied(o, k), Said(p, k)')
  <2>1. Ledger(p, k) /\ \A o \in Obj : pidof[o] = p => AtMost(Copied(o, k), Said(p, k))
    BY <1>8 DEF BillsInv
  <2>2. Said(p, k) \in Nat /\ Said(p, k)' \in Nat BY <1>2, <1>8, <1>0, SaidType, Numbers
  <2>3. \A a \in Val \cup {Unset} : AtMost(a, Said(p, k)) => AtMost(a, Said(p, k)')
    BY <1>8, <2>2, Numbers DEF AtMost
  <2>4. billed[p][k] \in Nat \cup {Unset} /\ Left(p, k) \in Val \cup {Unset}
    BY BilledType, LeftType
  <2>5. AtMost(billed[p][k], Said(p, k)')
    BY <1>8, <2>1, <2>2, <2>4, Numbers DEF Ledger, AtMost
  <2>6. Ledger(p, k)' BY <1>1, <1>4, <2>1, <2>3, <2>4, <2>5 DEF Ledger
  <2> QED BY <2>1, <2>3, <2>6, CopiedType
<1>9. ASSUME NEW p \in Pid, NEW k \in Kinds, Countable(p, FileOf(k))'
      PROVE  /\ Ledger(p, k)' /\ \A o \in Obj : pidof[o] = p => AtMost(Copied(o, k), Said(p, k)')
             /\ Countable(p, FileOf(k)) \/ \A o \in Obj : pidof[o] # p
  BY <1>7, <1>8, <1>9, KernelSays
<1>10. BillsInv'
  <2>1. \A p \in Pid : spawns'[p] = 0 => spawns[p] = 0 BY <1>3
  <2> QED BY <1>1, <1>5, <1>6, <1>9, <2>1 DEF BillsInv
<1>11. ASSUME NEW o \in Obj, NEW k \in Kinds, pidof[o] # NoPid,
              Countable(pidof[o], FileOf(k))'
       PROVE  Countable(pidof[o], FileOf(k)) /\ UpToDate(o, k)' = UpToDate(o, k)
  <2>1. PICK p \in Pid : p = pidof[o] BY <1>11 DEF UsageTypeOK, TypeOK
  <2>2. Countable(p, FileOf(k))' BY <1>1, <1>11, <2>1
  <2> QED BY <1>1, <1>4, <1>5, <1>9, <2>1, <2>2 DEF UpToDate
<1> QED BY <1>10, <1>11

-----------------------------------------------------------------------------
\* The client's steps that compute nothing: each copy is as it was, or new, or
\* a copy of another object's, or what the file says.

LEMMA ObjectsChange ==
  ASSUME UsageTypeOK, BillsInv, UNCHANGED <<kernelVars, oldstate, billed>>,
         \A o \in Obj : pidof'[o] # NoPid => pidof'[o] \in Pid /\ spawns[pidof'[o]] # 0,
         \A o \in Obj, k \in Kinds :
           pidof'[o] # NoPid /\ Countable(pidof'[o], FileOf(k)) =>
             \/ Copied(o, k)' \in {Unset, Said(pidof'[o], k)}
             \/ \E q \in Obj : pidof[q] = pidof'[o] /\ Copied(o, k)' = Copied(q, k)
  PROVE  /\ BillsInv'
         /\ (\A o \in Obj, k \in Kinds :
               pidof[o] # NoPid /\ Countable(pidof[o], FileOf(k)) => UpToDate(o, k))
            => (\A o \in Obj, k \in Kinds :
                  pidof[o] # NoPid /\ Countable(pidof[o], FileOf(k)) => UpToDate(o, k))'
<1>1. /\ \A p \in Pid, f \in Files : Countable(p, f)' = Countable(p, f)
      /\ \A p \in Pid, k \in Kinds : Said(p, k)' = Said(p, k) /\ Left(p, k)' = Left(p, k)
      /\ spawns' = spawns
  BY DEF kernelVars, Countable, Readable, Said, Left
<1>2. \A k \in Kinds : FileOf(k) \in Files
  BY DEF FileOf, Files
<1>3. ASSUME NEW p \in Pid, NEW k \in Kinds, Countable(p, FileOf(k))
      PROVE  Ledger(p, k)' /\ \A o \in Obj : pidof'[o] = p => AtMost(Copied(o, k)', Said(p, k))
  <2>1. Ledger(p, k) /\ \A o \in Obj : pidof[o] = p => AtMost(Copied(o, k), Said(p, k))
    BY <1>3 DEF BillsInv
  <2>0. Said(p, k) \in Val BY <1>3, SaidType
  <2>2. Said(p, k) \in Int BY <2>0, ValInt
  <2>3. AtMost(Said(p, k), Said(p, k)) /\ AtMost(Unset, Said(p, k))
    BY <2>2, AtMostFacts
  <2>4. p # NoPid BY ConstantsAssumption
  <2>5. Ledger(p, k)' BY <1>1, <2>1 DEF Ledger
  <2> QED BY <1>3, <2>1, <2>3, <2>4, <2>5
<1>4. BillsInv'
  <2>1. ASSUME NEW p \in Pid, NEW k \in Kinds, spawns[p] = 0
        PROVE  billed[p][k] = 0 /\ oldstate[p] = NoOld /\ \A o \in Obj : pidof'[o] # p
    <3>1. p # NoPid BY ConstantsAssumption
    <3> QED BY <2>1, <3>1 DEF BillsInv
  <2> QED BY <1>1, <1>2, <1>3, <2>1 DEF BillsInv
<1>5. ASSUME \A o \in Obj, k \in Kinds :
               pidof[o] # NoPid /\ Countable(pidof[o], FileOf(k)) => UpToDate(o, k),
             NEW o \in Obj, NEW k \in Kinds, pidof'[o] # NoPid,
             NEW p \in Pid, p = pidof'[o], Countable(p, FileOf(k))
      PROVE  AtMost(billed[p][k], Copied(o, k)') /\ AtMost(Left(p, k), Copied(o, k)')
  <2>1. Ledger(p, k) BY <1>5 DEF BillsInv
  <2>0. /\ billed[p][k] \in Nat \cup {Unset} /\ Left(p, k) \in Val \cup {Unset}
        /\ Said(p, k) \in Val
    <3>1. billed[p][k] \in Nat \cup {Unset} /\ Left(p, k) \in Val \cup {Unset}
      BY BilledType, LeftType
    <3>2. Said(p, k) \in Val BY <1>5, SaidType
    <3> QED BY <3>1, <3>2
  <2>2. /\ billed[p][k] \in Int \cup {Unset} /\ Left(p, k) \in Int \cup {Unset}
        /\ Said(p, k) \in Int
    <3>1. Val \subseteq Int /\ Nat \subseteq Int BY Numbers
    <3> QED BY <2>0, <3>1
  <2>3. CASE Copied(o, k)' = Unset BY <2>2, <2>3, AtMostFacts
  <2>4. CASE Copied(o, k)' = Said(p, k) BY <2>1, <2>4 DEF Ledger, AtMost
  <2>5. ASSUME NEW q \in Obj, pidof[q] = p, Copied(o, k)' = Copied(q, k)
        PROVE  AtMost(billed[p][k], Copied(o, k)') /\ AtMost(Left(p, k), Copied(o, k)')
    <3>1. UpToDate(q, k) BY <1>5, <2>5
    <3> QED BY <2>5, <3>1 DEF UpToDate
  <2> QED BY <1>5, <2>3, <2>4, <2>5
<1> QED BY <1>1, <1>2, <1>4, <1>5 DEF UpToDate

\* What a getter of file f gives, be it for the client or for a usage.
LEMMA ThroughReads ==
  ASSUME UsageTypeOK, NEW o \in Obj, NEW p \in Pid, p = pidof[o], NEW f \in {"stat", "io"},
         Through(o, f)
  PROVE  /\ UNCHANGED <<kernelVars, pidof>>
         /\ dirty' = [dirty EXCEPT ![o] = dirty[o] \ {f}]
         /\ \A q \in Obj, k \in Kinds :
              q # o \/ FileOf(k) # f => Copied(q, k)' = Copied(q, k)
         /\ \A k \in Kinds : FileOf(k) = f /\ Countable(p, f) =>
              /\ Copied(o, k)' \in {Copied(o, k), Said(p, k)}
              /\ ~OpenMayFail /\ f \in dirty[o] => Copied(o, k)' = Said(p, k)
<1>0. f \in Files /\ \A k \in Kinds : FileOf(k) \in {"stat", "io"}
  BY DEF Files, FileOf
<1>1. CASE f \notin dirty[o] /\ UNCHANGED vars
  <2>1. UNCHANGED <<kernelVars, pidof, dirty, mem>>
    BY <1>1 DEF vars, objectVars
  <2>2. dirty[o] \ {f} = dirty[o]
    BY <1>1
  <2> QED BY <1>1, <2>1, <2>2 DEF Copied, UsageTypeOK, TypeOK
<1>2. CASE Get(o, f)
  <2>1. PICK c \in Opened(p, f) : Refresh(o, f, c)
    BY <1>2 DEF Get
  <2>2. /\ mem' = [mem EXCEPT ![o][f] = read(f, mem[o][f], c)]
        /\ dirty' = [dirty EXCEPT ![o] = dirty[o] \ {f}]
        /\ UNCHANGED <<kernelVars, pidof>> /\ f \in dirty[o]
    BY <2>1 DEF Refresh
  <2>3. DOMAIN mem = Obj /\ \A q \in Obj : DOMAIN mem[q] = Files
    BY DEF UsageTypeOK, TypeOK, MemOK
  <2>4. /\ mem'[o][f] = read(f, mem[o][f], c)
        /\ \A q \in Obj, g \in Files : q # o \/ g # f => mem'[q][g] = mem[q][g]
    BY <1>0, <2>2, <2>3
  <2>5. \A q \in Obj, k \in Kinds : q # o \/ FileOf(k) # f => Copied(q, k)' = Copied(q, k)
    BY <1>0, <2>4 DEF Copied, FileOf, Files, Kinds
  <2>6. c = file[p][f] \/ (c = NoFile /\ OpenMayFail)
    BY <2>1, ConstantsAssumption DEF Opened
  <2>7. ASSUME NEW k \in Kinds, FileOf(k) = f, Countable(p, f)
        PROVE  /\ Copied(o, k)' \in {Copied(o, k), Said(p, k)}
               /\ ~OpenMayFail /\ f \in dirty[o] => Copied(o, k)' = Said(p, k)
    <3>1. file[p][f] # NoFile /\ (f = "stat" => file[p][f].comm # "blank")
      BY <2>7 DEF Countable, Readable
    <3>2. mem[o]["stat"] \in Member("stat") /\ mem[o]["io"] \in Member("io")
      BY DEF UsageTypeOK, TypeOK, MemOK, Files
    <3>3. CASE k = "cpu"
      <4>1. f = "stat" /\ mem'[o]["stat"] = readStat(mem[o]["stat"], c)
        BY <2>4, <2>7, <3>3 DEF FileOf, read
      <4>2. c = NoFile => mem'[o]["stat"].rest = mem[o]["stat"].rest
        BY <3>2, <4>1 DEF readStat, Member
      <4>3. c = file[p]["stat"] => mem'[o]["stat"].rest = file[p]["stat"].line
        BY <3>1, <4>1 DEF readStat
      <4> QED BY <2>6, <3>3, <4>1, <4>2, <4>3 DEF Copied, Said
    <3>4. CASE k # "cpu"
      <4>1. f = "io" /\ mem'[o]["io"] = readIo(mem[o]["io"], c) /\ k \in {"ior", "iow"}
        BY <2>4, <2>7, <3>4 DEF FileOf, read, Kinds
      <4>2. Counter[k] \in {"rb", "wb"}
        BY <4>1 DEF Counter
      <4>3. c = NoFile => mem'[o]["io"][Counter[k]] = mem[o]["io"][Counter[k]]
        BY <3>2, <4>1, <4>2 DEF readIo, Member
      <4>4. c = file[p]["io"] => mem'[o]["io"][Counter[k]] = file[p]["io"][Counter[k]]
        BY <3>1, <4>1, <4>2 DEF readIo
      <4> QED BY <2>6, <3>4, <4>1, <4>3, <4>4 DEF Copied, Said
    <3> QED BY <3>3, <3>4
  <2> QED BY <2>2, <2>5, <2>7
<1> QED BY <1>1, <1>2 DEF Through

-----------------------------------------------------------------------------
\* The client's steps that compute a usage.

\* What a usage adds to the bill is in the copy it was computed from.
LEMMA Reported ==
  ASSUME NEW b \in Nat \cup {Unset}, NEW left \in Val \cup {Unset}, NEW new \in Val \cup {Unset},
         NEW said \in Val, NEW b2,
         \/ b2 \in {b, Unset}
         \/ \E n \in {0, Minus(new, left)} : Unset \notin {b, n} /\ b2 = b + n,
         AtMost(b, said), AtMost(b, left), AtMost(b, new), AtMost(left, new), AtMost(new, said)
  PROVE  AtMost(b2, said) /\ AtMost(b2, new)
<1>1. said \in Nat /\ Unset \notin Int
  BY Numbers
<1>2. CASE b2 \in {b, Unset}
  BY <1>1, <1>2 DEF AtMost
<1>4. ASSUME Unset # b, b2 = b + 0 PROVE b2 = b
  BY <1>4
<1>3. ASSUME NEW n \in {0, Minus(new, left)}, n # Unset, b # Unset, b2 = b + n, n # 0
      PROVE  AtMost(b2, said) /\ AtMost(b2, new)
  <2>1. n = Minus(new, left) /\ Unset \notin {new, left}
    BY <1>3 DEF Minus
  <2>2. new \in Val /\ left \in Val
    BY <2>1
  <2>3. new \in 0 .. Word - 1 /\ left \in 0 .. Word - 1 /\ Word \in Nat
    BY <2>2, Numbers
  <2>4. new \in Nat /\ left \in Nat
    BY <2>3
  <2>5. b <= left /\ left <= new /\ new <= said
    BY <1>1, <2>4 DEF AtMost
  <2>6. n = new - left
    BY <2>1, <2>3, <2>5, MinusValue
  <2> QED BY <1>1, <1>3, <2>4, <2>5, <2>6 DEF AtMost
<1> QED BY <1>2, <1>3, <1>4

\* The half of the entry that is not computed: left as it was, or new.
LEMMA KeptHalf ==
  ASSUME NEW b \in Nat \cup {Unset}, NEW left \in Val \cup {Unset},
         NEW new \in Val \cup {Unset}, NEW said \in Val, NEW left2,
         left2 = left \/ (b = 0 /\ left2 \in {Unset, new}), AtMost(b, left), AtMost(left, said), AtMost(new, said)
  PROVE  /\ AtMost(left2, said) /\ AtMost(b, left2)
         /\ AtMost(b, new) /\ AtMost(left, new) => AtMost(left2, new)
<1>1. said \in Nat /\ Unset \notin Int /\ (new = Unset \/ new \in Nat)
  BY Numbers
<1> QED BY <1>1 DEF AtMost

\* A usage of object o of process p computed from file f: the entry takes the
\* copy, the bill what has come since the entry, unless something of it is
\* indeterminate; the entry's other half stays, or is a copy too when the
\* entry is new.
Computes(o, p, f) ==
  /\ \A q \in Pid \ {p} : oldstate'[q] = oldstate[q] /\ billed'[q] = billed[q]
  /\ oldstate'[p] # NoOld
  /\ \A k \in Kinds :
       IF FileOf(k) = f
       THEN /\ Left(p, k)' = Copied(o, k)'
            /\ \/ billed'[p][k] \in {billed[p][k], Unset}
               \/ \E n \in {0, Minus(Copied(o, k)', Left(p, k))} :
                    Unset \notin {billed[p][k], n} /\ billed'[p][k] = billed[p][k] + n
       ELSE /\ billed'[p][k] = billed[p][k]
            /\ \/ Left(p, k)' = Left(p, k)
               \/ oldstate[p] = NoOld /\ Left(p, k)' \in {Unset, Copied(o, k)}

LEMMA ComputingKeepsBills ==
  ASSUME UsageTypeOK, UsageTypeOK', BillsInv, NEW o \in Obj, NEW p \in Pid, p = pidof[o],
         NEW f \in {"stat", "io"}, Through(o, f), Computes(o, p, f),
         \A k \in Kinds : FileOf(k) = f /\ Countable(p, f) =>
           AtMost(billed[p][k], Copied(o, k)') /\ AtMost(Left(p, k), Copied(o, k)')
  PROVE  /\ BillsInv'
         /\ \A k \in Kinds :
              Countable(p, FileOf(k)) /\ (FileOf(k) # f => UpToDate(o, k)) =>
                AtMost(billed'[p][k], Copied(o, k)') /\ AtMost(Left(p, k)', Copied(o, k)')
<1>0. (UsageTypeOK => \A q \in Obj, k \in Kinds : Copied(q, k) \in Val \cup {Unset})'
  BY CopiedTypes, PTL
<1>1. /\ UNCHANGED <<kernelVars, pidof>>
      /\ \A q \in Obj, k \in Kinds :
           q # o \/ FileOf(k) # f => Copied(q, k)' = Copied(q, k)
      /\ \A k \in Kinds : FileOf(k) = f /\ Countable(p, f) =>
           Copied(o, k)' \in {Copied(o, k), Said(p, k)}
  BY ThroughReads
<1>2. /\ \A q \in Pid, g \in Files : Countable(q, g)' = Countable(q, g)
      /\ \A q \in Pid, k \in Kinds : Said(q, k)' = Said(q, k)
      /\ spawns' = spawns
  BY <1>1 DEF kernelVars, Countable, Readable, Said
<1>3. \A k \in Kinds : FileOf(k) \in Files
  BY DEF FileOf, Files
<1>4. ASSUME NEW k \in Kinds, NEW q \in Pid, Countable(q, FileOf(k)),
             NEW u \in Obj, pidof[u] = q
      PROVE  AtMost(Copied(u, k)', Said(q, k))
  <2>1. AtMost(Copied(u, k), Said(q, k))
    BY <1>4 DEF BillsInv
  <2>2. Said(q, k) \in Val
    BY <1>4, SaidType
  <2>3. Said(q, k) \in Int
    BY <2>2, ValInt
  <2>4. AtMost(Said(q, k), Said(q, k))
    BY <2>3, AtMostFacts
  <2> QED BY <1>1, <1>4, <2>1, <2>4
<1>5. ASSUME NEW k \in Kinds, Countable(p, FileOf(k))
      PROVE  /\ Ledger(p, k)'
             /\ (FileOf(k) # f => UpToDate(o, k)) =>
                  AtMost(billed'[p][k], Copied(o, k)') /\ AtMost(Left(p, k)', Copied(o, k)')
  <2>1. /\ billed[p][k] \in Nat \cup {Unset} /\ Left(p, k) \in Val \cup {Unset}
        /\ Said(p, k) \in Val /\ Copied(o, k)' \in Val \cup {Unset}
    BY <1>0, <1>5, BilledType, LeftType, SaidType
  <2>2. /\ AtMost(billed[p][k], Said(p, k)) /\ AtMost(billed[p][k], Left(p, k))
        /\ AtMost(Left(p, k), Said(p, k)) /\ (oldstate[p] = NoOld => billed[p][k] = 0)
        /\ AtMost(Copied(o, k)', Said(p, k))
    BY <1>4, <1>5 DEF BillsInv, Ledger
  <2>3. oldstate'[p] # NoOld /\ Said(p, k)' = Said(p, k)
    BY <1>2 DEF Computes
  <2>4. CASE FileOf(k) = f
    <3>1. /\ AtMost(billed[p][k], Copied(o, k)') /\ AtMost(Left(p, k), Copied(o, k)')
          /\ Left(p, k)' = Copied(o, k)'
          /\ \/ billed'[p][k] \in {billed[p][k], Unset}
             \/ \E n \in {0, Minus(Copied(o, k)', Left(p, k))} :
                  Unset \notin {billed[p][k], n} /\ billed'[p][k] = billed[p][k] + n
      BY <1>5, <2>4 DEF Computes
    <3>2. AtMost(billed'[p][k], Said(p, k)) /\ AtMost(billed'[p][k], Copied(o, k)')
      BY <2>1, <2>2, <3>1, Reported
    <3>3. AtMost(Copied(o, k)', Copied(o, k)')
      BY <2>1, Numbers, ValInt DEF AtMost
    <3> QED BY <2>2, <2>3, <3>1, <3>2, <3>3 DEF Ledger
  <2>5. CASE FileOf(k) # f
    <3>1. /\ billed'[p][k] = billed[p][k] /\ Copied(o, k)' = Copied(o, k)
          /\ \/ Left(p, k)' = Left(p, k)
             \/ billed[p][k] = 0 /\ Left(p, k)' \in {Unset, Copied(o, k)'}
      BY <1>1, <2>2, <2>5 DEF Computes
    <3>2. UpToDate(o, k) =>
            AtMost(billed[p][k], Copied(o, k)') /\ AtMost(Left(p, k), Copied(o, k)')
      BY <3>1 DEF UpToDate
    <3>3. /\ AtMost(Left(p, k)', Said(p, k)) /\ AtMost(billed[p][k], Left(p, k)')
          /\ AtMost(billed[p][k], Copied(o, k)') /\ AtMost(Left(p, k), Copied(o, k)') =>
               AtMost(Left(p, k)', Copied(o, k)')
      BY <2>1, <2>2, <3>1, KeptHalf
    <3>4. Ledger(p, k)'
      BY <2>2, <2>3, <3>1, <3>3 DEF Ledger
    <3> QED BY <2>5, <3>1, <3>2, <3>3, <3>4
  <2> QED BY <2>4, <2>5
<1>6. ASSUME NEW q \in Pid, NEW k \in Kinds, Countable(q, FileOf(k)) PROVE Ledger(q, k)'
  <2>1. CASE q = p BY <1>5, <1>6, <2>1
  <2>2. CASE q # p
    <3>1. oldstate'[q] = oldstate[q] /\ billed'[q] = billed[q]
      BY <2>2 DEF Computes
    <3>2. Left(q, k)' = Left(q, k) /\ Ledger(q, k)
      BY <1>6, <3>1 DEF Left, BillsInv
    <3> QED BY <1>2, <3>1, <3>2 DEF Ledger
  <2> QED BY <2>1, <2>2
<1>7. ASSUME NEW q \in Pid, NEW k \in Kinds, spawns[q] = 0
      PROVE  billed'[q][k] = 0 /\ oldstate'[q] = NoOld /\ \A u \in Obj : pidof[u] # q
  BY <1>7 DEF BillsInv, Computes
<1>8. BillsInv'
  BY <1>1, <1>2, <1>3, <1>4, <1>6, <1>7 DEF BillsInv
<1> QED BY <1>5, <1>8

LEMMA IoEntry ==
  ASSUME NEW old \in Baseline \cup {NoOld}, NEW io \in Member("io")
  PROVE  /\ IoRebased(old, io) # NoOld /\ IoRebased(old, io).io = io
         /\ old = NoOld => IoRebased(old, io).proc = Unset
         /\ old # NoOld => IoRebased(old, io).proc = old.proc
<1>1. NoOld \notin Baseline
  BY UsageAssumption
<1>2. CASE old = NoOld
  <2>1. [cpu |-> Unset, proc |-> Unset, io |-> io] \in Baseline
    BY DEF Baseline
  <2> QED BY <1>1, <1>2, <2>1 DEF IoRebased
<1>3. CASE old # NoOld
  <2>1. old \in Baseline
    BY <1>3
  <2> QED BY <1>1, <1>3, <2>1 DEF IoRebased, Baseline
<1> QED BY <1>2, <1>3

CpuOperands(old, total, ticks, io) ==
  /\ old \in Baseline \cup {NoOld} /\ io \in Member("io")
  /\ total \in (0 .. MaxTotal) \cup {Unset} /\ ticks \in Val \cup {Unset}

LEMMA CpuEntry ==
  ASSUME NEW old, NEW total, NEW ticks, NEW io, CpuOperands(old, total, ticks, io)
  PROVE  /\ CpuRebased(old, total, ticks, io) # NoOld
         /\ CpuRebased(old, total, ticks, io).proc = ticks
         /\ old = NoOld => CpuRebased(old, total, ticks, io).io = io
         /\ old # NoOld => CpuRebased(old, total, ticks, io).io = old.io
<1>1. NoOld \notin Baseline /\ CpuRebased(old, total, ticks, io) \in Baseline
  BY UsageAssumption, RebasedType DEF CpuOperands
<1>2. CASE old = NoOld
  BY <1>1, <1>2 DEF CpuRebased
<1>3. CASE old # NoOld
  <2>1. old \in Baseline
    BY <1>3 DEF CpuOperands
  <2> QED BY <1>1, <1>3, <2>1 DEF CpuRebased, Baseline
<1> QED BY <1>2, <1>3

LEMMA RateNum ==
  ASSUME NEW k \in {"ior", "iow"}, NEW old \in Baseline \cup {NoOld}, NEW io \in Member("io")
  PROVE  /\ old = NoOld => IoRate(k, old, io).num = 0
         /\ old # NoOld =>
              IoRate(k, old, io).num \in {0, Minus(io[Counter[k]], old.io[Counter[k]])}
         /\ IoRate(k, IoRebased(old, io), io).num = 0
<1> DEFINE e == IoRebased(old, io)
<1>1. old = NoOld => IoRate(k, old, io).num = 0
  BY DEF IoRate, Zero
<1>2. old # NoOld =>
        IoRate(k, old, io).num \in {0, Minus(io[Counter[k]], old.io[Counter[k]])}
  BY DEF IoRate, Quotient, Zero
<1>3. e # NoOld /\ e.io = io
  BY IoEntry
<1> HIDE DEF e
<1>4. IoRate(k, e, io) = Quotient(Minus(io[Counter[k]], io[Counter[k]]), io.at - io.at)
  BY <1>3 DEF IoRate
<1>5. io.at - io.at = 0
  BY DEF Member
<1>6. IoRate(k, e, io).num = 0
  BY <1>4, <1>5 DEF Quotient, Zero
<1> QED BY <1>1, <1>2, <1>6 DEF e

LEMMA BillEffect ==
  ASSUME UsageTypeOK, NEW p \in Pid, NEW k \in Kinds, NEW r, billed' = Bill(billed, p, k, r)
  PROVE  /\ \A q \in Pid \ {p} : billed'[q] = billed[q]
         /\ \A j \in Kinds \ {k} : billed'[p][j] = billed[p][j]
         /\ \/ billed'[p][k] \in {billed[p][k], Unset}
            \/ Unset \notin {billed[p][k], r.num} /\ billed'[p][k] = billed[p][k] + r.num
<1>1. billed \in [Pid -> [Kinds -> Nat \cup {Unset}]]
  BY DEF UsageTypeOK
<1> QED BY <1>1 DEF Bill

LEMMA Caller ==
  ASSUME UsageTypeOK, EndCpuUsage
  PROVE  \E o \in Obj, p \in Pid : o = call.obj /\ p = pidof[o]
<1>1. call \in Call /\ pidof[call.obj] # NoPid
  BY DEF EndCpuUsage, Quiet, UsageTypeOK
<1> QED BY <1>1 DEF Call, UsageTypeOK, TypeOK

LEMMA EndComputes ==
  ASSUME UsageTypeOK, UsageTypeOK', EndCpuUsage,
         NEW o \in Obj, o = call.obj, NEW p \in Pid, p = pidof[o]
  PROVE  Through(o, "stat") /\ Computes(o, p, "stat")
<1>1. call \in Call
  BY DEF EndCpuUsage, Quiet, UsageTypeOK
<1>2. PICK total \in (0 .. MaxTotal) \cup {Unset} : total = call.total
  BY <1>1 DEF Call
<1> DEFINE line == mem'[o]["stat"].rest
           rate == CpuRate(oldstate[p], total, line)
           entry == CpuRebased(oldstate[p], total, line, mem[o]["io"])
<1>3. /\ Through(o, "stat") /\ oldstate' = [oldstate EXCEPT ![p] = entry]
      /\ billed' = Bill(billed, p, "cpu", rate)
  BY <1>2 DEF EndCpuUsage
<1>4. oldstate[p] \in Baseline \cup {NoOld} /\ oldstate'[p] = entry
      /\ \A q \in Pid \ {p} : oldstate'[q] = oldstate[q]
  BY <1>2, <1>3 DEF UsageTypeOK
<1>5. mem[o]["io"] \in Member("io") /\ line \in Val \cup {Unset}
  <2>1. (UsageTypeOK => \A q \in Obj, k \in Kinds : Copied(q, k) \in Val \cup {Unset})'
    BY CopiedTypes, PTL
  <2>2. Copied(o, "cpu")' \in Val \cup {Unset}
    BY <1>2, <2>1 DEF Kinds
  <2> QED BY <1>2, <2>2, MemTypes DEF Copied, UsageTypeOK
<1> HIDE DEF line, entry, rate
<1>6. /\ entry # NoOld /\ entry.proc = line
      /\ entry.io = IF oldstate[p] = NoOld THEN mem[o]["io"] ELSE oldstate[p].io
  <2>1. entry = CpuRebased(oldstate[p], total, line, mem[o]["io"])
    BY DEF entry
  <2>2. CpuOperands(oldstate[p], total, line, mem[o]["io"])
    BY <1>4, <1>5 DEF CpuOperands
  <2> QED BY ONLY <2>1, <2>2, CpuEntry
<1>7. rate.num \in {0, Minus(line, Left(p, "cpu"))}
  BY DEF rate, CpuRate, Quotient, Zero, Left
<1>8. /\ \A q \in Pid \ {p} : billed'[q] = billed[q]
      /\ \A j \in Kinds \ {"cpu"} : billed'[p][j] = billed[p][j]
      /\ \/ billed'[p]["cpu"] \in {billed[p]["cpu"], Unset}
         \/ Unset \notin {billed[p]["cpu"], rate.num} /\ billed'[p]["cpu"] = billed[p]["cpu"] + rate.num
  <2>1. "cpu" \in Kinds
    BY DEF Kinds
  <2>3. billed' = Bill(billed, p, "cpu", rate)
    BY <1>3
  <2> QED BY <2>1, <2>3, BillEffect
<1>9. Left(p, "cpu")' = Copied(o, "cpu")' /\ Copied(o, "cpu")' = line
  BY <1>4, <1>6 DEF Left, Copied, line
<1>10. ASSUME NEW k \in {"ior", "iow"}
       PROVE  Left(p, k)' = Left(p, k) \/ (oldstate[p] = NoOld /\ Left(p, k)' = Copied(o, k))
  BY <1>4, <1>6 DEF Left, Copied
<1>11. FileOf("cpu") = "stat" /\ FileOf("ior") # "stat" /\ FileOf("iow") # "stat"
  BY DEF FileOf
<1>12. /\ Left(p, "cpu")' = Copied(o, "cpu")'
       /\ \/ billed'[p]["cpu"] \in {billed[p]["cpu"], Unset}
          \/ \E n \in {0, Minus(Copied(o, "cpu")', Left(p, "cpu"))} :
               /\ Unset \notin {billed[p]["cpu"], n}
               /\ billed'[p]["cpu"] = billed[p]["cpu"] + n
  BY <1>7, <1>8, <1>9
<1>13. ASSUME NEW k \in {"ior", "iow"}
       PROVE  /\ billed'[p][k] = billed[p][k]
              /\ \/ Left(p, k)' = Left(p, k)
                 \/ oldstate[p] = NoOld /\ Left(p, k)' \in {Unset, Copied(o, k)}
  BY <1>8, <1>10 DEF Kinds
<1>14. /\ \A q \in Pid \ {p} : oldstate'[q] = oldstate[q] /\ billed'[q] = billed[q]
       /\ oldstate'[p] # NoOld
  BY <1>4, <1>6, <1>8
<1> HIDE DEF Left, Copied
<1> QED BY ONLY <1>3, <1>11, <1>12, <1>13, <1>14 DEF Computes, Kinds

LEMMA IoMembers == UsageTypeOK => \A q \in Obj : mem[q]["io"] \in Member("io")
BY MemTypes DEF UsageTypeOK

\* What an io usage of either kind does to the entry.
LEMMA IoLeaves ==
  ASSUME UsageTypeOK, UsageTypeOK', NEW o \in Obj, NEW p \in Pid,
         oldstate' = [oldstate EXCEPT ![p] = IoRebased(oldstate[p], mem'[o]["io"])]
  PROVE  /\ oldstate[p] \in Baseline \cup {NoOld} /\ mem'[o]["io"] \in Member("io")
         /\ \A q \in Pid \ {p} : oldstate'[q] = oldstate[q]
         /\ oldstate'[p] # NoOld
         /\ \A k \in {"ior", "iow"} : Left(p, k)' = Copied(o, k)'
         /\ \/ Left(p, "cpu")' = Left(p, "cpu")
            \/ oldstate[p] = NoOld /\ Left(p, "cpu")' = Unset
<1>1. oldstate[p] \in Baseline \cup {NoOld}
  BY DEF UsageTypeOK
<1>2. mem'[o]["io"] \in Member("io")
  <2>1. (UsageTypeOK => \A q \in Obj : mem[q]["io"] \in Member("io"))'
    BY IoMembers, PTL
  <2> QED BY <2>1
<1> DEFINE entry == IoRebased(oldstate[p], mem'[o]["io"])
<1>3. oldstate'[p] = entry /\ \A q \in Pid \ {p} : oldstate'[q] = oldstate[q]
  BY DEF UsageTypeOK
<1>4. /\ entry # NoOld /\ entry.io = mem'[o]["io"]
      /\ oldstate[p] = NoOld => entry.proc = Unset
      /\ oldstate[p] # NoOld => entry.proc = oldstate[p].proc
  BY <1>1, <1>2, IoEntry
<1> HIDE DEF entry
<1>5. \A k \in {"ior", "iow"} : Left(p, k)' = Copied(o, k)'
  BY <1>3, <1>4 DEF Left, Copied
<1>6. Left(p, "cpu")' = Left(p, "cpu") \/ (oldstate[p] = NoOld /\ Left(p, "cpu")' = Unset)
  BY <1>3, <1>4 DEF Left
<1> QED BY <1>1, <1>2, <1>3, <1>4, <1>5, <1>6

LEMMA IoComputes ==
  ASSUME UsageTypeOK, UsageTypeOK', NEW o \in Obj, NEW k \in {"ior", "iow"}, IoUsage(o, k),
         NEW p \in Pid, p = pidof[o]
  PROVE  Through(o, "io") /\ Computes(o, p, "io")
<1> DEFINE rate == IoRate(k, oldstate[p], mem'[o]["io"])
<1>1. /\ Through(o, "io") /\ billed' = Bill(billed, p, k, rate)
      /\ oldstate' = [oldstate EXCEPT ![p] = IoRebased(oldstate[p], mem'[o]["io"])]
  BY DEF IoUsage
<1>2. /\ oldstate[p] \in Baseline \cup {NoOld} /\ mem'[o]["io"] \in Member("io")
      /\ \A q \in Pid \ {p} : oldstate'[q] = oldstate[q]
      /\ oldstate'[p] # NoOld
      /\ \A j \in {"ior", "iow"} : Left(p, j)' = Copied(o, j)'
      /\ \/ Left(p, "cpu")' = Left(p, "cpu")
         \/ oldstate[p] = NoOld /\ Left(p, "cpu")' = Unset
  BY <1>1, IoLeaves
<1>3. rate.num \in {0, Minus(Copied(o, k)', Left(p, k))}
  BY <1>2, RateNum DEF Left, Copied
<1> HIDE DEF rate
<1>4. /\ \A q \in Pid \ {p} : billed'[q] = billed[q]
      /\ \A j \in Kinds \ {k} : billed'[p][j] = billed[p][j]
      /\ \/ billed'[p][k] \in {billed[p][k], Unset}
         \/ Unset \notin {billed[p][k], rate.num} /\ billed'[p][k] = billed[p][k] + rate.num
  <2>1. k \in Kinds
    BY DEF Kinds
  <2>2. billed' = Bill(billed, p, k, rate)
    BY <1>1
  <2> QED BY <2>1, <2>2, BillEffect
<1>5. FileOf("cpu") # "io" /\ FileOf("ior") = "io" /\ FileOf("iow") = "io"
  BY DEF FileOf
<1> QED BY <1>1, <1>2, <1>3, <1>4, <1>5 DEF Computes, Kinds

LEMMA IoTotalComputes ==
  ASSUME UsageTypeOK, UsageTypeOK', NEW o \in Obj, NEW first \in {"ior", "iow"},
         NEW second \in {"ior", "iow"}, IoTotalUsage(o, first, second),
         NEW p \in Pid, p = pidof[o]
  PROVE  Through(o, "io") /\ Computes(o, p, "io")
<1> DEFINE io == mem'[o]["io"]
           todo == {first, second} \cap due[o]
           old == [f \in {first, second} |->
                     IF f = second /\ first \in due[o] THEN IoRebased(oldstate[p], io)
                     ELSE oldstate[p]]
           rate == [f \in todo |-> IoRate(f, old[f], io)]
           bills == [f \in todo |-> Bill(billed, p, f, rate[f])[p][f]]
<1>1. /\ Through(o, "io") /\ billed' = [billed EXCEPT ![p] = Over(bills, billed[p])]
      /\ oldstate' = [oldstate EXCEPT ![p] = IoRebased(oldstate[p], io)]
      /\ {first, second} = {"ior", "iow"}
  BY DEF IoTotalUsage
<1>2. /\ oldstate[p] \in Baseline \cup {NoOld} /\ io \in Member("io")
      /\ \A q \in Pid \ {p} : oldstate'[q] = oldstate[q]
      /\ oldstate'[p] # NoOld
      /\ \A j \in {"ior", "iow"} : Left(p, j)' = Copied(o, j)'
      /\ \/ Left(p, "cpu")' = Left(p, "cpu")
         \/ oldstate[p] = NoOld /\ Left(p, "cpu")' = Unset
  BY <1>1, IoLeaves
<1>3. billed \in [Pid -> [Kinds -> Nat \cup {Unset}]] /\ todo \subseteq {"ior", "iow"}
  BY <1>1 DEF UsageTypeOK
<1>4. ASSUME NEW f \in todo
      PROVE  \/ bills[f] \in {billed[p][f], Unset}
             \/ \E n \in {0, Minus(Copied(o, f)', Left(p, f))} :
                  Unset \notin {billed[p][f], n} /\ bills[f] = billed[p][f] + n
  <2>1. f \in {"ior", "iow"} /\ f \in Kinds
    BY <1>3 DEF Kinds
  <2>2. old[f] = IoRebased(oldstate[p], io) \/ old[f] = oldstate[p]
    OBVIOUS
  <2>3. rate[f] = IoRate(f, old[f], io)
    OBVIOUS
  <2>4. rate[f].num \in {0, Minus(Copied(o, f)', Left(p, f))}
    <3> HIDE DEF old, rate
    <3>1. IoRate(f, IoRebased(oldstate[p], io), io).num = 0
      BY <1>2, <2>1, RateNum
    <3>2. IoRate(f, oldstate[p], io).num \in {0, Minus(Copied(o, f)', Left(p, f))}
      BY <1>2, <2>1, RateNum DEF Left, Copied
    <3> QED BY <2>2, <2>3, <3>1, <3>2
  <2>5. bills[f] = Bill(billed, p, f, rate[f])[p][f]
    OBVIOUS
  <2> HIDE DEF rate, bills, todo
  <2>6. \/ bills[f] \in {billed[p][f], Unset}
        \/ Unset \notin {billed[p][f], rate[f].num} /\ bills[f] = billed[p][f] + rate[f].num
    BY <1>3, <2>1, <2>5 DEF Bill
  <2> QED BY <2>4, <2>6
<1> HIDE DEF todo, bills
<1>5. DOMAIN bills = todo
  BY DEF bills
<1>6. /\ \A q \in Pid \ {p} : billed'[q] = billed[q]
      /\ \A k \in Kinds : billed'[p][k] = IF k \in todo THEN bills[k] ELSE billed[p][k]
  BY <1>1, <1>3, <1>5 DEF Over
<1>7. FileOf("cpu") # "io" /\ FileOf("ior") = "io" /\ FileOf("iow") = "io"
  BY DEF FileOf
<1> QED BY <1>1, <1>2, <1>3, <1>4, <1>6, <1>7 DEF Computes, Kinds

\* The client's steps that compute no usage, or nothing at all.
ObjectStep ==
  \/ \E o \in Obj, p \in Pid : NewObject(o, p)
  \/ \E o, q \in Obj : CopyObject(o, q)
  \/ \E o \in Obj : DeleteObject(o) \/ UpdateObject(o) \/ BeginCpuUsage(o)
  \/ \E o \in Obj, f \in {"stat", "io"} : PlainGet(o, f)
  \/ UNCHANGED allVars

LEMMA ObjectStepKeepsBills ==
  ASSUME UsageTypeOK, UsageTypeOK', BillsInv, ObjectStep
  PROVE  /\ BillsInv'
         /\ (\A o \in Obj, k \in Kinds :
               pidof[o] # NoPid /\ Countable(pidof[o], FileOf(k)) => UpToDate(o, k))
            => (\A o \in Obj, k \in Kinds :
                  pidof[o] # NoPid /\ Countable(pidof[o], FileOf(k)) => UpToDate(o, k))'
<1>1. /\ pidof \in [Obj -> Pid \cup {NoPid}] /\ pidof' \in [Obj -> Pid \cup {NoPid}]
      /\ DOMAIN mem = Obj
  BY DEF UsageTypeOK, TypeOK, MemOK
<1>2. \A o \in Obj : pidof[o] # NoPid => spawns[pidof[o]] # 0
  BY <1>1 DEF BillsInv, Kinds
<1> DEFINE SameCopies(o) == pidof'[o] = pidof[o] /\ \A k \in Kinds : Copied(o, k)' = Copied(o, k)
           Fresh(o) == spawns[pidof'[o]] # 0 /\ \A k \in Kinds : Copied(o, k)' = Unset
           Goal == /\ BillsInv'
                   /\ (\A o \in Obj, k \in Kinds :
                         pidof[o] # NoPid /\ Countable(pidof[o], FileOf(k)) => UpToDate(o, k))
                      => (\A o \in Obj, k \in Kinds :
                            pidof[o] # NoPid /\ Countable(pidof[o], FileOf(k)) => UpToDate(o, k))'
<1>3. ASSUME UNCHANGED <<kernelVars, oldstate, billed>>, NEW o \in Obj,
             \A q \in Obj \ {o} : SameCopies(q),
             \/ SameCopies(o)
             \/ pidof'[o] = NoPid
             \/ Fresh(o)
             \/ \E q \in Obj : /\ pidof'[o] = pidof[q]
                               /\ \A k \in Kinds : Copied(o, k)' = Copied(q, k)
             \/ pidof'[o] = pidof[o] /\ \A k \in Kinds :
                  Countable(pidof[o], FileOf(k)) =>
                    Copied(o, k)' \in {Copied(o, k), Said(pidof[o], k)}
      PROVE  Goal
  <2>1. \A u \in Obj : pidof'[u] # NoPid => pidof'[u] \in Pid /\ spawns[pidof'[u]] # 0
    BY <1>1, <1>2, <1>3
  <2>2. \A u \in Obj, k \in Kinds :
          pidof'[u] # NoPid /\ Countable(pidof'[u], FileOf(k)) =>
            \/ Copied(u, k)' \in {Unset, Said(pidof'[u], k)}
            \/ \E q \in Obj : pidof[q] = pidof'[u] /\ Copied(u, k)' = Copied(q, k)
    BY <1>3
  <2> HIDE DEF SameCopies, Fresh
  <2> QED BY <1>3, <2>1, <2>2, ObjectsChange
<1> HIDE DEF Goal
<1>4. ASSUME NEW o \in Obj, NEW p \in Pid, NewObject(o, p) PROVE Goal
  <2>1. /\ UNCHANGED <<kernelVars, oldstate, billed>> /\ spawns[p] > 0
        /\ pidof' = [pidof EXCEPT ![o] = p]
        /\ mem' = [mem EXCEPT ![o] = [f \in Files |-> FreshMember(f)]]
    BY <1>4 DEF NewObject, Construct
  <2>2. pidof'[o] = p /\ mem'[o] = [f \in Files |-> FreshMember(f)] /\ spawns[p] # 0
    BY <1>1, <2>1 DEF UsageTypeOK, TypeOK
  <2>3. Fresh(o) BY <2>2 DEF Copied, FreshMember, Files, Counter, Kinds
  <2>4. \A q \in Obj \ {o} : SameCopies(q) BY <1>1, <2>1 DEF Copied
  <2> QED BY <1>3, <2>1, <2>3, <2>4
<1>5. ASSUME NEW o \in Obj, NEW q \in Obj, CopyObject(o, q) PROVE Goal
  <2>1. /\ UNCHANGED <<kernelVars, oldstate, billed>>
        /\ pidof' = [pidof EXCEPT ![q] = pidof[o]] /\ mem' = [mem EXCEPT ![q] = mem[o]]
    BY <1>5 DEF CopyObject, Copy
  <2>2. pidof'[q] = pidof[o] /\ \A k \in Kinds : Copied(q, k)' = Copied(o, k)
    BY <1>1, <2>1 DEF Copied
  <2>3. \A u \in Obj \ {q} : SameCopies(u) BY <1>1, <2>1 DEF Copied
  <2> QED BY <1>3, <2>1, <2>2, <2>3
<1>6. ASSUME NEW o \in Obj, DeleteObject(o) PROVE Goal
  <2>1. /\ UNCHANGED <<kernelVars, oldstate, billed>>
        /\ pidof' = [pidof EXCEPT ![o] = NoPid]
        /\ mem' = [mem EXCEPT ![o] = [f \in Files |-> FreshMember(f)]]
    BY <1>6 DEF DeleteObject, Destroy
  <2>2. pidof'[o] = NoPid BY <1>1, <2>1
  <2>3. \A q \in Obj \ {o} : SameCopies(q) BY <1>1, <2>1 DEF Copied
  <2> QED BY <1>3, <2>1, <2>2, <2>3
<1>7. ASSUME UNCHANGED <<kernelVars, oldstate, billed, pidof, mem>> PROVE Goal
  <2>1. \A u \in Obj : pidof'[u] # NoPid => pidof'[u] \in Pid /\ spawns[pidof'[u]] # 0
    BY <1>1, <1>2, <1>7
  <2>2. \A u \in Obj, k \in Kinds : pidof[u] = pidof'[u] /\ Copied(u, k)' = Copied(u, k)
    BY <1>7 DEF Copied
  <2> QED BY <1>7, <2>1, <2>2, ObjectsChange DEF Goal
<1>8. ASSUME NEW o \in Obj, UpdateObject(o) \/ BeginCpuUsage(o) PROVE Goal
  <2>1. UNCHANGED <<kernelVars, oldstate, billed, pidof, mem>>
    BY <1>8 DEF UpdateObject, needUpdate, BeginCpuUsage, vars, objectVars
  <2> QED BY <1>7, <2>1
<1>9. ASSUME NEW o \in Obj, NEW f \in {"stat", "io"}, PlainGet(o, f) PROVE Goal
  <2>1. Through(o, f) /\ pidof[o] # NoPid /\ UNCHANGED <<oldstate, billed>>
    BY <1>9 DEF PlainGet, Through, Get, Held, usageVars
  <2>2. PICK p \in Pid : p = pidof[o] BY <1>1, <2>1
  <2>3. /\ UNCHANGED <<kernelVars, pidof>>
        /\ \A q \in Obj, k \in Kinds : q # o \/ FileOf(k) # f => Copied(q, k)' = Copied(q, k)
        /\ \A k \in Kinds : FileOf(k) = f /\ Countable(p, f) =>
             Copied(o, k)' \in {Copied(o, k), Said(p, k)}
    BY <2>1, <2>2, ThroughReads
  <2>4. \A q \in Obj \ {o} : SameCopies(q) BY <2>3
  <2>5. pidof'[o] = pidof[o] /\ \A k \in Kinds :
          Countable(pidof[o], FileOf(k)) => Copied(o, k)' \in {Copied(o, k), Said(pidof[o], k)}
    BY <2>2, <2>3
  <2> QED BY <1>3, <2>1, <2>3, <2>4, <2>5
<1>10. CASE UNCHANGED allVars
  <2>1. UNCHANGED <<kernelVars, oldstate, billed, pidof, mem>>
    BY <1>10 DEF allVars, vars, objectVars, usageVars
  <2> QED BY <1>7, <2>1 DEF Goal
<1> QED BY <1>4, <1>5, <1>6, <1>8, <1>9, <1>10 DEF ObjectStep, Goal

\* A client step either computes no usage or computes one.
LEMMA ClientSteps ==
  ASSUME UsageTypeOK, UsageTypeOK', UsageClient
  PROVE  \/ ObjectStep
         \/ \E o \in Obj, p \in Pid, f \in {"stat", "io"} :
              p = pidof[o] /\ Through(o, f) /\ Computes(o, p, f)
<1>1. CASE EndCpuUsage
  <2>1. PICK o \in Obj, p \in Pid : o = call.obj /\ p = pidof[o] BY <1>1, Caller
  <2>2. Through(o, "stat") /\ Computes(o, p, "stat") BY <1>1, <2>1, EndComputes
  <2> QED BY <2>1, <2>2
<1>2. ASSUME NEW o \in Obj, NEW k \in {"ior", "iow"}, IoUsage(o, k)
      PROVE  \E p \in Pid : p = pidof[o] /\ Through(o, "io") /\ Computes(o, p, "io")
  <2>1. pidof[o] # NoPid BY <1>2 DEF IoUsage, Held
  <2>2. PICK p \in Pid : p = pidof[o] BY <2>1 DEF UsageTypeOK, TypeOK
  <2>3. Through(o, "io") /\ Computes(o, p, "io") BY <1>2, <2>2, IoComputes
  <2> QED BY <2>2, <2>3
<1>3. ASSUME NEW o \in Obj, NEW first \in {"ior", "iow"}, NEW second \in {"ior", "iow"},
             IoTotalUsage(o, first, second)
      PROVE  \E p \in Pid : p = pidof[o] /\ Through(o, "io") /\ Computes(o, p, "io")
  <2>1. Held(o) BY <1>3, Zenon DEF IoTotalUsage
  <2>2. PICK p \in Pid : p = pidof[o] BY <2>1 DEF Held, UsageTypeOK, TypeOK
  <2>3. Through(o, "io") /\ Computes(o, p, "io") BY <1>3, <2>2, IoTotalComputes
  <2> QED BY <2>2, <2>3
<1> QED BY <1>1, <1>2, <1>3 DEF UsageClient, ObjectStep

-----------------------------------------------------------------------------
\* One object of a process at a time.

LEMMA WatchInitInv == UsageInit => WatchInv
<1> SUFFICES ASSUME UsageInit PROVE WatchInv OBVIOUS
<1> USE DEF UsageInit, Init
<1>1. \A p \in Pid, k \in Kinds :
        /\ billed[p][k] = 0 /\ oldstate[p] = NoOld /\ \A o \in Obj : pidof[o] # p
        /\ ~Countable(p, FileOf(k))
  BY ConstantsAssumption DEF Countable, Readable
<1>2. \A o \in Obj : pidof[o] = NoPid
  OBVIOUS
<1>3. BillsInv
  BY ONLY <1>1 DEF BillsInv
<1> QED BY ONLY <1>2, <1>3 DEF WatchInv

LEMMA ComputingKeepsWatch ==
  ASSUME UsageTypeOK, UsageTypeOK', WatchInv, OneWatcher, NEW o \in Obj, NEW p \in Pid,
         p = pidof[o], NEW f \in {"stat", "io"}, Through(o, f), Computes(o, p, f)
  PROVE  WatchInv'
<1>1. /\ UNCHANGED <<kernelVars, pidof>>
      /\ \A q \in Obj, k \in Kinds : q # o => Copied(q, k)' = Copied(q, k)
      /\ \A k \in Kinds : FileOf(k) = f /\ Countable(p, f) =>
           Copied(o, k)' \in {Copied(o, k), Said(p, k)}
  BY ThroughReads
<1>2. BillsInv /\ p # NoPid
  BY ConstantsAssumption DEF WatchInv
<1>3. ASSUME NEW k \in Kinds, Countable(p, FileOf(k)) PROVE UpToDate(o, k)
  BY <1>2, <1>3 DEF WatchInv
<1>4. ASSUME NEW k \in Kinds, FileOf(k) = f, Countable(p, f)
      PROVE  AtMost(billed[p][k], Copied(o, k)') /\ AtMost(Left(p, k), Copied(o, k)')
  <2>1. AtMost(billed[p][k], Copied(o, k)) /\ AtMost(Left(p, k), Copied(o, k))
    BY <1>3, <1>4 DEF UpToDate
  <2>2. AtMost(billed[p][k], Said(p, k)) /\ AtMost(Left(p, k), Said(p, k))
    BY <1>2, <1>4 DEF BillsInv, Ledger
  <2> QED BY <1>1, <1>4, <2>1, <2>2 DEF AtMost
<1>5. /\ BillsInv'
      /\ \A k \in Kinds : Countable(p, FileOf(k)) =>
           AtMost(billed'[p][k], Copied(o, k)') /\ AtMost(Left(p, k)', Copied(o, k)')
  BY <1>2, <1>3, <1>4, ComputingKeepsBills
<1>6. \A g \in {"stat", "io"}, q \in Pid : Countable(q, g)' = Countable(q, g)
  BY <1>1 DEF kernelVars, Countable, Readable
<1>7. \A k \in Kinds : FileOf(k) \in {"stat", "io"}
  BY DEF FileOf
<1>8. ASSUME NEW q \in Obj, NEW k \in Kinds, pidof[q] # NoPid, Countable(pidof[q], FileOf(k))
      PROVE  UpToDate(q, k)'
  <2>1. CASE q = o BY <1>1, <1>5, <1>8, <2>1 DEF UpToDate
  <2>2. CASE q # o
    <3>1. PICK r \in Pid : r = pidof[q] BY <1>8 DEF UsageTypeOK, TypeOK
    <3>2. r # p BY <1>8, <2>2, <3>1 DEF OneWatcher
    <3>3. oldstate'[r] = oldstate[r] /\ billed'[r] = billed[r]
      BY <3>2 DEF Computes
    <3>4. Left(r, k)' = Left(r, k) BY <3>3 DEF Left
    <3>5. UpToDate(q, k) BY <1>8 DEF WatchInv
    <3> QED BY <1>1, <2>2, <3>1, <3>3, <3>4, <3>5 DEF UpToDate
  <2> QED BY <2>1, <2>2
<1> QED BY <1>1, <1>5, <1>6, <1>7, <1>8 DEF WatchInv, UsageTypeOK, TypeOK

LEMMA WatchStep ==
  ASSUME UsageTypeOK, UsageTypeOK', WatchInv, OneWatcher, [UsageNext]_allVars
  PROVE  WatchInv'
<1>1. CASE UsageKernel
  <2>1. BillsInv BY DEF WatchInv
  <2>2. /\ BillsInv'
        /\ \A o \in Obj, k \in Kinds :
             pidof[o] # NoPid /\ Countable(pidof[o], FileOf(k))' =>
               Countable(pidof[o], FileOf(k)) /\ UpToDate(o, k)' = UpToDate(o, k)
    BY <1>1, <2>1, KernelKeepsBills
  <2>3. pidof' = pidof BY <1>1, KernelMem
  <2>4. ASSUME NEW o \in Obj, NEW k \in Kinds, pidof'[o] # NoPid,
               Countable(pidof[o], FileOf(k))'
        PROVE  UpToDate(o, k)'
    BY <2>2, <2>3, <2>4 DEF WatchInv
  <2> QED BY <2>2, <2>4 DEF WatchInv
<1>2. CASE ObjectStep
  <2>1. BillsInv BY DEF WatchInv
  <2> QED BY <1>2, <2>1, ObjectStepKeepsBills DEF WatchInv
<1>3. ASSUME NEW o \in Obj, NEW p \in Pid, NEW f \in {"stat", "io"}, p = pidof[o],
             Through(o, f), Computes(o, p, f)
      PROVE  WatchInv'
  BY <1>3, ComputingKeepsWatch
<1>4. UNCHANGED allVars => ObjectStep
  BY DEF ObjectStep
<1>5. UsageClient => WatchInv'
  BY <1>2, <1>3, ClientSteps
<1> QED BY <1>1, <1>2, <1>4, <1>5 DEF UsageNext

\* However often and in whatever order the usages of a process are computed,
\* and whatever open() fails, what they add up to stays in the entry of the
\* pid, the entry in the file, and every copy that may be used again is not
\* older than the entry - for a client with one object of each process.
THEOREM WatchedInvariant == WatchedSpec => []WatchInv
<1>1. UsageInit => OneWatcher
  BY DEF UsageInit, Init, OneWatcher
<1>2. OneWatcher /\ [UsageNext /\ OneWatcher']_allVars => OneWatcher'
  BY DEF OneWatcher, allVars, vars, objectVars
<1>3. UsageTypeOK /\ [UsageNext /\ OneWatcher']_allVars => UsageTypeOK'
  BY UsageStepType
<1>4. UsageTypeOK /\ UsageTypeOK' /\ OneWatcher /\ WatchInv
        /\ [UsageNext /\ OneWatcher']_allVars => WatchInv'
  BY WatchStep
<1> QED BY <1>1, <1>2, <1>3, <1>4, UsageInitType, WatchInitInv, PTL DEF WatchedSpec

LEMMA BillsWithinFiles == UsageTypeOK /\ BillsInv => NoTickCountedTwice /\ NoByteCountedTwice
<1> SUFFICES ASSUME BillsInv, NEW p \in Pid
             PROVE  /\ Countable(p, "stat") =>
                         AtMost(billed[p]["cpu"], file[p]["stat"].line)
                    /\ Countable(p, "io") => /\ AtMost(billed[p]["ior"], file[p]["io"].rb)
                                            /\ AtMost(billed[p]["iow"], file[p]["io"].wb)
  BY DEF NoTickCountedTwice, NoByteCountedTwice
<1>1. \A k \in Kinds : Countable(p, FileOf(k)) => AtMost(billed[p][k], Said(p, k))
  BY DEF BillsInv, Ledger
<1> QED BY <1>1 DEF FileOf, Said, Counter, Kinds

\* The usages reported to a client with one object of each process do not add
\* up to more ticks than the process has run, unless one of them was made from
\* a value nothing wrote (cpuUsage() after an io usage, or a failed open):
\* nothing is said of the sum then.  WatchedSums says when there is none. ...
THEOREM WatchedTicks == WatchedSpec => []NoTickCountedTwice
<1>1. WatchInv => BillsInv BY DEF WatchInv
<1>2. UsageTypeOK /\ [UsageNext /\ OneWatcher']_allVars => UsageTypeOK'
  BY UsageStepType
<1> QED BY <1>1, <1>2, BillsWithinFiles, WatchedInvariant, UsageInitType, PTL DEF WatchedSpec

\* ... Nor do they add up to more bytes than it has transferred, with the same
\* exception (an io usage after cpuUsage(), or after a first reading that
\* failed).
THEOREM WatchedBytes == WatchedSpec => []NoByteCountedTwice
<1>1. WatchInv => BillsInv BY DEF WatchInv
<1>2. UsageTypeOK /\ [UsageNext /\ OneWatcher']_allVars => UsageTypeOK'
  BY UsageStepType
<1> QED BY <1>1, <1>2, BillsWithinFiles, WatchedInvariant, UsageInitType, PTL DEF WatchedSpec

\* Such a client uses the cache as ProcessInfo allows.
THEOREM WatchedRefines == WatchedSpec => Spec
<1>1. WatchedSpec => UsageSpec BY PTL DEF WatchedSpec, UsageSpec
<1> QED BY <1>1, UsageRefines

-----------------------------------------------------------------------------
\* Any number of objects, each file read through one getter only: a usage that
\* is due reads the file again.

\* The getters that compute a usage.
UsedBy == [cpu |-> {"cpu"}, ior |-> {"ioread", "iototal"}, iow |-> {"iowrite", "iototal"}]

Computed(k) == UsedBy[k] \cap Calls # {}

FreshOnly ==
  /\ OpenMayFail = FALSE
  /\ \A c, d \in {"stat", "cpu"} \cap Calls : c = d
  /\ \A c, d \in {"io", "ioread", "iowrite", "iototal"} \cap Calls : c = d

DueWillRead ==
  /\ \A o \in Obj, k \in Kinds :
       pidof[o] # NoPid /\ Computed(k) /\ k \in due[o] => FileOf(k) \in dirty[o]
  /\ call # NoCall => "cpu" \in due[call.obj] /\ "cpu" \in Calls

FreshInv == BillsInv /\ DueWillRead

LEMMA ComputesFresh ==
  ASSUME FreshOnly, UsageTypeOK, UsageTypeOK', BillsInv, NEW o \in Obj, NEW p \in Pid,
         p = pidof[o], NEW f \in {"stat", "io"}, Through(o, f), Computes(o, p, f), f \in dirty[o]
  PROVE  BillsInv'
<1>1. ASSUME NEW k \in Kinds, FileOf(k) = f, Countable(p, f)
      PROVE  AtMost(billed[p][k], Copied(o, k)') /\ AtMost(Left(p, k), Copied(o, k)')
  <2>0. ~OpenMayFail BY DEF FreshOnly
  <2>1. Copied(o, k)' = Said(p, k) BY <1>1, <2>0, ThroughReads
  <2>2. AtMost(billed[p][k], Said(p, k)) /\ AtMost(Left(p, k), Said(p, k))
    BY <1>1 DEF BillsInv, Ledger
  <2> QED BY <2>1, <2>2 DEF AtMost
<1> QED BY <1>1, ComputingKeepsBills

LEMMA FreshUsageStep ==
  ASSUME FreshOnly, UsageTypeOK, UsageTypeOK', FreshInv, NEW o \in Obj, pidof[o] # NoPid,
         NEW f \in {"stat", "io"}, Through(o, f), NEW due1 \in SUBSET Kinds,
         due' = [due EXCEPT ![o] = due1], due1 \subseteq due[o],
         \A k \in Kinds : Computed(k) /\ FileOf(k) = f => k \notin due1
  PROVE  \A u \in Obj, k \in Kinds :
           pidof'[u] # NoPid /\ Computed(k) /\ k \in due'[u] => FileOf(k) \in dirty'[u]
<1>1. PICK p \in Pid : p = pidof[o] BY DEF UsageTypeOK, TypeOK
<1>2. pidof' = pidof /\ dirty' = [dirty EXCEPT ![o] = dirty[o] \ {f}]
  BY <1>1, ThroughReads
<1>3. due'[o] = due1 /\ \A u \in Obj \ {o} : due'[u] = due[u] /\ dirty'[u] = dirty[u]
  BY <1>2 DEF UsageTypeOK, TypeOK
<1>4. dirty'[o] = dirty[o] \ {f} BY <1>2 DEF UsageTypeOK, TypeOK
<1> QED BY <1>2, <1>3, <1>4 DEF FreshInv, DueWillRead

LEMMA FreshInitInv == UsageInit => FreshInv
<1>1. UsageInit => DueWillRead
  BY DEF UsageInit, Init, DueWillRead
<1>2. WatchInv => BillsInv
  BY DEF WatchInv
<1> QED BY <1>1, <1>2, WatchInitInv DEF FreshInv

\* Which getters compute which usage.
LEMMA UsedByFacts ==
  /\ Computed("cpu") <=> "cpu" \in Calls
  /\ Computed("ior") <=> "ioread" \in Calls \/ "iototal" \in Calls
  /\ Computed("iow") <=> "iowrite" \in Calls \/ "iototal" \in Calls
  /\ FileOf("cpu") = "stat" /\ FileOf("ior") = "io" /\ FileOf("iow") = "io"
BY DEF Computed, UsedBy, FileOf

LEMMA FreshEnd ==
  ASSUME FreshOnly, UsageTypeOK, UsageTypeOK', FreshInv, EndCpuUsage PROVE FreshInv'
<1>1. PICK o \in Obj, p \in Pid : o = call.obj /\ p = pidof[o] BY Caller
<1>2. Through(o, "stat") /\ Computes(o, p, "stat") BY <1>1, EndComputes
<1>3. call # NoCall /\ pidof[o] # NoPid
  BY <1>1, ConstantsAssumption DEF EndCpuUsage, Quiet
<1>4. "cpu" \in due[o] /\ "cpu" \in Calls
  BY <1>1, <1>3 DEF FreshInv, DueWillRead
<1>5. "stat" \in dirty[o]
  BY <1>3, <1>4, UsedByFacts DEF FreshInv, DueWillRead, Kinds
<1>6. BillsInv'
  BY <1>1, <1>2, <1>5, ComputesFresh DEF FreshInv
<1>7. due' = [due EXCEPT ![o] = due[o] \ {"cpu"}] /\ call' = NoCall
  BY <1>1 DEF EndCpuUsage
<1>8. due[o] \in SUBSET Kinds
  BY DEF UsageTypeOK
<1>9. \A u \in Obj, k \in Kinds :
        pidof'[u] # NoPid /\ Computed(k) /\ k \in due'[u] => FileOf(k) \in dirty'[u]
  <2>1. \A k \in Kinds : Computed(k) /\ FileOf(k) = "stat" => k \notin due[o] \ {"cpu"}
    BY DEF FileOf
  <2> QED BY <1>2, <1>3, <1>7, <1>8, <2>1, FreshUsageStep
<1> QED BY <1>6, <1>7, <1>9 DEF FreshInv, DueWillRead

\* An io usage of the kinds in todo.
LEMMA FreshIo ==
  ASSUME FreshOnly, UsageTypeOK, UsageTypeOK', FreshInv, NEW o \in Obj, NEW p \in Pid,
         p = pidof[o], Through(o, "io"), Computes(o, p, "io"), call = NoCall, call' = call,
         NEW todo \in SUBSET {"ior", "iow"}, todo \cap due[o] # {},
         due' = [due EXCEPT ![o] = due[o] \ todo], \A k \in todo : Computed(k),
         \A k \in {"ior", "iow"} : Computed(k) => k \in todo \/ k \notin due[o]
  PROVE  FreshInv'
<1>1. PICK k \in todo : k \in due[o] OBVIOUS
<1>2. "io" \in dirty[o] /\ pidof[o] # NoPid
  BY <1>1, UsedByFacts, ConstantsAssumption DEF FreshInv, DueWillRead, Kinds
<1>3. BillsInv'
  BY <1>2, ComputesFresh DEF FreshInv
<1>4. due[o] \in SUBSET Kinds
  BY DEF UsageTypeOK
<1>5. \A u \in Obj, j \in Kinds :
        pidof'[u] # NoPid /\ Computed(j) /\ j \in due'[u] => FileOf(j) \in dirty'[u]
  <2>1. \A j \in Kinds : Computed(j) /\ FileOf(j) = "io" => j \notin due[o] \ todo
    BY UsedByFacts DEF Kinds
  <2> QED BY <1>2, <1>4, <2>1, FreshUsageStep
<1> QED BY <1>3, <1>5 DEF FreshInv, DueWillRead

LEMMA FreshObjectStep ==
  ASSUME FreshOnly, UsageTypeOK, UsageTypeOK', FreshInv, ObjectStep PROVE FreshInv'
<1>1. BillsInv' BY ObjectStepKeepsBills DEF FreshInv
<1>2. /\ dirty \in [Obj -> SUBSET Files] /\ due \in [Obj -> SUBSET Kinds]
      /\ pidof \in [Obj -> Pid \cup {NoPid}]
  BY DEF UsageTypeOK, TypeOK
<1>3. \A k \in Kinds : FileOf(k) \in Files
  BY DEF FileOf, Files
<1>4. /\ \A u \in Obj, k \in Kinds :
           pidof[u] # NoPid /\ Computed(k) /\ k \in due[u] => FileOf(k) \in dirty[u]
      /\ call # NoCall => "cpu" \in due[call.obj] /\ "cpu" \in Calls
  BY DEF FreshInv, DueWillRead
<1>5. ASSUME NEW o \in Obj, NEW p \in Pid, NewObject(o, p) PROVE DueWillRead'
  <2>1. /\ dirty' = [dirty EXCEPT ![o] = Files] /\ call = NoCall /\ call' = call
        /\ due' = [due EXCEPT ![o] = Kinds] /\ pidof' = [pidof EXCEPT ![o] = p]
    BY <1>5 DEF NewObject, Construct, Quiet
  <2> QED BY <1>2, <1>3, <1>4, <2>1 DEF DueWillRead
<1>6. ASSUME NEW o \in Obj, NEW q \in Obj, CopyObject(o, q) PROVE DueWillRead'
  <2>1. /\ dirty' = [dirty EXCEPT ![q] = dirty[o]] /\ call = NoCall /\ call' = call
        /\ due' = [due EXCEPT ![q] = due[o]] /\ pidof' = [pidof EXCEPT ![q] = pidof[o]]
    BY <1>6 DEF CopyObject, Copy, Quiet
  <2> QED BY <1>2, <1>4, <2>1 DEF DueWillRead
<1>7. ASSUME NEW o \in Obj, DeleteObject(o) PROVE DueWillRead'
  <2>1. /\ dirty' = [dirty EXCEPT ![o] = {}] /\ call = NoCall /\ call' = call
        /\ due' = [due EXCEPT ![o] = {}] /\ pidof' = [pidof EXCEPT ![o] = NoPid]
    BY <1>7 DEF DeleteObject, Destroy, Quiet
  <2> QED BY <1>2, <1>4, <2>1 DEF DueWillRead
<1>8. ASSUME NEW o \in Obj, UpdateObject(o) PROVE DueWillRead'
  <2>1. /\ dirty' = [dirty EXCEPT ![o] = Files] /\ call = NoCall /\ call' = call
        /\ due' = [due EXCEPT ![o] = Kinds] /\ pidof' = pidof
    BY <1>8 DEF UpdateObject, needUpdate, Quiet
  <2> QED BY <1>2, <1>3, <1>4, <2>1 DEF DueWillRead
<1>9. ASSUME NEW o \in Obj, BeginCpuUsage(o) PROVE DueWillRead'
  <2>1. "cpu" \in Calls /\ "cpu" \in due[o] /\ UNCHANGED <<due, dirty, pidof>>
    BY <1>9 DEF BeginCpuUsage, vars, objectVars
  <2>2. call'.obj = o BY <1>9 DEF BeginCpuUsage
  <2> QED BY <1>4, <2>1, <2>2 DEF DueWillRead
<1>10. ASSUME NEW o \in Obj, NEW f \in {"stat", "io"}, PlainGet(o, f) PROVE DueWillRead'
  <2>1. /\ f \in Calls /\ UNCHANGED <<due, pidof>> /\ call = NoCall /\ call' = call
        /\ dirty' = [dirty EXCEPT ![o] = dirty[o] \ {f}]
    BY <1>10 DEF PlainGet, Get, Refresh, Quiet, usageVars
  <2>2. \A k \in Kinds : Computed(k) => FileOf(k) # f
    BY <2>1, UsedByFacts DEF FreshOnly, Kinds
  <2> QED BY <1>2, <1>4, <2>1, <2>2 DEF DueWillRead
<1>11. CASE UNCHANGED allVars
  <2>1. UNCHANGED <<pidof, dirty, due, call>>
    BY <1>11 DEF allVars, vars, objectVars, usageVars
  <2>2. DueWillRead'
    BY <1>4, <2>1 DEF DueWillRead
  <2> QED BY <1>1, <2>2 DEF FreshInv
<1> QED BY <1>1, <1>5, <1>6, <1>7, <1>8, <1>9, <1>10, <1>11 DEF ObjectStep, FreshInv

LEMMA FreshKept ==
  ASSUME FreshOnly, UsageTypeOK, UsageTypeOK', FreshInv, [UsageNext]_allVars PROVE FreshInv'
<1>1. CASE UsageKernel
  <2>1. UNCHANGED <<pidof, dirty, due, call>> BY <1>1, KernelMem
  <2>2. BillsInv' BY <1>1, KernelKeepsBills DEF FreshInv
  <2>3. DueWillRead' BY <2>1 DEF FreshInv, DueWillRead
  <2> QED BY <2>2, <2>3 DEF FreshInv
<1>2. CASE ObjectStep BY <1>2, FreshObjectStep
<1>3. CASE EndCpuUsage BY <1>3, FreshEnd
<1>4. ASSUME NEW o \in Obj, NEW k \in {"ior", "iow"}, IoUsage(o, k) PROVE FreshInv'
  <2>1. /\ [ior |-> "ioread", iow |-> "iowrite"][k] \in Calls /\ k \in due[o]
        /\ due' = [due EXCEPT ![o] = due[o] \ {k}]
        /\ call = NoCall /\ call' = call /\ pidof[o] # NoPid
    BY <1>4 DEF IoUsage, Quiet, Held
  <2>2. PICK p \in Pid : p = pidof[o] BY <2>1 DEF UsageTypeOK, TypeOK
  <2>3. Through(o, "io") /\ Computes(o, p, "io") BY <1>4, <2>2, IoComputes
  <2>4. /\ k = "ior" => "ioread" \in Calls
        /\ k = "iow" => "iowrite" \in Calls
    BY <2>1
  <2>5. Computed(k) /\ \A j \in {"ior", "iow"} : Computed(j) => j = k
    BY <2>4, UsedByFacts DEF FreshOnly
  <2>6. {k} \in SUBSET {"ior", "iow"} /\ {k} \cap due[o] # {} BY <2>1
  <2>7. /\ \A j \in {k} : Computed(j)
        /\ \A j \in {"ior", "iow"} : Computed(j) => j \in {k} \/ j \notin due[o]
    BY <2>5
  <2> QED BY <2>1, <2>2, <2>3, <2>6, <2>7, FreshIo
<1>5. ASSUME NEW o \in Obj, NEW first \in {"ior", "iow"}, NEW second \in {"ior", "iow"},
             IoTotalUsage(o, first, second)
      PROVE  FreshInv'
  <2> DEFINE todo == {first, second} \cap due[o]
  <2>1. /\ "iototal" \in Calls /\ todo # {} /\ {first, second} = {"ior", "iow"}
        /\ due' = [due EXCEPT ![o] = due[o] \ todo]
        /\ call = NoCall /\ call' = call /\ pidof[o] # NoPid
    BY <1>5 DEF IoTotalUsage, Quiet, Held
  <2>2. PICK p \in Pid : p = pidof[o] BY <2>1 DEF UsageTypeOK, TypeOK
  <2>3. Through(o, "io") /\ Computes(o, p, "io") BY <1>5, <2>2, IoTotalComputes
  <2>4. /\ todo \in SUBSET {"ior", "iow"} /\ todo \cap due[o] # {}
        /\ \A j \in {"ior", "iow"} : Computed(j) /\ (j \in todo \/ j \notin due[o])
    BY <2>1, UsedByFacts
  <2>5. /\ \A k \in todo : Computed(k)
        /\ \A k \in {"ior", "iow"} : Computed(k) => k \in todo \/ k \notin due[o]
    BY <2>4
  <2>6. /\ todo \in SUBSET {"ior", "iow"} /\ todo \cap due[o] # {}
        /\ due' = [due EXCEPT ![o] = due[o] \ todo] /\ call = NoCall /\ call' = call
    BY <2>1, <2>4
  <2> HIDE DEF todo
  <2> QED BY <2>2, <2>3, <2>5, <2>6, FreshIo
<1>6. UNCHANGED allVars => FreshInv'
  BY <1>2 DEF ObjectStep
<1>7. UsageClient => FreshInv'
  <2>1. ASSUME UsageClient
        PROVE  \/ ObjectStep \/ EndCpuUsage
               \/ \E o \in Obj, k \in {"ior", "iow"} : IoUsage(o, k)
               \/ \E o \in Obj, first, second \in {"ior", "iow"} : IoTotalUsage(o, first, second)
    BY <2>1 DEF UsageClient, ObjectStep
  <2> QED BY <1>2, <1>3, <1>4, <1>5, <2>1
<1>8. UsageNext => FreshInv'
  BY <1>1, <1>7 DEF UsageNext
<1>9. UsageNext \/ UNCHANGED allVars
  OBVIOUS
<1> QED BY <1>6, <1>8, <1>9

LEMMA FreshInvariant == ASSUME FreshOnly PROVE UsageSpec => []FreshInv
<1>1. UsageTypeOK /\ UsageTypeOK' /\ FreshInv /\ [UsageNext]_allVars => FreshInv'
  BY FreshKept
<1> QED BY <1>1, FreshInitInv, UsageTypeCorrect, PTL DEF UsageSpec

\* A client that reads the stat file through one getter only and the io file
\* through one getter only, on any number of objects and with every file
\* opening, is told of no tick twice, with the same exception, ...
THEOREM FreshTicks == ASSUME FreshOnly PROVE UsageSpec => []NoTickCountedTwice
<1>1. FreshInv => BillsInv BY DEF FreshInv
<1> QED BY <1>1, BillsWithinFiles, FreshInvariant, UsageTypeCorrect, PTL

\* ... and of no byte twice.  FreshSums is without the exception.
THEOREM FreshBytes == ASSUME FreshOnly PROVE UsageSpec => []NoByteCountedTwice
<1>1. FreshInv => BillsInv BY DEF FreshInv
<1> QED BY <1>1, BillsWithinFiles, FreshInvariant, UsageTypeCorrect, PTL

-----------------------------------------------------------------------------
\* What is computed is known, when the computed getters all use one file.

OneFile ==
  /\ OpenMayFail = FALSE
  /\ \A j, k \in Kinds : Computed(j) /\ Computed(k) => FileOf(j) = FileOf(k)

Known(r) == Unset \notin {r.num, r.den}

\* A copy that is clean was read, a usage that is computed never was due
\* without a getter for it, and one that has been computed is known.
KnownObject(o) ==
  pidof[o] # NoPid =>
    /\ spawns[pidof[o]] # 0
    /\ \A k \in Kinds :
         /\ ~Computed(k) => k \in due[o]
         /\ Countable(pidof[o], FileOf(k)) =>
              /\ FileOf(k) \notin dirty[o] => Copied(o, k) # Unset
              /\ k \notin due[o] => Known(usage[o][k])

\* The entry of a pid holds all that the next usage is computed from.
KnownEntry(p) ==
  /\ spawns[p] = 0 => oldstate[p] = NoOld
  /\ \A k \in Kinds :
       Computed(k) /\ Countable(p, FileOf(k)) /\ oldstate[p] # NoOld =>
         Left(p, k) # Unset /\ (k = "cpu" => oldstate[p].cpu # Unset)

KnownCall == call # NoCall => call.total # Unset /\ "cpu" \in Calls

KnownInv ==
  /\ \A o \in Obj : KnownObject(o)
  /\ \A p \in Pid : KnownEntry(p)
  /\ KnownCall
  /\ SumsDeterminate

LEMMA KnownMinus ==
  ASSUME NEW a \in Int, NEW b \in Int PROVE Minus(a, b) # Unset
<1>1. a # Unset /\ b # Unset BY Numbers
<1>2. Minus(a, b) \in (0 .. Word - 1) \cup {Unset} /\ Minus(a, b) = (a - b) % Word
  BY <1>1, MinusType DEF Minus
<1>3. (a - b) % Word \in Int
  <2>1. Word \in Nat /\ Word > 0 BY ConstantsAssumption, UsageAssumption
  <2> QED BY <2>1
<1> QED BY <1>2, <1>3, Numbers

LEMMA KnownQuotient ==
  ASSUME NEW n, NEW d, n # Unset, d # Unset PROVE Known(Quotient(n, d))
<1>1. 0 # Unset /\ 1 # Unset BY Numbers
<1> QED BY <1>1 DEF Quotient, Zero, Known

\* A usage computed from what is known is known.
LEMMA KnownIoRate ==
  ASSUME NEW k \in {"ior", "iow"}, NEW old \in Baseline \cup {NoOld}, NEW io \in Member("io"),
         io[Counter[k]] # Unset, old # NoOld => old.io[Counter[k]] # Unset
  PROVE  Known(IoRate(k, old, io))
<1>1. Counter[k] \in {"rb", "wb"} BY DEF Counter
<1>2. CASE old = NoOld
  <2>1. Known(Zero) BY Numbers DEF Known, Zero
  <2> QED BY <1>2, <2>1 DEF IoRate
<1>3. CASE old # NoOld
  <2>1. old.io \in Member("io") BY <1>3 DEF Baseline
  <2>2. /\ io[Counter[k]] \in Int /\ old.io[Counter[k]] \in Int
        /\ io.at \in Nat /\ old.io.at \in Nat
    BY <1>1, <1>3, <2>1, ValInt DEF Member
  <2>3. Minus(io[Counter[k]], old.io[Counter[k]]) # Unset BY <2>2, KnownMinus
  <2>4. io.at - old.io.at \in Int BY <2>2
  <2>5. io.at - old.io.at # Unset BY <2>4, Numbers
  <2> QED BY <1>3, <2>3, <2>5, KnownQuotient DEF IoRate
<1> QED BY <1>2, <1>3

LEMMA KnownCpuRate ==
  ASSUME NEW old \in Baseline \cup {NoOld}, NEW total \in 0 .. MaxTotal, NEW ticks \in Val,
         old # NoOld => old.cpu # Unset /\ old.proc # Unset
  PROVE  Known(CpuRate(old, total, ticks))
<1>1. CASE old = NoOld
  <2>1. Known(Zero) BY Numbers DEF Known, Zero
  <2> QED BY <1>1, <2>1 DEF CpuRate
<1>2. CASE old # NoOld
  <2>1. old.cpu \in Int /\ old.proc \in Int /\ total \in Int /\ ticks \in Int
    BY <1>2, ValInt DEF Baseline
  <2>2. Minus(ticks, old.proc) # Unset /\ Minus(total, old.cpu) # Unset
    BY <2>1, KnownMinus
  <2> QED BY <1>2, <2>2, KnownQuotient DEF CpuRate
<1> QED BY <1>1, <1>2

\* Such a usage leaves the sums known.
LEMMA KnownBill ==
  ASSUME UsageTypeOK, SumsDeterminate, NEW p \in Pid, NEW k \in Kinds, NEW r \in Reading,
         Countable(p, FileOf(k)) => Known(r)
  PROVE  \A q \in Pid, j \in Kinds : Bill(billed, p, k, r)[q][j] # Unset
<1>1. billed \in [Pid -> [Kinds -> Nat \cup {Unset}]]
  BY DEF UsageTypeOK
<1>2. CASE ~Countable(p, FileOf(k)) BY <1>2 DEF Bill, SumsDeterminate
<1>3. CASE Countable(p, FileOf(k))
  <2>1. r.num \in Nat /\ billed[p][k] \in Nat /\ Unset \notin {billed[p][k], r.num, r.den}
    BY <1>1, <1>3, Numbers DEF SumsDeterminate, Known, Reading
  <2>2. Bill(billed, p, k, r) = [billed EXCEPT ![p][k] = billed[p][k] + r.num]
    BY <1>1, <1>3, <2>1 DEF Bill
  <2>3. billed[p][k] + r.num # Unset
    <3>1. billed[p][k] + r.num \in Int BY <2>1
    <3> QED BY <3>1, Numbers
  <2>4. \A q \in Pid, j \in Kinds :
          Bill(billed, p, k, r)[q][j] = IF q = p /\ j = k THEN billed[p][k] + r.num
                                        ELSE billed[q][j]
    BY <1>1, <2>2
  <2> QED BY <2>3, <2>4 DEF SumsDeterminate
<1> QED BY <1>2, <1>3

LEMMA KnownInit == UsageInit => KnownInv
<1>1. UsageInit => KnownCall BY DEF UsageInit, KnownCall
<1>2. UsageInit => \A o \in Obj : KnownObject(o) BY DEF UsageInit, Init, KnownObject
<1>3. UsageInit => \A p \in Pid : KnownEntry(p) BY DEF UsageInit, KnownEntry
<1>4. UsageInit => SumsDeterminate
  <2>1. 0 # Unset BY Numbers
  <2> QED BY <2>1 DEF UsageInit, SumsDeterminate
<1> QED BY <1>1, <1>2, <1>3, <1>4 DEF KnownInv

LEMMA KernelKeepsKnown ==
  ASSUME UsageTypeOK, KnownInv, UsageKernel PROVE KnownInv'
<1>1. UNCHANGED <<oldstate, due, usage, call, billed, pidof, dirty, mem>>
  BY KernelMem
<1>2. UsageTypeOK' BY UsageStepType DEF UsageNext
<1>3. \A p \in Pid : spawns[p] \in Nat /\ spawns'[p] \in Nat /\ spawns[p] <= spawns'[p]
  <2>1. \A p \in Pid : spawns[p] \in 0 .. MaxSpawns /\ spawns'[p] \in 0 .. MaxSpawns
    BY <1>2 DEF UsageTypeOK, TypeOK
  <2>2. MaxSpawns \in Nat BY ConstantsAssumption
  <2> QED BY <2>1, <2>2, KernelFrame
<1>4. \A p \in Pid : spawns'[p] = 0 => spawns[p] = 0 BY <1>3
<1>5. \A p \in Pid, k \in Kinds :
        Countable(p, FileOf(k))' => spawns[p] = 0 \/ Countable(p, FileOf(k))
  BY KernelSays
<1>6. \A o \in Obj, p \in Pid, k \in Kinds :
        Copied(o, k)' = Copied(o, k) /\ Left(p, k)' = Left(p, k)
  BY <1>1 DEF Copied, Left
<1>7. ASSUME NEW o \in Obj PROVE KnownObject(o)'
  <2> SUFFICES ASSUME pidof[o] # NoPid PROVE KnownObject(o)' BY <1>1 DEF KnownObject
  <2>1. PICK p \in Pid : p = pidof[o] BY DEF UsageTypeOK, TypeOK
  <2>2. KnownObject(o) /\ spawns[p] # 0 BY <2>1 DEF KnownInv, KnownObject
  <2> QED BY <1>1, <1>4, <1>5, <1>6, <2>1, <2>2 DEF KnownObject
<1>8. ASSUME NEW p \in Pid PROVE KnownEntry(p)'
  <2>1. KnownEntry(p) BY DEF KnownInv
  <2>2. spawns'[p] = 0 => oldstate'[p] = NoOld BY <1>1, <1>4, <2>1 DEF KnownEntry
  <2>3. ASSUME NEW k \in Kinds, Computed(k), Countable(p, FileOf(k))', oldstate'[p] # NoOld
        PROVE  Left(p, k)' # Unset /\ (k = "cpu" => oldstate'[p].cpu # Unset)
    <3>1. oldstate[p] # NoOld /\ oldstate'[p] = oldstate[p] BY <1>1, <2>3
    <3>2. Countable(p, FileOf(k)) BY <1>5, <2>1, <2>3, <3>1 DEF KnownEntry
    <3>3. Left(p, k) # Unset /\ (k = "cpu" => oldstate[p].cpu # Unset)
      BY <2>1, <2>3, <3>1, <3>2 DEF KnownEntry
    <3>4. Left(p, k)' = Left(p, k)
      BY <1>1 DEF Left
    <3> QED BY <3>1, <3>3, <3>4
  <2> QED BY <2>2, <2>3 DEF KnownEntry, Computed
<1> QED BY <1>1, <1>7, <1>8 DEF KnownInv, KnownCall, SumsDeterminate

\* An object that is left alone keeps what is known of it.
LEMMA KnownAsBefore ==
  ASSUME UsageTypeOK, UNCHANGED kernelVars, NEW o \in Obj, NEW q \in Obj, KnownObject(q),
         pidof'[o] = pidof[q], dirty'[o] = dirty[q], due'[o] = due[q], usage'[o] = usage[q],
         \A k \in Kinds : Copied(o, k)' = Copied(q, k)
  PROVE  KnownObject(o)'
BY DEF KnownObject, kernelVars, Countable, Readable, Computed

LEMMA EntriesAsBefore ==
  ASSUME KnownInv, UNCHANGED <<kernelVars, oldstate>> PROVE \A p \in Pid : KnownEntry(p)'
BY DEF KnownInv, KnownEntry, kernelVars, Countable, Readable, Left, Computed

\* What a getter of file f gives, when it can open the file.
LEMMA ThroughKnows ==
  ASSUME OneFile, UsageTypeOK, KnownInv, NEW o \in Obj, NEW p \in Pid, p = pidof[o],
         NEW f \in {"stat", "io"}, Through(o, f)
  PROVE  /\ \A k \in Kinds :
              Countable(p, FileOf(k)) /\ FileOf(k) \notin dirty'[o] => Copied(o, k)' # Unset
         /\ f \notin dirty'[o]
<1>1. dirty' = [dirty EXCEPT ![o] = dirty[o] \ {f}] BY ThroughReads
<1>2. dirty'[o] = dirty[o] \ {f} BY <1>1 DEF UsageTypeOK, TypeOK
<1>3. /\ \A k \in Kinds : FileOf(k) # f => Copied(o, k)' = Copied(o, k)
      /\ \A k \in Kinds : FileOf(k) = f /\ Countable(p, f) =>
           /\ Copied(o, k)' \in {Copied(o, k), Said(p, k)}
           /\ ~OpenMayFail /\ f \in dirty[o] => Copied(o, k)' = Said(p, k)
  BY ThroughReads
<1>4. ~OpenMayFail BY DEF OneFile
<1>5. \A k \in Kinds :
        Countable(p, FileOf(k)) /\ FileOf(k) \notin dirty[o] => Copied(o, k) # Unset
  BY ConstantsAssumption DEF KnownInv, KnownObject
<1>6. \A k \in Kinds : Countable(p, FileOf(k)) => Said(p, k) # Unset
  BY SaidType, Numbers
<1> QED BY <1>2, <1>3, <1>4, <1>5, <1>6

LEMMA KnownObjectStep ==
  ASSUME OneFile, UsageTypeOK, UsageTypeOK', KnownInv, ObjectStep PROVE KnownInv'
<1>1. /\ pidof \in [Obj -> Pid \cup {NoPid}] /\ dirty \in [Obj -> SUBSET Files]
      /\ due \in [Obj -> SUBSET Kinds] /\ usage \in [Obj -> [Kinds -> Reading]]
      /\ DOMAIN mem = Obj
  BY DEF UsageTypeOK, TypeOK, MemOK
<1>2. /\ \A o \in Obj : KnownObject(o)
      /\ call # NoCall => call.total # Unset /\ "cpu" \in Calls
  BY DEF KnownInv, KnownCall
<1>3. \A k \in Kinds : FileOf(k) \in Files
  BY DEF FileOf, Files
<1> DEFINE Alone(o) == /\ pidof'[o] = pidof[o] /\ dirty'[o] = dirty[o] /\ due'[o] = due[o]
                       /\ usage'[o] = usage[o] /\ \A k \in Kinds : Copied(o, k)' = Copied(o, k)
<1>4. ASSUME UNCHANGED <<kernelVars, oldstate, billed>>, call' = call \/ KnownCall', NEW o \in Obj,
             KnownObject(o)', \A q \in Obj \ {o} : Alone(q)
      PROVE  KnownInv'
  <2>1. \A q \in Obj \ {o} : KnownObject(q)' BY <1>2, <1>4, KnownAsBefore
  <2>2. KnownCall' BY <1>2, <1>4 DEF KnownCall
  <2>3. SumsDeterminate' BY <1>4 DEF KnownInv, SumsDeterminate
  <2> QED BY <1>4, <2>1, <2>2, <2>3, EntriesAsBefore DEF KnownInv
<1>5. ASSUME NEW o \in Obj, NEW p \in Pid, NewObject(o, p) PROVE KnownInv'
  <2>1. /\ UNCHANGED <<kernelVars, oldstate, call, billed>> /\ spawns[p] > 0
        /\ pidof' = [pidof EXCEPT ![o] = p] /\ dirty' = [dirty EXCEPT ![o] = Files]
        /\ mem' = [mem EXCEPT ![o] = [f \in Files |-> FreshMember(f)]]
        /\ due' = [due EXCEPT ![o] = Kinds] /\ usage' = [usage EXCEPT ![o] = FreshUsage]
    BY <1>5 DEF NewObject, Construct
  <2>2. /\ pidof'[o] = p /\ dirty'[o] = Files /\ due'[o] = Kinds
        /\ spawns'[p] # 0
    BY <1>1, <2>1 DEF kernelVars, UsageTypeOK, TypeOK
  <2>3. KnownObject(o)' BY <1>3, <2>2 DEF KnownObject
  <2>4. \A q \in Obj \ {o} : Alone(q) BY <1>1, <2>1 DEF Copied
  <2> QED BY <1>4, <2>1, <2>3, <2>4
<1>6. ASSUME NEW o \in Obj, NEW q \in Obj, CopyObject(o, q) PROVE KnownInv'
  <2>1. /\ UNCHANGED <<kernelVars, oldstate, call, billed>>
        /\ pidof' = [pidof EXCEPT ![q] = pidof[o]] /\ dirty' = [dirty EXCEPT ![q] = dirty[o]]
        /\ mem' = [mem EXCEPT ![q] = mem[o]]
        /\ due' = [due EXCEPT ![q] = due[o]] /\ usage' = [usage EXCEPT ![q] = usage[o]]
    BY <1>6 DEF CopyObject, Copy
  <2>2. KnownObject(q)'
    <3>1. /\ pidof'[q] = pidof[o] /\ dirty'[q] = dirty[o] /\ due'[q] = due[o]
          /\ usage'[q] = usage[o] /\ \A k \in Kinds : Copied(q, k)' = Copied(o, k)
      BY <1>1, <2>1 DEF Copied
    <3> QED BY <1>2, <2>1, <3>1, KnownAsBefore
  <2>3. \A u \in Obj \ {q} : Alone(u) BY <1>1, <2>1 DEF Copied
  <2> QED BY <1>4, <2>1, <2>2, <2>3
<1>7. ASSUME NEW o \in Obj, DeleteObject(o) PROVE KnownInv'
  <2>1. /\ UNCHANGED <<kernelVars, oldstate, call, billed>>
        /\ pidof' = [pidof EXCEPT ![o] = NoPid] /\ dirty' = [dirty EXCEPT ![o] = {}]
        /\ mem' = [mem EXCEPT ![o] = [f \in Files |-> FreshMember(f)]]
        /\ due' = [due EXCEPT ![o] = {}] /\ usage' = [usage EXCEPT ![o] = FreshUsage]
    BY <1>7 DEF DeleteObject, Destroy
  <2>2. KnownObject(o)'
    <3>1. pidof'[o] = NoPid BY <1>1, <2>1
    <3> QED BY <3>1 DEF KnownObject
  <2>3. \A u \in Obj \ {o} : Alone(u) BY <1>1, <2>1 DEF Copied
  <2> QED BY <1>4, <2>1, <2>2, <2>3
<1>8. ASSUME NEW o \in Obj, UpdateObject(o) PROVE KnownInv'
  <2>1. /\ UNCHANGED <<kernelVars, oldstate, call, pidof, mem, usage, billed>>
        /\ dirty' = [dirty EXCEPT ![o] = Files] /\ due' = [due EXCEPT ![o] = Kinds]
        /\ pidof[o] # NoPid
    BY <1>8 DEF UpdateObject, needUpdate, Held
  <2>2. dirty'[o] = Files /\ due'[o] = Kinds BY <1>1, <2>1
  <2>3. KnownObject(o)'
    <3>1. spawns'[pidof[o]] # 0 BY <1>2, <2>1 DEF KnownObject, kernelVars
    <3> QED BY <1>3, <2>1, <2>2, <3>1 DEF KnownObject
  <2>4. \A u \in Obj \ {o} : Alone(u) BY <1>1, <2>1 DEF Copied
  <2> QED BY <1>4, <2>1, <2>3, <2>4
<1>9. ASSUME NEW o \in Obj, NEW f \in {"stat", "io"}, PlainGet(o, f) PROVE KnownInv'
  <2>1. Through(o, f) /\ pidof[o] # NoPid /\ UNCHANGED <<oldstate, due, usage, call, billed>>
    BY <1>9 DEF PlainGet, Through, Get, Held, usageVars
  <2>2. PICK p \in Pid : p = pidof[o] BY <1>1, <2>1
  <2>3. /\ UNCHANGED <<kernelVars, pidof>> /\ dirty' = [dirty EXCEPT ![o] = dirty[o] \ {f}]
        /\ \A q \in Obj, k \in Kinds : q # o \/ FileOf(k) # f => Copied(q, k)' = Copied(q, k)
    BY <2>1, <2>2, ThroughReads
  <2>4. \A k \in Kinds :
          Countable(p, FileOf(k)) /\ FileOf(k) \notin dirty'[o] => Copied(o, k)' # Unset
    BY <2>1, <2>2, ThroughKnows
  <2>5. \A u \in Obj \ {o} : Alone(u) BY <1>1, <2>1, <2>3
  <2>6. KnownObject(o)'
    <3>1. \A g \in Files : Countable(p, g)' = Countable(p, g) BY <2>3 DEF kernelVars, Countable, Readable
    <3>2. KnownObject(o) BY <1>2
    <3> QED BY <1>3, <2>1, <2>2, <2>3, <2>4, <3>1, <3>2 DEF KnownObject, kernelVars, Computed
  <2> QED BY <1>4, <2>1, <2>3, <2>5, <2>6
<1>10. ASSUME UNCHANGED <<kernelVars, oldstate, pidof, dirty, mem, due, usage, billed>>,
              call' = call \/ KnownCall'
       PROVE  KnownInv'
  <2>1. \A o \in Obj : KnownObject(o)' BY <1>2, <1>10, KnownAsBefore DEF Copied
  <2>2. KnownCall' BY <1>2, <1>10 DEF KnownCall
  <2>3. SumsDeterminate' BY <1>10 DEF KnownInv, SumsDeterminate
  <2> QED BY <1>10, <2>1, <2>2, <2>3, EntriesAsBefore DEF KnownInv
<1>11. ASSUME NEW o \in Obj, BeginCpuUsage(o) PROVE KnownInv'
  <2>1. /\ UNCHANGED <<kernelVars, oldstate, pidof, dirty, mem, due, usage, billed>>
        /\ "cpu" \in Calls
    BY <1>11 DEF BeginCpuUsage, vars, objectVars
  <2>2. call' = [obj |-> o, total |-> cpuTotal] BY <1>11 DEF BeginCpuUsage, OneFile
  <2>3. cpuTotal # Unset BY Numbers DEF UsageTypeOK
  <2>4. KnownCall' BY <2>1, <2>2, <2>3 DEF KnownCall
  <2> QED BY <1>10, <2>1, <2>4
<1>12. CASE UNCHANGED allVars
  BY <1>10, <1>12 DEF allVars, vars, objectVars, usageVars
<1> QED BY <1>5, <1>6, <1>7, <1>8, <1>9, <1>11, <1>12 DEF ObjectStep

\* A step that computes the usages todo of object o from file f.
LEMMA ComputingKeepsKnown ==
  ASSUME OneFile, UsageTypeOK, UsageTypeOK', KnownInv, NEW o \in Obj, NEW p \in Pid,
         p = pidof[o], NEW f \in {"stat", "io"}, Through(o, f), Computes(o, p, f),
         \A k \in Kinds : Computed(k) => FileOf(k) = f,
         Computed("cpu") /\ Countable(p, "stat") => oldstate'[p].cpu # Unset,
         NEW todo \in SUBSET Kinds, due' = [due EXCEPT ![o] = due[o] \ todo],
         \A k \in todo : Computed(k) /\ (Countable(p, f) => Known(usage'[o][k])),
         \A k \in Kinds \ todo : usage'[o][k] = usage[o][k],
         \A q \in Obj \ {o} : usage'[q] = usage[q],
         call' \in {call, NoCall}, SumsDeterminate'
  PROVE  KnownInv'
<1>1. /\ UNCHANGED <<kernelVars, pidof>> /\ dirty' = [dirty EXCEPT ![o] = dirty[o] \ {f}]
      /\ \A q \in Obj, k \in Kinds : q # o => Copied(q, k)' = Copied(q, k)
  BY ThroughReads
<1>2. /\ \A k \in Kinds :
           Countable(p, FileOf(k)) /\ FileOf(k) \notin dirty'[o] => Copied(o, k)' # Unset
      /\ f \notin dirty'[o]
  BY ThroughKnows
<1>3. /\ \A q \in Pid, g \in Files : Countable(q, g)' = Countable(q, g)
      /\ spawns' = spawns
      /\ \A k \in Kinds : FileOf(k) \in Files
  BY <1>1 DEF kernelVars, Countable, Readable, FileOf, Files
<1>4. /\ \A q \in Obj \ {o} : dirty'[q] = dirty[q] /\ due'[q] = due[q]
      /\ due'[o] = due[o] \ todo
  BY <1>1 DEF UsageTypeOK, TypeOK
<1>5. \A q \in Obj \ {o} : KnownObject(q)'
  BY <1>1, <1>4, KnownAsBefore DEF KnownInv
<1>6. KnownObject(o)'
  <2>1. KnownObject(o) /\ pidof[o] # NoPid BY ConstantsAssumption DEF KnownInv
  <2>2. spawns'[p] # 0 BY <1>3, <2>1 DEF KnownObject
  <2>3. ASSUME NEW k \in Kinds
        PROVE  /\ ~Computed(k) => k \in due'[o]
               /\ Countable(p, FileOf(k)) /\ k \notin due'[o] => Known(usage'[o][k])
    <3>1. CASE k \in todo BY <3>1
    <3>2. CASE k \notin todo BY <1>4, <2>1, <2>3, <3>2 DEF KnownObject
    <3> QED BY <3>1, <3>2
  <2> QED BY <1>1, <1>2, <1>3, <2>2, <2>3 DEF KnownObject, Computed
<1>7. \A q \in Pid \ {p} : KnownEntry(q)'
  <2>1. \A q \in Pid \ {p} : oldstate'[q] = oldstate[q] BY DEF Computes
  <2>2. \A q \in Pid \ {p}, k \in Kinds : Left(q, k)' = Left(q, k) BY <2>1 DEF Left
  <2> QED BY <1>3, <2>1, <2>2 DEF KnownInv, KnownEntry, Computed
<1>8. KnownEntry(p)'
  <2>1. spawns'[p] # 0 BY <1>3, ConstantsAssumption DEF KnownInv, KnownObject
  <2>2. \A k \in Kinds : Computed(k) => Left(p, k)' = Copied(o, k)' BY DEF Computes
  <2>3. \A k \in Kinds : Computed(k) /\ Countable(p, FileOf(k)) => Copied(o, k)' # Unset
    BY <1>2
  <2>4. FileOf("cpu") = "stat" BY DEF FileOf
  <2> QED BY <1>3, <2>1, <2>2, <2>3, <2>4 DEF KnownEntry, Computed
<1>9. KnownCall' BY DEF KnownInv, KnownCall
<1> QED BY <1>5, <1>6, <1>7, <1>8, <1>9 DEF KnownInv

\* The entry a usage finds is known, and so is the copy it is computed from.
LEMMA KnownOperands ==
  ASSUME OneFile, UsageTypeOK, KnownInv, NEW o \in Obj, NEW p \in Pid, p = pidof[o],
         NEW k \in Kinds, Computed(k), Countable(p, FileOf(k)), Through(o, FileOf(k))
  PROVE  /\ Copied(o, k)' # Unset
         /\ oldstate[p] # NoOld => Left(p, k) # Unset /\ (k = "cpu" => oldstate[p].cpu # Unset)
<1>1. FileOf(k) \in {"stat", "io"} BY DEF FileOf
<1>2. Copied(o, k)' # Unset BY <1>1, ThroughKnows
<1> QED BY <1>2 DEF KnownInv, KnownEntry

LEMMA EndKnown ==
  ASSUME OneFile, UsageTypeOK, UsageTypeOK', KnownInv, EndCpuUsage PROVE KnownInv'
<1>1. PICK o \in Obj, p \in Pid : o = call.obj /\ p = pidof[o] BY Caller
<1>2. Through(o, "stat") /\ Computes(o, p, "stat") BY <1>1, EndComputes
<1>3. call # NoCall /\ call \in Call BY DEF EndCpuUsage, Quiet, UsageTypeOK
<1>4. PICK total \in 0 .. MaxTotal : total = call.total
  BY <1>3 DEF Call, KnownInv, KnownCall
<1>5. Computed("cpu") BY <1>3, UsedByFacts DEF KnownInv, KnownCall
<1>6. \A k \in Kinds : Computed(k) => FileOf(k) = "stat"
  BY <1>5, UsedByFacts DEF OneFile, Kinds
<1> DEFINE ticks == mem'[o]["stat"].rest
           rate == CpuRate(oldstate[p], total, ticks)
           entry == CpuRebased(oldstate[p], total, ticks, mem[o]["io"])
<1>7. /\ usage' = [usage EXCEPT ![o]["cpu"] = rate]
      /\ oldstate' = [oldstate EXCEPT ![p] = entry]
      /\ due' = [due EXCEPT ![o] = due[o] \ {"cpu"}] /\ call' = NoCall
      /\ billed' = Bill(billed, p, "cpu", rate)
  BY <1>1, <1>4 DEF EndCpuUsage
<1>8. oldstate[p] \in Baseline \cup {NoOld} BY DEF UsageTypeOK
<1>9. Countable(p, "stat") => Known(rate)
  <2> SUFFICES ASSUME Countable(p, "stat") PROVE Known(rate) OBVIOUS
  <2>1. /\ Copied(o, "cpu")' # Unset
        /\ oldstate[p] # NoOld => Left(p, "cpu") # Unset /\ oldstate[p].cpu # Unset
    BY <1>1, <1>2, <1>5, UsedByFacts, KnownOperands DEF Kinds
  <2>2. (UsageTypeOK => \A q \in Obj, k \in Kinds : Copied(q, k) \in Val \cup {Unset})'
    BY CopiedTypes, PTL
  <2>3. Copied(o, "cpu")' \in Val BY <2>1, <2>2 DEF Kinds
  <2>4. ticks \in Val BY <2>3 DEF Copied
  <2>5. oldstate[p] # NoOld => oldstate[p].cpu # Unset /\ oldstate[p].proc # Unset
    BY <2>1 DEF Left
  <2> HIDE DEF ticks
  <2> QED BY <1>8, <2>4, <2>5, KnownCpuRate
<1>10. oldstate'[p].cpu # Unset
  <2>1. entry.cpu = total
    BY <1>8 DEF CpuRebased, Baseline
  <2>2. oldstate'[p] = entry BY <1>7 DEF UsageTypeOK
  <2> QED BY <2>1, <2>2, Numbers
<1> HIDE DEF rate
<1>15. SumsDeterminate'
  <2>1. rate \in Reading
    <3>1. usage'[o]["cpu"] = rate BY <1>7 DEF UsageTypeOK, Kinds
    <3> QED BY <3>1 DEF UsageTypeOK, Kinds
  <2>2. "cpu" \in Kinds /\ (Countable(p, FileOf("cpu")) => Known(rate))
    BY <1>9 DEF Kinds, FileOf
  <2>3. \A q \in Pid, j \in Kinds : Bill(billed, p, "cpu", rate)[q][j] # Unset
    BY <2>1, <2>2, KnownBill DEF KnownInv
  <2> QED BY <1>7, <2>3 DEF SumsDeterminate
<1>11. /\ usage'[o]["cpu"] = rate
       /\ \A k \in Kinds \ {"cpu"} : usage'[o][k] = usage[o][k]
       /\ \A q \in Obj \ {o} : usage'[q] = usage[q]
  BY <1>7 DEF UsageTypeOK, Kinds
<1>12. \A k \in {"cpu"} : Computed(k) /\ (Countable(p, "stat") => Known(usage'[o][k]))
  BY <1>5, <1>9, <1>11
<1>13. due' = [due EXCEPT ![o] = due[o] \ {"cpu"}] /\ call' \in {call, NoCall} BY <1>7
<1>14. {"cpu"} \in SUBSET Kinds BY DEF Kinds
<1> QED BY <1>1, <1>2, <1>6, <1>10, <1>11, <1>12, <1>13, <1>14, <1>15, ComputingKeepsKnown

LEMMA IoKnown ==
  ASSUME OneFile, UsageTypeOK, UsageTypeOK', KnownInv, NEW o \in Obj, NEW p \in Pid,
         p = pidof[o], NEW k \in {"ior", "iow"}, Computed(k), Through(o, "io"),
         Countable(p, "io"), NEW old \in {oldstate[p], IoRebased(oldstate[p], mem'[o]["io"])}
  PROVE  Known(IoRate(k, old, mem'[o]["io"]))
<1>1. k \in Kinds /\ FileOf(k) = "io" /\ k # "cpu" BY DEF Kinds, FileOf
<1>2. Copied(o, k)' # Unset /\ (oldstate[p] # NoOld => Left(p, k) # Unset)
  BY <1>1, KnownOperands
<1> DEFINE io == mem'[o]["io"]
<1>3. io \in Member("io")
  <2>1. (UsageTypeOK => \A q \in Obj : mem[q]["io"] \in Member("io"))'
    BY IoMembers, PTL
  <2> QED BY <2>1
<1>4. io[Counter[k]] # Unset BY <1>1, <1>2 DEF Copied
<1>5. oldstate[p] # NoOld => oldstate[p].io[Counter[k]] # Unset BY <1>1, <1>2 DEF Left
<1>6. oldstate[p] \in Baseline \cup {NoOld} BY DEF UsageTypeOK
<1> HIDE DEF io
<1>7. /\ IoRebased(oldstate[p], io) \in Baseline /\ IoRebased(oldstate[p], io).io = io
  <2>1. IoRebased(oldstate[p], io) \in Baseline BY <1>3, <1>6 DEF IoRebased, Baseline
  <2> QED BY <1>3, <1>6, <2>1, IoEntry
<1>8. old \in Baseline \cup {NoOld} /\ (old # NoOld => old.io[Counter[k]] # Unset)
  BY <1>4, <1>5, <1>6, <1>7 DEF io
<1>9. Known(IoRate(k, old, io)) BY <1>3, <1>4, <1>8, KnownIoRate
<1> QED BY <1>9 DEF io

LEMMA KnownKept ==
  ASSUME OneFile, UsageTypeOK, UsageTypeOK', KnownInv, [UsageNext]_allVars PROVE KnownInv'
<1>1. CASE UsageKernel BY <1>1, KernelKeepsKnown
<1>2. CASE ObjectStep BY <1>2, KnownObjectStep
<1>3. CASE EndCpuUsage BY <1>3, EndKnown
<1>4. ASSUME NEW k \in {"ior", "iow"}, Computed(k)
      PROVE  ~Computed("cpu") /\ \A j \in Kinds : Computed(j) => FileOf(j) = "io"
  BY <1>4, UsedByFacts DEF OneFile, Kinds
<1>5. usage \in [Obj -> [Kinds -> Reading]] BY DEF UsageTypeOK
<1>6. ASSUME NEW o \in Obj, NEW k \in {"ior", "iow"}, IoUsage(o, k) PROVE KnownInv'
  <2>1. /\ [ior |-> "ioread", iow |-> "iowrite"][k] \in Calls /\ pidof[o] # NoPid
        /\ due' = [due EXCEPT ![o] = due[o] \ {k}] /\ call' \in {call, NoCall}
    BY <1>6 DEF IoUsage, Held
  <2>2. PICK p \in Pid : p = pidof[o] BY <2>1 DEF UsageTypeOK, TypeOK
  <2>3. Through(o, "io") /\ Computes(o, p, "io") BY <1>6, <2>2, IoComputes
  <2>4. (k = "ior" => "ioread" \in Calls) /\ (k = "iow" => "iowrite" \in Calls) BY <2>1
  <2>5. Computed(k) BY <2>4, UsedByFacts
  <2> DEFINE rate == IoRate(k, oldstate[p], mem'[o]["io"])
  <2>6. Countable(p, "io") => Known(rate) BY <2>2, <2>3, <2>5, IoKnown
  <2>7. usage' = [usage EXCEPT ![o][k] = rate] /\ billed' = Bill(billed, p, k, rate)
    BY <1>6, <2>2 DEF IoUsage
  <2> HIDE DEF rate
  <2>8. /\ usage'[o][k] = rate
        /\ \A j \in Kinds \ {k} : usage'[o][j] = usage[o][j]
        /\ \A q \in Obj \ {o} : usage'[q] = usage[q]
    BY <1>5, <2>7 DEF Kinds
  <2>9. \A j \in {k} : Computed(j) /\ (Countable(p, "io") => Known(usage'[o][j]))
    BY <2>5, <2>6, <2>8
  <2>10. {k} \in SUBSET Kinds BY DEF Kinds
  <2>11. ~Computed("cpu") /\ \A j \in Kinds : Computed(j) => FileOf(j) = "io" BY <1>4, <2>5
  <2>12. SumsDeterminate'
    <3>1. rate \in Reading BY <2>8 DEF UsageTypeOK, Kinds
    <3>2. k \in Kinds /\ (Countable(p, FileOf(k)) => Known(rate))
      BY <2>6 DEF Kinds, FileOf
    <3>3. \A q \in Pid, j \in Kinds : Bill(billed, p, k, rate)[q][j] # Unset
      BY <3>1, <3>2, KnownBill DEF KnownInv
    <3> QED BY <2>7, <3>3 DEF SumsDeterminate
  <2> QED BY <2>1, <2>2, <2>3, <2>8, <2>9, <2>10, <2>11, <2>12, ComputingKeepsKnown
<1>7. ASSUME NEW o \in Obj, NEW first \in {"ior", "iow"}, NEW second \in {"ior", "iow"},
             IoTotalUsage(o, first, second)
      PROVE  KnownInv'
  <2>1. /\ "iototal" \in Calls /\ {first, second} = {"ior", "iow"} /\ pidof[o] # NoPid
        /\ call' \in {call, NoCall}
    BY <1>7 DEF IoTotalUsage, Held
  <2>2. PICK p \in Pid : p = pidof[o] BY <2>1 DEF UsageTypeOK, TypeOK
  <2>3. Through(o, "io") /\ Computes(o, p, "io") BY <1>7, <2>2, IoTotalComputes
  <2>4. \A k \in {"ior", "iow"} : Computed(k) BY <2>1, UsedByFacts
  <2> DEFINE io == mem'[o]["io"]
             todo == {first, second} \cap due[o]
             old == [f \in {first, second} |->
                       IF f = second /\ first \in due[o] THEN IoRebased(oldstate[p], io)
                       ELSE oldstate[p]]
             rate == [f \in todo |-> IoRate(f, old[f], io)]
             bills == [f \in todo |-> Bill(billed, p, f, rate[f])[p][f]]
  <2>5. /\ usage' = [usage EXCEPT ![o] = Over(rate, usage[o])]
        /\ due' = [due EXCEPT ![o] = due[o] \ todo]
        /\ billed' = [billed EXCEPT ![p] = Over(bills, billed[p])]
    BY <1>7, <2>2 DEF IoTotalUsage
  <2>6. ASSUME NEW k \in todo, Countable(p, "io") PROVE Known(rate[k])
    <3>1. k \in {"ior", "iow"} /\ Computed(k) BY <2>1, <2>4
    <3>2. old[k] \in {oldstate[p], IoRebased(oldstate[p], io)} OBVIOUS
    <3>3. rate[k] = IoRate(k, old[k], io) OBVIOUS
    <3> HIDE DEF old, rate, todo
    <3> QED BY <2>2, <2>3, <2>6, <3>1, <3>2, <3>3, IoKnown
  <2>7. todo \subseteq {"ior", "iow"} /\ DOMAIN rate = todo /\ DOMAIN bills = todo BY <2>1
  <2>14. \A k \in todo : bills[k] = Bill(billed, p, k, rate[k])[p][k] OBVIOUS
  <2> HIDE DEF todo, rate, bills
  <2>8. /\ \A k \in todo : usage'[o][k] = rate[k]
        /\ \A k \in Kinds \ todo : usage'[o][k] = usage[o][k]
        /\ \A q \in Obj \ {o} : usage'[q] = usage[q]
    BY <1>5, <2>5, <2>7 DEF Over, Kinds
  <2>9. \A k \in todo : Computed(k) /\ (Countable(p, "io") => Known(usage'[o][k]))
    BY <2>4, <2>6, <2>7, <2>8
  <2>10. ~Computed("cpu") /\ \A j \in Kinds : Computed(j) => FileOf(j) = "io" BY <1>4, <2>4
  <2>11. todo \in SUBSET Kinds BY <2>7 DEF Kinds
  <2>12. due' = [due EXCEPT ![o] = due[o] \ todo] /\ call' \in {call, NoCall} BY <2>1, <2>5
  <2>13. /\ \A k \in Kinds \ todo : usage'[o][k] = usage[o][k]
         /\ \A q \in Obj \ {o} : usage'[q] = usage[q]
    BY <2>8
  <2>15. SumsDeterminate'
    <3>1. ASSUME NEW k \in todo PROVE bills[k] # Unset
      <4>1. k \in Kinds /\ rate[k] \in Reading BY <2>7, <2>8 DEF UsageTypeOK, Kinds
      <4>2. Countable(p, FileOf(k)) => Known(rate[k])
        BY <2>6, <2>7 DEF FileOf
      <4> QED BY <2>14, <4>1, <4>2, KnownBill DEF KnownInv
    <3>2. billed \in [Pid -> [Kinds -> Nat \cup {Unset}]] BY DEF UsageTypeOK
    <3>3. ASSUME NEW q \in Pid, NEW k \in Kinds
          PROVE  billed'[q][k] = IF q = p /\ k \in todo THEN bills[k] ELSE billed[q][k]
      BY <2>5, <2>7, <3>2 DEF Over
    <3> QED BY <3>1, <3>3 DEF KnownInv, SumsDeterminate
  <2> HIDE DEF io, old
  <2> QED BY <2>2, <2>3, <2>9, <2>10, <2>11, <2>12, <2>13, <2>15, ComputingKeepsKnown
<1>8. UsageClient => KnownInv'
  <2>1. ASSUME UsageClient
        PROVE  \/ ObjectStep \/ EndCpuUsage
               \/ \E o \in Obj, k \in {"ior", "iow"} : IoUsage(o, k)
               \/ \E o \in Obj, first, second \in {"ior", "iow"} : IoTotalUsage(o, first, second)
    BY <2>1 DEF UsageClient, ObjectStep
  <2> QED BY <1>2, <1>3, <1>6, <1>7, <2>1
<1>9. UNCHANGED allVars => KnownInv' BY <1>2 DEF ObjectStep
<1>10. UsageNext => KnownInv' BY <1>1, <1>8 DEF UsageNext
<1> QED BY <1>9, <1>10

\* When the client computes cpu usages or io usages but not both, and its
\* opens do not fail, no usage, and no sum of usages, is made from a value that
\* nothing wrote, whatever plain getters it calls and on however many objects.
THEOREM OneFileDeterminate ==
  ASSUME OneFile PROVE UsageSpec => [](NoIndeterminateUsage /\ SumsDeterminate)
<1>1. UsageTypeOK /\ UsageTypeOK' /\ KnownInv /\ [UsageNext]_allVars => KnownInv'
  BY KnownKept
<1>2. KnownInv => NoIndeterminateUsage /\ SumsDeterminate
  BY DEF KnownInv, KnownObject, NoIndeterminateUsage, Known
<1> QED BY <1>1, <1>2, KnownInit, UsageTypeCorrect, PTL DEF UsageSpec

\* Such a client, with one object of each process at a time, is told of no more
\* ticks than the process has run and of no more bytes than it has transferred:
\* the sums are over all the usages reported, and they are numbers.
THEOREM WatchedSums ==
  ASSUME OneFile
  PROVE  WatchedSpec => [](SumsDeterminate /\ NoTickCountedTwice /\ NoByteCountedTwice)
<1>1. WatchedSpec => UsageSpec BY PTL DEF WatchedSpec, UsageSpec
<1> QED BY <1>1, OneFileDeterminate, WatchedTicks, WatchedBytes, PTL

\* The same on any number of objects, if it reads its file through one getter.
THEOREM FreshSums ==
  ASSUME OneFile, FreshOnly
  PROVE  UsageSpec => [](SumsDeterminate /\ NoTickCountedTwice /\ NoByteCountedTwice)
BY OneFileDeterminate, FreshTicks, FreshBytes, PTL
=============================================================================
