---------------------------- MODULE ProcessUsage ----------------------------
(***************************************************************************)
(* The computed getters of class ProcessInfo (src/processinfo.cpp):        *)
(* cpuUsage(), ioReadUsage(), ioWriteUsage() and ioTotalUsage().  A usage  *)
(* is a difference between the counters an object has just read and those  *)
(* an earlier call left in the static map_pid_oldstate, which has one      *)
(* entry per pid, shared by every object of that pid and never erased.     *)
(*                                                                         *)
(* The module composes the cache of ProcessInfo with that map: all the     *)
(* files are read through ProcessInfo's getters.  rest of a stat line is   *)
(* utime + stime here.  One thread calls the getters; the kernel runs at   *)
(* any moment, also between cpuUsage()'s reading of /proc/stat and of      *)
(* /proc/<pid>/stat.                                                       *)
(*                                                                         *)
(* A definition f_Variant is a faulty form of f that no specification      *)
(* uses: it is there to see which property would notice the fault.         *)
(***************************************************************************)
EXTENDS ProcessInfo

CONSTANTS
  Calls,     \* what the client calls: "stat", "io" (a plain getter of that
             \* file), "cpu", "ioread", "iowrite", "iototal"
  MaxTotal,  \* bound: cpu time of the machine, in ticks
  Word,      \* 2^w for the unsigned subtractions
  InterruptTicks,  \* may a tick charged to a process be one of the irq or
                   \* softirq columns of /proc/stat, which the code leaves out
  NoOld,     \* map_pid_oldstate has no entry for the pid
  NoCall     \* no cpuUsage() under way

Kinds == {"cpu", "ior", "iow"}

\* The counter of m_io behind each io usage.
Counter == [ior |-> "rb", iow |-> "wb"]

\* The file a usage is computed from.
FileOf(k) == IF k = "cpu" THEN "stat" ELSE "io"

\* An entry of map_pid_oldstate.
Baseline == [cpu  : (0 .. MaxTotal) \cup {Unset},  \* m_last_cpu_total_time
             proc : Val \cup {Unset},              \* m_last_process_total_time
             io   : Member("io")]                  \* m_io

\* A cpuUsage() under way.
Call == [obj : Obj, total : (0 .. MaxTotal) \cup {Unset}]

ASSUME UsageAssumption ==
  /\ Getters \subseteq {"stat", "io"}
  /\ Val \subseteq 0 .. Word - 1 /\ Word \in Nat
  /\ FirstVal = 0
  /\ MaxTotal \in 0 .. Word - 1 /\ Unset \notin Int
  /\ InterruptTicks \in BOOLEAN
  /\ NoOld \notin Baseline /\ NoCall \notin Call

VARIABLES
  cpuTotal,  \* kernel: user + nice + system + idle of /proc/stat
  oldstate,  \* map_pid_oldstate: per pid a Baseline, or NoOld
  due,       \* the usages whose m_need_update_*_usage flag is up
  usage,     \* m_cpu_usage, m_io_read_usage, m_io_write_usage
  call,      \* the cpuUsage() that has read /proc/stat: its object and total
  billed,    \* history: per pid, what all the usages reported add up to, or
             \* Unset once one of them was made from a value nothing wrote
  owed       \* history: what ior and iow had grown by, seen from the start
             \* of the last ioTotalUsage() of the object

usageVars == <<cpuTotal, oldstate, due, usage, call, billed, owed>>
allVars == <<vars, usageVars>>

-----------------------------------------------------------------------------
\* Rates.  A usage is kept as the quotient it is computed from: the factor
\* 100 * nb_core of cpuUsage() and the scale of system_clock are left out.

Zero == [num |-> 0, den |-> 1]

\* Unsigned subtraction; nothing is known of a result got from Unset.
Minus_Signed(a, b) == IF Unset \in {a, b} THEN Unset ELSE a - b

Minus(a, b) == IF Unset \in {a, b} THEN Unset ELSE (a - b) % Word

\* No division when the interval is empty.
Quotient(n, d) == IF d = 0 THEN Zero ELSE [num |-> n, den |-> d]

\* io usage f of a copy io of the counters.  The time is a signed duration.
IoRate(f, old, io) ==
  IF old = NoOld THEN Zero
  ELSE Quotient(Minus(io[Counter[f]], old.io[Counter[f]]), io.at - old.io.at)

\* The entry an io usage leaves: a copy of the whole object if there was
\* none, and nothing has written that object's m_last_* then.
IoRebased_KeepsTime(old, io) ==
  IF old = NoOld THEN [cpu |-> Unset, proc |-> Unset, io |-> io]
  ELSE [old EXCEPT !.io.at = io.at]

IoRebased(old, io) ==
  IF old = NoOld THEN [cpu |-> Unset, proc |-> Unset, io |-> io]
  ELSE [old EXCEPT !.io = io]

CpuRate(old, total, ticks) ==
  IF old = NoOld THEN Zero
  ELSE Quotient(Minus(ticks, old.proc), Minus(total, old.cpu))

\* The entry cpuUsage() leaves; an inserted one holds the object's m_io.
CpuRebased_NoProc(old, total, ticks, io) ==
  IF old = NoOld THEN [cpu |-> total, proc |-> ticks, io |-> io]
  ELSE [old EXCEPT !.cpu = total]

CpuRebased_CopiedFirst(old, total, ticks, io) ==
  IF old = NoOld THEN [cpu |-> Unset, proc |-> Unset, io |-> io]
  ELSE [old EXCEPT !.cpu = total, !.proc = ticks]

CpuRebased(old, total, ticks, io) ==
  IF old = NoOld THEN [cpu |-> total, proc |-> ticks, io |-> io]
  ELSE [old EXCEPT !.cpu = total, !.proc = ticks]

FreshUsage == [k \in Kinds |-> [num |-> Unset, den |-> Unset]]

\* The process of pid p, whose counters /proc lets this one read.
Readable(p, f) ==
  /\ alive[p]
  /\ file[p][f] # NoFile
  /\ f = "stat" => file[p][f].comm = "plain"

\* The first process of a pid: no entry is older than it.
Countable(p, f) == spawns[p] = 1 /\ Readable(p, f)

\* What the history billed becomes when rate r of kind k is reported for p.
\* An indeterminate rate makes the sum so, for good.
Bill(b, p, k, r) ==
  IF ~Countable(p, FileOf(k)) THEN b
  ELSE [b EXCEPT ![p][k] = IF Unset \in {@, r.num, r.den} THEN Unset ELSE @ + r.num]

AtMost(a, b) == Unset \in {a, b} \/ a <= b

-----------------------------------------------------------------------------
\* The kernel (external).

\* A tick of process p: in user, nice or system, or in an interrupt that fell
\* into its time.
Run(p) ==
  LET c == file[p]["stat"] IN
  /\ c # NoFile /\ c.line + 1 \in Val
  /\ Change(p, "stat", [c EXCEPT !.line = @ + 1])
  /\ \/ cpuTotal < MaxTotal /\ cpuTotal' = cpuTotal + 1
     \/ InterruptTicks /\ UNCHANGED cpuTotal
  /\ UNCHANGED <<oldstate, due, usage, call, billed, owed>>

\* A tick of anything else, the idle task included.
RunOther ==
  /\ "stat" \in Getters
  /\ cpuTotal < MaxTotal
  /\ cpuTotal' = cpuTotal + 1
  /\ UNCHANGED <<vars, oldstate, due, usage, call, billed, owed>>

\* The process takes a name with a blank in it, for good.
Retitle(p) ==
  /\ file[p]["stat"] # NoFile
  /\ Change(p, "stat", [file[p]["stat"] EXCEPT !.comm = "blank"])
  /\ UNCHANGED usageVars

\* The process reads r units and writes w.
Transfer(p, r, w) ==
  LET c == file[p]["io"] IN
  /\ c # NoFile /\ c.rb + r \in Val /\ c.wb + w \in Val
  /\ r + w > 0
  /\ Change(p, "io", [rb |-> c.rb + r, wb |-> c.wb + w])
  /\ UNCHANGED usageVars

\* The process changes its credentials; its io file is closed to others.
Hide(p) ==
  /\ file[p]["io"] # NoFile
  /\ Change(p, "io", NoFile)
  /\ UNCHANGED usageVars

-----------------------------------------------------------------------------
\* The object's operations, as in ProcessInfo, and what they do to the usages.

Quiet == call = NoCall

NewObject(o, p) ==
  /\ Quiet
  /\ Construct(o, p)
  /\ due' = [due EXCEPT ![o] = Kinds]
  /\ usage' = [usage EXCEPT ![o] = FreshUsage]
  /\ owed' = [owed EXCEPT ![o] = FreshUsage]
  /\ UNCHANGED <<cpuTotal, oldstate, call, billed>>

CopyObject(o, q) ==
  /\ Quiet
  /\ Copy(o, q)
  /\ due' = [due EXCEPT ![q] = due[o]]
  /\ usage' = [usage EXCEPT ![q] = usage[o]]
  /\ owed' = [owed EXCEPT ![q] = owed[o]]
  /\ UNCHANGED <<cpuTotal, oldstate, call, billed>>

DeleteObject(o) ==
  /\ Quiet
  /\ Destroy(o)
  /\ due' = [due EXCEPT ![o] = {}]
  /\ usage' = [usage EXCEPT ![o] = FreshUsage]
  /\ owed' = [owed EXCEPT ![o] = FreshUsage]
  /\ UNCHANGED <<cpuTotal, oldstate, call, billed>>

UpdateObject(o) ==
  /\ Quiet
  /\ needUpdate(o)
  /\ due' = [due EXCEPT ![o] = Kinds]
  /\ UNCHANGED <<cpuTotal, oldstate, usage, call, billed, owed>>

\* A getter of f, f one of "stat" and "io", that the client calls itself.
PlainGet(o, f) ==
  /\ Quiet
  /\ f \in Calls
  /\ Get(o, f)
  /\ UNCHANGED usageVars

\* The getter of f called by a computed getter: a second call reads nothing.
Through_EveryTime(o, f) ==
  /\ mem' = [mem EXCEPT ![o][f] = read(f, @, file[pidof[o]][f])]
  /\ dirty' = [dirty EXCEPT ![o] = @ \ {f}]
  /\ UNCHANGED <<kernelVars, pidof, seen, fault>>

Through(o, f) ==
  \/ Get(o, f)
  \/ f \notin dirty[o] /\ UNCHANGED vars

\* updateCPUUsage() up to the closing of /proc/stat.  If that file cannot
\* be opened, nice, system and idle keep what the stack held.
BeginCpuUsage(o) ==
  /\ Quiet /\ Held(o)
  /\ "cpu" \in Calls /\ "cpu" \in due[o]
  /\ \E total \in {cpuTotal} \cup (IF OpenMayFail THEN {Unset} ELSE {}) :
       call' = [obj |-> o, total |-> total]
  /\ UNCHANGED <<vars, cpuTotal, oldstate, due, usage, billed, owed>>

\* The rest: utime() + stime(), the rate, the new old values.
EndCpuUsage ==
  /\ ~Quiet
  /\ LET o == call.obj
         p == pidof[o]
         r == CpuRate(oldstate[p], call.total, mem'[o]["stat"].rest)
     IN
     /\ Through(o, "stat")
     /\ usage' = [usage EXCEPT ![o]["cpu"] = r]
     /\ oldstate' = [oldstate EXCEPT ![p] =
                       CpuRebased(@, call.total, mem'[o]["stat"].rest, mem[o]["io"])]
     /\ due' = [due EXCEPT ![o] = @ \ {"cpu"}]
     /\ billed' = Bill(billed, p, "cpu", r)
  /\ call' = NoCall
  /\ UNCHANGED <<cpuTotal, owed>>

\* ioReadUsage() for k = "ior", ioWriteUsage() for k = "iow".
IoUsage(o, k) ==
  LET p == pidof[o]
      r == IoRate(k, oldstate[p], mem'[o]["io"])
  IN
  /\ Quiet /\ Held(o)
  /\ [ior |-> "ioread", iow |-> "iowrite"][k] \in Calls /\ k \in due[o]
  /\ Through(o, "io")
  /\ usage' = [usage EXCEPT ![o][k] = r]
  /\ oldstate' = [oldstate EXCEPT ![p] = IoRebased(@, mem'[o]["io"])]
  /\ due' = [due EXCEPT ![o] = @ \ {k}]
  /\ billed' = Bill(billed, p, k, r)
  /\ UNCHANGED <<cpuTotal, call, owed>>

\* ioTotalUsage(), ioReadUsage() + ioWriteUsage(): C++ leaves open which of
\* the two is called first.  Each computes its usage only if it is due, and
\* the second one computes from the entry the first one left.
IoTotalUsage(o, first, second) ==
  LET p   == pidof[o]
      io  == mem'[o]["io"]
      old == [f \in {first, second} |->
                IF f = second /\ first \in due[o] THEN IoRebased(oldstate[p], io)
                ELSE oldstate[p]]
      todo == {first, second} \cap due[o]
      r == [f \in todo |-> IoRate(f, old[f], io)]
  IN
  /\ Quiet /\ Held(o)
  /\ "iototal" \in Calls /\ todo # {}
  /\ {first, second} = {"ior", "iow"}
  /\ Through(o, "io")
  /\ usage' = [usage EXCEPT ![o] = Over(r, @)]
  /\ owed' = [owed EXCEPT ![o] = Over([f \in todo |-> IoRate(f, oldstate[p], io)], @)]
  /\ oldstate' = [oldstate EXCEPT ![p] = IoRebased(@, io)]
  /\ due' = [due EXCEPT ![o] = @ \ todo]
  /\ billed' = [billed EXCEPT ![p] =
                  Over([f \in todo |-> Bill(billed, p, f, r[f])[p][f]], @)]
  /\ UNCHANGED <<cpuTotal, call>>

-----------------------------------------------------------------------------
UsageInit ==
  /\ Init
  /\ cpuTotal = 0
  /\ oldstate = [p \in Pid |-> NoOld]
  /\ due = [o \in Obj |-> {}]
  /\ usage = [o \in Obj |-> FreshUsage]
  /\ call = NoCall
  /\ billed = [p \in Pid |-> [k \in Kinds |-> 0]]
  /\ owed = [o \in Obj |-> FreshUsage]

UsageKernel ==
  \/ \E p \in Pid : Spawn(p) /\ UNCHANGED usageVars
  \/ \E p \in Pid : Exit(p) /\ UNCHANGED usageVars
  \/ Tick /\ UNCHANGED usageVars
  \/ \E p \in Pid : Run(p)
  \/ RunOther
  \/ \E p \in Pid : Retitle(p)
  \/ \E p \in Pid : \E r, w \in 0 .. 1 : Transfer(p, r, w)
  \/ \E p \in Pid : Hide(p)

UsageClient ==
  \/ \E o \in Obj, p \in Pid : NewObject(o, p)
  \/ \E o, q \in Obj : CopyObject(o, q)
  \/ \E o \in Obj : DeleteObject(o)
  \/ \E o \in Obj : UpdateObject(o)
  \/ \E o \in Obj, f \in {"stat", "io"} : PlainGet(o, f)
  \/ \E o \in Obj : BeginCpuUsage(o)
  \/ EndCpuUsage
  \/ \E o \in Obj, k \in {"ior", "iow"} : IoUsage(o, k)
  \/ \E o \in Obj, first, second \in {"ior", "iow"} : IoTotalUsage(o, first, second)

UsageNext == UsageKernel \/ UsageClient

UsageSpec == UsageInit /\ [][UsageNext]_allVars

\* A client that never has two objects of a process at a time.
OneWatcher == \A o, q \in Obj : pidof[o] = pidof[q] /\ pidof[o] # NoPid => o = q

WatchedSpec == UsageInit /\ [][UsageNext /\ OneWatcher']_allVars

-----------------------------------------------------------------------------
Reading == [num : (0 .. Word - 1) \cup {Unset}, den : Int \cup {Unset}]

\* Every usage is the quotient of an unsigned difference and an interval, or
\* of values nothing wrote.
UsageTypeOK ==
  /\ TypeOK
  /\ cpuTotal \in 0 .. MaxTotal
  /\ oldstate \in [Pid -> Baseline \cup {NoOld}]
  /\ due \in [Obj -> SUBSET Kinds]
  /\ usage \in [Obj -> [Kinds -> Reading]]
  /\ call \in Call \cup {NoCall}
  /\ call # NoCall => pidof[call.obj] # NoPid
  /\ billed \in [Pid -> [Kinds -> Nat \cup {Unset}]]
  /\ owed \in [Obj -> [Kinds -> Reading]]

\* The two baselines of cpuUsage() belong together: since they were taken,
\* the process cannot have run for more ticks than the machine.
Aligned(p) ==
  oldstate[p] # NoOld =>
    /\ Unset \notin {oldstate[p].cpu, oldstate[p].proc}
    /\ oldstate[p].cpu <= cpuTotal
    /\ oldstate[p].proc <= file[p]["stat"].line
    /\ file[p]["stat"].line - oldstate[p].proc <= cpuTotal - oldstate[p].cpu

\* It is what keeps the usage of a process within that of the machine, whichever
\* object took them and whatever ran between the two readings.
BaselineAligned == \A p \in Pid : Countable(p, "stat") => Aligned(p)

\* What keeps the baselines together when the client calls no other reading
\* getter.  An object whose cpu usage is due will read its stat file again;
\* a call under way holds a total later than the baseline's; and what has
\* been billed is below the baseline.
DueIsDirty ==
  \A o \in Obj : pidof[o] # NoPid =>
    spawns[pidof[o]] > 0 /\ ("cpu" \in due[o] => "stat" \in dirty[o])

CallIsLater ==
  call # NoCall =>
    LET p == pidof[call.obj] IN
    /\ "cpu" \in due[call.obj]
    /\ call.total \in 0 .. cpuTotal
    /\ oldstate[p] # NoOld => oldstate[p].cpu <= call.total

BilledBelowBaseline ==
  \A p \in Pid :
    /\ billed[p]["cpu"] # Unset
    /\ spawns[p] = 0 => oldstate[p] = NoOld /\ billed[p]["cpu"] = 0
    /\ Countable(p, "stat") =>
         IF oldstate[p] = NoOld THEN billed[p]["cpu"] = 0
         ELSE billed[p]["cpu"] <= oldstate[p].proc

EntriesNotAhead == \A p \in Pid : oldstate[p] # NoOld => oldstate[p].cpu \in 0 .. cpuTotal

\* The inductive invariant of cpuUsage() and of the entries it shares.
CpuInv ==
  DueIsDirty /\ CallIsLater /\ EntriesNotAhead /\ BaselineAligned /\ BilledBelowBaseline

\* A step that ends the cpuUsage() of object o.
Ends(o) == ~Quiet /\ Quiet' /\ o = call.obj

\* cpuUsage() never reports more than 100 * nb_core percent, but for the
\* ticks that fall between its reading of /proc/stat and its reading of
\* /proc/<pid>/stat - also of a later process of a pid, once its entry is
\* aligned.  Of a kernel that charges no interrupt to a process.
UsageWithinMachine ==
  [][\A o \in Obj :
       /\ Ends(o) /\ Readable(pidof[o], "stat")
       /\ spawns[pidof[o]] = 1 \/ Aligned(pidof[o])
       => usage'[o]["cpu"].num <= usage'[o]["cpu"].den + (cpuTotal - call.total)]_allVars

\* The entry of a dead process spoils one usage of the next one with its pid
\* and no other: the call that subtracts it leaves an aligned entry, of
\* whichever object, and an entry stays aligned as long as the process lives.
AlignedAgain ==
  [][/\ \A o \in Obj : Ends(o) /\ Readable(pidof[o], "stat") => Aligned(pidof[o])'
     /\ \A p \in Pid : Readable(p, "stat") /\ Aligned(p) /\ Readable(p, "stat")' => Aligned(p)'
    ]_allVars

\* However many objects watch a process and however they take turns, the cpu
\* usages reported for it never add up to more ticks than it has run - as long
\* as none of them was made from a value nothing wrote (NoIndeterminateUsage).
NoTickCountedTwice ==
  \A p \in Pid : Countable(p, "stat") => AtMost(billed[p]["cpu"], file[p]["stat"].line)

\* Nor the io usages to more bytes than it has transferred, under the same
\* condition.
NoByteCountedTwice ==
  \A p \in Pid : Countable(p, "io") =>
    /\ AtMost(billed[p]["ior"], file[p]["io"].rb)
    /\ AtMost(billed[p]["iow"], file[p]["io"].wb)

\* What keeps it so.  For usage k: what the file says now, what the entry of
\* the pid holds, and what an object's copy holds.
Said(p, k) == IF k = "cpu" THEN file[p]["stat"].line ELSE file[p]["io"][Counter[k]]

Left(p, k) ==
  CASE oldstate[p] = NoOld -> Unset
    [] oldstate[p] # NoOld /\ k = "cpu" -> oldstate[p].proc
    [] oldstate[p] # NoOld /\ k # "cpu" -> oldstate[p].io[Counter[k]]

Copied(o, k) == IF k = "cpu" THEN mem[o]["stat"].rest ELSE mem[o]["io"][Counter[k]]

\* What has been billed is in the entry, and the entry in the file.
Ledger(p, k) ==
  /\ AtMost(billed[p][k], Said(p, k))
  /\ oldstate[p] = NoOld => billed[p][k] = 0
  /\ AtMost(billed[p][k], Left(p, k)) /\ AtMost(Left(p, k), Said(p, k))

\* A usage computed from this copy bills nothing a second time.
UpToDate(o, k) ==
  AtMost(billed[pidof[o]][k], Copied(o, k)) /\ AtMost(Left(pidof[o], k), Copied(o, k))

BillsInv ==
  \A p \in Pid, k \in Kinds :
    /\ spawns[p] = 0 => billed[p][k] = 0 /\ oldstate[p] = NoOld /\ \A o \in Obj : pidof[o] # p
    /\ Countable(p, FileOf(k)) =>
         /\ Ledger(p, k)
         /\ \A o \in Obj : pidof[o] = p => AtMost(Copied(o, k), Said(p, k))

WatchInv ==
  /\ BillsInv
  /\ \A o \in Obj, k \in Kinds :
       pidof[o] # NoPid /\ Countable(pidof[o], FileOf(k)) => UpToDate(o, k)

\* A usage that has been computed is not made from a value nothing wrote.
NoIndeterminateUsage ==
  \A o \in Obj, k \in Kinds :
    pidof[o] # NoPid /\ k \notin due[o] =>
      \/ ~Countable(pidof[o], FileOf(k))
      \/ Unset \notin {usage[o][k].num, usage[o][k].den}

\* Nor is any sum of the usages reported.
SumsDeterminate == \A p \in Pid, k \in Kinds : billed[p][k] # Unset

\* ioTotalUsage() reports what was read and what was written since the old
\* state it found.
IoTotalIsReadPlusWrite ==
  \A o \in Obj, k \in {"ior", "iow"} :
    owed[o][k].num # Unset /\ {"ior", "iow"} \cap due[o] = {} =>
      usage[o][k].num = owed[o][k].num
=============================================================================
