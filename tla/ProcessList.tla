---------------------------- MODULE ProcessList ----------------------------
(***************************************************************************)
(* processListPid(), processCount() and processList() (src/sysinfo.cpp):   *)
(* a walk over the directory /proc while processes start and exit, and one *)
(* ProcessInfo object for each pid found.  The module composes the walk    *)
(* with the kernel and the objects of ProcessInfo.                         *)
(*                                                                         *)
(* The kernel's side of the walk is external: it lists what is no process, *)
(* then the processes by rising pid, from the pid after the last one on,   *)
(* and hands them over in batches that readdir() buffers.  When /proc      *)
(* itself cannot be opened the functions throw and nothing changes.        *)
(*                                                                         *)
(* A definition f_Variant is a faulty form of f that no specification      *)
(* uses: it is there to see which property would notice the fault.         *)
(***************************************************************************)
EXTENDS ProcessInfo

CONSTANTS
  Other,     \* the entries of /proc whose names are not numbers
  MaxScans   \* bound: how often the client lists the processes

ASSUME ListAssumption ==
  /\ Pid \subseteq Nat \ {0}
  /\ Other \cap Pid = {}
  /\ MaxScans \in Nat

VARIABLES
  doing,    \* "idle", "scan": in processListPid(), "make": in the for of
            \* processList(), "held": the client has the result
  objects,  \* is it processList() that was called
  passed,   \* kernel: the last pid it has handed over; -1 before the rest
  entries,  \* the entries in readdir()'s buffer
  process_pid_list,
  process_list,  \* the objects' slots
  scans,    \* bound
  there,    \* history: the processes that lived all through the walk
  met       \* history: those that lived at some moment of it

walkVars == <<doing, objects, passed, entries, process_pid_list, process_list, scans>>
listVars == <<vars, walkVars, there, met>>

-----------------------------------------------------------------------------
\* The kernel (external): ProcessInfo's, and what the walk may see of it.

Living == {p \in Pid : alive[p]}
Listed == {process_pid_list[k] : k \in DOMAIN process_pid_list}

Watched ==
  IF doing = "scan" THEN there' = there \cap Living' /\ met' = met \cup Living'
  ELSE UNCHANGED <<there, met>>

ListKernel ==
  /\ Kernel
  /\ Watched
  /\ UNCHANGED walkVars

\* The next batch: the processes from the last pid handed over up to some
\* later one, and in the first batch the other entries.
Coming == {p \in Living : p > passed}

getdents ==
  /\ doing = "scan" /\ entries = {}
  /\ \E end \in Coming \cup (IF passed = -1 THEN {0} ELSE {}) :
       /\ entries' = {p \in Coming : p <= end} \cup (IF passed = -1 THEN Other ELSE {})
       /\ passed' = end
  /\ UNCHANGED <<vars, doing, objects, process_pid_list, process_list, scans, there, met>>

-----------------------------------------------------------------------------
\* A call of processList() if o, of one of the other two if not.
Begin_KeepsList(o) ==
  /\ doing = "idle" /\ scans < MaxScans
  /\ scans' = scans + 1
  /\ doing' = "scan" /\ objects' = o
  /\ passed' = -1 /\ entries' = {}
  /\ there' = Living /\ met' = Living
  /\ UNCHANGED <<vars, process_pid_list, process_list>>

Begin(o) ==
  /\ doing = "idle" /\ scans < MaxScans
  /\ scans' = scans + 1
  /\ doing' = "scan" /\ objects' = o
  /\ passed' = -1 /\ entries' = {}
  /\ process_pid_list' = <<>>
  /\ there' = Living /\ met' = Living
  /\ UNCHANGED <<vars, process_list>>

\* One round of the for of processListPid(): the next entry is no number, or
\* no directory.
Skip_Converts(e) ==
  /\ doing = "scan"
  /\ e \in entries \cap Other
  /\ entries' = entries \ {e}
  /\ process_pid_list' = Append(process_pid_list, 0)
  /\ UNCHANGED <<vars, doing, objects, passed, process_list, scans, there, met>>

Skip_Stays(e) ==
  /\ doing = "scan"
  /\ e \in entries \cap Other
  /\ UNCHANGED listVars

Skip(e) ==
  /\ doing = "scan"
  /\ e \in entries \cap Other
  /\ entries' = entries \ {e}
  /\ UNCHANGED <<vars, doing, objects, passed, process_pid_list, process_list, scans,
                 there, met>>

\* Or it is a pid.  is_directory() believes what readdir() said of the entry,
\* except that for a process that died before the kernel could say it asks,
\* and is told no.
Take_Forgets(p) ==
  /\ doing = "scan"
  /\ p \in entries /\ \A q \in entries \ Other : p <= q
  /\ entries' = {}
  /\ process_pid_list' = Append(process_pid_list, p)
  /\ UNCHANGED <<vars, doing, objects, passed, process_list, scans, there, met>>

Take(p) ==
  /\ doing = "scan"
  /\ p \in entries /\ \A q \in entries \ Other : p <= q
  /\ entries' = entries \ {p}
  /\ \/ process_pid_list' = Append(process_pid_list, p)
     \/ ~alive[p] /\ UNCHANGED process_pid_list
  /\ UNCHANGED <<vars, doing, objects, passed, process_list, scans, there, met>>

\* itr == end_itr
EndOfDirectory ==
  /\ doing = "scan" /\ entries = {} /\ passed # -1 /\ Coming = {}
  /\ doing' = IF objects THEN "make" ELSE "held"
  /\ UNCHANGED <<vars, objects, passed, entries, process_pid_list, process_list, scans,
                 there, met>>

\* One round of the for of processList().  The constructor reads no file, so
\* nothing is thrown for a process that is gone, and neither catch block runs.
Make_Last(o) ==
  LET next == Len(process_list) + 1 IN
  /\ doing = "make"
  /\ next <= Len(process_pid_list)
  /\ Construct(o, process_pid_list[Len(process_pid_list)])
  /\ process_list' = Append(process_list, o)
  /\ UNCHANGED <<doing, objects, passed, entries, process_pid_list, scans, there, met>>

Make(o) ==
  LET next == Len(process_list) + 1 IN
  /\ doing = "make"
  /\ next <= Len(process_pid_list)
  /\ Construct(o, process_pid_list[next])
  /\ process_list' = Append(process_list, o)
  /\ UNCHANGED <<doing, objects, passed, entries, process_pid_list, scans, there, met>>

MakeEnd ==
  /\ doing = "make"
  /\ Len(process_list) = Len(process_pid_list)
  /\ doing' = "held"
  /\ UNCHANGED <<vars, objects, passed, entries, process_pid_list, process_list, scans,
                 there, met>>

\* The client drops the list, object by object, and then the pids.  What it
\* does with an object before that is in ProcessInfo.
Drop ==
  LET n == Len(process_list) IN
  /\ doing = "held"
  /\ IF n = 0
     THEN doing' = "idle" /\ UNCHANGED <<vars, process_list>>
     ELSE /\ Destroy(process_list[n])
          /\ process_list' = SubSeq(process_list, 1, n - 1)
          /\ doing' = doing
  /\ UNCHANGED <<objects, passed, entries, process_pid_list, scans, there, met>>

-----------------------------------------------------------------------------
ListInit ==
  /\ Init
  /\ doing = "idle"
  /\ objects = FALSE
  /\ passed = -1
  /\ entries = {}
  /\ process_pid_list = <<>>
  /\ process_list = <<>>
  /\ scans = 0
  /\ there = {} /\ met = {}

\* What the three functions do by themselves.
Walk ==
  \/ getdents
  \/ \E e \in Other : Skip(e)
  \/ \E p \in Pid : Take(p)
  \/ EndOfDirectory
  \/ \E o \in Obj : Make(o)
  \/ MakeEnd

ListNext ==
  \/ ListKernel
  \/ \E o \in BOOLEAN : Begin(o)
  \/ Walk
  \/ Drop

ListSpec == ListInit /\ [][ListNext]_listVars

\* The calling thread is scheduled; nothing in the three functions waits.
FairListSpec == ListSpec /\ WF_listVars(Walk)

-----------------------------------------------------------------------------
\* Pids come from the kernel, and objects only from pids listed.
ListTypeOK ==
  /\ TypeOK
  /\ doing \in {"idle", "scan", "make", "held"}
  /\ objects \in BOOLEAN
  /\ passed \in Pid \cup {-1, 0}
  /\ entries \subseteq Pid \cup Other
  /\ process_pid_list \in Seq(Pid)
  /\ process_list \in Seq(Obj)
  /\ scans \in 0 .. MaxScans
  /\ there \subseteq met /\ met \subseteq Pid

\* However processes come and go during the walk, and whether or not a pid is
\* given to a second process meanwhile, no pid is listed twice.
ListedOnce ==
  \A j, k \in DOMAIN process_pid_list :
    j < k => process_pid_list[j] < process_pid_list[k]

\* A process that lives from the call to the end of the walk is listed: the
\* exit of its neighbours makes the walk skip nobody.
ListedIfThere == doing \in {"make", "held"} => there \subseteq Listed

\* Nobody is listed who did not live at some moment since the call - though
\* a process listed may be gone when the function returns.
ListedWereMet == doing # "idle" => Listed \subseteq met

\* processList() makes one object of its own for each pid, in order, also for
\* those that have died since.
OneObjectPerPid ==
  /\ \A j, k \in DOMAIN process_list : process_list[j] = process_list[k] => j = k
  /\ \A k \in DOMAIN process_list :
       k \in DOMAIN process_pid_list /\ pidof[process_list[k]] = process_pid_list[k]
  /\ \A o \in Obj : pidof[o] # NoPid => \E k \in DOMAIN process_list : process_list[k] = o

\* The walk ends: a batch never goes back to a pid that was handed over, so
\* there are at most as many rounds as pids, whoever starts meanwhile.
WalkEnds == (doing = "scan" \/ doing = "make") ~> doing = "held"

\* The walk as the listing of the processes, by their pids.
PidOf(p) == p

WalkView == INSTANCE Snapshot WITH
              Read    <- PidOf,
              Place   <- PidOf,
              entries <- Living,
              phase   <- CASE doing = "idle" -> "none"
                           [] doing = "scan" -> "busy"
                           [] doing \in {"make", "held"} -> "answered",
              there   <- IF doing = "scan" THEN there ELSE {},
              met     <- IF doing = "scan" THEN met ELSE {},
              answer  <- IF doing = "scan" THEN {} ELSE Listed

\* Batch by batch and while processes start and exit, the walk gives what one
\* listing may give, and the making and dropping of objects leaves it alone.
WalkIsAListing == WalkView!Spec
=============================================================================
