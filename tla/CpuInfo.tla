------------------------------ MODULE CpuInfo ------------------------------
(***************************************************************************)
(* readCPUInfo(), getNbCPUs() and getNbCores() (src/sysinfo.cpp): the file *)
(* /proc/cpuinfo has one block of "key : value" lines per processor that   *)
(* is online, ended by a blank line.  Processors go offline and come back  *)
(* while the file is read.                                                 *)
(*                                                                         *)
(* Of the keys the model has the three that the counts need, "flags", the  *)
(* one whose values add up in the member, and "stepping", a number that    *)
(* the kernel may print as "unknown"; the others are assigned like one of  *)
(* these.  A processor's key is its number plus one.                       *)
(*                                                                         *)
(* A definition f_Variant is a faulty form of f that no specification      *)
(* uses: it is there to see which property would notice the fault.         *)
(***************************************************************************)
EXTENDS SeqFile

CONSTANTS
  Thread,    \* the processors there may be: [physical_id, core_id, stepping, flags]
  Absent,    \* an id that the block does not have: the processor has no topology
  MaxReads   \* bound: how often the client calls

ASSUME CpuAssumption ==
  /\ \A t \in Thread : /\ t.physical_id \in Nat \cup {Absent}
                      /\ t.core_id \in Nat \cup {Absent}
                      /\ t.stepping \in {"number", "unknown"}
                      /\ t.flags \in Seq(STRING)
  /\ Absent \notin Nat
  /\ MaxReads \in Nat

VARIABLES
  doing,        \* "idle", "read": in the while; "read it": the caller has cpuinfo
  lines,        \* the lines of the file read() has buffered
  cur_cpuinfo,
  cpuinfo,
  reads         \* bound

cpuVars == <<doing, lines, cur_cpuinfo, cpuinfo, reads>>
allCpuVars == <<seqVars, cpuVars>>

-----------------------------------------------------------------------------
\* cpu_info_t(), which sets every number to 0.
cpu_info_t == [processor |-> 0, physical_id |-> 0, core_id |-> 0, flags |-> <<>>]

Blank == [key |-> "", value |-> ""]

\* A line that the block does not have is here one that the chain of ifs does
\* not know, as the blocks have others.
IdLine(key, id) == [key |-> IF id = Absent THEN "unknown to the library" ELSE key, value |-> id]

Printed(s) ==
  << [key |-> "processor", value |-> s.key - 1],
     [key |-> "stepping", value |-> s.entry.stepping],
     IdLine("physical id", s.entry.physical_id),
     IdLine("core id", s.entry.core_id),
     [key |-> "flags", value |-> s.entry.flags],
     Blank >>

\* A value that std::stoi() or std::stol() refuses.
NotANumber(line) == line.key = "stepping" /\ line.value # "number"

\* The chain of ifs: what a line does to the processor's information.
Assigned_Misspelt(info, line) ==
  CASE line.key = "processor" -> [info EXCEPT !.processor = line.value]
    [] line.key = "physical id" -> [info EXCEPT !.physical_id = line.value]
    [] line.key = "core_id" -> [info EXCEPT !.core_id = line.value]
    [] line.key = "flags" -> [info EXCEPT !.flags = @ \o line.value]
    [] OTHER -> info

Assigned(info, line) ==
  CASE line.key = "processor" -> [info EXCEPT !.processor = line.value]
    [] line.key = "physical id" -> [info EXCEPT !.physical_id = line.value]
    [] line.key = "core id" -> [info EXCEPT !.core_id = line.value]
    [] line.key = "flags" -> [info EXCEPT !.flags = @ \o line.value]
    [] OTHER -> info

-----------------------------------------------------------------------------
BeginRead ==
  /\ doing # "read" /\ reads < MaxReads
  /\ reads' = reads + 1
  /\ \/ Seek /\ doing' = "read"
     \/ CannotOpen /\ doing' = "read it"
  /\ lines' = <<>>
  /\ cur_cpuinfo' = cpu_info_t
  /\ cpuinfo' = <<>>

\* The kernel's part of std::getline().
ReadCpus(k) ==
  /\ doing = "read" /\ lines = <<>>
  /\ Show(k)
  /\ lines' = Printed(Shown(k))
  /\ UNCHANGED <<doing, cur_cpuinfo, cpuinfo, reads>>

\* One round of the while: a blank line ends a processor, ...
BlankLine_NoReset ==
  /\ doing = "read" /\ lines # <<>> /\ Head(lines).key = ""
  /\ cpuinfo' = Append(cpuinfo, cur_cpuinfo)
  /\ lines' = Tail(lines)
  /\ UNCHANGED <<seqVars, doing, cur_cpuinfo, reads>>

BlankLine_OneBehind ==
  /\ doing = "read" /\ lines # <<>> /\ Head(lines).key = ""
  /\ cpuinfo' = IF Len(shown) > 1 THEN Append(cpuinfo, cur_cpuinfo) ELSE cpuinfo
  /\ cur_cpuinfo' = cpu_info_t
  /\ lines' = Tail(lines)
  /\ UNCHANGED <<seqVars, doing, reads>>

BlankLine ==
  /\ doing = "read" /\ lines # <<>> /\ Head(lines).key = ""
  /\ cpuinfo' = Append(cpuinfo, cur_cpuinfo)
  /\ cur_cpuinfo' = cpu_info_t
  /\ lines' = Tail(lines)
  /\ UNCHANGED <<seqVars, doing, reads>>

\* ... any other sets a member, ...
KeyLine ==
  /\ doing = "read" /\ lines # <<>> /\ Head(lines).key # "" /\ ~ NotANumber(Head(lines))
  /\ cur_cpuinfo' = Assigned(cur_cpuinfo, Head(lines))
  /\ lines' = Tail(lines)
  /\ UNCHANGED <<seqVars, doing, cpuinfo, reads>>

\* ... unless the value is no number: nobody catches it in readCPUInfo(), and
\* the processors read before are lost with the vector.
KeyThrows ==
  /\ doing = "read" /\ lines # <<>> /\ NotANumber(Head(lines))
  /\ doing' = "idle"
  /\ lines' = <<>>
  /\ cur_cpuinfo' = cpu_info_t
  /\ cpuinfo' = <<>>
  /\ UNCHANGED <<seqVars, reads>>

\* A block that no blank line has ended would be lost here.
EndRead ==
  /\ doing = "read" /\ lines = <<>> /\ AtEnd
  /\ doing' = "read it"
  /\ UNCHANGED <<seqVars, lines, cur_cpuinfo, cpuinfo, reads>>

\* What the two counting functions make of it.
getNbCPUs == Cardinality({k \in DOMAIN cpuinfo : cpuinfo[k].core_id = 0})
getNbCores == Len(cpuinfo)

-----------------------------------------------------------------------------
CpuOwnInit ==
  /\ doing = "idle"
  /\ lines = <<>>
  /\ cur_cpuinfo = cpu_info_t
  /\ cpuinfo = <<>>
  /\ reads = 0

CpuInit == SeqInit(Thread) /\ CpuOwnInit

Hotplug == Alter(Thread) /\ UNCHANGED cpuVars

CpuNext ==
  \/ Hotplug
  \/ BeginRead
  \/ \E k \in Key : ReadCpus(k)
  \/ BlankLine
  \/ KeyLine
  \/ KeyThrows
  \/ EndRead

CpuSpec == CpuInit /\ [][CpuNext]_allCpuVars

-----------------------------------------------------------------------------
\* What is to be read of a processor: an id that is not there is 0.
IdOf(id) == IF id = Absent THEN 0 ELSE id

InfoOf(s) ==
  [processor |-> s.key - 1, physical_id |-> IdOf(s.entry.physical_id),
   core_id |-> IdOf(s.entry.core_id), flags |-> s.entry.flags]

CpuTypeOK ==
  /\ SeqTypeOK(Thread)
  /\ doing \in {"idle", "read", "read it"}
  /\ cur_cpuinfo \in [processor : Nat, physical_id : Nat, core_id : Nat, flags : Seq(STRING)]
  /\ cpuinfo \in Seq({InfoOf(s) : s \in [key : Key, entry : Thread]})
  /\ Len(lines) <= 6
  /\ reads \in 0 .. MaxReads

\* Every element is one processor as it was at some moment of the reading: no
\* member, and none of the flags, is of the processor before it.
InfosAreProcessors ==
  \A k \in DOMAIN cpuinfo : \E s \in met : cpuinfo[k] = InfoOf(s)

\* A processor that stays online and as it is during the reading is there,
\* unless the call throws and gives no answer.
NoProcessorMissing ==
  doing = "read it" => \A s \in there : \E k \in DOMAIN cpuinfo : cpuinfo[k] = InfoOf(s)

\* getNbCores() counts every processor once: the number lies between those
\* that were online all the time and those that were online at all.
CoresCounted ==
  doing = "read it" =>
    /\ Cardinality({s.key : s \in there}) <= getNbCores
    /\ getNbCores <= Cardinality({s.key : s \in met})

\* getNbCPUs() is the number of packages if nothing changes meanwhile, every
\* block has both ids and each package has exactly one thread whose core id is
\* 0 - which hyperthreading, or a core 0 that is offline, make untrue.
PackagesCounted ==
  LET packages == {s.entry.physical_id : s \in met}
      HasIds(s) == s.entry.physical_id # Absent /\ s.entry.core_id # Absent
      OneCoreZero(p) ==
        Cardinality({s \in met : s.entry.physical_id = p /\ s.entry.core_id = 0}) = 1 IN
  /\ doing = "read it" /\ there = met
  /\ (\A s \in met : HasIds(s)) /\ (\A p \in packages : OneCoreZero(p))
  => getNbCPUs = Cardinality(packages)

\* readCPUInfo() as the listing of the processors.
NumberOf(s) == s.key

CpusView == INSTANCE Snapshot WITH
              Read    <- InfoOf,
              Place   <- NumberOf,
              entries <- Entries,
              phase   <- CASE doing = "idle" -> "none"
                           [] doing = "read" -> "busy"
                           [] doing = "read it" -> "answered",
              there   <- IF doing = "read" THEN there ELSE {},
              met     <- IF doing = "read" THEN met ELSE {},
              answer  <- IF doing = "read" THEN {}
                         ELSE {cpuinfo[k] : k \in DOMAIN cpuinfo}

\* Line by line and while processors go and come, readCPUInfo() gives what one
\* listing may give; when it throws it gives nothing.
CpusAreAListing == CpusView!Spec
=============================================================================
