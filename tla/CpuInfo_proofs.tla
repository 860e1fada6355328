--------------------------- MODULE CpuInfo_proofs ---------------------------
(***************************************************************************)
(* Proofs about CpuInfo, for every set of processors, with any topology,   *)
(* and any number of changes and calls.                                    *)
(***************************************************************************)
EXTENDS CpuInfo, SeqFile_proofs, FiniteSetTheorems

-----------------------------------------------------------------------------
\* The lines of a block, and the structure after each of them.

Processor(s) == [key |-> "processor", value |-> s.key - 1]
Stepping(s) == [key |-> "stepping", value |-> s.entry.stepping]
Package(s) == IdLine("physical id", s.entry.physical_id)
Core(s) == IdLine("core id", s.entry.core_id)
Flags(s) == [key |-> "flags", value |-> s.entry.flags]

Info(a, b, c, f) == [processor |-> a, physical_id |-> b, core_id |-> c, flags |-> f]

\* The block of s is read up to some line.
ReadUpTo(s) ==
  \/ /\ lines = <<Processor(s), Stepping(s), Package(s), Core(s), Flags(s), Blank>>
     /\ cur_cpuinfo = Info(0, 0, 0, <<>>)
  \/ /\ lines = <<Stepping(s), Package(s), Core(s), Flags(s), Blank>>
     /\ cur_cpuinfo = Info(s.key - 1, 0, 0, <<>>)
  \/ /\ lines = <<Package(s), Core(s), Flags(s), Blank>>
     /\ cur_cpuinfo = Info(s.key - 1, 0, 0, <<>>)
  \/ /\ lines = <<Core(s), Flags(s), Blank>>
     /\ cur_cpuinfo = Info(s.key - 1, IdOf(s.entry.physical_id), 0, <<>>)
  \/ /\ lines = <<Flags(s), Blank>>
     /\ cur_cpuinfo = Info(s.key - 1, IdOf(s.entry.physical_id), IdOf(s.entry.core_id), <<>>)
  \/ /\ lines = <<Blank>>
     /\ cur_cpuinfo = InfoOf(s)

LEMMA SixLines ==
  ASSUME NEW a, NEW b, NEW c, NEW d, NEW e, NEW f
  PROVE  /\ Head(<<a, b, c, d, e, f>>) = a /\ Tail(<<a, b, c, d, e, f>>) = <<b, c, d, e, f>>
         /\ Head(<<b, c, d, e, f>>) = b /\ Tail(<<b, c, d, e, f>>) = <<c, d, e, f>>
         /\ Head(<<c, d, e, f>>) = c /\ Tail(<<c, d, e, f>>) = <<d, e, f>>
         /\ Head(<<d, e, f>>) = d /\ Tail(<<d, e, f>>) = <<e, f>>
         /\ Head(<<e, f>>) = e /\ Tail(<<e, f>>) = <<f>>
         /\ Head(<<f>>) = f /\ Tail(<<f>>) = <<>>
         /\ <<a, b, c, d, e, f>> # <<>> /\ <<b, c, d, e, f>> # <<>> /\ <<c, d, e, f>> # <<>>
         /\ <<d, e, f>> # <<>> /\ <<e, f>> # <<>> /\ <<f>> # <<>>
         /\ Len(<<a, b, c, d, e, f>>) <= 6 /\ Len(<<b, c, d, e, f>>) <= 6 /\ Len(<<c, d, e, f>>) <= 6
         /\ Len(<<d, e, f>>) <= 6 /\ Len(<<e, f>>) <= 6 /\ Len(<<f>>) <= 6 /\ Len(<<>>) <= 6
OBVIOUS

LEMMA Keys ==
  ASSUME NEW s
  PROVE  /\ Blank.key = ""
         /\ Processor(s).key # "" /\ Stepping(s).key # "" /\ Package(s).key # ""
         /\ Core(s).key # "" /\ Flags(s).key # ""
BY DEF Processor, Stepping, Package, Core, Flags, Blank, IdLine

LEMMA AssignedLines ==
  ASSUME NEW s \in [key : Key, entry : Thread], NEW a, NEW b, NEW c
  PROVE  /\ Assigned(Info(a, b, c, <<>>), Processor(s)) = Info(s.key - 1, b, c, <<>>)
         /\ Assigned(Info(a, b, c, <<>>), Stepping(s)) = Info(a, b, c, <<>>)
         /\ Assigned(Info(a, b, 0, <<>>), Core(s)) = Info(a, b, IdOf(s.entry.core_id), <<>>)
         /\ Assigned(Info(a, 0, c, <<>>), Package(s)) = Info(a, IdOf(s.entry.physical_id), c, <<>>)
         /\ Assigned(Info(a, b, c, <<>>), Flags(s)) = Info(a, b, c, s.entry.flags)
<1>1. Assigned(Info(a, b, c, <<>>), Processor(s)) = Info(s.key - 1, b, c, <<>>)
  BY DEF Assigned, Info, Processor
<1>5. Assigned(Info(a, b, c, <<>>), Stepping(s)) = Info(a, b, c, <<>>)
  BY DEF Assigned, Info, Stepping
<1>2. Assigned(Info(a, 0, c, <<>>), Package(s)) = Info(a, IdOf(s.entry.physical_id), c, <<>>)
  BY DEF Assigned, Info, Package, IdLine, IdOf
<1>3. Assigned(Info(a, b, 0, <<>>), Core(s)) = Info(a, b, IdOf(s.entry.core_id), <<>>)
  BY DEF Assigned, Info, Core, IdLine, IdOf
<1>4. Assigned(Info(a, b, c, <<>>), Flags(s)) = Info(a, b, c, s.entry.flags)
  <2>1. s.entry.flags \in Seq(STRING)
    BY CpuAssumption
  <2>2. <<>> \o s.entry.flags = s.entry.flags
    BY <2>1
  <2> QED BY <2>2 DEF Assigned, Info, Flags
<1> QED BY <1>1, <1>2, <1>3, <1>4, <1>5

\* A line with a key leaves the block read up to the next one.
LEMMA KeyLineReads ==
  ASSUME NEW s \in [key : Key, entry : Thread], ReadUpTo(s), Head(lines).key # "",
         cur_cpuinfo' = Assigned(cur_cpuinfo, Head(lines)), lines' = Tail(lines)
  PROVE  /\ \/ /\ lines' = <<Stepping(s), Package(s), Core(s), Flags(s), Blank>>
               /\ cur_cpuinfo' = Info(s.key - 1, 0, 0, <<>>)
            \/ /\ lines' = <<Package(s), Core(s), Flags(s), Blank>>
               /\ cur_cpuinfo' = Info(s.key - 1, 0, 0, <<>>)
            \/ /\ lines' = <<Core(s), Flags(s), Blank>>
               /\ cur_cpuinfo' = Info(s.key - 1, IdOf(s.entry.physical_id), 0, <<>>)
            \/ /\ lines' = <<Flags(s), Blank>>
               /\ cur_cpuinfo' = Info(s.key - 1, IdOf(s.entry.physical_id), IdOf(s.entry.core_id), <<>>)
            \/ /\ lines' = <<Blank>>
               /\ cur_cpuinfo' = InfoOf(s)
         /\ Len(lines') <= 6
<1>1. lines # <<Blank>>
  BY SixLines, Keys
<1>2. Info(s.key - 1, IdOf(s.entry.physical_id), IdOf(s.entry.core_id), s.entry.flags) = InfoOf(s)
  BY DEF Info, InfoOf
<1>3. CASE /\ lines = <<Processor(s), Stepping(s), Package(s), Core(s), Flags(s), Blank>>
           /\ cur_cpuinfo = Info(0, 0, 0, <<>>)
  <2>1. Head(lines) = Processor(s) /\ lines' = <<Stepping(s), Package(s), Core(s), Flags(s), Blank>> /\ Len(lines') <= 6
    <3>1. /\ Head(<<Processor(s), Stepping(s), Package(s), Core(s), Flags(s), Blank>>) = Processor(s)
          /\ Tail(<<Processor(s), Stepping(s), Package(s), Core(s), Flags(s), Blank>>) = <<Stepping(s), Package(s), Core(s), Flags(s), Blank>>
          /\ Len(<<Stepping(s), Package(s), Core(s), Flags(s), Blank>>) <= 6
      BY ONLY SixLines
    <3> QED BY <1>3, <3>1
  <2>2. cur_cpuinfo' = Assigned(Info(0, 0, 0, <<>>), Processor(s))
    BY <1>3, <2>1
  <2>3. cur_cpuinfo' = Info(s.key - 1, 0, 0, <<>>)
    BY ONLY <2>2, AssignedLines, s \in [key : Key, entry : Thread]
  <2> QED BY <1>2, <2>1, <2>3
<1>7. CASE /\ lines = <<Stepping(s), Package(s), Core(s), Flags(s), Blank>>
           /\ cur_cpuinfo = Info(s.key - 1, 0, 0, <<>>)
  <2>1. Head(lines) = Stepping(s) /\ lines' = <<Package(s), Core(s), Flags(s), Blank>> /\ Len(lines') <= 6
    <3>1. /\ Head(<<Stepping(s), Package(s), Core(s), Flags(s), Blank>>) = Stepping(s)
          /\ Tail(<<Stepping(s), Package(s), Core(s), Flags(s), Blank>>) = <<Package(s), Core(s), Flags(s), Blank>>
          /\ Len(<<Package(s), Core(s), Flags(s), Blank>>) <= 6
      BY ONLY SixLines
    <3> QED BY <1>7, <3>1
  <2>2. cur_cpuinfo' = Assigned(Info(s.key - 1, 0, 0, <<>>), Stepping(s))
    BY <1>7, <2>1
  <2>3. cur_cpuinfo' = Info(s.key - 1, 0, 0, <<>>)
    BY ONLY <2>2, AssignedLines, s \in [key : Key, entry : Thread]
  <2> QED BY <1>2, <2>1, <2>3
<1>4. CASE /\ lines = <<Package(s), Core(s), Flags(s), Blank>>
           /\ cur_cpuinfo = Info(s.key - 1, 0, 0, <<>>)
  <2>1. Head(lines) = Package(s) /\ lines' = <<Core(s), Flags(s), Blank>> /\ Len(lines') <= 6
    <3>1. /\ Head(<<Package(s), Core(s), Flags(s), Blank>>) = Package(s)
          /\ Tail(<<Package(s), Core(s), Flags(s), Blank>>) = <<Core(s), Flags(s), Blank>>
          /\ Len(<<Core(s), Flags(s), Blank>>) <= 6
      BY ONLY SixLines
    <3> QED BY <1>4, <3>1
  <2>2. cur_cpuinfo' = Assigned(Info(s.key - 1, 0, 0, <<>>), Package(s))
    BY <1>4, <2>1
  <2>3. cur_cpuinfo' = Info(s.key - 1, IdOf(s.entry.physical_id), 0, <<>>)
    BY ONLY <2>2, AssignedLines, s \in [key : Key, entry : Thread]
  <2> QED BY <1>2, <2>1, <2>3
<1>5. CASE /\ lines = <<Core(s), Flags(s), Blank>>
           /\ cur_cpuinfo = Info(s.key - 1, IdOf(s.entry.physical_id), 0, <<>>)
  <2>1. Head(lines) = Core(s) /\ lines' = <<Flags(s), Blank>> /\ Len(lines') <= 6
    <3>1. /\ Head(<<Core(s), Flags(s), Blank>>) = Core(s)
          /\ Tail(<<Core(s), Flags(s), Blank>>) = <<Flags(s), Blank>>
          /\ Len(<<Flags(s), Blank>>) <= 6
      BY ONLY SixLines
    <3> QED BY <1>5, <3>1
  <2>2. cur_cpuinfo' = Assigned(Info(s.key - 1, IdOf(s.entry.physical_id), 0, <<>>), Core(s))
    BY <1>5, <2>1
  <2>3. cur_cpuinfo' = Info(s.key - 1, IdOf(s.entry.physical_id), IdOf(s.entry.core_id), <<>>)
    BY ONLY <2>2, AssignedLines, s \in [key : Key, entry : Thread]
  <2> QED BY <1>2, <2>1, <2>3
<1>6. CASE /\ lines = <<Flags(s), Blank>>
           /\ cur_cpuinfo = Info(s.key - 1, IdOf(s.entry.physical_id), IdOf(s.entry.core_id), <<>>)
  <2>1. Head(lines) = Flags(s) /\ lines' = <<Blank>> /\ Len(lines') <= 6
    <3>1. /\ Head(<<Flags(s), Blank>>) = Flags(s)
          /\ Tail(<<Flags(s), Blank>>) = <<Blank>>
          /\ Len(<<Blank>>) <= 6
      BY ONLY SixLines
    <3> QED BY <1>6, <3>1
  <2>2. cur_cpuinfo' = Assigned(Info(s.key - 1, IdOf(s.entry.physical_id), IdOf(s.entry.core_id), <<>>), Flags(s))
    BY <1>6, <2>1
  <2>3. cur_cpuinfo' = Info(s.key - 1, IdOf(s.entry.physical_id), IdOf(s.entry.core_id), s.entry.flags)
    BY ONLY <2>2, AssignedLines, s \in [key : Key, entry : Thread]
  <2> QED BY <1>2, <2>1, <2>3
<1> QED BY <1>1, <1>3, <1>4, <1>5, <1>6, <1>7 DEF ReadUpTo

-----------------------------------------------------------------------------
\* The invariant.

CpuProgress ==
  doing = "read" =>
    /\ opened
    /\ \/ lines = <<>> /\ cur_cpuinfo = Info(0, 0, 0, <<>>) /\ Len(cpuinfo) = Len(shown)
       \/ \E n \in Nat \ {0} : Len(shown) = n /\ Len(cpuinfo) = n - 1 /\ ReadUpTo(shown[n])

InfosFollow ==
  /\ Len(cpuinfo) <= Len(shown)
  /\ \A k \in 1 .. Len(cpuinfo) : cpuinfo[k] = InfoOf(shown[k])

\* What the caller gets: all of the file, and that is all that stayed online.
AllRead ==
  doing = "read it" =>
    /\ Len(cpuinfo) = Len(shown)
    /\ \A s \in there : \E k \in DOMAIN shown : shown[k] = s

CpuInv ==
  /\ CpuTypeOK
  /\ ShownOrder
  /\ CpuProgress
  /\ InfosFollow
  /\ AllRead

AnyInfo == {InfoOf(s) : s \in [key : Key, entry : Thread]}
InfoType == [processor : Nat, physical_id : Nat, core_id : Nat, flags : Seq(STRING)]

LEMMA InfosTyped ==
  ASSUME NEW s \in [key : Key, entry : Thread]
  PROVE  /\ Info(0, 0, 0, <<>>) \in InfoType
         /\ Info(s.key - 1, 0, 0, <<>>) \in InfoType
         /\ Info(s.key - 1, IdOf(s.entry.physical_id), 0, <<>>) \in InfoType
         /\ Info(s.key - 1, IdOf(s.entry.physical_id), IdOf(s.entry.core_id), <<>>) \in InfoType
         /\ InfoOf(s) \in InfoType /\ InfoOf(s) \in AnyInfo
<1>1. s.key - 1 \in Nat
  <2>1. s.key \in Nat /\ s.key # 0
    BY SeqAssumption
  <2> QED BY <2>1
<1>2. /\ IdOf(s.entry.physical_id) \in Nat /\ IdOf(s.entry.core_id) \in Nat
      /\ s.entry.flags \in Seq(STRING)
  BY CpuAssumption DEF IdOf
<1>3. 0 \in Nat /\ <<>> \in Seq(STRING)
  OBVIOUS
<1> QED BY <1>1, <1>2, <1>3 DEF Info, InfoOf, InfoType, AnyInfo

LEMMA EmptyInfo == cpu_info_t = Info(0, 0, 0, <<>>) /\ cpu_info_t \in InfoType
<1>1. 0 \in Nat /\ <<>> \in Seq(STRING)
  OBVIOUS
<1> QED BY <1>1 DEF cpu_info_t, Info, InfoType

LEMMA CpuInitHolds == CpuInit => CpuInv
<1> SUFFICES ASSUME CpuInit PROVE CpuInv
  OBVIOUS
<1>1. SeqTypeOK(Thread) /\ ShownOrder /\ shown = <<>>
  BY SeqInitHolds DEF CpuInit, SeqInit
<1>2. doing = "idle" /\ lines = <<>> /\ cur_cpuinfo = cpu_info_t /\ cpuinfo = <<>> /\ reads = 0
  BY DEF CpuInit, CpuOwnInit
<1>3. <<>> \in Seq(AnyInfo) /\ Len(<<>>) = 0
  OBVIOUS
<1>4. 0 \in 0 .. MaxReads
  <2>1. MaxReads \in Nat
    BY CpuAssumption
  <2> QED BY <2>1
<1>5. CpuTypeOK
  <2>1. cpuinfo \in Seq(AnyInfo) /\ Len(lines) <= 6 /\ reads \in 0 .. MaxReads
    BY <1>2, <1>3, <1>4
  <2> QED BY <1>1, <1>2, <2>1, EmptyInfo DEF CpuTypeOK, AnyInfo, InfoType
<1>6. CpuProgress /\ InfosFollow /\ AllRead
  BY <1>1, <1>2, <1>3 DEF CpuProgress, InfosFollow, AllRead
<1> QED BY <1>1, <1>5, <1>6 DEF CpuInv

LEMMA HotplugStep == CpuInv /\ (Hotplug \/ UNCHANGED allCpuVars) => CpuInv'
<1> SUFFICES ASSUME CpuInv, Hotplug \/ UNCHANGED allCpuVars PROVE CpuInv'
  OBVIOUS
<1>1. SeqTypeOK(Thread)' /\ ShownOrder'
  BY SeqTypeStep, ShownOrderStep DEF CpuInv, CpuTypeOK, Hotplug, allCpuVars, SeqNext
<1>2. UNCHANGED cpuVars /\ UNCHANGED <<opened, shown>> /\ there' \subseteq there
  BY DEF Hotplug, Alter, allCpuVars, seqVars
<1>3. CpuTypeOK'
  BY <1>1, <1>2 DEF CpuInv, CpuTypeOK, cpuVars
<1>4. CpuProgress' /\ InfosFollow' /\ AllRead'
  BY <1>2 DEF CpuInv, cpuVars, CpuProgress, ReadUpTo, InfosFollow, AllRead
<1> QED BY <1>1, <1>3, <1>4 DEF CpuInv

LEMMA BeginReadStep == CpuInv /\ BeginRead => CpuInv'
<1> SUFFICES ASSUME CpuInv, BeginRead PROVE CpuInv'
  OBVIOUS
<1>1. SeqTypeOK(Thread)' /\ ShownOrder'
  BY SeqTypeStep, ShownOrderStep DEF CpuInv, CpuTypeOK, BeginRead, SeqNext
<1>2. /\ lines' = <<>> /\ cur_cpuinfo' = cpu_info_t /\ cpuinfo' = <<>> /\ shown' = <<>>
      /\ Len(<<>>) = 0
      /\ \/ doing' = "read" /\ opened' = TRUE
         \/ doing' = "read it" /\ there' = {}
  BY DEF BeginRead, Seek, CannotOpen
<1>3. reads' \in 0 .. MaxReads
  <2>1. MaxReads \in Nat
    BY CpuAssumption
  <2>2. reads \in 0 .. MaxReads /\ reads < MaxReads /\ reads' = reads + 1
    BY DEF CpuInv, CpuTypeOK, BeginRead
  <2> QED BY <2>1, <2>2
<1>4. CpuTypeOK'
  <2>1. <<>> \in Seq(AnyInfo)
    OBVIOUS
  <2>2. cpuinfo' \in Seq(AnyInfo) /\ Len(lines') <= 6
    <3>1. cpuinfo' \in Seq(AnyInfo)
      BY <1>2, <2>1
    <3>2. Len(lines') = 0
      BY <1>2
    <3> QED BY <3>1, <3>2
  <2>3. doing' \in {"idle", "read", "read it"}
    BY <1>2
  <2> QED BY <1>1, <1>2, <1>3, <2>2, <2>3, EmptyInfo DEF CpuTypeOK, AnyInfo, InfoType
<1>5. Len(cpuinfo') = 0 /\ Len(shown') = 0
  BY <1>2
<1>6. CpuProgress'
  BY <1>2, <1>5, EmptyInfo DEF CpuProgress
<1>7. InfosFollow'
  BY <1>5 DEF InfosFollow
<1>8. AllRead'
  BY <1>2, <1>5 DEF AllRead
<1> QED BY <1>1, <1>4, <1>6, <1>7, <1>8 DEF CpuInv

LEMMA ReadCpusStep == ASSUME CpuInv, NEW k \in Key, ReadCpus(k) PROVE CpuInv'
<1>1. SeqTypeOK(Thread)' /\ ShownOrder' /\ SeqTypeOK(Thread) /\ Show(k)
  BY SeqTypeStep, ShownOrderStep DEF CpuInv, CpuTypeOK, ReadCpus, SeqNext
<1>2. PICK n \in Nat : /\ n = Len(shown) /\ Len(shown') = n + 1
                       /\ \A j \in 1 .. n : shown'[j] = shown[j]
                       /\ shown'[n + 1] = Shown(k)
  BY <1>1, ShowAdds
<1>3. /\ doing = "read" /\ lines = <<>> /\ lines' = Printed(Shown(k)) /\ opened' = opened
      /\ UNCHANGED <<doing, cur_cpuinfo, cpuinfo, reads>>
  BY DEF ReadCpus, Show
<1>4. lines' = <<Processor(Shown(k)), Stepping(Shown(k)), Package(Shown(k)), Core(Shown(k)), Flags(Shown(k)), Blank>>
  BY <1>3 DEF Printed, Processor, Stepping, Package, Core, Flags
<1>5. cur_cpuinfo = Info(0, 0, 0, <<>>) /\ Len(cpuinfo) = n
  <2>1. ASSUME NEW s, ReadUpTo(s) PROVE FALSE
    BY <1>3, <2>1 DEF ReadUpTo
  <2> QED BY <1>2, <1>3, <2>1 DEF CpuInv, CpuProgress
<1>6. CpuProgress'
  <2>1. n + 1 \in Nat \ {0} /\ Len(cpuinfo') = (n + 1) - 1
    BY <1>2, <1>3, <1>5
  <2>2. ReadUpTo(shown[n + 1])'
    <3>1. /\ lines' = <<Processor(shown'[n + 1]), Stepping(shown'[n + 1]), Package(shown'[n + 1]),
                        Core(shown'[n + 1]), Flags(shown'[n + 1]), Blank>>
          /\ cur_cpuinfo' = Info(0, 0, 0, <<>>)
      BY <1>2, <1>3, <1>4, <1>5
    <3> QED BY <3>1 DEF ReadUpTo
  <2> QED BY <1>2, <1>3, <2>1, <2>2 DEF CpuInv, CpuProgress
<1>7. CpuTypeOK'
  <2>1. Len(lines') <= 6
    BY <1>4, SixLines
  <2> QED BY <1>1, <1>3, <2>1 DEF CpuInv, CpuTypeOK
<1>8. InfosFollow'
  <2>1. \A j \in 1 .. n : cpuinfo[j] = InfoOf(shown[j])
    BY <1>5 DEF CpuInv, InfosFollow
  <2> QED BY <1>2, <1>3, <1>5, <2>1 DEF InfosFollow
<1>9. AllRead'
  BY <1>3 DEF AllRead
<1> QED BY <1>1, <1>6, <1>7, <1>8, <1>9 DEF CpuInv

\* Where a line is left, the reader is inside the block shown last.
LEMMA InBlock ==
  ASSUME CpuInv, doing = "read", lines # <<>>
  PROVE  \E n \in Nat \ {0} :
           /\ Len(shown) = n /\ Len(cpuinfo) = n - 1 /\ ReadUpTo(shown[n])
           /\ shown[n] \in [key : Key, entry : Thread]
<1>1. PICK n \in Nat \ {0} : Len(shown) = n /\ Len(cpuinfo) = n - 1 /\ ReadUpTo(shown[n])
  BY DEF CpuInv, CpuProgress
<1>2. shown[n] \in [key : Key, entry : Thread]
  <2>1. shown \in Seq([key : Key, entry : Thread])
    BY DEF CpuInv, CpuTypeOK, SeqTypeOK
  <2>2. \A k \in 1 .. Len(shown) : shown[k] \in [key : Key, entry : Thread]
    BY ONLY <2>1, SeqIndexes
  <2>3. n \in 1 .. Len(shown)
    BY <1>1
  <2> QED BY <2>2, <2>3
<1> QED BY <1>1, <1>2

LEMMA KeyLineStep == CpuInv /\ KeyLine => CpuInv'
<1> SUFFICES ASSUME CpuInv, KeyLine PROVE CpuInv'
  OBVIOUS
<1>1. /\ doing = "read" /\ lines # <<>> /\ Head(lines).key # ""
      /\ cur_cpuinfo' = Assigned(cur_cpuinfo, Head(lines)) /\ lines' = Tail(lines)
      /\ UNCHANGED seqVars /\ UNCHANGED <<opened, shown, doing, cpuinfo, reads>>
  BY DEF KeyLine, seqVars
<1>2. SeqTypeOK(Thread)' /\ ShownOrder'
  BY <1>1, SeqTypeStep, ShownOrderStep DEF CpuInv, CpuTypeOK
<1>3. PICK n \in Nat \ {0} :
        /\ Len(shown) = n /\ Len(cpuinfo) = n - 1 /\ ReadUpTo(shown[n])
        /\ shown[n] \in [key : Key, entry : Thread]
  BY <1>1, InBlock
<1> DEFINE s == shown[n]
<1>4. /\ \/ /\ lines' = <<Stepping(s), Package(s), Core(s), Flags(s), Blank>>
            /\ cur_cpuinfo' = Info(s.key - 1, 0, 0, <<>>)
         \/ /\ lines' = <<Package(s), Core(s), Flags(s), Blank>>
            /\ cur_cpuinfo' = Info(s.key - 1, 0, 0, <<>>)
         \/ /\ lines' = <<Core(s), Flags(s), Blank>>
            /\ cur_cpuinfo' = Info(s.key - 1, IdOf(s.entry.physical_id), 0, <<>>)
         \/ /\ lines' = <<Flags(s), Blank>>
            /\ cur_cpuinfo' = Info(s.key - 1, IdOf(s.entry.physical_id), IdOf(s.entry.core_id), <<>>)
         \/ /\ lines' = <<Blank>>
            /\ cur_cpuinfo' = InfoOf(s)
      /\ Len(lines') <= 6
  BY <1>1, <1>3, KeyLineReads
<1>5. CpuProgress'
  <2>1. s' = s
    BY <1>1
  <2>2. ReadUpTo(shown[n])'
    BY <1>4, <2>1 DEF ReadUpTo
  <2> QED BY <1>1, <1>3, <2>2 DEF CpuInv, CpuProgress
<1>6. cur_cpuinfo' \in InfoType
  BY <1>3, <1>4, InfosTyped
<1>7. CpuTypeOK'
  BY <1>1, <1>2, <1>4, <1>6 DEF CpuInv, CpuTypeOK, InfoType
<1>8. InfosFollow' /\ AllRead'
  BY <1>1 DEF CpuInv, InfosFollow, AllRead
<1> QED BY <1>2, <1>5, <1>7, <1>8 DEF CpuInv

LEMMA BlankLineStep == CpuInv /\ BlankLine => CpuInv'
<1> SUFFICES ASSUME CpuInv, BlankLine PROVE CpuInv'
  OBVIOUS
<1>1. /\ doing = "read" /\ lines # <<>> /\ Head(lines).key = ""
      /\ cpuinfo' = Append(cpuinfo, cur_cpuinfo) /\ cur_cpuinfo' = cpu_info_t
      /\ lines' = Tail(lines)
      /\ UNCHANGED seqVars /\ UNCHANGED <<opened, shown, doing, reads>>
  BY DEF BlankLine, seqVars
<1>2. SeqTypeOK(Thread)' /\ ShownOrder'
  BY <1>1, SeqTypeStep, ShownOrderStep DEF CpuInv, CpuTypeOK
<1>3. PICK n \in Nat \ {0} :
        /\ Len(shown) = n /\ Len(cpuinfo) = n - 1 /\ ReadUpTo(shown[n])
        /\ shown[n] \in [key : Key, entry : Thread]
  BY <1>1, InBlock
<1>4. lines = <<Blank>> /\ cur_cpuinfo = InfoOf(shown[n])
  <2> DEFINE s == shown[n]
  <2>1. /\ Head(<<Processor(s), Stepping(s), Package(s), Core(s), Flags(s), Blank>>) = Processor(s)
        /\ Head(<<Stepping(s), Package(s), Core(s), Flags(s), Blank>>) = Stepping(s)
        /\ Head(<<Package(s), Core(s), Flags(s), Blank>>) = Package(s)
        /\ Head(<<Core(s), Flags(s), Blank>>) = Core(s)
        /\ Head(<<Flags(s), Blank>>) = Flags(s)
    BY ONLY SixLines
  <2>2. /\ Processor(s).key # "" /\ Stepping(s).key # "" /\ Package(s).key # ""
        /\ Core(s).key # "" /\ Flags(s).key # ""
    BY Keys
  <2> QED BY <1>1, <1>3, <2>1, <2>2 DEF ReadUpTo
<1>5. lines' = <<>>
  <2>1. Tail(<<Blank>>) = <<>>
    BY ONLY SixLines
  <2> QED BY <1>1, <1>4, <2>1
<1>6. /\ cpuinfo' \in Seq(AnyInfo) /\ Len(cpuinfo') = n
      /\ \A k \in 1 .. n : cpuinfo'[k] = InfoOf(shown[k])
  <2>1. cpuinfo \in Seq(AnyInfo) /\ InfoOf(shown[n]) \in AnyInfo
    BY <1>3 DEF CpuInv, CpuTypeOK, AnyInfo
  <2>2. cpuinfo' = Append(cpuinfo, InfoOf(shown[n]))
    BY <1>1, <1>4
  <2>3. /\ cpuinfo' \in Seq(AnyInfo) /\ Len(cpuinfo') = (n - 1) + 1
        /\ \A k \in 1 .. n - 1 : cpuinfo'[k] = cpuinfo[k]
        /\ cpuinfo'[(n - 1) + 1] = InfoOf(shown[n])
    BY <1>3, <2>1, <2>2, SeqOneMore
  <2>4. \A k \in 1 .. n - 1 : cpuinfo[k] = InfoOf(shown[k])
    BY <1>3 DEF CpuInv, InfosFollow
  <2>5. (n - 1) + 1 = n /\ \A k \in 1 .. n : k \in 1 .. n - 1 \/ k = n
    OBVIOUS
  <2> QED BY <2>3, <2>4, <2>5
<1>7. CpuProgress'
  BY <1>1, <1>3, <1>5, <1>6, EmptyInfo DEF CpuInv, CpuProgress
<1>8. CpuTypeOK'
  <2>1. Len(lines') <= 6
    <3>1. Len(<<>>) <= 6
      OBVIOUS
    <3> QED BY <1>5, <3>1
  <2> QED BY <1>1, <1>2, <1>6, <2>1, EmptyInfo DEF CpuInv, CpuTypeOK, AnyInfo, InfoType
<1>9. InfosFollow'
  <2>1. Len(cpuinfo') = n /\ Len(shown') = n /\ shown' = shown
    BY <1>1, <1>3, <1>6
  <2>2. Len(cpuinfo') <= Len(shown')
    BY ONLY <2>1, n \in Nat
  <2> QED BY <1>6, <2>1, <2>2 DEF InfosFollow
<1>10. AllRead'
  BY <1>1 DEF AllRead
<1> QED BY <1>2, <1>7, <1>8, <1>9, <1>10 DEF CpuInv

LEMMA KeyThrowsStep == CpuInv /\ KeyThrows => CpuInv'
<1> SUFFICES ASSUME CpuInv, KeyThrows PROVE CpuInv'
  OBVIOUS
<1>1. /\ doing' = "idle" /\ lines' = <<>> /\ cur_cpuinfo' = cpu_info_t /\ cpuinfo' = <<>>
      /\ UNCHANGED seqVars /\ UNCHANGED <<shown, reads>>
  BY DEF KeyThrows, seqVars
<1>2. SeqTypeOK(Thread)' /\ ShownOrder'
  BY <1>1, SeqTypeStep, ShownOrderStep DEF CpuInv, CpuTypeOK
<1>3. <<>> \in Seq(AnyInfo) /\ Len(<<>>) = 0 /\ 0 <= 6
  OBVIOUS
<1>4. CpuTypeOK'
  BY <1>1, <1>2, <1>3, EmptyInfo DEF CpuInv, CpuTypeOK, AnyInfo, InfoType
<1>5. Len(cpuinfo') = 0 /\ Len(shown') \in Nat
  BY <1>1, <1>2, <1>3, SeqIndexes DEF SeqTypeOK
<1>6. InfosFollow'
  BY <1>5 DEF InfosFollow
<1>7. CpuProgress' /\ AllRead'
  BY <1>1 DEF CpuProgress, AllRead
<1> QED BY <1>2, <1>4, <1>6, <1>7 DEF CpuInv

LEMMA EndReadStep == CpuInv /\ EndRead => CpuInv'
<1> SUFFICES ASSUME CpuInv, EndRead PROVE CpuInv'
  OBVIOUS
<1>1. /\ doing = "read" /\ lines = <<>> /\ AtEnd /\ doing' = "read it"
      /\ UNCHANGED <<lines, cur_cpuinfo, cpuinfo, reads>>
      /\ UNCHANGED seqVars /\ UNCHANGED <<shown, there>>
  BY DEF EndRead, seqVars
<1>2. SeqTypeOK(Thread)' /\ ShownOrder'
  BY <1>1, SeqTypeStep, ShownOrderStep DEF CpuInv, CpuTypeOK
<1>3. \A s \in there : \E k \in DOMAIN shown : shown[k] = s
  BY <1>1, AllShown DEF CpuInv, CpuTypeOK
<1>4. Len(cpuinfo) = Len(shown)
  <2>1. ASSUME NEW s, ReadUpTo(s) PROVE FALSE
    BY <1>1, <2>1 DEF ReadUpTo
  <2> QED BY <1>1, <2>1 DEF CpuInv, CpuProgress
<1> QED BY <1>1, <1>2, <1>3, <1>4 DEF CpuInv, CpuTypeOK, CpuProgress, InfosFollow, AllRead

LEMMA CpuInvHolds == CpuSpec => []CpuInv
<1>1. CpuInv /\ [CpuNext]_allCpuVars => CpuInv'
  BY HotplugStep, BeginReadStep, ReadCpusStep, KeyLineStep, BlankLineStep, KeyThrowsStep, EndReadStep
  DEF CpuNext
<1> QED BY <1>1, CpuInitHolds, PTL DEF CpuSpec

-----------------------------------------------------------------------------
\* What is half read when the caller is in the while is one processor that was
\* there: each member is still that of cpu_info_t() or already that of it.
HalfReadIsOne ==
  doing = "read" /\ lines # <<>> =>
    \E s \in met :
      /\ cur_cpuinfo.processor \in {0, InfoOf(s).processor}
      /\ cur_cpuinfo.physical_id \in {0, InfoOf(s).physical_id}
      /\ cur_cpuinfo.core_id \in {0, InfoOf(s).core_id}
      /\ cur_cpuinfo.flags \in {<<>>, InfoOf(s).flags}

\* CpuTypeOK: the members are numbers and flags, and every element of the answer
\* is the information of some processor.  And the half-read processor, which
\* CpuTypeOK leaves open, has nothing of a second one.
THEOREM CpuTypes == CpuSpec => [](CpuTypeOK /\ HalfReadIsOne)
<1>1. CpuInv => CpuTypeOK
  BY DEF CpuInv
<1>2. CpuInv => HalfReadIsOne
  <2> SUFFICES ASSUME CpuInv, doing = "read", lines # <<>> PROVE HalfReadIsOne
    BY DEF HalfReadIsOne
  <2>1. PICK n \in Nat \ {0} : Len(shown) = n /\ ReadUpTo(shown[n])
    BY InBlock
  <2>2. PICK s \in met : s = shown[n]
    <3>1. n \in DOMAIN shown
      BY <2>1, SeqIndexes DEF CpuInv, CpuTypeOK, SeqTypeOK
    <3> QED BY <3>1 DEF CpuInv, ShownOrder
  <2> QED BY <2>1, <2>2 DEF HalfReadIsOne, ReadUpTo, Info, InfoOf
<1> QED BY <1>1, <1>2, CpuInvHolds, PTL

LEMMA Lengths ==
  ASSUME CpuInv
  PROVE  /\ DOMAIN cpuinfo = 1 .. Len(cpuinfo) /\ Len(cpuinfo) \in Nat
         /\ DOMAIN shown = 1 .. Len(shown) /\ Len(shown) \in Nat
BY SeqIndexes DEF CpuInv, CpuTypeOK, SeqTypeOK

\* InfosAreProcessors: no element has anything of the processor before it.
THEOREM CpuSound == CpuSpec => []InfosAreProcessors
<1>1. CpuInv => InfosAreProcessors
  <2> SUFFICES ASSUME CpuInv, NEW k \in DOMAIN cpuinfo
               PROVE  \E s \in met : cpuinfo[k] = InfoOf(s)
    BY DEF InfosAreProcessors
  <2>1. Len(cpuinfo) <= Len(shown) /\ cpuinfo[k] = InfoOf(shown[k])
    BY Lengths DEF CpuInv, InfosFollow
  <2>2. k \in DOMAIN shown
    BY <2>1, Lengths
  <2>3. shown[k] \in met
    BY <2>2 DEF CpuInv, ShownOrder
  <2> QED BY <2>1, <2>3
<1> QED BY <1>1, CpuInvHolds, PTL

\* NoProcessorMissing: who stays online is listed.
THEOREM CpuComplete == CpuSpec => []NoProcessorMissing
<1>1. CpuInv => NoProcessorMissing
  <2> SUFFICES ASSUME CpuInv, doing = "read it", NEW s \in there
               PROVE  \E k \in DOMAIN cpuinfo : cpuinfo[k] = InfoOf(s)
    BY DEF NoProcessorMissing
  <2>1. Len(cpuinfo) = Len(shown) /\ \E k \in DOMAIN shown : shown[k] = s
    BY DEF CpuInv, AllRead
  <2>2. PICK k \in DOMAIN shown : shown[k] = s
    BY <2>1
  <2>3. k \in 1 .. Len(cpuinfo)
    BY <2>1, Lengths
  <2>4. cpuinfo[k] = InfoOf(s)
    BY <2>2, <2>3 DEF CpuInv, InfosFollow
  <2> QED BY <2>3, <2>4, Lengths
<1> QED BY <1>1, CpuInvHolds, PTL

\* CoresCounted: getNbCores() lies between the processors online all the time
\* and those online at some time, for the keys shown are all different.
THEOREM CpuCoresCounted == CpuSpec => []CoresCounted
<1>1. CpuInv => CoresCounted
  <2> SUFFICES ASSUME CpuInv, doing = "read it"
               PROVE  /\ Cardinality({s.key : s \in there}) <= Len(cpuinfo)
                      /\ Len(cpuinfo) <= Cardinality({s.key : s \in met})
    BY DEF CoresCounted, getNbCores
  <2>1. PICK n \in Nat : n = Len(cpuinfo) /\ DOMAIN shown = 1 .. n
    BY Lengths DEF CpuInv, AllRead
  <2> DEFINE K == {shown[k].key : k \in 1 .. n}
             f == [k \in 1 .. n |-> shown[k].key]
             M == {s.key : s \in met}
             T == {s.key : s \in there}
  <2>2. \A j, k \in 1 .. n : shown[j].key = shown[k].key => j = k
    BY <2>1, ShownApart DEF CpuInv, CpuTypeOK
  <2>3. f \in Bijection(1 .. n, K)
    <3>1. f \in [1 .. n -> K]
      OBVIOUS
    <3>2. \A j, k \in 1 .. n : f[j] = f[k] => j = k
      BY <2>2
    <3>3. \A x \in K : \E k \in 1 .. n : f[k] = x
      OBVIOUS
    <3> QED BY <3>1, <3>2, <3>3 DEF Bijection, Injection, Surjection, IsInjective
  <2>4. IsFiniteSet(K) /\ Cardinality(K) = n
    <3>1. ExistsBijection(1 .. n, K)
      BY <2>3 DEF ExistsBijection
    <3>2. IsFiniteSet(1 .. n)
      <4>1. 1 \in Int /\ n \in Int
        BY ONLY n \in Nat, SMT
      <4> QED BY <4>1, FS_Interval
    <3> QED BY <2>1, <3>1, <3>2, FS_Bijection, FS_CountingElements
  <2>5. K \subseteq M
    BY <2>1 DEF CpuInv, ShownOrder
  <2>6. T \subseteq K
    <3> SUFFICES ASSUME NEW s \in there PROVE s.key \in K
      OBVIOUS
    <3>1. PICK k \in 1 .. n : shown[k] = s
      BY <2>1 DEF CpuInv, AllRead
    <3> QED BY <3>1
  <2>7. IsFiniteSet(M)
    <3>1. M \subseteq Key
      BY DEF CpuInv, CpuTypeOK, SeqTypeOK
    <3> QED BY <3>1, SeqAssumption, FS_Subset
  <2>8. Cardinality(T) <= n
    BY <2>4, <2>6, FS_Subset
  <2>9. n <= Cardinality(M)
    BY <2>4, <2>5, <2>7, FS_Subset
  <2> QED BY <2>1, <2>8, <2>9
<1> QED BY <1>1, CpuInvHolds, PTL

\* PackagesCounted: when the listing is of the processors that were online all
\* the time, the elements with core id 0 and the packages correspond.
THEOREM CpuPackagesCounted == CpuSpec => []PackagesCounted
<1>1. CpuInv => PackagesCounted
  <2> DEFINE packages == {s.entry.physical_id : s \in met}
             zeros(p) == {s \in met : s.entry.physical_id = p /\ s.entry.core_id = 0}
  <2> SUFFICES ASSUME CpuInv, doing = "read it", there = met,
                      \A s \in met : s.entry.physical_id # Absent /\ s.entry.core_id # Absent,
                      \A p \in packages : Cardinality(zeros(p)) = 1
               PROVE  getNbCPUs = Cardinality(packages)
    BY DEF PackagesCounted
  <2>1. PICK n \in Nat : DOMAIN cpuinfo = 1 .. n /\ DOMAIN shown = 1 .. n
    BY Lengths DEF CpuInv, AllRead
  <2>2. \A k \in 1 .. n : shown[k] \in met /\ cpuinfo[k] = InfoOf(shown[k])
    BY <2>1, Lengths DEF CpuInv, ShownOrder, InfosFollow
  <2>0. \A s \in met : InfoOf(s).core_id = s.entry.core_id
    BY DEF InfoOf, IdOf
  <2>3. \A s \in met : \E k \in 1 .. n : shown[k] = s
    BY <2>1 DEF CpuInv, AllRead
  <2>4. IsFiniteSet(1 .. n)
    <3>1. 1 \in Int /\ n \in Int
      BY ONLY n \in Nat, SMT
    <3> QED BY <3>1, FS_Interval
  <2>5. IsFiniteSet(met)
    <3> DEFINE at == [k \in 1 .. n |-> shown[k]]
    <3>1. at \in Surjection(1 .. n, met)
      BY <2>2, <2>3 DEF Surjection
    <3> QED BY <2>4, <3>1, FS_Surjection
  <2>6. ASSUME NEW p \in packages PROVE \E s : zeros(p) = {s}
    <3>1. zeros(p) \subseteq met
      OBVIOUS
    <3>2. IsFiniteSet(zeros(p)) /\ Cardinality(zeros(p)) = 1
      BY <2>5, <3>1, FS_Subset
    <3> QED BY <3>2, FS_Singleton
  <2> DEFINE Z == {k \in DOMAIN cpuinfo : cpuinfo[k].core_id = 0}
             packageOf == [k \in Z |-> shown[k].entry.physical_id]
  <2>7. \A k \in Z : /\ k \in 1 .. n /\ shown[k] \in met
                     /\ shown[k] \in zeros(shown[k].entry.physical_id)
    <3>1. \A k \in 1 .. n : cpuinfo[k].core_id = shown[k].entry.core_id
      BY <2>0, <2>2
    <3> QED BY <2>1, <2>2, <3>1
  <2>8. ASSUME NEW j \in Z, NEW k \in Z, packageOf[j] = packageOf[k] PROVE j = k
    <3>1. PICK p \in packages : p = shown[j].entry.physical_id /\ p = shown[k].entry.physical_id
      BY <2>7, <2>8
    <3>2. shown[j] \in zeros(p) /\ shown[k] \in zeros(p)
      BY <2>7, <3>1
    <3>3. shown[j] = shown[k]
      <4>1. PICK s : zeros(p) = {s}
        BY <2>6
      <4> HIDE DEF zeros
      <4> QED BY <3>2, <4>1
    <3> QED BY <2>1, <2>7, <3>3, ShownApart DEF CpuInv, CpuTypeOK
  <2>9. ASSUME NEW p \in packages PROVE \E k \in Z : packageOf[k] = p
    <3>1. PICK s : s \in zeros(p)
      BY <2>6
    <3>2. PICK k \in 1 .. n : shown[k] = s
      BY <2>3, <3>1
    <3>3. cpuinfo[k].core_id = 0 /\ shown[k].entry.physical_id = p
      <4>1. cpuinfo[k].core_id = s.entry.core_id
        BY <2>0, <2>2, <3>2
      <4> QED BY <3>1, <3>2, <4>1
    <3> QED BY <2>1, <3>2, <3>3
  <2>10. packageOf \in Bijection(Z, packages)
    <3>1. packageOf \in [Z -> packages]
      BY <2>7
    <3> QED BY <2>8, <2>9, <3>1 DEF Bijection, Injection, Surjection, IsInjective
  <2>11. IsFiniteSet(Z)
    <3>1. Z \subseteq 1 .. n
      BY <2>1
    <3> QED BY <2>4, <3>1, FS_Subset
  <2>12. Cardinality(Z) = Cardinality(packages)
    <3>1. ExistsBijection(Z, packages)
      BY <2>10 DEF ExistsBijection
    <3> QED BY <2>11, <3>1, FS_Bijection
  <2> QED BY <2>12 DEF getNbCPUs
<1> QED BY <1>1, CpuInvHolds, PTL

-----------------------------------------------------------------------------
\* readCPUInfo() is a listing.

LEMMA CpusBegin == CpuInit => CpusView!Init
BY DEF CpuInit, CpuOwnInit, CpusView!Init

\* What a step in the while, of the reader or of the kernel for it, is to who
\* waits for the answer.
LEMMA CpusInside ==
  ASSUME CpuInv, doing = "read", doing' = "read", UNCHANGED <<table, there, met>>
  PROVE  UNCHANGED CpusView!snapshotVars
BY DEF CpusView!snapshotVars, Entries, Shown

LEMMA CpusReturn ==
  ASSUME CpuInv, EndRead
  PROVE  \E A \in SUBSET met : CpusView!Return(A)
<1>1. /\ doing = "read" /\ lines = <<>> /\ AtEnd /\ doing' = "read it"
      /\ cpuinfo' = cpuinfo /\ UNCHANGED <<table, shown, there, met>>
  BY DEF EndRead, seqVars
<1>0. PICK A : A = {shown[k] : k \in DOMAIN shown}
  OBVIOUS
<1>2. /\ A \subseteq met /\ there \subseteq A
      /\ \A s, t \in A : s.key = t.key => s = t
  <2>1. SeqTypeOK(Thread) /\ ShownOrder
    BY DEF CpuInv, CpuTypeOK
  <2>2. DOMAIN shown \subseteq DOMAIN shown
    OBVIOUS
  <2>3. /\ A \subseteq met
        /\ \A s, t \in A : s.key = t.key => s = t
        /\ AtEnd => there \subseteq A
    BY ONLY <1>0, <2>1, <2>2, ShownAreListing
  <2> QED BY <1>1, <2>3
<1>3. {cpuinfo[k] : k \in DOMAIN cpuinfo} = {InfoOf(s) : s \in A}
  <2>1. DOMAIN cpuinfo = DOMAIN shown /\ \A k \in DOMAIN shown : cpuinfo[k] = InfoOf(shown[k])
    <3>1. CpuInv'
      BY EndReadStep
    <3>2. Len(cpuinfo) = Len(shown)
      BY <1>1, <3>1 DEF CpuInv, AllRead
    <3> QED BY <3>2, Lengths DEF CpuInv, InfosFollow
  <2> QED BY <1>0, <2>1
<1>4. CpusView!Return(A)
  BY <1>1, <1>2, <1>3 DEF CpusView!Return, CpusView!End, NumberOf, Entries, Shown
<1> QED BY <1>2, <1>4

LEMMA CpusStep == CpuInv /\ [CpuNext]_allCpuVars => [CpusView!Next]_(CpusView!snapshotVars)
<1> SUFFICES ASSUME CpuInv, [CpuNext]_allCpuVars
             PROVE  [CpusView!Next]_(CpusView!snapshotVars)
  OBVIOUS
<1>0. doing \in {"idle", "read", "read it"}
  BY DEF CpuInv, CpuTypeOK
<1>1. CASE Hotplug
  <2>1. there' = there \cap Entries' /\ met' = met \cup Entries' /\ UNCHANGED <<doing, cpuinfo>>
    BY <1>1 DEF Hotplug, Alter, cpuVars
  <2>2. CpusView!Alter
    BY <1>0, <2>1 DEF CpusView!Alter
  <2> QED BY <2>2 DEF CpusView!Next
<1>2. CASE BeginRead
  <2>1. doing # "read" /\ cpuinfo' = <<>> /\ Entries' = Entries
    BY <1>2 DEF BeginRead, Seek, CannotOpen, Entries, Shown
  <2>2. CASE Seek /\ doing' = "read"
    <3>1. CpusView!Begin
      BY <1>0, <2>1, <2>2 DEF Seek, CpusView!Begin
    <3> QED BY <3>1 DEF CpusView!Next
  <2>3. CASE CannotOpen /\ doing' = "read it"
    <3>1. {cpuinfo'[k] : k \in DOMAIN cpuinfo'} = {}
      BY <2>1
    <3>2. CpusView!CannotOpen
      BY <1>0, <2>1, <2>3, <3>1 DEF CpusView!CannotOpen
    <3> QED BY <3>2 DEF CpusView!Next
  <2> QED BY <1>2, <2>2, <2>3 DEF BeginRead
<1>3. ASSUME NEW k \in Key, ReadCpus(k) PROVE UNCHANGED CpusView!snapshotVars
  BY <1>3, CpusInside DEF ReadCpus, Show
<1>4. CASE KeyLine \/ BlankLine
  BY <1>4, CpusInside DEF KeyLine, BlankLine, seqVars
<1>5. CASE EndRead
  <2>1. \E A \in SUBSET met : CpusView!Return(A)
    BY <1>5, CpusReturn
  <2>2. doing = "read"
    BY <1>5 DEF EndRead
  <2> QED BY <2>1, <2>2 DEF CpusView!Next
<1>7. CASE KeyThrows
  <2>1. /\ doing = "read" /\ doing' = "idle" /\ cpuinfo' = <<>> /\ Entries' = Entries
        /\ there' = there /\ met' = met
    BY <1>7 DEF KeyThrows, seqVars, Entries, Shown
  <2>2. {cpuinfo'[k] : k \in DOMAIN cpuinfo'} = {}
    BY <2>1
  <2>3. CpusView!Throw({})
    BY <2>1, <2>2 DEF CpusView!Throw, CpusView!End
  <2>4. {} \in SUBSET met
    OBVIOUS
  <2> QED BY <2>1, <2>3, <2>4 DEF CpusView!Next
<1>6. CASE UNCHANGED allCpuVars
  BY <1>6 DEF allCpuVars, seqVars, cpuVars, CpusView!snapshotVars, Entries, Shown
<1> QED BY <1>1, <1>2, <1>3, <1>4, <1>5, <1>6, <1>7 DEF CpuNext

\* CpusAreAListing: whatever goes offline or comes back between two lines, the
\* list is made of processors that were there during the call, one for each
\* number, leaves out none that stayed, and is left alone until the next call.
THEOREM CpusListing == CpuSpec => CpusAreAListing
<1> QED BY CpusBegin, CpusStep, CpuInvHolds, PTL DEF CpuSpec, CpusAreAListing, CpusView!Spec
=============================================================================
