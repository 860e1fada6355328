SPECIFICATION UsageSpec
CONSTANTS
  Pid = {p1}
  Obj = {o1, o2}
  Getters = {"stat"}
  Calls = {"cpu"}
  Val = {0, 1, 2}
  FirstVal = 0
  Key = {k1}
  MaxSpawns = 2
  MaxChanges = 3
  MaxTotal = 3
  MaxNow = 1
  MaxUids = 1
  Word = 16
  InterruptTicks = FALSE
  OpenMayFail = FALSE
  NoPid = NoPid
  NoFile = NoFile
  Nothing = Nothing
  Huge = Huge
  Unset = Unset
  Empty = Empty
  Junk = Junk
  NoOld = NoOld
  NoCall = NoCall
SYMMETRY ObjSymmetry
VIEW WithoutHistory
INVARIANTS
  UsageTypeOK
  CpuInv
  NoTickCountedTwice
  NoIndeterminateUsage
PROPERTIES
  UsageWithinMachine
  AlignedAgain
CHECK_DEADLOCK FALSE
