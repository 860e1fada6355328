SPECIFICATION UsageSpec
CONSTANTS
  Pid = {p1}
  Obj = {o1}
  Getters = {"stat", "io"}
  Calls = {"cpu", "stat", "ioread", "iowrite", "iototal"}
  Val = {0, 1}
  FirstVal = 0
  Key = {k1}
  MaxSpawns = 1
  MaxChanges = 1
  MaxTotal = 1
  MaxNow = 2
  MaxUids = 1
  Word = 16
  InterruptTicks = TRUE
  OpenMayFail = TRUE
  NoPid = NoPid
  NoFile = NoFile
  Nothing = Nothing
  Huge = Huge
  Unset = Unset
  Empty = Empty
  Junk = Junk
  NoOld = NoOld
  NoCall = NoCall
INVARIANTS
  WatchInv
  NoByteCountedTwice
PROPERTIES
  Spec
VIEW WithoutResults
CHECK_DEADLOCK FALSE
