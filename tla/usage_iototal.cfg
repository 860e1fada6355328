SPECIFICATION UsageSpec
CONSTANTS
  Pid = {p1}
  Obj = {o1}
  Getters = {"io"}
  Calls = {"iototal"}
  Val = {0, 1, 2}
  FirstVal = 0
  Key = {k1}
  MaxSpawns = 1
  MaxChanges = 3
  MaxTotal = 2
  MaxNow = 3
  MaxUids = 1
  Word = 16
  InterruptTicks = FALSE
  OpenMayFail = FALSE
  NoPid = NoPid
  NoFile = NoFile
  Nothing = Nothing
  Huge = Huge
  Unset = Unset
  Empty = Empty
  Junk = Junk
  NoOld = NoOld
  NoCall = NoCall
INVARIANT
  IoTotalIsReadPlusWrite
CHECK_DEADLOCK FALSE
