SPECIFICATION Spec
CONSTANTS
  Pid = {p1}
  Obj = {o1}
  Getters = {"stat", "cmdline", "cwd", "status", "io"}
  Val = {v1, v2}
  FirstVal = v1
  Key = {k1, k2}
  MaxSpawns = 1
  MaxChanges = 2
  MaxNow = 2
  MaxUids = 2
  OpenMayFail = TRUE
  NoPid = NoPid
  NoFile = NoFile
  Nothing = Nothing
  Huge = Huge
  Unset = Unset
  Empty = Empty
  Junk = Junk
INVARIANTS
  TypeOK
  CleanIsFresh
  FaultMeansUnreadable
  NothingLeftBehind
CONSTRAINT OneKindOfFile
CHECK_DEADLOCK FALSE
