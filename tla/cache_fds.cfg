SPECIFICATION Spec
CONSTANTS
  Pid = {p1}
  Obj = {o1}
  Getters = {"fd", "wchan"}
  Val = {v1, v2}
  FirstVal = v1
  Key = {k1, k2}
  MaxSpawns = 2
  MaxChanges = 2
  MaxNow = 2
  MaxUids = 2
  OpenMayFail = TRUE
  NoPid = NoPid
  NoFile = NoFile
  Nothing = Nothing
  Huge = Huge
  Unset = Unset
  Empty = Empty
  Junk = Junk
INVARIANT
  CleanIsFresh
CHECK_DEADLOCK FALSE
