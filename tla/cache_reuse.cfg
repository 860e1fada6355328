SPECIFICATION Spec
CONSTANTS
  Pid = {p1}
  Obj = {o1, o2}
  Getters = {"stat", "environ"}
  Val = {v1, v2}
  FirstVal = v1
  Key = {k1}
  MaxSpawns = 2
  MaxChanges = 2
  MaxNow = 2
  MaxUids = 3
  OpenMayFail = FALSE
  NoPid = NoPid
  NoFile = NoFile
  Nothing = Nothing
  Huge = Huge
  Unset = Unset
  Empty = Empty
  Junk = Junk
SYMMETRY ObjSymmetry
INVARIANTS
  CleanIsFresh
  StateProvesAlive
PROPERTIES
  StableUntilNeedUpdate
CHECK_DEADLOCK FALSE
