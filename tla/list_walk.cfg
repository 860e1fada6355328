SPECIFICATION FairListSpec
CONSTANTS
  Pid = {1, 2, 3}
  Obj = {o1, o2, o3}
  Getters = {"cwd"}
  Val = {v1}
  FirstVal = v1
  Key = {k1}
  MaxSpawns = 2
  MaxChanges = 0
  MaxNow = 1
  MaxUids = 1
  Other = {self}
  MaxScans = 2
  OpenMayFail = FALSE
  NoPid = NoPid
  NoFile = NoFile
  Nothing = Nothing
  Huge = Huge
  Unset = Unset
  Empty = Empty
  Junk = Junk
INVARIANTS
  ListTypeOK
  ListedOnce
  ListedIfThere
  ListedWereMet
  OneObjectPerPid
PROPERTIES
  WalkEnds
  WalkIsAListing
CHECK_DEADLOCK FALSE
