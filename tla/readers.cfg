SPECIFICATION ReadersSpec
CONSTANTS
  Key = {1, 2, 3}
  None = None
  MaxChanges = 3
  Region <- MCRegion
  Unset = Unset
  MaxCalls = 2
  Thread <- MCThread
  MaxReads = 2
  Absent = Absent
INVARIANTS
  MapsAreMappings
  MapsRise
  NoMapMissing
  InfosAreProcessors
  NoProcessorMissing
  CoresCounted
  PackagesCounted
PROPERTIES
  MapsAreAListing
  CpusAreAListing
CHECK_DEADLOCK FALSE
