\* Two 7z sessions on one path, with failures, changing inputs and crashes.
SPECIFICATION Spec
CONSTANTS
  Session = {s1, s2}
  Input = {f1}
  Old = Old
  NoFile = NoFile
  Broken = Broken
  MayMisread <- ManyEntries
  Path <- Paths
  NewName <- NewNames
  Archives <- SomeArchives
  MaxSize = 1
  MaxEdits = 1
  MaxTemp = 3
INVARIANTS
  TypeOK
  NamesStayDistinct
  DecodedFilesStay
PROPERTIES
  Atomic
  EditsKeepOrder
  EditsLoseNothing
  LeavesOnlyGaps
SYMMETRY Sessions
