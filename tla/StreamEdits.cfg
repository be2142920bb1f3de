\* Long edit sequences of one session on a tree.
SPECIFICATION FairSpec
CONSTANTS
  d = d
  x = x
  Segment = {d, x}
  Path <- AllNames
  Absent = Absent
  Session = {s1}
  Input = {f1}
  Old = Old
  MaxSize = 1
  MaxEdits = 2
  Kinds = {"rawtar"}
  Archives <- TreeArchives
  FileName <- SomeNames
  Single <- OneName
  NoFile = NoFile
INVARIANTS
  TypeOK
PROPERTIES
  Atomic
  RenameLosesNothing
  CallsReturn
