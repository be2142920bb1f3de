\* Two zip sessions on one path, with failures, vanishing inputs and crashes.
SPECIFICATION Spec
CONSTANTS
  d = d
  x = x
  Path <- Names
  Absent = Absent
  Segment = {d, x}
  Input = {f1}
  Old = Old
  Session = {s1, s2}
  Comment = {"", "old"}
  NoComment = ""
  NoFile = NoFile
  Starts <- AllStarts
  FileName <- FileNames
  MaxEdits = 2
  Serial = TRUE
  Broken = Broken
INVARIANTS
  TypeOK
  DirectoriesStay
  NoLeakedTemps
PROPERTIES
  Atomic
  SavedIsWhole
  EditsLoseNothing
SYMMETRY Sessions
