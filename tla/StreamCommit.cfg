\* Two sessions on one path, step by step through commit, with failures,
\* changing inputs and crashes.
SPECIFICATION Spec
CONSTANTS
  d = d
  x = x
  Segment = {d, x}
  Path <- TwoNames
  Absent = Absent
  Session = {s1, s2}
  Input = {f1}
  Old = Old
  MaxSize = 1
  MaxEdits = 2
  Kinds = {"rawtar", "codectar", "single"}
  Archives <- FlatArchives
  FileName <- OneFile
  Single <- OneName
  NoFile = NoFile
INVARIANTS
  NoLeakedTemps
PROPERTIES
  Atomic
SYMMETRY Sessions
