\* Two sessions on one plain tar, which is the image of both.
SPECIFICATION Spec
CONSTANTS
  d = d
  x = x
  Segment = {d, x}
  Path <- TwoNames
  Absent = Absent
  Session = {s1, s2}
  Input = {f1}
  Old = Old
  MaxSize = 1
  MaxEdits = 1
  Kinds = {"rawtar"}
  Archives <- FlatArchives
  FileName <- OneFile
  Single <- OneName
  NoFile = NoFile
INVARIANTS
  ReadsWhatItLoaded
