\* Two sessions on one file, and other files put in their way.
SPECIFICATION Spec
CONSTANTS
  Codec = {"gz", "bz2"}
  Name <- AllNames
  NoFile = NoFile
  None = None
  Entry = {"e", "BZh9"}
  Magic <- Magics
  Id = {"empty", "text", "zeros", "tarball", "cut"}
  Data <- Inputs
  NoData <- Nil
  Given <- Others
  MayMisread <- Both
  Session = {s1, s2}
  MaxEdits = 2
INVARIANTS
  TypeOK
  MadeReopens
  UnsupportedIsARace
PROPERTIES
  OpenShowsWhatIsThere
  RewriteKeepsFormat
SYMMETRY Sessions
