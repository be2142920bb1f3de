\* Anything may happen during a job.
SPECIFICATION Spec
CONSTANTS
  a = a
  b = b
  c = c
  e = e
  fa = fa
  fb = fb
  g = g
  h = h
  n = n
  None = None
  Doc <- Docs4
  Pick <- Picks
  Under <- Contents
  Folder <- Folders
  Title <- OneTop
  Leaf <- Leaves
  Temp <- Temps
INVARIANTS
  TypeOK
  DeletesWhatItArchived
  SteadyPicksArchived
  CancelledTouchedNothing
