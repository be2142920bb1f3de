\* Sizes of files.
SPECIFICATION Spec
CONSTANTS
  Value <- Sizes
  Most = 3
  MaxNumbers = 1
INVARIANTS
  NumbersReadBack
CHECK_DEADLOCK FALSE
