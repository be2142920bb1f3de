\* Numbers of every length.
SPECIFICATION Spec
CONSTANTS
  Value <- Boundaries
  Most = 3
  MaxNumbers = 3
INVARIANTS
  TypeOK
  ReaderInStep
  SmallNumbersReadBack
CHECK_DEADLOCK FALSE
