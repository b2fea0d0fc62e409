\* Every image of up to two chunks, cut at every unit.
SPECIFICATION Spec
CONSTANTS
  MaxChunks = 2
  MaxSize = 2
INVARIANTS
  BlocksInPlace
  SuccessIsWhole
PROPERTY
  Returns
CHECK_DEADLOCK FALSE
