\* Two imports into one slot: one may run into, or find the leftovers of, the other.
SPECIFICATION Spec
CONSTANTS
  Imports = {i1, i2}
  Sparse = {i1}
  NumSlots = 1
  Parts = 2
  MaxUnmoved = 1
  None = None
INVARIANTS
  AloneIsFaithful
  DisabledHasImport
  CopyIsRemoved
PROPERTY
  StartedIsAnswered
CHECK_DEADLOCK FALSE
