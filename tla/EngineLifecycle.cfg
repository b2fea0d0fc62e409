SPECIFICATION Spec
CONSTANTS
  Activities = {a1, a2}
  Slots = {s1, s2}
  MaxSurfaces = 2
  None = None
  Torn = Torn
SYMMETRY Symmetry
INVARIANTS
  AloneHasEngine
  NothingIsLeft
  SurfacesHaveOwner
  ReportedLaunchIsOwn
\* Every activity may be gone.
CHECK_DEADLOCK FALSE
