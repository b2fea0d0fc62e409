\* Three fingers: those that stay when another is lifted change their index.
SPECIFICATION Spec
CONSTANTS
  MaxFingers = 3
  NavKeys = {back, home}
  MaxPosted = 1
  Capacity = 1
SYMMETRY Symmetry
INVARIANTS
  LastLiftReleases
  ContactsAreFingers
  KeysComeUp
