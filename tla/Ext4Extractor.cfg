SPECIFICATION WalkSpec
CONSTANTS
  i = i
  j = j
  n1 = n1
  n2 = n2
  n3 = n3
  root = root
  Inodes = {root, i, j}
  Root = root
  Nodes = {n1, n2, n3}
  RootNode = n1
  NoNode = NoNode
  Skipped = Skipped
  Bad = Bad
  Present = {1, 2, 4}
  Reach = 2
  MaxExtentDepth = 2
  MaxDirDepth = 2
  MaxEntries = 2
  Images <- MCImages
INVARIANTS
  TreeIsFaithful
  FilesAreFaithful
  CountersTellTheTree
PROPERTY WalkGoesOn
