SPECIFICATION LoadSpec
CONSTANTS
  None = None
  Missing = Missing
  LastPage = 10
  PageSize = 2
  Slack = 1
  Phoff = 1
  MaxOthers = 2
  Programs <- MCPrograms
INVARIANT StackIsAligned
