SPECIFICATION LinesSpec
CONSTANTS
  Lines <- MCLines
  Namespaces <- MCNamespaces
  Letters <- MCLetters
  Words <- MCWords
  BaseTags <- MCBaseTags
  TagOrder <- MCTagOrder
  MaxTags = 3
  Times <- MCTimes
  MaxLines = 2
INVARIANT SameTagSetSameId
CHECK_DEADLOCK FALSE
