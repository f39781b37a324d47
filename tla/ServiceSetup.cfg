SPECIFICATION Spec
CONSTANTS
  HOST_NAME_MAX = 3
  ServiceLen = 2
  SuffixLen = 1
INVARIANTS
  NothingLost
  ServiceComplete
  StringsWhole
