SPECIFICATION FairSpec
CONSTANTS
  Byte = {0, 1, 2, 65, 97, 192}
  Size = 5
  Starts = {0, 3}
  Query <- MCQuery
  QuerySize = 3
  MAX_SUBSTRINGS = 2
  MaxRefs = 2
  Capacity = 3
  HeaderSize = 1
  MaxRecords = 3
INVARIANTS
  NamesAgree
  EndsAgree
  RecordsInside
PROPERTIES
  ReadsEnd
