SPECIFICATION Spec
CONSTANTS
  Names <- Dotted
  LabelSize = 4
  Capacity = 48
  TableSize = 4
  MaxNames = 5
INVARIANTS
  RoundTrip
