SPECIFICATION Spec
CONSTANTS
  Names <- Usual
  LabelSize = 4
  Capacity = 48
  TableSize = 4
  MaxNames = 5
INVARIANTS
  TypeOK
  RoundTrip
