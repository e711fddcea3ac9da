SPECIFICATION Spec
CONSTANTS
  CifCounts = {1}
  Stages = 1
  MaxEti = 12
INVARIANT FirstMetadataIsEarliest
