CONSTANTS
  a = a
  b = b
  Tags <- MCTags
  Bytes = {1, 2}
  MaxAllocs = 3
SYMMETRY MCSymmetry
SPECIFICATION Spec
INVARIANTS
  TypeOK
  ReservedHasPendingFill
  DirtyCoversWrites
PROPERTY StatusLifecycle
