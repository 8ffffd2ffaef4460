CONSTANTS
  a = a
  b = b
  Tags <- MCTags
  Bytes = {1, 2}
  MaxAllocs = 2
SYMMETRY MCSymmetry
SPECIFICATION Spec
INVARIANT DirtyOnlyWrittenBytes
