SPECIFICATION Spec
CONSTANTS
  Logical <- MCLogical
  Weight <- MCWeight
  SplitCount = 3
  Samples <- MCSamples
  Ranges <- MCRanges
  Values = {0, 1, 9}
  Dirty = 50
  PreTarget = 4
  MaxDisplayY = 3
  FineLen = 3
  MergedAxes = 2
  MaxSamples = 4
INVARIANTS RangeExact MatrixTrue DivisionsTrue
PROPERTY MergeTrue
