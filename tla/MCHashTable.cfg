SPECIFICATION TableSpec
CONSTANTS
  Key <- MCKeys
  count_max = 5
  count_keep = 2
  Lens = {1}
  MaxTotal = 3
  SmallSort = 3
  BigSort = 7
  PageEntries = 2
  SortLens = {0, 1, 5, 7, 8}
  SortValues = {0, 1, 2}
INVARIANTS SearchFindsAll CountIsExact SortIsRight
PROPERTY ImplementsTopTable
