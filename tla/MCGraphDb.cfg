SPECIFICATION Spec
CONSTANTS
  Graph <- MCGraph
  NumBars <- MCNumBars
  BarSecs <- MCBarSecs
  Dir = {"in"}
  Time <- MCTime
  MaxBytes = 1
  AllowLongGaps = FALSE
INVARIANT PosIsLocaltime
PROPERTY ImplementsWindow
