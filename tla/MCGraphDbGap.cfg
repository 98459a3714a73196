SPECIFICATION Spec
CONSTANTS
  Graph <- MCGraph
  NumBars <- MCNumBars
  BarSecs <- MCBarSecs
  Dir = {"in", "out"}
  Time <- MCTime
  MaxBytes = 1
  AllowLongGaps = TRUE
PROPERTY ForwardIsQuiet
