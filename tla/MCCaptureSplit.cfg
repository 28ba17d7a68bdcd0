CONSTANTS
  Files <- MCFiles
  Totals <- MCTotals
  MaxFrames = 3
SPECIFICATION Spec
INVARIANTS TypeOK WholeFramesFound
CHECK_DEADLOCK FALSE
