CONSTANTS
  Count = 2
  Shapes <- MCShapes
  FailingCalls <- TryFailures
SPECIFICATION Spec
INVARIANT TypeOK CleanIterationStart NothingLeftRunning DoneMeansAllIterations MergeConservesSamples
CHECK_DEADLOCK FALSE
