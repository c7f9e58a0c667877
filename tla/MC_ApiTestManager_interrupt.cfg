CONSTANTS
  Suites <- MCSuites
  Tests <- MCTests
  NoSuite = 0
  Ids <- MCIds
  Outcomes <- MCOutcomes
  NoResult = NoResult
  None = None
  NoOutput = NoOutput
  Binaries <- MCBinaries
  MaxWorkers = 1
  Outputs <- SmallOutputs
  ArgChoices <- NoArgs
  PortNames = {"mac"}
  DumpChoices = {FALSE}
SPECIFICATION Spec
INVARIANT InterruptDuringExecutionReturnsStatus
CHECK_DEADLOCK FALSE
