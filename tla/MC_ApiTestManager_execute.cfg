CONSTANTS
  Suites <- MCSuites
  Tests <- MCTests
  NoSuite = 0
  Ids <- MCIds
  Outcomes <- MCOutcomes
  NoResult = NoResult
  None = None
  NoOutput = NoOutput
  Binaries <- MCBinaries
  MaxWorkers = 2
  Outputs <- SmallOutputs
  ArgChoices <- SmallArgs
  PortNames <- AllPorts
  DumpChoices = {TRUE, FALSE}
SPECIFICATION Spec
INVARIANT TypeOK CatalogIsGtestListing SelectionIsExact NoPartialCatalogRun SuccessIffAllAccounted
CHECK_DEADLOCK FALSE
