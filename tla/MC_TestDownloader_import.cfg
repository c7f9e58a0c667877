CONSTANTS
  Repos <- MCRepos
  Revision <- MCRevision
  Upstream <- MCUpstream
  Tip = "tip"
  TestsDir <- NoTestsDir
  Files <- MCFiles
  LocalChoices <- MCLocal
  DestChoices <- MCDest
  SkipChoices <- MCSkip
  ImportChoices <- MCImports
  TestPathChoices <- MCTestPaths
SPECIFICATION Spec
INVARIANT ImportedPathsPresent
CHECK_DEADLOCK FALSE
