CONSTANTS
  Procs <- MCProcs
  Stderrs <- MCStderrs
  Deadline = 3
  MaxJump = 2
  NoLog = NoLog
SPECIFICATION Spec
INVARIANT TypeOK StderrHasNoMarker
PROPERTY GetCrashLogReturns
CHECK_DEADLOCK FALSE
