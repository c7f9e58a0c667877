CONSTANTS
  Tests = {"t1", "t2"}
  Procs = {"DumpRenderTree.app"}
  Pids = {1, 2}
  TmpFiles <- MCTmpFiles
  Stuck <- MCStuck
  Crashed <- MCCrashed
  SimctlBoots = TRUE
  MaxLaunches = 1
  None = None
SPECIFICATION Spec
INVARIANT TypeOK CleanUpLeavesOnlyStuck
 
\* check_sys_deps may hang for ever in its wait for SHUTDOWN (ios.py:245)
\* when simctl booted the device; every other state has a port step.
CHECK_DEADLOCK FALSE
