----------------------- MODULE MC_LegacySimulatorPort -----------------------
(***************************************************************************)
(* Two tests, one process name with two pids; in /tmp a DumpRenderTree   *)
(* input fifo, a WebKitTestRunner error fifo that cannot be removed, and  *)
(* a DumpRenderTree file that is not a fifo; the user opens the app once. *)
(***************************************************************************)
EXTENDS LegacySimulatorPort
LOCAL INSTANCE SequencesExt

MCTmpFiles == {[prog |-> "DumpRenderTree", stream |-> "IN"],
               [prog |-> "WebKitTestRunner", stream |-> "ERROR"],
               [prog |-> "DumpRenderTree", stream |-> "LOG"]}
MCStuck == {[prog |-> "WebKitTestRunner", stream |-> "ERROR"]}
(* Lists of crashed or unresponsive tests: one test twice with two pids  *)
(* (a later entry replaces an earlier one), and two tests.                *)
Ent(t, p) == [test |-> t, proc |-> "DumpRenderTree.app", pid |-> p]
MCCrashed == {<<Ent("t1", 1), Ent("t1", 2)>>, <<Ent("t1", 2), Ent("t1", 1)>>,
              <<Ent("t1", 1), Ent("t2", 2)>>}

-----------------------------------------------------------------------------
TypeOK ==
  /\ pc \in {"idle", "check_sys_deps", "setup_test_run"}
  /\ device \in [exists : BOOLEAN, by : {"none", "app", "simctl"}, data : BOOLEAN]
  /\ tmp \subseteq TmpFiles
  /\ logs \subseteq Procs \X Pids
  /\ samples \subseteq Procs \X Pids
  /\ sampled \subseteq Procs \X Pids
  /\ launches \in 0..MaxLaunches

(* clean_up_test_run (lines 211-219) leaves no driver fifo behind but the *)
(* ones whose removal failed, and removes nothing else.                   *)
CleanUpLeavesOnlyStuck ==
  ret.call = "clean_up_test_run" =>
    /\ {f \in ret.v.after : DriverFifo(f)} \subseteq Stuck
    /\ {f \in ret.v.before : ~DriverFifo(f)} \subseteq ret.v.after

==============================================================================
