--------------------------- MODULE MC_CrashLogWait ---------------------------
(***************************************************************************)
(* Two processes (the relay and the test app), every stderr of up to three *)
(* lines mixing markers for either and other text, any initial contents of *)
(* the crash-log directory, a deadline of three ticks.                     *)
(***************************************************************************)
EXTENDS CrashLogWait
LOCAL INSTANCE SequencesExt

MCProcs == {"LayoutTestRelay", "DumpRenderTree.app"}
MCStderrs == SeqOf({Other} \cup {Crashed(p) : p \in MCProcs}, 3)

-----------------------------------------------------------------------------
TypeOK ==
  /\ phase \in {"loop", "done"}
  /\ name \in Procs
  /\ stderrOut \in Seq({Other} \cup {Crashed(p) : p \in Procs})
  /\ now \in 0..(Deadline + MaxJump)
  /\ crashLog \in LogStates
  /\ dir \in [Procs -> LogStates]

(* Every '#CRASHED' marker, however many the relay wrote, is removed from *)
(* the stderr _get_crash_log returns (lines 295-305).                      *)
StderrHasNoMarker == \A i \in DOMAIN stderrOut : ~stderrOut[i].marker

(* The sleep at line 317 treats a log holding only ERROR lines like no    *)
(* log: such an entry is returned only once the deadline has passed       *)
(* without a complete log.                                                *)
ErrorOnlyLogIsLastResort ==
  phase = "done" /\ waitForLog /\ crashLog = "errors" => now > Deadline

(* _get_crash_log returns, whatever the crash reporter does. *)
GetCrashLogReturns == <>(phase = "done")
=============================================================================
