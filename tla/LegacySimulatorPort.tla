------------------------- MODULE LegacySimulatorPort -------------------------
(***************************************************************************)
(* The IOSSimulatorPort(Port) class of webkitpy/port/ios.py (lines        *)
(* 71-408): the port that drives DumpRenderTree.app through               *)
(* LayoutTestRelay on one 'WebKit Tester' simulator device.  The manager  *)
(* calls its methods one at a time; two of them wait for the device to    *)
(* reach a state (Simulator.wait_until_device_is_in_state polls).         *)
(*                                                                         *)
(* The world around the port: the iOS Simulator app, which boots the      *)
(* device it is opened on and shuts it down when it quits; the user, who  *)
(* may open or quit the app between the port's calls; simctl, which may   *)
(* boot the device without the app; the drivers, which leave fifos in    *)
(* /tmp; and the crash reporter, which leaves logs.                       *)
(***************************************************************************)
EXTENDS Integers, Sequences, FiniteSets
LOCAL INSTANCE SequencesExt

CONSTANTS
  Tests,          \* test names
  Procs,          \* process names
  Pids,           \* process ids
  TmpFiles,       \* files that may be in /tmp: [prog, stream]
  Stuck,          \* the files of /tmp whose os.remove raises OSError
  SimctlBoots,    \* whether anything but the app boots the device
  MaxLaunches,    \* the most times the user opens the app
  Crashed,        \* the [test, proc, pid] lists a caller passes to look_for_new_*
  None            \* Python's None
Entry == [test : Tests, proc : Procs, pid : Pids]

(* The fifo names clean_up_test_run removes, line 213:                    *)
(* re.search('org.webkit.(DumpRenderTree|WebKitTestRunner).*_(IN|OUT|ERROR)'). *)
DriverFifo(f) == f.prog \in {"DumpRenderTree", "WebKitTestRunner"} /\ f.stream \in {"IN", "OUT", "ERROR"}

(* sample_file_path, lines 282-283: "<name>-<pid>-sample.txt" in the      *)
(* results directory; a pid is a number, so the name is distinct per pair.*)
(* Fault variant: the pid is left out of the name. *)
SampleFilePathWithoutPid(name, pid) == <<name>>
SampleFilePath(name, pid) == <<name, pid>>

VARIABLES
  opt,        \* options: build, and whether simulator_runtime is available
  pc,         \* "idle", or the state the port is waiting for the device to reach
  app,        \* the iOS Simulator app is running
  device,     \* the testing device: [exists, by ("none": shut down, "app", "simctl"), data]
  relay,      \* the LayoutTestRelay binary is built
  tmp,        \* the files in /tmp
  logs,       \* <<proc, pid>> whose crash log the reporter has written
  samples,    \* the sample files in the results directory
  sampled,    \* <<proc, pid>> that /usr/bin/sample was run on successfully
  launches,   \* how many times the user has opened the app
  ret         \* what the step just taken returned (none for a step of the world)

vars == <<opt, pc, app, device, relay, tmp, logs, samples, sampled, launches, ret>>

NoReturn == [call |-> "none", v |-> None]
Booted == device.by # "none"
Idle == pc = "idle"

Init ==
  /\ opt \in [build : BOOLEAN, runtime_available : BOOLEAN]
  /\ pc = "idle"
  /\ app = FALSE
  /\ device \in {[exists |-> FALSE, by |-> "none", data |-> FALSE]}
                \cup [exists : {TRUE}, by : {"none"}, data : BOOLEAN]
  /\ relay \in BOOLEAN
  /\ tmp \in SUBSET TmpFiles
  /\ logs = {} /\ samples = {} /\ sampled = {} /\ launches = 0
  /\ ret = NoReturn

-----------------------------------------------------------------------------
(* testing_device, lines 325-328: lookup_or_create_device finds the       *)
(* 'WebKit Tester' device or creates it, shut down and with no data.      *)
TestingDevice == IF device.exists THEN device ELSE [exists |-> TRUE, by |-> "none", data |-> FALSE]

(* check_build, lines 148-150, with _check_build_relay (141-146) and      *)
(* _check_relay (135-139).  Port.check_build, with --build, first builds   *)
(* the driver, which here (_build_driver, 164-167) also builds the relay;  *)
(* each build-layouttestrelay run (_build_relay, 152-162) may fail.       *)
CheckBuildRelay(built, present) == ~(opt.build /\ ~built) /\ present

CheckBuild ==
  /\ Idle
  /\ \E driverOk, build1, build2 \in BOOLEAN :
       LET needsDriver == driverOk /\ (opt.build => build1)
           relay1 == relay \/ (opt.build /\ build1)
           relay2 == relay1 \/ (needsDriver /\ opt.build /\ build2)
       IN /\ relay' = relay2
          /\ ret' = [call |-> "check_build",
                     v |-> needsDriver /\ CheckBuildRelay(build2, relay2)]
  /\ UNCHANGED <<opt, pc, app, device, tmp, logs, samples, sampled, launches>>

(* check_sys_deps, lines 236-252: the runtime must be available; the      *)
(* testing device is looked up (and maybe created); the app is quit,      *)
(* assuming it booted the device, and the port waits for SHUTDOWN; then   *)
(* the device is checked and erased if needed, which may fail.            *)
QuitApp(d) == IF d.by = "app" THEN [d EXCEPT !.by = "none"] ELSE d

CheckSysDeps ==
  /\ Idle
  /\ IF ~opt.runtime_available
     THEN /\ ret' = [call |-> "check_sys_deps", v |-> FALSE]
          /\ UNCHANGED <<pc, app, device>>
     ELSE /\ app' = FALSE
          /\ device' = QuitApp(TestingDevice)
          /\ pc' = "check_sys_deps"
          /\ UNCHANGED ret
  /\ UNCHANGED <<opt, relay, tmp, logs, samples, sampled, launches>>

CheckSysDepsShutDown ==
  /\ pc = "check_sys_deps" /\ ~Booted
  /\ \E erased, baseOk \in BOOLEAN :
       /\ device' = IF erased THEN [device EXCEPT !.data = FALSE] ELSE device
       /\ ret' = [call |-> "check_sys_deps", v |-> erased /\ baseOk]
  /\ pc' = "idle"
  /\ UNCHANGED <<opt, app, relay, tmp, logs, samples, sampled, launches>>

(* setup_test_run, lines 198-209: open the app on the testing device and *)
(* wait until it is BOOTED (then sleep 30 s).                               *)
SetupTestRun ==
  /\ Idle
  /\ app' = TRUE
  /\ device' = IF TestingDevice.by = "none" THEN [TestingDevice EXCEPT !.by = "app"] ELSE TestingDevice
  /\ pc' = "setup_test_run"
  /\ UNCHANGED <<opt, relay, tmp, logs, samples, sampled, launches, ret>>

SetupTestRunBooted ==
  /\ pc = "setup_test_run" /\ Booted
  /\ pc' = "idle"
  /\ ret' = [call |-> "setup_test_run", v |-> None]
  /\ UNCHANGED <<opt, app, device, relay, tmp, logs, samples, sampled, launches>>

(* clean_up_test_run, lines 211-219: every driver fifo is removed, in the *)
(* order os.listdir gives; one whose removal raises is skipped.           *)
(* Fault variant: the first failing removal ends the loop. *)
RemoveFifosStoppingAtFailure(files, order) ==
  FoldLeft(LAMBDA acc, f : IF acc.failed \/ f \in Stuck THEN [acc EXCEPT !.failed = TRUE]
                            ELSE [acc EXCEPT !.left = @ \ {f}],
           [left |-> files, failed |-> FALSE], order).left
RemoveFifos(files, order) ==
  FoldLeft(LAMBDA left, f : IF f \in Stuck THEN left ELSE left \ {f}, files, order)

CleanUpTestRun ==
  /\ Idle
  /\ \E order \in SetToSeqs({f \in tmp : DriverFifo(f)}) :
       /\ tmp' = RemoveFifos(tmp, order)
       /\ ret' = [call |-> "clean_up_test_run", v |-> [before |-> tmp, after |-> tmp']]
  /\ UNCHANGED <<opt, pc, app, device, relay, logs, samples, sampled, launches>>

(* reset_preferences, lines 380-383: the data directory of the testing   *)
(* device is removed.                                                      *)
ResetPreferences ==
  /\ Idle
  /\ device' = [TestingDevice EXCEPT !.data = FALSE]
  /\ ret' = [call |-> "reset_preferences", v |-> None]
  /\ UNCHANGED <<opt, pc, app, relay, tmp, logs, samples, sampled, launches>>

CrashLogsFor(crashed) ==
  FoldLeft(LAMBDA res, e : IF <<e.proc, e.pid>> \notin logs THEN res
                           ELSE [t \in DOMAIN res \cup {e.test} |->
                                   IF t = e.test THEN <<e.proc, e.pid>> ELSE res[t]],
           [t \in {} |-> None], crashed)

(* look_for_new_samples, lines 341-348. *)
SamplesFor(unresponsive) ==
  FoldLeft(LAMBDA res, e : IF SampleFilePath(e.proc, e.pid) \notin samples THEN res
                           ELSE [t \in DOMAIN res \cup {e.test} |->
                                   IF t = e.test THEN SampleFilePath(e.proc, e.pid) ELSE res[t]],
           [t \in {} |-> None], unresponsive)

LookForNew ==
  /\ Idle
  /\ \E call \in {"look_for_new_crash_logs", "look_for_new_samples"}, s \in Crashed :
       ret' = [call |-> call, in |-> s,
               v |-> IF call = "look_for_new_samples" THEN SamplesFor(s) ELSE CrashLogsFor(s)]
  /\ UNCHANGED <<opt, pc, app, device, relay, tmp, logs, samples, sampled, launches>>

(* sample_process, lines 350-362: /usr/bin/sample writes the sample file, *)
(* or raises ScriptError, which is logged.                                 *)
SampleProcess(p, pid) ==
  /\ Idle
  /\ \E ok \in BOOLEAN :
       /\ samples' = IF ok THEN samples \cup {SampleFilePath(p, pid)} ELSE samples
       /\ sampled' = IF ok THEN sampled \cup {<<p, pid>>} ELSE sampled
  /\ ret' = [call |-> "sample_process", v |-> None]
  /\ UNCHANGED <<opt, pc, app, device, relay, tmp, logs, launches>>

(* make_command, nm_command and xcrun_find, lines 385-398: xcrun's answer, *)
(* or on ScriptError the fallback, or the command itself.                  *)
XcrunFind(command, fallback) ==
  /\ Idle
  /\ \E ok \in BOOLEAN :
       ret' = [call |-> "xcrun_find",
               v |-> IF ok THEN <<"xcrun", command>> ELSE <<IF fallback # None THEN fallback ELSE command>>]
  /\ UNCHANGED <<opt, pc, app, device, relay, tmp, logs, samples, sampled, launches>>

-----------------------------------------------------------------------------
(* The world.  The user opens and quits the app only between the port's  *)
(* calls; simctl boots the device only where SimctlBoots allows it.        *)
UserOpensApp ==
  /\ Idle /\ ~app /\ launches < MaxLaunches
  /\ app' = TRUE /\ launches' = launches + 1
  /\ device' = IF device.exists /\ ~Booted THEN [device EXCEPT !.by = "app"] ELSE device
  /\ ret' = NoReturn
  /\ UNCHANGED <<opt, pc, relay, tmp, logs, samples, sampled>>
UserQuitsApp ==
  /\ Idle /\ app
  /\ app' = FALSE /\ device' = QuitApp(device)
  /\ UNCHANGED <<opt, pc, relay, tmp, logs, samples, sampled, launches>> /\ ret' = NoReturn
SimctlBootsDevice ==
  /\ SimctlBoots /\ device.exists /\ ~Booted
  /\ device' = [device EXCEPT !.by = "simctl"]
  /\ UNCHANGED <<opt, pc, app, relay, tmp, logs, samples, sampled, launches>> /\ ret' = NoReturn
DriverLeavesFile(f) ==
  /\ f \notin tmp /\ tmp' = tmp \cup {f}
  /\ UNCHANGED <<opt, pc, app, device, relay, logs, samples, sampled, launches>> /\ ret' = NoReturn
ProcessCrashes(p, pid) ==
  /\ <<p, pid>> \notin logs /\ logs' = logs \cup {<<p, pid>>}
  /\ UNCHANGED <<opt, pc, app, device, relay, tmp, samples, sampled, launches>> /\ ret' = NoReturn

PortStep ==
  \/ CheckBuild \/ CheckSysDeps \/ CheckSysDepsShutDown
  \/ SetupTestRun \/ SetupTestRunBooted \/ CleanUpTestRun \/ ResetPreferences
  \/ LookForNew
  \/ \E p \in Procs, pid \in Pids : SampleProcess(p, pid)
  \/ \E c \in {"make", "nm"}, fb \in {None, "/usr/bin/make"} : XcrunFind(c, fb)

Next ==
  \/ PortStep
  \/ UserOpensApp \/ UserQuitsApp \/ SimctlBootsDevice
  \/ \E f \in TmpFiles : DriverLeavesFile(f)
  \/ \E p \in Procs, pid \in Pids : ProcessCrashes(p, pid)

(* wait_until_device_is_in_state (not in this repository; the calls at   *)
(* lines 204 and 245 give it no timeout) polls until the state is reached: *)
(* the two waiting steps are weakly fair, and a wait whose state is never *)
(* reached is a state with no port step.  Nothing else is bound to happen. *)
Spec == Init /\ [][Next]_vars /\ WF_vars(CheckSysDepsShutDown) /\ WF_vars(SetupTestRunBooted)
====
