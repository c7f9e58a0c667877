------------------------------ MODULE IOSPorts ------------------------------
(***************************************************************************)
(* The iOS ports of webkitpy/port/ios_device.py and ios_simulator.py: how *)
(* a port decides its iOS version and its number of workers, provisions   *)
(* the devices the workers run on, searches them for crash logs and      *)
(* releases them.  Both classes derive from IOSPort (port/ios.py).       *)
(*                                                                         *)
(* A port is an object whose methods the layout-test manager calls in    *)
(* any order; ios_version and default_child_processes are @memoized: the  *)
(* first value returned is kept for the life of the port (an exception is *)
(* not kept).  Meanwhile the environment changes: physical devices are   *)
(* plugged in and out, simulators are booted and shut down by others.     *)
(*                                                                         *)
(* apple_additions() (absent outside Apple) answers for the device port:  *)
(* its worker map is the connected devices in their order, and its        *)
(* default child count is their number.  SimulatedDeviceManager answers   *)
(* for the simulator port: initialize_devices leaves one initialized      *)
(* device per request, tear_down none.                                    *)
(***************************************************************************)
EXTENDS Integers, Sequences, FiniteSets
LOCAL INSTANCE SequencesExt

CONSTANTS
  DeviceSeq,        \* the physical devices, in the order the worker map lists them
  OsVersion,        \* device -> its platform.os_version
  Versions,         \* the version strings a port may be given or find
  Classes,          \* device classes a caller may pass to _create_devices
  DefaultClass,     \* IOSSimulatorPort.DEFAULT_DEVICE_CLASS
  MaxChild,         \* the largest --child-processes
  MaxSupported,     \* SimulatedDeviceManager.max_supported_simulators()
  MaxBooted,        \* the most simulators of one version booted at once
  EnvKeys           \* the names in the environment for API tests

Devices == ToSet(DeviceSeq)
NoClass == "none"                \* device_class None

(***************************************************************************)
(* environment_for_api_tests, ios_simulator.py 111-120: every variable is *)
(* passed to the simulated process under the SIMCTL_CHILD_ prefix, unless *)
(* it already has it.  A key is [pre, name]: whether it starts with the   *)
(* prefix, and the rest.  'for value in no_prefix' visits the dict in an  *)
(* order Python 2 does not define: 'order' is any ordering of its keys.   *)
(***************************************************************************)
(* Fault variant: the prefix is added whether or not the key has it. *)
SimctlKeyAlways(k) == [pre |-> TRUE, name |-> IF k.pre THEN "SIMCTL_CHILD_" \o k.name ELSE k.name]

SimctlKey(k) == IF ~k.pre THEN [pre |-> TRUE, name |-> k.name] ELSE k

EnvForApiTests(env, order) ==
  FoldLeft(LAMBDA res, k : [x \in DOMAIN res \cup {SimctlKey(k)} |->
                              IF x = SimctlKey(k) THEN env[k] ELSE res[x]],
           [x \in {} |-> 0], order)

(***************************************************************************)
(* Versions and port names.  A version string is the sequence of its     *)
(* '.'-separated numbers (<<11, 2>> is '11.2'); <<>> is '' or None, which *)
(* are falsy.  A port name is the sequence of its '-'-separated parts, a  *)
(* part of digits being its number: <<"ios", "simulator", 11>>.           *)
(***************************************************************************)
NoVersion == <<>>

(* IOSPort.determine_full_port_name, ios.py 54-61, and its copy in        *)
(* IOSDevicePort, ios_device.py 61-69: the bare port name gets the major  *)
(* number of the iphoneos SDK (a missing SDK raises before any port is    *)
(* made).                                                                  *)
FullPortName(bare, name, sdk) ==
  IF name = bare THEN Append(name, sdk[1]) ELSE name

(* IOSSimulatorPort._version_from_name, ios_simulator.py 56-60. *)
VersionFromName(name) ==
  IF Len(name) > 2 /\ name[3] \in Nat THEN <<name[3]>> ELSE NoVersion

(***************************************************************************)
(* IOSDevicePort.ios_version, ios_device.py 94-112, over the devices the  *)
(* worker map lists: the first device with a version sets it; any later   *)
(* device whose version differs, falsy or not, raises.                    *)
(***************************************************************************)
(* Fault variant: each device's version replaces the previous one. *)
DeviceVersionLastWins(map) ==
  FoldLeft(LAMBDA acc, d : IF OsVersion[d] # NoVersion THEN [acc EXCEPT !.v = OsVersion[d]] ELSE acc,
           [v |-> NoVersion, exc |-> "none"], map)

DeviceVersionLoop(map) ==
  FoldLeft(LAMBDA acc, d :
             CASE acc.exc # "none"         -> acc
               [] acc.v = NoVersion        -> [acc EXCEPT !.v = OsVersion[d]]
               [] OsVersion[d] # acc.v     -> [acc EXCEPT !.exc = "DifferentVersions"]
               [] OTHER                    -> acc,
           [v |-> NoVersion, exc |-> "none"], map)

-----------------------------------------------------------------------------
VARIABLES
  opt,          \* the port's class and options, and what the host reports
  conn,         \* the physical devices connected
  logs,         \* the devices holding a crash log of the crashed process
  booted,       \* version -> the number of booted iOS simulators of it
  memoVersion,  \* <<v>> once the @memoized ios_version returned v, else <<>>
  memoChild,    \* <<n>> once the @memoized default_child_processes returned n
  deviceClass,  \* IOSSimulatorPort._device_class
  initialized,  \* SimulatedDeviceManager.INITIALIZED_DEVICES
  ret           \* the outcome of the last method called

vars == <<opt, conn, logs, booted, memoVersion, memoChild, deviceClass, initialized, ret>>

(* The options and host facts a port may be made with:                    *)
(*   kind        port_name: "ios-device" or "ios-simulator";              *)
(*   name        the full port name;                                       *)
(*   additions   apple_additions() is not None;                           *)
(*   version     get_option('version'), NoVersion when not given;         *)
(*   child       get_option('child_processes'), 0 when not given;         *)
(*   dedicated   get_option('dedicated_simulators');                      *)
(*   class       get_option('device_class');                              *)
(*   sdk         xcode_sdk_version('iphonesimulator');                     *)
(*   osSdk       xcode_sdk_version('iphoneos').                            *)
Options(Names) ==
  [kind : {"ios-device", "ios-simulator"}, name : Names, additions : BOOLEAN,
   version : {NoVersion} \cup Versions, child : 0..MaxChild, dedicated : BOOLEAN,
   class : {NoClass} \cup Classes, sdk : Versions, osSdk : Versions]

(* The worker map of the device port: the connected devices, in order. *)
WorkerMap == SelectSeq(DeviceSeq, LAMBDA d : d \in conn)

(***************************************************************************)
(* What a method returns, given what the memo holds.                      *)
(***************************************************************************)
Result(v, exc) == [v |-> v, exc |-> exc]

(* ios_version computed: IOSDevicePort's (ios_device.py 94-112) or       *)
(* IOSSimulatorPort's (ios_simulator.py 62-66, with _version_from_name). *)
IosVersionComputed ==
  IF opt.kind = "ios-device"
  THEN CASE opt.version # NoVersion -> Result(opt.version, "none")
         [] ~opt.additions         -> Result(NoVersion, "NoOnDeviceTesting")
         [] WorkerMap = <<>>       -> Result(NoVersion, "NoDevices")
         [] OTHER                  -> DeviceVersionLoop(WorkerMap)
  ELSE Result(CASE opt.version # NoVersion              -> opt.version
                [] VersionFromName(opt.name) # NoVersion -> VersionFromName(opt.name)
                [] OTHER                                 -> opt.sdk, "none")

(* @memoized: the kept value, else the computed one; only a value that    *)
(* was returned is kept.                                                    *)
IosVersion(mv) == IF mv # <<>> THEN Result(mv[1], "none") ELSE IosVersionComputed
KeepVersion(mv) == IF mv = <<>> /\ IosVersion(mv).exc = "none" THEN <<IosVersion(mv).v>> ELSE mv

(* A booted simulator of version w passes the filter of line 71-74 when   *)
(* its device type is in DeviceType('iOS', v): webkitpy's Version matches *)
(* a version by its leading numbers.                                       *)
BootedMatching(v) == FoldSet(LAMBDA w, n : n + booted[w], 0, {w \in Versions : IsPrefix(v, w)})

(* default_child_processes computed: IOSDevicePort's (ios_device.py       *)
(* 42-46) or IOSSimulatorPort's (ios_simulator.py 68-79), which calls     *)
(* ios_version.                                                             *)
DefaultChildComputed(mv) ==
  IF opt.kind = "ios-device" THEN (IF opt.additions THEN Len(WorkerMap) ELSE 1)
  ELSE IF ~opt.dedicated /\ BootedMatching(IosVersion(mv).v) > 0
       THEN BootedMatching(IosVersion(mv).v) ELSE MaxSupported
DefaultChild(mc, mv) == IF mc # <<>> THEN mc[1] ELSE DefaultChildComputed(mv)
(* What the simulator's default_child_processes leaves in the version     *)
(* memo: the filter asks ios_version() only of a booted simulator.        *)
VersionMemoAfterDefault(mc, mv) ==
  IF mc = <<>> /\ opt.kind = "ios-simulator" /\ ~opt.dedicated /\ \E w \in Versions : booted[w] > 0
  THEN KeepVersion(mv) ELSE mv

(* Port.child_processes(): the option, else default_child_processes(). *)
ChildProcesses(mc, mv) == IF opt.child # 0 THEN opt.child ELSE DefaultChild(mc, mv)

Ret(call, r, fresh) ==
  [call |-> call, v |-> r.v, exc |-> r.exc, fresh |-> fresh,
   conn |-> IF call \in {"ios_version", "_create_devices"} THEN conn ELSE {}]

(* The device class _create_devices sets, ios_simulator.py 87-88. *)
(* Fault variant: the class is taken as given, None included. *)
SetDeviceClassAsGiven(c) == c

SetDeviceClass(c) == IF c # NoClass THEN c ELSE DefaultClass

(* The version in the DeviceType _create_devices requests, line 92. *)
SimulatorRequestVersion(mv) == IosVersion(mv).v

Names == {<<"ios", "simulator">>, <<"ios", "device">>}

(* A port made by the factory: determine_full_port_name, then __init__. *)
Init ==
  /\ \E o \in Options(Names) :
       /\ o.name = IF o.kind = "ios-device" THEN <<"ios", "device">> ELSE <<"ios", "simulator">>
       \* options the device port never reads are left at their defaults
       /\ o.kind = "ios-device" => o.dedicated = FALSE /\ o.class = NoClass /\ o.sdk = o.osSdk
       /\ o.kind = "ios-simulator" => ~o.additions
       /\ opt = [o EXCEPT !.name = FullPortName(o.name, o.name, o.osSdk)]
  /\ conn \in IF opt.kind = "ios-device" THEN SUBSET Devices ELSE {{}}
  /\ logs = {}
  /\ booted \in IF opt.kind = "ios-simulator" THEN [Versions -> 0..MaxBooted]
                                              ELSE {[v \in Versions |-> 0]}
  /\ memoVersion = <<>>
  /\ memoChild = <<>>
  /\ deviceClass = SetDeviceClass(opt.class)
  /\ initialized = <<>>
  /\ ret = [call |-> "none", v |-> NoVersion, exc |-> "none", fresh |-> FALSE, conn |-> {}]

Device == opt.kind = "ios-device"
Simulator == opt.kind = "ios-simulator"

(* ios_version(), either port. *)
IosVersionCall ==
  /\ ret' = Ret("ios_version", IosVersion(memoVersion), memoVersion = <<>>)
  /\ memoVersion' = KeepVersion(memoVersion)
  /\ UNCHANGED <<opt, conn, logs, booted, memoChild, deviceClass, initialized>>

(* default_child_processes(), either port. *)
DefaultChildProcessesCall ==
  /\ ret' = Ret("default_child_processes", Result(DefaultChild(memoChild, memoVersion), "none"),
                memoChild = <<>>)
  /\ memoChild' = <<DefaultChild(memoChild, memoVersion)>>
  /\ memoVersion' = VersionMemoAfterDefault(memoChild, memoVersion)
  /\ UNCHANGED <<opt, conn, logs, booted, deviceClass, initialized>>

(* IOSDevicePort._create_devices, ios_device.py 125-132: the checks in   *)
(* order; line 131 calls default_child_processes() before child_processes(). *)
DeviceCreateDevices ==
  /\ Device
  /\ LET checked == ~opt.additions \/ WorkerMap = <<>>
         exc == CASE ~opt.additions  -> "NoOnDeviceTesting"
                  [] WorkerMap = <<>> -> "NoDevices"
                  [] DefaultChild(memoChild, memoVersion) < ChildProcesses(memoChild, memoVersion)
                                      -> "NotEnoughDevices"
                  [] OTHER            -> "none"
     IN /\ ret' = Ret("_create_devices", Result(ChildProcesses(memoChild, memoVersion), exc), FALSE)
        /\ memoChild' = IF checked THEN memoChild ELSE <<DefaultChild(memoChild, memoVersion)>>
  /\ UNCHANGED <<opt, conn, logs, booted, memoVersion, deviceClass, initialized>>

(* IOSSimulatorPort._create_devices, ios_simulator.py 90-103: the class   *)
(* is set, the version asked, and child_processes() requests made.         *)
SimulatorCreateDevices(c) ==
  /\ Simulator
  /\ LET mv == KeepVersion(memoVersion)
         n  == ChildProcesses(memoChild, mv)
     IN /\ deviceClass' = SetDeviceClass(c)
        /\ initialized' = [i \in 1..n |-> [class |-> SetDeviceClass(c),
                                            version |-> SimulatorRequestVersion(memoVersion)]]
        /\ memoVersion' = mv
        /\ memoChild' = IF opt.child # 0 THEN memoChild ELSE <<DefaultChild(memoChild, mv)>>
        /\ ret' = Ret("_create_devices", Result(n, "none"), FALSE)
  /\ UNCHANGED <<opt, conn, logs, booted>>

(* _device_for_worker_number_map(): ios_device.py 51-54 (the connected   *)
(* devices, raising without apple_additions) or ios_simulator.py 53-54    *)
(* (the initialized devices).                                               *)
WorkerNumberMap ==
  /\ ret' = CASE Simulator     -> Ret("worker_map", Result(Len(initialized), "none"), FALSE)
              [] ~opt.additions -> Ret("worker_map", Result(0, "NoOnDeviceTesting"), FALSE)
              [] OTHER          -> Ret("worker_map", Result(Len(WorkerMap), "none"), FALSE)
  /\ UNCHANGED <<opt, conn, logs, booted, memoVersion, memoChild, deviceClass, initialized>>

(* IOSDevicePort._get_crash_log without target_host, ios_device.py 83-93: *)
(* each device of the worker map is searched without waiting, and the    *)
(* first log found is returned; the base method, given a device, finds    *)
(* the log that device holds.                                               *)
LogsFound == SelectSeq(WorkerMap, LAMBDA d : d \in logs)

DeviceGetCrashLog ==
  /\ Device
  /\ ret' = IF ~opt.additions
            THEN Ret("_get_crash_log", Result(<<>>, "NoOnDeviceTesting"), FALSE)
            ELSE Ret("_get_crash_log",
                     Result(IF LogsFound = <<>> THEN <<>> ELSE <<Head(LogsFound)>>, "none"), FALSE)
  /\ UNCHANGED <<opt, conn, logs, booted, memoVersion, memoChild, deviceClass, initialized>>

(* clean_up_test_run: IOSDevicePort's, ios_device.py 134-136, calls       *)
(* apple_additions() without asking whether it exists; IOSSimulatorPort's, *)
(* ios_simulator.py 105-109, and its reset_preferences, 148-150, tear the *)
(* simulators down.                                                         *)
CleanUpTestRun ==
  /\ ret' = Ret("clean_up_test_run",
                Result(<<>>, IF Device /\ ~opt.additions THEN "AttributeError" ELSE "none"), FALSE)
  /\ initialized' = IF Simulator THEN <<>> ELSE initialized
  /\ UNCHANGED <<opt, conn, logs, booted, memoVersion, memoChild, deviceClass>>

ResetPreferences ==
  /\ Simulator
  /\ initialized' = <<>>
  /\ ret' = Ret("reset_preferences", Result(<<>>, "none"), FALSE)
  /\ UNCHANGED <<opt, conn, logs, booted, memoVersion, memoChild, deviceClass>>

(* IOSSimulatorPort.check_sys_deps, ios_simulator.py 140-146: a simulator *)
(* runtime of the port's version must be installed; Xcode installs the    *)
(* one of its SDK.  The base check, when reached, passes.                 *)
CheckSysDeps ==
  /\ Simulator
  /\ ret' = Ret("check_sys_deps", Result(IsPrefix(IosVersion(memoVersion).v, opt.sdk), "none"), FALSE)
  /\ memoVersion' = KeepVersion(memoVersion)
  /\ UNCHANGED <<opt, conn, logs, booted, memoChild, deviceClass, initialized>>

(***************************************************************************)
(* The environment: devices are plugged in and out, a crashed process     *)
(* leaves its log on the device it ran on, simulators are booted and shut  *)
(* down by other tools.                                                     *)
(***************************************************************************)
Connect(d) == Device /\ d \notin conn /\ conn' = conn \cup {d}
              /\ UNCHANGED <<opt, logs, booted, memoVersion, memoChild, deviceClass, initialized, ret>>
Disconnect(d) == Device /\ d \in conn /\ conn' = conn \ {d}
                 /\ UNCHANGED <<opt, logs, booted, memoVersion, memoChild, deviceClass, initialized, ret>>
LeaveCrashLog(d) == Device /\ d \in conn \ logs /\ logs' = logs \cup {d}
                    /\ UNCHANGED <<opt, conn, booted, memoVersion, memoChild, deviceClass, initialized, ret>>
Boot(v) == Simulator /\ booted[v] < MaxBooted /\ booted' = [booted EXCEPT ![v] = @ + 1]
           /\ UNCHANGED <<opt, conn, logs, memoVersion, memoChild, deviceClass, initialized, ret>>
Shutdown(v) == Simulator /\ booted[v] > 0 /\ booted' = [booted EXCEPT ![v] = @ - 1]
               /\ UNCHANGED <<opt, conn, logs, memoVersion, memoChild, deviceClass, initialized, ret>>

Next ==
  \/ IosVersionCall
  \/ DefaultChildProcessesCall
  \/ DeviceCreateDevices
  \/ \E c \in {NoClass} \cup Classes : SimulatorCreateDevices(c)
  \/ WorkerNumberMap
  \/ DeviceGetCrashLog
  \/ CleanUpTestRun
  \/ ResetPreferences
  \/ CheckSysDeps
  \/ \E d \in Devices : Connect(d) \/ Disconnect(d) \/ LeaveCrashLog(d)
  \/ \E v \in Versions : Boot(v) \/ Shutdown(v)

(* The manager calls the port's methods in no order the port relies on,  *)
(* and none is bound to happen: no fairness.                              *)
Spec == Init /\ [][Next]_vars
====
