----------------------------- MODULE MC_IOSPorts -----------------------------
(***************************************************************************)
(* Two physical devices, one reporting iOS 11 and one reporting nothing   *)
(* (a device whose platform answers no version), and a second of iOS 11   *)
(* in the reversed order; simulator versions 11 and 11.2 with at most one *)
(* booted of each; one custom device class; up to two child processes;   *)
(* an environment with a plain key, the same key already prefixed, and   *)
(* another plain key.                                                      *)
(***************************************************************************)
EXTENDS IOSPorts
LOCAL INSTANCE SequencesExt
LOCAL MaxFold(S) == CHOOSE m \in S : \A x \in S : x <= m

MCDeviceSeq == <<"d1", "d2", "d3">>
MCOsVersion == [d \in {"d1", "d2", "d3"} |-> CASE d = "d1" -> <<>> [] d = "d2" -> <<11>> [] OTHER -> <<11, 2>>]
MCVersions == {<<11>>, <<11, 2>>}
MCEnvKeys == {[pre |-> FALSE, name |-> "DYLD"], [pre |-> TRUE, name |-> "DYLD"],
              [pre |-> FALSE, name |-> "HOME"]}

-----------------------------------------------------------------------------
(* The most workers a port may have: the option, the simulators supported *)
(* or booted, or the devices connected.                                    *)
MaxWorkers == MaxFold({MaxChild, MaxSupported, MaxBooted * Cardinality(Versions), Len(DeviceSeq)})

(* A port's type: a device port may keep a version of None, which         *)
(* ios_version returns when no device reports one.                        *)
TypeOK ==
  /\ opt \in Options(Names \cup {Append(n, v[1]) : n \in Names, v \in Versions})
  /\ conn \subseteq Devices /\ logs \subseteq conn \cup logs
  /\ booted \in [Versions -> 0..MaxBooted]
  /\ memoVersion \in {<<>>} \cup {<<v>> : v \in {NoVersion} \cup Versions}
  /\ memoChild \in {<<>>} \cup {<<n>> : n \in 0..MaxWorkers}
  /\ deviceClass \in Classes \cup {DefaultClass}
  /\ initialized \in UNION {[1..n -> [class : Classes \cup {DefaultClass}, version : Versions]]
                            : n \in 0..MaxWorkers}

(* IOSDevicePort.ios_version (ios_device.py 94-112), when it works the    *)
(* version out of the connected devices, returns one they agree on: every *)
(* device of the worker map it looked at reports that version or none.    *)
DeviceVersionAgreed ==
  (opt.kind = "ios-device" /\ ret.call = "ios_version" /\ ret.fresh
     /\ ret.exc = "none" /\ opt.version = NoVersion)
    => \A d \in ret.conn : OsVersion[d] \in {NoVersion, ret.v}

(* IOSDevicePort._create_devices (ios_device.py 125-132) returns only    *)
(* when enough devices are connected for the workers, as its error        *)
(* 'Not enough connected devices for N processes' says; line 131 asks the  *)
(* @memoized default_child_processes, counted when it was first called.   *)
DeviceWorkersHaveDevices ==
  (opt.kind = "ios-device" /\ ret.call = "_create_devices" /\ ret.exc = "none")
    => ret.v <= Cardinality(ret.conn)

(* environment_for_api_tests (ios_simulator.py 111-120) hands every      *)
(* variable to the simulated process exactly once under the SIMCTL_CHILD_ *)
(* prefix, whichever order the dict is visited in: the result's keys are  *)
(* the prefixed names of the input's keys, and each holds the value of an *)
(* input key of that name.                                                 *)
ApiTestEnvComplete ==
  opt.kind = "ios-simulator" =>
  \A K \in SUBSET EnvKeys : \A in \in [K -> {1, 2}] : \A order \in SetToSeqs(K) :
    LET out == EnvForApiTests(in, order)
    IN /\ DOMAIN out = {[pre |-> TRUE, name |-> k.name] : k \in K}
       /\ \A x \in DOMAIN out : \E k \in K : k.name = x.name /\ out[x] = in[k]
==============================================================================
