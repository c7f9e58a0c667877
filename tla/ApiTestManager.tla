--------------------------- MODULE ApiTestManager ---------------------------
(***************************************************************************)
(* Manager.run(args) of webkitpy/api_tests/manager.py: check the build,    *)
(* initialize devices, list the tests of every API-test binary, select the *)
(* ones the arguments name, print them (dump) or run them with Runner,     *)
(* and turn the runner's result map into one of four status codes.        *)
(*                                                                         *)
(* The operator's Ctrl-C is a KeyboardInterrupt raised in the main thread  *)
(* at whatever line run() is executing; only the block that constructs     *)
(* and runs the Runner catches it.                                         *)
(***************************************************************************)
EXTENDS ApiTestCatalog, ApiTestRunner

CONSTANTS
  Binaries,     \* path_to_api_test_binaries(), as their stems, in order
  Outputs,      \* the --gtest_list_tests outputs a binary may print
  ArgChoices,   \* the argument lists run() may be given
  PortNames,    \* the ports the manager may be created for
  DumpChoices,  \* values of the 'dump' option
  NoOutput      \* a binary not (yet) listed

ASSUME Binaries \in Seq(Int) /\ NoOutput \notin Outputs

(* Manager's status codes. *)
SUCCESS == 0
FAILED_BUILD_CHECK == 1
FAILED_COLLECT_TESTS == 2
FAILED_TESTS == 3

VARIABLES
  pc,           \* the point of run() reached
  args, dump, port, childOpt,   \* run()'s inputs and options
  binIdx,       \* the binary _collect_tests is listing
  available,    \* available_tests
  outputs,      \* history: what each binary printed, or NoOutput
  listingFailed,\* history: a listing raised ScriptError
  testNames,    \* test_names
  runnerBound,  \* the local 'runner' has been assigned
  sigint,       \* the operator's Ctrl-C: "none", "pending", "delivered"
  deliveredAt,  \* history: the pc at which the KeyboardInterrupt was raised
  status,       \* the value run() returned
  exc           \* the exception run() raised

mgrVars == <<pc, args, dump, port, childOpt, binIdx, available, outputs,
             listingFailed, testNames, runnerBound, sigint, deliveredAt,
             status, exc>>
vars == <<mgrVars, runnerVars>>

NoStatus == -1
NoExc == "none"
Ended == {"done", "raised"}

(* A KeyboardInterrupt raised where nothing catches it. *)
Uncaught == {"check_build", "init_devices", "collect", "summary"}

Init ==
  /\ pc = "check_build"
  /\ args \in ArgChoices
  /\ dump \in DumpChoices
  /\ port \in PortNames
  /\ childOpt \in 0..MaxWorkers
  /\ binIdx = 1
  /\ available = <<>>
  /\ outputs = [i \in DOMAIN Binaries |-> NoOutput]
  /\ listingFailed = FALSE
  /\ testNames = <<>>
  /\ runnerBound = FALSE
  /\ sigint = "none"
  /\ deliveredAt = "none"
  /\ status = NoStatus
  /\ exc = NoExc
  /\ names = <<>>
  /\ queue = [w \in Workers |-> <<>>]
  /\ inflight = [w \in Workers |-> None]
  /\ results = [t \in Ids |-> NoResult]
  /\ stopping = FALSE

Return(code) == pc' = "done" /\ status' = code

(* port.check_api_test_build() may fail. *)
CheckBuild ==
  /\ pc = "check_build" /\ sigint # "pending"
  /\ \/ Return(FAILED_BUILD_CHECK)
     \/ pc' = "init_devices" /\ UNCHANGED status
  /\ UNCHANGED <<args, dump, port, childOpt, binIdx, available, outputs,
                 listingFailed, testNames, runnerBound, sigint, deliveredAt,
                 exc, runnerVars>>

(* _initialize_devices: simulators are booted, a device port raises. *)
InitializeDevices ==
  /\ pc = "init_devices" /\ sigint # "pending"
  /\ IF port = "ios-device"
       THEN pc' = "raised" /\ exc' = "RuntimeError"
       ELSE pc' = "collect" /\ UNCHANGED exc
  /\ UNCHANGED <<args, dump, port, childOpt, binIdx, available, outputs,
                 listingFailed, testNames, runnerBound, sigint, deliveredAt,
                 status, runnerVars>>

(* Fault variant: a failed listing is logged and the loop goes on. *)
CollectBinarySwallowingError ==
  /\ pc = "collect" /\ sigint # "pending"
  /\ binIdx <= Len(Binaries)
  /\ \/ /\ listingFailed' = TRUE
        /\ binIdx' = binIdx + 1
        /\ UNCHANGED <<pc, status, available, outputs>>
     \/ \E out \in Outputs :
          /\ available' = available \o TestListFromOutput(out, Binaries[binIdx])
          /\ outputs' = [outputs EXCEPT ![binIdx] = out]
          /\ binIdx' = binIdx + 1
          /\ UNCHANGED <<pc, status, listingFailed>>
  /\ UNCHANGED <<args, dump, port, childOpt, testNames, runnerBound, sigint,
                 deliveredAt, exc, runnerVars>>

(* One iteration of the loop of _collect_tests: list one binary; a        *)
(* ScriptError is re-raised and run() returns FAILED_COLLECT_TESTS.       *)
CollectBinary ==
  /\ pc = "collect" /\ sigint # "pending"
  /\ binIdx <= Len(Binaries)
  /\ \/ /\ listingFailed' = TRUE
        /\ Return(FAILED_COLLECT_TESTS)
        /\ UNCHANGED <<binIdx, available, outputs>>
     \/ \E out \in Outputs :
          /\ available' = available \o TestListFromOutput(out, Binaries[binIdx])
          /\ outputs' = [outputs EXCEPT ![binIdx] = out]
          /\ binIdx' = binIdx + 1
          /\ UNCHANGED <<pc, status, listingFailed>>
  /\ UNCHANGED <<args, dump, port, childOpt, testNames, runnerBound, sigint,
                 deliveredAt, exc, runnerVars>>

(* The end of _collect_tests (select and sort) and the checks run()       *)
(* makes of its value: no test found, or the dump option.                 *)
Collected ==
  /\ pc = "collect" /\ sigint # "pending"
  /\ binIdx > Len(Binaries)
  /\ LET tn == SelectTests(available, args) IN
       /\ testNames' = tn
       /\ CASE tn = <<>> -> Return(FAILED_COLLECT_TESTS)
            [] dump      -> Return(SUCCESS)
            [] OTHER     -> pc' = "construct_runner" /\ UNCHANGED status
  /\ UNCHANGED <<args, dump, port, childOpt, binIdx, available, outputs,
                 listingFailed, runnerBound, sigint, deliveredAt, exc, runnerVars>>

(* runner = Runner(...); runner.run(test_names, child_processes or the    *)
(* port's default).  A KeyboardInterrupt before the assignment is caught  *)
(* and leaves 'runner' unbound.                                           *)
ConstructRunner ==
  /\ pc = "construct_runner"
  /\ \/ /\ sigint # "pending"
        /\ runnerBound' = TRUE
        /\ \E n \in IF childOpt # 0 THEN {childOpt} ELSE 1..MaxWorkers :
             RunnerStart(testNames, n)
        /\ pc' = "running"
        /\ UNCHANGED <<sigint, deliveredAt>>
     \/ /\ sigint = "pending"
        /\ sigint' = "delivered" /\ deliveredAt' = pc
        /\ pc' = "summary"
        /\ UNCHANGED <<runnerBound, runnerVars>>
  /\ UNCHANGED <<args, dump, port, childOpt, binIdx, available, outputs,
                 listingFailed, testNames, status, exc>>

(* Workers run and complete tests while run() is inside runner.run. *)
Running ==
  /\ pc = "running"
  /\ RunnerStep
  /\ UNCHANGED mgrVars

(* The KeyboardInterrupt reaches runner.run: dispatch stops. *)
InterruptRunner ==
  /\ pc = "running" /\ sigint = "pending"
  /\ StopDispatch
  /\ sigint' = "delivered" /\ deliveredAt' = pc
  /\ UNCHANGED <<pc, args, dump, port, childOpt, binIdx, available, outputs,
                 listingFailed, testNames, runnerBound, status, exc>>

(* runner.run returns, normally or through the caught interrupt. *)
RunReturns ==
  /\ pc = "running" /\ sigint # "pending"
  /\ RunnerDone
  /\ pc' = "summary"
  /\ UNCHANGED <<args, dump, port, childOpt, binIdx, available, outputs,
                 listingFailed, testNames, runnerBound, sigint, deliveredAt,
                 status, exc, runnerVars>>

(* Fault variant: the count is compared with len(runner.results). *)
SummarizeAgainstResults ==
  /\ pc = "summary" /\ sigint # "pending"
  /\ IF ~runnerBound
       THEN pc' = "raised" /\ exc' = "UnboundLocalError" /\ UNCHANGED status
       ELSE LET successful == {t \in Ids : results[t] = "Passed"}
                disabled == Cardinality({t \in Ids : results[t] = "Disabled"})
                ran == Cardinality({t \in Ids : results[t] # NoResult})
            IN /\ Return(IF Cardinality(successful) + disabled = ran
                         THEN SUCCESS ELSE FAILED_TESTS)
               /\ UNCHANGED exc
  /\ UNCHANGED <<args, dump, port, childOpt, binIdx, available, outputs,
                 listingFailed, testNames, runnerBound, sigint, deliveredAt,
                 runnerVars>>

(* Lines 165-192: passed plus disabled must equal the number of tests. *)
Summarize ==
  /\ pc = "summary" /\ sigint # "pending"
  /\ IF ~runnerBound
       THEN pc' = "raised" /\ exc' = "UnboundLocalError" /\ UNCHANGED status
       ELSE LET successful == {t \in Ids : results[t] = "Passed"}
                disabled == Cardinality({t \in Ids : results[t] = "Disabled"})
            IN /\ Return(IF Cardinality(successful) + disabled = Len(testNames)
                         THEN SUCCESS ELSE FAILED_TESTS)
               /\ UNCHANGED exc
  /\ UNCHANGED <<args, dump, port, childOpt, binIdx, available, outputs,
                 listingFailed, testNames, runnerBound, sigint, deliveredAt,
                 runnerVars>>

(* The operator presses Ctrl-C. *)
Interrupt ==
  /\ pc \notin Ended /\ sigint = "none"
  /\ sigint' = "pending"
  /\ UNCHANGED <<pc, args, dump, port, childOpt, binIdx, available, outputs,
                 listingFailed, testNames, runnerBound, deliveredAt, status,
                 exc, runnerVars>>

(* The KeyboardInterrupt propagates out of run(). *)
RaiseInterrupt ==
  /\ pc \in Uncaught /\ sigint = "pending"
  /\ sigint' = "delivered" /\ deliveredAt' = pc
  /\ pc' = "raised" /\ exc' = "KeyboardInterrupt"
  /\ UNCHANGED <<args, dump, port, childOpt, binIdx, available, outputs,
                 listingFailed, testNames, runnerBound, status, runnerVars>>

Next ==
  \/ CheckBuild \/ InitializeDevices \/ CollectBinary \/ Collected
  \/ ConstructRunner \/ Running \/ InterruptRunner \/ RunReturns
  \/ Summarize \/ Interrupt \/ RaiseInterrupt

(* run() is a single sequential thread and the workers are independent    *)
(* processes: each makes progress; the operator is not obliged to act.    *)
Spec ==
  /\ Init /\ [][Next]_vars
  /\ WF_vars(CheckBuild \/ InitializeDevices \/ CollectBinary \/ Collected
             \/ ConstructRunner \/ RunReturns \/ Summarize
             \/ InterruptRunner \/ RaiseInterrupt)
  /\ \A w \in Workers : WF_vars(pc = "running" /\ Dispatch(w) /\ UNCHANGED mgrVars)
  /\ \A w \in Workers : WF_vars(pc = "running" /\ \E o \in Outcomes : Complete(w, o)
                                /\ UNCHANGED mgrVars)
=============================================================================
