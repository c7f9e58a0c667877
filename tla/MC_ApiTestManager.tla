------------------------- MODULE MC_ApiTestManager -------------------------
(***************************************************************************)
(* Model values and properties for Manager.run.  Names are small integers: *)
(* binaries 7 and 8, suites 1 and 2, tests 2 and 3 (2 is both a suite and *)
(* a test name), and 0 for the None suite.                                 *)
(***************************************************************************)
EXTENDS ApiTestManager, TLC
LOCAL INSTANCE SequencesExt

MCBinaries == <<7, 8>>
MCSuites == {1, 2}
MCTests == {2, 3}
MCOutcomes == {"Passed", "Failed", "Crashed", "Timeout", "Disabled"}
MCIds == {7, 8} \X ({0} \cup MCSuites) \X MCTests

Blank == Line("blank", 0)
H(s) == Line("header", s)
T(t) == Line("test", t)
P(t) == Line("param", t)
Ty(s) == Line("typed", s)

(* Every listing of up to MaxLines lines over the alphabet. *)
MaxLines == 3
Alphabet == {Blank, P(3)} \cup {H(s) : s \in MCSuites} \cup {T(t) : t \in MCTests}
AllOutputs == SeqOf(Alphabet, MaxLines)
(* The same with gtest's typed-suite headers. *)
TypedAlphabet == Alphabet \cup {Ty(2)}
AllTypedOutputs == SeqOf(TypedAlphabet, MaxLines)

(* A few listings for the runs that go on to execute tests. *)
SmallOutputs == { <<H(1), T(2), T(3)>>, <<H(2), T(3), H(2)>>, <<H(1), T(2), H(1), T(2)>> }

(* Argument lists: none, and one or two patterns of 1 to 3 segments. *)
Patterns == {<<1>>, <<2>>, <<3>>, <<7>>, <<1, 2>>, <<7, 1>>, <<8, 2, 3>>}
AllArgs == {<<>>} \cup {<<a>> : a \in Patterns} \cup {<<a, b>> : a, b \in Patterns}
SmallArgs == {<<>>, <<<<2>>>>, <<<<1, 2>>, <<1>>>>}
NoArgs == {<<>>}
TestArgs == {<<<<3>>>>, <<<<2>>>>}

AllPorts == {"mac", "ios-simulator", "ios-device"}
HostPorts == {"mac", "ios-simulator"}

-----------------------------------------------------------------------------
TypeOK ==
  /\ pc \in {"check_build", "init_devices", "collect", "construct_runner",
             "running", "summary"} \cup Ended
  /\ binIdx \in 1..(Len(Binaries) + 1)
  /\ available \in Seq(Ids)
  /\ outputs \in [DOMAIN Binaries -> Outputs \cup {NoOutput}]
  /\ testNames \in Seq(Ids)
  /\ sigint \in {"none", "pending", "delivered"}
  /\ status \in {NoStatus, SUCCESS, FAILED_BUILD_CHECK, FAILED_COLLECT_TESTS, FAILED_TESTS}
  /\ exc \in {NoExc, "RuntimeError", "KeyboardInterrupt", "UnboundLocalError"}
  /\ results \in [Ids -> Outcomes \cup {NoResult}]

Listed == pc \in {"construct_runner", "running", "summary"} \/ testNames # <<>>

(* _collect_tests without arguments returns exactly the tests gtest       *)
(* listed, each under the suite whose header precedes it, sorted and      *)
(* without duplicates, even when a suite block repeats: in the run, and,  *)
(* before it starts, for every listing of the first binary beside each    *)
(* listing of the second that the run draws from.                         *)
CatalogOf(o1, o2) ==
  SelectTests(TestListFromOutput(o1, Binaries[1]) \o TestListFromOutput(o2, Binaries[2]), <<>>)
CatalogIsGtestListing ==
  /\ Listed /\ args = <<>> =>
       IsSortedListOf(testNames,
         UNION {GtestTests(outputs[b], Binaries[b]) : b \in DOMAIN Binaries})
  /\ pc = "check_build" =>
       \A o1 \in AllOutputs, o2 \in Outputs :
          IsSortedListOf(CatalogOf(o1, o2), GtestTests(o1, Binaries[1]) \cup GtestTests(o2, Binaries[2]))

(* With arguments, _collect_tests returns exactly the listed tests that   *)
(* some argument matches, sorted and without duplicates even when two     *)
(* arguments match the same test.                                         *)
SelectionIsExact ==
  Listed /\ args # <<>> => IsSortedListOf(testNames, SelectedRef(available, args))

(* Spec section 4.2: a one-segment argument selects the tests whose suite *)
(* or test name it equals.                                                *)
SelectionFollowsSpec ==
  Listed /\ args # <<>> => IsSortedListOf(testNames, SpecSelected(available, args))

(* A binary whose listing fails aborts the run before any test is run:    *)
(* no partial catalog is ever executed.                                   *)
NoPartialCatalogRun ==
  runnerBound => \A b \in DOMAIN Binaries : outputs[b] # NoOutput

(* Spec 4.4: a run that reached its summary succeeds iff every selected   *)
(* test has a Passed or Disabled result; a test skipped by an interrupt   *)
(* or one that failed, crashed or timed out fails it.                     *)
SuccessIffAllAccounted ==
  pc = "done" /\ runnerBound =>
    (status = SUCCESS <=>
       \A i \in DOMAIN testNames : results[testNames[i]] \in {"Passed", "Disabled"})

(* Spec 6: a platform that cannot provide an execution target makes run() *)
(* return a status, it does not raise.                                    *)
EnvironmentFailureReturnsStatus == pc = "raised" => exc # "RuntimeError"

(* Spec 7: a Ctrl-C during execution is not an error; run() summarizes    *)
(* the partial results and returns a status.                              *)
InterruptDuringExecutionReturnsStatus ==
  pc = "raised" => deliveredAt \notin {"construct_runner", "running"}

=============================================================================
