--------------------------- MODULE MC_BenchmarkRun ---------------------------
(***************************************************************************)
(* Two iterations; results shaped like the benchmark's JSON: dicts of      *)
(* numbers, lists of numbers, lists of strings (unit names) and nested     *)
(* dicts, two of which disagree on a member's type.                        *)
(***************************************************************************)
EXTENDS BenchmarkRun
LOCAL INSTANCE SequencesExt

MCShapes ==
  { Dict("a" :> Num(1)),
    Dict("a" :> Nums(<<2>>) @@ "b" :> Strs(<<5>>)),
    Dict("b" :> Strs(<<>>) @@ "c" :> Dict("a" :> Num(3))),
    Dict("b" :> Strs(<<6>>) @@ "c" :> Dict("a" :> Num(1) @@ "b" :> Nums(<<1>>))),
    Dict("a" :> Nums(<<1>>)) }

(* Driver calls of the try block may fail; the cleanup calls do not. *)
TryFailures == {"build", "serve", "prepare_env", "launch_url"}
(* Any call may fail. *)
AllFailures == TryFailures \cup {"restore_env", "close_browsers", "kill_server", "dump"}

-----------------------------------------------------------------------------
TypeOK ==
  /\ iter \in 1..(Count + 1)
  /\ results \in Seq(Shapes)
  /\ server \in {"up", "down"} /\ browser \in {"open", "closed"}
  /\ env \in {"prepared", "clean"} /\ webRoot \in {"present", "absent"}
  /\ dumped \in BOOLEAN

(* Every iteration starts on a clean machine: the previous iteration's    *)
(* 'finally' has restored the environment, closed the browser and killed *)
(* the server, whatever the previous iteration did.                       *)
CleanIterationStart ==
  pc = "serve" => server = "down" /\ browser = "closed" /\ env = "clean"

(* When execute() ends, normally or by an exception, no server or browser *)
(* it started is left running, the environment is restored and the web    *)
(* root removed.                                                          *)
NothingLeftRunning ==
  pc \in {"done", "raised"} =>
    server = "down" /\ browser = "closed" /\ env = "clean" /\ webRoot = "absent"

(* execute() returns normally only after all 'count' iterations produced  *)
(* a result and the merged results were written.                          *)
DoneMeansAllIterations == pc = "done" => Len(results) = Count /\ dumped

(* _wrap/_merge lose no measurement: the numbers of the merged result sum *)
(* to the numbers of all iterations, dict members present in one          *)
(* iteration only included.                                               *)
MergeConservesSamples ==
  pc \in {"dump", "show"} => Total(merged) = FoldSeq(LAMBDA r, acc : Total(r) + acc, 0, results)

(* _dump: a failure to open the output file is logged with the results    *)
(* and the run goes on to show them (lines 95-97).                        *)
DumpFailureIsLogged == pc = "raised" => exc # "KeyError"
=============================================================================
