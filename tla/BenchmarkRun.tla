---------------------------- MODULE BenchmarkRun ----------------------------
(***************************************************************************)
(* BenchmarkRunner.execute and _run_benchmark of                           *)
(* webkitpy/benchmark_runner/benchmark_runner.py: inside the benchmark     *)
(* builder's 'with', run the plan 'count' times; each iteration starts    *)
(* the HTTP server, prepares the browser's environment, opens the URL and,*)
(* under the plan's timeout, fetches one JSON result; a 'finally' restores*)
(* the environment, closes the browsers and kills the server.  The        *)
(* results are then merged (_wrap/_merge), dumped and shown.              *)
(*                                                                         *)
(* Every call to a driver may raise; the cfg names the calls that may.    *)
(* A Python exception raised in the 'finally' replaces the pending one    *)
(* and skips the rest of the block.                                       *)
(*                                                                         *)
(* A JSON value is a record [t, v, d]: t its type; v the numbers of a     *)
(* number ("num", one element) or a list ("nums", "strs"; strings are     *)
(* small integers); d the members of a dict ("dict").                     *)
(***************************************************************************)
EXTENDS Integers, Sequences, FiniteSets
LOCAL INSTANCE SequencesExt

CONSTANTS
  Count,          \* int(self._plan['count'])
  Shapes,         \* the JSON results an iteration may fetch
  FailingCalls    \* the driver calls that may raise

NoDict == [k \in {} |-> 0]
Num(n) == [t |-> "num", v |-> <<n>>, d |-> NoDict]
Nums(s) == [t |-> "nums", v |-> s, d |-> NoDict]
Strs(s) == [t |-> "strs", v |-> s, d |-> NoDict]
Dict(f) == [t |-> "dict", v |-> <<>>, d |-> f]
(* A failed assert(isinstance(a, type(b))). *)
Fail == [t |-> "fail", v |-> <<>>, d |-> NoDict]

(***************************************************************************)
(* _merge(a, b), lines 111-129.                                            *)
(***************************************************************************)
(* A dict whose member failed to merge fails too. *)
DictOf(f) == IF \E k \in DOMAIN f : f[k].t = "fail" THEN Fail ELSE Dict(f)

(* Fault variant: the keys only b has are not copied (lines 124-126). *)
RECURSIVE MergeDroppingNewKeys(_, _)
MergeDroppingNewKeys(a, b) ==
  CASE a.t # b.t                    -> Fail
    [] a.t = "strs" /\ Len(a.v) > 0 -> a
    [] a.t = "dict" ->
         DictOf([k \in DOMAIN a.d |->
                   IF k \in DOMAIN b.d THEN MergeDroppingNewKeys(a.d[k], b.d[k])
                   ELSE a.d[k]])
    [] a.t = "num"                  -> Num(a.v[1] + b.v[1])
    [] OTHER                        -> [a EXCEPT !.v = a.v \o b.v]

RECURSIVE Merge(_, _)
Merge(a, b) ==
  CASE a.t # b.t                    -> Fail
    [] a.t = "strs" /\ Len(a.v) > 0 -> a
    [] a.t = "dict" ->   \* members merged where both dicts have the key
         DictOf([k \in DOMAIN a.d \cup DOMAIN b.d |->
                   IF k \in DOMAIN a.d /\ k \in DOMAIN b.d THEN Merge(a.d[k], b.d[k])
                   ELSE IF k \in DOMAIN a.d THEN a.d[k] ELSE b.d[k]])
    [] a.t = "num"                  -> Num(a.v[1] + b.v[1])
    [] OTHER                        -> [a EXCEPT !.v = a.v \o b.v]

(* _wrap(dicts), lines 100-108: None for no result, else merge into {}. *)
NoResults == [t |-> "none", v |-> <<>>, d |-> NoDict]
Wrap(dicts) ==
  IF dicts = <<>> THEN NoResults
  ELSE FoldLeft(LAMBDA ret, dic : IF ret.t = "fail" THEN Fail ELSE Merge(ret, dic),
                Dict(NoDict), dicts)

(* The numbers a value holds, summed: what merging must conserve. *)
RECURSIVE Total(_)
Total(x) ==
  CASE x.t \in {"num", "nums"} -> FoldSeq(+, 0, x.v)
    [] x.t = "dict"            -> FoldFunction(LAMBDA y, acc : Total(y) + acc, 0, x.d)
    [] OTHER                   -> 0

-----------------------------------------------------------------------------
VARIABLES
  pc,         \* the call execute() is about to make
  iter,       \* the loop variable 'iteration'
  results,    \* the list 'results'
  server,     \* the HTTP server: "up" or "down"
  browser,    \* the browser: "open" or "closed"
  env,        \* the browser's environment: "prepared" or "clean"
  webRoot,    \* the benchmark builder's web root: "present" or "absent"
  exc,        \* the exception propagating, or "none"
  merged,     \* the value _wrap returned
  dumped      \* the output file was written

vars == <<pc, iter, results, server, browser, env, webRoot, exc, merged, dumped>>

Init ==
  /\ pc = "build" /\ iter = 1 /\ results = <<>>
  /\ server = "down" /\ browser = "closed" /\ env = "clean"
  /\ webRoot = "absent" /\ exc = "none" /\ merged = NoResults /\ dumped = FALSE

(* The call c either has its effect and execution goes to ok, or raises   *)
(* and execution goes to the 'finally'.                                   *)
TryCall(c, effect, ok) ==
  /\ pc = c
  /\ \/ effect /\ pc' = ok /\ UNCHANGED exc
     \/ c \in FailingCalls /\ exc' = c /\ pc' = "restore_env"
          /\ UNCHANGED <<server, browser, env>>

(* execute(): BenchmarkBuilder(...).__enter__ builds the web root. *)
EnterBuilder ==
  /\ pc = "build"
  /\ \/ webRoot' = "present" /\ pc' = "iteration" /\ UNCHANGED exc
     \/ "build" \in FailingCalls /\ exc' = "build" /\ pc' = "raised"
          /\ UNCHANGED webRoot
  /\ UNCHANGED <<iter, results, server, browser, env, merged, dumped>>

(* Fault variant: xrange(1, count) runs one iteration too few. *)
IterationStartOffByOne ==
  /\ pc = "iteration"
  /\ pc' = IF iter < Count THEN "serve" ELSE "wrap"
  /\ UNCHANGED <<iter, results, server, browser, env, webRoot, exc, merged, dumped>>

(* Fault variant: xrange(1, count + 2) runs one iteration too many. *)
IterationStartOverrun ==
  /\ pc = "iteration"
  /\ pc' = IF iter <= Count + 1 THEN "serve" ELSE "wrap"
  /\ UNCHANGED <<iter, results, server, browser, env, webRoot, exc, merged, dumped>>

(* for iteration in xrange(1, count + 1) *)
IterationStart ==
  /\ pc = "iteration"
  /\ pc' = IF iter <= Count THEN "serve" ELSE "wrap"
  /\ UNCHANGED <<iter, results, server, browser, env, webRoot, exc, merged, dumped>>

Serve == TryCall("serve", server' = "up" /\ UNCHANGED <<browser, env>>, "prepare_env")
         /\ UNCHANGED <<iter, results, webRoot, merged, dumped>>
PrepareEnv == TryCall("prepare_env", env' = "prepared" /\ UNCHANGED <<server, browser>>,
                      "launch_url")
              /\ UNCHANGED <<iter, results, webRoot, merged, dumped>>
LaunchUrl == TryCall("launch_url", browser' = "open" /\ UNCHANGED <<server, env>>, "fetch")
             /\ UNCHANGED <<iter, results, webRoot, merged, dumped>>

(* Lines 71-75, under timeout(plan['timeout']): the fetch may time out,   *)
(* the server may report an error code, the result may be empty or not   *)
(* be JSON; otherwise the parsed result is appended.                       *)
FetchResult ==
  /\ pc = "fetch"
  /\ pc' = "restore_env"
  /\ \/ \E r \in Shapes : results' = Append(results, r) /\ UNCHANGED exc
     \/ \E e \in {"Timeout", "AssertionError", "ValueError"} :
          exc' = e /\ UNCHANGED results
  /\ UNCHANGED <<iter, server, browser, env, webRoot, merged, dumped>>

(* A call of the 'finally': an exception it raises replaces the pending   *)
(* one and leaves the rest of the block undone.                           *)
Cleanup(c, effect, ok) ==
  /\ pc = c
  /\ \/ effect /\ pc' = ok /\ UNCHANGED exc
     \/ c \in FailingCalls /\ exc' = c /\ pc' = "exit_builder"
          /\ UNCHANGED <<server, browser, env>>
  /\ UNCHANGED <<iter, results, webRoot, merged, dumped>>

RestoreEnv == Cleanup("restore_env", env' = "clean" /\ UNCHANGED <<server, browser>>,
                      "close_browsers")
CloseBrowsers == Cleanup("close_browsers", browser' = "closed" /\ UNCHANGED <<server, env>>,
                         "kill_server")

(* Fault variant: the server is not killed. *)
KillServerForgetting ==
  /\ Cleanup("kill_server", UNCHANGED <<server, browser, env>>, "end_iteration")

KillServer == Cleanup("kill_server", server' = "down" /\ UNCHANGED <<browser, env>>,
                      "end_iteration")

(* After the 'finally': the pending exception propagates, or the loop     *)
(* goes on with the next iteration.                                       *)
EndIteration ==
  /\ pc = "end_iteration"
  /\ IF exc = "none" THEN pc' = "iteration" /\ iter' = iter + 1
     ELSE pc' = "exit_builder" /\ UNCHANGED iter
  /\ UNCHANGED <<results, server, browser, env, webRoot, exc, merged, dumped>>

(* Line 81: results = self._wrap(results); a failed assert raises. *)
WrapResults ==
  /\ pc = "wrap"
  /\ merged' = Wrap(results)
  /\ IF merged'.t = "fail" THEN exc' = "AssertionError" /\ pc' = "exit_builder"
     ELSE pc' = "dump" /\ UNCHANGED exc
  /\ UNCHANGED <<iter, results, server, browser, env, webRoot, dumped>>

(* Lines 82, 89-97: the IOError of open() is caught; the log message at   *)
(* line 97 passes the results positionally to a named field '{result}',   *)
(* which raises KeyError.                                                 *)
Dump ==
  /\ pc = "dump"
  /\ \/ dumped' = TRUE /\ pc' = "show" /\ UNCHANGED exc
     \/ "dump" \in FailingCalls /\ exc' = "KeyError" /\ pc' = "exit_builder"
          /\ UNCHANGED dumped
  /\ UNCHANGED <<iter, results, server, browser, env, webRoot, merged>>

(* Line 83: _show_results prints the formatted results. *)
ShowResults ==
  /\ pc = "show" /\ pc' = "exit_builder"
  /\ UNCHANGED <<iter, results, server, browser, env, webRoot, exc, merged, dumped>>

(* The builder's __exit__ removes the web root; the exception, if any,    *)
(* leaves execute().                                                      *)
ExitBuilder ==
  /\ pc = "exit_builder"
  /\ webRoot' = "absent"
  /\ pc' = IF exc = "none" THEN "done" ELSE "raised"
  /\ UNCHANGED <<iter, results, server, browser, env, exc, merged, dumped>>

Next ==
  \/ EnterBuilder \/ IterationStart \/ Serve \/ PrepareEnv \/ LaunchUrl
  \/ FetchResult \/ RestoreEnv \/ CloseBrowsers \/ KillServer \/ EndIteration
  \/ WrapResults \/ Dump \/ ShowResults \/ ExitBuilder

Spec == Init /\ [][Next]_vars /\ WF_vars(Next)
=============================================================================
