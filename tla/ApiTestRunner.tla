---------------------------- MODULE ApiTestRunner ----------------------------
(***************************************************************************)
(* webkitpy.api_tests.runner.Runner.run(test_names, child_processes), as   *)
(* spec sections 4.3 and 5 describe it (runner.py is not among the         *)
(* sources): the selected sequence is pre-partitioned into disjoint        *)
(* slices, one per worker; each worker runs its slice in order, one test   *)
(* at a time; the outcome of the in-flight test (a worker crash is         *)
(* Crashed, an overrun Timeout) is merged into the single result map when  *)
(* the test completes; the interruption is observed by the dispatch loop   *)
(* between tests and in-flight tests still finish.                         *)
(***************************************************************************)
EXTENDS Integers, Sequences, FiniteSets
LOCAL INSTANCE SequencesExt

CONSTANTS
  Ids,          \* every test identifier the model can name
  Outcomes,     \* Passed, Failed, Crashed, Timeout, Disabled
  NoResult,     \* absent from runner.results
  None,         \* a worker with no test in flight
  MaxWorkers    \* the largest child_processes value considered

ASSUME MaxWorkers \in Nat \ {0} /\ NoResult \notin Outcomes /\ None \notin Ids

Workers == 1..MaxWorkers

VARIABLES
  names,        \* test_names, the sequence run() was given
  queue,        \* worker -> the part of its slice not yet dispatched
  inflight,     \* worker -> the test it is running, or None
  results,      \* runner.results: identifier -> outcome, or NoResult
  stopping      \* the KeyboardInterrupt has reached the dispatch loop

runnerVars == <<names, queue, inflight, results, stopping>>

(* The tests at the positions P of s, in their order in s. *)
Positions(s, P) == LET idx == SetToSortSeq(P, <) IN [k \in DOMAIN idx |-> s[idx[k]]]

(* Every way of splitting ns into disjoint slices for workers 1..n. *)
Partitions(ns, n) ==
  { [w \in Workers |-> Positions(ns, {i \in DOMAIN ns : owner[i] = w})] :
      owner \in [DOMAIN ns -> 1..n] }

(* The same, as the step of a caller that invokes run(ns, n). *)
RunnerStart(ns, n) ==
  /\ names' = ns
  /\ queue' \in Partitions(ns, n)
  /\ inflight' = [w \in Workers |-> None]
  /\ results' = [t \in Ids |-> NoResult]
  /\ stopping' = FALSE

(* A free worker takes the next test of its slice. *)
Dispatch(w) ==
  /\ ~stopping
  /\ inflight[w] = None
  /\ queue[w] # <<>>
  /\ inflight' = [inflight EXCEPT ![w] = Head(queue[w])]
  /\ queue' = [queue EXCEPT ![w] = Tail(@)]
  /\ UNCHANGED <<names, results, stopping>>

(* The in-flight test ends with outcome o, merged into the result map. *)
Complete(w, o) ==
  /\ inflight[w] # None
  /\ results' = [results EXCEPT ![inflight[w]] = o]
  /\ inflight' = [inflight EXCEPT ![w] = None]
  /\ UNCHANGED <<names, queue, stopping>>

(* The interruption is observed: no further dispatch. *)
StopDispatch ==
  /\ ~stopping
  /\ stopping' = TRUE
  /\ UNCHANGED <<names, queue, inflight, results>>

(* run() returns: nothing in flight and nothing left it may dispatch. *)
RunnerDone ==
  \A w \in Workers : inflight[w] = None /\ (stopping \/ queue[w] = <<>>)

RunnerStep ==
  \/ \E w \in Workers : Dispatch(w)
  \/ \E w \in Workers, o \in Outcomes : Complete(w, o)

=============================================================================
