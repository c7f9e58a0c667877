--------------------------- MODULE ApiTestCatalog ---------------------------
(***************************************************************************)
(* The pure algorithms of webkitpy/api_tests/manager.py:                   *)
(*   Manager._test_list_from_output  (gtest --gtest_list_tests parser)     *)
(*   Manager._find_test_subset       (command-line pattern selector)       *)
(*   the sort at the end of Manager._collect_tests                         *)
(* and declarative reference definitions they are checked against.        *)
(*                                                                         *)
(* Data abstraction.  A test identifier '<binary>.<suite>.<test>' is the   *)
(* triple <<stem, suite, test>> of its dot-separated segments; names are   *)
(* small integers so that the lexicographic sort of the code can be        *)
(* evaluated.  A raw output line is a record whose kind says which branch *)
(* of the parser it takes:                                                 *)
(*   "blank"  : empty after strip                       (skipped)          *)
(*   "header" : 'Suite.'            ends with a period  (sets the suite)   *)
(*   "test"   : '  Test'            no space inside     (a test name)      *)
(*   "param"  : '  Test/0  # GetParam() = 1'  has a space (skipped)        *)
(*   "typed"  : 'Suite/0.  # TypeParam = int' a gtest typed-suite header:  *)
(*              it has a space and does not end with a period (skipped)    *)
(* Names never contain a period, so splitting on '.' yields the segments.  *)
(***************************************************************************)
EXTENDS Integers, Sequences, FiniteSets, TLC
LOCAL INSTANCE SequencesExt

CONSTANTS
  Suites,      \* suite names that appear in the listing
  Tests,       \* test names that appear in the listing
  NoSuite      \* the suite before any header: Python's None

ASSUME NoSuite \in Int /\ NoSuite \notin Suites

LineKinds == {"blank", "header", "test", "param", "typed"}

(* One line of gtest --gtest_list_tests output. *)
Line(k, n) == [kind |-> k, name |-> n]

Id(stem, suite, test) == <<stem, suite, test>>

(***************************************************************************)
(* Manager._test_list_from_output(output, prefix): scan the lines keeping  *)
(* current_test_suite; a header sets it, a space-free non-header line is   *)
(* namespaced with the current suite and appended unless already present. *)
(***************************************************************************)
(* Fault variants of the parser. *)
(* The suite keeps its trailing period ('Suite.' rather than 'Suite'). *)
WithPeriod(n) == 100 + n
RECURSIVE ParseFromKeepingPeriod(_, _, _, _, _)
ParseFromKeepingPeriod(output, i, stem, suite, result) ==
  IF i > Len(output) THEN result
  ELSE LET l == output[i] IN
    CASE l.kind = "header" ->
           ParseFromKeepingPeriod(output, i + 1, stem, WithPeriod(l.name), result)
      [] l.kind = "test"   ->
           LET val == Id(stem, suite, l.name) IN
           ParseFromKeepingPeriod(output, i + 1, stem, suite,
                     IF Contains(result, val) THEN result ELSE Append(result, val))
      [] OTHER             -> ParseFromKeepingPeriod(output, i + 1, stem, suite, result)

(* The 'val not in result' check is missing. *)
RECURSIVE ParseFromNoDedup(_, _, _, _, _)
ParseFromNoDedup(output, i, stem, suite, result) ==
  IF i > Len(output) THEN result
  ELSE LET l == output[i] IN
    CASE l.kind = "header" -> ParseFromNoDedup(output, i + 1, stem, l.name, result)
      [] l.kind = "test"   ->
           ParseFromNoDedup(output, i + 1, stem, suite,
                            Append(result, Id(stem, suite, l.name)))
      [] OTHER             -> ParseFromNoDedup(output, i + 1, stem, suite, result)

RECURSIVE ParseFrom(_, _, _, _, _)
ParseFrom(output, i, stem, suite, result) ==
  IF i > Len(output) THEN result
  ELSE LET l == output[i] IN
    CASE l.kind = "blank"  -> ParseFrom(output, i + 1, stem, suite, result)
      [] l.kind = "header" -> ParseFrom(output, i + 1, stem, l.name, result)
      [] l.kind = "test"   ->
           LET val == Id(stem, suite, l.name) IN
           ParseFrom(output, i + 1, stem, suite,
                     IF Contains(result, val) THEN result ELSE Append(result, val))
      [] OTHER             -> ParseFrom(output, i + 1, stem, suite, result)

TestListFromOutput(output, stem) == ParseFrom(output, 1, stem, NoSuite, <<>>)

(***************************************************************************)
(* Manager._find_test_subset(superset, arg_filter): for each argument in   *)
(* order, scan the superset in order; a 1-segment argument matches the     *)
(* first or second segment of the test, a 2-segment one the first or the   *)
(* last two segments, any other the whole name.                            *)
(***************************************************************************)
ArgMatches(arg, test) ==
  CASE Len(arg) = 1 -> arg[1] = test[1] \/ arg[1] = test[2]
    [] Len(arg) = 2 -> arg = SubSeq(test, 1, 2) \/ arg = SubSeq(test, 2, 3)
    [] OTHER        -> arg = test

(* Fault variant: the 'test not in result' check is missing. *)
RECURSIVE ScanSupersetNoDedup(_, _, _, _)
ScanSupersetNoDedup(superset, arg, j, result) ==
  IF j > Len(superset) THEN result
  ELSE LET test == superset[j] IN
    ScanSupersetNoDedup(superset, arg, j + 1,
                        IF ArgMatches(arg, test) THEN Append(result, test) ELSE result)

RECURSIVE ScanSuperset(_, _, _, _)
ScanSuperset(superset, arg, j, result) ==
  IF j > Len(superset) THEN result
  ELSE LET test == superset[j] IN
    ScanSuperset(superset, arg, j + 1,
                 IF ~Contains(result, test) /\ ArgMatches(arg, test)
                 THEN Append(result, test) ELSE result)

FindTestSubset(superset, argFilter) ==
  FoldLeft(LAMBDA result, arg : ScanSuperset(superset, arg, 1, result),
           <<>>, argFilter)

(* Python's sort of '<binary>.<suite>.<test>' strings, per segment. *)
IdLess(a, b) ==
  \/ a[1] < b[1]
  \/ a[1] = b[1] /\ a[2] < b[2]
  \/ a[1] = b[1] /\ a[2] = b[2] /\ a[3] < b[3]

(* The value Manager._collect_tests returns once every listing succeeded. *)
SelectTests(available, args) ==
  IF args = <<>> THEN SortSeq(available, IdLess)
  ELSE SortSeq(FindTestSubset(available, args), IdLess)

-----------------------------------------------------------------------------
(***************************************************************************)
(* Reference definitions.                                                  *)
(***************************************************************************)

(* gtest's grouping: a test line belongs to the nearest header above it,   *)
(* a typed-suite header included; NoSuite when no header precedes it.      *)
HeaderAbove(output, i) ==
  LET hs == {j \in 1..(i - 1) : output[j].kind \in {"header", "typed"}}
  IN IF hs = {} THEN NoSuite ELSE output[Max(hs)].name

GtestTests(output, stem) ==
  { Id(stem, HeaderAbove(output, i), output[i].name) :
      i \in {j \in DOMAIN output : output[j].kind = "test"} }

(* The set the selector should return, per the code's own matching. *)
SelectedRef(available, args) ==
  IF args = <<>> THEN ToSet(available)
  ELSE {t \in ToSet(available) : \E a \in ToSet(args) : ArgMatches(a, t)}

(* Spec section 4.2: a single segment names the suite or the test. *)
SpecArgMatches(arg, test) ==
  CASE Len(arg) = 1 -> arg[1] = test[2] \/ arg[1] = test[3]
    [] Len(arg) = 2 -> arg = SubSeq(test, 1, 2) \/ arg = SubSeq(test, 2, 3)
    [] OTHER        -> arg = test

SpecSelected(available, args) ==
  IF args = <<>> THEN ToSet(available)
  ELSE {t \in ToSet(available) : \E a \in ToSet(args) : SpecArgMatches(a, t)}

(* A sorted sequence with no duplicates holding exactly the set S. *)
IsSortedListOf(s, S) == IsSorted(s, IdLess) /\ ToSet(s) = S
=============================================================================
