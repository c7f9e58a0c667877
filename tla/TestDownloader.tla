--------------------------- MODULE TestDownloader ---------------------------
(***************************************************************************)
(* TestDownloader.download_tests of webkitpy/w3c/test_downloader.py: for   *)
(* each test repository, checkout_test_repository (clone, or fetch when   *)
(* asked, then check out the pinned revision); then copy_tests: empty the *)
(* destination directory of each repository, build the list of copies     *)
(* (the given test paths, or every top-level entry of each repository's   *)
(* tests directory that is not hidden or skipped, then the paths to       *)
(* import), copy them, and finally delete every path to skip.             *)
(*                                                                         *)
(* A path is a sequence of names whose first is the repository's name.   *)
(* The source tree is the set of files of the checkout (a directory is a  *)
(* strict prefix of a file).  The destination is a set of entries        *)
(* [at, src, rev]: a file at path 'at' copied from the source file 'src'  *)
(* of revision 'rev'.                                                      *)
(***************************************************************************)
EXTENDS Integers, Sequences, FiniteSets
LOCAL INSTANCE SequencesExt

CONSTANTS
  Repos,          \* test_repositories, in order: their names
  Revision,       \* name -> the revision the repository is pinned to
  Upstream,       \* the revisions the remote repository has
  Tip,            \* the revision a fresh clone has checked out
  TestsDir,       \* name -> its 'tests_directory' ('' is <<>>)
  Files,          \* the files of every checkout, as paths
  LocalChoices,   \* the states the repository directory may be found in
  DestChoices,    \* the destinations left by an earlier import
  SkipChoices,    \* values of paths_to_skip
  ImportChoices,  \* values of paths_to_import (sequences)
  TestPathChoices \* values of the test_paths argument (sequences)

(* The checkout of a repository: absent, or present with the revisions it *)
(* knows and the one checked out.                                         *)
Absent == [exists |-> FALSE, knows |-> {}, head |-> "none"]

(***************************************************************************)
(* The file system.                                                        *)
(***************************************************************************)
SrcExists(p) == \E f \in Files : IsPrefix(p, f)
SrcIsDir(p) == \E f \in Files : IsPrefix(p, f) /\ f # p
ListDir(p) == {f[Len(p) + 1] : f \in {g \in Files : IsPrefix(p, g) /\ g # p}}
DestExists(D, p) == \E e \in D : IsPrefix(p, e.at)
Hidden(name) == name \in {".h", ".git"}

(* The entries at or under p removed: os.remove, or rmtree. *)
RemoveTree(D, p) == {e \in D : ~IsPrefix(p, e.at)}

(* _empty_directory(destination/name), lines 114-117. *)
EmptyDirectory(D, r) == RemoveTree(D, <<r>>)

(* Copying of one pair, lines 139-147; st is [d |-> entries, err |-> BOOLEAN]. *)
(* copytree refuses an existing destination (OSError).                     *)
(* Fault variant: a directory is copied without its contents.              *)
CopyPairShallow(st, pair, head) ==
  LET src == pair[1] dst == pair[2] rev == head[src[1]] IN
  IF st.err \/ ~SrcExists(src) THEN st
  ELSE [st EXCEPT !.d = {e \in @ : e.at # dst} \cup {[at |-> dst, src |-> src, rev |-> rev]}]

CopyPair(st, pair, head) ==
  LET src == pair[1] dst == pair[2] rev == head[src[1]] IN
  CASE st.err \/ ~SrcExists(src) -> st
    [] SrcIsDir(src) /\ DestExists(st.d, dst) -> [st EXCEPT !.err = TRUE]
    [] SrcIsDir(src) ->
         [st EXCEPT !.d = @ \cup
            {[at |-> dst \o SubSeq(f, Len(src) + 1, Len(f)), src |-> f, rev |-> rev] :
               f \in {g \in Files : IsPrefix(src, g)}}]
    [] OTHER -> [st EXCEPT !.d = {e \in @ : e.at # dst} \cup
                                  {[at |-> dst, src |-> src, rev |-> rev]}]

(* _add_test_suite_paths, lines 107-112: the pairs for one repository.    *)
SuitePairs(r, skip) ==
  LET td == <<r>> \o TestsDir[r] IN
  { <<td \o <<n>>, <<r, n>>>> : n \in {m \in ListDir(td) : ~Hidden(m) /\ td \o <<m>> \notin skip} }

(* Lines 123-136: the list of copies. *)
CopyPaths(testPaths, skip, imports) ==
  IF testPaths # <<>>
  THEN [i \in DOMAIN testPaths |-> <<testPaths[i], testPaths[i]>>] \o
       [i \in DOMAIN imports |-> <<imports[i], imports[i]>>]
  ELSE LET suite == FoldSeq(LAMBDA r, acc : acc \o SetToSeq(SuitePairs(r, skip)), <<>>, Repos)
       IN FoldLeft(LAMBDA cp, p : IF <<p, p>> \in ToSet(cp) THEN cp ELSE Append(cp, <<p, p>>),
                   suite, imports)

(* Lines 149-154: every path to skip is deleted from the destination. *)
RemoveSkipped(D, skip) == {e \in D : \A s \in skip : ~IsPrefix(s, e.at)}

(* Fault variant: the destination directories are not emptied. *)
CopyTestsWithoutEmptying(D, testPaths, skip, imports, head) ==
  LET st == FoldLeft(LAMBDA s, pair : CopyPair(s, pair, head),
                     [d |-> D, err |-> FALSE], CopyPaths(testPaths, skip, imports))
  IN IF st.err THEN st ELSE [st EXCEPT !.d = RemoveSkipped(@, skip)]

(* copy_tests, lines 119-154: the destination, and err when an OSError  *)
(* interrupted the copies.                                                *)
CopyTests(D, testPaths, skip, imports, head) ==
  LET emptied == FoldSeq(LAMBDA r, d : EmptyDirectory(d, r), D, Repos)
      st == FoldLeft(LAMBDA s, pair : CopyPair(s, pair, head),
                     [d |-> emptied, err |-> FALSE], CopyPaths(testPaths, skip, imports))
  IN IF st.err THEN st ELSE [st EXCEPT !.d = RemoveSkipped(@, skip)]

-----------------------------------------------------------------------------
VARIABLES
  pc,          \* "checkout", "copy", "done" or "raised"
  ri,          \* the index of the repository being checked out
  local,       \* name -> the state of its checkout
  dest,        \* the destination's entries
  fetch,       \* options.fetch
  skip,        \* paths_to_skip
  imports,     \* paths_to_import
  testPaths,   \* the test_paths argument
  exc          \* the exception download_tests raised

vars == <<pc, ri, local, dest, fetch, skip, imports, testPaths, exc>>

Init ==
  /\ pc = "checkout" /\ ri = 1 /\ exc = "none"
  /\ local \in [ToSet(Repos) -> LocalChoices]
  /\ dest \in DestChoices
  /\ fetch \in BOOLEAN
  /\ skip \in SkipChoices /\ imports \in ImportChoices /\ testPaths \in TestPathChoices

(* The checkout after the clone or the fetch of lines 84-89. *)
Fetched(d) ==
  IF ~d.exists THEN [exists |-> TRUE, knows |-> Upstream, head |-> Tip]
  ELSE IF fetch THEN [d EXCEPT !.knows = Upstream] ELSE d

(* Fault variant: 'checkout' is run only after a fetch. *)
CheckoutOnlyAfterFetch ==
  /\ pc = "checkout" /\ ri <= Len(Repos)
  /\ LET r == Repos[ri] d == Fetched(local[r]) IN
     IF local[r].exists /\ ~fetch
     THEN local' = local /\ ri' = ri + 1 /\ UNCHANGED <<pc, exc>>
     ELSE IF Revision[r] \in d.knows
     THEN local' = [local EXCEPT ![r] = [d EXCEPT !.head = Revision[r]]]
          /\ ri' = ri + 1 /\ UNCHANGED <<pc, exc>>
     ELSE local' = [local EXCEPT ![r] = d] /\ pc' = "raised" /\ exc' = "ScriptError"
          /\ UNCHANGED ri
  /\ UNCHANGED <<dest, fetch, skip, imports, testPaths>>

(* checkout_test_repository, lines 82-94: 'git checkout <revision>' fails *)
(* (ScriptError) when the checkout does not know the revision.            *)
CheckoutTestRepository ==
  /\ pc = "checkout" /\ ri <= Len(Repos)
  /\ LET r == Repos[ri] d == Fetched(local[r]) IN
     IF Revision[r] \in d.knows
     THEN local' = [local EXCEPT ![r] = [d EXCEPT !.head = Revision[r]]]
          /\ ri' = ri + 1 /\ UNCHANGED <<pc, exc>>
     ELSE local' = [local EXCEPT ![r] = d] /\ pc' = "raised" /\ exc' = "ScriptError"
          /\ UNCHANGED ri
  /\ UNCHANGED <<dest, fetch, skip, imports, testPaths>>

(* Line 198: every repository is checked out; copy_tests runs. *)
DownloadCopy ==
  /\ pc = "checkout" /\ ri > Len(Repos)
  /\ LET st == CopyTests(dest, testPaths, skip, imports, [r \in ToSet(Repos) |-> local[r].head])
     IN /\ dest' = st.d
        /\ IF st.err THEN pc' = "raised" /\ exc' = "OSError"
           ELSE pc' = "done" /\ UNCHANGED exc
  /\ UNCHANGED <<ri, local, fetch, skip, imports, testPaths>>

Next == CheckoutTestRepository \/ DownloadCopy

Spec == Init /\ [][Next]_vars
=============================================================================
