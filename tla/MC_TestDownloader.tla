-------------------------- MODULE MC_TestDownloader --------------------------
(***************************************************************************)
(* One repository, 'wpt', pinned to revision "new"; its checkout may be    *)
(* absent, or an older clone that does or does not know "new".  The tree  *)
(* has a directory with a file and a subdirectory, a top-level file and a *)
(* hidden file.  An earlier import may have left a stale file.            *)
(***************************************************************************)
EXTENDS TestDownloader
LOCAL INSTANCE SequencesExt

W == "wpt"
MCRepos == <<W>>
MCRevision == W :> "new"
MCUpstream == {"old", "new", "tip"}
NoTestsDir == W :> <<>>
SubTestsDir == W :> <<"t">>

MCFiles == {<<W, "a", "x">>, <<W, "a", "s", "z">>, <<W, "b">>, <<W, ".h">>}
(* The same tree under a tests_directory 't', and a file outside it. *)
MCFilesT == {<<W, "t", "a", "x">>, <<W, "t", "a", "s", "z">>, <<W, "t", "b">>, <<W, "c">>}

MCLocal == {Absent,
            [exists |-> TRUE, knows |-> {"old"}, head |-> "old"],
            [exists |-> TRUE, knows |-> {"old", "new"}, head |-> "old"]}
MCDest == {{}, {[at |-> <<W, "gone">>, src |-> <<W, "gone">>, rev |-> "old"]}}

MCSkip == SUBSET {<<W, "a">>, <<W, "a", "s">>, <<W, "b">>}
MCImports == {<<>>, <<<<W, "a", "x">>>>, <<<<W, "a", "s">>>>}
MCTestPaths == {<<>>, <<<<W, "a">>>>, <<<<W, "b">>>>}

SkipT == {{<<W, "t", "a", "s">>}}
ImportsT == {<<>>}
TestPathsT == {<<>>}

-----------------------------------------------------------------------------
TypeOK ==
  /\ pc \in {"checkout", "done", "raised"}
  /\ ri \in 1..(Len(Repos) + 1)
  /\ \A e \in dest : e.src \in Files \/ e.rev = "old"
  /\ \A e \in dest : e.rev \in Upstream

(* The files of the destination all come from the pinned revision: the    *)
(* checkout is at the revision whether it was cloned, fetched or neither, *)
(* and nothing of an earlier import survives.                             *)
NoStaleFiles == pc = "done" => \A e \in dest : e.rev = Revision[e.at[1]]

(* Without test paths, every file under a top-level entry of the tests    *)
(* directory that is neither hidden nor at or under a path to skip is     *)
(* copied.                                                                *)
FullImportComplete ==
  pc = "done" /\ testPaths = <<>> =>
    \A r \in ToSet(Repos), f \in Files :
      LET td == <<r>> \o TestsDir[r] IN
      /\ IsPrefix(td, f) /\ Len(f) > Len(td) /\ ~Hidden(f[Len(td) + 1])
      /\ \A s \in skip : ~IsPrefix(s, f)
      => \E e \in dest : e.src = f

(* Line 133, "Handling of tests marked as [ Pass ] in expectations file", *)
(* and test_importer_unittest.test_skip_test_import: a path to import is  *)
(* copied even when it lies under a skipped directory.                    *)
ImportedPathsPresent ==
  pc = "done" => \A i \in DOMAIN imports :
    SrcExists(imports[i]) => \E e \in dest : IsPrefix(imports[i], e.src)

(* download_tests completes once every checkout succeeded. *)
CopyTestsCompletes == pc = "raised" => exc # "OSError"
=============================================================================
