---------------------------- MODULE CrashLogWait ----------------------------
(***************************************************************************)
(* IOSSimulatorPort._get_crash_log of webkitpy/port/ios.py: strip the      *)
(* '#CRASHED - <name> (pid <pid>)' markers LayoutTestRelay writes to       *)
(* stderr, re-targeting the search at the process each names, then poll   *)
(* the crash-log directory until a log is found or the deadline of        *)
(* 5 * child_processes seconds has passed, sleeping 0.1 s between polls.  *)
(*                                                                         *)
(* Time is counted in ticks of the sleep; the clock read by time_fn may   *)
(* advance by more than one tick per poll (the search itself takes time). *)
(* The crash reporter writes the log of a process concurrently: first an  *)
(* entry holding only ERROR lines may be there, later the complete log.   *)
(***************************************************************************)
EXTENDS Integers, Sequences
LOCAL INSTANCE SequencesExt

CONSTANTS
  Procs,        \* process names a crash may be reported for
  Stderrs,      \* the stderr texts the test may have produced
  Deadline,     \* 5 * child_processes seconds, in ticks of the 0.1 s sleep
  MaxJump,      \* the most ticks time_fn may advance over one poll
  NoLog         \* find_newest_log found nothing ('' / None)

ASSUME Deadline \in Nat /\ MaxJump \in Nat \ {0}

(* A line of stderr: a '#CRASHED' marker naming a process, or other text. *)
Crashed(p) == [marker |-> TRUE, proc |-> p]
Other == [marker |-> FALSE, proc |-> NoLog]

(* What the crash-log directory holds for one process. *)
LogStates == {NoLog, "errors", "full"}

VARIABLES
  phase,        \* "loop" (the while loop) or "done" (the function returned)
  name,         \* the process whose log is searched
  stderrOut,    \* the stderr the function returns
  waitForLog,   \* the wait_for_log argument
  now,          \* the last value read from time_fn
  crashLog,     \* crash_log
  dir           \* process -> what the crash reporter has written

vars == <<phase, name, stderrOut, waitForLog, now, crashLog, dir>>

(***************************************************************************)
(* Lines 293-305.  The first marker line is removed and names the process *)
(* the search is re-targeted at; the function calls itself on the rest.   *)
(***************************************************************************)
FirstMarker(lines) ==
  LET ms == {i \in DOMAIN lines : lines[i].marker} IN
  IF ms = {} THEN 0 ELSE Min(ms)

(* Fault variant: a single pass, the function does not call itself. *)
StripOnce(n, lines) ==
  LET i == FirstMarker(lines) IN
  IF i = 0 THEN [name |-> n, stderr |-> lines]
  ELSE [name |-> lines[i].proc, stderr |-> RemoveAt(lines, i)]

RECURSIVE StripMarkers(_, _)
StripMarkers(n, lines) ==
  LET i == FirstMarker(lines) IN
  IF i = 0 THEN [name |-> n, stderr |-> lines]
  ELSE StripMarkers(lines[i].proc, RemoveAt(lines, i))

(* find_newest_log(name, pid, include_errors=True): the entry, if any. *)
FindNewestLog(d, p) == d[p]

Init ==
  /\ \E p \in Procs, s \in Stderrs :
       LET r == StripMarkers(p, s) IN name = r.name /\ stderrOut = r.stderr
  /\ waitForLog \in BOOLEAN
  /\ now = 0
  /\ crashLog = NoLog
  /\ dir \in [Procs -> LogStates]
  /\ phase = "loop"

(* Fault variant: the clock is not read again after the sleep. *)
PollWithoutClock ==
  /\ phase = "loop" /\ crashLog = NoLog /\ now <= Deadline
  /\ crashLog' = FindNewestLog(dir, name)
  /\ IF ~waitForLog THEN phase' = "done" /\ UNCHANGED now
     ELSE UNCHANGED <<phase, now>>
  /\ UNCHANGED <<name, stderrOut, waitForLog, dir>>

(* Fault variant: the loop does not look at the deadline. *)
PollIgnoringDeadline ==
  /\ phase = "loop" /\ crashLog = NoLog
  /\ crashLog' = FindNewestLog(dir, name)
  /\ IF ~waitForLog THEN phase' = "done" /\ UNCHANGED now
     ELSE /\ IF crashLog' \in {NoLog, "errors"}
               THEN now' \in (now + 1)..(now + MaxJump)
               ELSE UNCHANGED now
          /\ UNCHANGED phase
  /\ UNCHANGED <<name, stderrOut, waitForLog, dir>>

(***************************************************************************)
(* One iteration of the loop of lines 313-319: search; break when not     *)
(* waiting; sleep and read the clock when nothing, or only ERROR lines,   *)
(* was found.                                                              *)
(***************************************************************************)
Poll ==
  /\ phase = "loop" /\ crashLog = NoLog /\ now <= Deadline
  /\ crashLog' = FindNewestLog(dir, name)
  /\ IF ~waitForLog THEN phase' = "done" /\ UNCHANGED now
     ELSE /\ IF crashLog' \in {NoLog, "errors"}
               THEN now' \in (now + 1)..(now + MaxJump)
               ELSE UNCHANGED now
          /\ UNCHANGED phase
  /\ UNCHANGED <<name, stderrOut, waitForLog, dir>>

(* The loop condition fails: lines 321-323 return the log or None. *)
LoopExit ==
  /\ phase = "loop" /\ ~(crashLog = NoLog /\ now <= Deadline)
  /\ phase' = "done"
  /\ UNCHANGED <<name, stderrOut, waitForLog, now, crashLog, dir>>

(* The crash reporter writes an ERROR-only entry or the complete log. *)
ReporterWrites(p) ==
  /\ phase = "loop"
  /\ dir[p] # "full"
  /\ \E s \in {"errors", "full"} \ {dir[p]} : dir' = [dir EXCEPT ![p] = s]
  /\ UNCHANGED <<phase, name, stderrOut, waitForLog, now, crashLog>>

Next ==
  \/ Poll \/ LoopExit
  \/ \E p \in Procs : ReporterWrites(p)

(* The port's thread runs the loop; the crash reporter owes nothing. *)
Spec == Init /\ [][Next]_vars /\ WF_vars(Poll \/ LoopExit)
=============================================================================
