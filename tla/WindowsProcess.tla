--------------------------- MODULE WindowsProcess ---------------------------
(***************************************************************************)
(* Ownership of one external PostgreSQL process on Windows:                *)
(* internal/platform/process.go over internal/platform/process_windows.go. *)
(*                                                                         *)
(* The child is created suspended, put in a job that dies with its last    *)
(* handle, and only then resumed.  OwnedProcess models the same Process    *)
(* over the macOS implementation; its Wait is not repeated here.           *)
(*                                                                         *)
(* Abstractions: an exit status is "ok" or "failed"; a descendant that was *)
(* terminated is gone; terminateMu only encloses one system call.          *)
(***************************************************************************)
EXTENDS Naturals

CONSTANTS
  Callers,    \* goroutines that use the Process, one call each
  Kids,       \* identities of descendants; a job has no way out
  MaxFaults   \* bound on failed system calls

ASSUME FaultsAssumption == MaxFaults \in Nat

VARIABLES
  child,      \* "none", "suspended", "running", "dying" or "dead"
  inJob,      \* the child is assigned to the job
  kids,       \* live descendants, in the job with the child
  open,       \* handles the owner holds: "job", "std", "process", "thread"
  alive,      \* the owning process lives
  spc,        \* control point of the starting and then waiting goroutine
  waitFailed, \* the waiter has met an error it will report
  result,     \* exitCode and waitErr: "pending", "ok" or "failed"
  done,       \* Process.done is closed
  closer,     \* holders of closeMu (at most one)
  closed, closeErr,   \* fields of Process
  released,   \* history: closeProcess has been called
  misused,    \* history: callers that passed a closed job handle to the system
  pc,         \* control point of each caller
  failed,     \* callers whose local variable failed is true
  expired,    \* callers whose context is done
  ret,        \* what each call returned: "none", "ok" or "failed"
  faults      \* system calls that have failed so far

group   == <<child, inJob, kids>>
waiter  == <<spc, waitFailed, result, done>>
closing == <<closer, closed, closeErr, released>>
calls   == <<pc, failed, expired, ret>>
vars    == <<group, open, alive, waiter, closing, misused, calls, faults>>

Starting == {"job", "std", "create", "closeStd", "assign", "resume", "closeThread"}
Cleaning == {"cleanKill", "cleanWait", "cleanClose"}
NoHandle == {"refused", "abandoned"}
SpcPoint == Starting \cup Cleaning \cup NoHandle
              \cup {"wait", "code", "killJob", "closeProcess", "announce", "joined"}
CallerPC == {"idle", "termCheck", "termKill", "termWait", "closeLock", "closeCheck",
             "closeKill", "closePause", "terminated", "shut"}
Handles  == {"job", "std", "process", "thread"}

Init ==
  /\ child = "none" /\ inJob = FALSE /\ kids = {} /\ open = {} /\ alive = TRUE
  /\ spc = "job" /\ waitFailed = FALSE /\ result = "pending" /\ done = FALSE
  /\ closer = {} /\ closed = FALSE /\ closeErr = "ok" /\ released = FALSE /\ misused = {}
  /\ pc = [c \in Callers |-> "idle"] /\ failed = {} /\ expired = {}
  /\ ret = [c \in Callers |-> "none"] /\ faults = 0

Fault == faults < MaxFaults /\ faults' = faults + 1

Live == child \in {"suspended", "running"}
Killed == IF Live THEN "dying" ELSE child

-----------------------------------------------------------------------------
(* The system.                                                             *)

\* JOB_OBJECT_LIMIT_KILL_ON_JOB_CLOSE is set before anything is in the job.
KillOnJobClose == TRUE

\* The last handle of the job is gone.
JobClosed ==
  IF KillOnJobClose
  THEN kids' = {} /\ child' = IF inJob THEN Killed ELSE child
  ELSE UNCHANGED <<kids, child>>

JobTerminated == kids' = {} /\ child' = IF inJob THEN Killed ELSE child

ChildExit ==
  /\ child \in {"running", "dying"}
  /\ child' = "dead"
  /\ UNCHANGED <<inJob, kids, open, alive, waiter, closing, misused, calls, faults>>

Spawn(k) ==
  /\ child = "running" \/ kids # {}
  /\ k \notin kids /\ kids' = kids \cup {k}
  /\ UNCHANGED <<child, inJob, open, alive, waiter, closing, misused, calls, faults>>

KidExit(k) ==
  /\ k \in kids /\ kids' = kids \ {k}
  /\ UNCHANGED <<child, inJob, open, alive, waiter, closing, misused, calls, faults>>

\* The owner dies; the system closes its handles.
OwnerDies ==
  /\ alive /\ alive' = FALSE /\ open' = {}
  /\ IF "job" \in open THEN JobClosed ELSE UNCHANGED <<kids, child>>
  /\ UNCHANGED <<inJob, waiter, closing, misused, calls, faults>>

-----------------------------------------------------------------------------
(* startNativeProcess and finishWindowsStart.                              *)

At(point)  == alive /\ spc = point
Goto(point) == spc' = point
Started == UNCHANGED <<alive, waitFailed, result, done, closing, misused, calls>>

\* Until there is a child, an error closes what was opened.
CreateJob ==
  /\ At("job")
  /\ \/ open' = {"job"} /\ Goto("std") /\ UNCHANGED faults
     \/ Fault /\ Goto("refused") /\ UNCHANGED open
  /\ Started /\ UNCHANGED group

DuplicateStandardHandles ==
  /\ At("std")
  /\ \/ open' = open \cup {"std"} /\ Goto("create") /\ UNCHANGED faults
     \/ Fault /\ Goto("refused") /\ open' = {}
  /\ Started /\ UNCHANGED group

CreateProcess ==
  /\ At("create")
  /\ \/ /\ child' = "suspended" /\ open' = open \cup {"process", "thread"}
        /\ Goto("closeStd") /\ UNCHANGED faults
     \/ Fault /\ Goto("refused") /\ open' = {} /\ UNCHANGED child
  /\ Started /\ UNCHANGED <<inJob, kids>>

CloseStandard ==
  /\ At("closeStd")
  /\ \/ open' = open \ {"std"} /\ Goto("assign") /\ UNCHANGED faults
     \/ Fault /\ Goto("cleanKill") /\ UNCHANGED open
  /\ Started /\ UNCHANGED group

\* Mutant: a child that could not be assigned is resumed all the same.
AssignLenient ==
  /\ At("assign") /\ Goto("resume")
  /\ \/ inJob' = TRUE /\ UNCHANGED faults
     \/ Fault /\ UNCHANGED inJob
  /\ Started /\ UNCHANGED <<child, kids, open>>

Assign ==
  /\ At("assign")
  /\ \/ inJob' = TRUE /\ Goto("resume") /\ UNCHANGED faults
     \/ Fault /\ Goto("cleanKill") /\ UNCHANGED inJob
  /\ Started /\ UNCHANGED <<child, kids, open>>

\* A wrong suspend count is an error too, and the child may run or not.
Resume ==
  /\ At("resume")
  /\ \/ child' = "running" /\ Goto("closeThread") /\ UNCHANGED faults
     \/ Fault /\ Goto("cleanKill") /\ child' \in {"suspended", "running"}
  /\ Started /\ UNCHANGED <<inJob, kids, open>>

CloseThread ==
  /\ At("closeThread")
  /\ \/ open' = open \ {"thread"} /\ Goto("wait") /\ UNCHANGED faults
     \/ Fault /\ Goto("cleanKill") /\ UNCHANGED open
  /\ Started /\ UNCHANGED group

-----------------------------------------------------------------------------
(* cleanupWindowsStartFailure: repeated until the child is seen dead.      *)

\* Mutant: only the job is terminated.
CleanKillJobOnly ==
  /\ At("cleanKill") /\ Goto("cleanWait")
  /\ IF inJob THEN JobTerminated ELSE UNCHANGED <<child, kids>>
  /\ Started /\ UNCHANGED <<inJob, open, faults>>

\* TerminateJobObject, when the child was assigned, then TerminateProcess; their
\* errors are looked at by nobody.
CleanKill ==
  /\ At("cleanKill") /\ Goto("cleanWait")
  /\ \E job, direct \in BOOLEAN :
       /\ kids' = IF inJob /\ job THEN {} ELSE kids
       /\ child' = IF direct \/ (inJob /\ job) THEN Killed ELSE child
       /\ IF direct /\ (job \/ ~inJob) THEN UNCHANGED faults ELSE Fault
  /\ Started /\ UNCHANGED <<inJob, open>>

\* Mutant: one bounded wait is enough.
CleanWaitOnce ==
  /\ At("cleanWait") /\ Goto("cleanClose")
  /\ Started /\ UNCHANGED <<group, open, faults>>

\* The wait is bounded and may fail.
CleanWait ==
  /\ At("cleanWait")
  /\ \/ child = "dead" /\ Goto("cleanClose") /\ UNCHANGED faults
     \/ child # "dead" /\ Goto("cleanKill") /\ UNCHANGED faults
     \/ Fault /\ Goto("cleanKill")
  /\ Started /\ UNCHANGED <<group, open>>

\* Every handle is closed once, the standard ones by the deferred retry.
CleanClose ==
  /\ At("cleanClose") /\ Goto("abandoned")
  /\ \/ open' = {} /\ UNCHANGED faults
     \/ Fault /\ \E h \in open : open' = {h}
  /\ IF "job" \in open' THEN UNCHANGED <<kids, child>> ELSE JobClosed
  /\ Started /\ UNCHANGED inJob

-----------------------------------------------------------------------------
(* windowsProcess.waitProcess and the goroutine of newProcess.             *)

Waiting == UNCHANGED <<inJob, alive, closing, misused, calls>>
Report  == waitFailed' = TRUE /\ Fault
Fine    == UNCHANGED <<waitFailed, faults>>

WaitForChild ==
  /\ At("wait")
  /\ \/ child = "dead" /\ Goto("code") /\ Fine
     \/ Goto("killJob") /\ Report
  /\ Waiting /\ UNCHANGED <<child, kids, open, result, done>>

GetExitCode ==
  /\ At("code") /\ Goto("killJob")
  /\ Fine \/ Report
  /\ Waiting /\ UNCHANGED <<child, kids, open, result, done>>

\* Mutant: the error of TerminateJobObject is not reported.
KillJobLenient ==
  /\ At("killJob") /\ Goto("closeProcess")
  /\ \/ JobTerminated /\ Fine
     \/ Fault /\ UNCHANGED <<waitFailed, child, kids>>
  /\ Waiting /\ UNCHANGED <<open, result, done>>

\* Whatever the wait said, the rest of the job goes too.
KillJob ==
  /\ At("killJob") /\ Goto("closeProcess")
  /\ \/ JobTerminated /\ Fine
     \/ Report /\ UNCHANGED <<child, kids>>
  /\ Waiting /\ UNCHANGED <<open, result, done>>

CloseProcessHandle ==
  /\ At("closeProcess") /\ Goto("announce")
  /\ \/ open' = open \ {"process"} /\ Fine
     \/ Report /\ UNCHANGED open
  /\ Waiting /\ UNCHANGED <<child, kids, result, done>>

Announce ==
  /\ At("announce") /\ Goto("joined")
  /\ result' = (IF waitFailed THEN "failed" ELSE "ok") /\ done' = TRUE
  /\ Waiting /\ UNCHANGED <<child, kids, open, waitFailed, faults>>

-----------------------------------------------------------------------------
(* Callers of the Process.                                                 *)

Move(c, point) == pc' = [pc EXCEPT ![c] = point]
Return(c, point, value) == Move(c, point) /\ ret' = [ret EXCEPT ![c] = value]
Outside == UNCHANGED <<inJob, alive, waiter>>
Nothing == Outside /\ UNCHANGED <<child, kids, open, misused, faults>>

Begin(c) ==
  /\ alive /\ pc[c] = "idle" /\ spc \notin Starting \cup Cleaning \cup NoHandle
  /\ \E point \in {"termCheck", "closeLock"} : Move(c, point)
  /\ Nothing /\ UNCHANGED <<closing, failed, expired, ret>>

Expire(c) ==
  /\ alive /\ pc[c] \notin {"idle", "terminated", "shut"} /\ c \notin expired
  /\ expired' = expired \cup {c}
  /\ Nothing /\ UNCHANGED <<closing, pc, failed, ret>>

\* TerminateJobObject on the job, or on whatever its number means by then.
TerminateNative(c, ok) ==
  /\ IF "job" \in open
     THEN /\ UNCHANGED misused
          /\ IF ok THEN JobTerminated /\ UNCHANGED faults
                   ELSE Fault /\ UNCHANGED <<child, kids>>
     ELSE misused' = misused \cup {c} /\ UNCHANGED <<child, kids, faults>>
  /\ UNCHANGED open

TerminateCheck(c) ==
  /\ alive /\ pc[c] = "termCheck"
  /\ IF done THEN Return(c, "terminated", result)
             ELSE Move(c, "termKill") /\ UNCHANGED ret
  /\ Nothing /\ UNCHANGED <<closing, failed, expired>>

TerminateKill(c) ==
  /\ alive /\ pc[c] = "termKill"
  /\ \E ok \in BOOLEAN :
       /\ TerminateNative(c, ok)
       /\ IF ok THEN Move(c, "termWait") /\ UNCHANGED ret
                ELSE Return(c, "terminated", "failed")
  /\ Outside /\ UNCHANGED <<closing, failed, expired>>

TerminateWait(c) ==
  /\ alive /\ pc[c] = "termWait"
  /\ \/ done /\ Return(c, "terminated", result)
     \/ c \in expired /\ Return(c, "terminated", "failed")
  /\ Nothing /\ UNCHANGED <<closing, failed, expired>>

CloseLock(c) ==
  /\ alive /\ pc[c] = "closeLock" /\ closer = {}
  /\ IF closed
     THEN Return(c, "shut", closeErr) /\ UNCHANGED closer
     ELSE Move(c, "closeCheck") /\ closer' = {c} /\ UNCHANGED ret
  /\ Nothing /\ UNCHANGED <<closed, closeErr, released, failed, expired>>

\* closeProcess, the close of the job handle.
CloseNative(c, ok) ==
  /\ released' = TRUE
  /\ \/ /\ "job" \notin open /\ misused' = misused \cup {c}
        /\ UNCHANGED <<open, child, kids, faults>>
     \/ /\ "job" \in open /\ ok /\ open' = open \ {"job"} /\ JobClosed
        /\ UNCHANGED <<misused, faults>>
     \/ /\ "job" \in open /\ ~ok /\ Fault
        /\ UNCHANGED <<misused, open, child, kids>>

\* Mutant of CloseSettles: the remembered outcome forgets failed signals.
CloseSettlesForgets(c, ok) ==
  LET outcome == IF ok /\ c \notin failed THEN "ok" ELSE "failed" IN
  /\ closed' = TRUE /\ closeErr' = (IF ok THEN "ok" ELSE "failed") /\ closer' = {}
  /\ Return(c, "shut", outcome)

CloseSettles(c, ok) ==
  LET outcome == IF ok /\ c \notin failed THEN "ok" ELSE "failed" IN
  /\ closed' = TRUE /\ closeErr' = outcome /\ closer' = {}
  /\ Return(c, "shut", outcome)

\* The loop leaves only through done; after a failed wait it does not close the job.
CloseCheck(c) ==
  /\ alive /\ pc[c] = "closeCheck"
  /\ \/ /\ ~done /\ Move(c, "closeKill")
        /\ UNCHANGED <<child, kids, open, misused, faults, closing, ret>>
     \/ /\ done /\ result = "failed" /\ CloseSettles(c, FALSE)
        /\ UNCHANGED <<child, kids, open, misused, faults, released>>
     \/ /\ done /\ result = "ok"
        /\ \E ok \in BOOLEAN : CloseNative(c, ok) /\ CloseSettles(c, ok)
  /\ Outside /\ UNCHANGED <<failed, expired>>

CloseKill(c) ==
  /\ alive /\ pc[c] = "closeKill" /\ Move(c, "closePause")
  /\ \E ok \in BOOLEAN :
       /\ TerminateNative(c, ok)
       /\ failed' = IF ok THEN failed ELSE failed \cup {c}
  /\ Outside /\ UNCHANGED <<closing, expired, ret>>

ClosePause(c) ==
  /\ alive /\ pc[c] = "closePause" /\ Move(c, "closeCheck")
  /\ \/ UNCHANGED failed
     \/ c \in expired /\ failed' = failed \cup {c}
  /\ Nothing /\ UNCHANGED <<closing, expired, ret>>

-----------------------------------------------------------------------------
Start     == \/ CreateJob \/ DuplicateStandardHandles \/ CreateProcess \/ CloseStandard
             \/ Assign \/ Resume \/ CloseThread \/ CleanKill \/ CleanWait \/ CleanClose
Waiter    == WaitForChild \/ GetExitCode \/ KillJob \/ CloseProcessHandle \/ Announce
Caller(c) == \/ TerminateCheck(c) \/ TerminateKill(c) \/ TerminateWait(c)
             \/ CloseLock(c) \/ CloseCheck(c) \/ CloseKill(c) \/ ClosePause(c)
System    == ChildExit \/ OwnerDies \/ \E k \in Kids : Spawn(k) \/ KidExit(k)

Over ==
  /\ ~alive \/ spc \in NoHandle
            \/ (spc = "joined" /\ \A c \in Callers : pc[c] \in {"terminated", "shut"})
  /\ UNCHANGED vars

Next == Start \/ Waiter \/ System \/ Over
        \/ \E c \in Callers : Begin(c) \/ Expire(c) \/ Caller(c)

\* The starting goroutine goes on; a terminated child dies.
Fairness == WF_vars(Start) /\ WF_vars(child = "dying" /\ ChildExit)

Spec     == Init /\ [][Next]_vars
FairSpec == Spec /\ Fairness

-----------------------------------------------------------------------------
(* Properties.                                                             *)

\* Every variable keeps its type, and there are descendants only in the job.
TypeOK ==
  /\ child \in {"none", "suspended", "running", "dying", "dead"}
  /\ inJob \in BOOLEAN /\ kids \subseteq Kids /\ open \subseteq Handles /\ alive \in BOOLEAN
  /\ spc \in SpcPoint /\ waitFailed \in BOOLEAN /\ result \in {"pending", "ok", "failed"}
  /\ done \in BOOLEAN /\ closer \subseteq Callers /\ closed \in BOOLEAN
  /\ closeErr \in {"ok", "failed"} /\ released \in BOOLEAN /\ misused \subseteq Callers
  /\ pc \in [Callers -> CallerPC] /\ failed \subseteq Callers /\ expired \subseteq Callers
  /\ ret \in [Callers -> {"none", "ok", "failed"}] /\ faults \in 0 .. MaxFaults

\* Nothing of the child runs once its owner has died, at whatever point of the
\* start, of the clean-up or of a close that happened: only a child that has never
\* run can be left behind (docs/progress.md:747-750).
NothingOutlivesOwner == ~alive => child # "running" /\ kids = {}

\* A start that fails after the child was created returns only when the child is
\* dead, and nothing of its job runs unless the job handle itself would not close
\* (docs/progress.md:783-785).
FailedStartLeavesNothing ==
  spc = "abandoned" => child = "dead" /\ (kids = {} \/ "job" \in open)

\* A Terminate or CloseContext that reports success has left nothing running, and
\* CloseContext no handle open.
SuccessMeansGone ==
  \A c \in Callers : ret[c] = "ok" =>
    /\ child = "dead" /\ kids = {}
    /\ pc[c] = "shut" => open = {}

\* Repeated and concurrent calls of CloseContext never touch the job handle once it
\* is closed; only a Terminate that looked at done before can (process.go:122
\* "It is safe to call repeatedly").
CloseOwnsHandle == \A c \in misused : pc[c] \notin {"closePause", "closeCheck", "shut"}

\* A failed start comes to its end, although every call of its clean-up may fail.
FailedStartEnds == spc = "cleanKill" ~> spc = "abandoned" \/ ~alive

\* CloseContext releases the native process before it returns (process.go:120
\* "CloseContext terminates, reaps, and releases the owned native process").
CloseReleases == \A c \in Callers : pc[c] = "shut" => released
-----------------------------------------------------------------------------
(* What the callers of the Process can tell of its job.                    *)

Gone    == child = "dead" /\ kids = {}
Outcome == IF closed THEN closeErr ELSE "open"
Told    == [c \in Callers |-> IF pc[c] \in {"terminated", "shut"} THEN <<pc[c], ret[c]>> ELSE <<>>]

Owned == INSTANCE OwnedChild WITH gone <- Gone, outcome <- Outcome, told <- Told

\* So does the job of Windows, for which process.go is the same code: concurrent and
\* repeated calls are told one result and one outcome, and none of them hears of
\* success before everything in the job has ended (process.go:84-157).
OwnsItsChild == Owned!Spec
=============================================================================
