---------------------------- MODULE OwnedProcess ----------------------------
(***************************************************************************)
(* Ownership of one external PostgreSQL process on macOS:                  *)
(* internal/platform/process.go over internal/platform/process_darwin.go.  *)
(*                                                                         *)
(* Three kinds of actors run concurrently: the goroutine that starts the   *)
(* child and then waits for it, any number of goroutines that call Wait,   *)
(* Terminate or CloseContext, and the kernel (the child and the            *)
(* descendants it leaves in its process group).                            *)
(*                                                                         *)
(* Abstractions: an exit status is "ok" (published with a nil error) or    *)
(* "failed"; terminateMu is not a variable, since it only nests around the *)
(* native mutex; a descendant that has received SIGKILL is gone.           *)
(***************************************************************************)
EXTENDS Naturals

CONSTANTS
  Callers,    \* goroutines that use the Process, one call each
  Kids,       \* identities of descendants that stay in the process group
  MaxFaults   \* bound on failed system calls (EINTR, EPERM, ECHILD, ...)

ASSUME FaultsAssumption == MaxFaults \in Nat

VARIABLES
  leader,     \* the direct child: "running", "dying", "zombie" or "reaped"
  members,    \* live descendants in its group that SIGKILL has not reached
  noted,      \* a NOTE_EXIT event is queued on the kqueue
  lateSignal, \* history: kill(-pgid) was called after the child was reaped
  wpc,        \* control point of the starting and then waiting goroutine
  muHeld,     \* the waiter holds darwinProcess.mu
  fallback,   \* the one look at the process table that the exit observer may take:
              \* "pending", "used", or "lost" (history) when it failed on a zombie
  exitObserved, signaled, reaped,   \* fields of darwinProcess
  result,     \* exitCode and waitErr: "pending", "ok" or "failed"
  waitFailed, \* the waiter has met an error it will report
  done,       \* Process.done is closed
  closer,     \* holders of closeMu (at most one)
  closed, closeErr,                 \* fields of Process
  pc,         \* control point of each caller
  failed,     \* callers whose local variable failed is true
  expired,    \* callers whose context is done
  ret,        \* what each call returned: "none", "ok" or "failed"
  faults      \* system calls that have failed so far

kernel  == <<leader, members, noted, lateSignal>>
native  == <<muHeld, fallback, exitObserved, signaled, reaped>>
handle  == <<result, waitFailed, done>>
closing == <<closer, closed, closeErr>>
calls   == <<pc, failed, expired, ret>>
vars    == <<kernel, wpc, native, handle, closing, calls, faults>>

Starting   == {"kqueue", "register", "abortKill", "abortWait"}
WaiterPC   == Starting \cup {"abandoned", "lock", "observe", "kill", "reap",
                             "markReaped", "publish", "announce", "joined"}
CallerPC   == {"idle", "wait", "termCheck", "termKill", "termWait",
               "closeLock", "closeCheck", "closeKill", "closePause",
               "waited", "terminated", "shut"}
Returned   == {"waited", "terminated", "shut"}
FaultCount == 0..MaxFaults

Init ==
  /\ leader = "running" /\ members = {} /\ noted = FALSE /\ lateSignal = FALSE
  /\ wpc = "kqueue"
  /\ muHeld = FALSE /\ fallback = "pending"
  /\ exitObserved = FALSE /\ signaled = FALSE /\ reaped = FALSE
  /\ result = "pending" /\ waitFailed = FALSE /\ done = FALSE
  /\ closer = {} /\ closed = FALSE /\ closeErr = "ok"
  /\ pc = [c \in Callers |-> "idle"] /\ failed = {} /\ expired = {}
  /\ ret = [c \in Callers |-> "none"]
  /\ faults = 0

Fault == faults < MaxFaults /\ faults' = faults + 1

-----------------------------------------------------------------------------
(* The kernel.                                                             *)

\* The child ends, by itself or by SIGKILL.  The kqueue learns of it only when
\* the filter was registered before.
LeaderExit ==
  /\ leader \in {"running", "dying"}
  /\ leader' = "zombie"
  /\ noted' = (wpc \notin Starting)
  /\ UNCHANGED <<members, lateSignal, wpc, native, handle, closing, calls, faults>>

\* A process of the group forks a descendant that stays in the group.
Fork(k) ==
  /\ leader = "running" \/ members # {}
  /\ k \notin members
  /\ members' = members \cup {k}
  /\ UNCHANGED <<leader, noted, lateSignal, wpc, native, handle, closing, calls, faults>>

MemberExit(k) ==
  /\ k \in members
  /\ members' = members \ {k}
  /\ UNCHANGED <<leader, noted, lateSignal, wpc, native, handle, closing, calls, faults>>

\* kill(-pgid, SIGKILL).  The signal reaches every process of the group; when
\* only the zombie leader is left the kernel answers EPERM, which zombieIsFine
\* accepts.  After the leader is reaped the number may name a stranger's group.
SignalGroup(ok, zombieIsFine) ==
  \/ /\ ok = (leader # "zombie" \/ members # {} \/ zombieIsFine)
     /\ members' = {}
     /\ leader' = IF leader = "running" THEN "dying" ELSE leader
     /\ lateSignal' = (lateSignal \/ leader = "reaped")
     /\ UNCHANGED <<noted, faults>>
  \/ /\ ~ok /\ Fault
     /\ UNCHANGED kernel

\* killGroup of darwinProcess: signaled records a signal that was delivered.
KillGroup(ok) ==
  /\ SignalGroup(ok, exitObserved)
  /\ signaled' = (signaled \/ ok)

-----------------------------------------------------------------------------
(* Start: setupDarwinProcess and its cleanup loop.                         *)

CreateKqueue ==
  /\ wpc = "kqueue"
  /\ \/ wpc' = "register" /\ UNCHANGED faults
     \/ wpc' = "abortKill" /\ Fault
  /\ UNCHANGED <<kernel, native, handle, closing, calls>>

RegisterExit ==
  /\ wpc = "register"
  /\ \/ wpc' = "lock" /\ UNCHANGED faults
     \/ wpc' = "abortKill" /\ Fault
  /\ UNCHANGED <<kernel, native, handle, closing, calls>>

\* cleanupDarwinStart retries until the signal is delivered or not needed.
AbortKill ==
  /\ wpc = "abortKill"
  /\ \E ok \in BOOLEAN :
       /\ SignalGroup(ok, TRUE)
       /\ wpc' = IF ok THEN "abortWait" ELSE "abortKill"
  /\ UNCHANGED <<native, handle, closing, calls>>

\* wait4 is repeated after EINTR; any other error says that no child is left (ECHILD).
AbortWait ==
  /\ wpc = "abortWait"
  /\ \/ /\ leader = "zombie"
        /\ leader' = "reaped" /\ wpc' = "abandoned"
        /\ UNCHANGED faults \/ Fault
     \/ Fault /\ UNCHANGED <<leader, wpc>>
  /\ UNCHANGED <<members, noted, lateSignal, native, handle, closing, calls>>

-----------------------------------------------------------------------------
(* The waiter: darwinProcess.waitProcess and the goroutine of newProcess.  *)

\* Mutant of AfterExit: reap without signalling the residual group.
AfterExitReap == "reap"

AfterExit == IF signaled THEN "reap" ELSE "kill"

WaiterLock ==
  /\ wpc = "lock" /\ ~muHeld
  /\ muHeld' = TRUE
  /\ wpc' = IF exitObserved THEN AfterExit ELSE "observe"
  /\ UNCHANGED <<kernel, fallback, exitObserved, signaled, reaped, handle, closing,
                 calls, faults>>

\* Mutant of Observe: the exit observer without its sysctl fallback.
ObserveEventOnly ==
  /\ wpc = "observe"
  /\ \/ /\ noted
        /\ exitObserved' = TRUE /\ wpc' = AfterExit
        /\ UNCHANGED muHeld
     \/ /\ ~noted
        /\ muHeld' = FALSE /\ wpc' = "lock"
        /\ UNCHANGED exitObserved
  /\ UNCHANGED <<kernel, fallback, signaled, reaped, handle, closing, calls, faults>>

\* One poll: the queued event, or once the process state when none is queued.
Observe ==
  /\ wpc = "observe"
  /\ LET exited == noted \/ (fallback = "pending" /\ leader = "zombie") IN
       \/ /\ exited
          /\ exitObserved' = TRUE /\ wpc' = AfterExit
          /\ UNCHANGED <<muHeld, waitFailed, faults>>
       \/ /\ ~exited
          /\ muHeld' = FALSE /\ wpc' = "lock"
          /\ UNCHANGED <<exitObserved, waitFailed, faults>>
  /\ fallback' = IF fallback = "pending" /\ ~noted THEN "used" ELSE fallback
  /\ UNCHANGED <<kernel, signaled, reaped, result, done, closing, calls>>

\* The poll fails at kevent, or at the process table: that was the one look at it.
PollFails ==
  /\ Fault
  /\ \/ UNCHANGED fallback
     \/ /\ fallback = "pending" /\ ~noted
        /\ fallback' = IF leader = "zombie" THEN "lost" ELSE "used"

\* EINTR, from either call: the waiter polls again.
ObserveInterrupted ==
  /\ wpc = "observe" /\ PollFails
  /\ muHeld' = FALSE /\ wpc' = "lock"
  /\ UNCHANGED <<kernel, exitObserved, signaled, reaped, handle, closing, calls>>

\* A failed notification is not a reason to stop: the child is killed instead.
ObserveFails ==
  /\ wpc = "observe" /\ PollFails
  /\ waitFailed' = TRUE /\ exitObserved' = TRUE /\ wpc' = AfterExit
  /\ UNCHANGED <<kernel, muHeld, signaled, reaped, result, done, closing, calls>>

\* The residual group is signalled while the unreaped leader pins its number.
WaiterKill ==
  /\ wpc = "kill"
  /\ \E ok \in BOOLEAN :
       /\ KillGroup(ok)
       /\ wpc' = IF ok THEN "reap" ELSE "lock"
       /\ muHeld' = ok
  /\ UNCHANGED <<fallback, exitObserved, reaped, handle, closing, calls>>

\* wait4 blocks, with the mutex held, until the leader has exited.
Reap ==
  /\ wpc = "reap" /\ leader = "zombie"
  /\ leader' = "reaped" /\ wpc' = "markReaped"
  /\ \/ UNCHANGED <<waitFailed, faults>>
     \/ waitFailed' = TRUE /\ Fault
  /\ UNCHANGED <<members, noted, lateSignal, native, result, done, closing, calls>>

ReapInterrupted ==
  /\ wpc = "reap" /\ Fault
  /\ muHeld' = FALSE /\ wpc' = "lock"
  /\ UNCHANGED <<kernel, fallback, exitObserved, signaled, reaped, handle, closing, calls>>

\* The terminal state is published and the kqueue closed before mu is released.
MarkReaped ==
  /\ wpc = "markReaped"
  /\ reaped' = TRUE /\ muHeld' = FALSE /\ wpc' = "publish"
  /\ \/ UNCHANGED <<waitFailed, faults>>
     \/ waitFailed' = TRUE /\ Fault
  /\ UNCHANGED <<kernel, fallback, exitObserved, signaled, result, done, closing, calls>>

Publish ==
  /\ wpc = "publish"
  /\ result' = IF waitFailed THEN "failed" ELSE "ok"
  /\ wpc' = "announce"
  /\ UNCHANGED <<kernel, native, waitFailed, done, closing, calls, faults>>

Announce ==
  /\ wpc = "announce"
  /\ done' = TRUE /\ wpc' = "joined"
  /\ UNCHANGED <<kernel, native, result, waitFailed, closing, calls, faults>>

-----------------------------------------------------------------------------
(* Callers of the Process.                                                 *)

Goto(c, label) == pc[c] # label /\ pc' = [pc EXCEPT ![c] = label]
Return(c, label, value) ==
  /\ pc' = [pc EXCEPT ![c] = label]
  /\ ret' = [ret EXCEPT ![c] = value]

\* A caller exists only once StartProcess has returned the Process.
Begin(c) ==
  /\ pc[c] = "idle" /\ wpc \notin Starting \cup {"abandoned"}
  /\ \E label \in {"wait", "termCheck", "closeLock"} : Goto(c, label)
  /\ UNCHANGED <<kernel, wpc, native, handle, closing, failed, expired, ret, faults>>

Expire(c) ==
  /\ pc[c] \in {"termCheck", "termKill", "termWait", "closeLock", "closeCheck",
                "closeKill", "closePause"}
  /\ c \notin expired
  /\ expired' = expired \cup {c}
  /\ UNCHANGED <<kernel, wpc, native, handle, closing, pc, failed, ret, faults>>

Wait(c) ==
  /\ pc[c] = "wait" /\ done
  /\ Return(c, "waited", result)
  /\ UNCHANGED <<kernel, wpc, native, handle, closing, failed, expired, faults>>

\* Mutant of TerminateProcess: signal without looking at reaped.
TerminateProcessUnchecked(ok) == ~muHeld /\ KillGroup(ok)

\* terminateProcess: under mu, nothing once the child is reaped.
TerminateProcess(ok) ==
  /\ ~muHeld
  /\ IF reaped
     THEN ok /\ UNCHANGED <<kernel, signaled, faults>>
     ELSE KillGroup(ok)

TerminateCheck(c) ==
  /\ pc[c] = "termCheck"
  /\ IF done THEN Return(c, "terminated", result)
             ELSE Goto(c, "termKill") /\ UNCHANGED ret
  /\ UNCHANGED <<kernel, wpc, native, handle, closing, failed, expired, faults>>

TerminateKill(c) ==
  /\ pc[c] = "termKill"
  /\ \E ok \in BOOLEAN :
       /\ TerminateProcess(ok)
       /\ IF ok THEN Goto(c, "termWait") /\ UNCHANGED ret
                ELSE Return(c, "terminated", "failed")
  /\ UNCHANGED <<wpc, muHeld, fallback, exitObserved, reaped, handle, closing, failed,
                 expired>>

\* Mutant of TerminateWait: an expired context counts as success once signalled.
TerminateWaitLenient(c) ==
  /\ pc[c] = "termWait"
  /\ \/ done /\ Return(c, "terminated", result)
     \/ c \in expired /\ Return(c, "terminated", "ok")
  /\ UNCHANGED <<kernel, wpc, native, handle, closing, failed, expired, faults>>

TerminateWait(c) ==
  /\ pc[c] = "termWait"
  /\ \/ done /\ Return(c, "terminated", result)
     \/ c \in expired /\ Return(c, "terminated", "failed")
  /\ UNCHANGED <<kernel, wpc, native, handle, closing, failed, expired, faults>>

CloseLock(c) ==
  /\ pc[c] = "closeLock" /\ closer = {}
  /\ IF closed
     THEN Return(c, "shut", closeErr) /\ UNCHANGED closer
     ELSE Goto(c, "closeCheck") /\ closer' = {c} /\ UNCHANGED ret
  /\ UNCHANGED <<kernel, wpc, native, handle, closed, closeErr, failed, expired, faults>>

\* Mutant of CloseCheck: the remembered outcome forgets failed signals.
CloseCheckForgets(c) ==
  /\ pc[c] = "closeCheck"
  /\ IF done
     THEN LET outcome == IF result = "failed" \/ c \in failed THEN "failed" ELSE "ok" IN
          /\ closed' = TRUE /\ closeErr' = result
          /\ closer' = {}
          /\ Return(c, "shut", outcome)
     ELSE Goto(c, "closeKill") /\ UNCHANGED <<closing, ret>>
  /\ UNCHANGED <<kernel, wpc, native, handle, failed, expired, faults>>

\* The loop of CloseContext leaves only through done.
CloseCheck(c) ==
  /\ pc[c] = "closeCheck"
  /\ IF done
     THEN LET outcome == IF result = "failed" \/ c \in failed THEN "failed" ELSE "ok" IN
          /\ closed' = TRUE /\ closeErr' = outcome
          /\ closer' = {}
          /\ Return(c, "shut", outcome)
     ELSE Goto(c, "closeKill") /\ UNCHANGED <<closing, ret>>
  /\ UNCHANGED <<kernel, wpc, native, handle, failed, expired, faults>>

\* Mutant of CloseKill: a failed signal is not tried again.
CloseKillOnce(c) ==
  /\ pc[c] = "closeKill"
  /\ \E ok \in BOOLEAN :
       /\ IF c \in failed THEN ~ok /\ ~muHeld /\ UNCHANGED <<kernel, signaled, faults>>
                          ELSE TerminateProcess(ok)
       /\ failed' = IF ok THEN failed ELSE failed \cup {c}
  /\ Goto(c, "closePause")
  /\ UNCHANGED <<wpc, muHeld, fallback, exitObserved, reaped, handle, closing, expired, ret>>

CloseKill(c) ==
  /\ pc[c] = "closeKill"
  /\ \E ok \in BOOLEAN :
       /\ TerminateProcess(ok)
       /\ failed' = IF ok THEN failed ELSE failed \cup {c}
  /\ Goto(c, "closePause")
  /\ UNCHANGED <<wpc, muHeld, fallback, exitObserved, reaped, handle, closing, expired, ret>>

\* Mutant of ClosePause: give up when the context expires.
ClosePauseGivesUp(c) ==
  /\ pc[c] = "closePause"
  /\ \/ /\ c \notin expired
        /\ Goto(c, "closeCheck") /\ UNCHANGED <<closing, ret>>
     \/ /\ c \in expired
        /\ closer' = {} /\ closed' = TRUE /\ closeErr' = "failed"
        /\ Return(c, "shut", "failed")
  /\ UNCHANGED <<kernel, wpc, native, handle, failed, expired, faults>>

\* The select between done, the context and the retry timer.
ClosePause(c) ==
  /\ pc[c] = "closePause"
  /\ \/ UNCHANGED failed
     \/ c \in expired /\ failed' = failed \cup {c}
  /\ Goto(c, "closeCheck")
  /\ UNCHANGED <<kernel, wpc, native, handle, closing, expired, ret, faults>>

-----------------------------------------------------------------------------
Start  == CreateKqueue \/ RegisterExit \/ AbortKill \/ AbortWait
Waiter == \/ WaiterLock \/ Observe \/ ObserveInterrupted \/ ObserveFails
          \/ WaiterKill \/ Reap \/ ReapInterrupted \/ MarkReaped
          \/ Publish \/ Announce
Caller(c) == \/ Wait(c) \/ TerminateCheck(c) \/ TerminateKill(c) \/ TerminateWait(c)
             \/ CloseLock(c) \/ CloseCheck(c) \/ CloseKill(c) \/ ClosePause(c)
Kernel == LeaderExit \/ (\E k \in Kids : Fork(k) \/ MemberExit(k))

\* Every goroutine has ended; the system may stop here.
Quiescent ==
  /\ wpc = "joined" /\ \A c \in Callers : pc[c] \in Returned
  /\ UNCHANGED vars

Abandoned == wpc = "abandoned" /\ UNCHANGED vars

Next == \/ Start \/ Waiter \/ Kernel \/ Quiescent \/ Abandoned
        \/ \E c \in Callers : Begin(c) \/ Expire(c) \/ Caller(c)

\* Go schedules every runnable goroutine, and its mutex hands a long-waiting
\* goroutine the lock (starvation mode): hence strong fairness where a caller
\* needs the native mutex.  A child that was sent SIGKILL dies; one that was
\* not may run for ever, and nobody is obliged to call Terminate.
Fairness ==
  /\ WF_vars(Start) /\ WF_vars(Waiter)
  /\ WF_vars(leader = "dying" /\ LeaderExit)
  /\ \A c \in Callers :
       /\ WF_vars(Caller(c))
       /\ SF_vars(TerminateKill(c)) /\ SF_vars(CloseKill(c))

Spec     == Init /\ [][Next]_vars
FairSpec == Spec /\ Fairness

-----------------------------------------------------------------------------
(* Properties.                                                             *)

\* Every variable keeps its type; in particular no call returns a result that
\* the waiter has not published (Wait and Terminate read it after done).
TypeOK ==
  /\ leader \in {"running", "dying", "zombie", "reaped"}
  /\ members \subseteq Kids
  /\ noted \in BOOLEAN /\ lateSignal \in BOOLEAN
  /\ wpc \in WaiterPC
  /\ muHeld \in BOOLEAN /\ fallback \in {"pending", "used", "lost"}
  /\ exitObserved \in BOOLEAN /\ signaled \in BOOLEAN /\ reaped \in BOOLEAN
  /\ result \in {"pending", "ok", "failed"}
  /\ waitFailed \in BOOLEAN /\ done \in BOOLEAN
  /\ closer \subseteq Callers /\ closed \in BOOLEAN /\ closeErr \in {"ok", "failed"}
  /\ pc \in [Callers -> CallerPC]
  /\ failed \subseteq Callers /\ expired \subseteq Callers
  /\ ret \in [Callers -> {"none", "ok", "failed"}]
  /\ faults \in FaultCount

\* No kill(-pgid) after the child was reaped, by the waiter or by any
\* concurrent Terminate or Close: the number could name another group then
\* (process_darwin.go:221-223, 238-239).
NoSignalAfterReap == ~lateSignal

\* The child is reaped only once every descendant in its group was signalled:
\* a reaped leader leaves no live process behind, on the normal path, after
\* any failed system call and after a start that failed half-way.
NoOrphanAfterReap == leader = "reaped" => members = {}

\* CloseContext never returns, however its context expired, before the child
\* is reaped, its group is dead and the waiter has joined
\* (process.go:120-122, process_darwin_test.go:435).
CloseResolvesOwnership ==
  \A c \in Callers : pc[c] = "shut" =>
    wpc = "joined" /\ leader = "reaped" /\ members = {}

\* All calls of CloseContext, first or repeated, report the same outcome, and
\* a nil outcome is reported only for a child whose wait succeeded.
CloseAgrees ==
  \A c \in Callers : pc[c] = "shut" =>
    closed /\ ret[c] = closeErr /\ (ret[c] = "ok" => result = "ok")

\* Terminate reports success only when the child is reaped and its exit status
\* was obtained.
TerminateOkMeansReaped ==
  \A c \in Callers : pc[c] = "terminated" /\ ret[c] = "ok" =>
    leader = "reaped" /\ result = "ok"

\* An exit that no event reports, and that the interrupted look at the process table
\* did not see.
Unseen == fallback = "lost" /\ ~exitObserved

\* Every CloseContext returns, whatever the child does and however often a signal
\* fails first - unless an exit goes unseen for ever.
CloseReturns ==
  \A c \in Callers : pc[c] = "closeLock" ~> (pc[c] = "shut" \/ []Unseen)

\* The waiter joins once the child has exited, also when it exited before the exit
\* filter was registered and no event will ever come; failing calls do not keep it
\* from that, except for EINTR in the one look at the process table.
ExitIsObserved == leader = "zombie" ~> (wpc \in {"joined", "abandoned"} \/ []Unseen)

-----------------------------------------------------------------------------
(* What the callers of the Process can tell of its process group.          *)

Gone    == leader = "reaped" /\ members = {}
Outcome == IF closed THEN closeErr ELSE "open"
Told    == [c \in Callers |-> IF pc[c] \in Returned THEN <<pc[c], ret[c]>> ELSE <<>>]

Owned == INSTANCE OwnedChild WITH gone <- Gone, outcome <- Outcome, told <- Told

\* The process group of macOS implements the Process of OwnedChild: concurrent and
\* repeated calls are told one result and one outcome, and none of them hears of
\* success before the child and its group have ended (process.go:68-157).
OwnsItsChild == Owned!Spec
=============================================================================
