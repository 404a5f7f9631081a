----------------------- MODULE WindowsProcess_proofs -----------------------
(***************************************************************************)
(* Safety of WindowsProcess for any set of callers, any set of descendants *)
(* and any number of failing system calls.                                 *)
(*                                                                         *)
(* None of the properties is inductive.  Inv adds which handles are open   *)
(* at each point of the start and the wait, that whatever runs is in the   *)
(* job, what a wait without an error has established so far, and which     *)
(* caller owns closeMu and with it the job handle.                         *)
(***************************************************************************)
EXTENDS WindowsProcess, TLAPS

BeforeWait == Starting \cup Cleaning \cup NoHandle
HasJob     == SpcPoint \ {"job", "refused", "abandoned"}
InClose    == {"closeCheck", "closeKill", "closePause"}

\* Whatever runs was assigned to the job, and the job is open while the owner lives.
JobInv ==
  /\ child = "running" \/ kids # {} => inJob
  /\ child = "running" \/ kids # {} => alive /\ "job" \in open
  /\ ~alive => open = {}
  /\ alive /\ spc \in HasJob /\ ~closed => "job" \in open

\* What the start has reached: no child is resumed that has ended, only a resumed child
\* has callers, and only a dead child is given up.
StartInv ==
  /\ spc \in BeforeWait => ~done /\ closer = {} /\ ~closed
                           /\ misused = {} /\ \A c \in Callers : pc[c] = "idle"
  /\ spc \in {"job", "std", "create", "refused"} => child = "none" /\ kids = {}
  /\ spc \in {"resume", "closeThread"} => inJob
  /\ alive /\ spc \in {"closeStd", "assign", "resume"} => child = "suspended"
  /\ spc \in {"cleanClose", "abandoned"} => child = "dead"
  /\ spc \notin BeforeWait => open \subseteq {"job", "process"}
  /\ spc = "closeThread" => open \subseteq {"job", "process", "thread"}
  /\ spc \in {"assign", "resume"} => open \subseteq {"job", "process", "thread"}

\* What the waiter has established as long as nothing failed.
WaiterInv ==
  /\ done <=> spc = "joined"
  /\ result = "pending" <=> spc # "joined"
  /\ result = "ok" => ~waitFailed
  /\ ~waitFailed =>
       /\ spc \in {"code", "killJob", "closeProcess", "announce", "joined"} => child = "dead"
       /\ spc \in {"closeProcess", "announce", "joined"} => kids = {}
       /\ spc \in {"announce", "joined"} => open \subseteq {"job"}

\* closeMu has one holder, the job handle is closed under it, and success is
\* reported only for a child whose wait succeeded.
CloseInv ==
  /\ closed => done /\ (closeErr = "ok" => result = "ok" /\ open = {})
  /\ \A c \in Callers : pc[c] \in InClose => closer = {c} /\ ~closed
  /\ \A c \in Callers : pc[c] = "shut" => closed /\ ret[c] = closeErr
  /\ \A c \in Callers : ret[c] = "ok" => done /\ result = "ok"
  /\ \A c \in misused : pc[c] \in {"termWait", "terminated"}

Inv == TypeOK /\ JobInv /\ StartInv /\ WaiterInv /\ CloseInv

USE DEF Starting, Cleaning, NoHandle, SpcPoint, CallerPC, Handles, BeforeWait, HasJob,
        InClose
-----------------------------------------------------------------------------
\* The number of failed system calls stays within its bound.
LEMMA FaultCounted ==
  /\ 0 \in 0 .. MaxFaults
  /\ faults \in 0 .. MaxFaults /\ Fault => faults' \in 0 .. MaxFaults
  BY FaultsAssumption DEF Fault

\* The invariant holds when StartProcess begins.
LEMMA InitInv == Init => Inv
<1> SUFFICES ASSUME Init PROVE Inv
  OBVIOUS
<1>1. TypeOK
  <2>1. pc \in [Callers -> CallerPC] /\ ret \in [Callers -> {"none", "ok", "failed"}]
    BY DEF Init
  <2> QED
    BY <2>1, FaultCounted DEF Init, TypeOK
<1>2. JobInv /\ StartInv
  BY DEF Init, JobInv, StartInv
<1>3. WaiterInv /\ CloseInv
  BY DEF Init, WaiterInv, CloseInv
<1> QED
  BY <1>1, <1>2, <1>3 DEF Inv

Children == {"none", "suspended", "running", "dying", "dead"}

\* What is running keeps its type in the start, ...
LEMMA StarterGroup ==
  ASSUME TypeOK, Start
  PROVE  child' \in Children /\ inJob' \in BOOLEAN /\ kids' \subseteq Kids
  BY DEF TypeOK, Children, Started, group, Live, Killed, JobClosed, KillOnJobClose, Start,
         CreateJob, DuplicateStandardHandles, CreateProcess, CloseStandard, Assign,
         Resume, CloseThread, CleanKill, CleanWait, CleanClose

\* ... so do the handles, ...
LEMMA StarterHandles == TypeOK /\ Start => open' \subseteq Handles
  BY DEF TypeOK, Start, CreateJob, DuplicateStandardHandles, CreateProcess, CloseStandard, Assign,
         Resume, CloseThread, CleanKill, CleanWait, CleanClose

\* ... and the control point and the faults.
LEMMA StarterPoint == TypeOK /\ Start => spc' \in SpcPoint /\ faults' \in 0 .. MaxFaults
<1>1. Start => spc' \in SpcPoint
  BY DEF Goto, Start, CreateJob, DuplicateStandardHandles, CreateProcess, CloseStandard, Assign,
         Resume, CloseThread, CleanKill, CleanWait, CleanClose
<1>2. TypeOK /\ Start => faults' \in 0 .. MaxFaults
  BY FaultCounted DEF TypeOK, Start, CreateJob, DuplicateStandardHandles, CreateProcess, CloseStandard, Assign,
         Resume, CloseThread, CleanKill, CleanWait, CleanClose
<1> QED
  BY <1>1, <1>2

\* Every step of the start and of its clean-up keeps the types.
LEMMA StarterType == TypeOK /\ Start => TypeOK'
<1>1. Start => Started
  BY DEF Start, CreateJob, DuplicateStandardHandles, CreateProcess, CloseStandard, Assign,
         Resume, CloseThread, CleanKill, CleanWait, CleanClose
<1> QED
  BY <1>1, StarterGroup, StarterHandles, StarterPoint
  DEF TypeOK, Started, closing, calls, Children

\* Every step of the start and of its clean-up preserves the invariant.
LEMMA StarterInv == Inv /\ Start => Inv'
<1> SUFFICES ASSUME Inv, Start PROVE Inv'
  OBVIOUS
<1>1. TypeOK'
  BY StarterType DEF Inv
<1>2. /\ Started /\ spc \in Starting \cup Cleaning
      /\ spc' \in BeforeWait \cup {"wait"} /\ (open' \subseteq {"job", "process"} \/ spc' # "wait")
  BY DEF Inv, StartInv, At, Goto, Start, CreateJob, DuplicateStandardHandles, CreateProcess,
         CloseStandard, Assign, Resume, CloseThread, CleanKill, CleanWait, CleanClose
<1>3. WaiterInv' /\ CloseInv'
  BY <1>2 DEF Inv, WaiterInv, StartInv, CloseInv, Started, closing, calls
<1>4. JobInv' /\ StartInv'
  <2> USE DEF Inv, TypeOK, JobInv, StartInv, WaiterInv, At, Goto, Started, group, closing,
          calls, Live, Killed, JobClosed, KillOnJobClose
  <2>1. CASE CreateJob
    BY <2>1 DEF CreateJob
  <2>2. CASE DuplicateStandardHandles
    BY <2>2 DEF DuplicateStandardHandles
  <2>3. CASE CreateProcess
    BY <2>3 DEF CreateProcess
  <2>4. CASE CloseStandard
    BY <2>4 DEF CloseStandard
  <2>5. CASE Assign
    BY <2>5 DEF Assign
  <2>6. CASE Resume
    BY <2>6 DEF Resume
  <2>7. CASE CloseThread
    BY <2>7 DEF CloseThread
  <2>8. CASE CleanKill
    BY <2>8 DEF CleanKill
  <2>9. CASE CleanWait
    BY <2>9 DEF CleanWait
  <2>10. CASE CleanClose
    BY <2>10 DEF CleanClose
  <2> QED
    BY <2>1, <2>2, <2>3, <2>4, <2>5, <2>6, <2>7, <2>8, <2>9, <2>10 DEF Start
<1> QED
  BY <1>1, <1>3, <1>4 DEF Inv

\* What the waiter changes keeps its type.
LEMMA WaiterFields ==
  ASSUME TypeOK, Waiter
  PROVE  /\ child' \in Children /\ kids' \subseteq Kids /\ open' \subseteq Handles
         /\ spc' \in SpcPoint /\ waitFailed' \in BOOLEAN /\ done' \in BOOLEAN
         /\ result' \in {"pending", "ok", "failed"} /\ faults' \in 0 .. MaxFaults
<1>1. spc' \in SpcPoint
  BY DEF Goto, Waiter, WaitForChild, GetExitCode, KillJob, CloseProcessHandle, Announce
<1>2. faults' \in 0 .. MaxFaults /\ waitFailed' \in BOOLEAN
  BY FaultCounted DEF TypeOK, Fine, Report, Waiter, WaitForChild, GetExitCode, KillJob,
                     CloseProcessHandle, Announce
<1>3. open' \subseteq Handles
  BY DEF TypeOK, Waiter, WaitForChild, GetExitCode, KillJob, CloseProcessHandle, Announce
<1>4. child' \in Children /\ kids' \subseteq Kids
  BY DEF TypeOK, Children, Live, Killed, JobTerminated, Waiter, WaitForChild, GetExitCode,
         KillJob, CloseProcessHandle, Announce
<1>5. done' \in BOOLEAN /\ result' \in {"pending", "ok", "failed"}
  BY DEF TypeOK, Waiter, WaitForChild, GetExitCode, KillJob, CloseProcessHandle, Announce
<1> QED
  BY <1>1, <1>2, <1>3, <1>4, <1>5

\* Every step of the waiter keeps the types.
LEMMA WaiterType == TypeOK /\ Waiter => TypeOK'
<1>1. Waiter => Waiting
  BY DEF Waiter, WaitForChild, GetExitCode, KillJob, CloseProcessHandle, Announce
<1> QED
  BY <1>1, WaiterFields DEF TypeOK, Waiting, closing, calls, Children

\* Every step of the waiter preserves the invariant.
LEMMA WaiterStepInv == Inv /\ Waiter => Inv'
<1> SUFFICES ASSUME Inv, Waiter PROVE Inv'
  OBVIOUS
<1>0. TypeOK'
  BY WaiterType DEF Inv
<1> USE FaultCounted
    DEF Inv, TypeOK, JobInv, StartInv, WaiterInv, CloseInv, At, Goto, Waiting, Report,
        Fine, closing, calls, Live, Killed
<1>1. CASE WaitForChild
  <2>1. CASE child = "dead" /\ Goto("code") /\ Fine
    BY <1>1, <2>1 DEF WaitForChild
  <2>2. CASE Goto("killJob") /\ Report
    BY <1>1, <2>2 DEF WaitForChild
  <2> QED
    BY <1>1, <2>1, <2>2 DEF WaitForChild
<1>2. CASE GetExitCode
  <2>1. TypeOK'
    BY <1>0
  <2>2. JobInv'
    BY <1>2 DEF GetExitCode
  <2>3. StartInv'
    BY <1>2 DEF GetExitCode
  <2>4. WaiterInv'
    BY <1>2 DEF GetExitCode
  <2>5. CloseInv'
    BY <1>2 DEF GetExitCode
  <2> QED
    BY <2>1, <2>2, <2>3, <2>4, <2>5
<1>3. CASE KillJob
  <2>1. TypeOK'
    BY <1>0
  <2>2. JobInv'
    BY <1>3 DEF KillJob, JobTerminated
  <2>3. StartInv'
    BY <1>3 DEF KillJob, JobTerminated
  <2>4. WaiterInv'
    BY <1>3 DEF KillJob, JobTerminated
  <2>5. CloseInv'
    BY <1>3 DEF KillJob, JobTerminated
  <2> QED
    BY <2>1, <2>2, <2>3, <2>4, <2>5
<1>4. CASE CloseProcessHandle
  <2>1. CASE Fine /\ open' = open \ {"process"}
    BY <1>4, <2>1 DEF CloseProcessHandle
  <2>2. CASE Report /\ open' = open
    BY <1>4, <2>2 DEF CloseProcessHandle
  <2> QED
    BY <1>4, <2>1, <2>2 DEF CloseProcessHandle
<1>5. CASE Announce
  BY <1>5 DEF Announce
<1> QED
  BY <1>1, <1>2, <1>3, <1>4, <1>5 DEF Waiter

\* The death of the owner keeps the types.
LEMMA OwnerDiesType == TypeOK /\ OwnerDies => TypeOK'
<1> SUFFICES ASSUME TypeOK, OwnerDies PROVE TypeOK'
  OBVIOUS
<1>1. child' \in Children /\ kids' \subseteq Kids
  BY DEF TypeOK, OwnerDies, Children, Live, Killed, JobClosed, KillOnJobClose
<1>2. open' \subseteq Handles /\ alive' \in BOOLEAN
  BY DEF OwnerDies
<1> QED
  BY <1>1, <1>2 DEF TypeOK, OwnerDies, Children, waiter, closing, calls

\* The child, its descendants and the death of the owner preserve the invariant:
\* the system closes the job handle of a dead owner, and the job takes along
\* whatever runs.
LEMMA SystemInv == Inv /\ System => Inv'
<1> SUFFICES ASSUME Inv, System PROVE Inv'
  OBVIOUS
<1> USE DEF Inv, TypeOK, JobInv, StartInv, WaiterInv, CloseInv, waiter, closing, calls,
        Live, Killed, JobClosed, KillOnJobClose
<1>1. CASE ChildExit
  BY <1>1 DEF ChildExit
<1>2. CASE OwnerDies
  <2>1. TypeOK'
    BY <1>2, OwnerDiesType
  <2>2. JobInv'
    BY <1>2 DEF OwnerDies
  <2>3. StartInv'
    BY <1>2 DEF OwnerDies
  <2>4. WaiterInv'
    BY <1>2 DEF OwnerDies
  <2>5. CloseInv'
    BY <1>2 DEF OwnerDies
  <2> QED
    BY <2>1, <2>2, <2>3, <2>4, <2>5
<1>3. ASSUME NEW k \in Kids, Spawn(k) PROVE Inv'
  BY <1>3 DEF Spawn
<1>4. ASSUME NEW k \in Kids, KidExit(k) PROVE Inv'
  BY <1>4 DEF KidExit
<1> QED
  BY <1>1, <1>2, <1>3, <1>4 DEF System

\* What terminating or closing the job may do to what runs.
Contained ==
  /\ child' \in {"none", "suspended", "running", "dying", "dead"}
  /\ kids' \subseteq kids
  /\ child' = "running" => child = "running"
  /\ child = "dead" => child' = "dead"
  /\ faults' \in 0 .. MaxFaults

\* terminateProcess contains, and touches only a handle that is open or nobody's.
LEMMA TerminateContains ==
  ASSUME Inv, NEW c \in Callers, NEW ok \in BOOLEAN, TerminateNative(c, ok)
  PROVE  /\ Contained /\ open' = open
         /\ misused' = IF "job" \in open THEN misused ELSE misused \cup {c}
  BY FaultCounted
  DEF Inv, TypeOK, TerminateNative, JobTerminated, Live, Killed, Contained

\* The close that finds a successful wait closes the job handle, or remembers that it
\* could not, and nothing that was dead lives again.
LEMMA CloseContains ==
  ASSUME Inv, NEW c \in Callers, CloseCheck(c), done, result = "ok"
  PROVE  Inv'
<1>0. faults' \in 0 .. MaxFaults
  BY FaultCounted DEF Inv, TypeOK, CloseCheck, CloseNative
<1> USE DEF Inv, TypeOK, JobInv, StartInv, WaiterInv, CloseInv, Outside, waiter, calls
<1>1. PICK ok \in BOOLEAN : CloseNative(c, ok) /\ CloseSettles(c, ok)
  BY DEF CloseCheck
<1>2. /\ alive /\ pc[c] = "closeCheck" /\ "job" \in open /\ open \subseteq {"job"}
      /\ child = "dead" /\ kids = {}
  BY DEF CloseCheck
<1>3. /\ child' = "dead" /\ kids' = {} /\ misused' = misused /\ released' = TRUE
      /\ ok => open' = {}
      /\ ~ok => open' = open
      /\ faults' \in 0 .. MaxFaults
  <2>1. /\ released' = TRUE
        /\ \/ ok /\ open' = open \ {"job"} /\ JobClosed /\ misused' = misused /\ faults' = faults
           \/ ~ok /\ Fault /\ misused' = misused /\ open' = open /\ child' = child
              /\ kids' = kids
    BY <1>1, <1>2 DEF CloseNative
  <2>2. JobClosed => child' = child /\ kids' = {}
    BY <1>2 DEF JobClosed, KillOnJobClose, Live, Killed
  <2>3. CASE ok
    <3>1. open \ {"job"} = {}
      BY <1>2
    <3> QED
      BY <1>0, <1>2, <2>1, <2>2, <2>3, <3>1
  <2>4. CASE ~ok
    BY <1>0, <1>2, <2>1, <2>4
  <2> QED
    BY <2>3, <2>4
<1>4. PICK outcome \in {"ok", "failed"} :
        /\ outcome = "ok" => ok
        /\ closed' = TRUE /\ closeErr' = outcome /\ closer' = {}
        /\ pc' = [pc EXCEPT ![c] = "shut"] /\ ret' = [ret EXCEPT ![c] = outcome]
  BY <1>1 DEF CloseSettles, Move, Return
<1>5. UNCHANGED <<inJob, alive, waiter, failed, expired>>
  BY DEF CloseCheck
<1>6. pc' \in [Callers -> CallerPC] /\ ret' \in [Callers -> {"none", "ok", "failed"}]
  BY <1>4
<1>7. TypeOK'
  BY <1>3, <1>4, <1>5, <1>6
<1>8. JobInv' /\ StartInv'
  BY <1>2, <1>3, <1>4, <1>5
<1>9. WaiterInv'
  BY <1>2, <1>3, <1>5
<1>10. CloseInv'
  BY <1>2, <1>3, <1>4, <1>5
<1> QED
  BY <1>7, <1>8, <1>9, <1>10

\* Every step of a caller preserves the invariant.
LEMMA CallerInv ==
  ASSUME Inv, NEW c \in Callers, Begin(c) \/ Expire(c) \/ Caller(c)
  PROVE  Inv'
<1> USE DEF Inv, TypeOK, JobInv, StartInv, WaiterInv, CloseInv, Move, Return, Outside,
        Nothing, waiter, closing
<1>1. CASE Begin(c)
  BY <1>1 DEF Begin
<1>2. CASE Expire(c)
  BY <1>2 DEF Expire
<1>3. CASE TerminateCheck(c)
  BY <1>3 DEF TerminateCheck
<1>4. CASE TerminateKill(c)
  <2>1. PICK ok \in BOOLEAN :
          /\ TerminateNative(c, ok)
          /\ IF ok THEN Move(c, "termWait") /\ UNCHANGED ret
                   ELSE Return(c, "terminated", "failed")
    BY <1>4 DEF TerminateKill
  <2>2. alive /\ pc[c] = "termKill"
    BY <1>4 DEF TerminateKill
  <2>3. Contained /\ open' = open /\ misused' \in {misused, misused \cup {c}}
    BY <2>1, TerminateContains
  <2>4. UNCHANGED <<inJob, alive, waiter, closing, failed, expired>>
    BY <1>4 DEF TerminateKill
  <2>5. \/ pc' = [pc EXCEPT ![c] = "termWait"] /\ ret' = ret
        \/ pc' = [pc EXCEPT ![c] = "terminated"] /\ ret' = [ret EXCEPT ![c] = "failed"]
    BY <2>1
  <2>6. pc' \in [Callers -> CallerPC] /\ ret' \in [Callers -> {"none", "ok", "failed"}]
    BY <2>5
  <2>7. TypeOK'
    BY <2>3, <2>4, <2>6 DEF Contained
  <2>8. JobInv' /\ StartInv'
    BY <2>2, <2>3, <2>4 DEF Contained
  <2>9. WaiterInv'
    BY <2>3, <2>4 DEF Contained
  <2>10. CloseInv'
    BY <2>2, <2>3, <2>4, <2>5
  <2> QED
    BY <2>7, <2>8, <2>9, <2>10
<1>5. CASE TerminateWait(c)
  BY <1>5 DEF TerminateWait
<1>6. CASE CloseLock(c)
  BY <1>6 DEF CloseLock
<1>7. CASE CloseCheck(c)
  <2>1. CASE ~done
    <3>1. /\ pc[c] = "closeCheck" /\ pc' = [pc EXCEPT ![c] = "closeKill"]
          /\ UNCHANGED <<child, kids, open, misused, faults, closing, ret, inJob, alive,
                         waiter, failed, expired>>
      BY <1>7, <2>1 DEF CloseCheck
    <3>2. pc' \in [Callers -> CallerPC]
      BY <3>1
    <3> QED
      BY <3>1, <3>2
  <2>2. CASE done /\ result = "failed"
    <3>1. /\ pc[c] = "closeCheck" /\ pc' = [pc EXCEPT ![c] = "shut"]
          /\ closed' = TRUE /\ closeErr' = "failed" /\ closer' = {}
          /\ ret' = [ret EXCEPT ![c] = "failed"]
          /\ UNCHANGED <<child, kids, open, misused, faults, released, inJob, alive,
                         waiter, failed, expired>>
      BY <1>7, <2>2 DEF CloseCheck, CloseSettles
    <3>2. pc' \in [Callers -> CallerPC] /\ ret' \in [Callers -> {"none", "ok", "failed"}]
      BY <3>1
    <3> QED
      BY <2>2, <3>1, <3>2
  <2>3. CASE done /\ result = "ok"
    BY <1>7, <2>3, CloseContains DEF CloseCheck
  <2> QED
    BY <1>7, <2>1, <2>2, <2>3 DEF CloseCheck
<1>8. CASE CloseKill(c)
  <2>1. PICK ok \in BOOLEAN :
          /\ TerminateNative(c, ok)
          /\ failed' = IF ok THEN failed ELSE failed \cup {c}
    BY <1>8 DEF CloseKill
  <2>2. alive /\ pc[c] = "closeKill" /\ pc' = [pc EXCEPT ![c] = "closePause"]
    BY <1>8 DEF CloseKill
  <2>3. "job" \in open
    BY <2>2
  <2>4. Contained /\ open' = open /\ misused' = misused
    BY <2>1, <2>3, TerminateContains
  <2>5. UNCHANGED <<inJob, alive, waiter, closing, expired, ret>>
    BY <1>8 DEF CloseKill
  <2>6. pc' \in [Callers -> CallerPC] /\ failed' \subseteq Callers
    BY <2>1, <2>2
  <2>7. TypeOK'
    BY <2>4, <2>5, <2>6 DEF Contained
  <2>8. JobInv' /\ StartInv'
    BY <2>2, <2>4, <2>5 DEF Contained
  <2>9. WaiterInv'
    BY <2>4, <2>5 DEF Contained
  <2>10. CloseInv'
    BY <2>2, <2>4, <2>5
  <2> QED
    BY <2>7, <2>8, <2>9, <2>10
<1>9. CASE ClosePause(c)
  BY <1>9 DEF ClosePause
<1> QED
  BY <1>1, <1>2, <1>3, <1>4, <1>5, <1>6, <1>7, <1>8, <1>9 DEF Caller

\* Inv is inductive.
LEMMA NextInv == Inv /\ [Next]_vars => Inv'
<1>1. Inv /\ UNCHANGED vars => Inv'
  BY DEF Inv, TypeOK, JobInv, StartInv, WaiterInv, CloseInv, vars, group, waiter, closing,
         calls
<1> QED
  BY <1>1, StarterInv, WaiterStepInv, SystemInv, CallerInv DEF Next, Over

\* The inductive invariant holds in every state of every behaviour.
THEOREM Invariance == Spec => []Inv
  BY InitInv, NextInv, PTL DEF Spec

-----------------------------------------------------------------------------
\* Type correctness of the Windows process; in particular the faults stay within
\* their bound and descendants are only those of this child.
THEOREM TypeCorrect == Spec => []TypeOK
<1>1. Inv => TypeOK
  BY DEF Inv
<1> QED
  BY <1>1, Invariance, PTL

\* Wherever the owner dies, in the start, the clean-up, the wait or a close,
\* nothing of its child goes on running.
THEOREM Containment == Spec => []NothingOutlivesOwner
<1>1. Inv => NothingOutlivesOwner
  BY DEF Inv, JobInv, NothingOutlivesOwner
<1> QED
  BY <1>1, Invariance, PTL

\* A start that is given up after CreateProcess leaves a dead child and at most
\* what the job handle that would not close still contains.
THEOREM FailedStart == Spec => []FailedStartLeavesNothing
<1>1. Inv => FailedStartLeavesNothing
  BY DEF Inv, JobInv, StartInv, FailedStartLeavesNothing
<1> QED
  BY <1>1, Invariance, PTL

\* Success of Terminate or CloseContext means that everything is dead, and that
\* CloseContext has no handle left.
THEOREM Success == Spec => []SuccessMeansGone
<1>1. Inv => SuccessMeansGone
  BY DEF Inv, WaiterInv, CloseInv, SuccessMeansGone
<1> QED
  BY <1>1, Invariance, PTL

\* No number of repeated and concurrent closes passes a closed job handle to the
\* system.
THEOREM HandleOwned == Spec => []CloseOwnsHandle
<1>1. Inv => CloseOwnsHandle
  BY DEF Inv, CloseInv, CloseOwnsHandle
<1> QED
  BY <1>1, Invariance, PTL

-----------------------------------------------------------------------------
(* The refinement.                                                         *)

Ended == {"terminated", "shut"}

\* A step of a call that does not end it tells nobody anything.
LEMMA ToldWaits ==
  ASSUME NEW c \in Callers, NEW label, TypeOK, pc[c] \notin Ended, label \notin Ended,
         pc' = [pc EXCEPT ![c] = label], ret' = ret
  PROVE  Told' = Told
  BY DEF Told, TypeOK, Ended

\* The last step of a call tells its caller, and nobody else, what it returns.
LEMMA ToldMoves ==
  ASSUME NEW c \in Callers, NEW label \in Ended, NEW value, TypeOK, pc[c] \notin Ended,
         Return(c, label, value)
  PROVE  Owned!Tell(c, label, value)
  BY DEF Told, TypeOK, Return, Move, Owned!Tell, Ended

\* Where nothing is published, settled or told, something may have ended at most.
LEMMA Quiet ==
  ASSUME Gone => Gone', UNCHANGED <<result, closed, closeErr, pc, ret>>
  PROVE  Owned!End \/ UNCHANGED <<Gone, result, Outcome, Told>>
  BY DEF Owned!End, Gone, Outcome, Told

\* What is dead does not come back, whoever starts, waits, forks or dies.
LEMMA GoneStays == ASSUME Inv, Start \/ Waiter \/ System, Gone PROVE Gone'
<1> USE DEF Inv, TypeOK, JobInv, StartInv, Gone, Live, Killed, JobClosed, JobTerminated,
            KillOnJobClose, At, Goto, Started, group
<1>1. CASE Start
  <2>1. spc \notin {"job", "std", "create"}
    OBVIOUS
  <2>2. CreateJob \/ DuplicateStandardHandles \/ CreateProcess => FALSE
    BY <2>1 DEF CreateJob, DuplicateStandardHandles, CreateProcess
  <2>3. CloseStandard \/ Assign \/ Resume \/ CloseThread => Gone'
    BY DEF CloseStandard, Assign, Resume, CloseThread
  <2>4. CleanKill => Gone'
    BY DEF CleanKill
  <2>5. CleanWait \/ CleanClose => Gone'
    BY DEF CleanWait, CleanClose
  <2> QED
    BY <1>1, <2>2, <2>3, <2>4, <2>5 DEF Start
<1>2. CASE Waiter
  BY <1>2 DEF Waiter, WaitForChild, GetExitCode, KillJob, CloseProcessHandle, Announce
<1>3. CASE System
  BY <1>3 DEF System, ChildExit, OwnerDies, Spawn, KidExit
<1> QED
  BY <1>1, <1>2, <1>3

\* The start, the waiter and the system: the waiter publishes, the rest is quiet.
LEMMA OthersRefine ==
  ASSUME Inv, Start \/ Waiter \/ System
  PROVE  \/ \E v \in Owned!Values : Owned!Publish(v)
         \/ Owned!End \/ UNCHANGED <<Gone, result, Outcome, Told>>
<1> USE DEF waiter, closing, calls
<1>1. CASE Announce
  <2>1. result = "pending" /\ result' \in Owned!Values /\ (result' = "ok" => Gone)
    BY <1>1 DEF Announce, At, Gone, Owned!Values, Inv, WaiterInv
  <2>2. UNCHANGED <<Gone, Outcome, Told>>
    BY <1>1 DEF Announce, Waiting, Gone, Outcome, Told
  <2>3. Owned!Publish(result')
    BY <2>1, <2>2 DEF Owned!Publish
  <2> QED
    BY <2>1, <2>3
<1>2. CASE ~Announce
  <2>1. UNCHANGED <<result, closed, closeErr, pc, ret>>
    <3>1. CASE Start
      BY <3>1 DEF Start, Started, CreateJob, DuplicateStandardHandles, CreateProcess,
                  CloseStandard, Assign, Resume, CloseThread, CleanKill, CleanWait, CleanClose
    <3>2. CASE Waiter
      BY <1>2, <3>2 DEF Waiter, Waiting, WaitForChild, GetExitCode, KillJob, CloseProcessHandle
    <3>3. CASE System
      BY <3>3 DEF System, ChildExit, OwnerDies, Spawn, KidExit
    <3> QED
      BY <3>1, <3>2, <3>3
  <2> QED
    BY <2>1, GoneStays, Quiet
<1> QED
  BY <1>1, <1>2

\* Terminating the job brings nothing back.
LEMMA TerminateKeeps ==
  ASSUME Inv, NEW c \in Callers, NEW ok \in BOOLEAN, TerminateNative(c, ok)
  PROVE  Gone => Gone'
<1>1. Contained
  BY TerminateContains
<1> QED
  BY <1>1 DEF Contained, Gone

\* The close that settles the outcome does so behind the result, and finds nothing left
\* to end if that was ok.
LEMMA CloseRefines ==
  ASSUME Inv, NEW c \in Callers, CloseCheck(c), done
  PROVE  \E v \in Owned!Values : Owned!Close(c, v)
<1>0. TypeOK /\ result \in Owned!Values /\ pc[c] = "closeCheck" /\ ~closed
  BY DEF Inv, TypeOK, WaiterInv, CloseInv, Owned!Values, CloseCheck
<1>1. PICK ok \in BOOLEAN : CloseSettles(c, ok) /\ (ok => result = "ok")
  BY <1>0 DEF CloseCheck, Owned!Values
<1> DEFINE value == IF ok /\ c \notin failed THEN "ok" ELSE "failed"
<1>2. Owned!Tell(c, "shut", value)
  BY <1>0, <1>1, ToldMoves DEF CloseSettles, Ended
<1>3. Outcome = "open" /\ Outcome' = value
  BY <1>0, <1>1 DEF CloseSettles, Outcome
<1>4. Gone' = Gone
  <2>1. CASE result = "failed"
    BY <1>0, <2>1 DEF CloseCheck, Gone
  <2>2. CASE result = "ok"
    <3>1. child = "dead" /\ kids = {}
      BY <2>2 DEF Inv, WaiterInv
    <3>2. PICK b \in BOOLEAN : CloseNative(c, b)
      BY <2>2 DEF CloseCheck
    <3> QED
      BY <3>1, <3>2 DEF CloseNative, JobClosed, KillOnJobClose, Killed, Live, Gone
  <2> QED
    BY <1>0, <2>1, <2>2 DEF Owned!Values
<1>5. result' = result
  BY DEF CloseCheck, Outside, waiter
<1>6. value \in {"failed", result} /\ value \in Owned!Values /\ result # "pending"
  BY <1>0, <1>1 DEF Owned!Values
<1> QED
  BY <1>2, <1>3, <1>4, <1>5, <1>6 DEF Owned!Close

\* A caller is told the result, the outcome it settles or finds, or an error.
LEMMA CallerRefines ==
  ASSUME Inv, NEW c \in Callers, Begin(c) \/ Expire(c) \/ Caller(c)
  PROVE  \/ Owned!CloseAgain(c) \/ Owned!End
         \/ \E v \in Owned!Values : Owned!Terminate(c, v) \/ Owned!Close(c, v)
         \/ UNCHANGED <<Gone, result, Outcome, Told>>
<1> DEFINE Ends(label, value) == Owned!Tell(c, label, value)
<1>0. TypeOK /\ (done => result \in Owned!Values)
  BY DEF Inv, TypeOK, WaiterInv, Owned!Values
<1>a. ASSUME Nothing PROVE Gone' = Gone /\ result' = result
  BY <1>a DEF Nothing, Outside, waiter, Gone
<1>b. ASSUME closing' = closing PROVE Outcome' = Outcome
  BY <1>b DEF closing, Outcome
<1>1. CASE Begin(c)
  <2>1. PICK label \in {"termCheck", "closeLock"} : Move(c, label)
    BY <1>1 DEF Begin
  <2>2. Told' = Told
    BY <1>0, <1>1, <2>1, ToldWaits DEF Begin, Move, Ended
  <2> QED
    BY <1>1, <1>a, <1>b, <2>2 DEF Begin
<1>2. CASE Expire(c)
  BY <1>2, <1>a, <1>b DEF Expire, Told
<1>3. CASE TerminateCheck(c)
  <2>1. CASE done
    <3>1. Ends("terminated", result)
      BY <1>0, <1>3, <2>1, ToldMoves DEF TerminateCheck, Ended
    <3>2. Owned!Terminate(c, result)
      BY <1>0, <1>3, <1>a, <1>b, <2>1, <3>1 DEF TerminateCheck, Owned!Terminate, Owned!Values
    <3> QED
      BY <1>0, <2>1, <3>2
  <2>2. CASE ~done
    <3>1. Told' = Told
      BY <1>0, <1>3, <2>2, ToldWaits DEF TerminateCheck, Move, Ended
    <3> QED
      BY <1>3, <1>a, <1>b, <3>1 DEF TerminateCheck
  <2> QED
    BY <2>1, <2>2
<1>4. CASE TerminateKill(c)
  <2>1. PICK ok \in BOOLEAN :
          /\ TerminateNative(c, ok)
          /\ IF ok THEN Move(c, "termWait") /\ UNCHANGED ret
                   ELSE Return(c, "terminated", "failed")
    BY <1>4 DEF TerminateKill
  <2>2. pc[c] = "termKill" /\ UNCHANGED <<result, closing>>
    BY <1>4 DEF TerminateKill, Outside, waiter
  <2>3. Gone => Gone'
    BY <2>1, TerminateKeeps
  <2>4. CASE ok
    <3>1. Told' = Told
      BY <1>0, <2>1, <2>2, <2>4, ToldWaits DEF Move, Ended
    <3> QED
      BY <1>b, <2>2, <2>3, <3>1 DEF Owned!End, Gone
  <2>5. CASE ~ok
    <3>1. Ends("terminated", "failed")
      BY <1>0, <2>1, <2>2, <2>5, ToldMoves DEF Ended
    <3>2. Gone' = Gone
      BY <2>1, <2>5 DEF TerminateNative, Gone
    <3>3. Owned!Terminate(c, "failed") /\ "failed" \in Owned!Values
      BY <1>b, <2>2, <3>1, <3>2 DEF Owned!Terminate, Owned!Values
    <3> QED
      BY <3>3
  <2> QED
    BY <2>4, <2>5
<1>5. CASE TerminateWait(c)
  <2>1. PICK v \in {"failed", result} : Return(c, "terminated", v) /\ (v # "failed" => done)
    BY <1>5 DEF TerminateWait
  <2>2. Ends("terminated", v)
    BY <1>0, <1>5, <2>1, ToldMoves DEF TerminateWait, Ended
  <2>3. Owned!Terminate(c, v) /\ v \in Owned!Values
    BY <1>0, <1>5, <1>a, <1>b, <2>1, <2>2 DEF TerminateWait, Owned!Terminate, Owned!Values
  <2> QED
    BY <2>3
<1>6. CASE CloseLock(c)
  <2>1. CASE closed
    <3>1. Ends("shut", closeErr)
      BY <1>0, <1>6, <2>1, ToldMoves DEF CloseLock, Ended
    <3>2. Outcome = closeErr /\ Outcome # "open" /\ Outcome' = Outcome
      BY <1>0, <1>6, <2>1 DEF CloseLock, Outcome, TypeOK
    <3> QED
      BY <1>6, <1>a, <3>1, <3>2 DEF CloseLock, Owned!CloseAgain
  <2>2. CASE ~closed
    <3>1. Told' = Told
      BY <1>0, <1>6, <2>2, ToldWaits DEF CloseLock, Move, Ended
    <3> QED
      BY <1>6, <1>a, <3>1 DEF CloseLock, Outcome
  <2> QED
    BY <2>1, <2>2
<1>7. CASE CloseCheck(c)
  <2>1. CASE done
    BY <1>7, <2>1, CloseRefines
  <2>2. CASE ~done
    <3>1. Told' = Told
      BY <1>0, <1>7, <2>2, ToldWaits DEF CloseCheck, Move, Ended
    <3> QED
      BY <1>7, <1>b, <2>2, <3>1 DEF CloseCheck, Outside, waiter, Gone
  <2> QED
    BY <2>1, <2>2
<1>8. CASE CloseKill(c)
  <2>1. Gone => Gone'
    BY <1>8, TerminateKeeps DEF CloseKill
  <2>2. Told' = Told
    BY <1>0, <1>8, ToldWaits DEF CloseKill, Move, Ended
  <2>3. UNCHANGED <<result, closing>>
    BY <1>8 DEF CloseKill, Outside, waiter
  <2> QED
    BY <1>b, <2>1, <2>2, <2>3 DEF Owned!End, Gone
<1>9. CASE ClosePause(c)
  <2>1. Told' = Told
    BY <1>0, <1>9, ToldWaits DEF ClosePause, Move, Ended
  <2> QED
    BY <1>9, <1>a, <1>b, <2>1 DEF ClosePause
<1> QED
  BY <1>1, <1>2, <1>3, <1>4, <1>5, <1>6, <1>7, <1>8, <1>9 DEF Caller

\* The callers of a child in its job are told what the Process of OwnedChild promises,
\* wherever a system call fails or the owner dies.
THEOREM Ownership == Spec => OwnsItsChild
<1>1. Init => Owned!Init
  BY DEF Init, Owned!Init, Gone, Outcome, Told
<1>2. Inv /\ [Next]_vars => [Owned!Next]_<<Gone, result, Outcome, Told>>
  <2>1. Inv /\ UNCHANGED vars => UNCHANGED <<Gone, result, Outcome, Told>>
    BY DEF vars, group, waiter, closing, calls, Gone, Outcome, Told
  <2> QED
    BY <2>1, OthersRefine, CallerRefines DEF Next, Over, Owned!Next
<1> QED
  BY <1>1, <1>2, Invariance, PTL DEF Spec, OwnsItsChild, Owned!Spec, Owned!vars
=============================================================================
