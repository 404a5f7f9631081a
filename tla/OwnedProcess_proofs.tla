------------------------ MODULE OwnedProcess_proofs ------------------------
(***************************************************************************)
(* Safety of OwnedProcess for any set of callers, any set of descendants   *)
(* and any number of failing system calls.                                 *)
(*                                                                         *)
(* None of the properties is inductive.  Inv adds what the code maintains: *)
(* which control points hold the native mutex, that leader, reaped, result *)
(* and done follow the waiter's control point, that a delivered signal     *)
(* leaves no live member, and which caller owns closeMu.                   *)
(***************************************************************************)
EXTENDS OwnedProcess, TLAPS

LockedPC  == {"observe", "kill", "reap", "markReaped"}
AfterReap == {"markReaped", "publish", "announce", "joined"}
ClosingPC == {"closeCheck", "closeKill", "closePause"}

\* The waiter's control point determines the mutex and the published state.
WaiterInv ==
  /\ muHeld <=> wpc \in LockedPC
  /\ reaped <=> wpc \in {"publish", "announce", "joined"}
  /\ done <=> wpc = "joined"
  /\ result = "pending" <=> wpc \notin {"announce", "joined"}
  /\ wpc \in Starting \cup {"abandoned"} => \A c \in Callers : pc[c] = "idle"

\* A group that was signalled is dead, and is signalled before it is reaped.
GroupInv ==
  /\ ~lateSignal
  /\ leader = "reaped" <=> wpc \in AfterReap \cup {"abandoned"}
  /\ signaled => leader # "running" /\ members = {}
  /\ wpc \in AfterReap \cup {"reap"} => signaled
  /\ wpc \in {"abortWait", "abandoned"} => leader # "running" /\ members = {}

\* closeMu has one holder, and closed is set once, after done.
CloseInv ==
  /\ closed => done /\ (closeErr = "ok" => result = "ok")
  /\ \A c \in Callers : pc[c] \in ClosingPC => closer = {c} /\ ~closed
  /\ \A c \in Callers : pc[c] = "shut" => closed /\ ret[c] = closeErr
  /\ \A c \in Callers : pc[c] = "terminated" /\ ret[c] = "ok" => done /\ result = "ok"

Inv == TypeOK /\ WaiterInv /\ GroupInv /\ CloseInv

USE DEF Starting, WaiterPC, CallerPC, LockedPC, AfterReap, ClosingPC
-----------------------------------------------------------------------------
\* The number of failed system calls stays within its bound.
LEMMA FaultCounted ==
  /\ 0 \in FaultCount
  /\ faults \in FaultCount /\ Fault => faults' \in FaultCount
  BY FaultsAssumption DEF FaultCount, Fault

\* The invariant holds when StartProcess begins.
LEMMA InitInv == Init => Inv
<1> SUFFICES ASSUME Init PROVE Inv
  OBVIOUS
<1>1. TypeOK
  <2>1. faults \in FaultCount
    BY FaultCounted DEF Init
  <2>2. pc \in [Callers -> CallerPC] /\ ret \in [Callers -> {"none", "ok", "failed"}]
    BY DEF Init
  <2> QED
    BY <2>1, <2>2 DEF Init, TypeOK
<1>2. WaiterInv
  BY DEF Init, WaiterInv
<1>3. GroupInv
  BY DEF Init, GroupInv
<1>4. CloseInv
  BY DEF Init, CloseInv
<1> QED
  BY <1>1, <1>2, <1>3, <1>4 DEF Inv

\* Starting the child, and giving it up, preserve the invariant.
LEMMA StartInv == Inv /\ Start => Inv'
<1> SUFFICES ASSUME Inv, Start PROVE Inv'
  OBVIOUS
<1> USE FaultCounted
    DEF Inv, TypeOK, WaiterInv, GroupInv, CloseInv,
        kernel, native, handle, closing, calls
<1>1. CASE CreateKqueue
  BY <1>1 DEF CreateKqueue
<1>2. CASE RegisterExit
  BY <1>2 DEF RegisterExit
<1>3. CASE AbortKill
  BY <1>3 DEF AbortKill, SignalGroup
<1>4. CASE AbortWait
  BY <1>4 DEF AbortWait
<1> QED
  BY <1>1, <1>2, <1>3, <1>4 DEF Start

\* Every step of the waiter preserves the invariant.
LEMMA WaiterStepInv == Inv /\ Waiter => Inv'
<1> SUFFICES ASSUME Inv, Waiter PROVE Inv'
  OBVIOUS
<1> USE FaultCounted
    DEF Inv, TypeOK, WaiterInv, GroupInv, CloseInv, AfterExit,
        kernel, native, handle, closing, calls
<1>1. CASE WaiterLock
  BY <1>1 DEF WaiterLock
<1>2. CASE Observe
  BY <1>2 DEF Observe
<1>3. CASE ObserveInterrupted
  BY <1>3 DEF ObserveInterrupted, PollFails
<1>4. CASE ObserveFails
  BY <1>4 DEF ObserveFails, PollFails
<1>5. CASE WaiterKill
  BY <1>5 DEF WaiterKill, KillGroup, SignalGroup
<1>6. CASE Reap
  BY <1>6 DEF Reap
<1>7. CASE ReapInterrupted
  BY <1>7 DEF ReapInterrupted
<1>8. CASE MarkReaped
  BY <1>8 DEF MarkReaped
<1>9. CASE Publish
  BY <1>9 DEF Publish
<1>10. CASE Announce
  BY <1>10 DEF Announce
<1> QED
  BY <1>1, <1>2, <1>3, <1>4, <1>5, <1>6, <1>7, <1>8, <1>9, <1>10 DEF Waiter

\* The child and its descendants preserve the invariant: after a signal no
\* process of the group is left to fork.
LEMMA KernelInv == Inv /\ Kernel => Inv'
<1> SUFFICES ASSUME Inv, Kernel PROVE Inv'
  OBVIOUS
<1> USE DEF Inv, TypeOK, WaiterInv, GroupInv, CloseInv,
        kernel, native, handle, closing, calls
<1>1. CASE LeaderExit
  BY <1>1 DEF LeaderExit
<1>2. ASSUME NEW k \in Kids, Fork(k) PROVE Inv'
  BY <1>2 DEF Fork
<1>3. ASSUME NEW k \in Kids, MemberExit(k) PROVE Inv'
  BY <1>3 DEF MemberExit
<1> QED
  BY <1>1, <1>2, <1>3 DEF Kernel

\* What a call of the native terminateProcess may do to the process group.
Signalled ==
  /\ lateSignal' = FALSE
  /\ leader' = "reaped" <=> leader = "reaped"
  /\ leader' \in {"running", "dying", "zombie", "reaped"}
  /\ members' \subseteq Kids
  /\ noted' = noted
  /\ signaled' \in BOOLEAN
  /\ signaled => signaled'
  /\ signaled' => leader' # "running" /\ members' = {}
  /\ faults' \in FaultCount

\* Called by a started caller, terminateProcess cannot reach a reaped group.
LEMMA TerminateSafe ==
  ASSUME Inv, NEW ok \in BOOLEAN, TerminateProcess(ok),
         NEW c \in Callers, pc[c] # "idle"
  PROVE  Signalled
<1> USE FaultCounted
    DEF Inv, TypeOK, WaiterInv, GroupInv, TerminateProcess, KillGroup, SignalGroup,
        Signalled, kernel
<1>1. CASE reaped
  BY <1>1
<1>2. CASE ~reaped
  <2>1. leader # "reaped"
    BY <1>2
  <2> QED
    BY <1>2, <2>1
<1> QED
  BY <1>1, <1>2

\* Every step of a caller preserves the invariant.
LEMMA CallerInv ==
  ASSUME Inv, NEW c \in Callers, Begin(c) \/ Expire(c) \/ Caller(c)
  PROVE  Inv'
<1> USE DEF Inv, TypeOK, WaiterInv, GroupInv, CloseInv, Goto, Return,
        kernel, native, handle, closing
<1>1. CASE Begin(c)
  BY <1>1 DEF Begin
<1>2. CASE Expire(c)
  BY <1>2 DEF Expire
<1>3. CASE Wait(c)
  BY <1>3 DEF Wait
<1>4. CASE TerminateCheck(c)
  BY <1>4 DEF TerminateCheck
<1>5. CASE TerminateKill(c)
  <2>1. PICK ok \in BOOLEAN :
          /\ TerminateProcess(ok)
          /\ IF ok THEN Goto(c, "termWait") /\ UNCHANGED ret
                   ELSE Return(c, "terminated", "failed")
    BY <1>5 DEF TerminateKill
  <2>2. pc[c] = "termKill"
    BY <1>5 DEF TerminateKill
  <2>3. Signalled
    BY <2>1, <2>2, TerminateSafe
  <2>4. UNCHANGED <<wpc, muHeld, fallback, exitObserved, reaped, handle, closing,
                    failed, expired>>
    BY <1>5 DEF TerminateKill
  <2>5. \/ pc' = [pc EXCEPT ![c] = "termWait"] /\ ret' = ret
        \/ pc' = [pc EXCEPT ![c] = "terminated"] /\ ret' = [ret EXCEPT ![c] = "failed"]
    BY <2>1
  <2>9. pc' \in [Callers -> CallerPC] /\ ret' \in [Callers -> {"none", "ok", "failed"}]
    BY <2>5
  <2>6. TypeOK'
    BY <2>3, <2>4, <2>9 DEF Signalled
  <2>7. WaiterInv'
    BY <2>2, <2>3, <2>4, <2>5 DEF Signalled
  <2>11. GroupInv'
    BY <2>2, <2>3, <2>4, <2>5 DEF Signalled
  <2>8. CloseInv'
    BY <2>2, <2>4, <2>5
  <2> QED
    BY <2>6, <2>7, <2>8, <2>11
<1>6. CASE TerminateWait(c)
  BY <1>6 DEF TerminateWait
<1>7. CASE CloseLock(c)
  BY <1>7 DEF CloseLock
<1>8. CASE CloseCheck(c)
  <2>1. CASE done
    <3>1. TypeOK'
      BY <1>8, <2>1 DEF CloseCheck
    <3>2. WaiterInv' /\ GroupInv'
      BY <1>8, <2>1 DEF CloseCheck
    <3>3. CloseInv'
      BY <1>8, <2>1 DEF CloseCheck
    <3> QED
      BY <3>1, <3>2, <3>3
  <2>2. CASE ~done
    BY <1>8, <2>2 DEF CloseCheck
  <2> QED
    BY <2>1, <2>2
<1>9. CASE CloseKill(c)
  <2>1. PICK ok \in BOOLEAN :
          /\ TerminateProcess(ok)
          /\ failed' = IF ok THEN failed ELSE failed \cup {c}
    BY <1>9 DEF CloseKill
  <2>2. pc[c] = "closeKill"
    BY <1>9 DEF CloseKill
  <2>3. Signalled
    BY <2>1, <2>2, TerminateSafe
  <2>4. /\ UNCHANGED <<wpc, muHeld, fallback, exitObserved, reaped, handle, closing,
                       expired, ret>>
        /\ pc' = [pc EXCEPT ![c] = "closePause"]
    BY <1>9 DEF CloseKill
  <2>5. failed' \subseteq Callers
    BY <2>1
  <2>9. pc' \in [Callers -> CallerPC]
    BY <2>4
  <2>10. UNCHANGED <<wpc, muHeld, fallback, exitObserved, reaped, handle, closing, expired, ret>>
    BY <2>4
  <2>6. TypeOK'
    BY <2>3, <2>5, <2>9, <2>10 DEF Signalled
  <2>7. WaiterInv'
    BY <2>2, <2>3, <2>4 DEF Signalled
  <2>11. GroupInv'
    BY <2>2, <2>3, <2>4 DEF Signalled
  <2>8. CloseInv'
    BY <2>2, <2>4
  <2> QED
    BY <2>6, <2>7, <2>8, <2>11
<1>10. CASE ClosePause(c)
  BY <1>10 DEF ClosePause
<1> QED
  BY <1>1, <1>2, <1>3, <1>4, <1>5, <1>6, <1>7, <1>8, <1>9, <1>10 DEF Caller

\* Inv is inductive.
LEMMA NextInv == Inv /\ [Next]_vars => Inv'
<1>1. Inv /\ UNCHANGED vars => Inv'
  BY DEF Inv, TypeOK, WaiterInv, GroupInv, CloseInv, vars,
         kernel, native, handle, closing, calls
<1> QED
  BY <1>1, StartInv, WaiterStepInv, KernelInv, CallerInv
  DEF Next, Quiescent, Abandoned

\* The inductive invariant holds in every state of every behaviour.
THEOREM Invariance == Spec => []Inv
  BY InitInv, NextInv, PTL DEF Spec

-----------------------------------------------------------------------------
\* Type correctness of the process lifecycle; in particular no call returns a
\* result before the waiter published it.
THEOREM TypeCorrect == Spec => []TypeOK
<1>1. Inv => TypeOK
  BY DEF Inv
<1> QED
  BY <1>1, Invariance, PTL

\* No interleaving of the waiter with any number of callers, and no failing
\* system call, lets kill(-pgid) run after the child was reaped.
THEOREM SignalSafety == Spec => []NoSignalAfterReap
<1>1. Inv => NoSignalAfterReap
  BY DEF Inv, GroupInv, NoSignalAfterReap
<1> QED
  BY <1>1, Invariance, PTL

\* The child is reaped only after its whole group was signalled.
THEOREM NoOrphan == Spec => []NoOrphanAfterReap
<1>1. Inv => NoOrphanAfterReap
  BY DEF Inv, GroupInv, NoOrphanAfterReap
<1> QED
  BY <1>1, Invariance, PTL

\* When CloseContext has returned, the child is reaped, its group is dead and
\* the waiter has joined.
THEOREM CloseResolves == Spec => []CloseResolvesOwnership
<1>1. Inv => CloseResolvesOwnership
  BY DEF Inv, WaiterInv, GroupInv, CloseInv, CloseResolvesOwnership
<1> QED
  BY <1>1, Invariance, PTL

\* All CloseContext calls agree, and report nil only for a successful wait.
THEOREM CloseAgreement == Spec => []CloseAgrees
<1>1. Inv => CloseAgrees
  BY DEF Inv, CloseInv, CloseAgrees
<1> QED
  BY <1>1, Invariance, PTL

\* Terminate succeeds only for a reaped child with a known exit status.
THEOREM TerminateSuccess == Spec => []TerminateOkMeansReaped
<1>1. Inv => TerminateOkMeansReaped
  BY DEF Inv, WaiterInv, GroupInv, CloseInv, TerminateOkMeansReaped
<1> QED
  BY <1>1, Invariance, PTL

-----------------------------------------------------------------------------
(* The refinement.                                                         *)

\* A step of a call that does not end it tells nobody anything.
LEMMA ToldWaits ==
  ASSUME NEW c \in Callers, NEW label, TypeOK, pc[c] \notin Returned, label \notin Returned,
         pc' = [pc EXCEPT ![c] = label], ret' = ret
  PROVE  Told' = Told
  BY DEF Told, TypeOK

\* The last step of a call tells its caller, and nobody else, what it returns.
LEMMA ToldMoves ==
  ASSUME NEW c \in Callers, NEW label \in Returned, NEW value, TypeOK, pc[c] \notin Returned,
         Return(c, label, value)
  PROVE  Owned!Tell(c, label, value)
  BY DEF Told, TypeOK, Return, Owned!Tell

\* A call of terminateProcess brings nothing back, and ends nothing that was not reaped.
LEMMA SignalIsQuiet ==
  ASSUME Inv, NEW ok \in BOOLEAN, TerminateProcess(ok), NEW c \in Callers, pc[c] # "idle"
  PROVE  Gone' = Gone
<1>1. Signalled
  BY TerminateSafe
<1> QED
  BY <1>1 DEF Signalled, Gone, Inv, WaiterInv, GroupInv, TerminateProcess, KillGroup

\* Where nothing is published, settled or told, something may have ended at most.
LEMMA Quiet ==
  ASSUME Gone => Gone', UNCHANGED <<result, closed, closeErr, pc, ret>>
  PROVE  Owned!End \/ UNCHANGED <<Gone, result, Outcome, Told>>
  BY DEF Owned!End, Gone, Outcome, Told

\* The start, the waiter and the kernel: the waiter publishes, the rest is quiet.
LEMMA OthersRefine ==
  ASSUME Inv, Start \/ Waiter \/ Kernel
  PROVE  \/ \E v \in Owned!Values : Owned!Publish(v)
         \/ Owned!End \/ UNCHANGED <<Gone, result, Outcome, Told>>
<1> USE DEF Inv, TypeOK, WaiterInv, GroupInv, kernel, native, handle, closing, calls
<1>1. CASE Publish
  <2>1. Gone /\ result = "pending" /\ result' \in Owned!Values
    BY <1>1 DEF Publish, Gone, Owned!Values
  <2>2. UNCHANGED <<Gone, Outcome, Told>>
    BY <1>1 DEF Publish, Gone, Outcome, Told
  <2>3. Owned!Publish(result')
    BY <2>1, <2>2 DEF Owned!Publish
  <2> QED
    BY <2>1, <2>3
<1>2. CASE ~Publish
  <2>1. UNCHANGED <<result, closed, closeErr, pc, ret>>
    <3>1. CASE Start
      BY <3>1 DEF Start, CreateKqueue, RegisterExit, AbortKill, AbortWait
    <3>2. CASE Waiter
      BY <1>2, <3>2 DEF Waiter, WaiterLock, Observe, ObserveInterrupted, ObserveFails,
                        WaiterKill, Reap, ReapInterrupted, MarkReaped, Announce
    <3>3. CASE Kernel
      BY <3>3 DEF Kernel, LeaderExit, Fork, MemberExit
    <3> QED
      BY <3>1, <3>2, <3>3
  <2>2. Gone => Gone'
    <3> SUFFICES ASSUME Gone PROVE Gone'
      OBVIOUS
    <3>1. leader = "reaped" /\ members = {} /\ wpc \in AfterReap \cup {"abandoned"}
      BY DEF Gone
    <3>2. CASE Start
      BY <3>1, <3>2 DEF Start, CreateKqueue, RegisterExit, AbortKill, AbortWait
    <3>3. CASE Waiter
      BY <1>2, <3>1, <3>3 DEF Gone, Waiter, WaiterLock, Observe, ObserveInterrupted,
                              ObserveFails, WaiterKill, Reap, ReapInterrupted, MarkReaped,
                              Announce
    <3>4. CASE Kernel
      BY <3>1, <3>4 DEF Kernel, LeaderExit, Fork, MemberExit
    <3> QED
      BY <3>2, <3>3, <3>4
  <2> QED
    BY <2>1, <2>2, Quiet
<1> QED
  BY <1>1, <1>2

\* A caller is told the result, the outcome it settles or finds, or an error.
LEMMA CallerRefines ==
  ASSUME Inv, NEW c \in Callers, Begin(c) \/ Expire(c) \/ Caller(c)
  PROVE  \/ Owned!Wait(c) \/ Owned!CloseAgain(c) \/ Owned!End
         \/ \E v \in Owned!Values : Owned!Terminate(c, v) \/ Owned!Close(c, v)
         \/ UNCHANGED <<Gone, result, Outcome, Told>>
<1> DEFINE Quietly == UNCHANGED <<Gone, result, Outcome, Told>>
           Ends(label, value) == Owned!Tell(c, label, value)
<1>0. TypeOK /\ (done => result \in Owned!Values)
  BY DEF Inv, TypeOK, WaiterInv, Owned!Values
<1>a. ASSUME kernel' = kernel PROVE Gone' = Gone
  BY <1>a DEF kernel, Gone
<1>b. ASSUME closing' = closing PROVE Outcome' = Outcome
  BY <1>b DEF closing, Outcome
<1>1. CASE Begin(c)
  <2>1. PICK label \in {"wait", "termCheck", "closeLock"} : Goto(c, label)
    BY <1>1 DEF Begin
  <2>2. Told' = Told
    BY <1>0, <1>1, <2>1, ToldWaits DEF Begin, Goto, Returned
  <2> QED
    BY <1>1, <1>a, <1>b, <2>2 DEF Begin, handle
<1>2. CASE Expire(c)
  BY <1>2, <1>a, <1>b DEF Expire, handle, Told
<1>3. CASE Wait(c)
  <2>1. Ends("waited", result)
    BY <1>0, <1>3, ToldMoves DEF Wait, Returned
  <2> QED
    BY <1>0, <1>3, <1>a, <1>b, <2>1 DEF Wait, Owned!Wait, Owned!Values, handle
<1>4. CASE TerminateCheck(c)
  <2>1. CASE done
    <3>1. Ends("terminated", result)
      BY <1>0, <1>4, <2>1, ToldMoves DEF TerminateCheck, Returned
    <3>2. Owned!Terminate(c, result)
      BY <1>0, <1>4, <1>a, <1>b, <2>1, <3>1 DEF TerminateCheck, Owned!Terminate, Owned!Values, handle
    <3> QED
      BY <1>0, <2>1, <3>2
  <2>2. CASE ~done
    <3>1. Told' = Told
      BY <1>0, <1>4, <2>2, ToldWaits DEF TerminateCheck, Goto, Returned
    <3> QED
      BY <1>4, <1>a, <1>b, <3>1 DEF TerminateCheck, handle
  <2> QED
    BY <2>1, <2>2
<1>5. CASE TerminateKill(c)
  <2>1. PICK ok \in BOOLEAN :
          /\ TerminateProcess(ok)
          /\ IF ok THEN Goto(c, "termWait") /\ UNCHANGED ret
                   ELSE Return(c, "terminated", "failed")
    BY <1>5 DEF TerminateKill
  <2>2. pc[c] = "termKill" /\ UNCHANGED <<handle, closing>>
    BY <1>5 DEF TerminateKill
  <2>3. Gone' = Gone
    BY <2>1, <2>2, SignalIsQuiet
  <2>4. CASE ok
    <3>1. Told' = Told
      BY <1>0, <2>1, <2>2, <2>4, ToldWaits DEF Goto, Returned
    <3> QED
      BY <1>b, <2>2, <2>3, <3>1 DEF handle
  <2>5. CASE ~ok
    <3>1. Ends("terminated", "failed")
      BY <1>0, <2>1, <2>2, <2>5, ToldMoves DEF Returned
    <3>2. Owned!Terminate(c, "failed") /\ "failed" \in Owned!Values
      BY <1>b, <2>2, <2>3, <3>1 DEF Owned!Terminate, Owned!Values, handle
    <3> QED
      BY <3>2
  <2> QED
    BY <2>4, <2>5
<1>6. CASE TerminateWait(c)
  <2>1. PICK v \in {"failed", result} : Return(c, "terminated", v) /\ (v # "failed" => done)
    BY <1>6 DEF TerminateWait
  <2>2. Ends("terminated", v)
    BY <1>0, <1>6, <2>1, ToldMoves DEF TerminateWait, Returned
  <2>3. Owned!Terminate(c, v) /\ v \in Owned!Values
    BY <1>0, <1>6, <1>a, <1>b, <2>1, <2>2
    DEF TerminateWait, Owned!Terminate, Owned!Values, handle
  <2> QED
    BY <2>3
<1>7. CASE CloseLock(c)
  <2>1. CASE closed
    <3>1. Ends("shut", closeErr)
      BY <1>0, <1>7, <2>1, ToldMoves DEF CloseLock, Returned
    <3>2. Outcome = closeErr /\ Outcome # "open" /\ Outcome' = Outcome
      BY <1>0, <1>7, <2>1 DEF CloseLock, Outcome, TypeOK
    <3> QED
      BY <1>7, <1>a, <3>1, <3>2 DEF CloseLock, Owned!CloseAgain, handle
  <2>2. CASE ~closed
    <3>1. Told' = Told
      BY <1>0, <1>7, <2>2, ToldWaits DEF CloseLock, Goto, Returned
    <3> QED
      BY <1>7, <1>a, <3>1 DEF CloseLock, Outcome, handle
  <2> QED
    BY <2>1, <2>2
<1>8. CASE CloseCheck(c)
  <2>1. CASE done
    <3> DEFINE value == IF result = "failed" \/ c \in failed THEN "failed" ELSE "ok"
    <3>1. Ends("shut", value)
      BY <1>0, <1>8, <2>1, ToldMoves DEF CloseCheck, Returned
    <3>2. Outcome = "open" /\ Outcome' = value
      BY <1>8, <2>1 DEF CloseCheck, Outcome, Inv, CloseInv
    <3>3. result # "pending" /\ value \in {"failed", result} /\ value \in Owned!Values
      BY <1>0, <2>1 DEF Owned!Values
    <3>4. Owned!Close(c, value)
      BY <1>8, <1>a, <3>1, <3>2, <3>3 DEF CloseCheck, Owned!Close, handle
    <3> QED
      BY <3>3, <3>4
  <2>2. CASE ~done
    <3>1. Told' = Told
      BY <1>0, <1>8, <2>2, ToldWaits DEF CloseCheck, Goto, Returned
    <3> QED
      BY <1>8, <1>a, <1>b, <2>2, <3>1 DEF CloseCheck, handle
  <2> QED
    BY <2>1, <2>2
<1>9. CASE CloseKill(c)
  <2>1. PICK ok \in BOOLEAN : TerminateProcess(ok)
    BY <1>9 DEF CloseKill
  <2>2. Gone' = Gone
    BY <1>9, <2>1, SignalIsQuiet DEF CloseKill
  <2>3. Told' = Told
    BY <1>0, <1>9, ToldWaits DEF CloseKill, Goto, Returned
  <2> QED
    BY <1>9, <1>b, <2>2, <2>3 DEF CloseKill, handle
<1>10. CASE ClosePause(c)
  <2>1. Told' = Told
    BY <1>0, <1>10, ToldWaits DEF ClosePause, Goto, Returned
  <2> QED
    BY <1>10, <1>a, <1>b, <2>1 DEF ClosePause, handle
<1> QED
  BY <1>1, <1>2, <1>3, <1>4, <1>5, <1>6, <1>7, <1>8, <1>9, <1>10 DEF Caller

\* Whatever the group, its callers and the kernel do, every caller is told what the
\* Process of OwnedChild promises.
THEOREM Ownership == Spec => OwnsItsChild
<1>1. Init => Owned!Init
  BY DEF Init, Owned!Init, Gone, Outcome, Told, Returned
<1>2. Inv /\ [Next]_vars => [Owned!Next]_<<Gone, result, Outcome, Told>>
  <2>1. Inv /\ UNCHANGED vars => UNCHANGED <<Gone, result, Outcome, Told>>
    BY DEF vars, kernel, handle, closing, calls, Gone, Outcome, Told
  <2> QED
    BY <2>1, OthersRefine, CallerRefines DEF Next, Quiescent, Abandoned, Owned!Next
<1> QED
  BY <1>1, <1>2, Invariance, PTL DEF Spec, OwnsItsChild, Owned!Spec, Owned!vars
=============================================================================
