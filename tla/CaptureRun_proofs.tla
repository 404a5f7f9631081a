------------------------- MODULE CaptureRun_proofs -------------------------
(***************************************************************************)
(* Safety of CaptureRun for any number of captures, any of which may fail, *)
(* for any set of directory names and any number of tries.                 *)
(*                                                                         *)
(* The invariant says of each run which directory it holds at each control *)
(* point, where the password file is whole, that a running pg_dump belongs *)
(* to a run that has not yet passed its kill, and what an ended pump, a    *)
(* closed sink and a published archive imply.  A step of one run leaves    *)
(* this alone for another, since it touches only what the first one owns.  *)
(***************************************************************************)
EXTENDS CaptureRun, TLAPS

Unclaimed    == {"validate", "claim"}
Before       == {"validate", "claim", "passfile", "cert", "setup", "start"}
ChildPC      == {"copies", "loop", "finalize", "files", "kill"}
WithPassfile == {"cert", "setup", "start", "collect"} \cup ChildPC
Holding      == {"passfile", "removePassfile", "removeDirectory"} \cup WithPassfile

OwnsOne(r)  == id[r] \in Ids /\ \A i \in Ids : owner[i] = r <=> i = id[r]
OwnsNone(r) == \A i \in Ids : owner[i] # r
Removed(r)  == OwnsNone(r) \/ (refused[r] /\ failed[r])

\* The directory of a run, from Claim to RemoveDirectory.
DirInv(r) ==
  /\ pc[r] \in Unclaimed => id[r] = NoId /\ OwnsNone(r)
  /\ pc[r] \in Holding => OwnsOne(r)
  /\ pc[r] = "finish" => OwnsOne(r) \/ (id[r] = NoId /\ Removed(r))
  /\ pc[r] \in {"capture", "returned"} => Removed(r)
  /\ pc[r] \in WithPassfile => passfile[id[r]] = "whole"

\* Where pg_dump may run, and in what.
ChildInv(r) ==
  /\ pc[r] \in Before => child[r] = "none" /\ pump[r] = "none"
  /\ child[r] = "running" =>
       /\ pc[r] \in ChildPC \cup {"dead"}
       /\ id[r] \in Ids /\ owner[id[r]] = r /\ passfile[id[r]] = "whole"

\* From the output of pg_dump to the archive.
StreamInv(r) ==
  /\ child[r] = "ok" => made[r]
  /\ pump[r] = "ended" => Gone(r) /\ (made[r] => taken[r])
  /\ pc[r] = "finish" /\ ~failed[r] => child[r] = "ok" /\ pump[r] = "ended"
  /\ sink[r] = "closed" \/ archive[r] = "published" => child[r] = "ok" /\ made[r] /\ taken[r]
  /\ ret[r] = "ok" => archive[r] = "published"

Inv == TypeOK /\ \A r \in Runs : DirInv(r) /\ ChildInv(r) /\ StreamInv(r)

Step(r) == Runner(r) \/ Around(r)

USE DEF Unclaimed, Before, ChildPC, WithPassfile, Holding
-----------------------------------------------------------------------------
\* The invariant holds before the runs begin.
LEMMA InitInv == Init => Inv
  BY RunAssumption DEF Init, Inv, TypeOK, DirInv, ChildInv, StreamInv, OwnsOne, OwnsNone,
     Removed, Gone, PC

\* Moving on, with or without a failure.
LEMMA MoveType ==
  ASSUME TypeOK, NEW r \in Runs, NEW p \in PC, Pass(r, p) \/ GiveUp(r, p)
  PROVE  pc' \in [Runs -> PC] /\ failed' \in [Runs -> BOOLEAN]
<1> USE DEF TypeOK, Pass, GiveUp, Goto
<1>1. pc' \in [Runs -> PC]
  OBVIOUS
<1>2. failed' \in [Runs -> BOOLEAN]
  OBVIOUS
<1> QED
  BY <1>1, <1>2

\* Every step keeps the types.
LEMMA StepType == ASSUME TypeOK, NEW r \in Runs, Step(r) PROVE TypeOK'
<1> USE DEF TypeOK, Fail, control, disk, process, stream, context
<1>0. \A p \in PC : Pass(r, p) \/ GiveUp(r, p)
                   => pc' \in [Runs -> PC] /\ failed' \in [Runs -> BOOLEAN]
  <2> TAKE p \in PC
  <2> HAVE Pass(r, p) \/ GiveUp(r, p)
  <2> QED
    BY MoveType
<1> USE <1>0 DEF PC
<1>1. CASE Validate(r)
  BY <1>1 DEF Validate
<1>2. CASE Claim(r)
  <2>1. tries'[r] \in 0..Tries
    BY <1>2, RunAssumption DEF Claim
  <2>2. tries' \in [Runs -> 0..Tries]
    BY <1>2, <2>1 DEF Claim
  <2>3. pc' \in [Runs -> PC] /\ failed' \in [Runs -> BOOLEAN]
    <3>1. Pass(r, "passfile") \/ GiveUp(r, "finish") \/ Pass(r, "claim")
      BY <1>2 DEF Claim
    <3> QED
      BY <3>1
  <2>6. refused' \in [Runs -> BOOLEAN]
    <3>1. refused' = refused \/ refused' = [refused EXCEPT ![r] = TRUE]
      BY <1>2 DEF Claim
    <3> QED
      BY <3>1
  <2>4. owner' \in [Ids -> Runs \cup {Nobody}]
    BY <1>2 DEF Claim
  <2>5. id' \in [Runs -> Ids \cup {NoId}]
    BY <1>2 DEF Claim
  <2> QED
    BY <1>2, <2>2, <2>3, <2>4, <2>5, <2>6 DEF Claim
<1>3. CASE ClaimFails(r)
  BY <1>3 DEF ClaimFails
<1>4. CASE Passfile(r)
  <2>1. passfile' \in [Ids -> {"none", "partial", "whole"}]
    BY <1>4 DEF Passfile
  <2>2. pc' \in [Runs -> PC] /\ failed' \in [Runs -> BOOLEAN]
    BY <1>4 DEF Passfile
  <2> QED
    BY <1>4, <2>1, <2>2 DEF Passfile
<1>5. CASE Certificate(r)
  BY <1>5 DEF Certificate
<1>6. CASE Setup(r)
  BY <1>6 DEF Setup
<1>7. CASE Start(r)
  <2>1. child' \in [Runs -> {"none", "running", "ok", "failed"}]
    BY <1>7 DEF Start
  <2>2. waiter' \in [Runs -> {"none", "on", "done"}]
    BY <1>7 DEF Start
  <2>3. pc' \in [Runs -> PC] /\ failed' \in [Runs -> BOOLEAN]
    BY <1>7 DEF Start
  <2> QED
    BY <1>7, <2>1, <2>2, <2>3 DEF Start
<1>8. CASE CloseCopies(r)
  BY <1>8 DEF CloseCopies
<1>9. CASE LoopEnds(r)
  BY <1>9 DEF LoopEnds
<1>10. CASE Finalize(r)
  BY <1>10 DEF Finalize
<1>11. CASE CloseFiles(r)
  BY <1>11 DEF CloseFiles
<1>12. CASE Kill(r)
  BY <1>12 DEF Kill
<1>13. CASE Collect(r)
  BY <1>13 DEF Collect
<1>14. CASE Finish(r)
  BY <1>14 DEF Finish, Goto
<1>15. CASE RemovePassfile(r)
  BY <1>15 DEF RemovePassfile
<1>16. CASE RemoveDirectory(r)
  <2>1. owner' \in [Ids -> Runs \cup {Nobody}]
    BY <1>16 DEF RemoveDirectory
  <2>2. passfile' \in [Ids -> {"none", "partial", "whole"}]
    BY <1>16 DEF RemoveDirectory
  <2>4. refused' \in [Runs -> BOOLEAN]
    BY <1>16 DEF RemoveDirectory
  <2>3. pc' \in [Runs -> PC] /\ failed' \in [Runs -> BOOLEAN]
    BY <1>16 DEF RemoveDirectory
  <2> QED
    BY <1>16, <2>1, <2>2, <2>3, <2>4 DEF RemoveDirectory
<1>17. CASE Capture(r)
  BY <1>17 DEF Capture
<1>18. CASE LoopFails(r)
  BY <1>18 DEF LoopFails
<1>19. CASE ChildWrites(r)
  BY <1>19 DEF ChildWrites
<1>20. CASE ChildExits(r)
  BY <1>20 DEF ChildExits
<1>21. CASE PumpWrites(r)
  BY <1>21 DEF PumpWrites
<1>22. CASE PumpEnds(r)
  BY <1>22 DEF PumpEnds
<1>23. CASE PumpFails(r)
  BY <1>23 DEF PumpFails
<1>24. CASE WaitReturns(r)
  BY <1>24 DEF WaitReturns
<1>25. CASE ArchiveEnds(r)
  BY <1>25 DEF ArchiveEnds
<1>26. CASE ArchiveFails(r)
  BY <1>26 DEF ArchiveFails
<1>27. CASE Expire(r)
  BY <1>27 DEF Expire
<1>28. CASE Cancel(r)
  BY <1>28 DEF Cancel
<1>29. CASE Die(r)
  BY <1>29 DEF Die, Goto
<1> QED
  BY <1>1, <1>2, <1>3, <1>4, <1>5, <1>6, <1>7, <1>8, <1>9, <1>10, <1>11, <1>12, <1>13,
     <1>14, <1>15, <1>16, <1>17, <1>18, <1>19, <1>20, <1>21, <1>22, <1>23, <1>24, <1>25,
     <1>26, <1>27, <1>28, <1>29
     DEF Step, Runner, Around
-----------------------------------------------------------------------------
\* What a step of another run leaves alone.
Untouched(r) ==
  /\ pc'[r] = pc[r] /\ failed'[r] = failed[r] /\ ret'[r] = ret[r]
  /\ id'[r] = id[r] /\ refused'[r] = refused[r]
  /\ child'[r] = child[r] /\ made'[r] = made[r]
  /\ pump'[r] = pump[r] /\ taken'[r] = taken[r] /\ sink'[r] = sink[r] /\ archive'[r] = archive[r]
  /\ \A i \in Ids : owner'[i] = r <=> owner[i] = r
  /\ \A i \in Ids : owner[i] = r => passfile'[i] = passfile[i]

\* A step of a run touches nothing of another one: it takes a directory that nobody
\* owns, and writes or removes only in its own.
LEMMA OthersUntouched ==
  ASSUME Inv, NEW s \in Runs, Step(s), NEW r \in Runs, r # s
  PROVE  Untouched(r)
<1> USE RunAssumption
    DEF Inv, TypeOK, DirInv, OwnsOne, Untouched, Goto, GiveUp, Fail, Pass,
        control, disk, process, stream, context
<1>1. CASE Validate(s)
  BY <1>1 DEF Validate
<1>2. CASE Claim(s)
  BY <1>2 DEF Claim
<1>3. CASE ClaimFails(s)
  BY <1>3 DEF ClaimFails
<1>4. CASE Passfile(s)
  BY <1>4 DEF Passfile
<1>5. CASE Certificate(s)
  BY <1>5 DEF Certificate
<1>6. CASE Setup(s)
  BY <1>6 DEF Setup
<1>7. CASE Start(s)
  BY <1>7 DEF Start
<1>8. CASE CloseCopies(s)
  BY <1>8 DEF CloseCopies
<1>9. CASE LoopEnds(s)
  BY <1>9 DEF LoopEnds
<1>10. CASE Finalize(s)
  BY <1>10 DEF Finalize
<1>11. CASE CloseFiles(s)
  BY <1>11 DEF CloseFiles
<1>12. CASE Kill(s)
  BY <1>12 DEF Kill
<1>13. CASE Collect(s)
  BY <1>13 DEF Collect
<1>14. CASE Finish(s)
  BY <1>14 DEF Finish
<1>15. CASE RemovePassfile(s)
  BY <1>15 DEF RemovePassfile
<1>16. CASE RemoveDirectory(s)
  BY <1>16 DEF RemoveDirectory
<1>17. CASE Capture(s)
  BY <1>17 DEF Capture
<1>18. CASE LoopFails(s)
  BY <1>18 DEF LoopFails
<1>19. CASE ChildWrites(s)
  BY <1>19 DEF ChildWrites
<1>20. CASE ChildExits(s)
  BY <1>20 DEF ChildExits
<1>21. CASE PumpWrites(s)
  BY <1>21 DEF PumpWrites
<1>22. CASE PumpEnds(s)
  BY <1>22 DEF PumpEnds
<1>23. CASE PumpFails(s)
  BY <1>23 DEF PumpFails
<1>24. CASE WaitReturns(s)
  BY <1>24 DEF WaitReturns
<1>25. CASE ArchiveEnds(s)
  BY <1>25 DEF ArchiveEnds
<1>26. CASE ArchiveFails(s)
  BY <1>26 DEF ArchiveFails
<1>27. CASE Expire(s)
  BY <1>27 DEF Expire
<1>28. CASE Cancel(s)
  BY <1>28 DEF Cancel
<1>29. CASE Die(s)
  BY <1>29 DEF Die
<1> QED
  BY <1>1, <1>2, <1>3, <1>4, <1>5, <1>6, <1>7, <1>8, <1>9, <1>10, <1>11, <1>12, <1>13,
     <1>14, <1>15, <1>16, <1>17, <1>18, <1>19, <1>20, <1>21, <1>22, <1>23, <1>24,
     <1>25, <1>26, <1>27, <1>28, <1>29
     DEF Step, Runner, Around

\* So the other run's part of the invariant stays.
LEMMA OthersInv ==
  ASSUME NEW r \in Runs, Untouched(r), DirInv(r), ChildInv(r), StreamInv(r), TypeOK
  PROVE  DirInv(r)' /\ ChildInv(r)' /\ StreamInv(r)'
<1>1. DirInv(r)'
  BY DEF Untouched, DirInv, OwnsOne, OwnsNone, Removed
<1>2. ChildInv(r)'
  BY DEF Untouched, ChildInv
<1>3. StreamInv(r)'
  BY DEF Untouched, StreamInv, Gone
<1> QED
  BY <1>1, <1>2, <1>3
-----------------------------------------------------------------------------
\* A run's own step keeps what is said of its directory.
LEMMA StepDir == ASSUME Inv, NEW r \in Runs, Step(r) PROVE DirInv(r)'
<1> USE RunAssumption
    DEF Inv, TypeOK, DirInv, OwnsOne, OwnsNone, Removed,
        Goto, GiveUp, Fail, Pass, control, disk, process, stream, context
<1>1. CASE Validate(r)
  BY <1>1 DEF Validate
<1>2. CASE Claim(r)
  BY <1>2 DEF Claim
<1>3. CASE ClaimFails(r)
  BY <1>3 DEF ClaimFails
<1>4. CASE Passfile(r)
  BY <1>4 DEF Passfile
<1>5. CASE Certificate(r)
  BY <1>5 DEF Certificate
<1>6. CASE Setup(r)
  BY <1>6 DEF Setup
<1>7. CASE Start(r)
  BY <1>7 DEF Start
<1>8. CASE CloseCopies(r)
  BY <1>8 DEF CloseCopies
<1>9. CASE LoopEnds(r)
  BY <1>9 DEF LoopEnds
<1>10. CASE Finalize(r)
  BY <1>10 DEF Finalize
<1>11. CASE CloseFiles(r)
  BY <1>11 DEF CloseFiles
<1>12. CASE Kill(r)
  BY <1>12 DEF Kill
<1>13. CASE Collect(r)
  BY <1>13 DEF Collect
<1>14. CASE Finish(r)
  BY <1>14 DEF Finish
<1>15. CASE RemovePassfile(r)
  BY <1>15 DEF RemovePassfile
<1>16. CASE RemoveDirectory(r)
  BY <1>16 DEF RemoveDirectory
<1>17. CASE Capture(r)
  BY <1>17 DEF Capture
<1>18. CASE LoopFails(r)
  BY <1>18 DEF LoopFails
<1>19. CASE Cancel(r)
  BY <1>19 DEF Cancel
<1>20. CASE Die(r)
  BY <1>20 DEF Die
<1>21. CASE ChildWrites(r) \/ ChildExits(r) \/ PumpWrites(r) \/ PumpEnds(r)
  BY <1>21 DEF ChildWrites, ChildExits, PumpWrites, PumpEnds
<1>22. CASE PumpFails(r) \/ WaitReturns(r) \/ ArchiveEnds(r) \/ ArchiveFails(r)
  BY <1>22 DEF PumpFails, WaitReturns, ArchiveEnds, ArchiveFails
<1>23. CASE Expire(r)
  BY <1>23 DEF Expire
<1> QED
  BY <1>1, <1>2, <1>3, <1>4, <1>5, <1>6, <1>7, <1>8, <1>9, <1>10, <1>11, <1>12, <1>13,
     <1>14, <1>15, <1>16, <1>17, <1>18, <1>19, <1>20, <1>21, <1>22, <1>23
     DEF Step, Runner, Around

\* A run's own step keeps what is said of its pg_dump.
LEMMA StepChild == ASSUME Inv, NEW r \in Runs, Step(r) PROVE ChildInv(r)'
<1> USE RunAssumption
    DEF Inv, TypeOK, DirInv, ChildInv, OwnsOne,
        Goto, GiveUp, Fail, Pass, control, disk, process, stream, context
<1>1. CASE Validate(r)
  BY <1>1 DEF Validate
<1>2. CASE Claim(r)
  BY <1>2 DEF Claim
<1>3. CASE ClaimFails(r)
  BY <1>3 DEF ClaimFails
<1>4. CASE Passfile(r)
  BY <1>4 DEF Passfile
<1>5. CASE Certificate(r)
  BY <1>5 DEF Certificate
<1>6. CASE Setup(r)
  BY <1>6 DEF Setup
<1>7. CASE Start(r)
  BY <1>7 DEF Start
<1>8. CASE CloseCopies(r)
  BY <1>8 DEF CloseCopies
<1>9. CASE LoopEnds(r)
  BY <1>9 DEF LoopEnds
<1>10. CASE Finalize(r)
  BY <1>10 DEF Finalize
<1>11. CASE CloseFiles(r)
  BY <1>11 DEF CloseFiles
<1>12. CASE Kill(r)
  BY <1>12 DEF Kill
<1>13. CASE Collect(r)
  BY <1>13 DEF Collect
<1>14. CASE Finish(r)
  BY <1>14 DEF Finish
<1>15. CASE RemovePassfile(r)
  BY <1>15 DEF RemovePassfile
<1>16. CASE RemoveDirectory(r)
  BY <1>16 DEF RemoveDirectory
<1>17. CASE Capture(r)
  BY <1>17 DEF Capture
<1>18. CASE LoopFails(r)
  BY <1>18 DEF LoopFails
<1>19. CASE ChildWrites(r)
  BY <1>19 DEF ChildWrites
<1>20. CASE ChildExits(r)
  BY <1>20 DEF ChildExits
<1>21. CASE PumpWrites(r)
  BY <1>21 DEF PumpWrites
<1>22. CASE PumpEnds(r)
  BY <1>22 DEF PumpEnds
<1>23. CASE PumpFails(r)
  BY <1>23 DEF PumpFails
<1>24. CASE WaitReturns(r)
  BY <1>24 DEF WaitReturns
<1>25. CASE ArchiveEnds(r)
  BY <1>25 DEF ArchiveEnds
<1>26. CASE ArchiveFails(r)
  BY <1>26 DEF ArchiveFails
<1>27. CASE Expire(r)
  BY <1>27 DEF Expire
<1>28. CASE Cancel(r)
  BY <1>28 DEF Cancel
<1>29. CASE Die(r)
  BY <1>29 DEF Die
<1> QED
  BY <1>1, <1>2, <1>3, <1>4, <1>5, <1>6, <1>7, <1>8, <1>9, <1>10, <1>11, <1>12, <1>13,
     <1>14, <1>15, <1>16, <1>17, <1>18, <1>19, <1>20, <1>21, <1>22, <1>23, <1>24,
     <1>25, <1>26, <1>27, <1>28, <1>29
     DEF Step, Runner, Around

\* A run's own step keeps what is said of its output.
LEMMA StepStream == ASSUME Inv, NEW r \in Runs, Step(r) PROVE StreamInv(r)'
<1> USE RunAssumption
    DEF Inv, TypeOK, ChildInv, StreamInv, Gone,
        Goto, GiveUp, Fail, Pass, control, disk, process, stream, context
<1>1. CASE Validate(r)
  BY <1>1 DEF Validate
<1>2. CASE Claim(r)
  BY <1>2 DEF Claim
<1>3. CASE ClaimFails(r)
  BY <1>3 DEF ClaimFails
<1>4. CASE Passfile(r)
  BY <1>4 DEF Passfile
<1>5. CASE Certificate(r)
  BY <1>5 DEF Certificate
<1>6. CASE Setup(r)
  BY <1>6 DEF Setup
<1>7. CASE Start(r)
  BY <1>7 DEF Start
<1>8. CASE CloseCopies(r)
  BY <1>8 DEF CloseCopies
<1>9. CASE LoopEnds(r)
  BY <1>9 DEF LoopEnds
<1>10. CASE Finalize(r)
  BY <1>10 DEF Finalize
<1>11. CASE CloseFiles(r)
  BY <1>11 DEF CloseFiles
<1>12. CASE Kill(r)
  BY <1>12 DEF Kill
<1>13. CASE Collect(r)
  BY <1>13 DEF Collect
<1>14. CASE Finish(r)
  BY <1>14 DEF Finish
<1>15. CASE RemovePassfile(r)
  BY <1>15 DEF RemovePassfile
<1>16. CASE RemoveDirectory(r)
  BY <1>16 DEF RemoveDirectory
<1>17. CASE Capture(r)
  BY <1>17 DEF Capture
<1>18. CASE LoopFails(r)
  BY <1>18 DEF LoopFails
<1>19. CASE ChildWrites(r)
  BY <1>19 DEF ChildWrites
<1>20. CASE ChildExits(r)
  BY <1>20 DEF ChildExits
<1>21. CASE PumpWrites(r)
  BY <1>21 DEF PumpWrites
<1>22. CASE PumpEnds(r)
  BY <1>22 DEF PumpEnds
<1>23. CASE PumpFails(r)
  BY <1>23 DEF PumpFails
<1>24. CASE WaitReturns(r)
  BY <1>24 DEF WaitReturns
<1>25. CASE ArchiveEnds(r)
  BY <1>25 DEF ArchiveEnds
<1>26. CASE ArchiveFails(r)
  BY <1>26 DEF ArchiveFails
<1>27. CASE Expire(r)
  BY <1>27 DEF Expire
<1>28. CASE Cancel(r)
  BY <1>28 DEF Cancel
<1>29. CASE Die(r)
  BY <1>29 DEF Die
<1> QED
  BY <1>1, <1>2, <1>3, <1>4, <1>5, <1>6, <1>7, <1>8, <1>9, <1>10, <1>11, <1>12, <1>13,
     <1>14, <1>15, <1>16, <1>17, <1>18, <1>19, <1>20, <1>21, <1>22, <1>23, <1>24,
     <1>25, <1>26, <1>27, <1>28, <1>29
     DEF Step, Runner, Around

-----------------------------------------------------------------------------
\* Every step preserves the invariant: the type is global, and each run's part is kept
\* by its own steps and by those of the others.
LEMMA NextInv == Inv /\ [Next]_vars => Inv'
<1> SUFFICES ASSUME Inv, [Next]_vars PROVE Inv'
  OBVIOUS
<1>1. CASE Next
  <2>1. PICK s \in Runs : Step(s)
    BY <1>1 DEF Next, Step
  <2>2. TypeOK'
    BY <2>1, StepType DEF Inv
  <2>3. ASSUME NEW r \in Runs PROVE DirInv(r)' /\ ChildInv(r)' /\ StreamInv(r)'
    <3>1. CASE r = s
      BY <2>1, <3>1, StepDir, StepChild, StepStream
    <3>2. CASE r # s
      BY <2>1, <3>2, OthersUntouched, OthersInv DEF Inv
    <3> QED
      BY <3>1, <3>2
  <2> QED
    BY <2>2, <2>3 DEF Inv
<1>2. CASE UNCHANGED vars
  BY <1>2 DEF Inv, TypeOK, DirInv, ChildInv, StreamInv, OwnsOne, OwnsNone, Removed, Gone, vars,
     control, disk, process, stream, context
<1> QED
  BY <1>1, <1>2

\* The invariant always holds.
LEMMA Invariant == Spec => []Inv
  BY InitInv, NextInv, PTL DEF Spec

\* Type correctness, for any runs, directory names and number of tries.
THEOREM TypeCorrect == Spec => []TypeOK
<1>1. Inv => TypeOK
  BY DEF Inv
<1> QED
  BY <1>1, Invariant, PTL

\* The directory and the password of a run are gone when it is over, or could not be
\* removed, which is reported.
THEOREM SecretsGone == Spec => []SecretsAreRemoved
<1>1. Inv => SecretsAreRemoved
  BY DEF Inv, DirInv, Removed, OwnsNone, SecretsAreRemoved
<1> QED
  BY <1>1, Invariant, PTL

\* No run and no failure takes the directory of a running pg_dump away.
THEOREM DirectoryKept == Spec => []ChildKeepsItsDirectory
<1>1. Inv => ChildKeepsItsDirectory
  BY RunAssumption DEF Inv, ChildInv, ChildKeepsItsDirectory
<1> QED
  BY <1>1, Invariant, PTL

\* What is published is the whole output of a pg_dump that succeeded.
THEOREM PublishedWhole == Spec => []PublishedCaptureIsWhole
<1>1. Inv => PublishedCaptureIsWhole
  BY DEF Inv, StreamInv, PublishedCaptureIsWhole
<1> QED
  BY <1>1, Invariant, PTL
=============================================================================
