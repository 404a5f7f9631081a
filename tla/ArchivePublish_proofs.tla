----------------------- MODULE ArchivePublish_proofs -----------------------
(***************************************************************************)
(* Safety of ArchivePublish for any set of creators, any number of         *)
(* components and any order of crashes, failures and damage.               *)
(*                                                                         *)
(* FinalIsComplete is not inductive: that the directory a creator renames  *)
(* is complete is known only from where the creator is, so Inv adds what   *)
(* each control point knows of the creator's directory.                    *)
(***************************************************************************)
EXTENDS ArchivePublish, TLAPS

Sealed == {"publish", "published", "ok"}

\* The cursor stays on a component wherever one is used.
CursorInv ==
  \A c \in Creators :
    /\ pc[c] \notin {"cleanup", "dead"} => cursor[c] \in Files
    /\ pc[c] = "write" => cursor[c] \in Components

\* Only a creator that published is at the final path, and it knows it is.
OwnerInv ==
  \A c \in Creators :
    /\ final = c => pc[c] \in {"published", "ok", "dead"}
    /\ pc[c] \in {"published", "ok"} => final = c

\* What a creator has read back is whole, until someone tampers with its archive.
ContentInv ==
  \A c \in Creators : ~(final = c /\ tampered) =>
    /\ pc[c] = "readback" => \A n \in Components : n < cursor[c] => disk[c][n] = "whole"
    /\ pc[c] \in Sealed \cup {"writeManifest"} => PayloadsWhole(c)
    /\ pc[c] \in Sealed \/ final = c => disk[c][ManifestFile] \in {"whole", "bad"}
    /\ final = c => PayloadsWhole(c)

Inv == TypeOK /\ CursorInv /\ OwnerInv /\ ContentInv

USE DEF PC, Done, Sealed, ManifestFile
-----------------------------------------------------------------------------
\* Where the loops over the files stand, without arithmetic.
LEMMA Loops ==
  /\ 0 \in Files /\ N \in Files /\ Components = Files \ {N} /\ Files \subseteq Positions
  /\ \A n \in Files : (n < N) = (n \in Components)
  /\ \A n \in Positions : (n <= N) = (n \in Files)
  /\ \A n \in Components : n + 1 \in Files /\ ~(n < 0)
  /\ \A n \in Files : n + 1 \in Positions
  /\ \A m, n \in Components : m < n + 1 => m < n \/ m = n
  BY NAssumption DEF Components, Files, Positions

\* No file lies before the first, and the loop of the cleanup reaches them all.
LEMMA NothingBelow == \A n \in Files : ~(n < 0)
  BY NAssumption DEF Files

\* What lies before the next file lies before this one, or is it.
LEMMA CleanOne == \A m, n \in Files : m < n + 1 => m < n \/ m = n
  BY NAssumption DEF Files

\* Behind the last place, every file has been reached.
LEMMA CleanAll == \A k \in Positions : k > N => \A n \in Files : n < k
  BY NAssumption DEF Files, Positions

\* The invariant holds initially.
LEMMA InitInv == Init => Inv
<1> SUFFICES ASSUME Init PROVE Inv
  OBVIOUS
<1>1. TypeOK
  BY Loops, PathAssumption DEF Init, TypeOK
<1>2. CursorInv
  BY Loops DEF Init, CursorInv
<1>3. OwnerInv
  BY PathAssumption DEF Init, OwnerInv
<1>4. ContentInv
  BY PathAssumption DEF Init, ContentInv
<1> QED
  BY <1>1, <1>2, <1>3, <1>4 DEF Inv

\* Storing a file changes that file only, and keeps the type of the disk.
LEMMA StoreOne ==
  ASSUME TypeOK, NEW c \in Creators, NEW n \in Files,
         NEW how \in {"none", "open", "whole", "bad"}, Store(c, n, how)
  PROVE  /\ disk' \in [Creators -> [Files -> {"none", "open", "whole", "bad"}]]
         /\ disk'[c][n] = how
         /\ \A m \in Files \ {n} : disk'[c][m] = disk[c][m]
         /\ \A d \in Creators \ {c} : disk'[d] = disk[d]
  BY DEF TypeOK, Store

\* Every step of a creator preserves the types.
LEMMA StepType == ASSUME Inv, NEW c \in Creators, Step(c) PROVE TypeOK'
<1> USE Loops, PathAssumption
    DEF Inv, TypeOK, CursorInv, OwnerInv, Goto, At, verifier, outside
<1>1. CASE CreateRefused(c) \/ MakeStaging(c)
  BY <1>1 DEF CreateRefused, MakeStaging
<1>2. CASE OpenPayload(c) \/ WritePayload(c)
  <2>1. pc' \in [Creators -> PC]
    BY <1>2 DEF OpenPayload, WritePayload
  <2>3. cursor' \in [Creators -> Positions]
    BY <1>2 DEF OpenPayload, WritePayload
  <2>2. disk' \in [Creators -> [Files -> {"none", "open", "whole", "bad"}]]
    BY <1>2, StoreOne DEF OpenPayload, WritePayload
  <2> QED
    BY <1>2, <2>1, <2>2, <2>3 DEF OpenPayload, WritePayload
<1>3. CASE Validate(c)
  BY <1>3 DEF Validate
<1>11. CASE ReadBack(c)
  <2>1. cursor' \in [Creators -> Positions]
    BY <1>11 DEF ReadBack
  <2> QED
    BY <1>11, <2>1 DEF ReadBack
<1>4. CASE OpenManifest(c) \/ WriteManifest(c)
  <2>1. disk' \in [Creators -> [Files -> {"none", "open", "whole", "bad"}]]
    BY <1>4, StoreOne DEF OpenManifest, WriteManifest
  <2> QED
    BY <1>4, <2>1 DEF OpenManifest, WriteManifest
<1>5. CASE CreateFails(c)
  BY <1>5 DEF CreateFails
<1>9. CASE LosePublication(c)
  BY <1>9 DEF LosePublication
<1>10. CASE ReturnManifest(c)
  BY <1>10 DEF ReturnManifest
<1>6. CASE Publish(c)
  BY <1>6 DEF Publish
<1>7. CASE CleanFile(c)
  <2>1. cursor' \in [Creators -> Positions] /\ stuck' \subseteq Creators
    BY <1>7 DEF CleanFile
  <2>2. disk' \in [Creators -> [Files -> {"none", "open", "whole", "bad"}]]
    BY <1>7, StoreOne DEF CleanFile
  <2> QED
    BY <1>7, <2>1, <2>2 DEF CleanFile
<1>8. CASE CleanDirectory(c)
  BY <1>8 DEF CleanDirectory
<1> QED
  BY <1>1, <1>2, <1>3, <1>4, <1>5, <1>6, <1>7, <1>8, <1>9, <1>10, <1>11
     DEF Step

\* Every step of a creator preserves what its control point says of its cursor.
LEMMA StepCursor == ASSUME Inv, NEW c \in Creators, Step(c) PROVE CursorInv'
<1> USE Loops DEF Inv, TypeOK, CursorInv, Goto, At, Store
<1>1. CASE CreateRefused(c) \/ MakeStaging(c) \/ Publish(c) \/ ReturnManifest(c)
  BY <1>1 DEF CreateRefused, MakeStaging, Publish, ReturnManifest
<1>2. CASE OpenPayload(c) \/ WritePayload(c)
  BY <1>2 DEF OpenPayload, WritePayload
<1>3. CASE Validate(c) \/ ReadBack(c) \/ OpenManifest(c) \/ WriteManifest(c)
  BY <1>3 DEF Validate, ReadBack, OpenManifest, WriteManifest
<1>4. CASE CreateFails(c) \/ LosePublication(c)
  BY <1>4 DEF CreateFails, LosePublication
<1>5. CASE CleanFile(c) \/ CleanDirectory(c)
  BY <1>5 DEF CleanFile, CleanDirectory
<1> QED
  BY <1>1, <1>2, <1>3, <1>4, <1>5 DEF Step

\* Every step of a creator preserves who is at the final path.
LEMMA StepOwner == ASSUME Inv, NEW c \in Creators, Step(c) PROVE OwnerInv'
<1> USE PathAssumption DEF Inv, TypeOK, OwnerInv, Goto
<1>1. CASE Publish(c)
  BY <1>1 DEF Publish
<1>2. CASE ~Publish(c)
  <2>1. final' = final /\ pc' \in [Creators -> PC]
    BY <1>2 DEF Step, CreateRefused, MakeStaging, OpenPayload, WritePayload, Validate,
                ReadBack, OpenManifest, WriteManifest, CreateFails, LosePublication,
                ReturnManifest, CleanFile, CleanDirectory
  <2>2. \A d \in Creators \ {c} : pc'[d] = pc[d]
    BY <1>2 DEF Step, CreateRefused, MakeStaging, OpenPayload, WritePayload, Validate,
                ReadBack, OpenManifest, WriteManifest, CreateFails, LosePublication,
                ReturnManifest, CleanFile, CleanDirectory
  <2>3. \/ pc[c] = "published" /\ pc'[c] = "ok"
        \/ pc[c] \notin {"published", "ok", "dead"} /\ pc'[c] \notin {"published", "ok"}
    <3>1. CASE CreateRefused(c) \/ MakeStaging(c)
      BY <3>1 DEF CreateRefused, MakeStaging
    <3>5. CASE ReturnManifest(c)
      BY <3>5 DEF ReturnManifest
    <3>2. CASE OpenPayload(c) \/ WritePayload(c) \/ Validate(c) \/ ReadBack(c)
      BY <3>2 DEF OpenPayload, WritePayload, Validate, ReadBack
    <3>3. CASE OpenManifest(c) \/ WriteManifest(c) \/ CreateFails(c)
      BY <3>3 DEF OpenManifest, WriteManifest, CreateFails
    <3>4. CASE LosePublication(c) \/ CleanFile(c) \/ CleanDirectory(c)
      BY <3>4 DEF LosePublication, CleanFile, CleanDirectory
    <3> QED
      BY <1>2, <3>1, <3>2, <3>3, <3>4, <3>5 DEF Step
  <2> QED
    BY <2>1, <2>2, <2>3
<1> QED
  BY <1>1, <1>2

\* Every step of a creator preserves what is known of the directories.
LEMMA StepContent == ASSUME Inv, NEW c \in Creators, Step(c) PROVE ContentInv'
<1> USE Loops, PathAssumption
    DEF Inv, TypeOK, CursorInv, OwnerInv, ContentInv, PayloadsWhole, Goto, At, Store, outside
<1>1. CASE CreateRefused(c) \/ MakeStaging(c) \/ ReturnManifest(c)
  BY <1>1 DEF CreateRefused, MakeStaging, ReturnManifest
<1>2. CASE OpenPayload(c) \/ WritePayload(c)
  BY <1>2 DEF OpenPayload, WritePayload
<1>3. CASE Validate(c)
  BY <1>3 DEF Validate
<1>4. CASE ReadBack(c)
  BY <1>4 DEF ReadBack
<1>5. CASE OpenManifest(c)
  BY <1>5 DEF OpenManifest
<1>6. CASE WriteManifest(c)
  BY <1>6 DEF WriteManifest
<1>7. CASE Publish(c)
  BY <1>7 DEF Publish
<1>8. CASE CreateFails(c) \/ LosePublication(c)
  BY <1>8 DEF CreateFails, LosePublication
<1>9. CASE CleanFile(c) \/ CleanDirectory(c)
  BY <1>9 DEF CleanFile, CleanDirectory
<1> QED
  BY <1>1, <1>2, <1>3, <1>4, <1>5, <1>6, <1>7, <1>8, <1>9 DEF Step

\* Crashes, the verifier and the world outside preserve the invariant.
LEMMA OthersInv ==
  ASSUME Inv,
         \/ \E c \in Creators : Crash(c)
         \/ VerifyList \/ VerifyManifest \/ VerifyPayload \/ VerifyFails
         \/ (\E n \in Files : Rot(n)) \/ Litter \/ UNCHANGED vars
  PROVE  Inv'
<1> USE Loops, PathAssumption
    DEF Inv, TypeOK, CursorInv, OwnerInv, ContentInv, PayloadsWhole,
        creators, verifier, outside
<1>1. ASSUME NEW c \in Creators, Crash(c) PROVE Inv'
  <2>1. pc' \in [Creators -> PC] /\ pc'[c] = "dead"
        /\ \A d \in Creators \ {c} : pc'[d] = pc[d]
    BY <1>1 DEF Crash, Goto
  <2>2. TypeOK'
    BY <1>1, <2>1 DEF Crash
  <2>5. CursorInv'
    BY <1>1, <2>1 DEF Crash
  <2>3. OwnerInv'
    BY <1>1, <2>1 DEF Crash
  <2>4. ContentInv'
    BY <1>1, <2>1 DEF Crash
  <2> QED
    BY <2>2, <2>3, <2>4, <2>5
<1>2. CASE VerifyList \/ VerifyManifest \/ VerifyPayload \/ VerifyFails
  <2>1. vpc' \in {"idle", "manifest", "payloads", "ok", "bad"} /\ vcursor' \in Files
    BY <1>2 DEF VerifyList, VerifyManifest, VerifyPayload, VerifyFails
  <2>2. vsound' \in BOOLEAN /\ vfault' \in BOOLEAN
    BY <1>2 DEF VerifyList, VerifyManifest, VerifyPayload, VerifyFails
  <2>3. UNCHANGED <<creators, disk, final, outside>>
    BY <1>2 DEF VerifyList, VerifyManifest, VerifyPayload, VerifyFails
  <2> QED
    BY <2>1, <2>2, <2>3
<1>3. CASE \E n \in Files : Rot(n)
  BY <1>3 DEF Rot, Store
<1>4. CASE Litter
  BY <1>4 DEF Litter
<1>5. CASE UNCHANGED vars
  BY <1>5 DEF vars
<1> QED
  BY <1>1, <1>2, <1>3, <1>4, <1>5

\* Every step of the system preserves the invariant.
LEMMA NextInv == Inv /\ [Next]_vars => Inv'
<1> SUFFICES ASSUME Inv, [Next]_vars PROVE Inv'
  OBVIOUS
<1>1. CASE \E c \in Creators : Step(c)
  BY <1>1, StepType, StepCursor, StepOwner, StepContent DEF Inv
<1>2. CASE ~\E c \in Creators : Step(c)
  BY <1>2, OthersInv DEF Next, Finished
<1> QED
  BY <1>1, <1>2

\* The invariant is one.
THEOREM Invariance == Spec => []Inv
  BY InitInv, NextInv, PTL DEF Spec

\* Types, for any number of creators and components.
THEOREM TypeCorrect == Spec => []TypeOK
<1>1. Inv => TypeOK
  BY DEF Inv
<1> QED
  BY <1>1, Invariance, PTL

\* No crash and no failure, in any number of creators, makes an incomplete archive
\* visible at the final path.
THEOREM FinalComplete == Spec => []FinalIsComplete
<1>1. Inv => FinalIsComplete
  BY PathAssumption DEF Inv, TypeOK, ContentInv, FinalIsComplete, PayloadsWhole
<1> QED
  BY <1>1, Invariance, PTL

\* Only Publish changes the final path, and only where nothing was.
LEMMA OnlyPublish ==
  ASSUME [Next]_vars
  PROVE  \/ final' = final
         \/ \E c \in Creators : Publish(c)
  BY DEF Next, Step, CreateRefused, MakeStaging, OpenPayload, WritePayload, Validate,
         ReadBack, OpenManifest, WriteManifest, CreateFails, LosePublication,
         ReturnManifest, CleanFile, CleanDirectory, Crash, VerifyList, VerifyManifest,
         VerifyPayload, VerifyFails, Rot, Litter, Finished, vars

\* What is at the final path is never replaced.
THEOREM NoReplacement == Spec => NeverReplaced
<1>1. [Next]_vars => [final' # final => final = Nothing]_vars
  BY OnlyPublish DEF Publish
<1> QED
  BY <1>1, PTL DEF Spec, NeverReplaced

-----------------------------------------------------------------------------
(* The cleanup and the verifier: a second invariant on top of the first.   *)

\* What a cleanup has removed so far; a failed creator has been through one or has
\* made no directory.
CleanInv ==
  \A c \in Creators :
    /\ pc[c] = "start" => c \notin staging
    /\ pc[c] = "cleanup" /\ c \notin stuck =>
         \A n \in Files : n < cursor[c] => disk[c][n] = "none"
    /\ pc[c] = "failed" /\ c \notin stuck => c \notin staging

\* Damage shows, and goes on showing.
TamperInv ==
  /\ stray => tampered
  /\ tampered => /\ final \in Creators
                 /\ stray \/ \E n \in Files : disk[final][n] # "whole"

\* An archive that was not sound when Verify began has a flaw ahead of the verifier.
VerifyInv ==
  /\ vpc \in {"idle", "manifest"} => vcursor = 0
  /\ vpc = "idle" => ~vsound
  /\ vpc \in {"manifest", "payloads", "ok"} => final \in Creators
  /\ vsound => final \in Creators
  /\ vsound /\ ~tampered => disk[final][ManifestFile] = "whole"
  /\ ~vsound /\ vpc = "manifest" => \E n \in Files : disk[final][n] # "whole"
  /\ ~vsound /\ vpc = "payloads" =>
       \E n \in Components : ~(n < vcursor) /\ disk[final][n] # "whole"

JustInv == CleanInv /\ TamperInv /\ VerifyInv /\ VerdictIsJust

\* Once published, a directory is out of its creator's hands.
LEMMA FinalFrozen ==
  ASSUME Inv, NEW c \in Creators, Step(c) \/ Crash(c), final \in Creators
  PROVE  final' = final /\ disk'[final] = disk[final]
<1> USE PathAssumption DEF Inv, TypeOK, OwnerInv
<1>1. CASE final = c
  <2>1. pc[c] \in {"published", "ok", "dead"}
    BY <1>1
  <2> QED
    BY <2>1 DEF Step, CreateRefused, MakeStaging, OpenPayload, WritePayload, Validate,
                ReadBack, OpenManifest, WriteManifest, CreateFails, Publish, LosePublication,
                ReturnManifest, CleanFile, CleanDirectory, Crash
<1>2. CASE final # c
  <2>1. final' = final
    BY DEF Step, CreateRefused, MakeStaging, OpenPayload, WritePayload, Validate,
           ReadBack, OpenManifest, WriteManifest, CreateFails, Publish, LosePublication,
           ReturnManifest, CleanFile, CleanDirectory, Crash
  <2>2. disk' = disk \/ \E n, how : Store(c, n, how)
    BY DEF Step, CreateRefused, MakeStaging, OpenPayload, WritePayload, Validate,
           ReadBack, OpenManifest, WriteManifest, CreateFails, Publish, LosePublication,
           ReturnManifest, CleanFile, CleanDirectory, Crash
  <2> QED
    BY <1>2, <2>1, <2>2 DEF Store
<1> QED
  BY <1>1, <1>2

\* Every step of a creator preserves what its cleanup has reached.
LEMMA StepClean == ASSUME Inv, CleanInv, NEW c \in Creators, Step(c) PROVE CleanInv'
<1> USE Loops DEF Inv, TypeOK, CleanInv, Goto, At
<1>1. CASE CreateRefused(c)
  BY <1>1 DEF CreateRefused
<1>2. CASE MakeStaging(c)
  BY <1>2 DEF MakeStaging
<1>3. CASE OpenPayload(c) \/ WritePayload(c) \/ OpenManifest(c) \/ WriteManifest(c)
  BY <1>3 DEF OpenPayload, WritePayload, OpenManifest, WriteManifest, Store
<1>4. CASE Validate(c) \/ ReadBack(c) \/ ReturnManifest(c)
  BY <1>4 DEF Validate, ReadBack, ReturnManifest
<1>5. CASE CreateFails(c) \/ LosePublication(c)
  BY <1>5, NothingBelow DEF CreateFails, LosePublication
<1>6. CASE Publish(c)
  BY <1>6 DEF Publish
<1>7. CASE CleanFile(c)
  BY <1>7, CleanOne DEF CleanFile, Store
<1>8. CASE CleanDirectory(c)
  BY <1>8, CleanAll DEF CleanDirectory, Empty
<1> QED
  BY <1>1, <1>2, <1>3, <1>4, <1>5, <1>6, <1>7, <1>8 DEF Step

\* No step of a creator changes what the verifier reads or has read.
LEMMA StepJust ==
  ASSUME Inv, JustInv, NEW c \in Creators, Step(c) \/ Crash(c)
  PROVE  TamperInv' /\ VerifyInv' /\ VerdictIsJust'
<1>1. UNCHANGED <<verifier, outside>>
  BY DEF Step, CreateRefused, MakeStaging, OpenPayload, WritePayload, Validate,
         ReadBack, OpenManifest, WriteManifest, CreateFails, Publish, LosePublication,
         ReturnManifest, CleanFile, CleanDirectory, Crash
<1>2. VerdictIsJust'
  BY <1>1 DEF JustInv, VerdictIsJust, verifier, outside
<1>3. CASE final \in Creators
  <2>1. final' = final /\ disk'[final] = disk[final]
    BY <1>3, FinalFrozen
  <2> QED
    BY <1>1, <1>2, <2>1 DEF JustInv, TamperInv, VerifyInv, verifier, outside
<1>4. CASE final \notin Creators
  <2>1. ~tampered /\ ~stray /\ ~vsound /\ vpc \notin {"manifest", "payloads", "ok"}
    BY <1>4 DEF JustInv, TamperInv, VerifyInv
  <2> QED
    BY <1>1, <1>2, <2>1 DEF JustInv, VerifyInv, TamperInv, verifier, outside
<1> QED
  BY <1>3, <1>4

\* Every step of the verifier preserves the second invariant: what it accepts has no
\* flaw behind it and none ahead.
LEMMA VerifierJust ==
  ASSUME Inv, JustInv, VerifyList \/ VerifyManifest \/ VerifyPayload \/ VerifyFails
  PROVE  JustInv'
<1>1. UNCHANGED <<creators, disk, final, outside>>
  BY DEF VerifyList, VerifyManifest, VerifyPayload, VerifyFails
<1>2. CleanInv' /\ TamperInv'
  BY <1>1 DEF JustInv, CleanInv, TamperInv, creators, outside
<1>3. final \in Creators => \A n \in Files : Content(n) = disk[final][n]
  BY DEF Content
<1>4. final \in Creators /\ ~tampered => PayloadsWhole(final)
  BY PathAssumption DEF Inv, TypeOK, ContentInv
<1> USE Loops DEF ManifestFile
<1>5. CASE VerifyList
  BY <1>1, <1>2, <1>3, <1>4, <1>5
  DEF JustInv, TamperInv, VerifyInv, VerdictIsJust, VerifyList, Listed, PayloadsWhole,
      outside, Content
<1>6. CASE VerifyManifest
  BY <1>1, <1>2, <1>3, <1>4, <1>6, NothingBelow
  DEF JustInv, VerifyInv, VerdictIsJust, VerifyManifest, PayloadsWhole, outside
<1>7. CASE VerifyPayload
  <2>1. vcursor \in Files /\ vpc = "payloads" /\ final \in Creators
    BY <1>7 DEF Inv, TypeOK, JustInv, VerifyInv, VerifyPayload
  <2>2. CASE vcursor = N
    BY <1>1, <1>2, <1>7, <2>1, <2>2
    DEF JustInv, VerifyInv, VerdictIsJust, VerifyPayload, outside
  <2>3. CASE vcursor # N /\ disk[final][vcursor] = "whole"
    BY <1>1, <1>2, <1>3, <1>7, <2>1, <2>3
    DEF JustInv, VerifyInv, VerdictIsJust, VerifyPayload, outside
  <2>4. CASE vcursor # N /\ disk[final][vcursor] # "whole"
    BY <1>1, <1>2, <1>3, <1>4, <1>7, <2>1, <2>4
    DEF JustInv, VerifyInv, VerdictIsJust, VerifyPayload, PayloadsWhole, outside
  <2> QED
    BY <2>2, <2>3, <2>4
<1>8. CASE VerifyFails
  BY <1>1, <1>2, <1>8 DEF JustInv, VerifyInv, VerdictIsJust, VerifyFails, outside
<1> QED
  BY <1>5, <1>6, <1>7, <1>8

\* Damage preserves the second invariant: no file becomes whole again.
LEMMA DamageJust ==
  ASSUME Inv, JustInv, (\E n \in Files : Rot(n)) \/ Litter
  PROVE  JustInv'
<1>1. CASE Litter
  BY <1>1 DEF JustInv, CleanInv, TamperInv, VerifyInv, VerdictIsJust, Litter, creators,
              verifier
<1>2. ASSUME NEW n \in Files, Rot(n) PROVE JustInv'
  <2>1. /\ final \in Creators /\ final' = final /\ tampered' = TRUE /\ stray' = stray
        /\ UNCHANGED <<creators, verifier>>
    BY <1>2 DEF Rot
  <2>2. PICK how \in {"bad", "none"} : Store(final, n, how)
    BY <1>2 DEF Rot
  <2>3. /\ disk'[final][n] # "whole"
        /\ \A m \in Files : disk[final][m] # "whole" => disk'[final][m] # "whole"
        /\ \A c \in Creators \ {final} : disk'[c] = disk[c]
    BY <2>1, <2>2, StoreOne DEF Inv
  <2>4. pc[final] \notin {"start", "cleanup", "failed"}
    BY <2>1 DEF Inv, OwnerInv
  <2>5. CleanInv'
    BY <2>1, <2>3, <2>4 DEF JustInv, CleanInv, creators
  <2>6. TamperInv' /\ VerdictIsJust'
    BY <1>2, <2>1, <2>3 DEF JustInv, TamperInv, VerdictIsJust, verifier
  <2>7. VerifyInv'
    BY Loops, <2>1, <2>3 DEF JustInv, VerifyInv, verifier
  <2> QED
    BY <2>5, <2>6, <2>7 DEF JustInv
<1> QED
  BY <1>1, <1>2

\* JustInv is inductive, given Inv.
LEMMA NextJust == Inv /\ JustInv /\ [Next]_vars => JustInv'
<1> SUFFICES ASSUME Inv, JustInv, [Next]_vars PROVE JustInv'
  OBVIOUS
<1>1. ASSUME NEW c \in Creators, Step(c) PROVE JustInv'
  BY <1>1, StepClean, StepJust DEF JustInv
<1>2. ASSUME NEW c \in Creators, Crash(c) PROVE JustInv'
  <2>1. CleanInv'
    BY <1>2 DEF Inv, TypeOK, JustInv, CleanInv, Crash, Goto
  <2> QED
    BY <1>2, <2>1, StepJust DEF JustInv
<1>3. CASE UNCHANGED vars
  BY <1>3 DEF JustInv, CleanInv, TamperInv, VerifyInv, VerdictIsJust, vars, creators,
              verifier, outside
<1> QED
  BY <1>1, <1>2, <1>3, VerifierJust, DamageJust DEF Next, Finished

\* The second invariant is one.
LEMMA Justice == Spec => []JustInv
<1>1. Init => JustInv
  BY DEF Init, JustInv, CleanInv, TamperInv, VerifyInv, VerdictIsJust
<1> QED
  BY <1>1, NextJust, Invariance, PTL DEF Spec

\* Any number of components: a creator whose removals all worked leaves no staging
\* directory when it fails, wherever it failed.
THEOREM FailureIsClean == Spec => []FailedLeavesNothing
<1>1. JustInv => FailedLeavesNothing
  BY DEF JustInv, CleanInv, FailedLeavesNothing
<1> QED
  BY <1>1, Justice, PTL

\* Any number of components, damaged at any time: Verify accepts only what was sound
\* when it began, and refuses only for a reason.
THEOREM JustVerdict == Spec => []VerdictIsJust
<1>1. JustInv => VerdictIsJust
  BY DEF JustInv
<1> QED
  BY <1>1, Justice, PTL

-----------------------------------------------------------------------------
(* The refinement.                                                         *)

\* What the creators have been told, as AtomicPublish keeps it.
ToldAll == [d \in Creators |-> Told(d)]

\* Moving one creator's control point changes what that creator is told, if anything.
LEMMA ToldMoves ==
  ASSUME pc \in [Creators -> PC], NEW c \in Creators, NEW p \in PC, Goto(c, p)
  PROVE  ToldAll' = [ToldAll EXCEPT ![c] = IF p \in Done THEN p ELSE "waiting"]
  BY DEF Goto, ToldAll, Told

\* A creator that is still working and goes on working is told nothing.
LEMMA ToldWaits ==
  ASSUME pc \in [Creators -> PC], NEW c \in Creators, NEW p \in PC \ Done, pc[c] \notin Done,
         Goto(c, p)
  PROVE  ToldAll' = ToldAll
  BY DEF Goto, ToldAll, Told

\* A creator's step does to the final path, and to what the creator is told, what
\* AtomicPublish allows.
LEMMA StepRefines ==
  ASSUME Inv, NEW c \in Creators, Step(c) \/ Crash(c)
  PROVE  Abstract!Next \/ UNCHANGED <<final, ToldAll>>
<1> USE DEF Inv, TypeOK, OwnerInv
<1>1. CASE Crash(c)
  <2>1. Abstract!Die(c)
    BY <1>1, ToldMoves DEF Crash, Abstract!Die, ToldAll, Told
  <2> QED
    BY <2>1 DEF Abstract!Next
<1>2. CASE ReturnManifest(c)
  <2>1. Abstract!Succeed(c)
    BY <1>2, ToldMoves DEF ReturnManifest, Abstract!Succeed, ToldAll, Told
  <2> QED
    BY <2>1 DEF Abstract!Next
<1>3. CASE CreateRefused(c) \/ CleanDirectory(c)
  <2>1. Abstract!Fail(c)
    BY <1>3, ToldMoves DEF CreateRefused, CleanDirectory, Abstract!Fail, ToldAll, Told
  <2> QED
    BY <2>1 DEF Abstract!Next
<1>4. CASE Publish(c)
  <2>1. ToldAll' = ToldAll
    BY <1>4, ToldWaits DEF Publish
  <2>2. Abstract!Appear(c)
    BY <1>4, <2>1 DEF Publish, Abstract!Appear, ToldAll, Told
  <2> QED
    BY <2>2 DEF Abstract!Next
<1>5. CASE MakeStaging(c) \/ OpenPayload(c) \/ WritePayload(c)
  BY <1>5, ToldWaits DEF MakeStaging, OpenPayload, WritePayload
<1>6. CASE Validate(c) \/ OpenManifest(c) \/ WriteManifest(c)
  BY <1>6, ToldWaits DEF Validate, OpenManifest, WriteManifest
<1>7. CASE CreateFails(c) \/ LosePublication(c)
  BY <1>7, ToldWaits DEF CreateFails, LosePublication
<1>8. CASE ReadBack(c) \/ CleanFile(c)
  BY <1>8 DEF ReadBack, CleanFile, ToldAll, Told
<1> QED
  BY <1>1, <1>2, <1>3, <1>4, <1>5, <1>6, <1>7, <1>8 DEF Step

\* Creation implements AtomicPublish, for any number of creators and components.
THEOREM AtomicPublication == Spec => PublishesAtomically
<1>1. Init => Abstract!Init
  BY PathAssumption DEF Init, Abstract!Init, Told
<1>2. Inv /\ [Next]_vars => [Abstract!Next]_<<final, ToldAll>>
  <2> SUFFICES ASSUME Inv, [Next]_vars PROVE [Abstract!Next]_<<final, ToldAll>>
    OBVIOUS
  <2>1. CASE \E c \in Creators : Step(c) \/ Crash(c)
    BY <2>1, StepRefines
  <2>2. CASE ~\E c \in Creators : Step(c) \/ Crash(c)
    <3>1. UNCHANGED <<pc, final>>
      BY <2>2 DEF Next, VerifyList, VerifyManifest, VerifyPayload, VerifyFails, Rot, Litter,
                  Finished, vars, creators
    <3> QED
      BY <3>1 DEF ToldAll, Told
  <2> QED
    BY <2>1, <2>2
<1>3. Inv /\ [Next]_vars => [Abstract!Next]_<<final, [c \in Creators |-> Told(c)]>>
  BY <1>2 DEF ToldAll
<1> QED
  BY <1>1, <1>3, Invariance, PTL DEF Spec, PublishesAtomically, Abstract!Spec
=============================================================================
