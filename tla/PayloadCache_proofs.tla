------------------------ MODULE PayloadCache_proofs ------------------------
(***************************************************************************)
(* Safety of PayloadCache for any number of users, of which any may crash  *)
(* at any point, and packages of any number of files.                      *)
(*                                                                         *)
(* The core is Flawed: what was unsound when a validation began has a flaw *)
(* among the files that the validation has not read yet, because nothing   *)
(* in a published package ever becomes whole.                              *)
(***************************************************************************)
EXTENDS PayloadCache, TLAPS

Checking == {"validate", "recheck"}
Settled  == {"discard", "validate", "prepared", "recheck", "launched"}
Left     == {"validate", "prepared", "recheck", "launched", "failed", "dead"}

\* Files before the cursor exist, all of them from the receipt on.
MadeInv ==
  \A u \in Users :
    /\ \A n \in Payload : n < cursor[u] => pkg[u][n] # "none"
    /\ pc[u] \in {"receipt", "publish"} => cursor[u] = N
    /\ pc[u] = "publish" => pkg[u][Receipt] # "none"

\* A published directory is finished and out of the hands of its maker.
FinalInv ==
  /\ final \in Users => pc[final] \in Left /\ \A n \in Files : pkg[final][n] # "none"
  /\ \A u \in Users : pc[u] \in Settled => final # Nothing

\* A flaw that the validation of u has still to meet.
Flawed(u) ==
  \/ at[u] = 0 /\ (final \notin Users \/ stray \/ pkg[final][Receipt] # "whole")
  \/ final \in Users /\ \E n \in Payload : n + 1 >= at[u] /\ pkg[final][n] # "whole"

SoundFor(u) ==
  /\ pc[u] \in Checking /\ ~sound[u] => Flawed(u)
  /\ pc[u] = "launched" => sound[u]

SoundInv == \A u \in Users : SoundFor(u)

CauseInv ==
  \A u \in Users :
    /\ pc[u] = "clean" => u \in faulted
    /\ pc[u] = "failed" => u \in faulted \/ (final # Nothing /\ ~Sound)

StagingInv ==
  \A u \in Users :
    pc[u] \in {"start", "source", "failed"} \cup (Settled \ {"discard"}) /\ u \notin stuck =>
      u \notin staging

Inv == TypeOK /\ MadeInv /\ FinalInv /\ SoundInv /\ CauseInv /\ StagingInv

USE SizeAssumption, NamesAssumption
    DEF PC, Over, Payload, Receipt, Files, Executable, Checking, Settled, Left,
        Goto, Store, Begin, making, vars
-----------------------------------------------------------------------------
\* Everything holds in the initial states.
LEMMA InitInv == Init => Inv
<1> SUFFICES ASSUME Init PROVE Inv
  OBVIOUS
<1> USE DEF Init
<1>1. TypeOK
  <2>1. 0 \in 0 .. N /\ 0 \in 0 .. N + 2
    OBVIOUS
  <2>2. pkg \in [Users -> [Files -> {"none", "whole", "bad"}]]
    OBVIOUS
  <2>3. final \in Users \cup {Nothing, Foreign} /\ final \notin staging
    OBVIOUS
  <2> QED
    BY <2>1, <2>2, <2>3 DEF TypeOK
<1>2. MadeInv /\ FinalInv /\ SoundInv
  BY DEF MadeInv, FinalInv, SoundInv, SoundFor
<1>3. CauseInv /\ StagingInv
  BY DEF CauseInv, StagingInv
<1> QED
  BY <1>1, <1>2, <1>3 DEF Inv

\* Every step keeps the types.
LEMMA StepType == Inv /\ Next => TypeOK'
<1> SUFFICES ASSUME Inv, Next PROVE TypeOK'
  OBVIOUS
<1> USE DEF Inv, TypeOK, FinalInv
<1>1. ASSUME NEW u \in Users, Fails(u) PROVE TypeOK'
  BY <1>1 DEF Fails
<1>2. ASSUME NEW u \in Users, Lookup(u) PROVE TypeOK'
  <2>1. sound' \in [Users -> BOOLEAN]
    BY <1>2 DEF Lookup, Sound
  <2>2. 0 \in 0 .. N + 2
    OBVIOUS
  <2>3. at' \in [Users -> 0 .. N + 2]
    BY <1>2, <2>2 DEF Lookup
  <2>4. pc' \in [Users -> PC]
    BY <1>2 DEF Lookup
  <2>5. UNCHANGED <<making, final, stray, faulted>>
    BY <1>2 DEF Lookup
  <2> QED
    BY <2>1, <2>3, <2>4, <2>5 DEF making
<1>3. ASSUME NEW u \in Users, MakeStaging(u) PROVE TypeOK'
  BY <1>3 DEF MakeStaging
<1>4. ASSUME NEW u \in Users, ExtractFile(u) PROVE TypeOK'
  BY <1>4 DEF ExtractFile
<1>5. ASSUME NEW u \in Users, ArchiveEnds(u) PROVE TypeOK'
  BY <1>5 DEF ArchiveEnds
<1>6. ASSUME NEW u \in Users, WriteReceipt(u) PROVE TypeOK'
  BY <1>6 DEF WriteReceipt
<1>7. ASSUME NEW u \in Users, ExtractionFails(u) PROVE TypeOK'
  BY <1>7 DEF ExtractionFails
<1>8. ASSUME NEW u \in Users, Publish(u) PROVE TypeOK'
  BY <1>8 DEF Publish
<1>9. ASSUME NEW u \in Users, LosePublication(u) PROVE TypeOK'
  BY <1>9 DEF LosePublication
<1>10. ASSUME NEW u \in Users, Discard(u) PROVE TypeOK'
  BY <1>10 DEF Discard, Sound
<1>11. ASSUME NEW u \in Users, DiscardFails(u) PROVE TypeOK'
  BY <1>11 DEF DiscardFails
<1>12. ASSUME NEW u \in Users, Clean(u) PROVE TypeOK'
  BY <1>12 DEF Clean
<1>13. ASSUME NEW u \in Users, ValidateStep(u) PROVE TypeOK'
  BY <1>13 DEF ValidateStep, Last
<1>14. ASSUME NEW u \in Users, Refuse(u) PROVE TypeOK'
  BY <1>14 DEF Refuse
<1>15. ASSUME NEW u \in Users, Prepared(u) PROVE TypeOK'
  BY <1>15 DEF Prepared
<1>16. ASSUME NEW u \in Users, Recheck(u) PROVE TypeOK'
  BY <1>16 DEF Recheck, Sound
<1>17. ASSUME NEW u \in Users, Launch(u) PROVE TypeOK'
  BY <1>17 DEF Launch
<1>18. ASSUME NEW u \in Users, Crash(u) PROVE TypeOK'
  BY <1>18 DEF Crash
<1>19. ASSUME NEW n \in Files, Rot(n) PROVE TypeOK'
  BY <1>19 DEF Rot
<1>20. CASE Litter
  BY <1>20 DEF Litter
<1>21. CASE AllOver
  BY <1>21 DEF AllOver
<1> QED
  BY <1>1, <1>2, <1>3, <1>4, <1>5, <1>6, <1>7, <1>8, <1>9, <1>10, <1>11, <1>12,
      <1>13, <1>14, <1>15, <1>16, <1>17, <1>18, <1>19, <1>20, <1>21 DEF Next, Prepare, Check

\* No step skips a file.
LEMMA StepMade == Inv /\ Next => MadeInv'
<1> SUFFICES ASSUME Inv, Next PROVE MadeInv'
  OBVIOUS
<1> USE DEF Inv, TypeOK, MadeInv, FinalInv
<1>1. ASSUME NEW u \in Users, Fails(u) PROVE MadeInv'
  BY <1>1 DEF Fails
<1>2. ASSUME NEW u \in Users, Lookup(u) PROVE MadeInv'
  BY <1>2 DEF Lookup
<1>3. ASSUME NEW u \in Users, MakeStaging(u) PROVE MadeInv'
  BY <1>3 DEF MakeStaging
<1>4. ASSUME NEW u \in Users, ExtractFile(u) PROVE MadeInv'
  BY <1>4 DEF ExtractFile
<1>5. ASSUME NEW u \in Users, ArchiveEnds(u) PROVE MadeInv'
  BY <1>5 DEF ArchiveEnds
<1>6. ASSUME NEW u \in Users, WriteReceipt(u) PROVE MadeInv'
  BY <1>6 DEF WriteReceipt
<1>7. ASSUME NEW u \in Users, ExtractionFails(u) PROVE MadeInv'
  BY <1>7 DEF ExtractionFails
<1>8. ASSUME NEW u \in Users, Publish(u) PROVE MadeInv'
  BY <1>8 DEF Publish
<1>9. ASSUME NEW u \in Users, LosePublication(u) PROVE MadeInv'
  BY <1>9 DEF LosePublication
<1>10. ASSUME NEW u \in Users, Discard(u) PROVE MadeInv'
  BY <1>10 DEF Discard
<1>11. ASSUME NEW u \in Users, DiscardFails(u) PROVE MadeInv'
  BY <1>11 DEF DiscardFails
<1>12. ASSUME NEW u \in Users, Clean(u) PROVE MadeInv'
  BY <1>12 DEF Clean
<1>13. ASSUME NEW u \in Users, ValidateStep(u) PROVE MadeInv'
  BY <1>13 DEF ValidateStep
<1>14. ASSUME NEW u \in Users, Refuse(u) PROVE MadeInv'
  BY <1>14 DEF Refuse
<1>15. ASSUME NEW u \in Users, Prepared(u) PROVE MadeInv'
  BY <1>15 DEF Prepared
<1>16. ASSUME NEW u \in Users, Recheck(u) PROVE MadeInv'
  BY <1>16 DEF Recheck
<1>17. ASSUME NEW u \in Users, Launch(u) PROVE MadeInv'
  BY <1>17 DEF Launch
<1>18. ASSUME NEW u \in Users, Crash(u) PROVE MadeInv'
  BY <1>18 DEF Crash
<1>19. ASSUME NEW n \in Files, Rot(n) PROVE MadeInv'
  BY <1>19 DEF Rot
<1>20. CASE Litter
  BY <1>20 DEF Litter
<1>21. CASE AllOver
  BY <1>21 DEF AllOver
<1> QED
  BY <1>1, <1>2, <1>3, <1>4, <1>5, <1>6, <1>7, <1>8, <1>9, <1>10, <1>11, <1>12,
      <1>13, <1>14, <1>15, <1>16, <1>17, <1>18, <1>19, <1>20, <1>21 DEF Next, Prepare, Check

\* Only a finished directory is published, and only while the name is free.
LEMMA StepFinal == Inv /\ Next => FinalInv'
<1> SUFFICES ASSUME Inv, Next PROVE FinalInv'
  OBVIOUS
<1> USE DEF Inv, TypeOK, MadeInv, FinalInv
<1>1. ASSUME NEW u \in Users, Fails(u) PROVE FinalInv'
  BY <1>1 DEF Fails
<1>2. ASSUME NEW u \in Users, Lookup(u) PROVE FinalInv'
  BY <1>2 DEF Lookup
<1>3. ASSUME NEW u \in Users, MakeStaging(u) PROVE FinalInv'
  BY <1>3 DEF MakeStaging
<1>4. ASSUME NEW u \in Users, ExtractFile(u) PROVE FinalInv'
  BY <1>4 DEF ExtractFile
<1>5. ASSUME NEW u \in Users, ArchiveEnds(u) PROVE FinalInv'
  BY <1>5 DEF ArchiveEnds
<1>6. ASSUME NEW u \in Users, WriteReceipt(u) PROVE FinalInv'
  BY <1>6 DEF WriteReceipt
<1>7. ASSUME NEW u \in Users, ExtractionFails(u) PROVE FinalInv'
  BY <1>7 DEF ExtractionFails
<1>8. ASSUME NEW u \in Users, Publish(u) PROVE FinalInv'
  BY <1>8 DEF Publish
<1>9. ASSUME NEW u \in Users, LosePublication(u) PROVE FinalInv'
  <2>1. final \in Users \/ final = Foreign
    BY <1>9 DEF LosePublication
  <2> QED
    BY <1>9, <2>1 DEF LosePublication
<1>10. ASSUME NEW u \in Users, Discard(u) PROVE FinalInv'
  BY <1>10 DEF Discard
<1>11. ASSUME NEW u \in Users, DiscardFails(u) PROVE FinalInv'
  BY <1>11 DEF DiscardFails
<1>12. ASSUME NEW u \in Users, Clean(u) PROVE FinalInv'
  BY <1>12 DEF Clean
<1>13. ASSUME NEW u \in Users, ValidateStep(u) PROVE FinalInv'
  BY <1>13 DEF ValidateStep
<1>14. ASSUME NEW u \in Users, Refuse(u) PROVE FinalInv'
  BY <1>14 DEF Refuse
<1>15. ASSUME NEW u \in Users, Prepared(u) PROVE FinalInv'
  BY <1>15 DEF Prepared
<1>16. ASSUME NEW u \in Users, Recheck(u) PROVE FinalInv'
  BY <1>16 DEF Recheck
<1>17. ASSUME NEW u \in Users, Launch(u) PROVE FinalInv'
  BY <1>17 DEF Launch
<1>18. ASSUME NEW u \in Users, Crash(u) PROVE FinalInv'
  BY <1>18 DEF Crash
<1>19. ASSUME NEW n \in Files, Rot(n) PROVE FinalInv'
  BY <1>19 DEF Rot
<1>20. CASE Litter
  BY <1>20 DEF Litter
<1>21. CASE AllOver
  BY <1>21 DEF AllOver
<1> QED
  BY <1>1, <1>2, <1>3, <1>4, <1>5, <1>6, <1>7, <1>8, <1>9, <1>10, <1>11, <1>12,
      <1>13, <1>14, <1>15, <1>16, <1>17, <1>18, <1>19, <1>20, <1>21 DEF Next, Prepare, Check

\* Who goes on without a staging directory has removed or published it.
LEMMA StepStaging == Inv /\ Next => StagingInv'
<1> SUFFICES ASSUME Inv, Next PROVE StagingInv'
  OBVIOUS
<1> USE DEF Inv, TypeOK, StagingInv
<1>1. ASSUME NEW u \in Users, Fails(u) PROVE StagingInv'
  BY <1>1 DEF Fails
<1>2. ASSUME NEW u \in Users, Lookup(u) PROVE StagingInv'
  BY <1>2 DEF Lookup
<1>3. ASSUME NEW u \in Users, MakeStaging(u) PROVE StagingInv'
  BY <1>3 DEF MakeStaging
<1>4. ASSUME NEW u \in Users, ExtractFile(u) PROVE StagingInv'
  BY <1>4 DEF ExtractFile
<1>5. ASSUME NEW u \in Users, ArchiveEnds(u) PROVE StagingInv'
  BY <1>5 DEF ArchiveEnds
<1>6. ASSUME NEW u \in Users, WriteReceipt(u) PROVE StagingInv'
  BY <1>6 DEF WriteReceipt
<1>7. ASSUME NEW u \in Users, ExtractionFails(u) PROVE StagingInv'
  BY <1>7 DEF ExtractionFails
<1>8. ASSUME NEW u \in Users, Publish(u) PROVE StagingInv'
  BY <1>8 DEF Publish
<1>9. ASSUME NEW u \in Users, LosePublication(u) PROVE StagingInv'
  BY <1>9 DEF LosePublication
<1>10. ASSUME NEW u \in Users, Discard(u) PROVE StagingInv'
  BY <1>10 DEF Discard
<1>11. ASSUME NEW u \in Users, DiscardFails(u) PROVE StagingInv'
  BY <1>11 DEF DiscardFails
<1>12. ASSUME NEW u \in Users, Clean(u) PROVE StagingInv'
  BY <1>12 DEF Clean
<1>13. ASSUME NEW u \in Users, ValidateStep(u) PROVE StagingInv'
  BY <1>13 DEF ValidateStep
<1>14. ASSUME NEW u \in Users, Refuse(u) PROVE StagingInv'
  BY <1>14 DEF Refuse
<1>15. ASSUME NEW u \in Users, Prepared(u) PROVE StagingInv'
  BY <1>15 DEF Prepared
<1>16. ASSUME NEW u \in Users, Recheck(u) PROVE StagingInv'
  BY <1>16 DEF Recheck
<1>17. ASSUME NEW u \in Users, Launch(u) PROVE StagingInv'
  BY <1>17 DEF Launch
<1>18. ASSUME NEW u \in Users, Crash(u) PROVE StagingInv'
  BY <1>18 DEF Crash
<1>19. ASSUME NEW n \in Files, Rot(n) PROVE StagingInv'
  BY <1>19 DEF Rot
<1>20. CASE Litter
  BY <1>20 DEF Litter
<1>21. CASE AllOver
  BY <1>21 DEF AllOver
<1> QED
  BY <1>1, <1>2, <1>3, <1>4, <1>5, <1>6, <1>7, <1>8, <1>9, <1>10, <1>11, <1>12,
      <1>13, <1>14, <1>15, <1>16, <1>17, <1>18, <1>19, <1>20, <1>21 DEF Next, Prepare, Check

-----------------------------------------------------------------------------
\* A validation that begins on something unsound has a flaw ahead.
LEMMA BeginFlawed ==
  ASSUME TypeOK, SoundInv, NEW u \in Users, Begin(u), sound' = [sound EXCEPT ![u] = Sound],
         NEW p \in Checking, Goto(u, p), UNCHANGED <<pkg, final, stray>>
  PROVE  SoundInv'
<1> SUFFICES ASSUME NEW w \in Users PROVE SoundFor(w)'
  BY DEF SoundInv
<1> USE DEF TypeOK, SoundFor
<1>1. CASE w # u
  BY <1>1 DEF SoundInv, Flawed
<1>2. CASE w = u /\ Sound
  BY <1>2
<1>3. CASE w = u /\ ~Sound
  <2>1. at'[u] = 0 /\ pc'[u] = p
    OBVIOUS
  <2>2. CASE final \notin Users \/ stray
    BY <1>3, <2>1, <2>2 DEF Flawed
  <2>3. CASE final \in Users /\ ~stray
    <3>1. PICK n \in Files : pkg[final][n] # "whole"
      BY <1>3, <2>3 DEF Sound
    <3>2. CASE n = Receipt
      BY <1>3, <2>1, <3>1, <3>2 DEF Flawed
    <3>3. CASE n \in Payload
      BY <1>3, <2>1, <2>3, <3>1, <3>3 DEF Flawed
    <3> QED
      BY <3>2, <3>3
  <2> QED
    BY <2>2, <2>3
<1> QED
  BY <1>1, <1>2, <1>3

\* A flaw stays where it is and the validation stops at it: what reaches a launch
\* was sound when its last validation began.
LEMMA StepSound == Inv /\ Next => SoundInv'
<1> SUFFICES ASSUME Inv, Next PROVE SoundInv'
  OBVIOUS
<1> USE DEF Inv, TypeOK, FinalInv, SoundInv, SoundFor, Flawed
<1>1. ASSUME NEW u \in Users, Fails(u) PROVE SoundInv'
  BY <1>1 DEF Fails
<1>2. ASSUME NEW u \in Users, Lookup(u) PROVE SoundInv'
  <2>1. CASE final = Nothing
    BY <1>2, <2>1 DEF Lookup
  <2>2. CASE final # Nothing
    BY <1>2, <2>2, BeginFlawed DEF Lookup
  <2> QED
    BY <2>1, <2>2
<1>3. ASSUME NEW u \in Users, MakeStaging(u) PROVE SoundInv'
  BY <1>3 DEF MakeStaging
<1>4. ASSUME NEW u \in Users, ExtractFile(u) PROVE SoundInv'
  BY <1>4 DEF ExtractFile
<1>5. ASSUME NEW u \in Users, ArchiveEnds(u) PROVE SoundInv'
  BY <1>5 DEF ArchiveEnds
<1>6. ASSUME NEW u \in Users, WriteReceipt(u) PROVE SoundInv'
  BY <1>6 DEF WriteReceipt
<1>7. ASSUME NEW u \in Users, ExtractionFails(u) PROVE SoundInv'
  BY <1>7 DEF ExtractionFails
<1>8. ASSUME NEW u \in Users, Publish(u) PROVE SoundInv'
  <2> SUFFICES ASSUME NEW w \in Users PROVE SoundFor(w)'
    OBVIOUS
  <2>1. CASE w # u
    BY <1>8, <2>1 DEF Publish
  <2>2. CASE w = u /\ ~stray /\ \A n \in Files : pkg[u][n] = "whole"
    BY <1>8, <2>2 DEF Publish
  <2>3. CASE w = u /\ stray
    BY <1>8, <2>3 DEF Publish
  <2>4. ASSUME w = u, NEW n \in Files, pkg[u][n] # "whole" PROVE SoundFor(w)'
    <3>1. final' = u /\ at'[u] = 0 /\ pc'[u] = "validate" /\ pkg' = pkg
      BY <1>8 DEF Publish
    <3>2. n = Receipt \/ n \in Payload
      OBVIOUS
    <3> QED
      BY <2>4, <3>1, <3>2
  <2> QED
    BY <2>1, <2>2, <2>3, <2>4
<1>9. ASSUME NEW u \in Users, LosePublication(u) PROVE SoundInv'
  BY <1>9 DEF LosePublication
<1>10. ASSUME NEW u \in Users, Discard(u) PROVE SoundInv'
  BY <1>10, BeginFlawed DEF Discard
<1>11. ASSUME NEW u \in Users, DiscardFails(u) PROVE SoundInv'
  BY <1>11 DEF DiscardFails
<1>12. ASSUME NEW u \in Users, Clean(u) PROVE SoundInv'
  BY <1>12 DEF Clean
<1>13. ASSUME NEW u \in Users, ValidateStep(u) PROVE SoundInv'
  <2> SUFFICES ASSUME NEW w \in Users PROVE SoundFor(w)'
    OBVIOUS
  <2>1. CASE w # u
    BY <1>13, <2>1 DEF ValidateStep
  <2>2. CASE w = u /\ sound[u]
    BY <1>13, <2>2 DEF ValidateStep
  <2>3. CASE w = u /\ ~sound[u]
    <3>1. final \in Users /\ at'[u] = at[u] + 1 /\ pc'[u] \in Checking /\ at[u] \in Nat
      BY <1>13 DEF ValidateStep, Passes
    <3>2. PICK n \in Payload : n + 1 >= at[u] /\ pkg[final][n] # "whole"
      BY <1>13, <2>3 DEF ValidateStep, Passes
    <3>3. n + 1 # at[u]
      BY <1>13, <3>1, <3>2 DEF ValidateStep, Passes
    <3>4. n + 1 >= at'[u] /\ final' = final /\ pkg' = pkg
      BY <1>13, <3>1, <3>2, <3>3 DEF ValidateStep
    <3> QED
      BY <1>13, <2>3, <3>1, <3>2, <3>4 DEF ValidateStep
  <2> QED
    BY <2>1, <2>2, <2>3
<1>14. ASSUME NEW u \in Users, Refuse(u) PROVE SoundInv'
  BY <1>14 DEF Refuse
<1>15. ASSUME NEW u \in Users, Prepared(u) PROVE SoundInv'
  BY <1>15 DEF Prepared
<1>16. ASSUME NEW u \in Users, Recheck(u) PROVE SoundInv'
  BY <1>16, BeginFlawed DEF Recheck
<1>17. ASSUME NEW u \in Users, Launch(u) PROVE SoundInv'
  BY <1>17 DEF Launch, Last
<1>18. ASSUME NEW u \in Users, Crash(u) PROVE SoundInv'
  BY <1>18 DEF Crash
<1>19. ASSUME NEW n \in Files, Rot(n) PROVE SoundInv'
  <2>1. \A m \in Files : pkg[final][m] # "whole" => pkg'[final][m] # "whole"
    BY <1>19 DEF Rot
  <2> SUFFICES ASSUME NEW w \in Users, pc[w] \in Checking, Flawed(w) PROVE Flawed(w)'
    BY <1>19 DEF Rot
  <2>2. CASE at[w] = 0 /\ (stray \/ pkg[final][Receipt] # "whole")
    BY <1>19, <2>1, <2>2 DEF Rot
  <2>3. ASSUME NEW m \in Payload, m + 1 >= at[w], pkg[final][m] # "whole" PROVE Flawed(w)'
    BY <1>19, <2>1, <2>3 DEF Rot
  <2> QED
    BY <1>19, <2>2, <2>3 DEF Rot
<1>20. CASE Litter
  BY <1>20 DEF Litter
<1>21. CASE AllOver
  BY <1>21 DEF AllOver
<1> QED
  BY <1>1, <1>2, <1>3, <1>4, <1>5, <1>6, <1>7, <1>8, <1>9, <1>10, <1>11, <1>12,
      <1>13, <1>14, <1>15, <1>16, <1>17, <1>18, <1>19, <1>20, <1>21 DEF Next, Prepare, Check

\* A user fails by an error of its own, or at a flaw that stays.
LEMMA StepCause == Inv /\ Next => CauseInv'
<1> SUFFICES ASSUME Inv, Next PROVE CauseInv'
  OBVIOUS
<1> USE DEF Inv, TypeOK, FinalInv, CauseInv, Sound
<1>1. ASSUME NEW u \in Users, Fails(u) PROVE CauseInv'
  BY <1>1 DEF Fails
<1>2. ASSUME NEW u \in Users, Lookup(u) PROVE CauseInv'
  BY <1>2 DEF Lookup
<1>3. ASSUME NEW u \in Users, MakeStaging(u) PROVE CauseInv'
  BY <1>3 DEF MakeStaging
<1>4. ASSUME NEW u \in Users, ExtractFile(u) PROVE CauseInv'
  BY <1>4 DEF ExtractFile
<1>5. ASSUME NEW u \in Users, ArchiveEnds(u) PROVE CauseInv'
  BY <1>5 DEF ArchiveEnds
<1>6. ASSUME NEW u \in Users, WriteReceipt(u) PROVE CauseInv'
  BY <1>6 DEF WriteReceipt
<1>7. ASSUME NEW u \in Users, ExtractionFails(u) PROVE CauseInv'
  BY <1>7 DEF ExtractionFails
<1>8. ASSUME NEW u \in Users, Publish(u) PROVE CauseInv'
  BY <1>8 DEF Publish
<1>9. ASSUME NEW u \in Users, LosePublication(u) PROVE CauseInv'
  BY <1>9 DEF LosePublication
<1>10. ASSUME NEW u \in Users, Discard(u) PROVE CauseInv'
  BY <1>10 DEF Discard
<1>11. ASSUME NEW u \in Users, DiscardFails(u) PROVE CauseInv'
  BY <1>11 DEF DiscardFails
<1>12. ASSUME NEW u \in Users, Clean(u) PROVE CauseInv'
  BY <1>12 DEF Clean
<1>13. ASSUME NEW u \in Users, ValidateStep(u) PROVE CauseInv'
  BY <1>13 DEF ValidateStep
<1>14. ASSUME NEW u \in Users, Refuse(u) PROVE CauseInv'
  <2>1. final # Nothing /\ final' = final /\ stray' = stray /\ pkg' = pkg /\ faulted' = faulted
    BY <1>14 DEF Refuse
  <2>2. ~Sound
    <3>1. at[u] \in 0 .. N + 1
      BY <1>14 DEF Refuse, Last
    <3>2. at[u] = 0 \/ at[u] = N + 1 \/ at[u] - 1 \in Files
      BY <3>1
    <3> QED
      BY <1>14, <3>2 DEF Refuse, Passes
  <2>3. Sound' = Sound
    BY <2>1
  <2> QED
    BY <1>14, <2>1, <2>2 DEF Refuse
<1>15. ASSUME NEW u \in Users, Prepared(u) PROVE CauseInv'
  BY <1>15 DEF Prepared
<1>16. ASSUME NEW u \in Users, Recheck(u) PROVE CauseInv'
  BY <1>16 DEF Recheck
<1>17. ASSUME NEW u \in Users, Launch(u) PROVE CauseInv'
  BY <1>17 DEF Launch
<1>18. ASSUME NEW u \in Users, Crash(u) PROVE CauseInv'
  BY <1>18 DEF Crash
<1>19. ASSUME NEW n \in Files, Rot(n) PROVE CauseInv'
  BY <1>19 DEF Rot
<1>20. CASE Litter
  BY <1>20 DEF Litter
<1>21. CASE AllOver
  BY <1>21 DEF AllOver
<1> QED
  BY <1>1, <1>2, <1>3, <1>4, <1>5, <1>6, <1>7, <1>8, <1>9, <1>10, <1>11, <1>12,
      <1>13, <1>14, <1>15, <1>16, <1>17, <1>18, <1>19, <1>20, <1>21 DEF Next, Prepare, Check

\* The inductive invariant holds in every behaviour.
THEOREM Invariant == Spec => []Inv
<1>1. Inv /\ [Next]_vars => Inv'
  <2> SUFFICES ASSUME Inv, [Next]_vars PROVE Inv'
    OBVIOUS
  <2>1. CASE Next
    BY <2>1, StepType, StepMade, StepFinal, StepStaging, StepSound, StepCause DEF Inv
  <2>2. CASE UNCHANGED vars
    BY <2>2 DEF Inv, TypeOK, MadeInv, FinalInv, SoundInv, SoundFor, CauseInv,
            StagingInv, Flawed, Sound
  <2> QED
    BY <2>1, <2>2
<1> QED
  BY InitInv, <1>1, PTL DEF Spec

\* The variables keep their types, and what is published is nobody's staging directory.
THEOREM TypeCorrect == Spec => []TypeOK
<1>1. Inv => TypeOK
  BY DEF Inv
<1> QED
  BY Invariant, <1>1, PTL

\* A launch runs only what was sound when its last validation began.
THEOREM LaunchSound == Spec => []LaunchIsSound
<1>1. Inv => LaunchIsSound
  BY DEF Inv, SoundInv, SoundFor, LaunchIsSound
<1> QED
  BY Invariant, <1>1, PTL

\* What is published has all its files, whoever crashed on the way.
THEOREM PublishedFinished == Spec => []PublishedIsFinished
<1>1. Inv => PublishedIsFinished
  BY DEF Inv, FinalInv, PublishedIsFinished
<1> QED
  BY Invariant, <1>1, PTL

\* No user fails because another was faster.
THEOREM FailureCaused == Spec => []FailureHasCause
<1>1. Inv => FailureHasCause
  BY DEF Inv, CauseInv, FailureHasCause
<1> QED
  BY Invariant, <1>1, PTL

\* Who has been answered has no staging directory, unless its removal failed.
THEOREM StagingGone == Spec => []NoStagingLeft
<1>1. Inv => NoStagingLeft
  BY DEF Inv, StagingInv, NoStagingLeft
<1> QED
  BY Invariant, <1>1, PTL

\* What a step leaves of what is at the shared name.
Kept ==
  final # Nothing =>
    /\ final' = final
    /\ final \in Users => \A n \in Files : pkg'[final][n] \in {pkg[final][n], "bad"}

\* No step replaces what is at the shared name or mends a file of it.
LEMMA StepKeeps == Inv /\ Next => Kept
<1> SUFFICES ASSUME Inv, Next PROVE Kept
  OBVIOUS
<1> USE DEF Inv, TypeOK, FinalInv, Kept
<1>1. ASSUME NEW u \in Users, Fails(u) PROVE Kept
  BY <1>1 DEF Fails
<1>2. ASSUME NEW u \in Users, Lookup(u) PROVE Kept
  BY <1>2 DEF Lookup
<1>3. ASSUME NEW u \in Users, MakeStaging(u) PROVE Kept
  BY <1>3 DEF MakeStaging
<1>4. ASSUME NEW u \in Users, ExtractFile(u) PROVE Kept
  BY <1>4 DEF ExtractFile
<1>5. ASSUME NEW u \in Users, ArchiveEnds(u) PROVE Kept
  BY <1>5 DEF ArchiveEnds
<1>6. ASSUME NEW u \in Users, WriteReceipt(u) PROVE Kept
  BY <1>6 DEF WriteReceipt
<1>7. ASSUME NEW u \in Users, ExtractionFails(u) PROVE Kept
  BY <1>7 DEF ExtractionFails
<1>8. ASSUME NEW u \in Users, Publish(u) PROVE Kept
  BY <1>8 DEF Publish
<1>9. ASSUME NEW u \in Users, LosePublication(u) PROVE Kept
  BY <1>9 DEF LosePublication
<1>10. ASSUME NEW u \in Users, Discard(u) PROVE Kept
  BY <1>10 DEF Discard
<1>11. ASSUME NEW u \in Users, DiscardFails(u) PROVE Kept
  BY <1>11 DEF DiscardFails
<1>12. ASSUME NEW u \in Users, Clean(u) PROVE Kept
  BY <1>12 DEF Clean
<1>13. ASSUME NEW u \in Users, ValidateStep(u) PROVE Kept
  BY <1>13 DEF ValidateStep
<1>14. ASSUME NEW u \in Users, Refuse(u) PROVE Kept
  BY <1>14 DEF Refuse
<1>15. ASSUME NEW u \in Users, Prepared(u) PROVE Kept
  BY <1>15 DEF Prepared
<1>16. ASSUME NEW u \in Users, Recheck(u) PROVE Kept
  BY <1>16 DEF Recheck
<1>17. ASSUME NEW u \in Users, Launch(u) PROVE Kept
  BY <1>17 DEF Launch
<1>18. ASSUME NEW u \in Users, Crash(u) PROVE Kept
  BY <1>18 DEF Crash
<1>19. ASSUME NEW n \in Files, Rot(n) PROVE Kept
  BY <1>19 DEF Rot
<1>20. CASE Litter
  BY <1>20 DEF Litter
<1>21. CASE AllOver
  BY <1>21 DEF AllOver
<1> QED
  BY <1>1, <1>2, <1>3, <1>4, <1>5, <1>6, <1>7, <1>8, <1>9, <1>10, <1>11, <1>12,
      <1>13, <1>14, <1>15, <1>16, <1>17, <1>18, <1>19, <1>20, <1>21 DEF Next, Prepare, Check

\* Nobody replaces, repairs or completes what is at the shared name.
THEOREM NotRepaired == Spec => NeverRepaired
<1>1. Inv /\ [Next]_vars => [Kept]_vars
  BY StepKeeps DEF Kept
<1>2. NeverRepaired <=> [][Kept]_vars
  BY PTL DEF NeverRepaired, Kept
<1> QED
  BY Invariant, <1>1, <1>2, PTL DEF Spec
=============================================================================
