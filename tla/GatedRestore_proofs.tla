------------------------ MODULE GatedRestore_proofs ------------------------
(***************************************************************************)
(* Safety of GatedRestore, whether or not the restoring process may be     *)
(* killed.                                                                 *)
(*                                                                         *)
(* None of the properties is inductive.  Inv follows the argument of the   *)
(* code: an open gate means a verdict, the verdict means that every row    *)
(* was seen; the input ends only behind the gate or when psql is gone; and *)
(* after the loop psql is gone before any descriptor is closed.            *)
(***************************************************************************)
EXTENDS GatedRestore, TLAPS

Closing == {"files", "input", "reap", "collect", "join", "finish", "returned"}
Closed  == {"input", "reap", "collect", "join", "finish", "returned"}
Reaping == {"reap", "collect", "join", "finish", "returned"}

\* How far the input pump is, and that only started workers send.
FeedInv ==
  /\ \A w \in Workers : result[w] # "none" => w \in started
  /\ pump \in {"reading", "writing"} => sent < Segments
  /\ pump \in {"gate", "closing"} => sent = Segments
  /\ pump = "closing" => gate = "allowed"
  /\ main = "setup" => started = {} /\ sent = 0
  /\ main = "spawn" => started = {"input"}

\* What an open gate and an exit code stand for.
VerdictInv ==
  /\ sink = "complete" => reported /\ faithful
  /\ gate = "allowed" => sink = "complete"
  /\ code = "ok" => txn = "committed"
  /\ result["wait"] = "ok" => code = "ok"
  /\ result["wait"] # "none" => Gone

\* When psql is gone: after a kill, after the loop unless it failed, and before the
\* descriptors are closed.
ChildInv ==
  /\ main \in {"setup", "spawn"} =>
       child = "none" /\ txn = "none" /\ ~stdin /\ ~reported /\ ~killed
  /\ killed \/ main = "closeStdin" => child # "running"
  /\ main \in {"finalize", "kill"} /\ cause = "none" => Gone
  /\ main \in Closing => child # "running"

\* What finalize has done so far.
FinalizeInv ==
  /\ main \in Closed => files /\ stdin
  /\ main \in Reaping => input
  /\ main \in {"finish", "returned"} => ended = started

Inv == /\ TypeOK /\ FeedInv /\ VerdictInv /\ ChildInv /\ FinalizeInv
       /\ CommitIsVerified /\ EofOnlyBehindGate /\ SuccessIsCommitted

USE DEF Segments, Workers, MainPC, Closing, Closed, Reaping, Gone, Alive
-----------------------------------------------------------------------------
\* The invariant holds when Run begins.
LEMMA InitInv == Init => Inv
<1> SUFFICES ASSUME Init PROVE Inv
  OBVIOUS
<1>1. TypeOK
  <2>1. result \in [Workers -> {"none", "ok", "failed"}]
    BY DEF Init
  <2>2. /\ started \subseteq Workers /\ seen \subseteq started /\ ended \subseteq started
        /\ \A w \in seen \cup ended : result[w] # "none"
    BY DEF Init
  <2>3. sent \in 0 .. Segments
    BY DEF Init
  <2> QED
    BY <2>1, <2>2, <2>3 DEF Init, TypeOK
<1>2. FeedInv /\ VerdictInv /\ ChildInv /\ FinalizeInv
  BY DEF Init, FeedInv, VerdictInv, ChildInv, FinalizeInv
<1>3. CommitIsVerified /\ EofOnlyBehindGate /\ SuccessIsCommitted
  BY DEF Init, CommitIsVerified, EofOnlyBehindGate, SuccessIsCommitted
<1> QED
  BY <1>1, <1>2, <1>3 DEF Inv

\* psql and the server preserve the invariant: only an input that ended behind the gate
\* is committed.
LEMMA PsqlInv == Inv /\ Psql => Inv'
<1> SUFFICES ASSUME Inv, Psql PROVE Inv'
  OBVIOUS
<1> USE DEF Inv, TypeOK, FeedInv, VerdictInv, ChildInv, FinalizeInv, CommitIsVerified,
        EofOnlyBehindGate, SuccessIsCommitted, control, workers, feeding, psql
<1>1. CASE SqlFails
  BY <1>1 DEF SqlFails
<1>2. CASE Report
  BY <1>2 DEF Report
<1>3. CASE SeeEof
  BY <1>3 DEF SeeEof
<1>4. CASE ServerCommits
  BY <1>4 DEF ServerCommits
<1>5. CASE PsqlExits
  BY <1>5 DEF PsqlExits
<1> QED
  BY <1>1, <1>2, <1>3, <1>4, <1>5 DEF Psql

\* The input pump preserves the invariant: it ends the input only behind the gate.
LEMMA PumpInv == Inv /\ Pump => Inv'
<1> SUFFICES ASSUME Inv, Pump PROVE Inv'
  OBVIOUS
<1> USE DEF Inv, TypeOK, FeedInv, VerdictInv, ChildInv, FinalizeInv, CommitIsVerified,
        EofOnlyBehindGate, SuccessIsCommitted, control, workers, feeding, psql,
        Running, Send
<1>1. CASE PumpRead
  BY <1>1 DEF PumpRead
<1>2. CASE PumpReadFails
  BY <1>2 DEF PumpReadFails
<1>3. CASE PumpWrite
  BY <1>3 DEF PumpWrite
<1>4. CASE PumpWriteFails
  BY <1>4 DEF PumpWriteFails
<1>5. CASE PumpGate
  BY <1>5 DEF PumpGate
<1>6. CASE PumpClose
  BY <1>6 DEF PumpClose
<1> QED
  BY <1>1, <1>2, <1>3, <1>4, <1>5, <1>6 DEF Pump

\* The other workers preserve the invariant: only a complete verification opens the gate.
LEMMA WorkerInv == Inv /\ Worker => Inv'
<1> SUFFICES ASSUME Inv, Worker PROVE Inv'
  OBVIOUS
<1> USE DEF Inv, TypeOK, FeedInv, VerdictInv, ChildInv, FinalizeInv, CommitIsVerified,
        EofOnlyBehindGate, SuccessIsCommitted, control, workers, feeding, psql,
        Running, Send
<1>1. CASE Verify
  BY <1>1 DEF Verify
<1>2. CASE WaitReturns
  BY <1>2 DEF WaitReturns
<1>3. ASSUME NEW w \in Workers, End(w) PROVE Inv'
  BY <1>3 DEF End
<1>4. ASSUME NEW w \in Workers, OutputEnds(w) PROVE Inv'
  BY <1>4 DEF OutputEnds
<1>5. ASSUME NEW w \in Workers, OutputFails(w) PROVE Inv'
  BY <1>5 DEF OutputFails
<1> QED
  BY <1>1, <1>2, <1>3, <1>4, <1>5, PumpInv DEF Worker

\* Everything executeRun does up to finalize, and finalize itself, preserve the
\* invariant: psql is gone before a descriptor is closed.
LEMMA MainInv == Inv /\ Main => Inv'
<1> SUFFICES ASSUME Inv, Main PROVE Inv'
  OBVIOUS
<1> USE DEF Inv, TypeOK, FeedInv, VerdictInv, ChildInv, FinalizeInv, CommitIsVerified,
        EofOnlyBehindGate, SuccessIsCommitted, control, workers, feeding, psql,
        Ready, CancelGate, CloseProcess, Succeeded
<1>1. CASE SetupFails
  BY <1>1 DEF SetupFails
<1>2. CASE Setup
  BY <1>2 DEF Setup
<1>3. CASE SpawnFails
  BY <1>3 DEF SpawnFails
<1>4. CASE Spawn
  <2>1. CASE expired
    <3>1. /\ main = "spawn" /\ main' = "finalize" /\ started' = started /\ cause' = "failed"
          /\ child' = "running" /\ txn' = "open"
          /\ UNCHANGED <<canceled, killed, result, seen, ended, feeding, gate, sink, code,
                         reported, faithful, short, expired, ret>>
      BY <1>4, <2>1 DEF Spawn
    <3>2. /\ result["wait"] = "none" /\ started = {"input"} /\ seen \subseteq {"input"}
          /\ ended \subseteq {"input"} /\ ~killed /\ ~stdin
      BY <3>1
    <3> QED
      BY <3>1, <3>2
  <2>2. CASE ~expired
    <3>1. /\ main = "spawn" /\ main' = "copies" /\ started' = {"input", "wait"} /\ cause' = cause
          /\ child' = "running" /\ txn' = "open"
          /\ UNCHANGED <<canceled, killed, result, seen, ended, feeding, gate, sink, code,
                         reported, faithful, short, expired, ret>>
      BY <1>4, <2>2 DEF Spawn
    <3>2. /\ result["wait"] = "none" /\ started = {"input"} /\ seen \subseteq {"input"}
          /\ ended \subseteq {"input"} /\ ~killed /\ ~stdin
      BY <3>1
    <3> QED
      BY <3>1, <3>2
  <2> QED
    BY <2>1, <2>2
<1>5. CASE CloseCopies
  <2>1. CASE main' = "loop" /\ started' = Workers /\ cause' = cause
    BY <1>5, <2>1 DEF CloseCopies
  <2>2. CASE main' = "finalize" /\ cause' = "failed" /\ started' = started
    BY <1>5, <2>2 DEF CloseCopies
  <2> QED
    BY <1>5, <2>1, <2>2 DEF CloseCopies
<1>6. CASE ReceiveInput
  BY <1>6 DEF ReceiveInput
<1>7. ASSUME NEW w \in {"stdout", "stderr"}, ReceiveOutput(w) PROVE Inv'
  BY <1>7 DEF ReceiveOutput
<1>8. CASE ReceiveWait
  <2>1. /\ main = "loop" /\ "wait" \in started
        /\ gate' \in {"shut", "allowed", "cancelled"} /\ input' \in BOOLEAN
        /\ gate = "allowed" <=> gate' = "allowed"
    BY <1>8 DEF ReceiveWait
  <2>2. /\ seen' = seen \cup {"wait"} /\ result["wait"] # "none"
        /\ UNCHANGED <<control, started, result, ended, pump, sent, stdin, files, sink, psql,
                       expired, ret>>
    BY <1>8 DEF ReceiveWait
  <2> QED
    BY <2>1, <2>2
<1>9. CASE LoopExpires
  BY <1>9 DEF LoopExpires
<1>10. CASE LoopEnds
  BY <1>10 DEF LoopEnds
<1>11. CASE KillForInput
  BY <1>11 DEF KillForInput
<1>12. CASE CloseStdin
  BY <1>12 DEF CloseStdin
<1>13. CASE Finalize
  BY <1>13 DEF Finalize
<1>14. CASE FinalizeKill
  <2>1. CASE cause = "failed" /\ child # "none" /\ ~killed
    BY <1>14, <2>1 DEF FinalizeKill
  <2>2. CASE ~(cause = "failed" /\ child # "none" /\ ~killed)
    BY <1>14, <2>2 DEF FinalizeKill
  <2> QED
    BY <2>1, <2>2
<1>15. CASE FinalizeFiles
  BY <1>15 DEF FinalizeFiles
<1>16. CASE FinalizeInput
  BY <1>16 DEF FinalizeInput
<1>17. CASE FinalizeReap
  <2>1. CASE child # "none" /\ ~killed
    BY <1>17, <2>1 DEF FinalizeReap
  <2>2. CASE ~(child # "none" /\ ~killed)
    BY <1>17, <2>2 DEF FinalizeReap
  <2> QED
    BY <2>1, <2>2
<1>18. CASE Collect
  BY <1>18 DEF Collect
<1>19. CASE Join
  BY <1>19 DEF Join
<1>20. CASE Finish
  BY <1>20 DEF Finish
<1> QED
  BY <1>1, <1>2, <1>3, <1>4, <1>5, <1>6, <1>7, <1>8, <1>9, <1>10, <1>11, <1>12, <1>13, <1>14, <1>15, <1>16, <1>17, <1>18, <1>19, <1>20 DEF Main

\* Inv is inductive.
LEMMA NextInv == Inv /\ [Next]_vars => Inv'
<1>1. Inv /\ UNCHANGED vars => Inv'
  BY DEF Inv, TypeOK, FeedInv, VerdictInv, ChildInv, FinalizeInv, CommitIsVerified,
         EofOnlyBehindGate, SuccessIsCommitted, control, workers, feeding, psql, vars
<1>2. Inv /\ Expire => Inv'
  BY DEF Inv, TypeOK, FeedInv, VerdictInv, ChildInv, FinalizeInv, CommitIsVerified,
         EofOnlyBehindGate, SuccessIsCommitted, control, workers, feeding, psql, Expire
<1>3. Inv /\ ParentDies => Inv'
  BY DEF Inv, TypeOK, FeedInv, VerdictInv, ChildInv, FinalizeInv, CommitIsVerified,
         EofOnlyBehindGate, SuccessIsCommitted, control, workers, feeding, psql, ParentDies
<1> QED
  BY <1>1, <1>2, <1>3, MainInv, WorkerInv, PsqlInv DEF Next, Over

\* The inductive invariant holds in every state of every behaviour.
THEOREM Invariance == Spec => []Inv
  BY InitInv, NextInv, PTL DEF Spec

-----------------------------------------------------------------------------
\* Type correctness of the restore; in particular a result is received only after it
\* was sent, by a worker that was started.
THEOREM TypeCorrect == Spec => []TypeOK
<1>1. Inv => TypeOK
  BY DEF Inv
<1> QED
  BY <1>1, Invariance, PTL

\* Whatever fails, expires or races: no COMMIT without a complete and successful
\* verification of what was restored.
THEOREM Verified == Spec => []CommitIsVerified
<1>1. Inv => CommitIsVerified
  BY DEF Inv
<1> QED
  BY <1>1, Invariance, PTL

\* A running psql sees the end of its input only behind the open gate.
THEOREM EofGated == Spec => []EofOnlyBehindGate
<1>1. Inv => EofOnlyBehindGate
  BY DEF Inv
<1> QED
  BY <1>1, Invariance, PTL

\* The restore reports success only for what the server has committed.
THEOREM Success == Spec => []SuccessIsCommitted
<1>1. Inv => SuccessIsCommitted
  BY DEF Inv
<1> QED
  BY <1>1, Invariance, PTL

\* A restore that has returned has left no psql, no descriptor, no open archive and no
\* worker.
THEOREM NothingLeft == Spec => []NothingSurvives
<1>1. Inv => NothingSurvives
  BY DEF Inv, TypeOK, ChildInv, FinalizeInv, NothingSurvives
<1> QED
  BY <1>1, Invariance, PTL
=============================================================================
