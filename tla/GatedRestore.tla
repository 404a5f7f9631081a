---------------------------- MODULE GatedRestore ----------------------------
(***************************************************************************)
(* One verified restore: tools.Run in ModeRestoreSQL, fed by               *)
(* restoreSQLInput through the commit gate and watched by the fingerprint  *)
(* sink (internal/tools/run.go, internal/database/restore.go and           *)
(* restore_fingerprint.go).                                                *)
(*                                                                         *)
(* psql runs schema, data and checks in one transaction and commits when   *)
(* its standard input ends.  Four workers serve it: the input pump, the    *)
(* two output pumps and the waiter.  The pump waits at the gate behind the *)
(* last check; the sink opens the gate when every fingerprint matched.     *)
(*                                                                         *)
(* Abstractions: a segment is delivered whole or not at all, a kill is     *)
(* what OwnedProcess promises of CloseContext, psql and the server are     *)
(* external.                                                               *)
(***************************************************************************)
EXTENDS Naturals

CONSTANT ParentMayDie   \* whether the process that runs the restore may be killed

ASSUME ParentAssumption == ParentMayDie \in BOOLEAN

Segments == 3           \* schema, data and checks, in this order
Workers  == {"input", "stdout", "stderr", "wait"}

VARIABLES
  main,       \* control point of executeRun, finalize and withRunSink
  cause,      \* resultErr of executeRun: "none" or "failed"
  canceled,   \* operationCanceled: the context was done when finalize began
  killed,     \* processClosed
  started,    \* workers that were started
  result,     \* what each worker has sent: "none", "ok" or "failed"
  seen,       \* workers whose result was received
  ended,      \* workers that have finished
  pump,       \* control point of the input pump
  sent,       \* segments delivered to psql
  stdin,      \* the write end of psql's standard input is closed
  files,      \* every descriptor of the parent is closed
  input,      \* request.Input is closed
  gate,       \* restoreCommitGate: "shut", "allowed" or "cancelled"
  sink,       \* fingerprintVerificationSink: "expecting", "complete" or "failed"
  child,      \* psql: "none", "running", "exited" or "killed"
  code,       \* how psql exited: "none", "ok" or "failed"
  txn,        \* its transaction, as the server sees it
  reported,   \* psql has printed the rows of every check
  faithful,   \* those rows have the archived fingerprints
  short,      \* rows are missing, and so many that the sink still waits for some
  expired,    \* the context of the run is done
  ret         \* what the restore returned: "none", "ok" or "failed"

control == <<main, cause, canceled, killed>>
workers == <<started, result, seen, ended>>
feeding == <<pump, sent, stdin, files, input>>
psql    == <<child, code, txn, reported, faithful, short>>
vars    == <<control, workers, feeding, gate, sink, psql, expired, ret>>

MainPC == {"setup", "spawn", "copies", "loop", "killForInput", "closeStdin", "finalize",
           "kill", "files", "input", "reap", "collect", "join", "finish", "returned",
           "died"}

Init ==
  /\ main = "setup" /\ cause = "none" /\ canceled = FALSE /\ killed = FALSE
  /\ started = {} /\ result = [w \in Workers |-> "none"] /\ seen = {} /\ ended = {}
  /\ pump = "none" /\ sent = 0 /\ stdin = FALSE /\ files = FALSE /\ input = FALSE
  /\ gate = "shut" /\ sink = "expecting"
  /\ child = "none" /\ code = "none" /\ txn = "none" /\ reported = FALSE
  /\ faithful = FALSE /\ short = FALSE /\ expired = FALSE /\ ret = "none"

Alive == main # "died"
Gone  == child \in {"exited", "killed"}

-----------------------------------------------------------------------------
(* psql and the server (external).                                         *)

\* A statement fails, the connection breaks, or the program is stopped.
SqlFails ==
  /\ child = "running" /\ txn = "open"
  /\ txn' = "rolledBack" /\ child' = "exited" /\ code' = "failed"
  /\ UNCHANGED <<control, workers, feeding, gate, sink, reported, faithful, short, expired, ret>>

\* Every check has been read and answered.
Report ==
  /\ child = "running" /\ txn = "open" /\ sent = Segments /\ ~reported
  /\ reported' = TRUE /\ faithful' \in BOOLEAN
  /\ short' \in BOOLEAN /\ (faithful' => ~short')
  /\ UNCHANGED <<control, workers, feeding, gate, sink, child, code, txn, expired, ret>>

\* --single-transaction: the end of the input is the time to commit.
SeeEof ==
  /\ child = "running" /\ txn = "open" /\ stdin /\ (sent = Segments => reported)
  /\ txn' = "committing"
  /\ UNCHANGED <<control, workers, feeding, gate, sink, child, code, reported, faithful, short,
                 expired, ret>>

\* The server finishes a COMMIT it has received, whether psql lives or not.
ServerCommits ==
  /\ txn = "committing"
  /\ txn' \in {"committed", "rolledBack"}
  /\ UNCHANGED <<control, workers, feeding, gate, sink, child, code, reported, faithful, short,
                 expired, ret>>

PsqlExits ==
  /\ child = "running" /\ txn \in {"committed", "rolledBack"}
  /\ child' = "exited"
  /\ code' \in (IF txn = "committed" THEN {"ok", "failed"} ELSE {"failed"})
  /\ UNCHANGED <<control, workers, feeding, gate, sink, txn, reported, faithful, short, expired,
                 ret>>

Psql == SqlFails \/ Report \/ SeeEof \/ ServerCommits \/ PsqlExits

-----------------------------------------------------------------------------
(* Workers.                                                                *)

Send(w, r) == result' = [result EXCEPT ![w] = r]
Running(w) == w \in started /\ result[w] = "none" /\ Alive

\* A worker returns some time after it has sent its result.  Nobody but the join can
\* tell when, so the model lets it happen once finalize waits.
End(w) ==
  /\ main \in {"collect", "join", "finish", "returned"}
  /\ w \in started /\ result[w] # "none" /\ w \notin ended
  /\ ended' = ended \cup {w}
  /\ UNCHANGED <<control, started, result, seen, feeding, gate, sink, psql, expired, ret>>

\* pumpInput: the context is looked at, then the next segment is read from the
\* archive...
PumpRead ==
  /\ Running("input") /\ pump = "reading" /\ ~expired
  /\ pump' = "writing"
  /\ UNCHANGED <<control, workers, sent, stdin, files, input, gate, sink, psql, expired,
                 ret>>

\* ... or cannot be: it is damaged, shorter or longer than declared, or closed.
PumpReadFails ==
  /\ Running("input") /\ pump = "reading"
  /\ Send("input", "failed") /\ pump' = "over"
  /\ UNCHANGED <<control, started, seen, ended, sent, stdin, files, input, gate, sink,
                 psql, expired, ret>>

\* A write that is under way is not interrupted; the context is looked at after it.
PumpWrite ==
  /\ Running("input") /\ pump = "writing" /\ child = "running" /\ ~stdin
  /\ sent' = sent + 1
  /\ IF expired THEN pump' = "over" /\ Send("input", "failed")
     ELSE pump' = (IF sent + 1 = Segments THEN "gate" ELSE "reading") /\ UNCHANGED result
  /\ UNCHANGED <<control, started, seen, ended, stdin, files, input, gate, sink, psql,
                 expired, ret>>

\* EPIPE, a closed descriptor, or the context.
PumpWriteFails ==
  /\ Running("input") /\ pump = "writing" /\ (Gone \/ stdin \/ expired)
  /\ Send("input", "failed") /\ pump' = "over"
  /\ UNCHANGED <<control, started, seen, ended, sent, stdin, files, input, gate, sink,
                 psql, expired, ret>>

\* restoreCommitGate.Read: the end of the input, or ErrRestore.
PumpGate ==
  /\ Running("input") /\ pump = "gate" /\ gate # "shut"
  /\ IF gate = "allowed" THEN pump' = "closing" /\ UNCHANGED result
     ELSE pump' = "over" /\ Send("input", "failed")
  /\ UNCHANGED <<control, started, seen, ended, sent, stdin, files, input, gate, sink,
                 psql, expired, ret>>

\* The whole input is delivered: stdinWrite.close, which may report an error.
PumpClose ==
  /\ Running("input") /\ pump = "closing"
  /\ stdin' = TRUE /\ pump' = "over"
  /\ \E r \in {"ok", "failed"} : Send("input", r)
  /\ UNCHANGED <<control, started, seen, ended, sent, files, input, gate, sink, psql,
                 expired, ret>>

\* Mutant of Verify: the last line of the output opens the gate, whatever it showed.
VerifyLenient ==
  /\ Running("stdout") /\ reported /\ ~short /\ sink = "expecting" /\ ~expired
  /\ IF faithful
     THEN sink' = "complete" /\ UNCHANGED result
     ELSE sink' = "failed" /\ Send("stdout", "failed")
  /\ gate' = IF gate # "shut" THEN gate ELSE "allowed"
  /\ UNCHANGED <<control, started, seen, ended, feeding, psql, expired, ret>>

\* fingerprintVerificationSink over the printed rows: the gate opens, or is
\* cancelled for good.  Where rows are missing the sink takes the markers behind
\* them for rows and may be left waiting, with the gate shut.
Verify ==
  /\ Running("stdout") /\ reported /\ ~short /\ sink = "expecting" /\ ~expired
  /\ IF faithful
     THEN sink' = "complete" /\ UNCHANGED result
     ELSE sink' = "failed" /\ Send("stdout", "failed")
  /\ gate' = IF gate # "shut" THEN gate ELSE IF faithful THEN "allowed" ELSE "cancelled"
  /\ UNCHANGED <<control, started, seen, ended, feeding, psql, expired, ret>>

\* The end of an output: psql has gone, and what it printed was consumed.
OutputEnds(w) ==
  /\ Running(w) /\ w \in {"stdout", "stderr"} /\ Gone
  /\ w = "stdout" /\ reported => sink # "expecting" \/ short
  /\ Send(w, "ok")
  /\ UNCHANGED <<control, started, seen, ended, feeding, gate, sink, psql, expired, ret>>

\* Too much output, output that is no check's, the context, or a closed descriptor.
OutputFails(w) ==
  /\ Running(w) /\ w \in {"stdout", "stderr"}
  /\ Send(w, "failed")
  /\ IF w = "stdout" /\ sink = "expecting"
     THEN /\ sink' = IF expired THEN sink ELSE "failed"
          /\ gate' = IF expired \/ gate # "shut" THEN gate ELSE "cancelled"
     ELSE UNCHANGED <<sink, gate>>
  /\ UNCHANGED <<control, started, seen, ended, feeding, psql, expired, ret>>

WaitReturns ==
  /\ Running("wait") /\ Gone
  /\ Send("wait", IF child = "exited" /\ code = "ok" THEN "ok" ELSE "failed")
  /\ UNCHANGED <<control, started, seen, ended, feeding, gate, sink, psql, expired, ret>>

Pump == \/ PumpRead \/ PumpReadFails \/ PumpWrite \/ PumpWriteFails
        \/ PumpGate \/ PumpClose

Worker == \/ Pump \/ Verify \/ WaitReturns
          \/ \E w \in Workers : End(w) \/ OutputEnds(w) \/ OutputFails(w)

-----------------------------------------------------------------------------
(* executeRun.                                                             *)

\* The timeout of the run, or its caller's cancellation.
Expire ==
  /\ ~expired /\ Alive
  /\ expired' = TRUE
  /\ UNCHANGED <<control, workers, feeding, gate, sink, psql, ret>>

\* Directories, pipes and arguments; then the input pump starts.
SetupFails ==
  /\ main = "setup"
  /\ main' = "finalize" /\ cause' = "failed"
  /\ UNCHANGED <<canceled, killed, workers, feeding, gate, sink, psql, expired, ret>>

Setup ==
  /\ main = "setup" /\ ~expired
  /\ main' = "spawn"
  /\ started' = {"input"} /\ pump' = "reading"
  /\ UNCHANGED <<cause, canceled, killed, result, seen, ended, sent, stdin, files, input,
                 gate, sink, psql, expired, ret>>

SpawnFails ==
  /\ main = "spawn"
  /\ main' = "finalize" /\ cause' = "failed"
  /\ UNCHANGED <<canceled, killed, workers, feeding, gate, sink, psql, expired, ret>>

\* A child that was started too late is finalized without a waiter of the run.
Spawn ==
  /\ main = "spawn"
  /\ child' = "running" /\ txn' = "open"
  /\ IF expired THEN main' = "finalize" /\ cause' = "failed" /\ UNCHANGED started
     ELSE main' = "copies" /\ started' = started \cup {"wait"} /\ UNCHANGED cause
  /\ UNCHANGED <<canceled, killed, result, seen, ended, feeding, gate, sink, code,
                 reported, faithful, short, expired, ret>>

\* The parent's copies of the child's descriptors are closed, the output pumps start.
CloseCopies ==
  /\ main = "copies"
  /\ \/ main' = "loop" /\ started' = Workers /\ UNCHANGED cause
     \/ main' = "finalize" /\ cause' = "failed" /\ UNCHANGED started
  /\ UNCHANGED <<canceled, killed, result, seen, ended, feeding, gate, sink, psql,
                 expired, ret>>

Ready(w) == main = "loop" /\ w \notin seen /\ result[w] # "none"

CancelGate == gate' = IF gate = "shut" THEN "cancelled" ELSE gate

\* A failed input kills psql before its input may end.
ReceiveInput ==
  /\ Ready("input")
  /\ seen' = seen \cup {"input"}
  /\ main' = IF result["input"] = "failed" THEN "killForInput" ELSE "loop"
  /\ UNCHANGED <<cause, canceled, killed, started, result, ended, feeding, gate, sink,
                 psql, expired, ret>>

ReceiveOutput(w) ==
  /\ w \in {"stdout", "stderr"} /\ Ready(w)
  /\ seen' = seen \cup {w}
  /\ IF result[w] = "failed" THEN main' = "finalize" /\ cause' = "failed"
     ELSE UNCHANGED <<main, cause>>
  /\ UNCHANGED <<canceled, killed, started, result, ended, feeding, gate, sink, psql,
                 expired, ret>>

\* Mutant of ReceiveWait: the input of a psql that failed stays open.
ReceiveWaitOnly ==
  /\ Ready("wait")
  /\ seen' = seen \cup {"wait"}
  /\ UNCHANGED <<control, started, result, ended, feeding, gate, sink, psql, expired, ret>>

\* A psql that failed leaves nobody to open the gate: the input is closed.
ReceiveWait ==
  /\ Ready("wait")
  /\ seen' = seen \cup {"wait"}
  /\ IF result["wait"] = "failed" /\ "input" \notin seen
     THEN input' = TRUE /\ CancelGate
     ELSE UNCHANGED <<input, gate>>
  /\ UNCHANGED <<control, started, result, ended, pump, sent, stdin, files, sink, psql,
                 expired, ret>>

\* Mutant of LoopExpires: the context counts only after the input is over.
LoopExpiresAfterInput ==
  /\ main = "loop" /\ expired /\ "input" \in seen
  /\ main' = "finalize" /\ cause' = "failed"
  /\ UNCHANGED <<canceled, killed, workers, feeding, gate, sink, psql, expired, ret>>

LoopExpires ==
  /\ main = "loop" /\ expired
  /\ main' = "finalize" /\ cause' = "failed"
  /\ UNCHANGED <<canceled, killed, workers, feeding, gate, sink, psql, expired, ret>>

LoopEnds ==
  /\ main = "loop" /\ seen = Workers
  /\ main' = "finalize"
  /\ UNCHANGED <<cause, canceled, killed, workers, feeding, gate, sink, psql, expired,
                 ret>>

\* closeProcess: CloseContext, once more without a deadline when it fails.  A server
\* that loses its client rolls back, unless COMMIT has reached it.
CloseProcess ==
  /\ killed' = TRUE
  /\ IF child = "running"
     THEN /\ child' = "killed"
          /\ txn' = IF txn = "open" THEN "rolledBack" ELSE txn
     ELSE UNCHANGED <<child, txn>>

KillForInput ==
  /\ main = "killForInput"
  /\ CloseProcess
  /\ main' = "closeStdin"
  /\ UNCHANGED <<cause, canceled, workers, feeding, gate, sink, code, reported, faithful, short,
                 expired, ret>>

CloseStdin ==
  /\ main = "closeStdin"
  /\ stdin' = TRUE /\ main' = "loop"
  /\ UNCHANGED <<cause, canceled, killed, workers, pump, sent, files, input, gate, sink,
                 psql, expired, ret>>

-----------------------------------------------------------------------------
(* finalize and the deferred end of withRunSink.                           *)

\* operationCanceled is read, then the context of the workers is cancelled.
Finalize ==
  /\ main = "finalize"
  /\ canceled' = expired /\ expired' = TRUE
  /\ main' = "kill"
  /\ UNCHANGED <<cause, killed, workers, feeding, gate, sink, psql, ret>>

\* Mutant of FinalizeKill: the kill is left to the end of finalize.
FinalizeKillLater ==
  /\ main = "kill"
  /\ main' = "files"
  /\ UNCHANGED <<cause, canceled, killed, workers, feeding, gate, sink, psql, expired, ret>>

\* After a failure psql is killed before the descriptors close.
FinalizeKill ==
  /\ main = "kill"
  /\ IF cause = "failed" /\ child # "none" /\ ~killed THEN CloseProcess
     ELSE UNCHANGED <<killed, child, txn>>
  /\ main' = "files"
  /\ UNCHANGED <<cause, canceled, workers, feeding, gate, sink, code, reported, faithful, short,
                 expired, ret>>

FinalizeFiles ==
  /\ main = "files"
  /\ files' = TRUE /\ stdin' = TRUE
  /\ main' = "input"
  /\ UNCHANGED <<cause, canceled, killed, workers, pump, sent, input, gate, sink, psql,
                 expired, ret>>

\* request.Input.Close cancels the gate and closes the components of the archive.
FinalizeInput ==
  /\ main = "input"
  /\ input' = TRUE /\ CancelGate
  /\ main' = "reap"
  /\ UNCHANGED <<cause, canceled, killed, workers, pump, sent, stdin, files, sink, psql,
                 expired, ret>>

FinalizeReap ==
  /\ main = "reap"
  /\ IF child # "none" /\ ~killed THEN CloseProcess
     ELSE UNCHANGED <<killed, child, txn>>
  /\ main' = "collect"
  /\ UNCHANGED <<cause, canceled, workers, feeding, gate, sink, code, reported, faithful, short,
                 expired, ret>>

\* Every started worker's result is received, after the deadline if need be.
Collect ==
  /\ main = "collect" /\ \A w \in started : result[w] # "none"
  /\ seen' = started
  /\ main' = "join"
  /\ UNCHANGED <<cause, canceled, killed, started, result, ended, feeding, gate, sink,
                 psql, expired, ret>>

\* Mutant of Join: having every result is taken for having no worker.
JoinEarly ==
  /\ main = "join"
  /\ main' = "finish"
  /\ UNCHANGED <<cause, canceled, killed, workers, feeding, gate, sink, psql, expired, ret>>

Join ==
  /\ main = "join" /\ started \subseteq ended
  /\ main' = "finish"
  /\ UNCHANGED <<cause, canceled, killed, workers, feeding, gate, sink, psql, expired,
                 ret>>

\* Mutant of Succeeded: the verified output counts, the exit of psql does not.
SucceededByOutput ==
  cause = "none" /\ ~canceled /\ \A w \in Workers \ {"wait"} : result[w] = "ok"

Succeeded == cause = "none" /\ ~canceled /\ \A w \in Workers : result[w] = "ok"

\* The sink is closed and judges its completeness; then the passfile and the
\* operation directory are removed.  Any close or removal that failed on the way,
\* closeProcess included, makes the result a failure and changes nothing else.
Finish ==
  /\ main = "finish"
  /\ \/ ret' = IF Succeeded /\ sink = "complete" THEN "ok" ELSE "failed"
     \/ ret' = "failed"
  /\ main' = "returned"
  /\ UNCHANGED <<cause, canceled, killed, workers, feeding, gate, sink, psql, expired>>

\* The process that runs all this is killed: the kernel closes its descriptors.
ParentDies ==
  /\ ParentMayDie /\ main \notin {"returned", "died"}
  /\ main' = "died" /\ stdin' = TRUE /\ files' = TRUE
  /\ UNCHANGED <<cause, canceled, killed, workers, pump, sent, input, gate, sink, psql,
                 expired, ret>>

Main == \/ SetupFails \/ Setup \/ SpawnFails \/ Spawn \/ CloseCopies
        \/ ReceiveInput \/ ReceiveOutput("stdout") \/ ReceiveOutput("stderr") \/ ReceiveWait
        \/ LoopExpires \/ LoopEnds \/ KillForInput \/ CloseStdin
        \/ Finalize \/ FinalizeKill \/ FinalizeFiles \/ FinalizeInput \/ FinalizeReap
        \/ Collect \/ Join \/ Finish

Over == main \in {"returned", "died"} /\ UNCHANGED vars

Next == Main \/ Worker \/ Psql \/ Expire \/ ParentDies \/ Over

\* A blocked output pump does not see the context: it fails when its descriptor is
\* closed, or when rows that have arrived find the context done.
Refused(w) == files \/ (w = "stdout" /\ reported /\ ~short /\ sink = "expecting" /\ expired)

\* A write to a psql that does not read ends when psql has gone or the pipe is closed.
Writable == pump = "writing" => Gone \/ stdin

\* Goroutines that can run do; psql, the server and the clock owe nothing.
Fairness == /\ WF_vars(Main)
            /\ WF_vars(Writable /\ Pump)
            /\ WF_vars(Verify) /\ WF_vars(WaitReturns)
            /\ \A w \in Workers : WF_vars(End(w))
            /\ \A w \in {"stdout", "stderr"} : WF_vars(OutputEnds(w))
            /\ \A w \in {"stdout", "stderr"} : WF_vars(Refused(w) /\ OutputFails(w))

Spec     == Init /\ [][Next]_vars
FairSpec == Spec /\ Fairness

-----------------------------------------------------------------------------
(* Properties.                                                             *)

\* Every variable keeps its type; results come from started workers, are received
\* after they were sent, and nobody ends without one.
TypeOK ==
  /\ main \in MainPC /\ cause \in {"none", "failed"}
  /\ canceled \in BOOLEAN /\ killed \in BOOLEAN /\ expired \in BOOLEAN
  /\ result \in [Workers -> {"none", "ok", "failed"}]
  /\ started \subseteq Workers /\ seen \subseteq started /\ ended \subseteq started
  /\ \A w \in seen \cup ended : result[w] # "none"
  /\ pump \in {"none", "reading", "writing", "gate", "closing", "over"}
  /\ sent \in 0 .. Segments
  /\ stdin \in BOOLEAN /\ files \in BOOLEAN /\ input \in BOOLEAN
  /\ gate \in {"shut", "allowed", "cancelled"}
  /\ sink \in {"expecting", "complete", "failed"}
  /\ child \in {"none", "running", "exited", "killed"} /\ code \in {"none", "ok", "failed"}
  /\ txn \in {"none", "open", "committing", "committed", "rolledBack"}
  /\ reported \in BOOLEAN /\ faithful \in BOOLEAN /\ short \in BOOLEAN
  /\ ret \in {"none", "ok", "failed"}

\* While the restoring process lives, COMMIT reaches the server only after the whole
\* input was delivered and every fingerprint of the restored rows was found equal
\* (progress.md:1698-1702 "Any other output, mismatch, or SQL/input failure prevents
\* commit").
CommitIsVerified ==
  txn \in {"committing", "committed"} /\ Alive =>
    sent = Segments /\ reported /\ faithful /\ sink = "complete"

\* psql never takes a failed input for a complete one: its input ends while it runs
\* only behind an open gate (run.go:605-606).
EofOnlyBehindGate ==
  stdin /\ child = "running" /\ Alive => gate = "allowed" /\ sent = Segments

\* A restore that reports success has committed.
SuccessIsCommitted == ret = "ok" => txn = "committed" /\ faithful

\* When the restore returns, psql is gone, its descriptors and the archive are closed,
\* and no worker is left.
NothingSurvives ==
  main = "returned" => child # "running" /\ files /\ stdin /\ input /\ ended = started

\* A cancelled or timed out restore returns, wherever it was.
CancelledRestoreReturns == expired ~> main \in {"returned", "died"}

\* A psql that has gone, for whatever reason, ends the restore without any timeout.
LostPsqlEndsRestore == Gone ~> main \in {"returned", "died"}
=============================================================================
