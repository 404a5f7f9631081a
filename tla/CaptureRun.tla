----------------------------- MODULE CaptureRun -----------------------------
(***************************************************************************)
(* One-stream captures (captureWith of internal/database/capture.go) and   *)
(* the tool run inside each of them: the private operation directory with  *)
(* the password file, pg_dump, the pump from its output through            *)
(* archivePipeSink into the archive writer, and the order in which         *)
(* finalize, withRunSink and postClose take all of it down again           *)
(* (internal/tools/run.go, internal/credentials/passfile.go).              *)
(*                                                                         *)
(* Runs of several sparc processes share the directory of operations.      *)
(*                                                                         *)
(* Abstractions: the dump is one piece of output; the pump of the standard *)
(* error shows only as LoopFails; the archive writer is what               *)
(* ArchivePublish promises of it: published when its source ends cleanly.  *)
(***************************************************************************)
EXTENDS Naturals

CONSTANTS
  Runs,       \* captures under way
  Faulty,     \* those of them in which something may fail, time out or be killed
  Ids,        \* names the random generator may draw for an operation directory
  Tries,      \* directories a run tries to create (16 in the code)
  Nobody,     \* the owner of a directory that does not exist
  NoId        \* the name of the directory of a run that has none

ASSUME RunAssumption ==
  Faulty \subseteq Runs /\ Tries \in Nat /\ Nobody \notin Runs /\ NoId \notin Ids

VARIABLES
  pc,         \* control point of the run and, behind it, of captureWith
  tries,      \* directories it has tried
  id,         \* its operation directory
  owner,      \* who created each operation directory that exists
  passfile,   \* the password file in it: "none", "partial" or "whole"
  child,      \* pg_dump: "none", "running", "ok", "failed"
  made,       \* pg_dump has written its output
  pump,       \* the output pump: "none", "on", "ended" or "failed"
  taken,      \* the archive has received the output
  waiter,     \* the goroutine behind process.Wait: "none", "on" or "done"
  closed,     \* the parent's descriptors are closed
  sink,       \* archivePipeSink: "open", "closed" or "aborted"
  archive,    \* the archive writer: "reading", "published" or "failed"
  expired,    \* the context of the run is done
  cancelled,  \* the caller's context is done
  failed,     \* the run will report an error
  refused,    \* the directory could not be removed
  ret         \* what captureWith returned: "none", "ok" or "failed"

control == <<pc, failed, ret>>
disk    == <<tries, id, owner, passfile, refused>>
process == <<child, made, waiter>>
stream  == <<pump, taken, closed, sink, archive>>
context == <<expired, cancelled>>
vars    == <<control, disk, process, stream, context>>

PC == {"validate", "claim", "passfile", "cert", "setup", "start", "copies", "loop",
       "finalize", "files", "kill", "collect", "finish", "removePassfile",
       "removeDirectory", "capture", "returned", "dead"}

Init ==
  /\ pc = [r \in Runs |-> "validate"] /\ tries = [r \in Runs |-> 0]
  /\ id = [r \in Runs |-> NoId]
  /\ owner = [i \in Ids |-> Nobody] /\ passfile = [i \in Ids |-> "none"]
  /\ child = [r \in Runs |-> "none"] /\ made = [r \in Runs |-> FALSE]
  /\ pump = [r \in Runs |-> "none"] /\ taken = [r \in Runs |-> FALSE]
  /\ waiter = [r \in Runs |-> "none"] /\ closed = [r \in Runs |-> FALSE]
  /\ sink = [r \in Runs |-> "open"] /\ archive = [r \in Runs |-> "reading"]
  /\ expired = [r \in Runs |-> FALSE] /\ cancelled = [r \in Runs |-> FALSE]
  /\ failed = [r \in Runs |-> FALSE] /\ refused = [r \in Runs |-> FALSE]
  /\ ret = [r \in Runs |-> "none"]

Alive(r) == pc[r] # "dead"
Goto(r, p) == pc' = [pc EXCEPT ![r] = p]
GiveUp(r, p) == Goto(r, p) /\ failed' = [failed EXCEPT ![r] = TRUE]
Fail(r, p) == r \in Faulty /\ GiveUp(r, p)
Pass(r, p) == Goto(r, p) /\ UNCHANGED failed
Gone(r)    == child[r] \in {"ok", "failed"}

-----------------------------------------------------------------------------
(* The operation directory and what is put into it.                        *)

\* prepareProductionPayload and validateRunInputs.
Validate(r) ==
  /\ pc[r] = "validate"
  /\ (Pass(r, "claim") /\ ~expired[r]) \/ Fail(r, "finish")
  /\ UNCHANGED <<ret, disk, process, stream, context>>

\* Mutant of Claim: a directory that exists already is as good as a new one.
ClaimAny(r) ==
  /\ pc[r] = "claim" /\ tries[r] < Tries
  /\ tries' = [tries EXCEPT ![r] = @ + 1]
  /\ \E i \in Ids :
       /\ owner' = [owner EXCEPT ![i] = r] /\ id' = [id EXCEPT ![r] = i]
       /\ Pass(r, "passfile")
  /\ UNCHANGED <<passfile, refused, ret, process, stream, context>>

\* createOperationDirectory: a drawn name is used only where this run itself could
\* create the directory, and is given back when the context ended meanwhile.
Claim(r) ==
  /\ pc[r] = "claim" /\ tries[r] < Tries
  /\ tries' = [tries EXCEPT ![r] = @ + 1]
  /\ \E i \in Ids :
       \/ /\ owner[i] = Nobody /\ ~expired[r]
          /\ owner' = [owner EXCEPT ![i] = r] /\ id' = [id EXCEPT ![r] = i]
          /\ Pass(r, "passfile") /\ UNCHANGED refused
       \/ /\ owner[i] = Nobody /\ expired[r]
          /\ Fail(r, "finish") /\ UNCHANGED id
          /\ \/ UNCHANGED <<owner, refused>>
             \/ /\ owner' = [owner EXCEPT ![i] = r]
                /\ refused' = [refused EXCEPT ![r] = TRUE]
       \/ /\ owner[i] # Nobody
          /\ Pass(r, "claim") /\ UNCHANGED <<owner, id, refused>>
  /\ UNCHANGED <<passfile, ret, process, stream, context>>

\* No random bytes, no parent directory, or every name was taken.
ClaimFails(r) ==
  /\ pc[r] = "claim" /\ (r \in Faulty \/ tries[r] = Tries)
  /\ GiveUp(r, "finish")
  /\ UNCHANGED <<ret, disk, process, stream, context>>

\* NewPGPassfile: the whole line on disk, or an attempt to take the file back.
Passfile(r) ==
  /\ pc[r] = "passfile"
  /\ \/ /\ ~expired[r]
        /\ passfile' = [passfile EXCEPT ![id[r]] = "whole"] /\ Pass(r, "cert")
     \/ /\ \E left \in {"none", "partial"} :
             passfile' = [passfile EXCEPT ![id[r]] = left]
        /\ Fail(r, "finish")
  /\ UNCHANGED <<tries, id, owner, refused, ret, process, stream, context>>

\* root.crt.
Certificate(r) ==
  /\ pc[r] = "cert"
  /\ Pass(r, "setup") \/ Fail(r, "finish")
  /\ UNCHANGED <<ret, disk, process, stream, context>>

-----------------------------------------------------------------------------
(* executeRun.                                                             *)

\* home, tmp and config, the null input and two pipes.
Setup(r) ==
  /\ pc[r] = "setup"
  /\ (Pass(r, "start") /\ ~expired[r]) \/ Fail(r, "finalize")
  /\ UNCHANGED <<ret, disk, process, stream, context>>

\* A child that was started too late is left to finalize, without a waiter.
Start(r) ==
  /\ pc[r] = "start"
  /\ \/ Fail(r, "finalize") /\ UNCHANGED <<child, waiter>>
     \/ /\ child' = [child EXCEPT ![r] = "running"]
        /\ IF expired[r] THEN Fail(r, "finalize") /\ UNCHANGED waiter
           ELSE Pass(r, "copies") /\ waiter' = [waiter EXCEPT ![r] = "on"]
  /\ UNCHANGED <<ret, disk, made, stream, context>>

\* The parent's copies of the child's descriptors are closed, then the pump starts.
CloseCopies(r) ==
  /\ pc[r] = "copies"
  /\ \/ Pass(r, "loop") /\ pump' = [pump EXCEPT ![r] = "on"]
     \/ Fail(r, "finalize") /\ UNCHANGED pump
  /\ UNCHANGED <<ret, disk, process, taken, closed, sink, archive, context>>

LoopEnds(r) ==
  /\ pc[r] = "loop" /\ pump[r] = "ended" /\ waiter[r] = "done"
  /\ Pass(r, "finalize")
  /\ UNCHANGED <<ret, disk, process, stream, context>>

\* Mutant of LoopFails: the loop waits for the child without looking at the context.
LoopFailsUnlessExpired(r) ==
  /\ pc[r] = "loop" /\ (pump[r] = "failed" \/ ~expired[r])
  /\ Fail(r, "finalize")
  /\ UNCHANGED <<ret, disk, process, stream, context>>

\* The output could not be delivered, the standard error is too long, or the context
\* is done.
LoopFails(r) ==
  /\ pc[r] = "loop"
  /\ Fail(r, "finalize")
  /\ UNCHANGED <<ret, disk, process, stream, context>>

\* finalize: a run that ended after its context was done has failed.
Finalize(r) ==
  /\ pc[r] = "finalize"
  /\ IF expired[r] THEN Fail(r, "files") ELSE Pass(r, "files")
  /\ expired' = [expired EXCEPT ![r] = TRUE]
  /\ UNCHANGED <<ret, disk, process, stream, cancelled>>

CloseFiles(r) ==
  /\ pc[r] = "files"
  /\ closed' = [closed EXCEPT ![r] = TRUE]
  /\ Pass(r, "kill") \/ Fail(r, "kill")
  /\ UNCHANGED <<ret, disk, process, pump, taken, sink, archive, context>>

\* closeProcess: once with a deadline and, when that fails, once without.
Kill(r) ==
  /\ pc[r] = "kill"
  /\ child' = [child EXCEPT ![r] = IF @ = "running" THEN "failed" ELSE @]
  /\ Pass(r, "collect") \/ (Fail(r, "collect") /\ child[r] # "none")
  /\ UNCHANGED <<ret, disk, made, waiter, stream, context>>

\* collect and workers.Wait, then the verdict.
Collect(r) ==
  /\ pc[r] = "collect" /\ pump[r] # "on" /\ waiter[r] # "on"
  /\ IF child[r] = "ok" /\ pump[r] = "ended" THEN Pass(r, "finish")
     ELSE Fail(r, "finish")
  /\ UNCHANGED <<ret, disk, process, stream, context>>

-----------------------------------------------------------------------------
(* withRunSink: the sink first, the secrets last.                          *)

\* Mutant of Finish: the sink is closed, whatever the run reports.
FinishAlways(r) ==
  /\ pc[r] = "finish"
  /\ sink' = [sink EXCEPT ![r] = IF @ = "open" THEN "closed" ELSE @]
  /\ Goto(r, IF id[r] = NoId THEN "capture" ELSE "removePassfile")
  /\ UNCHANGED <<failed, ret, disk, process, pump, taken, closed, archive, context>>

\* runSink.finish: a failed run aborts the sink, a good one closes it; only the first
\* of them counts.
Finish(r) ==
  /\ pc[r] = "finish"
  /\ sink' = [sink EXCEPT ![r] = IF @ # "open" THEN @
                                 ELSE IF failed[r] THEN "aborted" ELSE "closed"]
  /\ Goto(r, IF id[r] = NoId THEN "capture" ELSE "removePassfile")
  /\ UNCHANGED <<failed, ret, disk, process, pump, taken, closed, archive, context>>

\* Mutant of RemovePassfile: a password file that stays ends the cleanup.
RemovePassfileOrStop(r) ==
  /\ pc[r] = "removePassfile"
  /\ \/ /\ passfile[id[r]] = "whole"
        /\ Pass(r, "removeDirectory") /\ passfile' = [passfile EXCEPT ![id[r]] = "none"]
     \/ Fail(r, "capture") /\ UNCHANGED passfile
  /\ UNCHANGED <<tries, id, owner, refused, ret, process, stream, context>>

\* postClose: PGPassfile.Close of the file NewPGPassfile has returned, if any...
RemovePassfile(r) ==
  /\ pc[r] = "removePassfile"
  /\ \/ /\ passfile[id[r]] = "whole"
        /\ Pass(r, "removeDirectory") /\ passfile' = [passfile EXCEPT ![id[r]] = "none"]
     \/ Fail(r, "removeDirectory") /\ UNCHANGED passfile
  /\ UNCHANGED <<tries, id, owner, refused, ret, process, stream, context>>

\* ... and, whether that worked or not, the directory with everything left in it.
RemoveDirectory(r) ==
  /\ pc[r] = "removeDirectory"
  /\ \/ /\ owner' = [owner EXCEPT ![id[r]] = Nobody]
        /\ passfile' = [passfile EXCEPT ![id[r]] = "none"]
        /\ Pass(r, "capture") /\ UNCHANGED refused
     \/ /\ refused' = [refused EXCEPT ![r] = TRUE]
        /\ Fail(r, "capture") /\ UNCHANGED <<owner, passfile>>
  /\ UNCHANGED <<tries, id, ret, process, stream, context>>

\* captureWith: by now the sink is finished, and its close or abort changes nothing.
Capture(r) ==
  /\ pc[r] = "capture" /\ archive[r] # "reading"
  /\ ret' = [ret EXCEPT ![r] = IF failed[r] \/ cancelled[r] \/ archive[r] = "failed"
                               THEN "failed" ELSE "ok"]
  /\ Pass(r, "returned")
  /\ UNCHANGED <<disk, process, stream, context>>

-----------------------------------------------------------------------------
(* pg_dump, the goroutines, the archive and the clock.                     *)

ChildWrites(r) ==
  /\ child[r] = "running" /\ ~made[r]
  /\ made' = [made EXCEPT ![r] = TRUE]
  /\ UNCHANGED <<control, disk, child, waiter, stream, context>>

ChildExits(r) ==
  /\ child[r] = "running"
  /\ \E c \in {"ok", "failed"} :
       /\ IF c = "ok" THEN made[r] ELSE r \in Faulty
       /\ child' = [child EXCEPT ![r] = c]
  /\ UNCHANGED <<control, disk, made, waiter, stream, context>>

\* pumpStdout hands the output to the sink, and the archive takes it.
PumpWrites(r) ==
  /\ pump[r] = "on" /\ Alive(r) /\ made[r] /\ ~taken[r] /\ ~closed[r]
  /\ archive[r] = "reading" /\ sink[r] = "open"
  /\ taken' = [taken EXCEPT ![r] = TRUE]
  /\ UNCHANGED <<control, disk, process, pump, closed, sink, archive, context>>

\* The end of the output: the child is gone and all it wrote was delivered.
PumpEnds(r) ==
  /\ pump[r] = "on" /\ Alive(r) /\ Gone(r) /\ (made[r] => taken[r])
  /\ pump' = [pump EXCEPT ![r] = "ended"]
  /\ UNCHANGED <<control, disk, process, taken, closed, sink, archive, context>>

\* The archive has failed, the output is too long, a descriptor is closed; or the
\* context ends, which aborts a sink whose write is under way.
PumpFails(r) ==
  /\ pump[r] = "on" /\ Alive(r) /\ r \in Faulty
  /\ pump' = [pump EXCEPT ![r] = "failed"]
  /\ \/ UNCHANGED sink
     \/ /\ expired[r] /\ made[r]
        /\ sink' = [sink EXCEPT ![r] = IF @ = "open" THEN "aborted" ELSE @]
  /\ UNCHANGED <<control, disk, process, taken, closed, archive, context>>

WaitReturns(r) ==
  /\ waiter[r] = "on" /\ Alive(r) /\ Gone(r)
  /\ waiter' = [waiter EXCEPT ![r] = "done"]
  /\ UNCHANGED <<control, disk, child, made, stream, context>>

\* destination.Create: published when the source ends, unless something fails.
ArchiveEnds(r) ==
  /\ archive[r] = "reading" /\ Alive(r) /\ sink[r] # "open"
  /\ \E a \in {"published", "failed"} :
       /\ IF a = "published" THEN sink[r] = "closed" ELSE failed[r] \/ r \in Faulty
       /\ archive' = [archive EXCEPT ![r] = a]
  /\ UNCHANGED <<control, disk, process, pump, taken, closed, sink, context>>

ArchiveFails(r) ==
  /\ archive[r] = "reading" /\ Alive(r) /\ sink[r] = "open" /\ r \in Faulty
  /\ archive' = [archive EXCEPT ![r] = "failed"]
  /\ UNCHANGED <<control, disk, process, pump, taken, closed, sink, context>>

\* The time of the run is over, or its caller gives up.
Expire(r) ==
  /\ r \in Faulty /\ ~expired[r] /\ Alive(r)
  /\ expired' = [expired EXCEPT ![r] = TRUE]
  /\ UNCHANGED <<control, disk, process, stream, cancelled>>

Cancel(r) ==
  /\ r \in Faulty /\ ~cancelled[r] /\ pc[r] \notin {"returned", "dead"}
  /\ cancelled' = [cancelled EXCEPT ![r] = TRUE]
  /\ expired' = [expired EXCEPT ![r] = TRUE]
  /\ UNCHANGED <<control, disk, process, stream>>

\* The sparc process is killed: directory, password file and child stay as they are.
Die(r) ==
  /\ r \in Faulty /\ pc[r] \notin {"returned", "dead"}
  /\ Goto(r, "dead")
  /\ UNCHANGED <<failed, ret, disk, process, stream, context>>

-----------------------------------------------------------------------------
Runner(r) ==
  \/ Validate(r) \/ Claim(r) \/ ClaimFails(r) \/ Passfile(r) \/ Certificate(r)
  \/ Setup(r) \/ Start(r) \/ CloseCopies(r) \/ LoopEnds(r) \/ Finalize(r)
  \/ CloseFiles(r) \/ Kill(r) \/ Collect(r) \/ Finish(r) \/ RemovePassfile(r)
  \/ RemoveDirectory(r) \/ Capture(r)

\* An error may come at any time; an expired context must be answered.
LoopExpires(r) == expired[r] /\ LoopFails(r)

Around(r) ==
  \/ LoopFails(r) \/ ChildWrites(r) \/ ChildExits(r) \/ PumpWrites(r) \/ PumpEnds(r)
  \/ PumpFails(r) \/ WaitReturns(r) \/ ArchiveEnds(r) \/ ArchiveFails(r) \/ Expire(r)
  \/ Cancel(r) \/ Die(r)

Next == \E r \in Runs : Runner(r) \/ Around(r)

Spec == Init /\ [][Next]_vars

\* The goroutines of a run are scheduled and the timeout of the run comes; nothing is asked of
\* pg_dump, which may hang for ever.
Fairness ==
  \A r \in Faulty :
    /\ WF_vars(Runner(r)) /\ WF_vars(LoopExpires(r)) /\ WF_vars(Expire(r))
    /\ WF_vars(closed[r] /\ PumpFails(r)) /\ WF_vars(WaitReturns(r))
    /\ WF_vars(ArchiveEnds(r))

FairSpec == Spec /\ Fairness

-----------------------------------------------------------------------------
(* Properties.                                                             *)

TypeOK ==
  /\ pc \in [Runs -> PC] /\ tries \in [Runs -> 0..Tries] /\ id \in [Runs -> Ids \cup {NoId}]
  /\ owner \in [Ids -> Runs \cup {Nobody}]
  /\ passfile \in [Ids -> {"none", "partial", "whole"}]
  /\ child \in [Runs -> {"none", "running", "ok", "failed"}]
  /\ pump \in [Runs -> {"none", "on", "ended", "failed"}]
  /\ waiter \in [Runs -> {"none", "on", "done"}]
  /\ sink \in [Runs -> {"open", "closed", "aborted"}]
  /\ archive \in [Runs -> {"reading", "published", "failed"}]
  /\ ret \in [Runs -> {"none", "ok", "failed"}]
  /\ made \in [Runs -> BOOLEAN] /\ taken \in [Runs -> BOOLEAN] /\ closed \in [Runs -> BOOLEAN]
  /\ expired \in [Runs -> BOOLEAN] /\ cancelled \in [Runs -> BOOLEAN]
  /\ failed \in [Runs -> BOOLEAN] /\ refused \in [Runs -> BOOLEAN]

\* When a run is over its directory, and the password in it, are gone, whichever step
\* failed; or the system refused to remove the directory and the run says it failed.
SecretsAreRemoved ==
  \A r \in Runs :
    pc[r] \in {"capture", "returned"}
      => \/ \A i \in Ids : owner[i] # r
         \/ refused[r] /\ failed[r]

\* As long as pg_dump runs, the directory it works in is its run's own and holds the
\* whole password file: nobody removes it under the child, and no other run uses it.
ChildKeepsItsDirectory ==
  \A r \in Runs :
    child[r] = "running"
      => id[r] # NoId /\ owner[id[r]] = r /\ passfile[id[r]] = "whole"

\* What a one-stream capture publishes is a complete dump of a pg_dump that succeeded,
\* also where the capture itself fails afterwards because a file could not be removed.
PublishedCaptureIsWhole ==
  \A r \in Runs :
    /\ archive[r] = "published" => child[r] = "ok" /\ made[r] /\ taken[r]
    /\ ret[r] = "ok" => archive[r] = "published"

\* Every capture returns, even if pg_dump never ends.
CaptureReturns ==
  \A r \in Faulty : <>(pc[r] \in {"returned", "dead"})
=============================================================================
