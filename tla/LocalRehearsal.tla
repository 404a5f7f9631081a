--------------------------- MODULE LocalRehearsal ---------------------------
(***************************************************************************)
(* The recovery rehearsal of a developer (Run in                           *)
(* internal/localdemo/recovery.go): a temporary PostgreSQL cluster, a dump *)
(* of its source database into an archive, the loss of the source, the     *)
(* restore into the target, and the clean-up of the cluster.               *)
(* RehearseExistingArchive (existing_archive.go) is the same life of a     *)
(* cluster around a restore alone: it enters with an archive in place.     *)
(*                                                                         *)
(* Every command is killed after its timeout or when the caller gives up;  *)
(* here any command may fail at any time.  The server is not a child of    *)
(* the command that starts it: killing pg_ctl leaves it alone.             *)
(*                                                                         *)
(* Abstractions: the data of a database is one value; RemoveAll happens at *)
(* once or is refused; pg_ctl, the server, pg_dump and pg_restore are      *)
(* external.                                                               *)
(***************************************************************************)

VARIABLES
  pc,        \* control point of the rehearsal
  existing,  \* it rehearses an archive that was there before
  prior,     \* a step has failed: retErr when the clean-up begins
  ret,       \* errors it has returned, among "step" and "cleanup"
  dir,       \* its temporary directory exists
  mayRun,    \* serverMayRun
  server,    \* "none", "forked" (without a lock file), "serving" or "gone"
  pidfile,   \* postmaster.pid, the lock file, exists
  found,     \* the server as it was when the clean-up looked for the lock file
  dump,      \* pg_dump: "none", "running", "ok" or "failed"
  archive,   \* at the archive path: "none", "whole", "short" or "damaged"
  source,    \* the source database: "none", "filled" or "dropped"
  target     \* the target database: "none", "empty", "partial" or "restored"

progress == <<pc, prior, ret>>
cluster  == <<dir, mayRun, server, pidfile, found>>
copy     == <<dump, archive>>
bases    == <<source, target>>
vars     == <<progress, existing, cluster, copy, bases>>

Init ==
  /\ pc = "root" /\ prior = FALSE /\ ret = {}
  /\ existing \in BOOLEAN
  /\ dir = FALSE /\ mayRun = FALSE /\ server = "none" /\ pidfile = FALSE /\ found = "none"
  /\ dump = "none" /\ archive \in (IF existing THEN {"whole", "short"} ELSE {"none"})
  /\ source = "none" /\ target = "none"

Goto(p) == pc' = p /\ UNCHANGED <<prior, ret, existing>>

\* A step returns its error, and the deferred clean-up begins.
Broken == pc' = "look" /\ prior' = TRUE /\ UNCHANGED <<ret, existing>>

Serving == server = "serving" /\ dir

-----------------------------------------------------------------------------
(* The cluster.                                                            *)

\* The temporary directory; one that is not private is removed at once.
MakeRoot ==
  /\ pc = "root"
  /\ \/ dir' = TRUE /\ Goto("prepare")
     \/ /\ dir' \in BOOLEAN /\ pc' = "returned" /\ prior' = TRUE /\ ret' = {"step"}
        /\ UNCHANGED existing
  /\ UNCHANGED <<mayRun, server, pidfile, found, copy, bases>>

\* Home, password file, versions, port, initdb and the configuration.
Prepare ==
  /\ pc = "prepare"
  /\ Goto("start") \/ Broken
  /\ UNCHANGED <<cluster, copy, bases>>

\* From here on a server may exist.
Start ==
  /\ pc = "start"
  /\ mayRun' = TRUE /\ Goto("starting")
  /\ UNCHANGED <<dir, server, pidfile, found, copy, bases>>

\* pg_ctl start.
Fork ==
  /\ pc = "starting" /\ server = "none"
  /\ server' = "forked"
  /\ UNCHANGED <<progress, existing, dir, mayRun, pidfile, found, copy, bases>>

Started ==
  /\ pc = "starting"
  /\ \/ Serving /\ Goto(IF existing THEN "create" ELSE "fill")
     \/ Broken
  /\ UNCHANGED <<cluster, copy, bases>>

\* The server locks its directory, which it needs, and serves.
Lock ==
  /\ server = "forked"
  /\ IF dir THEN server' = "serving" /\ pidfile' = TRUE
     ELSE server' = "gone" /\ UNCHANGED pidfile
  /\ UNCHANGED <<progress, existing, dir, mayRun, found, copy, bases>>

\* It ends by itself, or because it notices that its lock file has gone, and takes its
\* lock file along or not.
ServerEnds ==
  /\ server \in {"forked", "serving"}
  /\ server' = "gone"
  /\ pidfile' \in {FALSE, pidfile}
  /\ UNCHANGED <<progress, existing, dir, mayRun, found, copy, bases>>

-----------------------------------------------------------------------------
(* The rehearsal.                                                          *)

\* Both databases, the data, and a look at the target.
Fill ==
  /\ pc = "fill"
  /\ \/ Serving /\ source' = "filled" /\ target' = "empty" /\ Goto("dump")
     \/ Broken /\ UNCHANGED bases
  /\ UNCHANGED <<cluster, copy>>

\* RehearseExistingArchive creates the target alone and drops nothing.
CreateTarget ==
  /\ pc = "create"
  /\ \/ Serving /\ target' = "empty" /\ Goto("restore")
     \/ Broken /\ UNCHANGED target
  /\ UNCHANGED <<cluster, copy, source>>

StartDump ==
  /\ pc = "dump"
  /\ \/ dump' = "running" /\ Goto("archive")
     \/ Broken /\ UNCHANGED dump
  /\ UNCHANGED <<cluster, archive, bases>>

DumpEnds ==
  /\ dump = "running"
  /\ \E d \in {"ok", "failed"} :
       /\ (d = "ok" => Serving)
       /\ dump' = d
  /\ UNCHANGED <<progress, existing, cluster, archive, bases>>

\* destination.Create takes the end of the output for the end of the dump, whatever
\* pg_dump will report; or it fails, and pg_dump loses its output.
Archive ==
  /\ pc = "archive"
  /\ \/ /\ dump # "running"
        /\ archive' = IF dump = "ok" THEN "whole" ELSE "short"
        /\ Goto("await")
     \/ UNCHANGED archive /\ Goto("awaitBroken")
  /\ UNCHANGED <<cluster, dump, bases>>

\* Mutant of Await: the dump is as good as the archive.
AwaitOnly ==
  /\ pc \in {"await", "awaitBroken"} /\ dump # "running"
  /\ IF pc = "await" THEN Goto("verify") ELSE Broken
  /\ UNCHANGED <<cluster, copy, bases>>

\* cmd.Wait: what was published counts only if pg_dump succeeded.
Await ==
  /\ pc \in {"await", "awaitBroken"} /\ dump # "running"
  /\ IF pc = "await" /\ dump = "ok" THEN Goto("verify") ELSE Broken
  /\ UNCHANGED <<cluster, copy, bases>>

\* verify.Offline finds damage, but cannot tell a short dump from a whole one.
Verify ==
  /\ pc = "verify"
  /\ \/ archive # "damaged" /\ Goto("drop")
     \/ Broken
  /\ UNCHANGED <<cluster, copy, bases>>

\* DROP DATABASE and a look whether it has gone; it may have, although it failed.
Drop ==
  /\ pc = "drop"
  /\ \/ Serving /\ source' = "dropped" /\ Goto("restore")
     \/ source' \in (IF Serving THEN {"filled", "dropped"} ELSE {source}) /\ Broken
  /\ UNCHANGED <<cluster, copy, target>>

\* pg_restore reads what is decrypted.  Damage ends its input early and is an error,
\* even if pg_restore committed what it had.
Restore ==
  /\ pc = "restore"
  /\ \/ /\ Serving /\ archive # "damaged"
        /\ target' = IF archive = "whole" THEN "restored" ELSE "partial"
        /\ Goto("check")
     \/ /\ target' \in (IF ~Serving THEN {target} ELSE {"empty", "partial"}
                          \cup (IF archive = "whole" THEN {"restored"} ELSE {}))
        /\ Broken
  /\ UNCHANGED <<cluster, copy, source>>

\* checkRestoredData knows what the source held; the rehearsal of an existing archive
\* only asks whether the catalog answers.
Check ==
  /\ pc = "check"
  /\ \/ Serving /\ (target = "restored" \/ existing) /\ Goto("look")
     \/ Broken
  /\ UNCHANGED <<cluster, copy, bases>>

Damage ==
  /\ archive \in {"whole", "short"}
  /\ archive' = "damaged"
  /\ UNCHANGED <<progress, existing, cluster, dump, bases>>

-----------------------------------------------------------------------------
(* cleanupCluster.                                                         *)

Return(cleanup) ==
  /\ pc' = "returned"
  /\ ret' = (IF prior THEN {"step"} ELSE {}) \cup (IF cleanup THEN {"cleanup"} ELSE {})
  /\ UNCHANGED <<prior, existing>>

\* Is there a lock file?  The question itself may fail.
Look ==
  /\ pc = "look"
  /\ found' = server
  /\ \/ mayRun /\ pidfile /\ Goto("stop")
     \/ ~(mayRun /\ pidfile) /\ Goto("remove")
     \/ mayRun /\ Return(TRUE)
  /\ UNCHANGED <<dir, mayRun, server, pidfile, copy, bases>>

\* Mutant of Stop: the directory goes, whether the server could be stopped or not.
StopAnyway ==
  /\ pc = "stop"
  /\ server' \in {"gone", server} /\ pidfile' = (server' # "gone") /\ Goto("remove")
  /\ UNCHANGED <<dir, mayRun, found, copy, bases>>

\* pg_ctl stop: a server that was not stopped keeps its directory.
Stop ==
  /\ pc = "stop"
  /\ \/ server = "serving" /\ server' = "gone" /\ pidfile' = FALSE /\ Goto("remove")
     \/ UNCHANGED <<server, pidfile>> /\ Return(TRUE)
  /\ UNCHANGED <<dir, mayRun, found, copy, bases>>

RemoveDirectory ==
  /\ pc = "remove"
  /\ \/ dir' = FALSE /\ pidfile' = FALSE /\ Return(FALSE)
     \/ UNCHANGED <<dir, pidfile>> /\ Return(TRUE)
  /\ UNCHANGED <<mayRun, server, found, copy, bases>>

-----------------------------------------------------------------------------
Next ==
  \/ MakeRoot \/ Prepare \/ Start \/ Fork \/ Started \/ Lock \/ ServerEnds
  \/ Fill \/ CreateTarget \/ StartDump \/ DumpEnds \/ Archive \/ Await \/ Verify \/ Drop
  \/ Restore \/ Check \/ Damage \/ Look \/ Stop \/ RemoveDirectory

Spec == Init /\ [][Next]_vars

-----------------------------------------------------------------------------
(* Properties.                                                             *)

\* The source is dropped only once the archive holds a whole dump of it, although
\* verification alone could not tell and the archive is published before pg_dump has
\* reported its end.
SourceOutlivesItsDump ==
  source = "dropped" => (dump = "ok" /\ archive \in {"whole", "damaged"})

\* The directory of a serving cluster stays, unless the server locked it only after
\* the clean-up had looked; a server left behind is reported with a clean-up error; no
\* clean-up hides the first error; and a rehearsal without an error has restored its
\* data.
EndIsHonest ==
  /\ (server = "serving" /\ ~dir => found = "forked")
  /\ (pc = "returned" =>
        /\ (server = "serving" /\ dir => "cleanup" \in ret)
        /\ (prior => "step" \in ret)
        /\ (ret = {} => ~dir /\ (target = "restored" \/ existing)))
=============================================================================
