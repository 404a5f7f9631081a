---------------------------- MODULE SplitCapture ----------------------------
(***************************************************************************)
(* One split capture: captureSplitWith of internal/database/capture.go.    *)
(*                                                                         *)
(* The caller's goroutine runs pg_dump twice and then writes the recovery  *)
(* profile; the archive goroutine encrypts three components in order and   *)
(* publishes them; the parser goroutine fingerprints the data component    *)
(* that the archive goroutine tees to it.  They meet in four io.Pipes,     *)
(* which transfer a chunk only when both ends are there.                   *)
(*                                                                         *)
(* Abstractions: a chunk is what one Write hands over, and only their      *)
(* number is kept; tools.Run is its effect on the sink and its result;     *)
(* destination.Create is its reads, its failures and its publication.      *)
(***************************************************************************)
EXTENDS Naturals

CONSTANT MaxChunks   \* bound on the chunks one dump writes

ASSUME ChunksAssumption == MaxChunks \in Nat

Dumps == {"schema", "data"}
Parts == {"schema", "data", "profile"}
Pipes == Parts \cup {"tee"}

VARIABLES
  main,       \* control point of the caller's goroutine
  outcome,    \* what each dump came to: "pending", "ok" or "failed"
  arch,       \* control point of the archive goroutine
  archived,   \* archiveResult: "pending", "ok" or "failed"
  parser,     \* control point of the parser goroutine
  fingerprints, \* fingerprintResult: "pending", "ok" or "failed"
  wend,       \* write end of each pipe: "open", "eof" or "error" (first close wins)
  rclosed,    \* pipes whose read end is closed
  sent,       \* chunks each dump has handed over
  stored,     \* chunks of each component in the archive
  hashed,     \* chunks the parser has fingerprinted
  expired,    \* the context of the capture is done
  published,  \* the archive is visible at its final path
  destFault,  \* history: the destination itself failed (disk, lost race)
  ret         \* result of the capture: "none", "ok" or "failed"

pipes    == <<wend, rclosed>>
chunks   == <<sent, stored, hashed>>
archVars == <<arch, archived, published, destFault>>
parsing  == <<parser, fingerprints>>
vars     == <<main, outcome, ret, expired, pipes, chunks, archVars, parsing>>

MainPC == {"prepare", "schema", "schemaRan", "data", "dataRan", "collect", "profile",
           "profileClose", "spoil", "closeSource", "join", "returned"}
ArchPC == Parts \cup {"none", "tee", "seal", "failing", "closing", "ended"}

Init ==
  /\ main = "prepare" /\ ret = "none" /\ expired = FALSE
  /\ outcome = [d \in Dumps |-> "pending"]
  /\ arch = "none" /\ archived = "pending" /\ published = FALSE /\ destFault = FALSE
  /\ parser = "none" /\ fingerprints = "pending"
  /\ wend = [p \in Pipes |-> "open"] /\ rclosed = {}
  /\ sent = [d \in Dumps |-> 0] /\ stored = [p \in Parts |-> 0] /\ hashed = 0

-----------------------------------------------------------------------------
(* Pipe ends.                                                              *)

\* io.PipeWriter.Close and CloseWithError, and the once of archivePipeSink and
\* of closeTee: the first close decides what the reader sees.
Shut(p, how) ==
  wend' = IF wend[p] = "open" THEN [wend EXCEPT ![p] = how] ELSE wend

Flows(p)  == wend[p] = "open" /\ p \notin rclosed
Ends(p)   == wend[p] = "eof" /\ p \notin rclosed
Breaks(p) == wend[p] = "error" \/ p \in rclosed

Expire ==
  /\ ~expired /\ expired' = TRUE
  /\ UNCHANGED <<main, outcome, ret, pipes, chunks, archVars, parsing>>

-----------------------------------------------------------------------------
(* The caller's goroutine.                                                 *)

\* prepareCapture fails before any goroutine starts.
PrepareFails ==
  /\ main = "prepare"
  /\ main' = "returned" /\ ret' = "failed"
  /\ UNCHANGED <<outcome, expired, pipes, chunks, archVars, parsing>>

StartGoroutines ==
  /\ main = "prepare"
  /\ main' = "schema" /\ arch' = "schema" /\ parser' = "reading"
  /\ UNCHANGED <<outcome, ret, expired, pipes, chunks, archived, published, destFault,
                 fingerprints>>

Ran(d) == IF d = "schema" THEN "schemaRan" ELSE "dataRan"

\* The schema transform closes cleanly only over the one CREATE SCHEMA line it
\* replaces; a data dump may well be empty.
Complete(d) == d = "schema" => sent[d] > 0

\* pg_dump exited with 0 and Run closed the sink and cleaned up.
RunSucceeds(d) ==
  /\ main = d /\ Complete(d)
  /\ Shut(d, "eof")
  /\ outcome' = [outcome EXCEPT ![d] = "ok"]
  /\ main' = Ran(d)
  /\ UNCHANGED <<ret, expired, rclosed, chunks, archVars, parsing>>

\* Any failure that aborts the sink: a nonzero exit, a broken pipe, a refused
\* schema transform, the context or the timeout of the run.
RunFails(d) ==
  /\ main = d
  /\ Shut(d, "error")
  /\ outcome' = [outcome EXCEPT ![d] = "failed"]
  /\ main' = Ran(d)
  /\ UNCHANGED <<ret, expired, rclosed, chunks, archVars, parsing>>

\* The sink was closed cleanly and only then the passfile or the operation
\* directory could not be removed: the reader sees a complete stream.
RunFailsLate(d) ==
  /\ main = d /\ Complete(d)
  /\ Shut(d, "eof")
  /\ outcome' = [outcome EXCEPT ![d] = "failed"]
  /\ main' = Ran(d)
  /\ UNCHANGED <<ret, expired, rclosed, chunks, archVars, parsing>>

\* Mutant: the data source is left open when the schema dump failed.
AfterSchemaKeepsSource ==
  /\ main = "schemaRan"
  /\ IF outcome["schema"] = "ok" /\ ~expired
     THEN main' = "data" /\ UNCHANGED <<outcome, wend>>
     ELSE /\ main' = "collect"
          /\ outcome' = [outcome EXCEPT !["schema"] = "failed"]
          /\ wend' = [p \in Pipes |-> IF p \in Dumps /\ wend[p] = "open"
                                      THEN "error" ELSE wend[p]]
  /\ UNCHANGED <<ret, expired, rclosed, chunks, archVars, parsing>>

\* After Run: an expired context fails the dump; then on to the data dump, or,
\* when the schema dump failed, every pipe of the data component is broken.
AfterSchema ==
  /\ main = "schemaRan"
  /\ IF outcome["schema"] = "ok" /\ ~expired
     THEN main' = "data" /\ UNCHANGED <<outcome, pipes>>
     ELSE /\ main' = "collect"
          /\ outcome' = [outcome EXCEPT !["schema"] = "failed"]
          /\ wend' = [p \in Pipes |-> IF p \in Dumps \cup {"tee"} /\ wend[p] = "open"
                                      THEN "error" ELSE wend[p]]
          /\ rclosed' = rclosed \cup {"data"}
  /\ UNCHANGED <<ret, expired, chunks, archVars, parsing>>

AfterData ==
  /\ main = "dataRan"
  /\ main' = "collect"
  /\ outcome' = IF expired THEN [outcome EXCEPT !["data"] = "failed"] ELSE outcome
  /\ IF outcome'["data"] = "ok" THEN UNCHANGED wend ELSE Shut("data", "error")
  /\ UNCHANGED <<ret, expired, rclosed, chunks, archVars, parsing>>

\* Mutant: only the exit code of the schema dump counts.
ValidDumpsSchemaOnly == outcome["schema"] = "ok" /\ fingerprints = "ok"

ValidDumps == outcome["schema"] = "ok" /\ outcome["data"] = "ok" /\ fingerprints = "ok"

\* validSplitCaptureManifest: no component of the manifest is empty.
NoneEmpty == \A p \in Parts : stored[p] > 0

\* Receive the parser's result; only valid dumps lead to a profile.
Collect ==
  /\ main = "collect" /\ parser = "sent"
  /\ IF ValidDumps THEN main' \in {"profile", "spoil"} ELSE main' = "spoil"
  /\ UNCHANGED <<outcome, ret, expired, pipes, chunks, archVars, parsing>>

\* profileWriter.Write hands the profile to the archive goroutine...
WriteProfile ==
  /\ main = "profile" /\ Flows("profile") /\ arch = "profile"
  /\ stored' = [stored EXCEPT !["profile"] = @ + 1]
  /\ main' = "profileClose"
  /\ UNCHANGED <<outcome, ret, expired, pipes, sent, hashed, archVars, parsing>>

\* ... or fails because the archive goroutine has left.
WriteProfileFails ==
  /\ main = "profile" /\ Breaks("profile")
  /\ main' = "spoil"
  /\ UNCHANGED <<outcome, ret, expired, pipes, chunks, archVars, parsing>>

CloseProfile ==
  /\ main = "profileClose"
  /\ Shut("profile", "eof")
  /\ main' = "closeSource"
  /\ UNCHANGED <<outcome, ret, expired, rclosed, chunks, archVars, parsing>>

\* profileWriter.CloseWithError: the archive cannot be completed any more.
SpoilProfile ==
  /\ main = "spoil"
  /\ Shut("profile", "error")
  /\ main' = "closeSource"
  /\ UNCHANGED <<outcome, ret, expired, rclosed, chunks, archVars, parsing>>

CloseDataSource ==
  /\ main = "closeSource"
  /\ rclosed' = rclosed \cup {"data"}
  /\ Shut("tee", "error")
  /\ main' = "join"
  /\ UNCHANGED <<outcome, ret, expired, chunks, archVars, parsing>>

\* Mutants of Join: the archive's own result is ignored; a capture whose dumps
\* failed does not wait for the archive goroutine.
JoinIgnoresArchive ==
  /\ main = "join" /\ archived # "pending"
  /\ main' = "returned"
  /\ ret' = IF ValidDumps /\ wend["profile"] = "eof" THEN "ok" ELSE "failed"
  /\ UNCHANGED <<outcome, expired, pipes, chunks, archVars, parsing>>
JoinEarly ==
  /\ main = "join" /\ (archived # "pending" \/ ~ValidDumps)
  /\ main' = "returned"
  /\ ret' = IF ValidDumps /\ wend["profile"] = "eof" /\ archived = "ok" /\ NoneEmpty
            THEN "ok" ELSE "failed"
  /\ UNCHANGED <<outcome, expired, pipes, chunks, archVars, parsing>>

\* Receive the archive's result and judge it with the dumps', the profile's and
\* the returned manifest.
Join ==
  /\ main = "join" /\ archived # "pending"
  /\ main' = "returned"
  /\ ret' = IF ValidDumps /\ wend["profile"] = "eof" /\ archived = "ok" /\ NoneEmpty
            THEN "ok" ELSE "failed"
  /\ UNCHANGED <<outcome, expired, pipes, chunks, archVars, parsing>>

-----------------------------------------------------------------------------
(* The archive goroutine: destination.Create over the three components.    *)

After(part) == IF part = "schema" THEN "data" ELSE IF part = "data" THEN "profile" ELSE "seal"

\* A chunk of the schema dump reaches the archive.
SchemaChunk ==
  /\ main = "schema" /\ arch = "schema" /\ Flows("schema")
  /\ sent["schema"] < MaxChunks
  /\ sent' = [sent EXCEPT !["schema"] = @ + 1]
  /\ stored' = [stored EXCEPT !["schema"] = @ + 1]
  /\ UNCHANGED <<main, outcome, ret, expired, pipes, hashed, archVars, parsing>>

\* A chunk of the data dump reaches fingerprintTeeReader.Read.
DataChunk ==
  /\ main = "data" /\ arch = "data" /\ Flows("data")
  /\ sent["data"] < MaxChunks
  /\ sent' = [sent EXCEPT !["data"] = @ + 1]
  /\ arch' = "tee"
  /\ UNCHANGED <<main, outcome, ret, expired, pipes, stored, hashed, archived, published,
                 destFault, parsing>>

\* The tee hands the chunk to the parser, which may refuse it; then the chunk is
\* encrypted.
TeeChunk ==
  /\ arch = "tee" /\ parser = "reading" /\ Flows("tee")
  /\ hashed' = hashed + 1
  /\ stored' = [stored EXCEPT !["data"] = @ + 1]
  /\ arch' = "data"
  /\ \/ UNCHANGED parsing
     \/ parser' = "parsed" /\ fingerprints' = "failed"
  /\ UNCHANGED <<main, outcome, ret, expired, pipes, sent, archived, published, destFault>>

TeeFails ==
  /\ arch = "tee" /\ Breaks("tee")
  /\ Shut("tee", "error")
  /\ arch' = "failing"
  /\ UNCHANGED <<main, outcome, ret, expired, rclosed, chunks, archived, published, destFault,
                 parsing>>

\* End of a component; the tee passes the end of the data on to the parser.
PartEnds(part) ==
  /\ arch = part /\ Ends(part)
  /\ arch' = After(part)
  /\ IF part = "data" THEN Shut("tee", "eof") ELSE UNCHANGED wend
  /\ UNCHANGED <<main, outcome, ret, expired, rclosed, chunks, archived, published, destFault,
                 parsing>>

PartBreaks(part) ==
  /\ arch = part /\ Breaks(part)
  /\ arch' = "failing"
  /\ IF part = "data" THEN Shut("tee", "error") ELSE UNCHANGED wend
  /\ UNCHANGED <<main, outcome, ret, expired, rclosed, chunks, archived, published, destFault,
                 parsing>>

\* The destination fails: a write, a close, the read-back or the publication.
DestinationFails ==
  /\ arch \in Parts \cup {"seal"}
  /\ destFault' = TRUE /\ arch' = "failing"
  /\ UNCHANGED <<main, outcome, ret, expired, pipes, chunks, archived, published, parsing>>

\* Payloads are verified, the manifest written and the directory renamed.
Publish ==
  /\ arch = "seal"
  /\ published' = TRUE /\ archived' = "ok" /\ arch' = "closing"
  /\ UNCHANGED <<main, outcome, ret, expired, pipes, chunks, destFault, parsing>>

ReportFailure ==
  /\ arch = "failing"
  /\ archived' = "failed" /\ arch' = "closing"
  /\ UNCHANGED <<main, outcome, ret, expired, pipes, chunks, published, destFault, parsing>>

\* The deferred closes: the read ends of the components, not the tee.
CloseReaders ==
  /\ arch = "closing"
  /\ rclosed' = rclosed \cup Parts
  /\ arch' = "ended"
  /\ UNCHANGED <<main, outcome, ret, expired, wend, chunks, archived, published, destFault,
                 parsing>>

-----------------------------------------------------------------------------
(* The parser goroutine.                                                   *)

\* The end of the stream: well-formed, or inside a table.
ParserEnds ==
  /\ parser = "reading" /\ Ends("tee")
  /\ fingerprints' \in {"ok", "failed"} /\ parser' = "parsed"
  /\ UNCHANGED <<main, outcome, ret, expired, pipes, chunks, archVars>>

ParserBreaks ==
  /\ parser = "reading" /\ Breaks("tee")
  /\ fingerprints' = "failed" /\ parser' = "parsed"
  /\ UNCHANGED <<main, outcome, ret, expired, pipes, chunks, archVars>>

ParserSends ==
  /\ parser = "parsed"
  /\ rclosed' = rclosed \cup {"tee"}
  /\ parser' = "sent"
  /\ UNCHANGED <<main, outcome, ret, expired, wend, chunks, archVars, fingerprints>>

-----------------------------------------------------------------------------
Main == \/ PrepareFails \/ StartGoroutines \/ AfterSchema \/ AfterData \/ Collect
        \/ WriteProfile \/ WriteProfileFails \/ CloseProfile \/ SpoilProfile
        \/ CloseDataSource \/ Join
Dump(d) == RunSucceeds(d) \/ RunFails(d) \/ RunFailsLate(d)
Archive == \/ SchemaChunk \/ DataChunk \/ TeeChunk \/ TeeFails
           \/ (\E part \in Parts : PartEnds(part) \/ PartBreaks(part))
           \/ Publish \/ ReportFailure \/ CloseReaders
Parser == ParserEnds \/ ParserBreaks \/ ParserSends

Returned == main = "returned" /\ UNCHANGED vars

\* The one state other than a return in which the code stops: the archive
\* goroutine left while the tee was open, so the parser never answers and the
\* caller never reaches dataSource.Close.
Hang ==
  /\ main = "collect" /\ arch = "ended" /\ parser = "reading" /\ Flows("tee")
  /\ UNCHANGED vars

Next == \/ Main \/ Archive \/ DestinationFails \/ Parser \/ Expire \/ Returned \/ Hang
        \/ \E d \in Dumps : Dump(d)

\* Runnable goroutines run; a run ends by itself or by databaseToolTimeout.
\* The destination is never obliged to fail, the context never to expire.
Fairness == /\ WF_vars(Main) /\ WF_vars(Archive) /\ WF_vars(Parser)
            /\ WF_vars(\E d \in Dumps : Dump(d))

Spec     == Init /\ [][Next]_vars
FairSpec == Spec /\ Fairness

-----------------------------------------------------------------------------
(* Properties.                                                             *)

\* Every variable keeps its type.
TypeOK ==
  /\ main \in MainPC /\ ret \in {"none", "ok", "failed"} /\ expired \in BOOLEAN
  /\ outcome \in [Dumps -> {"pending", "ok", "failed"}]
  /\ arch \in ArchPC /\ archived \in {"pending", "ok", "failed"}
  /\ published \in BOOLEAN /\ destFault \in BOOLEAN
  /\ parser \in {"none", "reading", "parsed", "sent"}
  /\ fingerprints \in {"pending", "ok", "failed"}
  /\ wend \in [Pipes -> {"open", "eof", "error"}] /\ rclosed \subseteq Pipes
  /\ sent \in [Dumps -> Nat] /\ hashed \in Nat
  /\ stored \in [Parts -> Nat] /\ stored["profile"] \in 0..1

\* An archive is published only when both dumps succeeded to their last step,
\* every chunk they wrote is stored, every data chunk was fingerprinted and the
\* profile that carries those fingerprints is stored (progress.md:1661-1662).
PublishedIsWhole ==
  published =>
    /\ \A d \in Dumps : outcome[d] = "ok" /\ stored[d] = sent[d]
    /\ fingerprints = "ok" /\ hashed = stored["data"] /\ stored["profile"] = 1

\* The caller is told the truth: a capture succeeds exactly when an archive with
\* no empty component has been published (recovery_test.go:417-445).
ResultIsTruthful ==
  main = "returned" => (ret = "ok" <=> published /\ \A d \in Dumps : sent[d] > 0)

\* When the capture returns, no goroutine can touch the archive or the parser's
\* result any more.
GoroutinesAreDone ==
  main = "returned" =>
    arch \in {"none", "closing", "ended"} /\ parser \in {"none", "sent"}

\* Whatever the dumps, the parser and the context do, the capture returns unless
\* the destination fails by itself.
ReturnsUnlessDestinationFails == <>(main = "returned" \/ destFault)

\* A cancelled capture returns, whatever it was doing when it was cancelled
\* (recovery_test.go:536 "capture cancellation did not unblock the output stream").
CancelledCaptureReturns == expired ~> (main = "returned")
=============================================================================
