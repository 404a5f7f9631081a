# Verification of sparc-cli

TLA+ specifications of sparc-cli, the TLC runs that check them and the TLAPS
proofs about them. sparc captures a Supabase database with `pg_dump` into an
encrypted archive, verifies archives offline and restores them with `psql` into
an empty target. Paths below are relative to the repository, unless they name a
file of this directory.

The program persists little and runs one operation at a time. What is hard in
it is what happens *inside* an operation: child processes that must never
outlive their owner, streams that pass through three goroutines, an archive that
must appear whole or not at all, and a transaction that must not be committed
because somebody closed a pipe. The models are about that.

## Inventory

| Component | State | Operations | Talks to |
|---|---|---|---|
| Owned process, macOS (`internal/platform/process.go`, `process_darwin.go`) | the child and its group, exit observed, signalled, reaped, the wait result, the close outcome | start, `Wait`, `Terminate`, `CloseContext`, the waiter goroutine | kernel (kqueue, `kill`, `wait4`); tool runs |
| Owned process, Windows (`process_windows.go`) | job and process handles | start suspended, assign, resume, wait, terminate | kernel; tool runs |
| Tool runs (`internal/tools/run.go`, `internal/credentials/passfile.go`) | descriptors, password file, four workers and their results, the sink, the operation directory | `executeRun`, `finalize`, `closeProcess`, `collect`, `withRunSink` | owned process; sinks and inputs of capture and restore; passfile |
| Payload cache (`internal/tools/extract.go`, `payload.go`) | cache directory, staging directories, receipts | prepare, extract, validate, publish | file system, other processes; tool runs |
| Split capture (`internal/database/capture.go`) | four pipes, two sinks, the tee, two result channels | `captureSplitWith`, archive goroutine, parser goroutine | tool runs, destination, fingerprints |
| Schema transform (`capture_sql.go`) | the lexer of the dump | write, close, abort | capture |
| Fingerprints and profile (`recovery_fingerprint.go`, `recovery_profile.go`) | per-table hash and row count | parse COPY stream, build verification SQL, parse and validate profile | capture, restore |
| Destination (`internal/destination/local.go`) | staging directory, final path | `Create`, `cleanupStaging` | archive writer, platform |
| Archive (`internal/archive`) | payload files, manifest | `Write`, `Verify`, `OpenComponent`, `ParseManifest` | age encryption, file system |
| Offline verification (`internal/verify`) | none | `Offline` | archive |
| Verified restore (`restore.go`, `restore_fingerprint.go`, `restore_split.go`) | the gate, the verification sink, the archive components | preflight, restore, verify, allow or cancel | tool runs, `psql`, server |
| Target inspection (`inspect.go`, `security.go`, `connect.go`, `public_auth.go`) | one read-only session | observe, `CheckEmptyTargetV1` | server |
| Operation report (`internal/operation/report.go`) | none | outcome, coverage, validate | localdemo |
| Local demo and trials (`internal/localdemo`, `restore_*_localdemo.go`, `cmd/sparc-local*`, `cmd/sparc-hostedtry`) | temporary cluster, table-of-contents selection | run, restore an existing archive, clean up | `pg_ctl`, tools, archive |
| Credentials, configuration, command line, Supabase client | passfile; none | create and remove; parse | tool runs; HTTP |

How they interact. `cli backup` calls the split capture, which calls a tool run
twice and feeds what the tools print, through pipes, to one
`destination.Create`. A tool run owns one process and the goroutines that serve
its pipes. A restore opens the components of a verified archive, chains them to
one reader that ends in the commit gate, and hands that to a tool run; the
output of the run goes to the verification sink, and the sink opens the gate.

What is hard, and what makes each component correct:

- **Owned process.** Three kinds of callers and the waiter share one group
  number that the kernel may reuse. No signal after the reap; no descendant left
  behind; `CloseContext` returns only when ownership is resolved, and always
  returns; everyone is told the same.
- **Split capture.** Five actors joined by pipes and channels, each of which may
  fail, and a context that aborts from a callback. An archive is published
  exactly when all of it is there and fingerprinted; the caller is told the
  truth; nothing is left running; it returns.
- **Destination and archive.** Processes race for a path and may die anywhere.
  The path is taken once, by something whole; failures leave no litter; a
  verification accepts only what is sound.
- **Verified restore in a tool run.** Two input sides (archive, gate), two
  output sides, the exit code and the clock race. COMMIT only behind a
  successful verification; the end of the input only behind the gate, or after
  the kill; success only for what is committed; nothing survives; it returns.
- **Payload cache.** Extraction races and crashes: a package with a receipt is
  complete; the loser of a race uses what the winner published only once it is
  validated.
- **Windows job.** A child never runs outside its job, and the handle of the job
  is closed.
- **Single-stream capture.** Runs share the directory of operations, and a
  timeout races every step of them. The password is removed whatever fails, but
  never under a running `pg_dump`; what is published is whole; a capture returns
  even if `pg_dump` hangs.
- **Schema transform and fingerprints.** Two hand-written parsers of what
  `pg_dump` prints. One statement of code is replaced and nothing else; the
  gate opens for the rows of the dump and for no others.
- **Local rehearsal.** It drops the source and trusts the archive, over a server
  that is nobody's child. The source outlives its dump; a server left behind
  keeps its directory and is reported.
- **Table of contents.** `pg_restore --list` is text in which names of several
  words blur. A plan that is not blocked takes nothing it must not take.
- **Report.** The outcome never claims more than the components say.
- **Manifest.** What is accepted can be used: no two readings, no two components
  in one file, no sum of lengths that overflowed.

## Modules

| Module | Models | Role |
|---|---|---|
| `OwnedChild` | what `process.go` promises the callers of a `Process` on every platform | abstract specification |
| `OwnedProcess` | `process.go`, `process_darwin.go` | state machine, implements `OwnedChild` |
| `WindowsProcess` | `process.go`, `process_windows.go` | state machine, implements `OwnedChild` |
| `SplitCapture` | `captureSplitWith` and the readers and sinks it is built from | state machine |
| `CaptureRun` | `captureWith`, the tool run in it, `withRunSink`, the operation directory and the password file | state machine |
| `AtomicPublish` | what `Create` promises | abstract specification |
| `ArchivePublish` | `local.go`, `writer.go`, `reader.go`, the outcomes of `PublishPrivateDir` | state machine, implements `AtomicPublish` |
| `GatedRestore` | `executeRun` and `finalize` in `ModeRestoreSQL`, the gate, the sink, the restore input | state machine |
| `PayloadCache` | `preparePayloadWith`, `extractArchive`, `validatePayloadPackage`, `validateRunInputs` | state machine |
| `LocalRehearsal` | `Run`, `RehearseExistingArchive`, `cleanupCluster` of `internal/localdemo` | state machine |
| `SchemaTransform` | `capture_sql.go` | operators |
| `CopyFingerprint` | `recovery_fingerprint.go`, `restore_fingerprint.go`, `validTableFingerprints` | operators |
| `TocSelection` | `toc_selection.go` | operators |
| `OperationReport` | `report.go` | operators |
| `ManifestFormat` | `manifest.go` | operators |
| `..._proofs` | | proofs about each of the state machines; `LocalDemo_proofs` also about `ManifestFormat`, `OperationReport`, `TocSelection` and `SchemaTransform`, `SplitCapture_proofs` about `CopyFingerprint` |
| `MC...` | | instances for TLC |

The definitions that say "Mutant" in their comment are plausible bugs of the
code, each of which makes one property of a run fail; they are not part of any
next-state relation. `PROJECT.json` pairs them with the properties and maps each
definition to its lines.

### OwnedChild

The promise of `process.go`, without signals, handles, locks or retries: the child and
what it started have ended (`gone`, for good), the waiter has published a result, a
`CloseContext` has settled an outcome, and each caller was told something. The
result is published once, and as "ok" only when everything has ended; `Wait` hands it
on; `Terminate` hands it on or fails; the first `CloseContext` to get so far settles an
outcome no better than the result, and every other repeats it. Two things follow that
the callers rely on: nobody hears of success while something of the child runs, and no
two callers of `CloseContext` hear different things.

Both platforms refine it. `Gone` is, on macOS, a reaped leader and an empty group, on
Windows a dead child and an empty job; `Outcome` is `closeErr` once `closed` is set, and
`Told` what a call returned. On macOS the group is gone before anything is
published; on Windows a wait that failed publishes "failed" while the job may still
run, which the promise allows and the finding `windows_release` is about.

### OwnedProcess

`leader`, `members` and `noted` are the kernel's view: the child, the
descendants in its group and whether the exit event will be delivered. `wpc` is
the start followed by the waiter goroutine (`newProcess`), whose mutex
`darwinProcess.mu` is `muHeld` between the steps where it is really released.
`pc[c]` is one caller per member of `Callers`, which picks `Wait`, `Terminate`
or `CloseContext`. The fields `exitObserved`, `signaled`, `reaped` and the
handle's `result`, `done`, `closed`, `closeErr` keep their meaning.

`Observe` is `newDarwinExitObserver`: the event, or the poll of the process
table that follows it. There is one such look: `fallback` is "used" after it, and
"lost" (history) when it failed although it would have seen the zombie
(`PollFails`). `SignalGroup` is `kill(-pgid)` with its macOS answers,
including the EPERM for a group that has only its zombie. The call is taken to reach
the whole group at once: a fork inside it is the kernel's business. `lateSignal` is
history: a signal was sent to a number nobody owns any more.

`CloseReturns` and `ExitIsObserved` name one exception, `Unseen`: a look that was lost
to EINTR and an exit that stays unobserved for ever. Without an exit before the
registration and without EINTR from the process table it does not happen; with both it
does (see Findings).

### WindowsProcess

The same `Process` over a Job Object. `child` and `kids` are what runs, `inJob`
whether the child was assigned, `open` the handles the owner holds. `spc` goes
through `startNativeProcess`, `finishWindowsStart` and, after a failure,
`cleanupWindowsStartFailure`; a start that succeeds turns into the waiter.
`OwnerDies` closes every handle at any point, and the last handle of a job takes
the job with it (`KillOnJobClose`). `released` and `misused` are history: the job
handle was closed, and a caller passed it to the system after it was. A `Terminate`
that looked at `done` before a `CloseContext` took it down may do so; that a
`CloseContext` never does is a theorem (`HandleOwned`).
`Wait`, which differs in nothing, is only in `OwnedProcess`.

### SplitCapture

`wend` and `rclosed` are the two ends of each `io.Pipe` (a pipe is synchronous: a
write completes when it is read), `main`, `arch` and `parser` the three
goroutines. A dump is its outcomes (`RunSucceeds`, `RunFails`, and
`RunFailsLate`, where the sink was closed cleanly and the clean-up of the run
failed afterwards) and the chunks it writes before them. `Hang` is a stuttering
step in the one state, other than a return, in which the code stops: it keeps
deadlock checking on for every other state, and the run `split_capture_hang`
shows that the state is reached.

### CaptureRun

`captureWith` hands the output of one `pg_dump` to `destination.Create` through
one pipe. `pc[r]` is the goroutine of the run: the operation directory with its
password file and certificate (`Claim` to `Certificate`), the start, the select
loop of `executeRun` (`LoopEnds`, `LoopFails`), `finalize` in its order (copies
of the descriptors, kill, collect), the close or abort of the sink in
`withRunSink` (`Finish`), and then the removals. `pump`, `waiter` and `archive` are
goroutines beside it. `owner` says which run created each directory: several
processes draw names in one shared parent, and a drawn name counts only where
the directory did not exist (`Claim`). `expired` is the timeout of the run or its
caller; `refused` records a directory the system would not remove. pg_dump is
external and may hang for ever. `Die` is the end of sparc itself, which leaves
everything as it is, the password file included (`docs/credentials.md:122-140` says
so).

### LocalRehearsal

`pc` is the rehearsal, `server` the PostgreSQL server, which outlives the command that
started it and may end at any time; `pidfile` is its lock file, by which alone the
clean-up knows it. `Archive` is `destination.Create`, which takes the end of the
output for the end of the dump; only `Await` learns what pg_dump says. The clean-up
looks (`Look`), stops (`Stop`) and removes (`RemoveDirectory`), in three steps of which the
server may take its own in between: a server that is still starting when the
clean-up looks is not stopped, and its directory is removed under it
(`found = "forked"`); `EndIsHonest` shows that this is the only way a serving
cluster loses its directory.

### The pure algorithms

`SchemaTransform` runs the lexer of the code over texts that are sequences of
lexical units. The reference does not parse: a text is *generated* from segments
(code, strings, comments, bodies) that say by construction where a statement is
one. `Step` is the lexer behind one unit of a line, `Scanned` its state behind each;
`TextOf` and `Statements` are the generated text and the places of the statement in it.

`CopyFingerprint` has the header parser character by character, the block parser,
the script a restore executes and the sink that judges its output. A digest is
the row itself, so that the sum of digests becomes the bag of rows and their
exclusive or the rows that occur an odd number of times.

`TocSelection` classifies lines of words. The reference is the archive behind
the list: objects whose schema, name and owner are sequences of words, of which
`Shown` makes the line. Schemas that are themselves named like a type of entry
are outside the instance, and outside the theorem about it (see Proofs).

`OperationReport` is the validation and the summary of a report; what it must not
hide is stated over the components, not over the summary's own conditions.

`ManifestFormat` parses documents in which members may be missing, repeated,
unknown or undecodable, and validates them with sums of lengths that wrap around
behind `MaxInt`; `Validating` is the loop of `Validate`, as a function of its index.
`validKey` (`manifest.go:313`) looks for two backslashes in a row, so that it accepts
a key with a single one, which `docs/archive-format.md:22-23` rules out. A backslash
is not among the modelled characters, and the code writes no such key.

### AtomicPublish and ArchivePublish

A file is "none", "open", "whole" or "bad"; "bad" is a file that is torn though
no call reported it. `final` names whose directory the final path shows, so
that a rename moves all files in one step. Creators crash (`Crash`) at every
control point. `VerifyList`, `VerifyManifest` and `VerifyPayload` are the steps
of `archive.Verify`; `Rot` and `Litter` damage a published archive between any
two of them. A new directory that turns out not to be private stays behind when its
removal fails (`CreateRefused`). `vsound` is history: nothing had been touched when the
verification began.

The refinement maps `visible` to `final` and `told` to what `Create` has
returned. Staging, payloads and clean-up are stuttering.

### GatedRestore

`main` is the goroutine of `Run`, from `runWithSink` through `executeRun`, its
loop and `finalize` to the deferred end of `withRunSink`; `result`, `seen` and
`ended` are the channels and the wait group of the four workers; `pump` is the
input pump inside `pumpInput`. `expired` stands for the context of the caller,
the timeout of the run and `finalize`'s own cancel, which the code makes one
context. psql and the server are external: psql executes what it reads, prints
the rows of the checks, and on the end of its input sends COMMIT; the server
finishes a COMMIT it has received whatever happens to psql. `CloseProcess` is
what `OwnedProcess` shows of `CloseContext`: when it returns the process is gone.
`ParentDies` closes the descriptors, as the kernel does.

### PayloadCache

`pc[u]` is one process from `preparePayloadWith` to the launch of the tool,
`cursor` the files it has extracted, `pkg[u]` the directory it has made, which
`final` names once it has been renamed. A file may turn out "bad" though every
call on it succeeded. `at` counts the steps of `validatePayloadPackage` (receipt
and entries, then each file) and, before a launch, the second look at the
executable in `validateRunInputs`; the published package may be damaged between
any two of them. `sound` is history: what the package was when the validation
began. `stuck` records the removals that failed in the deferred clean-up, whose
error the code ignores.

## Runs

| Run | Instance | Shows |
|---|---|---|
| `owned_process` | 2 callers, 1 descendant, 2 failing system calls | safety of signals, reaping and closing; what the callers are told (the refinement); every close returns and every exit is observed, unless the one look at the process table is interrupted |
| `windows_process` | 2 callers, 1 descendant, 2 failing system calls, the owner may die | containment in the job, failed starts and their end, success, what the callers are told (the refinement) |
| `windows_release` | the same | **violated**: see Findings |
| `split_capture` | up to 2 chunks per dump | what is published, what is reported, what is left, and that the capture returns unless the destination fails by itself |
| `split_capture_hang` | up to 1 chunk per dump | **violated**: see Findings |
| `capture_run` | 2 captures, 2 names, 2 tries; one capture may fail, time out, be cancelled or be killed anywhere | removal of the password, directories that stay under their child, what is published, and that a capture returns |
| `archive_publish` | 2 creators, 2 payloads each, a foreign entry at the path, a verifier, damage and foreign files | the race, the clean-up, completeness of what is visible, justice of the verdict, the refinement |
| `gated_restore` | every failure at every point, the restoring process may die | COMMIT and the end of the input, success, what survives, termination |
| `payload_cache` | 2 users, 2 files and the receipt, an empty or a spoilt cache | the race, what is published, what is launched |
| `local_rehearsal` | both rehearsals, every command and the server may fail anywhere | when the source is dropped, what the clean-up leaves and says |
| `algorithms` | texts of up to 4 pieces, 2 tables with up to 2 rows each (5 in all), lists of up to 2 schemas and an object, reports of up to 2 components, manifests of up to 2 components and one too many, integers from -8 to 7 | the five pure algorithms against what they are for |
| `mismatch` | the same | **violated**: see Findings |

Why the bounds are enough. *Callers*: the code distinguishes the first
`CloseContext` from repeated ones and a signal from a reap, so two callers
exhibit every pair of races, and the proofs cover any number. *Faults*: two, so
that a retry can fail again. *Chunks*: the pipes hold none, so one chunk in
flight and one behind it are all a goroutine can tell apart. *Creators*: a race
for one name has a winner and a loser; a third process can only lose as well.
*Payloads*: two, so that the loops have a first and a last pass; the proofs cover
any number. *Files* of a package: two and the receipt, so that a validation
passes one that is damaged later. *Captures*: two, the least that collide on a
name; the failures are confined to one of them (`Faulty`), because two faulty
captures have some 41 million states, and the proofs cover any number of either.
*Segments* of a restore: schema, data and checks, each delivered whole or not at
all, which leaves every truncation a difference in the segments that arrived.
*Algorithms*: the pieces are chosen so that each rule of a parser meets each
context it could be confused in (a statement inside every kind of literal, a
row that reads like a marker, a name whose tail is a word of another entry), and
the numbers so that a loop can repeat and a sum can overflow. Rows that read
like the marker BEGIN or DONE are left out, here and in the proof: the sink cannot
tell markers from data, and with rows that read like END and BEGIN a database that cuts
the same lines differently between two tables prints the very same answer (with END and
DONE, the answer seems to end early). No restore of the dump produces such a database.

The type invariants of the state machines are theorems (the pure algorithms have
none), so the runs do not repeat them.

Fairness. A goroutine that can run does (weak fairness of each goroutine's
steps). The kernel eventually lets a killed process become a zombie, and a call
that retries after an interrupted or failed system call meets a call that works:
the number of faults is bounded, and strong fairness of the kill in `Terminate`
and `CloseContext` says that a caller gets the mutex it keeps asking for, as Go's
mutexes do once a waiter starves. A dump ends because the run has a timeout
(`databaseToolTimeout`). In `CaptureRun` that timeout is modelled (`Expire`) and is the
only thing that must come: pg_dump itself owes nothing. A restore's psql, its server and its clock owe nothing:
the properties that a restore returns do not depend on them. A worker blocked in
a read or a write is obliged to go on only when its descriptor was closed or the
other side has gone (`Writable`, `Refused`).

## Findings

`split_capture_hang`. If `destination.Create` fails by itself after the schema
component was read (the data payload cannot be opened, or a write fails), the
archive goroutine returns, closes the three pipe readers and leaves the tee
open. `captureSplitWith` waits at `capture.go:228` for the parser, the parser
waits for the tee, and the tee is closed only at line 252. Cancelling the
capture changes nothing. `ReturnsUnlessDestinationFails`, checked in
`split_capture`, shows that this is the only way in which a capture does not
return. The tests `recovery_test.go:468-485` and `536` expect a rejected archive
and a cancelled capture to return.

`windows_release`. If anything the Windows waiter does fails, `CloseContext`
leaves at `process.go:137` before it calls `closeProcess`, and remembers that it is
closed: the handle of the job stays open as long as sparc lives, although
`process.go:120` promises that the native process is released. If the call that
failed was `TerminateJobObject`, what is left in the job keeps running until then;
`NothingOutlivesOwner`, checked in `windows_process`, shows that it does not run
any longer than that. On macOS nothing is left to release, because
`closeProcess` does nothing there.

`mismatch`. When a restored table has fewer rows than the archive recorded, the
verification sink takes the END marker, and behind the last table DONE, for rows
(`restore_fingerprint.go:136-146`), and goes on waiting for rows that psql will not
print. The gate is neither opened nor cancelled; psql waits for its input and
the restore for psql, until the timeout of six hours. Nothing is committed:
`GateOpensForTheDump` and `CommitIsVerified` hold. The test `recovery_test.go:287`
expects a mismatch to cancel the gate, and has one with as many rows as expected.

Interrupted look. A child that exits between its start and the registration of
the exit filter leaves no event; the observer looks at the process table once
for that. When this look fails, `pollDarwinExitWithFallback` returns its error
together with "fallback used" (`process_darwin.go:161-163`), the observer drops the
fallback before it looks at the error (124-127), and `waitProcess` answers EINTR
with another poll (203-205), now without a fallback. The exit is never observed; a
signal to the group of the zombie is answered EPERM and refused while
`exitObserved` is unset (268), so that `Wait` and `CloseContext` wait for ever,
although `docs/tools.md:27` says that the look is there for exactly this race.
It takes a sysctl that answers EINTR: the retry provides for it, sysctl(3) does not list
it. `CloseReturns` and `ExitIsObserved` except this case (`[]Unseen`); without
the exception TLC finds both violated. Any other error is safe, because it
ends in the kill and the reap (207-211), and `owned_process` shows that
there is no other way to hang.

Smaller observations, which no property contradicts. A single-stream capture
that returns `ErrCapture` may leave a published archive, because the sink is
closed before the operation directory is removed and the context checked
(`capture.go:142-148`); `PublishedCaptureIsWhole` shows that it is then a whole one.
`createOperationDirectory` and `NewPGPassfile` ignore the errors of their own
clean-up, but the run that called them has failed by then
(`SecretsAreRemoved`). The check for an empty target is made over another
connection than the restore (`restore_split.go:45`) and not repeated. A line of an
archive's list can be read as an entry of another type if a schema is named like the
end of one: the table "public x" of a schema DATA is listed as `TABLE DATA public x`
and its owner, which `parseTOCEntry` takes for the data of a table x of the public
schema. The comment at `toc_selection.go:118` names the cause, a list that is display
text, but among the names it blocks only those with white space.

## Proofs

`OwnedProcess_proofs` proves for every set of callers and descendants and every
bound on faults (assumptions: those named in `OwnedProcess`) the type invariant,
the three safety invariants of the run, two more (`CloseAgrees`,
`TerminateOkMeansReaped`) and that `OwnedProcess` implements `OwnedChild`
(`OwnsItsChild`). The inductive invariant adds what the
properties leave out: which control points hold the mutex, that `reaped` is set
in the critical section in which the child is reaped, that `signaled` implies
that no member is left once the leader has exited, and which result was
published before which flag. Without the mutex part, nothing excludes a signal
between the reap and `reaped`. In the refinement the waiter's `Publish` and the last
step of each call map to the actions of `OwnedChild` of that name; a step of the kernel
or of a kill may end the last process (`End`), and the rest stutters. That nothing
comes back once it has ended is the delicate part: only a process of the group forks,
and a signal is sent only to a group whose leader is not reaped.

`ArchivePublish_proofs` proves for every set of creators and every number of
components the type invariant, `FinalIsComplete`, `NeverReplaced`, and that
`ArchivePublish` implements `AtomicPublish` (`PublishesAtomically`). Its
invariant ties the control point and the cursor of each creator to the files it
has written (everything before the cursor is written; after the read-back every
payload is whole), and says who owns which directory: a creator past publication
that reports success is the one at the final path. It is needed because
`FinalIsComplete` speaks only about the moment after the rename.

`PayloadCache_proofs` proves for every set of users and every number of files
the type invariant, the four properties of its run and `NoStagingLeft`. The heart of its invariant is `Flawed`: if what a user
validates was not sound when it began, a flaw lies among the files it has not
read yet, since no published file ever becomes whole again; a validation that
reaches its end therefore began on a sound package. `FinalInv` says that a
published directory is out of its maker's hands, which is why nothing can still
be written to it.

`CaptureRun_proofs` proves for any number of captures, all of which may be faulty,
the type invariant and the three safety properties of the run. The properties
relate runs through the shared directory, so its invariant says of each run which
directory it holds at each control point (`OwnsOne`, `OwnsNone`), that the password
file is whole from `Certificate` on until the removal, and that a running pg_dump
belongs to a run that has not passed its kill. That makes a step of one run
harmless to another: it touches only what the first one owns.

`WindowsProcess_proofs` proves for any callers, descendants and number of faults
the type invariant, the three safety invariants of the run, `CloseOwnsHandle`, and
that `WindowsProcess` implements the same `OwnedChild` (`OwnsItsChild`).
Its invariant says which handles are open at each point, that whatever runs is in
the job and the job's handle open while the owner lives, what a wait without an
error has established so far, and who holds `closeMu`. `CloseOwnsHandle` needs the
last part: the flag `closed` is set in the critical section in which the handle goes. The
refinement needs that no child which has ended is resumed: until `Resume`, and while
its owner lives, the child is suspended and cannot end by itself.

`SplitCapture_proofs` proves for dumps of any length the type invariant and the three
safety properties of the run. Its invariant counts the chunks between the
goroutines (only the one in the tee is sent and not stored, and every stored data chunk
is hashed) and says how far the caller must have come for the profile to be
closed, on which alone the archive goroutine publishes.

`GatedRestore_proofs` proves the type invariant and the four safety properties of
the run, with or without the death of the restoring process. Its invariant
follows the argument of the code: an open gate means a verdict, the verdict that
every row was seen; the input ends only behind the gate or when psql is gone; and
after the loop psql is gone before any descriptor is closed.

`ArchivePublish_proofs` has a second invariant for `FailedLeavesNothing` (what the
clean-up of a creator has removed so far) and `VerdictIsJust` (what an unfinished
verification has not yet read is where a flaw must be).

`LocalDemo_proofs` proves of `LocalRehearsal` the type invariant and the two
properties of its run. `SourceOutlivesItsDump` speaks about the moment after the drop;
the invariant follows what the archive holds from its publication on, while pg_dump
still runs, over the wait for pg_dump to the verification. `EndIsHonest` needs to know
which server the clean-up has not seen, that whatever serves has a pid file, and that
the clean-up is entered without an error only behind the last check.

All these follow the same argument: the invariant holds initially, one lemma per
action (or group of actions) shows that the action preserves it, and the temporal
step combines them.

Two of these modules also prove what the pure algorithms do with inputs of any
size: `LocalDemo_proofs` of manifests, reports, lists of archives and schema dumps, and
`SplitCapture_proofs` of fingerprints. The library's induction theorems take an
operator, which the provers cannot instantiate; `Induction` states induction over the
numbers with a set in its place (from the least element of a set, `WFMin`), and
`Recursion` that a function defined step by step exists. With them a loop written as a
recursive function can be reasoned about.

- `UsableAccepted`: a document with any number of members and components is accepted
  exactly if it is a usable manifest, for every `MaxInt`, `MaxTotalBytes` and
  `MaxComponents` with `MaxTotalBytes` from 1 to `MaxInt`. The invariant of the loop
  (`Knows`) is that the sum formed so far is the exact one, between 0 and the limit:
  then what is left does not wrap around, and neither does the next sum. The
  hypothesis `Document` says that lengths are integers of the machine and keys
  sequences of parts, as the decoder yields them.
- `ReportHonest`: the same for reports of any length over all states of a component,
  and `BuiltReportsHonest` for the specification of the run. Here no induction is
  needed: a summary depends on the set of components only.
- `SafeSelection`: lists of any length, with names of any words. It needs the
  hypothesis `LegibleArchive`: the archive is a whole one, and no type of an entry
  that stands at the beginning of a line reaches into the schema behind it. Without
  it the property is false (the table "public x" of a schema DATA, above). The main
  steps are that the longest type that fits is then the object's own (`ReadKnown`), and that
  a schema of several words, whose first word the code takes for the schema, is
  always refused as ambiguous, because the archive has an entry for that schema
  (`SeveralWordsAreAmbiguous`).
- `StatementReplaced`: schema dumps of any number of segments with any number of pieces,
  cut or whole. The filter accepts them exactly if they are whole and the statement stands
  in their code once, and replaces it there. The argument has three layers. `Lexes` says
  that a text takes the lexer from one mode to another wherever it stands in a line,
  unless the next unit is one that it would run together with (a quote behind a closing
  quote, a minus behind a minus). It is shown for each opener (`OpenerReads`), each
  piece (`PieceReads`) and each closer (`CloserReads`). The invariant of the sink (`Sane`) is that
  the line read so far leaves the lexer in the mode the generated text is in, and that
  the statement was replaced exactly where it stood; a piece may hold line ends and the
  statement. Two inductions, over the pieces of a segment and over the segments, carry it
  to the end of the text. `BuiltTextsReplaced` is the same for the specification of the
  run. The theorem is about texts of these segments, whose pieces are chosen because
  they could mislead the lexer, and not about every character of SQL.

The promise of a restore, `GateOpensForTheDump`, is proved from the sink backwards to the
text of the dump:

- `SinkAccepts`: for any list of fingerprints and any output of `psql`, the sink opens
  the gate exactly if the output begins with the answer the fingerprints demand
  (`Answer`: nothing but empty lines, then for each table BEGIN, as many lines as it has
  rows, END, all with its fingerprint, then DONE), and `CloseContext` is content exactly
  if nothing follows. The invariant over the lines read (`Heard`) is that the sink has
  heard part of an answer, all of it, or has refused; once it has refused, the
  gate keeps the first order it got.
- `FingerprintTells`: two tables have the same number of rows, sum and exclusive or
  exactly if they hold the same rows, each as often. Fingerprints are sets of rows with
  their number here, so that this leaves out collisions of SHA-256.
- `OpensForTheRows` combines them: with fingerprints that `addRow` computed from the
  dumped rows, and an answer laid out as `Printed` says, the gate is open exactly if every
  restored table holds the dumped rows. The hard part (`AnswerIsPrinted`) is that an
  accepted answer has its tables where psql printed them: the sink
  counts the rows it expects and not those that come, so that a table that has grown or
  shrunk makes it look for END and BEGIN among rows. Every table the sink accepts begins at a
  line that reads BEGIN, the answer ends at DONE, and both are at increasing places;
  therefore only the markers themselves can be those lines, if no restored row reads like them.
- `QuoteNames`: the quoted form of a name of any length and any characters, quotes among
  them, is read back as that name and no other. `QuoteIsRead` follows the reader down the
  doubled quotes, from the end of the text to its beginning, as the recursion of
  `QuotedIdentifier` does.
- `GateOpensForTheTables` is the promise from the fingerprints on: the script asks for the
  restored tables of the same names (`ScriptAsks`), psql's answer is then laid out as
  `Printed` says (`OutputPrinted`), and the gate is open exactly if each table holds the rows
  that were dumped. The hypothesis `NamesTables` says that every fingerprint has a
  restored table of its schema, name and columns, and that no two tables share schema
  and name.
- `HeaderIsRead`: the parser reads back every header that pg_dump writes, whatever
  spaces, quotes, brackets, commas and dots its names contain. `HeaderStands` says where each
  part of the header stands in the text, `IdentifierStands` that a name is read wherever it
  stands and ends at the character behind it, and `ColumnsAreRead` goes down the list
  from its end. A capture would fail on a legal dump if this were false.
- `DumpIsParsed`: the parser finds every table of the dump and all of its rows, and
  nothing else. The invariant over the lines (`BlockIsParsed`) is that before
  the header of a table the parser has the fingerprints of the tables before it; rows that
  read like a header do not matter, because inside a block only the end of the data does.
- `DumpIsAccepted`: the parser then sorts its fingerprints, by schema and by name.
  `OnceIsOnto` and `Ordering` show that a finite set in which any two elements are ordered
  has a sorted list, `NamesAreOrdered` that names are ordered by the first place
  where they differ. No two tables share schema and name, so the order of
  `sort.Slice` is strict, and `validTableFingerprints` finds it so.
- `GateOpens` puts them together: from pg_dump's text to the order of the gate, for
  any number of tables of any size, under the hypothesis `DumpableInput`. It says that
  names are not empty and consist of characters the order knows (`ByteOrder`, one or two for
  each class the parsers tell apart), that tables are distinct, have columns without
  repetition and lie in the three schemas, that no row is the end of the data,
  and that no row reads like BEGIN or DONE. A table without columns is refused by
  `validTableFingerprints`, which is why it is no case of the theorem.

The hypotheses of `UsableAccepted`, `ReportHonest`, `SafeSelection`, `StatementReplaced` and
`GateOpens` are
true of every input that the run `algorithms` builds (TLC finds them invariant there; for
`GateOpens` with all characters of `ByteOrder` and the rows of the instance).

Only model-checked: liveness, which TLAPS does not handle under fairness
(`CloseReturns`, `ExitIsObserved`, `FailedStartEnds`, `ReturnsUnlessDestinationFails`,
`CaptureReturns`, `CancelledRestoreReturns`, `LostPsqlEndsRestore`).

## Not modelled, and why

- Target inspection (`inspect.go`, `security.go`, `public_auth.go`, `connect.go`): read-only
  inventories whose decisions are the meaning of their SQL; with them the
  preflight of `restoreSplitWith` and the custom-format `restoreWith`, which are
  a sequence of such questions before the run that `GatedRestore` models.
- The encoding of `recovery-profile.json` and its coverage statements; the
  arguments and environments of the tool modes; the mode that leaves the input
  open early.
- The hosted trial (`restore_*_localdemo.go`, `cmd/sparc-hostedtry`): a developer's
  variant, under a build tag, of the restore that is modelled.
- The packaging experiment: a prototype the program does not use.
- Encryption, digests and JSON: a file is whole or not, a manifest parses or not.
- Permissions and ACLs of private files, certificates and TLS, the SQL of the
  inventories, HTTP: input and output without an order of their own.
- Command line, configuration, credential prompts: sequential and stateless.
- The SQL that psql executes, and what a fingerprint can and cannot tell apart.

## Plan

Done, in this order: `OwnedProcess` with proofs, `SplitCapture`, `AtomicPublish` and
`ArchivePublish` with proofs, `GatedRestore`, `PayloadCache` with proofs,
`WindowsProcess`; then the pure algorithms (`OperationReport`, `CopyFingerprint`,
`SchemaTransform`, `TocSelection`, `ManifestFormat`), `CaptureRun` with proofs,
`LocalRehearsal`, and the proofs about `SplitCapture`, `WindowsProcess`,
`GatedRestore`, the rest of `ArchivePublish`, `LocalRehearsal`, `ManifestFormat`,
`OperationReport`, `TocSelection`, `CopyFingerprint` and `SchemaTransform`.

Left:

1. `CaptureRun` and `GatedRestore` over `OwnedChild`, in place of their own step for the
   kill: a refinement that would tie their child to the proved promise.
2. The preflight of a restore as three connections to a target that others may
   change: worth it once the code repeats the check.
3. Component keys and password-file lines as characters, with the backslash and the
   colon that have to be escaped or refused.

The number of runs stays at a dozen: the pure algorithms share one, and a
restore's safety and termination are checked together.
