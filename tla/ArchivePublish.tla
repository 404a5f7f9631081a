--------------------------- MODULE ArchivePublish ---------------------------
(***************************************************************************)
(* Encrypted archives: destination.Create over archive.Write and           *)
(* platform.PublishPrivateDir, and archive.Verify reading what they leave. *)
(*                                                                         *)
(* Several processes create an archive at one final path, each in a        *)
(* staging directory of its own; any of them may crash between two system  *)
(* calls, every call may fail, and a disk may store other bytes than it    *)
(* was given.  A verifier reads the final path while all this goes on, and *)
(* the published archive may rot.                                          *)
(*                                                                         *)
(* Abstractions: a file is absent, still open, whole (its plaintext is     *)
(* what the manifest records) or bad; encryption and hashing are what they *)
(* establish; a private directory has the random name nobody else uses.    *)
(***************************************************************************)
EXTENDS Naturals

CONSTANTS
  Creators,   \* processes that call destination.Create with one final path
  Nothing,    \* no object is at the final path
  Foreign,    \* an object that none of them made is at the final path
  N           \* components of every archive

ASSUME NAssumption == N \in Nat \ {0}
ASSUME PathAssumption == Nothing # Foreign /\ Nothing \notin Creators /\ Foreign \notin Creators

VARIABLES
  pc,         \* control point of each creator
  cursor,     \* the component a creator or its cleanup is at
  disk,       \* disk[c][n]: file n of the directory that c made
  staging,    \* creators whose directory is at its staging path
  final,      \* what is at the final path
  vpc,        \* control point of archive.Verify
  vcursor,    \* the component Verify is at
  stray,      \* a file that no manifest lists is in the published directory
  tampered,   \* history: the published directory was changed from outside
  vsound,     \* history: the archive was as published when Verify began
  vfault,     \* history: a call of Verify failed
  stuck       \* history: creators whose cleanup could not remove something

creators == <<pc, cursor, staging, stuck>>
verifier == <<vpc, vcursor, vsound, vfault>>
outside  == <<stray, tampered>>
vars     == <<creators, disk, final, verifier, outside>>

Components == 0 .. N - 1
ManifestFile == N                  \* manifest.age sorts after every payload
Files == 0 .. N
Positions == 0 .. N + 1            \* of a loop over the files, its end included

PC == {"start", "open", "write", "readback", "writeManifest", "publish", "published",
       "cleanup", "ok", "failed", "dead"}
Done == {"ok", "failed", "dead"}

Init ==
  /\ pc = [c \in Creators |-> "start"] /\ cursor = [c \in Creators |-> 0]
  /\ disk = [c \in Creators |-> [n \in Files |-> "none"]]
  /\ staging = {} /\ stuck = {} /\ final \in {Nothing, Foreign}
  /\ vpc = "idle" /\ vcursor = 0 /\ vsound = FALSE /\ vfault = FALSE
  /\ stray = FALSE /\ tampered = FALSE

Goto(c, point) == pc' = [pc EXCEPT ![c] = point]
At(c, n)       == cursor' = [cursor EXCEPT ![c] = n]
Store(c, n, how) == disk' = [disk EXCEPT ![c][n] = how]

-----------------------------------------------------------------------------
(* destination.Create and archive.Write.                                   *)

\* A target, parent or random name that is refused, or a directory not created; one
\* that is not private once created is removed, if it can be.
CreateRefused(c) ==
  /\ pc[c] = "start"
  /\ \/ UNCHANGED <<staging, stuck>>
     \/ staging' = staging \cup {c} /\ stuck' = stuck \cup {c}
  /\ Goto(c, "failed")
  /\ UNCHANGED <<cursor, disk, final, verifier, outside>>

\* A fresh private directory: archive.Write finds no manifest in it.
MakeStaging(c) ==
  /\ pc[c] = "start"
  /\ staging' = staging \cup {c}
  /\ Goto(c, "open")
  /\ UNCHANGED <<cursor, disk, stuck, final, verifier, outside>>

\* writePayload of the next component: the file is created exclusively...
OpenPayload(c) ==
  /\ pc[c] = "open" /\ cursor[c] < N
  /\ Store(c, cursor[c], "open")
  /\ Goto(c, "write")
  /\ UNCHANGED <<cursor, staging, stuck, final, verifier, outside>>

\* ... and encrypted to the end of its source; the bytes on the disk may differ
\* from the ones that were counted and hashed.
WritePayload(c) ==
  /\ pc[c] = "write"
  /\ \E how \in {"whole", "bad"} : Store(c, cursor[c], how)
  /\ At(c, cursor[c] + 1) /\ Goto(c, "open")
  /\ UNCHANGED <<staging, stuck, final, verifier, outside>>

\* Manifest.Validate of what was written.
Validate(c) ==
  /\ pc[c] = "open" /\ cursor[c] = N
  /\ At(c, 0) /\ Goto(c, "readback")
  /\ UNCHANGED <<disk, staging, stuck, final, verifier, outside>>

\* Mutant: the file is read back, its length and digest are not compared.
ReadBackTrusting(c) ==
  /\ pc[c] = "readback" /\ cursor[c] < N
  /\ At(c, cursor[c] + 1)
  /\ UNCHANGED <<pc, disk, staging, stuck, final, verifier, outside>>

\* verifyPayload: the ciphertext is read back to its authenticated end and its
\* length and digest are compared.
ReadBack(c) ==
  /\ pc[c] = "readback" /\ cursor[c] < N
  /\ disk[c][cursor[c]] = "whole"
  /\ At(c, cursor[c] + 1)
  /\ UNCHANGED <<pc, disk, staging, stuck, final, verifier, outside>>

OpenManifest(c) ==
  /\ pc[c] = "readback" /\ cursor[c] = N
  /\ Store(c, ManifestFile, "open")
  /\ Goto(c, "writeManifest")
  /\ UNCHANGED <<cursor, staging, stuck, final, verifier, outside>>

\* The manifest itself is not read back.
WriteManifest(c) ==
  /\ pc[c] = "writeManifest"
  /\ \E how \in {"whole", "bad"} : Store(c, ManifestFile, how)
  /\ Goto(c, "publish")
  /\ UNCHANGED <<cursor, staging, stuck, final, verifier, outside>>

\* Any call on the way fails: the source, the disk, a bad read-back, the checks
\* of PublishPrivateDir; the deferred cleanup starts.
CreateFails(c) ==
  /\ pc[c] \in {"open", "write", "readback", "writeManifest", "publish"}
  /\ At(c, 0) /\ Goto(c, "cleanup")
  /\ UNCHANGED <<disk, staging, stuck, final, verifier, outside>>

\* renamex_np with RENAME_EXCL.
Publish(c) ==
  /\ pc[c] = "publish" /\ final = Nothing
  /\ final' = c /\ staging' = staging \ {c}
  /\ Goto(c, "published")
  /\ UNCHANGED <<cursor, disk, stuck, verifier, outside>>

\* Mutant: the lost race is not told from a won one.
LosePublicationUnnoticed(c) ==
  /\ pc[c] = "publish" /\ final # Nothing
  /\ At(c, 0) /\ Goto(c, "published")
  /\ UNCHANGED <<disk, staging, stuck, final, verifier, outside>>

\* EEXIST: whatever is at the final path stays.
LosePublication(c) ==
  /\ pc[c] = "publish" /\ final # Nothing
  /\ At(c, 0) /\ Goto(c, "cleanup")
  /\ UNCHANGED <<disk, staging, stuck, final, verifier, outside>>

ReturnManifest(c) ==
  /\ pc[c] = "published"
  /\ Goto(c, "ok")
  /\ UNCHANGED <<cursor, disk, staging, stuck, final, verifier, outside>>

\* Mutant: the manifest is not among the names to remove.
CleanFileKeepsManifest(c) ==
  /\ pc[c] = "cleanup" /\ cursor[c] <= N
  /\ IF cursor[c] = ManifestFile THEN UNCHANGED <<disk, stuck>>
     ELSE \/ Store(c, cursor[c], "none") /\ UNCHANGED stuck
          \/ UNCHANGED disk /\ stuck' = stuck \cup {c}
  /\ At(c, cursor[c] + 1)
  /\ UNCHANGED <<pc, staging, final, verifier, outside>>

\* cleanupStaging removes the files it knows by name, in directory order...
CleanFile(c) ==
  /\ pc[c] = "cleanup" /\ cursor[c] <= N
  /\ \/ Store(c, cursor[c], "none") /\ UNCHANGED stuck
     \/ UNCHANGED disk /\ stuck' = stuck \cup {c}        \* os.Remove fails
  /\ At(c, cursor[c] + 1)
  /\ UNCHANGED <<pc, staging, final, verifier, outside>>

Empty(c) == \A n \in Files : disk[c][n] = "none"

\* ... and the directory itself if nothing is left in it.
CleanDirectory(c) ==
  /\ pc[c] = "cleanup" /\ cursor[c] > N
  /\ \/ Empty(c) /\ staging' = staging \ {c} /\ UNCHANGED stuck
     \/ Empty(c) /\ UNCHANGED staging /\ stuck' = stuck \cup {c}
     \/ ~Empty(c) /\ UNCHANGED <<staging, stuck>>
  /\ At(c, 0) /\ Goto(c, "failed")
  /\ UNCHANGED <<disk, final, verifier, outside>>

\* The process dies between two system calls.
Crash(c) ==
  /\ pc[c] \notin Done
  /\ Goto(c, "dead")
  /\ UNCHANGED <<cursor, disk, staging, stuck, final, verifier, outside>>

Step(c) ==
  \/ CreateRefused(c) \/ MakeStaging(c) \/ OpenPayload(c) \/ WritePayload(c) \/ Validate(c)
  \/ ReadBack(c) \/ OpenManifest(c) \/ WriteManifest(c) \/ CreateFails(c) \/ Publish(c)
  \/ LosePublication(c) \/ ReturnManifest(c) \/ CleanFile(c) \/ CleanDirectory(c)

-----------------------------------------------------------------------------
(* archive.Verify of the final path, once, at any time.                    *)

Content(n) == IF final \in Creators THEN disk[final][n] ELSE "none"
Listed     == {n \in Files : Content(n) # "none"}

\* The directory is listed: one entry per file.
VerifyList ==
  /\ vpc = "idle"
  /\ vsound' = (final \in Creators /\ ~tampered /\ Content(ManifestFile) = "whole")
  /\ vpc' = IF final \in Creators /\ Listed = Files /\ ~stray THEN "manifest" ELSE "bad"
  /\ UNCHANGED <<vcursor, vfault, creators, disk, final, outside>>

VerifyManifest ==
  /\ vpc = "manifest"
  /\ vpc' = IF Content(ManifestFile) = "whole" THEN "payloads" ELSE "bad"
  /\ UNCHANGED <<vcursor, vsound, vfault, creators, disk, final, outside>>

\* Mutant: the last payload is not verified.
VerifyPayloadShort ==
  /\ vpc = "payloads"
  /\ IF vcursor = N - 1 THEN vpc' = "ok" /\ UNCHANGED vcursor
     ELSE IF Content(vcursor) = "whole" THEN vcursor' = vcursor + 1 /\ UNCHANGED vpc
     ELSE vpc' = "bad" /\ UNCHANGED vcursor
  /\ UNCHANGED <<vsound, vfault, creators, disk, final, outside>>

VerifyPayload ==
  /\ vpc = "payloads"
  /\ IF vcursor = N THEN vpc' = "ok" /\ UNCHANGED vcursor
     ELSE IF Content(vcursor) = "whole" THEN vcursor' = vcursor + 1 /\ UNCHANGED vpc
     ELSE vpc' = "bad" /\ UNCHANGED vcursor
  /\ UNCHANGED <<vsound, vfault, creators, disk, final, outside>>

\* An open or a read fails.
VerifyFails ==
  /\ vpc \in {"manifest", "payloads"}
  /\ vpc' = "bad" /\ vfault' = TRUE
  /\ UNCHANGED <<vcursor, vsound, creators, disk, final, outside>>

-----------------------------------------------------------------------------
(* The world outside: bytes rot, files are removed, the Finder leaves a    *)
(* .DS_Store.                                                              *)

Rot(n) ==
  /\ final \in Creators /\ disk[final][n] \in {"whole", "bad"}
  /\ \E how \in {"bad", "none"} : disk[final][n] # how /\ Store(final, n, how)
  /\ tampered' = TRUE
  /\ UNCHANGED <<creators, final, verifier, stray>>

Litter ==
  /\ final \in Creators /\ ~stray
  /\ stray' = TRUE /\ tampered' = TRUE
  /\ UNCHANGED <<creators, disk, final, verifier>>

-----------------------------------------------------------------------------
Finished == (\A c \in Creators : pc[c] \in Done) /\ vpc \in {"ok", "bad"} /\ UNCHANGED vars

Next ==
  \/ \E c \in Creators : Step(c) \/ Crash(c)
  \/ VerifyList \/ VerifyManifest \/ VerifyPayload \/ VerifyFails
  \/ (\E n \in Files : Rot(n)) \/ Litter
  \/ Finished

Spec == Init /\ [][Next]_vars

-----------------------------------------------------------------------------
(* Properties.                                                             *)

\* Every variable keeps its type, and a directory is in one place.
TypeOK ==
  /\ pc \in [Creators -> PC] /\ cursor \in [Creators -> Positions]
  /\ disk \in [Creators -> [Files -> {"none", "open", "whole", "bad"}]]
  /\ staging \subseteq Creators /\ stuck \subseteq Creators
  /\ final \in Creators \cup {Nothing, Foreign} /\ final \notin staging
  /\ vpc \in {"idle", "manifest", "payloads", "ok", "bad"} /\ vcursor \in Files
  /\ stray \in BOOLEAN /\ tampered \in BOOLEAN /\ vsound \in BOOLEAN /\ vfault \in BOOLEAN

PayloadsWhole(c) == \A n \in Components : disk[c][n] = "whole"

\* Whatever crashes and fails, the final path never shows an archive of which a
\* payload is torn or the manifest not yet written (archive-format.md:11-17); the
\* manifest is not read back, so it may be "bad" without an error.
FinalIsComplete ==
  final \in Creators /\ ~tampered =>
    PayloadsWhole(final) /\ disk[final][ManifestFile] \in {"whole", "bad"}

\* No creator ever replaces what is at the final path (local_test.go:14-45).
NeverReplaced == [][final' # final => final = Nothing]_vars

\* A creator that failed on its own leaves no staging directory, unless the file
\* system refused a removal (local_test.go:65).
FailedLeavesNothing ==
  \A c \in Creators : pc[c] = "failed" /\ c \notin stuck => c \notin staging

\* Verify accepts only an archive that nothing had touched when it began, and
\* refuses one only because of damage, before or during its work, or of an error.
VerdictIsJust ==
  /\ vpc = "ok" => vsound
  /\ vpc = "bad" /\ vsound => tampered \/ vfault

Told(c) == IF pc[c] \in Done THEN pc[c] ELSE "waiting"

Abstract == INSTANCE AtomicPublish
  WITH visible <- final, told <- [c \in Creators |-> Told(c)]

\* Creation implements the atomic publication of AtomicPublish.
PublishesAtomically == Abstract!Spec
=============================================================================
