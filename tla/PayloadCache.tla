---------------------------- MODULE PayloadCache ----------------------------
(***************************************************************************)
(* The cache of extracted tools: preparePayloadWith of several processes,  *)
(* and the second validation with which each run begins                    *)
(* (internal/tools/extract.go, run.go).                                    *)
(*                                                                         *)
(* A package is extracted into a private staging directory, a receipt is   *)
(* written last, and the directory is renamed to the name all processes    *)
(* share unless something is there already.  What is there is validated    *)
(* file by file by everybody who wants to use it, and never changed.       *)
(*                                                                         *)
(* Abstractions: the content of a file is right ("whole") or not ("bad"),  *)
(* and a file may turn out bad though no call reported it.                 *)
(***************************************************************************)
EXTENDS Naturals

CONSTANTS
  Users,      \* processes that prepare and launch a tool
  N,          \* files of a package
  Nothing,    \* no object is at the shared name
  Foreign     \* an object that is not a package is at the shared name

ASSUME SizeAssumption == N \in Nat \ {0}
ASSUME NamesAssumption == Nothing # Foreign /\ Nothing \notin Users /\ Foreign \notin Users

VARIABLES
  pc,         \* control point of each user
  cursor,     \* files each user has extracted
  pkg,        \* content of the directory each user has made
  staging,    \* users whose staging directory exists
  final,      \* what is at the shared name: Nothing, Foreign or a user's directory
  at,         \* steps done by the validation of each user
  stray,      \* a file that no manifest names is in the published package
  sound,      \* history: what each user validates was sound when it began
  faulted,    \* history: users that met an error or the end of their context
  stuck       \* history: users of which a staging directory could not be removed

making == <<cursor, pkg, staging, stuck>>
vars   == <<pc, making, final, at, stray, sound, faulted>>

Payload == 0 .. N - 1
Receipt == N
Executable == 0     \* the file that a launch runs
Files   == 0 .. N

PC == {"start", "source", "extract", "receipt", "publish", "discard", "clean",
       "validate", "prepared", "recheck", "launched", "failed", "dead"}
Over == {"launched", "failed", "dead"}

Init ==
  /\ pc = [u \in Users |-> "start"] /\ cursor = [u \in Users |-> 0]
  /\ pkg = [u \in Users |-> [n \in Files |-> "none"]]
  /\ staging = {} /\ final \in {Nothing, Foreign}
  /\ at = [u \in Users |-> 0] /\ stray = FALSE
  /\ sound = [u \in Users |-> FALSE] /\ faulted = {} /\ stuck = {}

Goto(u, point)    == pc' = [pc EXCEPT ![u] = point]
Store(u, n, how)  == pkg' = [pkg EXCEPT ![u][n] = how]

Sound == final \in Users /\ ~stray /\ \A n \in Files : pkg[final][n] = "whole"

\* A validation begins.
Begin(u) == at' = [at EXCEPT ![u] = 0]

-----------------------------------------------------------------------------
(* preparePayloadWith.                                                     *)

\* An error before a staging directory exists or after it has been dealt with.
Fails(u) ==
  /\ pc[u] \in {"start", "source", "validate", "prepared", "recheck"}
  /\ faulted' = faulted \cup {u} /\ Goto(u, "failed")
  /\ UNCHANGED <<making, final, at, stray, sound>>

\* Whatever is at the shared name is validated, not replaced.
Lookup(u) ==
  /\ pc[u] = "start"
  /\ IF final = Nothing
     THEN Goto(u, "source") /\ UNCHANGED <<at, sound>>
     ELSE Goto(u, "validate") /\ Begin(u) /\ sound' = [sound EXCEPT ![u] = Sound]
  /\ UNCHANGED <<making, final, stray, faulted>>

\* The compressed source has the digest of the manifest; a new directory is made.
MakeStaging(u) ==
  /\ pc[u] = "source"
  /\ staging' = staging \cup {u} /\ Goto(u, "extract")
  /\ UNCHANGED <<cursor, pkg, stuck, final, at, stray, sound, faulted>>

\* One file is extracted, digested on its way, flushed, sealed and closed.
ExtractFile(u) ==
  /\ pc[u] = "extract" /\ cursor[u] < N
  /\ \E how \in {"whole", "bad"} : Store(u, cursor[u], how)
  /\ cursor' = [cursor EXCEPT ![u] = @ + 1]
  /\ UNCHANGED <<pc, staging, stuck, final, at, stray, sound, faulted>>

\* Mutant: an archive that ends early passes.
ArchiveEndsEarly(u) ==
  /\ pc[u] = "extract"
  /\ Goto(u, "receipt")
  /\ UNCHANGED <<making, final, at, stray, sound, faulted>>

\* The end of the archive is where the manifest says.
ArchiveEnds(u) ==
  /\ pc[u] = "extract" /\ cursor[u] = N
  /\ Goto(u, "receipt")
  /\ UNCHANGED <<making, final, at, stray, sound, faulted>>

WriteReceipt(u) ==
  /\ pc[u] = "receipt"
  /\ \E how \in {"whole", "bad"} : Store(u, Receipt, how)
  /\ Goto(u, "publish")
  /\ UNCHANGED <<cursor, staging, stuck, final, at, stray, sound, faulted>>

\* Any error from the first file to the rename: the deferred removal follows.
ExtractionFails(u) ==
  /\ pc[u] \in {"extract", "receipt", "publish"}
  /\ faulted' = faulted \cup {u} /\ Goto(u, "clean")
  /\ UNCHANGED <<making, final, at, stray, sound>>

\* Mutant: a rename that replaces.
PublishReplacing(u) ==
  /\ pc[u] = "publish"
  /\ final' = u /\ staging' = staging \ {u}
  /\ Goto(u, "validate") /\ Begin(u)
  /\ sound' = [sound EXCEPT ![u] = ~stray /\ \A n \in Files : pkg[u][n] = "whole"]
  /\ UNCHANGED <<cursor, pkg, stuck, stray, faulted>>

Publish(u) ==
  /\ pc[u] = "publish" /\ final = Nothing
  /\ final' = u /\ staging' = staging \ {u}
  /\ Goto(u, "validate") /\ Begin(u)
  /\ sound' = [sound EXCEPT ![u] = ~stray /\ \A n \in Files : pkg[u][n] = "whole"]
  /\ UNCHANGED <<cursor, pkg, stuck, stray, faulted>>

\* Mutant: a lost race is an error.
LosePublicationFails(u) ==
  /\ pc[u] = "publish" /\ final # Nothing
  /\ Goto(u, "clean")
  /\ UNCHANGED <<making, final, at, stray, sound, faulted>>

\* Another package, or something else, has taken the name: no error yet.
LosePublication(u) ==
  /\ pc[u] = "publish" /\ final # Nothing
  /\ Goto(u, "discard")
  /\ UNCHANGED <<making, final, at, stray, sound, faulted>>

Discard(u) ==
  /\ pc[u] = "discard"
  /\ staging' = staging \ {u}
  /\ Goto(u, "validate") /\ Begin(u) /\ sound' = [sound EXCEPT ![u] = Sound]
  /\ UNCHANGED <<cursor, pkg, stuck, final, stray, faulted>>

DiscardFails(u) ==
  /\ pc[u] = "discard"
  /\ faulted' = faulted \cup {u} /\ Goto(u, "clean")
  /\ UNCHANGED <<making, final, at, stray, sound>>

\* The deferred removeAll, whose error nobody looks at.
Clean(u) ==
  /\ pc[u] = "clean"
  /\ \/ staging' = staging \ {u} /\ UNCHANGED stuck
     \/ stuck' = stuck \cup {u} /\ UNCHANGED staging
  /\ Goto(u, "failed")
  /\ UNCHANGED <<cursor, pkg, final, at, stray, sound, faulted>>

-----------------------------------------------------------------------------
(* validatePayloadPackage, after the preparation and again before a launch. *)

\* The receipt and the list of entries first, then one file after the other, and
\* before a launch the executable a second time.
Last(u) == IF pc[u] = "recheck" THEN N + 1 ELSE N

Passes(u) ==
  /\ final \in Users
  /\ CASE at[u] = 0     -> ~stray /\ pkg[final][Receipt] = "whole"
       [] at[u] = N + 1 -> pkg[final][Executable] = "whole"
       [] OTHER         -> pkg[final][at[u] - 1] = "whole"

ValidateStep(u) ==
  /\ pc[u] \in {"validate", "recheck"} /\ at[u] <= Last(u) /\ Passes(u)
  /\ at' = [at EXCEPT ![u] = @ + 1]
  /\ UNCHANGED <<pc, making, final, stray, sound, faulted>>

\* The walk may also meet an unknown file that appeared after it began.
Refuse(u) ==
  /\ pc[u] \in {"validate", "recheck"} /\ at[u] <= Last(u) /\ (~Passes(u) \/ stray)
  /\ Goto(u, "failed")
  /\ UNCHANGED <<making, final, at, stray, sound, faulted>>

Prepared(u) ==
  /\ pc[u] = "validate" /\ at[u] > Last(u)
  /\ Goto(u, "prepared")
  /\ UNCHANGED <<making, final, at, stray, sound, faulted>>

\* Mutant: the launch trusts the validation of the preparation.
RecheckSkipsFiles(u) ==
  /\ pc[u] = "prepared"
  /\ Goto(u, "recheck") /\ at' = [at EXCEPT ![u] = N + 1]
  /\ sound' = [sound EXCEPT ![u] = Sound]
  /\ UNCHANGED <<making, final, stray, faulted>>

\* runWithSink validates what preparePayload has returned, some time later.
Recheck(u) ==
  /\ pc[u] = "prepared"
  /\ Goto(u, "recheck") /\ Begin(u) /\ sound' = [sound EXCEPT ![u] = Sound]
  /\ UNCHANGED <<making, final, stray, faulted>>

Launch(u) ==
  /\ pc[u] = "recheck" /\ at[u] > Last(u)
  /\ Goto(u, "launched")
  /\ UNCHANGED <<making, final, at, stray, sound, faulted>>

-----------------------------------------------------------------------------
(* Outside.                                                                *)

Crash(u) ==
  /\ pc[u] \notin Over
  /\ Goto(u, "dead")
  /\ UNCHANGED <<making, final, at, stray, sound, faulted>>

\* A published file is damaged.
Rot(n) ==
  /\ final \in Users
  /\ Store(final, n, "bad")
  /\ UNCHANGED <<pc, cursor, staging, stuck, final, at, stray, sound, faulted>>

\* A file appears in the published package.
Litter ==
  /\ final \in Users /\ stray' = TRUE
  /\ UNCHANGED <<pc, making, final, at, sound, faulted>>

Prepare(u) == \/ Fails(u) \/ Lookup(u) \/ MakeStaging(u) \/ ExtractFile(u) \/ ArchiveEnds(u)
              \/ WriteReceipt(u) \/ ExtractionFails(u) \/ Publish(u) \/ LosePublication(u)
              \/ Discard(u) \/ DiscardFails(u) \/ Clean(u)
Check(u)   == \/ ValidateStep(u) \/ Refuse(u) \/ Prepared(u) \/ Recheck(u) \/ Launch(u)

AllOver == (\A u \in Users : pc[u] \in Over) /\ UNCHANGED vars

Next == \/ \E u \in Users : Prepare(u) \/ Check(u) \/ Crash(u)
        \/ \E n \in Files : Rot(n)
        \/ Litter \/ AllOver

Spec == Init /\ [][Next]_vars

-----------------------------------------------------------------------------
(* Properties.                                                             *)

\* Every variable keeps its type, and a directory is in one place.
TypeOK ==
  /\ pc \in [Users -> PC] /\ cursor \in [Users -> 0 .. N] /\ at \in [Users -> 0 .. N + 2]
  /\ pkg \in [Users -> [Files -> {"none", "whole", "bad"}]]
  /\ staging \subseteq Users /\ stuck \subseteq Users /\ faulted \subseteq Users
  /\ final \in Users \cup {Nothing, Foreign} /\ final \notin staging
  /\ stray \in BOOLEAN /\ sound \in [Users -> BOOLEAN]

\* A tool is launched only from a package that was complete and undamaged when the
\* last validation before the launch began, whoever extracted it and however many
\* processes died on the way (docs/tools.md:9 "every launch revalidates").
LaunchIsSound == \A u \in Users : pc[u] = "launched" => sound[u]

\* What is published has every file and the receipt, whatever crashed before.
PublishedIsFinished ==
  final \in Users => \A n \in Files : pkg[final][n] # "none"

\* Losing the race to publish is no failure: a user fails only by an error of its
\* own or because what is at the shared name is not sound (extract_test.go:347).
FailureHasCause ==
  \A u \in Users : pc[u] = "failed" =>
    u \in faulted \/ (final # Nothing /\ ~Sound)

\* Nobody replaces, repairs or completes what is at the shared name
\* (extract_test.go:267, docs/tools.md:9 "neither repaired nor replaced").
NeverRepaired ==
  [][final # Nothing =>
       /\ final' = final
       /\ final \in Users => \A n \in Files : pkg'[final][n] \in {pkg[final][n], "bad"}]_vars

\* A user that has been given a package, or an error, has no staging directory,
\* unless its removal was refused.
NoStagingLeft ==
  \A u \in Users :
    pc[u] \in {"validate", "prepared", "recheck", "launched", "failed"} /\ u \notin stuck =>
      u \notin staging
=============================================================================
