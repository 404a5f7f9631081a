--------------------------- MODULE OperationReport ---------------------------
(***************************************************************************)
(* The report of an operation (internal/operation/report.go): one gate per *)
(* kind of evidence for every component, the rules a component must obey,  *)
(* and the summary derived from the gates.  Names and requirement numbers  *)
(* are reduced to whether a manual requirement is named.                   *)
(***************************************************************************)
EXTENDS Naturals, Sequences, SequencesExt

Observations == {"observed", "not_observed", "unknown"}
Permissions  == {"granted", "permission_denied", "not_required", "unknown"}
Captures     == {"not_used", "captured", "partially_captured", "manual_required", "unsupported",
                 "permission_denied", "unknown", "failed"}
Integrities  == {"not_used", "not_checked", "passed", "failed", "inconclusive"}
Recoveries   == {"not_used", "ready", "missing_critical_material", "manual_required", "unknown"}
Restores     == {"not_used", "not_attempted", "restored", "manual_required", "unsupported",
                 "failed", "unknown"}
Behaviors    == {"not_used", "not_checked", "sampled", "passed", "failed", "inconclusive"}
Supports     == {"required", "manual", "unsupported", "detect_and_block", "excluded"}
Reasons      == {"", "feature_not_observed", "outside_declared_scope"}

-----------------------------------------------------------------------------
(* One component.                                                          *)

ReliablyAbsent(c) ==
  /\ c.observation = "not_observed" /\ c.permission = "not_required"
  /\ \A gate \in {c.capture, c.integrity, c.recovery, c.restore, c.behavior} : gate = "not_used"

\* Mutant: what was captured only in part counts as captured.
ComponentCoveragePartly(c) ==
  /\ c.support # "excluded"
  /\ \/ ReliablyAbsent(c)
     \/ /\ c.support \notin {"unsupported", "detect_and_block"}
        /\ c.observation = "observed" /\ c.permission = "granted"
        /\ c.integrity = "passed" /\ c.recovery = "ready"

ComponentCoverageComplete(c) ==
  /\ c.support # "excluded"
  /\ \/ ReliablyAbsent(c)
     \/ /\ c.support \notin {"unsupported", "detect_and_block"}
        /\ c.observation = "observed" /\ c.permission = "granted" /\ c.capture = "captured"
        /\ c.integrity = "passed" /\ c.recovery = "ready"

ComponentBlocking(c) ==
  \/ c.support \in {"unsupported", "excluded"}
  \/ c.support = "detect_and_block" /\ c.observation = "observed"
  \/ c.observation = "unknown" \/ c.permission \in {"permission_denied", "unknown"}
  \/ c.capture \in Captures \ {"not_used", "captured"}
  \/ c.integrity \in {"failed", "inconclusive"}
  \/ c.recovery \in {"missing_critical_material", "manual_required", "unknown"}
  \/ c.restore \in {"manual_required", "unsupported", "failed", "unknown"}
  \/ c.behavior \in {"failed", "inconclusive"}

ComponentFailed(c) == c.restore = "failed" \/ c.behavior = "failed"

ActiveBehavior(b) == b \in {"sampled", "passed", "failed", "inconclusive"}

HasNotUsed(c) == "not_used" \in {c.capture, c.integrity, c.recovery, c.restore, c.behavior}

HasManualRequirement(c) == "manual_required" \in {c.capture, c.recovery, c.restore}

\* validate
ValidComponent(c) ==
  /\ c.observation = "not_observed" => ReliablyAbsent(c)
  /\ c.integrity = "passed" => c.capture \in {"captured", "partially_captured"}
  /\ c.capture = "captured" => c.integrity # "not_used"
  /\ c.restore = "not_attempted" => c.behavior = "not_checked"
  /\ c.restore = "not_used" => c.behavior = "not_used"
  /\ c.restore = "failed" => c.behavior # "passed"
  /\ ActiveBehavior(c.behavior) => c.restore = "restored"
  /\ (HasNotUsed(c) \/ c.support = "excluded") <=> c.reason # ""
  /\ c.reason = "feature_not_observed" => ReliablyAbsent(c)
  /\ c.reason = "outside_declared_scope" => c.support = "excluded"
  /\ c.capture = "not_used" /\ ~ReliablyAbsent(c) => ~ComponentBlocking(c)
  /\ HasManualRequirement(c) => c.manual

-----------------------------------------------------------------------------
(* A report: a sequence of components with different names.                *)

RestoreOutcome(components, coverageComplete) ==
  LET all        == ToSet(components)
      applicable == {c \in all : ~ReliablyAbsent(c)}
  IN CASE \E c \in all : ComponentFailed(c) -> "failed"
       [] \A c \in all : ~ComponentFailed(c) ->
            IF ~coverageComplete THEN "blocked"
            ELSE IF \A c \in applicable : c.restore = "not_attempted" THEN "not_run"
            ELSE IF \E c \in applicable : c.restore # "restored" THEN "blocked"
            ELSE IF \E c \in applicable : c.behavior \notin {"passed", "sampled", "inconclusive"}
                 THEN "blocked"
            ELSE IF \E c \in applicable : c.behavior # "passed" THEN "inconclusive" ELSE "success"

ExpectedSummary(components) ==
  LET complete == components # <<>> /\ \A c \in ToSet(components) : ComponentCoverageComplete(c)
  IN [coverage |-> IF complete THEN "complete" ELSE "incomplete",
      restore  |-> RestoreOutcome(components, complete)]

\* Validate of a report that carries the summary it must carry.
ValidReport(components) == components # <<>> /\ \A c \in ToSet(components) : ValidComponent(c)

\* A valid report that claims complete coverage has no component that blocks before
\* its restore; one that claims success has none that blocks at all and has tried
\* each one that is there; one that says nothing was run touched nothing; and one more
\* component never mends a summary (report.go:139 "so a successful command cannot hide
\* a permission, capture, recovery, integrity, restore, or behavior gap").
ReportHidesNothing(components) ==
  LET summary    == ExpectedSummary(components)
      present    == {c \in ToSet(components) : ~ReliablyAbsent(c)}
      BeforeRestore(c) == [c EXCEPT !.restore = "not_attempted", !.behavior = "not_checked"]
      fewer      == ExpectedSummary(Front(components))
  IN ValidReport(components) =>
       /\ summary.coverage = "complete" =>
            \A c \in present : ~ComponentBlocking(BeforeRestore(c))
       /\ summary.restore = "success" =>
            /\ present # {}
            /\ \A c \in present : /\ ~ComponentBlocking(c) /\ c.reason = ""
                                  /\ c.restore = "restored" /\ c.behavior = "passed"
       /\ summary.restore = "not_run" =>
            \A c \in present : c.restore = "not_attempted"
       /\ Len(components) > 1 =>
            /\ summary.coverage = "complete" => fewer.coverage = "complete"
            /\ summary.restore = "success" => fewer.restore \in {"success", "not_run"}
            /\ fewer.restore = "failed" => summary.restore = "failed"
=============================================================================
