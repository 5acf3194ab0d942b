------------------------------ MODULE Evaluation ------------------------------
(***************************************************************************)
(* The built-in policy that judges one historical study from a prefix of a *)
(* research session (research_tools/evaluations.py): which findings it     *)
(* makes, what it recommends, whether the status the researcher selected   *)
(* may stand, and the status of each gate.                                 *)
(*                                                                         *)
(* A session H is a sequence of events: results of tools, and conclusions  *)
(* and notes of a researcher.  A citation is the number of the event it    *)
(* cites; what is cited beyond the prefix, or is not the tool result it    *)
(* claims to be, does not resolve.  A result carries at most one warning   *)
(* of each class; a code that occurs twice is treated as the code does an  *)
(* unclassified one.                                                       *)
(***************************************************************************)
EXTENDS Integers, Sequences, FiniteSets

CONSTANT None

Statuses == {"needs_data", "rejected", "provisional", "accepted"}

(* What the researcher may select under each recommendation. *)
Permissions ==
    [accepted |-> Statuses,
     provisional |-> {"provisional", "needs_data", "rejected"},
     needs_data |-> {"needs_data", "rejected"},
     rejected |-> {"rejected"}]

StudyTools == {"run", "verifyStudy"}
Classes == {"acknowledgment", "provisional", "blocking", "unclassified"}
Gates == {"session_integrity", "objective", "study_target", "artifact_integrity", "provenance",
          "citation_resolution", "study_completeness", "warning_acknowledgment",
          "structured_consistency", "researcher_completion", "decision_consistency"}

(* A request is a record of the prefix it freezes (a length), the target it     *)
(* selects (0 for none), the claims it makes (type, subject, value, cites), whether *)
(* it asks for completion, and the decision to be checked: None, or a statement *)
(* (an event), a status, whether it cites the target as support, and the classes *)
(* of warnings it acknowledges and resolves.                                    *)

-----------------------------------------------------------------------------
(* The selected study. *)
IsResult(H, n) == n \in 1..Len(H) /\ H[n].kind = "result"
HasTarget(H, r) == IsResult(H, r.target)
Supported(H, r) == HasTarget(H, r) /\ H[r.target].tool \in StudyTools
Usable(H, r) == Supported(H, r) /\ H[r.target].status # "failed"
Warnings(H, r) == IF Usable(H, r) THEN H[r.target].warnings ELSE {}

(* What a request cites, and what of it does not resolve. *)
Cited(r) ==
    (IF r.target = 0 THEN {} ELSE {r.target})
        \cup {k.cites : k \in r.claims}
        \cup (IF r.decision = None THEN {} ELSE {r.decision.statement})

Unresolved(H, r) ==
    {n \in Cited(r) : n \notin 1..Len(H)}
        \cup {n \in {r.target} \cup {k.cites : k \in r.claims} : n \in 1..Len(H) /\ ~IsResult(H, n)}

(* Variant: a later attempt supersedes the selected one only if it succeeded. *)
SupersededBySuccess(H, r) ==
    \E n \in (r.target + 1)..Len(H) :
        /\ IsResult(H, n)
        /\ H[n].tool = H[r.target].tool
        /\ H[n].status = "complete"
        /\ H[n].resolved # H[r.target].resolved

(* A later attempt of the same request found other inputs. *)
Superseded(H, r) ==
    \E n \in (r.target + 1)..Len(H) :
        /\ IsResult(H, n)
        /\ H[n].tool = H[r.target].tool
        /\ H[n].attempt > H[r.target].attempt
        /\ H[n].resolved # H[r.target].resolved

(* Findings that fail a gate, each with its gate. *)
TargetFindings(H, r) ==
    IF ~HasTarget(H, r) THEN {<<"study_target_missing", "study_target">>}
    ELSE IF ~Supported(H, r) THEN {<<"study_tool_unsupported", "provenance">>}
    ELSE IF ~Usable(H, r) THEN {<<"study_failed", "study_completeness">>}
    ELSE {f \in {<<"study_incomplete", "study_completeness">>} : H[r.target].status = "incomplete"}
         \cup {f \in {<<"study_superseded", "study_target">>} : Superseded(H, r)}

CitationFindings(H, r) ==
    {f \in {<<"citation_unresolved", "citation_resolution">>} : Unresolved(H, r) # {}}

(* A claim is about the selected study: its status, a warning it carries, or  *)
(* the availability of its metrics, which is read from its bundle.            *)
ClaimResolves(H, k) == IsResult(H, k.cites)
ClaimSupported(H, r, k) ==
    /\ k.cites = r.target /\ HasTarget(H, r)
    /\ k.type = "metric" => Usable(H, r)
Actual(H, k) ==
    CASE k.type = "status" -> H[k.cites].status
      [] k.type = "warning" -> k.subject \in H[k.cites].warnings
      [] k.type = "metric" -> IF H[k.cites].status = "complete" THEN "available" ELSE "unavailable"

ClaimFindings(H, r) ==
    {<<IF ClaimSupported(H, r, k) THEN "claim_contradiction" ELSE "claim_unsupported",
       "structured_consistency">> :
         k \in {k \in r.claims : /\ ClaimResolves(H, k)
                                 /\ ~(ClaimSupported(H, r, k) /\ Actual(H, k) = k.value)}}

(* The decision: a typed statement that follows the study, citing it. *)
Typed(H, d) == d.statement \in 1..Len(H) /\ H[d.statement].kind = "conclusion"
Follows(H, r) == Typed(H, r.decision) /\ HasTarget(H, r) /\ r.decision.statement > r.target
Cites(r) == r.decision.supports /\ r.target # 0
DecisionValid(H, r) ==
    IF r.decision = None THEN ~r.completion ELSE Follows(H, r) /\ Cites(r)

DecisionFindings(H, r) ==
    {f \in {<<"researcher_decision_missing", "researcher_completion">>} :
        IF r.decision = None THEN r.completion ELSE ~Typed(H, r.decision)}
    \cup {f \in {<<"researcher_decision_stale", "researcher_completion">>} :
            r.decision # None /\ Typed(H, r.decision) /\ ~Follows(H, r)}
    \cup {f \in {<<"researcher_support_missing", "researcher_completion">>} :
            IF r.decision = None THEN r.completion ELSE ~Cites(r)}

(* Warnings count as acknowledged, or resolved, only under a valid decision. *)
Disposed(H, r) == r.decision # None /\ DecisionValid(H, r)
Acknowledged(H, r) == IF Disposed(H, r) THEN r.decision.acknowledged ELSE {}
Resolved(H, r) == IF Disposed(H, r) THEN r.decision.resolved ELSE {}

WarningFindings(H, r) ==
    LET gate == "warning_acknowledgment"
    IN  {<<"warning_unknown", gate>> : w \in Warnings(H, r) \cap {"unclassified"}}
        \cup {<<"warning_unacknowledged", gate>> :
                w \in Warnings(H, r) \ ({"unclassified"} \cup Acknowledged(H, r) \cup Resolved(H, r))}
        \cup {<<"warning_resolution_unsupported", gate>> :
                w \in (Warnings(H, r) \ {"unclassified"}) \cap Resolved(H, r)}
        \cup {<<"warning_unknown_disposition", gate>> :
                w \in (Acknowledged(H, r) \cup Resolved(H, r)) \ Warnings(H, r)}

Findings(H, r) ==
    CitationFindings(H, r) \cup TargetFindings(H, r) \cup ClaimFindings(H, r)
        \cup DecisionFindings(H, r) \cup WarningFindings(H, r)

-----------------------------------------------------------------------------
(* The recommendation, given which mutable sources of the selected result  *)
(* have changed since: each of them is a finding of its own, a warning.    *)
Contradicts(f) == f[1] = "claim_contradiction"

Recommendation(F, warnings, changed) ==
    IF \E f \in F : Contradicts(f) THEN "rejected"
    ELSE IF F # {} \/ "blocking" \in warnings THEN "needs_data"
    ELSE IF changed # {} \/ "provisional" \in warnings THEN "provisional"
    ELSE "accepted"

Selected(r) == IF r.decision = None THEN None ELSE r.decision.status

\* The status the researcher selected is no more permissive than the recommendation.
WithinCeiling(r, recommended) == Selected(r) # None /\ Selected(r) \in Permissions[recommended]

NotApplicable(H, r) ==
    (CASE ~HasTarget(H, r) -> {"artifact_integrity", "provenance", "study_completeness", "warning_acknowledgment"}
       [] HasTarget(H, r) /\ ~Supported(H, r) -> {"artifact_integrity", "study_completeness", "warning_acknowledgment"}
       [] Supported(H, r) /\ ~Usable(H, r) -> {"artifact_integrity", "warning_acknowledgment"}
       [] OTHER -> {})
    \cup (IF r.claims = {} THEN {"structured_consistency"} ELSE {})
    \cup (IF r.decision = None /\ ~r.completion THEN {"researcher_completion"} ELSE {})
    \cup (IF Selected(r) = None THEN {"decision_consistency"} ELSE {})

GateStatus(H, r, F, within) ==
    LET failing == {f[2] : f \in F}
                   \cup {g \in {"decision_consistency"} : Selected(r) # None /\ ~within}
        idle == NotApplicable(H, r)
    IN  [g \in Gates |-> IF g \in failing THEN "fail"
                         ELSE IF g \in idle THEN "not_applicable" ELSE "pass"]

Verdict(H, r, changed) ==
    LET F == Findings(H, r)
        recommended == Recommendation(F, Warnings(H, r), changed)
        within == WithinCeiling(r, recommended)
        permitted == DecisionValid(H, r) /\ within
    IN  [recommended |-> recommended,
         permitted |-> permitted,
         effective |-> IF permitted THEN Selected(r) ELSE recommended,
         gates |-> GateStatus(H, r, F, within),
         changed |-> changed]
=============================================================================
