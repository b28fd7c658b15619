---------------------------- MODULE ReviewRules ----------------------------
(***************************************************************************)
(* What the controller makes of a reviewer's output: the structure it      *)
(* demands, the status it moves the experiment to, and the definition of a *)
(* valid review that models.py keeps beside them. An output is a record    *)
(* with the bundle it names, the verdict, a sequence of checks and the     *)
(* references of its change summary. Notes and texts are left out.         *)
(***************************************************************************)
EXTENDS Naturals, Sequences, FiniteSets

CONSTANT RequiredChecks    \* REQUIRED_REVIEW_CHECKS

Verdicts == {"eligible", "ineligible", "needs_human"}

Names(checks) == {checks[i].name : i \in DOMAIN checks}

\* Every required check, each exactly once, and nothing else.
ChecksComplete(checks) ==
    /\ Len(checks) = Cardinality(RequiredChecks)
    /\ Names(checks) = RequiredChecks

\* _review_structure_error: a reference is good when the bundle offers it.
StructureError(out, bundle, allowed) ==
    \/ out.target # bundle
    \/ ~ChecksComplete(out.checks)
    \/ \E i \in DOMAIN out.checks :
          \/ out.checks[i].refs = {}
          \/ ~(out.checks[i].refs \subseteq allowed)
    \/ ~(out.summaryRefs \subseteq allowed)

\* Mutant: an unknown check passes.
JudgementOfFailures(out, bundle, allowed) ==
    IF StructureError(out, bundle, allowed) THEN "REVIEW_BLOCKED"
    ELSE IF out.verdict = "needs_human" THEN "NEEDS_HUMAN"
    ELSE IF \/ out.verdict = "ineligible"
            \/ \E i \in DOMAIN out.checks : out.checks[i].status = "fail"
    THEN "REJECTED"
    ELSE "ACCEPTED"

\* The end of _review: the status an output asks for.
Judgement(out, bundle, allowed) ==
    IF StructureError(out, bundle, allowed) THEN "REVIEW_BLOCKED"
    ELSE IF out.verdict = "needs_human" THEN "NEEDS_HUMAN"
    ELSE IF \/ out.verdict = "ineligible"
            \/ \E i \in DOMAIN out.checks : out.checks[i].status # "pass"
    THEN "REJECTED"
    ELSE "ACCEPTED"

\* validate_review_semantics.
Valid(out, bundle, allowed) ==
    /\ out.target = bundle
    /\ ChecksComplete(out.checks)
    /\ \A i \in DOMAIN out.checks :
          /\ out.checks[i].status = "pass"
          /\ out.checks[i].refs # {} /\ out.checks[i].refs \subseteq allowed
    /\ out.summaryRefs \subseteq allowed
    /\ out.verdict = "eligible"
=============================================================================
