------------------------------ MODULE Statuses ------------------------------
(***************************************************************************)
(* The experiment lifecycle as models.py declares it: the statuses, the    *)
(* table of allowed transitions that VeriLabService._transition enforces,  *)
(* and the groups of statuses its callers test for.                        *)
(***************************************************************************)

\* ExperimentStatus.
Statuses ==
    {"DRAFT", "QUEUED", "RUNNING", "GRADING", "REVIEW_PENDING", "ACCEPTED",
     "REJECTED", "FAILED", "CANCELLED", "VERIFICATION_FAILED",
     "REVIEW_BLOCKED", "NEEDS_HUMAN", "ORPHANED"}

\* ALLOWED_TRANSITIONS; "ABSENT" stands for an experiment without a row, which
\* no transition can find.
AllowedTransitions ==
    [s \in Statuses \cup {"ABSENT"} |->
        CASE s = "DRAFT" -> {"QUEUED", "CANCELLED"}
          [] s = "QUEUED" -> {"RUNNING", "CANCELLED", "FAILED"}
          [] s = "RUNNING" -> {"GRADING", "CANCELLED", "FAILED", "ORPHANED"}
          [] s = "GRADING" -> {"REVIEW_PENDING", "VERIFICATION_FAILED", "FAILED"}
          [] s = "REVIEW_PENDING" ->
                {"ACCEPTED", "REJECTED", "REVIEW_BLOCKED", "NEEDS_HUMAN",
                 "VERIFICATION_FAILED"}
          [] s \in {"REVIEW_BLOCKED", "NEEDS_HUMAN"} -> {"REVIEW_PENDING"}
          [] OTHER -> {}]

\* The statuses that _has_active_pipeline counts and that recover() resumes.
ActiveStatuses == {"RUNNING", "GRADING", "REVIEW_PENDING"}

\* The statuses in which cancel() accepts a request.
CancellableStatuses == {"QUEUED", "RUNNING"}

\* The statuses from which retry_review() reopens the review.
RetryableStatuses == {"REVIEW_BLOCKED", "NEEDS_HUMAN"}

\* A run that reached the grader, whatever became of it since.
GradedStatuses ==
    {"GRADING", "REVIEW_PENDING", "ACCEPTED", "REJECTED",
     "VERIFICATION_FAILED", "REVIEW_BLOCKED", "NEEDS_HUMAN"}

\* TERMINAL_STATUSES, and REVIEW_BLOCKED, where the system waits for a person
\* to ask for a retry: nothing is left to do unasked.
SettledStatuses ==
    {"ACCEPTED", "REJECTED", "FAILED", "CANCELLED", "VERIFICATION_FAILED",
     "NEEDS_HUMAN", "ORPHANED", "REVIEW_BLOCKED"}
=============================================================================
