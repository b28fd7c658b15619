------------------------------ MODULE Lifecycle ------------------------------
(***************************************************************************)
(* What the controller promises about experiments, with no thread, file or *)
(* process in sight: an experiment is born QUEUED, leaves the queue for    *)
(* RUNNING in order of submission and only while no other experiment is    *)
(* RUNNING or GRADING, and otherwise only follows the table of allowed     *)
(* transitions. Controller.tla is checked and proved to implement it.      *)
(***************************************************************************)
EXTENDS Statuses, Naturals, TLAPS

CONSTANT Experiments

VARIABLES
    status,    \* experiments.status, "ABSENT" before the row exists
    born,      \* experiments.created_at, as a rank
    clock      \* the next created_at

vars == <<status, born, clock>>

Init ==
    /\ status = [e \in Experiments |-> "ABSENT"]
    /\ born = [e \in Experiments |-> 0]
    /\ clock = 0

Submit(e) ==
    /\ status[e] = "ABSENT"
    /\ status' = [status EXCEPT ![e] = "QUEUED"]
    /\ born' = [born EXCEPT ![e] = clock]
    /\ clock' = clock + 1

InPipeline(e) == status[e] \in {"RUNNING", "GRADING"}

\* The pipeline is free, and nothing submitted before e is still waiting.
MayStart(e) ==
    /\ \A f \in Experiments : ~InPipeline(f)
    /\ \A f \in Experiments : status[f] = "QUEUED" => born[e] <= born[f]

Advance(e, s) ==
    /\ s \in AllowedTransitions[status[e]]
    /\ s = "RUNNING" => MayStart(e)
    /\ status' = [status EXCEPT ![e] = s]
    /\ UNCHANGED <<born, clock>>

Next == \E e \in Experiments : Submit(e) \/ \E s \in Statuses : Advance(e, s)

Spec == Init /\ [][Next]_vars
-----------------------------------------------------------------------------
\* README.md, "One FIFO formal pipeline": at most one experiment occupies the
\* part of the pipeline that executes the formal command and grades it.
SinglePipeline ==
    \A e, f \in Experiments : InPipeline(e) /\ InPipeline(f) => e = f
-----------------------------------------------------------------------------
\* The table leaves QUEUED as the only way into RUNNING, and RUNNING as the only
\* way into GRADING.
LEMMA WaysIntoThePipeline ==
    ASSUME NEW s \in Statuses \cup {"ABSENT"}
    PROVE  /\ AllowedTransitions[s] \subseteq Statuses
           /\ "RUNNING" \in AllowedTransitions[s] => s = "QUEUED"
           /\ "GRADING" \in AllowedTransitions[s] => s = "RUNNING"
           /\ "QUEUED" \in AllowedTransitions[s] => s = "DRAFT"
  BY DEF AllowedTransitions, Statuses

StatusOK == status \in [Experiments -> Statuses \cup {"ABSENT"}]

\* ALLOWED_TRANSITIONS admits one experiment at a time to RUNNING and GRADING:
\* the promise SinglePipeline follows from the order of admission alone.
THEOREM LifecycleIsSingle == Spec => [](StatusOK /\ SinglePipeline)
<1>1. Init => StatusOK /\ SinglePipeline
  BY DEF Init, StatusOK, SinglePipeline, InPipeline
<1>2. StatusOK /\ SinglePipeline /\ [Next]_vars => (StatusOK /\ SinglePipeline)'
  <2> SUFFICES ASSUME StatusOK, SinglePipeline, [Next]_vars
               PROVE  StatusOK' /\ SinglePipeline'
    OBVIOUS
  <2>1. CASE UNCHANGED vars
    BY <2>1 DEF vars, StatusOK, SinglePipeline, InPipeline
  <2>2. ASSUME NEW e \in Experiments, Submit(e)
        PROVE  StatusOK' /\ SinglePipeline'
    BY <2>2 DEF Submit, StatusOK, SinglePipeline, InPipeline, Statuses
  <2>3. ASSUME NEW e \in Experiments, NEW s \in Statuses, Advance(e, s)
        PROVE  StatusOK' /\ SinglePipeline'
    <3>1. status[e] \in Statuses \cup {"ABSENT"}
      BY DEF StatusOK
    <3>2. StatusOK'
      BY <2>3 DEF Advance, StatusOK
    <3>3. CASE s = "RUNNING"
      BY <2>3, <3>3 DEF Advance, MayStart, StatusOK, SinglePipeline, InPipeline
    <3>4. CASE s = "GRADING"
      BY <2>3, <3>1, <3>4, WaysIntoThePipeline DEF Advance, StatusOK, SinglePipeline, InPipeline
    <3>5. CASE s \notin {"RUNNING", "GRADING"}
      BY <2>3, <3>5 DEF Advance, StatusOK, SinglePipeline, InPipeline
    <3>6. QED
      BY <3>2, <3>3, <3>4, <3>5
  <2>4. QED
    BY <2>1, <2>2, <2>3 DEF Next
<1>3. QED
  BY <1>1, <1>2, PTL DEF Spec
=============================================================================
