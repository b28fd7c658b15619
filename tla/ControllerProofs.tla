-------------------------- MODULE ControllerProofs --------------------------
(***************************************************************************)
(* Theorems about Controller for any set of experiments, workers and       *)
(* retriers, any faults and any number of crashes: type correctness, that  *)
(* the controller implements Lifecycle, and that the pipeline is single.   *)
(***************************************************************************)
EXTENDS Controller, TLAPS

-----------------------------------------------------------------------------
\* The kinds of labels, and where a thread rests.

LEMMA LabelKinds ==
    /\ RestLabels \cap BusyLabels = {}
    /\ {"check", "select"} \cap (RestLabels \cup BusyLabels) = {}
    /\ RestLabels \subseteq Labels /\ BusyLabels \subseteq Labels
    /\ \A t : Resting(t) \in {"idle", "off", "recover"}
    /\ {"idle", "off", "recover", "down"} \subseteq RestLabels
  BY DEF RestLabels, BusyLabels, WorkerLabels, ReviewLabels, Labels, Resting

LEMMA GotoFrames ==
    ASSUME FramesOK, NEW t \in Threads, NEW label \in Labels, label # "move",
           label \in BusyLabels <=> job[t] \in Experiments, Goto(t, label)
    PROVE  FramesOK'
  BY DEF FramesOK, Goto

LEMMA BeginFrames ==
    ASSUME FramesOK, NEW t \in Threads, NEW e \in Experiments,
           NEW label \in BusyLabels, label # "move", Begin(t, e, label)
    PROVE  FramesOK'
  BY LabelKinds DEF FramesOK, Begin

LEMMA RequestFrames ==
    ASSUME FramesOK, NEW t \in Threads, NEW e \in Experiments, NEW s \in Targets,
           Request(t, e, s)
    PROVE  FramesOK'
  <1>1. "move" \in BusyLabels /\ "move" \in Labels
    BY DEF BusyLabels, Labels
  <1>2. QED
    BY <1>1 DEF FramesOK, Request

LEMMA ReturnFrames ==
    ASSUME FramesOK, NEW t \in Threads, Return(t)
    PROVE  FramesOK'
  <1>1. Resting(t) \in Labels /\ Resting(t) \notin BusyLabels /\ Resting(t) # "move"
    BY LabelKinds
  <1>2. QED
    BY <1>1, NamesOfNothing DEF FramesOK, Return

LEMMA ExitFrames ==
    ASSUME FramesOK, Exit
    PROVE  FramesOK'
  <1>1. \A t \in Threads :
           LET l == IF t = Main THEN "down" ELSE Resting(t)
           IN  l \in Labels /\ l \notin BusyLabels /\ l # "move"
    BY LabelKinds
  <1>2. QED
    BY <1>1, NamesOfNothing DEF FramesOK, Exit

LEMMA UnwindFrames ==
    ASSUME FramesOK, NEW t \in Threads, Unwind(t)
    PROVE  FramesOK'
  BY ReturnFrames, ExitFrames DEF Unwind

LEMMA ThrowFrames ==
    ASSUME FramesOK, NEW t \in Threads, pc[t] \in BusyLabels, Throw(t)
    PROVE  FramesOK'
  <1>1. CASE t \in Workers
    <2>1. job[t] \in Experiments
      BY DEF FramesOK
    <2>2. "rescue" \in BusyLabels /\ "rescue" \in Labels
      BY DEF BusyLabels, Labels, WorkerLabels
    <2>3. QED
      BY <1>1, <2>1, <2>2, GotoFrames DEF Throw
  <1>2. CASE t \notin Workers
    BY <1>2, UnwindFrames DEF Throw
  <1>3. QED
    BY <1>1, <1>2

LEMMA ContinueFrames ==
    ASSUME FramesOK, NEW t \in Threads, pc[t] \in BusyLabels, Continue(t)
    PROVE  FramesOK'
  <1>1. job[t] \in Experiments
    BY DEF FramesOK
  <1>2. \A l \in {"authorize", "grade", "review"} : l \in BusyLabels /\ l \in Labels
    BY DEF BusyLabels, Labels, WorkerLabels, ReviewLabels
  <1>3. \/ \E l \in {"authorize", "grade", "review"} : Goto(t, l)
        \/ Return(t)
    BY DEF Continue
  <1>4. QED
    BY <1>1, <1>2, <1>3, GotoFrames, ReturnFrames

-----------------------------------------------------------------------------
\* Type correctness

LEMMA BusyFacts ==
    /\ WorkerLabels \cup ReviewLabels \cup {"grade", "adopt", "watch", "kill"}
            \subseteq BusyLabels \ {"move"}
    /\ BusyLabels \subseteq Labels /\ "move" \in BusyLabels
    /\ {"check", "select", "recover", "serving"} \subseteq Labels \ BusyLabels
  BY DEF RestLabels, BusyLabels, WorkerLabels, ReviewLabels, Labels

\* run_next() and _run_experiment() preserve the types.
LEMMA WorkerStepTypes ==
    ASSUME TypeOK, NEW w \in Workers, WorkerStep(w) \/ RunFails(w)
    PROVE  TypeOK'
<1> USE DEF TypeOK, rowVars, fileVars, recoverVars, bounds
<1>1. w \in Threads
  BY DEF Threads
<1>2. pc[w] \in BusyLabels => job[w] \in Experiments
  BY <1>1 DEF FramesOK
<1>3. CASE RunNext(w)
  <2>1. pc[w] \notin BusyLabels
    BY <1>3, LabelKinds DEF RunNext
  <2>2. FramesOK'
    BY <1>1, <1>3, <2>1, BusyFacts DEF RunNext, FramesOK
  <2>3. QED
    BY <1>3, <2>2 DEF RunNext, RowsOK, FilesOK, RecoveryOK
<1>4. CASE CheckActive(w)
  <2>1. FramesOK'
    BY <1>1, <1>4, BusyFacts, GotoFrames, ReturnFrames DEF CheckActive, FramesOK
  <2>2. QED
    BY <1>4, <2>1 DEF CheckActive, RowsOK, FilesOK, RecoveryOK
<1>5. CASE SelectQueued(w)
  <2>1. "worktree" \in BusyLabels
    BY BusyFacts DEF WorkerLabels
  <2>2. FramesOK'
    BY <1>1, <1>5, <2>1, BeginFrames, ReturnFrames DEF SelectQueued, Queued
  <2>3. QED
    BY <1>5, <2>2 DEF SelectQueued, RowsOK, FilesOK, RecoveryOK
<1>6. CASE CreateWorktree(w)
  <2>1. job[w] \in Experiments /\ "RUNNING" \in Targets
    BY <1>2, <1>6, BusyFacts DEF CreateWorktree, WorkerLabels, Targets, Statuses
  <2>2. FramesOK'
    BY <1>1, <1>6, <2>1, RequestFrames DEF CreateWorktree
  <2>3. QED
    BY <1>6, <2>2 DEF CreateWorktree, RowsOK, FilesOK, RecoveryOK
<1>7. CASE Authorize(w)
  <2>1. job[w] \in Experiments /\ "spawn" \in BusyLabels /\ "spawn" \in Labels
    BY <1>2, <1>7, BusyFacts DEF Authorize, WorkerLabels
  <2>2. FramesOK'
    BY <1>1, <1>7, <2>1, GotoFrames DEF Authorize
  <2>3. QED
    BY <1>7, <2>1, <2>2 DEF Authorize, RowsOK, FilesOK, RecoveryOK
<1>8. CASE Spawn(w)
  <2>1. job[w] \in Experiments /\ "record" \in BusyLabels /\ "record" \in Labels
    BY <1>2, <1>8, BusyFacts DEF Spawn, WorkerLabels
  <2>2. FramesOK'
    BY <1>1, <1>8, <2>1, GotoFrames DEF Spawn
  <2>3. QED
    BY <1>8, <2>1, <2>2 DEF Spawn, RowsOK, FilesOK, RecoveryOK
<1>9. CASE Record(w)
  <2>1. job[w] \in Experiments /\ "supervise" \in BusyLabels /\ "supervise" \in Labels
    BY <1>2, <1>9, BusyFacts DEF Record, WorkerLabels
  <2>2. FramesOK'
    BY <1>1, <1>9, <2>1, GotoFrames DEF Record
  <2>3. QED
    BY <1>9, <2>1, <2>2 DEF Record, RowsOK, FilesOK, RecoveryOK
<1>10. CASE Supervise(w)
  <2>1. /\ job[w] \in Experiments
        /\ \A l \in {"receipt", "reap"} : l \in BusyLabels /\ l \in Labels
    BY <1>2, <1>10, BusyFacts DEF Supervise, WorkerLabels
  <2>2. FramesOK'
    BY <1>1, <1>10, <2>1, GotoFrames DEF Supervise
  <2>3. QED
    BY <1>10, <2>1, <2>2 DEF Supervise, Terminated, RowsOK, FilesOK, RecoveryOK
<1>11. CASE Reap(w)
  <2>1. job[w] \in Experiments /\ "receipt" \in BusyLabels /\ "receipt" \in Labels
    BY <1>2, <1>11, BusyFacts DEF Reap, WorkerLabels
  <2>2. FramesOK'
    BY <1>1, <1>11, <2>1, GotoFrames DEF Reap
  <2>3. QED
    BY <1>11, <2>1, <2>2 DEF Reap, RowsOK, FilesOK, RecoveryOK
<1>12. CASE OpenReceipt(w)
  <2>1. job[w] \in Experiments /\ "flush" \in BusyLabels /\ "flush" \in Labels
    BY <1>2, <1>12, BusyFacts DEF OpenReceipt, WorkerLabels
  <2>2. FramesOK'
    BY <1>1, <1>12, <2>1, GotoFrames DEF OpenReceipt
  <2>3. QED
    BY <1>12, <2>1, <2>2 DEF OpenReceipt, RowsOK, FilesOK, RecoveryOK
<1>13. CASE FlushReceipt(w)
  <2>1. job[w] \in Experiments /\ "finish" \in BusyLabels /\ "finish" \in Labels
    BY <1>2, <1>13, BusyFacts DEF FlushReceipt, WorkerLabels
  <2>2. FramesOK'
    BY <1>1, <1>13, <2>1, GotoFrames DEF FlushReceipt
  <2>3. QED
    BY <1>13, <2>1, <2>2 DEF FlushReceipt, RowsOK, FilesOK, RecoveryOK
<1>14. CASE Finish(w)
  <2>1. job[w] \in Experiments /\ "seal" \in BusyLabels /\ "seal" \in Labels
    BY <1>2, <1>14, BusyFacts DEF Finish, WorkerLabels
  <2>2. FramesOK'
    BY <1>1, <1>14, <2>1, GotoFrames DEF Finish
  <2>3. QED
    BY <1>14, <2>1, <2>2 DEF Finish, RowsOK, FilesOK, RecoveryOK
<1>15. CASE Seal(w)
  <2>1. job[w] \in Experiments /\ "decide" \in BusyLabels /\ "decide" \in Labels
    BY <1>2, <1>15, BusyFacts DEF Seal, WorkerLabels
  <2>2. FramesOK'
    BY <1>1, <1>15, <2>1, GotoFrames DEF Seal
  <2>3. QED
    BY <1>15, <2>1, <2>2 DEF Seal, RowsOK, FilesOK, RecoveryOK
<1>16. CASE Decide(w)
  <2>1. job[w] \in Experiments /\ {"CANCELLED", "GRADING", "FAILED"} \subseteq Targets
    BY <1>2, <1>16, BusyFacts DEF Decide, WorkerLabels, Targets, Statuses
  <2>2. \E s \in Targets : Request(w, job[w], s)
    BY <1>16, <2>1 DEF Decide
  <2>3. FramesOK'
    BY <1>1, <2>1, <2>2, RequestFrames
  <2>4. QED
    BY <1>16, <2>3 DEF Decide, RowsOK, FilesOK, RecoveryOK
<1>17. CASE Rescue(w)
  <2>1. job[w] \in Experiments /\ "inspect" \in BusyLabels /\ "inspect" \in Labels
    BY <1>2, <1>17, BusyFacts DEF Rescue, WorkerLabels
  <2>2. FramesOK'
    BY <1>1, <1>17, <2>1, GotoFrames DEF Rescue
  <2>3. QED
    BY <1>17, <2>1, <2>2 DEF Rescue, RowsOK, FilesOK, RecoveryOK
<1>18. CASE Inspect(w)
  <2>1. job[w] \in Experiments /\ "bury" \in BusyLabels /\ "bury" \in Labels
    BY <1>2, <1>18, BusyFacts DEF Inspect, WorkerLabels
  <2>2. FramesOK'
    BY <1>1, <1>18, <2>1, GotoFrames, ReturnFrames DEF Inspect
  <2>3. QED
    BY <1>18, <2>2 DEF Inspect, RowsOK, FilesOK, RecoveryOK
<1>19. CASE Bury(w)
  <2>1. job[w] \in Experiments /\ "FAILED" \in Statuses
    BY <1>2, <1>19, BusyFacts DEF Bury, WorkerLabels, Targets, Statuses
  <2>2. FramesOK'
    BY <1>1, <1>19, ReturnFrames DEF Bury
  <2>3. QED
    BY <1>19, <2>1, <2>2 DEF Bury, RowsOK, FilesOK, RecoveryOK
<1>20. CASE RunFails(w)
  <2>1. job[w] \in Experiments /\ "rescue" \in BusyLabels /\ "rescue" \in Labels
    BY <1>2, <1>20, BusyFacts DEF RunFails, WorkerLabels
  <2>2. FramesOK'
    BY <1>1, <1>20, <2>1, GotoFrames DEF RunFails
  <2>3. QED
    BY <1>20, <2>2 DEF RunFails, RowsOK, FilesOK, RecoveryOK
<1>21. QED
  BY <1>3, <1>4, <1>5, <1>6, <1>7, <1>8, <1>9, <1>10, <1>11, <1>12, <1>13, <1>14,
     <1>15, <1>16, <1>17, <1>18, <1>19, <1>20 DEF WorkerStep

\* _transition, _grade, _review, _accept and the errors raised in them.
LEMMA SharedStepTypes ==
    ASSUME TypeOK, NEW t \in Threads, SharedStep(t) \/ Fault(t)
    PROVE  TypeOK'
<1> USE DEF TypeOK, rowVars, fileVars, recoverVars, bounds
<1>1. pc[t] \in BusyLabels => job[t] \in Experiments
  BY DEF FramesOK
<1>2. CASE Move(t)
  <2>1. pc[t] \in BusyLabels /\ job[t] \in Experiments /\ goal[t] \in Targets
    BY <1>1, <1>2, BusyFacts DEF Move, FramesOK
  <2>2. FramesOK'
    BY <1>2, <2>1, ContinueFrames, ThrowFrames DEF Move
  <2>3. QED
    BY <1>2, <2>1, <2>2 DEF Move, Targets, RowsOK, FilesOK, RecoveryOK
<1>3. CASE Adopt(t)
  <2>1. job[t] \in Experiments /\ {"CANCELLED", "GRADING", "FAILED"} \subseteq Targets
    BY <1>1, <1>3, BusyFacts DEF Adopt, Targets, Statuses
  <2>2. \E s \in Targets : Request(t, job[t], s)
    BY <1>3, <2>1 DEF Adopt
  <2>3. FramesOK'
    BY <2>1, <2>2, RequestFrames
  <2>4. QED
    BY <1>3, <2>3 DEF Adopt, RowsOK, FilesOK, RecoveryOK
<1>4. CASE Grade(t)
  <2>1. /\ job[t] \in Experiments
        /\ {"REVIEW_PENDING", "VERIFICATION_FAILED"} \subseteq Targets
    BY <1>1, <1>4, BusyFacts DEF Grade, Targets, Statuses
  <2>2. FramesOK'
    BY <1>4, <2>1, RequestFrames DEF Grade
  <2>3. QED
    BY <1>4, <2>2 DEF Grade, RowsOK, FilesOK, RecoveryOK
<1>5. CASE OpenReview(t)
  <2>1. /\ job[t] \in Experiments /\ "VERIFICATION_FAILED" \in Targets
        /\ "ask" \in BusyLabels /\ "ask" \in Labels
    BY <1>1, <1>5, BusyFacts DEF OpenReview, ReviewLabels, Targets, Statuses
  <2>2. FramesOK'
    BY <1>5, <2>1, RequestFrames, GotoFrames DEF OpenReview
  <2>3. QED
    BY <1>5, <2>2 DEF OpenReview, RowsOK, FilesOK, RecoveryOK
<1>6. CASE Verdict(t)
  <2>1. /\ job[t] \in Experiments
        /\ {"REVIEW_BLOCKED", "NEEDS_HUMAN", "REJECTED"} \subseteq Targets
        /\ "accept" \in BusyLabels /\ "accept" \in Labels
    BY <1>1, <1>6, BusyFacts DEF Verdict, ReviewLabels, Targets, Statuses
  <2>2. FramesOK'
    BY <1>6, <2>1, RequestFrames, GotoFrames DEF Verdict
  <2>3. QED
    BY <1>6, <2>2 DEF Verdict, RowsOK, FilesOK, RecoveryOK
<1>7. CASE Accept(t)
  <2>1. pc[t] \in BusyLabels /\ job[t] \in Experiments /\ "ACCEPTED" \in Statuses
    BY <1>1, <1>7, BusyFacts DEF Accept, ReviewLabels, Targets, Statuses
  <2>2. FramesOK'
    BY <1>7, <2>1, ReturnFrames, ThrowFrames DEF Accept
  <2>3. QED
    BY <1>7, <2>1, <2>2 DEF Accept, RowsOK, FilesOK, RecoveryOK
<1>8. CASE ReadFails(t)
  <2>1. pc[t] \in BusyLabels
    BY <1>8, BusyFacts DEF ReadFails, ReviewLabels
  <2>2. FramesOK'
    BY <1>8, <2>1, ThrowFrames DEF ReadFails
  <2>3. QED
    BY <1>8, <2>2 DEF ReadFails, RowsOK, FilesOK, RecoveryOK
<1>9. CASE ReviewFails(t)
  <2>1. FramesOK'
    BY <1>9, ReturnFrames, UnwindFrames DEF ReviewFails
  <2>2. QED
    BY <1>9, <2>1 DEF ReviewFails, RowsOK, FilesOK, RecoveryOK
<1>10. CASE Escape(t)
  <2>1. FramesOK'
    BY <1>10, UnwindFrames DEF Escape
  <2>2. QED
    BY <1>10, <2>1 DEF Escape, RowsOK, FilesOK, RecoveryOK
<1>11. QED
  BY <1>2, <1>3, <1>4, <1>5, <1>6, <1>7, <1>8, <1>9, <1>10 DEF SharedStep, Fault

\* submit(), cancel() and the request part of retry_review().
LEMMA ApiStepTypes ==
    ASSUME TypeOK, CancelKill \/ \E e \in Experiments : ApiCall(e)
    PROVE  TypeOK'
<1> USE DEF TypeOK, rowVars, fileVars, recoverVars, bounds
<1>1. Api \in Threads /\ \A r \in Retriers : r \in Threads
  BY DEF Threads
<1>2. ASSUME NEW e \in Experiments, Submit(e)
      PROVE  TypeOK'
  BY <1>2 DEF Submit, RowsOK, FilesOK, FramesOK, RecoveryOK, Targets, Statuses
<1>3. ASSUME NEW e \in Experiments, CancelRequest(e)
      PROVE  TypeOK'
  <2>1. "CANCELLED" \in Targets /\ "kill" \in BusyLabels
    BY BusyFacts DEF Targets, Statuses
  <2>2. FramesOK'
    <3>1. CASE UNCHANGED <<pc, job, goal, lock>>
      BY <3>1 DEF FramesOK
    <3>2. CASE Request(Api, e, "CANCELLED") \/ Begin(Api, e, "kill")
      BY <1>1, <2>1, <3>2, RequestFrames, BeginFrames
    <3>3. QED
      BY <1>3, <3>1, <3>2 DEF CancelRequest
  <2>3. QED
    BY <1>3, <2>2 DEF CancelRequest, RowsOK, FilesOK, RecoveryOK
<1>4. ASSUME NEW e \in Experiments, NEW r \in Retriers, RetryRequest(r, e)
      PROVE  TypeOK'
  <2>1. FramesOK'
    BY <1>1, <1>4, RequestFrames DEF RetryRequest, Targets, Statuses
  <2>2. QED
    BY <1>4, <2>1 DEF RetryRequest, RowsOK, FilesOK, RecoveryOK
<1>5. CASE CancelKill
  <2>1. FramesOK'
    BY <1>1, <1>5, ReturnFrames DEF CancelKill
  <2>2. QED
    BY <1>5, <2>1 DEF CancelKill, Terminated, RowsOK, FilesOK, RecoveryOK
<1>6. QED
  BY <1>2, <1>3, <1>4, <1>5 DEF ApiCall

\* start(), recover(), the monitors, the formal processes and the crash.
LEMMA RecoveryTypes ==
    ASSUME TypeOK,
           \/ Startup \/ Crash
           \/ \E e \in Experiments : Watch(e) \/ ProcExit(e)
    PROVE  TypeOK'
<1> USE DEF TypeOK, rowVars, fileVars, recoverVars, bounds
<1>1. Main \in Threads /\ \A e \in Experiments : e \in Threads
  BY DEF Threads
<1>2. /\ {"adopt", "watch", "grade", "review"} \subseteq BusyLabels
      /\ "ORPHANED" \in Targets
  BY BusyFacts DEF ReviewLabels, Targets, Statuses
<1>3. CASE Boot
  <2>1. pc[Main] \notin BusyLabels /\ "recover" \in Labels /\ "recover" \notin BusyLabels
    BY <1>3, BusyFacts, LabelKinds DEF Boot
  <2>2. FramesOK'
    BY <1>1, <1>3, <2>1, GotoFrames DEF Boot, FramesOK
  <2>3. QED
    BY <1>3, <2>2 DEF Boot, RowsOK, FilesOK, RecoveryOK
<1>4. CASE Serve
  <2>1. pc[Main] \notin BusyLabels /\ "serving" \in Labels /\ "serving" \notin BusyLabels
    BY <1>4, BusyFacts DEF Serve
  <2>2. FramesOK'
    BY <1>1, <1>4, <2>1, GotoFrames DEF Serve, FramesOK
  <2>3. QED
    BY <1>4, <2>2 DEF Serve, RowsOK, FilesOK, RecoveryOK
<1>5. ASSUME NEW e \in Experiments, Recover(e)
      PROVE  TypeOK'
  <2>1. FramesOK'
    BY <1>1, <1>2, <1>5, BeginFrames, RequestFrames
       DEF Recover, RecoverRunning, TakeReceipt
  <2>2. runStatus' \in [Experiments -> {"QUEUED", "RUNNING", "FINISHED", "FAILED"}]
    BY <1>5 DEF Recover, RecoverRunning, TakeReceipt, RowsOK
  <2>3. QED
    BY <1>5, <2>1, <2>2 DEF Recover, RowsOK, FilesOK, RecoveryOK
<1>6. ASSUME NEW e \in Experiments, Watch(e)
      PROVE  TypeOK'
  <2>1. FramesOK'
    BY <1>1, <1>2, <1>6, BeginFrames, RequestFrames, ReturnFrames
       DEF Watch, TakeReceipt
  <2>2. runStatus' \in [Experiments -> {"QUEUED", "RUNNING", "FINISHED", "FAILED"}]
    BY <1>6 DEF Watch, TakeReceipt, RowsOK
  <2>3. QED
    BY <1>6, <2>1, <2>2 DEF Watch, RowsOK, FilesOK, RecoveryOK
<1>7. ASSUME NEW e \in Experiments, ProcExit(e)
      PROVE  TypeOK'
  BY <1>7 DEF ProcExit, RowsOK, FilesOK, FramesOK, RecoveryOK
<1>8. CASE Crash
  <2>1. FramesOK'
    BY <1>8, ExitFrames DEF Crash
  <2>2. QED
    BY <1>8, <2>1 DEF Crash, RowsOK, FilesOK, RecoveryOK
<1>9. QED
  BY <1>3, <1>4, <1>5, <1>6, <1>7, <1>8 DEF Startup

\* The model's data stay of their types, and a thread never acts on an experiment
\* it does not have: the base of every other proof.
THEOREM TypeCorrect == Spec => []TypeOK
<1>1. Init => TypeOK
  <2>1. \A t \in Threads :
           LET l == IF t = Main THEN "down" ELSE Resting(t)
           IN  l \in Labels /\ l \notin BusyLabels /\ l # "move"
    BY LabelKinds
  <2>2. Init => FramesOK
    BY <2>1, NamesOfNothing DEF Init, FramesOK
  <2>3. Init => RowsOK /\ FilesOK /\ RecoveryOK
    BY DEF Init, RowsOK, FilesOK, RecoveryOK
  <2>4. QED
    BY <2>2, <2>3 DEF TypeOK
<1>2. TypeOK /\ [Next]_vars => TypeOK'
  <2> SUFFICES ASSUME TypeOK, [Next]_vars
               PROVE  TypeOK'
    OBVIOUS
  <2>1. CASE UNCHANGED vars
    BY <2>1 DEF vars, rowVars, fileVars, recoverVars, bounds, TypeOK, RowsOK, FilesOK,
                FramesOK, RecoveryOK
  <2>2. CASE Next
    BY <2>2, WorkerStepTypes, SharedStepTypes, ApiStepTypes, RecoveryTypes DEF Next
  <2>3. QED
    BY <2>1, <2>2
<1>3. QED
  BY <1>1, <1>2, PTL DEF Spec
-----------------------------------------------------------------------------
(* Admission, and the refinement that rests on it. *)

\* What every step except a submission and a start does to the statuses: none
\* enters the pipeline, none enters the queue, no row disappears.
Settling ==
    /\ \A f \in Experiments :
          /\ status'[f] \in {"RUNNING", "GRADING"} => status[f] \in {"RUNNING", "GRADING"}
          /\ status'[f] = "QUEUED" => status[f] = "QUEUED"
          /\ status[f] # "ABSENT" => status'[f] # "ABSENT"
    /\ UNCHANGED <<born, clock>>

\* What every step except a selection does to the threads: no worker gets any
\* closer to a start, and one at work still has the lock.
Holding ==
    /\ \A t \in Threads :
          pc'[t] = "move" /\ goal'[t] = "RUNNING" => pc[t] = "move" /\ goal[t] = "RUNNING"
    /\ \A w \in Workers :
          /\ pc'[w] # "idle" => lock' = w
          /\ pc'[w] = "select" => pc[w] = "select"
          /\ pc'[w] = "worktree" => pc[w] = "worktree"
          /\ pc'[w] \in {"worktree", "move"} => job'[w] = job[w]

\* t is not a worker that has yet to take the lock.
Engaged(t) == t \in Workers => pc[t] # "idle"

LEMMA WorkersAreThreads == Workers \subseteq Threads
  BY DEF Threads

LEMMA WorkersRestIdle == \A w \in Workers : Resting(w) = "idle" /\ w # Main
  BY ThreadsAreDistinct DEF Resting

\* Such a step preserves the invariant.
LEMMA QuietStep ==
    ASSUME FramesOK, Admission, Settling, Holding
    PROVE  Admission'
<1>1. \A e \in Experiments : born'[e] <= clock'
  BY DEF Admission, Settling
<1>2. \A t \in Threads : pc'[t] = "move" /\ goal'[t] = "RUNNING" => t \in Workers
  BY DEF Admission, Holding
<1>3. ASSUME NEW w \in Workers
      PROVE  /\ pc'[w] = "select" \/ Starting(w)' => pc[w] = "select" \/ Starting(w)
             /\ Starting(w)' => Starting(w) /\ job'[w] = job[w]
  BY WorkersAreThreads DEF Holding, Starting
<1>4. ASSUME NEW w \in Workers, pc'[w] = "select" \/ Starting(w)'
      PROVE  \A f \in Experiments : status'[f] \notin {"RUNNING", "GRADING"}
  BY <1>3, <1>4 DEF Admission, Settling
<1>5. ASSUME NEW w \in Workers, Starting(w)'
      PROVE  /\ status'[job'[w]] # "ABSENT"
             /\ \A f \in Experiments :
                   status'[f] = "QUEUED" => born'[job'[w]] <= born'[f]
  <2>1. Starting(w) /\ job'[w] = job[w]
    BY <1>3, <1>5
  <2>2. job[w] \in Experiments
    BY <2>1, WorkersAreThreads, BusyFacts DEF Starting, FramesOK, WorkerLabels
  <2>3. QED
    BY <2>1, <2>2 DEF Admission, Settling
<1>6. \A w \in Workers : pc'[w] # "idle" => lock' = w
  BY DEF Holding
<1>7. QED
  BY <1>1, <1>2, <1>4, <1>5, <1>6 DEF Admission

\* The control flow of a thread, helper by helper.

LEMMA StutterHolds ==
    ASSUME Admission, UNCHANGED <<pc, job, goal, lock>>
    PROVE  Holding
  BY DEF Admission, Holding

LEMMA GotoHolds ==
    ASSUME FramesOK, Admission, NEW t \in Threads, Engaged(t),
           NEW label, label \notin {"select", "worktree", "move"}, Goto(t, label)
    PROVE  Holding
<1>1. /\ pc'[t] = label
      /\ \A u \in Threads : u # t => pc'[u] = pc[u]
  BY DEF Goto, FramesOK
<1>2. QED
  BY <1>1, WorkersAreThreads DEF Goto, Holding, Admission, Engaged

LEMMA BeginHolds ==
    ASSUME FramesOK, Admission, NEW t \in Threads, Engaged(t), NEW e,
           NEW label, label \notin {"select", "worktree", "move"}, Begin(t, e, label)
    PROVE  Holding
<1>1. /\ pc'[t] = label
      /\ \A u \in Threads : u # t => pc'[u] = pc[u] /\ job'[u] = job[u]
  BY DEF Begin, FramesOK
<1>2. QED
  BY <1>1, WorkersAreThreads DEF Begin, Holding, Admission, Engaged

LEMMA RequestHolds ==
    ASSUME FramesOK, Admission, NEW t \in Threads, Engaged(t), NEW e,
           t \in Workers => e = job[t],
           NEW s, s # "RUNNING", Request(t, e, s)
    PROVE  Holding
<1>1. /\ pc'[t] = "move" /\ goal'[t] = s /\ job'[t] = e
      /\ \A u \in Threads : u # t =>
            pc'[u] = pc[u] /\ job'[u] = job[u] /\ goal'[u] = goal[u]
  BY DEF Request, FramesOK
<1>2. QED
  BY <1>1, WorkersAreThreads DEF Request, Holding, Admission, Engaged

LEMMA ReturnHolds ==
    ASSUME FramesOK, Admission, NEW t \in Threads, Return(t)
    PROVE  Holding
<1>1. Resting(t) \notin {"select", "worktree", "move"}
  BY LabelKinds
<1>2. /\ pc'[t] = Resting(t)
      /\ \A u \in Threads : u # t =>
            pc'[u] = pc[u] /\ job'[u] = job[u] /\ goal'[u] = goal[u]
  BY DEF Return, FramesOK
<1>3. ASSUME NEW w \in Workers, pc'[w] # "idle"
      PROVE  lock' = w
  <2>1. w # t
    BY <1>2, <1>3, WorkersRestIdle
  <2>2. lock = w
    BY <1>2, <1>3, <2>1, WorkersAreThreads DEF Admission
  <2>3. QED
    BY <2>1, <2>2 DEF Return
<1>4. QED
  BY <1>1, <1>2, <1>3, WorkersAreThreads DEF Holding

LEMMA ExitHolds ==
    ASSUME Exit
    PROVE  Holding
<1>1. \A w \in Workers : pc'[w] = "idle"
  BY WorkersAreThreads, WorkersRestIdle DEF Exit
<1>2. \A t \in Threads : pc'[t] # "move"
  BY LabelKinds DEF Exit
<1>3. QED
  BY <1>1, <1>2 DEF Holding

LEMMA UnwindHolds ==
    ASSUME FramesOK, Admission, NEW t \in Threads, Unwind(t)
    PROVE  Holding
  BY ReturnHolds, ExitHolds DEF Unwind

LEMMA ThrowHolds ==
    ASSUME FramesOK, Admission, NEW t \in Threads, Engaged(t), Throw(t)
    PROVE  Holding
  BY GotoHolds, UnwindHolds DEF Throw

LEMMA ContinueHolds ==
    ASSUME FramesOK, Admission, NEW t \in Threads, Engaged(t), Continue(t)
    PROVE  Holding
<1>1. \/ \E l \in {"authorize", "grade", "review"} : Goto(t, l)
      \/ Return(t)
  BY DEF Continue
<1>2. QED
  BY <1>1, GotoHolds, ReturnHolds

-----------------------------------------------------------------------------
\* The steps of run_next() that Holding does not cover.

LEMMA OtherWorkersIdle ==
    ASSUME Admission, NEW w \in Workers, pc[w] # "idle", NEW v \in Workers, v # w
    PROVE  pc[v] = "idle"
  BY DEF Admission

LEMMA UnchangedSettles ==
    ASSUME UNCHANGED <<status, born, clock>>
    PROVE  Settling
  BY DEF Settling

\* The pipeline was free when it was looked at, and stays free while w selects.
LEMMA CheckAdmits ==
    ASSUME TypeOK, Admission, NEW w \in Workers, CheckActive(w)
    PROVE  Admission'
<1> USE DEF TypeOK
<1>1. w \in Threads /\ pc[w] = "check" /\ UNCHANGED <<status, born, clock>>
  BY WorkersAreThreads DEF CheckActive
<1>2. CASE Return(w)
  BY <1>1, <1>2, UnchangedSettles, ReturnHolds, QuietStep
<1>3. CASE Goto(w, "select") /\ \A e \in Experiments : status[e] \notin ActiveStatuses
  <2>1. /\ pc'[w] = "select" /\ job' = job /\ goal' = goal /\ lock' = lock
        /\ \A u \in Threads : u # w => pc'[u] = pc[u]
    BY <1>1, <1>3 DEF Goto, FramesOK
  <2>2. \A v \in Workers : v # w => pc'[v] = "idle"
    BY <1>1, <2>1, OtherWorkersIdle, WorkersAreThreads
  <2>3. lock' = w
    BY <1>1, <2>1 DEF Admission
  <2>4. \A e \in Experiments : status'[e] \notin {"RUNNING", "GRADING"}
    BY <1>1, <1>3 DEF ActiveStatuses
  <2>5. \A e \in Experiments : born'[e] <= clock'
    BY <1>1 DEF Admission
  <2>6. \A t \in Threads : pc'[t] = "move" /\ goal'[t] = "RUNNING" => t \in Workers
    BY <1>1, <2>1 DEF Admission
  <2>7. \A v \in Workers : ~Starting(v)'
    BY <2>1, <2>2 DEF Starting
  <2>8. QED
    BY <2>1, <2>2, <2>3, <2>4, <2>5, <2>6, <2>7 DEF Admission
<1>4. QED
  BY <1>2, <1>3 DEF CheckActive

\* w takes on an experiment that no other queued one was submitted before.
LEMMA SelectAdmits ==
    ASSUME TypeOK, Admission, NEW w \in Workers, SelectQueued(w)
    PROVE  Admission'
<1> USE DEF TypeOK
<1>1. w \in Threads /\ pc[w] = "select" /\ UNCHANGED <<status, born, clock>>
  BY WorkersAreThreads DEF SelectQueued
<1>2. CASE Return(w)
  BY <1>1, <1>2, UnchangedSettles, ReturnHolds, QuietStep
<1>3. ASSUME NEW e \in Queued, \A f \in Queued : born[e] <= born[f],
             Begin(w, e, "worktree")
      PROVE  Admission'
  <2>1. /\ pc'[w] = "worktree" /\ job'[w] = e /\ goal' = goal /\ lock' = lock
        /\ \A u \in Threads : u # w => pc'[u] = pc[u] /\ job'[u] = job[u]
    BY <1>1, <1>3 DEF Begin, FramesOK
  <2>2. \A v \in Workers : v # w => pc'[v] = "idle"
    BY <1>1, <2>1, OtherWorkersIdle, WorkersAreThreads
  <2>3. lock' = w
    BY <1>1, <2>1 DEF Admission
  <2>4. \A f \in Experiments : status'[f] \notin {"RUNNING", "GRADING"}
    BY <1>1 DEF Admission
  <2>5. \A f \in Experiments : born'[f] <= clock'
    BY <1>1 DEF Admission
  <2>6. \A t \in Threads : pc'[t] = "move" /\ goal'[t] = "RUNNING" => t \in Workers
    BY <1>1, <2>1 DEF Admission
  <2>7. status'[e] # "ABSENT" /\ \A f \in Experiments :
            status'[f] = "QUEUED" => born'[e] <= born'[f]
    BY <1>1, <1>3 DEF Queued
  <2>8. \A v \in Workers : v # w => ~Starting(v)' /\ pc'[v] # "select"
    BY <2>2 DEF Starting
  <2>9. QED
    BY <2>1, <2>2, <2>3, <2>4, <2>5, <2>6, <2>7, <2>8 DEF Admission
<1>4. QED
  BY <1>2, <1>3 DEF SelectQueued

\* The request to start keeps what the selection established.
LEMMA CreateAdmits ==
    ASSUME TypeOK, Admission, NEW w \in Workers, CreateWorktree(w)
    PROVE  Admission'
<1> USE DEF TypeOK
<1>1. w \in Threads /\ pc[w] = "worktree" /\ UNCHANGED <<status, born, clock>>
  BY WorkersAreThreads DEF CreateWorktree
<1>2. /\ pc'[w] = "move" /\ goal'[w] = "RUNNING" /\ job'[w] = job[w] /\ lock' = lock
      /\ \A u \in Threads : u # w =>
            pc'[u] = pc[u] /\ job'[u] = job[u] /\ goal'[u] = goal[u]
  BY <1>1 DEF CreateWorktree, Request, FramesOK
<1>3. \A v \in Workers : v # w => pc'[v] = "idle"
  BY <1>1, <1>2, OtherWorkersIdle, WorkersAreThreads
<1>4. \A t \in Threads : pc'[t] = "move" /\ goal'[t] = "RUNNING" => t \in Workers
  BY <1>1, <1>2 DEF Admission
<1>5. Starting(w)
  BY <1>1 DEF Starting
<1>6. \A f \in Experiments : status'[f] \notin {"RUNNING", "GRADING"}
  BY <1>1, <1>5 DEF Admission
<1>7. status'[job'[w]] # "ABSENT" /\ \A f \in Experiments :
          status'[f] = "QUEUED" => born'[job'[w]] <= born'[f]
  BY <1>1, <1>2, <1>5 DEF Admission
<1>8. \A v \in Workers : v # w => ~Starting(v)' /\ pc'[v] # "select"
  BY <1>3 DEF Starting
<1>9. lock' = w
  BY <1>1, <1>2 DEF Admission
<1>10. \A f \in Experiments : born'[f] <= clock'
  BY <1>1 DEF Admission
<1>11. QED
  BY <1>3, <1>4, <1>6, <1>7, <1>8, <1>9, <1>10, <1>2 DEF Admission

\* Once w starts its experiment, no worker is about to start one.
LEMMA StartAdmits ==
    ASSUME TypeOK, Admission, NEW w \in Workers, pc[w] = "move", goal[w] = "RUNNING",
           Goto(w, "authorize"), UNCHANGED <<born, clock>>
    PROVE  Admission'
<1> USE DEF TypeOK
<1>1. w \in Threads
  BY WorkersAreThreads
<1>2. /\ pc'[w] = "authorize" /\ job' = job /\ goal' = goal /\ lock' = lock
      /\ \A u \in Threads : u # w => pc'[u] = pc[u]
  BY <1>1 DEF Goto, FramesOK
<1>3. \A v \in Workers : v # w => pc'[v] = "idle"
  BY <1>1, <1>2, OtherWorkersIdle, WorkersAreThreads
<1>4. \A v \in Workers : ~Starting(v)' /\ pc'[v] # "select"
  BY <1>2, <1>3 DEF Starting
<1>5. lock' = w
  BY <1>2 DEF Admission
<1>6. \A t \in Threads : pc'[t] = "move" /\ goal'[t] = "RUNNING" => t \in Workers
  BY <1>2 DEF Admission
<1>7. \A f \in Experiments : born'[f] <= clock'
  BY DEF Admission
<1>8. QED
  BY <1>3, <1>4, <1>5, <1>6, <1>7 DEF Admission

-----------------------------------------------------------------------------
\* Every step preserves Admission and is a step of the lifecycle or none.

LifecycleStep == [Promise!Next]_<<status, born, clock>>

LEMMA SameTable ==
    Promise!Statuses = Statuses /\ Promise!AllowedTransitions = AllowedTransitions
  BY DEF Statuses, Promise!Statuses, AllowedTransitions, Promise!AllowedTransitions

LEMMA QuietAdmits ==
    ASSUME TypeOK, Admission, Holding, UNCHANGED <<status, born, clock>>
    PROVE  Admission' /\ LifecycleStep
  BY QuietStep, UnchangedSettles DEF TypeOK, LifecycleStep

\* A transition other than a start, by whatever thread and in whatever state.
LEMMA AdvanceAdmits ==
    ASSUME TypeOK, Admission, Holding, NEW e \in Experiments, NEW s \in Targets,
           s # "RUNNING", s \in AllowedTransitions[status[e]],
           status' = [status EXCEPT ![e] = s], UNCHANGED <<born, clock>>
    PROVE  Admission' /\ LifecycleStep
<1>1. status[e] \in Statuses \cup {"ABSENT"}
  BY DEF TypeOK, RowsOK
<1>2. /\ s = "GRADING" => status[e] = "RUNNING"
      /\ s \notin {"QUEUED", "ABSENT"}
  BY <1>1 DEF Targets, Statuses, AllowedTransitions
<1>3. /\ status'[e] = s
      /\ \A f \in Experiments : f # e => status'[f] = status[f]
  BY DEF TypeOK, RowsOK
<1>4. Settling
  BY <1>2, <1>3 DEF Settling
<1>5. Promise!Advance(e, s)
  BY SameTable DEF Promise!Advance
<1>6. Promise!Next
  BY <1>5, SameTable DEF Promise!Next, Targets
<1>7. QED
  BY <1>4, <1>6, QuietStep DEF TypeOK, LifecycleStep

LEMMA MoveAdmits ==
    ASSUME TypeOK, Admission, NEW t \in Threads, Move(t)
    PROVE  Admission' /\ LifecycleStep
<1> USE DEF TypeOK
<1>1. /\ pc[t] = "move" /\ job[t] \in Experiments /\ goal[t] \in Targets
      /\ Engaged(t) /\ UNCHANGED <<born, clock>>
  BY BusyFacts DEF Move, FramesOK, Engaged
<1>2. CASE UNCHANGED status /\ (Continue(t) \/ Throw(t))
  BY <1>1, <1>2, ContinueHolds, ThrowHolds, QuietAdmits
<1>3. CASE /\ goal[t] \in AllowedTransitions[status[job[t]]]
           /\ status' = [status EXCEPT ![job[t]] = goal[t]]
           /\ Continue(t)
  <2>1. CASE goal[t] # "RUNNING"
    BY <1>1, <1>3, <2>1, ContinueHolds, AdvanceAdmits
  <2>2. CASE goal[t] = "RUNNING"
    <3>1. t \in Workers /\ Starting(t)
      BY <1>1, <2>2 DEF Admission, Starting
    <3>2. Goto(t, "authorize")
      BY <1>3, <2>2 DEF Continue
    <3>3. Admission'
      BY <1>1, <2>2, <3>1, <3>2, StartAdmits
    <3>4. Promise!MayStart(job[t])
      BY <3>1 DEF Admission, Promise!MayStart, Promise!InPipeline
    <3>5. Promise!Advance(job[t], goal[t])
      BY <1>1, <1>3, <3>4, SameTable DEF Promise!Advance
    <3>6. Promise!Next
      BY <1>1, <3>5, SameTable DEF Promise!Next, Targets
    <3>7. QED
      BY <3>3, <3>6 DEF LifecycleStep
  <2>3. QED
    BY <2>1, <2>2
<1>4. QED
  BY <1>2, <1>3 DEF Move

LEMMA WorkerStepAdmits ==
    ASSUME TypeOK, Admission, NEW w \in Workers, WorkerStep(w) \/ RunFails(w)
    PROVE  Admission' /\ LifecycleStep
<1> USE DEF TypeOK
<1>1. w \in Threads
  BY WorkersAreThreads
<1>2. CASE RunNext(w)
  <2>1. /\ pc'[w] = "check" /\ lock' = w /\ job' = job /\ goal' = goal
        /\ \A u \in Threads : u # w => pc'[u] = pc[u]
    BY <1>1, <1>2 DEF RunNext, FramesOK
  <2>2. \A v \in Workers : v # w => pc'[v] = "idle"
    BY <1>2, <2>1, WorkersAreThreads, NamesOfNothing DEF RunNext, Admission
  <2>3. Holding
    BY <2>1, <2>2 DEF Holding
  <2>4. QED
    BY <1>2, <2>3, QuietAdmits DEF RunNext
<1>3. CASE CheckActive(w)
  BY <1>3, CheckAdmits DEF CheckActive, LifecycleStep
<1>4. CASE SelectQueued(w)
  BY <1>4, SelectAdmits DEF SelectQueued, LifecycleStep
<1>5. CASE CreateWorktree(w)
  BY <1>5, CreateAdmits DEF CreateWorktree, LifecycleStep
<1>6. CASE /\ pc[w] # "idle" /\ UNCHANGED <<status, born, clock>>
           /\ \E l : Goto(w, l) /\ l \notin {"select", "worktree", "move"}
  BY <1>1, <1>6, GotoHolds, QuietAdmits DEF Engaged
<1>7. CASE \/ Authorize(w) \/ Spawn(w) \/ Record(w) \/ Supervise(w) \/ Reap(w)
           \/ OpenReceipt(w) \/ FlushReceipt(w) \/ Finish(w) \/ Seal(w) \/ Rescue(w)
  BY <1>6, <1>7
     DEF Authorize, Spawn, Record, Supervise, Reap, OpenReceipt, FlushReceipt,
         Finish, Seal, Rescue
<1>8. CASE RunFails(w)
  <2>1. pc[w] # "idle"
    BY <1>8 DEF RunFails, WorkerLabels
  <2>2. QED
    BY <1>6, <1>8, <2>1 DEF RunFails
<1>9. CASE Decide(w)
  <2>1. \E s : s # "RUNNING" /\ Request(w, job[w], s)
    BY <1>9 DEF Decide
  <2>2. QED
    BY <1>1, <1>9, <2>1, RequestHolds, QuietAdmits DEF Decide, Engaged
<1>10. CASE Inspect(w)
  BY <1>1, <1>6, <1>10, ReturnHolds, QuietAdmits DEF Inspect
<1>11. CASE Bury(w)
  <2>1. Holding /\ job[w] \in Experiments /\ "FAILED" \in Targets
    BY <1>1, <1>11, ReturnHolds, BusyFacts
       DEF Bury, FramesOK, WorkerLabels, Targets, Statuses
  <2>2. CASE "FAILED" \in AllowedTransitions[status[job[w]]]
    <3>1. status' = [status EXCEPT ![job[w]] = "FAILED"]
      BY <1>11, <2>1, <2>2 DEF Bury, RowsOK
    <3>2. QED
      BY <1>11, <2>1, <2>2, <3>1, AdvanceAdmits DEF Bury
  <2>3. CASE "FAILED" \notin AllowedTransitions[status[job[w]]]
    <3>1. status' = status
      BY <1>11, <2>1, <2>3 DEF Bury, RowsOK
    <3>2. QED
      BY <1>11, <2>1, <3>1, QuietAdmits DEF Bury
  <2>4. QED
    BY <2>2, <2>3
<1>12. QED
  BY <1>2, <1>3, <1>4, <1>5, <1>7, <1>8, <1>9, <1>10, <1>11 DEF WorkerStep

LEMMA SharedStepAdmits ==
    ASSUME TypeOK, Admission, NEW t \in Threads, SharedStep(t) \/ Fault(t)
    PROVE  Admission' /\ LifecycleStep
<1> USE DEF TypeOK
<1>1. CASE Move(t)
  BY <1>1, MoveAdmits
<1>2. CASE /\ pc[t] # "idle" /\ UNCHANGED <<status, born, clock>>
           /\ \/ \E l : Goto(t, l) /\ l \notin {"select", "worktree", "move"}
              \/ \E s : s # "RUNNING" /\ Request(t, job[t], s)
              \/ Return(t) \/ Unwind(t) \/ Throw(t)
  BY <1>2, GotoHolds, RequestHolds, ReturnHolds, UnwindHolds, ThrowHolds, QuietAdmits
     DEF Engaged
<1>3. CASE Adopt(t)
  <2>1. \E s : s # "RUNNING" /\ Request(t, job[t], s)
    BY <1>3 DEF Adopt
  <2>2. QED
    BY <1>2, <1>3, <2>1 DEF Adopt
<1>4. CASE Grade(t) \/ OpenReview(t) \/ Verdict(t)
  BY <1>2, <1>4 DEF Grade, OpenReview, Verdict
<1>5. CASE Accept(t)
  <2>1. CASE UNCHANGED status /\ Throw(t)
    BY <1>2, <1>5, <2>1 DEF Accept
  <2>2. CASE /\ status[job[t]] = "REVIEW_PENDING"
             /\ status' = [status EXCEPT ![job[t]] = "ACCEPTED"]
             /\ Return(t)
    <3>1. job[t] \in Experiments /\ "ACCEPTED" \in Targets
      BY <1>5, BusyFacts DEF Accept, FramesOK, ReviewLabels, Targets, Statuses
    <3>2. "ACCEPTED" \in AllowedTransitions[status[job[t]]]
      BY <2>2 DEF AllowedTransitions, Statuses
    <3>3. QED
      BY <1>5, <2>2, <3>1, <3>2, ReturnHolds, AdvanceAdmits DEF Accept
  <2>3. QED
    BY <1>5, <2>1, <2>2 DEF Accept
<1>6. CASE ReadFails(t) \/ ReviewFails(t)
  BY <1>2, <1>6 DEF ReadFails, ReviewFails
<1>7. CASE Escape(t)
  BY <1>7, UnwindHolds, QuietAdmits DEF Escape
<1>8. QED
  BY <1>1, <1>3, <1>4, <1>5, <1>6, <1>7 DEF SharedStep, Fault

LEMMA SubmitAdmits ==
    ASSUME TypeOK, Admission, NEW e \in Experiments, Submit(e)
    PROVE  Admission' /\ LifecycleStep
<1> USE DEF TypeOK
<1>1. /\ status[e] = "ABSENT" /\ clock \in Nat
      /\ status'[e] = "QUEUED" /\ born'[e] = clock /\ clock' = clock + 1
      /\ \A f \in Experiments : f # e => status'[f] = status[f] /\ born'[f] = born[f]
      /\ \A f \in Experiments : born[f] \in Nat /\ born[f] <= clock
      /\ UNCHANGED <<pc, job, goal, lock>>
  BY DEF Submit, RowsOK, Admission
<1>2. \A f \in Experiments : born'[f] <= clock'
  BY <1>1
<1>3. ASSUME NEW w \in Workers, Starting(w)'
      PROVE  /\ status'[job'[w]] # "ABSENT"
             /\ \A f \in Experiments :
                   status'[f] = "QUEUED" => born'[job'[w]] <= born'[f]
  <2>1. Starting(w) /\ job'[w] = job[w] /\ job[w] \in Experiments
    BY <1>1, <1>3, WorkersAreThreads, BusyFacts DEF Starting, FramesOK, WorkerLabels
  <2>2. job[w] # e
    BY <1>1, <2>1 DEF Admission
  <2>3. QED
    BY <1>1, <2>1, <2>2 DEF Admission
<1>4. ASSUME NEW w \in Workers, pc'[w] = "select" \/ Starting(w)'
      PROVE  \A f \in Experiments : status'[f] \notin {"RUNNING", "GRADING"}
  BY <1>1, <1>4 DEF Admission, Starting
<1>5. /\ \A w \in Workers : pc'[w] # "idle" => lock' = w
      /\ \A t \in Threads : pc'[t] = "move" /\ goal'[t] = "RUNNING" => t \in Workers
  BY <1>1 DEF Admission
<1>6. Admission'
  BY <1>2, <1>3, <1>4, <1>5 DEF Admission
<1>7. Promise!Next
  BY DEF Submit, Promise!Submit, Promise!Next
<1>8. QED
  BY <1>6, <1>7 DEF LifecycleStep

LEMMA ApiStepAdmits ==
    ASSUME TypeOK, Admission, CancelKill \/ \E e \in Experiments : ApiCall(e)
    PROVE  Admission' /\ LifecycleStep
<1> USE DEF TypeOK
<1>1. /\ Api \in Threads /\ Api \notin Workers
      /\ \A r \in Retriers : r \in Threads /\ r \notin Workers
  BY ThreadsAreDistinct DEF Threads
<1>2. ASSUME NEW e \in Experiments, CancelRequest(e)
      PROVE  Admission' /\ LifecycleStep
  BY <1>1, <1>2, StutterHolds, BeginHolds, RequestHolds, QuietAdmits
     DEF CancelRequest, Engaged
<1>3. ASSUME NEW e \in Experiments, NEW r \in Retriers, RetryRequest(r, e)
      PROVE  Admission' /\ LifecycleStep
  BY <1>1, <1>3, RequestHolds, QuietAdmits DEF RetryRequest, Engaged
<1>4. CASE CancelKill
  BY <1>1, <1>4, ReturnHolds, QuietAdmits DEF CancelKill
<1>5. QED
  BY <1>2, <1>3, <1>4, SubmitAdmits DEF ApiCall

LEMMA RecoveryAdmits ==
    ASSUME TypeOK, Admission,
           \/ Startup \/ Crash
           \/ \E e \in Experiments : Watch(e) \/ ProcExit(e)
    PROVE  Admission' /\ LifecycleStep
<1> USE DEF TypeOK
<1>1. /\ Main \in Threads /\ Main \notin Workers
      /\ \A e \in Experiments : e \in Threads /\ e \notin Workers
  BY ThreadsAreDistinct DEF Threads
<1>2. CASE Boot \/ Serve
  BY <1>1, <1>2, GotoHolds, QuietAdmits DEF Boot, Serve, Engaged
<1>3. ASSUME NEW e \in Experiments, Recover(e)
      PROVE  Admission' /\ LifecycleStep
  BY <1>1, <1>3, BeginHolds, RequestHolds, QuietAdmits
     DEF Recover, RecoverRunning, TakeReceipt, Engaged
<1>4. ASSUME NEW e \in Experiments, Watch(e)
      PROVE  Admission' /\ LifecycleStep
  BY <1>1, <1>4, BeginHolds, RequestHolds, ReturnHolds, QuietAdmits
     DEF Watch, TakeReceipt, Engaged
<1>5. ASSUME NEW e \in Experiments, ProcExit(e)
      PROVE  Admission' /\ LifecycleStep
  BY <1>5, StutterHolds, QuietAdmits DEF ProcExit
<1>6. CASE Crash
  BY <1>6, ExitHolds, QuietAdmits DEF Crash
<1>7. QED
  BY <1>2, <1>3, <1>4, <1>5, <1>6 DEF Startup

-----------------------------------------------------------------------------
LEMMA InitAdmits == Init => Admission /\ Promise!Init
<1> SUFFICES ASSUME Init
             PROVE  Admission /\ Promise!Init
  OBVIOUS
<1>1. \A w \in Workers : pc[w] = "idle"
  BY WorkersAreThreads, WorkersRestIdle DEF Init
<1>2. \A t \in Threads : pc[t] # "move"
  BY LabelKinds DEF Init
<1>3. \A e \in Experiments : born[e] <= clock
  BY DEF Init
<1>4. QED
  BY <1>1, <1>2, <1>3 DEF Init, Admission, Starting, Promise!Init

LEMMA NextAdmits == TypeOK /\ Admission /\ [Next]_vars => Admission' /\ LifecycleStep
<1> SUFFICES ASSUME TypeOK, Admission, [Next]_vars
             PROVE  Admission' /\ LifecycleStep
  OBVIOUS
<1>1. CASE UNCHANGED vars
  BY <1>1, StutterHolds, QuietAdmits DEF vars
<1>2. CASE Next
  BY <1>2, WorkerStepAdmits, SharedStepAdmits, ApiStepAdmits, RecoveryAdmits DEF Next
<1>3. QED
  BY <1>1, <1>2

\* What run_next() has read still holds when it acts on it, with any number of
\* callers of run_next(), of retries, of submissions and of crashes.
THEOREM AdmissionInvariant == Spec => []Admission
<1>1. Init => Admission
  BY InitAdmits
<1>2. TypeOK /\ Admission /\ [Next]_vars => Admission'
  BY NextAdmits
<1>3. QED
  BY <1>1, <1>2, TypeCorrect, PTL DEF Spec

\* The controller implements the lifecycle: no status skips the table, and the
\* queue is left in order of submission into a free pipeline.
THEOREM ControllerImplementsLifecycle == Spec => ImplementsLifecycle
<1>1. Init => Promise!Init
  BY InitAdmits
<1>2. TypeOK /\ Admission /\ [Next]_vars => [Promise!Next]_(Promise!vars)
  BY NextAdmits DEF LifecycleStep, Promise!vars
<1>3. QED
  BY <1>1, <1>2, TypeCorrect, AdmissionInvariant, PTL
     DEF Spec, ImplementsLifecycle, Promise!Spec

\* One FIFO formal pipeline: at most one experiment is RUNNING or GRADING,
\* inherited from the lifecycle.
THEOREM PipelineIsSingle == Spec => []SinglePipeline
BY ControllerImplementsLifecycle, Promise!LifecycleIsSingle, PTL
   DEF ImplementsLifecycle, SinglePipeline
=============================================================================
