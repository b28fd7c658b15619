----------------------------- MODULE Controller -----------------------------
(***************************************************************************)
(* VeriLabService: the controller process of service.py with the command   *)
(* runner of runner.py. Its threads are                                    *)
(*   - Main, which runs start(): recover() before the API is served;       *)
(*   - the Workers, callers of run_next() (the service has one);           *)
(*   - one recovery monitor per experiment, named by the experiment;       *)
(*   - the Retriers, API calls of retry_review() in worker threads;        *)
(*   - Api, the event loop, where submit() and cancel() run to the end.    *)
(* They share the database, the run directory and the formal processes,    *)
(* which all outlive a crash of the controller.                            *)
(*                                                                         *)
(* A step is one transaction, one read whose result is used later, one     *)
(* file operation or one signal. pc[t] names the step thread t is about to *)
(* take, job[t] its experiment, goal[t] the target of its last call of     *)
(* _transition. The grader and the reviewer are their verdicts; content    *)
(* and integrity of the evidence are left to the modules about it.         *)
(***************************************************************************)
EXTENDS Statuses, Naturals, FiniteSets

CONSTANTS
    Experiments,   \* (policy, spec) pairs: a second submission is deduplicated
    Workers, Retriers, Main, Api,
    NoThread, NoExp, NoGoal,
    HasDeadline,   \* whether policy.run_timeout_seconds is set
    FailAt,        \* labels where an error that the code handles may happen
    UnreadableAt,  \* labels where a policy snapshot or a commit may be unreadable
    EscapeAt,      \* labels where an error that nothing handles may happen
    MaxCrashes,    \* bound on crashes of the controller
    MaxRetries     \* bound on calls of retry_review()

Threads == Workers \cup Retriers \cup {Main, Api} \cup Experiments

ASSUME ThreadsAreDistinct ==
    /\ Workers \cap Retriers = {}
    /\ (Workers \cup Retriers) \cap Experiments = {}
    /\ Main \notin Workers \cup Retriers \cup Experiments
    /\ Api \notin Workers \cup Retriers \cup Experiments
    /\ Main # Api

ASSUME NamesOfNothing ==
    NoThread \notin Workers /\ NoExp \notin Experiments /\ NoGoal \notin Statuses

ASSUME DeadlineIsBoolean == HasDeadline \in BOOLEAN

\* Main makes no call any more once the service runs.
ASSUME ServingIsNoCall == "serving" \notin EscapeAt

VARIABLES
    \* the database
    status,      \* experiments.status
    born, clock, \* experiments.created_at, and the next one
    runStatus,   \* runs.status
    pid,         \* whether runs.pid is recorded
    cancel,      \* runs.cancel_requested: "no", or the status it was accepted in
    evidence,    \* whether execution_log and exit_receipt are sealed
    \* the operating system
    proc,        \* the formal process: "none", "alive", "signalled", "exit0", "exit1"
    receipt,     \* exit-receipt.json: "none", "torn" or "whole"
    \* the controller process
    pc, job, goal,
    lock,        \* _pipeline_lock
    todo, seen,  \* recover(): rows left, and their cancel_requested when selected
    \* bounds
    crashes, retries

rowVars == <<runStatus, pid, cancel, evidence>>
fileVars == <<proc, receipt>>
recoverVars == <<todo, seen>>
bounds == <<crashes, retries>>
vars == <<status, born, clock, rowVars, fileVars, pc, job, goal, lock,
          recoverVars, bounds>>

\* The statuses _transition is ever called with: submit() writes QUEUED itself.
Targets == Statuses \ {"DRAFT", "QUEUED"}

\* Where a thread waits for its next call.
Resting(t) ==
    CASE t = Main -> "recover"
      [] t \in Experiments -> "off"
      [] OTHER -> "idle"

RestLabels == {"down", "recover", "serving", "idle", "off"}
ReviewLabels == {"review", "ask", "accept"}
WorkerLabels ==
    {"worktree", "authorize", "spawn", "record", "supervise", "reap",
     "receipt", "flush", "finish", "seal", "decide", "rescue", "inspect", "bury"}
BusyLabels ==
    WorkerLabels \cup ReviewLabels \cup {"move", "grade", "adopt", "watch", "kill"}
Labels == RestLabels \cup BusyLabels \cup {"check", "select"}

Init ==
    /\ status = [e \in Experiments |-> "ABSENT"]
    /\ born = [e \in Experiments |-> 0]
    /\ clock = 0
    /\ runStatus = [e \in Experiments |-> "QUEUED"]
    /\ pid = [e \in Experiments |-> FALSE]
    /\ cancel = [e \in Experiments |-> "no"]
    /\ evidence = [e \in Experiments |-> FALSE]
    /\ proc = [e \in Experiments |-> "none"]
    /\ receipt = [e \in Experiments |-> "none"]
    /\ pc = [t \in Threads |-> IF t = Main THEN "down" ELSE Resting(t)]
    /\ job = [t \in Threads |-> NoExp]
    /\ goal = [t \in Threads |-> NoGoal]
    /\ lock = NoThread
    /\ todo = {}
    /\ seen = [e \in Experiments |-> FALSE]
    /\ crashes = 0
    /\ retries = 0

-----------------------------------------------------------------------------
\* Control flow of a thread

Goto(t, label) ==
    /\ pc' = [pc EXCEPT ![t] = label]
    /\ UNCHANGED <<job, goal, lock>>

Begin(t, e, label) ==
    /\ pc' = [pc EXCEPT ![t] = label]
    /\ job' = [job EXCEPT ![t] = e]
    /\ UNCHANGED <<goal, lock>>

\* A call of _transition with target s; Move is its transaction.
Request(t, e, s) ==
    /\ pc' = [pc EXCEPT ![t] = "move"]
    /\ job' = [job EXCEPT ![t] = e]
    /\ goal' = [goal EXCEPT ![t] = s]
    /\ UNCHANGED lock

\* Mutant: the call's experiment survives it.
ReturnKeepingJob(t) ==
    /\ pc' = [pc EXCEPT ![t] = Resting(t)]
    /\ goal' = [goal EXCEPT ![t] = NoGoal]
    /\ lock' = IF lock = t THEN NoThread ELSE lock
    /\ UNCHANGED job

\* The thread's outermost call ends; run_next's finally releases the lock.
Return(t) ==
    /\ pc' = [pc EXCEPT ![t] = Resting(t)]
    /\ job' = [job EXCEPT ![t] = NoExp]
    /\ goal' = [goal EXCEPT ![t] = NoGoal]
    /\ lock' = IF lock = t THEN NoThread ELSE lock

\* The controller process ends and takes every thread with it.
Exit ==
    /\ pc' = [t \in Threads |-> IF t = Main THEN "down" ELSE Resting(t)]
    /\ job' = [t \in Threads |-> NoExp]
    /\ goal' = [t \in Threads |-> NoGoal]
    /\ lock' = NoThread

\* An exception no handler on the thread's stack catches. The worker loop logs
\* it and carries on, the API answers with an error, a monitor just ends;
\* raised by recover(), it fails start() and the process exits.
Unwind(t) == IF t = Main THEN Exit ELSE Return(t)

\* A RuntimeError (InvalidState is one): _run_experiment has a handler for it.
Throw(t) == IF t \in Workers THEN Goto(t, "rescue") ELSE Unwind(t)

\* What the caller of _transition does once it has succeeded.
Continue(t) ==
    CASE goal[t] = "RUNNING" -> Goto(t, "authorize")
      [] goal[t] = "GRADING" -> Goto(t, "grade")
      [] goal[t] = "REVIEW_PENDING" -> Goto(t, "review")
      [] OTHER -> Return(t)

\* _transition: silently nothing when the status is already the target,
\* InvalidState when the table does not allow the move.
Move(t) ==
    LET e == job[t] IN
    /\ pc[t] = "move"
    /\ \/ /\ status[e] = goal[t]
          /\ UNCHANGED status
          /\ Continue(t)
       \/ /\ goal[t] \in AllowedTransitions[status[e]]
          /\ status' = [status EXCEPT ![e] = goal[t]]
          /\ Continue(t)
       \/ /\ goal[t] \notin AllowedTransitions[status[e]] \cup {status[e]}
          /\ UNCHANGED status
          /\ Throw(t)
    /\ UNCHANGED <<born, clock, rowVars, fileVars, recoverVars, bounds>>

-----------------------------------------------------------------------------
\* The API

Serving == pc[Main] = "serving"

Submit(e) ==
    /\ Serving /\ pc[Api] = "idle"
    /\ status[e] = "ABSENT"
    /\ status' = [status EXCEPT ![e] = "QUEUED"]
    /\ born' = [born EXCEPT ![e] = clock]
    /\ clock' = clock + 1
    /\ UNCHANGED <<rowVars, fileVars, pc, job, goal, lock, recoverVars, bounds>>

\* cancel(): the flag is set in a transaction of its own; the status and the pid
\* it read decide what is done after the commit.
CancelRequest(e) ==
    /\ Serving /\ pc[Api] = "idle"
    /\ status[e] \in CancellableStatuses
    /\ cancel' = [cancel EXCEPT ![e] =
            IF @ # "no" THEN @
            ELSE IF status[e] = "QUEUED" THEN "queued" ELSE "running"]
    /\ IF status[e] = "QUEUED" THEN Request(Api, e, "CANCELLED")
       ELSE IF pid[e] THEN Begin(Api, e, "kill")
       ELSE UNCHANGED <<pc, job, goal, lock>>
    /\ UNCHANGED <<status, born, clock, runStatus, pid, evidence, fileVars,
                   recoverVars, bounds>>

\* same_process(): the recorded process still exists.
Running(e) == proc[e] \in {"alive", "signalled"}

\* SIGTERM to the process group, nothing when it is gone.
Terminated(p) == IF p = "alive" THEN "signalled" ELSE p

CancelKill ==
    /\ pc[Api] = "kill"
    /\ proc' = [proc EXCEPT ![job[Api]] = Terminated(@)]
    /\ Return(Api)
    /\ UNCHANGED <<status, born, clock, rowVars, receipt, recoverVars, bounds>>

\* retry_review(): the status is read, then moved by a separate transaction.
RetryRequest(r, e) ==
    /\ Serving /\ pc[r] = "idle"
    /\ status[e] \in RetryableStatuses
    /\ retries < MaxRetries
    /\ retries' = retries + 1
    /\ Request(r, e, "REVIEW_PENDING")
    /\ UNCHANGED <<status, born, clock, rowVars, fileVars, recoverVars, crashes>>

-----------------------------------------------------------------------------
\* run_next() and _run_experiment()

\* Mutant: no pipeline lock.
RunNextWithoutLock(w) ==
    /\ Serving /\ pc[w] = "idle"
    /\ pc' = [pc EXCEPT ![w] = "check"]
    /\ UNCHANGED <<status, born, clock, rowVars, fileVars, job, goal, lock,
                   recoverVars, bounds>>

\* The lock is tried without blocking: a second caller returns at once.
RunNext(w) ==
    /\ Serving /\ pc[w] = "idle"
    /\ lock = NoThread
    /\ lock' = w
    /\ pc' = [pc EXCEPT ![w] = "check"]
    /\ UNCHANGED <<status, born, clock, rowVars, fileVars, job, goal,
                   recoverVars, bounds>>

\* _has_active_pipeline().
CheckActive(w) ==
    /\ pc[w] = "check"
    /\ IF \E e \in Experiments : status[e] \in ActiveStatuses
       THEN Return(w)
       ELSE Goto(w, "select")
    /\ UNCHANGED <<status, born, clock, rowVars, fileVars, recoverVars, bounds>>

Queued == {e \in Experiments : status[e] = "QUEUED"}

\* Mutant: no ORDER BY created_at.
SelectAnyQueued(w) ==
    /\ pc[w] = "select"
    /\ \/ Queued = {} /\ Return(w)
       \/ \E e \in Queued : Begin(w, e, "worktree")
    /\ UNCHANGED <<status, born, clock, rowVars, fileVars, recoverVars, bounds>>

SelectQueued(w) ==
    /\ pc[w] = "select"
    /\ \/ Queued = {} /\ Return(w)
       \/ \E e \in Queued :
             /\ \A f \in Queued : born[e] <= born[f]
             /\ Begin(w, e, "worktree")
    /\ UNCHANGED <<status, born, clock, rowVars, fileVars, recoverVars, bounds>>

CreateWorktree(w) ==
    /\ pc[w] = "worktree"
    /\ Request(w, job[w], "RUNNING")
    /\ UNCHANGED <<status, born, clock, rowVars, fileVars, recoverVars, bounds>>

Authorize(w) ==
    /\ pc[w] = "authorize"
    /\ runStatus' = [runStatus EXCEPT ![job[w]] = "RUNNING"]
    /\ Goto(w, "spawn")
    /\ UNCHANGED <<status, born, clock, pid, cancel, evidence, fileVars,
                   recoverVars, bounds>>

Spawn(w) ==
    /\ pc[w] = "spawn"
    /\ proc' = [proc EXCEPT ![job[w]] = "alive"]
    /\ Goto(w, "record")
    /\ UNCHANGED <<status, born, clock, rowVars, receipt, recoverVars, bounds>>

\* on_started.
Record(w) ==
    /\ pc[w] = "record"
    /\ pid' = [pid EXCEPT ![job[w]] = TRUE]
    /\ Goto(w, "supervise")
    /\ UNCHANGED <<status, born, clock, runStatus, cancel, evidence, fileVars,
                   recoverVars, bounds>>

\* The supervision loop: poll() sees the end of the process, or the cancel flag
\* or the deadline makes it signal the group and leave the loop.
Supervise(w) ==
    LET e == job[w] IN
    /\ pc[w] = "supervise"
    /\ \/ /\ ~Running(e)
          /\ UNCHANGED proc
          /\ Goto(w, "receipt")
       \/ /\ Running(e)
          /\ cancel[e] # "no" \/ HasDeadline
          /\ proc' = [proc EXCEPT ![e] = Terminated(@)]
          /\ Goto(w, "reap")
    /\ UNCHANGED <<status, born, clock, rowVars, receipt, recoverVars, bounds>>

\* Mutant: no SIGKILL after the wait.
ReapWithoutKill(w) ==
    /\ pc[w] = "reap"
    /\ Goto(w, "receipt")
    /\ UNCHANGED <<status, born, clock, rowVars, fileVars, recoverVars, bounds>>

\* wait(timeout=10), then SIGKILL to a process that ignores SIGTERM.
Reap(w) ==
    LET e == job[w] IN
    /\ pc[w] = "reap"
    /\ proc' = [proc EXCEPT ![e] = IF Running(e) THEN "exit1" ELSE @]
    /\ Goto(w, "receipt")
    /\ UNCHANGED <<status, born, clock, rowVars, receipt, recoverVars, bounds>>

\* write_text(): the file is truncated first and complete only later.
OpenReceipt(w) ==
    /\ pc[w] = "receipt"
    /\ receipt' = [receipt EXCEPT ![job[w]] = "torn"]
    /\ Goto(w, "flush")
    /\ UNCHANGED <<status, born, clock, rowVars, proc, recoverVars, bounds>>

FlushReceipt(w) ==
    /\ pc[w] = "flush"
    /\ receipt' = [receipt EXCEPT ![job[w]] = "whole"]
    /\ Goto(w, "finish")
    /\ UNCHANGED <<status, born, clock, rowVars, proc, recoverVars, bounds>>

\* Mutant: the run is decided before its evidence is sealed.
FinishUnsealed(w) ==
    /\ pc[w] = "finish"
    /\ runStatus' = [runStatus EXCEPT ![job[w]] = "FINISHED"]
    /\ Goto(w, "decide")
    /\ UNCHANGED <<status, born, clock, pid, cancel, evidence, fileVars,
                   recoverVars, bounds>>

Finish(w) ==
    /\ pc[w] = "finish"
    /\ runStatus' = [runStatus EXCEPT ![job[w]] = "FINISHED"]
    /\ Goto(w, "seal")
    /\ UNCHANGED <<status, born, clock, pid, cancel, evidence, fileVars,
                   recoverVars, bounds>>

\* seal_file of run.log and exit-receipt.json, and _insert_artifacts.
Seal(w) ==
    /\ pc[w] = "seal"
    /\ evidence' = [evidence EXCEPT ![job[w]] = TRUE]
    /\ Goto(w, "decide")
    /\ UNCHANGED <<status, born, clock, runStatus, pid, cancel, fileVars,
                   recoverVars, bounds>>

\* Mutant: the exit code is not looked at.
DecideIgnoringExit(w) ==
    LET e == job[w] IN
    /\ pc[w] = "decide"
    /\ Request(w, e, IF cancel[e] # "no" THEN "CANCELLED" ELSE "GRADING")
    /\ UNCHANGED <<status, born, clock, rowVars, fileVars, recoverVars, bounds>>

\* The flag is read here; the transition it leads to comes later.
Decide(w) ==
    LET e == job[w] IN
    /\ pc[w] = "decide"
    /\ Request(w, e, IF cancel[e] # "no" THEN "CANCELLED"
                     ELSE IF proc[e] = "exit0" THEN "GRADING" ELSE "FAILED")
    /\ UNCHANGED <<status, born, clock, rowVars, fileVars, recoverVars, bounds>>

\* An OSError, RepositoryError or ArtifactError inside _run_experiment.
RunFails(w) ==
    /\ pc[w] \in FailAt \cap WorkerLabels
    /\ Goto(w, "rescue")
    /\ UNCHANGED <<status, born, clock, rowVars, fileVars, recoverVars, bounds>>

\* _run_experiment's handler: the run is marked, the status read, and an
\* experiment that was QUEUED or RUNNING at the read is failed.
Rescue(w) ==
    /\ pc[w] = "rescue"
    /\ runStatus' = [runStatus EXCEPT ![job[w]] = "FAILED"]
    /\ Goto(w, "inspect")
    /\ UNCHANGED <<status, born, clock, pid, cancel, evidence, fileVars,
                   recoverVars, bounds>>

\* Mutant: only an experiment that never started is failed.
InspectQueuedOnly(w) ==
    /\ pc[w] = "inspect"
    /\ IF status[job[w]] = "QUEUED" THEN Goto(w, "bury") ELSE Return(w)
    /\ UNCHANGED <<status, born, clock, rowVars, fileVars, recoverVars, bounds>>

Inspect(w) ==
    /\ pc[w] = "inspect"
    /\ IF status[job[w]] \in {"QUEUED", "RUNNING"}
       THEN Goto(w, "bury")
       ELSE Return(w)
    /\ UNCHANGED <<status, born, clock, rowVars, fileVars, recoverVars, bounds>>

\* _transition inside the handler: nothing catches its InvalidState.
Bury(w) ==
    LET e == job[w] IN
    /\ pc[w] = "bury"
    /\ status' = [status EXCEPT ![e] =
            IF "FAILED" \in AllowedTransitions[@] THEN "FAILED" ELSE @]
    /\ Return(w)
    /\ UNCHANGED <<born, clock, rowVars, fileVars, recoverVars, bounds>>

-----------------------------------------------------------------------------
\* _grade(), _review() and _accept(), run by whichever thread got there

Grade(t) ==
    /\ pc[t] = "grade"
    /\ \E s \in {"REVIEW_PENDING", "VERIFICATION_FAILED"} : Request(t, job[t], s)
    /\ UNCHANGED <<status, born, clock, rowVars, fileVars, recoverVars, bounds>>

\* Pre-review verification finds a changed artifact, or the bundle is built and
\* the attempt recorded.
OpenReview(t) ==
    /\ pc[t] = "review"
    /\ Request(t, job[t], "VERIFICATION_FAILED") \/ Goto(t, "ask")
    /\ UNCHANGED <<status, born, clock, rowVars, fileVars, recoverVars, bounds>>

Verdict(t) ==
    /\ pc[t] = "ask"
    /\ \/ \E s \in {"REVIEW_BLOCKED", "NEEDS_HUMAN", "REJECTED"} :
             Request(t, job[t], s)
       \/ Goto(t, "accept")
    /\ UNCHANGED <<status, born, clock, rowVars, fileVars, recoverVars, bounds>>

Accept(t) ==
    LET e == job[t] IN
    /\ pc[t] = "accept"
    /\ \/ /\ status[e] = "REVIEW_PENDING"
          /\ status' = [status EXCEPT ![e] = "ACCEPTED"]
          /\ Return(t)
       \/ /\ status[e] # "REVIEW_PENDING"
          /\ UNCHANGED status
          /\ Throw(t)
    /\ UNCHANGED <<born, clock, rowVars, fileVars, recoverVars, bounds>>

\* A policy snapshot cannot be read, or git fails on the commits of the review: a
\* RuntimeError that _grade's except clause does not list, whether it is raised before
\* the try block or by _review and _accept inside it.
ReadFails(t) ==
    /\ pc[t] \in UnreadableAt \cap {"grade", "review", "accept"}
    /\ Throw(t)
    /\ UNCHANGED <<status, born, clock, rowVars, fileVars, recoverVars, bounds>>

\* _review was called by _grade, inside its try block.
ViaGrade(t) == t \notin Retriers /\ goal[t] = "REVIEW_PENDING"

\* An OSError while files are verified, written or read: _grade's handler swallows it,
\* for the status is no longer GRADING.
ReviewFails(t) ==
    /\ pc[t] \in FailAt \cap {"review", "ask", "accept"}
    /\ IF ViaGrade(t) THEN Return(t) ELSE Unwind(t)
    /\ UNCHANGED <<status, born, clock, rowVars, fileVars, recoverVars, bounds>>

\* An exception outside every except clause: TimeoutExpired from the grader or
\* from nvidia-smi, a locked database, a review attempt number already taken.
Escape(t) ==
    /\ pc[t] \in EscapeAt
    /\ Unwind(t)
    /\ UNCHANGED <<status, born, clock, rowVars, fileVars, recoverVars, bounds>>

-----------------------------------------------------------------------------
\* start(), recover() and the recovery monitors

\* Mutant: interrupted reviews are not resumed.
BootIgnoringReviews ==
    /\ pc[Main] = "down"
    /\ todo' = {e \in Experiments : status[e] \in {"RUNNING", "GRADING"}}
    /\ seen' = [e \in Experiments |-> e \in todo' /\ cancel[e] # "no"]
    /\ Goto(Main, "recover")
    /\ UNCHANGED <<status, born, clock, rowVars, fileVars, bounds>>

\* A new controller process selects the rows it has to recover.
Boot ==
    /\ pc[Main] = "down"
    /\ todo' = {e \in Experiments : status[e] \in ActiveStatuses}
    /\ seen' = [e \in Experiments |-> e \in todo' /\ cancel[e] # "no"]
    /\ Goto(Main, "recover")
    /\ UNCHANGED <<status, born, clock, rowVars, fileVars, bounds>>

\* _recover_receipt parses the file and matches it with the run; its caller falls
\* through when it does not.
ReceiptIsValid(e) == receipt[e] = "whole"

\* Mutant: the run's row is left as it was.
TakeReceiptUnmarked(t, e) ==
    /\ UNCHANGED runStatus
    /\ Begin(t, e, "adopt")

\* _recover_receipt by thread t, up to its commit.
TakeReceipt(t, e) ==
    /\ runStatus' = [runStatus EXCEPT ![e] = "FINISHED"]
    /\ Begin(t, e, "adopt")

RecoverRunning(e) ==
    \/ ReceiptIsValid(e) /\ TakeReceipt(Main, e)
    \/ /\ ~ReceiptIsValid(e) /\ pid[e] /\ Running(e)
       /\ Begin(e, e, "watch")
       /\ UNCHANGED runStatus
    \/ /\ ~ReceiptIsValid(e) /\ ~(pid[e] /\ Running(e))
       /\ Request(Main, e, "ORPHANED")
       /\ UNCHANGED runStatus

\* One iteration of recover()'s loop, rows in order of created_at.
Recover(e) ==
    /\ pc[Main] = "recover"
    /\ e \in todo /\ \A f \in todo : born[e] <= born[f]
    /\ todo' = todo \ {e}
    /\ \/ status[e] = "RUNNING" /\ RecoverRunning(e)
       \/ /\ status[e] = "GRADING"
          /\ Begin(Main, e, "grade")
          /\ UNCHANGED runStatus
       \/ /\ status[e] = "REVIEW_PENDING"
          /\ Begin(Main, e, "review")
          /\ UNCHANGED runStatus
    /\ UNCHANGED <<status, born, clock, pid, cancel, evidence, fileVars, seen, bounds>>

\* recover() returned: the worker thread starts and the API is served.
Serve ==
    /\ pc[Main] = "recover" /\ todo = {}
    /\ Goto(Main, "serving")
    /\ UNCHANGED <<status, born, clock, rowVars, fileVars, recoverVars, bounds>>

\* Mutant: a cancelled run's receipt is graded like any other.
AdoptIgnoringCancel(t) ==
    /\ pc[t] = "adopt"
    /\ Request(t, job[t], IF proc[job[t]] = "exit0" THEN "GRADING" ELSE "FAILED")
    /\ UNCHANGED <<status, born, clock, rowVars, fileVars, recoverVars, bounds>>

\* The end of _recover_receipt, on the row as recover() selected it.
Adopt(t) ==
    LET e == job[t] IN
    /\ pc[t] = "adopt"
    /\ Request(t, e, IF seen[e] THEN "CANCELLED"
                     ELSE IF proc[e] = "exit0" THEN "GRADING" ELSE "FAILED")
    /\ UNCHANGED <<status, born, clock, rowVars, fileVars, recoverVars, bounds>>

\* The monitor finds its process gone.
Watch(m) ==
    /\ pc[m] = "watch"
    /\ ~Running(m)
    /\ IF status[m] # "RUNNING" THEN Return(m) /\ UNCHANGED runStatus
       ELSE IF ReceiptIsValid(m) THEN TakeReceipt(m, m)
       ELSE Request(m, m, "ORPHANED") /\ UNCHANGED runStatus
    /\ UNCHANGED <<status, born, clock, pid, cancel, evidence, fileVars,
                   recoverVars, bounds>>

-----------------------------------------------------------------------------
\* The environment

\* The formal command ends; one told to terminate may still end either way.
ProcExit(e) ==
    /\ Running(e)
    /\ \E code \in {"exit0", "exit1"} : proc' = [proc EXCEPT ![e] = code]
    /\ UNCHANGED <<status, born, clock, rowVars, receipt, pc, job, goal, lock,
                   recoverVars, bounds>>

Crash ==
    /\ pc[Main] # "down"
    /\ crashes < MaxCrashes
    /\ crashes' = crashes + 1
    /\ Exit
    /\ UNCHANGED <<status, born, clock, rowVars, fileVars, recoverVars, retries>>

-----------------------------------------------------------------------------
WorkerStep(w) ==
    \/ RunNext(w) \/ CheckActive(w) \/ SelectQueued(w) \/ CreateWorktree(w)
    \/ Authorize(w) \/ Spawn(w) \/ Record(w) \/ Supervise(w) \/ Reap(w)
    \/ OpenReceipt(w) \/ FlushReceipt(w) \/ Finish(w) \/ Seal(w) \/ Decide(w)
    \/ Rescue(w) \/ Inspect(w) \/ Bury(w)

\* What any thread may be doing.
SharedStep(t) ==
    Move(t) \/ Adopt(t) \/ Grade(t) \/ OpenReview(t) \/ Verdict(t) \/ Accept(t)

Fault(t) == ReadFails(t) \/ ReviewFails(t) \/ Escape(t)

Startup == Boot \/ Serve \/ \E e \in Experiments : Recover(e)

ApiCall(e) == Submit(e) \/ CancelRequest(e) \/ \E r \in Retriers : RetryRequest(r, e)

Next ==
    \/ Startup
    \/ \E e \in Experiments : ApiCall(e) \/ Watch(e) \/ ProcExit(e)
    \/ CancelKill
    \/ \E w \in Workers : WorkerStep(w) \/ RunFails(w)
    \/ \E t \in Threads : SharedStep(t) \/ Fault(t)
    \/ Crash

Spec == Init /\ [][Next]_vars

(***************************************************************************)
(* The interpreter schedules every thread that can run; whoever started    *)
(* the service restarts it; a formal command ends, on its own or because   *)
(* of its policy's timeout. Nobody has to submit, cancel or retry, and no  *)
(* fault has to happen.                                                    *)
(***************************************************************************)
Fairness ==
    /\ WF_vars(Startup)
    /\ WF_vars(CancelKill)
    /\ \A w \in Workers : WF_vars(WorkerStep(w))
    /\ \A t \in Threads : WF_vars(SharedStep(t))
    /\ \A e \in Experiments : WF_vars(Watch(e)) /\ WF_vars(ProcExit(e))

FairSpec == Spec /\ Fairness
-----------------------------------------------------------------------------
RowsOK ==
    /\ status \in [Experiments -> Statuses \cup {"ABSENT"}]
    /\ born \in [Experiments -> Nat] /\ clock \in Nat
    /\ runStatus \in [Experiments -> {"QUEUED", "RUNNING", "FINISHED", "FAILED"}]
    /\ pid \in [Experiments -> BOOLEAN]
    /\ cancel \in [Experiments -> {"no", "queued", "running"}]
    /\ evidence \in [Experiments -> BOOLEAN]

FilesOK ==
    /\ proc \in [Experiments -> {"none", "alive", "signalled", "exit0", "exit1"}]
    /\ receipt \in [Experiments -> {"none", "torn", "whole"}]

\* A thread has an experiment exactly between taking it on and dropping it, and
\* never calls _transition without a target.
FramesOK ==
    /\ pc \in [Threads -> Labels]
    /\ job \in [Threads -> Experiments \cup {NoExp}]
    /\ goal \in [Threads -> Targets \cup {NoGoal}]
    /\ lock \in Workers \cup {NoThread}
    /\ \A t \in Threads :
          /\ pc[t] \in BusyLabels <=> job[t] \in Experiments
          /\ pc[t] = "move" => goal[t] \in Targets

RecoveryOK ==
    /\ todo \subseteq Experiments
    /\ seen \in [Experiments -> BOOLEAN]
    /\ crashes \in Nat /\ retries \in Nat

\* The type invariant.
TypeOK == RowsOK /\ FilesOK /\ FramesOK /\ RecoveryOK

\* The rows of the controller are those of the lifecycle; everything else it keeps
\* is hidden.
Promise == INSTANCE Lifecycle WITH
    Experiments <- Experiments, status <- status, born <- born, clock <- clock

\* README.md, "One FIFO formal pipeline": at most one experiment occupies the
\* part of the pipeline that executes the formal command and grades it, whoever
\* calls run_next() and however often the controller is restarted.
SinglePipeline == Promise!SinglePipeline

\* w has chosen its experiment and not started it yet.
Starting(w) ==
    \/ pc[w] = "worktree"
    \/ pc[w] = "move" /\ goal[w] = "RUNNING"

\* Why the pipeline is single and first in, first out although run_next() checks,
\* selects and starts in separate transactions: between the check and the start
\* the lock keeps every other starter out, and nothing but a start can take the
\* pipeline or get ahead in the queue.
Admission ==
    /\ \A e \in Experiments : born[e] <= clock
    /\ \A t \in Threads : pc[t] = "move" /\ goal[t] = "RUNNING" => t \in Workers
    /\ \A w \in Workers :
          /\ pc[w] # "idle" => lock = w
          /\ pc[w] = "select" \/ Starting(w) =>
                \A f \in Experiments : status[f] \notin {"RUNNING", "GRADING"}
          /\ Starting(w) =>
                /\ status[job[w]] # "ABSENT"
                /\ \A f \in Experiments :
                      status[f] = "QUEUED" => born[job[w]] <= born[f]

\* Every step of the controller is a step of the lifecycle or none at all: the
\* queue is left in order of submission and no status skips the table.
ImplementsLifecycle == Promise!Spec

\* _run_experiment and _recover_receipt: nothing reaches the grader, let alone
\* the leaderboard, unless its command ran to the end, exited 0 and left a whole
\* receipt, across crashes, recovery and every handled failure.
GradedRunsExitedCleanly ==
    \A e \in Experiments :
        status[e] \in GradedStatuses => proc[e] = "exit0" /\ receipt[e] = "whole"

\* cancel() of a queued experiment: once acknowledged, its result is never
\* graded, although the worker may start it between cancel()'s two transactions
\* and the controller may crash between them.
QueuedCancelNeverGraded ==
    \A e \in Experiments : cancel[e] = "queued" => status[e] \notin GradedStatuses

\* README.zh-CN.md, one formal run ticket per experiment: the formal command is
\* never started a second time, by any caller of run_next() or after a restart.
RunTicketUsedOnce ==
    [][\A e \in Experiments :
          proc'[e] = "alive" => proc[e] \in {"none", "alive"}]_vars

\* README.md, "no concurrent experiment runner": two formal commands are never
\* alive at once.
OneLiveProcess ==
    \A e, f \in Experiments : Running(e) /\ Running(f) => e = f

\* A command that may outlive its place in the pipeline: recovery has never seen its
\* pid, an error that is handled took its worker out of the supervision loop, or a
\* cancel overtook its start and then the worker, or the controller, died.
Stray(e) ==
    \/ status[e] = "ORPHANED" /\ ~pid[e]
    \/ runStatus[e] = "FAILED"
    \/ status[e] = "CANCELLED" /\ runStatus[e] = "RUNNING"

\* RunExecutor.execute and recover(): two formal commands are alive at once only if
\* one of them has been lost in one of these ways. In every other way out of the
\* pipeline its command is dead first.
OverlapHasCause ==
    \A e, f \in Experiments :
        Running(e) /\ Running(f) /\ e # f => Stray(e) \/ Stray(f)

\* README.md, "supervised process -> sealed artifacts -> trusted grader": the log
\* and the exit receipt of a run are sealed before it is graded.
EvidenceSealed ==
    \A e \in Experiments : status[e] \in GradedStatuses => evidence[e]

\* The same as long as no controller has died: whatever errors are raised and handled
\* on the way, only a recovered receipt leads past the sealing.
EvidenceSealedUnlessRecovered == crashes = 0 => EvidenceSealed

\* What the run's row says of a graded experiment is that its run is FINISHED,
\* whichever of the worker, recover() and a monitor read the receipt.
RunRowAgrees ==
    \A e \in Experiments :
        status[e] \in GradedStatuses => runStatus[e] = "FINISHED"

\* recover() leaves nothing behind and no review is abandoned: while the service
\* runs, an experiment that blocks the pipeline is in the hands of a thread.
Attended ==
    Serving =>
        \A e \in Experiments :
            status[e] \in ActiveStatuses => \E t \in Threads : job[t] = e

\* Whatever is submitted, and whatever review is retried, is eventually settled: it
\* reaches a terminal status or waits for a person.
EverySubmissionSettles ==
    \A e \in Experiments :
        status[e] \in {"QUEUED"} \cup ActiveStatuses ~> status[e] \in SettledStatuses
=============================================================================
