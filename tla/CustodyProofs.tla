---------------------------- MODULE CustodyProofs ----------------------------
(***************************************************************************)
(* Which thread has which experiment, and what is known of it at every     *)
(* step. Custody is an inductive invariant of Controller, for any sets of  *)
(* experiments, workers and retriers, any faults and any number of         *)
(* crashes; what the controller promises about runs follows from it.       *)
(* It says, of each thread, at which labels it may be (Role), the statuses *)
(* its experiment may have by then, cancels included (Place), and how far  *)
(* the run has come (Progress); of each experiment, how its rows, files    *)
(* and process agree (Row); that an experiment has one thread but for      *)
(* overlapping retries (Alone); and that recover() has the rows it         *)
(* selected to itself until the API is served (Startups).                  *)
(***************************************************************************)
EXTENDS ControllerProofs

Dead(e) == proc[e] \in {"exit0", "exit1"}

\* Nothing of the formal command has happened yet.
Untouched(e) ==
    proc[e] = "none" /\ receipt[e] = "none" /\ ~pid[e] /\ ~evidence[e]

StartLabels == {"authorize", "spawn"}
RunLabels ==
    {"authorize", "spawn", "record", "supervise", "reap", "receipt", "flush",
     "finish", "seal", "decide", "adopt", "watch"}
RescueLabels == {"rescue", "inspect", "bury"}
ReviewGoals ==
    {"REVIEW_PENDING", "VERIFICATION_FAILED", "REVIEW_BLOCKED", "NEEDS_HUMAN", "REJECTED"}
Reviewed ==
    {"REVIEW_PENDING", "ACCEPTED", "REJECTED", "REVIEW_BLOCKED", "NEEDS_HUMAN",
     "VERIFICATION_FAILED"}

\* t is asking _transition for status s.
Asks(t, s) == pc[t] = "move" /\ goal[t] = s

\* Which thread may be at which label.
Role(t) ==
    /\ t \in Retriers =>
          /\ pc[t] \in {"idle", "move"} \cup ReviewLabels
          /\ pc[t] = "move" => goal[t] \in ReviewGoals
    /\ t = Api => pc[t] \in {"idle", "kill"} \/ Asks(t, "CANCELLED")
    /\ t \in Experiments => job[t] \in {t, NoExp}
    /\ pc[t] \in WorkerLabels \cup {"check", "select"} => t \in Workers
    /\ pc[t] = "kill" => t = Api
    /\ pc[t] = "watch" => t \in Experiments
    /\ pc[t] = "adopt" => t \in {Main} \cup Experiments
    /\ pc[t] \in {"down", "recover", "serving"} => t = Main
    /\ pc[t] = "move" => goal[t] # "ACCEPTED"

\* Every policy snapshot and commit can be read when a run is graded and reviewed.
SnapshotsReadable == UnreadableAt \cap {"grade", "review", "accept"} = {}

\* The statuses in which the handler of _run_experiment finds the experiment.
Rescued ==
    {"QUEUED", "RUNNING", "CANCELLED"}
    \cup (IF SnapshotsReadable THEN {} ELSE {"GRADING", "REVIEW_PENDING"})

\* The status that the experiment of a thread may have by now.
Place(t) ==
    LET s == status[job[t]] IN
    /\ t \in Retriers /\ pc[t] # "idle" => s \in Reviewed
    /\ t \notin Retriers \cup {Api} =>
          /\ Starting(t) => s \in {"QUEUED", "CANCELLED"}
          /\ pc[t] \in RunLabels => s \in {"RUNNING", "CANCELLED"}
          /\ \A g \in {"GRADING", "CANCELLED", "FAILED", "ORPHANED"} :
                Asks(t, g) => s \in {"RUNNING", "CANCELLED"}
          /\ pc[t] \in RescueLabels => s \in Rescued
          /\ pc[t] = "grade" \/ Asks(t, "REVIEW_PENDING") => s = "GRADING"
          /\ Asks(t, "VERIFICATION_FAILED") => s \in {"GRADING", "REVIEW_PENDING"}
          /\ pc[t] \in ReviewLabels => s = "REVIEW_PENDING"
          /\ \A g \in {"REVIEW_BLOCKED", "NEEDS_HUMAN", "REJECTED"} :
                Asks(t, g) => s = "REVIEW_PENDING"

\* How far the run of a thread's experiment has come.
Progress(t) ==
    LET e == job[t] IN
    t # Api =>
      /\ Starting(t) \/ pc[t] \in StartLabels => Untouched(e)
      /\ pc[t] \in {"spawn", "record", "supervise", "reap", "receipt", "flush", "finish"} =>
            runStatus[e] = "RUNNING"
      /\ pc[t] \in {"record", "supervise", "reap"} =>
            proc[e] # "none" /\ receipt[e] = "none"
      /\ pc[t] \in {"receipt", "flush"} => Dead(e)
      /\ pc[t] \in {"finish", "seal", "decide", "adopt"} => receipt[e] = "whole"
      /\ pc[t] \in {"seal", "decide", "adopt"} => runStatus[e] = "FINISHED"
      /\ pc[t] = "decide" => evidence[e]
      /\ pc[t] \in {"adopt", "watch"} =>
            /\ crashes # 0
            /\ cancel[e] = "queued" => seen[e]
      /\ Asks(t, "GRADING") =>
            /\ proc[e] = "exit0" /\ receipt[e] = "whole" /\ runStatus[e] = "FINISHED"
            /\ cancel[e] # "queued"
            /\ crashes = 0 => evidence[e]
      /\ Asks(t, "CANCELLED") \/ Asks(t, "FAILED") => Dead(e)
      /\ Asks(t, "ORPHANED") => ~pid[e] \/ ~Running(e)
      /\ pc[t] \in {"inspect", "bury"} => runStatus[e] = "FAILED"

\* What the rows and files of an experiment say of each other.
Row(e) ==
    /\ status[e] \in {"ABSENT", "QUEUED"} => Untouched(e)
    /\ receipt[e] # "none" => Dead(e)
    /\ Running(e) =>
          /\ runStatus[e] \in {"RUNNING", "FAILED"}
          /\ status[e] = "RUNNING" \/ Stray(e)
    /\ status[e] \in GradedStatuses =>
          /\ proc[e] = "exit0" /\ receipt[e] = "whole"
          /\ cancel[e] # "queued"
          /\ crashes = 0 => evidence[e]
          /\ SnapshotsReadable => runStatus[e] = "FINISHED"

\* But for overlapping retries and a cancel under way, an experiment has one thread.
Alone ==
    \A t, u \in Threads :
        /\ t \notin Retriers \cup {Api} /\ u # Api /\ t # u
        /\ job[t] \in Experiments
        => job[u] # job[t]

\* Calls are made only while the service runs; before, recover() has the rows it
\* selected to itself.
Startups ==
    /\ pc[Main] = "down" => \A t \in Threads : job[t] = NoExp
    /\ pc[Main] # "serving" => \A t \in Workers \cup Retriers \cup {Api} : pc[t] = "idle"
    /\ pc[Main] = "serving" => todo = {}
    /\ pc[Main] # "down" =>
          \A e \in todo :
              /\ status[e] \in ActiveStatuses
              /\ cancel[e] = "queued" => seen[e]
              /\ crashes # 0
              /\ \A t \in Threads : job[t] # e
    /\ crashes = 0 =>
          /\ pc[Main] \in {"down", "recover", "serving"}
          /\ pc[Main] # "serving" =>
                /\ \A e \in Experiments : status[e] = "ABSENT"
                /\ \A t \in Threads : job[t] = NoExp

\* What is known of a thread.
Fine(t) == Role(t) /\ Place(t) /\ Progress(t)

Custody ==
    /\ \A t \in Threads : Fine(t)
    /\ \A e \in Experiments : Row(e)
    /\ Alone /\ Startups

-----------------------------------------------------------------------------
\* Threads and rows that a step leaves alone.

OthersKeep(t) ==
    \A u \in Threads : u # t => pc'[u] = pc[u] /\ job'[u] = job[u] /\ goal'[u] = goal[u]

SameRow(e) ==
    /\ status'[e] = status[e] /\ runStatus'[e] = runStatus[e] /\ pid'[e] = pid[e]
    /\ cancel'[e] = cancel[e] /\ evidence'[e] = evidence[e]
    /\ proc'[e] = proc[e] /\ receipt'[e] = receipt[e]

LEMMA GroupsOfThreads ==
    /\ Workers \subseteq Threads /\ Retriers \subseteq Threads
    /\ Experiments \subseteq Threads /\ Main \in Threads /\ Api \in Threads
    /\ \A w \in Workers :
          w \notin Retriers /\ w \notin Experiments /\ w # Main /\ w # Api
    /\ \A r \in Retriers : r \notin Experiments /\ r # Main /\ r # Api
    /\ \A e \in Experiments : e # Main /\ e # Api
    /\ Main # Api
  BY ThreadsAreDistinct DEF Threads

LEMMA RestOf ==
    ASSUME NEW t \in Threads
    PROVE  /\ t = Main => Resting(t) = "recover"
           /\ t \in Experiments => Resting(t) = "off"
           /\ t \in Workers \cup Retriers \cup {Api} => Resting(t) = "idle"
           /\ t \in Workers \cup Retriers \cup {Main, Api} \cup Experiments
  BY GroupsOfThreads DEF Resting, Threads

\* A thread has a job exactly at these labels.
LEMMA Jobless ==
    ASSUME TypeOK, NEW t \in Threads
    PROVE  /\ job[t] \in Experiments \/ job[t] = NoExp
           /\ job[t] = NoExp => pc[t] \notin BusyLabels
           /\ job[t] \in Experiments => pc[t] \in BusyLabels
  BY NamesOfNothing DEF TypeOK, FramesOK

LEMMA FineKept ==
    ASSUME TypeOK, Custody, NEW t \in Threads,
           pc'[t] = pc[t], job'[t] = job[t], goal'[t] = goal[t],
           job[t] \in Experiments => SameRow(job[t]) /\ seen' = seen,
           crashes' = crashes
    PROVE  Fine(t)'
<1>1. Fine(t)
  BY DEF Custody
<1>2. Role(t)'
  BY <1>1 DEF Fine, Role, Asks
<1>3. CASE job[t] \in Experiments
  BY <1>1, <1>2, <1>3
     DEF Fine, Place, Progress, Asks, Starting, SameRow, Untouched, Dead, Running
<1>4. CASE job[t] = NoExp
  <2>1. pc[t] \notin BusyLabels
    BY <1>4, Jobless
  <2>2. Place(t)' /\ Progress(t)'
    BY <2>1, <1>1
       DEF Fine, Role, Place, Progress, Asks, Starting, BusyLabels, WorkerLabels, RunLabels,
           RescueLabels, ReviewLabels, StartLabels
  <2>3. QED
    BY <1>2, <2>2 DEF Fine
<1>5. QED
  BY <1>3, <1>4, Jobless

LEMMA RowKept ==
    ASSUME Custody, NEW e \in Experiments, SameRow(e),
           crashes' = 0 => crashes = 0
    PROVE  Row(e)'
  BY DEF Custody, Row, SameRow, Untouched, Dead, Running, Stray

\* A thread at rest.
LEMMA RestFine ==
    ASSUME NEW t \in Threads, pc'[t] = Resting(t) \/ (t = Main /\ pc'[t] = "down"),
           job'[t] = NoExp
    PROVE  Fine(t)'
<1>1. pc'[t] \notin BusyLabels
  BY LabelKinds
<1>2. Role(t)'
  BY RestOf, GroupsOfThreads DEF Role, Asks, WorkerLabels, ReviewLabels
<1>3. Place(t)' /\ Progress(t)'
  BY <1>1, RestOf, GroupsOfThreads
     DEF Place, Progress, Asks, Starting, BusyLabels, WorkerLabels, RunLabels,
         RescueLabels, ReviewLabels, StartLabels
<1>4. QED
  BY <1>2, <1>3 DEF Fine

\* The event loop's own call says nothing of its experiment.
LEMMA ApiFine ==
    ASSUME Custody, pc'[Api] = pc[Api], goal'[Api] = goal[Api], job'[Api] = job[Api]
    PROVE  Fine(Api)'
<1>1. Role(Api) /\ Api \in Threads
  BY GroupsOfThreads DEF Custody, Fine
<1>2. Role(Api)'
  BY <1>1 DEF Role, Asks
<1>3. QED
  BY <1>2, GroupsOfThreads DEF Fine, Place, Progress

\* Where the experiment of a thread that is not a retry may be by now, whatever
\* the thread is doing.
LEMMA Held ==
    ASSUME TypeOK, Custody, NEW t \in Threads, t \notin Retriers \cup {Api},
           job[t] \in Experiments
    PROVE  status[job[t]] \in {"QUEUED", "RUNNING", "GRADING", "REVIEW_PENDING", "CANCELLED"}
<1>1. pc[t] \in BusyLabels /\ Fine(t)
  BY Jobless DEF Custody
<1>2. pc[t] = "move" => goal[t] \in Targets \ {"ACCEPTED"}
  BY <1>1 DEF Fine, Role, TypeOK, FramesOK
<1>3. pc[t] # "kill"
  BY <1>1 DEF Fine, Role
<1>4. QED
  BY <1>1, <1>2, <1>3
     DEF Fine, Place, BusyLabels, WorkerLabels, ReviewLabels, RunLabels, RescueLabels,
         Rescued, Starting, Asks, Targets, Statuses

LEMMA HeldByRetry ==
    ASSUME TypeOK, Custody, NEW t \in Retriers, job[t] \in Experiments
    PROVE  status[job[t]] \in Reviewed /\ status[job[t]] \in GradedStatuses
<1>1. t \in Threads
  BY GroupsOfThreads
<1>2. Fine(t) /\ pc[t] # "idle"
  BY <1>1, Jobless DEF Custody, BusyLabels, WorkerLabels, ReviewLabels
<1>3. QED
  BY <1>2 DEF Fine, Place, Reviewed, GradedStatuses

\* What a step of t does to custody when e is nobody else's experiment.
LEMMA Step ==
    ASSUME TypeOK, Custody, NEW t \in Threads, t \notin Retriers \cup {Api},
           NEW e \in Experiments, job'[t] \in {e, NoExp},
           \A u \in Threads \ {t, Api} : job[u] # e,
           OthersKeep(t), \A f \in Experiments \ {e} : SameRow(f),
           crashes' = crashes, seen' = seen,
           Fine(t)', Row(e)', Startups'
    PROVE  Custody'
<1>1. ASSUME NEW u \in Threads
      PROVE  Fine(u)'
  <2>1. CASE u = Api
    BY <2>1, ApiFine DEF OthersKeep
  <2>2. CASE u \notin {t, Api}
    <3>1. job[u] \in Experiments => SameRow(job[u])
      BY <2>2
    <3>2. QED
      BY <2>2, <3>1, FineKept DEF OthersKeep
  <2>3. QED
    BY <2>1, <2>2
<1>2. \A f \in Experiments : Row(f)'
  BY RowKept
<1>3. ASSUME NEW u \in Threads, NEW v \in Threads,
             u \notin Retriers \cup {Api}, v # Api, u # v, job'[u] \in Experiments
      PROVE  job'[v] # job'[u]
  <2>1. NoExp \notin Experiments
    BY NamesOfNothing
  <2>2. CASE u = t
    BY <1>3, <2>1, <2>2 DEF OthersKeep
  <2>3. CASE v = t
    BY <1>3, <2>1, <2>3 DEF OthersKeep
  <2>4. CASE u # t /\ v # t
    BY <1>3, <2>4 DEF OthersKeep, Custody, Alone
  <2>5. QED
    BY <2>2, <2>3, <2>4
<1>4. QED
  BY <1>1, <1>2, <1>3 DEF Custody, Alone

LEMMA NobodyElse ==
    ASSUME Custody, NEW t \in Threads, t \notin Retriers \cup {Api}, job[t] \in Experiments
    PROVE  \A u \in Threads \ {t, Api} : job[u] # job[t]
  BY DEF Custody, Alone

\* A step of a thread on its experiment leaves the rest of the service as it was.
LEMMA StartupsOwn ==
    ASSUME TypeOK, Custody, NEW t \in Threads, job[t] \in Experiments,
           job'[t] \in {job[t], NoExp}, t = Main => pc'[t] \notin {"down", "serving"},
           OthersKeep(t), \A f \in Experiments \ {job[t]} : SameRow(f),
           crashes' = crashes, seen' = seen, todo' = todo
    PROVE  Startups'
<1> USE DEF Custody, Startups
<1>1. pc[t] \in BusyLabels /\ pc[t] \notin RestLabels /\ job[t] # NoExp
  BY Jobless, LabelKinds, NamesOfNothing
<1>2. /\ pc[Main] # "down" /\ Main \in Threads
      /\ t = Main => pc[Main] \notin {"down", "recover", "serving"}
  BY <1>1, GroupsOfThreads DEF RestLabels
<1>3. /\ pc'[Main] # "down"
      /\ pc'[Main] = "serving" <=> pc[Main] = "serving"
  BY <1>2 DEF OthersKeep
<1>4. pc[Main] # "serving" => t \notin Workers \cup Retriers \cup {Api}
  BY <1>1 DEF RestLabels
<1>5. pc'[Main] # "serving" =>
          \A u \in Workers \cup Retriers \cup {Api} : pc'[u] = "idle"
  BY <1>3, <1>4, GroupsOfThreads DEF OthersKeep
<1>6. ASSUME NEW f \in todo'
      PROVE  /\ status'[f] \in ActiveStatuses
             /\ cancel'[f] = "queued" => seen'[f]
             /\ crashes' # 0
             /\ \A u \in Threads : job'[u] # f
  <2>1. f \in Experiments /\ f # job[t] /\ f # NoExp
    BY <1>2, NamesOfNothing DEF TypeOK, RecoveryOK
  <2>2. QED
    BY <1>2, <2>1 DEF OthersKeep, SameRow
<1>7. crashes' = 0 => pc'[Main] = "serving"
  BY <1>1, <1>2, <1>3
<1>8. QED
  BY <1>3, <1>5, <1>6, <1>7

LEMMA OwnStep ==
    ASSUME TypeOK, Custody, NEW t \in Threads, t \notin Retriers \cup {Api},
           NEW e \in Experiments, job[t] = e, job'[t] \in {e, NoExp},
           t = Main => pc'[t] \notin {"down", "serving"},
           OthersKeep(t), \A f \in Experiments \ {e} : SameRow(f),
           crashes' = crashes, seen' = seen, todo' = todo,
           Fine(t)', Row(e)'
    PROVE  Custody'
<1>1. Startups'
  BY StartupsOwn
<1>2. QED
  BY <1>1, NobodyElse, Step

\* A retry shares its experiment with no one but other retries and a cancel.
LEMMA RetryStep ==
    ASSUME TypeOK, Custody, NEW t \in Retriers, NEW e \in Experiments,
           job[t] = e, job'[t] \in {e, NoExp}, OthersKeep(t),
           \A f \in Experiments \ {e} : SameRow(f), status'[e] \in Reviewed,
           crashes' = crashes, seen' = seen, todo' = todo,
           Fine(t)', Row(e)'
    PROVE  Custody'
<1>1. t \in Threads /\ t # Main /\ t # Api
  BY GroupsOfThreads
<1>2. Startups'
  BY <1>1, StartupsOwn
<1>3. ASSUME NEW u \in Threads
      PROVE  Fine(u)'
  <2>1. CASE u = Api
    BY <2>1, <1>1, ApiFine DEF OthersKeep
  <2>2. CASE u \notin {t, Api} /\ job[u] # e
    <3>1. job[u] \in Experiments => SameRow(job[u])
      BY <2>2
    <3>2. QED
      BY <2>2, <3>1, FineKept DEF OthersKeep
  <2>3. CASE u \notin {t, Api} /\ job[u] = e
    <3>1. u \in Retriers /\ Fine(u)
      BY <1>1, <2>3 DEF Custody, Alone
    <3>2. pc'[u] = pc[u] /\ job'[u] = e /\ goal'[u] = goal[u]
      BY <2>3 DEF OthersKeep
    <3>3. QED
      BY <3>1, <3>2, GroupsOfThreads
         DEF Fine, Role, Place, Progress, Asks, Starting, StartLabels, ReviewLabels, ReviewGoals
  <2>4. QED
    BY <2>1, <2>2, <2>3
<1>4. \A f \in Experiments : Row(f)'
  BY RowKept
<1>5. ASSUME NEW u \in Threads, NEW v \in Threads,
             u \notin Retriers \cup {Api}, v # Api, u # v, job'[u] \in Experiments
      PROVE  job'[v] # job'[u]
  <2>1. NoExp \notin Experiments
    BY NamesOfNothing
  <2>2. u # t /\ job'[u] = job[u] /\ job[u] # e
    BY <1>1, <1>5 DEF OthersKeep, Custody, Alone
  <2>3. QED
    BY <1>5, <2>1, <2>2 DEF OthersKeep, Custody, Alone
<1>6. QED
  BY <1>2, <1>3, <1>4, <1>5 DEF Custody, Alone

-----------------------------------------------------------------------------
\* Control flow: what becomes of the thread that takes a step.

LEMMA GotoMoves ==
    ASSUME TypeOK, NEW t \in Threads, NEW label, Goto(t, label)
    PROVE  pc'[t] = label /\ job'[t] = job[t] /\ goal'[t] = goal[t] /\ OthersKeep(t)
  BY DEF TypeOK, FramesOK, Goto, OthersKeep

LEMMA BeginMoves ==
    ASSUME TypeOK, NEW t \in Threads, NEW e, NEW label, Begin(t, e, label)
    PROVE  pc'[t] = label /\ job'[t] = e /\ goal'[t] = goal[t] /\ OthersKeep(t)
  BY DEF TypeOK, FramesOK, Begin, OthersKeep

LEMMA RequestMoves ==
    ASSUME TypeOK, NEW t \in Threads, NEW e, NEW s, Request(t, e, s)
    PROVE  pc'[t] = "move" /\ job'[t] = e /\ goal'[t] = s /\ OthersKeep(t)
  BY DEF TypeOK, FramesOK, Request, OthersKeep

LEMMA ReturnMoves ==
    ASSUME TypeOK, NEW t \in Threads, Return(t)
    PROVE  /\ pc'[t] = Resting(t) /\ job'[t] = NoExp /\ OthersKeep(t)
           /\ Fine(t)'
           /\ pc'[t] \notin {"down", "serving"}
<1>1. pc'[t] = Resting(t) /\ job'[t] = NoExp /\ OthersKeep(t)
  BY DEF TypeOK, FramesOK, Return, OthersKeep
<1>2. QED
  BY <1>1, RestFine, LabelKinds

\* A step that changes no row, file or list.
Quiet ==
    /\ \A f \in Experiments : SameRow(f)
    /\ crashes' = crashes /\ seen' = seen /\ todo' = todo

LEMMA QuietSteps ==
    ASSUME UNCHANGED <<status, born, clock, rowVars, fileVars, recoverVars, bounds>>
    PROVE  Quiet
  BY DEF Quiet, SameRow, rowVars, fileVars, recoverVars, bounds

\* A call ends and its thread drops the experiment.
LEMMA ReturnCustody ==
    ASSUME TypeOK, Custody, NEW t \in Threads, t # Main \/ pc[t] \in BusyLabels,
           Return(t), Quiet
    PROVE  Custody'
<1>1. /\ pc'[t] = Resting(t) /\ job'[t] = NoExp /\ OthersKeep(t) /\ Fine(t)'
      /\ pc'[t] \notin {"down", "serving"}
  BY ReturnMoves
<1>2. \A u \in Threads : Fine(u)'
  BY <1>1, FineKept DEF Quiet, OthersKeep
<1>3. \A f \in Experiments : Row(f)'
  BY RowKept DEF Quiet
<1>4. Alone'
  BY <1>1, NamesOfNothing DEF OthersKeep, Custody, Alone
<1>5. Startups'
  <2> USE DEF Custody, Startups
  <2>1. CASE job[t] \in Experiments
    BY <1>1, <2>1, StartupsOwn DEF Quiet
  <2>2. CASE job[t] = NoExp
    <3>1. t # Main /\ pc'[Main] = pc[Main] /\ \A u \in Threads : job'[u] = job[u]
      BY <1>1, <2>2, Jobless, GroupsOfThreads DEF OthersKeep
    <3>2. ASSUME NEW u \in Workers \cup Retriers \cup {Api}, pc'[Main] # "serving"
          PROVE  pc'[u] = "idle"
      BY <1>1, <3>1, <3>2, RestOf, GroupsOfThreads DEF OthersKeep
    <3>3. \A f \in todo : f \in Experiments
      BY DEF TypeOK, RecoveryOK
    <3>4. QED
      BY <3>1, <3>2, <3>3 DEF Quiet, SameRow
  <2>3. QED
    BY <2>1, <2>2, Jobless
<1>6. QED
  BY <1>2, <1>3, <1>4, <1>5 DEF Custody

\* The controller process ends. Without a crash it can only have failed to start,
\* before anything was submitted.
LEMMA ExitCustody ==
    ASSUME TypeOK, Custody, Exit, \A f \in Experiments : SameRow(f),
           crashes' = 0 => crashes = 0 /\ pc[Main] # "serving"
    PROVE  Custody'
<1>1. \A t \in Threads :
          /\ pc'[t] = IF t = Main THEN "down" ELSE Resting(t)
          /\ job'[t] = NoExp
  BY DEF Exit
<1>2. \A t \in Threads : Fine(t)'
  BY <1>1, RestFine
<1>3. \A f \in Experiments : Row(f)'
  BY RowKept
<1>4. Alone'
  BY <1>1, NamesOfNothing DEF Alone
<1>5. Startups'
  BY <1>1, GroupsOfThreads, RestOf DEF Custody, Startups, SameRow
<1>6. QED
  BY <1>2, <1>3, <1>4, <1>5 DEF Custody

LEMMA UnwindCustody ==
    ASSUME TypeOK, Custody, NEW t \in Threads, t = Main => pc[t] # "serving",
           Unwind(t), Quiet
    PROVE  Custody'
<1>1. CASE t = Main
  BY <1>1, ExitCustody DEF Unwind, Quiet
<1>2. CASE t # Main
  BY <1>2, ReturnCustody DEF Unwind
<1>3. QED
  BY <1>1, <1>2

LEMMA ThrowCustody ==
    ASSUME TypeOK, Custody, NEW t \in Threads \ Workers, pc[t] \in BusyLabels,
           Throw(t), Quiet
    PROVE  Custody'
<1>1. t = Main => pc[t] # "serving"
  BY LabelKinds DEF RestLabels
<1>2. QED
  BY <1>1, UnwindCustody DEF Throw

-----------------------------------------------------------------------------
\* run_next() and _run_experiment() keep custody.

\* What is known of a worker's experiment.
LEMMA WorkerHas ==
    ASSUME TypeOK, Custody, NEW w \in Workers, pc[w] \in BusyLabels
    PROVE  /\ w \in Threads /\ w \notin Retriers \cup {Api} \cup Experiments /\ w # Main
           /\ job[w] \in Experiments /\ Fine(w) /\ Row(job[w])
  BY GroupsOfThreads, Jobless DEF Custody, TypeOK, FramesOK

\* A step of w to another label of its own, or out of the call.
LEMMA WorkerOwn ==
    ASSUME TypeOK, Custody, NEW w \in Workers, NEW e \in Experiments, job[w] = e,
           job'[w] \in {e, NoExp}, OthersKeep(w),
           \A f \in Experiments \ {e} : SameRow(f),
           crashes' = crashes, seen' = seen, todo' = todo,
           Fine(w)', Row(e)'
    PROVE  Custody'
  BY GroupsOfThreads, OwnStep

\* The label a worker goes on to, spelt out.
LEMMA WorkerFine ==
    ASSUME NEW w \in Workers, pc'[w] \in WorkerLabels \cup {"move"},
           pc'[w] = "move" => goal'[w] # "ACCEPTED",
           Place(w)', Progress(w)'
    PROVE  Fine(w)'
  BY GroupsOfThreads DEF Fine, Role, Asks, WorkerLabels

LEMMA StartCustody ==
    ASSUME TypeOK, Custody, NEW w \in Workers, NEW e, e = job[w],
           CreateWorktree(w) \/ Authorize(w) \/ Spawn(w) \/ Record(w)
    PROVE  Custody'
<1>1. pc[w] \in BusyLabels
  BY BusyFacts DEF CreateWorktree, Authorize, Spawn, Record, WorkerLabels
<1>2. /\ w \in Threads /\ w \notin Retriers \cup {Api} \cup Experiments
      /\ e \in Experiments /\ Place(w) /\ Progress(w) /\ Row(e) /\ w # Api
  BY <1>1, WorkerHas DEF Fine
<1>3. CASE CreateWorktree(w)
  <2>1. /\ pc'[w] = "move" /\ job'[w] = e /\ goal'[w] = "RUNNING" /\ OthersKeep(w)
        /\ pc[w] = "worktree"
    BY <1>2, <1>3, RequestMoves DEF CreateWorktree
  <2>2. Quiet
    BY <1>3, QuietSteps DEF CreateWorktree
  <2>3. Place(w)' /\ Progress(w)'
    BY <1>2, <2>1, <2>2
       DEF Place, Progress, Asks, Starting, Quiet, SameRow, Untouched, StartLabels,
           RunLabels, RescueLabels, ReviewLabels
  <2>4. Row(e)'
    BY <1>2, <2>2, RowKept DEF Quiet
  <2>5. QED
    BY <1>2, <2>1, <2>2, <2>3, <2>4, WorkerFine, WorkerOwn DEF Quiet
<1>4. CASE Authorize(w)
  <2>1. /\ pc'[w] = "spawn" /\ job'[w] = e /\ goal'[w] = goal[w] /\ OthersKeep(w)
        /\ pc[w] = "authorize"
    BY <1>2, <1>4, GotoMoves DEF Authorize
  <2>2. /\ runStatus'[e] = "RUNNING" /\ status' = status /\ pid' = pid /\ cancel' = cancel
        /\ evidence' = evidence /\ proc' = proc /\ receipt' = receipt
        /\ crashes' = crashes /\ seen' = seen /\ todo' = todo
        /\ \A f \in Experiments \ {e} : runStatus'[f] = runStatus[f]
    BY <1>2, <1>4 DEF Authorize, TypeOK, RowsOK, fileVars, recoverVars, bounds
  <2>3. Place(w)' /\ Progress(w)'
    BY <1>2, <2>1, <2>2
       DEF Place, Progress, Asks, Starting, Untouched, StartLabels,
           RunLabels, RescueLabels, ReviewLabels
  <2>4. Row(e)'
    BY <1>2, <2>1, <2>2
       DEF Row, Place, Progress, StartLabels, RunLabels, Untouched, Dead, Running, GradedStatuses
  <2>5. QED
    BY <1>2, <2>1, <2>2, <2>3, <2>4, WorkerFine, WorkerOwn DEF SameRow, WorkerLabels
<1>5. CASE Spawn(w)
  <2>1. /\ pc'[w] = "record" /\ job'[w] = e /\ goal'[w] = goal[w] /\ OthersKeep(w)
        /\ pc[w] = "spawn"
    BY <1>2, <1>5, GotoMoves DEF Spawn
  <2>2. /\ proc'[e] = "alive" /\ status' = status /\ pid' = pid /\ cancel' = cancel
        /\ evidence' = evidence /\ runStatus' = runStatus /\ receipt' = receipt
        /\ crashes' = crashes /\ seen' = seen /\ todo' = todo
        /\ \A f \in Experiments \ {e} : proc'[f] = proc[f]
    BY <1>2, <1>5 DEF Spawn, TypeOK, FilesOK, rowVars, recoverVars, bounds
  <2>3. Place(w)' /\ Progress(w)'
    BY <1>2, <2>1, <2>2
       DEF Place, Progress, Asks, Starting, Untouched, StartLabels,
           RunLabels, RescueLabels, ReviewLabels
  <2>4. Row(e)'
    BY <1>2, <2>1, <2>2
       DEF Row, Place, Progress, StartLabels, RunLabels, Untouched, Running, Stray, GradedStatuses
  <2>5. QED
    BY <1>2, <2>1, <2>2, <2>3, <2>4, WorkerFine, WorkerOwn DEF SameRow, WorkerLabels
<1>6. CASE Record(w)
  <2>1. /\ pc'[w] = "supervise" /\ job'[w] = e /\ goal'[w] = goal[w] /\ OthersKeep(w)
        /\ pc[w] = "record"
    BY <1>2, <1>6, GotoMoves DEF Record
  <2>2. /\ status' = status /\ proc' = proc /\ cancel' = cancel
        /\ evidence' = evidence /\ runStatus' = runStatus /\ receipt' = receipt
        /\ crashes' = crashes /\ seen' = seen /\ todo' = todo
        /\ \A f \in Experiments \ {e} : pid'[f] = pid[f]
    BY <1>2, <1>6 DEF Record, TypeOK, RowsOK, fileVars, recoverVars, bounds
  <2>3. Place(w)' /\ Progress(w)'
    BY <1>2, <2>1, <2>2
       DEF Place, Progress, Asks, Starting, StartLabels,
           RunLabels, RescueLabels, ReviewLabels
  <2>4. Row(e)'
    BY <1>2, <2>1, <2>2
       DEF Row, Place, Progress, RunLabels, Dead, Running, Stray, GradedStatuses
  <2>5. QED
    BY <1>2, <2>1, <2>2, <2>3, <2>4, WorkerFine, WorkerOwn DEF SameRow, WorkerLabels
<1>7. QED
  BY <1>3, <1>4, <1>5, <1>6

LEMMA SuperviseCustody ==
    ASSUME TypeOK, Custody, NEW w \in Workers, NEW e, e = job[w],
           Supervise(w) \/ Reap(w) \/ OpenReceipt(w) \/ FlushReceipt(w)
    PROVE  Custody'
<1>1. pc[w] \in BusyLabels
  BY BusyFacts DEF Supervise, Reap, OpenReceipt, FlushReceipt, WorkerLabels
<1>2. /\ w \in Threads /\ w \notin Retriers \cup {Api} \cup Experiments
      /\ e \in Experiments /\ Place(w) /\ Progress(w) /\ Row(e) /\ w # Api
  BY <1>1, WorkerHas DEF Fine
<1>3. /\ pc[w] \in RunLabels
      /\ status[e] \in {"RUNNING", "CANCELLED"}
      /\ proc[e] \in {"none", "alive", "signalled", "exit0", "exit1"}
  BY <1>2 DEF Place, Supervise, Reap, OpenReceipt, FlushReceipt, RunLabels, TypeOK, FilesOK
<1>4. CASE Supervise(w) \/ Reap(w)
  <2>1. /\ pc[w] \in {"supervise", "reap"} /\ job'[w] = e /\ goal'[w] = goal[w] /\ OthersKeep(w)
        /\ \/ pc'[w] = "receipt" /\ proc'[e] \in {proc[e], "exit1"}
                /\ proc'[e] \notin {"alive", "signalled"}
           \/ pc'[w] = "reap" /\ proc[e] # "none" /\ proc'[e] \in {"signalled", proc[e]}
    BY <1>2, <1>3, <1>4, GotoMoves DEF Supervise, Reap, Running, Terminated, TypeOK, FilesOK
  <2>2. /\ status' = status /\ pid' = pid /\ cancel' = cancel
        /\ evidence' = evidence /\ runStatus' = runStatus /\ receipt' = receipt
        /\ crashes' = crashes /\ seen' = seen /\ todo' = todo
        /\ \A f \in Experiments \ {e} : proc'[f] = proc[f]
    BY <1>2, <1>4 DEF Supervise, Reap, TypeOK, FilesOK, rowVars, recoverVars, bounds
  <2>3. proc'[e] # "none" /\ (pc'[w] = "receipt" => Dead(e)')
    BY <1>2, <1>3, <2>1 DEF Progress, Dead
  <2>4. Place(w)' /\ Progress(w)'
    BY <1>2, <1>3, <2>1, <2>2, <2>3
       DEF Place, Progress, Asks, Starting, StartLabels, RunLabels, RescueLabels, ReviewLabels
  <2>5. Row(e)'
    BY <1>2, <1>3, <2>1, <2>2, <2>3
       DEF Row, Progress, Dead, Running, Stray, GradedStatuses
  <2>6. QED
    BY <1>2, <2>1, <2>2, <2>4, <2>5, WorkerFine, WorkerOwn DEF SameRow, WorkerLabels
<1>5. CASE OpenReceipt(w) \/ FlushReceipt(w)
  <2>1. /\ pc[w] \in {"receipt", "flush"} /\ job'[w] = e /\ goal'[w] = goal[w] /\ OthersKeep(w)
        /\ \/ pc'[w] = "flush"
           \/ pc'[w] = "finish" /\ receipt'[e] = "whole"
    BY <1>2, <1>5, GotoMoves DEF OpenReceipt, FlushReceipt, TypeOK, FilesOK
  <2>2. /\ status' = status /\ pid' = pid /\ cancel' = cancel
        /\ evidence' = evidence /\ runStatus' = runStatus /\ proc' = proc
        /\ crashes' = crashes /\ seen' = seen /\ todo' = todo
        /\ \A f \in Experiments \ {e} : receipt'[f] = receipt[f]
    BY <1>2, <1>5 DEF OpenReceipt, FlushReceipt, TypeOK, FilesOK, rowVars, recoverVars, bounds
  <2>3. Dead(e) /\ runStatus[e] = "RUNNING"
    BY <1>2, <2>1 DEF Progress
  <2>4. Place(w)' /\ Progress(w)'
    BY <1>2, <1>3, <2>1, <2>2, <2>3
       DEF Place, Progress, Asks, Starting, StartLabels, RunLabels, RescueLabels, ReviewLabels, Dead
  <2>5. Row(e)'
    BY <1>2, <1>3, <2>1, <2>2, <2>3 DEF Row, Dead, Running, GradedStatuses
  <2>6. QED
    BY <1>2, <2>1, <2>2, <2>4, <2>5, WorkerFine, WorkerOwn DEF SameRow, WorkerLabels
<1>6. QED
  BY <1>4, <1>5

LEMMA SealCustody ==
    ASSUME TypeOK, Custody, NEW w \in Workers, NEW e, e = job[w],
           Finish(w) \/ Seal(w) \/ Decide(w)
    PROVE  Custody'
<1>1. pc[w] \in BusyLabels
  BY BusyFacts DEF Finish, Seal, Decide, WorkerLabels
<1>2. /\ w \in Threads /\ w \notin Retriers \cup {Api} \cup Experiments
      /\ e \in Experiments /\ Place(w) /\ Progress(w) /\ Row(e) /\ w # Api
  BY <1>1, WorkerHas DEF Fine
<1>3. /\ pc[w] \in {"finish", "seal", "decide"}
      /\ status[e] \in {"RUNNING", "CANCELLED"}
      /\ receipt[e] = "whole" /\ Dead(e)
      /\ pc[w] \in {"seal", "decide"} => runStatus[e] = "FINISHED"
  BY <1>2 DEF Place, Progress, Row, Finish, Seal, Decide, RunLabels
<1>4. CASE Finish(w) \/ Seal(w)
  <2>1. /\ job'[w] = e /\ goal'[w] = goal[w] /\ OthersKeep(w)
        /\ pc'[w] \in {"seal", "decide"} /\ runStatus'[e] = "FINISHED"
        /\ pc'[w] = "decide" => evidence'[e]
    BY <1>2, <1>3, <1>4, GotoMoves DEF Finish, Seal, TypeOK, RowsOK
  <2>2. /\ status' = status /\ pid' = pid /\ cancel' = cancel
        /\ proc' = proc /\ receipt' = receipt
        /\ crashes' = crashes /\ seen' = seen /\ todo' = todo
        /\ \A f \in Experiments \ {e} : runStatus'[f] = runStatus[f] /\ evidence'[f] = evidence[f]
    BY <1>2, <1>4 DEF Finish, Seal, TypeOK, RowsOK, fileVars, recoverVars, bounds
  <2>3. Place(w)' /\ Progress(w)'
    BY <1>2, <1>3, <2>1, <2>2
       DEF Place, Progress, Asks, Starting, StartLabels, RunLabels, RescueLabels, ReviewLabels
  <2>4. Row(e)'
    BY <1>2, <1>3, <2>1, <2>2 DEF Row, Dead, Running, GradedStatuses
  <2>5. QED
    BY <1>2, <2>1, <2>2, <2>3, <2>4, WorkerFine, WorkerOwn DEF SameRow, WorkerLabels
<1>5. CASE Decide(w)
  <2>1. /\ pc'[w] = "move" /\ job'[w] = e /\ OthersKeep(w)
        /\ evidence[e]
        /\ \/ goal'[w] \in {"CANCELLED", "FAILED"}
           \/ goal'[w] = "GRADING" /\ cancel[e] = "no" /\ proc[e] = "exit0"
    BY <1>2, <1>5, RequestMoves DEF Decide, Progress
  <2>2. Quiet
    BY <1>5, QuietSteps DEF Decide
  <2>3. Place(w)' /\ Progress(w)'
    BY <1>2, <1>3, <1>5, <2>1, <2>2
       DEF Place, Progress, Asks, Starting, StartLabels, RunLabels, RescueLabels, ReviewLabels,
           Quiet, SameRow, Dead, Decide
  <2>4. Row(e)'
    BY <1>2, <2>2, RowKept DEF Quiet
  <2>5. QED
    BY <1>2, <2>1, <2>2, <2>3, <2>4, WorkerFine, WorkerOwn DEF Quiet
<1>6. QED
  BY <1>4, <1>5

\* The handler of _run_experiment, and the errors it is for.
LEMMA RescueCustody ==
    ASSUME TypeOK, Custody, NEW w \in Workers, NEW e, e = job[w],
           RunFails(w) \/ Rescue(w) \/ Inspect(w) \/ Bury(w)
    PROVE  Custody'
<1>1. pc[w] \in BusyLabels /\ pc[w] \in WorkerLabels
  BY BusyFacts DEF RunFails, Rescue, Inspect, Bury, WorkerLabels
<1>2. /\ w \in Threads /\ w \notin Retriers \cup {Api} \cup Experiments /\ w # Main
      /\ e \in Experiments /\ Place(w) /\ Progress(w) /\ Row(e) /\ w # Api
  BY <1>1, WorkerHas DEF Fine
<1>3. status[e] \in Rescued
  BY <1>1, <1>2 DEF Place, Starting, WorkerLabels, RunLabels, RescueLabels, Rescued
<1>4. CASE RunFails(w)
  <2>1. pc'[w] = "rescue" /\ job'[w] = e /\ goal'[w] = goal[w] /\ OthersKeep(w)
    BY <1>2, <1>4, GotoMoves DEF RunFails
  <2>2. Quiet
    BY <1>4, QuietSteps DEF RunFails
  <2>3. Place(w)' /\ Progress(w)'
    BY <1>2, <1>3, <2>1, <2>2
       DEF Place, Progress, Asks, Starting, StartLabels, RunLabels, RescueLabels, ReviewLabels,
           Quiet, SameRow
  <2>4. Row(e)'
    BY <1>2, <2>2, RowKept DEF Quiet
  <2>5. QED
    BY <1>2, <2>1, <2>2, <2>3, <2>4, WorkerFine, WorkerOwn DEF Quiet, WorkerLabels
<1>5. CASE Rescue(w)
  <2>1. /\ pc'[w] = "inspect" /\ job'[w] = e /\ goal'[w] = goal[w] /\ OthersKeep(w)
        /\ runStatus'[e] = "FAILED"
    BY <1>2, <1>5, GotoMoves DEF Rescue, TypeOK, RowsOK
  <2>2. /\ status' = status /\ pid' = pid /\ cancel' = cancel
        /\ evidence' = evidence /\ proc' = proc /\ receipt' = receipt
        /\ crashes' = crashes /\ seen' = seen /\ todo' = todo
        /\ \A f \in Experiments \ {e} : runStatus'[f] = runStatus[f]
    BY <1>2, <1>5 DEF Rescue, TypeOK, RowsOK, fileVars, recoverVars, bounds
  <2>3. Place(w)' /\ Progress(w)'
    BY <1>2, <1>3, <2>1, <2>2
       DEF Place, Progress, Asks, Starting, StartLabels, RunLabels, RescueLabels, ReviewLabels
  <2>4. Row(e)'
    BY <1>2, <1>3, <2>1, <2>2
       DEF Row, Dead, Running, Stray, Untouched, GradedStatuses, Rescued
  <2>5. QED
    BY <1>2, <2>1, <2>2, <2>3, <2>4, WorkerFine, WorkerOwn DEF SameRow, WorkerLabels
<1>6. CASE Inspect(w)
  <2>1. Quiet
    BY <1>6, QuietSteps DEF Inspect
  <2>2. CASE Return(w)
    BY <1>2, <2>1, <2>2, ReturnCustody
  <2>3. CASE Goto(w, "bury")
    <3>1. pc'[w] = "bury" /\ job'[w] = e /\ goal'[w] = goal[w] /\ OthersKeep(w)
      BY <1>2, <2>3, GotoMoves
    <3>2. Place(w)' /\ Progress(w)'
      BY <1>2, <1>3, <1>6, <2>1, <3>1
         DEF Place, Progress, Asks, Starting, StartLabels, RunLabels, RescueLabels, ReviewLabels,
             Quiet, SameRow, Inspect
    <3>3. Row(e)'
      BY <1>2, <2>1, RowKept DEF Quiet
    <3>4. QED
      BY <1>2, <2>1, <3>1, <3>2, <3>3, WorkerFine, WorkerOwn DEF Quiet, WorkerLabels
  <2>4. QED
    BY <1>6, <2>2, <2>3 DEF Inspect
<1>7. CASE Bury(w)
  <2>1. job'[w] = NoExp /\ OthersKeep(w) /\ Fine(w)' /\ runStatus[e] = "FAILED"
    BY <1>2, <1>7, ReturnMoves DEF Bury, Progress
  <2>2. /\ pid' = pid /\ cancel' = cancel /\ runStatus' = runStatus
        /\ evidence' = evidence /\ proc' = proc /\ receipt' = receipt
        /\ crashes' = crashes /\ seen' = seen /\ todo' = todo
        /\ status'[e] \in {status[e], "FAILED"}
        /\ \A f \in Experiments \ {e} : status'[f] = status[f]
    BY <1>2, <1>7 DEF Bury, TypeOK, RowsOK, rowVars, fileVars, recoverVars, bounds
  <2>3. Row(e)'
    BY <1>2, <2>1, <2>2 DEF Row, Dead, Running, Stray, Untouched, GradedStatuses
  <2>4. QED
    BY <1>2, <2>1, <2>2, <2>3, WorkerOwn DEF SameRow
<1>8. QED
  BY <1>4, <1>5, <1>6, <1>7

\* run_next() up to its selection: nobody else is on an experiment that is QUEUED.
LEMMA QueuedIsFree ==
    ASSUME TypeOK, Custody, Admission, NEW w \in Workers, pc[w] = "select",
           NEW e \in Experiments, status[e] = "QUEUED",
           NEW u \in Threads \ {w, Api}
    PROVE  job[u] # e
<1> SUFFICES ASSUME job[u] = e
             PROVE  FALSE
  OBVIOUS
<1>1. Fine(u) /\ pc[u] \in BusyLabels
  BY Jobless DEF Custody
<1>2. u \notin Retriers
  BY <1>1, HeldByRetry DEF Reviewed
<1>3. pc[u] = "move" => goal[u] \in Targets \ {"ACCEPTED"}
  BY <1>1 DEF Fine, Role, TypeOK, FramesOK
<1>4. Starting(u) \/ pc[u] \in RescueLabels
  BY <1>1, <1>2, <1>3
     DEF Fine, Role, Place, BusyLabels, WorkerLabels, ReviewLabels, RunLabels, RescueLabels,
         Starting, Asks, Targets, Statuses
<1>5. u \in Workers
  BY <1>1, <1>4 DEF Admission, Starting, Fine, Role, WorkerLabels, RescueLabels
<1>6. pc[u] = "idle"
  BY <1>5, OtherWorkersIdle
<1>7. QED
  BY <1>1, <1>6, LabelKinds

\* A worker without an experiment goes on without one.
LEMMA IdleStep ==
    ASSUME TypeOK, Custody, NEW w \in Workers, pc[Main] = "serving",
           pc[w] \in {"idle", "check", "select"}, pc'[w] \in {"check", "select"},
           job' = job, OthersKeep(w), Quiet
    PROVE  Custody'
<1>1. w \in Threads /\ w # Main /\ w # Api /\ w \notin Retriers \cup Experiments /\ Main \in Threads
  BY GroupsOfThreads
<1>2. job[w] = NoExp
  BY <1>1, Jobless, BusyFacts, LabelKinds
<1>3. Fine(w)'
  BY <1>1 DEF Fine, Role, Place, Progress, Asks, Starting, StartLabels, RunLabels,
              RescueLabels, ReviewLabels
<1>4. \A u \in Threads : Fine(u)'
  BY <1>3, FineKept DEF Quiet, OthersKeep
<1>5. \A f \in Experiments : Row(f)'
  BY RowKept DEF Quiet
<1>6. Alone' /\ Startups'
  BY <1>1 DEF OthersKeep, Custody, Alone, Startups, Quiet
<1>7. QED
  BY <1>4, <1>5, <1>6 DEF Custody

LEMMA RunNextCustody ==
    ASSUME TypeOK, Custody, Admission, NEW w \in Workers,
           RunNext(w) \/ CheckActive(w) \/ SelectQueued(w)
    PROVE  Custody'
<1>1. w \in Threads /\ w # Main /\ w # Api /\ w \notin Retriers \cup Experiments
  BY GroupsOfThreads
<1>2. Quiet
  BY QuietSteps DEF RunNext, CheckActive, SelectQueued, Quiet, SameRow, rowVars, fileVars,
                    recoverVars, bounds
<1>3. pc[Main] = "serving"
  BY DEF RunNext, CheckActive, SelectQueued, Serving, Custody, Startups
<1>4. CASE RunNext(w)
  <2>1. pc'[w] = "check" /\ pc[w] = "idle" /\ job' = job /\ OthersKeep(w)
    BY <1>1, <1>4 DEF RunNext, OthersKeep, TypeOK, FramesOK
  <2>2. QED
    BY <1>2, <1>3, <2>1, IdleStep
<1>5. CASE CheckActive(w)
  <2>1. CASE Return(w)
    BY <1>1, <1>2, <2>1, ReturnCustody
  <2>2. CASE Goto(w, "select")
    <3>1. pc'[w] = "select" /\ pc[w] = "check" /\ job' = job /\ OthersKeep(w)
      BY <1>1, <1>5, <2>2, GotoMoves DEF Goto, CheckActive
    <3>2. QED
      BY <1>2, <1>3, <3>1, IdleStep
  <2>3. QED
    BY <1>5, <2>1, <2>2 DEF CheckActive
<1>6. CASE SelectQueued(w)
  <2>1. CASE Return(w)
    BY <1>1, <1>2, <2>1, ReturnCustody
  <2>2. ASSUME NEW e \in Queued, Begin(w, e, "worktree")
        PROVE  Custody'
    <3>1. /\ pc[w] = "select" /\ pc'[w] = "worktree" /\ job'[w] = e /\ OthersKeep(w)
          /\ e \in Experiments /\ status[e] = "QUEUED"
      BY <1>1, <1>6, <2>2, BeginMoves DEF SelectQueued, Queued
    <3>2. \A u \in Threads \ {w, Api} : job[u] # e
      BY <3>1, QueuedIsFree
    <3>3. Row(e) /\ Row(e)'
      BY <1>2, <3>1, RowKept DEF Custody, Quiet
    <3>4. Place(w)' /\ Progress(w)'
      BY <1>1, <1>2, <3>1, <3>3
         DEF Place, Progress, Asks, Starting, StartLabels, RunLabels, RescueLabels, ReviewLabels,
             Quiet, SameRow, Row, Untouched
    <3>5. Startups'
      <4>1. pc'[Main] = "serving"
        BY <1>1, <1>3, <3>1, GroupsOfThreads DEF OthersKeep
      <4>2. QED
        BY <1>2, <1>3, <4>1 DEF Custody, Startups, Quiet
    <3>6. QED
      BY <1>1, <1>2, <3>1, <3>2, <3>3, <3>4, <3>5, Step, WorkerFine DEF Quiet, WorkerLabels
  <2>3. QED
    BY <1>6, <2>1, <2>2 DEF SelectQueued
<1>7. QED
  BY <1>4, <1>5, <1>6

LEMMA WorkerCustody ==
    ASSUME TypeOK, Custody, Admission, NEW w \in Workers, WorkerStep(w) \/ RunFails(w)
    PROVE  Custody'
  BY RunNextCustody, StartCustody, SuperviseCustody, SealCustody, RescueCustody DEF WorkerStep

-----------------------------------------------------------------------------
\* _transition, _grade, _review and _accept keep custody.

\* ALLOWED_TRANSITIONS, where a thread other than a retry may ask for a target.
LEMMA Table ==
    /\ AllowedTransitions["QUEUED"] = {"RUNNING", "CANCELLED", "FAILED"}
    /\ AllowedTransitions["RUNNING"] = {"GRADING", "CANCELLED", "FAILED", "ORPHANED"}
    /\ AllowedTransitions["GRADING"] = {"REVIEW_PENDING", "VERIFICATION_FAILED", "FAILED"}
    /\ AllowedTransitions["REVIEW_PENDING"] =
          {"ACCEPTED", "REJECTED", "REVIEW_BLOCKED", "NEEDS_HUMAN", "VERIFICATION_FAILED"}
    /\ AllowedTransitions["CANCELLED"] = {}
    /\ AllowedTransitions["ABSENT"] = {}
  BY DEF AllowedTransitions, Statuses

\* The outcomes of _transition.
LEMMA MoveCases ==
    ASSUME TypeOK, NEW t \in Threads, NEW e, e = job[t], Move(t)
    PROVE  /\ pc[t] = "move" /\ pc[t] \in BusyLabels /\ e \in Experiments
           /\ goal[t] \in Targets /\ status[e] \in Statuses \cup {"ABSENT"}
           /\ runStatus' = runStatus /\ pid' = pid /\ cancel' = cancel
           /\ evidence' = evidence /\ proc' = proc /\ receipt' = receipt
           /\ crashes' = crashes /\ seen' = seen /\ todo' = todo
           /\ \/ status[e] = goal[t] /\ Quiet /\ Continue(t)
              \/ /\ goal[t] \in AllowedTransitions[status[e]]
                 /\ status'[e] = goal[t]
                 /\ \A f \in Experiments \ {e} : SameRow(f)
                 /\ Continue(t)
              \/ /\ goal[t] # status[e] /\ goal[t] \notin AllowedTransitions[status[e]]
                 /\ Quiet /\ Throw(t)
  BY BusyFacts
     DEF Move, TypeOK, FramesOK, RowsOK, Quiet, SameRow, rowVars, fileVars, recoverVars, bounds

\* An error in a worker takes it to the handler.
LEMMA WorkerThrows ==
    ASSUME TypeOK, Custody, NEW w \in Workers, NEW e \in Experiments, e = job[w],
           pc[w] \in BusyLabels, Throw(w), Quiet, status[e] \in Rescued
    PROVE  Custody'
<1>1. w \in Threads /\ w \notin Retriers \cup {Api}
  BY GroupsOfThreads
<1>2. pc'[w] = "rescue" /\ job'[w] = e /\ goal'[w] = goal[w] /\ OthersKeep(w)
  BY <1>1, GotoMoves DEF Throw
<1>3. Place(w)' /\ Progress(w)'
  BY <1>1, <1>2
     DEF Place, Progress, Asks, Starting, StartLabels, RunLabels, RescueLabels, ReviewLabels,
         Quiet, SameRow
<1>4. Row(e)'
  BY RowKept DEF Quiet
<1>5. QED
  BY <1>2, <1>3, <1>4, WorkerFine, WorkerOwn DEF Quiet, WorkerLabels

\* The worker starts its experiment, unless a cancel came first.
LEMMA StartMoves ==
    ASSUME TypeOK, Custody, NEW w \in Workers, NEW e, e = job[w],
           goal[w] = "RUNNING", Move(w)
    PROVE  Custody'
<1>1. w \in Threads /\ w \notin Retriers \cup {Api} /\ w # Api
  BY GroupsOfThreads
<1>2. /\ pc[w] = "move" /\ pc[w] \in BusyLabels /\ e \in Experiments
      /\ runStatus' = runStatus /\ pid' = pid /\ cancel' = cancel
      /\ evidence' = evidence /\ proc' = proc /\ receipt' = receipt
      /\ crashes' = crashes /\ seen' = seen /\ todo' = todo
  BY <1>1, MoveCases
<1>3. Place(w) /\ Progress(w) /\ Row(e)
  BY <1>2, WorkerHas DEF Fine
<1>4. status[e] \in {"QUEUED", "CANCELLED"} /\ Untouched(e)
  BY <1>1, <1>2, <1>3 DEF Place, Progress, Starting
<1>5. CASE status[e] = "QUEUED"
  <2>1. /\ status'[e] = "RUNNING" /\ Continue(w)
        /\ \A f \in Experiments \ {e} : SameRow(f)
    BY <1>1, <1>5, MoveCases, Table
  <2>2. pc'[w] = "authorize" /\ job'[w] = e /\ goal'[w] = goal[w] /\ OthersKeep(w)
    BY <1>1, <2>1, GotoMoves DEF Continue
  <2>3. Place(w)' /\ Progress(w)'
    BY <1>1, <1>2, <1>4, <2>1, <2>2
       DEF Place, Progress, Asks, Starting, StartLabels, RunLabels, RescueLabels, ReviewLabels,
           Untouched
  <2>4. Row(e)'
    BY <1>2, <1>4, <2>1 DEF Row, Dead, Running, Untouched, GradedStatuses
  <2>5. QED
    BY <1>2, <2>1, <2>2, <2>3, <2>4, WorkerFine, WorkerOwn DEF WorkerLabels
<1>6. CASE status[e] = "CANCELLED"
  <2>1. Throw(w) /\ Quiet
    BY <1>1, <1>6, MoveCases, Table
  <2>2. QED
    BY <1>2, <1>6, <2>1, WorkerThrows DEF Rescued
<1>7. QED
  BY <1>4, <1>5, <1>6

\* The run is over and its outcome decided, unless a cancel came first.
LEMMA OutcomeMoves ==
    ASSUME TypeOK, Custody, NEW t \in Threads, t \notin Retriers \cup {Api},
           NEW e, e = job[t],
           goal[t] \in {"GRADING", "CANCELLED", "FAILED", "ORPHANED"}, Move(t)
    PROVE  Custody'
<1>1. /\ pc[t] = "move" /\ pc[t] \in BusyLabels /\ e \in Experiments
      /\ runStatus' = runStatus /\ pid' = pid /\ cancel' = cancel
      /\ evidence' = evidence /\ proc' = proc /\ receipt' = receipt
      /\ crashes' = crashes /\ seen' = seen /\ todo' = todo
  BY MoveCases
<1>2. Place(t) /\ Progress(t) /\ Row(e) /\ Role(t) /\ t # Api
  BY <1>1 DEF Custody, Fine
<1>3. status[e] \in {"RUNNING", "CANCELLED"}
  BY <1>1, <1>2 DEF Place, Asks
<1>4. CASE Quiet /\ Throw(t)
  <2>1. CASE t \in Workers
    BY <1>1, <1>3, <1>4, <2>1, WorkerThrows DEF Rescued
  <2>2. CASE t \notin Workers
    BY <1>1, <1>4, <2>2, ThrowCustody
  <2>3. QED
    BY <2>1, <2>2
<1>5. CASE Quiet /\ Continue(t) /\ status[e] = goal[t]
  <2>1. Return(t)
    BY <1>3, <1>5 DEF Continue
  <2>2. QED
    BY <1>1, <1>5, <2>1, ReturnCustody
<1>6. CASE /\ status[e] = "RUNNING" /\ status'[e] = goal[t]
           /\ \A f \in Experiments \ {e} : SameRow(f)
           /\ Continue(t)
  <2>1. CASE goal[t] = "GRADING"
    <3>1. pc'[t] = "grade" /\ job'[t] = e /\ goal'[t] = goal[t] /\ OthersKeep(t)
      BY <1>6, <2>1, GotoMoves DEF Continue
    <3>2. /\ proc[e] = "exit0" /\ receipt[e] = "whole" /\ runStatus[e] = "FINISHED"
          /\ cancel[e] # "queued"
          /\ crashes = 0 => evidence[e]
      BY <1>1, <1>2, <2>1 DEF Progress, Asks
    <3>3. Role(t)' /\ Place(t)' /\ Progress(t)'
      BY <1>2, <1>6, <2>1, <3>1, GroupsOfThreads
         DEF Role, Place, Progress, Asks, Starting, StartLabels, RunLabels, RescueLabels,
             ReviewLabels, WorkerLabels
    <3>4. Row(e)'
      BY <1>1, <1>6, <2>1, <3>2 DEF Row, Dead, Running
    <3>5. t # Main \/ pc'[t] \notin {"down", "serving"}
      BY <3>1
    <3>6. QED
      BY <1>1, <1>6, <3>1, <3>3, <3>4, OwnStep DEF Fine
  <2>2. CASE goal[t] \in {"CANCELLED", "FAILED", "ORPHANED"}
    <3>1. Return(t)
      BY <1>6, <2>2 DEF Continue
    <3>2. /\ job'[t] = NoExp /\ OthersKeep(t) /\ Fine(t)'
          /\ pc'[t] \notin {"down", "serving"}
      BY <3>1, ReturnMoves
    <3>3. /\ goal[t] \in {"CANCELLED", "FAILED"} => Dead(e)
          /\ goal[t] = "ORPHANED" => ~pid[e] \/ ~Running(e)
      BY <1>1, <1>2 DEF Progress, Asks
    <3>4. Row(e)'
      BY <1>1, <1>2, <1>6, <2>2, <3>3 DEF Row, Dead, Running, Stray, Untouched, GradedStatuses
    <3>5. QED
      BY <1>1, <1>6, <3>2, <3>4, OwnStep
  <2>3. QED
    BY <2>1, <2>2
<1>7. QED
  BY <1>3, <1>4, <1>5, <1>6, MoveCases, Table

\* The grader or the reviewer has spoken.
LEMMA VerdictMoves ==
    ASSUME TypeOK, Custody, NEW t \in Threads, t \notin Retriers \cup {Api},
           NEW e, e = job[t], goal[t] \in ReviewGoals, Move(t)
    PROVE  Custody'
<1>1. /\ pc[t] = "move" /\ pc[t] \in BusyLabels /\ e \in Experiments
      /\ runStatus' = runStatus /\ pid' = pid /\ cancel' = cancel
      /\ evidence' = evidence /\ proc' = proc /\ receipt' = receipt
      /\ crashes' = crashes /\ seen' = seen /\ todo' = todo
  BY MoveCases
<1>2. Role(t) /\ Place(t) /\ Row(e) /\ t # Api
  BY <1>1 DEF Custody, Fine
<1>3. /\ goal[t] = "REVIEW_PENDING" => status[e] = "GRADING"
      /\ goal[t] = "VERIFICATION_FAILED" => status[e] \in {"GRADING", "REVIEW_PENDING"}
      /\ goal[t] \notin {"REVIEW_PENDING", "VERIFICATION_FAILED"} =>
            status[e] = "REVIEW_PENDING"
  BY <1>1, <1>2 DEF Place, Asks, ReviewGoals
<1>4. /\ status[e] \in {"GRADING", "REVIEW_PENDING"} /\ status'[e] = goal[t]
      /\ \A f \in Experiments \ {e} : SameRow(f)
      /\ Continue(t)
  BY <1>3, MoveCases, Table DEF ReviewGoals
<1>5. Row(e)'
  BY <1>1, <1>2, <1>4 DEF Row, Dead, Running, GradedStatuses, ReviewGoals
<1>6. CASE goal[t] = "REVIEW_PENDING"
  <2>1. pc'[t] = "review" /\ job'[t] = e /\ goal'[t] = goal[t] /\ OthersKeep(t)
    BY <1>4, <1>6, GotoMoves DEF Continue
  <2>2. Role(t)' /\ Place(t)' /\ Progress(t)'
    BY <1>2, <1>4, <1>6, <2>1, GroupsOfThreads
       DEF Role, Place, Progress, Asks, Starting, StartLabels, RunLabels, RescueLabels,
           ReviewLabels, WorkerLabels
  <2>3. QED
    BY <1>1, <1>4, <1>5, <2>1, <2>2, OwnStep DEF Fine
<1>7. CASE goal[t] # "REVIEW_PENDING"
  <2>1. Return(t)
    BY <1>4, <1>7 DEF Continue, ReviewGoals
  <2>2. /\ job'[t] = NoExp /\ OthersKeep(t) /\ Fine(t)'
        /\ pc'[t] \notin {"down", "serving"}
    BY <2>1, ReturnMoves
  <2>3. QED
    BY <1>1, <1>4, <1>5, <2>2, OwnStep
<1>8. QED
  BY <1>6, <1>7

\* A retry's call of _transition, which another retry may have anticipated.
LEMMA RetryMoves ==
    ASSUME TypeOK, Custody, NEW t \in Retriers, NEW e, e = job[t], Move(t)
    PROVE  Custody'
<1>1. t \in Threads /\ t # Main /\ t # Api /\ t \notin Workers \cup Experiments
  BY GroupsOfThreads
<1>2. /\ pc[t] = "move" /\ pc[t] \in BusyLabels /\ e \in Experiments
      /\ runStatus' = runStatus /\ pid' = pid /\ cancel' = cancel
      /\ evidence' = evidence /\ proc' = proc /\ receipt' = receipt
      /\ crashes' = crashes /\ seen' = seen /\ todo' = todo
  BY <1>1, MoveCases
<1>3. Role(t) /\ Row(e)
  BY <1>1, <1>2 DEF Custody, Fine
<1>4. goal[t] \in ReviewGoals /\ status[e] \in Reviewed /\ status[e] \in GradedStatuses
  BY <1>1, <1>2, <1>3, HeldByRetry DEF Role
<1>5. CASE Quiet /\ Throw(t)
  BY <1>1, <1>2, <1>5, ThrowCustody
<1>6. CASE /\ status'[e] = goal[t]
           /\ \A f \in Experiments \ {e} : SameRow(f)
           /\ Continue(t)
  <2>1. status'[e] \in Reviewed /\ status'[e] \in GradedStatuses
    BY <1>4, <1>6 DEF Reviewed, GradedStatuses, ReviewGoals
  <2>2. Row(e)'
    BY <1>2, <1>3, <1>4, <2>1 DEF Row, Dead, Running, GradedStatuses
  <2>3. CASE Return(t)
    <3>1. job'[t] = NoExp /\ OthersKeep(t) /\ Fine(t)'
      BY <1>1, <2>3, ReturnMoves
    <3>2. QED
      BY <1>2, <1>6, <2>1, <2>2, <3>1, RetryStep
  <2>4. CASE Goto(t, "review")
    <3>1. pc'[t] = "review" /\ job'[t] = e /\ goal'[t] = goal[t] /\ OthersKeep(t)
      BY <1>1, <2>4, GotoMoves
    <3>2. Role(t)' /\ Place(t)' /\ Progress(t)'
      BY <1>1, <2>1, <3>1
         DEF Role, Place, Progress, Asks, Starting, StartLabels, ReviewLabels, WorkerLabels
    <3>3. QED
      BY <1>2, <1>6, <2>1, <2>2, <3>1, <3>2, RetryStep DEF Fine
  <2>5. QED
    BY <1>4, <1>6, <2>3, <2>4 DEF Continue, ReviewGoals
<1>7. Quiet /\ status[e] = goal[t] => status'[e] = goal[t]
  BY <1>2 DEF Quiet, SameRow
<1>8. QED
  BY <1>1, <1>5, <1>6, <1>7, MoveCases DEF Quiet

\* cancel()'s call of _transition: whoever has the experiment finds out later.
LEMMA CancelMoves ==
    ASSUME TypeOK, Custody, NEW e, e = job[Api], Move(Api)
    PROVE  Custody'
<1>1. /\ Api \in Threads /\ Main \in Threads /\ Api # Main
      /\ Api \notin Workers \cup Retriers \cup Experiments
  BY GroupsOfThreads
<1>2. /\ pc[Api] = "move" /\ pc[Api] \in BusyLabels /\ e \in Experiments
      /\ runStatus' = runStatus /\ pid' = pid /\ cancel' = cancel
      /\ evidence' = evidence /\ proc' = proc /\ receipt' = receipt
      /\ crashes' = crashes /\ seen' = seen /\ todo' = todo
  BY <1>1, MoveCases
<1>3. goal[Api] = "CANCELLED"
  BY <1>1, <1>2 DEF Custody, Fine, Role, Asks
<1>4. CASE Quiet /\ (Continue(Api) \/ Throw(Api))
  <2>1. Return(Api)
    BY <1>1, <1>3, <1>4 DEF Continue, Throw, Unwind
  <2>2. QED
    BY <1>1, <1>4, <2>1, ReturnCustody
<1>5. CASE /\ "CANCELLED" \in AllowedTransitions[status[e]]
           /\ status'[e] = "CANCELLED"
           /\ \A f \in Experiments \ {e} : SameRow(f)
           /\ Continue(Api)
  <2>1. Return(Api)
    BY <1>3, <1>5 DEF Continue
  <2>2. job'[Api] = NoExp /\ OthersKeep(Api) /\ Fine(Api)'
    BY <1>1, <2>1, ReturnMoves
  <2>3. status[e] \in Statuses \cup {"ABSENT"}
    BY <1>2 DEF TypeOK, RowsOK
  <2>4. status[e] \in {"DRAFT", "QUEUED", "RUNNING"}
    BY <1>5, <2>3 DEF AllowedTransitions, Statuses
  <2>5. ASSUME NEW u \in Threads
        PROVE  Fine(u)'
    <3>1. CASE u # Api /\ job[u] = e
      <4>1. u \notin Retriers
        BY <1>2, <2>4, <3>1, HeldByRetry DEF Reviewed
      <4>2. Fine(u) /\ pc'[u] = pc[u] /\ job'[u] = e /\ goal'[u] = goal[u]
        BY <2>2, <3>1 DEF Custody, OthersKeep
      <4>3. Role(u)'
        BY <3>1, <4>2 DEF Fine, Role, Asks
      <4>4. Place(u)'
        BY <1>5, <2>4, <3>1, <4>1, <4>2 DEF Fine, Place, Asks, Starting, Rescued
      <4>5. Progress(u)'
        BY <1>2, <3>1, <4>2 DEF Fine, Progress, Asks, Starting, Untouched, Dead, Running
      <4>6. QED
        BY <4>3, <4>4, <4>5 DEF Fine
    <3>2. CASE u # Api /\ job[u] # e
      <4>1. job[u] \in Experiments => SameRow(job[u])
        BY <1>5, <3>2
      <4>2. QED
        BY <1>2, <2>2, <3>2, <4>1, FineKept DEF OthersKeep
    <3>3. QED
      BY <2>2, <3>1, <3>2
  <2>6. Row(e)'
    BY <1>2, <1>5 DEF Custody, Row, Dead, Running, Stray, GradedStatuses
  <2>7. \A f \in Experiments : Row(f)'
    BY <1>2, <1>5, <2>6, RowKept
  <2>8. Alone'
    BY <2>2, NamesOfNothing DEF OthersKeep, Custody, Alone
  <2>9. Startups'
    BY <1>1, <1>2, <1>5, <2>2, StartupsOwn
  <2>10. QED
    BY <2>5, <2>7, <2>8, <2>9 DEF Custody
<1>6. QED
  BY <1>1, <1>3, <1>4, <1>5, MoveCases

LEMMA MoveCustody ==
    ASSUME TypeOK, Custody, Admission, NEW t \in Threads, Move(t)
    PROVE  Custody'
<1>1. CASE t = Api
  BY <1>1, CancelMoves
<1>2. CASE t \in Retriers
  BY <1>2, RetryMoves
<1>3. CASE t \notin Retriers \cup {Api}
  <2>1. pc[t] = "move" /\ goal[t] \in Targets /\ goal[t] # "ACCEPTED"
    BY MoveCases DEF Custody, Fine, Role
  <2>2. goal[t] = "RUNNING" => t \in Workers
    BY <2>1 DEF Admission
  <2>3. goal[t] \in {"RUNNING", "GRADING", "CANCELLED", "FAILED", "ORPHANED"} \cup ReviewGoals
    BY <2>1 DEF Targets, Statuses, ReviewGoals
  <2>4. QED
    BY <1>3, <2>2, <2>3, StartMoves, OutcomeMoves, VerdictMoves
<1>4. QED
  BY <1>1, <1>2, <1>3

\* A thread that is not a retry goes from one label to another and changes no row.
LEMMA OwnGoes ==
    ASSUME TypeOK, Custody, NEW t \in Threads, t \notin Retriers \cup {Api},
           NEW e \in Experiments, job[t] = e, job'[t] = e,
           pc'[t] \in {"move", "ask", "accept"}, OthersKeep(t), Quiet, Fine(t)'
    PROVE  Custody'
<1>1. Row(e)'
  BY RowKept DEF Custody, Quiet
<1>2. QED
  BY <1>1, OwnStep DEF Quiet

LEMMA RetryGoes ==
    ASSUME TypeOK, Custody, NEW t \in Retriers, NEW e \in Experiments,
           job[t] = e, job'[t] = e, OthersKeep(t), Quiet, Fine(t)'
    PROVE  Custody'
<1>1. Row(e)'
  BY RowKept DEF Custody, Quiet
<1>2. status'[e] \in Reviewed
  BY HeldByRetry DEF Quiet, SameRow
<1>3. QED
  BY <1>1, <1>2, RetryStep DEF Quiet

LEMMA GradeCustody ==
    ASSUME TypeOK, Custody, NEW t \in Threads, NEW e, e = job[t],
           Adopt(t) \/ Grade(t) \/ OpenReview(t) \/ Verdict(t)
    PROVE  Custody'
<1>1. pc[t] \in BusyLabels
  BY BusyFacts DEF Adopt, Grade, OpenReview, Verdict, ReviewLabels
<1>2. e \in Experiments /\ Fine(t) /\ Row(e)
  BY <1>1 DEF Custody, TypeOK, FramesOK
<1>3. t # Api
  BY <1>2 DEF Fine, Role, Asks, Adopt, Grade, OpenReview, Verdict
<1>4. Quiet
  BY QuietSteps DEF Adopt, Grade, OpenReview, Verdict, Quiet, SameRow, rowVars, fileVars,
                    recoverVars, bounds
<1>5. /\ pc'[t] \in {"move", "ask", "accept"} /\ job'[t] = e /\ OthersKeep(t)
      /\ pc'[t] # "move" => goal'[t] = goal[t]
  BY <1>2, GotoMoves, RequestMoves DEF Adopt, Grade, OpenReview, Verdict
<1>6. CASE Adopt(t)
  <2>1. t \notin Retriers \cup {Api}
    BY <1>2, <1>3, <1>6 DEF Adopt, Fine, Role, ReviewLabels
  <2>2. /\ pc[t] = "adopt" /\ status[e] \in {"RUNNING", "CANCELLED"}
        /\ receipt[e] = "whole" /\ runStatus[e] = "FINISHED" /\ Dead(e) /\ crashes # 0
        /\ cancel[e] = "queued" => seen[e]
    BY <1>2, <1>3, <1>6, <2>1 DEF Adopt, Fine, Place, Progress, Row, RunLabels
  <2>3. /\ pc'[t] = "move"
        /\ \/ goal'[t] \in {"CANCELLED", "FAILED"}
           \/ goal'[t] = "GRADING" /\ ~seen[e] /\ proc[e] = "exit0"
    BY <1>2, <1>6, RequestMoves DEF Adopt
  <2>4. Role(t)' /\ Place(t)' /\ Progress(t)'
    BY <1>2, <1>3, <1>4, <1>5, <2>1, <2>2, <2>3
       DEF Fine, Role, Place, Progress, Asks, Starting, StartLabels, RunLabels, RescueLabels,
           ReviewLabels, WorkerLabels, Quiet, SameRow, Dead
  <2>5. QED
    BY <1>2, <1>4, <1>5, <2>1, <2>4, OwnGoes DEF Fine
<1>7. CASE Grade(t)
  <2>1. t \notin Retriers \cup {Api}
    BY <1>2, <1>3, <1>7 DEF Grade, Fine, Role, ReviewLabels
  <2>2. pc[t] = "grade" /\ status[e] = "GRADING"
    BY <1>2, <1>7, <2>1 DEF Grade, Fine, Place
  <2>3. pc'[t] = "move" /\ goal'[t] \in {"REVIEW_PENDING", "VERIFICATION_FAILED"}
    BY <1>2, <1>7, RequestMoves DEF Grade
  <2>4. Role(t)' /\ Place(t)' /\ Progress(t)'
    BY <1>2, <1>3, <1>4, <1>5, <2>1, <2>2, <2>3
       DEF Fine, Role, Place, Progress, Asks, Starting, StartLabels, RunLabels, RescueLabels,
           ReviewLabels, WorkerLabels, Quiet, SameRow
  <2>5. QED
    BY <1>2, <1>4, <1>5, <2>1, <2>4, OwnGoes DEF Fine
<1>8. CASE OpenReview(t) \/ Verdict(t)
  <2>1. /\ pc[t] \in ReviewLabels /\ pc'[t] \in {"move", "ask", "accept"}
        /\ pc'[t] = "move" => goal'[t] \in ReviewGoals \ {"REVIEW_PENDING"}
    BY <1>2, <1>5, <1>8, GotoMoves, RequestMoves
       DEF OpenReview, Verdict, ReviewLabels, ReviewGoals
  <2>2. CASE t \in Retriers
    <3>1. status[e] \in Reviewed /\ t \notin Workers \cup Experiments /\ t # Main
      BY <1>2, <2>2, HeldByRetry, GroupsOfThreads
    <3>2. Role(t)' /\ Place(t)' /\ Progress(t)'
      <4>1. Role(t)'
        BY <1>3, <2>1, <2>2, <3>1 DEF Role, Asks, ReviewLabels, WorkerLabels, ReviewGoals
      <4>2. Place(t)'
        BY <1>2, <1>4, <1>5, <2>2, <3>1 DEF Place, Quiet, SameRow
      <4>3. Progress(t)'
        BY <2>1 DEF Progress, Asks, Starting, StartLabels, ReviewGoals
      <4>4. QED
        BY <4>1, <4>2, <4>3
    <3>3. QED
      BY <1>2, <1>4, <1>5, <2>2, <3>2, RetryGoes DEF Fine
  <2>3. CASE t \notin Retriers
    <3>1. status[e] = "REVIEW_PENDING"
      BY <1>2, <1>3, <2>1, <2>3 DEF Fine, Place
    <3>2. Role(t)' /\ Place(t)' /\ Progress(t)'
      BY <1>2, <1>3, <1>4, <1>5, <2>1, <2>3, <3>1
         DEF Fine, Role, Place, Progress, Asks, Starting, StartLabels, RunLabels, RescueLabels,
             ReviewLabels, WorkerLabels, ReviewGoals, Quiet, SameRow
    <3>3. QED
      BY <1>2, <1>3, <1>4, <1>5, <2>3, <3>2, OwnGoes DEF Fine
  <2>4. QED
    BY <2>2, <2>3
<1>9. QED
  BY <1>6, <1>7, <1>8

LEMMA AcceptCustody ==
    ASSUME TypeOK, Custody, NEW t \in Threads, NEW e, e = job[t], Accept(t)
    PROVE  Custody'
<1>1. pc[t] = "accept" /\ pc[t] \in BusyLabels /\ t # Api
  BY BusyFacts DEF Accept, ReviewLabels, Custody, Fine, Role, Asks
<1>2. e \in Experiments /\ Place(t) /\ Row(e)
  BY <1>1 DEF Custody, Fine, TypeOK, FramesOK
<1>3. t \notin Workers \cup {Main} \/ status[e] = "REVIEW_PENDING"
  BY <1>1, <1>2, GroupsOfThreads DEF Place, ReviewLabels
<1>4. CASE UNCHANGED status /\ Throw(t) /\ status[e] # "REVIEW_PENDING"
  <2>1. Quiet
    BY <1>4 DEF Accept, Quiet, SameRow, rowVars, fileVars, recoverVars, bounds
  <2>2. t \notin Workers
    BY <1>3, <1>4
  <2>3. QED
    BY <1>1, <1>4, <2>1, <2>2, ThrowCustody
<1>5. CASE /\ status[e] = "REVIEW_PENDING"
           /\ status' = [status EXCEPT ![e] = "ACCEPTED"] /\ Return(t)
  <2>1. /\ job'[t] = NoExp /\ OthersKeep(t) /\ Fine(t)'
        /\ pc'[t] \notin {"down", "serving"}
    BY <1>5, ReturnMoves
  <2>2. /\ runStatus' = runStatus /\ pid' = pid /\ cancel' = cancel
        /\ evidence' = evidence /\ proc' = proc /\ receipt' = receipt
        /\ crashes' = crashes /\ seen' = seen /\ todo' = todo
        /\ status'[e] = "ACCEPTED"
        /\ \A f \in Experiments \ {e} : SameRow(f)
    BY <1>2, <1>5 DEF Accept, TypeOK, RowsOK, SameRow, rowVars, fileVars, recoverVars, bounds
  <2>3. Row(e)'
    BY <1>2, <1>5, <2>2 DEF Row, Dead, Running, GradedStatuses
  <2>4. CASE t \in Retriers
    BY <1>2, <2>1, <2>2, <2>3, <2>4, RetryStep DEF Reviewed
  <2>5. CASE t \notin Retriers
    BY <1>1, <1>2, <2>1, <2>2, <2>3, <2>5, OwnStep
  <2>6. QED
    BY <2>4, <2>5
<1>6. QED
  BY <1>4, <1>5 DEF Accept

LEMMA FaultCustody ==
    ASSUME TypeOK, Custody, NEW t \in Threads, NEW e, e = job[t], Fault(t)
    PROVE  Custody'
<1>1. Quiet
  BY QuietSteps DEF Fault, ReadFails, ReviewFails, Escape, Quiet, SameRow, rowVars, fileVars,
                    recoverVars, bounds
<1>2. CASE ReadFails(t)
  <2>1. /\ pc[t] \in {"grade", "review", "accept"} /\ pc[t] \in BusyLabels
        /\ ~SnapshotsReadable /\ Throw(t)
    BY <1>2, BusyFacts DEF ReadFails, ReviewLabels, SnapshotsReadable
  <2>2. CASE t \in Workers
    <3>1. e \in Experiments /\ Place(t) /\ t \notin Retriers \cup {Api}
      BY <2>1, <2>2, WorkerHas DEF Fine
    <3>2. status[e] \in Rescued
      BY <2>1, <3>1 DEF Place, ReviewLabels, Rescued
    <3>3. QED
      BY <1>1, <2>1, <2>2, <3>1, <3>2, WorkerThrows
  <2>3. CASE t \notin Workers
    BY <1>1, <2>1, <2>3, ThrowCustody
  <2>4. QED
    BY <2>2, <2>3
<1>3. CASE ReviewFails(t)
  <2>1. pc[t] \in BusyLabels /\ pc[t] # "serving"
    BY <1>3, BusyFacts DEF ReviewFails, ReviewLabels
  <2>2. QED
    BY <1>1, <1>3, <2>1, ReturnCustody, UnwindCustody DEF ReviewFails
<1>4. CASE Escape(t)
  BY <1>1, <1>4, ServingIsNoCall, UnwindCustody DEF Escape
<1>5. QED
  BY <1>2, <1>3, <1>4 DEF Fault

-----------------------------------------------------------------------------
\* submit(), cancel() and the request part of retry_review().

\* Nobody but the event loop is on an experiment that was not submitted.
LEMMA AbsentIsFree ==
    ASSUME TypeOK, Custody, NEW e \in Experiments, status[e] = "ABSENT",
           NEW u \in Threads, u # Api
    PROVE  job[u] # e
  BY Held, HeldByRetry DEF Reviewed

LEMMA SubmitCustody ==
    ASSUME TypeOK, Custody, NEW e \in Experiments, Submit(e)
    PROVE  Custody'
<1>1. /\ Serving /\ status[e] = "ABSENT" /\ pc[Api] = "idle"
      /\ pc' = pc /\ job' = job /\ goal' = goal
      /\ runStatus' = runStatus /\ pid' = pid /\ cancel' = cancel
      /\ evidence' = evidence /\ proc' = proc /\ receipt' = receipt
      /\ crashes' = crashes /\ seen' = seen /\ todo' = todo
      /\ status'[e] = "QUEUED"
      /\ \A f \in Experiments \ {e} : SameRow(f)
  BY DEF Submit, TypeOK, RowsOK, SameRow, rowVars, fileVars, recoverVars, bounds
<1>2. ASSUME NEW u \in Threads
      PROVE  Fine(u)'
  <2>1. CASE u = Api
    BY <1>1, <2>1, ApiFine
  <2>2. CASE u # Api
    <3>1. job[u] # e
      BY <1>1, <2>2, AbsentIsFree
    <3>2. QED
      BY <1>1, <3>1, FineKept
  <2>3. QED
    BY <2>1, <2>2
<1>3. Row(e)'
  BY <1>1 DEF Custody, Row, Untouched, Dead, Running, GradedStatuses
<1>4. \A f \in Experiments : Row(f)'
  BY <1>1, <1>3, RowKept
<1>5. Alone' /\ Startups'
  BY <1>1 DEF Custody, Alone, Startups, Serving
<1>6. QED
  BY <1>2, <1>4, <1>5 DEF Custody

\* An accepted cancel only adds to what will be found later.
LEMMA CancelRequestCustody ==
    ASSUME TypeOK, Custody, NEW e \in Experiments, CancelRequest(e)
    PROVE  Custody'
<1>1. /\ Api \in Threads /\ Main \in Threads /\ Api # Main
      /\ Api \notin Workers \cup Retriers \cup Experiments
  BY GroupsOfThreads
<1>2. /\ Serving /\ status[e] \in {"QUEUED", "RUNNING"} /\ pc[Api] = "idle"
      /\ status' = status
      /\ runStatus' = runStatus /\ pid' = pid
      /\ evidence' = evidence /\ proc' = proc /\ receipt' = receipt
      /\ crashes' = crashes /\ seen' = seen /\ todo' = todo
      /\ \A f \in Experiments \ {e} : SameRow(f)
      /\ cancel'[e] = "queued" => cancel[e] = "queued" \/ status[e] = "QUEUED"
  BY DEF CancelRequest, CancellableStatuses, TypeOK, RowsOK, SameRow, rowVars, fileVars,
         recoverVars, bounds
<1>3. /\ OthersKeep(Api)
      /\ \/ pc'[Api] = "move" /\ goal'[Api] = "CANCELLED"
         \/ pc'[Api] = "kill"
         \/ pc'[Api] = "idle"
  BY <1>1, <1>2, BeginMoves, RequestMoves DEF CancelRequest, OthersKeep
<1>4. ASSUME NEW u \in Threads
      PROVE  Fine(u)'
  <2>1. CASE u = Api
    <3>1. Role(u)'
      BY <1>1, <1>3, <2>1 DEF Role, Asks, WorkerLabels
    <3>2. QED
      BY <1>1, <2>1, <3>1 DEF Fine, Place, Progress
  <2>2. CASE u # Api /\ job[u] = e
    <3>1. Fine(u) /\ pc'[u] = pc[u] /\ job'[u] = e /\ goal'[u] = goal[u]
      BY <1>3, <2>2 DEF Custody, OthersKeep
    <3>2. Role(u)' /\ Place(u)'
      BY <1>2, <2>2, <3>1 DEF Fine, Role, Place, Asks, Starting
    <3>3. Progress(u)'
      <4>1. u \notin Retriers
        BY <1>2, <2>2, HeldByRetry DEF Reviewed
      <4>2. pc[u] \in {"adopt", "watch"} \/ Asks(u, "GRADING") => status[e] # "QUEUED"
        BY <2>2, <3>1, <4>1 DEF Fine, Place, RunLabels
      <4>3. QED
        BY <1>2, <2>2, <3>1, <4>2
           DEF Fine, Progress, Asks, Starting, Untouched, Dead, Running
    <3>4. QED
      BY <3>2, <3>3 DEF Fine
  <2>3. CASE u # Api /\ job[u] # e
    <3>1. job[u] \in Experiments => SameRow(job[u])
      BY <1>2, <2>3
    <3>2. QED
      BY <1>2, <1>3, <2>3, <3>1, FineKept DEF OthersKeep
  <2>4. QED
    BY <2>1, <2>2, <2>3
<1>5. Row(e)'
  BY <1>2 DEF Custody, Row, Untouched, Dead, Running, Stray, GradedStatuses
<1>6. \A f \in Experiments : Row(f)'
  BY <1>2, <1>5, RowKept
<1>7. Alone'
  BY <1>1, <1>3 DEF OthersKeep, Custody, Alone
<1>8. Startups'
  BY <1>1, <1>2, <1>3 DEF OthersKeep, Custody, Startups, Serving
<1>9. QED
  BY <1>4, <1>6, <1>7, <1>8 DEF Custody

\* A step that only the formal process of e takes part in: it is told to end, or ends.
\* What threads and rows know of it survives.
LEMMA ProcCustody ==
    ASSUME TypeOK, Custody, NEW e \in Experiments,
           Running(e),
           proc'[e] \in {"alive", "signalled", "exit0", "exit1"},
           \A f \in Experiments \ {e} : SameRow(f),
           /\ status' = status /\ runStatus' = runStatus /\ pid' = pid /\ cancel' = cancel
           /\ evidence' = evidence /\ receipt' = receipt
           /\ crashes' = crashes /\ seen' = seen /\ todo' = todo
    PROVE  /\ \A f \in Experiments : Row(f)'
           /\ \A u \in Threads :
                 /\ u # Api /\ pc'[u] = pc[u] /\ job'[u] = job[u] /\ goal'[u] = goal[u]
                 => Fine(u)'
<1>1. Row(e) /\ proc[e] # "none" /\ ~Dead(e) /\ proc[e] # "exit0" /\ receipt[e] = "none"
  BY DEF Running, Custody, Row, Dead, TypeOK, FilesOK
<1>2. Row(e)'
  BY <1>1 DEF Row, Untouched, Dead, Running, Stray
<1>3. \A f \in Experiments : Row(f)'
  BY <1>2, RowKept
<1>4. ASSUME NEW u \in Threads, u # Api, pc'[u] = pc[u], job'[u] = job[u], goal'[u] = goal[u]
      PROVE  Fine(u)'
  <2>1. CASE job[u] = e
    <3>1. Fine(u)
      BY DEF Custody
    <3>2. Role(u)' /\ Place(u)'
      BY <1>4, <3>1 DEF Fine, Role, Place, Asks, Starting
    <3>3. Progress(u)'
      BY <1>1, <1>4, <2>1, <3>1 DEF Fine, Progress, Asks, Starting, Untouched, Dead, Running
    <3>4. QED
      BY <3>2, <3>3 DEF Fine
  <2>2. CASE job[u] # e
    <3>1. job[u] \in Experiments => SameRow(job[u])
      BY <2>2
    <3>2. QED
      BY <1>4, <3>1, FineKept
  <2>3. QED
    BY <2>1, <2>2
<1>5. QED
  BY <1>3, <1>4

LEMMA CancelKillCustody ==
    ASSUME TypeOK, Custody, CancelKill
    PROVE  Custody'
<1>1. /\ Api \in Threads /\ Main \in Threads /\ Api # Main
      /\ Api \notin Workers \cup Retriers \cup Experiments
  BY GroupsOfThreads
<1>2. PICK e \in Experiments : e = job[Api]
  BY <1>1, BusyFacts DEF CancelKill, TypeOK, FramesOK
<1>3. job'[Api] = NoExp /\ OthersKeep(Api) /\ Fine(Api)' /\ Return(Api)
  BY <1>1, ReturnMoves DEF CancelKill
<1>4. /\ status' = status /\ runStatus' = runStatus /\ pid' = pid /\ cancel' = cancel
      /\ evidence' = evidence /\ receipt' = receipt
      /\ crashes' = crashes /\ seen' = seen /\ todo' = todo
      /\ \A f \in Experiments \ {e} : SameRow(f)
      /\ proc'[e] = Terminated(proc[e])
  BY <1>2 DEF CancelKill, TypeOK, FilesOK, SameRow, rowVars, recoverVars, bounds
<1>5. CASE Running(e)
  <2>1. proc'[e] \in {"alive", "signalled", "exit0", "exit1"}
    BY <1>4, <1>5 DEF Terminated, Running
  <2>2. \A f \in Experiments : Row(f)'
    BY <1>4, <1>5, <2>1, ProcCustody
  <2>3. \A u \in Threads : Fine(u)'
    BY <1>3, <1>4, <1>5, <2>1, ProcCustody DEF OthersKeep
  <2>4. Alone'
    BY <1>3, NamesOfNothing DEF OthersKeep, Custody, Alone
  <2>5. Startups'
    BY <1>1, <1>2, <1>3, <1>4, StartupsOwn
  <2>6. QED
    BY <2>2, <2>3, <2>4, <2>5 DEF Custody
<1>6. CASE ~Running(e)
  <2>1. Quiet
    BY <1>2, <1>4, <1>6 DEF Quiet, SameRow, Terminated, Running
  <2>2. QED
    BY <1>1, <1>3, <2>1, ReturnCustody
<1>7. QED
  BY <1>5, <1>6

LEMMA RetryRequestCustody ==
    ASSUME TypeOK, Custody, NEW e \in Experiments, NEW r \in Retriers, RetryRequest(r, e)
    PROVE  Custody'
<1>1. /\ r \in Threads /\ r # Main /\ r # Api /\ r \notin Workers \cup Experiments
      /\ Main \in Threads
  BY GroupsOfThreads
<1>2. /\ Serving /\ status[e] \in {"REVIEW_BLOCKED", "NEEDS_HUMAN"} /\ pc[r] = "idle"
      /\ pc'[r] = "move" /\ job'[r] = e /\ goal'[r] = "REVIEW_PENDING" /\ OthersKeep(r)
      /\ Quiet
  BY <1>1, RequestMoves
     DEF RetryRequest, RetryableStatuses, Quiet, SameRow, rowVars, fileVars, recoverVars
<1>3. Fine(r)'
  BY <1>1, <1>2 DEF Fine, Role, Place, Progress, Asks, Starting, StartLabels, ReviewLabels,
                    ReviewGoals, Reviewed, WorkerLabels, Quiet, SameRow
<1>4. \A u \in Threads : Fine(u)'
  BY <1>2, <1>3, FineKept DEF Quiet, OthersKeep
<1>5. \A f \in Experiments : Row(f)'
  BY <1>2, RowKept DEF Quiet
<1>6. \A u \in Threads : u \notin Retriers \cup {Api} => job[u] # e
  BY <1>2, Held
<1>7. Alone'
  <2> SUFFICES ASSUME NEW u \in Threads, NEW v \in Threads,
                      u \notin Retriers \cup {Api}, v # Api, u # v, job'[u] \in Experiments
               PROVE  job'[v] # job'[u]
    BY DEF Alone
  <2>1. u # r /\ job'[u] = job[u] /\ job[u] # e
    BY <1>2, <1>6 DEF OthersKeep
  <2>2. QED
    BY <1>2, <2>1 DEF OthersKeep, Custody, Alone
<1>8. Startups'
  BY <1>1, <1>2 DEF OthersKeep, Custody, Startups, Serving, Quiet
<1>9. QED
  BY <1>4, <1>5, <1>7, <1>8 DEF Custody

LEMMA ApiCustody ==
    ASSUME TypeOK, Custody, CancelKill \/ \E e \in Experiments : ApiCall(e)
    PROVE  Custody'
  BY CancelKillCustody, SubmitCustody, CancelRequestCustody, RetryRequestCustody DEF ApiCall

-----------------------------------------------------------------------------
\* start(), recover() and the recovery monitors keep custody.

LEMMA BootCustody ==
    ASSUME TypeOK, Custody, Boot
    PROVE  Custody'
<1>1. /\ Main \in Threads /\ Main # Api /\ Main \notin Workers \cup Retriers \cup Experiments
  BY GroupsOfThreads
<1>2. /\ pc[Main] = "down" /\ pc'[Main] = "recover" /\ job' = job /\ goal' = goal
      /\ OthersKeep(Main)
      /\ \A f \in Experiments : SameRow(f)
      /\ crashes' = crashes
      /\ todo' = {e \in Experiments : status[e] \in ActiveStatuses}
      /\ \A e \in todo' : cancel[e] # "no" => seen'[e]
  BY <1>1, GotoMoves DEF Boot, Goto, SameRow, rowVars, fileVars, bounds
<1>3. \A t \in Threads : job[t] = NoExp
  BY <1>2 DEF Custody, Startups
<1>4. Fine(Main)'
  BY <1>1, <1>2, <1>3, RestFine DEF Resting
<1>5. \A u \in Threads : Fine(u)'
  BY <1>2, <1>3, <1>4, FineKept, NamesOfNothing DEF OthersKeep
<1>6. \A f \in Experiments : Row(f)'
  BY <1>2, RowKept
<1>7. Alone'
  BY <1>2, <1>3, NamesOfNothing DEF Alone
<1>8. Startups'
  <2>1. ASSUME NEW e \in todo'
        PROVE  /\ status'[e] \in ActiveStatuses
               /\ cancel'[e] = "queued" => seen'[e]
               /\ crashes' # 0
               /\ \A t \in Threads : job'[t] # e
    <3>1. e \in Experiments /\ status[e] \in ActiveStatuses /\ e # NoExp
      BY <1>2, NamesOfNothing
    <3>2. crashes # 0
      BY <1>2, <3>1 DEF Custody, Startups, ActiveStatuses
    <3>3. QED
      BY <1>2, <1>3, <3>1, <3>2 DEF SameRow
  <2>2. \A t \in Workers \cup Retriers \cup {Api} : pc'[t] = "idle"
    BY <1>1, <1>2, GroupsOfThreads DEF OthersKeep, Custody, Startups
  <2>3. QED
    BY <1>2, <1>3, <2>1, <2>2 DEF Custody, Startups, SameRow
<1>9. QED
  BY <1>5, <1>6, <1>7, <1>8 DEF Custody

LEMMA ServeCustody ==
    ASSUME TypeOK, Custody, Serve
    PROVE  Custody'
<1>1. /\ Main \in Threads /\ Main # Api /\ Main \notin Workers \cup Retriers \cup Experiments
  BY GroupsOfThreads
<1>2. /\ pc[Main] = "recover" /\ pc'[Main] = "serving" /\ job' = job /\ goal' = goal
      /\ OthersKeep(Main) /\ Quiet /\ todo = {}
  BY <1>1, GotoMoves, QuietSteps DEF Serve, Goto
<1>3. Fine(Main)'
  BY <1>1, <1>2 DEF Fine, Role, Place, Progress, Asks, Starting, StartLabels, RunLabels,
              RescueLabels, ReviewLabels, WorkerLabels
<1>4. \A u \in Threads : Fine(u)'
  BY <1>2, <1>3, FineKept DEF OthersKeep, Quiet
<1>5. \A f \in Experiments : Row(f)'
  BY <1>2, RowKept DEF Quiet
<1>6. Alone' /\ Startups'
  BY <1>2 DEF Custody, Alone, Startups, Quiet
<1>7. QED
  BY <1>4, <1>5, <1>6 DEF Custody

\* recover() hands a row to Main or to the row's monitor.
LEMMA RecoverCustody ==
    ASSUME TypeOK, Custody, NEW e \in Experiments, Recover(e)
    PROVE  Custody'
<1>1. /\ Main \in Threads /\ Main # Api /\ Main \notin Workers \cup Retriers \cup Experiments
      /\ e \in Threads /\ e # Main /\ e # Api /\ e \notin Workers \cup Retriers
  BY GroupsOfThreads
<1>2. /\ pc[Main] = "recover" /\ e \in todo /\ todo' = todo \ {e}
      /\ status' = status /\ pid' = pid /\ cancel' = cancel /\ evidence' = evidence
      /\ proc' = proc /\ receipt' = receipt /\ crashes' = crashes /\ seen' = seen
      /\ runStatus'[e] \in {runStatus[e], "FINISHED"}
      /\ \A f \in Experiments \ {e} : SameRow(f)
  BY DEF Recover, RecoverRunning, TakeReceipt, TypeOK, RowsOK, SameRow, fileVars, bounds
<1>3. /\ \A t \in Threads : job[t] # e
      /\ crashes # 0
      /\ cancel[e] = "queued" => seen[e]
      /\ Row(e)
  BY <1>2 DEF Custody, Startups
<1>4. /\ \A u \in Workers \cup Retriers \cup {Api} : pc[u] = "idle"
      /\ \A f \in todo' : /\ status[f] \in ActiveStatuses
                          /\ cancel[f] = "queued" => seen[f]
                          /\ \A t \in Threads : job[t] # f
  BY <1>2 DEF Custody, Startups
<1>5. ASSUME NEW t \in {Main, e}, OthersKeep(t), job'[t] = e,
             pc'[Main] \notin {"down", "serving"}
      PROVE  Startups'
  <2>1. \A u \in Workers \cup Retriers \cup {Api} : pc'[u] = "idle"
    BY <1>1, <1>4, <1>5, GroupsOfThreads DEF OthersKeep
  <2>2. \A f \in todo' : \A u \in Threads : job'[u] # f
    BY <1>2, <1>4, <1>5 DEF OthersKeep
  <2>3. QED
    BY <1>2, <1>3, <1>4, <1>5, <2>1, <2>2 DEF Startups
<1>6. ASSUME ReceiptIsValid(e), TakeReceipt(Main, e), status[e] = "RUNNING"
      PROVE  Custody'
  <2>1. /\ pc'[Main] = "adopt" /\ job'[Main] = e /\ goal'[Main] = goal[Main] /\ OthersKeep(Main)
        /\ runStatus'[e] = "FINISHED" /\ receipt[e] = "whole" /\ Dead(e)
    BY <1>1, <1>3, <1>6, BeginMoves DEF TakeReceipt, ReceiptIsValid, TypeOK, RowsOK, Row
  <2>2. Fine(Main)'
    BY <1>1, <1>2, <1>3, <1>6, <2>1
       DEF Fine, Role, Place, Progress, Asks, Starting, StartLabels, RunLabels, RescueLabels,
           ReviewLabels, WorkerLabels
  <2>3. Row(e)'
    BY <1>2, <1>6, <2>1 DEF Row, Dead, Running, GradedStatuses
  <2>4. QED
    BY <1>1, <1>2, <1>3, <1>5, <2>1, <2>2, <2>3, Step
<1>7. ASSUME runStatus' = runStatus
      PROVE  Row(e)'
  BY <1>2, <1>3, <1>7 DEF Row, Untouched, Dead, Running, Stray
<1>8. ASSUME Begin(e, e, "watch"), status[e] = "RUNNING", runStatus' = runStatus
      PROVE  Custody'
  <2>1. /\ pc'[e] = "watch" /\ job'[e] = e /\ goal'[e] = goal[e] /\ OthersKeep(e)
        /\ pc'[Main] = "recover"
    BY <1>1, <1>2, <1>8, BeginMoves DEF OthersKeep
  <2>2. Fine(e)'
    BY <1>1, <1>2, <1>3, <1>8, <2>1
       DEF Fine, Role, Place, Progress, Asks, Starting, StartLabels, RunLabels, RescueLabels,
           ReviewLabels, WorkerLabels
  <2>3. QED
    BY <1>1, <1>2, <1>3, <1>5, <1>7, <1>8, <2>1, <2>2, Step
<1>9. ASSUME \/ /\ Request(Main, e, "ORPHANED") /\ status[e] = "RUNNING"
                /\ ~(pid[e] /\ Running(e))
             \/ Begin(Main, e, "grade") /\ status[e] = "GRADING"
             \/ Begin(Main, e, "review") /\ status[e] = "REVIEW_PENDING",
             runStatus' = runStatus
      PROVE  Custody'
  <2>1. /\ job'[Main] = e /\ OthersKeep(Main)
        /\ \/ /\ pc'[Main] = "move" /\ goal'[Main] = "ORPHANED" /\ status[e] = "RUNNING"
              /\ ~(pid[e] /\ Running(e))
           \/ pc'[Main] = "grade" /\ status[e] = "GRADING"
           \/ pc'[Main] = "review" /\ status[e] = "REVIEW_PENDING"
    BY <1>1, <1>9, BeginMoves, RequestMoves
  <2>2. Fine(Main)'
    BY <1>1, <1>2, <2>1
       DEF Fine, Role, Place, Progress, Asks, Starting, StartLabels, RunLabels, RescueLabels,
           ReviewLabels, WorkerLabels, Running
  <2>3. QED
    BY <1>1, <1>2, <1>3, <1>5, <1>7, <1>9, <2>1, <2>2, Step
<1>10. QED
  BY <1>6, <1>8, <1>9 DEF Recover, RecoverRunning

LEMMA WatchCustody ==
    ASSUME TypeOK, Custody, NEW e \in Experiments, Watch(e)
    PROVE  Custody'
<1>1. e \in Threads /\ e # Main /\ e # Api /\ e \notin Workers \cup Retriers
  BY GroupsOfThreads
<1>2. /\ pc[e] = "watch" /\ pc[e] \in BusyLabels /\ ~Running(e)
      /\ status' = status /\ pid' = pid /\ cancel' = cancel /\ evidence' = evidence
      /\ proc' = proc /\ receipt' = receipt /\ crashes' = crashes /\ seen' = seen
      /\ todo' = todo
  BY BusyFacts DEF Watch, fileVars, recoverVars, bounds
<1>3. job[e] = e /\ Place(e) /\ Progress(e) /\ Row(e)
  BY <1>1, <1>2, Jobless, NamesOfNothing DEF Custody, Fine, Role
<1>4. CASE Return(e) /\ UNCHANGED runStatus
  <2>1. Quiet
    BY <1>2, <1>4 DEF Quiet, SameRow
  <2>2. QED
    BY <1>1, <1>4, <2>1, ReturnCustody
<1>5. CASE status[e] = "RUNNING" /\ ReceiptIsValid(e) /\ TakeReceipt(e, e)
  <2>1. /\ pc'[e] = "adopt" /\ job'[e] = e /\ goal'[e] = goal[e] /\ OthersKeep(e)
        /\ runStatus'[e] = "FINISHED" /\ receipt[e] = "whole" /\ Dead(e)
        /\ \A f \in Experiments \ {e} : SameRow(f)
    BY <1>1, <1>2, <1>3, <1>5, BeginMoves
       DEF TakeReceipt, ReceiptIsValid, TypeOK, RowsOK, Row, SameRow
  <2>2. Fine(e)'
    BY <1>1, <1>2, <1>3, <1>5, <2>1
       DEF Fine, Role, Place, Progress, Asks, Starting, StartLabels, RunLabels, RescueLabels,
           ReviewLabels, WorkerLabels
  <2>3. Row(e)'
    BY <1>2, <1>5, <2>1 DEF Row, Dead, Running, GradedStatuses
  <2>4. QED
    BY <1>1, <1>2, <1>3, <2>1, <2>2, <2>3, OwnStep
<1>6. CASE status[e] = "RUNNING" /\ Request(e, e, "ORPHANED") /\ UNCHANGED runStatus
  <2>1. /\ pc'[e] = "move" /\ job'[e] = e /\ goal'[e] = "ORPHANED" /\ OthersKeep(e)
        /\ \A f \in Experiments : SameRow(f)
    BY <1>1, <1>2, <1>6, RequestMoves DEF SameRow
  <2>2. Fine(e)'
    BY <1>1, <1>2, <1>6, <2>1
       DEF Fine, Role, Place, Progress, Asks, Starting, StartLabels, RunLabels, RescueLabels,
           ReviewLabels, WorkerLabels, Running
  <2>3. Row(e)'
    BY <1>2, <2>1, RowKept
  <2>4. QED
    BY <1>1, <1>2, <1>3, <2>1, <2>2, <2>3, OwnStep
<1>7. QED
  BY <1>4, <1>5, <1>6 DEF Watch

LEMMA ProcExitCustody ==
    ASSUME TypeOK, Custody, NEW e \in Experiments, ProcExit(e)
    PROVE  Custody'
<1>1. /\ Running(e) /\ proc'[e] \in {"alive", "signalled", "exit0", "exit1"}
      /\ status' = status /\ runStatus' = runStatus /\ pid' = pid /\ cancel' = cancel
      /\ evidence' = evidence /\ receipt' = receipt
      /\ crashes' = crashes /\ seen' = seen /\ todo' = todo
      /\ pc' = pc /\ job' = job /\ goal' = goal
      /\ \A f \in Experiments \ {e} : SameRow(f)
  BY DEF ProcExit, TypeOK, FilesOK, SameRow, rowVars, recoverVars, bounds
<1>2. \A f \in Experiments : Row(f)'
  BY <1>1, ProcCustody
<1>3. \A u \in Threads : Fine(u)'
  BY <1>1, ProcCustody, ApiFine
<1>4. Alone' /\ Startups'
  BY <1>1 DEF Custody, Alone, Startups
<1>5. QED
  BY <1>2, <1>3, <1>4 DEF Custody

LEMMA CrashCustody ==
    ASSUME TypeOK, Custody, Crash
    PROVE  Custody'
<1>1. /\ Exit /\ crashes' = crashes + 1 /\ crashes \in Nat
      /\ \A f \in Experiments : SameRow(f)
  BY DEF Crash, SameRow, TypeOK, RecoveryOK, rowVars, fileVars
<1>2. crashes' # 0
  BY <1>1
<1>3. QED
  BY <1>1, <1>2, ExitCustody

-----------------------------------------------------------------------------
LEMMA InitCustody == Init => Custody
<1> SUFFICES ASSUME Init
             PROVE  Custody
  OBVIOUS
<1>1. /\ \A t \in Threads :
            /\ pc[t] = IF t = Main THEN "down" ELSE Resting(t)
            /\ job[t] = NoExp
      /\ \A t \in Threads : pc[t] \notin BusyLabels
  BY LabelKinds DEF Init
<1>2. ASSUME NEW t \in Threads
      PROVE  Fine(t)
  BY <1>1, RestOf, GroupsOfThreads
     DEF Fine, Role, Place, Progress, Asks, Starting, BusyLabels, WorkerLabels, RunLabels,
         RescueLabels, ReviewLabels, StartLabels
<1>3. \A e \in Experiments : Row(e)
  BY DEF Init, Row, Untouched, Dead, Running, GradedStatuses
<1>4. Alone
  BY <1>1, NamesOfNothing DEF Alone
<1>5. Startups
  BY <1>1, RestOf, GroupsOfThreads DEF Init, Startups
<1>6. QED
  BY <1>2, <1>3, <1>4, <1>5 DEF Custody

LEMMA NextCustody == TypeOK /\ Admission /\ Custody /\ [Next]_vars => Custody'
<1> SUFFICES ASSUME TypeOK, Admission, Custody, [Next]_vars
             PROVE  Custody'
  OBVIOUS
<1>1. CASE UNCHANGED vars
  <2>1. /\ Quiet /\ pc' = pc /\ job' = job /\ goal' = goal
    BY <1>1 DEF vars, Quiet, SameRow, rowVars, fileVars, recoverVars, bounds
  <2>2. \A u \in Threads : Fine(u)'
    BY <2>1, FineKept DEF Quiet
  <2>3. \A f \in Experiments : Row(f)'
    BY <2>1, RowKept DEF Quiet
  <2>4. Alone'
    BY <2>1 DEF Custody, Alone
  <2>5. Startups'
    BY <1>1 DEF Custody, Startups, vars, rowVars, fileVars, recoverVars, bounds
  <2>6. QED
    BY <2>2, <2>3, <2>4, <2>5 DEF Custody
<1>2. CASE \E w \in Workers : WorkerStep(w) \/ RunFails(w)
  BY <1>2, WorkerCustody
<1>3. CASE \E t \in Threads : SharedStep(t) \/ Fault(t)
  BY <1>3, MoveCustody, GradeCustody, AcceptCustody, FaultCustody DEF SharedStep
<1>4. CASE CancelKill \/ \E e \in Experiments : ApiCall(e)
  BY <1>4, ApiCustody
<1>5. CASE Startup
  BY <1>5, BootCustody, ServeCustody, RecoverCustody DEF Startup
<1>6. CASE \E e \in Experiments : Watch(e) \/ ProcExit(e)
  BY <1>6, WatchCustody, ProcExitCustody
<1>7. CASE Crash
  BY <1>7, CrashCustody
<1>8. QED
  BY <1>1, <1>2, <1>3, <1>4, <1>5, <1>6, <1>7 DEF Next

\* Who may be doing what with which experiment, and what its rows and files say at
\* each point, whatever fails, is cancelled, retried or recovered meanwhile.
THEOREM CustodyInvariant == Spec => []Custody
<1>1. Init => Custody
  BY InitCustody
<1>2. TypeOK /\ Admission /\ Custody /\ [Next]_vars => Custody'
  BY NextCustody
<1>3. QED
  BY <1>1, <1>2, TypeCorrect, AdmissionInvariant, PTL DEF Spec

\* _run_experiment and _recover_receipt: what reaches the grader ran to the end,
\* exited 0 and left a whole receipt.
THEOREM GradedRunsAreClean == Spec => []GradedRunsExitedCleanly
<1>1. Custody => GradedRunsExitedCleanly
  BY DEF Custody, Row, GradedRunsExitedCleanly
<1>2. QED
  BY <1>1, CustodyInvariant, PTL

\* cancel() of a queued experiment: whoever starts, recovers or adopts it afterwards,
\* its result is never graded.
THEOREM QueuedCancelIsFinal == Spec => []QueuedCancelNeverGraded
<1>1. Custody => QueuedCancelNeverGraded
  BY DEF Custody, Row, QueuedCancelNeverGraded
<1>2. QED
  BY <1>1, CustodyInvariant, PTL

\* Sealing before grading: only a receipt adopted after a crash gets round it.
THEOREM EvidenceIsSealedFirst == Spec => []EvidenceSealedUnlessRecovered
<1>1. Custody => EvidenceSealedUnlessRecovered
  BY DEF Custody, Row, EvidenceSealedUnlessRecovered, EvidenceSealed
<1>2. QED
  BY <1>1, CustodyInvariant, PTL

\* RunExecutor.execute and recover(): two formal commands are alive at once only
\* if one of them was lost in one of the ways Stray lists.
THEOREM OverlapsAreStrays == Spec => []OverlapHasCause
<1>1. Custody /\ SinglePipeline => OverlapHasCause
  <2> SUFFICES ASSUME Custody, SinglePipeline,
                      NEW e \in Experiments, NEW f \in Experiments,
                      Running(e), Running(f), e # f, ~Stray(e), ~Stray(f)
               PROVE  FALSE
    BY DEF OverlapHasCause
  <2>1. status[e] = "RUNNING" /\ status[f] = "RUNNING"
    BY DEF Custody, Row
  <2>2. QED
    BY <2>1 DEF SinglePipeline, Promise!SinglePipeline, Promise!InPipeline
<1>2. QED
  BY <1>1, CustodyInvariant, PipelineIsSingle, PTL

\* One formal run ticket per experiment: no step of any thread, and no restart,
\* starts a command that was started before.
THEOREM TicketIsUsedOnce == Spec => RunTicketUsedOnce
<1>1. ASSUME TypeOK, Custody, [Next]_vars, NEW e \in Experiments, proc'[e] = "alive"
      PROVE  proc[e] \in {"none", "alive"}
  <2>1. CASE proc' = proc
    BY <1>1, <2>1
  <2>2. ASSUME NEW w \in Workers, Spawn(w)
        PROVE  proc[e] \in {"none", "alive"}
    <3>1. pc[w] = "spawn" /\ pc[w] \in BusyLabels /\ w # Api
      BY <2>2, BusyFacts, GroupsOfThreads DEF Spawn, WorkerLabels
    <3>2. proc[job[w]] = "none"
      BY <1>1, <3>1, WorkerHas DEF Fine, Progress, StartLabels, Untouched
    <3>3. QED
      BY <1>1, <2>2, <3>2 DEF Spawn, TypeOK, FilesOK
  <2>3. ASSUME NEW w \in Workers, Supervise(w) \/ Reap(w)
        PROVE  proc[e] \in {"none", "alive"}
    BY <1>1, <2>3 DEF Supervise, Reap, Terminated, Running, TypeOK, FilesOK
  <2>4. CASE CancelKill \/ \E f \in Experiments : ProcExit(f)
    BY <1>1, <2>4 DEF CancelKill, ProcExit, Terminated, Running, TypeOK, FilesOK
  <2>5. ASSUME NEW w \in Workers, WorkerStep(w) \/ RunFails(w),
               ~Spawn(w), ~Supervise(w), ~Reap(w)
        PROVE  proc' = proc
    BY <2>5
       DEF WorkerStep, RunFails, RunNext, CheckActive, SelectQueued, CreateWorktree, Authorize,
           Record, OpenReceipt, FlushReceipt, Finish, Seal, Decide, Rescue, Inspect, Bury,
           fileVars
  <2>6. ASSUME NEW t \in Threads, SharedStep(t) \/ Fault(t)
        PROVE  proc' = proc
    BY <2>6
       DEF SharedStep, Fault, Move, Adopt, Grade, OpenReview, Verdict, Accept, ReadFails,
           ReviewFails, Escape, fileVars
  <2>7. ASSUME NEW f \in Experiments, ApiCall(f) \/ Watch(f)
        PROVE  proc' = proc
    BY <2>7 DEF ApiCall, Submit, CancelRequest, RetryRequest, Watch, fileVars
  <2>8. CASE Startup \/ Crash \/ UNCHANGED vars
    BY <1>1, <2>8 DEF Startup, Boot, Serve, Recover, Crash, vars, fileVars
  <2>9. QED
    BY <1>1, <2>1, <2>2, <2>3, <2>4, <2>5, <2>6, <2>7, <2>8 DEF Next
<1>2. TypeOK /\ Custody /\ [Next]_vars =>
          [\A e \in Experiments : proc'[e] = "alive" => proc[e] \in {"none", "alive"}]_vars
  BY <1>1
<1>3. QED
  BY <1>2, TypeCorrect, CustodyInvariant, PTL DEF Spec, RunTicketUsedOnce

\* The row of a graded run is FINISHED, whoever read its receipt, unless a policy
\* snapshot or a commit was unreadable when it was graded, reviewed or accepted, and the
\* worker's handler marked the run.
THEOREM RunRowsAgree ==
    ASSUME SnapshotsReadable
    PROVE  Spec => []RunRowAgrees
<1>1. Custody => RunRowAgrees
  BY DEF Custody, Row, RunRowAgrees
<1>2. QED
  BY <1>1, CustodyInvariant, PTL

-----------------------------------------------------------------------------
\* No review is abandoned.

\* No error that nothing handles is raised after a run has started, and none of those
\* whose handler just ends the call.
NothingSlips ==
    /\ EscapeAt \cap (BusyLabels \ {"worktree", "kill"}) = {}
    /\ FailAt \cap {"review", "ask", "accept"} = {}
    /\ SnapshotsReadable

\* Somebody has the experiment, or recover() is going to hand it out.
Kept ==
    pc[Main] # "down" =>
        \A e \in Experiments :
            status[e] \in ActiveStatuses =>
                e \in todo \/ \E t \in Threads \ {Api} : job[t] = e

\* A step by t that drops no active experiment.
LEMMA KeptStep ==
    ASSUME Kept, NEW t \in Threads, OthersKeep(t), todo' = todo, pc[Main] # "down",
           \A f \in Experiments :
              status'[f] \in ActiveStatuses =>
                 /\ f # job[t] \/ t = Api => status[f] \in ActiveStatuses
                 /\ f = job[t] /\ t # Api => job'[t] = f
    PROVE  Kept'
<1> SUFFICES ASSUME NEW f \in Experiments, status'[f] \in ActiveStatuses
             PROVE  f \in todo' \/ \E u \in Threads \ {Api} : job'[u] = f
  BY DEF Kept
<1>1. CASE f = job[t] /\ t # Api
  BY <1>1
<1>2. CASE f # job[t] \/ t = Api
  <2>1. CASE f \in todo
    BY <2>1
  <2>2. ASSUME NEW u \in Threads \ {Api}, job[u] = f
        PROVE  \E v \in Threads \ {Api} : job'[v] = f
    <3>1. u # t /\ job'[u] = f
      BY <1>2, <2>2 DEF OthersKeep
    <3>2. QED
      BY <3>1
  <2>3. QED
    BY <1>2, <2>1, <2>2 DEF Kept
<1>3. QED
  BY <1>1, <1>2

\* A call that ends leaves its experiment settled, queued or waiting for a person.
LEMMA ReturnKept ==
    ASSUME TypeOK, Custody, Kept, NEW t \in Threads, pc[Main] # "down", Return(t), Quiet,
           job[t] \in Experiments /\ t # Api => status[job[t]] \notin ActiveStatuses
    PROVE  Kept'
<1>1. OthersKeep(t)
  BY ReturnMoves
<1>2. \A f \in Experiments : status'[f] = status[f]
  BY DEF Quiet, SameRow
<1>3. QED
  BY <1>1, <1>2, KeptStep DEF Quiet

LEMMA UnwindKept ==
    ASSUME TypeOK, Custody, Kept, NEW t \in Threads, Unwind(t), Quiet,
           job[t] \in Experiments /\ t \notin {Api, Main} => status[job[t]] \notin ActiveStatuses
    PROVE  Kept'
<1>1. CASE t = Main
  BY <1>1, GroupsOfThreads DEF Unwind, Exit, Kept
<1>2. CASE t # Main /\ pc[Main] # "down"
  BY <1>2, ReturnKept DEF Unwind
<1>3. CASE t # Main /\ pc[Main] = "down"
  BY <1>3, ReturnMoves, GroupsOfThreads DEF Unwind, OthersKeep, Kept
<1>4. QED
  BY <1>1, <1>2, <1>3

\* A step on which t keeps its experiment and no status changes.
LEMMA HeldKept ==
    ASSUME TypeOK, Kept, NEW t \in Threads, OthersKeep(t), pc[Main] # "down",
           status' = status, todo' = todo, job[t] \in Experiments => job'[t] = job[t]
    PROVE  Kept'
  BY KeptStep

LEMMA WorkerKept ==
    ASSUME TypeOK, Custody, Kept, NothingSlips,
           NEW w \in Workers, WorkerStep(w) \/ RunFails(w)
    PROVE  Kept'
<1>1. w \in Threads /\ w \notin Retriers \cup {Api, Main} \cup Experiments /\ Main \in Threads
  BY GroupsOfThreads
<1>2. pc[Main] # "down"
  <2>1. RunNext(w) \/ pc[w] # "idle"
    BY DEF WorkerStep, RunFails, CheckActive, SelectQueued, CreateWorktree, Authorize,
           Spawn, Record, Supervise, Reap, OpenReceipt, FlushReceipt, Finish, Seal, Decide,
           Rescue, Inspect, Bury, WorkerLabels
  <2>2. QED
    BY <2>1 DEF RunNext, Serving, Custody, Startups
<1>3. CASE RunNext(w)
  <2>1. OthersKeep(w) /\ job' = job /\ status' = status /\ todo' = todo
    BY <1>1, <1>3 DEF RunNext, OthersKeep, TypeOK, FramesOK, recoverVars
  <2>2. QED
    BY <1>1, <1>2, <2>1, HeldKept
<1>4. CASE CheckActive(w) \/ SelectQueued(w)
  <2>1. job[w] \notin Experiments
    BY <1>1, <1>4, Jobless, BusyFacts
       DEF CheckActive, SelectQueued, BusyLabels, WorkerLabels, ReviewLabels
  <2>2. OthersKeep(w) /\ status' = status /\ todo' = todo
    BY <1>1, <1>4, ReturnMoves, GotoMoves, BeginMoves DEF CheckActive, SelectQueued, recoverVars
  <2>3. QED
    BY <1>1, <1>2, <2>1, <2>2, HeldKept
<1>5. CASE \/ CreateWorktree(w) \/ Authorize(w) \/ Spawn(w) \/ Record(w) \/ Supervise(w)
           \/ Reap(w) \/ OpenReceipt(w) \/ FlushReceipt(w) \/ Finish(w) \/ Seal(w)
           \/ Decide(w) \/ Rescue(w) \/ RunFails(w)
  <2>1. \/ \E l : Goto(w, l)
        \/ \E s : Request(w, job[w], s)
    BY <1>5
       DEF CreateWorktree, Authorize, Spawn, Record, Supervise, Reap, OpenReceipt,
           FlushReceipt, Finish, Seal, Decide, Rescue, RunFails
  <2>2. status' = status /\ todo' = todo
    BY <1>5
       DEF CreateWorktree, Authorize, Spawn, Record, Supervise, Reap, OpenReceipt,
           FlushReceipt, Finish, Seal, Decide, Rescue, RunFails, recoverVars
  <2>3. OthersKeep(w) /\ job'[w] = job[w]
    BY <1>1, <2>1, GotoMoves, RequestMoves
  <2>4. QED
    BY <1>1, <1>2, <2>2, <2>3, HeldKept
<1>6. CASE Inspect(w) \/ Bury(w)
  <2>1. pc[w] \in RescueLabels /\ pc[w] \in BusyLabels
    BY <1>6, BusyFacts DEF Inspect, Bury, RescueLabels, WorkerLabels
  <2>2. status[job[w]] \in {"QUEUED", "RUNNING", "CANCELLED"} /\ job[w] \in Experiments
    BY <1>1, <2>1, WorkerHas DEF Fine, Place, NothingSlips, Rescued
  <2>3. CASE Inspect(w) /\ Return(w)
    <3>1. Quiet
      BY <2>3, QuietSteps DEF Inspect
    <3>2. status[job[w]] \notin ActiveStatuses
      BY <2>2, <2>3, ReturnMoves, <1>1, GotoMoves, RestOf DEF Inspect, ActiveStatuses
    <3>3. QED
      BY <1>1, <1>2, <2>3, <3>1, <3>2, ReturnKept
  <2>4. CASE Inspect(w) /\ Goto(w, "bury")
    BY <1>1, <1>2, <2>4, GotoMoves, HeldKept DEF Inspect, recoverVars
  <2>5. CASE Bury(w)
    <3>1. OthersKeep(w) /\ todo' = todo
      BY <1>1, <2>5, ReturnMoves DEF Bury, recoverVars
    <3>2. /\ status'[job[w]] \in {"FAILED", "CANCELLED"}
          /\ \A f \in Experiments \ {job[w]} : status'[f] = status[f]
      BY <2>2, <2>5, Table DEF Bury, TypeOK, RowsOK
    <3>3. QED
      BY <1>1, <1>2, <2>2, <3>1, <3>2, KeptStep DEF ActiveStatuses
  <2>6. QED
    BY <1>6, <2>3, <2>4, <2>5 DEF Inspect
<1>7. QED
  BY <1>3, <1>4, <1>5, <1>6 DEF WorkerStep

LEMMA MoveKept ==
    ASSUME TypeOK, Custody, Admission, Kept, NEW t \in Threads, NEW e, e = job[t], Move(t)
    PROVE  Kept'
<1>1. /\ pc[t] = "move" /\ pc[t] \in BusyLabels /\ e \in Experiments /\ todo' = todo
      /\ goal[t] \in Targets /\ Fine(t)
  BY MoveCases DEF Custody
<1>2. pc[Main] # "down"
  BY <1>1, NamesOfNothing DEF Custody, Startups
<1>3. CASE Continue(t) /\ status'[e] = goal[t] /\ \A f \in Experiments \ {e} : SameRow(f)
  <2>1. t = Api => goal[t] = "CANCELLED"
    BY <1>1, <1>3 DEF Fine, Role, Asks
  <2>2. OthersKeep(t)
    BY <1>3, GotoMoves, ReturnMoves DEF Continue
  <2>3. goal[t] \in ActiveStatuses => job'[t] = e
    BY <1>1, <1>3, GotoMoves DEF Continue, ActiveStatuses
  <2>4. QED
    BY <1>1, <1>2, <1>3, <2>1, <2>2, <2>3, KeptStep DEF ActiveStatuses, SameRow
<1>4. CASE /\ goal[t] # status[e] /\ goal[t] \notin AllowedTransitions[status[e]]
           /\ Quiet /\ Throw(t)
  <2>1. CASE t \in Workers
    BY <1>1, <1>2, <1>4, <2>1, GotoMoves, KeptStep DEF Throw, Quiet, SameRow
  <2>2. CASE t \in Retriers
    <3>1. goal[t] \in ReviewGoals /\ status[e] \in Reviewed
      BY <1>1, <2>2, HeldByRetry DEF Fine, Role
    <3>2. status[e] \notin ActiveStatuses
      BY <1>4, <3>1, Table DEF ReviewGoals, Reviewed, ActiveStatuses
    <3>3. QED
      BY <1>4, <2>2, <3>2, GroupsOfThreads, UnwindKept DEF Throw
  <2>3. CASE t \in {Api, Main}
    BY <1>4, <2>3, GroupsOfThreads, UnwindKept DEF Throw
  <2>4. CASE t \in Experiments
    <3>1. t \notin Workers \cup Retriers \cup {Api}
      BY <2>4, GroupsOfThreads
    <3>2. goal[t] \in {"GRADING", "CANCELLED", "FAILED", "ORPHANED"} \cup ReviewGoals
      BY <1>1, <3>1 DEF Admission, Fine, Role, Targets, Statuses, ReviewGoals
    <3>3. status[e] \notin ActiveStatuses
      BY <1>1, <1>4, <3>1, <3>2, Table DEF Fine, Place, Asks, ReviewGoals, ActiveStatuses
    <3>4. QED
      BY <1>4, <3>1, <3>3, UnwindKept DEF Throw
  <2>5. QED
    BY <2>1, <2>2, <2>3, <2>4, RestOf
<1>5. QED
  BY <1>1, <1>3, <1>4, MoveCases DEF Quiet, SameRow

LEMMA SharedKept ==
    ASSUME TypeOK, Custody, Admission, Kept, NothingSlips,
           NEW t \in Threads, SharedStep(t) \/ Fault(t)
    PROVE  Kept'
<1>1. CASE Adopt(t) \/ Grade(t) \/ OpenReview(t) \/ Verdict(t)
  <2>1. pc[t] \in BusyLabels
    BY <1>1, BusyFacts DEF Adopt, Grade, OpenReview, Verdict, ReviewLabels
  <2>2. pc[Main] # "down"
    BY <2>1, Jobless DEF Custody, Startups
  <2>3. /\ status' = status /\ todo' = todo
        /\ (\E l : Goto(t, l)) \/ (\E s : Request(t, job[t], s))
    BY <1>1 DEF Adopt, Grade, OpenReview, Verdict, recoverVars
  <2>4. OthersKeep(t) /\ job'[t] = job[t]
    BY <2>3, GotoMoves, RequestMoves
  <2>5. QED
    BY <2>2, <2>3, <2>4, HeldKept
<1>2. ASSUME Accept(t), NEW e, e = job[t]
      PROVE  Kept'
  <2>1. pc[t] = "accept" /\ pc[t] \in BusyLabels /\ t # Api
    BY <1>2, BusyFacts DEF Accept, ReviewLabels, Custody, Fine, Role, Asks
  <2>2. /\ e \in Experiments /\ Place(t)
        /\ pc[Main] # "down"
    BY <1>2, <2>1, NamesOfNothing DEF Custody, Startups, Fine, TypeOK, FramesOK
  <2>3. CASE /\ status[e] = "REVIEW_PENDING"
             /\ status' = [status EXCEPT ![e] = "ACCEPTED"] /\ Return(t)
    <3>1. OthersKeep(t) /\ todo' = todo
      BY <1>2, <2>3, ReturnMoves DEF Accept, recoverVars
    <3>2. QED
      BY <1>2, <2>2, <2>3, <3>1, KeptStep DEF ActiveStatuses, TypeOK, RowsOK
  <2>4. CASE UNCHANGED status /\ Throw(t) /\ status[e] # "REVIEW_PENDING"
    <3>1. t \in Retriers /\ status[e] \in Reviewed
      BY <1>2, <2>1, <2>2, <2>4, HeldByRetry DEF Place, ReviewLabels
    <3>2. Quiet
      BY <1>2, <2>4 DEF Accept, Quiet, SameRow, rowVars, fileVars, recoverVars, bounds
    <3>3. QED
      BY <1>2, <2>4, <3>1, <3>2, GroupsOfThreads, UnwindKept
         DEF Throw, Reviewed, ActiveStatuses
  <2>5. QED
    BY <1>2, <2>3, <2>4 DEF Accept
<1>3. CASE Escape(t)
  <2>1. Unwind(t) /\ Quiet
    BY <1>3, QuietSteps DEF Escape
  <2>2. CASE t \in Retriers \cup {Api, Main} \/ job[t] \notin Experiments
    <3>1. t \in Retriers => job[t] \notin Experiments
      BY <1>3, Jobless
         DEF Escape, NothingSlips, Custody, Fine, Role, ReviewLabels
    <3>2. QED
      BY <2>1, <2>2, <3>1, UnwindKept
  <2>3. CASE t \notin Retriers \cup {Api, Main} /\ job[t] \in Experiments
    <3>1. pc[t] = "worktree"
      BY <1>3, <2>3, Jobless DEF Escape, NothingSlips, Custody, Fine, Role
    <3>2. status[job[t]] \in {"QUEUED", "CANCELLED"}
      BY <2>3, <3>1 DEF Custody, Fine, Place, Starting
    <3>3. QED
      BY <2>1, <3>2, UnwindKept DEF ActiveStatuses
  <2>4. QED
    BY <2>2, <2>3
<1>4. ~ReadFails(t) /\ ~ReviewFails(t)
  BY DEF ReadFails, ReviewFails, NothingSlips, SnapshotsReadable
<1>5. QED
  BY <1>1, <1>2, <1>3, <1>4, MoveKept DEF SharedStep, Fault

LEMMA ApiKept ==
    ASSUME TypeOK, Custody, Kept, CancelKill \/ \E e \in Experiments : ApiCall(e)
    PROVE  Kept'
<1>1. Api \in Threads /\ Main # Api /\ \A r \in Retriers : r \in Threads /\ r # Api
  BY GroupsOfThreads
<1>2. ASSUME NEW e \in Experiments, Submit(e)
      PROVE  Kept'
  <2>1. /\ OthersKeep(Api) /\ todo' = todo /\ pc[Main] # "down"
        /\ status'[e] = "QUEUED" /\ \A f \in Experiments \ {e} : status'[f] = status[f]
    BY <1>2 DEF Submit, Serving, OthersKeep, TypeOK, RowsOK, recoverVars
  <2>2. QED
    BY <1>1, <2>1, KeptStep DEF ActiveStatuses
<1>3. ASSUME NEW e \in Experiments, CancelRequest(e)
      PROVE  Kept'
  <2>1. OthersKeep(Api) /\ todo' = todo /\ pc[Main] # "down" /\ status' = status
    BY <1>1, <1>3, BeginMoves, RequestMoves
       DEF CancelRequest, Serving, OthersKeep, recoverVars
  <2>2. QED
    BY <1>1, <2>1, KeptStep
<1>4. ASSUME NEW e \in Experiments, NEW r \in Retriers, RetryRequest(r, e)
      PROVE  Kept'
  <2>1. job[r] \notin Experiments
    BY <1>1, <1>4, Jobless, LabelKinds DEF RetryRequest
  <2>2. OthersKeep(r) /\ todo' = todo /\ pc[Main] # "down" /\ status' = status
    BY <1>1, <1>4, RequestMoves DEF RetryRequest, Serving, recoverVars
  <2>3. QED
    BY <1>1, <2>1, <2>2, HeldKept
<1>5. CASE CancelKill
  <2>1. OthersKeep(Api) /\ todo' = todo /\ status' = status
    BY <1>1, <1>5, ReturnMoves DEF CancelKill, recoverVars
  <2>2. pc[Main] # "down"
    BY <1>1, <1>5, Jobless, BusyFacts DEF CancelKill, Custody, Startups
  <2>3. QED
    BY <1>1, <2>1, <2>2, KeptStep
<1>6. QED
  BY <1>2, <1>3, <1>4, <1>5 DEF ApiCall

LEMMA RecoveryKept ==
    ASSUME TypeOK, Custody, Kept,
           \/ Startup \/ Crash
           \/ \E e \in Experiments : Watch(e) \/ ProcExit(e)
    PROVE  Kept'
<1>1. Main \in Threads /\ Main # Api /\ \A e \in Experiments : e \in Threads /\ e # Api /\ e # Main
  BY GroupsOfThreads
<1>2. CASE Boot
  BY <1>2 DEF Boot, Kept
<1>3. CASE Serve
  BY <1>1, <1>3, GotoMoves, HeldKept DEF Serve, recoverVars
<1>4. ASSUME NEW e \in Experiments, Recover(e)
      PROVE  Kept'
  <2>1. PICK t \in {Main, e} : job'[t] = e /\ OthersKeep(t)
    BY <1>1, <1>4, BeginMoves, RequestMoves DEF Recover, RecoverRunning, TakeReceipt
  <2>2. /\ status' = status /\ todo' = todo \ {e} /\ pc[Main] = "recover" /\ e \in todo
    BY <1>4 DEF Recover
  <2>3. t # Api /\ t \in Threads
    BY <1>1
  <2>4. job[t] \notin Experiments
    <3>1. t = Main => pc[t] \notin BusyLabels
      BY <2>2, LabelKinds, BusyFacts
    <3>2. t = e => job[t] \in {e, NoExp} /\ job[t] # e
      BY <1>1, <2>2, <2>3 DEF Custody, Startups, Fine, Role
    <3>3. QED
      BY <2>3, <3>1, <3>2, Jobless, NamesOfNothing
  <2>5. ASSUME NEW f \in Experiments, status'[f] \in ActiveStatuses
        PROVE  f \in todo' \/ \E u \in Threads \ {Api} : job'[u] = f
    <3>1. CASE f = e
      BY <2>1, <2>3, <3>1
    <3>2. CASE f # e
      <4>1. f \in todo \/ \E u \in Threads \ {Api} : job[u] = f
        BY <2>2, <2>5 DEF Kept
      <4>2. ASSUME NEW u \in Threads \ {Api}, job[u] = f
            PROVE  job'[u] = f
        BY <2>1, <2>4, <4>2 DEF OthersKeep
      <4>3. QED
        BY <2>2, <3>2, <4>1, <4>2
    <3>3. QED
      BY <3>1, <3>2
  <2>6. QED
    BY <2>5 DEF Kept
<1>5. ASSUME NEW e \in Experiments, Watch(e)
      PROVE  Kept'
  <2>1. /\ pc[e] = "watch" /\ pc[e] \in BusyLabels /\ status' = status /\ todo' = todo
    BY <1>5, BusyFacts DEF Watch, recoverVars
  <2>2. /\ job[e] = e /\ Place(e) /\ pc[Main] # "down"
    BY <1>1, <2>1, Jobless, NamesOfNothing DEF Custody, Startups, Fine, Role
  <2>3. CASE Return(e) /\ status[e] # "RUNNING"
    <3>1. status[e] = "CANCELLED"
      BY <1>1, <2>1, <2>2, <2>3, GroupsOfThreads DEF Place, RunLabels
    <3>2. QED
      BY <1>1, <2>1, <2>2, <2>3, <3>1, ReturnMoves, KeptStep DEF ActiveStatuses
  <2>4. CASE Begin(e, e, "adopt") \/ Request(e, e, "ORPHANED")
    BY <1>1, <2>1, <2>2, <2>4, BeginMoves, RequestMoves, HeldKept
  <2>5. QED
    BY <1>5, <2>3, <2>4 DEF Watch, TakeReceipt
<1>6. ASSUME NEW e \in Experiments, ProcExit(e)
      PROVE  Kept'
  BY <1>6 DEF ProcExit, recoverVars, Kept
<1>7. CASE Crash
  BY <1>1, <1>7 DEF Crash, Exit, Kept
<1>8. QED
  BY <1>2, <1>3, <1>4, <1>5, <1>6, <1>7 DEF Startup

\* recover() leaves nothing behind and no review is abandoned, with any number of
\* crashes, cancels and retries, as long as no error slips through every handler.
THEOREM ActiveIsAttended ==
    ASSUME NothingSlips
    PROVE  Spec => []Attended
<1>1. Init => Kept
  BY DEF Init, Kept, ActiveStatuses
<1>2. TypeOK /\ Admission /\ Custody /\ Kept /\ [Next]_vars => Kept'
  <2> SUFFICES ASSUME TypeOK, Admission, Custody, Kept, [Next]_vars
               PROVE  Kept'
    OBVIOUS
  <2>1. CASE UNCHANGED vars
    BY <2>1 DEF vars, recoverVars, Kept
  <2>2. CASE Next
    BY <2>2, WorkerKept, SharedKept, ApiKept, RecoveryKept DEF Next
  <2>3. QED
    BY <2>1, <2>2
<1>3. Custody /\ Kept => Attended
  <2> SUFFICES ASSUME Custody, Kept, Serving,
                      NEW e \in Experiments, status[e] \in ActiveStatuses
               PROVE  \E t \in Threads : job[t] = e
    BY DEF Attended
  <2>1. pc[Main] # "down" /\ e \notin todo
    BY DEF Serving, Custody, Startups
  <2>2. QED
    BY <2>1 DEF Kept
<1>4. QED
  BY <1>1, <1>2, <1>3, TypeCorrect, AdmissionInvariant, CustodyInvariant, PTL DEF Spec
=============================================================================
