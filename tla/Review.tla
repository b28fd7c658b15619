------------------------------- MODULE Review -------------------------------
(***************************************************************************)
(* The reviews of one experiment, from REVIEW_PENDING to a verdict. The    *)
(* worker runs the first, recover() one after each crash, and retry_review()*)
(* any number in worker threads of the API, which may overlap: nothing      *)
(* but the UNIQUE constraint on attempts and the status check of _accept   *)
(* stands between them.                                                    *)
(*                                                                         *)
(* A bundle is known by the number of the experiment's events in it: all   *)
(* it says of the experiment changes only with an event, and its digest is *)
(* injective. What it says of the parent experiment is left out.           *)
(* A reference is an event by its place in that sequence, or 0 for some    *)
(* digest that the bundle lists. Codex session rows change with their      *)
(* review rows, in the same transactions, and are left out.                *)
(***************************************************************************)
EXTENDS Statuses, ReviewRules

CONSTANTS
    Main, Worker, Retriers,
    Answers,     \* kinds of answer: [target, verdict, checks, cites, quotes]
    NoGoal, NoAnswer,
    MaxRetries, MaxCrashes,
    MaxErrors    \* bound on files not read or written

Threads == Retriers \cup {Main, Worker}

ASSUME ThreadsDiffer == Main # Worker /\ Main \notin Retriers /\ Worker \notin Retriers

\* ReviewOutput.verdict.
ASSUME AnswersAssumption == \A a \in Answers : a.verdict \in Verdicts

VARIABLES
    \* the database
    status,      \* experiments.status
    events,      \* the experiment's events in the ledger
    reviews,     \* reviews rows in order of attempt, which the constraint makes unique
    board,       \* review_id of the leaderboard row, 0 before there is one
    \* the threads
    pc, goal,
    bundle,      \* events in the bundle a thread has collected
    attempt,     \* the attempt number it has computed
    answer,      \* what its reviewer has returned
    \* bounds
    retries, crashes, errors

rows == <<status, events, reviews, board>>
frames == <<pc, goal, bundle, attempt, answer>>
bounds == <<retries, crashes, errors>>
vars == <<rows, frames, bounds>>

\* Labels at which a thread holds the row of its attempt.
HoldLabels == {"ask", "record", "accept"}
Labels == {"idle", "down", "serving", "verify", "collect", "number", "open", "move"}
             \cup HoldLabels

\* The events, by event_type.
StatusChanged(s) == [type |-> "status_changed", to |-> s]
Started(a) == [type |-> "started", attempt |-> a]
Blocked(a) == [type |-> "blocked", attempt |-> a]
OutputReceived(a) == [type |-> "output_received", attempt |-> a]
SummaryRecorded(a) == [type |-> "summary", attempt |-> a]
Accepted(a) == [type |-> "accepted", attempt |-> a]

Init ==
    /\ status = "REVIEW_PENDING"
    /\ events = <<StatusChanged("REVIEW_PENDING")>>
    /\ reviews = <<>>
    /\ board = 0
    /\ pc = [t \in Threads |-> CASE t = Main -> "serving"
                                 [] t = Worker -> "verify"
                                 [] OTHER -> "idle"]
    /\ goal = [t \in Threads |-> NoGoal]
    /\ bundle = [t \in Threads |-> 0]
    /\ attempt = [t \in Threads |-> 0]
    /\ answer = [t \in Threads |-> NoAnswer]
    /\ retries = 0 /\ crashes = 0 /\ errors = 0

-----------------------------------------------------------------------------
\* Control flow of a thread

Serving == pc[Main] = "serving"

Goto(t, label) ==
    /\ pc' = [pc EXCEPT ![t] = label]
    /\ UNCHANGED <<goal, bundle, attempt, answer>>

\* A call of _transition with target s.
Request(t, s) ==
    /\ pc' = [pc EXCEPT ![t] = "move"]
    /\ goal' = [goal EXCEPT ![t] = s]
    /\ UNCHANGED <<bundle, attempt, answer>>

\* The thread's frames are gone; it waits at the given label for its next call.
Leave(t, label) ==
    /\ pc' = [pc EXCEPT ![t] = label]
    /\ goal' = [goal EXCEPT ![t] = NoGoal]
    /\ bundle' = [bundle EXCEPT ![t] = 0]
    /\ attempt' = [attempt EXCEPT ![t] = 0]
    /\ answer' = [answer EXCEPT ![t] = NoAnswer]

\* _review returns: recover() is done, the worker goes on, the call is answered.
Return(t) == Leave(t, IF t = Main THEN "serving" ELSE "idle")

\* An exception leaves _review: start() fails and the process ends, or the worker
\* loop logs it, or the API answers with an error.
Throw(t) == Leave(t, IF t = Main THEN "down" ELSE "idle")

\* Mutant: the table of transitions is not consulted.
MoveUnchecked(t) ==
    /\ pc[t] = "move"
    /\ status' = goal[t]
    /\ events' = Append(events, StatusChanged(goal[t]))
    /\ IF goal[t] = "REVIEW_PENDING" THEN Goto(t, "verify") ELSE Return(t)
    /\ UNCHANGED <<reviews, board, bounds>>

\* _transition.
Move(t) ==
    /\ pc[t] = "move"
    /\ \/ /\ goal[t] \in AllowedTransitions[status] \cup {status}
          /\ status' = goal[t]
          /\ events' = IF status = goal[t] THEN events
                       ELSE Append(events, StatusChanged(goal[t]))
          /\ IF goal[t] = "REVIEW_PENDING" THEN Goto(t, "verify") ELSE Return(t)
       \/ /\ goal[t] \notin AllowedTransitions[status] \cup {status}
          /\ UNCHANGED <<status, events>>
          /\ Throw(t)
    /\ UNCHANGED <<reviews, board, bounds>>

-----------------------------------------------------------------------------
\* retry_review(): the status is read here and moved in a transaction of its own.
RetryRequest(r) ==
    /\ Serving /\ pc[r] = "idle"
    /\ status \in RetryableStatuses
    /\ retries < MaxRetries
    /\ retries' = retries + 1
    /\ Request(r, "REVIEW_PENDING")
    /\ UNCHANGED <<rows, crashes, errors>>

-----------------------------------------------------------------------------
\* _review()

\* _pre_review_verify: the files are as they were sealed, or not.
PreReviewVerify(t) ==
    /\ pc[t] = "verify"
    /\ Goto(t, "collect") \/ Request(t, "VERIFICATION_FAILED")
    /\ UNCHANGED <<rows, bounds>>

\* The rows and events for the bundle are read.
Collect(t) ==
    /\ pc[t] = "collect"
    /\ bundle' = [bundle EXCEPT ![t] = Len(events)]
    /\ pc' = [pc EXCEPT ![t] = "number"]
    /\ UNCHANGED <<rows, goal, attempt, answer, bounds>>

\* MAX(attempt) + 1, in no transaction.
Number(t) ==
    /\ pc[t] = "number"
    /\ attempt' = [attempt EXCEPT ![t] = Len(reviews) + 1]
    /\ pc' = [pc EXCEPT ![t] = "open"]
    /\ UNCHANGED <<rows, goal, bundle, answer, bounds>>

\* Mutant: the reviewer is asked first and the row left for later.
OpenUnrecorded(t) ==
    /\ pc[t] = "open"
    /\ events' = Append(events, Started(attempt[t]))
    /\ Goto(t, "ask")
    /\ UNCHANGED <<status, reviews, board, bounds>>

\* Mutant: INSERT OR IGNORE.
OpenIgnoring(t) ==
    /\ pc[t] = "open"
    /\ reviews' = IF attempt[t] \in DOMAIN reviews THEN reviews
                  ELSE Append(reviews, [state |-> "RUNNING", bundle |-> bundle[t],
                                        output |-> NoAnswer])
    /\ events' = Append(events, Started(attempt[t]))
    /\ Goto(t, "ask")
    /\ UNCHANGED <<status, board, bounds>>

\* AuditBundle.build, then the transaction that starts the attempt; another thread
\* may have taken its number, which raises IntegrityError.
Open(t) ==
    /\ pc[t] = "open"
    /\ \/ /\ attempt[t] = Len(reviews) + 1
          /\ reviews' = Append(reviews, [state |-> "RUNNING", bundle |-> bundle[t],
                                         output |-> NoAnswer])
          /\ events' = Append(events, Started(attempt[t]))
          /\ Goto(t, "ask")
       \/ /\ attempt[t] # Len(reviews) + 1
          /\ UNCHANGED <<reviews, events>>
          /\ Throw(t)
    /\ UNCHANGED <<status, board, bounds>>

\* The references a bundle of n events offers.
Allowed(n) == 0 .. n

\* What a reviewer may cite: the bundle, an event that came after it, or nothing.
References(t, cites) ==
    CASE cites = "bundle" -> {0, bundle[t]}
      [] cites = "later" -> {Len(events)}
      [] cites = "nothing" -> {}

\* The reviewer answers, about its own bundle or about one of another attempt.
Ask(t) ==
    /\ pc[t] = "ask"
    /\ \E a \in Answers :
       \E target \in IF a.target = "own" THEN {bundle[t]}
                     ELSE {reviews[i].bundle : i \in DOMAIN reviews} :
          answer' = [answer EXCEPT ![t] =
             [target |-> target,
              verdict |-> a.verdict,
              checks |-> [i \in DOMAIN a.checks |->
                            [name |-> a.checks[i].name, status |-> a.checks[i].status,
                             refs |-> References(t, a.cites)]],
              summaryRefs |-> References(t, a.quotes)]]
    /\ pc' = [pc EXCEPT ![t] = "record"]
    /\ UNCHANGED <<rows, goal, bundle, attempt, bounds>>

\* Mutant: only the event and the status tell of the failure.
AskFailsUnrecorded(t) ==
    /\ pc[t] = "ask"
    /\ events' = Append(events, Blocked(attempt[t]))
    /\ Request(t, "REVIEW_BLOCKED")
    /\ UNCHANGED <<status, reviews, board, bounds>>

\* CodexDriverError, a timeout, or output that does not parse.
AskFails(t) ==
    /\ pc[t] = "ask"
    /\ reviews' = [reviews EXCEPT ![attempt[t]].state = "BLOCKED"]
    /\ events' = Append(events, Blocked(attempt[t]))
    /\ Request(t, "REVIEW_BLOCKED")
    /\ UNCHANGED <<status, board, bounds>>

\* The output is recorded, then acted upon.
Record(t) ==
    LET asked == Judgement(answer[t], bundle[t], Allowed(bundle[t])) IN
    /\ pc[t] = "record"
    /\ reviews' = [reviews EXCEPT
          ![attempt[t]].state = IF asked = "REVIEW_BLOCKED" THEN "BLOCKED" ELSE "COMPLETED",
          ![attempt[t]].output = answer[t]]
    /\ events' = Append(events, OutputReceived(attempt[t]))
    /\ IF asked = "ACCEPTED" THEN Goto(t, "accept") ELSE Request(t, asked)
    /\ UNCHANGED <<status, board, bounds>>

\* Mutant: the status is not read again.
AcceptAnyway(t) ==
    /\ pc[t] = "accept"
    /\ status' = "ACCEPTED"
    /\ board' = attempt[t]
    /\ events' = events \o <<SummaryRecorded(attempt[t]), Accepted(attempt[t])>>
    /\ Return(t)
    /\ UNCHANGED <<reviews, bounds>>

\* _accept. That a computed metric disappears is not possible: no row is deleted.
Accept(t) ==
    /\ pc[t] = "accept"
    /\ \/ /\ status = "REVIEW_PENDING"
          /\ status' = "ACCEPTED"
          /\ board' = attempt[t]
          /\ events' = events \o <<SummaryRecorded(attempt[t]), Accepted(attempt[t])>>
          /\ Return(t)
       \/ /\ status # "REVIEW_PENDING"
          /\ UNCHANGED <<status, board, events>>
          /\ Throw(t)
    /\ UNCHANGED <<reviews, bounds>>

\* A sealed file or a policy snapshot cannot be read, or the bundle or
\* review-output.json cannot be written: no handler in _review and _accept, and those
\* of _grade and _run_experiment leave the status alone.
FileFails(t) ==
    /\ pc[t] \in {"verify", "open", "record", "accept"}
    /\ errors < MaxErrors
    /\ errors' = errors + 1
    /\ Throw(t)
    /\ UNCHANGED <<rows, retries, crashes>>

-----------------------------------------------------------------------------
\* Mutant: an interrupted review is not resumed.
RecoverNothing ==
    /\ pc[Main] = "down"
    /\ Goto(Main, "serving")
    /\ UNCHANGED <<rows, bounds>>

\* start(): recover() runs a review of its own before the API is served.
Recover ==
    /\ pc[Main] = "down"
    /\ Goto(Main, IF status = "REVIEW_PENDING" THEN "verify" ELSE "serving")
    /\ UNCHANGED <<rows, bounds>>

Crash ==
    /\ pc[Main] # "down"
    /\ crashes < MaxCrashes
    /\ crashes' = crashes + 1
    /\ pc' = [t \in Threads |-> IF t = Main THEN "down" ELSE "idle"]
    /\ goal' = [t \in Threads |-> NoGoal]
    /\ bundle' = [t \in Threads |-> 0]
    /\ attempt' = [t \in Threads |-> 0]
    /\ answer' = [t \in Threads |-> NoAnswer]
    /\ UNCHANGED <<rows, retries, errors>>

-----------------------------------------------------------------------------
Step(t) ==
    \/ Move(t) \/ PreReviewVerify(t) \/ Collect(t) \/ Number(t) \/ Open(t)
    \/ Ask(t) \/ AskFails(t) \/ Record(t) \/ Accept(t)

Next ==
    \/ \E t \in Threads : Step(t) \/ FileFails(t)
    \/ \E r \in Retriers : RetryRequest(r)
    \/ Recover \/ Crash

Spec == Init /\ [][Next]_vars
-----------------------------------------------------------------------------
\* The type invariant.
TypeOK ==
    /\ status \in Statuses
    /\ \A a \in DOMAIN reviews :
          /\ reviews[a].state \in {"RUNNING", "BLOCKED", "COMPLETED"}
          /\ reviews[a].bundle < Len(events)
    /\ board \in 0 .. Len(reviews)
    /\ pc \in [Threads -> Labels]
    /\ goal \in [Threads -> Statuses \cup {NoGoal}]
    /\ bundle \in [Threads -> Nat] /\ attempt \in [Threads -> Nat]
    /\ \A t \in Threads : pc[t] \in HoldLabels => attempt[t] \in DOMAIN reviews

\* Where an event occurs in the ledger.
At(event) == {i \in DOMAIN events : events[i] = event}

\* README.zh-CN.md, a review with a check missing or unknown, another bundle's hash or a
\* reference that does not exist keeps the experiment off the leaderboard: whatever is
\* on it rests on one completed review that validate_review_semantics accepts for its
\* own bundle, and everything that review cites had happened before it began.
AcceptanceRests ==
    board # 0 =>
        LET r == reviews[board] IN
        /\ r.state = "COMPLETED"
        /\ Valid(r.output, r.bundle, Allowed(r.bundle))
        /\ \A i \in At(Started(board)) : r.bundle < i

\* _accept: however many reviews end at the same time, there is one acceptance, it is
\* the status and the row of the leaderboard and the summary, and none comes after
\* another verdict has settled the experiment.
AcceptedOnce ==
    /\ status = "ACCEPTED" <=> board # 0
    /\ \A a \in DOMAIN reviews :
          LET n == IF a = board THEN 1 ELSE 0 IN
          /\ Cardinality(At(Accepted(a))) = n
          /\ Cardinality(At(SummaryRecorded(a))) = n

\* The reviews table and the events that say the same: an attempt is started once and
\* ends at most once, and its row says how.
RowsFollowEvents ==
    \A a \in DOMAIN reviews :
        /\ Cardinality(At(Started(a))) = 1
        /\ Cardinality(At(Blocked(a)) \cup At(OutputReceived(a))) =
              IF reviews[a].state = "RUNNING" THEN 0 ELSE 1
        /\ reviews[a].state = "COMPLETED" => At(OutputReceived(a)) # {}

Holders(a) == {t \in Threads : pc[t] \in HoldLabels /\ attempt[t] = a}

\* UNIQUE(experiment_id, attempt), with attempt numbers read outside the transaction
\* that inserts them: no two threads ever work on one row, and a row is left RUNNING
\* only by a crash or by an output that could not be written.
AttemptsAreHeld ==
    \A a \in DOMAIN reviews :
        /\ Cardinality(Holders(a)) <= 1
        /\ reviews[a].state = "RUNNING" /\ crashes = 0 /\ errors = 0 => Holders(a) # {}

\* The status an attempt asks for, once it has ended.
Opinion(r) ==
    CASE r.state = "RUNNING" -> "none"
      [] r.state = "BLOCKED" -> "REVIEW_BLOCKED"
      [] r.state = "COMPLETED" -> Judgement(r.output, r.bundle, Allowed(r.bundle))

Promise == INSTANCE Docket WITH
    status <- status,
    opinions <- [a \in DOMAIN reviews |-> Opinion(reviews[a])]

\* Every step of the threads is a step of the docket or none: the experiment is settled
\* only in the sense of a review on record, although verdict and transition are two
\* transactions and reviews overlap.
ImplementsDocket == Promise!Spec

\* retry_review() and recover(): an experiment in REVIEW_PENDING, which blocks the
\* pipeline and which nobody can retry, is in the hands of a thread while the service
\* runs, although any of several overlapping reviews may fail, unless a file could not
\* be read or written.
PendingIsHeld ==
    Serving /\ status = "REVIEW_PENDING" /\ errors = 0 =>
        \E t \in Threads \ {Main} : pc[t] # "idle"
=============================================================================
