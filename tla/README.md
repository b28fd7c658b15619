# TLA+ model of VeriLab

VeriLab runs experiments that an assistant proposes: a submission is queued, its
command is run by a supervised process, its files are sealed, a trusted grader
recomputes its metrics, a reviewer judges the bundle, and only then the result
enters a leaderboard. This directory models that controller in TLA+, checks the
model with TLC on small instances and proves the most important facts about it
with TLAPS for instances of any size.

Line numbers refer to the files of `src/verilab/` in the repository
(`service.py:312` is `src/verilab/service.py`, line 312).

## 1. The system

### Components

| component | state it keeps | operations | modelled in |
|---|---|---|---|
| Controller (`service.py`) | `experiments`, `runs` rows; the pipeline lock; the worker and monitor threads | `submit`, `cancel`, `run_next`, `_run_experiment`, `_transition`, `recover`, `retry_review`, `_grade`, `_review`, `_accept` | `Controller` |
| Status table (`models.py`) | none | `ALLOWED_TRANSITIONS` | `Statuses`, `Lifecycle` |
| Run supervisor (`runner.py`) | the child process, `run.log`, `exit-receipt.json` | `execute`, signals | `Controller` |
| Process identity (`security.py`) | `/proc` | `same_process` | `Controller`, as "the process exists" |
| Trusted grader (`grader.py`) | the grader's process, `grader-output.json` | `run`, `read_reported_metrics`, `metric_consistent` | `Grading`; outcomes in `Controller` |
| Reviewer (`service.py`, `codex_driver.py`, `bundle.py`) | bundle directory, `reviews` and session rows | `_review`, `_accept`, `retry_review`, `build`, `reviewer` | `Review`, `ReviewRules`; verdicts in `Controller` |
| Artifact store (`artifacts.py`) | objects by hash, `artifacts` rows | `seal`, `seal_file`, `verify_record` | `Grading`; two facts in `Controller` |
| Event ledger (`ledger.py`) | hash-chained `events` | `append`, `verify`, `list` | `EventLedger`, `EventStream`; without the chain in `Projections` |
| Projections and audit (`service.py`) | `leaderboard_entries`, `evidence_health` | `withdraw`, `refresh_evidence_health`, `audit_verify`, `record_historical_change_summary` | `Projections` |
| Policies (`config.py`, `cli.py`) | `policy.json`, its snapshots, `capability.token` | `install_policy`, `load_policy`, `Settings.load` | `StateDir` |
| Chat (`service.py`, `codex_driver.py`) | the executor session row | `chat`, `executor` | `Chat` |
| HTTP API (`api.py`) | the cursor of each event stream | `GET /api/events`; otherwise one handler per call | `EventStream`; which thread a call runs in |
| Database (`db.py`) | SQLite file | `transaction`, `connect` | begin, commit and rollback in `EventStream`; elsewhere a transaction is one step |
| Command line (`cli.py`) | none | `policy install`, `follow`, `audit verify`, `summary import` | `StateDir`, `EventStream`, `Projections` |
| Repository, pages | Git worktrees; none | | `create_detached_worktree` only |

### How they interact

One controller process holds these threads:

- the main thread runs `recover()` to the end, then starts the worker and serves
  the API (`service.py:124`);
- the worker calls `run_next()` in a loop (`service.py:139`); the method is public
  and guarded by a lock that is tried, never waited for, so the model allows
  several callers;
- `recover()` starts one monitor thread for each run whose process outlived the
  previous controller (`service.py:1272`);
- `submit` and `cancel` run on the API's event loop, one after the other;
  `retry_review` and `chat` run in worker threads, concurrently with everything.

The threads share the database (transactions with `BEGIN IMMEDIATE`), the run
directories, and the formal processes. Each formal process has a session of its
own, so it survives the controller; the trusted grader is an ordinary child, and
survives a controller that is killed.

### What is hard

Operations check and act in separate transactions; the lock covers callers of
`run_next()` but not `cancel`, `retry_review`, `recover` or the monitors; a crash
may fall between any two steps and recovery has to infer from the rows, the
receipt and `/proc` what happened; exceptions of some types pass all handlers;
and one experiment that stays `RUNNING`, `GRADING` or `REVIEW_PENDING` with nobody
working on it stops everything, because `_has_active_pipeline` never lets the next
one start. `PROJECT.json` lists these hazards at their lines, each with the
properties that would catch it going wrong.

### What makes each component correct

- Controller: one FIFO pipeline; a command is run once and never beside another;
  nothing is graded unless its command ended with exit code 0 and left a receipt;
  an acknowledged cancel counts; recovery and retries leave no experiment
  unattended; every submission settles.
- Grader, artifact store: what is graded is what was sealed; resuming an
  interrupted grading is as good as not having been interrupted.
- Reviewer: a leaderboard row rests on one completed, structurally valid review
  of the evidence it names; overlapping attempts stay apart, and an experiment is
  settled once, in the sense of a review on record.
- Ledger and projections: the chain verifies, the tables are what replaying the
  events gives, withdrawal and degraded evidence are not lost.
- Event stream: a follower is given every event once and in order, over lost
  connections and restarts.
- Policies: what is in force is whole and has its snapshot; queued experiments
  keep theirs.
- Chat: one conversation, which every call resumes, whatever overlaps.

## 2. The modules

```
Statuses ──> Lifecycle (with its theorem)
    │            ^ (INSTANCE)
    ├──> Controller ──> MCController
    │         └──> ControllerProofs ──> CustodyProofs
    ├──> Grading ──> MCGrading, GradingProofs
    ├──> Projections ──> MCProjections, ProjectionProofs
    └──> Review ──> MCReview, ReviewProofs
            ^   └··> Docket (INSTANCE)
       ReviewRules

EventLedger ──> EventStream ──> Chat ──> MCChat, ChatProofs
                     └··> Feed (INSTANCE)
StateDir ──> MCStateDir, StateDirProofs
```

**`Statuses`**: the statuses, the table of allowed transitions and the groups of
statuses the code names.

**`Lifecycle`**: the abstract specification, what the README of the system
promises. An experiment is submitted with a serial number, leaves the queue only
when it is the oldest and nothing is in the pipeline, and moves only as the table
allows. `WaysIntoThePipeline` says from where a transition may enter the pipeline.

**`Controller`**: the detailed model. The correspondence is:

| model | code |
|---|---|
| `status`, `born`, `clock` | `experiments.status`, `created_at` |
| `runStatus`, `pid`, `cancel` | `runs.status`, `runs.pid`, `runs.cancel_requested` (with the status it was accepted in, a history variable no guard reads) |
| `evidence` | whether the roles `execution_log` and `exit_receipt` are in `artifacts` |
| `proc` | the formal process, with its exit code once it has ended |
| `receipt` | `exit-receipt.json`: absent, truncated by `write_text`, complete |
| `pc[t]`, `job[t]`, `goal[t]` | where thread `t` is, its experiment, the target of its current `_transition` |
| `lock` | `_pipeline_lock` |
| `todo`, `seen` | rows `recover()` selected and has not visited, and `cancel_requested` in them |

A step is one transaction, one read whose result is used later, one file
operation or one signal; code between two such points cannot be observed and
belongs to one of them. `Move` is the transaction of `_transition`, with its three
outcomes: silent when the status already is the target, done, or `InvalidState`.
`Throw` sends a `RuntimeError` to the handler of `_run_experiment` when the worker
is in it; `Unwind` ends the outermost call, which for `recover()` means that the
process exits. `FailAt` and `EscapeAt` choose at which labels an error of the
handled or of the unhandled kind may happen, `UnreadableAt` where a policy snapshot
or a commit may be unreadable: the latter raise `RuntimeError`, which `_grade` does
not catch and the handler of `_run_experiment` does, even when the run has long
ended and the experiment is under review. `Crash` ends the process and all its
threads at any point; `Boot` starts the next one. `_grade` and `_review` keep
their control flow, while the grader and the reviewer are reduced to their verdicts.

**`Grading`** follows one experiment from `GRADING` to its verdict, a step for
each file operation and transaction of `_grade`, with a thread that may die
anywhere, resumption by `recover()`, retries, and declared files that change at
any time. The grader is a process of its own: it reads the sealed files, opens its
output and completes it in steps of its own, and one that outlives a crash does so
beside the grader of the resumed grading. `Controller` abstracts all this to a verdict, and justifies that one
thread at a time is at work here.

| model | code |
|---|---|
| `rows`, `manifestRow`, `outputRow` | `artifacts.sha256` by role |
| `computed`, `reported` | `metrics` rows; a computed metric carries what it was computed from (history) |
| `disk`, `manifest`, `output` | the files of the run directory; `Torn` is an output that is no grader's whole one |
| `graders` | the grader processes alive: in which life of the controller each was started, and what it has read |
| `overtaken` | whether the output was written since it was last parsed (history) |
| `objects` | `objects/sha256/` |
| `batch`, `at` | local variables of `seal()` |
| `got`, `result` | `reported`, `computed` of `_grade` |
| `blamed` | the files in the payload of "sealed artifacts changed before review" |

A content is a number and its own digest: SHA-256 is taken as injective. `Change`
gives a file a content it never had; only those in `Restorable` may come back.

**`Projections`** has the ledger as a sequence and the columns of the tables that
`_verify_projections` compares. Each action is one transaction with the rows it
writes and the events it appends; `refresh_evidence_health` and `audit_verify` are
taken apart into their selects, file checks and updates. The `...By(n, ...)`
operators are the replay of the first `n` events, the `...Errors(n)` operators what
the audit reports of each table. What `verify_record` finds of an artifact after
acceptance is arbitrary, since files and objects may go and come back between any
two looks.

**`ReviewRules`** has what the controller makes of a reviewer's output
(`_review_structure_error` and the end of `_review`), and beside it the definition
of a valid review in `models.py`. **`Docket`** is the abstract specification of
reviews: an attempt gives at most one opinion, opinions on record do not change,
and an experiment under review is settled only in the sense of one of them.

**`Review`** follows the reviews of one experiment from `REVIEW_PENDING`: the
worker's, one by `recover()` after each crash, and any number by `retry_review()`
in threads of the API. `Controller` reduces all this to a verdict; here every read
and transaction of `_review` is a step, and the threads overlap.

| model | code |
|---|---|
| `status`, `board` | `experiments.status`; `leaderboard_entries.review_id` |
| `reviews` | `reviews` rows in order of `attempt`; `OpenIgnoring` shows what the constraint is for |
| `events` | the experiment's events, by type |
| `bundle[t]`, `attempt[t]`, `answer[t]` | local variables of `_review`; a bundle is the number of events in it |
| `goal[t]` | the target of the `_transition` under way |

`Answers` are kinds of answer rather than answers: what is wrong with one (another
bundle, a check missing, doubled or unknown, a reference to something later) is
chosen from a set, of which `MCReview` has one of each consequence, and `Ask` makes it of what there is.

**`EventLedger`** has the chain as operators on a sequence of rows: what `append`
adds, what `verify` complains of, what `list` returns. **`EventStream`** adds the
transactions of several writers and the streams of `GET /api/events`: `Select`,
`Yield` and `Receive` are apart, so that a connection may be lost with a page half
sent or on its way. `Pages` reconnect with the last id they were given, the other
followers (`verilab follow`) end with their connection. **`Feed`** is what this
promises: a log that grows, and each follower given its next entry.

**`Chat`** is `EventStream` with particular writers: overlapping calls of `chat()`,
each with its two transactions and Codex between them, and the rest of the
controller. Codex may report the thread it was told to resume, another one, or none.

| model | code |
|---|---|
| `events`, `draft`, `writer` | the `events` table, uncommitted rows, who holds the write lock |
| `conn`, `cursor`, `page`, `wire`, `got` | the connection, `cursor` and `rows` of `stream()`, what is on its way, what was received |
| `sessions` | `thread_id` of ACTIVE `codex_sessions` rows with role `executor` |
| `session[c]`, `thread[c]`, `reported[c]` | local variables of `chat()`: the session, the thread that Codex is told to resume, and the one in its result |

**`StateDir`** has the files of the state directory that several processes write,
as links from names to files: `open` with truncation, `write` and `replace` are
steps of their own and go by names that all installations share. Submissions read
the policy and its snapshot meanwhile, and `Load`, `MakeToken`, `FillToken` are the
first start of whichever process comes first. `crowd`, `raced` and `deaths` are
history: how many installations were under way at once, whether two processes
looked for a token at once, how many were killed.

**`MCController`**, **`MCGrading`**, **`MCProjections`**, **`MCReview`**,
**`MCChat`** and **`MCStateDir`** give the constants their values for TLC and add
the symmetry sets. The modules whose names end in `Proofs`, and `Lifecycle`, hold
the theorems.

Operators whose comment begins with "Mutant" are plausible mistakes in the
operator that follows. No specification refers to them; `PROJECT.json` says which
property each one breaks.

## 3. The runs

| run | instance | question |
|---|---|---|
| `pipeline` | 2 experiments, 2 callers of `run_next()`, 1 retrier, 2 crashes, 1 retry, handled errors at nine labels, unhandled ones at five, unreadable snapshots at three | Is the pipeline single and FIFO, is only a clean, uncancelled run ever graded, is every step a step of `Lifecycle`, and when can two commands overlap or evidence stay unsealed? |
| `liveness` | 2 experiments, 1 crash, 1 retry, errors `_run_experiment` handles, fair | Does every submission settle? Does anything that blocks the pipeline lose its thread? Do the two rows of a run agree? |
| `two_processes` | 2 experiments, 1 crash | violated, see below |
| `grader_timeout` | 1 experiment, unhandled error while grading | violated |
| `recovered_evidence` | 1 experiment, 1 crash | violated |
| `grading` | a required report, a required large file that may come back once changed, an optional small file; 1 change, any losses, 2 crashes with surviving graders | Is the accepted score that of the sealed files and, unless a survivor writes late, of the sealed output, does it agree with the report on record, are objects their hash (in `TypeOK`)? |
| `resumed_grading` | the same | violated |
| `projections` | 1 experiment, 1 required artifact, 2 refreshes, one of them an audit's, 1 import, 10 events, 1 withdrawal | Are the tables what the ledger replays to, what do leaderboard rows show, and what is an audit's report worth? |
| `early_withdrawal` | 1 experiment, 1 artifact, 1 refresh, 10 events, 1 withdrawal | violated |
| `reviews` | 2 required checks, 5 kinds of answer and none, 2 retriers, 2 retries, 1 crash, 1 file that cannot be read or written | What does an acceptance rest on, do overlapping attempts stay apart, does a pending review stay in somebody's hands, is every step one of `Docket`? |
| `chat` | 2 calls, 1 other writer, 1 reconnecting page, pages of 2 rows, 5 events, 1 lost connection or crash, fair | Is there one conversation that the ledger explains, does the chain verify and show drift, is a page given every event once and in the end? |
| `statedir` | 3 installers of 2 policies, at most 2 at once, 1 killed, 1 server, 1 submission | Which files stay whole for whom, and while how many installations overlap? |

**Bounds.** `MaxCrashes` and `MaxRetries` bound the only counters; `clock` is
bounded by the number of experiments. Two experiments are enough for one to
overtake, start beside or block another, and every property is about one or two
of them. Two crashes give a crash during recovery from a crash. Two callers contend
for the lock; a third would find it taken in the same way.

In `Grading`, three declared files cover the three combinations of required and
small that the code treats differently and that matter to the properties. One
change may fall before or after the sealing, the grader's reading and the
verification, and may be undone; losses are not bounded. With two crashes a resumed
grading is interrupted again, and up to three graders are alive at once.

In `Projections`, eight events (seven for a `Legacy` experiment, accepted without a
change summary) lead from submission to acceptance, and the bounds leave room for
two, three or four more: losses, withdrawals or failed reviews before or after it.
One experiment is enough because no property relates two, and no transaction
touches two. The one artifact is required; that an artifact which is not leaves the
leaderboard alone is not exercised by the run, which would grow several times for
it, but the theorems are about any artifacts, required or not.

In `Review`, with two retries beside the first review and the one after a crash up
to four attempts are made. At most two overlap, those of the two retries: the worker's
review has settled the experiment before a retry is possible, and the review of a
restart ends before the API is served. So two threads can want one number, and either
can settle the experiment while the other is at work. One file that cannot be read or written is enough to lose
the experiment, which is what the bound is there for; the answers are one of each
kind that `ReviewRules` tells apart.

In `Chat`, five events let two calls ask and answer and one event of another
writer fall anywhere; a page of two makes streams stop within, at and after the end
of a page; one loss hits a connection before, within and after a page, or the
server within a transaction. `verilab follow` differs from a page only in that it
does not come back: it is left out of the instance and covered by the proofs,
which are about any followers. In `StateDir`, three installations with two under
way at once give an installation before, beside and after another; three at once
break `JobsKeepTheirPolicy`, as section "left open" says.

**Symmetry** of experiments, workers, retriers, installers and policies is used in
the runs without liveness properties: no constant distinguishes them, and
`ImplementsLifecycle` and `ImplementsDocket` are safety properties with no fairness.

**Deadlock** is not checked: with everything submitted and settled, and crashes
and retries used up, the system may rightly have nothing to do, and after an
unhandled error it may be stuck, which `Attended` and `EverySubmissionSettles`
speak of.

**Fairness** (`Fairness` in `Controller`) is weak and per thread: the interpreter
schedules every thread; the service is restarted after a crash, by hand or by a
service manager; `proc` ends, because commands end or their policy has a timeout.
Submissions, cancels, retries, errors and crashes are not fair. `liveness` allows
the errors `_run_experiment` handles while it runs an experiment, and neither those
that escape, as `grader_timeout` shows, nor those of reading and writing files in
`_review` and `_accept`: after either the property is false.

In `Chat`, only the streams of pages are fair (`Follow`, weakly): `stream()` loops as
long as its connection lives and an `EventSource` reconnects by itself. Calls,
Codex, other writers and losses are not.

### What the violated runs show

Each is a disagreement of the code with a sentence of the documentation or a test.

- `two_processes`: the command is started by `Popen` (`runner.py:118`) and its pid
  is committed afterwards (`service.py:360`). After a crash in between, `recover()`
  finds no pid, declares the experiment `ORPHANED` while its command runs, and
  the next command starts beside it. The README lists a concurrent experiment
  runner among the exclusions.
- `grader_timeout`: `subprocess.TimeoutExpired` from the grader is caught by no
  handler. The experiment stays `GRADING` and blocks the queue until a restart,
  whose `recover()` runs the grader again before the service starts.
- `recovered_evidence`: `_recover_receipt` goes straight to grading, so the log
  and the receipt of a recovered run are never sealed.
- `resumed_grading`: after a crash at `service.py:597` the resumed grading writes a
  manifest with two more rows over the sealed one. The first digest stays in the
  table, and the experiment fails verification for a change nobody else made.
  `AcceptedOutputIsSealed` is the good side: of gradings that do not overlap with a
  grader left behind, no other output is accepted.
- `early_withdrawal`: `withdraw` takes an experiment in any status, the acceptance
  inserts a row that is not withdrawn, and the ranking shows it. The same happens
  with evidence found lost before the acceptance. `BoardShowsWhatCameAfter`, in
  `projections`, says that these are the only ways in which the leaderboard can
  disagree with the ledger.

### What the properties leave open on purpose

The models contain these behaviours of the code, and the properties are stated
around them:

- a cancel accepted while `RUNNING`, after the worker has read the flag at
  `service.py:464`, has no effect (`QueuedCancelNeverGraded` is of earlier ones);
- pre-review verification passes over changed files that are not required
  (`service.py:674`), and over changes of required ones that have been undone by
  then; the grader reads the run directory, not the object store
  (`ScoreOfSealedFiles` is of `Required \ Restorable`);
- a grader that a crash left behind may write `grader-output.json` after the resumed
  grading has parsed it (`grader.py:88`) and before it is sealed (`service.py:588`).
  The file that is sealed, and later verified, is then not the one the metrics came
  from, and the experiment may be accepted. `AcceptedOutputIsSealed` excepts this
  (`overtaken`), and says that whichever grader wrote the file, it was computed from
  the sealed content of the required files;
- the audit reads the ledger and each table by queries of their own and reports a
  commit in between as a mismatch (`QuietAuditIsExact` says when its report can be
  relied on, `CleanAuditVouches` what a clean one is worth);
- two `verilab summary import` processes that both find no summary both record one;
- two commands are alive at once after a crash that recovery cannot see through,
  an error in the supervision loop, or a cancel that the worker overtook
  (`OverlapHasCause` names each, and that there is no other), and evidence is
  unsealed only after a crash (`EvidenceSealedUnlessRecovered`);
- a file that cannot be read or written in `_review` and `_accept` leaves the
  experiment `REVIEW_PENDING` with no thread until the next restart (`PendingIsHeld`
  has `errors = 0`). If it is a policy snapshot, the worker's handler of
  `RuntimeError` also marks the run, which had ended well, as failed (`RunRowAgrees`
  is checked, and proved, for readable snapshots);
- a review that completed before a crash and was not acted upon stays in the table
  without effect, and the review after the restart decides;
- `verify()` does not notice rows missing at the end of the ledger, nor a last row
  altered together with its digest (`DriftShows` excepts the last row);
- a chat question whose Codex fails stays in the ledger without an answer, and if Codex
  reports another thread than the one it was told to resume, the session goes on in that;
- installations that overlap may fail, or leave a mixture in force
  (`InForceIsWhole` is of one at a time), and three at once can empty a snapshot
  that queued experiments are bound to (`JobsKeepTheirPolicy` is of two); two
  processes that make the token at once may disagree about it
  (`ServerHoldsTheToken` has `~raced`).

## 4. What is proved

Every invariant and every action property that a passing run checks is also a
theorem, for instances of any size; so are the three refinements. The theorems hold
under the named assumptions on the constants that each part below lists: most say
that two kinds of thing are different, or that a marker for "nothing" is none of the
things. Two theorems about the controller have a further hypothesis, given with them.

### The controller

For every set of experiments, workers and retriers, every choice of `FailAt`,
`UnreadableAt`, `EscapeAt` and `HasDeadline`, any number of crashes and retries. Assumptions in
`Controller`: `ThreadsAreDistinct`, `NamesOfNothing`, `DeadlineIsBoolean`, and
`ServingIsNoCall` (the main thread makes no call that could fail once the service
runs).

- `TypeCorrect` (`ControllerProofs`): `Spec => []TypeOK`. `TypeOK` is inductive by
  itself because `FramesOK` says where a thread has an experiment and a target.
- `AdmissionInvariant` (`ControllerProofs`): `Spec => []Admission`. The interesting
  point is that `run_next()` looks for an active experiment, selects the oldest
  queued one and starts it in three transactions. `Admission` says that what was
  read still holds at the start: a worker past its check holds the lock, the
  pipeline is still empty, and its choice is still the oldest. The proof sorts
  the steps: those that only settle (`Settling`: no status enters the pipeline or
  the queue) and keep the threads (`Holding`: nobody gets closer to a start)
  preserve it by one lemma, `QuietStep`; submission, selection and the move to
  `RUNNING` are done one by one.
- `ControllerImplementsLifecycle`: `Spec => Promise!Spec`, the refinement, which
  needs `Admission` for the one step that starts an experiment.
- `LifecycleIsSingle` (`Lifecycle`): the abstract specification keeps at most one
  experiment in `RUNNING` or `GRADING`; `PipelineIsSingle`: the controller inherits
  that through the refinement.
- `CustodyInvariant` (`CustodyProofs`): `Spec => []Custody`, on which all that
  follows rests. None of the properties about runs is inductive, because each is
  decided in one thread and depends on what the others cannot have done meanwhile.
  `Custody` says of each thread at which labels it may be (`Role`), which statuses
  its experiment may have by then, cancels included (`Place`), and how far the run
  has come (`Progress`); of each experiment, how rows, files and process agree
  (`Row`); that it is in one thread's hands, but for overlapping retries (`Alone`);
  and that `recover()` has the rows it selected to itself (`Startups`).
- `GradedRunsAreClean`, `QueuedCancelIsFinal`, `EvidenceIsSealedFirst`,
  `OverlapsAreStrays`: the run's invariants of the same subjects, from `Custody`.
- `TicketIsUsedOnce`: the action property, no step and no restart starts a command
  that was started before.
- `RunRowsAgree`, if `SnapshotsReadable`: no policy snapshot or commit is unreadable
  when a run is graded, reviewed or accepted. Otherwise the property is false: the
  `RuntimeError` (`service.py:546`, `715`, `800`, `984`) passes the except clause at
  658, and the handler at 482 marks the run of an experiment that is being graded or
  reviewed. All other errors, handled or not, are allowed.
- `ActiveIsAttended`, if `NothingSlips`: no error passes all handlers after a run
  has started, nor is one raised in `_grade` or `_review`, where `recover()`,
  `retry_review` and the monitors have no handler. With such an error the property
  is false, as `grader_timeout` shows. The invariant `Kept` is the property
  together with the rows that `recover()` has still to hand out.

### The grader

For any roles, scores, tolerance, number of changes and crashes, from
`RolesAreDeclared`, `RolesDiffer`, `MarkersDiffer` and `NumbersAreNumbers` in
`Grading`:

- `GradingTypes` (`GradingProofs`): types.
- `ScoreIsOfSealedFiles`: `Spec => []ScoreOfSealedFiles`. The property speaks of the
  moment of acceptance, while the grader read the files long before, perhaps in an
  earlier life of the controller; `Provenance` connects them: whenever a file is found
  to be as it was sealed, every grader that has read it found it so, and so do the
  output and whatever came of it, because a changed file that is not in `Restorable`
  cannot get its sealed content back (`ChangesShow`, from `Fresh`: no content is newer
  than the last change). Verification then turns `Provenance` into `Confirmed`. Files
  in `Restorable` have to be left out: a change while the grader reads that is undone
  before the verification shows nowhere.
- `OutputIsSealed`: `Spec => []AcceptedOutputIsSealed`. Its first half follows the
  output from the parse through the sealing to the verification, for as long as no
  survivor writes; the second is `Provenance` again, of the sealed output itself.
- `ReportsAgree`: `Spec => []AcceptedReportAgrees`. A resumed grading keeps the
  reported metric of the first body and compares the one it reads itself, so the
  two on record were never compared with each other; the report verified as sealed
  is what makes them the same (`ReportInv`). The property is of reports in
  `Required \ Restorable`, since `_pre_review_verify` holds only required artifacts
  to their sealed content; without the restriction it is false.

### Projections and audit

For any number of experiments, artifacts, refreshes, audits and imports, from
`OwnersExist`, `AuditorsRefresh`, `CallersDiffer` and `MarkersDiffer` in
`Projections`:

- `LossStaysKnown` (`ProjectionProofs`): `Spec => LossIsKept`. `LossInv` says that
  what a refresh is about to write is never `healthy`, however old its rows are.
- `ProjectionTypes` and `TablesAreTold`: types, and `Spec => []TablesFollowLedger`.
  `Told(ev, t)` says of any ledger and any tables that replaying the one gives the
  other. That a transaction keeps it so is proved once for all (`ToldGrows`: for an
  event that `Fits` the tables and is projected onto them as `Projects` says), and each transaction of
  the model is shown to be one such event or two (the lemmas `...Recorded`). The
  replay takes the last event of a kind; that there is one is `Greatest`.
- `BoardIsTold`: `Spec => []BoardShowsWhatCameAfter`, from the part of `Told` that
  is about the board.
- `AuditIsExact` and `AuditVouches`: what an audit's report is worth. It reads the
  ledger and the tables one after the other while others write; `Audited` says for
  every stage what the errors found so far are, if nothing was written since
  (`log = Len(events)`), and what the absence of errors means even if something
  was. The latter is `Shows`: a row that once agreed with the ledger shows
  everything that came before its acceptance, and rows are never made whole again.
- `LedgerInvariant` is the inductive invariant `LedgerInv`, the conjunction of all this
  with `Held`, which says that what a refresh or an import still holds is still there.

### Reviews

For any checks, answers, retriers, and any number of retries, crashes and errors,
from `ThreadsDiffer` and `AnswersAssumption` (a verdict is one of the three that
the output's type allows) in `Review`:

- `JudgementIsValidity` (`ReviewProofs`): `_review` accepts exactly the outputs that
  `validate_review_semantics` calls valid; the repository has the two definitions in
  two files.
- `ReviewInvariant`: `Spec => []ReviewInv`. `ThreadInv` says what a thread at each
  label knows of the row it works on; `Apart`, that no two threads hold one attempt,
  which is what makes that knowledge stable (`OthersKeep`: the tables only grow,
  but for a row that had no opinion yet). Each step is one lemma by `OneMoves`. A
  row without an opinion belongs to its thread alone, so the transition a thread
  asks for is always the opinion of a row on record.
- `AcceptanceRestsOnReview`, `AttemptsStayHeld`, `PendingStaysHeld`, `ReviewTypes`:
  the run's properties, from `ReviewInv` and, for those of who is at work, `HeldInv`:
  a thread at `open` whose number is taken does not count as busy, because its next
  step fails, but then the thread that took the number does.
- `OneAcceptance` and `EventsTellOfRows`: `Spec => []AcceptedOnce` and
  `Spec => []RowsFollowEvents`. Both count events of a kind; `ToldInvariant` keeps
  the set of their places step by step, along with the row each tells of.
- `ReviewsImplementDocket`: `Spec => Promise!Spec`.

### Event stream and chat

For any writers, bodies, followers and page size, from `StreamAssumption`,
`ChatAssumption` and `BodiesAssumption` (what `chat()` and the rest of the
controller append are bodies):

- `LedgerVerifies` (`ChatProofs`): `Spec => []ChainVerifies`, from an invariant that
  gives each row of `events \o draft` its number and the digest of the row before.
- `DriftIsShown`: `Spec => []DriftShows`.
- `StreamKeepsPromise`: `Spec => Promise!Spec`. The invariant says of each open
  stream that what was received, what is on its way and what is in its page are
  consecutive rows and its cursor is where the second ends.
- `ChatTypes`, `SessionIsTold`, `LastThreadIsResumed`: types, `SessionFollowsLedger`
  and `ResumesLastThread`. A call reads the session in the transaction that appends
  its question, so that the place of the question in the ledger fixes the thread it
  resumes, whatever is asked, answered and reported until its own answer is there.
  `CallsInv` says this of every label (`Continues`), with what it rests on: whose
  turn it is to write (`TurnsOK`), that there is one session row (`OneSession`) and
  what the ledger tells of it (`SessionTold`).

### State directory

For any number of installers, policies, servers and submissions, installers killed
anywhere, from `DirAssumption` (the sets are apart, installers are finitely many):

- `DirTypes`, `PolicyInForceIsWhole`, `QueuedKeepTheirPolicy` and `TokenIsShared`
  (`StateDirProofs`): the run's properties, from `DirInv`. A file has one name at a
  time, and one that is open was opened under the name its installer is writing
  (`Owned`); hence a file that is or will be a snapshot of `p` never holds another
  policy (`Pure`). What it may hold otherwise depends on how many installations
  were ever under way at once: with one, everything is whole (`Single`); with two, a
  snapshot that is there is put in place again at most once more, and whole
  (`Pairs`). `Counted` connects `crowd` with who is installing, `Tokens` is the
  same argument for `capability.token`. `Spare` says that the model has a new file
  for every `open`, so that its bound on files prevents no step.

### What is only model-checked

`EverySubmissionSettles` and `EveryEventArrives`, which as liveness properties under
fairness are out of the prover's reach; and the violations.

The provers cannot use the library's induction theorems, which take an operator as
a parameter; where a proof needs a maximum or a least place it uses that `<` is
well-founded on the naturals (`NatLessThanWellFounded`, `WFMin`), which is stated
with sets.

## 5. What is not modelled

Assumed throughout: one controller process per state directory; no pid is reused
and `/proc` exists; `created_at` increases with each submission (they run one after
the other); a process left behind by a controller is reaped by init; `start()` is
called once per process; `stop()` is a crash as far as the threads are concerned.
Heartbeats appear only as errors they may raise. A second submission of a
specification under the same policy is the same element of `Experiments`. Writers
wait for each other as long as it takes (the code gives up after 30 s). Codex, and
what it does in the working directory, is external, as is Git.

Left out because they keep no state: pages, translations, request plumbing,
lineage and leaderboard formatting, the clients on the command line, notes (one
event), the export of a bundle. Left out for their size: the limits of 100000 and
1000000 events on what a bundle and an audit read, which `PROJECT.json` lists as a
hazard. Left out because files are one per role here: globs, and objects that
several experiments share.

## 6. Plan

What could still be added, in order of importance:

1. Objects in the artifact store that several experiments share, with two writers
   of one object.
2. A variant of `Controller` with a second process on the same state directory.
3. Weaker hypotheses for `ActiveIsAttended`: which single error, at which label and
   in which thread, abandons an experiment, rather than that there is none.
4. The ranking of `leaderboard()` and the parser of `git -z` output as pure
   definitions over bounded inputs.
