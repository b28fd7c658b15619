----------------------------- MODULE Projections -----------------------------
(***************************************************************************)
(* The tables and the events they are projections of: every transaction    *)
(* that changes experiments, artifacts, metrics or leaderboard_entries also *)
(* appends to the ledger, and audit_verify() replays the ledger and compares.*)
(* Auditors run beside everything else: the API, the command line, which is *)
(* a process of its own, and the worker share only the database.           *)
(*                                                                         *)
(* Events of one transaction that say the same of several artifacts are one *)
(* event here. The hash chain is not part of this module.                  *)
(***************************************************************************)
EXTENDS Statuses, Naturals, Sequences, FiniteSets

CONSTANTS
    Experiments,
    Artifacts,
    Owner,       \* the experiment an artifact belongs to
    Required,    \* artifacts sealed with required = True
    Refreshers,  \* callers of refresh_evidence_health()
    Auditors,    \* those that call it from audit_verify()
    Importers,   \* verilab summary import
    Scores,
    Legacy,      \* accepted by a release that recorded no change summary
    NoRow, Nobody,
    MaxEvents,     \* bound on the length of the ledger
    MaxWithdrawals \* bound on the withdrawals of an experiment

ASSUME AuditorsRefresh == Auditors \subseteq Refreshers

ASSUME CallersDiffer == Refreshers \cap Importers = {}

ASSUME OwnersExist == Owner \in [Artifacts -> Experiments] /\ Required \subseteq Artifacts

Health == {"healthy", "missing", "hash_drift"}
Entry == [score : Scores, withdrawn : BOOLEAN, evidence : {"healthy", "degraded"}]

ASSUME MarkersDiffer ==
    /\ NoRow \notin Scores /\ NoRow \notin Health /\ NoRow \notin Entry
    /\ Nobody \notin Artifacts \cup Experiments

VARIABLES
    events,                 \* the ledger
    status, withdrawn, evidence,  \* columns of experiments
    health,                 \* artifacts.health
    computed, verified,     \* metrics by source
    board,                  \* leaderboard_entries
    pc,
    rows,                   \* refresh_evidence_health: health of the selected rows
                            \* that are still to be checked
    at, found,              \* the artifact to update and what it was found to be
    log, errors,            \* audit_verify: length of the ledger it read, its findings
    claim                   \* the experiment an importer has checked

tables == <<status, withdrawn, evidence, health, computed, verified, board>>
locals == <<pc, rows, at, found, log, errors, claim>>
vars == <<events, tables, locals>>

Labels == {"idle", "check", "update", "experiments", "board", "artifacts", "metrics",
           "record", "done"}

Init ==
    /\ events = <<>>
    /\ status = [e \in Experiments |-> "ABSENT"]
    /\ withdrawn = [e \in Experiments |-> FALSE]
    /\ evidence = [e \in Experiments |-> "healthy"]
    /\ health = [a \in Artifacts |-> NoRow]
    /\ computed = [e \in Experiments |-> NoRow]
    /\ verified = [e \in Experiments |-> NoRow]
    /\ board = [e \in Experiments |-> NoRow]
    /\ pc = [p \in Refreshers \cup Importers |-> "idle"]
    /\ rows = [p \in Refreshers |-> health]
    /\ at = [p \in Refreshers |-> Nobody]
    /\ found = [p \in Refreshers |-> "healthy"]
    /\ log = [p \in Auditors |-> 0]
    /\ errors = [p \in Auditors |-> {}]
    /\ claim = [p \in Importers |-> Nobody]

-----------------------------------------------------------------------------
\* The events, by event_type.
Submitted(e) == [type |-> "submitted", of |-> e]
StatusChanged(e, s) == [type |-> "status_changed", of |-> e, to |-> s]
Sealed(e, A) == [type |-> "sealed", of |-> e, artifacts |-> A]
Completed(e, v) == [type |-> "completed", of |-> e, score |-> v]
SummaryRecorded(e) == [type |-> "summary", of |-> e]
Accepted(e, v) == [type |-> "accepted", of |-> e, score |-> v]
Withdrawn(e) == [type |-> "withdrawn", of |-> e]
HealthChanged(a, h) == [type |-> "health_changed", of |-> a, to |-> h]

\* EventLedger.append within the transaction of the action.
Write(new) ==
    /\ Len(events) + Len(new) <= MaxEvents
    /\ events' = events \o new

-----------------------------------------------------------------------------
\* The controller's transactions.
Submit(e) ==
    /\ status[e] = "ABSENT"
    /\ status' = [status EXCEPT ![e] = "QUEUED"]
    /\ Write(<<Submitted(e)>>)
    /\ UNCHANGED <<withdrawn, evidence, health, computed, verified, board, locals>>

\* Mutant: the review opens on whatever the grader left.
TransitionUngraded(e, s) ==
    /\ s \in AllowedTransitions[status[e]] \ {"ACCEPTED"}
    /\ status' = [status EXCEPT ![e] = s]
    /\ Write(<<StatusChanged(e, s)>>)
    /\ UNCHANGED <<withdrawn, evidence, health, computed, verified, board, locals>>

\* _transition; _grade opens the review only with a computed metric.
Transition(e, s) ==
    /\ s \in AllowedTransitions[status[e]] \ {"ACCEPTED"}
    /\ status[e] = "GRADING" /\ s = "REVIEW_PENDING" => computed[e] # NoRow
    /\ status' = [status EXCEPT ![e] = s]
    /\ Write(<<StatusChanged(e, s)>>)
    /\ UNCHANGED <<withdrawn, evidence, health, computed, verified, board, locals>>

\* _insert_artifacts: the log and the receipt of a run, though a cancel came first,
\* then its declared files, then the controller's own.
Seal(e, A) ==
    /\ status[e] \in {"RUNNING", "CANCELLED", "GRADING"}
    /\ A # {} /\ \A a \in A : Owner[a] = e /\ health[a] = NoRow
    /\ health' = [a \in Artifacts |-> IF a \in A THEN "healthy" ELSE health[a]]
    /\ Write(<<Sealed(e, A)>>)
    /\ UNCHANGED <<status, withdrawn, evidence, computed, verified, board, locals>>

\* The end of _grade.
RecordMetrics(e) ==
    /\ status[e] = "GRADING" /\ computed[e] = NoRow
    /\ \E v \in Scores :
          /\ computed' = [computed EXCEPT ![e] = v]
          /\ Write(<<Completed(e, v)>>)
    /\ UNCHANGED <<status, withdrawn, evidence, health, verified, board, locals>>

\* _accept; the columns withdrawn and evidence_health of the new row have their
\* defaults.
Accept(e) ==
    /\ status[e] = "REVIEW_PENDING"
    /\ status' = [status EXCEPT ![e] = "ACCEPTED"]
    /\ verified' = [verified EXCEPT ![e] = computed[e]]
    /\ board' = [board EXCEPT ![e] =
            [score |-> computed[e], withdrawn |-> FALSE, evidence |-> "healthy"]]
    /\ Write((IF e \in Legacy THEN <<>> ELSE <<SummaryRecorded(e)>>)
               \o <<Accepted(e, computed[e])>>)
    /\ UNCHANGED <<withdrawn, evidence, health, computed, locals>>

MayWithdraw(e) ==
    Cardinality({i \in DOMAIN events : events[i] = Withdrawn(e)}) < MaxWithdrawals

\* Mutant: the row of the leaderboard is forgotten.
WithdrawExperiment(e) ==
    /\ status[e] # "ABSENT" /\ MayWithdraw(e)
    /\ withdrawn' = [withdrawn EXCEPT ![e] = TRUE]
    /\ Write(<<Withdrawn(e)>>)
    /\ UNCHANGED <<status, evidence, health, computed, verified, board, locals>>

Withdraw(e) ==
    /\ status[e] # "ABSENT" /\ MayWithdraw(e)
    /\ withdrawn' = [withdrawn EXCEPT ![e] = TRUE]
    /\ board' = IF board[e] = NoRow THEN board
                ELSE [board EXCEPT ![e].withdrawn = TRUE]
    /\ Write(<<Withdrawn(e)>>)
    /\ UNCHANGED <<status, evidence, health, computed, verified, locals>>

-----------------------------------------------------------------------------
\* refresh_evidence_health: the rows are selected once, then each artifact is
\* looked at and, if need be, updated in a transaction of its own.
Refresh(p) ==
    /\ pc[p] = "idle"
    /\ rows' = [rows EXCEPT ![p] = health]
    /\ pc' = [pc EXCEPT ![p] = "check"]
    /\ UNCHANGED <<events, tables, at, found, log, errors, claim>>

CheckAs(p, a, now, skip) ==
    /\ pc[p] = "check" /\ rows[p][a] # NoRow
    /\ rows' = [rows EXCEPT ![p][a] = NoRow]
    /\ IF skip
       THEN UNCHANGED <<pc, at, found>>
       ELSE /\ at' = [at EXCEPT ![p] = a]
            /\ found' = [found EXCEPT ![p] = now]
            /\ pc' = [pc EXCEPT ![p] = "update"]
    /\ UNCHANGED <<events, tables, log, errors, claim>>

\* Mutant: a restored file makes the artifact healthy again.
CheckRestoring(p, a) == \E now \in Health : CheckAs(p, a, now, now = rows[p][a])

\* The files and objects of an artifact may change, disappear and come back at any
\* time. What has been lost stays lost although its bytes come back.
Check(p, a) ==
    \E now \in Health : CheckAs(p, a, now, now \in {rows[p][a], "healthy"})

CheckOn(p) ==
    /\ pc' = [pc EXCEPT ![p] = "check"]
    /\ at' = [at EXCEPT ![p] = Nobody]
    /\ found' = [found EXCEPT ![p] = "healthy"]
    /\ UNCHANGED <<rows, log, errors, claim>>

\* Mutant: the row of the leaderboard is forgotten.
UpdateExperiment(p) ==
    /\ pc[p] = "update"
    /\ health' = [health EXCEPT ![at[p]] = found[p]]
    /\ evidence' = IF at[p] \in Required /\ found[p] # "healthy"
                   THEN [evidence EXCEPT ![Owner[at[p]]] = "degraded"] ELSE evidence
    /\ Write(<<HealthChanged(at[p], found[p])>>)
    /\ CheckOn(p)
    /\ UNCHANGED <<status, withdrawn, computed, verified, board>>

Update(p) ==
    /\ pc[p] = "update"
    /\ LET e == Owner[at[p]]
           lost == at[p] \in Required /\ found[p] # "healthy"
       IN  /\ health' = [health EXCEPT ![at[p]] = found[p]]
           /\ evidence' = IF lost THEN [evidence EXCEPT ![e] = "degraded"] ELSE evidence
           /\ board' = IF lost /\ board[e] # NoRow
                       THEN [board EXCEPT ![e].evidence = "degraded"] ELSE board
    /\ Write(<<HealthChanged(at[p], found[p])>>)
    /\ CheckOn(p)
    /\ UNCHANGED <<status, withdrawn, computed, verified>>

-----------------------------------------------------------------------------
\* What replaying the first n events gives.
Last(n, types, x) ==
    LET hits == {i \in 1 .. n : events[i].type \in types /\ events[i].of = x}
    IN  IF hits = {} THEN [type |-> "none"]
        ELSE events[CHOOSE i \in hits : \A j \in hits : j <= i]

Happened(n, event) == \E i \in 1 .. n : events[i] = event

SealedBy(n) ==
    {a \in Artifacts : \E i \in 1 .. n : /\ events[i].type = "sealed"
                                         /\ a \in events[i].artifacts}

StatusBy(n, e) ==
    LET last == Last(n, {"submitted", "status_changed", "accepted"}, e)
    IN  CASE last.type = "none" -> "ABSENT"
          [] last.type = "submitted" -> "QUEUED"
          [] last.type = "status_changed" -> last.to
          [] last.type = "accepted" -> "ACCEPTED"

HealthBy(n, a) ==
    LET last == Last(n, {"health_changed"}, a)
    IN  IF last.type = "none" THEN "healthy" ELSE last.to

EvidenceBy(n, e) ==
    IF \E a \in SealedBy(n) \cap Required : Owner[a] = e /\ HealthBy(n, a) # "healthy"
    THEN "degraded" ELSE "healthy"

\* What _verify_projections reports of each table against the first n events.
ExperimentErrors(n) ==
    {e \in Experiments :
        /\ StatusBy(n, e) # "ABSENT"
        /\ \/ status[e] # StatusBy(n, e)
           \/ evidence[e] # EvidenceBy(n, e)}

BoardWrong(n, e) ==
    IF \E v \in Scores : Happened(n, Accepted(e, v))
    THEN \/ board[e] = NoRow
         \/ ~Happened(n, Accepted(e, board[e].score))
         \/ board[e].withdrawn # Happened(n, Withdrawn(e))
         \/ board[e].evidence # EvidenceBy(n, e)
    ELSE board[e] # NoRow

BoardErrors(n) == {e \in Experiments : BoardWrong(n, e)}

ArtifactErrors(n) ==
    {a \in Artifacts : health[a] # IF a \in SealedBy(n) THEN HealthBy(n, a) ELSE NoRow}

MetricErrors(n) ==
    {e \in Experiments : \E v \in Scores :
        \/ Happened(n, Completed(e, v)) /\ computed[e] # v
        \/ Happened(n, Accepted(e, v)) /\ verified[e] # v}

\* audit_verify: the ledger is read, then each table, by a query of its own in no
\* transaction.
ReadEvents(p) ==
    /\ pc[p] = "check" /\ \A a \in Artifacts : rows[p][a] = NoRow
    /\ log' = [log EXCEPT ![p] = Len(events)]
    /\ pc' = [pc EXCEPT ![p] = "experiments"]
    /\ UNCHANGED <<events, tables, rows, at, found, errors, claim>>

Compare(p, table, next, wrong) ==
    /\ pc[p] = table
    /\ errors' = [errors EXCEPT ![p] = @ \cup wrong]
    /\ pc' = [pc EXCEPT ![p] = next]
    /\ UNCHANGED <<events, tables, rows, at, found, log, claim>>

\* Mutant: a withdrawn experiment need not agree.
ReadBoardShown(p) ==
    Compare(p, "board", "artifacts",
            {e \in BoardErrors(log[p]) : board[e] # NoRow => ~withdrawn[e]})

ReadExperiments(p) == Compare(p, "experiments", "board", ExperimentErrors(log[p]))
ReadBoard(p) == Compare(p, "board", "artifacts", BoardErrors(log[p]))
ReadArtifacts(p) == Compare(p, "artifacts", "metrics", ArtifactErrors(log[p]))
ReadMetrics(p) == Compare(p, "metrics", "done", MetricErrors(log[p]))

-----------------------------------------------------------------------------
\* record_historical_change_summary: what it requires is read first, and the event
\* appended in a transaction of its own.
CheckSummary(p, e) ==
    /\ pc[p] = "idle"
    /\ status[e] = "ACCEPTED"
    /\ ~Happened(Len(events), SummaryRecorded(e))
    /\ claim' = [claim EXCEPT ![p] = e]
    /\ pc' = [pc EXCEPT ![p] = "record"]
    /\ UNCHANGED <<events, tables, rows, at, found, log, errors>>

RecordSummary(p) ==
    /\ pc[p] = "record"
    /\ Write(<<SummaryRecorded(claim[p])>>)
    /\ pc' = [pc EXCEPT ![p] = "done"]
    /\ UNCHANGED <<tables, rows, at, found, log, errors, claim>>

RefreshHealth(p) == Refresh(p) \/ Update(p) \/ \E a \in Artifacts : Check(p, a)

Verify(p) ==
    \/ ReadEvents(p)
    \/ ReadExperiments(p) \/ ReadBoard(p) \/ ReadArtifacts(p) \/ ReadMetrics(p)

Next ==
    \/ \E e \in Experiments :
          \/ Submit(e) \/ RecordMetrics(e) \/ Accept(e) \/ Withdraw(e)
          \/ \E s \in Statuses : Transition(e, s)
          \/ \E A \in SUBSET Artifacts : Seal(e, A)
    \/ \E p \in Refreshers : RefreshHealth(p)
    \/ \E p \in Auditors : Verify(p)
    \/ \E p \in Importers : RecordSummary(p) \/ \E e \in Experiments : CheckSummary(p, e)

Spec == Init /\ [][Next]_vars
-----------------------------------------------------------------------------
\* The type invariant.
TypeOK ==
    /\ status \in [Experiments -> Statuses \cup {"ABSENT"}]
    /\ withdrawn \in [Experiments -> BOOLEAN]
    /\ evidence \in [Experiments -> {"healthy", "degraded"}]
    /\ health \in [Artifacts -> Health \cup {NoRow}]
    /\ computed \in [Experiments -> Scores \cup {NoRow}]
    /\ verified \in [Experiments -> Scores \cup {NoRow}]
    /\ board \in [Experiments -> Entry \cup {NoRow}]
    /\ pc \in [Refreshers \cup Importers -> Labels]
    /\ rows \in [Refreshers -> [Artifacts -> Health \cup {NoRow}]]
    /\ at \in [Refreshers -> Artifacts \cup {Nobody}]
    /\ found \in [Refreshers -> Health]
    /\ log \in [Auditors -> 0 .. Len(events)]
    /\ errors \in [Auditors -> SUBSET (Experiments \cup Artifacts)]
    /\ claim \in [Importers -> Experiments \cup {Nobody}]
    /\ \A p \in Refreshers : pc[p] = "update" => at[p] # Nobody

\* README.md, "tables are projections": but for the leaderboard, the tables are at
\* any time what the ledger replays to, however the updates of several refreshes,
\* each from rows selected earlier, interleave.
TablesFollowLedger ==
    /\ ExperimentErrors(Len(events)) = {}
    /\ ArtifactErrors(Len(events)) = {}
    /\ MetricErrors(Len(events)) = {}

\* README.md, "Status and leaderboard tables are projections", and README.zh-CN.md, a
\* withdrawal hides the experiment from the ranking: the leaderboard is at any time
\* what the ledger replays to.
BoardFollowsLedger == BoardErrors(Len(events)) = {}

\* withdraw() and refresh_evidence_health(): a row of the leaderboard is withdrawn or
\* degraded exactly if a withdrawal, or the loss of a required artifact, came after
\* its acceptance.
BoardShowsWhatCameAfter ==
    \A e \in Experiments, i \in 1 .. Len(events) :
        events[i].type = "accepted" /\ events[i].of = e =>
            LET later == {events[j] : j \in i + 1 .. Len(events)} IN
            /\ board[e].score = events[i].score
            /\ board[e].withdrawn <=> Withdrawn(e) \in later
            /\ board[e].evidence = "degraded" <=>
                  \E ev \in later : /\ ev.type = "health_changed"
                                    /\ ev.of \in Required /\ Owner[ev.of] = e

\* "Restoring the exact bytes ... does not erase the historical evidence-loss event":
\* no later refresh, and no slower one with older rows, makes evidence healthy.
LossIsKept ==
    [][/\ \A e \in Experiments : evidence[e] = "degraded" => evidence'[e] = "degraded"
       /\ \A a \in Artifacts : health[a] \in {"missing", "hash_drift"} =>
                                  health'[a] \in {"missing", "hash_drift"}]_vars

\* audit_verify(): an audit that has seen the whole ledger reports exactly what is
\* wrong with the tables.
QuietAuditIsExact ==
    \A p \in Auditors :
        pc[p] = "done" /\ log[p] = Len(events) =>
            (errors[p] = {} <=> TablesFollowLedger /\ BoardFollowsLedger)

\* audit_verify(): a disagreement of the leaderboard can only come from the acceptance.
\* An audit without errors vouches for every acceptance it has seen for all time.
CleanAuditVouches ==
    \A p \in Auditors, e \in Experiments :
        /\ pc[p] = "done" /\ errors[p] = {}
        /\ \E v \in Scores : Happened(log[p], Accepted(e, v))
        => ~BoardWrong(Len(events), e)
=============================================================================
