-------------------------- MODULE ProjectionProofs --------------------------
(***************************************************************************)
(* What is proved of the tables, the ledger and the audit, for any number  *)
(* of experiments, artifacts, refreshes, audits and imports.               *)
(*                                                                         *)
(* First LossIsKept: what a refresh is about to write is never "healthy",  *)
(* however old the rows are that it decided from, and nothing else writes  *)
(* to a sealed row.                                                        *)
(*                                                                         *)
(* Then that every transaction is told by its events. Told(ev, t) says of  *)
(* any ledger ev and any tables t that replaying the one gives the other;  *)
(* an event that Fits the tables and is Projected onto them keeps it so    *)
(* (ToldGrows), and every transaction of Projections is one such event, or *)
(* two (the lemmas ...Recorded). An audit reads the tables one after the   *)
(* other; Audited says what its findings are worth meanwhile. What it may  *)
(* vouch for rests on Shows: a row that once agreed shows all that came    *)
(* before its acceptance, and rows are never made whole again.             *)
(***************************************************************************)
EXTENDS Projections, Integers, WellFoundedInduction, TLAPS

\* The columns that tell lost evidence, and what a refresh is about to write there.
LossInv ==
    /\ evidence \in [Experiments -> {"healthy", "degraded"}]
    /\ health \in [Artifacts -> Health \cup {NoRow}]
    /\ found \in [Refreshers -> Health]
    /\ pc \in [Refreshers \cup Importers -> Labels]
    /\ \A p \in Refreshers : pc[p] = "update" => found[p] # "healthy"

\* What LossIsKept says of one step.
Kept ==
    /\ \A e \in Experiments : evidence[e] = "degraded" => evidence'[e] = "degraded"
    /\ \A a \in Artifacts : health[a] \in {"missing", "hash_drift"} =>
                               health'[a] \in {"missing", "hash_drift"}

\* A step that leaves the evidence and the refreshes alone.
LEMMA AloneStep ==
    ASSUME LossInv, UNCHANGED <<evidence, health, found>>,
           pc' \in [Refreshers \cup Importers -> Labels],
           \A p \in Refreshers : pc'[p] = "update" => pc[p] = "update"
    PROVE  LossInv' /\ Kept
  BY DEF LossInv, Kept

LEMMA LossStep ==
    ASSUME LossInv, [Next]_vars
    PROVE  LossInv' /\ Kept
<1> USE OwnersExist, AuditorsRefresh, MarkersDiffer
<1>1. CASE UNCHANGED vars
  BY <1>1, AloneStep DEF vars, tables, locals, LossInv
<1>2. ASSUME NEW e \in Experiments,
             \/ Submit(e) \/ RecordMetrics(e) \/ Accept(e) \/ Withdraw(e)
             \/ \E s \in Statuses : Transition(e, s)
      PROVE  LossInv' /\ Kept
  BY <1>2, AloneStep DEF LossInv, Submit, RecordMetrics, Accept, Withdraw, Transition, locals
<1>3. ASSUME NEW e \in Experiments, NEW A \in SUBSET Artifacts, Seal(e, A)
      PROVE  LossInv' /\ Kept
  BY <1>3 DEF LossInv, Kept, Seal, Health, locals
<1>4. ASSUME NEW p \in Refreshers, Refresh(p)
      PROVE  LossInv' /\ Kept
  BY <1>4, AloneStep DEF LossInv, Refresh, tables, Labels
<1>5. ASSUME NEW p \in Refreshers, NEW a \in Artifacts, Check(p, a)
      PROVE  LossInv' /\ Kept
  <2>1. PICK now \in Health : CheckAs(p, a, now, now \in {rows[p][a], "healthy"})
    BY <1>5 DEF Check
  <2>2. CASE now \in {rows[p][a], "healthy"}
    BY <2>1, <2>2, AloneStep DEF LossInv, CheckAs, tables, Labels
  <2>3. CASE now \notin {rows[p][a], "healthy"}
    BY <2>1, <2>3 DEF LossInv, Kept, CheckAs, tables, Labels
  <2>4. QED
    BY <2>2, <2>3
<1>6. ASSUME NEW p \in Refreshers, Update(p)
      PROVE  LossInv' /\ Kept
  <2>1. found[p] \in {"missing", "hash_drift"}
    BY <1>6 DEF LossInv, Update, Health
  <2>2. /\ health' = [health EXCEPT ![at[p]] = found[p]]
        /\ evidence' = [evidence EXCEPT ![Owner[at[p]]] = "degraded"] \/ evidence' = evidence
        /\ pc' = [pc EXCEPT ![p] = "check"]
        /\ found' = [found EXCEPT ![p] = "healthy"]
    BY <1>6 DEF Update, CheckOn
  <2>3. QED
    BY <2>1, <2>2 DEF LossInv, Kept, Health, Labels
<1>7. ASSUME NEW p \in Auditors, Verify(p)
      PROVE  LossInv' /\ Kept
  BY <1>7, AloneStep DEF LossInv, Verify, ReadEvents, ReadExperiments, ReadBoard,
     ReadArtifacts, ReadMetrics, Compare, tables, Labels
<1>8. ASSUME NEW p \in Importers,
             RecordSummary(p) \/ \E e \in Experiments : CheckSummary(p, e)
      PROVE  LossInv' /\ Kept
  BY <1>8, AloneStep DEF LossInv, RecordSummary, CheckSummary, tables, Labels
<1>9. QED
  BY <1>1, <1>2, <1>3, <1>4, <1>5, <1>6, <1>7, <1>8 DEF Next, RefreshHealth

\* Evidence once found lost is never healthy again, in any row, for any number of
\* concurrent refreshes.
THEOREM LossStaysKnown == Spec => LossIsKept
<1>1. Init => LossInv
  BY DEF Init, LossInv, Health, Labels
<1>2. LossInv /\ [Next]_vars => LossInv'
  BY LossStep
<1>3. LossInv /\ [Next]_vars => [Kept]_vars
  BY LossStep
<1>4. QED
  BY <1>1, <1>2, <1>3, PTL DEF Spec, LossIsKept, Kept

-----------------------------------------------------------------------------
(* What the ledger may hold, and what each table is told by it. These are   *)
(* properties of any sequence of events ev and any tables t, so that one     *)
(* lemma, ToldGrows, serves every transaction.                               *)

Event ==
    [type : {"submitted", "summary", "withdrawn"}, of : Experiments]
        \cup [type : {"status_changed"}, of : Experiments, to : Statuses \ {"ACCEPTED"}]
        \cup [type : {"sealed"}, of : Experiments, artifacts : SUBSET Artifacts]
        \cup [type : {"completed", "accepted"}, of : Experiments, score : Scores]
        \cup [type : {"health_changed"}, of : Artifacts, to : {"missing", "hash_drift"}]

StatusTypes == {"submitted", "status_changed", "accepted"}
HealthTypes == {"health_changed"}

\* The status an event gives an experiment.
StatusOf(y) ==
    CASE y.type = "submitted" -> "QUEUED"
      [] y.type = "status_changed" -> y.to
      [] y.type = "accepted" -> "ACCEPTED"

Accepts(y, e) == y.type = "accepted" /\ y.of = e

\* The loss of an artifact that e requires.
Loses(y, e) == y.type = "health_changed" /\ y.of \in Required /\ Owner[y.of] = e

\* The operators of the replay, over any sequence of events.
LastIn(ev, n, types, x) ==
    LET hits == {i \in 1 .. n : ev[i].type \in types /\ ev[i].of = x}
    IN  IF hits = {} THEN [type |-> "none"]
        ELSE ev[CHOOSE i \in hits : \A j \in hits : j <= i]

SealedIn(ev, n) ==
    {a \in Artifacts : \E i \in 1 .. n : ev[i].type = "sealed" /\ a \in ev[i].artifacts}

StatusIn(ev, n, e) ==
    LET last == LastIn(ev, n, StatusTypes, e)
    IN  IF last.type = "none" THEN "ABSENT" ELSE StatusOf(last)

HealthIn(ev, n, a) ==
    LET last == LastIn(ev, n, HealthTypes, a)
    IN  IF last.type = "none" THEN "healthy" ELSE last.to

LostIn(ev, n, e) == \E i \in 1 .. n : Loses(ev[i], e)

Tables ==
    [status |-> status, evidence |-> evidence, health |-> health, computed |-> computed,
     verified |-> verified, board |-> board]

\* Artifacts are lost after they were sealed.
SealedFirst(ev) ==
    \A i \in 1 .. Len(ev) :
        ev[i].type = "health_changed" => ev[i].of \in SealedIn(ev, i)

StatusTold(ev, t) == \A e \in Experiments : t.status[e] = StatusIn(ev, Len(ev), e)

HealthTold(ev, t) ==
    \A a \in Artifacts :
        t.health[a] = IF a \in SealedIn(ev, Len(ev)) THEN HealthIn(ev, Len(ev), a) ELSE NoRow

EvidenceTold(ev, t) ==
    \A e \in Experiments :
        t.evidence[e] = IF LostIn(ev, Len(ev), e) THEN "degraded" ELSE "healthy"

MetricsTold(ev, t) ==
    \A e \in Experiments, i \in 1 .. Len(ev) :
        ev[i].type = "completed" /\ ev[i].of = e => t.computed[e] = ev[i].score

\* An accepted experiment stays accepted, and its row of the leaderboard tells what
\* came after its acceptance.
BoardTold(ev, t) ==
    \A e \in Experiments, i \in 1 .. Len(ev) :
        Accepts(ev[i], e) =>
            /\ t.status[e] = "ACCEPTED"
            /\ t.verified[e] = ev[i].score
            /\ t.board[e] # NoRow
            /\ t.board[e].score = ev[i].score
            /\ t.board[e].withdrawn <=> \E j \in i + 1 .. Len(ev) : ev[j] = Withdrawn(e)
            /\ t.board[e].evidence = "degraded" <=>
                  \E j \in i + 1 .. Len(ev) : Loses(ev[j], e)

Told(ev, t) ==
    /\ ev \in Seq(Event)
    /\ SealedFirst(ev)
    /\ StatusTold(ev, t)
    /\ HealthTold(ev, t)
    /\ EvidenceTold(ev, t)
    /\ MetricsTold(ev, t)
    /\ BoardTold(ev, t)

\* What a refresh or an import holds is still there, and what the review opens on.
Held ==
    /\ \A p \in Refreshers, a \in Artifacts : rows[p][a] # NoRow => health[a] # NoRow
    /\ \A p \in Refreshers :
          pc[p] = "update" => at[p] \in Artifacts /\ health[at[p]] # NoRow
    /\ \A p \in Importers : pc[p] = "record" => claim[p] \in Experiments
    /\ \A e \in Experiments :
          status[e] \in {"REVIEW_PENDING", "REVIEW_BLOCKED", "NEEDS_HUMAN"} =>
              computed[e] # NoRow

\* What came before the acceptance of e at i shows in the row nevertheless.
Shows(ev, b, e, i) ==
    /\ \A j \in 1 .. i : ev[j] = Withdrawn(e) => b[e].withdrawn
    /\ LostIn(ev, i, e) => b[e].evidence = "degraded"

\* What an audit has found so far.
Audited ==
    \A p \in Auditors :
        /\ log[p] \in 0 .. Len(events)
        /\ pc[p] \in {"idle", "check", "update", "experiments"} => errors[p] = {}
        /\ log[p] = Len(events) =>
              /\ pc[p] = "board" => errors[p] = {}
              /\ pc[p] \in {"artifacts", "metrics", "done"} =>
                    errors[p] = BoardErrors(Len(events))
        /\ pc[p] \in {"artifacts", "metrics", "done"} /\ errors[p] = {} =>
              \A e \in Experiments, i \in 1 .. log[p] :
                  Accepts(events[i], e) => Shows(events, board, e, i)

LedgerInv == TypeOK /\ LossInv /\ Told(events, Tables) /\ Held /\ Audited
-----------------------------------------------------------------------------
\* Natural numbers below a bound have a greatest.
LEMMA Greatest ==
    ASSUME NEW N \in Nat, NEW S \in SUBSET (1 .. N), S # {}
    PROVE  \E m \in S : \A k \in S : k <= m
<1> DEFINE R == {ss \in Nat \X Nat : ss[1] < ss[2]}
           T == {N - k : k \in S}
<1>1. IsWellFoundedOn(R, Nat)
  BY NatLessThanWellFounded DEF OpToRel
<1>2. T \subseteq Nat
  <2>1. \A k \in S : k \in Nat /\ k <= N
    OBVIOUS
  <2> QED
    BY <2>1
<1>3. T # {}
  OBVIOUS
<1>4. \A x, y \in Nat : <<y, x>> \in R <=> y < x
  OBVIOUS
<1> HIDE DEF R
<1>5. \E x \in T : \A y \in T : ~(<<y, x>> \in R)
  <2> HIDE DEF T
  <2> QED
    BY <1>1, <1>2, <1>3, WFMin, Zenon
<1>6. PICK x \in T : \A y \in T : ~(y < x)
  BY <1>2, <1>4, <1>5
<1>7. PICK m \in S : x = N - m
  OBVIOUS
<1>8. ASSUME NEW k \in S
      PROVE  k <= m
  <2>1. k \in Nat /\ m \in Nat
    OBVIOUS
  <2>2. N - k \in T
    OBVIOUS
  <2>3. ~(N - k < N - m)
    BY <1>6, <1>7, <2>2
  <2> QED
    BY <2>1, <2>3
<1> QED
  BY <1>8

\* The last event of some types about x is the greatest of them, if there is one.
LEMMA LastIsHit ==
    ASSUME NEW ev, NEW n \in Nat, NEW types, NEW x,
           NEW i \in 1 .. n, ev[i].type \in types, ev[i].of = x
    PROVE  \E k \in 1 .. n :
              /\ ev[k].type \in types /\ ev[k].of = x
              /\ LastIn(ev, n, types, x) = ev[k]
              /\ \A j \in 1 .. n : ev[j].type \in types /\ ev[j].of = x => j <= k
<1> DEFINE hits == {j \in 1 .. n : ev[j].type \in types /\ ev[j].of = x}
           k == CHOOSE j \in hits : \A m \in hits : m <= j
<1>1. hits # {} /\ hits \in SUBSET (1 .. n)
  OBVIOUS
<1>2. k \in hits /\ \A m \in hits : m <= k
  <2> HIDE DEF hits
  <2> QED
    BY <1>1, Greatest
<1>3. LastIn(ev, n, types, x) = ev[k]
  <2>1. LastIn(ev, n, types, x) = IF hits = {} THEN [type |-> "none"] ELSE ev[k]
    BY Zenon DEF LastIn
  <2> HIDE DEF hits, k
  <2> QED
    BY <1>1, <2>1
<1> HIDE DEF k
<1> QED
  BY <1>2, <1>3

LEMMA LastIsNone ==
    ASSUME NEW ev, NEW n, NEW types, NEW x,
           \A i \in 1 .. n : ~(ev[i].type \in types /\ ev[i].of = x)
    PROVE  LastIn(ev, n, types, x) = [type |-> "none"]
  BY DEF LastIn

\* An event that is appended is the last of its type and leaves the others alone.
LEMMA LastGrows ==
    ASSUME NEW ev \in Seq(Event), NEW y \in Event, NEW types, NEW x
    PROVE  LastIn(Append(ev, y), Len(ev) + 1, types, x) =
              IF y.type \in types /\ y.of = x THEN y ELSE LastIn(ev, Len(ev), types, x)
<1> DEFINE N == Len(ev)
           new == Append(ev, y)
           Hit(z) == z.type \in types /\ z.of = x
<1>1. /\ N \in Nat /\ new[N + 1] = y
      /\ \A i \in 1 .. N : new[i] = ev[i]
  OBVIOUS
<1> HIDE DEF N, new
<1>2. CASE Hit(y)
  <2>1. PICK k \in 1 .. N + 1 :
           /\ LastIn(new, N + 1, types, x) = new[k]
           /\ \A j \in 1 .. N + 1 : Hit(new[j]) => j <= k
    <3>1. N + 1 \in 1 .. N + 1 /\ N + 1 \in Nat
      BY <1>1
    <3>2. new[N + 1].type \in types /\ new[N + 1].of = x
      BY <1>1, <1>2
    <3> QED
      BY <3>1, <3>2, LastIsHit
  <2>2. k = N + 1
    BY <1>1, <1>2, <2>1
  <2> QED
    BY <1>1, <1>2, <2>1, <2>2 DEF N, new
<1>3. CASE ~Hit(y)
  <2> DEFINE hits == {i \in 1 .. N : Hit(ev[i])}
             k == CHOOSE i \in hits : \A j \in hits : j <= i
             more == {i \in 1 .. N + 1 : Hit(new[i])}
  <2>1. more = hits
    <3>1. \A i \in 1 .. N + 1 : i \in 1 .. N \/ i = N + 1
      BY <1>1
    <3> QED
      BY <1>1, <1>3, <3>1
  <2>2. LastIn(new, N + 1, types, x) = IF hits = {} THEN [type |-> "none"] ELSE new[k]
    <3>1. LastIn(new, N + 1, types, x) =
             IF more = {} THEN [type |-> "none"]
             ELSE new[CHOOSE i \in more : \A j \in more : j <= i]
      BY Zenon DEF LastIn
    <3> HIDE DEF more, hits
    <3> QED
      BY <2>1, <3>1
  <2>3. LastIn(ev, N, types, x) = IF hits = {} THEN [type |-> "none"] ELSE ev[k]
    BY Zenon DEF LastIn
  <2>4. hits # {} => k \in hits
    <3>1. hits \in SUBSET (1 .. N)
      OBVIOUS
    <3> HIDE DEF hits
    <3> QED
      BY <1>1, <3>1, Greatest
  <2>5. hits # {} => new[k] = ev[k]
    <3> HIDE DEF k
    <3> QED
      BY <1>1, <2>4
  <2> HIDE DEF hits, k
  <2> QED
    BY <1>3, <2>2, <2>3, <2>5 DEF N, new
<1> QED
  BY <1>2, <1>3
-----------------------------------------------------------------------------
\* What an event must find in the tables, and what its transaction makes of them.
Fits(y, t) ==
    /\ y.type \in StatusTypes => t.status[y.of] # "ACCEPTED"
    /\ y.type = "sealed" => \A a \in y.artifacts : t.health[a] = NoRow
    /\ y.type = "health_changed" => t.health[y.of] # NoRow
    /\ y.type = "completed" => t.computed[y.of] = NoRow

Projects(y, t, u) ==
    /\ \A e \in Experiments :
          u.status[e] = IF y.type \in StatusTypes /\ y.of = e THEN StatusOf(y) ELSE t.status[e]
    /\ \A a \in Artifacts :
          u.health[a] = IF y.type = "sealed" /\ a \in y.artifacts THEN "healthy"
                        ELSE IF y.type = "health_changed" /\ y.of = a THEN y.to
                        ELSE t.health[a]
    /\ \A e \in Experiments :
          u.evidence[e] = IF Loses(y, e) THEN "degraded" ELSE t.evidence[e]
    /\ \A e \in Experiments :
          u.computed[e] = IF y.type = "completed" /\ y.of = e THEN y.score ELSE t.computed[e]
    /\ \A e \in Experiments : u.verified[e] = IF Accepts(y, e) THEN y.score ELSE t.verified[e]
    /\ \A e \in Experiments :
          Accepts(y, e) =>
              u.board[e] = [score |-> y.score, withdrawn |-> FALSE, evidence |-> "healthy"]
    /\ \A e \in Experiments :
          ~Accepts(y, e) /\ t.board[e] # NoRow =>
              /\ u.board[e] # NoRow
              /\ u.board[e].score = t.board[e].score
              /\ u.board[e].withdrawn <=> t.board[e].withdrawn \/ y = Withdrawn(e)
              /\ u.board[e].evidence = "degraded" <=>
                    t.board[e].evidence = "degraded" \/ Loses(y, e)

LEMMA EventFacts ==
    ASSUME NEW y \in Event
    PROVE  /\ y.type # "none"
           /\ y.type # "health_changed" => y.of \in Experiments
           /\ y.type = "health_changed" =>
                 y.of \in Artifacts /\ y.to \in {"missing", "hash_drift"}
           /\ y.type = "status_changed" => y.to \in Statuses \ {"ACCEPTED"}
           /\ y.type = "sealed" => y.artifacts \subseteq Artifacts
           /\ y.type \in {"completed", "accepted"} => y.score \in Scores
           /\ y.type = "accepted" => y = Accepted(y.of, y.score)
           /\ y.type = "completed" => y = Completed(y.of, y.score)
  BY DEF Event, Accepted, Completed

LEMMA Appended ==
    ASSUME NEW ev \in Seq(Event), NEW y \in Event
    PROVE  /\ Append(ev, y) \in Seq(Event)
           /\ Len(ev) \in Nat
           /\ Len(Append(ev, y)) = Len(ev) + 1
           /\ Append(ev, y)[Len(ev) + 1] = y
           /\ \A i \in 1 .. Len(ev) : Append(ev, y)[i] = ev[i] /\ ev[i] \in Event
           /\ \A i \in 1 .. Len(ev) + 1 : i \in 1 .. Len(ev) \/ i = Len(ev) + 1
  OBVIOUS

\* What is replayed before an event is replayed with it.
LEMMA SealedGrows ==
    ASSUME NEW ev \in Seq(Event), NEW y \in Event
    PROVE  /\ SealedIn(Append(ev, y), Len(ev) + 1) =
                 SealedIn(ev, Len(ev)) \cup IF y.type = "sealed" THEN y.artifacts ELSE {}
           /\ \A n \in 0 .. Len(ev) : SealedIn(Append(ev, y), n) = SealedIn(ev, n)
<1> DEFINE N == Len(ev)
           new == Append(ev, y)
<1>1. /\ N \in Nat /\ new[N + 1] = y
      /\ \A i \in 1 .. N : new[i] = ev[i]
      /\ \A i \in 1 .. N + 1 : i \in 1 .. N \/ i = N + 1
      /\ y.type = "sealed" => y.artifacts \subseteq Artifacts
  BY Appended, EventFacts
<1> HIDE DEF N, new
<1>2. SealedIn(new, N + 1) = SealedIn(ev, N) \cup IF y.type = "sealed" THEN y.artifacts ELSE {}
  BY <1>1 DEF SealedIn
<1>3. \A n \in 0 .. N : SealedIn(new, n) = SealedIn(ev, n)
  BY <1>1 DEF SealedIn
<1> QED
  BY <1>2, <1>3 DEF N, new

LEMMA LostGrows ==
    ASSUME NEW ev \in Seq(Event), NEW y \in Event, NEW e
    PROVE  LostIn(Append(ev, y), Len(ev) + 1, e) <=> LostIn(ev, Len(ev), e) \/ Loses(y, e)
  BY Appended DEF LostIn, Loses

LEMMA SealedFirstGrows ==
    ASSUME NEW ev \in Seq(Event), NEW y \in Event, NEW t,
           SealedFirst(ev), HealthTold(ev, t), Fits(y, t)
    PROVE  SealedFirst(Append(ev, y))
<1> DEFINE N == Len(ev)
           new == Append(ev, y)
<1>1. SUFFICES ASSUME NEW i \in 1 .. N + 1, new[i].type = "health_changed"
               PROVE  new[i].of \in SealedIn(new, i)
  BY Appended DEF SealedFirst
<1>2. CASE i \in 1 .. N
  BY <1>1, <1>2, Appended, SealedGrows DEF SealedFirst
<1>3. CASE i = N + 1
  BY <1>1, <1>3, Appended, EventFacts, SealedGrows DEF HealthTold, Fits
<1> QED
  BY <1>2, <1>3, Appended

LEMMA StatusGrows ==
    ASSUME NEW ev \in Seq(Event), NEW y \in Event, NEW t, NEW u,
           StatusTold(ev, t), Projects(y, t, u)
    PROVE  StatusTold(Append(ev, y), u)
<1> DEFINE N == Len(ev)
           new == Append(ev, y)
<1>1. SUFFICES ASSUME NEW e \in Experiments
               PROVE  u.status[e] = StatusIn(new, N + 1, e)
  BY Appended DEF StatusTold
<1>2. LastIn(new, N + 1, StatusTypes, e) =
         IF y.type \in StatusTypes /\ y.of = e THEN y ELSE LastIn(ev, N, StatusTypes, e)
  BY LastGrows
<1>3. StatusIn(new, N + 1, e) =
         IF y.type \in StatusTypes /\ y.of = e THEN StatusOf(y) ELSE StatusIn(ev, N, e)
  BY <1>2, EventFacts DEF StatusIn
<1> QED
  BY <1>3 DEF StatusTold, Projects

\* The last event about an artifact says that it is lost.
LEMMA HealthIsTold ==
    ASSUME NEW ev, NEW n \in Nat, NEW a, \A i \in 1 .. n : ev[i] \in Event
    PROVE  /\ (\A i \in 1 .. n : ~(ev[i].type = "health_changed" /\ ev[i].of = a)) =>
                 HealthIn(ev, n, a) = "healthy"
           /\ (\E i \in 1 .. n : ev[i].type = "health_changed" /\ ev[i].of = a) =>
                 HealthIn(ev, n, a) \in {"missing", "hash_drift"}
<1>1. ASSUME \A i \in 1 .. n : ~(ev[i].type = "health_changed" /\ ev[i].of = a)
      PROVE  HealthIn(ev, n, a) = "healthy"
  <2>1. LastIn(ev, n, HealthTypes, a) = [type |-> "none"]
    BY <1>1, LastIsNone DEF HealthTypes
  <2> QED
    BY <2>1 DEF HealthIn
<1>2. ASSUME NEW i \in 1 .. n, ev[i].type = "health_changed", ev[i].of = a
      PROVE  HealthIn(ev, n, a) \in {"missing", "hash_drift"}
  <2>1. n \in Nat /\ ev[i].type \in HealthTypes
    BY <1>2 DEF HealthTypes
  <2>2. PICK k \in 1 .. n :
           /\ ev[k].type \in HealthTypes /\ ev[k].of = a
           /\ LastIn(ev, n, HealthTypes, a) = ev[k]
           /\ \A j \in 1 .. n : ev[j].type \in HealthTypes /\ ev[j].of = a => j <= k
    BY <1>2, <2>1, LastIsHit
  <2>3. ev[k] \in Event /\ ev[k].type = "health_changed"
    BY <2>2 DEF HealthTypes
  <2> QED
    BY <2>2, <2>3, EventFacts DEF HealthIn
<1> QED
  BY <1>1, <1>2
LEMMA HealthGrows ==
    ASSUME NEW ev \in Seq(Event), NEW y \in Event, NEW t, NEW u,
           SealedFirst(ev), HealthTold(ev, t), Fits(y, t), Projects(y, t, u)
    PROVE  HealthTold(Append(ev, y), u)
<1> DEFINE N == Len(ev)
           new == Append(ev, y)
<1>1. SUFFICES ASSUME NEW a \in Artifacts
               PROVE  u.health[a] = IF a \in SealedIn(new, N + 1) THEN HealthIn(new, N + 1, a)
                                    ELSE NoRow
  BY Appended DEF HealthTold
<1>2. t.health[a] = IF a \in SealedIn(ev, N) THEN HealthIn(ev, N, a) ELSE NoRow
  BY DEF HealthTold
<1>3. LastIn(new, N + 1, HealthTypes, a) =
         IF y.type \in HealthTypes /\ y.of = a THEN y ELSE LastIn(ev, N, HealthTypes, a)
  BY LastGrows
<1>4. HealthIn(new, N + 1, a) =
         IF y.type = "health_changed" /\ y.of = a THEN y.to ELSE HealthIn(ev, N, a)
  BY <1>3, EventFacts DEF HealthIn, HealthTypes
<1>5. SealedIn(new, N + 1) = SealedIn(ev, N) \cup IF y.type = "sealed" THEN y.artifacts ELSE {}
  BY SealedGrows
<1>6. N \in Nat /\ \A i \in 1 .. N : ev[i] \in Event
  BY Appended
<1> HIDE DEF N, new
<1>7. HealthIn(ev, N, a) \in Health
  BY <1>6, HealthIsTold DEF Health
<1>8. CASE y.type = "sealed" /\ a \in y.artifacts
  <2>1. a \notin SealedIn(ev, N)
    BY <1>2, <1>7, <1>8, MarkersDiffer DEF Fits
  <2>2. ASSUME NEW i \in 1 .. N, ev[i].type = "health_changed", ev[i].of = a
        PROVE  FALSE
    <3>1. a \in SealedIn(ev, i)
      BY <2>2 DEF SealedFirst, N
    <3>2. SealedIn(ev, i) \subseteq SealedIn(ev, N)
      BY <1>6 DEF SealedIn
    <3> QED
      BY <2>1, <3>1, <3>2
  <2>3. HealthIn(ev, N, a) = "healthy"
    BY <1>6, <2>2, HealthIsTold
  <2> QED
    BY <1>4, <1>5, <1>8, <2>3 DEF Projects
<1>9. CASE y.type = "health_changed" /\ y.of = a
  BY <1>2, <1>4, <1>5, <1>9 DEF Fits, Projects
<1>10. CASE /\ ~(y.type = "sealed" /\ a \in y.artifacts)
            /\ ~(y.type = "health_changed" /\ y.of = a)
  BY <1>2, <1>4, <1>5, <1>10 DEF Projects
<1> QED
  BY <1>8, <1>9, <1>10

LEMMA EvidenceGrows ==
    ASSUME NEW ev \in Seq(Event), NEW y \in Event, NEW t, NEW u,
           EvidenceTold(ev, t), Projects(y, t, u)
    PROVE  EvidenceTold(Append(ev, y), u)
<1>1. SUFFICES ASSUME NEW e \in Experiments
               PROVE  u.evidence[e] = IF LostIn(Append(ev, y), Len(ev) + 1, e) THEN "degraded"
                                      ELSE "healthy"
  BY Appended DEF EvidenceTold
<1>2. LostIn(Append(ev, y), Len(ev) + 1, e) <=> LostIn(ev, Len(ev), e) \/ Loses(y, e)
  BY LostGrows
<1>3. /\ t.evidence[e] = IF LostIn(ev, Len(ev), e) THEN "degraded" ELSE "healthy"
      /\ u.evidence[e] = IF Loses(y, e) THEN "degraded" ELSE t.evidence[e]
  BY DEF EvidenceTold, Projects
<1> QED
  BY <1>2, <1>3

LEMMA MetricsGrow ==
    ASSUME NEW ev \in Seq(Event), NEW y \in Event, NEW t, NEW u,
           MetricsTold(ev, t), Fits(y, t), Projects(y, t, u)
    PROVE  MetricsTold(Append(ev, y), u)
<1> DEFINE N == Len(ev)
           new == Append(ev, y)
<1>1. SUFFICES ASSUME NEW e \in Experiments, NEW i \in 1 .. N + 1,
                      new[i].type = "completed", new[i].of = e
               PROVE  u.computed[e] = new[i].score
  BY Appended DEF MetricsTold
<1>2. CASE i \in 1 .. N
  <2>1. new[i] = ev[i] /\ ev[i].score \in Scores
    BY <1>1, <1>2, Appended, EventFacts
  <2>2. t.computed[e] = ev[i].score
    BY <1>1, <1>2, <2>1 DEF MetricsTold
  <2>3. ~(y.type = "completed" /\ y.of = e)
    BY <2>1, <2>2, MarkersDiffer DEF Fits
  <2> QED
    BY <2>1, <2>2, <2>3 DEF Projects
<1>3. CASE i = N + 1
  BY <1>1, <1>3, Appended DEF Projects
<1> QED
  BY <1>2, <1>3, Appended

LEMMA BoardGrows ==
    ASSUME NEW ev \in Seq(Event), NEW y \in Event, NEW t, NEW u,
           BoardTold(ev, t), Fits(y, t), Projects(y, t, u)
    PROVE  BoardTold(Append(ev, y), u)
<1> DEFINE N == Len(ev)
           new == Append(ev, y)
<1>0. /\ N \in Nat /\ new[N + 1] = y /\ Len(new) = N + 1
      /\ \A i \in 1 .. N : new[i] = ev[i]
      /\ \A i \in 1 .. N + 1 : i \in 1 .. N \/ i = N + 1
  BY Appended
<1> HIDE DEF N, new
<1>1. ASSUME NEW e \in Experiments, NEW i \in 1 .. N, Accepts(new[i], e)
      PROVE  /\ u.status[e] = "ACCEPTED"
             /\ u.verified[e] = new[i].score
             /\ u.board[e] # NoRow
             /\ u.board[e].score = new[i].score
             /\ u.board[e].withdrawn <=> \E j \in i + 1 .. N + 1 : new[j] = Withdrawn(e)
             /\ u.board[e].evidence = "degraded" <=>
                   \E j \in i + 1 .. N + 1 : Loses(new[j], e)
  <2>1. new[i] = ev[i]
    BY <1>0
  <2>2. /\ t.status[e] = "ACCEPTED"
        /\ t.verified[e] = ev[i].score
        /\ t.board[e] # NoRow
        /\ t.board[e].score = ev[i].score
        /\ t.board[e].withdrawn <=> \E j \in i + 1 .. N : ev[j] = Withdrawn(e)
        /\ t.board[e].evidence = "degraded" <=> \E j \in i + 1 .. N : Loses(ev[j], e)
    BY <1>1, <2>1 DEF BoardTold, N
  <2>3. ~(y.type \in StatusTypes /\ y.of = e) /\ ~Accepts(y, e)
    BY <2>2 DEF Fits, Accepts, StatusTypes
  <2>4. /\ u.status[e] = "ACCEPTED"
        /\ u.verified[e] = ev[i].score
        /\ u.board[e] # NoRow
        /\ u.board[e].score = ev[i].score
        /\ u.board[e].withdrawn <=> t.board[e].withdrawn \/ y = Withdrawn(e)
        /\ u.board[e].evidence = "degraded" <=>
              t.board[e].evidence = "degraded" \/ Loses(y, e)
    BY <2>2, <2>3 DEF Projects
  <2>5. /\ \A j \in i + 1 .. N : new[j] = ev[j] /\ j \in i + 1 .. N + 1
        /\ \A j \in i + 1 .. N + 1 : j \in i + 1 .. N \/ j = N + 1
        /\ N + 1 \in i + 1 .. N + 1
    BY <1>0
  <2>6. (\E j \in i + 1 .. N + 1 : new[j] = Withdrawn(e)) <=>
           (\E j \in i + 1 .. N : ev[j] = Withdrawn(e)) \/ y = Withdrawn(e)
    BY <1>0, <2>5
  <2>7. (\E j \in i + 1 .. N + 1 : Loses(new[j], e)) <=>
           (\E j \in i + 1 .. N : Loses(ev[j], e)) \/ Loses(y, e)
    BY <1>0, <2>5
  <2> QED
    BY <2>1, <2>2, <2>4, <2>6, <2>7
<1>2. ASSUME NEW e \in Experiments, Accepts(y, e)
      PROVE  /\ u.status[e] = "ACCEPTED"
             /\ u.verified[e] = y.score
             /\ u.board[e] # NoRow
             /\ u.board[e].score = y.score
             /\ ~u.board[e].withdrawn
             /\ u.board[e].evidence # "degraded"
  <2>1. y.score \in Scores /\ StatusOf(y) = "ACCEPTED" /\ y.type \in StatusTypes
    BY <1>2, EventFacts DEF Accepts, StatusOf, StatusTypes
  <2>2. u.board[e] = [score |-> y.score, withdrawn |-> FALSE, evidence |-> "healthy"]
    BY <1>2 DEF Projects
  <2>3. u.board[e] \in Entry
    BY <2>1, <2>2 DEF Entry
  <2>4. u.status[e] = "ACCEPTED" /\ u.verified[e] = y.score
    BY <1>2, <2>1 DEF Projects, Accepts
  <2>5. /\ u.board[e].score = y.score
        /\ u.board[e].withdrawn = FALSE
        /\ u.board[e].evidence = "healthy"
    BY <2>2
  <2>6. u.board[e] # NoRow
    BY <2>3, MarkersDiffer
  <2> QED
    BY <2>4, <2>5, <2>6
<1>3. ASSUME NEW e \in Experiments, Accepts(new[N + 1], e)
      PROVE  /\ u.status[e] = "ACCEPTED"
             /\ u.verified[e] = new[N + 1].score
             /\ u.board[e] # NoRow
             /\ u.board[e].score = new[N + 1].score
             /\ u.board[e].withdrawn <=> \E j \in N + 1 + 1 .. N + 1 : new[j] = Withdrawn(e)
             /\ u.board[e].evidence = "degraded" <=>
                   \E j \in N + 1 + 1 .. N + 1 : Loses(new[j], e)
  <2>1. \A j \in N + 1 + 1 .. N + 1 : FALSE
    BY <1>0
  <2> QED
    BY <1>0, <1>2, <1>3, <2>1
<1> QED
  BY <1>0, <1>1, <1>3 DEF BoardTold, new

LEMMA ToldGrows ==
    ASSUME NEW ev, NEW y \in Event, NEW t, NEW u,
           Told(ev, t), Fits(y, t), Projects(y, t, u)
    PROVE  Told(Append(ev, y), u)
<1>1. ev \in Seq(Event)
  BY DEF Told
<1> QED
  BY <1>1, Appended, SealedFirstGrows, StatusGrows, HealthGrows, EvidenceGrows, MetricsGrow,
     BoardGrows DEF Told
-----------------------------------------------------------------------------
\* The ledger ev with the tables t goes on to the ledger new with the tables u: rows of
\* the leaderboard are not made whole again.
Grows(ev, t, new, u) ==
    /\ Told(new, u)
    /\ Len(new) > Len(ev)
    /\ \A i \in 1 .. Len(ev) : new[i] = ev[i]
    /\ \A e \in Experiments, i \in 1 .. Len(ev) :
          Accepts(ev[i], e) =>
              /\ t.board[e].withdrawn => u.board[e].withdrawn
              /\ t.board[e].evidence = "degraded" => u.board[e].evidence = "degraded"

LEMMA GrowsByOne ==
    ASSUME NEW ev, NEW y \in Event, NEW t, NEW u,
           Told(ev, t), Fits(y, t), Projects(y, t, u)
    PROVE  Grows(ev, t, Append(ev, y), u)
<1>1. ev \in Seq(Event)
  BY DEF Told
<1>2. ASSUME NEW e \in Experiments, NEW i \in 1 .. Len(ev), Accepts(ev[i], e)
      PROVE  /\ t.board[e].withdrawn => u.board[e].withdrawn
             /\ t.board[e].evidence = "degraded" => u.board[e].evidence = "degraded"
  <2>1. t.status[e] = "ACCEPTED" /\ t.board[e] # NoRow
    BY <1>2 DEF Told, BoardTold
  <2>2. ~Accepts(y, e)
    BY <2>1 DEF Fits, Accepts, StatusTypes
  <2> QED
    BY <2>1, <2>2 DEF Projects
<1>3. Told(Append(ev, y), u)
  BY ToldGrows
<1> QED
  BY <1>1, <1>2, <1>3, Appended DEF Grows

LEMMA GrowsByTwo ==
    ASSUME NEW ev, NEW t, NEW mid, NEW new, NEW u,
           Told(ev, t), Grows(ev, t, mid, t), Grows(mid, t, new, u)
    PROVE  Grows(ev, t, new, u)
<1>1. /\ Len(ev) \in Nat /\ Len(mid) \in Nat /\ Len(new) \in Nat
      /\ Len(mid) > Len(ev) /\ Len(new) > Len(mid)
  BY DEF Told, Grows
<1>2. \A i \in 1 .. Len(ev) : i \in 1 .. Len(mid) /\ mid[i] = ev[i] /\ new[i] = ev[i]
  BY <1>1 DEF Grows
<1> QED
  BY <1>1, <1>2 DEF Grows

\* The transactions, each with its event.
Recorded == Grows(events, Tables, events', Tables')

LEMMA OneEvent ==
    ASSUME LedgerInv, NEW y \in Event, Fits(y, Tables), Projects(y, Tables, Tables'),
           Write(<<y>>)
    PROVE  Recorded
<1>1. events \in Seq(Event) /\ Told(events, Tables)
  BY DEF LedgerInv, Told
<1>2. events' = Append(events, y)
  BY <1>1 DEF Write
<1> QED
  BY <1>1, <1>2, GrowsByOne DEF Recorded

LEMMA SubmitRecorded ==
    ASSUME LedgerInv, NEW e \in Experiments, Submit(e)
    PROVE  Recorded
<1> PICK y : y = Submitted(e)
  OBVIOUS
<1>1. y \in Event /\ y.type = "submitted" /\ y.of = e
  BY DEF Submitted, Event
<1>2. Fits(y, Tables)
  BY <1>1 DEF Submit, Fits, Tables
<1>3. Projects(y, Tables, Tables')
  BY <1>1 DEF Submit, Projects, Tables, StatusTypes, StatusOf, Accepts, Loses, Withdrawn,
     LedgerInv, TypeOK
<1> QED
  BY <1>1, <1>2, <1>3, OneEvent DEF Submit
LEMMA Allowed ==
    ASSUME NEW s \in Statuses \cup {"ABSENT"}
    PROVE  /\ AllowedTransitions[s] \subseteq Statuses
           /\ s = "ACCEPTED" => AllowedTransitions[s] = {}
           /\ "REVIEW_PENDING" \in AllowedTransitions[s] =>
                 s \in {"GRADING", "REVIEW_BLOCKED", "NEEDS_HUMAN"}
           /\ AllowedTransitions[s] \cap {"REVIEW_BLOCKED", "NEEDS_HUMAN"} # {} =>
                 s = "REVIEW_PENDING"
  BY DEF AllowedTransitions, Statuses

LEMMA TransitionRecorded ==
    ASSUME LedgerInv, NEW e \in Experiments, NEW s \in Statuses, Transition(e, s)
    PROVE  Recorded
<1> PICK y : y = StatusChanged(e, s)
  OBVIOUS
<1>1. /\ status[e] \in Statuses \cup {"ABSENT"} /\ s \in AllowedTransitions[status[e]]
      /\ s # "ACCEPTED"
  BY DEF Transition, LedgerInv, TypeOK
<1>2. status[e] # "ACCEPTED"
  BY <1>1, Allowed
<1>3. y \in Event /\ y.type = "status_changed" /\ y.of = e /\ y.to = s
  BY <1>1 DEF StatusChanged, Event
<1>4. Fits(y, Tables)
  BY <1>2, <1>3 DEF Fits, Tables
<1>5. Projects(y, Tables, Tables')
  BY <1>3 DEF Transition, Projects, Tables, StatusTypes, StatusOf, Accepts, Loses, Withdrawn,
     LedgerInv, TypeOK
<1> QED
  BY <1>3, <1>4, <1>5, OneEvent DEF Transition

LEMMA SealRecorded ==
    ASSUME LedgerInv, NEW e \in Experiments, NEW A \in SUBSET Artifacts, Seal(e, A)
    PROVE  Recorded
<1> PICK y : y = Sealed(e, A)
  OBVIOUS
<1>1. y \in Event /\ y.type = "sealed" /\ y.of = e /\ y.artifacts = A
  BY DEF Sealed, Event
<1>2. Fits(y, Tables)
  BY <1>1 DEF Seal, Fits, Tables, StatusTypes
<1>3. Projects(y, Tables, Tables')
  BY <1>1 DEF Seal, Projects, Tables, StatusTypes, Accepts, Loses, Withdrawn
<1> QED
  BY <1>1, <1>2, <1>3, OneEvent DEF Seal

LEMMA MetricsRecorded ==
    ASSUME LedgerInv, NEW e \in Experiments, RecordMetrics(e)
    PROVE  Recorded
<1>1. PICK v \in Scores : computed' = [computed EXCEPT ![e] = v] /\ Write(<<Completed(e, v)>>)
  BY DEF RecordMetrics
<1> PICK y : y = Completed(e, v)
  OBVIOUS
<1>2. y \in Event /\ y.type = "completed" /\ y.of = e /\ y.score = v
  BY DEF Completed, Event
<1>3. Fits(y, Tables)
  BY <1>2 DEF RecordMetrics, Fits, Tables, StatusTypes
<1>4. Projects(y, Tables, Tables')
  BY <1>1, <1>2 DEF RecordMetrics, Projects, Tables, StatusTypes, Accepts, Loses, Withdrawn,
     LedgerInv, TypeOK
<1> QED
  BY <1>1, <1>2, <1>3, <1>4, OneEvent

LEMMA WithdrawRecorded ==
    ASSUME LedgerInv, NEW e \in Experiments, Withdraw(e)
    PROVE  Recorded
<1> PICK y : y = Withdrawn(e)
  OBVIOUS
<1>1. y \in Event /\ y.type = "withdrawn" /\ \A d : y = Withdrawn(d) <=> d = e
  BY DEF Withdrawn, Event
<1>2. Fits(y, Tables)
  BY <1>1 DEF Fits, StatusTypes
<1>3. /\ \A d : ~Accepts(y, d) /\ ~Loses(y, d)
      /\ y.type \notin StatusTypes /\ y.type # "sealed" /\ y.type # "completed"
      /\ y.type # "health_changed"
  BY <1>1 DEF Accepts, Loses, StatusTypes
<1>4. ASSUME NEW d \in Experiments, board[d] # NoRow
      PROVE  /\ board'[d] # NoRow
             /\ board'[d].score = board[d].score
             /\ board'[d].withdrawn <=> board[d].withdrawn \/ d = e
             /\ board'[d].evidence = board[d].evidence
  <2>1. board[d] \in Entry /\ board \in [Experiments -> Entry \cup {NoRow}]
    BY <1>4 DEF LedgerInv, TypeOK
  <2>2. CASE d # e
    BY <1>4, <2>1, <2>2 DEF Withdraw
  <2>3. CASE d = e
    <3>1. board'[d] = [board[d] EXCEPT !.withdrawn = TRUE]
      BY <1>4, <2>1, <2>3 DEF Withdraw
    <3>2. board'[d] \in Entry
      BY <2>1, <3>1 DEF Entry
    <3>3. board'[d].score = board[d].score /\ board'[d].withdrawn = TRUE
          /\ board'[d].evidence = board[d].evidence
      BY <2>1, <3>1 DEF Entry
    <3> QED
      BY <2>3, <3>2, <3>3, MarkersDiffer
  <2> QED
    BY <2>2, <2>3
<1>5. Projects(y, Tables, Tables')
  BY <1>1, <1>3, <1>4 DEF Withdraw, Projects, Tables
<1> QED
  BY <1>1, <1>2, <1>5, OneEvent DEF Withdraw

LEMMA UpdateRecorded ==
    ASSUME LedgerInv, NEW p \in Refreshers, Update(p)
    PROVE  Recorded
<1> PICK a : a = at[p]
  OBVIOUS
<1> PICK h : h = found[p]
  OBVIOUS
<1> PICK y : y = HealthChanged(a, h)
  OBVIOUS
<1>1. a \in Artifacts /\ health[a] # NoRow
  BY DEF Update, LedgerInv, Held
<1>2. h \in {"missing", "hash_drift"}
  BY DEF Update, LedgerInv, LossInv, Health
<1>3. y \in Event /\ y.type = "health_changed" /\ y.of = a /\ y.to = h
  BY <1>1, <1>2 DEF HealthChanged, Event
<1>4. Fits(y, Tables)
  BY <1>1, <1>3 DEF Fits, Tables, StatusTypes
<1>5. /\ \A d : ~Accepts(y, d) /\ y # Withdrawn(d)
      /\ \A d : Loses(y, d) <=> a \in Required /\ Owner[a] = d
      /\ y.type \notin StatusTypes /\ y.type # "sealed" /\ y.type # "completed"
  BY <1>3 DEF Accepts, Loses, Withdrawn, StatusTypes
<1>6. /\ health' = [health EXCEPT ![a] = h]
      /\ evidence' = IF a \in Required THEN [evidence EXCEPT ![Owner[a]] = "degraded"]
                     ELSE evidence
      /\ board' = IF a \in Required /\ board[Owner[a]] # NoRow
                  THEN [board EXCEPT ![Owner[a]].evidence = "degraded"] ELSE board
      /\ UNCHANGED <<status, computed, verified>>
      /\ Write(<<y>>)
  BY <1>2 DEF Update
<1>7. ASSUME NEW d \in Experiments, board[d] # NoRow
      PROVE  /\ board'[d] # NoRow
             /\ board'[d].score = board[d].score
             /\ board'[d].withdrawn = board[d].withdrawn
             /\ board'[d].evidence = "degraded" <=>
                   board[d].evidence = "degraded" \/ (a \in Required /\ Owner[a] = d)
  <2>1. board[d] \in Entry /\ board \in [Experiments -> Entry \cup {NoRow}]
    BY <1>7 DEF LedgerInv, TypeOK
  <2>2. CASE ~(a \in Required /\ Owner[a] = d)
    <3>1. CASE a \notin Required
      BY <1>6, <1>7, <2>2, <3>1
    <3>2. CASE a \in Required
      <4>1. Owner[a] # d
        BY <2>2, <3>2
      <4>2. board'[d] = board[d]
        BY <1>6, <2>1, <4>1
      <4> QED
        BY <1>7, <4>1, <4>2
    <3> QED
      BY <3>1, <3>2
  <2>3. CASE a \in Required /\ Owner[a] = d
    <3>1. board'[d] = [board[d] EXCEPT !.evidence = "degraded"]
      BY <1>6, <1>7, <2>1, <2>3
    <3>2. board'[d] \in Entry
      BY <2>1, <3>1 DEF Entry
    <3>3. board'[d].score = board[d].score /\ board'[d].withdrawn = board[d].withdrawn
          /\ board'[d].evidence = "degraded"
      BY <2>1, <3>1 DEF Entry
    <3> QED
      BY <2>3, <3>2, <3>3, MarkersDiffer
  <2> QED
    BY <2>2, <2>3
<1>8. /\ \A d \in Experiments :
            evidence'[d] = IF a \in Required /\ Owner[a] = d THEN "degraded" ELSE evidence[d]
      /\ \A b \in Artifacts : health'[b] = IF b = a THEN h ELSE health[b]
  BY <1>6 DEF LedgerInv, TypeOK
<1>9. Projects(y, Tables, Tables')
  <2>1. /\ y.type = "health_changed" /\ y.of = a /\ y.to = h
        /\ \A d : ~Accepts(y, d) /\ y # Withdrawn(d)
        /\ \A d : Loses(y, d) <=> a \in Required /\ Owner[a] = d
        /\ y.type \notin StatusTypes /\ y.type # "sealed" /\ y.type # "completed"
    BY <1>3, <1>5
  <2>2. UNCHANGED <<status, computed, verified>>
    BY <1>6
  <2> QED
    BY <1>7, <1>8, <2>1, <2>2 DEF Projects, Tables
<1> QED
  BY <1>3, <1>4, <1>6, <1>9, OneEvent
\* A change summary says nothing of any table.
LEMMA SummaryKeeps ==
    ASSUME NEW ev, NEW t, NEW e \in Experiments, Told(ev, t)
    PROVE  Grows(ev, t, Append(ev, SummaryRecorded(e)), t)
<1> PICK y : y = SummaryRecorded(e)
  OBVIOUS
<1>1. y \in Event /\ y.type = "summary"
  BY DEF SummaryRecorded, Event
<1>2. Fits(y, t)
  BY <1>1 DEF Fits, StatusTypes
<1>3. Projects(y, t, t)
  BY <1>1 DEF Projects, StatusTypes, Accepts, Loses, Withdrawn
<1> QED
  BY <1>1, <1>2, <1>3, GrowsByOne

LEMMA SummaryRecordedToo ==
    ASSUME LedgerInv, NEW p \in Importers, RecordSummary(p)
    PROVE  Recorded
<1> PICK e : e = claim[p]
  OBVIOUS
<1>1. e \in Experiments /\ events \in Seq(Event) /\ Told(events, Tables)
  BY DEF RecordSummary, LedgerInv, Held, Told
<1>2. events' = Append(events, SummaryRecorded(e))
  BY <1>1 DEF RecordSummary, Write
<1>3. Tables' = Tables
  BY DEF RecordSummary, Tables, tables
<1> QED
  BY <1>1, <1>2, <1>3, SummaryKeeps DEF Recorded

LEMMA AcceptRecorded ==
    ASSUME LedgerInv, NEW e \in Experiments, Accept(e)
    PROVE  Recorded
<1> PICK v : v = computed[e]
  OBVIOUS
<1> PICK y : y = Accepted(e, v)
  OBVIOUS
<1>1. events \in Seq(Event) /\ Told(events, Tables)
  BY DEF LedgerInv, Told
<1>2. v \in Scores
  BY DEF Accept, LedgerInv, Held, TypeOK
<1>3. y \in Event /\ y.type = "accepted" /\ y.of = e /\ y.score = v
  BY <1>2 DEF Accepted, Event
<1>4. Fits(y, Tables)
  BY <1>3 DEF Accept, Fits, Tables
<1>5. Projects(y, Tables, Tables')
  <2>1. /\ \A d : Accepts(y, d) <=> d = e
        /\ \A d : ~Loses(y, d) /\ y # Withdrawn(d)
        /\ StatusOf(y) = "ACCEPTED" /\ y.type \in StatusTypes
    BY <1>3 DEF Accepts, Loses, Withdrawn, StatusOf, StatusTypes
  <2>2. \A d \in Experiments :
           /\ status'[d] = IF d = e THEN "ACCEPTED" ELSE status[d]
           /\ verified'[d] = IF d = e THEN v ELSE verified[d]
           /\ board'[d] = IF d = e THEN [score |-> v, withdrawn |-> FALSE, evidence |-> "healthy"]
                          ELSE board[d]
    BY DEF Accept, LedgerInv, TypeOK
  <2>3. UNCHANGED <<evidence, health, computed>>
    BY DEF Accept
  <2> QED
    BY <1>3, <2>1, <2>2, <2>3 DEF Projects, Tables
<1>6. CASE e \in Legacy
  <2>1. events' = Append(events, y)
    BY <1>1, <1>6 DEF Accept, Write
  <2> QED
    BY <1>1, <1>3, <1>4, <1>5, <2>1, GrowsByOne DEF Recorded
<1>7. CASE e \notin Legacy
  <2> PICK mid : mid = Append(events, SummaryRecorded(e))
    OBVIOUS
  <2>1. Grows(events, Tables, mid, Tables) /\ Told(mid, Tables)
    BY <1>1, SummaryKeeps DEF Grows
  <2>2. Grows(mid, Tables, Append(mid, y), Tables')
    BY <1>3, <1>4, <1>5, <2>1, GrowsByOne
  <2>3. events' = Append(mid, y)
    <3>1. events' = events \o (<<SummaryRecorded(e)>> \o <<y>>)
      BY <1>7 DEF Accept, Write
    <3>2. SummaryRecorded(e) \in Event
      BY DEF SummaryRecorded, Event
    <3> QED
      BY <1>1, <1>3, <3>1, <3>2
  <2> QED
    BY <1>1, <2>1, <2>2, <2>3, GrowsByTwo DEF Recorded
<1> QED
  BY <1>6, <1>7
-----------------------------------------------------------------------------
\* Audits, when the ledger grows: what they found so far, they have still found.
LEMMA AuditsKept ==
    ASSUME LedgerInv, Recorded, UNCHANGED <<log, errors>>,
           \A p \in Auditors : pc'[p] = pc[p] \/ (pc[p] = "update" /\ pc'[p] = "check")
    PROVE  Audited'
<1>1. /\ Len(events) \in Nat /\ Len(events') \in Nat /\ Len(events') > Len(events)
      /\ \A i \in 1 .. Len(events) : events'[i] = events[i]
      /\ \A e \in Experiments, i \in 1 .. Len(events) :
            Accepts(events[i], e) =>
                /\ board[e].withdrawn => board'[e].withdrawn
                /\ board[e].evidence = "degraded" => board'[e].evidence = "degraded"
  BY DEF LedgerInv, Recorded, Grows, Told, Tables
<1>2. SUFFICES ASSUME NEW p \in Auditors
               PROVE  /\ log[p] \in 0 .. Len(events') /\ log[p] # Len(events')
                      /\ pc'[p] \in {"idle", "check", "update", "experiments"} => errors[p] = {}
                      /\ pc'[p] \in {"artifacts", "metrics", "done"} /\ errors[p] = {} =>
                            \A e \in Experiments, i \in 1 .. log[p] :
                                Accepts(events'[i], e) => Shows(events', board', e, i)
  BY DEF Audited
<1>3. log[p] \in 0 .. Len(events)
  BY DEF LedgerInv, Audited
<1>4. ASSUME pc[p] \in {"artifacts", "metrics", "done"}, errors[p] = {},
             NEW e \in Experiments, NEW i \in 1 .. log[p], Accepts(events'[i], e)
      PROVE  Shows(events', board', e, i)
  <2>1. i \in 1 .. Len(events) /\ i \in Nat /\ \A j \in 1 .. i : j \in 1 .. Len(events)
    BY <1>1, <1>3
  <2>2. \A j \in 1 .. i : events'[j] = events[j]
    BY <1>1, <2>1
  <2>3. Accepts(events[i], e) /\ Shows(events, board, e, i)
    BY <1>1, <1>4, <2>1 DEF LedgerInv, Audited
  <2>4. LostIn(events', i, e) <=> LostIn(events, i, e)
    BY <2>2 DEF LostIn
  <2> QED
    BY <1>1, <2>1, <2>2, <2>3, <2>4 DEF Shows
<1> QED
  BY <1>1, <1>3, <1>4 DEF LedgerInv, Audited
-----------------------------------------------------------------------------
\* What the replay of a part of the ledger says of evidence.
LEMMA EvidenceIs ==
    ASSUME LedgerInv, NEW n \in 0 .. Len(events), NEW e \in Experiments
    PROVE  EvidenceBy(n, e) = IF LostIn(events, n, e) THEN "degraded" ELSE "healthy"
<1>1. /\ n \in Nat
      /\ \A i \in 1 .. n : events[i] \in Event /\ i \in 1 .. Len(events)
  BY DEF LedgerInv, Told
<1>2. \A a : HealthBy(n, a) = HealthIn(events, n, a)
  BY Zenon DEF HealthBy, HealthIn, Last, LastIn, HealthTypes
<1>3. SealedBy(n) = SealedIn(events, n)
  BY DEF SealedBy, SealedIn
<1>4. ASSUME NEW a \in SealedBy(n) \cap Required, Owner[a] = e, HealthBy(n, a) # "healthy"
      PROVE  LostIn(events, n, e)
  <2>1. HealthIn(events, n, a) # "healthy"
    BY <1>2, <1>4
  <2>2. HealthIn(events, n, a) = "healthy" \/
        ~(\A i \in 1 .. n : ~(events[i].type = "health_changed" /\ events[i].of = a))
    BY <1>1, HealthIsTold
  <2>3. PICK i \in 1 .. n : events[i].type = "health_changed" /\ events[i].of = a
    BY <2>1, <2>2
  <2> QED
    BY <1>4, <2>3 DEF LostIn, Loses
<1>5. ASSUME LostIn(events, n, e)
      PROVE  \E a \in SealedBy(n) \cap Required : Owner[a] = e /\ HealthBy(n, a) # "healthy"
  <2>1. PICK i \in 1 .. n : Loses(events[i], e)
    BY <1>5 DEF LostIn
  <2> PICK a : a = events[i].of
    OBVIOUS
  <2>2. events[i].type = "health_changed" /\ a \in Required /\ Owner[a] = e
    BY <2>1 DEF Loses
  <2>3. a \in SealedIn(events, i)
    BY <1>1, <2>2 DEF LedgerInv, Told, SealedFirst
  <2>4. SealedIn(events, i) \subseteq SealedIn(events, n)
    BY <1>1 DEF SealedIn
  <2>5. HealthIn(events, n, a) \in {"missing", "hash_drift"}
    BY <1>1, <2>2, HealthIsTold
  <2> QED
    BY <1>2, <1>3, <2>2, <2>3, <2>4, <2>5
<1> QED
  BY <1>4, <1>5 DEF EvidenceBy

\* The status an experiment has is the one its last event gave it.
LEMMA StatusIs ==
    ASSUME LedgerInv, NEW e \in Experiments
    PROVE  StatusBy(Len(events), e) = status[e]
<1> PICK last : last = LastIn(events, Len(events), StatusTypes, e)
  OBVIOUS
<1>1. Last(Len(events), {"submitted", "status_changed", "accepted"}, e) = last
  <2>1. Last(Len(events), StatusTypes, e) = LastIn(events, Len(events), StatusTypes, e)
    BY Zenon DEF Last, LastIn
  <2> QED
    BY <2>1 DEF StatusTypes
<1>2. status[e] = IF last.type = "none" THEN "ABSENT" ELSE StatusOf(last)
  BY DEF LedgerInv, Told, StatusTold, StatusIn, Tables
<1>3. last.type = "none" \/ last.type \in StatusTypes
  <2>1. CASE \A i \in 1 .. Len(events) : ~(events[i].type \in StatusTypes /\ events[i].of = e)
    <3>1. last = [type |-> "none"]
      BY <2>1, LastIsNone
    <3> QED
      BY <3>1
  <2>2. ASSUME NEW i \in 1 .. Len(events), events[i].type \in StatusTypes, events[i].of = e
        PROVE  last.type \in StatusTypes
    <3>1. Len(events) \in Nat
      BY DEF LedgerInv, Told
    <3> QED
      BY <2>2, <3>1, LastIsHit
  <2> QED
    BY <2>1, <2>2
<1> QED
  BY <1>1, <1>2, <1>3 DEF StatusBy, StatusOf, StatusTypes

LEMMA TablesAgree ==
    ASSUME LedgerInv
    PROVE  TablesFollowLedger
<1>0. /\ Len(events) \in Nat /\ Len(events) \in 0 .. Len(events)
      /\ \A i \in 1 .. Len(events) : events[i] \in Event
  BY DEF LedgerInv, Told
<1>1. ExperimentErrors(Len(events)) = {}
  <2>1. \A e \in Experiments : StatusBy(Len(events), e) = status[e]
    BY StatusIs
  <2>2. \A e \in Experiments : EvidenceBy(Len(events), e) = evidence[e]
    BY <1>0, EvidenceIs DEF LedgerInv, Told, EvidenceTold, Tables
  <2> QED
    BY <2>1, <2>2 DEF ExperimentErrors
<1>2. ArtifactErrors(Len(events)) = {}
  <2>1. \A a : HealthBy(Len(events), a) = HealthIn(events, Len(events), a)
    BY Zenon DEF HealthBy, HealthIn, Last, LastIn, HealthTypes
  <2>2. SealedBy(Len(events)) = SealedIn(events, Len(events))
    BY DEF SealedBy, SealedIn
  <2> QED
    BY <2>1, <2>2 DEF ArtifactErrors, LedgerInv, Told, HealthTold, Tables
<1>3. MetricErrors(Len(events)) = {}
  <2> SUFFICES ASSUME NEW e \in Experiments, NEW v \in Scores
               PROVE  /\ Happened(Len(events), Completed(e, v)) => computed[e] = v
                      /\ Happened(Len(events), Accepted(e, v)) => verified[e] = v
    BY DEF MetricErrors
  <2>1. ASSUME NEW i \in 1 .. Len(events), events[i] = Completed(e, v)
        PROVE  computed[e] = v
    BY <2>1 DEF Completed, LedgerInv, Told, MetricsTold, Tables
  <2>2. ASSUME NEW i \in 1 .. Len(events), events[i] = Accepted(e, v)
        PROVE  verified[e] = v
    BY <2>2 DEF Accepted, Accepts, LedgerInv, Told, BoardTold, Tables
  <2> QED
    BY <2>1, <2>2 DEF Happened
<1> QED
  BY <1>1, <1>2, <1>3 DEF TablesFollowLedger

\* An acceptance in the ledger, as the replay finds it.
LEMMA AcceptedIs ==
    ASSUME LedgerInv, NEW n \in 0 .. Len(events), NEW e \in Experiments
    PROVE  (\E v \in Scores : Happened(n, Accepted(e, v))) <=>
               \E i \in 1 .. n : Accepts(events[i], e)
<1>1. \A i \in 1 .. n : events[i] \in Event
  BY DEF LedgerInv, Told
<1>2. \A v, i : events[i] = Accepted(e, v) => Accepts(events[i], e)
  BY DEF Accepted, Accepts
<1>3. \A i \in 1 .. n : Accepts(events[i], e) =>
         events[i].score \in Scores /\ events[i] = Accepted(e, events[i].score)
  BY <1>1, EventFacts DEF Accepts
<1> QED
  BY <1>2, <1>3 DEF Happened

\* A row that agrees with a part of the ledger shows what came before its acceptance.
LEMMA AgreeingShows ==
    ASSUME LedgerInv, NEW n \in 0 .. Len(events), NEW e \in Experiments, ~BoardWrong(n, e),
           NEW i \in 1 .. n, Accepts(events[i], e)
    PROVE  Shows(events, board, e, i)
<1>1. \E v \in Scores : Happened(n, Accepted(e, v))
  BY AcceptedIs
<1>2. /\ board[e].withdrawn = Happened(n, Withdrawn(e))
      /\ board[e].evidence = EvidenceBy(n, e)
  BY <1>1 DEF BoardWrong
<1>3. \A j \in 1 .. i : j \in 1 .. n
  BY DEF LedgerInv, Told
<1>4. ASSUME NEW j \in 1 .. i, events[j] = Withdrawn(e)
      PROVE  board[e].withdrawn
  BY <1>2, <1>3, <1>4 DEF Happened
<1>5. ASSUME LostIn(events, i, e)
      PROVE  board[e].evidence = "degraded"
  <2>1. LostIn(events, n, e)
    BY <1>3, <1>5 DEF LostIn
  <2> QED
    BY <1>2, <2>1, EvidenceIs
<1> QED
  BY <1>4, <1>5 DEF Shows

\* A row that shows it agrees with the whole ledger.
LEMMA ShowingAgrees ==
    ASSUME LedgerInv, NEW e \in Experiments, NEW i \in 1 .. Len(events),
           Accepts(events[i], e), Shows(events, board, e, i)
    PROVE  ~BoardWrong(Len(events), e)
<1>1. /\ board[e] # NoRow
      /\ board[e].score = events[i].score
      /\ board[e].withdrawn <=> \E j \in i + 1 .. Len(events) : events[j] = Withdrawn(e)
      /\ board[e].evidence = "degraded" <=>
            \E j \in i + 1 .. Len(events) : Loses(events[j], e)
  BY DEF LedgerInv, Told, BoardTold, Tables
<1>2. board[e] \in Entry
  BY <1>1 DEF LedgerInv, TypeOK
<1>3. board[e].withdrawn \in BOOLEAN /\ board[e].evidence \in {"healthy", "degraded"}
  BY <1>2 DEF Entry
<1>4. /\ Len(events) \in Nat /\ Len(events) \in 0 .. Len(events)
      /\ \A j \in 1 .. Len(events) : j \in 1 .. i \/ j \in i + 1 .. Len(events)
      /\ \A j \in i + 1 .. Len(events) : j \in 1 .. Len(events)
      /\ \A j \in 1 .. Len(events) : events[j] \in Event
  BY DEF LedgerInv, Told
<1>5. Happened(Len(events), Accepted(e, board[e].score))
  <2>1. events[i] = Accepted(e, board[e].score)
    BY <1>1, <1>4, EventFacts DEF Accepts
  <2> QED
    BY <2>1 DEF Happened
<1>6. board[e].withdrawn = Happened(Len(events), Withdrawn(e))
  <2>1. board[e].withdrawn <=> \E j \in 1 .. Len(events) : events[j] = Withdrawn(e)
    BY <1>1, <1>4 DEF Shows
  <2> QED
    BY <1>3, <2>1 DEF Happened
<1>7. board[e].evidence = EvidenceBy(Len(events), e)
  <2>1. board[e].evidence = "degraded" <=> LostIn(events, Len(events), e)
    BY <1>1, <1>4 DEF Shows, LostIn
  <2> QED
    BY <1>3, <1>4, <2>1, EvidenceIs
<1>8. \E v \in Scores : Happened(Len(events), Accepted(e, v))
  BY <1>4, AcceptedIs
<1> QED
  BY <1>1, <1>5, <1>6, <1>7, <1>8 DEF BoardWrong
-----------------------------------------------------------------------------
\* A transaction of the controller leaves the refreshes, audits and imports alone.
LEMMA ControllerKeeps ==
    ASSUME LedgerInv, Recorded, UNCHANGED locals,
           status' \in [Experiments -> Statuses \cup {"ABSENT"}],
           withdrawn' \in [Experiments -> BOOLEAN],
           evidence' = evidence,
           health' \in [Artifacts -> Health \cup {NoRow}],
           \A a \in Artifacts : health[a] # NoRow => health'[a] # NoRow,
           computed' \in [Experiments -> Scores \cup {NoRow}],
           verified' \in [Experiments -> Scores \cup {NoRow}],
           board' \in [Experiments -> Entry \cup {NoRow}],
           \A e \in Experiments :
              status'[e] \in {"REVIEW_PENDING", "REVIEW_BLOCKED", "NEEDS_HUMAN"} =>
                  computed'[e] # NoRow
    PROVE  TypeOK' /\ Held'
<1>1. UNCHANGED <<pc, rows, at, found, log, errors, claim>>
  BY DEF locals
<1>2. log' \in [Auditors -> 0 .. Len(events')]
  <2>1. /\ Len(events) \in Nat /\ Len(events') \in Nat /\ Len(events') > Len(events)
    BY DEF LedgerInv, Recorded, Grows, Told
  <2>2. log \in [Auditors -> 0 .. Len(events)]
    BY DEF LedgerInv, TypeOK
  <2> QED
    BY <1>1, <2>1, <2>2
<1>3. TypeOK'
  BY <1>1, <1>2 DEF LedgerInv, TypeOK
<1>4. Held'
  BY <1>1 DEF LedgerInv, Held
<1> QED
  BY <1>3, <1>4

LEMMA ControllerStep ==
    ASSUME LedgerInv, NEW e \in Experiments,
           \/ Submit(e) \/ RecordMetrics(e) \/ Accept(e) \/ Withdraw(e)
           \/ \E s \in Statuses : Transition(e, s)
           \/ \E A \in SUBSET Artifacts : Seal(e, A)
    PROVE  TypeOK' /\ Held' /\ Recorded /\ UNCHANGED locals
<1> /\ TypeOK
    /\ \A d \in Experiments :
          status[d] \in {"REVIEW_PENDING", "REVIEW_BLOCKED", "NEEDS_HUMAN"} =>
              computed[d] # NoRow
  BY DEF LedgerInv, Held
<1>1. CASE Submit(e)
  <2>1. Recorded /\ UNCHANGED locals
    BY <1>1, SubmitRecorded DEF Submit
  <2>2. status' = [status EXCEPT ![e] = "QUEUED"]
        /\ UNCHANGED <<withdrawn, evidence, health, computed, verified, board>>
    BY <1>1 DEF Submit
  <2> QED
    BY <2>1, <2>2, ControllerKeeps DEF TypeOK, Statuses
<1>2. CASE RecordMetrics(e)
  <2>1. Recorded /\ UNCHANGED locals
    BY <1>2, MetricsRecorded DEF RecordMetrics
  <2>2. PICK v \in Scores : computed' = [computed EXCEPT ![e] = v]
    BY <1>2 DEF RecordMetrics
  <2>3. UNCHANGED <<status, withdrawn, evidence, health, verified, board>>
    BY <1>2 DEF RecordMetrics
  <2>4. /\ computed' \in [Experiments -> Scores \cup {NoRow}]
        /\ \A d \in Experiments : computed[d] # NoRow => computed'[d] # NoRow
    BY <2>2, MarkersDiffer DEF TypeOK
  <2> QED
    BY <2>1, <2>3, <2>4, ControllerKeeps DEF TypeOK
<1>3. CASE Accept(e)
  <2>1. Recorded /\ UNCHANGED locals
    BY <1>3, AcceptRecorded DEF Accept
  <2>2. computed[e] \in Scores
    BY <1>3 DEF Accept, TypeOK
  <2>3. /\ status' = [status EXCEPT ![e] = "ACCEPTED"]
        /\ verified' = [verified EXCEPT ![e] = computed[e]]
        /\ board' = [board EXCEPT ![e] =
              [score |-> computed[e], withdrawn |-> FALSE, evidence |-> "healthy"]]
        /\ UNCHANGED <<withdrawn, evidence, health, computed>>
    BY <1>3 DEF Accept
  <2>4. [score |-> computed[e], withdrawn |-> FALSE, evidence |-> "healthy"] \in Entry
    BY <2>2 DEF Entry
  <2>5. /\ board' \in [Experiments -> Entry \cup {NoRow}]
        /\ verified' \in [Experiments -> Scores \cup {NoRow}]
    BY <2>2, <2>3, <2>4 DEF TypeOK
  <2>6. /\ status' \in [Experiments -> Statuses \cup {"ABSENT"}]
        /\ \A d \in Experiments : d # e => status'[d] = status[d]
        /\ status'[e] = "ACCEPTED"
    BY <2>3 DEF TypeOK, Statuses
  <2> QED
    BY <2>1, <2>3, <2>5, <2>6, ControllerKeeps DEF TypeOK
<1>4. CASE Withdraw(e)
  <2>1. Recorded /\ UNCHANGED locals
    BY <1>4, WithdrawRecorded DEF Withdraw
  <2>2. /\ withdrawn' = [withdrawn EXCEPT ![e] = TRUE]
        /\ UNCHANGED <<status, evidence, health, computed, verified>>
    BY <1>4 DEF Withdraw
  <2>3. board' \in [Experiments -> Entry \cup {NoRow}]
    <3>1. CASE board[e] = NoRow
      BY <1>4, <3>1 DEF Withdraw, TypeOK
    <3>2. CASE board[e] # NoRow
      <4>1. board[e] \in Entry
        BY <3>2 DEF TypeOK
      <4>2. [board[e] EXCEPT !.withdrawn = TRUE] \in Entry
        BY <4>1 DEF Entry
      <4>3. board' = [board EXCEPT ![e] = [board[e] EXCEPT !.withdrawn = TRUE]]
        BY <1>4, <3>2 DEF Withdraw
      <4> QED
        BY <4>2, <4>3 DEF TypeOK
    <3> QED
      BY <3>1, <3>2
  <2> QED
    BY <2>1, <2>2, <2>3, ControllerKeeps DEF TypeOK
<1>5. ASSUME NEW s \in Statuses, Transition(e, s)
      PROVE  TypeOK' /\ Held' /\ Recorded /\ UNCHANGED locals
  <2>1. Recorded /\ UNCHANGED locals
    BY <1>5, TransitionRecorded DEF Transition
  <2>2. /\ status' = [status EXCEPT ![e] = s]
        /\ UNCHANGED <<withdrawn, evidence, health, computed, verified, board>>
    BY <1>5 DEF Transition
  <2>3. status[e] \in Statuses \cup {"ABSENT"} /\ s \in AllowedTransitions[status[e]]
    BY <1>5 DEF Transition, TypeOK
  <2>4. s \in {"REVIEW_PENDING", "REVIEW_BLOCKED", "NEEDS_HUMAN"} => computed[e] # NoRow
    <3>1. CASE s = "REVIEW_PENDING"
      BY <1>5, <2>3, <3>1, Allowed DEF Transition
    <3>2. CASE s \in {"REVIEW_BLOCKED", "NEEDS_HUMAN"}
      <4>1. status[e] = "REVIEW_PENDING"
        BY <2>3, <3>2, Allowed
      <4> QED
        BY <4>1
    <3> QED
      BY <3>1, <3>2
  <2>5. \A d \in Experiments :
           status'[d] \in {"REVIEW_PENDING", "REVIEW_BLOCKED", "NEEDS_HUMAN"} =>
               computed'[d] # NoRow
    BY <2>2, <2>4 DEF TypeOK
  <2> QED
    BY <2>1, <2>2, <2>5, ControllerKeeps DEF TypeOK
<1>6. ASSUME NEW A \in SUBSET Artifacts, Seal(e, A)
      PROVE  TypeOK' /\ Held' /\ Recorded /\ UNCHANGED locals
  <2>1. Recorded /\ UNCHANGED locals
    BY <1>6, SealRecorded DEF Seal
  <2>2. /\ health' = [a \in Artifacts |-> IF a \in A THEN "healthy" ELSE health[a]]
        /\ UNCHANGED <<status, withdrawn, evidence, computed, verified, board>>
    BY <1>6 DEF Seal
  <2>3. /\ health' \in [Artifacts -> Health \cup {NoRow}]
        /\ \A a \in Artifacts : health[a] # NoRow => health'[a] # NoRow
    BY <2>2, MarkersDiffer DEF TypeOK, Health
  <2> QED
    BY <2>1, <2>2, <2>3, ControllerKeeps DEF TypeOK
<1> QED
  BY <1>1, <1>2, <1>3, <1>4, <1>5, <1>6
LEMMA UpdateStep ==
    ASSUME LedgerInv, NEW p \in Refreshers, Update(p)
    PROVE  TypeOK' /\ Held' /\ Recorded
<1> PICK a : a = at[p]
  OBVIOUS
<1> PICK h : h = found[p]
  OBVIOUS
<1>1. /\ a \in Artifacts /\ h \in Health /\ h # NoRow
      /\ TypeOK
  BY MarkersDiffer DEF Update, LedgerInv, Held, TypeOK
<1>2. Recorded
  BY UpdateRecorded
<1>3. /\ health' = [health EXCEPT ![a] = h]
      /\ UNCHANGED <<status, withdrawn, computed, verified, rows, log, errors, claim>>
      /\ pc' = [pc EXCEPT ![p] = "check"]
      /\ at' = [at EXCEPT ![p] = Nobody]
      /\ found' = [found EXCEPT ![p] = "healthy"]
  BY DEF Update, CheckOn
<1>4. evidence' \in [Experiments -> {"healthy", "degraded"}]
  BY <1>1 DEF Update, TypeOK
<1>5. board' \in [Experiments -> Entry \cup {NoRow}]
  <2> PICK e : e = Owner[a]
    OBVIOUS
  <2>1. CASE board' = board
    BY <1>1, <2>1 DEF TypeOK
  <2>2. CASE board' # board
    <3>1. board' = [board EXCEPT ![e].evidence = "degraded"] /\ board[e] # NoRow
      BY <2>2 DEF Update
    <3>2. e \in Experiments
      BY <1>1, OwnersExist
    <3>3. board[e] \in Entry
      BY <1>1, <3>1, <3>2 DEF TypeOK
    <3>4. [board[e] EXCEPT !.evidence = "degraded"] \in Entry
      BY <3>3 DEF Entry
    <3> QED
      BY <1>1, <3>1, <3>2, <3>4 DEF TypeOK
  <2> QED
    BY <2>1, <2>2
<1>6. /\ health' \in [Artifacts -> Health \cup {NoRow}]
      /\ \A b \in Artifacts : health[b] # NoRow => health'[b] # NoRow
  BY <1>1, <1>3 DEF TypeOK
<1>7. /\ pc' \in [Refreshers \cup Importers -> Labels]
      /\ at' \in [Refreshers -> Artifacts \cup {Nobody}]
      /\ found' \in [Refreshers -> Health]
      /\ \A q \in Refreshers : pc'[q] = "update" => pc[q] = "update" /\ at'[q] = at[q]
  BY <1>1, <1>3 DEF TypeOK, Labels, Health
<1>8. log' \in [Auditors -> 0 .. Len(events')]
  <2>1. /\ Len(events) \in Nat /\ Len(events') \in Nat /\ Len(events') > Len(events)
    BY <1>2 DEF LedgerInv, Recorded, Grows, Told
  <2>2. log \in [Auditors -> 0 .. Len(events)]
    BY <1>1 DEF TypeOK
  <2> QED
    BY <1>3, <2>1, <2>2
<1>9. TypeOK'
  BY <1>1, <1>3, <1>4, <1>5, <1>6, <1>7, <1>8 DEF TypeOK
<1>10. Held'
  <2>1. \A q \in Importers : pc'[q] = pc[q]
    BY <1>1, <1>3, CallersDiffer DEF TypeOK
  <2> QED
    BY <1>3, <1>6, <1>7, <2>1 DEF LedgerInv, Held
<1> QED
  BY <1>2, <1>9, <1>10

LEMMA SummaryStep ==
    ASSUME LedgerInv, NEW p \in Importers, RecordSummary(p)
    PROVE  TypeOK' /\ Held' /\ Recorded
<1>1. /\ pc' = [pc EXCEPT ![p] = "done"]
      /\ UNCHANGED <<status, withdrawn, evidence, health, computed, verified, board,
                     rows, at, found, log, errors, claim>>
  BY DEF RecordSummary, tables
<1>2. Recorded
  BY SummaryRecordedToo
<1>3. log' \in [Auditors -> 0 .. Len(events')]
  <2>1. /\ Len(events) \in Nat /\ Len(events') \in Nat /\ Len(events') > Len(events)
    BY <1>2 DEF LedgerInv, Recorded, Grows, Told
  <2>2. log \in [Auditors -> 0 .. Len(events)]
    BY DEF LedgerInv, TypeOK
  <2> QED
    BY <1>1, <2>1, <2>2
<1>4. /\ pc' \in [Refreshers \cup Importers -> Labels]
      /\ \A q \in Refreshers : pc'[q] = pc[q]
      /\ \A q \in Importers : pc'[q] = "record" => pc[q] = "record"
  BY <1>1, CallersDiffer DEF LedgerInv, TypeOK, Labels
<1>5. TypeOK'
  BY <1>1, <1>3, <1>4 DEF LedgerInv, TypeOK
<1>6. Held'
  BY <1>1, <1>4 DEF LedgerInv, Held
<1> QED
  BY <1>2, <1>5, <1>6

\* A step that writes nothing leaves the ledger and the tables in agreement.
LEMMA ReadingKeeps ==
    ASSUME LedgerInv, UNCHANGED <<events, tables>>
    PROVE  /\ Told(events, Tables)'
           /\ \A n, e : BoardWrong(n, e)' <=> BoardWrong(n, e)
           /\ BoardErrors(Len(events))' = BoardErrors(Len(events))
<1>1. Tables' = Tables /\ events' = events /\ board' = board
  BY DEF Tables, tables
<1>2. Told(events, Tables)'
  BY <1>1 DEF LedgerInv
<1>3. \A n, event : Happened(n, event)' <=> Happened(n, event)
  BY <1>1 DEF Happened
<1>4. \A n, e : EvidenceBy(n, e)' = EvidenceBy(n, e)
  BY <1>1 DEF EvidenceBy, HealthBy, SealedBy, Last
<1>5. \A n, e : BoardWrong(n, e)' <=> BoardWrong(n, e)
  BY <1>1, <1>3, <1>4 DEF BoardWrong
<1>6. BoardErrors(Len(events))' = BoardErrors(Len(events))
  BY <1>1, <1>5 DEF BoardErrors
<1> QED
  BY <1>2, <1>5, <1>6
LEMMA AuditsUndisturbed ==
    ASSUME LedgerInv, UNCHANGED <<events, tables, log, errors>>,
           \A p \in Auditors : \/ pc'[p] = pc[p]
                               \/ /\ pc[p] \in {"idle", "check", "update"}
                                  /\ pc'[p] \in {"idle", "check", "update"}
    PROVE  Audited'
<1>1. /\ BoardErrors(Len(events))' = BoardErrors(Len(events))
      /\ events' = events /\ board' = board /\ log' = log /\ errors' = errors
  BY ReadingKeeps DEF tables
<1>2. \A e, i : Shows(events, board, e, i)' <=> Shows(events, board, e, i)
  BY <1>1 DEF Shows
<1> QED
  BY <1>1, <1>2 DEF LedgerInv, Audited

\* What one auditor's step leaves of the others, and what it has to show of its own.
LEMMA OneAudits ==
    ASSUME LedgerInv, NEW p \in Auditors, UNCHANGED <<events, tables>>,
           \A q \in Auditors \ {p} : pc'[q] = pc[q] /\ log'[q] = log[q] /\ errors'[q] = errors[q],
           log'[p] \in 0 .. Len(events),
           pc'[p] \in {"idle", "check", "update", "experiments"} => errors'[p] = {},
           log'[p] = Len(events) =>
              /\ pc'[p] = "board" => errors'[p] = {}
              /\ pc'[p] \in {"artifacts", "metrics", "done"} =>
                    errors'[p] = BoardErrors(Len(events)),
           pc'[p] \in {"artifacts", "metrics", "done"} /\ errors'[p] = {} =>
              \A e \in Experiments, i \in 1 .. log'[p] :
                  Accepts(events[i], e) => Shows(events, board, e, i)
    PROVE  Audited'
<1>1. /\ BoardErrors(Len(events))' = BoardErrors(Len(events))
      /\ events' = events /\ board' = board
  BY ReadingKeeps DEF tables
<1>2. \A e, i : Shows(events, board, e, i)' <=> Shows(events, board, e, i)
  BY <1>1 DEF Shows
<1>3. SUFFICES ASSUME NEW q \in Auditors
               PROVE  /\ log'[q] \in 0 .. Len(events)
                      /\ pc'[q] \in {"idle", "check", "update", "experiments"} => errors'[q] = {}
                      /\ log'[q] = Len(events) =>
                            /\ pc'[q] = "board" => errors'[q] = {}
                            /\ pc'[q] \in {"artifacts", "metrics", "done"} =>
                                  errors'[q] = BoardErrors(Len(events))
                      /\ pc'[q] \in {"artifacts", "metrics", "done"} /\ errors'[q] = {} =>
                            \A e \in Experiments, i \in 1 .. log'[q] :
                                Accepts(events[i], e) => Shows(events, board, e, i)
  BY <1>1, <1>2 DEF Audited
<1>4. CASE q = p
  BY <1>4
<1>5. CASE q # p
  BY <1>5 DEF LedgerInv, Audited
<1> QED
  BY <1>4, <1>5

LEMMA VerifyStep ==
    ASSUME LedgerInv, NEW p \in Auditors, Verify(p)
    PROVE  TypeOK' /\ Held' /\ Audited' /\ UNCHANGED <<events, tables>>
<1> USE AuditorsRefresh
<1>1. /\ TypeOK /\ Len(events) \in Nat /\ log[p] \in 0 .. Len(events)
      /\ log[p] = Len(events) => /\ ExperimentErrors(log[p]) = {}
                                 /\ ArtifactErrors(log[p]) = {}
                                 /\ MetricErrors(log[p]) = {}
  BY TablesAgree DEF LedgerInv, Told, TablesFollowLedger, TypeOK
<1>2. CASE ReadEvents(p)
  <2>1. /\ pc[p] = "check" /\ log' = [log EXCEPT ![p] = Len(events)]
        /\ pc' = [pc EXCEPT ![p] = "experiments"]
        /\ UNCHANGED <<events, tables, rows, at, found, errors, claim>>
    BY <1>2 DEF ReadEvents
  <2>2. errors[p] = {}
    BY <2>1 DEF LedgerInv, Audited
  <2>3. Audited'
    <3>1. /\ pc'[p] = "experiments" /\ errors'[p] = {} /\ log'[p] \in 0 .. Len(events)
          /\ \A q \in Auditors \ {p} : pc'[q] = pc[q] /\ log'[q] = log[q]
          /\ errors' = errors
      BY <1>1, <2>1, <2>2 DEF TypeOK
    <3> QED
      BY <2>1, <3>1, OneAudits
  <2>4. TypeOK'
    BY <1>1, <2>1 DEF TypeOK, tables, Labels
  <2>5. Held'
    BY <1>1, <2>1 DEF LedgerInv, Held, TypeOK, tables
  <2> QED
    BY <2>1, <2>3, <2>4, <2>5
<1>3. ASSUME NEW table, NEW next \in {"board", "artifacts", "metrics", "done"},
             NEW wrong \in SUBSET (Experiments \cup Artifacts), Compare(p, table, next, wrong),
             log[p] = Len(events) =>
                /\ next = "board" => errors[p] \cup wrong = {}
                /\ next \in {"artifacts", "metrics", "done"} =>
                      errors[p] \cup wrong = BoardErrors(Len(events)),
             next \in {"artifacts", "metrics", "done"} /\ errors[p] \cup wrong = {} =>
                \A e \in Experiments, i \in 1 .. log[p] :
                    Accepts(events[i], e) => Shows(events, board, e, i)
      PROVE  TypeOK' /\ Held' /\ Audited' /\ UNCHANGED <<events, tables>>
  <2>1. /\ errors' = [errors EXCEPT ![p] = errors[p] \cup wrong]
        /\ pc' = [pc EXCEPT ![p] = next]
        /\ UNCHANGED <<events, tables, rows, at, found, log, claim>>
    BY <1>3 DEF Compare
  <2>2. /\ pc'[p] = next /\ errors'[p] = errors[p] \cup wrong /\ log' = log
        /\ \A q \in Auditors \ {p} : pc'[q] = pc[q] /\ errors'[q] = errors[q]
    BY <1>1, <2>1 DEF TypeOK
  <2>3. Audited'
    BY <1>1, <1>3, <2>1, <2>2, OneAudits
  <2>4. TypeOK'
    BY <1>1, <2>1 DEF TypeOK, tables, Labels
  <2>5. Held'
    BY <1>1, <2>1 DEF LedgerInv, Held, TypeOK, tables
  <2> QED
    BY <2>1, <2>3, <2>4, <2>5
<1>4. CASE ReadExperiments(p)
  <2> PICK wrong : wrong = ExperimentErrors(log[p])
    OBVIOUS
  <2>1. wrong \in SUBSET (Experiments \cup Artifacts) /\ Compare(p, "experiments", "board", wrong)
    BY <1>4 DEF ReadExperiments, ExperimentErrors
  <2>2. errors[p] = {}
    BY <2>1 DEF Compare, LedgerInv, Audited
  <2> QED
    BY <1>1, <1>3, <2>1, <2>2
<1>5. CASE ReadBoard(p)
  <2> PICK wrong : wrong = BoardErrors(log[p])
    OBVIOUS
  <2>1. wrong \in SUBSET (Experiments \cup Artifacts) /\ Compare(p, "board", "artifacts", wrong)
    BY <1>5 DEF ReadBoard, BoardErrors
  <2>2. log[p] = Len(events) => errors[p] \cup wrong = BoardErrors(Len(events))
    BY <2>1 DEF Compare, LedgerInv, Audited
  <2>3. ASSUME errors[p] \cup wrong = {}, NEW e \in Experiments, NEW i \in 1 .. log[p],
               Accepts(events[i], e)
        PROVE  Shows(events, board, e, i)
    <3>1. ~BoardWrong(log[p], e)
      BY <2>3 DEF BoardErrors
    <3> QED
      BY <1>1, <2>3, <3>1, AgreeingShows
  <2> QED
    BY <1>3, <2>1, <2>2, <2>3
<1>6. ASSUME NEW table \in {"artifacts", "metrics"}, NEW next \in {"metrics", "done"},
             NEW wrong \in SUBSET (Experiments \cup Artifacts), Compare(p, table, next, wrong),
             log[p] = Len(events) => wrong = {}
      PROVE  TypeOK' /\ Held' /\ Audited' /\ UNCHANGED <<events, tables>>
  <2>1. pc[p] \in {"artifacts", "metrics", "done"}
    BY <1>6 DEF Compare
  <2>2. log[p] = Len(events) => errors[p] \cup wrong = BoardErrors(Len(events))
    BY <1>6, <2>1 DEF LedgerInv, Audited
  <2>3. errors[p] \cup wrong = {} =>
           \A e \in Experiments, i \in 1 .. log[p] :
               Accepts(events[i], e) => Shows(events, board, e, i)
    <3>1. errors[p] \cup wrong = {} => errors[p] = {}
      OBVIOUS
    <3> QED
      BY <2>1, <3>1 DEF LedgerInv, Audited
  <2> QED
    BY <1>3, <1>6, <2>2, <2>3
<1>7. CASE ReadArtifacts(p)
  <2> PICK wrong : wrong = ArtifactErrors(log[p])
    OBVIOUS
  <2>1. wrong \in SUBSET (Experiments \cup Artifacts) /\ Compare(p, "artifacts", "metrics", wrong)
    BY <1>7 DEF ReadArtifacts, ArtifactErrors
  <2> QED
    BY <1>1, <1>6, <2>1
<1>8. CASE ReadMetrics(p)
  <2> PICK wrong : wrong = MetricErrors(log[p])
    OBVIOUS
  <2>1. wrong \in SUBSET (Experiments \cup Artifacts) /\ Compare(p, "metrics", "done", wrong)
    BY <1>8 DEF ReadMetrics, MetricErrors
  <2> QED
    BY <1>1, <1>6, <2>1
<1> QED
  BY <1>2, <1>4, <1>5, <1>7, <1>8 DEF Verify
\* The steps of a refresh that only read, and of an import that checks.
LEMMA LookingStep ==
    ASSUME LedgerInv,
           \/ \E p \in Refreshers : Refresh(p) \/ \E a \in Artifacts : Check(p, a)
           \/ \E p \in Importers, e \in Experiments : CheckSummary(p, e)
    PROVE  TypeOK' /\ Held' /\ Audited' /\ UNCHANGED <<events, tables>>
<1> USE CallersDiffer, AuditorsRefresh
<1>0. TypeOK
  BY DEF LedgerInv
<1>1. ASSUME NEW p \in Refreshers, Refresh(p)
      PROVE  TypeOK' /\ Held' /\ Audited' /\ UNCHANGED <<events, tables>>
  <2>1. /\ pc[p] = "idle" /\ pc' = [pc EXCEPT ![p] = "check"]
        /\ rows' = [rows EXCEPT ![p] = health]
        /\ UNCHANGED <<events, tables, at, found, log, errors, claim>>
    BY <1>1 DEF Refresh
  <2>2. TypeOK'
    BY <1>0, <2>1 DEF TypeOK, tables, Labels
  <2>3. \A q \in Refreshers, a \in Artifacts :
           rows'[q][a] # NoRow => rows[q][a] # NoRow \/ health[a] # NoRow
    BY <1>0, <2>1 DEF TypeOK
  <2>4. \A q \in Refreshers \cup Importers : pc'[q] \in {"update", "record"} => pc'[q] = pc[q]
    BY <1>0, <2>1 DEF TypeOK
  <2>5. Held'
    BY <2>1, <2>3, <2>4 DEF LedgerInv, Held, tables
  <2>6. Audited'
    BY <1>0, <2>1, AuditsUndisturbed DEF TypeOK
  <2> QED
    BY <2>1, <2>2, <2>5, <2>6
<1>2. ASSUME NEW p \in Refreshers, NEW a \in Artifacts, Check(p, a)
      PROVE  TypeOK' /\ Held' /\ Audited' /\ UNCHANGED <<events, tables>>
  <2>1. PICK now \in Health : CheckAs(p, a, now, now \in {rows[p][a], "healthy"})
    BY <1>2 DEF Check
  <2>2. /\ pc[p] = "check" /\ rows[p][a] # NoRow
        /\ rows' = [rows EXCEPT ![p][a] = NoRow]
        /\ \/ UNCHANGED <<pc, at, found>>
           \/ /\ at' = [at EXCEPT ![p] = a]
              /\ found' = [found EXCEPT ![p] = now]
              /\ pc' = [pc EXCEPT ![p] = "update"]
        /\ UNCHANGED <<events, tables, log, errors, claim>>
    BY <2>1 DEF CheckAs
  <2>3. /\ rows' \in [Refreshers -> [Artifacts -> Health \cup {NoRow}]]
        /\ \A q \in Refreshers, b \in Artifacts : rows'[q][b] # NoRow => rows[q][b] # NoRow
    BY <1>0, <2>2 DEF TypeOK
  <2>4. /\ pc' \in [Refreshers \cup Importers -> Labels]
        /\ at' \in [Refreshers -> Artifacts \cup {Nobody}]
        /\ found' \in [Refreshers -> Health]
        /\ \A q \in Refreshers :
              pc'[q] = "update" => \/ pc[q] = "update" /\ at'[q] = at[q]
                                   \/ q = p /\ at'[q] = a
    <3>1. CASE UNCHANGED <<pc, at, found>>
      BY <1>0, <3>1 DEF TypeOK
    <3>2. CASE /\ at' = [at EXCEPT ![p] = a]
               /\ found' = [found EXCEPT ![p] = now]
               /\ pc' = [pc EXCEPT ![p] = "update"]
      <4>1. /\ pc' \in [Refreshers \cup Importers -> Labels]
            /\ at' \in [Refreshers -> Artifacts \cup {Nobody}]
            /\ found' \in [Refreshers -> Health]
        BY <1>0, <3>2 DEF TypeOK, Labels
      <4>2. \A q \in Refreshers : q # p => pc'[q] = pc[q] /\ at'[q] = at[q]
        BY <1>0, <3>2 DEF TypeOK
      <4>3. at'[p] = a
        BY <1>0, <3>2 DEF TypeOK
      <4> QED
        BY <4>1, <4>2, <4>3
    <3> QED
      BY <2>2, <3>1, <3>2
  <2>5. a # Nobody
    BY MarkersDiffer
  <2>6. TypeOK'
    BY <1>0, <2>2, <2>3, <2>4, <2>5 DEF TypeOK, tables
  <2>7. health[a] # NoRow
    BY <2>2 DEF LedgerInv, Held
  <2>8. \A q \in Importers : pc'[q] = pc[q]
    BY <1>0, <2>2 DEF TypeOK
  <2>9. Held'
    BY <2>2, <2>3, <2>4, <2>7, <2>8 DEF LedgerInv, Held, tables
  <2>10. Audited'
    BY <1>0, <2>2, AuditsUndisturbed DEF TypeOK
  <2> QED
    BY <2>2, <2>6, <2>9, <2>10
<1>3. ASSUME NEW p \in Importers, NEW e \in Experiments, CheckSummary(p, e)
      PROVE  TypeOK' /\ Held' /\ Audited' /\ UNCHANGED <<events, tables>>
  <2>1. /\ pc' = [pc EXCEPT ![p] = "record"] /\ claim' = [claim EXCEPT ![p] = e]
        /\ UNCHANGED <<events, tables, rows, at, found, log, errors>>
    BY <1>3 DEF CheckSummary
  <2>2. /\ pc' \in [Refreshers \cup Importers -> Labels]
        /\ \A q \in Refreshers : pc'[q] = pc[q]
        /\ \A q \in Importers \ {p} : pc'[q] = pc[q] /\ claim'[q] = claim[q]
        /\ claim'[p] = e
    BY <1>0, <2>1 DEF TypeOK, Labels
  <2>3. TypeOK'
    BY <1>0, <2>1, <2>2 DEF TypeOK, tables
  <2>4. Held'
    BY <2>1, <2>2 DEF LedgerInv, Held, tables
  <2>5. Audited'
    BY <2>1, <2>2, AuditsUndisturbed
  <2> QED
    BY <2>1, <2>3, <2>4, <2>5
<1> QED
  BY <1>1, <1>2, <1>3

LEMMA LedgerStep ==
    ASSUME LedgerInv, [Next]_vars
    PROVE  LedgerInv'
<1>1. LossInv'
  BY LossStep DEF LedgerInv
<1>2. Recorded => Told(events, Tables)'
  BY DEF Recorded, Grows
<1>3. ASSUME UNCHANGED <<events, tables>>
      PROVE  Told(events, Tables)'
  BY <1>3, ReadingKeeps
<1>4. CASE UNCHANGED vars
  <2>1. UNCHANGED <<events, tables, pc, rows, at, found, log, errors, claim>>
    BY <1>4 DEF vars, locals
  <2>2. TypeOK' /\ Held'
    BY <2>1 DEF LedgerInv, TypeOK, Held, tables
  <2>3. Audited'
    BY <2>1, AuditsUndisturbed
  <2> QED
    BY <1>1, <1>3, <2>1, <2>2, <2>3 DEF LedgerInv
<1>5. ASSUME NEW e \in Experiments,
             \/ Submit(e) \/ RecordMetrics(e) \/ Accept(e) \/ Withdraw(e)
             \/ \E s \in Statuses : Transition(e, s)
             \/ \E A \in SUBSET Artifacts : Seal(e, A)
      PROVE  LedgerInv'
  <2>1. TypeOK' /\ Held' /\ Recorded /\ UNCHANGED locals
    BY <1>5, ControllerStep
  <2>2. Audited'
    BY <2>1, AuditsKept DEF locals
  <2> QED
    BY <1>1, <1>2, <2>1, <2>2 DEF LedgerInv
<1>6. ASSUME NEW p \in Refreshers, Update(p)
      PROVE  LedgerInv'
  <2>1. TypeOK' /\ Held' /\ Recorded
    BY <1>6, UpdateStep
  <2>2. /\ UNCHANGED <<log, errors>> /\ pc[p] = "update" /\ pc' = [pc EXCEPT ![p] = "check"]
        /\ pc \in [Refreshers \cup Importers -> Labels]
    BY <1>6 DEF Update, CheckOn, LedgerInv, TypeOK
  <2>3. Audited'
    BY <2>1, <2>2, AuditsKept, AuditorsRefresh
  <2> QED
    BY <1>1, <1>2, <2>1, <2>3 DEF LedgerInv
<1>7. ASSUME NEW p \in Importers, RecordSummary(p)
      PROVE  LedgerInv'
  <2>1. TypeOK' /\ Held' /\ Recorded
    BY <1>7, SummaryStep
  <2>2. /\ UNCHANGED <<log, errors>> /\ pc' = [pc EXCEPT ![p] = "done"]
        /\ pc \in [Refreshers \cup Importers -> Labels]
    BY <1>7 DEF RecordSummary, LedgerInv, TypeOK
  <2>3. Audited'
    BY <2>1, <2>2, AuditsKept, AuditorsRefresh, CallersDiffer
  <2> QED
    BY <1>1, <1>2, <2>1, <2>3 DEF LedgerInv
<1>8. ASSUME NEW p \in Auditors, Verify(p)
      PROVE  LedgerInv'
  BY <1>1, <1>3, <1>8, VerifyStep DEF LedgerInv
<1>9. ASSUME \/ \E p \in Refreshers : Refresh(p) \/ \E a \in Artifacts : Check(p, a)
             \/ \E p \in Importers, e \in Experiments : CheckSummary(p, e)
      PROVE  LedgerInv'
  BY <1>1, <1>3, <1>9, LookingStep DEF LedgerInv
<1> QED
  BY <1>4, <1>5, <1>6, <1>7, <1>8, <1>9 DEF Next, RefreshHealth

LEMMA LedgerStart ==
    ASSUME Init
    PROVE  LedgerInv
<1> USE AuditorsRefresh, CallersDiffer
<1>1. TypeOK /\ LossInv /\ Held
  BY DEF Init, TypeOK, LossInv, Held, Health, Labels, Statuses
<1>2. events = <<>> /\ events \in Seq(Event) /\ Len(events) = 0 /\ \A i \in 1 .. Len(events) : FALSE
  BY DEF Init
<1>3. StatusTold(events, Tables)
  <2>1. \A e \in Experiments :
           LastIn(events, Len(events), StatusTypes, e) = [type |-> "none"]
    BY <1>2, LastIsNone
  <2> QED
    BY <2>1 DEF StatusTold, StatusIn, Tables, Init
<1>4. HealthTold(events, Tables) /\ EvidenceTold(events, Tables)
  BY <1>2 DEF HealthTold, EvidenceTold, SealedIn, LostIn, Tables, Init
<1>5. SealedFirst(events) /\ MetricsTold(events, Tables) /\ BoardTold(events, Tables)
  BY <1>2 DEF SealedFirst, MetricsTold, BoardTold
<1>6. Audited
  <2>1. \A p \in Auditors : pc[p] = "idle" /\ log[p] = 0 /\ errors[p] = {}
    BY DEF Init
  <2> QED
    BY <1>2, <2>1 DEF Audited
<1> QED
  BY <1>1, <1>2, <1>3, <1>4, <1>5, <1>6 DEF LedgerInv, Told

\* The invariant: the ledger tells every table, the leaderboard but for what came before
\* an acceptance, and an audit without errors has found nothing of that.
THEOREM LedgerInvariant == Spec => []LedgerInv
<1>1. Init => LedgerInv
  BY LedgerStart
<1>2. LedgerInv /\ [Next]_vars => LedgerInv'
  BY LedgerStep
<1> QED
  BY <1>1, <1>2, PTL DEF Spec

\* The type invariant, for any number of experiments, artifacts, refreshes and imports.
THEOREM ProjectionTypes == Spec => []TypeOK
<1>1. LedgerInv => TypeOK
  BY DEF LedgerInv
<1> QED
  BY <1>1, LedgerInvariant, PTL

\* Experiments, artifacts and metrics are at any time what the ledger replays to, for any
\* number of concurrent refreshes, each updating from the rows it selected earlier.
THEOREM TablesAreTold == Spec => []TablesFollowLedger
<1>1. LedgerInv => TablesFollowLedger
  BY TablesAgree
<1> QED
  BY <1>1, LedgerInvariant, PTL

\* A row of the leaderboard is withdrawn, or degraded, exactly if a withdrawal, or the
\* loss of a required artifact, came after its acceptance, and it has the score of that.
THEOREM BoardIsTold == Spec => []BoardShowsWhatCameAfter
<1>1. ASSUME LedgerInv
      PROVE  BoardShowsWhatCameAfter
  <2>1. SUFFICES ASSUME NEW e \in Experiments, NEW i \in 1 .. Len(events),
                        events[i].type = "accepted", events[i].of = e,
                        NEW later, later = {events[j] : j \in i + 1 .. Len(events)}
                 PROVE  /\ board[e].score = events[i].score
                        /\ board[e].withdrawn <=> Withdrawn(e) \in later
                        /\ board[e].evidence = "degraded" <=>
                              \E ev \in later : /\ ev.type = "health_changed"
                                                /\ ev.of \in Required /\ Owner[ev.of] = e
    BY DEF BoardShowsWhatCameAfter
  <2>2. /\ board[e].score = events[i].score
        /\ board[e].withdrawn <=> \E j \in i + 1 .. Len(events) : events[j] = Withdrawn(e)
        /\ board[e].evidence = "degraded" <=>
              \E j \in i + 1 .. Len(events) : Loses(events[j], e)
    BY <1>1, <2>1 DEF LedgerInv, Told, BoardTold, Accepts, Tables
  <2> QED
    BY <2>1, <2>2 DEF Loses
<1> QED
  BY <1>1, LedgerInvariant, PTL

\* An audit that has seen the whole ledger reports exactly what is wrong with the tables,
\* although it reads them one after the other while others write.
THEOREM AuditIsExact == Spec => []QuietAuditIsExact
<1>1. ASSUME LedgerInv
      PROVE  QuietAuditIsExact
  <2>1. TablesFollowLedger
    BY <1>1, TablesAgree
  <2>2. \A p \in Auditors :
           pc[p] = "done" /\ log[p] = Len(events) => errors[p] = BoardErrors(Len(events))
    BY <1>1 DEF LedgerInv, Audited
  <2> QED
    BY <2>1, <2>2 DEF QuietAuditIsExact, BoardFollowsLedger
<1> QED
  BY <1>1, LedgerInvariant, PTL

\* An audit without errors vouches for the rows of all acceptances it has seen for good,
\* whatever is withdrawn and lost after it.
THEOREM AuditVouches == Spec => []CleanAuditVouches
<1>1. ASSUME LedgerInv
      PROVE  CleanAuditVouches
  <2>1. SUFFICES ASSUME NEW p \in Auditors, NEW e \in Experiments,
                        pc[p] = "done", errors[p] = {},
                        \E v \in Scores : Happened(log[p], Accepted(e, v))
                 PROVE  ~BoardWrong(Len(events), e)
    BY DEF CleanAuditVouches
  <2>2. log[p] \in 0 .. Len(events) /\ Len(events) \in Nat
    BY <1>1 DEF LedgerInv, Audited, Told
  <2>3. PICK i \in 1 .. log[p] : Accepts(events[i], e)
    BY <1>1, <2>1, <2>2, AcceptedIs
  <2>4. Shows(events, board, e, i)
    BY <1>1, <2>1, <2>3 DEF LedgerInv, Audited
  <2>5. i \in 1 .. Len(events)
    BY <2>2
  <2> QED
    BY <1>1, <2>3, <2>4, <2>5, ShowingAgrees
<1> QED
  BY <1>1, LedgerInvariant, PTL
=============================================================================
