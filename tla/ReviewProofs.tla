---------------------------- MODULE ReviewProofs ----------------------------
(***************************************************************************)
(* What is proved of the reviews of one experiment, for any number of      *)
(* overlapping retries, crashes and unreadable files: that the             *)
(* controller's judgement is the definition of a valid review beside it,   *)
(* that no two threads work on one attempt, what an acceptance rests on,   *)
(* that a pending review is in somebody's hands, that an experiment is     *)
(* accepted once, that events and rows tell the same of every attempt, and *)
(* that the threads implement Docket.                                      *)
(***************************************************************************)
EXTENDS Review, SequenceTheorems, FiniteSetTheorems, TLAPS

Asked == {"ACCEPTED", "REJECTED", "NEEDS_HUMAN", "REVIEW_BLOCKED"}
Outcomes == Asked \cup {"VERIFICATION_FAILED"}

\* The controller accepts exactly the outputs that models.py calls valid: the two
\* definitions of a good review, in service.py and in models.py, agree.
THEOREM JudgementIsValidity ==
    ASSUME NEW out, NEW hash, NEW allowed, out.verdict \in Verdicts
    PROVE  Judgement(out, hash, allowed) = "ACCEPTED" <=> Valid(out, hash, allowed)
BY DEF Judgement, Valid, StructureError, Verdicts

LEMMA JudgementAsked ==
    ASSUME NEW out, NEW hash, NEW allowed
    PROVE  Judgement(out, hash, allowed) \in Asked
BY DEF Judgement, Asked

-----------------------------------------------------------------------------
(* The invariant. *)

\* All rows are taken from one set, and all events.
Typed ==
    /\ \E R : reviews \in Seq(R)
    /\ \E E : events \in Seq(E)
    /\ DOMAIN answer = Threads
    /\ pc \in [Threads -> Labels]
    /\ goal \in [Threads -> Outcomes \cup {"REVIEW_PENDING", NoGoal}]
    /\ bundle \in [Threads -> Nat]
    /\ attempt \in [Threads -> Nat]

\* A row of the table, with the bundle collected before n.
RowOK(r, n) ==
    /\ DOMAIN r = {"state", "bundle", "output"}
    /\ r.state \in {"RUNNING", "BLOCKED", "COMPLETED"}
    /\ r.bundle \in Nat /\ r.bundle < n
    /\ r.state = "COMPLETED" => r.output.verdict \in Verdicts

RowsInv ==
    /\ status \in Outcomes \cup {"REVIEW_PENDING"}
    /\ \A a \in DOMAIN reviews : RowOK(reviews[a], Len(events))
    /\ board # 0 => board \in DOMAIN reviews /\ Opinion(reviews[board]) = "ACCEPTED"
    /\ \A i \in DOMAIN events : \A a :
          events[i] = Started(a) => a \in DOMAIN reviews /\ reviews[a].bundle < i

\* What a thread at each label knows of the table.
ThreadInv(t) ==
    /\ pc[t] \in {"number", "open"} => bundle[t] <= Len(events)
    /\ pc[t] \in HoldLabels =>
          attempt[t] \in DOMAIN reviews /\ reviews[attempt[t]].bundle = bundle[t]
    /\ pc[t] \in {"ask", "record"} => reviews[attempt[t]].state = "RUNNING"
    /\ pc[t] = "record" => answer[t].verdict \in Verdicts
    /\ pc[t] = "accept" => Opinion(reviews[attempt[t]]) = "ACCEPTED"
    /\ pc[t] = "move" =>
          /\ goal[t] \in Outcomes \cup {"REVIEW_PENDING"}
          /\ goal[t] \in Asked => \E a \in DOMAIN reviews : Opinion(reviews[a]) = goal[t]

Apart ==
    \A t, u \in Threads :
        pc[t] \in HoldLabels /\ pc[u] \in HoldLabels /\ attempt[t] = attempt[u] => t = u

ReviewInv == Typed /\ RowsInv /\ Apart /\ \A t \in Threads : ThreadInv(t)

-----------------------------------------------------------------------------
(* Frames. *)

\* The tables only grow, but for the row a, which had no opinion yet.
Grown(a) ==
    /\ Len(events) \in Nat /\ Len(events') \in Nat /\ Len(events) <= Len(events')
    /\ DOMAIN reviews \subseteq DOMAIN reviews'
    /\ \A b \in DOMAIN reviews : b # a => reviews'[b] = reviews[b]
    /\ a \in DOMAIN reviews => Opinion(reviews[a]) = "none"

Still(u) ==
    /\ pc'[u] = pc[u] /\ goal'[u] = goal[u] /\ bundle'[u] = bundle[u]
    /\ attempt'[u] = attempt[u] /\ answer'[u] = answer[u]

\* A thread that stands still keeps its part of the invariant while another works
\* on a row that is not its own.
LEMMA OthersKeep ==
    ASSUME NEW u \in Threads, NEW a, ThreadInv(u), Grown(a), Still(u), Typed,
           pc[u] \in HoldLabels => attempt[u] # a
    PROVE  ThreadInv(u)'
<1>1. pc[u] \in {"number", "open"} => bundle[u] <= Len(events')
  BY DEF ThreadInv, Grown, Typed
<1>2. pc[u] \in HoldLabels =>
          attempt[u] \in DOMAIN reviews' /\ reviews'[attempt[u]] = reviews[attempt[u]]
  BY DEF ThreadInv, Grown
<1>3. ASSUME NEW b \in DOMAIN reviews, Opinion(reviews[b]) \in Asked
      PROVE  b \in DOMAIN reviews' /\ reviews'[b] = reviews[b]
  BY <1>3 DEF Grown, Asked
<1>4. pc[u] = "move" /\ goal[u] \in Asked =>
          \E b \in DOMAIN reviews' : reviews'[b] = reviews[b] /\ Opinion(reviews[b]) = goal[u]
  BY <1>3 DEF ThreadInv
<1> QED
  BY <1>1, <1>2, <1>4 DEF ThreadInv, Still, HoldLabels, Opinion

\* One thread moves; what it holds afterwards nobody else does.
LEMMA OneMoves ==
    ASSUME ReviewInv, NEW t \in Threads, NEW a,
           \A u \in Threads \ {t} : Still(u),
           Grown(a),
           \A u \in Threads \ {t} : pc[u] \in HoldLabels => attempt[u] # a,
           Typed', RowsInv', ThreadInv(t)',
           pc'[t] \in HoldLabels =>
               \A u \in Threads \ {t} : pc[u] \in HoldLabels => attempt[u] # attempt'[t]
    PROVE  ReviewInv'
<1>1. \A u \in Threads : ThreadInv(u)'
  BY OthersKeep DEF ReviewInv
<1>2. Apart'
  BY DEF ReviewInv, Apart, Still
<1> QED
  BY <1>1, <1>2 DEF ReviewInv

\* A step that writes nothing.
LEMMA ReadersMove ==
    ASSUME ReviewInv, NEW t \in Threads, UNCHANGED rows,
           \A u \in Threads \ {t} : Still(u),
           Typed', ThreadInv(t)',
           pc'[t] \in HoldLabels => pc[t] \in HoldLabels /\ attempt'[t] = attempt[t]
    PROVE  ReviewInv'
<1>1. UNCHANGED <<status, events, reviews, board>>
  BY DEF rows
<1>2. Len(events) \in Nat /\ DOMAIN reviews = 1 .. Len(reviews)
  BY LenProperties DEF ReviewInv, Typed
<1>3. Grown(0)
  BY <1>1, <1>2 DEF Grown
<1>4. RowsInv'
  BY <1>1 DEF ReviewInv, RowsInv, RowOK, Opinion
<1>5. \A u \in Threads : pc[u] \in HoldLabels => attempt[u] # 0
  BY <1>2, LenProperties DEF ReviewInv, ThreadInv, Typed
<1> QED
  BY <1>3, <1>4, <1>5, OneMoves DEF ReviewInv, Apart

\* The frames after the operators that steps are written with.
LEMMA Gone ==
    ASSUME Typed, NEW t \in Threads, NEW label \in {"idle", "serving", "down"}, Leave(t, label)
    PROVE  /\ \A u \in Threads \ {t} : Still(u)
           /\ pc'[t] = label /\ pc'[t] \notin HoldLabels
           /\ ThreadInv(t)'
           /\ DOMAIN answer' = Threads
           /\ pc' \in [Threads -> Labels]
           /\ goal' \in [Threads -> Outcomes \cup {"REVIEW_PENDING", NoGoal}]
           /\ bundle' \in [Threads -> Nat]
           /\ attempt' \in [Threads -> Nat]
<1>1. /\ \A u \in Threads \ {t} : Still(u)
      /\ pc'[t] = label /\ pc'[t] \notin HoldLabels
  BY DEF Leave, Typed, Still, HoldLabels
<1>2. ThreadInv(t)'
  BY <1>1 DEF ThreadInv, HoldLabels
<1>3. /\ DOMAIN answer' = Threads
      /\ pc' \in [Threads -> Labels]
      /\ goal' \in [Threads -> Outcomes \cup {"REVIEW_PENDING", NoGoal}]
      /\ bundle' \in [Threads -> Nat]
      /\ attempt' \in [Threads -> Nat]
  BY DEF Leave, Typed, Labels
<1> QED
  BY <1>1, <1>2, <1>3

LEMMA Goes ==
    ASSUME Typed, NEW t \in Threads, NEW label \in Labels, Goto(t, label)
    PROVE  /\ \A u \in Threads \ {t} : Still(u)
           /\ pc'[t] = label
           /\ UNCHANGED <<goal, bundle, attempt, answer>>
           /\ pc' \in [Threads -> Labels]
BY DEF Goto, Typed, Still

LEMMA Asks ==
    ASSUME Typed, NEW t \in Threads, NEW s \in Outcomes \cup {"REVIEW_PENDING"}, Request(t, s)
    PROVE  /\ \A u \in Threads \ {t} : Still(u)
           /\ pc'[t] = "move" /\ goal'[t] = s
           /\ UNCHANGED <<bundle, attempt, answer>>
           /\ pc' \in [Threads -> Labels]
           /\ goal' \in [Threads -> Outcomes \cup {"REVIEW_PENDING", NoGoal}]
BY DEF Request, Typed, Still, Labels

-----------------------------------------------------------------------------
(* Steps that write nothing. *)

\* A thread gives up, whatever it was doing.
LEMMA LeaveStep ==
    ASSUME ReviewInv, NEW t \in Threads, NEW label \in {"idle", "serving", "down"},
           Leave(t, label), UNCHANGED rows
    PROVE  ReviewInv'
<1>1. Typed
  BY DEF ReviewInv
<1>2. Typed'
  BY <1>1, Gone DEF Typed, rows
<1> QED
  BY <1>1, <1>2, Gone, ReadersMove

LEMMA RequestStep ==
    ASSUME ReviewInv, NEW t \in Threads, NEW s \in {"REVIEW_PENDING", "VERIFICATION_FAILED"},
           Request(t, s), UNCHANGED rows
    PROVE  ReviewInv'
<1>1. Typed /\ s \in Outcomes \cup {"REVIEW_PENDING"} /\ s \notin Asked
  BY DEF ReviewInv, Outcomes, Asked
<1>2. /\ \A u \in Threads \ {t} : Still(u)
      /\ pc'[t] = "move" /\ goal'[t] = s
      /\ UNCHANGED <<bundle, attempt, answer>>
      /\ pc' \in [Threads -> Labels]
      /\ goal' \in [Threads -> Outcomes \cup {"REVIEW_PENDING", NoGoal}]
  BY <1>1, Asks
<1>3. Typed'
  BY <1>1, <1>2 DEF Typed, rows
<1>4. ThreadInv(t)' /\ pc'[t] \notin HoldLabels
  BY <1>1, <1>2 DEF ThreadInv, HoldLabels
<1> QED
  BY <1>2, <1>3, <1>4, ReadersMove

LEMMA GotoStep ==
    ASSUME ReviewInv, NEW t \in Threads, NEW label \in {"verify", "collect", "serving"},
           Goto(t, label), UNCHANGED rows
    PROVE  ReviewInv'
<1>1. Typed /\ label \in Labels
  BY DEF ReviewInv, Labels
<1>2. /\ \A u \in Threads \ {t} : Still(u)
      /\ pc'[t] = label
      /\ UNCHANGED <<goal, bundle, attempt, answer>>
      /\ pc' \in [Threads -> Labels]
  BY <1>1, Goes
<1>3. Typed'
  BY <1>1, <1>2 DEF Typed, rows
<1>4. ThreadInv(t)' /\ pc'[t] \notin HoldLabels
  BY <1>2 DEF ThreadInv, HoldLabels
<1> QED
  BY <1>2, <1>3, <1>4, ReadersMove

LEMMA CollectStep ==
    ASSUME ReviewInv, NEW t \in Threads, Collect(t)
    PROVE  ReviewInv'
<1>1. Len(events) \in Nat
  BY LenProperties DEF ReviewInv, Typed
<1>2. /\ UNCHANGED <<status, events, reviews, board, goal, attempt, answer>>
      /\ \A u \in Threads \ {t} : Still(u)
      /\ pc'[t] = "number" /\ bundle'[t] = Len(events)
      /\ pc' \in [Threads -> Labels] /\ bundle' \in [Threads -> Nat]
  BY <1>1 DEF Collect, rows, ReviewInv, Typed, Still, Labels
<1>3. Typed'
  BY <1>2 DEF ReviewInv, Typed
<1>4. ThreadInv(t)' /\ pc'[t] \notin HoldLabels
  BY <1>1, <1>2 DEF ThreadInv, HoldLabels
<1> QED
  BY <1>2, <1>3, <1>4, ReadersMove DEF rows

LEMMA NumberStep ==
    ASSUME ReviewInv, NEW t \in Threads, Number(t)
    PROVE  ReviewInv'
<1>1. Len(reviews) \in Nat
  BY LenProperties DEF ReviewInv, Typed
<1>2. /\ UNCHANGED <<status, events, reviews, board, goal, bundle, answer>>
      /\ \A u \in Threads \ {t} : Still(u)
      /\ pc[t] = "number" /\ pc'[t] = "open"
      /\ pc' \in [Threads -> Labels] /\ attempt' \in [Threads -> Nat]
  BY <1>1 DEF Number, rows, ReviewInv, Typed, Still, Labels
<1>3. Typed'
  BY <1>2 DEF ReviewInv, Typed
<1>4. ThreadInv(t)
  BY DEF ReviewInv
<1>5. ThreadInv(t)' /\ pc'[t] \notin HoldLabels
  BY <1>2, <1>4 DEF ThreadInv, HoldLabels
<1> QED
  BY <1>2, <1>3, <1>5, ReadersMove DEF rows

LEMMA AskStep ==
    ASSUME ReviewInv, NEW t \in Threads, Ask(t)
    PROVE  ReviewInv'
<1>1. PICK a \in Answers : answer'[t].verdict = a.verdict
  BY DEF Ask, ReviewInv, Typed
<1>2. a.verdict \in Verdicts
  BY AnswersAssumption
<1>3. /\ UNCHANGED <<status, events, reviews, board, goal, bundle, attempt>>
      /\ \A u \in Threads \ {t} : Still(u)
      /\ pc[t] = "ask" /\ pc'[t] = "record"
      /\ pc' \in [Threads -> Labels] /\ DOMAIN answer' = Threads
  BY DEF Ask, rows, ReviewInv, Typed, Still, Labels, HoldLabels
<1>4. Typed'
  BY <1>3 DEF ReviewInv, Typed
<1>5. ThreadInv(t)
  BY DEF ReviewInv
<1>6. ThreadInv(t)'
  BY <1>1, <1>2, <1>3, <1>5 DEF ThreadInv, HoldLabels
<1>7. pc[t] \in HoldLabels /\ attempt'[t] = attempt[t]
  BY <1>3 DEF HoldLabels
<1> QED
  BY <1>3, <1>4, <1>6, <1>7, ReadersMove DEF rows

LEMMA FileFailsStep ==
    ASSUME ReviewInv, NEW t \in Threads, FileFails(t)
    PROVE  ReviewInv'
BY LeaveStep DEF FileFails, Throw

LEMMA CrashStep ==
    ASSUME ReviewInv, Crash
    PROVE  ReviewInv'
<1>1. UNCHANGED <<status, events, reviews, board>>
  BY DEF Crash, rows
<1>2. \A t \in Threads : pc'[t] \in {"idle", "down"}
  BY DEF Crash
<1>3. Typed'
  BY <1>1 DEF Crash, ReviewInv, Typed, Labels
<1>4. RowsInv'
  BY <1>1 DEF ReviewInv, RowsInv, RowOK, Opinion
<1>5. Apart' /\ \A t \in Threads : ThreadInv(t)'
  BY <1>2 DEF Apart, ThreadInv, HoldLabels
<1> QED
  BY <1>3, <1>4, <1>5 DEF ReviewInv

-----------------------------------------------------------------------------
(* Steps that write. *)

\* New events, taken from a set, follow those that were there.
Logged(New) ==
    /\ \E E : events' \in Seq(E)
    /\ Len(events) \in Nat /\ Len(events') \in Nat /\ Len(events) <= Len(events')
    /\ \A i \in DOMAIN events' :
          \/ i \in DOMAIN events /\ events'[i] = events[i]
          \/ i > Len(events) /\ events'[i] \in New

LEMMA OneEvent ==
    ASSUME Typed, NEW e, events' = Append(events, e)
    PROVE  Logged({e}) /\ Len(events') = Len(events) + 1
<1>1. PICK E : events \in Seq(E)
  BY DEF Typed
<1>2. events \in Seq(E \cup {e})
  BY <1>1, SeqMonotonic
<1> QED
  BY <1>2, AppendProperties, LenProperties DEF Logged

LEMMA TwoEvents ==
    ASSUME Typed, NEW e, NEW f, events' = events \o <<e, f>>
    PROVE  Logged({e, f})
<1>1. PICK E : events \in Seq(E)
  BY DEF Typed
<1> DEFINE F == E \cup {e, f}
<1>2. events \in Seq(F) /\ <<e, f>> \in Seq(F) /\ Len(<<e, f>>) = 2
  BY <1>1
<1> HIDE DEF F
<1>3. /\ events' \in Seq(F) /\ Len(events') = Len(events) + 2
      /\ \A i \in 1 .. Len(events) + 2 :
            events'[i] = IF i <= Len(events) THEN events[i] ELSE <<e, f>>[i - Len(events)]
  BY <1>2, ConcatProperties
<1>4. Len(events) \in Nat /\ DOMAIN events = 1 .. Len(events)
      /\ DOMAIN events' = 1 .. Len(events) + 2
  BY <1>2, <1>3, LenProperties
<1>5. ASSUME NEW i \in 1 .. Len(events) + 2, ~(i <= Len(events))
      PROVE  events'[i] \in {e, f}
  <2>1. i - Len(events) = 1 \/ i - Len(events) = 2
    BY <1>4, <1>5
  <2> QED
    BY <1>3, <1>5, <2>1
<1> QED
  BY <1>3, <1>4, <1>5 DEF Logged

LEMMA NoEvent ==
    ASSUME Typed, UNCHANGED events
    PROVE  Logged({})
BY LenProperties DEF Typed, Logged

\* A step that leaves the reviews as they are.
LEMMA SameReviews ==
    ASSUME ReviewInv, NEW t \in Threads, UNCHANGED reviews,
           NEW New, Logged(New), \A a : Started(a) \notin New,
           status' \in Outcomes \cup {"REVIEW_PENDING"},
           board' # board =>
               board' \in DOMAIN reviews /\ Opinion(reviews[board']) = "ACCEPTED",
           \A u \in Threads \ {t} : Still(u),
           Typed', ThreadInv(t)', pc'[t] \notin HoldLabels
    PROVE  ReviewInv'
<1>1. DOMAIN reviews = 1 .. Len(reviews)
  BY LenProperties DEF ReviewInv, Typed
<1>2. Grown(0)
  BY <1>1 DEF Grown, Logged
<1>3. RowsInv'
  <2>1. \A a \in DOMAIN reviews' : RowOK(reviews'[a], Len(events'))
    BY DEF ReviewInv, RowsInv, RowOK, Logged
  <2>2. board' # 0 => board' \in DOMAIN reviews /\ Opinion(reviews[board']) = "ACCEPTED"
    BY DEF ReviewInv, RowsInv
  <2>3. ASSUME NEW i \in DOMAIN events', NEW a, events'[i] = Started(a)
        PROVE  a \in DOMAIN reviews /\ reviews[a].bundle < i
    BY <2>3 DEF ReviewInv, RowsInv, Logged
  <2> QED
    BY <2>1, <2>2, <2>3 DEF RowsInv, Opinion
<1>4. \A u \in Threads : pc[u] \in HoldLabels => attempt[u] # 0
  BY <1>1 DEF ReviewInv, ThreadInv
<1> QED
  BY <1>2, <1>3, <1>4, OneMoves

LEMMA MoveStep ==
    ASSUME ReviewInv, NEW t \in Threads, Move(t)
    PROVE  ReviewInv'
<1>1. Typed /\ UNCHANGED <<reviews, board>> /\ pc[t] = "move"
      /\ goal[t] \in Outcomes \cup {"REVIEW_PENDING"}
  BY DEF Move, ReviewInv, ThreadInv
<1>2. CASE /\ status' = goal[t]
           /\ events' = IF status = goal[t] THEN events
                        ELSE Append(events, StatusChanged(goal[t]))
           /\ IF goal[t] = "REVIEW_PENDING" THEN Goto(t, "verify") ELSE Return(t)
  <2>1. PICK New : Logged(New) /\ New \subseteq {StatusChanged(goal[t])}
    <3>1. CASE status = goal[t]
      BY <1>1, <1>2, <3>1, NoEvent
    <3>2. CASE status # goal[t]
      BY <1>1, <1>2, <3>2, OneEvent
    <3> QED
      BY <3>1, <3>2
  <2>2. \A a : Started(a) \notin New
    <3>1. \A a : Started(a).type # StatusChanged(goal[t]).type
      BY DEF Started, StatusChanged
    <3> QED
      BY <2>1, <3>1
  <2>3. /\ \A u \in Threads \ {t} : Still(u)
        /\ Typed' /\ ThreadInv(t)' /\ pc'[t] \notin HoldLabels
    <3>1. CASE Goto(t, "verify")
      <4>1. /\ \A u \in Threads \ {t} : Still(u)
            /\ pc'[t] = "verify" /\ UNCHANGED <<goal, bundle, attempt, answer>>
            /\ pc' \in [Threads -> Labels]
        BY <1>1, <3>1, Goes DEF Labels
      <4>2. Typed'
        BY <1>1, <2>1, <4>1 DEF Typed, Logged
      <4>3. ThreadInv(t)' /\ pc'[t] \notin HoldLabels
        BY <4>1 DEF ThreadInv, HoldLabels
      <4> QED
        BY <4>1, <4>2, <4>3
    <3>2. CASE Return(t)
      <4>1. Typed'
        BY <1>1, <2>1, <3>2, Gone DEF Typed, Logged, Return
      <4> QED
        BY <1>1, <3>2, <4>1, Gone DEF Return
    <3> QED
      BY <1>2, <3>1, <3>2
  <2> QED
    BY <1>1, <1>2, <2>1, <2>2, <2>3, SameReviews
<1>3. CASE UNCHANGED <<status, events>> /\ Throw(t)
  BY <1>1, <1>3, LeaveStep DEF Throw, rows
<1> QED
  BY <1>2, <1>3 DEF Move

LEMMA AcceptStep ==
    ASSUME ReviewInv, NEW t \in Threads, Accept(t)
    PROVE  ReviewInv'
<1>1. Typed /\ UNCHANGED reviews /\ pc[t] = "accept"
      /\ attempt[t] \in DOMAIN reviews /\ Opinion(reviews[attempt[t]]) = "ACCEPTED"
  BY DEF Accept, ReviewInv, ThreadInv, HoldLabels
<1>2. CASE /\ status' = "ACCEPTED"
           /\ board' = attempt[t]
           /\ events' = events \o <<SummaryRecorded(attempt[t]), Accepted(attempt[t])>>
           /\ Return(t)
  <2> DEFINE New == {SummaryRecorded(attempt[t]), Accepted(attempt[t])}
  <2>1. Logged(New)
    BY <1>1, <1>2, TwoEvents
  <2>2. \A a : Started(a) \notin New
    <3>1. \A a : /\ Started(a).type # SummaryRecorded(attempt[t]).type
                 /\ Started(a).type # Accepted(attempt[t]).type
      BY DEF Started, SummaryRecorded, Accepted
    <3> QED
      BY <3>1
  <2> HIDE DEF New
  <2>3. Typed'
    BY <1>1, <1>2, <2>1, Gone DEF Typed, Logged, Return
  <2> QED
    BY <1>1, <1>2, <2>1, <2>2, <2>3, Gone, SameReviews DEF Return, Outcomes, Asked
<1>3. CASE UNCHANGED <<status, board, events>> /\ Throw(t)
  BY <1>1, <1>3, LeaveStep DEF Throw, rows
<1> QED
  BY <1>2, <1>3 DEF Accept

LEMMA OpenStep ==
    ASSUME ReviewInv, NEW t \in Threads, Open(t)
    PROVE  ReviewInv'
<1>1. Typed /\ ThreadInv(t) /\ UNCHANGED <<status, board>> /\ pc[t] = "open"
  BY DEF Open, ReviewInv
<1> DEFINE row == [state |-> "RUNNING", bundle |-> bundle[t], output |-> NoAnswer]
<1>2. CASE /\ attempt[t] = Len(reviews) + 1
           /\ reviews' = Append(reviews, row)
           /\ events' = Append(events, Started(attempt[t]))
           /\ Goto(t, "ask")
  <2>1. PICK R : reviews \in Seq(R)
    BY <1>1 DEF Typed
  <2>2. row.bundle \in Nat /\ row.bundle <= Len(events) /\ row.state = "RUNNING"
        /\ DOMAIN row = {"state", "bundle", "output"}
    BY <1>1 DEF ThreadInv, Typed
  <2> HIDE DEF row
  <2>3. reviews \in Seq(R \cup {row})
    BY <2>1, SeqMonotonic
  <2>4. /\ reviews' \in Seq(R \cup {row})
        /\ DOMAIN reviews = 1 .. Len(reviews) /\ Len(reviews) \in Nat
        /\ DOMAIN reviews' = DOMAIN reviews \cup {attempt[t]}
        /\ \A b \in DOMAIN reviews : reviews'[b] = reviews[b]
        /\ reviews'[attempt[t]] = row
        /\ attempt[t] \notin DOMAIN reviews
    BY <1>2, <2>3, AppendProperties, LenProperties
  <2>5. Logged({Started(attempt[t])}) /\ Len(events') = Len(events) + 1
    BY <1>1, <1>2, OneEvent
  <2>6. /\ \A u \in Threads \ {t} : Still(u)
        /\ pc'[t] = "ask" /\ UNCHANGED <<goal, bundle, attempt, answer>>
        /\ pc' \in [Threads -> Labels]
    BY <1>1, <1>2, Goes DEF Labels, HoldLabels
  <2>7. Grown(attempt[t])
    BY <2>4, <2>5 DEF Grown, Logged
  <2>8. Typed'
    BY <1>1, <2>4, <2>5, <2>6 DEF Typed, Logged
  <2>9. \A u \in Threads : pc[u] \in HoldLabels => attempt[u] # attempt[t]
    BY <2>4 DEF ReviewInv, ThreadInv
  <2>10. ThreadInv(t)'
    <3>1. row.bundle = bundle[t]
      BY DEF row
    <3> QED
      BY <2>2, <2>4, <2>6, <3>1 DEF ThreadInv, HoldLabels
  <2>11. RowsInv'
    <3>1. \A a \in DOMAIN reviews' : RowOK(reviews'[a], Len(events'))
      BY <2>2, <2>4, <2>5 DEF ReviewInv, RowsInv, RowOK, Logged
    <3>2. board # 0 => board \in DOMAIN reviews' /\ Opinion(reviews'[board]) = "ACCEPTED"
      BY <2>4 DEF ReviewInv, RowsInv
    <3>3. ASSUME NEW i \in DOMAIN events', NEW a, events'[i] = Started(a)
          PROVE  a \in DOMAIN reviews' /\ reviews'[a].bundle < i
      <4>1. CASE i \in DOMAIN events /\ events'[i] = events[i]
        BY <2>4, <3>3, <4>1 DEF ReviewInv, RowsInv
      <4>2. CASE i > Len(events) /\ events'[i] = Started(attempt[t])
        <5>1. Started(a).attempt = Started(attempt[t]).attempt
          BY <3>3, <4>2
        <5>2. a = attempt[t]
          BY <5>1 DEF Started
        <5>3. i \in Nat /\ Len(events) \in Nat
          BY <1>1, <2>8, LenProperties DEF Typed
        <5> QED
          BY <2>2, <2>4, <4>2, <5>2, <5>3
      <4> QED
        BY <2>5, <4>1, <4>2 DEF Logged
    <3>4. UNCHANGED <<status, board>>
      BY <1>1
    <3> QED
      BY <3>1, <3>2, <3>3, <3>4 DEF ReviewInv, RowsInv, Opinion
  <2> QED
    BY <2>6, <2>7, <2>8, <2>9, <2>10, <2>11, OneMoves
<1>3. CASE UNCHANGED <<reviews, events>> /\ Throw(t)
  BY <1>1, <1>3, LeaveStep DEF Throw, rows
<1> QED
  BY <1>2, <1>3 DEF Open

\* An attempt ends, with or without an output: its row gets the opinion the thread acts upon.
LEMMA EndStep ==
    ASSUME ReviewInv, NEW t \in Threads, pc[t] \in {"ask", "record"},
           UNCHANGED <<status, board>>,
           NEW row, reviews' = [reviews EXCEPT ![attempt[t]] = row],
           DOMAIN row = {"state", "bundle", "output"},
           row.state \in {"BLOCKED", "COMPLETED"},
           row.bundle = bundle[t],
           row.state = "COMPLETED" => row.output.verdict \in Verdicts,
           NEW e, events' = Append(events, e), \A a : e # Started(a),
           \/ Goto(t, "accept") /\ Opinion(row) = "ACCEPTED"
           \/ Request(t, Opinion(row)) /\ Opinion(row) \in Asked
    PROVE  ReviewInv'
<1>1. /\ Typed /\ ThreadInv(t) /\ pc[t] \in HoldLabels
      /\ attempt[t] \in DOMAIN reviews
      /\ reviews[attempt[t]].bundle = bundle[t]
      /\ reviews[attempt[t]].state = "RUNNING"
  BY DEF ReviewInv, ThreadInv, HoldLabels
<1>2. PICK R : reviews \in Seq(R)
  BY <1>1 DEF Typed
<1>3. /\ reviews' \in Seq(R \cup {row})
      /\ DOMAIN reviews' = DOMAIN reviews
      /\ \A b \in DOMAIN reviews : b # attempt[t] => reviews'[b] = reviews[b]
      /\ reviews'[attempt[t]] = row
  <2>1. reviews \in Seq(R \cup {row})
    BY <1>2, SeqMonotonic
  <2> QED
    BY <1>1, <2>1, ExceptSeq
<1>4. Logged({e})
  BY <1>1, OneEvent
<1>5. Grown(attempt[t])
  BY <1>1, <1>3, <1>4 DEF Grown, Logged, Opinion
<1>6. /\ \A u \in Threads \ {t} : Still(u)
      /\ UNCHANGED <<bundle, attempt, answer>>
      /\ pc' \in [Threads -> Labels]
      /\ goal' \in [Threads -> Outcomes \cup {"REVIEW_PENDING", NoGoal}]
      /\ \/ pc'[t] = "accept" /\ Opinion(row) = "ACCEPTED"
         \/ pc'[t] = "move" /\ goal'[t] = Opinion(row) /\ goal'[t] \in Asked
  <2>1. CASE Goto(t, "accept") /\ Opinion(row) = "ACCEPTED"
    BY <1>1, <2>1, Goes DEF Labels, HoldLabels, Typed
  <2>2. CASE Request(t, Opinion(row)) /\ Opinion(row) \in Asked
    BY <1>1, <2>2, Asks DEF Outcomes
  <2> QED
    BY <2>1, <2>2
<1>7. Typed'
  BY <1>1, <1>3, <1>4, <1>6 DEF Typed, Logged
<1>8. \A u \in Threads \ {t} : pc[u] \in HoldLabels => attempt[u] # attempt[t]
  BY <1>1 DEF ReviewInv, Apart
<1>9. ThreadInv(t)'
  <2>1. /\ attempt'[t] = attempt[t] /\ bundle'[t] = bundle[t]
        /\ reviews'[attempt[t]] = row /\ attempt[t] \in DOMAIN reviews'
    BY <1>1, <1>3, <1>6
  <2>2. CASE pc'[t] = "accept" /\ Opinion(row) = "ACCEPTED"
    BY <2>1, <2>2 DEF ThreadInv, HoldLabels, Opinion
  <2>3. CASE pc'[t] = "move" /\ goal'[t] = Opinion(row) /\ goal'[t] \in Asked
    BY <2>1, <2>3 DEF ThreadInv, HoldLabels, Outcomes, Opinion
  <2> QED
    BY <1>6, <2>2, <2>3
<1>10. RowsInv'
  <2>1. \A a \in DOMAIN reviews' : RowOK(reviews'[a], Len(events'))
    <3>1. ASSUME NEW a \in DOMAIN reviews PROVE RowOK(reviews'[a], Len(events'))
      <4>1. RowOK(reviews[a], Len(events))
        BY DEF ReviewInv, RowsInv
      <4>2. CASE a = attempt[t]
        BY <1>1, <1>3, <1>4, <4>1, <4>2 DEF RowOK, Logged
      <4>3. CASE a # attempt[t]
        BY <1>3, <1>4, <4>1, <4>3 DEF RowOK, Logged
      <4> QED
        BY <4>2, <4>3
    <3> QED
      BY <1>3, <3>1
  <2>2. board # 0 => board \in DOMAIN reviews' /\ Opinion(reviews'[board]) = "ACCEPTED"
    <3>1. Opinion(reviews[attempt[t]]) = "none"
      BY <1>1 DEF Opinion
    <3> QED
      BY <1>3, <3>1 DEF ReviewInv, RowsInv
  <2>3. \A a \in DOMAIN reviews : reviews'[a].bundle = reviews[a].bundle
    BY <1>1, <1>3
  <2>4. ASSUME NEW i \in DOMAIN events', NEW a, events'[i] = Started(a)
        PROVE  a \in DOMAIN reviews' /\ reviews'[a].bundle < i
    BY <1>3, <1>4, <2>3, <2>4 DEF ReviewInv, RowsInv, Logged
  <2> QED
    BY <2>1, <2>2, <2>4 DEF ReviewInv, RowsInv, Opinion
<1>11. pc'[t] \in HoldLabels =>
           \A u \in Threads \ {t} : pc[u] \in HoldLabels => attempt[u] # attempt'[t]
  BY <1>6, <1>8
<1> QED
  BY <1>5, <1>6, <1>7, <1>8, <1>9, <1>10, <1>11, OneMoves

LEMMA AskFailsStep ==
    ASSUME ReviewInv, NEW t \in Threads, AskFails(t)
    PROVE  ReviewInv'
<1>1. /\ pc[t] = "ask" /\ attempt[t] \in DOMAIN reviews
      /\ RowOK(reviews[attempt[t]], Len(events))
      /\ reviews[attempt[t]].bundle = bundle[t]
  BY DEF AskFails, ReviewInv, ThreadInv, RowsInv, HoldLabels
<1> DEFINE row == [reviews[attempt[t]] EXCEPT !.state = "BLOCKED"]
<1>2. reviews' = [reviews EXCEPT ![attempt[t]] = row]
  BY DEF AskFails
<1>3. /\ DOMAIN row = {"state", "bundle", "output"}
      /\ row.state = "BLOCKED" /\ row.bundle = bundle[t]
  BY <1>1 DEF RowOK
<1>4. Opinion(row) = "REVIEW_BLOCKED"
  BY <1>3 DEF Opinion
<1> HIDE DEF row
<1>5. events' = Append(events, Blocked(attempt[t])) /\ Request(t, Opinion(row))
      /\ UNCHANGED <<status, board>> /\ Opinion(row) \in Asked
  BY <1>4 DEF AskFails, Asked
<1>6. \A a : Blocked(attempt[t]) # Started(a)
  <2>1. \A a : Blocked(attempt[t]).type # Started(a).type
    BY DEF Blocked, Started
  <2> QED
    BY <2>1
<1> QED
  BY <1>1, <1>2, <1>3, <1>5, <1>6, EndStep

LEMMA RecordStep ==
    ASSUME ReviewInv, NEW t \in Threads, Record(t)
    PROVE  ReviewInv'
<1> DEFINE asked == Judgement(answer[t], bundle[t], Allowed(bundle[t]))
           state == IF asked = "REVIEW_BLOCKED" THEN "BLOCKED" ELSE "COMPLETED"
           row == [reviews[attempt[t]] EXCEPT !.state = state, !.output = answer[t]]
<1>1. /\ pc[t] = "record" /\ attempt[t] \in DOMAIN reviews
      /\ RowOK(reviews[attempt[t]], Len(events))
      /\ reviews[attempt[t]].bundle = bundle[t]
      /\ answer[t].verdict \in Verdicts
  BY DEF Record, ReviewInv, ThreadInv, RowsInv, HoldLabels
<1>2. reviews' = [reviews EXCEPT ![attempt[t]] = row]
  BY DEF Record
<1>3. /\ DOMAIN row = {"state", "bundle", "output"}
      /\ row.state = state /\ row.bundle = bundle[t] /\ row.output = answer[t]
  BY <1>1 DEF RowOK
<1>4. asked \in Asked
  BY JudgementAsked
<1>5. events' = Append(events, OutputReceived(attempt[t])) /\ UNCHANGED <<status, board>>
      /\ IF asked = "ACCEPTED" THEN Goto(t, "accept") ELSE Request(t, asked)
  BY DEF Record
<1>6. Opinion(row) = asked
  <2> HIDE DEF row
  <2>1. CASE asked = "REVIEW_BLOCKED"
    BY <1>3, <2>1 DEF Opinion
  <2>2. CASE asked # "REVIEW_BLOCKED"
    BY <1>3, <2>2 DEF Opinion
  <2> QED
    BY <2>1, <2>2
<1>7. \A a : OutputReceived(attempt[t]) # Started(a)
  <2>1. \A a : OutputReceived(attempt[t]).type # Started(a).type
    BY DEF OutputReceived, Started
  <2> QED
    BY <2>1
<1>8. state \in {"BLOCKED", "COMPLETED"}
  OBVIOUS
<1> HIDE DEF row, asked, state
<1> QED
  BY <1>1, <1>2, <1>3, <1>4, <1>5, <1>6, <1>7, <1>8, EndStep

-----------------------------------------------------------------------------
(* The invariant holds. *)

LEMMA StepStep ==
    ASSUME ReviewInv, NEW t \in Threads, Step(t)
    PROVE  ReviewInv'
<1>1. CASE PreReviewVerify(t)
  BY <1>1, GotoStep, RequestStep DEF PreReviewVerify
<1> QED
  BY <1>1, MoveStep, CollectStep, NumberStep, OpenStep, AskStep, AskFailsStep, RecordStep,
     AcceptStep DEF Step

LEMMA StutterStep ==
    ASSUME ReviewInv, UNCHANGED vars
    PROVE  ReviewInv'
<1>1. UNCHANGED <<status, events, reviews, board, pc, goal, bundle, attempt, answer>>
  BY DEF vars, rows, frames
<1>2. Typed'
  BY <1>1 DEF ReviewInv, Typed
<1>3. RowsInv'
  BY <1>1 DEF ReviewInv, RowsInv, RowOK, Opinion
<1>4. DOMAIN reviews = 1 .. Len(reviews) /\ Grown(0)
  BY <1>1, LenProperties DEF ReviewInv, Typed, Grown
<1>5. \A t \in Threads : ThreadInv(t)'
  <2> TAKE t \in Threads
  <2>1. Still(t) /\ (pc[t] \in HoldLabels => attempt[t] # 0)
    BY <1>1, <1>4 DEF Still, ReviewInv, ThreadInv
  <2> QED
    BY <1>4, <2>1, OthersKeep DEF ReviewInv
<1>6. Apart'
  BY <1>1 DEF ReviewInv, Apart
<1> QED
  BY <1>2, <1>3, <1>5, <1>6 DEF ReviewInv

LEMMA NextStep ==
    ASSUME ReviewInv, [Next]_vars
    PROVE  ReviewInv'
<1>1. CASE \E t \in Threads : Step(t) \/ FileFails(t)
  BY <1>1, StepStep, FileFailsStep
<1>2. CASE \E r \in Retriers : RetryRequest(r)
  BY <1>2, RequestStep DEF RetryRequest, Threads
<1>3. CASE Recover
  BY <1>3, GotoStep DEF Recover, Threads
<1> QED
  BY <1>1, <1>2, <1>3, CrashStep, StutterStep DEF Next

LEMMA InitInv ==
    ASSUME Init
    PROVE  ReviewInv
<1>1. events \in Seq({StatusChanged("REVIEW_PENDING")}) /\ reviews \in Seq({})
      /\ DOMAIN reviews = {} /\ DOMAIN events = {1}
      /\ events[1] = StatusChanged("REVIEW_PENDING")
  BY EmptySeq DEF Init
<1>2. Typed
  BY <1>1 DEF Init, Typed, Labels
<1>3. \A a : Started(a) # StatusChanged("REVIEW_PENDING")
  <2>1. \A a : Started(a).type # StatusChanged("REVIEW_PENDING").type
    BY DEF Started, StatusChanged
  <2> QED
    BY <2>1
<1>4. RowsInv
  BY <1>1, <1>3 DEF Init, RowsInv
<1>5. \A t \in Threads : pc[t] \in {"serving", "verify", "idle"}
  BY DEF Init
<1> QED
  BY <1>2, <1>4, <1>5 DEF ReviewInv, Apart, ThreadInv, HoldLabels

\* What a thread knows of the row it works on stays true whatever the others do: of an
\* experiment's attempts each is in the hands of at most one thread, a row has no
\* opinion until its thread records one, and every transition a thread asks for is the
\* opinion of a row on record.
THEOREM ReviewInvariant == Spec => []ReviewInv
<1>1. Init => ReviewInv
  BY InitInv
<1>2. ReviewInv /\ [Next]_vars => ReviewInv'
  BY NextStep
<1> QED
  BY <1>1, <1>2, PTL DEF Spec

\* Types; in particular a thread at work on an attempt has its row.
THEOREM ReviewTypes == Spec => []TypeOK
<1>1. ReviewInv => TypeOK
  <2> SUFFICES ASSUME ReviewInv PROVE TypeOK
    OBVIOUS
  <2>1. Len(reviews) \in Nat /\ DOMAIN reviews = 1 .. Len(reviews)
    BY LenProperties DEF ReviewInv, Typed
  <2>2. status \in Statuses /\ board \in 0 .. Len(reviews)
    BY <2>1 DEF ReviewInv, RowsInv, Statuses, Outcomes, Asked
  <2>3. \A a \in DOMAIN reviews : /\ reviews[a].state \in {"RUNNING", "BLOCKED", "COMPLETED"}
                                 /\ reviews[a].bundle < Len(events)
    BY DEF ReviewInv, RowsInv, RowOK
  <2>4. \A t \in Threads : pc[t] \in HoldLabels => attempt[t] \in DOMAIN reviews
    BY DEF ReviewInv, ThreadInv
  <2>5. goal \in [Threads -> Statuses \cup {NoGoal}]
    BY DEF ReviewInv, Typed, Statuses, Outcomes, Asked
  <2> QED
    BY <2>2, <2>3, <2>4, <2>5 DEF TypeOK, ReviewInv, Typed
<1> QED
  BY <1>1, ReviewInvariant, PTL

-----------------------------------------------------------------------------
(* What an acceptance rests on. *)

\* Whatever is on the leaderboard rests on one completed review that models.py's
\* definition of a valid review accepts for its own bundle, which was collected before
\* the attempt began.
THEOREM AcceptanceRestsOnReview == Spec => []AcceptanceRests
<1>1. ReviewInv => AcceptanceRests
  <2> SUFFICES ASSUME ReviewInv, board # 0 PROVE AcceptanceRests
    BY DEF AcceptanceRests
  <2> DEFINE r == reviews[board]
  <2>1. /\ board \in DOMAIN reviews /\ Opinion(r) = "ACCEPTED" /\ RowOK(r, Len(events))
    BY DEF ReviewInv, RowsInv
  <2>2. \A i \in At(Started(board)) : r.bundle < i
    BY <2>1 DEF ReviewInv, RowsInv, At
  <2>3. r.state = "COMPLETED" /\ Judgement(r.output, r.bundle, Allowed(r.bundle)) = "ACCEPTED"
    BY <2>1 DEF Opinion, RowOK
  <2>4. Valid(r.output, r.bundle, Allowed(r.bundle))
    BY <2>1, <2>3, JudgementIsValidity DEF RowOK
  <2> QED
    BY <2>2, <2>3, <2>4 DEF AcceptanceRests
<1> QED
  BY <1>1, ReviewInvariant, PTL

-----------------------------------------------------------------------------
(* Who is at work. *)

\* A row is RUNNING while a thread has its attempt in hand, unless a crash or a file
\* that could not be written took it away.
RunningHeld ==
    crashes = 0 /\ errors = 0 =>
        \A a \in DOMAIN reviews : reviews[a].state = "RUNNING" =>
            \E t \in Threads : pc[t] \in {"ask", "record"} /\ attempt[t] = a

\* A thread whose steps lead to a transition. One at "open" whose number is taken is
\* not: its next step fails.
Busy(t) ==
    \/ pc[t] \in {"verify", "collect", "number", "move"} \cup HoldLabels
    \/ pc[t] = "open" /\ attempt[t] = Len(reviews) + 1

PendingHeld ==
    Serving /\ status = "REVIEW_PENDING" /\ errors = 0 =>
        \E t \in Threads \ {Main} : Busy(t)

HeldInv == crashes \in Nat /\ errors \in Nat /\ RunningHeld /\ PendingHeld

\* What a step of a thread leaves in its hands.
LEMMA StepHolds ==
    ASSUME ReviewInv, NEW t \in Threads, Step(t)
    PROVE  /\ UNCHANGED bounds
           /\ \A u \in Threads \ {t} : Still(u)
           /\ status' = "REVIEW_PENDING" =>
                 /\ pc'[t] # "serving"
                 /\ Busy(t)' \/ (~Busy(t) /\ UNCHANGED <<status, reviews>>)
<1>1. UNCHANGED bounds /\ \A u \in Threads \ {t} : Still(u)
  BY DEF Step, Move, PreReviewVerify, Collect, Number, Open, Ask, AskFails, Record, Accept,
         Return, Throw, Leave, Goto, Request, ReviewInv, Typed, Still, bounds
<1>2. pc \in [Threads -> Labels] /\ attempt \in [Threads -> Nat]
  BY DEF ReviewInv, Typed
<1> SUFFICES ASSUME status' = "REVIEW_PENDING"
             PROVE  /\ pc'[t] # "serving"
                    /\ Busy(t)' \/ (~Busy(t) /\ UNCHANGED <<status, reviews>>)
  BY <1>1
<1>3. CASE Move(t)
  <2>1. goal[t] \in Outcomes \cup {"REVIEW_PENDING"}
    BY <1>3 DEF Move, ReviewInv, ThreadInv
  <2>2. CASE status' = goal[t]
             /\ IF goal[t] = "REVIEW_PENDING" THEN Goto(t, "verify") ELSE Return(t)
    BY <1>2, <2>2 DEF Goto, Busy
  <2>3. CASE goal[t] \notin AllowedTransitions[status] \cup {status} /\ UNCHANGED status
    <3>1. AllowedTransitions["REVIEW_PENDING"] = Outcomes
      BY DEF AllowedTransitions, Statuses, Outcomes, Asked
    <3> QED
      BY <2>1, <2>3, <3>1
  <2> QED
    BY <1>3, <2>2, <2>3 DEF Move
<1>4. CASE PreReviewVerify(t)
  BY <1>2, <1>4 DEF PreReviewVerify, Goto, Request, Busy
<1>5. CASE Collect(t)
  BY <1>2, <1>5 DEF Collect, Busy
<1>6. CASE Number(t)
  <2>1. pc'[t] = "open" /\ attempt'[t] = Len(reviews) + 1 /\ UNCHANGED reviews
    BY <1>2, <1>6 DEF Number, rows
  <2> QED
    BY <2>1 DEF Busy
<1>7. CASE Open(t)
  <2>1. CASE Goto(t, "ask")
    BY <1>2, <2>1 DEF Goto, Busy, HoldLabels
  <2>2. CASE attempt[t] # Len(reviews) + 1 /\ UNCHANGED reviews /\ Throw(t)
    <3>1. pc'[t] # "serving"
      BY <1>2, <2>2 DEF Throw, Leave
    <3>2. pc[t] = "open" /\ UNCHANGED status
      BY <1>7 DEF Open
    <3> QED
      BY <2>2, <3>1, <3>2 DEF Busy, HoldLabels
  <2> QED
    BY <1>7, <2>1, <2>2 DEF Open
<1>8. CASE Ask(t)
  BY <1>2, <1>8 DEF Ask, Busy, HoldLabels
<1>9. CASE AskFails(t)
  BY <1>2, <1>9 DEF AskFails, Request, Busy
<1>10. CASE Record(t)
  <2>1. Goto(t, "accept") \/ \E s : Request(t, s)
    BY <1>10 DEF Record
  <2> QED
    BY <1>2, <2>1 DEF Goto, Request, Busy, HoldLabels
<1>11. CASE Accept(t)
  BY <1>11 DEF Accept
<1> QED
  BY <1>3, <1>4, <1>5, <1>6, <1>7, <1>8, <1>9, <1>10, <1>11 DEF Step

LEMMA PendingStep ==
    ASSUME ReviewInv, NEW t \in Threads, Step(t), PendingHeld
    PROVE  PendingHeld'
<1> SUFFICES ASSUME Serving', status' = "REVIEW_PENDING", errors' = 0
             PROVE  \E u \in Threads \ {Main} : Busy(u)'
  BY DEF PendingHeld
<1>1. /\ pc'[t] # "serving" /\ UNCHANGED bounds
      /\ \A u \in Threads \ {t} : pc'[u] = pc[u] /\ attempt'[u] = attempt[u]
      /\ Busy(t)' \/ (~Busy(t) /\ UNCHANGED <<status, reviews>>)
  BY StepHolds DEF Still
<1>2. t # Main /\ Main \in Threads
  BY <1>1 DEF Serving, Threads
<1>3. CASE ~Busy(t) /\ UNCHANGED <<status, reviews>>
  <2>1. Serving /\ status = "REVIEW_PENDING" /\ errors = 0
    BY <1>1, <1>2, <1>3 DEF Serving, bounds
  <2>2. PICK u \in Threads \ {Main} : Busy(u)
    BY <2>1 DEF PendingHeld
  <2>3. Busy(u)'
    BY <1>1, <1>3, <2>2 DEF Busy
  <2> QED
    BY <2>3
<1> QED
  BY <1>1, <1>2, <1>3

LEMMA RunningStep ==
    ASSUME ReviewInv, NEW t \in Threads, Step(t), RunningHeld
    PROVE  RunningHeld'
<1> SUFFICES ASSUME crashes' = 0, errors' = 0, NEW a \in DOMAIN reviews',
                    reviews'[a].state = "RUNNING"
             PROVE  \E u \in Threads : pc'[u] \in {"ask", "record"} /\ attempt'[u] = a
  BY DEF RunningHeld
<1>1. /\ crashes = 0 /\ errors = 0
      /\ \A u \in Threads \ {t} : pc'[u] = pc[u] /\ attempt'[u] = attempt[u]
      /\ pc \in [Threads -> Labels] /\ attempt \in [Threads -> Nat]
  BY StepHolds DEF Still, bounds, ReviewInv, Typed
<1>2. \A b \in DOMAIN reviews : reviews[b].state = "RUNNING" =>
          \E u \in Threads : pc[u] \in {"ask", "record"} /\ attempt[u] = b
  BY <1>1 DEF RunningHeld
<1>3. CASE UNCHANGED reviews /\ pc[t] \notin {"ask", "record"}
  BY <1>1, <1>2, <1>3
<1>4. CASE Ask(t)
  <2>1. UNCHANGED <<reviews, attempt>> /\ pc'[t] = "record"
    BY <1>1, <1>4 DEF Ask, rows
  <2> QED
    BY <1>1, <1>2, <2>1
<1>5. CASE Open(t)
  <2>1. CASE reviews' = Append(reviews, [state |-> "RUNNING", bundle |-> bundle[t],
                                         output |-> NoAnswer])
             /\ attempt[t] = Len(reviews) + 1 /\ Goto(t, "ask")
    <3>1. pc'[t] = "ask" /\ attempt'[t] = attempt[t] /\ pc[t] = "open"
      BY <1>1, <1>5, <2>1 DEF Goto, Open
    <3>2. (a \in DOMAIN reviews /\ reviews'[a] = reviews[a]) \/ a = attempt[t]
      <4> DEFINE row == [state |-> "RUNNING", bundle |-> bundle[t], output |-> NoAnswer]
      <4>1. PICK R : reviews \in Seq(R)
        BY DEF ReviewInv, Typed
      <4>2. reviews \in Seq(R \cup {row})
        BY <4>1, SeqMonotonic
      <4>3. reviews' = Append(reviews, row)
        BY <2>1
      <4> HIDE DEF row
      <4> QED
        BY <2>1, <4>2, <4>3, AppendProperties, LenProperties
    <3>3. ASSUME a \in DOMAIN reviews, reviews'[a] = reviews[a]
          PROVE  \E u \in Threads : pc'[u] \in {"ask", "record"} /\ attempt'[u] = a
      BY <1>1, <1>2, <3>1, <3>3
    <3> QED
      BY <3>1, <3>2, <3>3
  <2>2. CASE UNCHANGED reviews
    BY <1>1, <1>2, <1>5, <2>2 DEF Open
  <2> QED
    BY <1>5, <2>1, <2>2 DEF Open
<1>6. CASE \/ AskFails(t) \/ Record(t)
  <2>1. /\ attempt[t] \in DOMAIN reviews /\ DOMAIN reviews[attempt[t]] = {"state", "bundle", "output"}
    BY <1>6 DEF AskFails, Record, ReviewInv, ThreadInv, HoldLabels, RowsInv, RowOK
  <2>2. /\ DOMAIN reviews' = DOMAIN reviews
        /\ \A b \in DOMAIN reviews : b # attempt[t] => reviews'[b] = reviews[b]
    BY <1>6 DEF AskFails, Record
  <2>3. reviews'[attempt[t]].state # "RUNNING"
    BY <1>6, <2>1 DEF AskFails, Record
  <2>4. a # attempt[t] /\ reviews[a].state = "RUNNING" /\ a \in DOMAIN reviews
    BY <2>2, <2>3
  <2> QED
    BY <1>1, <1>2, <2>4
<1> QED
  BY <1>3, <1>4, <1>5, <1>6
  DEF Step, Move, PreReviewVerify, Collect, Number, Accept, rows

LEMMA HeldStep ==
    ASSUME ReviewInv, HeldInv, [Next]_vars
    PROVE  HeldInv'
<1> USE DEF HeldInv
<1>1. CASE \E t \in Threads : Step(t)
  <2>1. PICK t \in Threads : Step(t)
    BY <1>1
  <2>2. UNCHANGED bounds
    BY <2>1, StepHolds
  <2> QED
    BY <2>1, <2>2, PendingStep, RunningStep DEF bounds
<1>2. CASE \E t \in Threads : FileFails(t)
  BY <1>2 DEF FileFails, RunningHeld, PendingHeld
<1>3. CASE \E r \in Retriers : RetryRequest(r)
  <2>1. PICK r \in Retriers : RetryRequest(r)
    BY <1>3
  <2>2. /\ UNCHANGED <<status, reviews, attempt, crashes, errors>>
        /\ pc[r] = "idle" /\ pc' = [pc EXCEPT ![r] = "move"]
        /\ pc \in [Threads -> Labels]
    BY <2>1 DEF RetryRequest, Request, rows, ReviewInv, Typed
  <2>3. r \in Threads \ {Main}
    BY ThreadsDiffer DEF Threads
  <2>4. pc'[r] = "move" /\ \A t \in Threads \ {r} : pc'[t] = pc[t]
    BY <2>2, <2>3
  <2>5. PendingHeld'
    BY <2>3, <2>4 DEF PendingHeld, Busy
  <2>6. RunningHeld'
    BY <2>2, <2>4 DEF RunningHeld
  <2> QED
    BY <2>2, <2>5, <2>6
<1>4. CASE Recover
  <2>1. /\ UNCHANGED <<status, reviews, attempt, crashes, errors>>
        /\ pc \in [Threads -> Labels] /\ Main \in Threads
        /\ pc[Main] = "down"
        /\ pc' = [pc EXCEPT ![Main] = IF status = "REVIEW_PENDING" THEN "verify" ELSE "serving"]
    BY <1>4 DEF Recover, Goto, rows, bounds, ReviewInv, Typed, Threads
  <2>2. PendingHeld'
    BY <2>1 DEF PendingHeld, Serving
  <2>3. RunningHeld'
    BY <2>1 DEF RunningHeld
  <2> QED
    BY <2>1, <2>2, <2>3
<1>5. CASE Crash
  BY <1>5 DEF Crash, RunningHeld, PendingHeld, Serving, Threads
<1>6. CASE UNCHANGED vars
  <2>1. UNCHANGED <<status, reviews, pc, attempt, crashes, errors>>
    BY <1>6 DEF vars, rows, frames, bounds
  <2>2. RunningHeld'
    BY <2>1 DEF RunningHeld
  <2>3. PendingHeld'
    BY <2>1 DEF PendingHeld, Serving, Busy
  <2> QED
    BY <2>1, <2>2, <2>3
<1> QED
  BY <1>1, <1>2, <1>3, <1>4, <1>5, <1>6 DEF Next

LEMMA HeldInvariant == Spec => [](ReviewInv /\ HeldInv)
<1>1. Init => HeldInv
  <2> SUFFICES ASSUME Init PROVE HeldInv
    OBVIOUS
  <2>1. Worker \in Threads \ {Main} /\ pc[Worker] = "verify"
    BY ThreadsDiffer DEF Init, Threads
  <2>2. DOMAIN reviews = {}
    BY DEF Init
  <2> QED
    BY <2>1, <2>2 DEF Init, HeldInv, RunningHeld, PendingHeld, Busy
<1>2. Init => ReviewInv
  BY InitInv
<1>3. ReviewInv /\ HeldInv /\ [Next]_vars => (ReviewInv /\ HeldInv)'
  BY NextStep, HeldStep
<1> QED
  BY <1>1, <1>2, <1>3, PTL DEF Spec

\* However many reviews overlap and whichever of them fail, no two threads ever work on
\* one attempt, and an attempt without an ending is being worked on, or was cut off.
THEOREM AttemptsStayHeld == Spec => []AttemptsAreHeld
<1>1. ReviewInv /\ HeldInv => AttemptsAreHeld
  <2> SUFFICES ASSUME ReviewInv, HeldInv, NEW a \in DOMAIN reviews
               PROVE  /\ Cardinality(Holders(a)) <= 1
                      /\ reviews[a].state = "RUNNING" /\ crashes = 0 /\ errors = 0
                            => Holders(a) # {}
    BY DEF AttemptsAreHeld
  <2>1. Cardinality(Holders(a)) <= 1
    <3>1. CASE Holders(a) = {}
      BY <3>1, FS_EmptySet
    <3>2. CASE Holders(a) # {}
      <4>1. PICK t : t \in Holders(a)
        BY <3>2
      <4>2. Holders(a) = {t}
        BY <4>1 DEF ReviewInv, Apart, Holders
      <4> QED
        BY <4>2, FS_Singleton
    <3> QED
      BY <3>1, <3>2
  <2>2. reviews[a].state = "RUNNING" /\ crashes = 0 /\ errors = 0 => Holders(a) # {}
    BY DEF HeldInv, RunningHeld, Holders, HoldLabels
  <2> QED
    BY <2>1, <2>2
<1> QED
  BY <1>1, HeldInvariant, PTL

\* While the service runs and every file can be read and written, a pending review is in
\* the hands of a thread other than the one that serves, however many retries lose their
\* attempt.
THEOREM PendingStaysHeld == Spec => []PendingIsHeld
<1>1. ReviewInv /\ HeldInv => PendingIsHeld
  BY DEF HeldInv, PendingHeld, PendingIsHeld, Busy, HoldLabels
<1> QED
  BY <1>1, HeldInvariant, PTL

-----------------------------------------------------------------------------
(* The threads implement the docket. *)

Opinions == [a \in DOMAIN reviews |-> Opinion(reviews[a])]

LEMMA OpinionsAreASequence ==
    ASSUME ReviewInv
    PROVE  Opinions \in Seq(Asked \cup {"none"}) /\ Len(Opinions) = Len(reviews)
<1>1. Len(reviews) \in Nat /\ DOMAIN reviews = 1 .. Len(reviews)
  BY LenProperties DEF ReviewInv, Typed
<1>2. ASSUME NEW a \in DOMAIN reviews PROVE Opinion(reviews[a]) \in Asked \cup {"none"}
  <2>1. RowOK(reviews[a], Len(events))
    BY DEF ReviewInv, RowsInv
  <2>2. CASE reviews[a].state = "COMPLETED"
    BY <2>2, JudgementAsked DEF Opinion
  <2> QED
    BY <2>1, <2>2 DEF RowOK, Opinion, Asked
<1>3. Opinions \in [1 .. Len(reviews) -> Asked \cup {"none"}]
  BY <1>1, <1>2 DEF Opinions
<1> QED
  BY <1>1, <1>3

LEMMA DocketInit == Init => Promise!Init
<1> SUFFICES ASSUME Init PROVE Promise!Init
  OBVIOUS
<1>1. DOMAIN reviews = {}
  BY DEF Init
<1>2. [a \in DOMAIN reviews |-> Opinion(reviews[a])] = <<>>
  BY <1>1
<1> QED
  BY <1>2 DEF Init, Promise!Init

LEMMA DocketOpen ==
    ASSUME ReviewInv, ReviewInv', NEW t \in Threads, Open(t)
    PROVE  [Promise!Next]_(Promise!vars)
<1>1. CASE /\ attempt[t] = Len(reviews) + 1
           /\ reviews' = Append(reviews, [state |-> "RUNNING", bundle |-> bundle[t],
                                          output |-> NoAnswer])
  <2> DEFINE row == [state |-> "RUNNING", bundle |-> bundle[t], output |-> NoAnswer]
  <2>1. Opinion(row) = "none"
    BY DEF Opinion
  <2>2. reviews' = Append(reviews, row)
    BY <1>1
  <2> HIDE DEF row
  <2>3. PICK R : reviews \in Seq(R)
    BY DEF ReviewInv, Typed
  <2>4. reviews \in Seq(R \cup {row})
    BY <2>3, SeqMonotonic
  <2>5. /\ Len(reviews) \in Nat /\ DOMAIN reviews = 1 .. Len(reviews)
        /\ DOMAIN reviews' = 1 .. Len(reviews) + 1 /\ Len(reviews') = Len(reviews) + 1
        /\ \A b \in DOMAIN reviews : reviews'[b] = reviews[b]
        /\ reviews'[Len(reviews) + 1] = row
    BY <2>2, <2>4, AppendProperties, LenProperties
  <2>6. /\ Opinions \in Seq(Asked \cup {"none"}) /\ Len(Opinions) = Len(reviews)
        /\ Opinions' \in Seq(Asked \cup {"none"}) /\ Len(Opinions') = Len(reviews')
    <3>1. (Opinions \in Seq(Asked \cup {"none"}) /\ Len(Opinions) = Len(reviews))'
      BY OpinionsAreASequence, PTL
    <3> QED
      BY <3>1, OpinionsAreASequence
  <2>7. \A b \in DOMAIN reviews' :
            Opinions'[b] = IF b \in DOMAIN reviews THEN Opinions[b] ELSE "none"
    BY <2>1, <2>5 DEF Opinions
  <2>8. Opinions' = Append(Opinions, "none")
    BY <2>5, <2>6, <2>7, AppendProperties, SeqEqual
  <2>9. Promise!Attempt
    BY <2>8 DEF Open, Promise!Attempt, Opinions
  <2> QED
    BY <2>9 DEF Promise!Next
<1>2. CASE UNCHANGED reviews
  BY <1>2 DEF Open, Promise!vars
<1> QED
  BY <1>1, <1>2 DEF Open

\* An attempt that ends gives the opinion of its new row.
LEMMA DocketEnd ==
    ASSUME ReviewInv, NEW t \in Threads, pc[t] \in {"ask", "record"}, UNCHANGED status,
           NEW row, reviews' = [reviews EXCEPT ![attempt[t]] = row], Opinion(row) \in Asked
    PROVE  [Promise!Next]_(Promise!vars)
<1>1. attempt[t] \in DOMAIN reviews /\ Opinion(reviews[attempt[t]]) = "none"
  BY DEF ReviewInv, ThreadInv, HoldLabels, Opinion
<1>2. Opinions' = [Opinions EXCEPT ![attempt[t]] = Opinion(row)]
  BY <1>1 DEF Opinions
<1>3. Promise!Opine(attempt[t], Opinion(row))
  BY <1>1, <1>2 DEF Promise!Opine, Opinions
<1>4. DOMAIN [a \in DOMAIN reviews |-> Opinion(reviews[a])] = DOMAIN reviews
  OBVIOUS
<1> QED
  BY <1>1, <1>3, <1>4 DEF Promise!Next, Promise!Asked, Asked

\* A step that leaves the reviews as they are changes the status only as the docket does.
LEMMA DocketMove ==
    ASSUME ReviewInv, UNCHANGED reviews,
           \/ UNCHANGED status
           \/ /\ status' \in AllowedTransitions[status] /\ status' \in Outcomes
              /\ status' \in Asked => \E a \in DOMAIN reviews : Opinion(reviews[a]) = status'
           \/ status' \in AllowedTransitions[status] /\ status' = "REVIEW_PENDING"
    PROVE  [Promise!Next]_(Promise!vars)
<1>1. UNCHANGED [a \in DOMAIN reviews |-> Opinion(reviews[a])]
  <2>1. Opinions' = Opinions
    BY DEF Opinions
  <2> QED
    BY <2>1 DEF Opinions
<1>2. status \in Outcomes \cup {"REVIEW_PENDING"}
  BY DEF ReviewInv, RowsInv
<1>3. CASE UNCHANGED status
  BY <1>1, <1>3 DEF Promise!vars
<1>4. CASE /\ status' \in AllowedTransitions[status] /\ status' \in Outcomes
           /\ status' \in Asked => \E a \in DOMAIN reviews : Opinion(reviews[a]) = status'
  <2>1. status = "REVIEW_PENDING"
    BY <1>2, <1>4 DEF AllowedTransitions, Statuses, Outcomes, Asked
  <2>2. status' \in Asked => Promise!OnRecord(status')
    BY <1>4 DEF Promise!OnRecord
  <2>3. Promise!Settle(status')
    BY <1>1, <1>4, <2>1, <2>2 DEF Promise!Settle, Outcomes
  <2> QED
    BY <1>4, <2>3 DEF Promise!Next, Promise!Asked, Outcomes, Asked
<1>5. CASE status' \in AllowedTransitions[status] /\ status' = "REVIEW_PENDING"
  <2>1. status \in {"REVIEW_BLOCKED", "NEEDS_HUMAN"}
    BY <1>2, <1>5 DEF AllowedTransitions, Statuses, Outcomes, Asked
  <2> QED
    BY <1>1, <1>5, <2>1 DEF Promise!Next, Promise!Reopen
<1> QED
  BY <1>3, <1>4, <1>5

LEMMA DocketStep ==
    ASSUME ReviewInv, ReviewInv', NEW t \in Threads, Step(t)
    PROVE  [Promise!Next]_(Promise!vars)
<1>1. CASE Move(t)
  <2>1. /\ goal[t] \in Outcomes \cup {"REVIEW_PENDING"}
        /\ goal[t] \in Asked => \E a \in DOMAIN reviews : Opinion(reviews[a]) = goal[t]
    BY <1>1 DEF Move, ReviewInv, ThreadInv
  <2>2. /\ UNCHANGED reviews
        /\ \/ UNCHANGED status
           \/ status' \in AllowedTransitions[status] /\ status' = goal[t]
    BY <1>1 DEF Move
  <2> QED
    BY <2>1, <2>2, DocketMove
<1>2. CASE Open(t)
  BY <1>2, DocketOpen
<1>3. CASE AskFails(t)
  <2> DEFINE row == [reviews[attempt[t]] EXCEPT !.state = "BLOCKED"]
  <2>1. /\ pc[t] = "ask" /\ UNCHANGED status
        /\ reviews' = [reviews EXCEPT ![attempt[t]] = row]
    BY <1>3 DEF AskFails
  <2>2. RowOK(reviews[attempt[t]], Len(events))
    BY <2>1 DEF ReviewInv, ThreadInv, HoldLabels, RowsInv
  <2>3. row.state = "BLOCKED"
    BY <2>2 DEF RowOK
  <2> HIDE DEF row
  <2>4. Opinion(row) \in Asked
    BY <2>3 DEF Opinion, Asked
  <2> QED
    BY <2>1, <2>4, DocketEnd
<1>4. CASE Record(t)
  <2> DEFINE asked == Judgement(answer[t], bundle[t], Allowed(bundle[t]))
             state == IF asked = "REVIEW_BLOCKED" THEN "BLOCKED" ELSE "COMPLETED"
             row == [reviews[attempt[t]] EXCEPT !.state = state, !.output = answer[t]]
  <2>1. /\ pc[t] = "record" /\ UNCHANGED status
        /\ reviews' = [reviews EXCEPT ![attempt[t]] = row]
    BY <1>4 DEF Record
  <2>2. RowOK(reviews[attempt[t]], Len(events)) /\ reviews[attempt[t]].bundle = bundle[t]
    BY <2>1 DEF ReviewInv, ThreadInv, HoldLabels, RowsInv
  <2>3. row.state = state
    BY <2>2 DEF RowOK
  <2>4. state \in {"BLOCKED", "COMPLETED"}
    OBVIOUS
  <2> HIDE DEF row, state
  <2>5. Opinion(row) \in Asked
    BY <2>3, <2>4, JudgementAsked DEF Opinion, Asked
  <2> QED
    BY <2>1, <2>5, DocketEnd
<1>5. CASE Accept(t)
  <2>1. attempt[t] \in DOMAIN reviews /\ Opinion(reviews[attempt[t]]) = "ACCEPTED"
    BY <1>5 DEF Accept, ReviewInv, ThreadInv, HoldLabels
  <2>2. /\ UNCHANGED reviews
        /\ UNCHANGED status \/ (status = "REVIEW_PENDING" /\ status' = "ACCEPTED")
    BY <1>5 DEF Accept
  <2>3. "ACCEPTED" \in AllowedTransitions["REVIEW_PENDING"] /\ "ACCEPTED" \in Outcomes
    BY DEF AllowedTransitions, Statuses, Outcomes, Asked
  <2> QED
    BY <2>1, <2>2, <2>3, DocketMove
<1> QED
  BY <1>1, <1>2, <1>3, <1>4, <1>5, DocketMove
  DEF Step, PreReviewVerify, Collect, Number, Ask, rows

\* Every step of the threads is a step of Docket or none: verdict and transition are two
\* transactions, reviews overlap and may be cut off anywhere, and still the experiment is
\* settled only in the sense of a review on record, or because its files have changed.
THEOREM ReviewsImplementDocket == Spec => ImplementsDocket
<1>1. ReviewInv /\ ReviewInv' /\ [Next]_vars => [Promise!Next]_(Promise!vars)
  <2> SUFFICES ASSUME ReviewInv, ReviewInv', [Next]_vars
               PROVE  [Promise!Next]_(Promise!vars)
    OBVIOUS
  <2>1. CASE \E t \in Threads : Step(t)
    BY <2>1, DocketStep
  <2>2. CASE UNCHANGED <<status, reviews>>
    BY <2>2, DocketMove
  <2> QED
    BY <2>1, <2>2 DEF Next, FileFails, RetryRequest, Recover, Crash, vars, rows
<1> QED
  BY <1>1, DocketInit, ReviewInvariant, PTL DEF Spec, ImplementsDocket, Promise!Spec

-----------------------------------------------------------------------------
(* What the ledger tells of the rows. *)

Never(e) == At(e) = {}
Once(e) == \E i : At(e) = {i}

\* The acceptance, the status and the row of the leaderboard come together, and only
\* _accept brings them: no transition is to ACCEPTED.
AcceptanceTold ==
    /\ status = "ACCEPTED" <=> board # 0
    /\ \A t \in Threads : pc[t] = "move" => goal[t] # "ACCEPTED"
    /\ \A a : IF board # 0 /\ a = board
              THEN Once(Accepted(a)) /\ Once(SummaryRecorded(a))
              ELSE Never(Accepted(a)) /\ Never(SummaryRecorded(a))

\* Of an attempt that has not begun nothing is told, and what is told of one that has
\* is what became of its row.
RowTold(a) ==
    IF a \in DOMAIN reviews
    THEN /\ Once(Started(a))
         /\ CASE reviews[a].state = "RUNNING" ->
                    Never(Blocked(a)) /\ Never(OutputReceived(a))
              [] reviews[a].state = "BLOCKED" ->
                    \/ Once(Blocked(a)) /\ Never(OutputReceived(a))
                    \/ Never(Blocked(a)) /\ Once(OutputReceived(a))
              [] reviews[a].state = "COMPLETED" ->
                    Never(Blocked(a)) /\ Once(OutputReceived(a))
    ELSE Never(Started(a)) /\ Never(Blocked(a)) /\ Never(OutputReceived(a))

RowsTold == \A a : RowTold(a)

\* Events of different types, or about different attempts, differ.
LEMMA EventsDiffer ==
    ASSUME NEW a, NEW b, NEW s
    PROVE  /\ Started(a) = Started(b) <=> a = b
           /\ Blocked(a) = Blocked(b) <=> a = b
           /\ OutputReceived(a) = OutputReceived(b) <=> a = b
           /\ SummaryRecorded(a) = SummaryRecorded(b) <=> a = b
           /\ Accepted(a) = Accepted(b) <=> a = b
           /\ StatusChanged(s) \notin {Started(a), Blocked(a), OutputReceived(a),
                                       SummaryRecorded(a), Accepted(a)}
           /\ Started(a) \notin {Blocked(b), OutputReceived(b), SummaryRecorded(b), Accepted(b)}
           /\ Blocked(a) \notin {OutputReceived(b), SummaryRecorded(b), Accepted(b)}
           /\ OutputReceived(a) \notin {SummaryRecorded(b), Accepted(b)}
           /\ SummaryRecorded(a) # Accepted(b)
<1> DEFINE kind(e) == e.type
<1>1. /\ kind(Started(a)) = "started" /\ kind(Blocked(a)) = "blocked"
      /\ kind(OutputReceived(a)) = "output_received" /\ kind(SummaryRecorded(a)) = "summary"
      /\ kind(Accepted(a)) = "accepted" /\ kind(StatusChanged(s)) = "status_changed"
  BY DEF Started, Blocked, OutputReceived, SummaryRecorded, Accepted, StatusChanged
<1>2. /\ kind(Blocked(b)) = "blocked"
      /\ kind(OutputReceived(b)) = "output_received" /\ kind(SummaryRecorded(b)) = "summary"
      /\ kind(Accepted(b)) = "accepted"
  BY DEF Blocked, OutputReceived, SummaryRecorded, Accepted
<1>3. /\ Started(a).attempt = a /\ Blocked(a).attempt = a /\ OutputReceived(a).attempt = a
      /\ SummaryRecorded(a).attempt = a /\ Accepted(a).attempt = a
  BY DEF Started, Blocked, OutputReceived, SummaryRecorded, Accepted
<1>4. /\ Started(b).attempt = b /\ Blocked(b).attempt = b /\ OutputReceived(b).attempt = b
      /\ SummaryRecorded(b).attempt = b /\ Accepted(b).attempt = b
  BY DEF Started, Blocked, OutputReceived, SummaryRecorded, Accepted
<1> HIDE DEF kind
<1>5. /\ Started(a) = Started(b) <=> a = b
      /\ Blocked(a) = Blocked(b) <=> a = b
      /\ OutputReceived(a) = OutputReceived(b) <=> a = b
      /\ SummaryRecorded(a) = SummaryRecorded(b) <=> a = b
      /\ Accepted(a) = Accepted(b) <=> a = b
  BY <1>3, <1>4
<1> QED
  BY <1>1, <1>2, <1>5

\* Where an event stands once another has been appended.
LEMMA AtOneMore ==
    ASSUME Typed, NEW e, events' = Append(events, e), NEW f
    PROVE  At(f)' = IF f = e THEN At(f) \cup {Len(events) + 1} ELSE At(f)
<1>1. PICK E : events \in Seq(E)
  BY DEF Typed
<1>2. events \in Seq(E \cup {e})
  BY <1>1, SeqMonotonic
<1>3. /\ Len(events) \in Nat /\ DOMAIN events = 1 .. Len(events)
      /\ DOMAIN events' = 1 .. Len(events) + 1
      /\ \A i \in 1 .. Len(events) : events'[i] = events[i]
      /\ events'[Len(events) + 1] = e
  BY <1>2, AppendProperties, LenProperties
<1> QED
  BY <1>3 DEF At

LEMMA AtTwoMore ==
    ASSUME Typed, NEW e, NEW g, events' = events \o <<e, g>>, NEW f, e # g
    PROVE  At(f)' = IF f = e THEN At(f) \cup {Len(events) + 1}
                    ELSE IF f = g THEN At(f) \cup {Len(events) + 2} ELSE At(f)
<1>1. PICK E : events \in Seq(E)
  BY DEF Typed
<1> DEFINE F == E \cup {e, g}
<1>2. events \in Seq(F) /\ <<e, g>> \in Seq(F) /\ Len(<<e, g>>) = 2
  BY <1>1
<1> HIDE DEF F
<1>3. /\ events' \in Seq(F) /\ Len(events') = Len(events) + 2
      /\ \A i \in 1 .. Len(events) + 2 :
            events'[i] = IF i <= Len(events) THEN events[i] ELSE <<e, g>>[i - Len(events)]
  BY <1>2, ConcatProperties
<1>4. /\ Len(events) \in Nat /\ DOMAIN events = 1 .. Len(events)
      /\ DOMAIN events' = 1 .. Len(events) + 2
  BY <1>2, <1>3, LenProperties
<1>5. <<e, g>>[1] = e /\ <<e, g>>[2] = g
  OBVIOUS
<1>6. events'[Len(events) + 1] = e /\ events'[Len(events) + 2] = g
  <2>1. Len(events) + 1 - Len(events) = 1 /\ Len(events) + 2 - Len(events) = 2
    BY <1>4
  <2>2. /\ Len(events) + 1 \in 1 .. Len(events) + 2 /\ ~(Len(events) + 1 <= Len(events))
        /\ Len(events) + 2 \in 1 .. Len(events) + 2 /\ ~(Len(events) + 2 <= Len(events))
    BY <1>4
  <2> QED
    BY <1>3, <1>5, <2>1, <2>2
<1>7. \A i \in 1 .. Len(events) : events'[i] = events[i]
  BY <1>3, <1>4
<1>8. \A i : i \in 1 .. Len(events) + 2 <=>
             i \in 1 .. Len(events) \/ i = Len(events) + 1 \/ i = Len(events) + 2
  BY <1>4
<1>9. Len(events) + 1 # Len(events) + 2
  BY <1>4
<1> QED
  BY <1>4, <1>6, <1>7, <1>8, <1>9 DEF At

\* Nothing is told of the attempts.
Silent ==
    \A a : /\ At(Started(a))' = At(Started(a))
           /\ At(Blocked(a))' = At(Blocked(a))
           /\ At(OutputReceived(a))' = At(OutputReceived(a))
           /\ At(SummaryRecorded(a))' = At(SummaryRecorded(a))
           /\ At(Accepted(a))' = At(Accepted(a))

LEMMA SilentRows ==
    ASSUME Silent, UNCHANGED reviews, RowsTold
    PROVE  RowsTold'
BY DEF Silent, RowsTold, RowTold, Once, Never

LEMMA SilentAcceptance ==
    ASSUME Silent, UNCHANGED board, AcceptanceTold,
           status' = "ACCEPTED" <=> status = "ACCEPTED",
           \A t \in Threads : pc'[t] = "move" => goal'[t] # "ACCEPTED"
    PROVE  AcceptanceTold'
BY DEF Silent, AcceptanceTold, Once, Never

\* A step that appends no event.
LEMMA NothingTold ==
    ASSUME UNCHANGED rows, AcceptanceTold, RowsTold,
           \A t \in Threads : pc'[t] = "move" => goal'[t] # "ACCEPTED"
    PROVE  AcceptanceTold' /\ RowsTold'
<1>1. UNCHANGED <<status, events, reviews, board>>
  BY DEF rows
<1>2. Silent
  BY <1>1 DEF Silent, At
<1> QED
  BY <1>1, <1>2, SilentRows, SilentAcceptance

LEMMA MoveTells ==
    ASSUME ReviewInv, AcceptanceTold, RowsTold, NEW t \in Threads, Move(t)
    PROVE  AcceptanceTold' /\ RowsTold'
<1>1. Typed /\ UNCHANGED <<reviews, board>> /\ pc[t] = "move" /\ goal[t] # "ACCEPTED"
  BY DEF Move, ReviewInv, AcceptanceTold
<1>2. Silent
  <2>1. CASE UNCHANGED events
    BY <2>1 DEF Silent, At
  <2>2. CASE events' = Append(events, StatusChanged(goal[t]))
    BY <1>1, <2>2, AtOneMore, EventsDiffer DEF Silent
  <2> QED
    BY <2>1, <2>2 DEF Move
<1>3. status' = "ACCEPTED" <=> status = "ACCEPTED"
  <2>1. status = "ACCEPTED" => AllowedTransitions[status] = {}
    BY DEF AllowedTransitions, Statuses
  <2> QED
    BY <1>1, <2>1 DEF Move
<1>4. \A u \in Threads : pc'[u] = "move" => goal'[u] # "ACCEPTED"
  BY <1>1 DEF Move, Goto, Return, Throw, Leave, Typed, AcceptanceTold
<1> QED
  BY <1>1, <1>2, <1>3, <1>4, SilentRows, SilentAcceptance

LEMMA OpenTells ==
    ASSUME ReviewInv, AcceptanceTold, RowsTold, NEW t \in Threads, Open(t)
    PROVE  AcceptanceTold' /\ RowsTold'
<1>1. Typed /\ UNCHANGED <<status, board>>
  BY DEF Open, ReviewInv
<1>2. \A u \in Threads : pc'[u] = "move" => goal'[u] # "ACCEPTED"
  BY <1>1 DEF Open, Goto, Throw, Leave, Typed, AcceptanceTold
<1>3. CASE UNCHANGED <<reviews, events>>
  BY <1>1, <1>2, <1>3, NothingTold DEF rows
<1> DEFINE row == [state |-> "RUNNING", bundle |-> bundle[t], output |-> NoAnswer]
<1>4. CASE /\ attempt[t] = Len(reviews) + 1
           /\ reviews' = Append(reviews, row)
           /\ events' = Append(events, Started(attempt[t]))
  <2>0. PICK n : n = attempt[t]
    OBVIOUS
  <2>1. PICK R : reviews \in Seq(R)
    BY <1>1 DEF Typed
  <2>2. row.state = "RUNNING"
    OBVIOUS
  <2> HIDE DEF row
  <2>3. reviews \in Seq(R \cup {row})
    BY <2>1, SeqMonotonic
  <2>4. /\ DOMAIN reviews' = DOMAIN reviews \cup {n}
        /\ \A b \in DOMAIN reviews : reviews'[b] = reviews[b]
        /\ reviews'[n].state = "RUNNING"
        /\ n \notin DOMAIN reviews
    BY <1>4, <2>0, <2>2, <2>3, AppendProperties, LenProperties
  <2>5. \A a : /\ At(Started(a))' = IF a = n THEN At(Started(a)) \cup {Len(events) + 1}
                                    ELSE At(Started(a))
               /\ At(Blocked(a))' = At(Blocked(a))
               /\ At(OutputReceived(a))' = At(OutputReceived(a))
               /\ At(SummaryRecorded(a))' = At(SummaryRecorded(a))
               /\ At(Accepted(a))' = At(Accepted(a))
    BY <1>1, <1>4, <2>0, AtOneMore, EventsDiffer
  <2>6. RowTold(n)'
    <3>1. Never(Started(n)) /\ Never(Blocked(n)) /\ Never(OutputReceived(n))
      BY <2>4 DEF RowsTold, RowTold
    <3>2. Once(Started(n))' /\ Never(Blocked(n))' /\ Never(OutputReceived(n))'
      BY <2>5, <3>1 DEF Never, Once
    <3> QED
      BY <2>4, <3>2 DEF RowTold
  <2>7. ASSUME NEW a, a # n
        PROVE  RowTold(a)'
    BY <2>4, <2>5, <2>7 DEF RowsTold, RowTold, Never, Once
  <2>8. AcceptanceTold'
    BY <1>1, <1>2, <2>5 DEF AcceptanceTold, Never, Once
  <2> QED
    BY <2>6, <2>7, <2>8 DEF RowsTold
<1> QED
  BY <1>3, <1>4 DEF Open

\* An attempt ends, with the event that says how.
LEMMA EndTells ==
    ASSUME ReviewInv, AcceptanceTold, RowsTold, NEW t \in Threads,
           pc[t] \in {"ask", "record"}, UNCHANGED <<status, board>>,
           DOMAIN reviews' = DOMAIN reviews,
           \A b \in DOMAIN reviews : b # attempt[t] => reviews'[b] = reviews[b],
           NEW e, events' = Append(events, e),
           \/ e = Blocked(attempt[t]) /\ reviews'[attempt[t]].state = "BLOCKED"
           \/ /\ e = OutputReceived(attempt[t])
              /\ reviews'[attempt[t]].state \in {"BLOCKED", "COMPLETED"},
           \A u \in Threads : pc'[u] = "move" => goal'[u] # "ACCEPTED"
    PROVE  AcceptanceTold' /\ RowsTold'
<1>0. PICK n : n = attempt[t]
  OBVIOUS
<1>1. Typed
  BY DEF ReviewInv
<1>2. n \in DOMAIN reviews /\ reviews[n].state = "RUNNING"
  BY <1>0 DEF ReviewInv, ThreadInv, HoldLabels
<1>3. \A a : /\ At(Started(a))' = At(Started(a))
             /\ a # n => /\ At(Blocked(a))' = At(Blocked(a))
                         /\ At(OutputReceived(a))' = At(OutputReceived(a))
             /\ At(SummaryRecorded(a))' = At(SummaryRecorded(a))
             /\ At(Accepted(a))' = At(Accepted(a))
  BY <1>0, <1>1, AtOneMore, EventsDiffer
<1>4. \/ /\ At(Blocked(n))' = At(Blocked(n)) \cup {Len(events) + 1}
         /\ At(OutputReceived(n))' = At(OutputReceived(n))
         /\ reviews'[n].state = "BLOCKED"
      \/ /\ At(Blocked(n))' = At(Blocked(n))
         /\ At(OutputReceived(n))' = At(OutputReceived(n)) \cup {Len(events) + 1}
         /\ reviews'[n].state \in {"BLOCKED", "COMPLETED"}
  BY <1>0, <1>1, AtOneMore, EventsDiffer
<1>5. RowTold(n)'
  <2>1. Once(Started(n)) /\ Never(Blocked(n)) /\ Never(OutputReceived(n))
    BY <1>2 DEF RowsTold, RowTold
  <2>2. /\ Once(Started(n))'
        /\ \/ Once(Blocked(n))' /\ Never(OutputReceived(n))' /\ reviews'[n].state = "BLOCKED"
           \/ /\ Never(Blocked(n))' /\ Once(OutputReceived(n))'
              /\ reviews'[n].state \in {"BLOCKED", "COMPLETED"}
    BY <1>3, <1>4, <2>1 DEF Once, Never
  <2> QED
    BY <1>2, <2>2 DEF RowTold
<1>6. ASSUME NEW a, a # n
      PROVE  RowTold(a)'
  <2>1. RowTold(a) /\ (a \in DOMAIN reviews => reviews'[a] = reviews[a])
    BY <1>0, <1>6 DEF RowsTold
  <2> QED
    BY <1>3, <1>6, <2>1 DEF RowTold, Once, Never
<1>7. AcceptanceTold'
  BY <1>3 DEF AcceptanceTold, Once, Never
<1> QED
  BY <1>5, <1>6, <1>7 DEF RowsTold

LEMMA AcceptTells ==
    ASSUME ReviewInv, AcceptanceTold, RowsTold, NEW t \in Threads, Accept(t)
    PROVE  AcceptanceTold' /\ RowsTold'
<1>0. PICK n : n = attempt[t]
  OBVIOUS
<1>1. Typed /\ UNCHANGED reviews
  BY DEF Accept, ReviewInv
<1>2. \A u \in Threads : pc'[u] = "move" => goal'[u] # "ACCEPTED"
  BY <1>1 DEF Accept, Return, Throw, Leave, Typed, AcceptanceTold
<1>3. CASE UNCHANGED <<status, board, events>>
  BY <1>1, <1>2, <1>3, NothingTold DEF rows
<1>4. CASE /\ status = "REVIEW_PENDING" /\ status' = "ACCEPTED"
           /\ board' = attempt[t]
           /\ events' = events \o <<SummaryRecorded(attempt[t]), Accepted(attempt[t])>>
  <2>1. board = 0
    BY <1>4 DEF AcceptanceTold
  <2>2. n # 0
    <3>1. n \in DOMAIN reviews /\ DOMAIN reviews = 1 .. Len(reviews)
      BY <1>0, LenProperties DEF Accept, ReviewInv, ThreadInv, HoldLabels, Typed
    <3> QED
      BY <3>1
  <2>3. SummaryRecorded(n) # Accepted(n)
    BY EventsDiffer
  <2>4. \A f : At(f)' = IF f = SummaryRecorded(n) THEN At(f) \cup {Len(events) + 1}
                        ELSE IF f = Accepted(n) THEN At(f) \cup {Len(events) + 2} ELSE At(f)
    BY <1>1, <1>0, <1>4, <2>3, AtTwoMore
  <2>5. \A a : /\ At(Started(a))' = At(Started(a))
               /\ At(Blocked(a))' = At(Blocked(a))
               /\ At(OutputReceived(a))' = At(OutputReceived(a))
               /\ At(SummaryRecorded(a))' = IF a = n THEN At(SummaryRecorded(a)) \cup {Len(events) + 1}
                                            ELSE At(SummaryRecorded(a))
               /\ At(Accepted(a))' = IF a = n THEN At(Accepted(a)) \cup {Len(events) + 2}
                                     ELSE At(Accepted(a))
    BY <2>4, EventsDiffer
  <2>6. RowsTold'
    BY <1>1, <2>5 DEF RowsTold, RowTold, Once, Never
  <2>7. \A a : IF a = n THEN Once(Accepted(a))' /\ Once(SummaryRecorded(a))'
               ELSE Never(Accepted(a))' /\ Never(SummaryRecorded(a))'
    <3>1. \A a : Never(Accepted(a)) /\ Never(SummaryRecorded(a))
      BY <2>1 DEF AcceptanceTold
    <3> QED
      BY <2>5, <3>1 DEF Once, Never
  <2>8. board' = n
    BY <1>0, <1>4
  <2>9. AcceptanceTold'
    BY <1>2, <1>4, <2>2, <2>7, <2>8 DEF AcceptanceTold
  <2> QED
    BY <2>6, <2>9
<1> QED
  BY <1>3, <1>4 DEF Accept

LEMMA StepTells ==
    ASSUME ReviewInv, AcceptanceTold, RowsTold, NEW t \in Threads, Step(t)
    PROVE  AcceptanceTold' /\ RowsTold'
<1>1. Typed
  BY DEF ReviewInv
<1>2. CASE PreReviewVerify(t) \/ Collect(t) \/ Number(t) \/ Ask(t)
  <2>1. UNCHANGED rows
    BY <1>2 DEF PreReviewVerify, Collect, Number, Ask
  <2>2. \A u \in Threads : pc'[u] = "move" => goal'[u] # "ACCEPTED"
    BY <1>1, <1>2 DEF PreReviewVerify, Collect, Number, Ask, Goto, Request, Typed,
                      AcceptanceTold
  <2> QED
    BY <2>1, <2>2, NothingTold
<1>3. CASE AskFails(t)
  <2>1. /\ attempt[t] \in DOMAIN reviews
        /\ DOMAIN reviews[attempt[t]] = {"state", "bundle", "output"}
    BY <1>3 DEF AskFails, ReviewInv, ThreadInv, HoldLabels, RowsInv, RowOK
  <2>2. /\ DOMAIN reviews' = DOMAIN reviews
        /\ \A b \in DOMAIN reviews : b # attempt[t] => reviews'[b] = reviews[b]
        /\ reviews'[attempt[t]].state = "BLOCKED"
    BY <1>3, <2>1 DEF AskFails
  <2>3. \A u \in Threads : pc'[u] = "move" => goal'[u] # "ACCEPTED"
    BY <1>1, <1>3 DEF AskFails, Request, Typed, AcceptanceTold
  <2>4. /\ pc[t] = "ask" /\ UNCHANGED <<status, board>>
        /\ events' = Append(events, Blocked(attempt[t]))
    BY <1>3 DEF AskFails
  <2> QED
    BY <2>2, <2>3, <2>4, EndTells
<1>4. CASE Record(t)
  <2>1. /\ attempt[t] \in DOMAIN reviews
        /\ DOMAIN reviews[attempt[t]] = {"state", "bundle", "output"}
    BY <1>4 DEF Record, ReviewInv, ThreadInv, HoldLabels, RowsInv, RowOK
  <2>2. /\ DOMAIN reviews' = DOMAIN reviews
        /\ \A b \in DOMAIN reviews : b # attempt[t] => reviews'[b] = reviews[b]
        /\ reviews'[attempt[t]].state \in {"BLOCKED", "COMPLETED"}
    BY <1>4, <2>1 DEF Record
  <2>3. \A u \in Threads : pc'[u] = "move" => goal'[u] # "ACCEPTED"
    BY <1>1, <1>4 DEF Record, Goto, Request, Typed, AcceptanceTold
  <2>4. /\ pc[t] = "record" /\ UNCHANGED <<status, board>>
        /\ events' = Append(events, OutputReceived(attempt[t]))
    BY <1>4 DEF Record
  <2> QED
    BY <2>2, <2>3, <2>4, EndTells
<1> QED
  BY <1>2, <1>3, <1>4, MoveTells, OpenTells, AcceptTells DEF Step

LEMMA NextTells ==
    ASSUME ReviewInv, AcceptanceTold, RowsTold, [Next]_vars
    PROVE  AcceptanceTold' /\ RowsTold'
<1>1. Typed
  BY DEF ReviewInv
<1>2. CASE \E t \in Threads : Step(t)
  BY <1>2, StepTells
<1>3. CASE UNCHANGED rows /\ \A t \in Threads : pc'[t] = "move" => goal'[t] # "ACCEPTED"
  BY <1>3, NothingTold
<1>4. CASE \E t \in Threads : FileFails(t)
  BY <1>1, <1>3, <1>4 DEF FileFails, Throw, Leave, Typed, AcceptanceTold
<1>5. CASE \E r \in Retriers : RetryRequest(r)
  BY <1>1, <1>3, <1>5 DEF RetryRequest, Request, Typed, AcceptanceTold
<1>6. CASE Recover
  BY <1>1, <1>3, <1>6 DEF Recover, Goto, Typed, AcceptanceTold
<1>7. CASE Crash
  BY <1>3, <1>7 DEF Crash, rows
<1>8. CASE UNCHANGED vars
  BY <1>3, <1>8 DEF vars, frames, AcceptanceTold
<1> QED
  BY <1>2, <1>4, <1>5, <1>6, <1>7, <1>8 DEF Next

LEMMA ToldInvariant == Spec => [](ReviewInv /\ AcceptanceTold /\ RowsTold)
<1>1. Init => AcceptanceTold /\ RowsTold
  <2> SUFFICES ASSUME Init PROVE AcceptanceTold /\ RowsTold
    OBVIOUS
  <2>1. /\ DOMAIN events = {1} /\ events[1] = StatusChanged("REVIEW_PENDING")
        /\ DOMAIN reviews = {} /\ board = 0 /\ status = "REVIEW_PENDING"
        /\ \A t \in Threads : pc[t] # "move"
    BY DEF Init
  <2>2. \A a : /\ At(Started(a)) = {} /\ At(Blocked(a)) = {} /\ At(OutputReceived(a)) = {}
               /\ At(SummaryRecorded(a)) = {} /\ At(Accepted(a)) = {}
    BY <2>1, EventsDiffer DEF At
  <2> QED
    BY <2>1, <2>2 DEF AcceptanceTold, RowsTold, RowTold, Never
<1>2. Init => ReviewInv
  BY InitInv
<1>3. ReviewInv /\ AcceptanceTold /\ RowsTold /\ [Next]_vars
         => (ReviewInv /\ AcceptanceTold /\ RowsTold)'
  BY NextStep, NextTells
<1> QED
  BY <1>1, <1>2, <1>3, PTL DEF Spec

\* Of any number of reviews that end at the same time, at most one accepts: its
\* acceptance and its summary are in the ledger exactly once, exactly when the status is
\* ACCEPTED and the leaderboard has a row, and of no other attempt is there either.
THEOREM OneAcceptance == Spec => []AcceptedOnce
<1>1. ReviewInv /\ AcceptanceTold => AcceptedOnce
  <2> SUFFICES ASSUME ReviewInv, AcceptanceTold PROVE AcceptedOnce
    OBVIOUS
  <2>1. DOMAIN reviews = 1 .. Len(reviews)
    BY LenProperties DEF ReviewInv, Typed
  <2>2. ASSUME NEW a \in DOMAIN reviews
        PROVE  /\ Cardinality(At(Accepted(a))) = IF a = board THEN 1 ELSE 0
               /\ Cardinality(At(SummaryRecorded(a))) = IF a = board THEN 1 ELSE 0
    <3>1. CASE a = board
      <4>1. Once(Accepted(a)) /\ Once(SummaryRecorded(a))
        BY <2>1, <3>1 DEF AcceptanceTold
      <4> QED
        BY <3>1, <4>1, FS_Singleton DEF Once
    <3>2. CASE a # board
      BY <3>2, FS_EmptySet DEF AcceptanceTold, Never
    <3> QED
      BY <3>1, <3>2
  <2> QED
    BY <2>2 DEF AcceptedOnce, AcceptanceTold
<1> QED
  BY <1>1, ToldInvariant, PTL

\* Every attempt in the reviews table is started once in the ledger and ended at most
\* once, with the ending its row has, although the attempt numbers are read outside the
\* transactions that use them, and whatever was cut off between two of them.
THEOREM EventsTellOfRows == Spec => []RowsFollowEvents
<1>1. ReviewInv /\ RowsTold => RowsFollowEvents
  <2> SUFFICES ASSUME ReviewInv, RowsTold, NEW a \in DOMAIN reviews
               PROVE  /\ Cardinality(At(Started(a))) = 1
                      /\ Cardinality(At(Blocked(a)) \cup At(OutputReceived(a))) =
                            IF reviews[a].state = "RUNNING" THEN 0 ELSE 1
                      /\ reviews[a].state = "COMPLETED" => At(OutputReceived(a)) # {}
    BY DEF RowsFollowEvents
  <2>1. RowTold(a) /\ reviews[a].state \in {"RUNNING", "BLOCKED", "COMPLETED"}
    BY DEF RowsTold, ReviewInv, RowsInv, RowOK
  <2>2. Cardinality(At(Started(a))) = 1
    BY <2>1, FS_Singleton DEF RowTold, Once
  <2>3. CASE reviews[a].state = "RUNNING"
    <3>1. At(Blocked(a)) \cup At(OutputReceived(a)) = {}
      BY <2>1, <2>3 DEF RowTold, Never
    <3> QED
      BY <2>2, <2>3, <3>1, FS_EmptySet
  <2>4. CASE reviews[a].state # "RUNNING"
    <3>1. \E i : At(Blocked(a)) \cup At(OutputReceived(a)) = {i}
      BY <2>1, <2>4 DEF RowTold, Never, Once
    <3>2. reviews[a].state = "COMPLETED" => At(OutputReceived(a)) # {}
      BY <2>1 DEF RowTold, Once
    <3> QED
      BY <2>2, <2>4, <3>1, <3>2, FS_Singleton
  <2> QED
    BY <2>3, <2>4
<1> QED
  BY <1>1, ToldInvariant, PTL
=============================================================================
