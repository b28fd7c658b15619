----------------------------- MODULE ChatProofs -----------------------------
(***************************************************************************)
(* What is proved of the event ledger and of its streams, for any number   *)
(* of writers, followers, events and lost connections, and so of Chat,     *)
(* whose transactions are those of EventStream: the chain verifies, the    *)
(* drift that DriftShows lists is seen, and the streams implement Feed.    *)
(* Then of the calls of chat, overlapping or not: there is one session, it *)
(* follows the ledger, and Codex is told to resume the thread of the last  *)
(* answer before each question.                                            *)
(***************************************************************************)
EXTENDS Chat, SequenceTheorems, TLAPS

\* Every row of a chain follows from the one before it.
Chained(rows) ==
    \A n \in 1 .. Len(rows) :
        /\ DOMAIN rows[n] = {"seq", "prev", "hash", "body"}
        /\ rows[n].seq = n
        /\ rows[n].prev = ExpectedPrev(rows, n)
        /\ rows[n].hash = Digest(rows[n].prev, n, rows[n].body)

\* All sequences of rows are sequences over one set.
Typed(R) ==
    /\ events \in Seq(R) /\ draft \in Seq(R)
    /\ page \in [Followers -> Seq(R)]
    /\ wire \in [Followers -> Seq(R)]
    /\ got \in [Followers -> Seq(R)]
    /\ cursor \in [Followers -> Nat]
    /\ conn \in [Followers -> {"closed", "open", "over"}]

\* The elements of s are those of rows after the first k.
PartFrom(s, k, rows) ==
    /\ k + Len(s) <= Len(rows)
    /\ \A n \in 1 .. Len(s) : s[n] = rows[k + n]

\* Where a stream is: what was received, what is under way, what was read.
Placed(f) ==
    /\ PartFrom(got[f], 0, events)
    /\ conn[f] = "open" =>
        /\ cursor[f] = Len(got[f]) + Len(wire[f])
        /\ PartFrom(wire[f], Len(got[f]), events)
        /\ PartFrom(page[f], cursor[f], events)
    /\ conn[f] # "open" => wire[f] = <<>> /\ page[f] = <<>>

StreamInv ==
    /\ \E R : Typed(R)
    /\ Chained(events \o draft)
    /\ \A f \in Followers : Placed(f)

-----------------------------------------------------------------------------
\* What append adds to a chain keeps it one.
LEMMA NextRowChained ==
    ASSUME NEW R, NEW rows \in Seq(R), NEW body, Chained(rows)
    PROVE  Chained(Append(rows, NextRow(rows, body)))
<1> DEFINE row == NextRow(rows, body)
           more == Append(rows, row)
<1>1. /\ Len(rows) \in Nat /\ Len(more) = Len(rows) + 1
      /\ more[Len(rows) + 1] = row
      /\ \A n \in 1 .. Len(rows) : more[n] = rows[n]
  BY LenProperties
<1>2. rows # <<>> => Len(rows) \in Nat \ {0}
  BY EmptySeq
<1>3. rows = <<>> => Len(rows) = 0
  OBVIOUS
<1>4. HeadSeq(rows) = Len(rows)
  BY <1>2, <1>3 DEF HeadSeq, Chained
<1>5. /\ DOMAIN row = {"seq", "prev", "hash", "body"}
      /\ row.seq = Len(rows) + 1
      /\ row.prev = HeadHash(rows)
      /\ row.hash = Digest(HeadHash(rows), Len(rows) + 1, body)
      /\ row.body = body
  BY <1>4 DEF NextRow
<1>6. row.prev = ExpectedPrev(more, Len(rows) + 1)
  BY <1>1, <1>2, <1>3, <1>5 DEF HeadHash, ExpectedPrev
<1> HIDE DEF row, more
<1>7. ASSUME NEW n \in 1 .. Len(rows)
      PROVE  /\ DOMAIN more[n] = {"seq", "prev", "hash", "body"}
             /\ more[n].seq = n /\ more[n].prev = ExpectedPrev(more, n)
             /\ more[n].hash = Digest(more[n].prev, n, more[n].body)
  BY <1>1 DEF Chained, ExpectedPrev
<1>8. Chained(more)
  BY <1>1, <1>5, <1>6, <1>7 DEF Chained
<1> QED
  BY <1>8 DEF more, row

\* The first part of a chain is a chain.
LEMMA PrefixChained ==
    ASSUME NEW R, NEW s \in Seq(R), NEW t \in Seq(R), Chained(s \o t)
    PROVE  Chained(s)
<1>1. /\ Len(s) \in Nat /\ Len(t) \in Nat /\ Len(s \o t) = Len(s) + Len(t)
      /\ \A n \in 1 .. Len(s) : (s \o t)[n] = s[n]
  BY ConcatProperties, LenProperties
<1> DEFINE both == s \o t
<1> HIDE DEF both
<1>2. QED
  BY <1>1 DEF Chained, ExpectedPrev, both

\* A chain verifies.
LEMMA ChainedVerifies ==
    ASSUME NEW R, NEW rows \in Seq(R), Chained(rows)
    PROVE  Errors(rows) = {}
<1>1. DOMAIN rows = 1 .. Len(rows) /\ Len(rows) \in Nat
  BY LenProperties
<1>2. ASSUME NEW i \in 1 .. Len(rows)
      PROVE  rows[i].seq = ExpectedSeq(rows, i)
  BY <1>1 DEF Chained, ExpectedSeq
<1> QED
  BY <1>1, <1>2 DEF Errors, Chained

-----------------------------------------------------------------------------
(* Parts of a sequence of rows. *)

\* A part of some rows is a part of more.
LEMMA PartOfMore ==
    ASSUME NEW R, NEW rows \in Seq(R), NEW more \in Seq(R), NEW s \in Seq(R), NEW k \in Nat,
           PartFrom(s, k, rows),
           Len(more) >= Len(rows), \A n \in 1 .. Len(rows) : more[n] = rows[n]
    PROVE  PartFrom(s, k, more)
<1>1. Len(rows) \in Nat /\ Len(more) \in Nat /\ Len(s) \in Nat
  BY LenProperties
<1> QED
  BY <1>1 DEF PartFrom

\* The first element of a part joins the part before it: a row that is sent, and
\* one that is received.
LEMMA PartMoves ==
    ASSUME NEW R, NEW rows \in Seq(R), NEW s \in Seq(R), NEW t \in Seq(R), NEW k \in Nat,
           PartFrom(s, k, rows), PartFrom(t, k + Len(s), rows), t # <<>>
    PROVE  /\ Head(t) = rows[k + Len(s) + 1]
           /\ k + Len(s) + 1 \in 1 .. Len(rows)
           /\ Append(s, Head(t)) \in Seq(R) /\ Len(Append(s, Head(t))) = Len(s) + 1
           /\ Tail(t) \in Seq(R) /\ Len(t) = Len(Tail(t)) + 1
           /\ PartFrom(Append(s, Head(t)), k, rows)
           /\ PartFrom(Tail(t), k + Len(Append(s, Head(t))), rows)
           /\ k + Len(s) + 1 = k + Len(Append(s, Head(t)))
           /\ Len(s) + Len(t) = Len(Append(s, Head(t))) + Len(Tail(t))
<1> DEFINE longer == Append(s, Head(t))
           rest == Tail(t)
<1>1. /\ Len(rows) \in Nat /\ Len(s) \in Nat /\ Len(t) \in Nat /\ Len(t) # 0
      /\ Head(t) = t[1] /\ Head(t) \in R
      /\ rest \in Seq(R) /\ Len(rest) = Len(t) - 1
      /\ \A n \in 1 .. Len(rest) : rest[n] = t[n + 1]
  BY LenProperties, EmptySeq, HeadTailProperties
<1>2. /\ longer \in Seq(R) /\ Len(longer) = Len(s) + 1
      /\ longer[Len(s) + 1] = t[1]
      /\ \A n \in 1 .. Len(s) : longer[n] = s[n]
  BY <1>1
<1>3. k + Len(s) + 1 \in 1 .. Len(rows) /\ t[1] = rows[k + Len(s) + 1]
  BY <1>1 DEF PartFrom
<1> HIDE DEF longer, rest
<1>4. PartFrom(longer, k, rows)
  <2>1. ASSUME NEW n \in 1 .. Len(longer) PROVE longer[n] = rows[k + n]
    <3>1. CASE n = Len(s) + 1
      BY <1>1, <1>2, <1>3, <3>1
    <3>2. CASE n # Len(s) + 1
      BY <1>1, <1>2, <3>2 DEF PartFrom
    <3>3. QED
      BY <3>1, <3>2
  <2>2. QED
    BY <1>1, <1>2, <1>3, <2>1 DEF PartFrom
<1>5. PartFrom(rest, k + Len(s) + 1, rows)
  BY <1>1 DEF PartFrom
<1>6. /\ Len(t) = Len(rest) + 1
      /\ k + Len(s) + 1 = k + Len(longer)
      /\ Len(s) + Len(t) = Len(longer) + Len(rest)
  BY <1>1, <1>2
<1>7. PartFrom(rest, k + Len(longer), rows)
  BY <1>5, <1>6
<1> QED
  BY <1>1, <1>2, <1>3, <1>4, <1>6, <1>7 DEF longer, rest

\* EventLedger.list returns a part.
LEMMA PageIsPart ==
    ASSUME NEW R, NEW rows \in Seq(R), NEW k \in Nat, k < Len(rows)
    PROVE  Page(rows, k, PageSize) \in Seq(R) /\ PartFrom(Page(rows, k, PageSize), k, rows)
<1> DEFINE upto == IF Len(rows) <= k + PageSize THEN Len(rows) ELSE k + PageSize
<1>1. Len(rows) \in Nat /\ PageSize \in Nat \ {0}
  BY LenProperties, StreamAssumption
<1>2. upto \in Nat /\ k + 1 <= upto /\ upto <= Len(rows)
  BY <1>1
<1>3. \A i \in k + 1 .. upto : rows[i] \in R
  BY <1>1, <1>2, ElementOfSeq
<1>4. Page(rows, k, PageSize) = SubSeq(rows, k + 1, upto)
  BY DEF Page
<1> HIDE DEF upto
<1>5. k + 1 \in Int /\ upto \in Int
  BY <1>2
<1> DEFINE part == SubSeq(rows, k + 1, upto)
<1>6. /\ part \in Seq(R)
      /\ Len(part) = IF k + 1 <= upto THEN upto - (k + 1) + 1 ELSE 0
      /\ \A i \in 1 .. upto - (k + 1) + 1 : part[i] = rows[k + 1 + i - 1]
  BY <1>3, <1>5, SubSeqProperties
<1> HIDE DEF part
<1>7. Len(part) = upto - k /\ \A i \in 1 .. Len(part) : part[i] = rows[k + i]
  <2>1. Len(part) = upto - k
    BY <1>2, <1>6
  <2>2. ASSUME NEW i \in 1 .. Len(part) PROVE part[i] = rows[k + i]
    <3>1. i \in 1 .. upto - (k + 1) + 1 /\ k + 1 + i - 1 = k + i
      BY <1>2, <2>1
    <3>2. part[i] = rows[k + 1 + i - 1]
      BY <1>6, <3>1
    <3>3. QED
      BY <3>1, <3>2
  <2>3. QED
    BY <2>1, <2>2
<1>8. PartFrom(part, k, rows)
  BY <1>1, <1>2, <1>7 DEF PartFrom
<1> QED
  BY <1>4, <1>6, <1>8 DEF part

-----------------------------------------------------------------------------
LEMMA StreamInitInv ==
    ASSUME StreamInit
    PROVE  StreamInv
<1>1. Typed({})
  BY EmptySeq DEF StreamInit, Typed
<1>2. events \o draft = <<>>
  BY <1>1, ConcatEmptySeq DEF StreamInit, Typed
<1>3. \A f \in Followers : Placed(f)
  BY DEF StreamInit, Placed, PartFrom
<1> QED
  BY <1>1, <1>2, <1>3 DEF StreamInv, Chained

\* A writer's step moves no stream: what the followers have stays part of the
\* ledger if the committed rows stay.
LEMMA WriterPlaced ==
    ASSUME StreamInv, UNCHANGED followVars, NEW R, Typed(R), events' \in Seq(R),
           Len(events') >= Len(events),
           \A n \in 1 .. Len(events) : events'[n] = events[n]
    PROVE  \A f \in Followers : Placed(f)'
<1> SUFFICES ASSUME NEW f \in Followers PROVE Placed(f)'
  OBVIOUS
<1>1. /\ events \in Seq(R)
      /\ got[f] \in Seq(R) /\ wire[f] \in Seq(R) /\ page[f] \in Seq(R)
      /\ Len(got[f]) \in Nat /\ cursor[f] \in Nat /\ 0 \in Nat
  BY LenProperties DEF Typed
<1>2. Placed(f)
  BY DEF StreamInv
<1>3. PartFrom(got[f], 0, events')
  BY <1>1, <1>2, PartOfMore DEF Placed
<1>4. conn[f] = "open" =>
          PartFrom(wire[f], Len(got[f]), events') /\ PartFrom(page[f], cursor[f], events')
  BY <1>1, <1>2, PartOfMore DEF Placed
<1>5. UNCHANGED <<conn, cursor, page, wire, got>>
  BY DEF followVars
<1> QED
  BY <1>2, <1>3, <1>4, <1>5 DEF Placed

LEMMA BeginStep ==
    ASSUME StreamInv, NEW w, NEW body, Begin(w, body)
    PROVE  StreamInv'
<1> PICK R : Typed(R)
  BY DEF StreamInv
<1> DEFINE row == NextRow(events, body)
<1> PICK S : S = R \cup {row}
  OBVIOUS
<1>1. /\ events' = events /\ draft' = <<row>> /\ UNCHANGED followVars
  BY DEF Begin
<1>2. \A s \in Seq(R) : s \in Seq(S)
  BY SeqMonotonic
<1>3. <<row>> \in Seq(S)
  OBVIOUS
<1>4. Typed(S)'
  BY <1>1, <1>2, <1>3 DEF Typed, followVars
<1>5. Chained(events)
  BY PrefixChained DEF Typed, StreamInv
<1>6. events \o <<row>> = Append(events, row)
  BY DEF Typed
<1>7. Chained(Append(events, row))
  BY <1>5, NextRowChained DEF Typed
<1>8. Chained(events \o draft)'
  BY <1>1, <1>6, <1>7 DEF Chained, ExpectedPrev
<1>9. events \in Seq(R) /\ Len(events) >= Len(events)
  BY LenProperties DEF Typed
<1>10. \A f \in Followers : Placed(f)'
  BY <1>1, <1>9, WriterPlaced
<1> QED
  BY <1>4, <1>8, <1>10 DEF StreamInv

LEMMA AppendMoreStep ==
    ASSUME StreamInv, NEW w, NEW body, AppendMore(w, body)
    PROVE  StreamInv'
<1> PICK R : Typed(R)
  BY DEF StreamInv
<1> DEFINE row == NextRow(events \o draft, body)
<1> PICK S : S = R \cup {row}
  OBVIOUS
<1>1. events' = events /\ draft' = Append(draft, row) /\ UNCHANGED followVars
  BY DEF AppendMore
<1>2. \A s \in Seq(R) : s \in Seq(S)
  BY SeqMonotonic
<1>3. /\ events \in Seq(S) /\ draft \in Seq(S) /\ row \in S
      /\ events \o draft \in Seq(R)
  BY <1>2, ConcatProperties DEF Typed
<1>4. Append(draft, row) \in Seq(S)
  BY <1>3
<1>5. Typed(S)'
  <2> HIDE DEF row
  <2>1. /\ page \in [Followers -> Seq(S)] /\ wire \in [Followers -> Seq(S)]
        /\ got \in [Followers -> Seq(S)]
    BY <1>2 DEF Typed
  <2>2. events' \in Seq(S) /\ draft' \in Seq(S)
    BY <1>1, <1>3, <1>4
  <2>3. UNCHANGED <<conn, cursor, page, wire, got>>
    BY <1>1 DEF followVars
  <2>4. QED
    BY <2>1, <2>2, <2>3 DEF Typed
<1>6. events \o Append(draft, row) = Append(events \o draft, row)
  <2> HIDE DEF row
  <2>1. <<row>> \in Seq(S)
    BY <1>3
  <2>2. Append(draft, row) = draft \o <<row>>
    BY <1>3
  <2>3. events \o (draft \o <<row>>) = (events \o draft) \o <<row>>
    BY <1>3, <2>1, ConcatAssociative
  <2>4. events \o draft \in Seq(S)
    BY <1>3, ConcatProperties
  <2>5. (events \o draft) \o <<row>> = Append(events \o draft, row)
    BY <2>4
  <2>6. QED
    BY <2>2, <2>3, <2>5
<1>7. Chained(Append(events \o draft, row))
  BY <1>3, NextRowChained DEF StreamInv
<1>8. Chained(events \o draft)'
  <2> HIDE DEF row
  <2>1. events' \o draft' = Append(events \o draft, row)
    BY <1>1, <1>6
  <2>2. Chained(events' \o draft')
    BY <1>7, <2>1
  <2>3. QED
    BY <2>2 DEF Chained, ExpectedPrev
<1>9. events \in Seq(R) /\ Len(events) >= Len(events)
  BY LenProperties DEF Typed
<1>10. \A f \in Followers : Placed(f)'
  BY <1>1, <1>9, WriterPlaced
<1> QED
  BY <1>5, <1>8, <1>10 DEF StreamInv

LEMMA CommitStep ==
    ASSUME StreamInv, NEW w, Commit(w)
    PROVE  StreamInv'
<1> PICK R : Typed(R)
  BY DEF StreamInv
<1>1. events' = events \o draft /\ draft' = <<>> /\ UNCHANGED followVars
  BY DEF Commit
<1>2. /\ events \o draft \in Seq(R)
      /\ Len(events \o draft) \in Nat /\ Len(events \o draft) >= Len(events)
      /\ \A n \in 1 .. Len(events) : (events \o draft)[n] = events[n]
  BY ConcatProperties, LenProperties DEF Typed
<1>3. Typed(R)'
  BY <1>1, <1>2, EmptySeq DEF Typed, followVars
<1>4. events' \o draft' = events \o draft
  BY <1>1, <1>2, ConcatEmptySeq
<1>5. Chained(events \o draft)'
  BY <1>4 DEF StreamInv, Chained, ExpectedPrev
<1>6. \A f \in Followers : Placed(f)'
  BY <1>1, <1>2, WriterPlaced
<1> QED
  BY <1>3, <1>5, <1>6 DEF StreamInv

LEMMA RollbackStep ==
    ASSUME StreamInv, NEW w, Rollback(w)
    PROVE  StreamInv'
<1> PICK R : Typed(R)
  BY DEF StreamInv
<1>1. events' = events /\ draft' = <<>> /\ UNCHANGED followVars
  BY DEF Rollback
<1>2. Typed(R)'
  BY <1>1, EmptySeq DEF Typed, followVars
<1>3. Chained(events)
  BY PrefixChained DEF Typed, StreamInv
<1>4. events' \o draft' = events
  BY <1>1, ConcatEmptySeq DEF Typed
<1>5. Chained(events \o draft)'
  BY <1>3, <1>4 DEF Chained, ExpectedPrev
<1>6. events \in Seq(R) /\ Len(events) >= Len(events)
  BY LenProperties DEF Typed
<1>7. \A f \in Followers : Placed(f)'
  BY <1>1, <1>6, WriterPlaced
<1> QED
  BY <1>2, <1>5, <1>7 DEF StreamInv

-----------------------------------------------------------------------------
\* A step of one stream leaves the ledger and the other streams alone.
LEMMA StreamMoves ==
    ASSUME StreamInv, UNCHANGED <<events, draft>>,
           NEW R, Typed(R)',
           NEW f \in Followers, Placed(f)',
           \A g \in Followers \ {f} :
                /\ conn'[g] = conn[g] /\ cursor'[g] = cursor[g] /\ page'[g] = page[g]
                /\ wire'[g] = wire[g] /\ got'[g] = got[g]
    PROVE  StreamInv'
<1>1. Chained(events \o draft)'
  BY DEF StreamInv, Chained, ExpectedPrev
<1>2. ASSUME NEW g \in Followers PROVE Placed(g)'
  <2>1. CASE g = f
    BY <2>1
  <2>2. CASE g # f
    <3>1. /\ conn'[g] = conn[g] /\ cursor'[g] = cursor[g] /\ page'[g] = page[g]
          /\ wire'[g] = wire[g] /\ got'[g] = got[g] /\ events' = events
      BY <2>2
    <3>2. Placed(g)
      BY DEF StreamInv
    <3>3. QED
      BY <3>1, <3>2 DEF Placed
  <2>3. QED
    BY <2>1, <2>2
<1> QED
  BY <1>1, <1>2 DEF StreamInv

LEMMA ConnectStep ==
    ASSUME StreamInv, NEW f \in Followers, Connect(f)
    PROVE  StreamInv'
<1> PICK R : Typed(R)
  BY DEF StreamInv
<1>1. /\ Len(events) \in Nat /\ Len(got[f]) \in Nat
      /\ got[f] # <<>> => Len(got[f]) \in Nat \ {0}
  BY LenProperties, EmptySeq DEF Typed
<1>2. Placed(f) /\ conn[f] = "closed"
  BY DEF StreamInv, Connect
<1>3. Chained(events)
  BY PrefixChained DEF Typed, StreamInv
<1>4. LastId(f) = Len(got[f])
  <2>1. CASE got[f] = <<>>
    BY <2>1 DEF LastId
  <2>2. CASE got[f] # <<>>
    <3>1. got[f][Len(got[f])] = events[Len(got[f])] /\ Len(got[f]) <= Len(events)
      BY <1>1, <1>2, <2>2 DEF Placed, PartFrom
    <3>2. events[Len(got[f])].seq = Len(got[f])
      BY <1>1, <1>3, <2>2, <3>1 DEF Chained
    <3>3. QED
      BY <2>2, <3>1, <3>2 DEF LastId
  <2>3. QED
    BY <2>1, <2>2
<1>5. UNCHANGED <<events, draft, page, wire, got>>
  BY DEF Connect, ledgerVars
<1>6. Typed(R)'
  BY <1>1, <1>4, <1>5 DEF Connect, Typed
<1>7. wire[f] = <<>> /\ page[f] = <<>> /\ PartFrom(got[f], 0, events)
  BY <1>2 DEF Placed
<1>8. cursor'[f] = Len(got[f]) /\ conn'[f] = "open"
  BY <1>4 DEF Connect, Typed
<1>9. PartFrom(<<>>, Len(got[f]), events)
  BY <1>1, <1>7 DEF PartFrom
<1>10. Placed(f)'
  BY <1>1, <1>5, <1>7, <1>8, <1>9 DEF Placed
<1>11. \A g \in Followers \ {f} : conn'[g] = conn[g] /\ cursor'[g] = cursor[g]
  BY DEF Connect, Typed
<1> QED
  BY <1>5, <1>6, <1>10, <1>11, StreamMoves

LEMMA SelectStep ==
    ASSUME StreamInv, NEW f \in Followers, Select(f)
    PROVE  StreamInv'
<1> PICK R : Typed(R)
  BY DEF StreamInv
<1> DEFINE rows == Page(events, cursor[f], PageSize)
<1>1. events \in Seq(R) /\ cursor[f] \in Nat /\ cursor[f] < Len(events)
  BY DEF Typed, Select
<1>2. rows \in Seq(R) /\ PartFrom(rows, cursor[f], events)
  BY <1>1, PageIsPart
<1>3. Placed(f) /\ conn[f] = "open"
  BY DEF StreamInv, Select
<1> HIDE DEF rows
<1>4. UNCHANGED <<events, draft, conn, cursor, wire, got>> /\ page' = [page EXCEPT ![f] = rows]
  BY DEF Select, ledgerVars, rows
<1>5. Typed(R)'
  BY <1>2, <1>4 DEF Typed
<1>6. page'[f] = rows
  BY <1>4 DEF Typed
<1>7. Placed(f)'
  BY <1>2, <1>3, <1>4, <1>6 DEF Placed
<1>8. \A g \in Followers \ {f} : page'[g] = page[g]
  BY <1>4 DEF Typed
<1> QED
  BY <1>4, <1>5, <1>7, <1>8, StreamMoves

LEMMA YieldStep ==
    ASSUME StreamInv, NEW f \in Followers, Yield(f)
    PROVE  StreamInv'
<1> PICK R : Typed(R)
  BY DEF StreamInv
<1> DEFINE k == Len(got[f])
           s == wire[f]
           t == page[f]
<1>1. /\ events \in Seq(R) /\ s \in Seq(R) /\ t \in Seq(R) /\ t # <<>>
      /\ k \in Nat /\ Len(s) \in Nat /\ cursor[f] \in Nat
  BY LenProperties DEF Typed, Yield
<1>2. Placed(f) /\ conn[f] = "open"
  BY DEF StreamInv, Yield
<1>3. PartFrom(s, k, events) /\ PartFrom(t, k + Len(s), events) /\ cursor[f] = k + Len(s)
  BY <1>2 DEF Placed
<1>4. Chained(events)
  BY PrefixChained DEF Typed, StreamInv
<1> DEFINE longer == Append(s, Head(t))
<1>5. /\ page'[f] = Tail(t) /\ wire'[f] = longer
      /\ cursor' = [cursor EXCEPT ![f] = Head(t).seq]
  BY DEF Yield, Typed
<1>6. UNCHANGED <<events, draft, conn, got>>
  BY DEF Yield, ledgerVars
<1>7. PartFrom(got[f], 0, events)
  BY <1>2 DEF Placed
<1> HIDE DEF k, s, t
<1>8. /\ Head(t) = events[k + Len(s) + 1] /\ k + Len(s) + 1 \in 1 .. Len(events)
      /\ longer \in Seq(R) /\ Tail(t) \in Seq(R)
      /\ PartFrom(longer, k, events)
      /\ PartFrom(Tail(t), k + Len(longer), events)
      /\ k + Len(s) + 1 = k + Len(longer)
  BY <1>1, <1>3, PartMoves
<1> HIDE DEF longer
<1>9. Head(t).seq = k + Len(longer) /\ Head(t).seq \in Nat
  BY <1>4, <1>8 DEF Chained
<1>10. cursor'[f] = k + Len(longer) /\ cursor' \in [Followers -> Nat]
  BY <1>5, <1>9 DEF Typed
<1>11. Typed(R)'
  BY <1>5, <1>6, <1>8, <1>10 DEF Yield, Typed, longer, s, t
<1>12. Placed(f)'
  <2>1. /\ cursor'[f] = Len(got'[f]) + Len(wire'[f])
        /\ PartFrom(wire'[f], Len(got'[f]), events')
        /\ PartFrom(page'[f], cursor'[f], events')
        /\ PartFrom(got'[f], 0, events')
    BY <1>5, <1>6, <1>7, <1>8, <1>10 DEF k
  <2>2. QED
    BY <1>2, <1>6, <2>1 DEF Placed
<1>13. \A g \in Followers \ {f} :
          cursor'[g] = cursor[g] /\ page'[g] = page[g] /\ wire'[g] = wire[g]
  BY DEF Yield, Typed
<1> QED
  BY <1>6, <1>11, <1>12, <1>13, StreamMoves

\* What a follower receives is the next row of the ledger.
LEMMA ReceiveNext ==
    ASSUME StreamInv, NEW f \in Followers, Receive(f)
    PROVE  /\ Len(got[f]) < Len(events)
           /\ Head(wire[f]) = events[Len(got[f]) + 1]
           /\ StreamInv'
<1> PICK R : Typed(R)
  BY DEF StreamInv
<1> DEFINE s == got[f]
           t == wire[f]
<1>1. /\ events \in Seq(R) /\ s \in Seq(R) /\ t \in Seq(R) /\ t # <<>>
      /\ Len(s) \in Nat /\ Len(events) \in Nat /\ 0 \in Nat /\ 0 + Len(s) = Len(s)
      /\ Len(Tail(t)) \in Nat
  BY LenProperties, HeadTailProperties DEF Typed, Receive
<1>2. Placed(f) /\ t # <<>>
  BY DEF StreamInv, Receive
<1>3. /\ conn[f] = "open" /\ PartFrom(s, 0, events) /\ PartFrom(t, 0 + Len(s), events)
      /\ cursor[f] = Len(s) + Len(t) /\ PartFrom(page[f], cursor[f], events)
  BY <1>1, <1>2 DEF Placed
<1> DEFINE longer == Append(s, Head(t))
<1>4. UNCHANGED <<events, draft, conn, cursor, page>>
  BY DEF Receive, ledgerVars
<1>5. got'[f] = longer /\ wire'[f] = Tail(t)
  BY DEF Receive, Typed
<1>6. Len(s) = Len(got[f]) /\ Head(t) = Head(wire[f])
  OBVIOUS
<1> HIDE DEF s, t
<1>7. /\ Head(t) = events[0 + Len(s) + 1] /\ 0 + Len(s) + 1 \in 1 .. Len(events)
      /\ longer \in Seq(R) /\ Tail(t) \in Seq(R)
      /\ PartFrom(longer, 0, events)
      /\ PartFrom(Tail(t), 0 + Len(longer), events)
      /\ Len(s) + Len(t) = Len(longer) + Len(Tail(t))
  BY <1>1, <1>3, PartMoves
<1>8. Typed(R)'
  BY <1>4, <1>7 DEF Receive, Typed, longer, s, t
<1> HIDE DEF longer
<1>9. 0 + Len(longer) = Len(longer)
  BY <1>7, LenProperties
<1>10. Placed(f)'
  <2>1. /\ cursor'[f] = Len(got'[f]) + Len(wire'[f])
        /\ PartFrom(got'[f], 0, events')
        /\ PartFrom(wire'[f], Len(got'[f]), events')
        /\ PartFrom(page'[f], cursor'[f], events')
    BY <1>3, <1>4, <1>5, <1>7, <1>9
  <2>2. QED
    BY <1>3, <1>4, <2>1 DEF Placed
<1>11. \A g \in Followers \ {f} : got'[g] = got[g] /\ wire'[g] = wire[g]
  BY DEF Receive, Typed
<1>12. StreamInv'
  BY <1>4, <1>8, <1>10, <1>11, StreamMoves
<1>13. Len(s) < Len(events) /\ 0 + Len(s) + 1 = Len(s) + 1
  BY <1>1, <1>7
<1> QED
  BY <1>6, <1>7, <1>12, <1>13

\* A lost connection takes what was under way with it, and no more.
LEMMA LosePlaced ==
    ASSUME StreamInv, NEW lost, lost \subseteq Followers, Lose(lost), UNCHANGED events,
           NEW R, Typed(R), draft' \in Seq(R)
    PROVE  Typed(R)' /\ \A f \in Followers : Placed(f)'
<1>1. Typed(R)'
  BY EmptySeq DEF Typed, Lose
<1>2. ASSUME NEW f \in Followers PROVE Placed(f)'
  <2>1. Placed(f) /\ UNCHANGED <<events, got>>
    BY DEF StreamInv, Lose
  <2>2. CASE f \in lost
    BY <2>1, <2>2 DEF Placed, Lose
  <2>3. CASE f \notin lost
    <3>1. /\ conn'[f] = conn[f] /\ cursor'[f] = cursor[f]
          /\ page'[f] = page[f] /\ wire'[f] = wire[f]
      BY <2>3 DEF Lose
    <3>2. QED
      BY <2>1, <3>1 DEF Placed
  <2>4. QED
    BY <2>2, <2>3
<1> QED
  BY <1>1, <1>2

LEMMA DropStep ==
    ASSUME StreamInv, NEW f \in Followers, Drop(f)
    PROVE  StreamInv'
<1> PICK R : Typed(R)
  BY DEF StreamInv
<1>1. UNCHANGED <<events, draft>> /\ Lose({f})
  BY DEF Drop, ledgerVars
<1>2. Typed(R)' /\ \A g \in Followers : Placed(g)'
  BY <1>1, LosePlaced DEF Typed
<1>3. Chained(events \o draft)'
  BY <1>1 DEF StreamInv, Chained, ExpectedPrev
<1> QED
  BY <1>2, <1>3 DEF StreamInv

LEMMA CrashStep ==
    ASSUME StreamInv, Crash
    PROVE  StreamInv'
<1> PICK R : Typed(R)
  BY DEF StreamInv
<1>1. /\ events' = events /\ draft' = <<>>
      /\ Lose({f \in Followers : conn[f] = "open"})
  BY DEF Crash
<1>2. draft' \in Seq(R)
  BY <1>1, EmptySeq
<1>3. Typed(R)' /\ \A g \in Followers : Placed(g)'
  BY <1>1, <1>2, LosePlaced
<1>4. Chained(events) /\ events' \o draft' = events
  BY <1>1, PrefixChained, ConcatEmptySeq DEF Typed, StreamInv
<1>5. Chained(events \o draft)'
  BY <1>4 DEF Chained, ExpectedPrev
<1> QED
  BY <1>3, <1>5 DEF StreamInv

\* A step of the ledger and its streams, whoever writes and whatever is written.
AnyStep ==
    \/ \E w, body : Begin(w, body) \/ AppendMore(w, body)
    \/ \E w : Commit(w) \/ Rollback(w)
    \/ \E f \in Followers : Follow(f) \/ Drop(f)
    \/ Crash
    \/ UNCHANGED streamVars

LEMMA AnyStepInv ==
    ASSUME StreamInv, AnyStep
    PROVE  StreamInv'
<1>1. CASE UNCHANGED streamVars
  <2>1. UNCHANGED <<events, draft, conn, cursor, page, wire, got>>
    BY <1>1 DEF streamVars
  <2>2. QED
    BY <2>1 DEF StreamInv, Typed, Chained, ExpectedPrev, Placed
<1> QED
  BY <1>1, BeginStep, AppendMoreStep, CommitStep, RollbackStep, ConnectStep, SelectStep,
     YieldStep, ReceiveNext, DropStep, CrashStep DEF AnyStep, Follow

\* Each step is one of the feed, or leaves its log and its followers alone.
LEMMA AnyStepPromised ==
    ASSUME StreamInv, AnyStep
    PROVE  [Promise!Next]_(Promise!vars)
<1> PICK R : Typed(R)
  BY DEF StreamInv
<1>1. ASSUME NEW w, Commit(w)
      PROVE  Promise!Publish
  <2>1. events' = events \o draft /\ got' = got
    BY <1>1 DEF Commit, followVars
  <2>2. /\ Len(events \o draft) >= Len(events)
        /\ \A n \in 1 .. Len(events) : (events \o draft)[n] = events[n]
        /\ DOMAIN events = 1 .. Len(events)
    BY ConcatProperties, LenProperties DEF Typed
  <2>3. QED
    BY <2>1, <2>2 DEF Promise!Publish
<1>2. ASSUME NEW f \in Followers, Receive(f)
      PROVE  Promise!Deliver(f)
  <2>1. Len(got[f]) < Len(events) /\ Head(wire[f]) = events[Len(got[f]) + 1]
    BY <1>2, ReceiveNext
  <2>2. got' = [got EXCEPT ![f] = Append(@, Head(wire[f]))] /\ events' = events
    BY <1>2 DEF Receive, ledgerVars
  <2>3. QED
    BY <2>1, <2>2 DEF Promise!Deliver
<1>3. ASSUME NEW w, NEW body, Begin(w, body) \/ AppendMore(w, body) \/ Rollback(w)
      PROVE  UNCHANGED <<events, got>>
  BY <1>3 DEF Begin, AppendMore, Rollback, followVars
<1>4. ASSUME NEW f \in Followers, Connect(f) \/ Select(f) \/ Yield(f) \/ Drop(f)
      PROVE  UNCHANGED <<events, got>>
  BY <1>4 DEF Connect, Select, Yield, Drop, Lose, ledgerVars
<1>5. Crash \/ UNCHANGED streamVars => UNCHANGED <<events, got>>
  BY DEF Crash, Lose, streamVars
<1> QED
  BY <1>1, <1>2, <1>3, <1>4, <1>5 DEF AnyStep, Follow, Promise!Next, Promise!vars

\* The drift that verify notices.
LEMMA ChainShowsDrift ==
    ASSUME NEW R, NEW rows \in Seq(R), Chained(rows), NEW i \in 1 .. Len(rows)
    PROVE  /\ \A body : body # rows[i].body =>
                /\ Errors([rows EXCEPT ![i].body = body]) # {}
                /\ i < Len(rows) =>
                    Errors([rows EXCEPT ![i].body = body,
                                        ![i].hash = Digest(rows[i].prev, i, body)]) # {}
           /\ i < Len(rows) =>
                Errors(SubSeq(rows, 1, i - 1) \o SubSeq(rows, i + 1, Len(rows))) # {}
<1>1. Len(rows) \in Nat /\ DOMAIN rows = 1 .. Len(rows) /\ i \in Nat
  BY LenProperties
<1>2. /\ DOMAIN rows[i] = {"seq", "prev", "hash", "body"} /\ rows[i].seq = i
      /\ rows[i].hash = Digest(rows[i].prev, i, rows[i].body)
  BY DEF Chained
<1>3. ASSUME NEW body, body # rows[i].body
      PROVE  Errors([rows EXCEPT ![i].body = body]) # {}
  <2> DEFINE bad == [rows EXCEPT ![i].body = body]
  <2>1. /\ i \in DOMAIN bad
        /\ bad[i].seq = i /\ bad[i].prev = rows[i].prev /\ bad[i].hash = rows[i].hash
        /\ bad[i].body = body
    BY <1>1, <1>2
  <2>2. bad[i].hash # Digest(bad[i].prev, bad[i].seq, bad[i].body)
    BY <1>2, <1>3, <2>1 DEF Digest
  <2>3. QED
    BY <2>1, <2>2 DEF Errors
<1>4. ASSUME NEW body, body # rows[i].body, i < Len(rows)
      PROVE  Errors([rows EXCEPT ![i].body = body,
                                 ![i].hash = Digest(rows[i].prev, i, body)]) # {}
  <2> DEFINE bad == [rows EXCEPT ![i].body = body,
                                 ![i].hash = Digest(rows[i].prev, i, body)]
  <2>1. i + 1 \in DOMAIN bad /\ i + 1 # 1 /\ (i + 1) - 1 = i
    BY <1>1, <1>4
  <2>2. bad[i + 1] = rows[i + 1] /\ bad[i].hash = Digest(rows[i].prev, i, body)
    BY <1>1, <1>2, <1>4
  <2>3. rows[i + 1].prev = rows[i].hash
    BY <1>1, <1>4, <2>1 DEF Chained, ExpectedPrev
  <2>4. bad[i + 1].prev # ExpectedPrev(bad, i + 1)
    BY <1>2, <1>4, <2>1, <2>2, <2>3 DEF ExpectedPrev, Digest
  <2>5. QED
    BY <2>1, <2>4 DEF Errors
<1>5. ASSUME i < Len(rows)
      PROVE  Errors(SubSeq(rows, 1, i - 1) \o SubSeq(rows, i + 1, Len(rows))) # {}
  <2> DEFINE front == SubSeq(rows, 1, i - 1)
             back == SubSeq(rows, i + 1, Len(rows))
             bad == front \o back
  <2>1. front \in Seq(R) /\ Len(front) = i - 1 /\ \A n \in 1 .. i - 1 : front[n] = rows[n]
    <3>1. 1 \in Int /\ i - 1 \in Int /\ \A n \in 1 .. i - 1 : rows[n] \in R
      BY <1>1, ElementOfSeq
    <3>2. /\ front \in Seq(R)
          /\ Len(front) = IF 1 <= i - 1 THEN (i - 1) - 1 + 1 ELSE 0
          /\ \A n \in 1 .. (i - 1) - 1 + 1 : front[n] = rows[1 + n - 1]
      BY <3>1, SubSeqProperties
    <3> HIDE DEF front
    <3>3. \A n \in 1 .. i - 1 : n \in 1 .. (i - 1) - 1 + 1 /\ 1 + n - 1 = n
      BY <1>1
    <3>4. Len(front) = i - 1
      BY <1>1, <3>2
    <3>5. QED
      BY <3>2, <3>3, <3>4
  <2>2. back \in Seq(R) /\ Len(back) >= 1 /\ back[1] = rows[i + 1] /\ Len(back) \in Nat
    <3>1. /\ i + 1 \in Int /\ Len(rows) \in Int /\ i + 1 <= Len(rows)
          /\ \A n \in i + 1 .. Len(rows) : rows[n] \in R
      BY <1>1, <1>5, ElementOfSeq
    <3>2. /\ back \in Seq(R)
          /\ Len(back) = IF i + 1 <= Len(rows) THEN Len(rows) - (i + 1) + 1 ELSE 0
          /\ \A n \in 1 .. Len(rows) - (i + 1) + 1 : back[n] = rows[i + 1 + n - 1]
      BY <3>1, SubSeqProperties
    <3> HIDE DEF back
    <3>3. 1 \in 1 .. Len(rows) - (i + 1) + 1 /\ i + 1 + 1 - 1 = i + 1
      BY <1>1, <1>5
    <3>4. Len(back) >= 1 /\ Len(back) \in Nat
      BY <1>1, <3>1, <3>2
    <3>5. QED
      BY <3>2, <3>3, <3>4
  <2> HIDE DEF front, back
  <2>3. /\ bad \in Seq(R) /\ Len(bad) = Len(front) + Len(back)
        /\ \A n \in 1 .. Len(front) + Len(back) :
             bad[n] = IF n <= Len(front) THEN front[n] ELSE back[n - Len(front)]
    BY <2>1, <2>2, ConcatProperties
  <2> HIDE DEF bad
  <2>4. i \in 1 .. Len(bad) /\ DOMAIN bad = 1 .. Len(bad)
    BY <1>1, <2>1, <2>2, <2>3, LenProperties
  <2>5. bad[i] = rows[i + 1]
    BY <1>1, <2>1, <2>2, <2>3
  <2>6. i # 1 => bad[i - 1] = rows[i - 1]
    BY <1>1, <2>1, <2>2, <2>3
  <2>7. bad[i].seq = i + 1
    BY <1>1, <1>5, <2>5 DEF Chained
  <2>8. i # 1 => bad[i - 1].seq = i - 1
    BY <1>1, <2>6 DEF Chained
  <2>9. bad[i].seq # ExpectedSeq(bad, i)
    BY <1>1, <2>7, <2>8 DEF ExpectedSeq
  <2>10. Errors(bad) # {}
    BY <2>4, <2>9 DEF Errors
  <2>11. QED
    BY <2>10 DEF bad, front, back
<1> QED
  BY <1>3, <1>4, <1>5

\* What the invariant says of the properties.
LEMMA StreamInvShows ==
    ASSUME StreamInv
    PROVE  ChainVerifies /\ DriftShows
<1> PICK R : Typed(R)
  BY DEF StreamInv
<1>1. events \o draft \in Seq(R) /\ events \in Seq(R)
  BY ConcatProperties DEF Typed
<1>2. ChainVerifies
  BY <1>1, ChainedVerifies DEF ChainVerifies, StreamInv
<1>3. Chained(events)
  BY PrefixChained DEF Typed, StreamInv
<1>4. DOMAIN events = 1 .. Len(events) /\ Len(events) \in Nat
  BY <1>1, LenProperties
<1>5. ASSUME NEW i \in DOMAIN events, NEW body \in Bodies, body # events[i].body
      PROVE  /\ Errors([events EXCEPT ![i].body = body]) # {}
             /\ i < Len(events) =>
                    Errors([events EXCEPT ![i].body = body,
                                          ![i].hash = Digest(events[i].prev, i, body)]) # {}
  BY <1>1, <1>3, <1>4, <1>5, ChainShowsDrift
<1>6. ASSUME NEW i \in 1 .. Len(events) - 1
      PROVE  Errors(SubSeq(events, 1, i - 1) \o SubSeq(events, i + 1, Len(events))) # {}
  <2>1. i \in 1 .. Len(events) /\ i < Len(events)
    BY <1>4
  <2>2. QED
    BY <1>1, <1>3, <2>1, ChainShowsDrift
<1> QED
  BY <1>2, <1>5, <1>6 DEF DriftShows

-----------------------------------------------------------------------------
(* The stream on its own. *)

THEOREM StreamInvariant == StreamSpec => []StreamInv
<1>1. StreamInit => StreamInv
  BY StreamInitInv
<1>2. StreamInv /\ [StreamNext]_streamVars => StreamInv'
  BY AnyStepInv DEF StreamNext, AnyStep
<1> QED
  BY <1>1, <1>2, PTL DEF StreamSpec

\* Any table that transactions of this kind write verifies.
THEOREM StreamVerifies == StreamSpec => []ChainVerifies
BY StreamInvariant, StreamInvShows, PTL

-----------------------------------------------------------------------------
(* Chat. *)

\* Every step of a chat call is a step of the ledger.
LEMMA ChatAnyStep ==
    ASSUME [Next]_vars
    PROVE  AnyStep
<1>1. CASE UNCHANGED vars
  BY <1>1 DEF vars, AnyStep
<1>2. ASSUME NEW c \in Calls, Call(c)
      PROVE  AnyStep
  BY <1>2 DEF Call, Ask, CommitQuestion, RunCodex, CodexFails, RecordAnswer, CommitAnswer, AnyStep
<1>3. Elsewhere \/ Die \/ Watch => AnyStep
  BY DEF Elsewhere, Die, Watch, AnyStep
<1> QED
  BY <1>1, <1>2, <1>3 DEF Next

LEMMA ChatInvariant == Spec => []StreamInv
<1>1. Init => StreamInv
  BY StreamInitInv DEF Init
<1>2. StreamInv /\ [Next]_vars => StreamInv'
  BY AnyStepInv, ChatAnyStep
<1> QED
  BY <1>1, <1>2, PTL DEF Spec

\* The ledger verifies at all times, whatever transactions commit, fail or are cut
\* short by a crash (EventLedger.append and verify).
THEOREM LedgerVerifies == Spec => []ChainVerifies
BY ChatInvariant, StreamInvShows, PTL

\* A ledger of any length shows the drift that DriftShows lists.
THEOREM DriftIsShown == Spec => []DriftShows
BY ChatInvariant, StreamInvShows, PTL

\* Followers receive the ledger, each row once and in order, over any number of
\* lost connections and restarts (GET /api/events with Last-Event-ID).
THEOREM StreamKeepsPromise == Spec => ImplementsFeed
<1>1. Init => Promise!Init
  BY DEF Init, StreamInit, Promise!Init
<1>2. StreamInv /\ [Next]_vars => [Promise!Next]_(Promise!vars)
  BY ChatAnyStep, AnyStepPromised
<1> QED
  BY <1>1, <1>2, ChatInvariant, PTL DEF Spec, ImplementsFeed, Promise!Spec

-----------------------------------------------------------------------------
(* Calls of chat. *)

\* Whose transaction is open, and what it is about to say.
TurnsOK ==
    /\ writer \in Writers \cup {NoWriter}
    /\ writer = NoWriter => draft = <<>>
    /\ writer = Controller => \A n \in 1 .. Len(draft) : draft[n].body = Other
    /\ \A c \in Calls :
        /\ pc[c] \in {"question", "answering"} <=> writer = c
        /\ pc[c] = "question" => Len(draft) = 1 /\ draft[1].body = Question(c, 1)
        /\ pc[c] = "answering" => Len(draft) = 1 /\ draft[1].body = Answer(c, 1, reported[c])

\* There is one session, and whoever asked belongs to it.
OneSession ==
    /\ pc \in [Calls -> Labels]
    /\ session \in [Calls -> {0, 1}]
    /\ thread \in [Calls -> Threads] /\ reported \in [Calls -> Threads]
    /\ sessions \in Seq(Threads) /\ Len(sessions) \in {0, 1}
    /\ \A c \in Calls :
        /\ pc[c] \notin {"idle", "failed"} => session[c] = 1
        /\ pc[c] \in {"codex", "answer", "answering", "done"} => Len(sessions) = 1

\* What committed rows say.
SaidOK ==
    \A n \in 1 .. Len(events) :
        \/ events[n].body = Other
        \/ \E c \in Calls : events[n].body = Question(c, 1)
        \/ \E c \in Calls, t \in Threads : events[n].body = Answer(c, 1, t)

\* m is the last answer before q.
Latest(q, m) == m \in Answers /\ m < q /\ \A k \in Answers : k < q => k <= m

\* There is a last answer before q, if there is any.
HasLatest ==
    \A q \in 1 .. Len(events) + 1 : (\A k \in Answers : k >= q) \/ \E m : Latest(q, m)

ThreadOf(m) == events[m].body.thread

\* The session has the thread of the last answer.
SessionTold ==
    /\ Len(sessions) = 0 => Answers = {}
    /\ Len(sessions) = 1 /\ Answers = {} => sessions[1] = NoThread
    /\ \A m : Latest(Len(events) + 1, m) => sessions[1] = ThreadOf(m)

AskedBy(c) ==
    {q \in DOMAIN events : events[q].body.type = "user_message" /\ events[q].body.call = c}

\* A call resumes the thread of the last answer before q, if there was one.
Resumes(c, q) ==
    /\ \A m : Latest(q, m) => thread[c] = ThreadOf(m)
    /\ (\A k \in Answers : k >= q) => thread[c] = NoThread

\* A call resumes the thread that was the last when it asked.
Continues(c) ==
    /\ pc[c] \in {"idle", "question"} => AskedBy(c) = {}
    /\ \A q \in AskedBy(c) : Resumes(c, q)
    /\ pc[c] = "question" => Resumes(c, Len(events) + 1)

Told == SaidOK /\ HasLatest /\ SessionTold /\ \A c \in Calls : Continues(c)

CallsInv == TurnsOK /\ OneSession /\ Told

\* The rows that a transaction commits follow those that were there.
LEMMA Commits ==
    ASSUME StreamInv, NEW w, Commit(w)
    PROVE  /\ Len(events) \in Nat /\ Len(draft) \in Nat
           /\ DOMAIN events = 1 .. Len(events) /\ DOMAIN events' = 1 .. Len(events')
           /\ Len(events') = Len(events) + Len(draft)
           /\ Len(events') \in Nat /\ Len(events') >= Len(events)
           /\ DOMAIN events \subseteq DOMAIN events'
           /\ \A n \in 1 .. Len(events) : events'[n] = events[n]
           /\ \A n \in 1 .. Len(events') :
                 n > Len(events) => /\ n - Len(events) \in 1 .. Len(draft)
                                    /\ events'[n] = draft[n - Len(events)]
<1> PICK R : Typed(R)
  BY DEF StreamInv
<1>1. events \in Seq(R) /\ draft \in Seq(R) /\ events' = events \o draft
  BY DEF Typed, Commit
<1>2. events' \in Seq(R) /\ Len(events') = Len(events) + Len(draft)
      /\ \A n \in 1 .. Len(events) + Len(draft) :
            events'[n] = IF n <= Len(events) THEN events[n] ELSE draft[n - Len(events)]
  BY <1>1, ConcatProperties
<1>3. /\ Len(events) \in Nat /\ Len(draft) \in Nat
      /\ DOMAIN events = 1 .. Len(events) /\ DOMAIN events' = 1 .. Len(events')
  BY <1>1, <1>2, LenProperties
<1>4. Len(events') \in Nat /\ Len(events') >= Len(events)
  BY <1>2, <1>3
<1>5. DOMAIN events \subseteq DOMAIN events'
  BY <1>3, <1>4
<1> QED
  BY <1>2, <1>3, <1>4, <1>5

LEMMA CommitsOne ==
    ASSUME StreamInv, NEW w, Commit(w), Len(draft) = 1, NEW p, p = Len(events) + 1
    PROVE  /\ Len(events) \in Nat /\ p \in Nat /\ Len(events') = p
           /\ DOMAIN events = 1 .. Len(events) /\ DOMAIN events' = 1 .. Len(events')
           /\ p \notin DOMAIN events /\ DOMAIN events' = DOMAIN events \cup {p}
           /\ \A n \in DOMAIN events : events'[n] = events[n] /\ n < p
           /\ events'[p] = draft[1]
<1>1. /\ Len(events) \in Nat /\ p \in Nat /\ Len(events') = p
      /\ DOMAIN events = 1 .. Len(events) /\ DOMAIN events' = 1 .. Len(events')
      /\ \A n \in 1 .. Len(events) : events'[n] = events[n]
  BY Commits
<1>2. p > Len(events) /\ p \in 1 .. Len(events') /\ p - Len(events) = 1
  BY <1>1
<1>3. events'[p] = draft[1]
  BY <1>2, Commits
<1>4. 1 .. p = 1 .. Len(events) \cup {p}
  BY <1>1
<1> QED
  BY <1>1, <1>3, <1>4

\* Bodies tell what kind of event they are.
LEMMA Kinds ==
    ASSUME NEW c, NEW t
    PROVE  /\ Other.type = "other"
           /\ Question(c, 1).type = "user_message" /\ Question(c, 1).call = c
           /\ Answer(c, 1, t).type = "assistant_message" /\ Answer(c, 1, t).call = c
           /\ Answer(c, 1, t).thread = t
BY DEF Other, Question, Answer

\* What was the last answer before a row stays it, whatever is committed.
LEMMA LatestStays ==
    ASSUME StreamInv, NEW w, Commit(w), NEW q \in 1 .. Len(events) + 1, NEW m
    PROVE  /\ Latest(q, m)' <=> Latest(q, m)
           /\ Latest(q, m) => ThreadOf(m)' = ThreadOf(m)
<1>1. \A k : k < q => (k \in Answers' <=> k \in Answers)
  BY Commits DEF Answers
<1>2. \A k \in Answers \cup Answers' : k \in Nat
  BY Commits DEF Answers
<1>3. Latest(q, m)' <=> Latest(q, m)
  BY <1>1, <1>2 DEF Latest
<1>4. m \in Answers => events'[m] = events[m]
  BY Commits DEF Answers
<1> QED
  BY <1>3, <1>4 DEF Latest, ThreadOf

\* A step that commits nothing leaves what is told.
LEMMA NothingSaid ==
    ASSUME Told, UNCHANGED <<events, sessions>>,
           \A c \in Calls : Continues(c)'
    PROVE  Told'
BY DEF Told, SaidOK, HasLatest, SessionTold, Latest, Answers, ThreadOf

LEMMA CallStands ==
    ASSUME NEW c, Continues(c), UNCHANGED events,
           pc'[c] = pc[c] \/ pc'[c] \in {"answer", "answering", "failed"},
           thread'[c] = thread[c]
    PROVE  Continues(c)'
BY DEF Continues, Resumes, AskedBy, Latest, Answers, ThreadOf

\* Sequences of one element.
LEMMA Singles ==
    ASSUME NEW T, NEW s \in Seq(T), Len(s) = 1
    PROVE  /\ s[1] \in T
           /\ \A e \in T : /\ [s EXCEPT ![1] = e] \in Seq(T)
                          /\ Len([s EXCEPT ![1] = e]) = 1
                          /\ [s EXCEPT ![1] = e][1] = e
<1>1. 1 \in 1 .. Len(s)
  OBVIOUS
<1>2. s[1] \in T
  BY <1>1, ElementOfSeq
<1>3. ASSUME NEW e \in T
      PROVE  /\ [s EXCEPT ![1] = e] \in Seq(T)
             /\ Len([s EXCEPT ![1] = e]) = 1
             /\ [s EXCEPT ![1] = e][1] = e
  <2> DEFINE r == [s EXCEPT ![1] = e]
  <2>1. /\ r \in Seq(T) /\ Len(r) = Len(s)
        /\ \A j \in 1 .. Len(s) : r[j] = IF j = 1 THEN e ELSE s[j]
    BY <1>1, ExceptSeq
  <2> HIDE DEF r
  <2>2. r \in Seq(T) /\ Len(r) = 1 /\ r[1] = e
    BY <1>1, <2>1
  <2> QED
    BY <2>2 DEF r
<1> QED
  BY <1>2, <1>3

LEMMA SessionCount ==
    ASSUME OneSession
    PROVE  /\ Len(sessions) = 0 <=> sessions = <<>>
           /\ Len(sessions) = 1 => sessions[1] \in Threads
<1>1. sessions \in Seq(Threads)
  BY DEF OneSession
<1> QED
  BY <1>1, EmptySeq, Singles

LEMMA TurnsHold ==
    ASSUME TurnsOK, OneSession, [Next]_vars
    PROVE  TurnsOK'
<1> USE DEF TurnsOK
<1>0. /\ NoWriter # Controller /\ Controller \in Writers
      /\ \A c \in Calls : c \in Writers /\ c # NoWriter /\ c # Controller
  BY StreamAssumption, ChatAssumption
<1>1. CASE UNCHANGED vars
  BY <1>1 DEF vars, streamVars, chatVars
<1>2. ASSUME NEW c \in Calls, Ask(c)
      PROVE  TurnsOK'
  <2>1. /\ writer = NoWriter /\ writer' = c /\ pc[c] = "idle"
        /\ pc' = [pc EXCEPT ![c] = "question"] /\ pc \in [Calls -> Labels]
    BY <1>2 DEF Ask, Begin, OneSession
  <2>2. Len(draft') = 1 /\ draft'[1].body = Question(c, 1)
    <3>1. sessions = <<>> \/ Len(sessions) = 1
      BY SessionCount DEF OneSession
    <3>2. draft' = <<NextRow(events, Question(c, 1))>>
      BY <1>2, <3>1 DEF Ask, Begin
    <3> QED
      BY <3>2 DEF NextRow
  <2> QED
    BY <1>0, <2>1, <2>2
<1>3. ASSUME NEW c \in Calls, CommitQuestion(c) \/ CommitAnswer(c)
      PROVE  TurnsOK'
  BY <1>0, <1>3 DEF CommitQuestion, CommitAnswer, Commit, OneSession
<1>4. ASSUME NEW c \in Calls, RunCodex(c) \/ CodexFails(c)
      PROVE  TurnsOK'
  <2>1. /\ UNCHANGED <<writer, draft>> /\ pc[c] = "codex" /\ pc'[c] \in {"answer", "failed"}
        /\ \A d \in Calls \ {c} : pc'[d] = pc[d] /\ reported'[d] = reported[d]
    BY <1>4 DEF RunCodex, CodexFails, streamVars, OneSession
  <2> QED
    BY <2>1
<1>5. ASSUME NEW c \in Calls, RecordAnswer(c)
      PROVE  TurnsOK'
  <2>1. /\ writer = NoWriter /\ writer' = c /\ pc[c] = "answer" /\ UNCHANGED reported
        /\ pc' = [pc EXCEPT ![c] = "answering"] /\ pc \in [Calls -> Labels]
    BY <1>5 DEF RecordAnswer, Begin, OneSession
  <2>2. Len(draft') = 1 /\ draft'[1].body = Answer(c, 1, reported[c])
    <3>1. draft' = <<NextRow(events, Answer(c, 1, reported[c]))>>
      BY <1>5 DEF RecordAnswer, Begin, OneSession
    <3> QED
      BY <3>1 DEF NextRow
  <2> QED
    BY <1>0, <2>1, <2>2
<1>6. CASE Elsewhere
  <2>1. UNCHANGED <<pc, reported>>
    BY <1>6 DEF Elsewhere, chatVars
  <2>2. CASE Begin(Controller, Other)
    <3>1. Len(draft') = 1 /\ draft'[1].body = Other
      BY <2>2 DEF Begin, NextRow
    <3> QED
      BY <1>0, <2>1, <2>2, <3>1 DEF Begin
  <2>3. CASE AppendMore(Controller, Other)
    BY <1>0, <2>1, <2>3 DEF AppendMore, NextRow
  <2>4. CASE Commit(Controller) \/ Rollback(Controller)
    BY <1>0, <2>1, <2>4 DEF Commit, Rollback
  <2> QED
    BY <1>6, <2>2, <2>3, <2>4 DEF Elsewhere
<1>7. CASE Die
  BY <1>0, <1>7 DEF Die, Crash
<1>8. CASE Watch
  <2>1. UNCHANGED <<writer, draft, pc, reported>>
    BY <1>8 DEF Watch, Follow, Connect, Select, Yield, Receive, Drop, ledgerVars, chatVars
  <2> QED
    BY <2>1
<1> QED
  BY <1>1, <1>2, <1>3, <1>4, <1>5, <1>6, <1>7, <1>8 DEF Next, Call

LEMMA OneSessionHolds ==
    ASSUME OneSession, [Next]_vars
    PROVE  OneSession'
<1> USE DEF OneSession, Labels
<1>1. CASE UNCHANGED vars
  BY <1>1 DEF vars, chatVars
<1>2. ASSUME NEW c \in Calls, Ask(c)
      PROVE  OneSession'
  <2>1. (sessions = <<>> \/ Len(sessions) = 1) /\ (sessions # <<>> => sessions[1] \in Threads)
    BY SessionCount
  <2>2. /\ session' = [session EXCEPT ![c] = 1]
        /\ pc' = [pc EXCEPT ![c] = "question"] /\ UNCHANGED <<sessions, reported>>
    BY <1>2, <2>1 DEF Ask
  <2>3. thread' \in [Calls -> Threads]
    <3>1. thread' = [thread EXCEPT ![c] = IF sessions = <<>> THEN NoThread ELSE sessions[1]]
      BY <1>2, <2>1 DEF Ask
    <3> QED
      BY <2>1, <3>1 DEF Threads
  <2> QED
    BY <2>2, <2>3
<1>3. ASSUME NEW c \in Calls, CommitQuestion(c)
      PROVE  OneSession'
  <2>1. /\ session[c] = 1 /\ pc' = [pc EXCEPT ![c] = "codex"] /\ UNCHANGED <<session, thread, reported>>
        /\ sessions' = IF 1 > Len(sessions) THEN Append(sessions, NoThread) ELSE sessions
    BY <1>3 DEF CommitQuestion
  <2>2. sessions' \in Seq(Threads) /\ Len(sessions') = 1
    BY <2>1, AppendProperties DEF Threads
  <2> QED
    BY <2>1, <2>2
<1>4. ASSUME NEW c \in Calls, RunCodex(c) \/ CodexFails(c)
      PROVE  OneSession'
  BY <1>4 DEF RunCodex, CodexFails, Threads
<1>5. ASSUME NEW c \in Calls, RecordAnswer(c)
      PROVE  OneSession'
  BY <1>5 DEF RecordAnswer
<1>6. ASSUME NEW c \in Calls, CommitAnswer(c)
      PROVE  OneSession'
  <2>1. /\ Len(sessions) = 1 /\ reported[c] \in Threads /\ session[c] = 1
        /\ sessions' = [sessions EXCEPT ![1] = reported[c]]
        /\ pc' = [pc EXCEPT ![c] = "done"] /\ UNCHANGED <<session, thread, reported>>
    BY <1>6 DEF CommitAnswer
  <2>2. sessions \in Seq(Threads)
    OBVIOUS
  <2>3. sessions' \in Seq(Threads) /\ Len(sessions') = 1
    BY <2>1, <2>2, Singles
  <2> QED
    BY <2>1, <2>3
<1>7. CASE Elsewhere \/ Watch
  BY <1>7 DEF Elsewhere, Watch, chatVars
<1>8. CASE Die
  BY <1>8 DEF Die
<1> QED
  BY <1>1, <1>2, <1>3, <1>4, <1>5, <1>6, <1>7, <1>8 DEF Next, Call

LEMMA AskTold ==
    ASSUME StreamInv, CallsInv, NEW c \in Calls, Ask(c)
    PROVE  Told'
<1>1. /\ UNCHANGED <<events, sessions>> /\ pc[c] = "idle" /\ pc'[c] = "question"
      /\ \A d \in Calls \ {c} : pc'[d] = pc[d] /\ thread'[d] = thread[d]
      /\ thread'[c] = IF sessions = <<>> THEN NoThread ELSE sessions[1]
  <2>1. sessions = <<>> \/ Len(sessions) = 1
    BY SessionCount DEF CallsInv, OneSession
  <2> QED
    BY <2>1 DEF Ask, Begin, CallsInv, OneSession
<1>2. \A m : Latest(Len(events) + 1, m) => thread'[c] = ThreadOf(m)
  BY <1>1 DEF CallsInv, Told, SessionTold, Latest
<1>3. (\A k \in Answers : k >= Len(events) + 1) => thread'[c] = NoThread
  <2>1. \A k \in Answers : k < Len(events) + 1
    BY LenProperties DEF StreamInv, Typed, Answers
  <2>2. Answers = {} => thread'[c] = NoThread
    BY <1>1, SessionCount DEF CallsInv, OneSession, Told, SessionTold
  <2>3. \A k \in Answers : k \in Nat /\ Len(events) \in Nat
    BY LenProperties DEF StreamInv, Typed, Answers
  <2> QED
    BY <2>1, <2>2, <2>3
<1>4. Continues(c)'
  <2>1. AskedBy(c) = {}
    BY <1>1 DEF CallsInv, Told, Continues
  <2> QED
    BY <1>1, <1>2, <1>3, <2>1 DEF Continues, Resumes, AskedBy, Latest, Answers, ThreadOf
<1>5. ASSUME NEW d \in Calls, d # c
      PROVE  Continues(d)'
  <2>1. Continues(d) /\ pc'[d] = pc[d] /\ thread'[d] = thread[d] /\ UNCHANGED events
    BY <1>1, <1>5 DEF CallsInv, Told
  <2> QED
    BY <2>1, CallStands
<1> QED
  BY <1>1, <1>4, <1>5, NothingSaid DEF CallsInv

\* Rows that are no answers change no last answer.
LEMMA QuietCommit ==
    ASSUME StreamInv, SaidOK, HasLatest, NEW w, Commit(w),
           \A n \in 1 .. Len(draft) : draft[n].body.type # "assistant_message"
    PROVE  /\ Answers' = Answers /\ HasLatest'
           /\ \A m \in Answers : ThreadOf(m)' = ThreadOf(m)
           /\ \A q, m : Latest(q, m)' <=> Latest(q, m)
           /\ \A m : Latest(Len(events') + 1, m) <=> Latest(Len(events) + 1, m)
<1>1. /\ DOMAIN events \subseteq DOMAIN events'
      /\ DOMAIN events = 1 .. Len(events) /\ DOMAIN events' = 1 .. Len(events')
      /\ \A n \in DOMAIN events : events'[n] = events[n]
      /\ Len(events) \in Nat /\ Len(events') \in Nat /\ Len(events') >= Len(events)
  BY Commits
<1>2. \A n \in DOMAIN events' :
         n \in DOMAIN events \/ events'[n].body.type # "assistant_message"
  <2> SUFFICES ASSUME NEW n \in DOMAIN events', n \notin DOMAIN events
               PROVE  events'[n].body.type # "assistant_message"
    OBVIOUS
  <2>1. n \in 1 .. Len(events') /\ n > Len(events)
    BY <1>1
  <2>2. n - Len(events) \in 1 .. Len(draft) /\ events'[n] = draft[n - Len(events)]
    BY <2>1, Commits
  <2> QED
    BY <2>2
<1>3. Answers' = Answers
  BY <1>1, <1>2 DEF Answers
<1>4. \A m \in Answers : events'[m] = events[m] /\ m \in 1 .. Len(events)
  BY <1>1 DEF Answers
<1>5. \A q, m : Latest(q, m)' <=> Latest(q, m)
  BY <1>3 DEF Latest
<1>6. \A m : Latest(Len(events') + 1, m) <=> Latest(Len(events) + 1, m)
  BY <1>1, <1>4 DEF Latest
<1>7. HasLatest'
  <2> SUFFICES ASSUME NEW q \in 1 .. Len(events') + 1
               PROVE  (\A k \in Answers : k >= q) \/ \E m : Latest(q, m)
    BY <1>3, <1>5 DEF HasLatest
  <2>1. CASE q <= Len(events) + 1
    BY <1>1, <2>1 DEF HasLatest
  <2>2. CASE q > Len(events) + 1
    <3> PICK p : p = Len(events) + 1
      OBVIOUS
    <3>1. (\A k \in Answers : k >= p) \/ \E m : Latest(p, m)
      BY <1>1 DEF HasLatest
    <3>2. \A m : Latest(p, m) => Latest(q, m)
      BY <1>1, <1>4, <2>2 DEF Latest
    <3>3. (\A k \in Answers : k >= p) => Answers = {}
      BY <1>1, <1>4
    <3> QED
      BY <3>1, <3>2, <3>3
  <2> QED
    BY <1>1, <2>1, <2>2
<1> QED
  BY <1>3, <1>4, <1>5, <1>6, <1>7 DEF ThreadOf

\* The rows of the controller are no answers, and nobody's questions.
LEMMA ControllerTold ==
    ASSUME StreamInv, CallsInv, Commit(Controller), UNCHANGED chatVars
    PROVE  Told'
<1>1. UNCHANGED <<sessions, pc, session, thread>>
  BY DEF chatVars
<1>2. \A n \in 1 .. Len(draft) : draft[n].body = Other
  BY DEF CallsInv, TurnsOK, Commit
<1>3. \A n \in 1 .. Len(draft) : draft[n].body.type # "assistant_message"
  BY <1>2 DEF Other
<1>4. /\ Answers' = Answers /\ HasLatest'
      /\ \A m \in Answers : ThreadOf(m)' = ThreadOf(m)
      /\ \A q, m : Latest(q, m)' <=> Latest(q, m)
      /\ \A m : Latest(Len(events') + 1, m) <=> Latest(Len(events) + 1, m)
  BY <1>3, QuietCommit DEF CallsInv, Told
<1>5. \A n \in 1 .. Len(events') :
         \/ n \in 1 .. Len(events) /\ events'[n] = events[n]
         \/ n > Len(events) /\ events'[n].body = Other
  <2>1. ASSUME NEW n \in 1 .. Len(events'), n > Len(events)
        PROVE  events'[n].body = Other
    <3>1. /\ n - Len(events) \in 1 .. Len(draft)
          /\ events'[n] = draft[n - Len(events)]
      BY <2>1, Commits
    <3> QED
      BY <1>2, <3>1
  <2>2. /\ Len(events) \in Nat /\ Len(events') \in Nat
        /\ \A n \in 1 .. Len(events) : events'[n] = events[n]
    BY Commits
  <2> QED
    BY <2>1, <2>2
<1>6. /\ DOMAIN events = 1 .. Len(events) /\ DOMAIN events' = 1 .. Len(events')
      /\ DOMAIN events \subseteq DOMAIN events'
      /\ \A n \in DOMAIN events : events'[n] = events[n]
  BY Commits
<1>7. SaidOK'
  BY <1>5 DEF CallsInv, Told, SaidOK
<1>8. \A d \in Calls : AskedBy(d)' = AskedBy(d)
  <2>1. \A n \in DOMAIN events' : n \in DOMAIN events \/ events'[n].body.type = "other"
    BY <1>5, <1>6 DEF Other
  <2> QED
    BY <1>6, <2>1 DEF AskedBy
<1>9. \A m : Latest(Len(events) + 1, m)' <=> Latest(Len(events) + 1, m)
  BY <1>4
<1>10. \A q, m : Latest(q, m) => m \in Answers
  BY DEF Latest
<1>11. SessionTold'
  BY <1>1, <1>4, <1>9, <1>10 DEF CallsInv, Told, SessionTold
<1>12. writer = Controller /\ Controller \notin Calls
  BY ChatAssumption DEF Commit
<1>13. ASSUME NEW d \in Calls
       PROVE  Continues(d)'
  <2>1. Continues(d) /\ pc[d] # "question"
    BY <1>12 DEF CallsInv, Told, TurnsOK
  <2> QED
    BY <1>1, <1>4, <1>8, <1>10, <2>1 DEF Continues, Resumes
<1> QED
  BY <1>4, <1>7, <1>11, <1>13 DEF Told

\* A question is committed, with what its call knows of the last answer.
LEMMA QuestionTold ==
    ASSUME StreamInv, CallsInv, NEW c \in Calls, CommitQuestion(c)
    PROVE  Told'
<1>1. /\ Commit(c) /\ pc[c] = "question" /\ pc'[c] = "codex" /\ UNCHANGED thread
      /\ session[c] = 1
      /\ \A d \in Calls \ {c} : pc'[d] = pc[d]
      /\ sessions' = IF 1 > Len(sessions) THEN Append(sessions, NoThread) ELSE sessions
  BY DEF CommitQuestion, CallsInv, OneSession
<1>2. Len(draft) = 1 /\ draft[1].body = Question(c, 1)
  BY <1>1 DEF CallsInv, TurnsOK
<1>3. \A n \in 1 .. Len(draft) : draft[n].body.type # "assistant_message"
  BY <1>2 DEF Question
<1> PICK p : p = Len(events) + 1
  OBVIOUS
<1>4. /\ Answers' = Answers /\ HasLatest'
      /\ \A m \in Answers : ThreadOf(m)' = ThreadOf(m)
      /\ \A q, m : Latest(q, m)' <=> Latest(q, m)
      /\ \A m : Latest(Len(events') + 1, m) <=> Latest(p, m)
  BY <1>1, <1>3, QuietCommit DEF CallsInv, Told
<1>5. /\ Len(events) \in Nat /\ p \notin DOMAIN events /\ p \in Nat
      /\ DOMAIN events = 1 .. Len(events) /\ DOMAIN events' = 1 .. Len(events')
      /\ Len(events') = p
      /\ DOMAIN events' = DOMAIN events \cup {p}
      /\ \A n \in DOMAIN events : events'[n] = events[n]
      /\ events'[p].body = Question(c, 1)
  BY <1>1, <1>2, CommitsOne
<1>6. SaidOK'
  BY <1>5 DEF CallsInv, Told, SaidOK
<1>7. \A d \in Calls : AskedBy(d)' = IF d = c THEN AskedBy(d) \cup {p} ELSE AskedBy(d)
  BY <1>5 DEF AskedBy, Question
<1>8. \A m : Latest(Len(events) + 1, m)' <=> Latest(p, m)
  BY <1>4
<1>9. \A q, m : Latest(q, m) => m \in Answers
  BY DEF Latest
<1>10. SessionTold'
  <2>1. CASE Len(sessions) = 0
    <3>1. Len(sessions') = 1 /\ sessions'[1] = NoThread /\ Answers' = {}
      <4>1. sessions = <<>>
        BY <2>1, SessionCount DEF CallsInv
      <4>2. sessions' = <<NoThread>>
        BY <1>1, <2>1, <4>1
      <4> QED
        BY <1>4, <2>1, <4>2 DEF CallsInv, Told, SessionTold
    <3> QED
      BY <1>4, <1>8, <1>9, <3>1 DEF SessionTold
  <2>2. CASE Len(sessions) = 1
    <3>1. UNCHANGED sessions
      BY <1>1, <2>2
    <3> QED
      BY <1>4, <1>8, <1>9, <2>2, <3>1 DEF CallsInv, Told, SessionTold
  <2> QED
    BY <2>1, <2>2 DEF CallsInv, OneSession
<1>11. Continues(c)'
  <2>1. AskedBy(c)' = {p} /\ Resumes(c, p)
    BY <1>1, <1>7 DEF CallsInv, Told, Continues
  <2> QED
    BY <1>1, <1>4, <1>9, <2>1 DEF Continues, Resumes
<1>12. ASSUME NEW d \in Calls, d # c
       PROVE  Continues(d)'
  <2>1. Continues(d) /\ pc'[d] = pc[d] /\ pc[d] # "question"
    BY <1>1, <1>12 DEF CallsInv, Told, TurnsOK
  <2>2. AskedBy(d)' = AskedBy(d)
    BY <1>7, <1>12
  <2> QED
    BY <1>1, <1>4, <1>9, <2>1, <2>2 DEF Continues, Resumes
<1> QED
  BY <1>4, <1>6, <1>10, <1>11, <1>12 DEF Told

\* An answer is committed, with its thread.
LEMMA AnswerTold ==
    ASSUME StreamInv, CallsInv, NEW c \in Calls, CommitAnswer(c)
    PROVE  Told'
<1>1. /\ Commit(c) /\ pc[c] = "answering" /\ pc'[c] = "done" /\ UNCHANGED thread
      /\ session[c] = 1 /\ Len(sessions) = 1 /\ reported[c] \in Threads
      /\ \A d \in Calls \ {c} : pc'[d] = pc[d]
      /\ sessions' = [sessions EXCEPT ![1] = reported[c]]
  BY DEF CommitAnswer, CallsInv, OneSession
<1>2. Len(draft) = 1 /\ draft[1].body = Answer(c, 1, reported[c])
  BY <1>1 DEF CallsInv, TurnsOK
<1> PICK p : p = Len(events) + 1
  OBVIOUS
<1>3. /\ Len(events) \in Nat /\ p \notin DOMAIN events /\ p \in Nat
      /\ DOMAIN events = 1 .. Len(events) /\ DOMAIN events' = 1 .. Len(events')
      /\ Len(events') = p
      /\ DOMAIN events' = DOMAIN events \cup {p}
      /\ \A n \in DOMAIN events : events'[n] = events[n] /\ n < p
      /\ events'[p].body = Answer(c, 1, reported[c])
  BY <1>1, <1>2, CommitsOne
<1>4. SaidOK'
  BY <1>1, <1>3 DEF CallsInv, Told, SaidOK
<1>5. Answers' = Answers \cup {p} /\ \A m \in Answers : m \in DOMAIN events
  BY <1>3 DEF Answers, Answer
<1>6. ThreadOf(p)' = reported[c]
  BY <1>3 DEF ThreadOf, Answer
<1>7. \A q \in 1 .. p : \A m : /\ Latest(q, m)' <=> Latest(q, m)
                               /\ Latest(q, m) => ThreadOf(m)' = ThreadOf(m)
  BY <1>1, LatestStays
<1>8. \A m : Latest(Len(events) + 1, m)' <=> m = p
  <2>1. \A k \in Answers' : k \in 1 .. p /\ k < Len(events') + 1
    BY <1>3, <1>5
  <2> QED
    BY <1>3, <1>5, <2>1 DEF Latest
<1>9. HasLatest'
  <2> SUFFICES ASSUME NEW q \in 1 .. Len(events') + 1
               PROVE  (\A k \in Answers' : k >= q) \/ \E m : Latest(q, m)'
    BY DEF HasLatest
  <2>1. CASE q \in 1 .. p
    <3>1. (\A k \in Answers : k >= q) \/ \E m : Latest(q, m)
      BY <1>3, <2>1 DEF CallsInv, Told, HasLatest
    <3> QED
      BY <1>3, <1>5, <1>7, <2>1, <3>1
  <2>2. CASE q = Len(events') + 1
    <3>1. Latest(q, p)'
      BY <1>8, <2>2
    <3> QED
      BY <3>1
  <2> QED
    BY <1>3, <2>1, <2>2
<1>10. SessionTold'
  <2>1. Len(sessions') = 1 /\ sessions'[1] = reported[c]
    BY <1>1, Singles DEF CallsInv, OneSession
  <2> QED
    BY <1>5, <1>6, <1>8, <2>1 DEF SessionTold
<1>11. \A d \in Calls : AskedBy(d)' = AskedBy(d) /\ AskedBy(d) \subseteq 1 .. Len(events)
  BY <1>3 DEF AskedBy, Answer
<1>12. \A q \in 1 .. Len(events) :
          q \in 1 .. p /\ q < p /\ ((\A k \in Answers' : k >= q) => \A k \in Answers : k >= q)
  BY <1>3, <1>5
<1>13. ASSUME NEW d \in Calls
       PROVE  Continues(d)'
  <2>1. pc'[d] # "question" /\ (pc'[d] = "idle" => pc[d] = "idle")
    BY <1>1, <1>13 DEF CallsInv, TurnsOK
  <2>2. \A q \in AskedBy(d) : Resumes(d, q)'
    BY <1>1, <1>7, <1>11, <1>12 DEF CallsInv, Told, Continues, Resumes
  <2>3. Continues(d) /\ AskedBy(d)' = AskedBy(d)
    BY <1>11 DEF CallsInv, Told
  <2> QED
    BY <2>1, <2>2, <2>3 DEF Continues
<1> QED
  BY <1>4, <1>9, <1>10, <1>13 DEF Told

LEMMA ToldHolds ==
    ASSUME StreamInv, CallsInv, [Next]_vars
    PROVE  Told'
<1>1. ASSUME UNCHANGED <<events, sessions, thread>>,
             \A c \in Calls : pc'[c] = pc[c] \/ pc'[c] \in {"answer", "answering", "failed"}
      PROVE  Told'
  <2>1. ASSUME NEW c \in Calls
        PROVE  Continues(c)'
    <3>1. Continues(c) /\ UNCHANGED events /\ thread'[c] = thread[c]
      BY <1>1 DEF CallsInv, Told
    <3> QED
      BY <1>1, <3>1, CallStands
  <2> QED
    BY <1>1, <2>1, NothingSaid DEF CallsInv
<1>2. CASE UNCHANGED vars
  BY <1>1, <1>2 DEF vars, streamVars, chatVars
<1>3. ASSUME NEW c \in Calls, RunCodex(c) \/ CodexFails(c)
      PROVE  Told'
  BY <1>1, <1>3 DEF RunCodex, CodexFails, streamVars, CallsInv, OneSession
<1>4. ASSUME NEW c \in Calls, RecordAnswer(c)
      PROVE  Told'
  BY <1>1, <1>4 DEF RecordAnswer, Begin, CallsInv, OneSession
<1>5. CASE Elsewhere
  <2>1. CASE Commit(Controller)
    BY <1>5, <2>1, ControllerTold DEF Elsewhere
  <2>2. CASE Begin(Controller, Other) \/ AppendMore(Controller, Other) \/ Rollback(Controller)
    BY <1>1, <1>5, <2>2 DEF Elsewhere, Begin, AppendMore, Rollback, chatVars
  <2> QED
    BY <1>5, <2>1, <2>2 DEF Elsewhere
<1>6. CASE Die
  BY <1>1, <1>6 DEF Die, Crash
<1>7. CASE Watch
  <2>1. UNCHANGED events
    BY <1>7 DEF Watch, Follow, Connect, Select, Yield, Receive, Drop, ledgerVars
  <2> QED
    BY <1>1, <1>7, <2>1 DEF Watch, chatVars
<1> QED
  BY <1>2, <1>3, <1>4, <1>5, <1>6, <1>7, AskTold, QuestionTold, AnswerTold
  DEF Next, Call

LEMMA CallsInvariant == Spec => [](StreamInv /\ CallsInv)
<1>1. Init => CallsInv
  <2> SUFFICES ASSUME Init PROVE CallsInv
    OBVIOUS
  <2>1. /\ sessions = <<>> /\ events = <<>> /\ draft = <<>> /\ writer = NoWriter
        /\ \A c \in Calls : pc[c] = "idle"
        /\ pc \in [Calls -> Labels] /\ session \in [Calls -> {0, 1}]
        /\ thread \in [Calls -> Threads] /\ reported \in [Calls -> Threads]
    BY DEF Init, StreamInit, Labels, Threads
  <2>2. sessions \in Seq(Threads) /\ Len(sessions) = 0 /\ Len(events) = 0 /\ DOMAIN events = {}
    BY <2>1, EmptySeq
  <2>3. TurnsOK
    <3>1. \A c \in Calls : NoWriter # c
      BY StreamAssumption, ChatAssumption
    <3>2. NoWriter # Controller
      BY StreamAssumption, ChatAssumption
    <3> QED
      BY <2>1, <3>1, <3>2 DEF TurnsOK
  <2>4. OneSession
    BY <2>1, <2>2 DEF OneSession
  <2>5. Answers = {} /\ \A c \in Calls : AskedBy(c) = {}
    BY <2>2 DEF Answers, AskedBy
  <2>6. Told
    BY <2>1, <2>2, <2>5 DEF Told, SaidOK, HasLatest, SessionTold, Continues, Latest
  <2> QED
    BY <2>3, <2>4, <2>6 DEF CallsInv
<1>2. Init => StreamInv
  BY StreamInitInv DEF Init
<1>3. StreamInv /\ CallsInv /\ [Next]_vars => (StreamInv /\ CallsInv)'
  BY AnyStepInv, ChatAnyStep, TurnsHold, OneSessionHolds, ToldHolds DEF CallsInv
<1> QED
  BY <1>1, <1>2, <1>3, PTL DEF Spec

\* The one before q that comes last is what Max finds.
LEMMA LatestIsMax ==
    ASSUME StreamInv, NEW q, NEW m, Latest(q, m)
    PROVE  Max({k \in Answers : k < q}) = m
<1>1. \A k \in Answers : k \in Nat
  <2>1. DOMAIN events = 1 .. Len(events)
    BY LenProperties DEF StreamInv, Typed
  <2> QED
    BY <2>1 DEF Answers
<1>2. /\ m \in {k \in Answers : k < q}
      /\ \A k \in {j \in Answers : j < q} : m >= k /\ (k >= m => k = m)
  BY <1>1 DEF Latest
<1> QED
  BY <1>2 DEF Max

\* There is one executor session, whatever calls overlap, and the thread it names is the
\* one of the last answer in the ledger, for any number of calls and other writers.
THEOREM SessionIsTold == Spec => []SessionFollowsLedger
<1>1. StreamInv /\ CallsInv => SessionFollowsLedger
  <2> SUFFICES ASSUME StreamInv, CallsInv PROVE SessionFollowsLedger
    OBVIOUS
  <2>1. Len(sessions) \in {0, 1} /\ (Len(sessions) = 0 <=> sessions = <<>>)
    BY SessionCount DEF CallsInv, OneSession
  <2>2. ASSUME sessions # <<>>, Answers # {}
        PROVE  sessions[1] = events[Max(Answers)].body.thread
    <3>1. DOMAIN events = 1 .. Len(events) /\ Len(events) \in Nat
      BY LenProperties DEF StreamInv, Typed
    <3>2. \A k \in Answers : k \in 1 .. Len(events)
      BY <3>1 DEF Answers
    <3>3. Len(events) + 1 \in 1 .. Len(events) + 1
      BY <3>1
    <3>4. PICK m : Latest(Len(events) + 1, m)
      BY <2>2, <3>1, <3>2, <3>3 DEF CallsInv, Told, HasLatest
    <3>5. {k \in Answers : k < Len(events) + 1} = Answers
      BY <3>1, <3>2
    <3>6. Max(Answers) = m
      BY <3>4, <3>5, LatestIsMax
    <3> QED
      BY <2>1, <3>4, <3>6 DEF CallsInv, Told, SessionTold, ThreadOf
  <2>3. sessions # <<>> /\ Answers = {} => sessions[1] = NoThread
    BY <2>1 DEF CallsInv, Told, SessionTold
  <2> QED
    BY <2>1, <2>2, <2>3 DEF SessionFollowsLedger
<1> QED
  BY <1>1, CallsInvariant, PTL

\* For a question Codex is told to resume the thread of the last answer before it, if there
\* was one, whatever other calls ask, answer and fail, and whatever threads are reported.
THEOREM LastThreadIsResumed == Spec => []ResumesLastThread
<1>1. StreamInv /\ CallsInv => ResumesLastThread
  <2> SUFFICES ASSUME StreamInv, CallsInv, NEW q \in DOMAIN events,
                      events[q].body.type = "user_message"
               PROVE  thread[events[q].body.call] =
                         IF {m \in Answers : m < q} = {} THEN NoThread
                         ELSE events[Max({m \in Answers : m < q})].body.thread
    BY DEF ResumesLastThread
  <2>1. DOMAIN events = 1 .. Len(events) /\ Len(events) \in Nat
    BY LenProperties DEF StreamInv, Typed
  <2>2. PICK c \in Calls : events[q].body.call = c
    <3>1. events[q].body # Other /\ \A c, t : events[q].body # Answer(c, 1, t)
      BY DEF Other, Answer
    <3>2. PICK c \in Calls : events[q].body = Question(c, 1)
      BY <2>1, <3>1 DEF CallsInv, Told, SaidOK
    <3> QED
      BY <3>2 DEF Question
  <2>3. Resumes(c, q)
    BY <2>2 DEF AskedBy, CallsInv, Told, Continues
  <2>4. q \in 1 .. Len(events) + 1 /\ \A k \in Answers : k \in Nat
    BY <2>1 DEF Answers
  <2>5. CASE \A k \in Answers : k >= q
    <3>1. {m \in Answers : m < q} = {}
      BY <2>4, <2>5
    <3> QED
      BY <2>2, <2>3, <2>5, <3>1 DEF Resumes
  <2>6. ASSUME NEW m, Latest(q, m)
        PROVE  thread[c] = events[Max({k \in Answers : k < q})].body.thread
    BY <2>3, <2>6, LatestIsMax DEF Resumes, ThreadOf
  <2>7. CASE \E m : Latest(q, m)
    <3>1. {m \in Answers : m < q} # {}
      BY <2>7 DEF Latest
    <3> QED
      BY <2>2, <2>6, <2>7, <3>1
  <2> QED
    BY <2>4, <2>5, <2>7 DEF CallsInv, Told, HasLatest
<1> QED
  BY <1>1, CallsInvariant, PTL

-----------------------------------------------------------------------------
(* Types. *)

\* The bounds of the model are kept, and a stream that is not open is at 0.
Bounded ==
    /\ Len(events) + Len(draft) <= MaxEvents
    /\ drops \in 0 .. MaxDrops
    /\ \A f \in Followers : conn[f] # "open" => cursor[f] = 0

\* Each part of a step adds to the rows or to the lost connections within the bounds.
LEMMA BoundedHolds ==
    ASSUME StreamInv, TurnsOK, Bounded, [Next]_vars
    PROVE  Bounded'
<1> PICK R : Typed(R)
  BY DEF StreamInv
<1>1. /\ Len(events) \in Nat /\ Len(draft) \in Nat
      /\ writer = NoWriter => Len(draft) = 0
      /\ cursor \in [Followers -> Nat] /\ conn \in [Followers -> {"closed", "open", "over"}]
      /\ MaxEvents \in Nat /\ MaxDrops \in Nat
  BY LenProperties, EmptySeq, StreamAssumption DEF Typed, TurnsOK
<1>2. ASSUME NEW w, NEW body, Begin(w, body)
      PROVE  Bounded'
  <2>1. Len(draft') = 1 /\ UNCHANGED <<events, drops, conn, cursor>> /\ Len(events) < MaxEvents
    BY <1>2 DEF Begin, followVars
  <2> QED
    BY <1>1, <2>1 DEF Bounded
<1>3. ASSUME NEW w, NEW body, AppendMore(w, body)
      PROVE  Bounded'
  <2>1. Len(draft') = Len(draft) + 1
    <3>1. DEFINE row == NextRow(events \o draft, body)
    <3> HIDE DEF row
    <3>2. draft' = Append(draft, row)
      BY <1>3 DEF AppendMore, row
    <3>3. draft \in Seq(R \cup {row})
      BY SeqMonotonic DEF Typed
    <3> QED
      BY <3>2, <3>3, AppendProperties
  <2>2. UNCHANGED <<events, drops, conn, cursor>> /\ Len(events) + Len(draft) < MaxEvents
    BY <1>3 DEF AppendMore, followVars
  <2> QED
    BY <1>1, <2>1, <2>2 DEF Bounded
<1>4. ASSUME NEW w, Commit(w)
      PROVE  Bounded'
  <2>1. Len(events') = Len(events) + Len(draft) /\ Len(draft') = 0
    BY <1>4, Commits DEF Commit
  <2>2. UNCHANGED <<drops, conn, cursor>>
    BY <1>4 DEF Commit, followVars
  <2> QED
    BY <1>1, <2>1, <2>2 DEF Bounded
<1>5. ASSUME NEW w, Rollback(w)
      PROVE  Bounded'
  <2>1. Len(draft') = 0 /\ UNCHANGED <<events, drops, conn, cursor>>
    BY <1>5 DEF Rollback, followVars
  <2> QED
    BY <1>1, <2>1 DEF Bounded
<1>6. ASSUME NEW f \in Followers, Follow(f)
      PROVE  Bounded'
  <2>1. UNCHANGED <<events, draft, drops>>
    BY <1>6 DEF Follow, Connect, Select, Yield, Receive, ledgerVars
  <2>2. ASSUME NEW g \in Followers, conn'[g] # "open"
        PROVE  cursor'[g] = 0
    BY <1>1, <1>6, <2>2 DEF Bounded, Follow, Connect, Select, Yield, Receive
  <2> QED
    BY <2>1, <2>2 DEF Bounded
<1>7. ASSUME NEW lost, Lose(lost)
      PROVE  /\ drops' \in 0 .. MaxDrops
             /\ \A g \in Followers : conn'[g] # "open" => cursor'[g] = 0
  BY <1>1, <1>7 DEF Bounded, Lose
<1>8. ASSUME NEW f \in Followers, Drop(f)
      PROVE  Bounded'
  BY <1>7, <1>8 DEF Drop, ledgerVars, Bounded
<1>9. ASSUME Crash
      PROVE  Bounded'
  <2>1. UNCHANGED events /\ Len(draft') = 0
    BY <1>9 DEF Crash
  <2>2. Lose({f \in Followers : conn[f] = "open"})
    BY <1>9 DEF Crash
  <2>3. Len(events') + Len(draft') <= MaxEvents
    BY <1>1, <2>1 DEF Bounded
  <2> QED
    BY <1>7, <2>2, <2>3 DEF Bounded
<1>10. ASSUME NEW c \in Calls, Call(c)
       PROVE  Bounded'
  <2>1. CASE Ask(c) \/ RecordAnswer(c)
    BY <1>2, <2>1 DEF Ask, RecordAnswer
  <2>2. CASE CommitQuestion(c) \/ CommitAnswer(c)
    BY <1>4, <2>2 DEF CommitQuestion, CommitAnswer
  <2>3. CASE RunCodex(c) \/ CodexFails(c)
    BY <2>3 DEF RunCodex, CodexFails, streamVars, Bounded
  <2> QED
    BY <1>10, <2>1, <2>2, <2>3 DEF Call
<1>11. CASE Elsewhere
  BY <1>2, <1>3, <1>4, <1>5, <1>11 DEF Elsewhere
<1>12. CASE UNCHANGED vars
  BY <1>12 DEF vars, streamVars, Bounded
<1> QED
  BY <1>6, <1>8, <1>9, <1>10, <1>11, <1>12 DEF Next, Die, Watch

\* The type invariant, for any number of calls, writers and followers: what the ledger
\* holds is what chat and the rest of the controller may say, each row has its number
\* and its digest, and no counter passes its bound.
THEOREM ChatTypes == Spec => []TypeOK
<1>1. Init => Bounded
  <2> SUFFICES ASSUME Init PROVE Bounded
    OBVIOUS
  <2>1. Len(events) = 0 /\ Len(draft) = 0 /\ drops = 0 /\ \A f \in Followers : cursor[f] = 0
    BY DEF Init, StreamInit
  <2> QED
    BY <2>1, StreamAssumption DEF Bounded
<1>2. StreamInv /\ CallsInv /\ Bounded /\ [Next]_vars => Bounded'
  BY BoundedHolds DEF CallsInv
<1>3. StreamInv /\ CallsInv /\ Bounded => TypeOK
  <2> SUFFICES ASSUME StreamInv, CallsInv, Bounded PROVE TypeOK
    OBVIOUS
  <2> PICK R : Typed(R)
    BY DEF StreamInv
  <2>1. /\ Len(events) \in Nat /\ Len(draft) \in Nat /\ DOMAIN events = 1 .. Len(events)
        /\ MaxEvents \in Nat
    BY LenProperties, StreamAssumption DEF Typed
  <2>2. Len(events) + Len(draft) \in 0 .. MaxEvents
    BY <2>1 DEF Bounded
  <2>3. ASSUME NEW n \in DOMAIN events
        PROVE  IsRow(events[n], n) /\ events[n].body \in Bodies
    <3>1. Chained(events)
      BY PrefixChained DEF StreamInv, Typed
    <3>2. IsRow(events[n], n)
      BY <2>1, <3>1 DEF Chained, IsRow
    <3> QED
      BY <2>1, <3>2, BodiesAssumption DEF CallsInv, Told, SaidOK
  <2>4. ASSUME NEW f \in Followers
        PROVE  cursor[f] \in 0 .. MaxEvents
    <3>1. Len(got[f]) \in Nat /\ Len(wire[f]) \in Nat /\ cursor[f] \in Nat
      BY LenProperties DEF Typed
    <3>2. CASE conn[f] = "open"
      <4>1. Len(page[f]) \in Nat /\ cursor[f] + Len(page[f]) <= Len(events)
        BY <3>2, LenProperties DEF StreamInv, Placed, PartFrom, Typed
      <4> QED
        BY <2>1, <3>1, <4>1 DEF Bounded
    <3>3. CASE conn[f] # "open"
      BY <2>1, <3>3 DEF Bounded
    <3> QED
      BY <3>2, <3>3
  <2>5. cursor \in [Followers -> 0 .. MaxEvents]
    BY <2>4 DEF Typed
  <2>6. \A s \in DOMAIN sessions : sessions[s] \in Threads
    BY DEF CallsInv, OneSession
  <2> QED
    BY <2>2, <2>3, <2>5, <2>6 DEF TypeOK, Typed, CallsInv, TurnsOK, OneSession, Bounded
<1> QED
  BY <1>1, <1>2, <1>3, CallsInvariant, PTL DEF Spec
=============================================================================
