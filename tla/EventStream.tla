---------------------------- MODULE EventStream ----------------------------
(***************************************************************************)
(* The event ledger and those who follow it: transactions that append rows *)
(* to the hash chain (ledger.py, db.py), and the server-sent event streams *)
(* that GET /api/events serves from it (api.py), read by web pages, whose  *)
(* EventSource reconnects with the id of the last event it was given, and  *)
(* by `verilab follow`, which starts at 0 and ends with its connection.    *)
(*                                                                         *)
(* BEGIN IMMEDIATE lets one transaction write at a time; the others wait   *)
(* for it. Readers see committed rows. An event that was sent may be lost  *)
(* with its connection, and is otherwise received in order (TCP).          *)
(***************************************************************************)
EXTENDS EventLedger

CONSTANTS
    Writers,            \* threads that open writing transactions
    NoWriter,
    Bodies,             \* what an event may say
    Followers,          \* readers of the stream
    Pages,              \* those of them that reconnect
    PageSize,           \* limit=500 in api.py
    MaxEvents, MaxDrops \* bounds: rows, connections lost

ASSUME StreamAssumption ==
    /\ Pages \subseteq Followers
    /\ PageSize \in Nat \ {0}
    /\ MaxEvents \in Nat
    /\ MaxDrops \in Nat
    /\ NoWriter \notin Writers

VARIABLES
    events,     \* committed rows of the events table
    writer,     \* the writer in a transaction
    draft,      \* its rows, not committed
    conn,       \* per follower: "closed", "open" or, of follow, "over"
    cursor,     \* per stream: the number of the row last sent
    page,       \* per stream: rows read and not yet sent
    wire,       \* per stream: rows sent and not yet received
    got,        \* per follower: rows received
    drops       \* counts lost connections

ledgerVars == <<events, writer, draft>>
followVars == <<conn, cursor, page, wire, got>>
streamVars == <<events, writer, draft, conn, cursor, page, wire, got, drops>>

StreamInit ==
    /\ events = <<>> /\ writer = NoWriter /\ draft = <<>>
    /\ conn = [f \in Followers |-> "closed"]
    /\ cursor = [f \in Followers |-> 0]
    /\ page = [f \in Followers |-> <<>>]
    /\ wire = [f \in Followers |-> <<>>]
    /\ got = [f \in Followers |-> <<>>]
    /\ drops = 0

-----------------------------------------------------------------------------
(* Transactions. *)

\* Database.transaction up to the first EventLedger.append in it.
Begin(w, body) ==
    /\ writer = NoWriter
    /\ Len(events) < MaxEvents
    /\ writer' = w
    /\ draft' = <<NextRow(events, body)>>
    /\ UNCHANGED <<events, followVars, drops>>

\* Mutant: append opens a connection of its own inside the transaction.
AppendMoreApart(w, body) ==
    /\ writer = w
    /\ Len(events) + Len(draft) < MaxEvents
    /\ draft' = Append(draft, NextRow(events, body))
    /\ UNCHANGED <<events, writer, followVars, drops>>

\* Another append in the same transaction, whose connection sees its own rows.
AppendMore(w, body) ==
    /\ writer = w
    /\ Len(events) + Len(draft) < MaxEvents
    /\ draft' = Append(draft, NextRow(events \o draft, body))
    /\ UNCHANGED <<events, writer, followVars, drops>>

Commit(w) ==
    /\ writer = w
    /\ events' = events \o draft
    /\ writer' = NoWriter
    /\ draft' = <<>>
    /\ UNCHANGED <<followVars, drops>>

\* The body of the transaction raises.
Rollback(w) ==
    /\ writer = w
    /\ writer' = NoWriter
    /\ draft' = <<>>
    /\ UNCHANGED <<events, followVars, drops>>

-----------------------------------------------------------------------------
(* Streams. *)

\* The id of the last event received, which is the Last-Event-ID header.
LastId(f) == IF got[f] = <<>> THEN 0 ELSE got[f][Len(got[f])].seq

\* Mutant: the header is ignored.
ConnectFromStart(f) ==
    /\ conn[f] = "closed"
    /\ conn' = [conn EXCEPT ![f] = "open"]
    /\ cursor' = [cursor EXCEPT ![f] = 0]
    /\ UNCHANGED <<ledgerVars, page, wire, got, drops>>

\* Mutant: a new connection is only told what comes after it.
ConnectAtHead(f) ==
    /\ conn[f] = "closed"
    /\ conn' = [conn EXCEPT ![f] = "open"]
    /\ cursor' = [cursor EXCEPT ![f] = Len(events)]
    /\ UNCHANGED <<ledgerVars, page, wire, got, drops>>

\* GET /api/events: cursor = max(after, Last-Event-ID), with after = 0.
Connect(f) ==
    /\ conn[f] = "closed"
    /\ conn' = [conn EXCEPT ![f] = "open"]
    /\ cursor' = [cursor EXCEPT ![f] = LastId(f)]
    /\ UNCHANGED <<ledgerVars, page, wire, got, drops>>

\* The stream reads its next rows once it has sent those it had; with none it
\* sends a keepalive and sleeps.
Select(f) ==
    /\ conn[f] = "open"
    /\ page[f] = <<>>
    /\ cursor[f] < Len(events)
    /\ page' = [page EXCEPT ![f] = Page(events, cursor[f], PageSize)]
    /\ UNCHANGED <<ledgerVars, conn, cursor, wire, got, drops>>

Yield(f) ==
    /\ conn[f] = "open"
    /\ page[f] # <<>>
    /\ cursor' = [cursor EXCEPT ![f] = Head(page[f]).seq]
    /\ page' = [page EXCEPT ![f] = Tail(@)]
    /\ wire' = [wire EXCEPT ![f] = Append(@, Head(page[f]))]
    /\ UNCHANGED <<ledgerVars, conn, got, drops>>

Receive(f) ==
    /\ wire[f] # <<>>
    /\ got' = [got EXCEPT ![f] = Append(@, Head(wire[f]))]
    /\ wire' = [wire EXCEPT ![f] = Tail(@)]
    /\ UNCHANGED <<ledgerVars, conn, cursor, page, drops>>

\* What is left of the streams of the given followers once their connections
\* are gone.
Lose(lost) ==
    /\ conn' = [f \in Followers |->
                    IF f \notin lost THEN conn[f] ELSE IF f \in Pages THEN "closed" ELSE "over"]
    /\ cursor' = [f \in Followers |-> IF f \in lost THEN 0 ELSE cursor[f]]
    /\ page' = [f \in Followers |-> IF f \in lost THEN <<>> ELSE page[f]]
    /\ wire' = [f \in Followers |-> IF f \in lost THEN <<>> ELSE wire[f]]
    /\ drops < MaxDrops
    /\ drops' = drops + 1
    /\ UNCHANGED got

Drop(f) ==
    /\ conn[f] = "open"
    /\ Lose({f})
    /\ UNCHANGED ledgerVars

\* The server dies: connections with it, and the transaction is rolled back.
Crash ==
    /\ Lose({f \in Followers : conn[f] = "open"})
    /\ writer' = NoWriter
    /\ draft' = <<>>
    /\ UNCHANGED events

Follow(f) == Connect(f) \/ Select(f) \/ Yield(f) \/ Receive(f)

StreamNext ==
    \/ \E w \in Writers :
        \/ \E body \in Bodies : Begin(w, body) \/ AppendMore(w, body)
        \/ Commit(w) \/ Rollback(w)
    \/ \E f \in Followers : Follow(f) \/ Drop(f)
    \/ Crash

StreamSpec == StreamInit /\ [][StreamNext]_streamVars

-----------------------------------------------------------------------------
(* Properties. *)

\* Row n of a table of this ledger, if it is to be believed.
IsRow(row, n) ==
    /\ row.seq = n
    /\ row.hash = Digest(row.prev, n, row.body)

\* The ledger verifies after every commit, rollback and crash, the rows of the
\* open transaction included: what audit verify says of an untouched database
\* (ledger.py append and verify).
ChainVerifies == Errors(events \o draft) = {}

\* One stored row altered, one row other than the last removed, and one row other
\* than the last altered and given the digest it should then have are all noticed
\* by verify (README.md: the ledger detects accidental event drift).
DriftShows ==
    /\ \A i \in DOMAIN events, body \in Bodies :
        body # events[i].body =>
            /\ Errors([events EXCEPT ![i].body = body]) # {}
            /\ i < Len(events) =>
                Errors([events EXCEPT ![i].body = body,
                                      ![i].hash = Digest(events[i].prev, i, body)]) # {}
    /\ \A i \in 1 .. Len(events) - 1 :
        Errors(SubSeq(events, 1, i - 1) \o SubSeq(events, i + 1, Len(events))) # {}

Promise == INSTANCE Feed WITH log <- events, received <- got

\* Every follower is given the committed rows once each and in order, over lost
\* connections and restarts, and no row that is rolled back (api.py events).
ImplementsFeed == Promise!Spec

\* A page that stays open is given every committed row in the end.
EveryEventArrives == \A f \in Pages : []<>(got[f] = events)
=============================================================================
