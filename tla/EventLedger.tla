---------------------------- MODULE EventLedger ----------------------------
(***************************************************************************)
(* The hash chain of ledger.py as operators on a sequence of rows. A row   *)
(* has its number, the digest of the row before, its own digest, and a     *)
(* body that stands for the columns and the payload. The digest is the     *)
(* tuple of what goes into it: SHA-256 is taken as injective. No payload   *)
(* fails to parse as JSON here.                                            *)
(***************************************************************************)
EXTENDS Naturals, Sequences

Genesis == <<"genesis">>

\* event_digest.
Digest(prev, seq, body) == <<prev, seq, body>>

\* The digest and the number of the last row, which the next one builds on.
HeadHash(rows) == IF rows = <<>> THEN Genesis ELSE rows[Len(rows)].hash
HeadSeq(rows) == IF rows = <<>> THEN 0 ELSE rows[Len(rows)].seq

\* The row that EventLedger.append adds after the given ones.
NextRow(rows, body) ==
    LET seq == HeadSeq(rows) + 1
        prev == HeadHash(rows)
    IN  [seq |-> seq, prev |-> prev, hash |-> Digest(prev, seq, body), body |-> body]

\* What verify() expects of row i, from the row before.
ExpectedSeq(rows, i) == IF i = 1 THEN 1 ELSE rows[i - 1].seq + 1
ExpectedPrev(rows, i) == IF i = 1 THEN Genesis ELSE rows[i - 1].hash

\* Mutant: each row is only compared with its own digest.
ErrorsOfRows(rows) ==
    {i \in DOMAIN rows : rows[i].hash # Digest(rows[i].prev, rows[i].seq, rows[i].body)}

\* EventLedger.verify: the rows it complains of.
Errors(rows) ==
    {i \in DOMAIN rows :
        \/ rows[i].seq # ExpectedSeq(rows, i)
        \/ rows[i].prev # ExpectedPrev(rows, i)
        \/ rows[i].hash # Digest(rows[i].prev, rows[i].seq, rows[i].body)}

\* EventLedger.list: numbers are primary keys and leave no gaps, so that the row
\* with number n is the n-th.
Page(rows, after, limit) ==
    SubSeq(rows, after + 1, IF Len(rows) <= after + limit THEN Len(rows) ELSE after + limit)
=============================================================================
