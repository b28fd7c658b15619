------------------------------- MODULE Docket -------------------------------
(***************************************************************************)
(* What the controller promises about reviews, with no thread, file or     *)
(* crash in sight: every attempt gives at most one opinion, an opinion on  *)
(* record never changes, and an experiment under review is settled only in *)
(* the sense of an opinion on record, or because its files have changed.   *)
(* Review.tla is checked and proved to implement it.                       *)
(***************************************************************************)
EXTENDS Naturals, Sequences

VARIABLES
    status,     \* of the experiment under review
    opinions    \* by attempt, the status it asks for, or "none"

vars == <<status, opinions>>

Asked == {"ACCEPTED", "REJECTED", "NEEDS_HUMAN", "REVIEW_BLOCKED"}

Init ==
    /\ status = "REVIEW_PENDING"
    /\ opinions = <<>>

Attempt ==
    /\ opinions' = Append(opinions, "none")
    /\ UNCHANGED status

Opine(a, s) ==
    /\ opinions[a] = "none"
    /\ opinions' = [opinions EXCEPT ![a] = s]
    /\ UNCHANGED status

OnRecord(s) == \E a \in DOMAIN opinions : opinions[a] = s

Settle(s) ==
    /\ status = "REVIEW_PENDING"
    /\ s = "VERIFICATION_FAILED" \/ OnRecord(s)
    /\ status' = s
    /\ UNCHANGED opinions

Reopen ==
    /\ status \in {"REVIEW_BLOCKED", "NEEDS_HUMAN"}
    /\ status' = "REVIEW_PENDING"
    /\ UNCHANGED opinions

Next ==
    \/ Attempt
    \/ \E a \in DOMAIN opinions, s \in Asked : Opine(a, s)
    \/ \E s \in Asked \cup {"VERIFICATION_FAILED"} : Settle(s)
    \/ Reopen

Spec == Init /\ [][Next]_vars
=============================================================================
