------------------------------ MODULE MCReview ------------------------------
(* Instance of Review: two checks, and answers that end in every way there   *)
(* is. A check given twice blocks as a wrong bundle does, and an ineligible   *)
(* verdict rejects as an unknown check does: what is accepted, of any         *)
(* outputs, is the subject of JudgementIsValidity in ReviewProofs.            *)
EXTENDS Review, TLC

CONSTANTS integrity, protocol

Checks(first, second) ==
    <<[name |-> integrity, status |-> first], [name |-> protocol, status |-> second]>>

Good == [target |-> "own", verdict |-> "eligible", checks |-> Checks("pass", "pass"),
         cites |-> "bundle", quotes |-> "bundle"]

MCAnswers ==
    {Good,
     [Good EXCEPT !.verdict = "needs_human"],
     [Good EXCEPT !.checks = Checks("pass", "unknown")],
     [Good EXCEPT !.target = "any"],
     [Good EXCEPT !.cites = "later"]}

\* Retries are interchangeable.
Symmetry == Permutations(Retriers)
=============================================================================
