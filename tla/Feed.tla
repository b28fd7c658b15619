-------------------------------- MODULE Feed --------------------------------
(***************************************************************************)
(* What the event stream promises: a log that only grows, and followers    *)
(* each of whom is given every entry of it once and in order, whatever     *)
(* becomes of connections and of the server. EventStream.tla is checked    *)
(* and proved to implement it.                                             *)
(***************************************************************************)
EXTENDS Naturals, Sequences

CONSTANT Followers

VARIABLES log, received

vars == <<log, received>>

Init ==
    /\ log = <<>>
    /\ received = [f \in Followers |-> <<>>]

Publish ==
    /\ Len(log') >= Len(log)
    /\ \A n \in DOMAIN log : log'[n] = log[n]
    /\ UNCHANGED received

Deliver(f) ==
    /\ Len(received[f]) < Len(log)
    /\ received' = [received EXCEPT ![f] = Append(@, log[Len(@) + 1])]
    /\ UNCHANGED log

Next == Publish \/ \E f \in Followers : Deliver(f)

Spec == Init /\ [][Next]_vars
=============================================================================
