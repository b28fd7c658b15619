------------------------------- MODULE MCChat -------------------------------
(* Instance of Chat: everything an event of it may say, of its one session.   *)
EXTENDS Chat

MCWriters == Calls \cup {Controller}

MCBodies ==
    {Other} \cup
    UNION {{Question(c, 1), Answer(c, 1, t)} : c \in Calls, t \in Threads}
=============================================================================
