-------------------------------- MODULE Chat --------------------------------
(***************************************************************************)
(* Calls of VeriLabService.chat, each in a thread of its own, and what the *)
(* event stream shows of them. A call records the question, with the       *)
(* session it belongs to, runs Codex in the thread that the session had at *)
(* that time, or in a new one, and records the answer and the thread. No   *)
(* transaction is open while Codex runs, and calls overlap. The rest of    *)
(* the controller appends events of its own.                               *)
(*                                                                         *)
(* Codex is external: it answers or fails (a nonzero exit, the 1800 s      *)
(* timeout), and reports the thread it was in, one of its own even when it *)
(* was told to resume another, or none.                                    *)
(***************************************************************************)
EXTENDS EventStream, FiniteSetsExt

CONSTANTS
    Calls,          \* calls of chat
    Controller,     \* the other writer
    NoThread

ASSUME ChatAssumption == Writers = Calls \cup {Controller} /\ Controller \notin Calls

VARIABLES
    sessions,   \* ACTIVE executor rows of codex_sessions, oldest first: thread_id
    pc,         \* per call: where it is
    session,    \* per call: the session it took or creates
    thread,     \* per call: thread_id, the thread it resumes
    reported    \* per call: result.thread_id, the thread of its answer

chatVars == <<sessions, pc, session, thread, reported>>
vars == <<streamVars, chatVars>>

Labels == {"idle", "question", "codex", "answer", "answering", "done", "failed"}
Threads == Calls \cup {NoThread}    \* a thread is named after the call it began with

Question(c, s) == [type |-> "user_message", session |-> s, call |-> c]
Answer(c, s, t) == [type |-> "assistant_message", session |-> s, call |-> c, thread |-> t]
Other == [type |-> "other"]

\* What the two writers may say.
ASSUME BodiesAssumption ==
    /\ Other \in Bodies
    /\ \A c \in Calls : Question(c, 1) \in Bodies
    /\ \A c \in Calls, t \in Threads : Answer(c, 1, t) \in Bodies

Init ==
    /\ StreamInit
    /\ sessions = <<>>
    /\ pc = [c \in Calls |-> "idle"]
    /\ session = [c \in Calls |-> 0]
    /\ thread = [c \in Calls |-> NoThread]
    /\ reported = [c \in Calls |-> NoThread]

-----------------------------------------------------------------------------
\* The latest active session, or a new one, with its thread; and the question.
Ask(c) ==
    LET s == IF sessions = <<>> THEN 1 ELSE Len(sessions)
    IN  /\ pc[c] = "idle"
        /\ Begin(c, Question(c, s))
        /\ session' = [session EXCEPT ![c] = s]
        /\ thread' = [thread EXCEPT ![c] = IF sessions = <<>> THEN NoThread ELSE sessions[s]]
        /\ pc' = [pc EXCEPT ![c] = "question"]
        /\ UNCHANGED <<sessions, reported>>

CommitQuestion(c) ==
    /\ pc[c] = "question"
    /\ Commit(c)
    /\ sessions' = IF session[c] > Len(sessions) THEN Append(sessions, NoThread) ELSE sessions
    /\ pc' = [pc EXCEPT ![c] = "codex"]
    /\ UNCHANGED <<session, thread, reported>>

\* CodexDriver.executor: the thread reported, or else the one resumed.
RunCodex(c) ==
    /\ pc[c] = "codex"
    /\ \E t \in {c, thread[c]} : reported' = [reported EXCEPT ![c] = t]
    /\ pc' = [pc EXCEPT ![c] = "answer"]
    /\ UNCHANGED <<streamVars, sessions, session, thread>>

\* CodexDriverError leaves chat with the question recorded and no answer.
CodexFails(c) ==
    /\ pc[c] = "codex"
    /\ pc' = [pc EXCEPT ![c] = "failed"]
    /\ UNCHANGED <<streamVars, sessions, session, thread, reported>>

RecordAnswer(c) ==
    /\ pc[c] = "answer"
    /\ Begin(c, Answer(c, session[c], reported[c]))
    /\ pc' = [pc EXCEPT ![c] = "answering"]
    /\ UNCHANGED <<sessions, session, thread, reported>>

\* Mutant: a session keeps the first thread it is given.
CommitAnswerKeeping(c) ==
    /\ pc[c] = "answering"
    /\ Commit(c)
    /\ sessions' = [sessions EXCEPT ![session[c]] = IF @ = NoThread THEN reported[c] ELSE @]
    /\ pc' = [pc EXCEPT ![c] = "done"]
    /\ UNCHANGED <<session, thread, reported>>

\* Mutant: the thread is not stored.
CommitAnswerOnly(c) ==
    /\ pc[c] = "answering"
    /\ Commit(c)
    /\ pc' = [pc EXCEPT ![c] = "done"]
    /\ UNCHANGED <<sessions, session, thread, reported>>

CommitAnswer(c) ==
    /\ pc[c] = "answering"
    /\ Commit(c)
    /\ sessions' = [sessions EXCEPT ![session[c]] = reported[c]]
    /\ pc' = [pc EXCEPT ![c] = "done"]
    /\ UNCHANGED <<session, thread, reported>>

\* Transactions of the rest of the controller: one event or two.
Elsewhere ==
    /\ \/ Begin(Controller, Other)
       \/ AppendMore(Controller, Other)
       \/ Commit(Controller)
       \/ Rollback(Controller)
    /\ UNCHANGED chatVars

\* A crash of the server ends the calls under way; sessions stay ACTIVE.
Die ==
    /\ Crash
    /\ pc' = [c \in Calls |-> IF pc[c] \in {"idle", "done"} THEN pc[c] ELSE "failed"]
    /\ UNCHANGED <<sessions, session, thread, reported>>

Watch ==
    /\ \E f \in Followers : Follow(f) \/ Drop(f)
    /\ UNCHANGED chatVars

Call(c) ==
    \/ Ask(c) \/ CommitQuestion(c) \/ RunCodex(c) \/ CodexFails(c)
    \/ RecordAnswer(c) \/ CommitAnswer(c)

Next == (\E c \in Calls : Call(c)) \/ Elsewhere \/ Die \/ Watch

Spec == Init /\ [][Next]_vars

\* Each stream's loop and each page's reconnection go on as long as they can.
Fairness ==
    /\ \A f \in Pages : WF_vars(Follow(f) /\ UNCHANGED chatVars)

FairSpec == Spec /\ Fairness

-----------------------------------------------------------------------------
(* Properties. *)

\* The type invariant.
TypeOK ==
    /\ Len(events) + Len(draft) \in 0 .. MaxEvents
    /\ \A n \in DOMAIN events : IsRow(events[n], n) /\ events[n].body \in Bodies
    /\ writer \in Writers \cup {NoWriter}
    /\ conn \in [Followers -> {"closed", "open", "over"}]
    /\ cursor \in [Followers -> 0 .. MaxEvents]
    /\ drops \in 0 .. MaxDrops
    /\ pc \in [Calls -> Labels]
    /\ thread \in [Calls -> Threads] /\ reported \in [Calls -> Threads]
    /\ session \in [Calls -> {0, 1}]
    /\ \A s \in DOMAIN sessions : sessions[s] \in Threads

\* Answers among the events, by row number.
Answers == {n \in DOMAIN events : events[n].body.type = "assistant_message"}

\* However calls overlap, one executor session exists (service.py chat), and the thread
\* it names is that of the last answer in the ledger, so that the table can be rebuilt
\* from the events.
SessionFollowsLedger ==
    /\ Len(sessions) <= 1
    /\ sessions # <<>> =>
          sessions[1] = IF Answers = {} THEN NoThread ELSE events[Max(Answers)].body.thread

\* The thread that Codex is told to resume for a question is that of the last answer
\* before the question, and it is told none only if there was no answer or the last one
\* named none: no conversation is begun afresh once there is one to resume, whatever other
\* calls answered, and whatever thread Codex then reported.
ResumesLastThread ==
    \A q \in DOMAIN events :
        events[q].body.type = "user_message" =>
            LET before == {m \in Answers : m < q}
            IN  thread[events[q].body.call] =
                    IF before = {} THEN NoThread ELSE events[Max(before)].body.thread
=============================================================================
