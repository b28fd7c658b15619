------------------------------ MODULE StateDir ------------------------------
(***************************************************************************)
(* The files of the state directory that several processes write: the      *)
(* capability token, made by the first Settings.load, and the trusted      *)
(* policy, which `verilab policy install` puts into policies/<hash>.json   *)
(* and then into policy.json, each by way of a temporary file whose name   *)
(* all installations share (config.py, cli.py). Submissions read           *)
(* policy.json, then the snapshot it names, and queue an experiment bound  *)
(* to that hash (service.py).                                              *)
(*                                                                         *)
(* Paths are links to files; whoever has a file open writes to it by       *)
(* whatever name it goes. Opening for writing empties the file. A policy   *)
(* is small and written by one call. Hashes are taken for the policies     *)
(* they are of.                                                            *)
(***************************************************************************)
EXTENDS Naturals, FiniteSets, FiniteSetsExt, Functions

CONSTANTS
    Installers, Servers,    \* processes: policy install, serve
    Submitters,             \* submissions, in the server
    Policies,
    Default,                \* names policy.json and its temporary file
    NoFile, NoPolicy,
    MaxDeaths, MaxCrowd     \* bounds: installations killed, and under way at once

Processes == Installers \cup Servers
Files == 1 .. 2 * Cardinality(Installers)
Names == Policies \cup {Default}
Contents == Policies \cup {"empty", "mixed"}

ASSUME DirAssumption ==
    /\ IsFiniteSet(Installers)
    /\ Installers \cap Servers = {} /\ Submitters \cap Processes = {}
    /\ Default \notin Policies /\ NoPolicy \notin Policies
    /\ NoFile \notin Policies /\ NoFile \notin Processes
    /\ NoFile \notin Files /\ NoFile # "empty"
    /\ MaxDeaths \in Nat /\ MaxCrowd \in Nat

VARIABLES
    link,       \* [name, suffix]: the file there, or NoFile
    content,    \* per file
    token,      \* capability.token: NoFile, "empty", or the process that made it
    held,       \* per server: the token it goes on with
    pc,         \* per process and submission: where it is
    wants,      \* per installer: the policy it installs
    target,     \* per installer: the name it is writing
    open,       \* per installer: the file it has open
    bound,      \* per submission: the policy it read
    jobs,       \* policies that queued experiments are bound to
    ledger,     \* the policy of the last policy.installed event
    crowd,      \* most installations that were under way at once
    raced,      \* a token was looked for while another process was making it
    deaths      \* counts installations killed

files == <<link, content>>
tokens == <<token, held, raced>>
locals == <<wants, target, open>>
vars == <<files, tokens, locals, pc, bound, jobs, ledger, crowd, deaths>>

Labels == {"start", "make", "fill", "check", "open", "write", "publish", "record", "serving",
           "done", "failed", "dead"}
SubmitLabels == {"idle", "snapshot", "insert", "queued", "no_policy", "refused"}

Json(n) == <<n, "json">>
Temp(n) == <<n, "tmp">>
Links == Names \X {"json", "tmp"}

At(l) == IF link[l] = NoFile THEN NoFile ELSE content[link[l]]
\* A file that nobody has open and no name links to is gone.
Collected(newLink, newOpen) ==
    [f \in Files |-> IF f \in Range(newLink) \cup Range(newOpen) THEN content[f] ELSE "empty"]

Installing == {i \in Installers : pc[i] \in {"check", "open", "write", "publish", "record"}}

Init ==
    /\ link = [l \in Links |-> NoFile]
    /\ content = [f \in Files |-> "empty"]
    /\ token = NoFile
    /\ held = [p \in Servers |-> NoFile]
    /\ pc = [p \in Processes \cup Submitters |-> IF p \in Processes THEN "start" ELSE "idle"]
    /\ wants = [i \in Installers |-> NoPolicy]
    /\ target = [i \in Installers |-> Default]
    /\ open = [i \in Installers |-> NoFile]
    /\ bound = [s \in Submitters |-> NoPolicy]
    /\ jobs = {} /\ ledger = NoPolicy
    /\ crowd = 0 /\ raced = FALSE /\ deaths = 0

-----------------------------------------------------------------------------
(* Settings.load. *)

\* What a process does once it has a token. An installation has read and pinned
\* its policy, and made the directories.
Proceed(p, t) ==
    IF p \in Servers
    THEN /\ pc' = [pc EXCEPT ![p] = "serving"]
         /\ held' = [held EXCEPT ![p] = t]
         /\ UNCHANGED <<wants, crowd>>
    ELSE /\ Cardinality(Installing) < MaxCrowd
         /\ pc' = [pc EXCEPT ![p] = "check"]
         /\ \E policy \in Policies : wants' = [wants EXCEPT ![p] = policy]
         /\ crowd' = Max({crowd, Cardinality(Installing) + 1})
         /\ UNCHANGED held

Making == {p \in Processes : pc[p] \in {"make", "fill"}}

\* Mutant: a token is made whether or not there is one.
LoadAnew(p) ==
    /\ pc[p] = "start"
    /\ raced' = (raced \/ Making # {})
    /\ pc' = [pc EXCEPT ![p] = "make"]
    /\ UNCHANGED <<files, token, held, locals, bound, jobs, ledger, crowd, deaths>>

\* A token that exists is read, and may be empty.
Load(p) ==
    /\ pc[p] = "start"
    /\ raced' = (raced \/ Making # {})
    /\ IF token = NoFile
       THEN pc' = [pc EXCEPT ![p] = "make"] /\ UNCHANGED <<held, wants, crowd>>
       ELSE Proceed(p, token)
    /\ UNCHANGED <<files, token, target, open, bound, jobs, ledger, deaths>>

MakeToken(p) ==
    /\ pc[p] = "make"
    /\ token' = "empty"
    /\ pc' = [pc EXCEPT ![p] = "fill"]
    /\ UNCHANGED <<files, held, raced, locals, bound, jobs, ledger, crowd, deaths>>

FillToken(p) ==
    /\ pc[p] = "fill"
    /\ token' = p
    /\ Proceed(p, p)
    /\ UNCHANGED <<files, raced, target, open, bound, jobs, ledger, deaths>>

-----------------------------------------------------------------------------
(* Settings.install_policy and cmd_policy_install. *)

\* A process that ends forgets what it was to install.
Goto(i, label, name) ==
    /\ pc' = [pc EXCEPT ![i] = label]
    /\ target' = [target EXCEPT ![i] = name]
    /\ wants' = IF label \in {"done", "failed", "dead"}
                 THEN [wants EXCEPT ![i] = NoPolicy] ELSE wants

\* Mutant: a snapshot is written again.
CheckNever(i) ==
    /\ pc[i] = "check"
    /\ Goto(i, "open", wants[i])
    /\ UNCHANGED <<files, tokens, open, bound, jobs, ledger, crowd, deaths>>

\* A snapshot that is there must be of this policy, and is left as it is.
Check(i) ==
    /\ pc[i] = "check"
    /\ CASE At(Json(wants[i])) = NoFile -> Goto(i, "open", wants[i])
         [] At(Json(wants[i])) = wants[i] -> Goto(i, "open", Default)
         [] OTHER -> Goto(i, "failed", Default)
    /\ UNCHANGED <<files, tokens, open, bound, jobs, ledger, crowd, deaths>>

\* Opening l for writing: the file there, emptied, or a new one.
OpenLink(i, l) ==
    LET f == IF link[l] # NoFile THEN link[l]
             ELSE CHOOSE new \in Files : new \notin Range(link) \cup Range(open)
    IN  /\ link' = [link EXCEPT ![l] = f]
        /\ content' = [content EXCEPT ![f] = "empty"]
        /\ open' = [open EXCEPT ![i] = f]
        /\ pc' = [pc EXCEPT ![i] = "write"]
        /\ UNCHANGED <<tokens, wants, target, bound, jobs, ledger, crowd, deaths>>

\* Mutant: no temporary file.
OpenInPlace(i) == pc[i] = "open" /\ OpenLink(i, Json(target[i]))

Open(i) == pc[i] = "open" /\ OpenLink(i, Temp(target[i]))

\* Over another policy that was written meanwhile: a shorter text leaves the end
\* of it.
Write(i) ==
    /\ pc[i] = "write"
    /\ \E c \in IF content[open[i]] \in {"empty", wants[i]}
                 THEN {wants[i]} ELSE {wants[i], "mixed"} :
        content' = [content EXCEPT ![open[i]] = c]
    /\ pc' = [pc EXCEPT ![i] = "publish"]
    /\ UNCHANGED <<link, tokens, locals, bound, jobs, ledger, crowd, deaths>>

\* What follows a file that was put in place: policy.json, or the event.
Continue(i) ==
    IF target[i] = Default THEN Goto(i, "record", Default) ELSE Goto(i, "open", Default)

\* Mutant: the temporary name stays.
PublishLinking(i) ==
    /\ pc[i] = "publish"
    /\ IF link[Temp(target[i])] = NoFile
       THEN Goto(i, "failed", Default) /\ UNCHANGED link
       ELSE /\ link' = [link EXCEPT ![Json(target[i])] = link[Temp(target[i])]]
            /\ Continue(i)
    /\ open' = [open EXCEPT ![i] = NoFile]
    /\ content' = Collected(link', open')
    /\ UNCHANGED <<tokens, bound, jobs, ledger, crowd, deaths>>

\* chmod and replace go by the temporary name: whatever file it links to is put in
\* place, and if another installation took it away they raise.
Publish(i) ==
    /\ pc[i] = "publish"
    /\ IF link[Temp(target[i])] = NoFile
       THEN Goto(i, "failed", Default) /\ UNCHANGED link
       ELSE /\ link' = [link EXCEPT ![Json(target[i])] = link[Temp(target[i])],
                                    ![Temp(target[i])] = NoFile]
            /\ Continue(i)
    /\ open' = [open EXCEPT ![i] = NoFile]
    /\ content' = Collected(link', open')
    /\ UNCHANGED <<tokens, bound, jobs, ledger, crowd, deaths>>

\* The policy.installed event, in a transaction of its own.
Record(i) ==
    /\ pc[i] = "record"
    /\ ledger' = wants[i]
    /\ Goto(i, "done", Default)
    /\ UNCHANGED <<files, tokens, open, bound, jobs, crowd, deaths>>

\* The process is killed, or a write fails.
Die(i) ==
    /\ i \in Making \cup Installing
    /\ deaths < MaxDeaths
    /\ deaths' = deaths + 1
    /\ Goto(i, "dead", Default)
    /\ open' = [open EXCEPT ![i] = NoFile]
    /\ content' = Collected(link, open')
    /\ UNCHANGED <<link, tokens, bound, jobs, ledger, crowd>>

-----------------------------------------------------------------------------
(* VeriLabService.submit. *)

\* self.policy: a file that is not there or not whole refuses the submission.
ReadPolicy(s) ==
    /\ pc[s] = "idle"
    /\ LET c == At(Json(Default)) IN
        IF c \in Policies
        THEN bound' = [bound EXCEPT ![s] = c] /\ pc' = [pc EXCEPT ![s] = "snapshot"]
        ELSE /\ pc' = [pc EXCEPT ![s] = IF c = NoFile THEN "no_policy" ELSE "refused"]
             /\ UNCHANGED bound
    /\ UNCHANGED <<files, tokens, locals, jobs, ledger, crowd, deaths>>

\* load_policy of its hash.
ReadSnapshot(s) ==
    /\ pc[s] = "snapshot"
    /\ pc' = [pc EXCEPT ![s] = IF At(Json(bound[s])) = bound[s] THEN "insert" ELSE "refused"]
    /\ UNCHANGED <<files, tokens, locals, bound, jobs, ledger, crowd, deaths>>

Insert(s) ==
    /\ pc[s] = "insert"
    /\ jobs' = jobs \cup {bound[s]}
    /\ pc' = [pc EXCEPT ![s] = "queued"]
    /\ UNCHANGED <<files, tokens, locals, bound, ledger, crowd, deaths>>

-----------------------------------------------------------------------------
Next ==
    \/ \E p \in Processes : Load(p) \/ MakeToken(p) \/ FillToken(p)
    \/ \E i \in Installers : Check(i) \/ Open(i) \/ Write(i) \/ Publish(i) \/ Record(i) \/ Die(i)
    \/ \E s \in Submitters : ReadPolicy(s) \/ ReadSnapshot(s) \/ Insert(s)

Spec == Init /\ [][Next]_vars

-----------------------------------------------------------------------------
(* Properties. *)

\* The type invariant, and that no two names link to one file.
TypeOK ==
    /\ link \in [Links -> Files \cup {NoFile}]
    /\ \A k, l \in Links : link[k] = link[l] /\ k # l => link[k] = NoFile
    /\ content \in [Files -> Contents]
    /\ pc \in [Processes \cup Submitters -> Labels \cup SubmitLabels]
    /\ open \in [Installers -> Files \cup {NoFile}]
    /\ jobs \subseteq Policies
    /\ crowd \in 0 .. Cardinality(Installers)

\* As long as installations come one after the other, whenever one is killed, the
\* policy in force is whole and so is its snapshot (install_policy); and once they are
\* over and none was killed, the last policy.installed event names it
\* (cmd_policy_install).
InForceIsWhole ==
    crowd <= 1 /\ link[Json(Default)] # NoFile =>
        LET p == At(Json(Default)) IN
        /\ p \in Policies
        /\ At(Json(p)) = p
        /\ Installing = {} /\ deaths = 0 => p = ledger

\* What submit() is promised: with one installation at a time the policy in force
\* names a snapshot that can be read, so none is refused for it; and the snapshot
\* that a queued experiment is bound to stays whole whatever is installed later, two
\* installations at a time included (README.md: queued experiments keep the policy
\* snapshot).
JobsKeepTheirPolicy ==
    /\ crowd <= 1 => \A s \in Submitters : pc[s] # "refused"
    /\ crowd <= 2 => \A h \in jobs : At(Json(h)) = h

\* The server's token stays the one in the file, which the commands present to it,
\* unless two processes looked for a token at once (Settings.load).
ServerHoldsTheToken ==
    ~raced => \A p \in Servers : pc[p] = "serving" => held[p] = token
=============================================================================
