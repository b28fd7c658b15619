--------------------------- MODULE StateDirProofs ---------------------------
(***************************************************************************)
(* What is proved of the files of the state directory, for any number of   *)
(* installers, servers, submissions and policies. Everything rests on who  *)
(* may write to which file: a file has one name at a time, an open file    *)
(* was opened under the name its installer is writing, and there is always *)
(* a new file to open. What crowd bounds (how many installations were ever *)
(* under way at once) then decides what a file may hold.                   *)
(***************************************************************************)
EXTENDS StateDir, Integers, FiniteSetTheorems, TLAPS

Has(l) == link[l] # NoFile
HasOpen(i) == open[i] # NoFile

\* A link is never shared, and a file is open only while it is being written, which it
\* is by the name under which it was opened or by the one it was put in place as.
Owned ==
    /\ \A k, l \in Links : link[k] = link[l] /\ k # l => ~Has(k)
    /\ \A i \in Installers : HasOpen(i) <=> pc[i] \in {"write", "publish"}
    /\ \A i \in Installers, l \in Links : HasOpen(i) /\ link[l] = open[i] => l[1] = target[i]
    /\ \A i, j \in Installers : HasOpen(i) /\ open[j] = open[i] => target[j] = target[i]

\* What variables range over.
Ranges ==
    /\ link \in [Links -> Files \cup {NoFile}]
    /\ content \in [Files -> Contents]
    /\ pc \in [Processes \cup Submitters -> Labels \cup SubmitLabels]
    /\ open \in [Installers -> Files \cup {NoFile}]
    /\ wants \in [Installers -> Policies \cup {NoPolicy}]
    /\ target \in [Installers -> Names]
    /\ bound \in [Submitters -> Policies \cup {NoPolicy}]
    /\ held \in [Servers -> Processes \cup {NoFile, "empty"}]
    /\ token \in Processes \cup {NoFile, "empty"}
    /\ raced \in BOOLEAN /\ deaths \in Nat
    /\ jobs \subseteq Policies
    /\ \A s \in Submitters : pc[s] \in {"snapshot", "insert", "queued"} => bound[s] \in Policies
    /\ \A i \in Installing : wants[i] \in Policies
    /\ \A i \in Installers : target[i] # Default =>
        target[i] = wants[i] /\ pc[i] \in {"open", "write", "publish"}

\* crowd counts the installations under way.
Counted == crowd \in Cardinality(Installing) .. Cardinality(Installers)

\* The times an installer has opened a new file, for its snapshot and for policy.json:
\* there are no more files in use.
Spent ==
    {o \in Installers \X {1, 2} :
        LET i == o[1] IN
        IF o[2] = 1
        THEN /\ pc[i] \notin {"start", "make", "fill", "check"}
             /\ ~(pc[i] = "open" /\ target[i] # Default)
        ELSE \/ pc[i] \in {"record", "done", "failed", "dead"}
             \/ pc[i] \in {"write", "publish"} /\ target[i] = Default}
Used == (Range(link) \cup Range(open)) \ {NoFile}
Spare == Cardinality(Used) <= Cardinality(Spent)

\* Files that are, or will be, the snapshot of p hold p or nothing yet.
Pure ==
    /\ \A l \in Links : l[1] \in Policies /\ Has(l) => content[link[l]] \in {"empty", l[1]}
    /\ \A i \in Installers :
        HasOpen(i) /\ target[i] \in Policies => content[open[i]] \in {"empty", target[i]}

\* Installers about to put a snapshot of p in place.
Placing(p) == {i \in Installers : pc[i] \in {"open", "write", "publish"} /\ target[i] = p}

\* With two installations at a time, one at most is still to put a snapshot in place
\* where there is one, and what it will put in place is whole.
Settled(p) ==
    Has(Json(p)) =>
        /\ \A i, j \in Placing(p) : i = j
        /\ \A i \in Placing(p) : Has(Temp(p)) =>
            /\ pc[i] = "write" => open[i] = link[Temp(p)]
            /\ pc[i] = "publish" => content[link[Temp(p)]] = p

\* The policies whose snapshots were found whole.
Relied == jobs \cup {bound[s] : s \in {s \in Submitters : pc[s] = "insert"}}

Pairs == crowd <= 2 => /\ \A p \in Policies : Settled(p)
                       /\ \A h \in Relied : At(Json(h)) = h

\* With one installation at a time, every snapshot is whole, policy.json names one, and
\* the installation under way has the file it opened to itself.
Alone ==
    /\ \A p \in Policies : Has(Json(p)) => At(Json(p)) = p
    /\ Has(Json(Default)) => At(Json(Default)) \in Policies /\ Has(Json(At(Json(Default))))
    /\ \A i \in Installing :
        /\ pc[i] # "check" /\ target[i] = Default => Has(Json(wants[i]))
        /\ pc[i] \in {"write", "publish"} => link[Temp(target[i])] = open[i]
        /\ pc[i] = "write" => content[open[i]] = "empty"
        /\ pc[i] = "publish" => content[open[i]] = wants[i]
        /\ pc[i] = "record" => Has(Json(Default)) /\ At(Json(Default)) = wants[i]
    /\ deaths = 0 /\ Has(Json(Default)) /\ (\A i \in Installing : pc[i] # "record") =>
        At(Json(Default)) = ledger
    /\ \A s \in Submitters :
        /\ pc[s] # "refused"
        /\ pc[s] \in {"snapshot", "insert"} => Has(Json(bound[s]))

Single == crowd <= 1 => Alone

\* One process makes the token while no server has one.
Tokens ==
    ~raced =>
        /\ \A p, q \in Making : p = q
        /\ \A p \in Servers : pc[p] = "serving" => /\ held[p] = token
                                                  /\ token # NoFile /\ Making = {}

DirInv == Ranges /\ Owned /\ Counted /\ Spare /\ Pure /\ Pairs /\ Single /\ Tokens

-----------------------------------------------------------------------------
(* Files and installers. *)

\* Names of files.
LEMMA LinkNames ==
    ASSUME NEW n \in Names
    PROVE  /\ Json(n) \in Links /\ Temp(n) \in Links /\ Json(n)[1] = n /\ Temp(n)[1] = n
           /\ \A m \in Names : /\ Json(m) # Temp(n)
                               /\ Json(m) = Json(n) => m = n
                               /\ Temp(m) = Temp(n) => m = n
           /\ \A l \in Links : l[1] \in Names /\ (l[1] = n => l = Json(n) \/ l = Temp(n))
BY DEF Json, Temp, Links

\* The installations under way are finite in number.
LEMMA InstallingFinite ==
    /\ IsFiniteSet(Installing) /\ Cardinality(Installing) \in Nat
    /\ Cardinality(Installers) \in Nat /\ Cardinality(Installing) <= Cardinality(Installers)
<1>1. IsFiniteSet(Installers) /\ Installing \subseteq Installers
  BY DirAssumption DEF Installing
<1> QED
  BY <1>1, FS_Subset, FS_CardinalityType

\* With one at a time, two installations under way are the same.
LEMMA OneAtATime ==
    ASSUME Counted, crowd <= 1, NEW i \in Installing, NEW j \in Installing
    PROVE  i = j
<1> SUFFICES ASSUME i # j PROVE FALSE
  OBVIOUS
<1>1. IsFiniteSet({i}) /\ Cardinality({i}) = 1
  BY FS_Singleton
<1>2. Cardinality({i} \cup {j}) = 2
  BY <1>1, FS_AddElement
<1>3. Cardinality({i} \cup {j}) <= Cardinality(Installing)
  BY InstallingFinite, FS_Subset
<1> QED
  BY <1>2, <1>3, InstallingFinite DEF Counted

\* With two at a time, a third is one of the first two.
LEMMA TwoAtATime ==
    ASSUME Counted, crowd <= 2, NEW i \in Installing, NEW j \in Installing,
           NEW k \in Installing, i # j, i # k
    PROVE  j = k
<1> SUFFICES ASSUME j # k PROVE FALSE
  OBVIOUS
<1>1. IsFiniteSet({i}) /\ Cardinality({i}) = 1
  BY FS_Singleton
<1>2. IsFiniteSet({i} \cup {j}) /\ Cardinality({i} \cup {j}) = 2
  BY <1>1, FS_AddElement
<1>3. k \notin {i} \cup {j}
  OBVIOUS
<1>4. Cardinality(({i} \cup {j}) \cup {k}) = 3
  BY <1>2, <1>3, FS_AddElement
<1>5. Cardinality(({i} \cup {j}) \cup {k}) <= Cardinality(Installing)
  BY InstallingFinite, FS_Subset
<1> QED
  BY <1>4, <1>5, InstallingFinite DEF Counted

\* Sets of files and of openings are finite, and there are as many of the one as of the
\* other.
LEMMA FilesFinite ==
    /\ Cardinality(Installers) \in Nat
    /\ IsFiniteSet(Files) /\ Cardinality(Files) = 2 * Cardinality(Installers)
    /\ IsFiniteSet(Installers \X {1, 2})
    /\ Cardinality(Installers \X {1, 2}) = 2 * Cardinality(Installers)
<1>1. Cardinality(Installers) \in Nat
  BY DirAssumption, FS_CardinalityType
<1>2. IsFiniteSet(Files) /\ Cardinality(Files) = 2 * Cardinality(Installers)
  <2> DEFINE n == 2 * Cardinality(Installers)
  <2>1. n \in Nat
    BY <1>1
  <2> HIDE DEF n
  <2>2. IsFiniteSet(1 .. n) /\ Cardinality(1 .. n) = IF 1 > n THEN 0 ELSE n - 1 + 1
    BY <2>1, FS_Interval
  <2> QED
    BY <2>1, <2>2 DEF Files, n
<1>3. IsFiniteSet({1, 2}) /\ Cardinality({1, 2}) = 2
  <2>1. IsFiniteSet({1}) /\ Cardinality({1}) = 1
    BY FS_Singleton
  <2>2. {1} \cup {2} = {1, 2} /\ 2 \notin {1}
    OBVIOUS
  <2> QED
    BY <2>1, <2>2, FS_AddElement
<1>4. /\ IsFiniteSet(Installers \X {1, 2})
      /\ Cardinality(Installers \X {1, 2}) = Cardinality(Installers) * 2
  BY <1>3, DirAssumption, FS_Product
<1> QED
  BY <1>1, <1>2, <1>4

\* Files in use.
LEMMA UsedFiles ==
    ASSUME Ranges
    PROVE  /\ Used \subseteq Files /\ IsFiniteSet(Used) /\ Cardinality(Used) \in Nat
           /\ Spent \subseteq Installers \X {1, 2}
           /\ IsFiniteSet(Spent) /\ Cardinality(Spent) \in Nat
           /\ \A f \in Files : f \in Used <=> \/ \E l \in Links : link[l] = f
                                             \/ \E i \in Installers : open[i] = f
<1>1. Range(link) = {link[l] : l \in Links} /\ Range(open) = {open[i] : i \in Installers}
  BY DEF Ranges, Range
<1>2. Used \subseteq Files /\ Spent \subseteq Installers \X {1, 2}
  BY <1>1 DEF Used, Spent, Ranges
<1>3. \A f \in Files : f \in Used <=> \/ \E l \in Links : link[l] = f
                                     \/ \E i \in Installers : open[i] = f
  BY <1>1, DirAssumption DEF Used
<1> QED
  BY <1>2, <1>3, FilesFinite, FS_Subset, FS_CardinalityType

\* There is a new file for an installation that is about to open one.
LEMMA NewFile ==
    ASSUME Ranges, Spare, NEW i \in Installers, pc[i] = "open"
    PROVE  \E f \in Files : f \notin Range(link) \cup Range(open)
<1> DEFINE o == <<i, IF target[i] = Default THEN 2 ELSE 1>>
<1>1. o \in Installers \X {1, 2} /\ o \notin Spent
  BY DEF Spent
<1>2. IsFiniteSet(Spent) /\ Spent \cup {o} \subseteq Installers \X {1, 2}
  BY <1>1, UsedFiles
<1>3. Cardinality(Spent \cup {o}) = Cardinality(Spent) + 1
  BY <1>1, <1>2, FS_AddElement
<1>4. Cardinality(Spent \cup {o}) <= Cardinality(Files)
  BY <1>2, FilesFinite, FS_Subset
<1>5. Cardinality(Used) < Cardinality(Files)
  BY <1>3, <1>4, UsedFiles, FilesFinite DEF Spare
<1>6. Used # Files /\ Used \subseteq Files
  <2>1. Cardinality(Used) \in Nat
    BY UsedFiles
  <2> QED
    BY <1>5, <2>1, UsedFiles
<1>7. PICK f \in Files : f \notin Used
  BY <1>6
<1> QED
  BY <1>7, DirAssumption DEF Used

\* What opening a file does.
LEMMA OpenDoes ==
    ASSUME Ranges, Spare, NEW i \in Installers, Open(i)
    PROVE  \E f \in Files, l \in Links :
              /\ l = Temp(target[i]) /\ pc[i] = "open"
              /\ link' = [link EXCEPT ![l] = f]
              /\ content' = [content EXCEPT ![f] = "empty"]
              /\ open' = [open EXCEPT ![i] = f]
              /\ pc' = [pc EXCEPT ![i] = "write"]
              /\ UNCHANGED <<tokens, wants, target, bound, jobs, ledger, crowd, deaths>>
              /\ \/ link[l] = f
                 \/ link[l] = NoFile /\ f \notin Used
<1> DEFINE l == Temp(target[i])
           new == CHOOSE new \in Files : new \notin Range(link) \cup Range(open)
           f == IF link[l] # NoFile THEN link[l] ELSE new
<1>1. pc[i] = "open" /\ OpenLink(i, l)
  BY DEF Open
<1>2. l \in Links
  BY LinkNames DEF Ranges
<1>3. new \in Files /\ new \notin Range(link) \cup Range(open)
  BY <1>1, NewFile
<1> HIDE DEF new
<1>4. f \in Files /\ (link[l] = f \/ (link[l] = NoFile /\ f \notin Used))
  BY <1>2, <1>3 DEF Used, Ranges
<1>5. /\ link' = [link EXCEPT ![l] = f]
      /\ content' = [content EXCEPT ![f] = "empty"]
      /\ open' = [open EXCEPT ![i] = f]
      /\ pc' = [pc EXCEPT ![i] = "write"]
      /\ UNCHANGED <<tokens, wants, target, bound, jobs, ledger, crowd, deaths>>
  BY <1>1 DEF OpenLink, new
<1> QED
  BY <1>1, <1>2, <1>4, <1>5

\* A file in use keeps its content when others are collected.
LEMMA CollectKeeps ==
    ASSUME Ranges, NEW newLink, NEW newOpen,
           DOMAIN newLink = Links, DOMAIN newOpen = Installers
    PROVE  /\ Collected(newLink, newOpen) \in [Files -> Contents]
           /\ \A l \in Links : newLink[l] \in Files =>
                Collected(newLink, newOpen)[newLink[l]] = content[newLink[l]]
           /\ \A i \in Installers : newOpen[i] \in Files =>
                Collected(newLink, newOpen)[newOpen[i]] = content[newOpen[i]]
<1>1. /\ \A l \in Links : newLink[l] \in Range(newLink)
      /\ \A i \in Installers : newOpen[i] \in Range(newOpen)
  BY DEF Range
<1> QED
  BY <1>1 DEF Collected, Contents, Ranges

-----------------------------------------------------------------------------
(* What variables range over. *)

\* What going on does.
LEMMA ProceedDoes ==
    ASSUME Ranges, NEW p \in Processes, NEW t \in Processes \cup {"empty"}, Proceed(p, t)
    PROVE  /\ \/ /\ p \in Servers /\ pc' = [pc EXCEPT ![p] = "serving"]
                 /\ held' = [held EXCEPT ![p] = t] /\ UNCHANGED <<wants, crowd>>
              \/ /\ p \in Installers /\ p \notin Servers /\ pc' = [pc EXCEPT ![p] = "check"]
                 /\ \E policy \in Policies : wants' = [wants EXCEPT ![p] = policy]
                 /\ crowd' = Max({crowd, Cardinality(Installing) + 1})
                 /\ UNCHANGED held
           /\ wants' \in [Installers -> Policies \cup {NoPolicy}]
           /\ held' \in [Servers -> Processes \cup {NoFile, "empty"}]
           /\ p \in Installers => wants'[p] \in Policies
           /\ \A i \in Installers \ {p} : wants'[i] = wants[i]
           /\ p \in Installers => pc'[p] = "check"
<1>1. p \in Servers \/ (p \in Installers /\ p \notin Servers)
  BY DEF Processes
<1>2. ~(p \in Servers /\ p \in Installers)
  BY DirAssumption
<1>3. CASE p \in Servers
  BY <1>2, <1>3 DEF Proceed, Ranges, Processes
<1>4. CASE p \in Installers /\ p \notin Servers
  <2>1. PICK policy \in Policies : wants' = [wants EXCEPT ![p] = policy]
    BY <1>4 DEF Proceed
  <2>2. /\ pc' = [pc EXCEPT ![p] = "check"] /\ UNCHANGED held
        /\ crowd' = Max({crowd, Cardinality(Installing) + 1})
    BY <1>4 DEF Proceed
  <2> QED
    BY <1>4, <2>1, <2>2 DEF Ranges, Processes
<1> QED
  BY <1>1, <1>3, <1>4

LEMMA RangesHold ==
    ASSUME Ranges, Spare, [Next]_vars
    PROVE  Ranges'
<1>a. deaths' \in Nat
  <2>1. UNCHANGED deaths \/ deaths' = deaths + 1
    BY DEF Next, vars, Load, MakeToken, FillToken, Check, Open, OpenLink, Write, Publish, Record,
           Die, ReadPolicy, ReadSnapshot, Insert
  <2> QED
    BY <2>1 DEF Ranges
<1>0. /\ Submitters \cap Processes = {} /\ Installers \subseteq Processes
      /\ Default \notin Policies /\ deaths' \in Nat
  BY <1>a, DirAssumption DEF Processes
<1> USE DEF Labels, SubmitLabels
<1>1. CASE UNCHANGED vars
  BY <1>1 DEF vars, files, tokens, locals, Ranges, Installing
<1>2. ASSUME NEW p \in Processes, Load(p) \/ FillToken(p)
      PROVE  Ranges'
  <2>1. /\ UNCHANGED <<files, target, open, bound, jobs>>
        /\ token' \in Processes \cup {NoFile, "empty"} /\ raced' \in BOOLEAN
    BY <1>2 DEF Load, FillToken, Ranges
  <2>2. pc[p] \in {"start", "fill"}
    BY <1>2 DEF Load, FillToken
  <2>3. CASE /\ pc' = [pc EXCEPT ![p] = "make"] /\ UNCHANGED <<held, wants>>
    BY <1>0, <2>1, <2>3, <2>2 DEF Ranges, files, Installing
  <2>4. CASE \E t \in Processes \cup {"empty"} : Proceed(p, t)
    <3>1. PICK t \in Processes \cup {"empty"} : Proceed(p, t)
      BY <2>4
    <3>2. pc'[p] \in {"serving", "check"} /\ \A q \in (Processes \cup Submitters) \ {p} : pc'[q] = pc[q]
      BY <3>1, ProceedDoes DEF Ranges
    <3>3. pc' \in [Processes \cup Submitters -> Labels \cup SubmitLabels]
      BY <3>1, ProceedDoes DEF Ranges
    <3>4. \A s \in Submitters : pc'[s] = pc[s]
      BY <1>0, <3>2
    <3>5. \A i \in Installing' : i = p \/ i \in Installing
      BY <1>0, <3>2 DEF Installing
    <3>6. ASSUME NEW i \in Installing'
          PROVE  wants'[i] \in Policies
      <4>1. i \in Installers
        BY DEF Installing
      <4>2. CASE i = p
        BY <3>1, <4>1, <4>2, ProceedDoes
      <4>3. CASE i # p
        <5>1. wants'[i] = wants[i]
          BY <3>1, <4>1, <4>3, ProceedDoes
        <5> QED
          BY <3>5, <4>3, <5>1 DEF Ranges
      <4> QED
        BY <4>2, <4>3
    <3>7. \A i \in Installers : target'[i] # Default =>
            target'[i] = wants'[i] /\ pc'[i] \in {"open", "write", "publish"}
      BY <2>1, <3>1, <3>2, ProceedDoes, <1>0, <2>2 DEF Ranges
    <3> QED
      BY <1>0, <2>1, <3>1, <3>3, <3>4, <3>6, <3>7, ProceedDoes DEF Ranges, files
  <2> QED
    BY <1>2, <2>3, <2>4 DEF Load, FillToken, Ranges
<1>3. ASSUME NEW p \in Processes, MakeToken(p)
      PROVE  Ranges'
  <2>1. /\ UNCHANGED <<files, held, raced, locals, bound, jobs>> /\ token' = "empty"
        /\ pc' = [pc EXCEPT ![p] = "fill"] /\ pc[p] = "make"
    BY <1>3 DEF MakeToken
  <2> QED
    BY <1>0, <2>1 DEF Ranges, files, locals, Installing
<1>4. ASSUME NEW i \in Installers, NEW label \in Labels, NEW name \in Names,
             Goto(i, label, name), i \in Making \cup Installing,
             name # Default => name = wants[i] /\ label = "open",
             label \in {"check", "open", "write", "publish", "record"} => i \in Installing,
             link' \in [Links -> Files \cup {NoFile}], content' \in [Files -> Contents],
             open' \in [Installers -> Files \cup {NoFile}],
             UNCHANGED <<tokens, bound, jobs>>
      PROVE  Ranges'
  <2>1. /\ pc' = [pc EXCEPT ![i] = label] /\ target' = [target EXCEPT ![i] = name]
        /\ wants' = IF label \in {"done", "failed", "dead"}
                     THEN [wants EXCEPT ![i] = NoPolicy] ELSE wants
    BY <1>4 DEF Goto
  <2>2. /\ pc' \in [Processes \cup Submitters -> Labels \cup SubmitLabels]
        /\ target' \in [Installers -> Names]
        /\ wants' \in [Installers -> Policies \cup {NoPolicy}]
        /\ pc'[i] = label /\ target'[i] = name
        /\ \A j \in Installers \ {i} : pc'[j] = pc[j] /\ target'[j] = target[j] /\ wants'[j] = wants[j]
        /\ label \notin {"done", "failed", "dead"} => wants'[i] = wants[i]
    BY <1>0, <2>1 DEF Ranges
  <2>3. \A s \in Submitters : pc'[s] = pc[s]
    BY <1>0, <2>1 DEF Ranges
  <2>4. ASSUME NEW j \in Installing'
        PROVE  wants'[j] \in Policies
    BY <1>4, <2>2, <2>4 DEF Ranges, Installing
  <2>5. ASSUME NEW j \in Installers, target'[j] # Default
        PROVE  target'[j] = wants'[j] /\ pc'[j] \in {"open", "write", "publish"}
    BY <1>4, <2>2, <2>5 DEF Ranges
  <2> QED
    BY <1>0, <1>4, <2>2, <2>3, <2>4, <2>5 DEF Ranges, tokens
<1>5. ASSUME NEW i \in Installers, Check(i)
      PROVE  Ranges'
  <2>1. \E label \in Labels, name \in Names :
            /\ Goto(i, label, name) /\ label \in {"open", "failed"}
            /\ name # Default => name = wants[i] /\ label = "open"
    <3>1. wants[i] \in Names /\ Default \in Names
      BY <1>5 DEF Check, Ranges, Installing, Names
    <3> QED
      BY <1>5, <3>1 DEF Check
  <2>2. i \in Installing /\ UNCHANGED <<files, tokens, open, bound, jobs>>
    BY <1>5 DEF Check, Installing
  <2> QED
    BY <1>4, <2>1, <2>2 DEF files, Ranges
<1>6. ASSUME NEW i \in Installers, Open(i)
      PROVE  Ranges'
  <2>1. PICK f \in Files, l \in Links :
            /\ pc[i] = "open"
            /\ link' = [link EXCEPT ![l] = f]
            /\ content' = [content EXCEPT ![f] = "empty"]
            /\ open' = [open EXCEPT ![i] = f]
            /\ pc' = [pc EXCEPT ![i] = "write"]
            /\ UNCHANGED <<tokens, wants, target, bound, jobs>>
    BY <1>6, OpenDoes
  <2> QED
    BY <1>0, <2>1 DEF Ranges, Contents, tokens, Installing
<1>7. ASSUME NEW i \in Installers, Write(i)
      PROVE  Ranges'
  <2>1. /\ \E c \in {wants[i], "mixed"} : content' = [content EXCEPT ![open[i]] = c]
        /\ pc' = [pc EXCEPT ![i] = "publish"] /\ pc[i] = "write"
        /\ UNCHANGED <<link, tokens, locals, bound, jobs>>
    BY <1>7 DEF Write
  <2>2. wants[i] \in Policies
    BY <2>1 DEF Ranges, Installing
  <2> QED
    BY <1>0, <2>1, <2>2 DEF Ranges, Contents, tokens, locals, Installing
<1>8. ASSUME NEW i \in Installers, Publish(i)
      PROVE  Ranges'
  <2>1. \E label \in Labels, name \in Names :
            /\ Goto(i, label, name) /\ label \in {"open", "failed", "record"} /\ name = Default
    BY <1>8 DEF Publish, Continue, Names
  <2>2. /\ i \in Installing /\ UNCHANGED <<tokens, bound, jobs>>
        /\ open' = [open EXCEPT ![i] = NoFile]
        /\ content' = Collected(link', open')
    BY <1>8 DEF Publish, Installing
  <2>3. link' \in [Links -> Files \cup {NoFile}]
    <3>1. Temp(target[i]) \in Links
      BY LinkNames DEF Ranges
    <3> QED
      BY <1>8, <3>1 DEF Publish, Ranges
  <2>4. open' \in [Installers -> Files \cup {NoFile}] /\ content' \in [Files -> Contents]
    BY <2>2, <2>3, CollectKeeps DEF Ranges
  <2> QED
    BY <1>4, <2>1, <2>2, <2>3, <2>4
<1>9. ASSUME NEW i \in Installers, Record(i)
      PROVE  Ranges'
  <2>1. Goto(i, "done", Default) /\ i \in Installing /\ UNCHANGED <<files, tokens, open, bound, jobs>>
    BY <1>9 DEF Record, Installing
  <2> QED
    BY <1>4, <2>1 DEF Ranges, files, Names
<1>10. ASSUME NEW i \in Installers, Die(i)
       PROVE  Ranges'
  <2>1. /\ Goto(i, "dead", Default) /\ i \in Making \cup Installing
        /\ UNCHANGED <<link, tokens, bound, jobs>>
        /\ open' = [open EXCEPT ![i] = NoFile]
        /\ content' = Collected(link, open')
    BY <1>10 DEF Die
  <2>2. open' \in [Installers -> Files \cup {NoFile}] /\ content' \in [Files -> Contents]
    BY <2>1, CollectKeeps DEF Ranges
  <2> QED
    BY <1>4, <2>1, <2>2 DEF Ranges, Names
<1>11. ASSUME NEW s \in Submitters, ReadPolicy(s) \/ ReadSnapshot(s) \/ Insert(s)
       PROVE  Ranges'
  <2>1. \A i \in Processes : pc'[i] = pc[i]
    BY <1>0, <1>11 DEF ReadPolicy, ReadSnapshot, Insert, Ranges
  <2>2. UNCHANGED <<files, tokens, locals>>
    BY <1>11 DEF ReadPolicy, ReadSnapshot, Insert
  <2>3. /\ pc' \in [Processes \cup Submitters -> Labels \cup SubmitLabels]
        /\ bound' \in [Submitters -> Policies \cup {NoPolicy}]
        /\ jobs' \subseteq Policies
        /\ \A r \in Submitters : pc'[r] \in {"snapshot", "insert", "queued"} => bound'[r] \in Policies
    BY <1>11 DEF ReadPolicy, ReadSnapshot, Insert, Ranges
  <2> QED
    BY <1>0, <2>1, <2>2, <2>3 DEF Ranges, files, tokens, locals, Installing
<1> QED
  BY <1>1, <1>2, <1>3, <1>5, <1>6, <1>7, <1>8, <1>9, <1>10, <1>11 DEF Next

-----------------------------------------------------------------------------
(* Steps that touch no file. *)

\* What a step of loading, or of submitting, or Check or Record, leaves of files.
LEMMA QuietSteps ==
    ASSUME Ranges,
           \/ UNCHANGED vars
           \/ \E p \in Processes : Load(p) \/ MakeToken(p) \/ FillToken(p)
           \/ \E i \in Installers : Check(i) \/ Record(i)
           \/ \E s \in Submitters : ReadPolicy(s) \/ ReadSnapshot(s) \/ Insert(s)
    PROVE  /\ UNCHANGED <<link, content, open>>
           /\ \A i \in Installers :
                /\ pc'[i] \in {"write", "publish"} <=> pc[i] \in {"write", "publish"}
                /\ pc[i] \in {"write", "publish"} =>
                     pc'[i] = pc[i] /\ target'[i] = target[i] /\ wants'[i] = wants[i]
<1>0. Submitters \cap Processes = {} /\ Installers \subseteq Processes
  BY DirAssumption DEF Processes
<1>1. CASE UNCHANGED vars
  BY <1>1 DEF vars, files, locals
<1>2. ASSUME NEW p \in Processes, Load(p) \/ FillToken(p)
      PROVE  /\ UNCHANGED <<link, content, open, target>>
             /\ pc[p] \in {"start", "fill"} /\ pc'[p] \notin {"write", "publish"}
             /\ \A i \in Installers \ {p} : pc'[i] = pc[i] /\ wants'[i] = wants[i]
  <2>1. UNCHANGED <<link, content, open, target>> /\ pc[p] \in {"start", "fill"}
    BY <1>2 DEF Load, FillToken, files
  <2>2. CASE pc' = [pc EXCEPT ![p] = "make"] /\ UNCHANGED wants
    BY <1>0, <2>1, <2>2 DEF Ranges
  <2>3. CASE \E t \in Processes \cup {"empty"} : Proceed(p, t)
    BY <1>0, <2>1, <2>3, ProceedDoes DEF Ranges
  <2> QED
    BY <1>2, <2>1, <2>2, <2>3 DEF Load, FillToken, Ranges
<1>3. ASSUME NEW p \in Processes, MakeToken(p)
      PROVE  /\ UNCHANGED <<link, content, open, target>>
             /\ pc[p] = "make" /\ pc'[p] \notin {"write", "publish"}
             /\ \A i \in Installers \ {p} : pc'[i] = pc[i] /\ wants'[i] = wants[i]
  BY <1>0, <1>3 DEF MakeToken, files, locals, Ranges
<1>4. ASSUME NEW i \in Installers, Check(i) \/ Record(i)
      PROVE  /\ UNCHANGED <<link, content, open>>
             /\ pc[i] \in {"check", "record"} /\ pc'[i] \notin {"write", "publish"}
             /\ \A j \in Installers \ {i} :
                    pc'[j] = pc[j] /\ target'[j] = target[j] /\ wants'[j] = wants[j]
  BY <1>0, <1>4 DEF Check, Record, Goto, files, Ranges
<1>5. ASSUME NEW s \in Submitters, ReadPolicy(s) \/ ReadSnapshot(s) \/ Insert(s)
      PROVE  /\ UNCHANGED <<link, content, open, target, wants>>
             /\ \A i \in Installers : pc'[i] = pc[i]
  BY <1>0, <1>5 DEF ReadPolicy, ReadSnapshot, Insert, files, locals, Ranges
<1> QED
  BY <1>1, <1>2, <1>3, <1>4, <1>5

\* What Write does.
LEMMA WriteDoes ==
    ASSUME Ranges, NEW i \in Installers, Write(i)
    PROVE  /\ pc[i] = "write" /\ pc'[i] = "publish" /\ wants[i] \in Policies
           /\ \A q \in (Processes \cup Submitters) \ {i} : pc'[q] = pc[q]
           /\ UNCHANGED <<link, tokens, locals, bound, jobs, ledger, crowd, deaths>>
           /\ \A f \in Files \ {open[i]} : content'[f] = content[f]
           /\ open[i] \in Files =>
                /\ content'[open[i]] \in {wants[i], "mixed"}
                /\ content[open[i]] \in {"empty", wants[i]} => content'[open[i]] = wants[i]
<1>0. i \in Processes
  BY DEF Processes
<1>1. PICK c \in {wants[i], "mixed"} :
        /\ content' = [content EXCEPT ![open[i]] = c]
        /\ content[open[i]] \in {"empty", wants[i]} => c = wants[i]
  BY DEF Write
<1> QED
  BY <1>0, <1>1 DEF Write, Ranges, Installing

\* What Publish does.
LEMMA PublishDoes ==
    ASSUME Ranges, NEW i \in Installers, Publish(i)
    PROVE  LET n == target[i] IN
           /\ n \in Names /\ pc[i] = "publish" /\ wants[i] \in Policies
           /\ \A q \in (Processes \cup Submitters) \ {i} : pc'[q] = pc[q]
           /\ \A j \in Installers \ {i} : target'[j] = target[j] /\ wants'[j] = wants[j]
           /\ target'[i] = Default
           /\ pc'[i] # "failed" => wants'[i] = wants[i]
           /\ \/ ~Has(Temp(n)) /\ pc'[i] = "failed" /\ UNCHANGED link
              \/ /\ Has(Temp(n)) /\ pc'[i] = IF n = Default THEN "record" ELSE "open"
                 /\ link'[Json(n)] = link[Temp(n)] /\ link'[Temp(n)] = NoFile
                 /\ \A l \in Links \ {Json(n), Temp(n)} : link'[l] = link[l]
           /\ open' = [open EXCEPT ![i] = NoFile]
           /\ \A l \in Links : link'[l] \in Files => content'[link'[l]] = content[link'[l]]
           /\ \A j \in Installers : open'[j] \in Files => content'[open'[j]] = content[open'[j]]
           /\ UNCHANGED <<tokens, bound, jobs, ledger, crowd, deaths>>
<1> DEFINE n == target[i]
<1>0. /\ n \in Names /\ Json(n) \in Links /\ Temp(n) \in Links /\ Json(n) # Temp(n)
      /\ i \in Processes
  BY LinkNames DEF Ranges, Processes
<1>1. /\ open' = [open EXCEPT ![i] = NoFile] /\ content' = Collected(link', open')
      /\ pc[i] = "publish" /\ wants[i] \in Policies
      /\ UNCHANGED <<tokens, bound, jobs, ledger, crowd, deaths>>
  BY DEF Publish, Ranges, Installing
<1>2. PICK label \in {"open", "record", "failed"} :
        /\ Goto(i, label, Default)
        /\ \/ ~Has(Temp(n)) /\ label = "failed" /\ UNCHANGED link
           \/ /\ Has(Temp(n)) /\ label = IF n = Default THEN "record" ELSE "open"
              /\ link' = [link EXCEPT ![Json(n)] = link[Temp(n)], ![Temp(n)] = NoFile]
  BY DEF Publish, Continue, Has
<1>3. /\ pc'[i] = label /\ target'[i] = Default
      /\ \A q \in (Processes \cup Submitters) \ {i} : pc'[q] = pc[q]
      /\ \A j \in Installers \ {i} : target'[j] = target[j] /\ wants'[j] = wants[j]
      /\ label # "failed" => wants'[i] = wants[i]
  BY <1>0, <1>2 DEF Goto, Ranges
<1>4. \/ ~Has(Temp(n)) /\ pc'[i] = "failed" /\ UNCHANGED link
      \/ /\ Has(Temp(n)) /\ pc'[i] = IF n = Default THEN "record" ELSE "open"
         /\ link'[Json(n)] = link[Temp(n)] /\ link'[Temp(n)] = NoFile
         /\ \A l \in Links \ {Json(n), Temp(n)} : link'[l] = link[l]
  BY <1>0, <1>2, <1>3 DEF Ranges
<1>5. DOMAIN link' = Links /\ DOMAIN open' = Installers
  BY <1>1, <1>2 DEF Ranges
<1>6. /\ \A l \in Links : link'[l] \in Files => content'[link'[l]] = content[link'[l]]
      /\ \A j \in Installers : open'[j] \in Files => content'[open'[j]] = content[open'[j]]
  <2> PICK newLink, newOpen : newLink = link' /\ newOpen = open'
    OBVIOUS
  <2>1. content' = Collected(newLink, newOpen)
    BY <1>1
  <2>2. DOMAIN newLink = Links /\ DOMAIN newOpen = Installers
    BY <1>5
  <2> QED
    BY <2>1, <2>2, CollectKeeps
<1> QED
  BY <1>0, <1>1, <1>3, <1>4, <1>6

\* What Die does.
LEMMA DieDoes ==
    ASSUME Ranges, NEW i \in Installers, Die(i)
    PROVE  /\ pc[i] \notin {"start", "done", "failed", "dead"} /\ pc'[i] = "dead"
           /\ deaths' # 0
           /\ \A q \in (Processes \cup Submitters) \ {i} : pc'[q] = pc[q]
           /\ \A j \in Installers \ {i} : target'[j] = target[j] /\ wants'[j] = wants[j]
           /\ target'[i] = Default
           /\ open' = [open EXCEPT ![i] = NoFile]
           /\ \A l \in Links : link[l] \in Files => content'[link[l]] = content[link[l]]
           /\ \A j \in Installers : open'[j] \in Files => content'[open'[j]] = content[open'[j]]
           /\ UNCHANGED <<link, tokens, bound, jobs, ledger, crowd>>
<1>0. i \in Processes
  BY DEF Processes
<1>1. /\ open' = [open EXCEPT ![i] = NoFile] /\ content' = Collected(link, open')
      /\ Goto(i, "dead", Default)
      /\ UNCHANGED <<link, tokens, bound, jobs, ledger, crowd>>
      /\ pc[i] \notin {"start", "done", "failed", "dead"} /\ deaths' # 0
  BY DEF Die, Making, Installing, Ranges
<1>2. DOMAIN link = Links /\ DOMAIN open' = Installers
  BY <1>1 DEF Ranges
<1>3. /\ \A l \in Links : link[l] \in Files => content'[link[l]] = content[link[l]]
      /\ \A j \in Installers : open'[j] \in Files => content'[open'[j]] = content[open'[j]]
  <2> PICK newOpen : newOpen = open'
    OBVIOUS
  <2>1. content' = Collected(link, newOpen)
    BY <1>1
  <2>2. DOMAIN link = Links /\ DOMAIN newOpen = Installers
    BY <1>2
  <2> QED
    BY <2>1, <2>2, CollectKeeps
<1>4. /\ pc'[i] = "dead" /\ target'[i] = Default
      /\ \A q \in (Processes \cup Submitters) \ {i} : pc'[q] = pc[q]
      /\ \A j \in Installers \ {i} : target'[j] = target[j] /\ wants'[j] = wants[j]
  BY <1>0, <1>1 DEF Goto, Ranges
<1> QED
  BY <1>1, <1>3, <1>4

\* The steps are these.
LEMMA StepKinds ==
    ASSUME [Next]_vars
    PROVE  \/ \/ UNCHANGED vars
              \/ \E p \in Processes : Load(p) \/ MakeToken(p) \/ FillToken(p)
              \/ \E i \in Installers : Check(i) \/ Record(i)
              \/ \E s \in Submitters : ReadPolicy(s) \/ ReadSnapshot(s) \/ Insert(s)
           \/ \E i \in Installers : Open(i) \/ Write(i) \/ Publish(i) \/ Die(i)
BY DEF Next

-----------------------------------------------------------------------------
(* Who may write to which file. *)

LEMMA OwnedHolds ==
    ASSUME Ranges, Spare, Owned, [Next]_vars
    PROVE  Owned'
<1>0. \A i \in Installers : i \in Processes
  BY DEF Processes
<1>1. CASE \/ UNCHANGED vars
           \/ \E p \in Processes : Load(p) \/ MakeToken(p) \/ FillToken(p)
           \/ \E i \in Installers : Check(i) \/ Record(i)
           \/ \E s \in Submitters : ReadPolicy(s) \/ ReadSnapshot(s) \/ Insert(s)
  BY <1>1, QuietSteps DEF Owned, Has, HasOpen
<1>2. ASSUME NEW i \in Installers, Open(i)
      PROVE  Owned'
  <2>1. PICK f \in Files, l \in Links :
            /\ l = Temp(target[i])
            /\ link' = [link EXCEPT ![l] = f] /\ open' = [open EXCEPT ![i] = f]
            /\ pc' = [pc EXCEPT ![i] = "write"] /\ UNCHANGED target
            /\ \/ link[l] = f
               \/ link[l] = NoFile /\ f \notin Used
    BY <1>2, OpenDoes
  <2>2. f # NoFile /\ l[1] = target[i]
    BY <2>1, DirAssumption, LinkNames DEF Ranges
  <2>3. /\ \A k \in Links : link[k] = f => k = l
        /\ \A j \in Installers : open[j] = f => target[j] = target[i]
    BY <2>1, <2>2, UsedFiles DEF Owned, Has, HasOpen
  <2>4. /\ open'[i] = f /\ pc'[i] = "write" /\ link'[l] = f
        /\ \A j \in Installers \ {i} : open'[j] = open[j] /\ pc'[j] = pc[j]
        /\ \A k \in Links \ {l} : link'[k] = link[k]
    BY <1>0, <2>1 DEF Ranges
  <2> QED
    BY <2>1, <2>2, <2>3, <2>4 DEF Owned, Has, HasOpen
<1>3. ASSUME NEW i \in Installers, Write(i)
      PROVE  Owned'
  BY <1>0, <1>3, WriteDoes DEF Owned, Has, HasOpen, locals
<1>4. ASSUME NEW i \in Installers, Publish(i)
      PROVE  Owned'
  <2> PICK n : n = target[i]
    OBVIOUS
  <2>1. /\ n \in Names
        /\ \A j \in Installers \ {i} : /\ pc'[j] = pc[j] /\ target'[j] = target[j]
                                       /\ open'[j] = open[j]
        /\ pc'[i] \in {"failed", "record", "open"} /\ open'[i] = NoFile
        /\ \/ UNCHANGED link
           \/ /\ link'[Json(n)] = link[Temp(n)] /\ link'[Temp(n)] = NoFile
              /\ \A l \in Links \ {Json(n), Temp(n)} : link'[l] = link[l]
    BY <1>0, <1>4, PublishDoes DEF Ranges
  <2>2. /\ Json(n) \in Links /\ Temp(n) \in Links /\ Json(n)[1] = n /\ Temp(n)[1] = n
        /\ Json(n) # Temp(n)
    BY <2>1, LinkNames
  <2>3. \A l \in Links : Has(l)' => \E k \in Links : /\ Has(k) /\ link[k] = link'[l] /\ k[1] = l[1]
                                                   /\ k = IF l = Json(n) /\ link' # link THEN Temp(n) ELSE l
    BY <2>1, <2>2 DEF Has
  <2>4. \A k, l \in Links : link'[k] = link'[l] /\ k # l => ~Has(k)'
    BY <2>1, <2>2 DEF Owned, Has
  <2>5. \A j \in Installers, l \in Links :
            HasOpen(j)' /\ link'[l] = open'[j] => l[1] = target'[j]
    BY <2>1, <2>3 DEF Owned, Has, HasOpen
  <2> QED
    BY <2>1, <2>4, <2>5 DEF Owned, HasOpen
<1>5. ASSUME NEW i \in Installers, Die(i)
      PROVE  Owned'
  BY <1>0, <1>5, DieDoes DEF Owned, Has, HasOpen, Ranges
<1> QED
  BY <1>1, <1>2, <1>3, <1>4, <1>5, StepKinds

-----------------------------------------------------------------------------
(* Counts. *)

LEMMA MaxOfTwo ==
    ASSUME NEW a \in Nat, NEW b \in Nat
    PROVE  Max({a, b}) = IF a >= b THEN a ELSE b
<1> DEFINE m == IF a >= b THEN a ELSE b
<1>1. m \in {a, b} /\ \A y \in {a, b} : m >= y
  OBVIOUS
<1>2. \A x \in {a, b} : (\A y \in {a, b} : x >= y) => x = m
  OBVIOUS
<1> HIDE DEF m
<1>3. Max({a, b}) = m
  BY <1>1, <1>2 DEF Max
<1> QED
  BY <1>3 DEF m

\* An installation begins with Check, and is counted then.
LEMMA WhoBegins ==
    ASSUME Ranges, [Next]_vars
    PROVE  \/ UNCHANGED crowd /\ Installing' \subseteq Installing
           \/ \E p \in Installers \ Installing :
                 /\ Installing' = Installing \cup {p} /\ pc'[p] = "check"
                 /\ \A i \in Installing : pc'[i] = pc[i]
                 /\ crowd' = Max({crowd, Cardinality(Installing) + 1})
<1>0. /\ Submitters \cap Processes = {} /\ \A i \in Installers : i \in Processes
      /\ Installers \cap Servers = {}
  BY DirAssumption DEF Processes
<1>1. CASE UNCHANGED vars
  BY <1>1 DEF vars, Installing
<1>2. ASSUME NEW p \in Processes, NEW t \in Processes \cup {"empty"}, Proceed(p, t),
             pc[p] \in {"start", "fill"}
      PROVE  \/ UNCHANGED crowd /\ Installing' \subseteq Installing
             \/ \E q \in Installers \ Installing :
                 /\ Installing' = Installing \cup {q} /\ pc'[q] = "check"
                 /\ \A i \in Installing : pc'[i] = pc[i]
                 /\ crowd' = Max({crowd, Cardinality(Installing) + 1})
  <2>1. CASE p \in Servers
    <3>1. UNCHANGED crowd /\ pc' = [pc EXCEPT ![p] = "serving"]
      BY <2>1, <1>2 DEF Proceed
    <3> QED
      BY <1>0, <3>1 DEF Installing, Ranges
  <2>2. CASE p \notin Servers
    <3>1. /\ pc' = [pc EXCEPT ![p] = "check"] /\ p \in Installers
          /\ crowd' = Max({crowd, Cardinality(Installing) + 1})
      BY <2>2, <1>2 DEF Proceed, Processes
    <3>2. p \notin Installing /\ pc'[p] = "check" /\ \A i \in Installers \ {p} : pc'[i] = pc[i]
      BY <1>0, <1>2, <3>1 DEF Installing, Ranges
    <3>3. Installing' = Installing \cup {p}
      BY <3>1, <3>2 DEF Installing
    <3>4. \A i \in Installing : pc'[i] = pc[i]
      BY <3>2 DEF Installing
    <3> QED
      BY <3>1, <3>2, <3>3, <3>4
  <2> QED
    BY <2>1, <2>2
<1>3. ASSUME NEW p \in Processes, Load(p)
      PROVE  \/ UNCHANGED crowd /\ Installing' \subseteq Installing
             \/ \E t \in Processes \cup {"empty"} : Proceed(p, t) /\ pc[p] = "start"
  BY <1>0, <1>3 DEF Load, Ranges, Installing
<1>4. ASSUME NEW p \in Processes, FillToken(p)
      PROVE  Proceed(p, p) /\ pc[p] = "fill"
  BY <1>4 DEF FillToken
<1>5. ASSUME NEW p \in Processes, MakeToken(p)
      PROVE  UNCHANGED crowd /\ Installing' \subseteq Installing
  BY <1>0, <1>5 DEF MakeToken, Ranges, Installing
<1>6. ASSUME NEW i \in Installers, Check(i) \/ Record(i)
      PROVE  UNCHANGED crowd /\ Installing' \subseteq Installing
  BY <1>0, <1>6 DEF Check, Record, Goto, Ranges, Installing
<1>7. ASSUME NEW i \in Installers, Open(i) \/ Write(i)
      PROVE  UNCHANGED crowd /\ Installing' \subseteq Installing
  BY <1>0, <1>7 DEF Open, OpenLink, Write, Ranges, Installing
<1>8. ASSUME NEW i \in Installers, Publish(i) \/ Die(i)
      PROVE  UNCHANGED crowd /\ Installing' \subseteq Installing
  <2>1. CASE Publish(i)
    <3>1. UNCHANGED crowd /\ i \in Installing /\ \A j \in Installers \ {i} : pc'[j] = pc[j]
      BY <1>0, <2>1, PublishDoes DEF Installing
    <3> QED
      BY <3>1 DEF Installing
  <2>2. CASE Die(i)
    <3>1. UNCHANGED crowd /\ pc'[i] = "dead" /\ \A j \in Installers \ {i} : pc'[j] = pc[j]
      BY <1>0, <2>2, DieDoes
    <3> QED
      BY <3>1 DEF Installing
  <2> QED
    BY <1>8, <2>1, <2>2
<1>9. ASSUME NEW s \in Submitters, ReadPolicy(s) \/ ReadSnapshot(s) \/ Insert(s)
      PROVE  UNCHANGED crowd /\ Installing' \subseteq Installing
  BY <1>0, <1>9 DEF ReadPolicy, ReadSnapshot, Insert, Ranges, Installing
<1> QED
  BY <1>1, <1>2, <1>3, <1>4, <1>5, <1>6, <1>7, <1>8, <1>9 DEF Next

LEMMA CountedHolds ==
    ASSUME Ranges, Counted, [Next]_vars
    PROVE  Counted' /\ crowd \in Nat /\ crowd' \in Nat /\ crowd' >= crowd
<1>1. /\ IsFiniteSet(Installing) /\ Cardinality(Installing) \in Nat
      /\ Cardinality(Installers) \in Nat /\ IsFiniteSet(Installers)
      /\ crowd \in Nat
  BY InstallingFinite, DirAssumption DEF Counted
<1>2. CASE UNCHANGED crowd /\ Installing' \subseteq Installing
  <2>1. Cardinality(Installing') \in Nat /\ Cardinality(Installing') <= Cardinality(Installing)
    BY <1>1, <1>2, FS_Subset, FS_CardinalityType
  <2> QED
    BY <1>1, <1>2, <2>1 DEF Counted
<1>3. ASSUME NEW p \in Installers \ Installing, Installing' = Installing \cup {p},
             crowd' = Max({crowd, Cardinality(Installing) + 1})
      PROVE  Counted' /\ crowd' \in Nat /\ crowd' >= crowd
  <2>1. Cardinality(Installing') = Cardinality(Installing) + 1
    BY <1>1, <1>3, FS_AddElement
  <2>2. Cardinality(Installing') <= Cardinality(Installers)
    <3>1. Installing' \subseteq Installers
      BY DEF Installing
    <3> QED
      BY <1>1, <3>1, FS_Subset
  <2>3. crowd' = IF crowd >= Cardinality(Installing) + 1 THEN crowd ELSE Cardinality(Installing) + 1
    BY <1>1, <1>3, MaxOfTwo
  <2> QED
    BY <1>1, <2>1, <2>2, <2>3 DEF Counted
<1> QED
  BY <1>1, <1>2, <1>3, WhoBegins

\* Openings are not taken back.
LEMMA SpentGrows ==
    ASSUME Ranges, [Next]_vars
    PROVE  Spent \subseteq Spent'
<1>0. /\ Submitters \cap Processes = {} /\ \A i \in Installers : i \in Processes
  BY DirAssumption DEF Processes
<1> DEFINE Done1(i) == /\ pc[i] \notin {"start", "make", "fill", "check"}
                       /\ ~(pc[i] = "open" /\ target[i] # Default)
           Done2(i) == \/ pc[i] \in {"record", "done", "failed", "dead"}
                       \/ pc[i] \in {"write", "publish"} /\ target[i] = Default
<1> SUFFICES \A i \in Installers : (Done1(i) => Done1(i)') /\ (Done2(i) => Done2(i)')
  <2>1. Spent = {o \in Installers \X {1, 2} : IF o[2] = 1 THEN Done1(o[1]) ELSE Done2(o[1])}
    BY DEF Spent
  <2>2. Spent' = {o \in Installers \X {1, 2} : IF o[2] = 1 THEN Done1(o[1])' ELSE Done2(o[1])'}
    BY DEF Spent
  <2> QED
    BY <2>1, <2>2
<1>1. CASE UNCHANGED vars
  BY <1>1 DEF vars, locals
<1>2. ASSUME NEW p \in Processes, Load(p) \/ MakeToken(p) \/ FillToken(p)
      PROVE  /\ pc[p] \in {"start", "make", "fill"} /\ UNCHANGED target
             /\ \A i \in Installers \ {p} : pc'[i] = pc[i]
  <2>1. pc[p] \in {"start", "make", "fill"} /\ UNCHANGED target
    BY <1>2 DEF Load, MakeToken, FillToken, locals
  <2>2. CASE \E t \in Processes \cup {"empty"} : Proceed(p, t)
    BY <1>0, <2>1, <2>2, ProceedDoes DEF Ranges
  <2>3. CASE \E label : pc' = [pc EXCEPT ![p] = label]
    BY <1>0, <2>1, <2>3 DEF Ranges
  <2> QED
    BY <1>2, <2>1, <2>2, <2>3 DEF Load, MakeToken, FillToken, Ranges
<1>3. ASSUME NEW i \in Installers, Check(i) \/ Record(i)
      PROVE  /\ \A j \in Installers \ {i} : pc'[j] = pc[j] /\ target'[j] = target[j]
             /\ Done1(i) => Done1(i)'
             /\ Done2(i) => Done2(i)'
  BY <1>0, <1>3 DEF Check, Record, Goto, Ranges
<1>4. ASSUME NEW i \in Installers, Open(i) \/ Write(i)
      PROVE  /\ pc[i] \in {"open", "write"} /\ pc'[i] \in {"write", "publish"}
             /\ \A j \in Installers \ {i} : pc'[j] = pc[j]
             /\ UNCHANGED target /\ (pc[i] = "open" => pc'[i] = "write")
  BY <1>0, <1>4 DEF Open, OpenLink, Write, locals, Ranges
<1>5. ASSUME NEW i \in Installers, Publish(i) \/ Die(i)
      PROVE  /\ \A j \in Installers \ {i} : pc'[j] = pc[j] /\ target'[j] = target[j]
             /\ Done1(i) => Done1(i)'
             /\ Done2(i) => Done2(i)'
  BY <1>0, <1>5, PublishDoes, DieDoes
<1>6. ASSUME NEW s \in Submitters, ReadPolicy(s) \/ ReadSnapshot(s) \/ Insert(s)
      PROVE  UNCHANGED target /\ \A i \in Installers : pc'[i] = pc[i]
  BY <1>0, <1>6 DEF ReadPolicy, ReadSnapshot, Insert, locals, Ranges
<1> QED
  BY <1>1, <1>2, <1>3, <1>4, <1>5, <1>6 DEF Next

LEMMA SpareHolds ==
    ASSUME Ranges, Ranges', Spare, [Next]_vars
    PROVE  Spare'
<1>0. \A i \in Installers : i \in Processes
  BY DEF Processes
<1>1. /\ IsFiniteSet(Used) /\ Cardinality(Used) \in Nat
      /\ IsFiniteSet(Spent) /\ Cardinality(Spent) \in Nat
      /\ \A f \in Files : f \in Used <=> \/ \E l \in Links : link[l] = f
                                        \/ \E i \in Installers : open[i] = f
  BY UsedFiles
<1>2. /\ Used' \subseteq Files
      /\ \A f \in Files : f \in Used' => \/ \E l \in Links : link'[l] = f
                                         \/ \E i \in Installers : open'[i] = f
  <2>1. /\ Range(link') = {link'[l] : l \in Links}
        /\ Range(open') = {open'[i] : i \in Installers}
    BY DEF Ranges, Range
  <2> QED
    BY <2>1 DEF Used, Ranges
<1>3. IsFiniteSet(Spent') /\ Cardinality(Spent') \in Nat
  <2>1. Spent' \subseteq Installers \X {1, 2}
    BY DEF Spent
  <2> QED
    BY <2>1, FilesFinite, FS_Subset, FS_CardinalityType
<1>4. CASE Used' \subseteq Used
  <2>1. Cardinality(Used') <= Cardinality(Used) /\ Cardinality(Spent) <= Cardinality(Spent')
    BY <1>1, <1>3, <1>4, SpentGrows, FS_Subset
  <2>2. Cardinality(Used') \in Nat
    BY <1>1, <1>4, FS_Subset, FS_CardinalityType
  <2> QED
    BY <1>1, <1>3, <2>1, <2>2 DEF Spare
<1>5. ASSUME NEW i \in Installers, Open(i)
      PROVE  Spare'
  <2>1. PICK f \in Files, l \in Links :
            /\ pc[i] = "open" /\ link' = [link EXCEPT ![l] = f]
            /\ open' = [open EXCEPT ![i] = f]
            /\ pc' = [pc EXCEPT ![i] = "write"] /\ UNCHANGED target
    BY <1>5, OpenDoes
  <2>2. Used' \subseteq Used \cup {f}
    <3>1. /\ \A k \in Links : link'[k] = f \/ link'[k] = link[k]
          /\ \A j \in Installers : open'[j] = f \/ open'[j] = open[j]
      BY <2>1 DEF Ranges
    <3> QED
      BY <1>1, <1>2, <3>1
  <2>3. Cardinality(Used') <= Cardinality(Used) + 1 /\ Cardinality(Used') \in Nat
    <3>1. /\ IsFiniteSet(Used \cup {f})
          /\ Cardinality(Used \cup {f}) \in {Cardinality(Used), Cardinality(Used) + 1}
      BY <1>1, FS_AddElement
    <3>2. Cardinality(Used') <= Cardinality(Used \cup {f}) /\ Cardinality(Used') \in Nat
      BY <2>2, <3>1, FS_Subset, FS_CardinalityType
    <3> QED
      BY <1>1, <3>1, <3>2
  <2> PICK o : o = <<i, IF target[i] = Default THEN 2 ELSE 1>>
    OBVIOUS
  <2>4. o \notin Spent /\ o \in Installers \X {1, 2}
    BY <2>1 DEF Spent
  <2>5. o \in Spent'
    <3>1. pc'[i] = "write" /\ target'[i] = target[i]
      BY <1>0, <2>1 DEF Ranges
    <3> QED
      BY <2>4, <3>1 DEF Spent
  <2>6. Cardinality(Spent) + 1 <= Cardinality(Spent')
    <3>1. Cardinality(Spent \cup {o}) = Cardinality(Spent) + 1
      BY <1>1, <2>4, FS_AddElement
    <3>2. Spent \cup {o} \subseteq Spent'
      BY <2>5, SpentGrows
    <3> QED
      BY <1>3, <3>1, <3>2, FS_Subset
  <2> QED
    BY <1>1, <1>3, <2>3, <2>6 DEF Spare
<1>6. ASSUME NEW i \in Installers, Write(i) \/ Publish(i) \/ Die(i)
      PROVE  Used' \subseteq Used
  <2>1. /\ \A l \in Links : link'[l] = NoFile \/ \E k \in Links : link'[l] = link[k]
        /\ \A j \in Installers : open'[j] = NoFile \/ open'[j] = open[j]
    <3>1. CASE Write(i)
      BY <3>1, WriteDoes DEF locals
    <3>2. CASE Publish(i)
      <4> PICK n : n = target[i]
        OBVIOUS
      <4>1. /\ n \in Names /\ open' = [open EXCEPT ![i] = NoFile]
            /\ \/ UNCHANGED link
               \/ /\ link'[Json(n)] = link[Temp(n)] /\ link'[Temp(n)] = NoFile
                  /\ \A l \in Links \ {Json(n), Temp(n)} : link'[l] = link[l]
        BY <3>2, PublishDoes
      <4>2. Temp(n) \in Links
        BY <4>1, LinkNames
      <4> QED
        BY <4>1, <4>2 DEF Ranges
    <3>3. CASE Die(i)
      BY <3>3, DieDoes DEF Ranges
    <3> QED
      BY <1>6, <3>1, <3>2, <3>3
  <2> QED
    BY <1>1, <1>2, <2>1, DirAssumption
<1>7. CASE \/ UNCHANGED vars
           \/ \E p \in Processes : Load(p) \/ MakeToken(p) \/ FillToken(p)
           \/ \E i \in Installers : Check(i) \/ Record(i)
           \/ \E s \in Submitters : ReadPolicy(s) \/ ReadSnapshot(s) \/ Insert(s)
  <2>1. UNCHANGED <<link, open>>
    BY <1>7, QuietSteps
  <2> QED
    BY <1>4, <2>1 DEF Used
<1> QED
  BY <1>4, <1>5, <1>6, <1>7, StepKinds

-----------------------------------------------------------------------------
(* What files hold. *)

LEMMA PureHolds ==
    ASSUME Ranges, Ranges', Spare, Owned, Pure, [Next]_vars
    PROVE  Pure'
<1>0. \A i \in Installers : i \in Processes
  BY DEF Processes
<1>1. CASE \/ UNCHANGED vars
           \/ \E p \in Processes : Load(p) \/ MakeToken(p) \/ FillToken(p)
           \/ \E i \in Installers : Check(i) \/ Record(i)
           \/ \E s \in Submitters : ReadPolicy(s) \/ ReadSnapshot(s) \/ Insert(s)
  BY <1>1, QuietSteps DEF Owned, Pure, Has, HasOpen
<1>2. ASSUME NEW i \in Installers, Open(i)
      PROVE  Pure'
  <2>1. PICK f \in Files, l \in Links :
            /\ link' = [link EXCEPT ![l] = f] /\ open' = [open EXCEPT ![i] = f]
            /\ content' = [content EXCEPT ![f] = "empty"] /\ UNCHANGED target
    BY <1>2, OpenDoes
  <2>2. /\ content'[f] = "empty" /\ \A g \in Files \ {f} : content'[g] = content[g]
        /\ \A k \in Links : link'[k] = f \/ link'[k] = link[k]
        /\ \A j \in Installers : open'[j] = f \/ open'[j] = open[j]
    BY <2>1 DEF Ranges
  <2> QED
    BY <2>1, <2>2 DEF Pure, Has, HasOpen, Ranges
<1>3. ASSUME NEW i \in Installers, Write(i)
      PROVE  Pure'
  <2>1. /\ UNCHANGED <<link, open, target>> /\ open[i] \in Files /\ HasOpen(i)
        /\ \A f \in Files \ {open[i]} : content'[f] = content[f]
        /\ content[open[i]] \in {"empty", wants[i]} => content'[open[i]] = wants[i]
        /\ target[i] # Default => target[i] = wants[i]
    BY <1>3, WriteDoes DEF locals, Owned, HasOpen, Ranges
  <2>2. target[i] \in Policies => content'[open[i]] = target[i]
    BY <2>1, DirAssumption DEF Pure
  <2>3. ASSUME NEW l \in Links, l[1] \in Policies, Has(l)
        PROVE  content'[link[l]] \in {"empty", l[1]}
    <3>1. CASE link[l] = open[i]
      BY <2>1, <2>2, <2>3, <3>1 DEF Owned
    <3>2. CASE link[l] # open[i]
      BY <2>1, <2>3, <3>2 DEF Pure, Ranges, Has
    <3> QED
      BY <3>1, <3>2
  <2>4. ASSUME NEW j \in Installers, HasOpen(j), target[j] \in Policies
        PROVE  content'[open[j]] \in {"empty", target[j]}
    <3>1. CASE open[j] = open[i]
      BY <2>1, <2>2, <2>4, <3>1 DEF Owned
    <3>2. CASE open[j] # open[i]
      BY <2>1, <2>4, <3>2 DEF Pure, Ranges, HasOpen
    <3> QED
      BY <3>1, <3>2
  <2> QED
    BY <2>1, <2>3, <2>4 DEF Pure, Has, HasOpen
<1>4. ASSUME NEW i \in Installers, Publish(i) \/ Die(i)
      PROVE  Pure'
  <2>1. /\ \A l \in Links : Has(l)' => \E k \in Links : link'[l] = link[k] /\ k[1] = l[1]
        /\ \A l \in Links : link'[l] \in Files => content'[link'[l]] = content[link'[l]]
    <3>1. CASE Publish(i)
      <4> PICK n : n = target[i]
        OBVIOUS
      <4>1. /\ n \in Names
            /\ \/ UNCHANGED link
               \/ /\ link'[Json(n)] = link[Temp(n)] /\ link'[Temp(n)] = NoFile
                  /\ \A l \in Links \ {Json(n), Temp(n)} : link'[l] = link[l]
            /\ \A l \in Links : link'[l] \in Files => content'[link'[l]] = content[link'[l]]
        BY <3>1, PublishDoes
      <4>2. Temp(n) \in Links /\ Temp(n)[1] = n /\ Json(n)[1] = n
        BY <4>1, LinkNames
      <4> QED
        BY <4>1, <4>2 DEF Has
    <3>2. CASE Die(i)
      BY <3>2, DieDoes
    <3> QED
      BY <1>4, <3>1, <3>2
  <2>2. /\ open' = [open EXCEPT ![i] = NoFile]
        /\ \A j \in Installers \ {i} : target'[j] = target[j]
        /\ \A j \in Installers : open'[j] \in Files => content'[open'[j]] = content[open'[j]]
    BY <1>4, PublishDoes, DieDoes
  <2>3. ASSUME NEW l \in Links, l[1] \in Policies, Has(l)'
        PROVE  content'[link'[l]] \in {"empty", l[1]}
    BY <2>1, <2>3 DEF Pure, Has, Ranges
  <2>4. ASSUME NEW j \in Installers, HasOpen(j)', target'[j] \in Policies
        PROVE  content'[open'[j]] \in {"empty", target'[j]}
    BY <2>2, <2>4 DEF Pure, HasOpen, Ranges
  <2> QED
    BY <2>3, <2>4 DEF Pure
<1> QED
  BY <1>1, <1>2, <1>3, <1>4, StepKinds

-----------------------------------------------------------------------------
(* Two installations at a time. *)

\* Steps that touch no file let no installer place a snapshot where there is one.
LEMMA QuietPlacing ==
    ASSUME Ranges, Pure,
           \/ UNCHANGED vars
           \/ \E p \in Processes : Load(p) \/ MakeToken(p) \/ FillToken(p)
           \/ \E i \in Installers : Check(i) \/ Record(i)
           \/ \E s \in Submitters : ReadPolicy(s) \/ ReadSnapshot(s) \/ Insert(s),
           NEW p \in Policies, Has(Json(p)), NEW j \in Placing(p)'
    PROVE  j \in Placing(p) /\ pc'[j] = pc[j]
<1>0. /\ Submitters \cap Processes = {} /\ \A i \in Installers : i \in Processes
      /\ j \in Installers /\ pc'[j] \in {"open", "write", "publish"} /\ target'[j] = p
      /\ Default \notin Policies /\ NoFile \notin Policies /\ NoFile # "empty"
  BY DirAssumption DEF Processes, Placing
<1>1. CASE UNCHANGED vars
  BY <1>1 DEF vars, locals, Placing
<1>2. ASSUME NEW q \in Processes, Load(q) \/ MakeToken(q) \/ FillToken(q)
      PROVE  j \in Placing(p) /\ pc'[j] = pc[j]
  <2>1. UNCHANGED target
    BY <1>2 DEF Load, MakeToken, FillToken, locals
  <2>2. CASE \E t \in Processes \cup {"empty"} : Proceed(q, t)
    BY <1>0, <2>1, <2>2, ProceedDoes DEF Ranges, Placing
  <2>3. CASE pc' = [pc EXCEPT ![q] = "make"] \/ pc' = [pc EXCEPT ![q] = "fill"]
    BY <1>0, <2>1, <2>3 DEF Ranges, Placing
  <2> QED
    BY <1>2, <2>2, <2>3 DEF Load, MakeToken, FillToken, Ranges
<1>3. ASSUME NEW i \in Installers, Check(i) \/ Record(i)
      PROVE  j \in Placing(p) /\ pc'[j] = pc[j]
  <2>1. CASE j # i
    <3>1. pc'[j] = pc[j] /\ target'[j] = target[j]
      BY <1>0, <1>3, <2>1 DEF Check, Record, Goto, Ranges
    <3> QED
      BY <1>0, <3>1 DEF Placing
  <2>2. CASE j = i
    <3>1. Json(p) \in Links /\ Json(p)[1] = p
      BY LinkNames DEF Names
    <3>2. At(Json(p)) # NoFile
      BY <1>0, <3>1 DEF Pure, At, Has
    <3>3. target'[i] = Default
      <4>1. CASE Check(i)
        <5>1. wants[i] \in Policies
          BY <4>1 DEF Check, Ranges, Installing
        <5>2. Goto(i, "open", wants[i]) => target'[i] = wants[i]
          BY DEF Goto, Ranges
        <5>3. \A label : Goto(i, label, Default) => target'[i] = Default
          BY DEF Goto, Ranges
        <5>4. CASE At(Json(wants[i])) = NoFile
          <6>1. At(Json(wants[i])) # wants[i]
            BY <1>0, <5>1, <5>4
          <6>2. Goto(i, "open", wants[i])
            BY <4>1, <5>4, <6>1 DEF Check
          <6>3. wants[i] = p
            BY <1>0, <2>2, <5>2, <6>2
          <6> QED
            BY <3>2, <5>4, <6>3
        <5>5. CASE At(Json(wants[i])) # NoFile
          BY <4>1, <5>3, <5>5 DEF Check
        <5> QED
          BY <5>4, <5>5
      <4>2. CASE Record(i)
        BY <4>2 DEF Record, Goto, Ranges
      <4> QED
        BY <1>3, <4>1, <4>2
    <3> QED
      BY <1>0, <2>2, <3>3
  <2> QED
    BY <2>1, <2>2
<1>4. ASSUME NEW s \in Submitters, ReadPolicy(s) \/ ReadSnapshot(s) \/ Insert(s)
      PROVE  j \in Placing(p) /\ pc'[j] = pc[j]
  BY <1>0, <1>4 DEF ReadPolicy, ReadSnapshot, Insert, locals, Ranges, Placing
<1> QED
  BY <1>1, <1>2, <1>3, <1>4

\* What Open leaves of the other files.
LEMMA OpenLeaves ==
    ASSUME Ranges, Spare, Owned, NEW i \in Installers, Open(i)
    PROVE  /\ pc[i] = "open" /\ pc'[i] = "write" /\ target[i] \in Names
           /\ open'[i] = link'[Temp(target[i])] /\ content'[open'[i]] = "empty"
           /\ open'[i] \in Files
           /\ \A q \in (Processes \cup Submitters) \ {i} : pc'[q] = pc[q]
           /\ \A j \in Installers \ {i} : open'[j] = open[j]
           /\ \A l \in Links \ {Temp(target[i])} :
                /\ link'[l] = link[l]
                /\ Has(l) => content'[link[l]] = content[link[l]]
           /\ UNCHANGED <<tokens, wants, target, bound, jobs, ledger, crowd, deaths>>
<1>0. i \in Processes /\ target[i] \in Names
  BY DEF Processes, Ranges
<1>1. PICK f \in Files, l \in Links :
        /\ l = Temp(target[i]) /\ pc[i] = "open"
        /\ link' = [link EXCEPT ![l] = f]
        /\ content' = [content EXCEPT ![f] = "empty"]
        /\ open' = [open EXCEPT ![i] = f]
        /\ pc' = [pc EXCEPT ![i] = "write"]
        /\ UNCHANGED <<tokens, wants, target, bound, jobs, ledger, crowd, deaths>>
        /\ \/ link[l] = f
           \/ link[l] = NoFile /\ f \notin Used
  BY OpenDoes
<1>2. f # NoFile
  BY DirAssumption
<1>3. \A k \in Links \ {l} : link[k] # f
  BY <1>1, <1>2, UsedFiles DEF Owned, Has
<1> QED
  BY <1>0, <1>1, <1>3 DEF Ranges, Has

\* A whole snapshot is only ever replaced by a whole one.
LEMMA WholeStays ==
    ASSUME Ranges, Spare, Owned, Pure, NEW h \in Policies, Settled(h), At(Json(h)) = h,
           [Next]_vars
    PROVE  At(Json(h))' = h
<1>0. /\ h \in Names /\ Json(h) \in Links /\ Json(h)[1] = h /\ Temp(h) \in Links
      /\ \A n \in Names : Json(h) # Temp(n) /\ (Json(n) = Json(h) => n = h)
      /\ Has(Json(h)) /\ content[link[Json(h)]] = h /\ link[Json(h)] \in Files
      /\ Default \notin Policies /\ NoFile \notin Files
  <2>1. h \in Names
    BY DEF Names
  <2>2. Has(Json(h)) /\ content[link[Json(h)]] = h
    BY DirAssumption DEF At, Has
  <2> QED
    BY <2>1, <2>2, LinkNames, DirAssumption DEF Ranges, Has
<1>1. CASE \/ UNCHANGED vars
           \/ \E p \in Processes : Load(p) \/ MakeToken(p) \/ FillToken(p)
           \/ \E i \in Installers : Check(i) \/ Record(i)
           \/ \E s \in Submitters : ReadPolicy(s) \/ ReadSnapshot(s) \/ Insert(s)
  BY <1>1, QuietSteps DEF At
<1>2. ASSUME NEW i \in Installers, Open(i)
      PROVE  At(Json(h))' = h
  BY <1>0, <1>2, OpenLeaves DEF At, Has
<1>3. ASSUME NEW i \in Installers, Write(i)
      PROVE  At(Json(h))' = h
  <2>1. /\ UNCHANGED link
        /\ open[i] # link[Json(h)] => content'[link[Json(h)]] = content[link[Json(h)]]
        /\ content[open[i]] \in {"empty", wants[i]} /\ open[i] \in Files =>
              content'[open[i]] = wants[i]
        /\ HasOpen(i)
    BY <1>0, <1>3, WriteDoes DEF Owned
  <2>2. CASE open[i] = link[Json(h)]
    <3>1. target[i] = h
      BY <1>0, <2>1, <2>2 DEF Owned
    <3>2. wants[i] = h
      BY <1>0, <3>1 DEF Ranges
    <3> QED
      BY <1>0, <2>1, <2>2, <3>2 DEF At, Has
  <2> QED
    BY <1>0, <2>1, <2>2 DEF At, Has
<1>4. ASSUME NEW i \in Installers, Publish(i)
      PROVE  At(Json(h))' = h
  <2> PICK n : n = target[i]
    OBVIOUS
  <2>1. /\ n \in Names /\ pc[i] = "publish"
        /\ \/ UNCHANGED link
           \/ /\ Has(Temp(n)) /\ link'[Json(n)] = link[Temp(n)]
              /\ \A l \in Links \ {Json(n), Temp(n)} : link'[l] = link[l]
        /\ \A l \in Links : link'[l] \in Files => content'[link'[l]] = content[link'[l]]
    BY <1>4, PublishDoes
  <2>2. CASE n = h /\ link' # link
    <3>1. i \in Placing(h)
      BY <2>1, <2>2 DEF Placing
    <3>2. content[link[Temp(h)]] = h
      BY <1>0, <2>1, <2>2, <3>1 DEF Settled
    <3>3. link'[Json(h)] = link[Temp(h)] /\ link[Temp(h)] \in Files
      BY <1>0, <2>1, <2>2 DEF Has, Ranges
    <3> QED
      BY <1>0, <2>1, <3>2, <3>3 DEF At
  <2>3. CASE n # h \/ link' = link
    <3>1. link'[Json(h)] = link[Json(h)]
      BY <1>0, <2>1, <2>3
    <3> QED
      BY <1>0, <2>1, <3>1 DEF At
  <2> QED
    BY <2>2, <2>3
<1>5. ASSUME NEW i \in Installers, Die(i)
      PROVE  At(Json(h))' = h
  BY <1>0, <1>5, DieDoes DEF At, Has
<1> QED
  BY <1>1, <1>2, <1>3, <1>4, <1>5, StepKinds

LEMMA SettledHolds ==
    ASSUME Ranges, Spare, Owned, Pure, Counted, crowd <= 2, NEW p \in Policies, Settled(p),
           [Next]_vars
    PROVE  Settled(p)'
<1>0. /\ p \in Names /\ Json(p) \in Links /\ Temp(p) \in Links /\ Json(p) # Temp(p)
      /\ Json(p)[1] = p /\ Temp(p)[1] = p
      /\ \A n \in Names : /\ Json(p) # Temp(n) /\ Json(n) # Temp(p)
                          /\ Json(n) = Json(p) => n = p
                          /\ Temp(n) = Temp(p) => n = p
      /\ Default \notin Policies /\ NoFile \notin Files
      /\ \A i \in Installers : i \in Processes
  <2>1. p \in Names
    BY DEF Names
  <2> QED
    BY <2>1, LinkNames, DirAssumption DEF Processes
<1>1. CASE \/ UNCHANGED vars
           \/ \E q \in Processes : Load(q) \/ MakeToken(q) \/ FillToken(q)
           \/ \E i \in Installers : Check(i) \/ Record(i)
           \/ \E s \in Submitters : ReadPolicy(s) \/ ReadSnapshot(s) \/ Insert(s)
  <2>1. UNCHANGED <<link, content, open>>
    BY <1>1, QuietSteps
  <2>2. Has(Json(p)) => \A j \in Placing(p)' : j \in Placing(p) /\ pc'[j] = pc[j]
    BY <1>1, QuietPlacing
  <2> QED
    BY <2>1, <2>2 DEF Settled, Has
<1>2. ASSUME NEW i \in Installers, Open(i)
      PROVE  Settled(p)'
  <2>1. /\ pc[i] = "open" /\ pc'[i] = "write" /\ target[i] \in Names
        /\ open'[i] = link'[Temp(target[i])]
        /\ \A j \in Installers \ {i} : pc'[j] = pc[j] /\ open'[j] = open[j]
        /\ \A l \in Links \ {Temp(target[i])} :
              /\ link'[l] = link[l]
              /\ Has(l) => content'[link[l]] = content[link[l]]
        /\ UNCHANGED target
    BY <1>0, <1>2, OpenLeaves
  <2>2. Placing(p)' = Placing(p) /\ (i \in Placing(p) <=> target[i] = p)
    BY <2>1 DEF Placing
  <2>3. link'[Json(p)] = link[Json(p)]
    BY <1>0, <2>1
  <2>4. CASE target[i] = p
    BY <2>1, <2>2, <2>3, <2>4 DEF Settled, Has
  <2>5. CASE target[i] # p
    <3>1. link'[Temp(p)] = link[Temp(p)] /\ (Has(Temp(p)) => content'[link[Temp(p)]] = content[link[Temp(p)]])
      BY <1>0, <2>1, <2>5
    <3>2. \A j \in Placing(p) : pc'[j] = pc[j] /\ open'[j] = open[j]
      BY <2>1, <2>2, <2>5 DEF Placing
    <3> QED
      BY <2>2, <2>3, <3>1, <3>2 DEF Settled, Has
  <2> QED
    BY <2>4, <2>5
<1>3. ASSUME NEW i \in Installers, Write(i)
      PROVE  Settled(p)'
  <2>1. /\ pc[i] = "write" /\ pc'[i] = "publish"
        /\ UNCHANGED <<link, open, target>> /\ open[i] \in Files /\ HasOpen(i)
        /\ \A j \in Installers \ {i} : pc'[j] = pc[j]
        /\ \A f \in Files \ {open[i]} : content'[f] = content[f]
        /\ content[open[i]] \in {"empty", wants[i]} => content'[open[i]] = wants[i]
    BY <1>0, <1>3, WriteDoes DEF Owned, HasOpen, Ranges, locals
  <2>2. Placing(p)' = Placing(p) /\ (i \in Placing(p) <=> target[i] = p)
    BY <2>1 DEF Placing
  <2>3. CASE target[i] = p
    <3>1. content'[open[i]] = p
      BY <1>0, <2>1, <2>3 DEF Pure, Ranges
    <3> QED
      BY <2>1, <2>2, <2>3, <3>1 DEF Settled, Has
  <2>4. CASE target[i] # p
    <3>1. Has(Temp(p)) => content'[link[Temp(p)]] = content[link[Temp(p)]]
      BY <1>0, <2>1, <2>4 DEF Owned, Has, Ranges
    <3>2. \A j \in Placing(p) : pc'[j] = pc[j]
      BY <2>1, <2>2, <2>4 DEF Placing
    <3> QED
      BY <2>1, <2>2, <3>1, <3>2 DEF Settled, Has
  <2> QED
    BY <2>3, <2>4
<1>4. ASSUME NEW i \in Installers, Publish(i)
      PROVE  Settled(p)'
  <2> PICK n : n = target[i]
    OBVIOUS
  <2>1. /\ n \in Names /\ pc[i] = "publish" /\ target'[i] = Default
        /\ \A j \in Installers \ {i} : /\ pc'[j] = pc[j] /\ target'[j] = target[j]
                                       /\ open'[j] = open[j]
        /\ \/ UNCHANGED link
           \/ /\ link'[Json(n)] = link[Temp(n)] /\ link'[Temp(n)] = NoFile
              /\ \A l \in Links \ {Json(n), Temp(n)} : link'[l] = link[l]
        /\ \A l \in Links : link'[l] \in Files => content'[link'[l]] = content[link'[l]]
    BY <1>0, <1>4, PublishDoes DEF Ranges
  <2>2. Placing(p)' = Placing(p) \ {i} /\ (i \in Placing(p) <=> n = p)
    BY <1>0, <2>1 DEF Placing
  <2>3. \A j \in Placing(p)' : pc'[j] = pc[j] /\ open'[j] = open[j] /\ j \in Installers
    BY <2>1, <2>2 DEF Placing
  <2>4. CASE link' = link \/ n # p
    <3>1. link'[Json(p)] = link[Json(p)] /\ link'[Temp(p)] = link[Temp(p)]
      BY <1>0, <2>1, <2>4
    <3>2. Has(Temp(p)) => content'[link[Temp(p)]] = content[link[Temp(p)]]
      BY <1>0, <2>1, <3>1 DEF Has, Ranges
    <3> QED
      BY <2>2, <2>3, <3>1, <3>2 DEF Settled, Has
  <2>5. CASE n = p /\ link' # link
    <3>1. ~Has(Temp(p))'
      BY <2>1, <2>5 DEF Has
    <3>2. i \in Installing /\ Placing(p) \subseteq Installing
      BY <2>1 DEF Installing, Placing
    <3>3. \A j, k \in Placing(p)' : j = k
      BY <2>2, <3>2, TwoAtATime
    <3> QED
      BY <3>1, <3>3 DEF Settled
  <2> QED
    BY <2>4, <2>5
<1>5. ASSUME NEW i \in Installers, Die(i)
      PROVE  Settled(p)'
  <2>1. /\ pc'[i] = "dead" /\ UNCHANGED link
        /\ \A j \in Installers \ {i} : /\ pc'[j] = pc[j] /\ target'[j] = target[j]
                                       /\ open'[j] = open[j]
        /\ \A l \in Links : link[l] \in Files => content'[link[l]] = content[link[l]]
    BY <1>0, <1>5, DieDoes DEF Ranges
  <2>2. \A j \in Placing(p)' : /\ pc'[j] = pc[j] /\ open'[j] = open[j]
                               /\ j \in Placing(p)
    BY <2>1 DEF Placing
  <2>3. Has(Temp(p)) => content'[link[Temp(p)]] = content[link[Temp(p)]]
    BY <1>0, <2>1 DEF Has, Ranges
  <2> QED
    BY <2>1, <2>2, <2>3 DEF Settled, Has
<1> QED
  BY <1>1, <1>2, <1>3, <1>4, <1>5, StepKinds

\* A policy is relied on once its snapshot was found whole.
LEMMA ReliedGrows ==
    ASSUME Ranges, [Next]_vars, NEW h \in Relied'
    PROVE  h \in Policies /\ (h \in Relied \/ (At(Json(h)) = h /\ UNCHANGED <<link, content>>))
<1>0. /\ Submitters \cap Processes = {} /\ \A i \in Installers : i \in Processes
  BY DirAssumption DEF Processes
<1>1. CASE UNCHANGED <<jobs, bound>> /\ \A s \in Submitters : pc'[s] = pc[s]
  <2>1. Relied' = Relied
    BY <1>1 DEF Relied
  <2>2. Relied \subseteq Policies
    BY DEF Relied, Ranges
  <2> QED
    BY <2>1, <2>2
<1>2. ASSUME NEW s \in Submitters, ReadPolicy(s) \/ ReadSnapshot(s) \/ Insert(s)
      PROVE  h \in Policies /\ (h \in Relied \/ (At(Json(h)) = h /\ UNCHANGED <<link, content>>))
  <2>1. UNCHANGED <<link, content>> /\ \A r \in Submitters \ {s} : pc'[r] = pc[r] /\ bound'[r] = bound[r]
    BY <1>2 DEF ReadPolicy, ReadSnapshot, Insert, files, Ranges
  <2>2. CASE ReadPolicy(s)
    <3>1. pc'[s] # "insert" /\ UNCHANGED jobs
      BY <2>2 DEF ReadPolicy, Ranges
    <3> QED
      BY <2>1, <3>1 DEF Relied, Ranges
  <2>3. CASE ReadSnapshot(s)
    <3>1. /\ UNCHANGED <<jobs, bound>> /\ bound[s] \in Policies
          /\ pc'[s] = "insert" => At(Json(bound[s])) = bound[s]
      BY <2>3 DEF ReadSnapshot, Ranges
    <3> QED
      BY <2>1, <3>1 DEF Relied, Ranges
  <2>4. CASE Insert(s)
    <3>1. /\ UNCHANGED bound /\ bound[s] \in Policies /\ pc[s] = "insert" /\ pc'[s] = "queued"
          /\ jobs' = jobs \cup {bound[s]}
      BY <2>4 DEF Insert, Ranges
    <3> QED
      BY <2>1, <3>1 DEF Relied, Ranges
  <2> QED
    BY <1>2, <2>2, <2>3, <2>4
<1>3. ASSUME NEW p \in Processes, Load(p) \/ MakeToken(p) \/ FillToken(p)
      PROVE  UNCHANGED <<jobs, bound>> /\ \A s \in Submitters : pc'[s] = pc[s]
  <2>1. CASE \E t \in Processes \cup {"empty"} : Proceed(p, t)
    BY <1>0, <1>3, <2>1, ProceedDoes DEF Load, MakeToken, FillToken, Ranges
  <2>2. CASE pc' = [pc EXCEPT ![p] = "make"] \/ pc' = [pc EXCEPT ![p] = "fill"]
    BY <1>0, <1>3, <2>2 DEF Load, MakeToken, FillToken, Ranges
  <2> QED
    BY <1>3, <2>1, <2>2 DEF Load, MakeToken, FillToken, Ranges
<1>4. ASSUME NEW i \in Installers, Check(i) \/ Record(i)
      PROVE  UNCHANGED <<jobs, bound>> /\ \A s \in Submitters : pc'[s] = pc[s]
  BY <1>0, <1>4 DEF Check, Record, Goto, Ranges
<1>5. ASSUME NEW i \in Installers, Open(i) \/ Write(i) \/ Publish(i) \/ Die(i)
      PROVE  UNCHANGED <<jobs, bound>> /\ \A s \in Submitters : pc'[s] = pc[s]
  <2>1. \A s \in Submitters : s # i
    BY <1>0
  <2> QED
    BY <1>5, <2>1, OpenDoes, WriteDoes, PublishDoes, DieDoes DEF Open, OpenLink, Ranges
<1> QED
  BY <1>1, <1>2, <1>3, <1>4, <1>5 DEF Next, vars

LEMMA PairsHold ==
    ASSUME Ranges, Spare, Owned, Pure, Counted, Pairs, [Next]_vars
    PROVE  Pairs'
<1> SUFFICES ASSUME crowd' <= 2 PROVE (\A p \in Policies : Settled(p)') /\ \A h \in Relied' : At(Json(h))' = h
  BY DEF Pairs
<1>1. crowd <= 2
  BY CountedHolds
<1>2. (\A p \in Policies : Settled(p)) /\ \A h \in Relied : At(Json(h)) = h
  BY <1>1 DEF Pairs
<1>3. \A p \in Policies : Settled(p)'
  BY <1>1, <1>2, SettledHolds
<1>4. ASSUME NEW h \in Relied'
      PROVE  At(Json(h))' = h
  <2>1. h \in Policies /\ (h \in Relied \/ (At(Json(h)) = h /\ UNCHANGED <<link, content>>))
    BY <1>4, ReliedGrows
  <2>2. At(Json(h)) = h
    BY <1>2, <2>1
  <2> QED
    BY <1>2, <2>1, <2>2, WholeStays
<1> QED
  BY <1>3, <1>4

-----------------------------------------------------------------------------
(* One installation at a time. *)

\* A snapshot that is there stays whole.
LEMMA SnapshotsStay ==
    ASSUME Ranges, Spare, Owned, Pure, Counted, Pairs, Alone, crowd <= 1, [Next]_vars,
           NEW p \in Policies, Has(Json(p))
    PROVE  At(Json(p))' = p /\ Has(Json(p))'
<1>1. Settled(p) /\ At(Json(p)) = p
  BY CountedHolds DEF Pairs, Alone
<1>2. At(Json(p))' = p
  BY <1>1, WholeStays
<1> QED
  BY <1>2, DirAssumption DEF At, Has

\* Steps that touch no file.
LEMMA AloneQuiet ==
    ASSUME Ranges, Spare, Owned, Pure, Counted, Pairs, Alone, crowd <= 1, crowd' <= 1,
           [Next]_vars,
           \/ UNCHANGED vars
           \/ \E p \in Processes : Load(p) \/ MakeToken(p) \/ FillToken(p)
           \/ \E i \in Installers : Check(i) \/ Record(i)
           \/ \E s \in Submitters : ReadPolicy(s) \/ ReadSnapshot(s) \/ Insert(s)
    PROVE  Alone'
<1>0. /\ Submitters \cap Processes = {} /\ \A i \in Installers : i \in Processes
      /\ Default \notin Policies /\ NoFile \notin Policies
      /\ UNCHANGED <<link, content, open>>
  BY QuietSteps, DirAssumption DEF Processes
<1>1. /\ \A p \in Policies : Has(Json(p))' => At(Json(p))' = p
      /\ Has(Json(Default))' =>
            At(Json(Default))' \in Policies /\ Has(Json(At(Json(Default))))'
  BY <1>0 DEF Alone, At, Has
<1>2. ASSUME UNCHANGED <<pc, wants, target, bound, ledger, deaths>>
      PROVE  Alone'
  BY <1>0, <1>1, <1>2 DEF Alone, At, Has, Installing
<1>3. ASSUME NEW p \in Processes, Load(p) \/ MakeToken(p) \/ FillToken(p)
      PROVE  Alone'
  <2>1. /\ UNCHANGED <<target, bound, ledger, deaths>> /\ pc[p] \in {"start", "make", "fill"}
        /\ p \notin Submitters
    BY <1>0, <1>3 DEF Load, MakeToken, FillToken, locals
  <2>2. /\ \A q \in (Processes \cup Submitters) \ {p} : pc'[q] = pc[q]
        /\ pc'[p] \in {"make", "fill", "serving", "check"}
        /\ \A i \in Installers \ {p} : wants'[i] = wants[i]
    <3>1. CASE \E t \in Processes \cup {"empty"} : Proceed(p, t)
      BY <2>1, <3>1, ProceedDoes DEF Ranges
    <3>2. CASE /\ pc' = [pc EXCEPT ![p] = "make"] \/ pc' = [pc EXCEPT ![p] = "fill"]
               /\ UNCHANGED wants
      BY <2>1, <3>2 DEF Ranges
    <3> QED
      BY <1>3, <3>1, <3>2 DEF Load, MakeToken, FillToken, Ranges, locals
  <2>3. \A s \in Submitters : pc'[s] = pc[s] /\ bound'[s] = bound[s]
    BY <2>1, <2>2
  <2>4. \A i \in Installing : i \in Installing' /\ pc'[i] = pc[i]
    BY <1>0, <2>1, <2>2 DEF Installing
  <2>5. \A i \in Installing' : pc'[i] = "check" \/ (i \in Installing /\ pc'[i] = pc[i] /\ wants'[i] = wants[i])
    BY <1>0, <2>2 DEF Installing
  <2>6. \A i \in Installing' :
            /\ pc'[i] # "check" /\ target'[i] = Default => link'[Json(wants'[i])] # NoFile
            /\ pc'[i] \in {"write", "publish"} => link'[Temp(target'[i])] = open'[i]
            /\ pc'[i] = "write" => content'[open'[i]] = "empty"
            /\ pc'[i] = "publish" => content'[open'[i]] = wants'[i]
            /\ pc'[i] = "record" => Has(Json(Default))' /\ At(Json(Default))' = wants'[i]
    BY <1>0, <2>1, <2>5 DEF Alone, Has, At
  <2>7. deaths' = 0 /\ Has(Json(Default))' /\ (\A i \in Installing' : pc'[i] # "record") =>
            At(Json(Default))' = ledger'
    BY <1>0, <2>1, <2>4 DEF Alone, Has, At
  <2> QED
    BY <1>0, <1>1, <2>3, <2>6, <2>7 DEF Alone, Has
<1>4. ASSUME NEW i \in Installers, Check(i) \/ Record(i)
      PROVE  Alone'
  <2>1. /\ i \in Installing /\ UNCHANGED <<bound, deaths>>
        /\ \A j \in Installing : j = i
    <3>1. i \in Installing /\ UNCHANGED <<bound, deaths>>
      BY <1>4 DEF Check, Record, Installing
    <3> QED
      BY <3>1, OneAtATime
  <2>2. \A q \in (Processes \cup Submitters) \ {i} : pc'[q] = pc[q]
    BY <1>0, <1>4 DEF Check, Record, Goto, Ranges
  <2>3. \A s \in Submitters : pc'[s] = pc[s] /\ bound'[s] = bound[s]
    BY <1>0, <2>1, <2>2
  <2>4. \A j \in Installing' : j = i
    BY <1>0, <2>1, <2>2 DEF Installing
  <2>5. CASE Check(i)
    <3>1. wants[i] \in Policies /\ pc[i] = "check" /\ UNCHANGED ledger
      BY <2>5 DEF Check, Ranges, Installing
    <3>2. /\ pc'[i] \in {"open", "failed"}
          /\ pc'[i] = "open" => wants'[i] = wants[i]
          /\ pc'[i] = "open" /\ target'[i] = Default => At(Json(wants[i])) = wants[i]
      <4>1. \A label, name : Goto(i, label, name) =>
                /\ pc'[i] = label /\ target'[i] = name
                /\ label = "open" => wants'[i] = wants[i]
        BY <1>0 DEF Goto, Ranges
      <4>2. CASE At(Json(wants[i])) = NoFile
        <5>1. At(Json(wants[i])) # wants[i] /\ wants[i] # Default
          BY <1>0, <3>1, <4>2
        <5>2. Goto(i, "open", wants[i])
          BY <2>5, <4>2, <5>1 DEF Check
        <5> QED
          BY <4>1, <5>1, <5>2
      <4>3. CASE At(Json(wants[i])) = wants[i]
        <5>1. At(Json(wants[i])) # NoFile
          BY <1>0, <3>1, <4>3
        <5>2. Goto(i, "open", Default)
          BY <2>5, <4>3, <5>1 DEF Check
        <5> QED
          BY <4>1, <4>3, <5>2
      <4>4. CASE At(Json(wants[i])) # NoFile /\ At(Json(wants[i])) # wants[i]
        <5>1. Goto(i, "failed", Default)
          BY <2>5, <4>4 DEF Check
        <5> QED
          BY <4>1, <5>1
      <4> QED
        BY <4>2, <4>3, <4>4
    <3>3. At(Json(wants[i])) = wants[i] => link'[Json(wants[i])] # NoFile
      BY <1>0, <3>1 DEF At, Has
    <3>4. \A j \in Installing' :
            /\ pc'[j] # "check" /\ target'[j] = Default => link'[Json(wants'[j])] # NoFile
            /\ pc'[j] = "open"
      BY <2>4, <3>2, <3>3 DEF Installing, Has
    <3>5. deaths' = 0 /\ Has(Json(Default))' => At(Json(Default))' = ledger'
      BY <1>0, <2>1, <3>1 DEF Alone, Has, At
    <3> QED
      BY <1>0, <1>1, <2>3, <3>4, <3>5 DEF Alone, Has
  <2>6. CASE Record(i)
    <3>1. pc[i] = "record" /\ pc'[i] = "done" /\ ledger' = wants[i]
      BY <1>0, <2>6 DEF Record, Goto, Ranges
    <3>2. Installing' = {}
      BY <2>4, <3>1 DEF Installing
    <3>3. At(Json(Default))' = ledger'
      BY <1>0, <2>1, <3>1 DEF Alone, At
    <3> QED
      BY <1>0, <1>1, <2>3, <3>2, <3>3 DEF Alone, Has
  <2> QED
    BY <1>4, <2>5, <2>6
<1>5. ASSUME NEW s \in Submitters, ReadPolicy(s) \/ ReadSnapshot(s) \/ Insert(s)
      PROVE  Alone'
  <2>1. /\ UNCHANGED <<wants, target, ledger, deaths>>
        /\ \A i \in Installers : pc'[i] = pc[i]
        /\ \A r \in Submitters \ {s} : pc'[r] = pc[r] /\ bound'[r] = bound[r]
    BY <1>0, <1>5 DEF ReadPolicy, ReadSnapshot, Insert, locals, Ranges
  <2>2. Installing' = Installing /\ \A i \in Installing : pc'[i] = pc[i]
    BY <2>1 DEF Installing
  <2>3. pc'[s] # "refused" /\ (pc'[s] \in {"snapshot", "insert"} => Has(Json(bound'[s])))
    <3>1. CASE ReadPolicy(s)
      <4>1. CASE At(Json(Default)) \in Policies
        <5>1. bound'[s] = At(Json(Default)) /\ pc'[s] = "snapshot"
          BY <3>1, <4>1 DEF ReadPolicy, Ranges
        <5>2. Has(Json(Default))
          BY <1>0, <4>1 DEF At, Has
        <5> QED
          BY <5>1, <5>2 DEF Alone
      <4>2. CASE At(Json(Default)) \notin Policies
        <5>1. At(Json(Default)) = NoFile
          BY <4>2 DEF Alone, At, Has
        <5> QED
          BY <3>1, <4>2, <5>1 DEF ReadPolicy, Ranges
      <4> QED
        BY <4>1, <4>2
    <3>2. CASE ReadSnapshot(s)
      <4>1. pc[s] = "snapshot" /\ bound[s] \in Policies /\ UNCHANGED bound
        BY <3>2 DEF ReadSnapshot, Ranges
      <4>2. Has(Json(bound[s])) /\ At(Json(bound[s])) = bound[s]
        BY <4>1 DEF Alone
      <4> QED
        BY <3>2, <4>1, <4>2 DEF ReadSnapshot, Ranges
    <3>3. CASE Insert(s)
      BY <3>3 DEF Insert, Ranges
    <3> QED
      BY <1>5, <3>1, <3>2, <3>3
  <2>4. \A r \in Submitters :
            /\ pc'[r] # "refused"
            /\ pc'[r] \in {"snapshot", "insert"} => Has(Json(bound'[r]))
    BY <2>1, <2>3 DEF Alone
  <2> QED
    BY <1>0, <1>1, <2>1, <2>2, <2>4 DEF Alone, Has, At
<1> QED
  BY <1>2, <1>3, <1>4, <1>5 DEF vars, files, locals

\* Steps that write files. The installation that takes one is the only one.
LEMMA AloneWriting ==
    ASSUME Ranges, Ranges', Spare, Owned, Pure, Counted, Pairs, Alone, crowd <= 1, [Next]_vars,
           NEW i \in Installers, Open(i) \/ Write(i) \/ Publish(i) \/ Die(i)
    PROVE  Alone'
<1>0. /\ Submitters \cap Processes = {} /\ \A j \in Installers : j \in Processes
      /\ Default \notin Policies /\ NoFile \notin Policies /\ NoFile \notin Files
      /\ Default \in Names /\ Policies \subseteq Names
      /\ Json(Default) \in Links /\ Temp(Default) \in Links
  <2>1. Default \in Names /\ Policies \subseteq Names
    BY DEF Names
  <2> QED
    BY <2>1, LinkNames, DirAssumption DEF Processes
<1>1. /\ UNCHANGED <<bound, ledger>> /\ \A q \in (Processes \cup Submitters) \ {i} : pc'[q] = pc[q]
      /\ Die(i) \/ UNCHANGED deaths
  BY OpenLeaves, WriteDoes, PublishDoes, DieDoes
<1>2. \A s \in Submitters : pc'[s] = pc[s] /\ bound'[s] = bound[s]
  BY <1>0, <1>1
<1>3. ASSUME i \in Installing
      PROVE  /\ \A j \in Installing : j = i
             /\ \A j \in Installing' : j = i
  <2>1. \A j \in Installing : j = i
    BY <1>3, OneAtATime
  <2> QED
    BY <1>0, <1>1, <2>1 DEF Installing
<1>4. \A p \in Policies : Has(Json(p)) => At(Json(p))' = p /\ Has(Json(p))'
  BY SnapshotsStay
<1>5. \A s \in Submitters : /\ pc'[s] # "refused"
                            /\ pc'[s] \in {"snapshot", "insert"} => link'[Json(bound'[s])] # NoFile
  <2>1. \A s \in Submitters : pc[s] \in {"snapshot", "insert"} => Has(Json(bound[s])) /\ bound[s] \in Policies
    BY DEF Alone, Ranges
  <2> QED
    BY <1>2, <1>4, <2>1 DEF Alone, Has
<1>6. CASE Open(i)
  <2> PICK n : n = target[i]
    OBVIOUS
  <2>1. /\ pc[i] = "open" /\ pc'[i] = "write" /\ n \in Names
        /\ open'[i] = link'[Temp(n)] /\ content'[open'[i]] = "empty"
        /\ \A l \in Links \ {Temp(n)} : /\ link'[l] = link[l]
                                        /\ Has(l) => content'[link[l]] = content[link[l]]
        /\ UNCHANGED <<wants, target, deaths>>
    BY <1>6, OpenLeaves
  <2>2. \A x \in Names : link'[Json(x)] = link[Json(x)] /\ At(Json(x))' = At(Json(x))
    <3>1. ASSUME NEW x \in Names
          PROVE  Json(x) \in Links \ {Temp(n)}
      BY <2>1, LinkNames
    <3> QED
      BY <2>1, <3>1 DEF At, Has
  <2>3. i \in Installing
    BY <2>1 DEF Installing
  <2>4. /\ \A p \in Policies : Has(Json(p))' => At(Json(p))' = p
        /\ Has(Json(Default))' =>
             At(Json(Default))' \in Policies /\ link'[Json(At(Json(Default))')] # NoFile
        /\ deaths' = 0 /\ Has(Json(Default))' => At(Json(Default))' = ledger'
    BY <1>0, <1>1, <1>3, <2>1, <2>2, <2>3 DEF Alone, Has
  <2>5. \A j \in Installing' :
            /\ target'[j] = Default => link'[Json(wants'[j])] # NoFile
            /\ pc'[j] = "write" /\ link'[Temp(target'[j])] = open'[j]
            /\ content'[open'[j]] = "empty"
    <3>1. wants[i] \in Names
      BY <1>0, <2>3 DEF Ranges
    <3> QED
      BY <1>3, <2>1, <2>2, <2>3, <3>1 DEF Alone, Has
  <2> QED
    BY <1>5, <2>4, <2>5 DEF Alone, Has
<1>7. CASE Write(i)
  <2> PICK n : n = target[i]
    OBVIOUS
  <2>1. /\ pc[i] = "write" /\ pc'[i] = "publish" /\ UNCHANGED <<link, wants, target, open, deaths>>
        /\ \A f \in Files \ {open[i]} : content'[f] = content[f]
        /\ content[open[i]] = "empty" /\ open[i] \in Files => content'[open[i]] = wants[i]
        /\ wants[i] \in Policies
    BY <1>7, WriteDoes DEF locals
  <2>2. /\ i \in Installing /\ n \in Names /\ HasOpen(i) /\ open[i] \in Files
        /\ link[Temp(n)] = open[i] /\ content[open[i]] = "empty"
    BY <2>1 DEF Installing, Ranges, Owned, HasOpen, Alone
  <2>3. \A x \in Names : link'[Json(x)] = link[Json(x)] /\ At(Json(x))' = At(Json(x))
    <3>1. ASSUME NEW x \in Names
          PROVE  Json(x) \in Links /\ Temp(n) \in Links /\ Json(x) # Temp(n)
      BY <2>2, LinkNames
    <3>2. ASSUME NEW x \in Names, Has(Json(x))
          PROVE  link[Json(x)] \in Files \ {open[i]}
      BY <2>2, <3>1, <3>2 DEF Owned, Has, Ranges
    <3> QED
      BY <2>1, <3>2 DEF At, Has
  <2>4. /\ \A p \in Policies : Has(Json(p))' => At(Json(p))' = p
        /\ Has(Json(Default))' =>
             At(Json(Default))' \in Policies /\ link'[Json(At(Json(Default))')] # NoFile
        /\ deaths' = 0 /\ Has(Json(Default))' => At(Json(Default))' = ledger'
    BY <1>0, <1>1, <1>3, <2>1, <2>2, <2>3 DEF Alone, Has
  <2>5. \A j \in Installing' :
            /\ target'[j] = Default => link'[Json(wants'[j])] # NoFile
            /\ pc'[j] = "publish" /\ link'[Temp(target'[j])] = open'[j]
            /\ content'[open'[j]] = wants'[j]
    BY <1>3, <2>1, <2>2 DEF Alone, Has
  <2> QED
    BY <1>5, <2>4, <2>5 DEF Alone, Has
<1>8. CASE Publish(i)
  <2> PICK n : n = target[i]
    OBVIOUS
  <2>1. /\ n \in Names /\ pc[i] = "publish" /\ wants[i] \in Policies /\ target'[i] = Default
        /\ pc'[i] # "failed" => wants'[i] = wants[i]
        /\ \/ ~Has(Temp(n))
           \/ /\ Has(Temp(n)) /\ pc'[i] = IF n = Default THEN "record" ELSE "open"
              /\ link'[Json(n)] = link[Temp(n)]
              /\ \A l \in Links \ {Json(n), Temp(n)} : link'[l] = link[l]
        /\ \A l \in Links : link'[l] \in Files => content'[link'[l]] = content[link'[l]]
        /\ UNCHANGED deaths
    BY <1>8, PublishDoes
  <2>2. /\ i \in Installing /\ HasOpen(i) /\ open[i] \in Files
        /\ link[Temp(n)] = open[i] /\ content[open[i]] = wants[i]
    BY <2>1 DEF Installing, Ranges, Owned, HasOpen, Alone
  <2>3. /\ pc'[i] = IF n = Default THEN "record" ELSE "open"
        /\ link'[Json(n)] = open[i] /\ wants'[i] = wants[i]
        /\ \A l \in Links \ {Json(n), Temp(n)} : link'[l] = link[l]
    BY <2>1, <2>2 DEF Has, HasOpen
  <2>4. At(Json(n))' = wants[i] /\ link'[Json(n)] # NoFile
    <3>1. Json(n) \in Links
      BY <2>1, LinkNames
    <3> QED
      BY <1>0, <2>1, <2>2, <2>3, <3>1 DEF At
  <2>5. \A x \in Names \ {n} : link'[Json(x)] = link[Json(x)] /\ At(Json(x))' = At(Json(x))
    <3>1. ASSUME NEW x \in Names \ {n}
          PROVE  Json(x) \in Links \ {Json(n), Temp(n)}
      BY <2>1, LinkNames
    <3>2. ASSUME NEW x \in Names \ {n}
          PROVE  At(Json(x))' = At(Json(x))
      <4>1. link'[Json(x)] = link[Json(x)] /\ Json(x) \in Links
        BY <2>3, <3>1
      <4>2. link[Json(x)] \in Files \cup {NoFile}
        BY <4>1 DEF Ranges
      <4> QED
        BY <2>1, <4>1, <4>2 DEF At
    <3> QED
      BY <2>3, <3>1, <3>2
  <2>6. n # Default => n = wants[i]
    BY DEF Ranges
  <2>7. \A p \in Policies : Has(Json(p))' => At(Json(p))' = p
    <3>1. n = Default => \A p \in Policies : p \in Names \ {n}
      BY <1>0
    <3> QED
      BY <1>0, <2>4, <2>5, <2>6, <3>1 DEF Alone, Has
  <2>8. link'[Json(wants[i])] # NoFile
    <3>1. n = Default => Has(Json(wants[i])) /\ wants[i] # n
      BY <1>0, <2>1, <2>2 DEF Alone
    <3> QED
      BY <1>0, <2>1, <2>4, <2>5, <2>6, <3>1 DEF Has
  <2>9. Has(Json(Default))' =>
             At(Json(Default))' \in Policies /\ link'[Json(At(Json(Default))')] # NoFile
    <3>1. CASE n = Default
      BY <2>1, <2>4, <2>8, <3>1
    <3>2. CASE n # Default
      <4>1. At(Json(Default))' = At(Json(Default)) /\ link'[Json(Default)] = link[Json(Default)]
        BY <1>0, <2>5, <3>2
      <4> QED
        BY <1>4, <4>1 DEF Alone, Has
    <3> QED
      BY <3>1, <3>2
  <2>10. \A j \in Installing' :
            /\ link'[Json(wants'[j])] # NoFile
            /\ pc'[j] \in {"open", "record"}
            /\ pc'[j] = "record" => link'[Json(Default)] # NoFile /\ At(Json(Default))' = wants'[j]
    BY <1>3, <2>2, <2>3, <2>4, <2>8
  <2>11. deaths' = 0 /\ Has(Json(Default))' /\ (\A j \in Installing' : pc'[j] # "record") =>
            At(Json(Default))' = ledger'
    <3>1. CASE n = Default
      <4>1. i \in Installing' /\ pc'[i] = "record"
        BY <2>3, <3>1 DEF Installing
      <4> QED
        BY <4>1
    <3>2. CASE n # Default
      <4>1. At(Json(Default))' = At(Json(Default)) /\ link'[Json(Default)] = link[Json(Default)]
        BY <1>0, <2>5, <3>2
      <4> QED
        BY <1>1, <1>3, <2>1, <2>2, <4>1 DEF Alone, Has
    <3> QED
      BY <3>1, <3>2
  <2> QED
    BY <1>5, <2>7, <2>9, <2>10, <2>11 DEF Alone, Has
<1>9. CASE Die(i)
  <2>1. /\ pc'[i] = "dead" /\ deaths' # 0 /\ UNCHANGED link
        /\ \A j \in Installers \ {i} : /\ pc'[j] = pc[j] /\ target'[j] = target[j]
                                       /\ wants'[j] = wants[j] /\ open'[j] = open[j]
        /\ \A l \in Links : link[l] \in Files => content'[link[l]] = content[link[l]]
        /\ \A j \in Installers : open'[j] \in Files => content'[open'[j]] = content[open'[j]]
    BY <1>0, <1>9, DieDoes DEF Ranges
  <2>2. \A x \in Names : At(Json(x))' = At(Json(x))
    <3>1. \A x \in Names : link[Json(x)] \in Files \cup {NoFile} /\ Json(x) \in Links
      BY LinkNames DEF Ranges
    <3> QED
      BY <2>1, <3>1 DEF At
  <2>3. \A j \in Installing' : /\ j \in Installing /\ pc'[j] = pc[j] /\ target'[j] = target[j]
                               /\ wants'[j] = wants[j] /\ open'[j] = open[j]
                               /\ pc[j] \in {"write", "publish"} => content'[open[j]] = content[open[j]]
    <3>1. \A j \in Installing' : j \in Installers \ {i}
      BY <2>1 DEF Installing
    <3> QED
      BY <2>1, <3>1 DEF Installing, Owned, HasOpen, Ranges
  <2>4. /\ \A p \in Policies : Has(Json(p))' => At(Json(p))' = p
        /\ Has(Json(Default))' =>
             At(Json(Default))' \in Policies /\ link'[Json(At(Json(Default))')] # NoFile
    BY <1>0, <2>1, <2>2 DEF Alone, Has
  <2>5. \A j \in Installing' :
            /\ pc'[j] # "check" /\ target'[j] = Default => link'[Json(wants'[j])] # NoFile
            /\ pc'[j] \in {"write", "publish"} => link'[Temp(target'[j])] = open'[j]
            /\ pc'[j] = "write" => content'[open'[j]] = "empty"
            /\ pc'[j] = "publish" => content'[open'[j]] = wants'[j]
            /\ pc'[j] = "record" => link'[Json(Default)] # NoFile /\ At(Json(Default))' = wants'[j]
    BY <1>0, <2>1, <2>2, <2>3 DEF Alone, Has
  <2> QED
    BY <1>5, <2>1, <2>4, <2>5 DEF Alone, Has
<1> QED
  BY <1>6, <1>7, <1>8, <1>9

LEMMA SingleHolds ==
    ASSUME Ranges, Ranges', Spare, Owned, Pure, Counted, Pairs, Single, [Next]_vars
    PROVE  Single'
<1> SUFFICES ASSUME crowd' <= 1 PROVE Alone'
  BY DEF Single
<1>1. crowd <= 1 /\ Alone
  BY CountedHolds DEF Single
<1> QED
  BY <1>1, AloneQuiet, AloneWriting, StepKinds

-----------------------------------------------------------------------------
(* The token. *)

LEMMA TokensHold ==
    ASSUME Ranges, Tokens, [Next]_vars
    PROVE  Tokens'
<1>0. /\ Submitters \cap Processes = {} /\ Installers \subseteq Processes /\ Servers \subseteq Processes
      /\ NoFile \notin Processes /\ NoFile # "empty" /\ Installers \cap Servers = {}
  BY DirAssumption DEF Processes
<1>1. CASE UNCHANGED vars
  BY <1>1 DEF vars, tokens, Tokens, Making
<1>2. ASSUME UNCHANGED tokens,
             \A p \in Processes : /\ pc'[p] \in {"make", "fill"} => pc[p] \in {"make", "fill"}
                                  /\ p \in Servers => pc'[p] = pc[p]
      PROVE  Tokens'
  <2>1. Making' \subseteq Making
    BY <1>2 DEF Making
  <2> QED
    BY <1>0, <1>2, <2>1 DEF Tokens, tokens
<1>3. ASSUME NEW p \in Processes, Load(p)
      PROVE  Tokens'
  <2>1. /\ pc[p] = "start" /\ raced' = (raced \/ Making # {}) /\ UNCHANGED token
    BY <1>3 DEF Load, files
  <2> SUFFICES ASSUME ~raced, Making = {} PROVE Tokens'
    BY <2>1 DEF Tokens
  <2>2. CASE token = NoFile
    <3>1. pc' = [pc EXCEPT ![p] = "make"] /\ UNCHANGED held
      BY <1>3, <2>2 DEF Load
    <3>2. \A q \in Processes \ {p} : pc'[q] = pc[q]
      BY <3>1 DEF Ranges
    <3>3. \A q \in Making' : q = p
      BY <3>2 DEF Making
    <3>4. \A q \in Servers : pc[q] # "serving"
      BY <2>2 DEF Tokens
    <3>5. \A q \in Servers : pc'[q] # "serving"
      BY <1>0, <3>1, <3>4 DEF Ranges
    <3> QED
      BY <3>3, <3>5 DEF Tokens
  <2>3. CASE token # NoFile
    <3>1. Proceed(p, token) /\ token \in Processes \cup {"empty"}
      BY <1>3, <2>3 DEF Load, Ranges
    <3>2. /\ \A q \in Processes \ {p} : pc'[q] = pc[q]
          /\ pc'[p] \in {"serving", "check"}
          /\ \A q \in Servers : held'[q] = held[q] \/ (q = p /\ held'[q] = token)
          /\ p \in Servers => held'[p] = token
          /\ p \notin Servers => pc'[p] = "check"
      BY <1>0, <3>1, ProceedDoes DEF Ranges
    <3>3. Making' = {}
      BY <3>2 DEF Making
    <3>4. \A q \in Servers : pc'[q] = "serving" => held'[q] = token
      BY <1>0, <3>2 DEF Tokens
    <3> QED
      BY <2>1, <2>3, <3>3, <3>4 DEF Tokens
  <2> QED
    BY <2>2, <2>3
<1>4. ASSUME NEW p \in Processes, MakeToken(p)
      PROVE  Tokens'
  <2>1. /\ p \in Making /\ pc' = [pc EXCEPT ![p] = "fill"] /\ UNCHANGED <<held, raced>>
    BY <1>4 DEF MakeToken, Making
  <2>2. Making' = Making
    BY <2>1 DEF Making, Ranges
  <2>3. ~raced => \A q \in Servers : pc'[q] # "serving"
    BY <1>0, <2>1 DEF Tokens, Ranges
  <2> QED
    BY <2>1, <2>2, <2>3 DEF Tokens
<1>5. ASSUME NEW p \in Processes, FillToken(p)
      PROVE  Tokens'
  <2>1. p \in Making /\ token' = p /\ Proceed(p, p) /\ UNCHANGED raced
    BY <1>5 DEF FillToken, Making
  <2> SUFFICES ASSUME ~raced PROVE Tokens'
    BY <2>1 DEF Tokens
  <2>2. /\ \A q \in Making : q = p
        /\ \A q \in Servers : pc[q] # "serving"
    BY <2>1 DEF Tokens
  <2>3. /\ \A q \in Processes \ {p} : pc'[q] = pc[q]
        /\ pc'[p] \in {"serving", "check"}
        /\ p \in Servers => held'[p] = p
        /\ p \notin Servers => pc'[p] = "check"
    BY <1>0, <2>1, ProceedDoes DEF Ranges
  <2>4. Making' = {}
    BY <2>2, <2>3 DEF Making
  <2>5. \A q \in Servers : pc'[q] = "serving" => q = p
    BY <1>0, <2>2, <2>3
  <2> QED
    BY <1>0, <2>1, <2>3, <2>4, <2>5 DEF Tokens
<1>6. ASSUME NEW i \in Installers, Check(i) \/ Record(i) \/ Open(i) \/ Write(i)
      PROVE  Tokens'
  <2>1. UNCHANGED tokens /\ pc'[i] \notin {"make", "fill"} /\ \A q \in Processes \ {i} : pc'[q] = pc[q]
    BY <1>0, <1>6 DEF Check, Record, Open, OpenLink, Write, Goto, Ranges
  <2> QED
    BY <1>0, <1>2, <2>1
<1>7. ASSUME NEW i \in Installers, Publish(i) \/ Die(i)
      PROVE  Tokens'
  <2>1. /\ UNCHANGED tokens /\ pc'[i] \notin {"make", "fill"}
        /\ \A q \in Processes \ {i} : pc'[q] = pc[q]
    BY <1>0, <1>7, PublishDoes, DieDoes
  <2> QED
    BY <1>0, <1>2, <2>1
<1>8. ASSUME NEW s \in Submitters, ReadPolicy(s) \/ ReadSnapshot(s) \/ Insert(s)
      PROVE  Tokens'
  <2>1. UNCHANGED tokens /\ \A q \in Processes : pc'[q] = pc[q]
    BY <1>0, <1>8 DEF ReadPolicy, ReadSnapshot, Insert, Ranges
  <2> QED
    BY <1>2, <2>1
<1> QED
  BY <1>1, <1>3, <1>4, <1>5, <1>6, <1>7, <1>8 DEF Next

-----------------------------------------------------------------------------
(* Theorems. *)

LEMMA DirInitInv == Init => DirInv
<1> SUFFICES ASSUME Init PROVE DirInv
  OBVIOUS
<1>0. /\ Submitters \cap Processes = {} /\ Installers \subseteq Processes /\ Servers \subseteq Processes
  BY DirAssumption DEF Processes
<1>1. /\ \A l \in Links : link[l] = NoFile
      /\ \A i \in Installers : pc[i] = "start" /\ target[i] = Default /\ open[i] = NoFile
      /\ \A s \in Submitters : pc[s] = "idle"
      /\ \A p \in Processes : pc[p] = "start"
      /\ crowd = 0 /\ jobs = {}
  BY <1>0 DEF Init
<1>2. Installing = {} /\ Making = {} /\ Relied = {} /\ Spent \in SUBSET (Installers \X {1, 2})
  BY <1>1 DEF Installing, Making, Relied, Spent
<1>3. Ranges
  BY <1>0, <1>1, <1>2 DEF Ranges, Init, Contents, Labels, SubmitLabels, Names
<1>4. Owned
  BY <1>1 DEF Owned, Has, HasOpen
<1>5. Counted
  BY <1>1, <1>2, InstallingFinite, FS_EmptySet DEF Counted
<1>6. Spare
  <2>1. Used = {}
    BY <1>1, <1>3, UsedFiles, DirAssumption
  <2> QED
    BY <1>3, <2>1, UsedFiles, FS_EmptySet DEF Spare
<1>7. Pure
  BY <1>1 DEF Pure, Has, HasOpen
<1>8. \A n \in Names : ~Has(Json(n))
  BY <1>1, LinkNames DEF Has
<1>9. Pairs
  BY <1>2, <1>8 DEF Pairs, Settled, Names
<1>10. Single
  BY <1>1, <1>2, <1>8 DEF Single, Alone, Names
<1>11. Tokens
  BY <1>0, <1>1, <1>2 DEF Tokens
<1> QED
  BY <1>3, <1>4, <1>5, <1>6, <1>7, <1>9, <1>10, <1>11 DEF DirInv

LEMMA DirInvariant == Spec => []DirInv
<1>1. DirInv /\ [Next]_vars => DirInv'
  <2> SUFFICES ASSUME DirInv, [Next]_vars PROVE DirInv'
    OBVIOUS
  <2> USE DEF DirInv
  <2>1. Ranges'
    BY RangesHold
  <2>2. Owned' /\ Counted' /\ Tokens'
    BY OwnedHolds, CountedHolds, TokensHold
  <2>3. Spare' /\ Pure'
    BY <2>1, SpareHolds, PureHolds
  <2>4. Pairs'
    BY PairsHold
  <2>5. Single'
    BY <2>1, SingleHolds
  <2> QED
    BY <2>1, <2>2, <2>3, <2>4, <2>5
<1> QED
  BY <1>1, DirInitInv, PTL DEF Spec

\* The type invariant; with it, that there is a file for every name that is opened, and
\* that no two names ever link to one file, however many installations run at once and
\* whenever they are killed.
THEOREM DirTypes == Spec => []TypeOK
<1>1. DirInv => TypeOK
  <2> SUFFICES ASSUME DirInv PROVE TypeOK
    OBVIOUS
  <2>1. crowd \in 0 .. Cardinality(Installers)
    BY InstallingFinite DEF DirInv, Counted
  <2> QED
    BY <2>1 DEF DirInv, Ranges, Owned, Has, TypeOK
<1> QED
  BY <1>1, DirInvariant, PTL

\* As long as no two installations overlap, policy.json names a policy whose snapshot is
\* whole, wherever one was killed, and the last that ended is the one in the ledger.
THEOREM PolicyInForceIsWhole == Spec => []InForceIsWhole
<1>1. DirInv => InForceIsWhole
  <2> SUFFICES ASSUME DirInv, crowd <= 1, link[Json(Default)] # NoFile
               PROVE  /\ At(Json(Default)) \in Policies
                      /\ At(Json(At(Json(Default)))) = At(Json(Default))
                      /\ Installing = {} /\ deaths = 0 => At(Json(Default)) = ledger
    BY DEF InForceIsWhole
  <2>1. Alone
    BY DEF DirInv, Single
  <2> QED
    BY <2>1 DEF Alone, Has
<1> QED
  BY <1>1, DirInvariant, PTL

\* A queued experiment keeps the snapshot it is bound to while up to two installations
\* overlap, and while none do no submission is refused for want of one.
THEOREM QueuedKeepTheirPolicy == Spec => []JobsKeepTheirPolicy
<1>1. DirInv => JobsKeepTheirPolicy
  <2> SUFFICES ASSUME DirInv PROVE JobsKeepTheirPolicy
    OBVIOUS
  <2>1. crowd <= 1 => \A s \in Submitters : pc[s] # "refused"
    BY DEF DirInv, Single, Alone
  <2>2. crowd <= 2 => \A h \in jobs : At(Json(h)) = h
    BY DEF DirInv, Pairs, Relied
  <2> QED
    BY <2>1, <2>2 DEF JobsKeepTheirPolicy
<1> QED
  BY <1>1, DirInvariant, PTL

\* A server holds the token that is in the file, for any number of processes, unless one
\* of them looked for a token while another was making it.
THEOREM TokenIsShared == Spec => []ServerHoldsTheToken
<1>1. DirInv => ServerHoldsTheToken
  BY DEF DirInv, Tokens, ServerHoldsTheToken
<1> QED
  BY <1>1, DirInvariant, PTL
=============================================================================
