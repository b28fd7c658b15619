---------------------------- MODULE GradingProofs ----------------------------
(***************************************************************************)
(* Theorems about Grading for any roles, number of crashes and of graders   *)
(* they leave behind: the score is of the sealed files, but for changes     *)
(* that are undone; so is what is sealed as the grader's output, and it is  *)
(* what the score came from unless an old grader wrote after the parse; and *)
(* the report on record agrees with the score. The first two rest on        *)
(* Provenance: whoever finds a file as it was sealed knows that every       *)
(* grader that read it found it so; the third on what is read of the report *)
(* being what is recorded (Reading).                                        *)
(***************************************************************************)
EXTENDS Grading, TLAPS

\* Every required role has a row.
Complete == \A f \in Required : rows[f] # NoRow

\* Where the thread is, by status.
StageOK ==
    /\ pc \in {"start", "seal", "store", "report", "manifest", "grader",
               "parse", "own", "metrics", "compare"} => status = "GRADING"
    /\ pc \in {"verify", "ask", "accept"} => status = "REVIEW_PENDING"
    /\ status = "ACCEPTED" => pc = "off"

\* A grader was started after the manifest was written; what is known of an output
\* was in the file.
Ungraded ==
    /\ manifest = NoFile => graders = {} /\ output = NoFile
    /\ output = NoFile => outputRow = NoRow /\ computed = NoValue /\ result = NoValue

\* What has been recorded by then.
ProgressOK ==
    /\ \A f \in Required : batch[f] # NoFile
    /\ pc \in {"report", "manifest", "grader", "parse", "own", "metrics"} => Complete
    /\ manifest # NoFile => Complete /\ Required \subseteq manifest
    /\ Ungraded
    /\ pc \in {"grader", "parse", "own"} => manifest # NoFile
    /\ pc \in {"manifest", "grader", "parse", "own", "metrics"} => computed = NoValue
    /\ pc \in {"own", "metrics"} => result \in Outputs /\ (~overtaken => output = result)
    /\ pc = "compare" => computed # NoValue
    /\ status \in {"REVIEW_PENDING", "REVIEW_BLOCKED", "NEEDS_HUMAN", "ACCEPTED"}
          => computed # NoValue
    /\ computed # NoValue /\ ~overtaken => output = computed

\* From the verification on, the sealed output is the recorded one, unless a grader
\* left behind has written since that was parsed.
OutputOK ==
    pc \in {"ask", "accept"} \/ status = "ACCEPTED" =>
        /\ outputRow \in Outputs \cup {Torn}
        /\ ~overtaken => outputRow = computed

GradeInv == TypeOK /\ StageOK /\ ProgressOK /\ OutputOK

-----------------------------------------------------------------------------
LEMMA TypesHold ==
    ASSUME TypeOK, ProgressOK, [Next]_vars
    PROVE  TypeOK'
<1> USE DEF TypeOK, rowVars, ownVars, graderVars, sealVars, Goto, End, Fail
<1>1. CASE UNCHANGED vars
  BY <1>1 DEF vars
<1>2. CASE Start
  BY <1>2 DEF Start, Idle, Labels
<1>3. CASE Store
  <2>1. at \in Declared /\ batch[at] \in Values
    BY <1>3 DEF Store
  <2>2. objects' \subseteq {o \in [role : Declared, digest : Values, bytes : Values] :
                                o.bytes = o.digest}
    BY <1>3, <2>1 DEF Store
  <2>3. QED
    BY <1>3, <2>2 DEF Store, Labels, Statuses
<1>4. CASE Insert
  BY <1>4 DEF Insert, Labels, Contents
<1>5. CASE ReadReport
  BY <1>5, RolesAreDeclared DEF ReadReport, Labels, Statuses, Contents
<1>6. CASE WriteManifest
  <2>1. Sealed \in Manifests
    BY DEF Sealed, Manifests
  <2>2. QED
    BY <1>6, <2>1 DEF WriteManifest, Labels
<1>7. CASE StartGrader
  <2>1. [life |-> crashes, inputs |-> NoValue]
           \in [life : 0 .. crashes, inputs : Inputs \cup {NoValue}]
    OBVIOUS
  <2>2. graders' \subseteq [life : 0 .. crashes', inputs : Inputs \cup {NoValue}]
    BY <1>7, <2>1 DEF StartGrader
  <2>3. QED
    BY <1>7, <2>2 DEF StartGrader, Labels, Statuses
<1>71. CASE Parse
  <2>1. result' \in Outputs \cup {NoValue} /\ overtaken' \in BOOLEAN
    BY <1>71 DEF Parse
  <2>2. pc' \in Labels /\ status' \in Statuses /\ pc' # "store"
    BY <1>71 DEF Parse, Labels, Statuses
  <2>3. QED
    BY <1>71, <2>1, <2>2 DEF Parse
<1>8. CASE SealOwn
  <2>1. manifest # NoFile /\ output # NoFile
    BY <1>8, MarkersDiffer DEF SealOwn, ProgressOK, Ungraded
  <2>2. /\ manifestRow' \in Manifests \cup {NoRow}
        /\ outputRow' \in Outputs \cup {NoRow, Torn}
    BY <1>8, <2>1 DEF SealOwn
  <2>3. pc' \in Labels /\ status' \in Statuses /\ pc' # "store"
    BY <1>8 DEF SealOwn, Labels, Statuses
  <2>4. QED
    BY <1>8, <2>2, <2>3 DEF SealOwn
<1>9. CASE RecordMetrics
  BY <1>9 DEF RecordMetrics, Labels
<1>10. CASE Compare
  BY <1>10 DEF Compare, Labels, Statuses
<1>11. CASE Verify
  BY <1>11, RolesAreDeclared DEF Verify, VerifyOn, Labels, Statuses
<1>12. CASE Ask
  BY <1>12 DEF Ask, Labels, Statuses
<1>13. CASE Accept
  BY <1>13 DEF Accept, Labels, Statuses
<1>14. CASE Retry
  BY <1>14 DEF Retry, Labels, Statuses
<1>15. CASE Resume
  BY <1>15 DEF Resume, Labels
<1>16. CASE Crash
  <2>1. [life : 0 .. crashes, inputs : Inputs \cup {NoValue}]
           \subseteq [life : 0 .. crashes + 1, inputs : Inputs \cup {NoValue}]
    OBVIOUS
  <2>2. graders' \subseteq [life : 0 .. crashes', inputs : Inputs \cup {NoValue}]
    BY <1>16, <2>1 DEF Crash
  <2>3. QED
    BY <1>16, <2>2 DEF Crash, Labels, Idle
<1>17. ASSUME NEW f \in Declared, Hash(f)
       PROVE  TypeOK'
  <2>1. CASE Fail /\ UNCHANGED sealVars
    BY <1>17, <2>1 DEF Hash, Labels, Statuses
  <2>2. CASE pc' # "off"
    <3>1. batch' \in [Declared -> Contents \cup {Pending}]
      BY <1>17, <2>2 DEF Hash
    <3>2. pc' = "store" => at' = f /\ batch'[f] \in Values
      BY <1>17, <2>2 DEF Hash, Contents
    <3>3. pc' \in Labels /\ at' \in Declared \cup {Nobody} /\ status' = status
      BY <1>17, <2>2 DEF Hash, Labels
    <3>4. pc' = "store" => at' # Nobody
      BY <3>2, RolesDiffer
    <3>5. QED
      BY <1>17, <3>1, <3>2, <3>3, <3>4 DEF Hash
  <2>3. QED
    BY <1>17, <2>1, <2>2 DEF Hash
<1>18. ASSUME NEW f \in Declared, Outside(f)
       PROVE  TypeOK'
  <2>1. CASE Change(f)
    BY <2>1, NumbersAreNumbers DEF Change, Values, Contents
  <2>2. CASE Lose(f)
    BY <2>2 DEF Lose, Contents
  <2>3. CASE Restore(f)
    BY <2>3 DEF Restore, Contents
  <2>4. QED
    BY <1>18, <2>1, <2>2, <2>3 DEF Outside
<1>19. ASSUME NEW g \in graders, GraderStep(g)
       PROVE  TypeOK'
  <2>1. ASSUME ProgressOK, GraderReads(g)
        PROVE  graders' \subseteq [life : 0 .. crashes, inputs : Inputs \cup {NoValue}]
    <3>1. DEFINE i == [f \in Required |-> IF f \in manifest THEN disk[f] ELSE NoRow]
    <3>2. i \in Inputs
      BY RolesAreDeclared DEF Inputs
    <3> HIDE DEF i
    <3>3. [g EXCEPT !.inputs = i] \in [life : 0 .. crashes, inputs : Inputs \cup {NoValue}]
      BY <3>2
    <3>4. graders' = (graders \ {g}) \cup {[g EXCEPT !.inputs = i]}
      BY <2>1 DEF GraderReads, i
    <3>5. QED
      BY <3>3, <3>4
  <2>2. ASSUME GraderWrites(g)
        PROVE  output' \in Outputs
    BY <2>2 DEF GraderWrites, Outputs
  <2>3. CASE GraderReads(g)
    BY <2>1, <2>3 DEF GraderReads
  <2>4. CASE GraderOpens(g)
    BY <2>4 DEF GraderOpens
  <2>5. CASE GraderWrites(g)
    BY <2>2, <2>5 DEF GraderWrites
  <2>6. CASE GraderEnds(g)
    BY <2>6 DEF GraderEnds
  <2>7. QED
    BY <1>19, <2>3, <2>4, <2>5, <2>6 DEF GraderStep
<1>20. QED
  BY <1>1, <1>2, <1>3, <1>4, <1>5, <1>6, <1>7, <1>71, <1>8, <1>9, <1>10, <1>11, <1>12,
     <1>13, <1>14, <1>15, <1>16, <1>17, <1>18, <1>19 DEF Next

\* A grader changes grader-output.json and what it holds itself.
LEMMA GraderFrame ==
    ASSUME NEW g \in graders, GraderStep(g)
    PROVE  UNCHANGED <<status, rows, manifestRow, outputRow, computed, reported, disk,
                       manifest, objects, pc, batch, at, got, result, blamed, changes>>
BY DEF GraderStep, GraderReads, GraderOpens, GraderWrites, GraderEnds, rowVars, ownVars,
       sealVars

LEMMA StagesHold ==
    ASSUME StageOK, [Next]_vars
    PROVE  StageOK'
<1> USE DEF StageOK, Goto, End, Fail
<1>1. CASE UNCHANGED vars
  BY <1>1 DEF vars
<1>2. CASE Start \/ Store \/ Insert \/ ReadReport \/ WriteManifest
  BY <1>2 DEF Start, Store, Insert, ReadReport, WriteManifest
<1>3. CASE StartGrader \/ Parse \/ SealOwn \/ RecordMetrics \/ Compare \/ Verify
  BY <1>3 DEF StartGrader, Parse, SealOwn, RecordMetrics, Compare, Verify, VerifyOn
<1>4. CASE Ask \/ Accept \/ Retry \/ Resume \/ Crash
  BY <1>4 DEF Ask, Accept, Retry, Resume, Crash
<1>5. ASSUME NEW f \in Declared, Hash(f)
      PROVE  StageOK'
  BY <1>5 DEF Hash
<1>6. ASSUME NEW f \in Declared, Outside(f)
      PROVE  StageOK'
  BY <1>6 DEF Outside, Change, Lose, Restore
<1>7. ASSUME NEW g \in graders, GraderStep(g)
      PROVE  StageOK'
  BY <1>7, GraderFrame
<1>8. QED
  BY <1>1, <1>2, <1>3, <1>4, <1>5, <1>6, <1>7 DEF Next

LEMMA ProgressHolds ==
    ASSUME TypeOK, StageOK, ProgressOK, [Next]_vars
    PROVE  ProgressOK'
<1> USE DEF StageOK, ProgressOK, Complete, Ungraded, rowVars, ownVars, graderVars, sealVars,
            Goto, End, Fail
<1>1. CASE UNCHANGED vars
  BY <1>1 DEF vars
<1>2. CASE Start
  BY <1>2, RolesAreDeclared, MarkersDiffer DEF Start, Idle
<1>3. CASE Store
  BY <1>3 DEF Store
<1>4. CASE Insert
  <2>1. \A f \in Required : rows'[f] # NoRow
    BY <1>4, RolesAreDeclared, MarkersDiffer DEF Insert, TypeOK, Contents, Values
  <2>2. QED
    BY <1>4, <2>1 DEF Insert
<1>5. CASE ReadReport
  BY <1>5 DEF ReadReport
<1>6. CASE WriteManifest
  <2>1. Sealed \in Manifests
    BY DEF Sealed, Manifests
  <2>2. Complete => Required \subseteq Sealed
    BY RolesAreDeclared DEF Sealed
  <2>3. Sealed # NoFile
    BY <2>1, MarkersDiffer
  <2>4. QED
    BY <1>6, <2>1, <2>2, <2>3 DEF WriteManifest
<1>7. CASE StartGrader
  BY <1>7 DEF StartGrader
<1>71. CASE Parse
  <2>1. CASE pc' = "own"
    BY <1>71, <2>1, MarkersDiffer DEF Parse
  <2>2. CASE pc' = "off"
    BY <1>71, <2>2 DEF Parse
  <2>3. QED
    BY <1>71, <2>1, <2>2 DEF Parse
<1>8. CASE SealOwn
  <2>1. output # NoFile /\ manifest # NoFile
    BY <1>8, MarkersDiffer DEF SealOwn
  <2>2. QED
    BY <1>8, <2>1 DEF SealOwn
<1>9. CASE RecordMetrics
  BY <1>9, MarkersDiffer DEF RecordMetrics
<1>10. CASE Compare \/ Verify \/ Ask \/ Accept
  BY <1>10 DEF Compare, Verify, VerifyOn, Ask, Accept
<1>11. CASE Retry \/ Resume
  BY <1>11 DEF Retry, Resume, RetryableStatuses
<1>12. CASE Crash
  BY <1>12, RolesAreDeclared, MarkersDiffer DEF Crash, Idle
<1>13. ASSUME NEW f \in Declared, Hash(f)
       PROVE  ProgressOK'
  <2>1. batch \in [Declared -> Contents \cup {Pending}]
    BY DEF TypeOK
  <2>2. \A g \in Required : batch'[g] # NoFile
    BY <1>13, <2>1, RolesAreDeclared DEF Hash
  <2>3. QED
    BY <1>13, <2>2 DEF Hash
<1>14. ASSUME NEW f \in Declared, Outside(f)
       PROVE  ProgressOK'
  BY <1>14 DEF Outside, Change, Lose, Restore
<1>15. ASSUME NEW g \in graders, GraderStep(g)
       PROVE  ProgressOK'
  <2>1. UNCHANGED <<status, rows, outputRow, computed, manifest, pc, batch, result>>
    BY <1>15, GraderFrame
  <2>2. manifest # NoFile
    BY DEF Ungraded
  <2>3. output' # NoFile \/ output' = output
    BY <1>15, MarkersDiffer
       DEF GraderStep, GraderReads, GraderOpens, GraderWrites, GraderEnds, TypeOK, Outputs
  <2>4. (output' = output /\ overtaken' = overtaken) \/ overtaken' = TRUE
    BY <1>15 DEF GraderStep, GraderReads, GraderOpens, GraderWrites, GraderEnds
  <2>5. QED
    BY <2>1, <2>2, <2>3, <2>4
<1>16. QED
  BY <1>1, <1>2, <1>3, <1>4, <1>5, <1>6, <1>7, <1>71, <1>8, <1>9, <1>10, <1>11, <1>12,
     <1>13, <1>14, <1>15 DEF Next

LEMMA OutputHolds ==
    ASSUME TypeOK, StageOK, ProgressOK, OutputOK, [Next]_vars
    PROVE  OutputOK'
<1> USE DEF StageOK, OutputOK, rowVars, graderVars, Goto, End, Fail
<1>1. CASE UNCHANGED vars
  BY <1>1 DEF vars
<1>2. CASE Start \/ Store \/ Insert \/ ReadReport \/ WriteManifest
  BY <1>2 DEF Start, Store, Insert, ReadReport, WriteManifest
<1>3. CASE StartGrader \/ Parse \/ SealOwn \/ RecordMetrics \/ Compare
  BY <1>3 DEF StartGrader, Parse, SealOwn, RecordMetrics, Compare
<1>4. CASE Verify
  <2>1. ASSUME Drifted \cap (Required \cup Own) = {}
        PROVE  output = outputRow
    BY <2>1 DEF Drifted, Own
  <2>2. computed # NoValue /\ (~overtaken => output = computed)
    BY <1>4 DEF Verify, VerifyOn, ProgressOK
  <2>3. output \in Outputs \cup {NoFile, Torn} /\ output # NoFile
    BY <2>2, MarkersDiffer DEF TypeOK, ProgressOK, Ungraded
  <2>4. QED
    BY <1>4, <2>1, <2>2, <2>3 DEF Verify, VerifyOn
<1>5. CASE Ask \/ Accept \/ Retry \/ Resume \/ Crash
  BY <1>5 DEF Ask, Accept, Retry, Resume, Crash
<1>6. ASSUME NEW f \in Declared, Hash(f)
      PROVE  OutputOK'
  BY <1>6 DEF Hash
<1>7. ASSUME NEW f \in Declared, Outside(f)
      PROVE  OutputOK'
  BY <1>7 DEF Outside, Change, Lose, Restore
<1>8. ASSUME NEW g \in graders, GraderStep(g)
      PROVE  OutputOK'
  <2>1. UNCHANGED <<status, outputRow, computed, pc>>
    BY <1>8, GraderFrame
  <2>2. ~overtaken' => ~overtaken
    BY <1>8 DEF GraderStep, GraderReads, GraderOpens, GraderWrites, GraderEnds
  <2>3. QED
    BY <2>1, <2>2
<1>9. QED
  BY <1>1, <1>2, <1>3, <1>4, <1>5, <1>6, <1>7, <1>8 DEF Next

LEMMA InitGrade == Init => GradeInv
  <1> SUFFICES ASSUME Init PROVE GradeInv
    OBVIOUS
  <1>1. disk \in [Declared -> Contents]
    <2>1. {0, NoFile} \subseteq Contents
      BY NumbersAreNumbers DEF Contents, Values
    <2>2. QED
      BY <2>1 DEF Init
  <1>2. TypeOK
    <2>1. rows \in [Declared -> Values \cup {NoRow}]
      BY DEF Init
    <2>2. batch \in [Declared -> Contents \cup {Pending}]
      BY DEF Init, Idle
    <2>3. /\ pc = "start" /\ pc \in Labels /\ status \in Statuses
          /\ changes \in Nat /\ crashes \in Nat
      BY DEF Init, Labels, Statuses
    <2>4. /\ manifestRow = NoRow /\ outputRow = NoRow
          /\ computed = NoValue /\ reported = NoValue
          /\ manifest = NoFile /\ output = NoFile
          /\ graders = {} /\ overtaken = FALSE
          /\ objects = {} /\ at = Nobody
          /\ got = NoValue /\ result = NoValue /\ blamed = {}
      BY DEF Init
    <2>5. manifestRow \in Manifests \cup {NoRow} /\ manifest \in Manifests \cup {NoFile}
      BY <2>4
    <2>6. /\ computed \in Outputs \cup {NoValue}
          /\ reported \in Values \cup {NoValue}
      BY <2>4
    <2>7. /\ outputRow \in Outputs \cup {NoRow, Torn}
          /\ output \in Outputs \cup {NoFile, Torn}
          /\ graders \subseteq [life : 0 .. crashes, inputs : Inputs \cup {NoValue}]
          /\ overtaken \in BOOLEAN
      BY <2>4
    <2>8. /\ objects \subseteq {o \in [role : Declared, digest : Values, bytes : Values] :
                                o.bytes = o.digest}
          /\ at \in Declared \cup {Nobody}
          /\ got \in Values \cup {NoValue}
          /\ result \in Outputs \cup {NoValue}
          /\ blamed \subseteq Declared \cup Own
      BY <2>4
    <2>9. QED
      BY <1>1, <2>1, <2>2, <2>3, <2>5, <2>6, <2>7, <2>8 DEF TypeOK
  <1>3. StageOK /\ ProgressOK /\ OutputOK
    BY RolesAreDeclared, MarkersDiffer
       DEF Init, StageOK, ProgressOK, Ungraded, OutputOK, Idle
  <1>4. QED
    BY <1>2, <1>3 DEF GradeInv

LEMMA GradeInvariant == Spec => []GradeInv
<1>1. GradeInv /\ [Next]_vars => GradeInv'
  BY TypesHold, StagesHold, ProgressHolds, OutputHolds DEF GradeInv
<1>2. QED
  BY <1>1, InitGrade, PTL DEF Spec

\* The types of the model's data, and that an object of the store never holds other bytes
\* than its digest says, however the files change between the hash and the copy
\* (_store_object).
THEOREM GradingTypes == Spec => []TypeOK
<1>1. GradeInv => TypeOK
  BY DEF GradeInv
<1>2. QED
  BY <1>1, GradeInvariant, PTL

-----------------------------------------------------------------------------
\* No content is newer than the last change.
Fresh ==
    \A f \in Declared :
        /\ disk[f] \in 0 .. changes \cup {NoFile}
        /\ batch[f] \in 0 .. changes \cup {NoFile, Pending}
        /\ rows[f] \in 0 .. changes \cup {NoRow}

\* The required files whose changes show.
Showing == Required \ Restorable

\* Inputs i are the sealed content of each file that is as it was sealed.
Unchanged(i) ==
    \A f \in Showing : disk[f] = rows[f] => i[f] = rows[f]

\* The outputs known of, on disk, in the database or to the thread.
Known == {output, outputRow, result, computed} \cap Outputs

Provenance ==
    /\ \A g \in graders : g.inputs # NoValue => Unchanged(g.inputs)
    /\ \A o \in Known : Unchanged(o.inputs)

\* ScoreOfSealedFiles from the verification on, and the same of the sealed output.
Confirmed ==
    pc \in {"ask", "accept"} \/ status = "ACCEPTED" =>
        \A o \in {computed, outputRow} \cap Outputs : \A f \in Showing : o.inputs[f] = rows[f]

ScoreInv == Fresh /\ Provenance /\ Confirmed

LEMMA FreshHolds ==
    ASSUME TypeOK, Fresh, [Next]_vars
    PROVE  Fresh'
<1> USE DEF Fresh, rowVars, sealVars
<1>1. CASE UNCHANGED vars
  BY <1>1 DEF vars
<1>2. CASE Start \/ Store \/ ReadReport \/ WriteManifest \/ StartGrader \/ Parse
  BY <1>2 DEF Start, Idle, Store, ReadReport, WriteManifest, StartGrader, Parse
<1>3. CASE Insert
  BY <1>3 DEF Insert
<1>4. CASE SealOwn \/ RecordMetrics \/ Compare \/ Verify
  BY <1>4 DEF SealOwn, RecordMetrics, Compare, Verify, VerifyOn
<1>5. CASE Ask \/ Accept \/ Retry \/ Resume \/ Crash
  BY <1>5 DEF Ask, Accept, Retry, Resume, Crash, Idle
<1>6. ASSUME NEW f \in Declared, Hash(f)
      PROVE  Fresh'
  BY <1>6 DEF Hash, TypeOK
<1>7. ASSUME NEW f \in Declared, Outside(f)
      PROVE  Fresh'
  <2>1. CASE Change(f)
    <3>1. /\ changes' = changes + 1 /\ changes \in Nat
          /\ 0 .. changes \subseteq 0 .. changes' /\ changes' \in 0 .. changes'
      BY <2>1 DEF Change, TypeOK
    <3>2. \A g \in Declared : disk'[g] = IF g = f THEN changes' ELSE disk[g]
      BY <2>1 DEF Change, TypeOK
    <3>3. batch' = batch /\ rows' = rows
      BY <2>1 DEF Change
    <3>4. QED
      BY <3>1, <3>2, <3>3
  <2>2. CASE Lose(f)
    BY <2>2 DEF Lose, TypeOK
  <2>3. CASE Restore(f)
    BY <2>3 DEF Restore, TypeOK
  <2>4. QED
    BY <1>7, <2>1, <2>2, <2>3 DEF Outside
<1>8. ASSUME NEW g \in graders, GraderStep(g)
      PROVE  Fresh'
  BY <1>8, GraderFrame
<1>9. QED
  BY <1>1, <1>2, <1>3, <1>4, <1>5, <1>6, <1>7, <1>8 DEF Next

\* A change outside makes a file what it was sealed as only if that is restorable.
LEMMA ChangesShow ==
    ASSUME TypeOK, Fresh, NEW f \in Declared, Outside(f)
    PROVE  /\ \A g \in Declared \ Restorable :
                 rows[g] # NoRow /\ disk'[g] = rows[g] => disk[g] = rows[g]
           /\ UNCHANGED <<status, rows, graders, output, outputRow, computed, result, pc>>
<1> USE DEF ownVars, graderVars
<1>1. CASE Change(f)
  <2>1. disk'[f] = changes + 1 /\ \A g \in Declared : g # f => disk'[g] = disk[g]
    BY <1>1 DEF Change, TypeOK
  <2>2. rows[f] # NoRow => rows[f] \in 0 .. changes /\ changes \in Nat
    BY DEF Fresh, TypeOK
  <2>3. rows[f] # NoRow => rows[f] # changes + 1
    BY <2>2
  <2>4. QED
    BY <1>1, <2>1, <2>3 DEF Change, rowVars
<1>2. CASE Lose(f)
  <2>1. disk'[f] = NoFile /\ \A g \in Declared : g # f => disk'[g] = disk[g]
    BY <1>2 DEF Lose, TypeOK
  <2>2. rows[f] # NoRow => rows[f] # NoFile
    BY MarkersDiffer DEF TypeOK, Values
  <2>3. QED
    BY <1>2, <2>1, <2>2 DEF Lose, rowVars
<1>3. CASE Restore(f)
  BY <1>3 DEF Restore, TypeOK, rowVars
<1>4. QED
  BY <1>1, <1>2, <1>3 DEF Outside

LEMMA ProvenanceHolds ==
    ASSUME TypeOK, ProgressOK, Fresh, Provenance, [Next]_vars
    PROVE  Provenance'
<1> USE DEF Provenance, Unchanged, Known, Showing, rowVars, ownVars, graderVars, Goto, End,
            Fail
<1>1. CASE UNCHANGED vars
  BY <1>1 DEF vars
<1>2. CASE Start \/ Store \/ ReadReport \/ WriteManifest
  BY <1>2, MarkersDiffer DEF Start, Store, ReadReport, WriteManifest
<1>3. CASE Insert
  <2>1. Complete => \A f \in Required : rows'[f] = rows[f]
    BY <1>3, RolesAreDeclared DEF Insert, Complete
  <2>2. ~Complete => graders = {} /\ Known = {}
    BY MarkersDiffer DEF ProgressOK, Ungraded
  <2>3. UNCHANGED <<disk, graders, Known>>
    BY <1>3 DEF Insert
  <2>4. QED
    BY <2>1, <2>2, <2>3
<1>4. CASE StartGrader
  <2>1. UNCHANGED <<disk, rows, Known>>
    BY <1>4 DEF StartGrader
  <2>2. \A g \in graders' : g \in graders \/ g.inputs = NoValue
    BY <1>4 DEF StartGrader
  <2>3. QED
    BY <2>1, <2>2
<1>5. CASE Parse
  <2>1. UNCHANGED <<disk, rows, graders>> /\ Known' \subseteq Known
    BY <1>5 DEF Parse
  <2>2. QED
    BY <2>1
<1>6. CASE SealOwn \/ RecordMetrics
  <2>1. UNCHANGED <<disk, rows, graders>> /\ Known' \subseteq Known
    BY <1>6 DEF SealOwn, RecordMetrics
  <2>2. QED
    BY <2>1
<1>7. CASE Compare \/ Verify \/ Ask \/ Accept
  BY <1>7 DEF Compare, Verify, VerifyOn, Ask, Accept
<1>8. CASE Retry \/ Resume
  BY <1>8 DEF Retry, Resume
<1>9. CASE Crash
  <2>1. UNCHANGED <<disk, rows, graders>> /\ Known' \subseteq Known
    BY <1>9, MarkersDiffer DEF Crash
  <2>2. QED
    BY <2>1
<1>10. ASSUME NEW f \in Declared, Hash(f)
       PROVE  Provenance'
  BY <1>10 DEF Hash
<1>11. ASSUME NEW f \in Declared, Outside(f)
       PROVE  Provenance'
  <2>1. UNCHANGED <<rows, graders, Known>>
    BY <1>11, ChangesShow
  <2>2. ~Complete => graders = {} /\ Known = {}
    BY MarkersDiffer DEF ProgressOK, Ungraded
  <2>3. Complete => \A g \in Showing : disk'[g] = rows[g] => disk[g] = rows[g]
    BY <1>11, ChangesShow, RolesAreDeclared DEF Complete
  <2>4. QED
    BY <2>1, <2>2, <2>3
<1>12. ASSUME NEW g \in graders, GraderStep(g)
       PROVE  Provenance'
  <2>1. UNCHANGED <<rows, disk, outputRow, computed, result>>
    BY <1>12, GraderFrame
  <2>2. CASE GraderReads(g)
    <3>1. DEFINE i == [f \in Required |-> IF f \in manifest THEN disk[f] ELSE NoRow]
    <3>2. Required \subseteq manifest
      BY DEF ProgressOK, Ungraded
    <3>3. \A f \in Showing : i[f] = disk[f]
      BY <3>2
    <3> HIDE DEF i
    <3>4. [g EXCEPT !.inputs = i].inputs = i
      BY DEF TypeOK
    <3>5. \A h \in graders' : h \in graders \/ h = [g EXCEPT !.inputs = i]
      BY <2>2 DEF GraderReads, i
    <3>6. Known' = Known
      BY <2>1, <2>2 DEF GraderReads
    <3>7. QED
      BY <2>1, <3>3, <3>4, <3>5, <3>6
  <2>3. CASE GraderOpens(g) \/ GraderEnds(g)
    <3>1. Known' \subseteq Known /\ graders' \subseteq graders
      BY <2>1, <2>3, MarkersDiffer DEF GraderOpens, GraderEnds
    <3>2. QED
      BY <2>1, <3>1
  <2>4. CASE GraderWrites(g)
    <3>1. output'.inputs = g.inputs /\ g.inputs # NoValue
      BY <2>4 DEF GraderWrites
    <3>2. \A o \in Known' : o \in Known \/ o = output'
      BY <2>1
    <3>3. graders' \subseteq graders
      BY <2>4 DEF GraderWrites
    <3>4. QED
      BY <2>1, <3>1, <3>2, <3>3
  <2>5. QED
    BY <1>12, <2>2, <2>3, <2>4 DEF GraderStep
<1>13. QED
  BY <1>1, <1>2, <1>3, <1>4, <1>5, <1>6, <1>7, <1>8, <1>9, <1>10, <1>11, <1>12 DEF Next

LEMMA ConfirmedHolds ==
    ASSUME TypeOK, StageOK, ProgressOK, Fresh, Provenance, Confirmed, [Next]_vars
    PROVE  Confirmed'
<1> USE DEF StageOK, Confirmed, Showing, rowVars, Goto, End, Fail
<1>1. CASE UNCHANGED vars
  BY <1>1 DEF vars
<1>2. CASE Start \/ Store \/ Insert \/ ReadReport \/ WriteManifest
  BY <1>2 DEF Start, Store, Insert, ReadReport, WriteManifest
<1>3. CASE StartGrader \/ Parse \/ SealOwn \/ RecordMetrics \/ Compare
  BY <1>3 DEF StartGrader, Parse, SealOwn, RecordMetrics, Compare
<1>4. CASE Verify
  <2>1. Complete
    BY <1>4 DEF Verify, VerifyOn, ProgressOK, Ungraded
  <2>2. ASSUME Drifted \cap (Required \cup Own) = {}
        PROVE  \A f \in Showing : disk[f] = rows[f]
    BY <2>1, <2>2, RolesAreDeclared DEF Drifted, Complete
  <2>3. {computed, outputRow} \cap Outputs \subseteq Known
    BY DEF Known
  <2>4. UNCHANGED <<computed, outputRow, rows>>
    BY <1>4 DEF Verify, VerifyOn
  <2>5. QED
    BY <1>4, <2>2, <2>3, <2>4 DEF Verify, VerifyOn, Provenance, Unchanged
<1>5. CASE Ask \/ Accept \/ Retry \/ Resume \/ Crash
  BY <1>5 DEF Ask, Accept, Retry, Resume, Crash
<1>6. ASSUME NEW f \in Declared, Hash(f)
      PROVE  Confirmed'
  BY <1>6 DEF Hash
<1>7. ASSUME NEW f \in Declared, Outside(f)
      PROVE  Confirmed'
  BY <1>7, ChangesShow
<1>8. ASSUME NEW g \in graders, GraderStep(g)
      PROVE  Confirmed'
  BY <1>8, GraderFrame
<1>9. QED
  BY <1>1, <1>2, <1>3, <1>4, <1>5, <1>6, <1>7, <1>8 DEF Next

LEMMA ScoreInvariant == Spec => []ScoreInv
<1>1. Init => ScoreInv
  <2> SUFFICES ASSUME Init PROVE ScoreInv
    OBVIOUS
  <2>1. Fresh
    BY DEF Init, Fresh, Idle
  <2>2. Provenance
    BY MarkersDiffer DEF Init, Provenance, Known
  <2>3. Confirmed
    BY DEF Init, Confirmed
  <2>4. QED
    BY <2>1, <2>2, <2>3 DEF ScoreInv
<1>2. GradeInv /\ ScoreInv /\ [Next]_vars => ScoreInv'
  BY FreshHolds, ProvenanceHolds, ConfirmedHolds DEF GradeInv, ScoreInv
<1>3. QED
  BY <1>1, <1>2, GradeInvariant, PTL DEF Spec

\* An accepted score was computed from the sealed content of every required role
\* whose file, once changed, never gets that content back, whenever the files change,
\* whatever the grader does and however often grading is interrupted.
THEOREM ScoreIsOfSealedFiles == Spec => []ScoreOfSealedFiles
<1>1. ASSUME GradeInv, ScoreInv
      PROVE  ScoreOfSealedFiles
  <2>1. status = "ACCEPTED" => computed \in Outputs
    BY <1>1 DEF GradeInv, TypeOK, ProgressOK
  <2>2. QED
    BY <1>1, <2>1 DEF ScoreInv, Confirmed, Showing, ScoreOfSealedFiles
<1>2. QED
  BY <1>1, GradeInvariant, ScoreInvariant, PTL

\* Whatever crashes and repetitions of the grading came before, and whatever the
\* graders they left behind do to the file: the sealed grader_output of an accepted
\* experiment, if it is an output at all, was graded from the sealed files, and it is
\* the output of the score unless a grader wrote after that was parsed.
THEOREM OutputIsSealed == Spec => []AcceptedOutputIsSealed
<1>1. ASSUME GradeInv, ScoreInv
      PROVE  AcceptedOutputIsSealed
  <2>1. status = "ACCEPTED" => /\ outputRow \in Outputs \cup {Torn}
                               /\ ~overtaken => outputRow = computed
    BY <1>1 DEF GradeInv, OutputOK
  <2>2. status = "ACCEPTED" /\ outputRow \in Outputs =>
           \A f \in Showing : outputRow.inputs[f] = rows[f]
    BY <1>1 DEF ScoreInv, Confirmed
  <2>3. QED
    BY <2>1, <2>2 DEF AcceptedOutputIsSealed, Showing
<1>2. QED
  BY <1>1, GradeInvariant, ScoreInvariant, PTL

-----------------------------------------------------------------------------
\* A report whose changes are noticed, as it was sealed.
AsSealed == Report \in Showing /\ disk[Report] = rows[Report]

\* What was read of the report while the grading went on, what was recorded of it,
\* and what was compared, if the file is still as it was sealed.
Reading ==
    AsSealed =>
        /\ pc \in {"manifest", "grader", "parse", "own", "metrics", "compare"} =>
               got = rows[Report]
        /\ computed # NoValue => reported = rows[Report]
        /\ status \in {"REVIEW_PENDING", "REVIEW_BLOCKED", "NEEDS_HUMAN"} =>
               Agree(rows[Report], computed)

\* The comparison is with the metric on record.
Comparing == pc = "compare" => result = computed

\* AcceptedReportAgrees from the verification on.
Agreed ==
    Report \in Showing /\ (pc \in {"ask", "accept"} \/ status = "ACCEPTED") =>
        Agree(reported, computed)

ReportInv == Reading /\ Comparing /\ Agreed

LEMMA ReadingHolds ==
    ASSUME TypeOK, StageOK, ProgressOK, Fresh, Reading, Comparing, [Next]_vars
    PROVE  Reading'
<1> USE DEF Reading, AsSealed, Showing, Agree, rowVars, Goto, End, Fail
<1>1. CASE UNCHANGED vars
  BY <1>1 DEF vars
<1>2. CASE Start \/ Store \/ WriteManifest \/ StartGrader \/ Parse \/ SealOwn
  BY <1>2 DEF Start, Store, WriteManifest, StartGrader, Parse, SealOwn
<1>3. CASE Insert
  <2>1. computed # NoValue => rows'[Report] = rows[Report] \/ Report \notin Required
    BY <1>3, RolesAreDeclared DEF Insert, ProgressOK, Ungraded, Complete
  <2>2. status = "GRADING" /\ status' = status
    BY <1>3 DEF Insert, StageOK
  <2>3. QED
    BY <1>3, <2>1, <2>2 DEF Insert
<1>4. CASE ReadReport
  <2>1. Complete
    BY <1>4 DEF ReadReport, ProgressOK
  <2>2. QED
    BY <1>4, <2>1 DEF ReadReport, Complete
<1>5. CASE RecordMetrics
  BY <1>5, StageOK DEF RecordMetrics, StageOK
<1>6. CASE Compare
  BY <1>6 DEF Compare, Comparing
<1>7. CASE Verify \/ Ask \/ Accept
  BY <1>7 DEF Verify, VerifyOn, Ask, Accept, StageOK
<1>8. CASE Retry \/ Resume \/ Crash
  BY <1>8 DEF Retry, RetryableStatuses, Resume, Crash
<1>9. ASSUME NEW f \in Declared, Hash(f)
      PROVE  Reading'
  BY <1>9 DEF Hash
<1>10. ASSUME NEW f \in Declared, Outside(f)
       PROVE  Reading'
  <2>1. UNCHANGED <<status, rows, computed, reported, got, pc>>
    BY <1>10 DEF Outside, Change, Lose, Restore, rowVars
  <2>2. computed # NoValue
           \/ pc \in {"manifest", "grader", "parse", "own", "metrics", "compare"}
        => Complete
    BY DEF ProgressOK, Ungraded
  <2>3. status \in {"REVIEW_PENDING", "REVIEW_BLOCKED", "NEEDS_HUMAN"} => Complete
    BY DEF ProgressOK, Ungraded
  <2>4. Complete /\ AsSealed' => AsSealed
    BY <1>10, ChangesShow, RolesAreDeclared DEF Complete
  <2>5. QED
    BY <2>1, <2>2, <2>3, <2>4
<1>11. ASSUME NEW g \in graders, GraderStep(g)
       PROVE  Reading'
  BY <1>11, GraderFrame
<1>12. QED
  BY <1>1, <1>2, <1>3, <1>4, <1>5, <1>6, <1>7, <1>8, <1>9, <1>10, <1>11 DEF Next

LEMMA ComparingHolds ==
    ASSUME Comparing, [Next]_vars
    PROVE  Comparing'
<1> USE DEF Comparing, rowVars, Goto, End, Fail
<1>1. CASE UNCHANGED vars
  BY <1>1 DEF vars
<1>2. CASE Start \/ Store \/ Insert \/ ReadReport \/ WriteManifest
  BY <1>2 DEF Start, Store, Insert, ReadReport, WriteManifest
<1>3. CASE StartGrader \/ Parse \/ SealOwn \/ RecordMetrics \/ Compare \/ Verify
  BY <1>3 DEF StartGrader, Parse, SealOwn, RecordMetrics, Compare, Verify, VerifyOn
<1>4. CASE Ask \/ Accept \/ Retry \/ Resume \/ Crash
  BY <1>4 DEF Ask, Accept, Retry, Resume, Crash
<1>5. ASSUME NEW f \in Declared, Hash(f)
      PROVE  Comparing'
  BY <1>5 DEF Hash
<1>6. ASSUME NEW f \in Declared, Outside(f)
      PROVE  Comparing'
  BY <1>6 DEF Outside, Change, Lose, Restore
<1>7. ASSUME NEW g \in graders, GraderStep(g)
      PROVE  Comparing'
  BY <1>7, GraderFrame
<1>8. QED
  BY <1>1, <1>2, <1>3, <1>4, <1>5, <1>6, <1>7 DEF Next

LEMMA AgreedHolds ==
    ASSUME TypeOK, StageOK, ProgressOK, Reading, Agreed, [Next]_vars
    PROVE  Agreed'
<1> USE DEF StageOK, Agreed, Showing, rowVars, Goto, End, Fail
<1>1. CASE UNCHANGED vars
  BY <1>1 DEF vars, Agree
<1>2. CASE Start \/ Store \/ Insert \/ ReadReport \/ WriteManifest
  BY <1>2 DEF Start, Store, Insert, ReadReport, WriteManifest, Agree
<1>3. CASE StartGrader \/ Parse \/ SealOwn \/ RecordMetrics \/ Compare
  BY <1>3 DEF StartGrader, Parse, SealOwn, RecordMetrics, Compare, Agree
<1>4. CASE Verify
  <2>1. computed # NoValue /\ Complete /\ status = "REVIEW_PENDING"
    BY <1>4 DEF Verify, VerifyOn, ProgressOK, Ungraded
  <2>2. ASSUME Drifted \cap (Required \cup Own) = {}, Report \in Showing
        PROVE  AsSealed
    BY <2>1, <2>2, RolesAreDeclared DEF Drifted, Complete, AsSealed
  <2>3. AsSealed => Agree(reported, computed)
    BY <2>1 DEF Reading
  <2>4. UNCHANGED <<reported, computed>>
    BY <1>4 DEF Verify, VerifyOn
  <2>5. Agree(reported, computed)' <=> Agree(reported, computed)
    BY <2>4 DEF Agree
  <2>6. QED
    BY <1>4, <2>2, <2>3, <2>5 DEF Verify, VerifyOn
<1>5. CASE Ask \/ Accept \/ Retry \/ Resume \/ Crash
  BY <1>5 DEF Ask, Accept, Retry, Resume, Crash, Agree
<1>6. ASSUME NEW f \in Declared, Hash(f)
      PROVE  Agreed'
  BY <1>6 DEF Hash, Agree
<1>7. ASSUME NEW f \in Declared, Outside(f)
      PROVE  Agreed'
  BY <1>7 DEF Outside, Change, Lose, Restore, Agree
<1>8. ASSUME NEW g \in graders, GraderStep(g)
      PROVE  Agreed'
  BY <1>8, GraderFrame DEF Agree
<1>9. QED
  BY <1>1, <1>2, <1>3, <1>4, <1>5, <1>6, <1>7, <1>8 DEF Next

LEMMA FreshInvariant == Spec => []Fresh
<1>1. Init => Fresh
  BY DEF Init, Fresh, Idle
<1>2. TypeOK /\ Fresh /\ [Next]_vars => Fresh'
  BY FreshHolds
<1>3. GradeInv => TypeOK
  BY DEF GradeInv
<1>4. QED
  BY <1>1, <1>2, <1>3, GradeInvariant, PTL DEF Spec

\* The reported and the computed metric on record of an accepted experiment agree if the
\* report is required and its file, once changed, never gets its sealed content back,
\* for any tolerance, however often grading is interrupted between the transaction that
\* records the metrics and the comparison, and whatever a resumed one reads.
THEOREM ReportsAgree == Spec => []AcceptedReportAgrees
<1>1. Init => ReportInv
  BY MarkersDiffer DEF Init, ReportInv, Reading, Comparing, Agreed
<1>2. GradeInv /\ Fresh /\ ReportInv /\ [Next]_vars => ReportInv'
  BY ReadingHolds, ComparingHolds, AgreedHolds DEF GradeInv, ReportInv
<1>3. ReportInv => AcceptedReportAgrees
  BY DEF ReportInv, Agreed, Showing, AcceptedReportAgrees
<1>4. QED
  BY <1>1, <1>2, <1>3, GradeInvariant, FreshInvariant, PTL DEF Spec
=============================================================================
