------------------------------- MODULE Grading -------------------------------
(***************************************************************************)
(* One experiment from GRADING to its verdict: _grade(), _pre_review_verify *)
(* and the end of _review() and _accept(), with the artifact store and the *)
(* trusted grader. The files are those of the run directory: one for each  *)
(* declared role, written by the formal command, and the controller's own  *)
(* sealed-artifacts.json and grader-output.json.                           *)
(*                                                                         *)
(* Controller shows that one thread at a time works here; the thread may   *)
(* die between any two steps and recover() enters again at the status it   *)
(* finds. Meanwhile the declared files may change or disappear: processes  *)
(* the command left behind still write, and disks lose data.               *)
(*                                                                         *)
(* The grader is a child of the controller and outlives its crash: one left *)
(* behind reads and writes the same files beside the grader of the next    *)
(* grading.                                                                *)
(*                                                                         *)
(* The content of a declared file is a number, and a file with the role of *)
(* the reported metrics reports that number. SHA-256 is injective.         *)
(***************************************************************************)
EXTENDS Statuses, Integers, FiniteSets

CONSTANTS
    Declared,    \* roles of spec.expected_artifacts, with one file each
    Required,    \* those with required = True
    Small,       \* those whose file is below small_artifact_limit_mib
    Report,      \* policy.reported_metric_role
    Scores,      \* the primary metric, as the grader may compute it
    Tolerance,   \* policy.metric_tolerance
    Restorable,  \* those whose file, once changed, may get its sealed content back
    NoFile, NoRow, Pending, NoValue, Nobody,
    Torn,        \* a grader-output.json that is no grader's whole output
    MaxChanges,  \* bound on changes of declared files
    MaxCrashes   \* bound on crashes of the controller

Values == 0 .. MaxChanges
Contents == Values \cup {NoFile}
\* What a grader reads of each required file, and its output.
Inputs == [Required -> Contents \cup {NoRow}]
Outputs == [inputs : Inputs, score : Scores]
Own == {"sealed_manifest", "grader_output"}
\* A manifest is known by the roles it lists.
Manifests == SUBSET (Declared \cup Own)

ASSUME RolesAreDeclared ==
    /\ Required \subseteq Declared /\ Small \subseteq Declared
    /\ Restorable \subseteq Declared /\ Report \in Declared

ASSUME RolesDiffer == Declared \cap Own = {} /\ Nobody \notin Declared

ASSUME MarkersDiffer ==
    /\ {NoFile, NoRow, Pending, NoValue} \cap Int = {}
    /\ NoFile # NoRow /\ NoFile # Pending /\ NoRow # Pending
    /\ {NoValue, NoFile, NoRow, Torn} \cap Outputs = {}
    /\ NoValue \notin Inputs /\ Torn # NoFile /\ Torn # NoRow
    /\ \A m \in Manifests : m # NoFile /\ m # NoRow

ASSUME NumbersAreNumbers ==
    /\ Scores \subseteq Int /\ Tolerance \in Nat
    /\ MaxChanges \in Nat /\ MaxCrashes \in Nat

VARIABLES
    status,                 \* experiments.status
    rows,                   \* artifacts.sha256 of the declared roles
    manifestRow, outputRow, \* the same for the controller's own files
    computed, reported,     \* metrics by source; computed with its origin
    disk,                   \* the declared files
    manifest, output,       \* sealed-artifacts.json, grader-output.json
    graders,                \* the graders alive, by the crashes before their start
    overtaken,              \* was grader-output.json written since its last parse?
    objects,                \* the object store: digest and bytes of each object
    pc,                     \* the step the thread is about to take, "off" without one
    batch, at,              \* seal(): digest of each file so far, the one being stored
    got, result,            \* what the thread read as reported and computed metrics
    blamed,                 \* the files the last pre-review verification failed for
    changes, crashes

rowVars == <<rows, manifestRow, outputRow, computed, reported>>
ownVars == <<manifest, output>>
graderVars == <<graders, overtaken>>
sealVars == <<batch, at>>
vars == <<status, rowVars, disk, ownVars, graderVars, objects, pc, sealVars, got,
          result, blamed, changes, crashes>>

Labels == {"off", "start", "seal", "store", "report", "manifest", "grader",
           "parse", "own", "metrics", "compare", "verify", "ask", "accept"}

Idle == [f \in Declared |-> Pending]

Init ==
    /\ status = "GRADING"
    /\ rows = [f \in Declared |-> NoRow]
    /\ manifestRow = NoRow /\ outputRow = NoRow
    /\ computed = NoValue /\ reported = NoValue
    /\ disk \in [Declared -> {0, NoFile}]
    /\ manifest = NoFile /\ output = NoFile
    /\ graders = {} /\ overtaken = FALSE
    /\ objects = {}
    /\ pc = "start"
    /\ batch = Idle /\ at = Nobody
    /\ got = NoValue /\ result = NoValue
    /\ blamed = {}
    /\ changes = 0 /\ crashes = 0

-----------------------------------------------------------------------------
\* The call ends with _transition to status s.
End(s) ==
    /\ status' = s
    /\ pc' = "off"

\* _grade's handler of ArtifactError, GraderError and OSError.
Fail == End("VERIFICATION_FAILED")

Goto(label) ==
    /\ pc' = label
    /\ UNCHANGED status

\* Nothing is sealed again once every declared role has a row.
Start ==
    /\ pc = "start"
    /\ Goto(IF \A f \in Declared : rows[f] # NoRow THEN "report" ELSE "seal")
    /\ batch' = Idle
    /\ UNCHANGED <<rowVars, disk, ownVars, graderVars, objects, at, got, result,
                   blamed, changes, crashes>>

Stored(f, v) == \E o \in objects : o.role = f /\ o.digest = v

\* seal(): one file is matched and hashed. A small one goes to the object store,
\* which has nothing to do when it holds the digest already. The call fails when a
\* required file is missing or the file changes under the hash.
Hash(f) ==
    /\ pc = "seal" /\ batch[f] = Pending
    /\ \/ /\ f \in Required \/ disk[f] # NoFile
          /\ Fail /\ UNCHANGED sealVars
       \/ /\ f \notin Required \/ disk[f] # NoFile
          /\ batch' = [batch EXCEPT ![f] = disk[f]]
          /\ IF f \in Small /\ disk[f] # NoFile /\ ~Stored(f, disk[f])
             THEN Goto("store") /\ at' = f
             ELSE UNCHANGED <<status, pc, at>>
    /\ UNCHANGED <<rowVars, disk, ownVars, graderVars, objects, got, result,
                   blamed, changes, crashes>>

\* _store_object: the file is copied and the copy hashed before it gets its name.
Store ==
    /\ pc = "store"
    /\ IF disk[at] = batch[at]
       THEN /\ objects' = objects \cup
                    {[role |-> at, digest |-> batch[at], bytes |-> disk[at]]}
            /\ Goto("seal")
       ELSE Fail /\ UNCHANGED objects
    /\ at' = Nobody
    /\ UNCHANGED <<rowVars, disk, ownVars, graderVars, batch, got, result, blamed,
                   changes, crashes>>

\* Mutant: every file gets a row, the ones that were not there too.
InsertAll ==
    /\ pc = "seal" /\ \A f \in Declared : batch[f] # Pending
    /\ rows' = [f \in Declared |-> IF rows[f] = NoRow THEN batch[f] ELSE rows[f]]
    /\ Goto("report")
    /\ UNCHANGED <<manifestRow, outputRow, computed, reported, disk, ownVars,
                   graderVars, objects, sealVars, got, result, blamed, changes,
                   crashes>>

\* _insert_artifacts: INSERT OR IGNORE keeps the rows there are.
Insert ==
    /\ pc = "seal" /\ \A f \in Declared : batch[f] # Pending
    /\ rows' = [f \in Declared |->
            IF rows[f] = NoRow /\ batch[f] # NoFile THEN batch[f] ELSE rows[f]]
    /\ Goto("report")
    /\ UNCHANGED <<manifestRow, outputRow, computed, reported, disk, ownVars,
                   graderVars, objects, sealVars, got, result, blamed, changes,
                   crashes>>

\* Mutant: with computed metrics in the database there is nothing to compare.
ReadReportOnce ==
    /\ pc = "report"
    /\ got' = IF rows[Report] = NoRow \/ disk[Report] = NoFile
              THEN NoValue ELSE disk[Report]
    /\ result' = computed
    /\ IF computed = NoValue THEN Goto("manifest")
       ELSE status' = "REVIEW_PENDING" /\ pc' = "verify"
    /\ UNCHANGED <<rowVars, disk, ownVars, graderVars, objects, sealVars, blamed,
                   changes, crashes>>

\* read_reported_metrics reads the file of the sealed row, and an interrupted
\* grading goes on with the computed metrics it recorded.
ReadReport ==
    /\ pc = "report"
    /\ IF rows[Report] # NoRow /\ disk[Report] = NoFile
       THEN Fail /\ UNCHANGED <<got, result>>
       ELSE /\ got' = IF rows[Report] = NoRow THEN NoValue ELSE disk[Report]
            /\ result' = computed
            /\ Goto(IF computed = NoValue THEN "manifest" ELSE "compare")
    /\ UNCHANGED <<rowVars, disk, ownVars, graderVars, objects, sealVars, blamed,
                   changes, crashes>>

\* The roles that have a row.
Sealed ==
    {f \in Declared : rows[f] # NoRow} \cup (IF manifestRow = NoRow THEN {} ELSE Own)

WriteManifest ==
    /\ pc = "manifest"
    /\ manifest' = Sealed
    /\ Goto("grader")
    /\ UNCHANGED <<rowVars, disk, output, graderVars, objects, sealVars, got,
                   result, blamed, changes, crashes>>

\* TrustedGrader.run starts the grader, or refuses to.
StartGrader ==
    /\ pc = "grader"
    /\ \/ /\ graders' = graders \cup {[life |-> crashes, inputs |-> NoValue]}
          /\ Goto("parse")
       \/ Fail /\ UNCHANGED graders
    /\ UNCHANGED <<rowVars, disk, ownVars, overtaken, objects, sealVars, got,
                   result, blamed, changes, crashes>>

\* After its grader has ended the thread parses the output it finds, whoever wrote
\* it; or the grader exited with an error, or the output has the wrong fields.
Parse ==
    /\ pc = "parse" /\ \A g \in graders : g.life # crashes
    /\ \/ output \in Outputs /\ result' = output /\ overtaken' = FALSE /\ Goto("own")
       \/ Fail /\ UNCHANGED <<result, overtaken>>
    /\ UNCHANGED <<rowVars, disk, ownVars, graders, objects, sealVars, got, blamed,
                   changes, crashes>>

\* seal_file of the manifest and of the grader's output, and _insert_artifacts; or
\* the output is written under the hash or the copy.
SealOwn ==
    /\ pc = "own"
    /\ \/ /\ manifestRow' = IF manifestRow = NoRow THEN manifest ELSE manifestRow
          /\ outputRow' = IF outputRow = NoRow THEN output ELSE outputRow
          /\ Goto("metrics")
       \/ graders # {} /\ Fail /\ UNCHANGED <<manifestRow, outputRow>>
    /\ UNCHANGED <<rows, computed, reported, disk, ownVars, graderVars, objects,
                   sealVars, got, result, blamed, changes, crashes>>

\* The transaction that records the metrics and grader.completed.
RecordMetrics ==
    /\ pc = "metrics"
    /\ computed' = result
    /\ reported' = got
    /\ Goto("compare")
    /\ UNCHANGED <<rows, manifestRow, outputRow, disk, ownVars, graderVars,
                   objects, sealVars, got, result, blamed, changes, crashes>>

\* metric_consistent.
Agree(r, c) ==
    r = NoValue \/ r - c.score \in (-Tolerance) .. Tolerance

Compare ==
    /\ pc = "compare"
    /\ IF Agree(got, result)
       THEN status' = "REVIEW_PENDING" /\ pc' = "verify"
       ELSE End("VERIFICATION_FAILED")
    /\ UNCHANGED <<rowVars, disk, ownVars, graderVars, objects, sealVars, got,
                   result, blamed, changes, crashes>>

-----------------------------------------------------------------------------
\* The sealed files whose content is no longer the sealed one.
Drifted ==
    {f \in Declared : rows[f] # NoRow /\ disk[f] # rows[f]}
    \cup {f \in Own : \/ f = "sealed_manifest" /\ manifest # manifestRow
                      \/ f = "grader_output" /\ output # outputRow}

\* _pre_review_verify fails for changed files that are required; the controller
\* seals its own as required.
VerifyOn(changed) ==
    /\ pc = "verify"
    /\ blamed' = changed
    /\ IF changed = {} THEN Goto("ask") ELSE End("VERIFICATION_FAILED")
    /\ UNCHANGED <<rowVars, disk, ownVars, graderVars, objects, sealVars, got,
                   result, changes, crashes>>

\* Mutant: a good copy in the object store will do.
VerifyAnyCopy ==
    VerifyOn({f \in Drifted \cap (Required \cup Own) :
                  f \in Own \/ ~Stored(f, rows[f])})

\* Mutant: the controller trusts its own files.
VerifyDeclared == VerifyOn(Drifted \cap Required)

Verify == VerifyOn(Drifted \cap (Required \cup Own))

\* The reviewer's verdict.
Ask ==
    /\ pc = "ask"
    /\ \/ \E s \in {"REVIEW_BLOCKED", "NEEDS_HUMAN", "REJECTED"} : End(s)
       \/ Goto("accept")
    /\ UNCHANGED <<rowVars, disk, ownVars, graderVars, objects, sealVars, got,
                   result, blamed, changes, crashes>>

Accept ==
    /\ pc = "accept"
    /\ End("ACCEPTED")
    /\ UNCHANGED <<rowVars, disk, ownVars, graderVars, objects, sealVars, got,
                   result, blamed, changes, crashes>>

\* retry_review().
Retry ==
    /\ pc = "off" /\ status \in RetryableStatuses
    /\ status' = "REVIEW_PENDING" /\ pc' = "verify"
    /\ UNCHANGED <<rowVars, disk, ownVars, graderVars, objects, sealVars, got,
                   result, blamed, changes, crashes>>

-----------------------------------------------------------------------------
\* A grader reads the files the manifest lists, at their absolute paths.
GraderReads(g) ==
    /\ g.inputs = NoValue
    /\ graders' = (graders \ {g}) \cup
           {[g EXCEPT !.inputs = [f \in Required |->
                                     IF f \in manifest THEN disk[f] ELSE NoRow]]}
    /\ UNCHANGED <<status, rowVars, disk, ownVars, overtaken, objects, pc,
                   sealVars, got, result, blamed, changes, crashes>>

\* It opens grader-output.json, which empties the file; of two that write at once
\* neither need leave its own output.
GraderOpens(g) ==
    /\ g.inputs # NoValue /\ output # Torn
    /\ output' = Torn /\ overtaken' = TRUE
    /\ UNCHANGED <<status, rowVars, disk, manifest, graders, objects, pc, sealVars,
                   got, result, blamed, changes, crashes>>

\* Its last write completes an output.
GraderWrites(g) ==
    /\ g.inputs # NoValue
    /\ \E s \in Scores : output' = [inputs |-> g.inputs, score |-> s]
    /\ overtaken' = TRUE
    /\ graders' = graders \ {g}
    /\ UNCHANGED <<status, rowVars, disk, manifest, objects, pc, sealVars, got,
                   result, blamed, changes, crashes>>

\* It ends with the file as it is: an error, a kill, or nothing to write.
GraderEnds(g) ==
    /\ graders' = graders \ {g}
    /\ UNCHANGED <<status, rowVars, disk, ownVars, overtaken, objects, pc,
                   sealVars, got, result, blamed, changes, crashes>>

GraderStep(g) == GraderReads(g) \/ GraderOpens(g) \/ GraderWrites(g) \/ GraderEnds(g)

\* recover() enters at the status it finds.
Resume ==
    /\ pc = "off"
    /\ \/ status = "GRADING" /\ Goto("start")
       \/ status = "REVIEW_PENDING" /\ Goto("verify")
    /\ UNCHANGED <<rowVars, disk, ownVars, graderVars, objects, sealVars, got,
                   result, blamed, changes, crashes>>

\* The thread is gone with what it held; a grader it waited for is not, unless it is
\* killed as well, as on the timeout that no except clause lists (GraderEnds).
Crash ==
    /\ pc # "off" /\ crashes < MaxCrashes
    /\ crashes' = crashes + 1
    /\ Goto("off")
    /\ batch' = Idle /\ at' = Nobody
    /\ got' = NoValue /\ result' = NoValue
    /\ UNCHANGED <<rowVars, disk, ownVars, graderVars, objects, blamed, changes>>

\* A declared file gets a content it never had.
Change(f) ==
    /\ changes < MaxChanges
    /\ changes' = changes + 1
    /\ disk' = [disk EXCEPT ![f] = changes']
    /\ UNCHANGED <<status, rowVars, ownVars, graderVars, objects, pc, sealVars,
                   got, result, blamed, crashes>>

Lose(f) ==
    /\ disk[f] # NoFile
    /\ disk' = [disk EXCEPT ![f] = NoFile]
    /\ UNCHANGED <<status, rowVars, ownVars, graderVars, objects, pc, sealVars,
                   got, result, blamed, changes, crashes>>

\* A changed file is replaced by a copy of what was sealed.
Restore(f) ==
    /\ f \in Restorable /\ rows[f] # NoRow /\ disk[f] # rows[f]
    /\ disk' = [disk EXCEPT ![f] = rows[f]]
    /\ UNCHANGED <<status, rowVars, ownVars, graderVars, objects, pc, sealVars,
                   got, result, blamed, changes, crashes>>

Outside(f) == Change(f) \/ Lose(f) \/ Restore(f)

Next ==
    \/ Start \/ Store \/ Insert \/ ReadReport \/ WriteManifest \/ StartGrader
    \/ Parse \/ SealOwn \/ RecordMetrics \/ Compare \/ Verify \/ Ask \/ Accept
    \/ Retry \/ Resume \/ Crash
    \/ \E f \in Declared : Hash(f) \/ Outside(f)
    \/ \E g \in graders : GraderStep(g)

Spec == Init /\ [][Next]_vars
-----------------------------------------------------------------------------
\* The type invariant.
TypeOK ==
    /\ status \in Statuses
    /\ rows \in [Declared -> Values \cup {NoRow}]
    /\ manifestRow \in Manifests \cup {NoRow}
    /\ outputRow \in Outputs \cup {NoRow, Torn}
    /\ computed \in Outputs \cup {NoValue}
    /\ reported \in Values \cup {NoValue}
    /\ disk \in [Declared -> Contents]
    /\ manifest \in Manifests \cup {NoFile}
    /\ output \in Outputs \cup {NoFile, Torn}
    /\ graders \subseteq [life : 0 .. crashes, inputs : Inputs \cup {NoValue}]
    /\ overtaken \in BOOLEAN
    /\ objects \subseteq {o \in [role : Declared, digest : Values, bytes : Values] :
                          o.bytes = o.digest}
    /\ pc \in Labels
    /\ batch \in [Declared -> Contents \cup {Pending}]
    /\ at \in Declared \cup {Nobody}
    /\ pc = "store" => at # Nobody /\ batch[at] \in Values
    /\ got \in Values \cup {NoValue}
    /\ result \in Outputs \cup {NoValue}
    /\ blamed \subseteq Declared \cup Own
    /\ changes \in Nat /\ crashes \in Nat

\* _grade and _pre_review_verify: an accepted score was computed from exactly what
\* is sealed for the required roles, but for changes that are undone in time. The
\* grader reads the files long after they were hashed, perhaps under another
\* process than the one that sealed them, and long before they are compared.
ScoreOfSealedFiles ==
    status = "ACCEPTED" =>
        \A f \in Required \ Restorable : computed.inputs[f] = rows[f]

\* The sealed grader_output of an accepted experiment is the output its score came
\* from, although a resumed grading overwrites the file and keeps the first row;
\* unless a grader left behind by a crash writes the file after it was parsed, which
\* nothing in _grade prevents. Whoever wrote it, it was graded from what is sealed.
AcceptedOutputIsSealed ==
    status = "ACCEPTED" =>
        /\ ~overtaken => outputRow = computed
        /\ outputRow # Torn =>
              \A f \in Required \ Restorable : outputRow.inputs[f] = rows[f]

\* Of an accepted experiment the reported and the computed metric that are on
\* record agree, although a resumed grading compares what it reads anew; unless a
\* change of the report is undone between the two readings, or the report is an
\* optional artifact, which _pre_review_verify does not hold to its sealed content.
AcceptedReportAgrees ==
    status = "ACCEPTED" /\ Report \in Required \ Restorable =>
        Agree(reported, computed)

\* README.md, "Pre-review drift fails verification", and the transition's reason,
\* "sealed artifacts changed before review": sealed-artifacts.json, which only the
\* controller writes, does not drift.
ManifestDoesNotDrift == "sealed_manifest" \notin blamed
=============================================================================
