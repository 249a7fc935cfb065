----------------------------- MODULE ArexProofs -----------------------------
(***************************************************************************)
(* Proofs about ArexExperiment, for any number of questions, turns,         *)
(* invocations and evaluations.                                             *)
(*                                                                          *)
(* What the properties say at rest depends on where main is between two     *)
(* file writes.  Position states it: which files of the current question    *)
(* are gone, and which hold the current attempt.  With the types it is      *)
(* inductive, and it is what a kill leaves behind.                          *)
(***************************************************************************)
EXTENDS ArexExperiment, TLAPS

Ends == {"completed", "failed", "max_turns"}

Handling == {"clearRun", "clearFailed", "running", "saving", "counting"}

\* The types of everything the loop keeps.
Types ==
  /\ ArexTypeOK
  /\ main \in {"idle", "ended", "next"} \cup Handling
  /\ index \in Nat \ {0} /\ attempt \in Nat
  /\ options \in Options
  /\ status \in {"none", "running"} \cup Ends
  /\ summary \in [completed : Nat, failed : Nat, skipped : Nat]
  /\ judging \subseteq Questions

\* The files of the question at which main is.
Position ==
  /\ main \in Handling => index \in Questions
  /\ main \in {"clearRun", "clearFailed"} => trajectory[index] = NoFile
  /\ main \in {"clearFailed", "running", "saving"} => run[index] = NoFile
  /\ main \in {"running", "saving", "counting"} =>
       attempt > 0 /\ failed[index] = NoFile /\ previous_run[index].attempt < attempt
  /\ main \in {"saving", "counting"} => status \in Ends /\ trajectory[index] = Write(status)
  /\ main = "counting" => run[index] = Write(status)

\* A backup is never newer than the run beside it.
BackupIsOlder == \A q \in Questions : Exists(run[q]) => previous_run[q].attempt < run[q].attempt

Inv == Types /\ Position /\ BackupIsOlder /\ FilesAreOfOneAttempt

\* A question the loop has left behind, and how many it has counted.
Handled(q) ==
  /\ Exists(run[q]) /\ run[q] = trajectory[q]
  /\ failed[q] = IF IsCompleted(q) THEN NoFile ELSE run[q]

Progress ==
  /\ main # "idle" => /\ summary.completed + summary.failed + summary.skipped = index - 1
                      /\ index <= Selected + 1
  /\ main \in {"next", "ended"} \cup Handling /\ (options.retry_failed \/ options.overwrite) =>
       \A q \in Questions : q < index => Handled(q)
  /\ main = "ended" => index = Selected + 1

-----------------------------------------------------------------------------
LEMMA InitInv == ArexInit => Inv
<1> SUFFICES ASSUME ArexInit PROVE Inv
  OBVIOUS
<1> USE DEF ArexInit
<1>1. Types
  BY DEF Types, ArexTypeOK, Files, NoFile, Options, Handling, Ends
<1>2. Position
  BY DEF Position, Handling
<1>3. BackupIsOlder /\ FilesAreOfOneAttempt
  BY DEF BackupIsOlder, FilesAreOfOneAttempt, Exists, NoFile
<1> QED  BY <1>1, <1>2, <1>3 DEF Inv

\* A later attempt leaves the files of the earlier ones well typed.
LEMMA FilesGrow ==
  ASSUME attempt \in Nat, attempt' \in Nat, attempt <= attempt'
  PROVE  Files \subseteq Files'
  BY DEF Files, NoFile

\* What Write returns during an attempt.
LEMMA WriteType ==
  ASSUME attempt \in Nat \ {0}, NEW s \in Ends \cup {"running"}
  PROVE  Write(s) \in Files /\ Write(s) # NoFile /\ Write(s).status = s /\ Write(s).attempt = attempt
  BY DEF Write, Files, NoFile, Ends

LEMMA TypesStep == ASSUME Inv, [ArexNext]_arexVars PROVE Types'
<1> USE DEF Inv, Types, ArexTypeOK
<1>f. attempt' >= attempt /\ attempt' \in Nat => Files \subseteq Files'
  BY FilesGrow
<1>0. NoFile \in Files /\ NoFile.status = "none"
  BY DEF Files, NoFile
<1>1. CASE Invoke
  BY <1>1 DEF Invoke, files, judged, Files, Options
<1>2. CASE SkipQuestion
  BY <1>2 DEF SkipQuestion, NextQuestion, files, judged, bounds, Files
<1>3. CASE ClearTrajectory
  BY <1>3, <1>0 DEF ClearTrajectory, judged, bounds, Files, Handling
<1>4. CASE ClearRun
  <2>1. run' \in [Questions -> {f \in Files : f.status # "running"}]
    BY <1>4, <1>0 DEF ClearRun, ClearedRun
  <2>2. previous_run' \in [Questions -> {f \in Files : f.status # "running"}]
    BY <1>4, <1>0 DEF ClearRun, Backup, Position, Handling
  <2> QED  BY <1>4, <2>1, <2>2 DEF ClearRun, judged, bounds, Files, Handling
<1>5. CASE ClearFailed
  <2>1. attempt' = attempt + 1 /\ attempt' \in Nat /\ Files \subseteq Files'
    BY <1>5, <1>f DEF ClearFailed
  <2>2. trajectory' = trajectory /\ run' = run /\ previous_run' = previous_run /\ judge_cache' = judge_cache
    BY <1>5 DEF ClearFailed, judged
  <2>3. failed' \in [Questions -> {f \in Files : f.status \notin {"running", "completed"}}]
    BY <1>5, <1>0 DEF ClearFailed
  <2>4. failed' \in [Questions -> {f \in Files' : f.status \notin {"running", "completed"}}]
    BY <2>1, <2>3
  <2>5. /\ trajectory' \in [Questions -> Files']
        /\ {run', previous_run'} \subseteq [Questions -> {f \in Files' : f.status # "running"}]
        /\ judge_cache' \in [Questions -> 0..attempt']
    BY <2>1, <2>2
  <2> QED  BY <1>5, <2>1, <2>4, <2>5 DEF ClearFailed, judged, Handling
<1>6. CASE Turn
  <2>1. attempt # 0
    BY <1>6 DEF Turn, Position
  <2>2. trajectory' \in [Questions -> Files]
    BY <1>6, <2>1, WriteType DEF Turn
  <2> QED  BY <1>6, <2>2 DEF Turn, judged, bounds, Files
<1>7. CASE EndAttempt
  <2>1. attempt # 0 /\ status' \in Ends
    BY <1>7 DEF EndAttempt, Position, Ends
  <2>2. trajectory' \in [Questions -> Files]
    BY <1>7, <2>1, WriteType DEF EndAttempt
  <2> QED  BY <1>7, <2>1, <2>2 DEF EndAttempt, judged, bounds, Files, Handling
<1>8. CASE SaveRun
  <2>1. attempt # 0 /\ status \in Ends
    BY <1>8 DEF SaveRun, Position
  <2>2. Write(status) \in Files /\ Write(status).status # "running"
    BY <2>1, WriteType DEF Ends
  <2>3. run' \in [Questions -> {f \in Files : f.status # "running"}]
    BY <1>8, <2>2 DEF SaveRun
  <2> QED  BY <1>8, <2>3 DEF SaveRun, judged, bounds, Files, Handling
<1>9. CASE CountAttempt
  <2>1. attempt # 0 /\ status \in Ends
    BY <1>9 DEF CountAttempt, Position
  <2>2. Write(status) \in Files /\ Write(status).status = status
    BY <2>1, WriteType
  <2>3. failed' \in [Questions -> {f \in Files : f.status \notin {"running", "completed"}}]
    BY <1>9, <2>1, <2>2, <1>0 DEF CountAttempt, Ends
  <2>4. summary' \in [completed : Nat, failed : Nat, skipped : Nat]
    BY <1>9 DEF CountAttempt
  <2> QED  BY <1>9, <2>3, <2>4 DEF CountAttempt, NextQuestion, judged, bounds, Files
<1>10. CASE WriteSummary
  BY <1>10 DEF WriteSummary, files, judged, bounds, Files
<1>11. CASE Killed
  BY <1>11 DEF Killed, files, judged, bounds, Files
<1>12. CASE Evaluate
  BY <1>12 DEF Evaluate, files, loop, Files
<1>13. CASE JudgeRun
  <2> PICK q \in judging : JudgeRun!(q)
    BY <1>13 DEF JudgeRun
  <2>1. run[q].attempt \in 0..attempt
    BY DEF Files, NoFile
  <2>2. judge_cache' \in [Questions -> 0..attempt]
    BY <2>1
  <2> QED  BY <2>2 DEF files, loop, bounds, Files
<1>14. CASE JudgeFails
  BY <1>14 DEF JudgeFails, files, loop, bounds, Files
<1>15. CASE UNCHANGED arexVars
  BY <1>15 DEF arexVars, files, loop, judged, bounds, Files
<1> QED
  BY <1>1, <1>2, <1>3, <1>4, <1>5, <1>6, <1>7, <1>8, <1>9, <1>10, <1>11, <1>12, <1>13, <1>14, <1>15
  DEF ArexNext

-----------------------------------------------------------------------------
(* Inv is inductive                                                         *)

\* Skipping, evaluating and stopping leave every file alone.
Resting == files' = files /\ attempt' = attempt /\ main' \notin Handling

LEMMA RestingKeepsFiles ==
  ASSUME Inv, Resting
  PROVE  Position' /\ BackupIsOlder' /\ FilesAreOfOneAttempt'
  BY DEF Inv, Resting, files, Position, BackupIsOlder, FilesAreOfOneAttempt, Handling, Exists

LEMMA FilesStep ==
  ASSUME Inv, [ArexNext]_arexVars
  PROVE  Position' /\ BackupIsOlder' /\ FilesAreOfOneAttempt'
<1> DEFINE Goal == Position' /\ BackupIsOlder' /\ FilesAreOfOneAttempt'
<1> USE DEF Inv, Types, ArexTypeOK
<1>0. NoFile.attempt = 0 /\ NoFile.status = "none"
  BY DEF NoFile
<1>1. CASE Invoke \/ SkipQuestion \/ WriteSummary \/ Killed
  <2>1. Resting
    BY <1>1 DEF Invoke, SkipQuestion, NextQuestion, WriteSummary, Killed, Resting, Handling
  <2> QED  BY <2>1, RestingKeepsFiles
<1>2. CASE Evaluate \/ JudgeRun \/ JudgeFails \/ UNCHANGED arexVars
  <2>1. UNCHANGED <<trajectory, run, failed, previous_run, main, index, attempt, status>>
    BY <1>2 DEF Evaluate, JudgeRun, JudgeFails, arexVars, files, loop
  <2> QED
    BY <2>1 DEF Position, BackupIsOlder, FilesAreOfOneAttempt, Handling, Exists, Write
<1>3. CASE ClearTrajectory
  BY <1>3, <1>0 DEF ClearTrajectory, Position, BackupIsOlder, FilesAreOfOneAttempt, Handling, Exists
<1>4. CASE ClearRun
  <2>1. /\ main = "clearRun" /\ main' = "clearFailed" /\ index \in Questions
        /\ trajectory[index] = NoFile /\ UNCHANGED <<trajectory, failed, index, attempt>>
        /\ run' = [run EXCEPT ![index] = NoFile]
        /\ \A q \in Questions : q # index => previous_run'[q] = previous_run[q]
    BY <1>4 DEF ClearRun, ClearedRun, Position, Handling
  <2>2. Position'
    BY <2>1 DEF Position, Handling
  <2> QED
    BY <2>1, <2>2, <1>0 DEF BackupIsOlder, FilesAreOfOneAttempt, Exists
<1>5. CASE ClearFailed
  <2>1. /\ main = "clearFailed" /\ main' = "running" /\ index \in Questions
        /\ trajectory[index] = NoFile /\ run[index] = NoFile
        /\ UNCHANGED <<trajectory, run, previous_run, index>>
        /\ failed' = [failed EXCEPT ![index] = NoFile] /\ attempt' = attempt + 1
    BY <1>5 DEF ClearFailed, Position, Handling
  <2>2. previous_run[index].attempt \in Nat /\ previous_run[index].attempt <= attempt
    BY <2>1, <1>0 DEF Files
  <2>3. Position'
    BY <2>1, <2>2 DEF Position, Handling
  <2> QED
    BY <2>1, <2>3 DEF BackupIsOlder, FilesAreOfOneAttempt, Exists
<1>6. CASE Turn \/ EndAttempt
  <2>1. PICK s \in Ends \cup {"running"} :
          /\ main = "running" /\ main' \in {"running", "saving"} /\ index \in Questions
          /\ run[index] = NoFile /\ failed[index] = NoFile /\ attempt > 0
          /\ previous_run[index].attempt < attempt
          /\ UNCHANGED <<run, failed, previous_run, index, attempt>>
          /\ trajectory' = [trajectory EXCEPT ![index] = Write(s)]
          /\ main' = "saving" => status' = s /\ s \in Ends
    BY <1>6 DEF Turn, EndAttempt, Position, Handling, Ends
  <2>2. Position'
    BY <2>1 DEF Position, Handling, Write
  <2> QED
    BY <2>1, <2>2 DEF BackupIsOlder, FilesAreOfOneAttempt, Exists
<1>7. CASE SaveRun
  <2>1. /\ main = "saving" /\ main' = "counting" /\ index \in Questions
        /\ failed[index] = NoFile /\ attempt > 0 /\ previous_run[index].attempt < attempt
        /\ status \in Ends /\ trajectory[index] = Write(status)
        /\ UNCHANGED <<trajectory, failed, previous_run, index, attempt, status>>
        /\ run' = [run EXCEPT ![index] = Write(status)]
    BY <1>7 DEF SaveRun, Position, Handling
  <2>2. Position'
    BY <2>1 DEF Position, Handling, Write
  <2>3. BackupIsOlder'
    BY <2>1 DEF BackupIsOlder, Exists, Write
  <2> QED
    BY <2>1, <2>2, <2>3 DEF FilesAreOfOneAttempt, Exists
<1>8. CASE CountAttempt
  <2>1. /\ main = "counting" /\ main' \in {"idle", "next"} /\ index \in Questions
        /\ run[index] = Write(status)
        /\ UNCHANGED <<trajectory, run, previous_run>>
        /\ \E f \in {NoFile, Write(status)} : failed' = [failed EXCEPT ![index] = f]
    BY <1>8 DEF CountAttempt, NextQuestion, Position, Handling
  <2>2. Position'
    BY <2>1 DEF Position, Handling
  <2> QED
    BY <2>1, <2>2 DEF BackupIsOlder, FilesAreOfOneAttempt, Exists
<1> QED
  BY <1>1, <1>2, <1>3, <1>4, <1>5, <1>6, <1>7, <1>8 DEF ArexNext

LEMMA InvAlways == ArexSpec => []Inv
<1>1. Inv /\ [ArexNext]_arexVars => Inv'
  BY TypesStep, FilesStep DEF Inv
<1> QED
  BY <1>1, InitInv, PTL DEF ArexSpec

-----------------------------------------------------------------------------
(* The properties                                                           *)

\* Every file is of an attempt that was made, and only a trajectory says
\* that it is not finished.
THEOREM ArexTypeCorrect == ArexSpec => []ArexTypeOK
<1>1. Inv => ArexTypeOK
  BY DEF Inv, Types
<1> QED
  BY <1>1, InvAlways, PTL

\* The trajectory, the run and the failure file of a question never
\* contradict each other, wherever main was killed.
THEOREM FilesAgree == ArexSpec => []FilesAreOfOneAttempt
<1>1. Inv => FilesAreOfOneAttempt
  BY DEF Inv
<1> QED
  BY <1>1, InvAlways, PTL

\* Only --overwrite runs a completed question again.
THEOREM CompletedStays == ArexSpec => CompletedIsKept
<1>1. ASSUME Inv, [ArexNext]_arexVars, NEW q \in Questions, IsCompleted(q), ~IsCompleted(q)'
      PROVE  options.overwrite
  <2> USE <1>1 DEF Inv, Types, ArexTypeOK, IsCompleted
  <2>1. trajectory[q].status = "completed" /\ run[q] # NoFile /\ NoFile.status = "none"
    BY DEF Exists, NoFile
  <2>2. ~(UNCHANGED <<trajectory, run>>)
    BY DEF Exists
  <2>3. CASE ClearTrajectory
    BY <2>2, <2>3 DEF ClearTrajectory, Skips
  <2>4. CASE ClearRun \/ Turn \/ EndAttempt \/ SaveRun
    <3>1. index \in Questions /\ ~IsCompleted(index)
      BY <2>1, <2>4 DEF ClearRun, Turn, EndAttempt, SaveRun, Position, Handling, Exists
    <3>2. trajectory'[q] = trajectory[q] /\ run'[q] = run[q]
      BY <3>1, <2>4 DEF ClearRun, Turn, EndAttempt, SaveRun
    <3> QED
      BY <3>2 DEF Exists
  <2> QED
    BY <2>2, <2>3, <2>4
       DEF ArexNext, Invoke, SkipQuestion, ClearFailed, CountAttempt, WriteSummary, Killed,
           Evaluate, JudgeRun, JudgeFails, arexVars, files
<1>2. Inv /\ [ArexNext]_arexVars =>
        [\A q \in Questions : IsCompleted(q) /\ ~IsCompleted(q)' => options.overwrite]_arexVars
  BY <1>1
<1> QED
  BY <1>2, InvAlways, PTL DEF ArexSpec, CompletedIsKept

\* A retry that is killed, and retried, still leaves the latest run of a
\* question in its run file or in the backup.
THEOREM LatestRunStays == ArexSpec => LatestRunIsKept
<1>1. ASSUME Inv, [ArexNext]_arexVars, ~options.overwrite, NEW q \in Questions
      PROVE  LatestRun(q) <= LatestRun(q)'
  <2> USE <1>1 DEF Inv, Types, ArexTypeOK
  <2>1. /\ run[q].attempt \in Nat /\ previous_run[q].attempt \in Nat
        /\ run[q].attempt <= attempt /\ NoFile.attempt = 0
    BY DEF Files, NoFile
  <2>2. CASE UNCHANGED <<run, previous_run>>
    BY <2>1, <2>2 DEF LatestRun
  <2>3. CASE ClearRun
    <3>1. CASE q = index
      <4>1. /\ run'[q] = NoFile
            /\ previous_run'[q] = IF run[q] # NoFile THEN run[q] ELSE previous_run[q]
        BY <2>3, <3>1 DEF ClearRun, ClearedRun, Backup, Exists
      <4>2. run[q] # NoFile => previous_run[q].attempt < run[q].attempt
        BY DEF BackupIsOlder, Exists
      <4> QED
        BY <4>1, <4>2, <2>1 DEF LatestRun
    <3>2. CASE q # index
      <4>1. run'[q] = run[q] /\ previous_run'[q] = previous_run[q]
        BY <2>3, <3>2 DEF ClearRun
      <4> QED
        BY <4>1, <2>1 DEF LatestRun
    <3> QED
      BY <3>1, <3>2
  <2>4. CASE SaveRun
    <3>1. previous_run' = previous_run /\ (run'[q] = run[q] \/ run'[q].attempt = attempt)
      BY <2>4 DEF SaveRun, Write
    <3>2. previous_run'[q].attempt = previous_run[q].attempt
      BY <3>1
    <3>3. run'[q].attempt \in Nat /\ run[q].attempt <= run'[q].attempt
      BY <3>1, <2>1
    <3> QED
      BY <3>2, <3>3, <2>1 DEF LatestRun
  <2> QED
    BY <2>2, <2>3, <2>4
       DEF ArexNext, Invoke, SkipQuestion, ClearTrajectory, ClearFailed, Turn, EndAttempt,
           CountAttempt, WriteSummary, Killed, Evaluate, JudgeRun, JudgeFails, arexVars, files
<1>2. Inv /\ [ArexNext]_arexVars =>
        [~options.overwrite => \A q \in Questions : LatestRun(q) <= LatestRun(q)']_arexVars
  BY <1>1
<1> QED
  BY <1>2, InvAlways, PTL DEF ArexSpec, LatestRunIsKept

-----------------------------------------------------------------------------
(* Progress: what an invocation leaves behind it                            *)

\* A question that is skipped while failures are retried is a completed one,
\* and its files are in order.
LEMMA SkippedIsHandled ==
  ASSUME Inv, NEW q \in Questions, Skips(q), options.retry_failed \/ options.overwrite
  PROVE  Handled(q)
<1>1. trajectory[q].status = "completed" /\ Exists(run[q]) /\ IsCompleted(q)
  BY DEF Skips, IsCompleted
<1>2. Exists(trajectory[q])
  BY <1>1 DEF Exists, NoFile
<1>3. run[q] = trajectory[q]
  BY <1>1, <1>2 DEF Inv, FilesAreOfOneAttempt
<1>4. failed[q] # run[q]
  BY <1>1, <1>3 DEF Inv, Types, ArexTypeOK
<1>5. failed[q] = NoFile
  BY <1>1, <1>4 DEF Inv, FilesAreOfOneAttempt, Exists
<1> QED
  BY <1>1, <1>3, <1>5 DEF Handled

\* Steps that do not touch a question leave it handled.
LEMMA HandledStays ==
  ASSUME NEW q \in Questions, Handled(q),
         trajectory'[q] = trajectory[q], run'[q] = run[q], failed'[q] = failed[q]
  PROVE  Handled(q)'
  BY DEF Handled, IsCompleted, Exists

LEMMA ProgressStep == ASSUME Inv, Progress, [ArexNext]_arexVars PROVE Progress'
<1> USE DEF Inv, Types, Progress
<1>s. Selected \in Nat /\ Questions = 1..Selected
  BY ArexAssumption DEF Questions
<1>1. CASE Invoke
  <2>1. index' = 1 /\ main' = "next" /\ summary'.completed + summary'.failed + summary'.skipped = 0
    BY <1>1 DEF Invoke
  <2> QED  BY <2>1, <1>s
<1>2. CASE SkipQuestion
  <2>1. /\ main = "next" /\ main' = "next" /\ index \in Questions /\ Skips(index)
        /\ index' = index + 1 /\ UNCHANGED <<trajectory, run, failed, options>>
    BY <1>2 DEF SkipQuestion, NextQuestion, files
  <2>2. /\ summary'.completed = summary.completed /\ summary'.failed = summary.failed
        /\ summary'.skipped = summary.skipped + 1
        /\ summary.completed \in Nat /\ summary.failed \in Nat /\ summary.skipped \in Nat
        /\ summary.completed + summary.failed + summary.skipped = index - 1
    BY <1>2 DEF SkipQuestion
  <2>3. ASSUME options.retry_failed \/ options.overwrite, NEW q \in Questions, q < index'
        PROVE  Handled(q)'
    <3>1. q < index \/ q = index
      BY <2>1, <2>3, <1>s
    <3>2. Handled(q)
      BY <3>1, <2>1, <2>3, SkippedIsHandled
    <3> QED  BY <3>2, <2>1, HandledStays
  <2>4. index' - 1 = (index - 1) + 1 /\ index' <= Selected + 1
    BY <2>1, <1>s
  <2>5. summary'.completed + summary'.failed + summary'.skipped = index' - 1
    BY <2>2, <2>4, <1>s
  <2> QED  BY <2>1, <2>3, <2>4, <2>5 DEF Handling
<1>3. CASE ClearTrajectory \/ ClearRun \/ ClearFailed \/ Turn \/ EndAttempt \/ SaveRun
  <2>1. /\ index' = index /\ options' = options /\ summary' = summary
        /\ main' \in Handling /\ main \in {"next"} \cup Handling
    BY <1>3 DEF ClearTrajectory, ClearRun, ClearFailed, Turn, EndAttempt, SaveRun, Handling
  <2>2. ASSUME NEW q \in Questions, q < index, Handled(q)
        PROVE  Handled(q)'
    <3>1. /\ trajectory'[q] = trajectory[q] /\ run'[q] = run[q] /\ failed'[q] = failed[q]
      <4>1. q # index /\ index \in Nat
        BY <2>2, <1>s
      <4>2. CASE ClearTrajectory \/ ClearRun \/ ClearFailed
        BY <4>1, <4>2 DEF ClearTrajectory, ClearRun, ClearFailed, ArexTypeOK
      <4>3. CASE Turn
        BY <4>1, <4>3 DEF Turn, ArexTypeOK
      <4>4. CASE EndAttempt
        BY <4>1, <4>4 DEF EndAttempt, ArexTypeOK
      <4>5. CASE SaveRun
        BY <4>1, <4>5 DEF SaveRun, ArexTypeOK
      <4> QED  BY <1>3, <4>2, <4>3, <4>4, <4>5
    <3> QED  BY <2>2, <3>1, HandledStays
  <2> QED  BY <2>1, <2>2 DEF Handling
<1>4. CASE CountAttempt
  <2>1. /\ main = "counting" /\ index \in Questions /\ options' = options
        /\ UNCHANGED <<trajectory, run>> /\ run[index] = Write(status)
        /\ trajectory[index] = Write(status) /\ status \in Ends /\ failed[index] = NoFile
        /\ attempt > 0
    BY <1>4 DEF CountAttempt, Position, Handling
  <2>2. CASE main' = "idle"
    BY <2>2 DEF Handling
  <2>3. CASE main' # "idle"
    <3>1. main' = "next" /\ index' = index + 1 /\ index' <= Selected + 1
      BY <1>4, <2>1, <2>3, <1>s DEF CountAttempt, NextQuestion
    <3>2. summary'.completed + summary'.failed + summary'.skipped
             = summary.completed + summary.failed + summary.skipped + 1
      BY <1>4 DEF CountAttempt
    <3>3. ASSUME NEW q \in Questions, q = index
          PROVE  Handled(q)'
      <4>1. Exists(run[q]) /\ (IsCompleted(q) <=> status = "completed")
        BY <2>1, <3>3 DEF Exists, NoFile, Write, IsCompleted
      <4>2. failed'[q] = IF status = "completed" THEN NoFile ELSE Write(status)
        BY <1>4, <2>1, <3>3 DEF CountAttempt, ArexTypeOK
      <4> QED  BY <2>1, <3>3, <4>1, <4>2 DEF Handled, IsCompleted, Exists
    <3>4. ASSUME NEW q \in Questions, q < index, Handled(q)
          PROVE  Handled(q)'
      <4>1. failed'[q] = failed[q]
        BY <1>4, <3>4 DEF CountAttempt, ArexTypeOK
      <4> QED  BY <2>1, <3>4, <4>1, HandledStays
    <3>5. summary'.completed + summary'.failed + summary'.skipped = index' - 1
      BY <3>1, <3>2, <2>1, <1>s DEF Handling
    <3>6. ASSUME options.retry_failed \/ options.overwrite, NEW q \in Questions, q < index'
          PROVE  Handled(q)'
      <4>1. q < index \/ q = index
        BY <3>1, <3>6, <1>s
      <4>2. q < index => Handled(q)
        BY <3>6, <2>1 DEF Handling
      <4> QED  BY <4>1, <4>2, <3>3, <3>4
    <3> QED  BY <2>1, <3>1, <3>5, <3>6 DEF Handling
  <2> QED  BY <2>2, <2>3
<1>5. CASE WriteSummary
  BY <1>5, <1>s DEF WriteSummary, files, Handling, Handled, IsCompleted, Exists
<1>6. CASE Killed
  BY <1>6 DEF Killed, Handling
<1>7. CASE Evaluate \/ JudgeRun \/ JudgeFails \/ UNCHANGED arexVars
  BY <1>7 DEF Evaluate, JudgeRun, JudgeFails, arexVars, files, loop, Handling, Handled, IsCompleted, Exists
<1> QED
  BY <1>1, <1>2, <1>3, <1>4, <1>5, <1>6, <1>7 DEF ArexNext

\* An invocation that retries or overwrites and reaches its summary has a
\* finished attempt of every question, and its counts add up.
THEOREM SummaryIsComplete == ArexSpec => []RetriesLeaveNoGaps
<1>1. ArexInit => Progress
  BY DEF ArexInit, Progress, Handling
<1>2. Inv /\ Progress /\ [ArexNext]_arexVars => Progress'
  BY ProgressStep
<1>3. Inv /\ Progress => RetriesLeaveNoGaps
  BY ArexAssumption DEF Inv, Types, Progress, RetriesLeaveNoGaps, Handled, Questions
<1> QED
  BY <1>1, <1>2, <1>3, InvAlways, PTL DEF ArexSpec

=============================================================================
