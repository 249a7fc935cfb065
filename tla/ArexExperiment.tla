--------------------------- MODULE ArexExperiment ---------------------------
(***************************************************************************)
(* The AREX experiment of exper/arex_bcplus_native: run_arex_bcplus.py runs *)
(* the selected questions one by one and keeps a trajectory, a run and a    *)
(* failure file for each; an invocation may be killed between any two       *)
(* writes and is started again with other options; evaluate.py judges the   *)
(* runs and caches its verdicts.  Each file is written atomically           *)
(* (io_utils.atomic_write_json), so a file is the record of one attempt.    *)
(***************************************************************************)
EXTENDS Naturals, FiniteSets

CONSTANTS
  Selected,        \* number of questions select_examples returns
  MaxTurns,        \* max_turns of the runner
  MaxInvocations,  \* bound on the starts of run_arex_bcplus.py
  MaxEvaluations   \* bound on the starts of evaluate.py

ASSUME ArexAssumption == {Selected, MaxTurns, MaxInvocations, MaxEvaluations} \subseteq Nat

VARIABLES
  trajectory, run, failed,  \* the files of each question
  previous_run,             \* the backup of its run file
  main,                     \* where run_arex_bcplus.main is
  index,                    \* the question it is at
  options,                  \* of this invocation
  attempt,                  \* the attempts so far, over all questions
  turns,                    \* turns of the current attempt
  status,                   \* how it ended
  summary,                  \* counts of this invocation
  judge_cache,              \* the attempt each cached verdict is about
  evaluation,               \* rows of the evaluation: the attempt and the one judged
  judging,                  \* questions evaluate.main has still to look at
  fresh,                    \* its --overwrite-cache
  invocations, evaluations

files    == <<trajectory, run, failed, previous_run>>
loop     == <<main, index, options, attempt, turns, status, summary>>
judged   == <<judge_cache, evaluation, judging, fresh>>
bounds   == <<invocations, evaluations>>
arexVars == <<files, loop, judged, bounds>>

Questions == 1..Selected
NoFile    == [attempt |-> 0, status |-> "none"]
Options   == [retry_failed : BOOLEAN, overwrite : BOOLEAN, fail_fast : BOOLEAN]

Exists(file) == file # NoFile

\* defective: the record is built before its status is set
WriteUnfinished(status_) == [attempt |-> attempt, status |-> "running"]

Write(status_) == [attempt |-> attempt, status |-> status_]

\* defective: the run file is not looked for
TrajectoryIsCompleted(q) == trajectory[q].status = "completed"

IsCompleted(q) == trajectory[q].status = "completed" /\ Exists(run[q])

-----------------------------------------------------------------------------
(* run_arex_bcplus.main                                                     *)

Invoke ==
  /\ main \in {"idle", "ended"} /\ judging = {}
  /\ invocations < MaxInvocations
  /\ invocations' = invocations + 1
  /\ options' \in Options
  /\ main' = "next" /\ index' = 1
  /\ summary' = [completed |-> 0, failed |-> 0, skipped |-> 0]
  /\ UNCHANGED <<files, attempt, turns, status, judged, evaluations>>

NextQuestion == main' = "next" /\ index' = index + 1

\* defective: --retry-failed also runs what was completed
SkipsUnlessRetried(q) == ~options.overwrite /\ Exists(trajectory[q]) /\ ~options.retry_failed

\* a question is skipped when it is completed, and when it was started and
\* failures are not retried
Skips(q) ==
  /\ ~options.overwrite
  /\ IsCompleted(q) \/ (Exists(trajectory[q]) /\ ~options.retry_failed)

SkipQuestion ==
  /\ main = "next" /\ index \in Questions
  /\ Skips(index)
  /\ summary' = [summary EXCEPT !.skipped = @ + 1]
  /\ NextQuestion
  /\ UNCHANGED <<files, options, attempt, turns, status, judged, bounds>>

\* otherwise its files are set aside (with --overwrite removed), one by one
ClearTrajectory ==
  /\ main = "next" /\ index \in Questions
  /\ ~Skips(index)
  /\ trajectory' = [trajectory EXCEPT ![index] = NoFile]
  /\ main' = "clearRun"
  /\ UNCHANGED <<run, failed, previous_run, index, options, attempt, turns, status, summary, judged, bounds>>

\* defective: the backup is removed although there is nothing to set aside
BackupAlways(q) == run[q]

\* defective: the run of an earlier attempt stays
KeptRun(q) == run[q]

Backup(q)     == IF Exists(run[q]) THEN run[q] ELSE previous_run[q]
ClearedRun(q) == NoFile

ClearRun ==
  /\ main = "clearRun"
  /\ run' = [run EXCEPT ![index] = ClearedRun(index)]
  /\ previous_run' = IF options.overwrite THEN previous_run
                     ELSE [previous_run EXCEPT ![index] = Backup(index)]
  /\ main' = "clearFailed"
  /\ UNCHANGED <<trajectory, failed, index, options, attempt, turns, status, summary, judged, bounds>>

ClearFailed ==
  /\ main = "clearFailed"
  /\ failed' = [failed EXCEPT ![index] = NoFile]
  /\ main' = "running"
  /\ attempt' = attempt + 1 /\ turns' = 0 /\ status' = "running"
  /\ UNCHANGED <<trajectory, run, previous_run, index, options, summary, judged, bounds>>

\* AREXRunner.run: a turn that does not finish is checkpointed
Turn ==
  /\ main = "running" /\ turns < MaxTurns
  /\ turns' = turns + 1
  /\ trajectory' = [trajectory EXCEPT ![index] = Write("running")]
  /\ UNCHANGED <<run, failed, previous_run, main, index, options, attempt, status, summary, judged, bounds>>

\* finish, an exception in a turn or the last turn end the attempt
EndAttempt ==
  /\ main = "running"
  /\ status' \in IF turns = MaxTurns THEN {"max_turns"} ELSE {"completed", "failed"}
  /\ trajectory' = [trajectory EXCEPT ![index] = Write(status')]
  /\ main' = "saving"
  /\ UNCHANGED <<run, failed, previous_run, index, options, attempt, turns, summary, judged, bounds>>

SaveRun ==
  /\ main = "saving"
  /\ run' = [run EXCEPT ![index] = Write(status)]
  /\ main' = "counting"
  /\ UNCHANGED <<trajectory, failed, previous_run, index, options, attempt, turns, status, summary, judged, bounds>>

\* fail_fast leaves before the next question and without a summary
CountAttempt ==
  /\ main = "counting"
  /\ IF status = "completed"
     THEN /\ failed' = [failed EXCEPT ![index] = NoFile]
          /\ summary' = [summary EXCEPT !.completed = @ + 1]
     ELSE /\ failed' = [failed EXCEPT ![index] = Write(status)]
          /\ summary' = [summary EXCEPT !.failed = @ + 1]
  /\ IF options.fail_fast /\ status # "completed"
     THEN main' = "idle" /\ UNCHANGED index
     ELSE NextQuestion
  /\ UNCHANGED <<trajectory, run, previous_run, options, attempt, turns, status, judged, bounds>>

WriteSummary ==
  /\ main = "next" /\ index > Selected
  /\ main' = "ended"
  /\ UNCHANGED <<files, index, options, attempt, turns, status, summary, judged, bounds>>

\* killed, interrupted, or an exception outside a turn
Killed ==
  /\ main \notin {"idle", "ended"}
  /\ main' = "idle"
  /\ UNCHANGED <<files, index, options, attempt, turns, status, summary, judged, bounds>>

-----------------------------------------------------------------------------
(* evaluate.main                                                            *)

Evaluate ==
  /\ main \in {"idle", "ended"} /\ judging = {}
  /\ evaluations < MaxEvaluations
  /\ evaluations' = evaluations + 1
  /\ fresh' \in BOOLEAN
  /\ judging' = {q \in Questions : Exists(run[q])}
  /\ evaluation' = [q \in Questions |-> [attempt |-> 0, judged |-> 0]]
  /\ UNCHANGED <<files, loop, judge_cache, invocations>>

UsesCache(q) == judge_cache[q] # 0 /\ ~fresh

JudgeRun ==
  \E q \in judging :
    /\ \A p \in judging : q <= p
    /\ LET verdict == IF UsesCache(q) THEN judge_cache[q] ELSE run[q].attempt
       IN  /\ judge_cache' = [judge_cache EXCEPT ![q] = verdict]
           /\ evaluation' = [evaluation EXCEPT ![q] = [attempt |-> run[q].attempt, judged |-> verdict]]
    /\ judging' = judging \ {q}
    /\ UNCHANGED <<files, loop, fresh, bounds>>

\* the judge does not answer: no evaluation, the cache stays
JudgeFails ==
  /\ judging # {}
  /\ judging' = {}
  /\ evaluation' = [q \in Questions |-> [attempt |-> 0, judged |-> 0]]
  /\ UNCHANGED <<files, loop, judge_cache, fresh, bounds>>

-----------------------------------------------------------------------------
ArexInit ==
  /\ trajectory = [q \in Questions |-> NoFile] /\ run = trajectory
  /\ failed = trajectory /\ previous_run = trajectory
  /\ main = "idle" /\ index = 1 /\ attempt = 0 /\ turns = 0 /\ status = "none"
  /\ options = [retry_failed |-> FALSE, overwrite |-> FALSE, fail_fast |-> FALSE]
  /\ summary = [completed |-> 0, failed |-> 0, skipped |-> 0]
  /\ judge_cache = [q \in Questions |-> 0] /\ judging = {} /\ fresh = FALSE
  /\ evaluation = [q \in Questions |-> [attempt |-> 0, judged |-> 0]]
  /\ invocations = 0 /\ evaluations = 0

ArexNext ==
  \/ Invoke \/ SkipQuestion \/ ClearTrajectory \/ ClearRun \/ ClearFailed
  \/ Turn \/ EndAttempt \/ SaveRun \/ CountAttempt \/ WriteSummary \/ Killed
  \/ Evaluate \/ JudgeRun \/ JudgeFails

ArexSpec == ArexInit /\ [][ArexNext]_arexVars

-----------------------------------------------------------------------------
(* Properties                                                               *)

Files == [attempt : 1..attempt, status : {"running", "completed", "failed", "max_turns"}] \cup {NoFile}

\* The types of the files: only a trajectory may say "running", and every
\* file is of an attempt that was made.
ArexTypeOK ==
  /\ trajectory \in [Questions -> Files]
  /\ {run, previous_run} \subseteq [Questions -> {f \in Files : f.status # "running"}]
  /\ failed \in [Questions -> {f \in Files : f.status \notin {"running", "completed"}}]
  /\ judge_cache \in [Questions -> 0..attempt]

\* Whatever was killed where, the files that stand beside each other for one
\* question are of one attempt and agree on how it ended: no stale run or
\* failure file beside a newer trajectory (run_arex_bcplus.py:87-112).
FilesAreOfOneAttempt ==
  \A q \in Questions :
    /\ Exists(run[q]) /\ Exists(trajectory[q]) => run[q] = trajectory[q]
    /\ Exists(run[q]) /\ Exists(failed[q]) => run[q] = failed[q]

\* A question that was completed stays completed until it is run again with
\* --overwrite (README.md:56 of the experiment), whatever else is retried or
\* killed.
CompletedIsKept ==
  [][\A q \in Questions : IsCompleted(q) /\ ~IsCompleted(q)' => options.overwrite]_arexVars

LatestRun(q) == IF run[q].attempt > previous_run[q].attempt THEN run[q].attempt ELSE previous_run[q].attempt

\* Retrying never loses a result: without --overwrite the latest run of a
\* question is its run file or the backup of it, also when the retry is killed
\* and retried itself (run_arex_bcplus.py:106-112).
LatestRunIsKept ==
  [][~options.overwrite => \A q \in Questions : LatestRun(q) <= LatestRun(q)']_arexVars

\* An invocation that retries failures, or overwrites, and reaches its summary
\* leaves no question half done: each has the trajectory and the run of one
\* finished attempt, and a failure file exactly if it did not complete.
RetriesLeaveNoGaps ==
  main = "ended" /\ (options.retry_failed \/ options.overwrite) =>
    /\ summary.completed + summary.failed + summary.skipped = Selected
    /\ \A q \in Questions :
         /\ Exists(run[q]) /\ run[q] = trajectory[q]
         /\ failed[q] = IF IsCompleted(q) THEN NoFile ELSE run[q]

\* evaluate.py evaluates the runs: the verdict in a row is about the run the
\* row describes.  After a retry it is the cached verdict on the attempt that
\* failed.
VerdictsAreOfTheirRuns ==
  \A q \in Questions : evaluation[q].judged = evaluation[q].attempt

=============================================================================
