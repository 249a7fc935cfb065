---------------------------- MODULE BenchmarkRun ----------------------------
(***************************************************************************)
(* scripts/experiment1_pipeline/run_benchmark.py: one SQLite store, one     *)
(* trajectory and one run file per question, written one after the other    *)
(* and not atomically; the program may be killed at any point and is        *)
(* started again with the same command, which skips the questions whose     *)
(* store exists.  The store's own start is the two commits of               *)
(* ESREnvironment.__init__.                                                 *)
(***************************************************************************)
EXTENDS Naturals

CONSTANTS
  Selected,    \* number of questions of the split within --limit
  MaxStarts    \* bound on the starts of the program

VARIABLES
  database,         \* what each question's store holds
  trajectory_file, run_file,
  main,             \* where main is
  index,            \* the question it is at
  submitted,        \* result["submitted"]
  starts

disk          == <<database, trajectory_file, run_file>>
benchmarkVars == <<disk, main, index, submitted, starts>>

Questions == 1..Selected

BenchmarkInit ==
  /\ database = [q \in Questions |-> "none"]
  /\ trajectory_file = [q \in Questions |-> "none"]
  /\ run_file = [q \in Questions |-> "none"]
  /\ main = "killed" /\ index = 1 /\ submitted = FALSE
  /\ starts = 0

StartProgram ==
  /\ main \in {"killed", "ended"}
  /\ starts < MaxStarts
  /\ starts' = starts + 1
  /\ main' = "next" /\ index' = 1
  /\ UNCHANGED <<disk, submitted>>

SkipExisting ==
  /\ main = "next" /\ index \in Questions
  /\ database[index] # "none"
  /\ index' = index + 1
  /\ UNCHANGED <<disk, main, submitted, starts>>

\* EpisodeStore creates the file and its schema
CreateStore ==
  /\ main = "next" /\ index \in Questions
  /\ database[index] = "none"
  /\ database' = [database EXCEPT ![index] = "schema"]
  /\ main' = "identifying"
  /\ UNCHANGED <<trajectory_file, run_file, index, submitted, starts>>

\* set_metadata_once commits by itself: first episode_id, then question
SetEpisodeId ==
  /\ main = "identifying"
  /\ database' = [database EXCEPT ![index] = "episode_id"]
  /\ main' = "asking"
  /\ UNCHANGED <<trajectory_file, run_file, index, submitted, starts>>

SetQuestion ==
  /\ main = "asking"
  /\ database' = [database EXCEPT ![index] = "open"]
  /\ main' = "running"
  /\ UNCHANGED <<trajectory_file, run_file, index, submitted, starts>>

\* AgentRunner.run ends with or without a submit
RunEpisode ==
  /\ main = "running"
  /\ submitted' \in BOOLEAN
  /\ database' = [database EXCEPT ![index] = IF submitted' THEN "submitted" ELSE "open"]
  /\ main' = "writingTrajectory"
  /\ UNCHANGED <<trajectory_file, run_file, index, starts>>

\* write_text truncates the file and writes it
WriteTrajectory ==
  /\ main = "writingTrajectory"
  /\ \/ /\ trajectory_file[index] = "none"
        /\ trajectory_file' = [trajectory_file EXCEPT ![index] = "truncated"]
        /\ UNCHANGED main
     \/ /\ trajectory_file[index] = "truncated"
        /\ trajectory_file' = [trajectory_file EXCEPT ![index] = "written"]
        /\ main' = "writingRun"
  /\ UNCHANGED <<database, run_file, index, submitted, starts>>

RunStatus == IF submitted THEN "completed" ELSE "incomplete"

WriteRun ==
  /\ main = "writingRun"
  /\ \/ /\ run_file[index] = "none"
        /\ run_file' = [run_file EXCEPT ![index] = "truncated"]
        /\ UNCHANGED <<main, index>>
     \/ /\ run_file[index] = "truncated"
        /\ run_file' = [run_file EXCEPT ![index] = RunStatus]
        /\ main' = "next" /\ index' = index + 1
  /\ UNCHANGED <<database, trajectory_file, submitted, starts>>

EndProgram ==
  /\ main = "next" /\ index > Selected
  /\ main' = "ended"
  /\ UNCHANGED <<disk, index, submitted, starts>>

\* killed, or an exception of the policy, the store or a file
Kill ==
  /\ main \notin {"killed", "ended"}
  /\ main' = "killed"
  /\ UNCHANGED <<disk, index, submitted, starts>>

BenchmarkNext ==
  \/ StartProgram \/ SkipExisting \/ CreateStore \/ SetEpisodeId \/ SetQuestion
  \/ RunEpisode \/ WriteTrajectory \/ WriteRun \/ EndProgram \/ Kill

BenchmarkSpec == BenchmarkInit /\ [][BenchmarkNext]_benchmarkVars

-----------------------------------------------------------------------------
(* Properties                                                               *)

\* README.md:287 and docs/实验执行手册.md:362: after an interruption the same
\* command goes on where it stopped, so once an invocation ends every question
\* has its run file.  A question that was interrupted is skipped for good.
RerunFinishesTheRest ==
  main = "ended" => \A q \in Questions : run_file[q] \in {"completed", "incomplete"}

=============================================================================
