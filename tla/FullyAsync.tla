----------------------------- MODULE FullyAsync -----------------------------
(***************************************************************************)
(* Fully asynchronous training                                              *)
(* (src/ECHO/verl/experimental/fully_async_policy): a rollouter generates   *)
(* samples and puts them on a bounded MessageQueue, a trainer takes them in *)
(* batches and pushes new weights to the rollouter's servers.  The          *)
(* rollouter is one asyncio event loop: the feeder, the processor, one task *)
(* per sample and the trainer's remote calls interleave at their awaits and *)
(* share one lock, which asyncio grants in the order in which it was asked  *)
(* for.  The monitor has no action: MonitorNeverResumes says why.           *)
(***************************************************************************)
EXTENDS Naturals, FiniteSets, SequencesExt

CONSTANTS
  TotalRolloutSteps,  \* samples a training run generates
  RequiredSamples,    \* samples of one training step
  TriggerSteps,       \* trigger_parameter_sync_step
  ExcessSamples,      \* what staleness_threshold adds to a synchronisation period
  MaxConcurrent,      \* max_concurrent_samples
  PendingSize,        \* maxsize of pending_queue
  SaveFreq,           \* save_freq; 0 stands for every value that is not positive
  MaxCancelled,       \* bound on generations that are cancelled
  MaxFailures,        \* bound on generations that raise
  MaxCrashes          \* bound on restarts of the job

ASSUME AsyncAssumption ==
  /\ {TotalRolloutSteps, RequiredSamples, TriggerSteps, MaxConcurrent, PendingSize} \subseteq Nat \ {0}
  /\ {ExcessSamples, SaveFreq, MaxCancelled, MaxFailures, MaxCrashes} \subseteq Nat

PeriodSamples      == RequiredSamples * TriggerSteps
MaxRequiredSamples == PeriodSamples + ExcessSamples
MaxQueueSize       == MaxRequiredSamples

VARIABLES
  \* FullyAsyncRollouter
  loaded,             \* samples drawn from the data loader
  global_steps,       \* the feeder's step
  pending_queue,      \* samples fed and not taken, then End
  feeder,             \* where _feed_samples is
  held,               \* the sample the processor took and has not started
  active_tasks,       \* task objects, the finished ones until they are awaited
  staleness_samples,
  paused,
  param_sync_paused,
  lock,               \* the coroutine that has the lock, then those that wait for it
  processor,          \* where _processor_worker is
  raised,             \* it raised
  rollout_version,    \* version of the servers' weights
  \* MessageQueue
  queue,
  dropped_samples,
  \* FullyAsyncTrainer
  trainer,            \* where fit is
  batch,              \* samples taken for the next step
  stopping,           \* the end signal was received
  local_trigger_step,
  current_param_version,
  trained,            \* samples the weights were trained on
  checkpoint,         \* the latest complete one
  \* the job
  outcome, cancelled, failures, crashes

feeding   == <<loaded, global_steps, pending_queue, feeder>>
tasks     == <<held, active_tasks, staleness_samples>>
flags     == <<paused, param_sync_paused>>
messages  == <<queue, dropped_samples>>
training  == <<trainer, batch, stopping, local_trigger_step, current_param_version, trained, checkpoint>>
job       == <<outcome, cancelled, failures, crashes>>
asyncVars == <<feeding, tasks, flags, lock, processor, raised, rollout_version, messages, training, job>>

End == 0

Generating == {t \in active_tasks : t.status = "generating"}
Finished   == active_tasks \ Generating

Running == outcome = "running"

-----------------------------------------------------------------------------
(* The event loop and its lock.  A coroutine that runs is not interrupted   *)
(* before it awaits; one that asks for the lock while it is taken waits     *)
(* behind the others.                                                       *)

Coroutines == {"processor", "trainer"}

WantsLock(c) ==
  CASE c = "processor" -> processor \in {"pausing", "draining", "parking", "unparking", "ending",
                                         "limiting", "creating", "releasing", "finishing"}
    [] c = "trainer"   -> trainer \in {"syncing", "draining", "resetting"}

\* reached without an await; the other places that want the lock begin when
\* the coroutine is woken or the remote call arrives
Executing(c) ==
  /\ c \notin ToSet(lock)
  /\ CASE c = "processor" -> processor = "loop" \/ (WantsLock(c) /\ processor \notin {"unparking", "releasing"})
       [] c = "trainer"   -> trainer = "draining"

LoopIsFreeFor(c) == Running /\ \A d \in Coroutines \ {c} : ~Executing(d)

WaitForLock(c) ==
  /\ LoopIsFreeFor(c)
  /\ WantsLock(c)
  /\ lock # <<>> /\ c \notin ToSet(lock)
  /\ lock' = Append(lock, c)
  /\ UNCHANGED <<feeding, tasks, flags, processor, raised, rollout_version, messages, training, job>>

Acquires(c)  == LoopIsFreeFor(c) /\ (lock # <<>> => Head(lock) = c)
KeepsLock(c) == lock' = IF lock = <<>> THEN <<c>> ELSE lock
Releases     == lock' = IF lock = <<>> THEN lock ELSE Tail(lock)

\* defective: only the processor that waits for the pause to end is notified
NotifyParked == IF processor = "parked" THEN "unparking" ELSE processor

\* condition.notify_all: who waits for paused to be reset will ask for the lock
Notified ==
  CASE processor = "parked"  -> "unparking"
    [] processor = "holding" -> "releasing"
    [] OTHER                 -> processor

-----------------------------------------------------------------------------
(* MessageQueue                                                             *)

\* a full queue loses its oldest sample
PutSample(s) ==
  IF Len(queue) >= MaxQueueSize
  THEN /\ queue' = Append(Tail(queue), s)
       /\ dropped_samples' = dropped_samples + 1
  ELSE /\ queue' = Append(queue, s)
       /\ UNCHANGED dropped_samples

-----------------------------------------------------------------------------
(* Rollouter: feeder and samples                                            *)

FeedSample ==
  /\ LoopIsFreeFor("feeder") /\ ~raised /\ feeder = "feeding"
  /\ Len(pending_queue) <= PendingSize   \* the last one waits in put
  /\ loaded' = loaded + 1
  /\ pending_queue' = Append(pending_queue, loaded')
  /\ IF global_steps >= TotalRolloutSteps
     THEN feeder' = "signalling" /\ UNCHANGED global_steps
     ELSE global_steps' = global_steps + 1 /\ UNCHANGED feeder
  /\ UNCHANGED <<tasks, flags, lock, processor, raised, rollout_version, messages, training, job>>

FeedEnd ==
  /\ LoopIsFreeFor("feeder") /\ ~raised /\ feeder = "signalling"
  /\ Len(pending_queue) <= PendingSize
  /\ pending_queue' = Append(pending_queue, End)
  /\ feeder' = "done"
  /\ UNCHANGED <<loaded, global_steps, tasks, flags, lock, processor, raised, rollout_version, messages, training, job>>

\* one task's generation ends: its sample is put on the queue, or it was
\* cancelled, or it raised; the task stays in active_tasks until it is awaited
SampleGenerated ==
  /\ LoopIsFreeFor("task")
  /\ \E t \in Generating :
       /\ PutSample([sample |-> t.sample, version |-> t.version])
       /\ active_tasks' = (active_tasks \ {t}) \cup {[t EXCEPT !.status = "done"]}
  /\ UNCHANGED <<feeding, held, staleness_samples, flags, lock, processor, raised, rollout_version, training, job>>

SampleLost ==
  /\ LoopIsFreeFor("task")
  /\ \E t \in Generating :
       \/ /\ cancelled < MaxCancelled
          /\ active_tasks' = (active_tasks \ {t}) \cup {[t EXCEPT !.status = "cancelled"]}
          /\ cancelled' = cancelled + 1 /\ UNCHANGED failures
       \/ /\ failures < MaxFailures
          /\ active_tasks' = (active_tasks \ {t}) \cup {[t EXCEPT !.status = "failed"]}
          /\ failures' = failures + 1 /\ UNCHANGED cancelled
  /\ UNCHANGED <<feeding, held, staleness_samples, flags, lock, processor, raised, rollout_version, messages, training, outcome, crashes>>

-----------------------------------------------------------------------------
(* Rollouter: the processor                                                 *)

\* defective: only a full queue pauses
PauseWhenFull == Len(queue) >= MaxQueueSize

ShouldPause ==
  \/ Len(queue) >= MaxQueueSize
  \/ staleness_samples >= MaxRequiredSamples

Pause ==
  /\ LoopIsFreeFor("processor") /\ processor = "loop"
  /\ paused \/ ShouldPause
  /\ processor' = "pausing"
  /\ UNCHANGED <<feeding, tasks, flags, lock, raised, rollout_version, messages, training, job>>

SetPaused ==
  /\ processor = "pausing" /\ Acquires("processor")
  /\ paused' = TRUE
  /\ processor' = IF active_tasks = {} THEN "parking" ELSE "draining"
  /\ Releases
  /\ UNCHANGED <<feeding, tasks, param_sync_paused, raised, rollout_version, messages, training, job>>

\* while self.paused: await condition.wait()
Park ==
  /\ processor \in {"parking", "unparking"} /\ Acquires("processor")
  /\ processor' = IF paused THEN "parked" ELSE "loop"
  /\ Releases
  /\ UNCHANGED <<feeding, tasks, flags, raised, rollout_version, messages, training, job>>

AwaitPending ==
  /\ LoopIsFreeFor("processor") /\ processor = "loop"
  /\ ~paused /\ ~ShouldPause /\ pending_queue = <<>>
  /\ processor' = "getting"
  /\ UNCHANGED <<feeding, tasks, flags, lock, raised, rollout_version, messages, training, job>>

\* defective: the end signal does not wait for the tasks that are left
EndAtOnce == "finishing"

AfterEnd == IF active_tasks = {} THEN "finishing" ELSE "ending"

\* defective: one task too many
OneOver(n) == n > MaxConcurrent

AtLimit(n) == n >= MaxConcurrent

\* the end signal is counted like a sample
TakePending ==
  /\ LoopIsFreeFor("processor")
  /\ processor = "getting" \/ (processor = "loop" /\ ~paused /\ ~ShouldPause)
  /\ pending_queue # <<>>
  /\ pending_queue' = Tail(pending_queue)
  /\ staleness_samples' = staleness_samples + 1
  /\ IF Head(pending_queue) = End
     THEN /\ processor' = AfterEnd
          /\ UNCHANGED held
     ELSE /\ processor' = IF AtLimit(Cardinality(active_tasks)) THEN "limiting" ELSE "creating"
          /\ held' = {Head(pending_queue)}
  /\ UNCHANGED <<loaded, global_steps, feeder, active_tasks, flags, lock, raised, rollout_version, messages, training, job>>

\* defective: a pause does not hold back the sample in hand
StartsAnyway == TRUE

MayStart == ~paused

CreateTask ==
  /\ processor \in {"creating", "releasing"} /\ Acquires("processor")
  /\ IF MayStart
     THEN /\ active_tasks' = active_tasks \cup
               {[sample |-> s, version |-> rollout_version, status |-> "generating"] : s \in held}
          /\ held' = {}
          /\ processor' = "loop"
     ELSE /\ processor' = "holding"
          /\ UNCHANGED <<active_tasks, held>>
  /\ Releases
  /\ UNCHANGED <<feeding, staleness_samples, flags, raised, rollout_version, messages, training, job>>

\* async with lock: asyncio.wait(active_tasks, FIRST_COMPLETED); the three
\* places differ in where the processor goes on
WaitForTasks ==
  /\ processor \in {"draining", "ending", "limiting"} /\ Acquires("processor")
  /\ IF active_tasks = {}
     THEN /\ processor' = CASE processor = "draining" -> "parking"
                            [] processor = "ending" -> "finishing"
                            [] processor = "limiting" -> "creating"
          /\ Releases
     ELSE /\ processor' = CASE processor = "draining" -> "drainWait"
                            [] processor = "ending" -> "endWait"
                            [] processor = "limiting" -> "limitWait"
          /\ KeepsLock("processor")
  /\ UNCHANGED <<feeding, tasks, flags, raised, rollout_version, messages, training, job>>

SomeFailed == \E t \in Finished : t.status = "failed"

TasksFinished ==
  /\ LoopIsFreeFor("processor") /\ processor \in {"drainWait", "endWait", "limitWait"}
  /\ Finished # {}
  /\ active_tasks' = Generating
  /\ Releases
  /\ raised' = SomeFailed
  /\ processor' =
       IF SomeFailed THEN "finishing"
       ELSE CASE processor = "drainWait" -> IF active_tasks' = {} THEN "parking" ELSE "draining"
              [] processor = "endWait" -> IF active_tasks' = {} THEN "finishing" ELSE "ending"
              [] processor = "limitWait" -> IF AtLimit(Cardinality(active_tasks')) THEN "limiting" ELSE "creating"
  /\ UNCHANGED <<feeding, held, staleness_samples, flags, rollout_version, messages, training, job>>

\* the finally of _streaming_generation_main
Finish ==
  /\ processor = "finishing" /\ Acquires("processor")
  /\ paused' = FALSE /\ param_sync_paused' = FALSE
  /\ processor' = "signalling"
  /\ Releases
  /\ UNCHANGED <<feeding, tasks, raised, rollout_version, messages, training, job>>

PutEnd ==
  /\ LoopIsFreeFor("processor") /\ processor = "signalling"
  /\ PutSample([sample |-> End, version |-> 0])
  /\ processor' = "over"
  /\ UNCHANGED <<feeding, tasks, flags, lock, raised, rollout_version, training, job>>

-----------------------------------------------------------------------------
(* Trainer                                                                  *)

GetSample ==
  /\ Running /\ trainer = "collecting"
  /\ queue # <<>>
  /\ queue' = Tail(queue)
  /\ IF Head(queue).sample = End
     THEN /\ stopping' = TRUE
          /\ batch' = <<>>
          /\ trainer' = "stopping"
     ELSE /\ batch' = Append(batch, Head(queue))
          /\ trainer' = IF Len(batch') = RequiredSamples THEN "training" ELSE "collecting"
          /\ UNCHANGED stopping
  /\ UNCHANGED <<feeding, tasks, flags, lock, processor, raised, rollout_version, dropped_samples, local_trigger_step, current_param_version, trained, checkpoint, job>>

Train ==
  /\ Running /\ trainer = "training"
  /\ trained' = trained \cup {b.sample : b \in ToSet(batch)}
  /\ batch' = <<>>
  /\ IF local_trigger_step < TriggerSteps
     THEN /\ local_trigger_step' = local_trigger_step + 1
          /\ trainer' = "saving"
          /\ UNCHANGED current_param_version
     ELSE /\ local_trigger_step' = 1
          /\ current_param_version' = current_param_version + 1
          /\ trainer' = "syncing"
  /\ UNCHANGED <<feeding, tasks, flags, lock, processor, raised, rollout_version, messages, stopping, checkpoint, job>>

\* pause_and_drain
PauseForSync ==
  /\ trainer = "syncing" /\ Acquires("trainer")
  /\ param_sync_paused' = TRUE /\ paused' = TRUE
  /\ trainer' = "draining"
  /\ Releases
  /\ UNCHANGED <<feeding, tasks, processor, raised, rollout_version, messages, batch, stopping, local_trigger_step, current_param_version, trained, checkpoint, job>>

Drain ==
  /\ trainer = "draining" /\ Acquires("trainer")
  /\ IF active_tasks = {}
     THEN trainer' = "updating" /\ Releases
     ELSE trainer' = "drainWait" /\ KeepsLock("trainer")
  /\ UNCHANGED <<feeding, tasks, flags, processor, raised, rollout_version, messages, batch, stopping, local_trigger_step, current_param_version, trained, checkpoint, job>>

Drained ==
  /\ LoopIsFreeFor("trainer") /\ trainer = "drainWait"
  /\ Finished # {}
  /\ active_tasks' = Generating
  /\ Releases
  /\ trainer' = IF SomeFailed THEN "raised" ELSE "draining"
  /\ UNCHANGED <<feeding, held, staleness_samples, flags, processor, raised, rollout_version, messages, batch, stopping, local_trigger_step, current_param_version, trained, checkpoint, job>>

UpdateWeights ==
  /\ Running /\ trainer = "updating"
  /\ rollout_version' = current_param_version
  /\ trainer' = "resetting"
  /\ UNCHANGED <<feeding, tasks, flags, lock, processor, raised, messages, batch, stopping, local_trigger_step, current_param_version, trained, checkpoint, job>>

\* defective: the pause of the processor outlives the synchronisation
StillPaused == paused

PausedAfterSync == FALSE

\* reset_staleness asks the queue for its size while it has the lock
ResetFlags ==
  /\ trainer = "resetting" /\ Acquires("trainer")
  /\ param_sync_paused' = FALSE /\ paused' = PausedAfterSync
  /\ processor' = Notified
  /\ trainer' = "counting"
  /\ KeepsLock("trainer")
  /\ UNCHANGED <<feeding, tasks, raised, rollout_version, messages, batch, stopping, local_trigger_step, current_param_version, trained, checkpoint, job>>

Outstanding == Cardinality(active_tasks) + Len(queue)

ResetStaleness ==
  /\ LoopIsFreeFor("trainer") /\ trainer = "counting"
  /\ staleness_samples' = Outstanding
  /\ Releases
  /\ trainer' = "saving"
  /\ UNCHANGED <<feeding, held, active_tasks, flags, processor, raised, rollout_version, messages, batch, stopping, local_trigger_step, current_param_version, trained, checkpoint, job>>

\* defective: the position is counted from the steps that were trained
SavedByStep ==
  [version |-> current_param_version, loaded |-> current_param_version * PeriodSamples, trained |-> trained]

Saved == [version |-> current_param_version, loaded |-> loaded, trained |-> trained]

\* whether a new version has to be saved: at the end of fit, or by its number
SaveIsDue == SaveFreq > 0 /\ (stopping \/ current_param_version % SaveFreq = 0)

\* another one may be, when the training plan is about to expire; without a
\* positive save_freq nothing is saved, at the end of fit neither
SaveCheckpoint ==
  /\ Running /\ trainer = "saving"
  /\ \/ /\ SaveFreq > 0 /\ current_param_version # checkpoint.version
        /\ checkpoint' = Saved
     \/ /\ current_param_version = checkpoint.version \/ ~SaveIsDue
        /\ UNCHANGED checkpoint
  /\ trainer' = IF stopping THEN "over" ELSE "collecting"
  /\ UNCHANGED <<feeding, tasks, flags, lock, processor, raised, rollout_version, messages, batch, stopping, local_trigger_step, current_param_version, trained, job>>

\* the end of fit: test_freq decides whether the weights are pushed once more,
\* which _fit_update_weights only does between two synchronisation periods
StopTraining ==
  /\ Running /\ trainer = "stopping"
  /\ \/ local_trigger_step = 1 /\ trainer' = "syncing"
     \/ trainer' = "saving"
  /\ UNCHANGED <<feeding, tasks, flags, lock, processor, raised, rollout_version, messages, batch, stopping, local_trigger_step, current_param_version, trained, checkpoint, job>>

-----------------------------------------------------------------------------
(* The job                                                                  *)

NoCheckpoint == [version |-> 0, loaded |-> 0, trained |-> {}]

AsyncInit ==
  /\ checkpoint = NoCheckpoint
  /\ loaded = 0 /\ global_steps = 1 /\ pending_queue = <<>> /\ feeder = "feeding"
  /\ held = {} /\ active_tasks = {} /\ staleness_samples = 0
  /\ paused = FALSE /\ param_sync_paused = FALSE /\ lock = <<>>
  /\ processor = "loop" /\ raised = FALSE
  /\ rollout_version = 0
  /\ queue = <<>> /\ dropped_samples = 0
  /\ trainer = "collecting" /\ batch = <<>> /\ stopping = FALSE
  /\ local_trigger_step = 1 /\ current_param_version = 0 /\ trained = {}
  /\ outcome = "running" /\ cancelled = 0 /\ failures = 0 /\ crashes = 0

\* _run_training_loop: the first component that raises ends the job
EndJob ==
  /\ Running
  /\ \/ /\ trainer = "raised" \/ (processor = "over" /\ raised)
        /\ outcome' = "failed"
     \/ /\ trainer = "over" /\ processor = "over" /\ ~raised
        /\ outcome' = "completed"
  /\ UNCHANGED <<feeding, tasks, flags, lock, processor, raised, rollout_version, messages, training, cancelled, failures, crashes>>

\* defective: the data loader starts again where the feeder's steps do
StepPosition == checkpoint.version * PeriodSamples

DataPosition == checkpoint.loaded

\* the job dies or failed, and is started again from its latest checkpoint
Restart ==
  /\ outcome # "completed"
  /\ crashes < MaxCrashes
  /\ crashes' = crashes + 1
  /\ loaded' = DataPosition
  /\ global_steps' = checkpoint.version * PeriodSamples + 1
  /\ trained' = checkpoint.trained
  /\ current_param_version' = checkpoint.version /\ rollout_version' = checkpoint.version
  /\ pending_queue' = <<>> /\ feeder' = "feeding"
  /\ held' = {} /\ active_tasks' = {} /\ staleness_samples' = 0
  /\ paused' = FALSE /\ param_sync_paused' = FALSE /\ lock' = <<>>
  /\ processor' = "loop" /\ raised' = FALSE
  /\ queue' = <<>> /\ dropped_samples' = 0
  /\ trainer' = "collecting" /\ batch' = <<>> /\ stopping' = FALSE /\ local_trigger_step' = 1
  /\ outcome' = "running"
  /\ UNCHANGED <<checkpoint, cancelled, failures>>

-----------------------------------------------------------------------------
ProcessorStep ==
  \/ WaitForLock("processor")
  \/ Pause \/ SetPaused \/ Park \/ AwaitPending \/ TakePending \/ CreateTask
  \/ WaitForTasks \/ TasksFinished \/ Finish \/ PutEnd

TrainerStep ==
  \/ WaitForLock("trainer")
  \/ GetSample \/ Train \/ PauseForSync \/ Drain \/ Drained \/ UpdateWeights
  \/ ResetFlags \/ ResetStaleness \/ SaveCheckpoint \/ StopTraining

AsyncNext ==
  \/ FeedSample \/ FeedEnd
  \/ SampleGenerated \/ SampleLost
  \/ ProcessorStep \/ TrainerStep
  \/ EndJob \/ Restart

AsyncSpec ==
  /\ AsyncInit /\ [][AsyncNext]_asyncVars
  /\ WF_asyncVars(FeedSample \/ FeedEnd)
  /\ WF_asyncVars(SampleGenerated)
  /\ WF_asyncVars(ProcessorStep)
  /\ WF_asyncVars(TrainerStep)
  /\ WF_asyncVars(EndJob)

-----------------------------------------------------------------------------
(* Properties                                                               *)

Waiting == {q \in ToSet(queue) : q.sample # End}

\* The types of the program's state, and that a sample in hand, on a task or
\* on the queue was drawn from the data loader.
AsyncTypeOK ==
  /\ loaded \in Nat /\ global_steps \in Nat \ {0}
  /\ Len(pending_queue) <= PendingSize + 1
  /\ held \subseteq 1..loaded /\ Cardinality(held) <= 1
  /\ active_tasks \subseteq [sample : 1..loaded, version : 0..rollout_version,
                             status : {"generating", "done", "cancelled", "failed"}]
  /\ Cardinality(active_tasks) <= MaxConcurrent
  /\ Len(queue) <= MaxQueueSize /\ Len(batch) <= RequiredSamples
  /\ local_trigger_step \in 1..TriggerSteps
  /\ rollout_version <= current_param_version
  /\ {paused, param_sync_paused, raised, stopping} \subseteq BOOLEAN

\* A weight push never meets a generation in flight: every sample that is
\* being generated started under the weights the servers have
\* (fully_async_trainer.py:542, "so param sync does not turn in-flight
\* generations into partial samples").  The pause, the drain and the
\* processor's re-check of paused before it creates a task make it so.
NoPartialSamples == \A t \in Generating : t.version = rollout_version

\* Samples that are ready, being generated or in the processor's hand exceed
\* max_required_samples by at most the one in hand, which reset_staleness
\* does not count: between two weight updates one more sample can be generated
\* than fully_async_policy/README.md:136 says.
OutstandingIsBounded ==
  Cardinality(Waiting) + Cardinality(Generating) + Cardinality(held) <= MaxRequiredSamples + 1

LagBound == IF ExcessSamples = 0 THEN 0 ELSE MaxRequiredSamples \div PeriodSamples

\* A sample the trainer takes is at most LagBound weight versions old; with a
\* staleness threshold of zero it is on-policy.
StalenessIsBounded ==
  \A s \in Waiting \cup ToSet(batch) : current_param_version <= s.version + LagBound

Places == <<held, {t.sample : t \in Generating}, {q.sample : q \in Waiting},
            {b.sample : b \in ToSet(batch)}, trained>>

\* A sample is never in two places: not generated twice, queued twice or
\* trained on twice, also when a restart sets the data loader back.
EachSampleIsInOnePlace ==
  /\ \A i, j \in DOMAIN Places : i # j => Places[i] \cap Places[j] = {}
  /\ \A i, j \in DOMAIN queue : i # j => queue[i].sample # queue[j].sample
  /\ UNION ToSet(Places) \subseteq 1..loaded

\* The data position of a checkpoint lies after every sample its weights were
\* trained on, so a restart trains on no sample again.
CheckpointCoversTraining == \A s \in checkpoint.trained : s <= checkpoint.loaded

\* Whenever the processor is paused outside a synchronisation there is still a
\* reason to pause: the guard under which _async_monitor_loop would resume it
\* (fully_async_rollouter.py:700-712) never holds.
MonitorNeverResumes == paused /\ ~param_sync_paused => ShouldPause

\* A run that completes without a restart has trained on every sample but the
\* dropped, the cancelled and an unfinished batch.  With a positive save_freq
\* less than one synchronisation period of training is not in the last
\* checkpoint of a completed run; the default is -1 (ppo_trainer.yaml:151), and
\* then its training is in no checkpoint.
FinishedRunsTrainEverySample ==
  outcome = "completed" =>
    /\ crashes = 0 => Cardinality(trained) + dropped_samples + cancelled > TotalRolloutSteps - RequiredSamples
    /\ SaveFreq > 0 => Cardinality(trained \ checkpoint.trained) < PeriodSamples

\* With at most ExcessSamples cancelled generations the job ends: no pause,
\* drain or full queue leaves the rollouter, the queue and the trainer waiting
\* for one another.
JobEnds == <>[](outcome # "running")

=============================================================================
