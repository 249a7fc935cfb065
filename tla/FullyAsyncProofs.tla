-------------------------- MODULE FullyAsyncProofs --------------------------
(***************************************************************************)
(* Proofs about FullyAsync, for any amount of data, batch and queue sizes,  *)
(* synchronisation periods, cancellations, failures and restarts.           *)
(***************************************************************************)
EXTENDS FullyAsync, FiniteSetTheorems, FunctionTheorems, SequenceTheorems, TLAPS

-----------------------------------------------------------------------------
(* Types                                                                    *)

Statuses    == {"generating", "done", "cancelled", "failed"}
TaskRecords == [sample : 1..loaded, version : 0..rollout_version, status : Statuses]
Messages    == [sample : 0..loaded, version : Nat]

FeedTypes ==
  /\ loaded \in Nat /\ global_steps \in Nat \ {0}
  /\ pending_queue \in Seq(0..loaded) /\ Len(pending_queue) <= PendingSize + 1

\* The processor leaves room for the sample in its hand before it starts it.
TaskTypes ==
  /\ held = {} \/ \E s \in 1..loaded : held = {s}
  /\ active_tasks \subseteq TaskRecords /\ IsFiniteSet(active_tasks)
  /\ Cardinality(active_tasks) <= MaxConcurrent
  /\ processor \in {"creating", "holding", "releasing"} => Cardinality(active_tasks) < MaxConcurrent

QueueTypes ==
  /\ queue \in Seq(Messages) /\ Len(queue) <= MaxQueueSize

TrainTypes ==
  /\ batch \in Seq([sample : 1..loaded, version : Nat]) /\ Len(batch) <= RequiredSamples
  /\ trainer = "collecting" => Len(batch) < RequiredSamples
  /\ trainer \notin {"collecting", "training"} => batch = <<>>
  /\ local_trigger_step \in 1..TriggerSteps
  /\ current_param_version \in Nat /\ rollout_version \in 0..current_param_version
  /\ trained \subseteq 1..loaded
  /\ checkpoint \in [version : Nat, loaded : Nat, trained : SUBSET Nat]
  /\ checkpoint.trained \subseteq 1..checkpoint.loaded

FlagTypes == {paused, param_sync_paused, raised, stopping} \subseteq BOOLEAN

Typed == FeedTypes /\ TaskTypes /\ QueueTypes /\ TrainTypes /\ FlagTypes

LEMMA Sizes ==
  /\ RequiredSamples \in Nat \ {0} /\ TriggerSteps \in Nat \ {0} /\ MaxConcurrent \in Nat \ {0}
  /\ PendingSize \in Nat \ {0} /\ MaxQueueSize \in Nat \ {0}
<1>1. \A m, n \in Nat \ {0} : m * n \in Nat \ {0}
  OBVIOUS
<1>2. PeriodSamples \in Nat \ {0}
  BY <1>1, AsyncAssumption DEF PeriodSamples
<1> QED
  BY <1>2, AsyncAssumption DEF MaxQueueSize, MaxRequiredSamples

LEMMA SeqGrows ==
  ASSUME NEW S, NEW T, S \subseteq T, NEW s \in Seq(S)
  PROVE  s \in Seq(T)
  OBVIOUS

LEMMA Elements ==
  ASSUME NEW S, NEW s \in Seq(S)
  PROVE  ToSet(s) \subseteq S
  BY DEF ToSet

LEMMA InitTyped == AsyncInit => Typed
<1> SUFFICES ASSUME AsyncInit PROVE Typed
  OBVIOUS
<1>1. FeedTypes /\ QueueTypes
  BY Sizes DEF AsyncInit, FeedTypes, QueueTypes
<1>4. TrainTypes
  BY Sizes DEF AsyncInit, TrainTypes, NoCheckpoint
<1>5. FlagTypes
  BY DEF AsyncInit, FlagTypes
<1>2. IsFiniteSet({}) /\ Cardinality({}) = 0
  BY FS_EmptySet
<1>3. TaskTypes
  BY <1>2, Sizes DEF AsyncInit, TaskTypes
<1> QED
  BY <1>1, <1>3, <1>4, <1>5 DEF Typed

\* Data is only ever loaded, and the servers only move on.
Moves ==
  /\ loaded' \in Nat /\ loaded' >= loaded
  /\ rollout_version' \in Nat /\ rollout_version' >= rollout_version

LEMMA StepMoves ==
  ASSUME Typed, [AsyncNext]_asyncVars, ~Restart
  PROVE  Moves
<1> USE DEF Typed, FeedTypes, TrainTypes
<1>1. CASE FeedSample
  BY <1>1 DEF FeedSample, Moves
<1>2. CASE UpdateWeights
  BY <1>2 DEF UpdateWeights, feeding, Moves
<1>3. CASE loaded' = loaded /\ rollout_version' = rollout_version
  BY <1>3 DEF Moves
<1> QED
  BY <1>1, <1>2, <1>3
     DEF AsyncNext, ProcessorStep, TrainerStep, FeedEnd, SampleGenerated, SampleLost, EndJob, Restart,
         WaitForLock, Pause, SetPaused, Park, AwaitPending, TakePending, CreateTask, WaitForTasks,
         TasksFinished, Finish, PutEnd, GetSample, Train, PauseForSync, Drain, Drained, ResetFlags,
         ResetStaleness, SaveCheckpoint, StopTraining, asyncVars, feeding

LEMMA FeedStep ==
  ASSUME Typed, [AsyncNext]_asyncVars
  PROVE  FeedTypes'
<1> USE DEF Typed, FeedTypes
<1>1. CASE FeedSample
  <2>1. 0..loaded \subseteq 0..(loaded + 1)
    OBVIOUS
  <2>2. pending_queue \in Seq(0..(loaded + 1))
    BY <2>1, SeqGrows
  <2> QED  BY <1>1, <2>2, Sizes DEF FeedSample
<1>2. CASE FeedEnd
  BY <1>2, Sizes DEF FeedEnd, End
<1>3. CASE TakePending
  BY <1>3, Sizes DEF TakePending
<1>4. CASE Restart
  <2>1. checkpoint.version \in Nat /\ checkpoint.loaded \in Nat /\ PeriodSamples \in Nat
    BY SMTT(30), AsyncAssumption DEF TrainTypes, PeriodSamples
  <2>2. checkpoint.version * PeriodSamples \in Nat
    BY <2>1
  <2> QED  BY SMTT(30), <1>4, <2>1, <2>2, Sizes DEF Restart, DataPosition
<1>5. CASE UNCHANGED <<loaded, global_steps, pending_queue>>
  BY <1>5
<1> QED
  BY <1>1, <1>2, <1>3, <1>4, <1>5
     DEF AsyncNext, ProcessorStep, TrainerStep, SampleGenerated, SampleLost, EndJob, Restart,
         WaitForLock, Pause, SetPaused, Park, AwaitPending, CreateTask, WaitForTasks,
         TasksFinished, Finish, PutEnd, GetSample, Train, PauseForSync, Drain, Drained, ResetFlags,
         ResetStaleness, UpdateWeights, SaveCheckpoint, StopTraining, asyncVars, feeding

LEMMA PutTyped ==
  ASSUME QueueTypes, NEW m \in Messages, PutSample(m)
  PROVE  queue' \in Seq(Messages) /\ Len(queue') <= MaxQueueSize
<1> USE DEF QueueTypes
<1>1. CASE Len(queue) >= MaxQueueSize
  <2>1. queue # <<>> /\ queue' = Append(Tail(queue), m)
    BY <1>1, Sizes DEF PutSample
  <2>2. Tail(queue) \in Seq(Messages) /\ Len(Tail(queue)) = Len(queue) - 1
    BY <2>1
  <2> QED  BY <2>1, <2>2, Sizes
<1>2. CASE ~(Len(queue) >= MaxQueueSize)
  <2>1. queue' = Append(queue, m)
    BY <1>2 DEF PutSample
  <2> QED  BY <1>2, <2>1, Sizes
<1> QED  BY <1>1, <1>2

LEMMA QueueStep ==
  ASSUME Typed, [AsyncNext]_asyncVars
  PROVE  QueueTypes'
<1> USE DEF Typed
<1>1. CASE SampleGenerated
  <2>1. PICK t \in Generating : PutSample([sample |-> t.sample, version |-> t.version])
    BY <1>1 DEF SampleGenerated
  <2>2. [sample |-> t.sample, version |-> t.version] \in Messages
    BY DEF Generating, TaskTypes, TaskRecords, Messages, FeedTypes, TrainTypes
  <2>3. Messages' = Messages
    BY <1>1 DEF SampleGenerated, Messages, feeding
  <2> QED  BY <2>1, <2>2, <2>3, PutTyped DEF QueueTypes
<1>2. CASE PutEnd
  <2>1. [sample |-> End, version |-> 0] \in Messages /\ Messages' = Messages
    BY <1>2 DEF PutEnd, Messages, End, FeedTypes, feeding
  <2> QED  BY <1>2, <2>1, PutTyped DEF QueueTypes, PutEnd
<1>3. CASE GetSample
  BY <1>3, Sizes DEF GetSample, QueueTypes, Messages, feeding
<1>4. CASE Restart
  BY <1>4, Sizes DEF Restart, QueueTypes
<1>5. CASE queue' = queue /\ ~Restart
  <2>1. Messages \subseteq Messages'
    BY <1>5, StepMoves DEF Moves, Messages, FeedTypes
  <2> QED  BY <1>5, <2>1, SeqGrows DEF QueueTypes
<1> QED
  BY <1>1, <1>2, <1>3, <1>4, <1>5
     DEF AsyncNext, ProcessorStep, TrainerStep, FeedSample, FeedEnd, SampleLost, EndJob, Restart,
         WaitForLock, Pause, SetPaused, Park, AwaitPending, TakePending, CreateTask, WaitForTasks,
         TasksFinished, Finish, Train, PauseForSync, Drain, Drained, ResetFlags,
         ResetStaleness, UpdateWeights, SaveCheckpoint, StopTraining, asyncVars, messages

\* Adding an element to a finite set, and exchanging one.
LEMMA AddOne ==
  ASSUME NEW S, IsFiniteSet(S), NEW u
  PROVE  IsFiniteSet(S \cup {u}) /\ Cardinality(S \cup {u}) <= Cardinality(S) + 1
<1>1. Cardinality(S) \in Nat
  BY FS_CardinalityType
<1>2. /\ IsFiniteSet(S \cup {u})
      /\ Cardinality(S \cup {u}) = IF u \in S THEN Cardinality(S) ELSE Cardinality(S) + 1
  BY FS_AddElement
<1> QED
  BY <1>1, <1>2

LEMMA ReplaceOne ==
  ASSUME NEW S, IsFiniteSet(S), NEW t \in S, NEW u
  PROVE  /\ IsFiniteSet((S \ {t}) \cup {u})
         /\ Cardinality((S \ {t}) \cup {u}) <= Cardinality(S)
<1>1. /\ IsFiniteSet(S \ {t})
      /\ Cardinality(S \ {t}) = IF t \in S THEN Cardinality(S) - 1 ELSE Cardinality(S)
  BY FS_RemoveElement
<1>2. Cardinality(S) \in Nat
  BY FS_CardinalityType
<1>3. /\ IsFiniteSet((S \ {t}) \cup {u})
      /\ Cardinality((S \ {t}) \cup {u}) <= Cardinality(S \ {t}) + 1
  BY <1>1, AddOne
<1>4. Cardinality((S \ {t}) \cup {u}) \in Nat
  BY <1>3, FS_CardinalityType
<1> QED
  BY <1>1, <1>2, <1>3, <1>4

\* Setting the status of a task changes its record only there.
LEMMA TaskEnds ==
  ASSUME Typed, NEW t \in active_tasks, NEW s \in Statuses,
         active_tasks' = (active_tasks \ {t}) \cup {[t EXCEPT !.status = s]}
  PROVE  /\ active_tasks' \subseteq TaskRecords /\ IsFiniteSet(active_tasks')
         /\ Cardinality(active_tasks') <= Cardinality(active_tasks)
         /\ \A u \in active_tasks' : u \in active_tasks \/ u.status = s
<1> USE DEF Typed, TaskTypes
<1>1. [t EXCEPT !.status = s] \in TaskRecords /\ [t EXCEPT !.status = s].status = s
  BY DEF TaskRecords, Statuses
<1>2. /\ IsFiniteSet(active_tasks') /\ Cardinality(active_tasks') <= Cardinality(active_tasks)
  BY ReplaceOne
<1> QED
  BY <1>1, <1>2

LEMMA GeneratingIsSmaller ==
  ASSUME Typed
  PROVE  /\ Generating \subseteq active_tasks /\ IsFiniteSet(Generating)
         /\ Cardinality(Generating) <= Cardinality(active_tasks)
  BY FS_Subset DEF Typed, TaskTypes, Generating

LEMMA TaskStep ==
  ASSUME Typed, [AsyncNext]_asyncVars
  PROVE  TaskTypes'
<1> USE DEF Typed, TaskTypes
<1>0. Cardinality(active_tasks) \in Nat /\ IsFiniteSet({}) /\ Cardinality({}) = 0 /\ MaxConcurrent \in Nat \ {0}
  BY FS_CardinalityType, FS_EmptySet, Sizes
<1>m. ~Restart => TaskRecords \subseteq TaskRecords' /\ 1..loaded \subseteq 1..loaded'
  BY SMTT(30), StepMoves DEF Moves, TaskRecords, FeedTypes, TrainTypes
<1>1. CASE SampleGenerated \/ SampleLost
  <2>1. PICK t \in Generating, s \in Statuses :
          active_tasks' = (active_tasks \ {t}) \cup {[t EXCEPT !.status = s]}
    BY <1>1 DEF SampleGenerated, SampleLost, Statuses
  <2>2. t \in active_tasks
    BY DEF Generating
  <2>3. UNCHANGED <<held, processor>>
    BY <1>1 DEF SampleGenerated, SampleLost
  <2>4. ~Restart
    BY <1>1 DEF SampleGenerated, SampleLost, Restart, job, feeding, Generating
  <2>5. /\ active_tasks' \subseteq TaskRecords /\ IsFiniteSet(active_tasks')
        /\ Cardinality(active_tasks') <= Cardinality(active_tasks)
        /\ Cardinality(active_tasks') \in Nat
    BY <2>1, <2>2, TaskEnds, FS_CardinalityType
  <2> QED
    BY <2>3, <2>4, <2>5, <1>m, <1>0
<1>2. CASE TakePending
  <2>1. /\ active_tasks' = active_tasks /\ loaded' = loaded
        /\ TaskRecords' = TaskRecords
        /\ pending_queue # <<>> /\ Head(pending_queue) \in 0..loaded
    BY <1>2 DEF TakePending, FeedTypes, TaskRecords
  <2>2. CASE Head(pending_queue) = End
    BY <1>2, <2>1, <2>2 DEF TakePending, AfterEnd
  <2>3. CASE Head(pending_queue) # End
    <3>1. /\ held' = {Head(pending_queue)} /\ Head(pending_queue) \in 1..loaded
          /\ processor' = IF AtLimit(Cardinality(active_tasks)) THEN "limiting" ELSE "creating"
      BY <1>2, <2>1, <2>3 DEF TakePending, End, FeedTypes
    <3> QED  BY <2>1, <3>1, <1>0 DEF AtLimit
  <2> QED  BY <2>2, <2>3
<1>3. CASE CreateTask
  <2>1. TaskRecords' = TaskRecords /\ loaded' = loaded
    BY <1>3 DEF CreateTask, TaskRecords, feeding
  <2>2. CASE MayStart
    <3>1. /\ active_tasks' = active_tasks \cup
               {[sample |-> s, version |-> rollout_version, status |-> "generating"] : s \in held}
          /\ held' = {} /\ processor' = "loop" /\ Cardinality(active_tasks) < MaxConcurrent
      BY <1>3, <2>2 DEF CreateTask
    <3>2. CASE held = {}
      BY <2>1, <3>1, <3>2
    <3>3. CASE held # {}
      <4>1. PICK s \in 1..loaded : held = {s}
        BY <3>3
      <4> DEFINE t == [sample |-> s, version |-> rollout_version, status |-> "generating"]
      <4>2. t \in TaskRecords /\ active_tasks' = active_tasks \cup {t}
        BY <3>1, <4>1 DEF TaskRecords, Statuses, TrainTypes
      <4> HIDE DEF t
      <4>3. /\ IsFiniteSet(active_tasks \cup {t})
            /\ Cardinality(active_tasks \cup {t}) <= Cardinality(active_tasks) + 1
        BY AddOne
      <4>4. Cardinality(active_tasks \cup {t}) \in Nat
        BY <4>3, FS_CardinalityType
      <4> QED  BY <2>1, <3>1, <4>2, <4>3, <4>4, <1>0
    <3> QED  BY <3>2, <3>3
  <2>3. CASE ~MayStart
    <3>1. UNCHANGED <<active_tasks, held>> /\ processor' = "holding" /\ Cardinality(active_tasks) < MaxConcurrent
      BY <1>3, <2>3 DEF CreateTask
    <3> QED  BY <2>1, <3>1
  <2> QED  BY <2>2, <2>3
<1>4. CASE WaitForTasks
  <2>1. TaskRecords' = TaskRecords /\ UNCHANGED <<held, active_tasks, loaded>>
    BY <1>4 DEF WaitForTasks, TaskRecords, feeding, tasks
  <2>2. processor' \in {"creating", "holding", "releasing"} => active_tasks = {}
    <3>1. CASE active_tasks # {}
      BY <1>4, <3>1 DEF WaitForTasks
    <3> QED  BY <3>1
  <2> QED  BY <2>1, <2>2, <1>0
<1>5. CASE TasksFinished
  <2>1. /\ TaskRecords' = TaskRecords /\ UNCHANGED <<held, loaded>> /\ active_tasks' = Generating
        /\ Cardinality(active_tasks') <= MaxConcurrent /\ Cardinality(active_tasks') \in Nat
    BY <1>5, GeneratingIsSmaller, FS_CardinalityType, <1>0 DEF TasksFinished, TaskRecords, feeding
  <2>2. processor' \in {"creating", "holding", "releasing"} => ~AtLimit(Cardinality(active_tasks'))
    BY <1>5 DEF TasksFinished
  <2> QED  BY <2>1, <2>2, GeneratingIsSmaller, <1>0 DEF AtLimit
<1>6. CASE Drained
  <2>1. /\ TaskRecords' = TaskRecords /\ UNCHANGED <<held, loaded, processor>> /\ active_tasks' = Generating
    BY <1>6 DEF Drained, TaskRecords, feeding
  <2>2. Cardinality(Generating) \in Nat
    BY GeneratingIsSmaller, FS_CardinalityType
  <2> QED  BY <2>1, <2>2, GeneratingIsSmaller, <1>0
<1>7. CASE Restart
  BY <1>7, <1>0 DEF Restart
<1>8. CASE /\ UNCHANGED <<held, active_tasks>>
           /\ processor' \in {"creating", "holding", "releasing"} => processor \in {"creating", "holding", "releasing"}
           /\ ~Restart
  BY <1>8, <1>m
<1> QED
  BY <1>1, <1>2, <1>3, <1>4, <1>5, <1>6, <1>7, <1>8
     DEF AsyncNext, ProcessorStep, TrainerStep, FeedSample, FeedEnd, EndJob,
         WaitForLock, Pause, SetPaused, Park, AwaitPending, Finish, PutEnd, GetSample, Train,
         PauseForSync, Drain, UpdateWeights, ResetFlags, Notified, ResetStaleness, SaveCheckpoint,
         StopTraining, asyncVars, tasks

LEMMA TrainStep ==
  ASSUME Typed, [AsyncNext]_asyncVars
  PROVE  TrainTypes' /\ FlagTypes'
<1> USE DEF Typed, TrainTypes, FlagTypes
<1> DEFINE Taken(n) == [sample : 1..n, version : Nat]
<1>1. CASE GetSample
  <2>1. /\ trainer = "collecting" /\ queue # <<>> /\ Len(batch) < RequiredSamples
        /\ UNCHANGED <<loaded, local_trigger_step, current_param_version, rollout_version, trained, checkpoint>>
        /\ UNCHANGED <<paused, param_sync_paused, raised>>
    BY <1>1 DEF GetSample, feeding, flags
  <2>2. Head(queue) \in Messages
    BY <2>1 DEF QueueTypes
  <2>3. CASE Head(queue).sample = End
    <3>1. batch' = <<>> /\ trainer' = "stopping" /\ stopping' = TRUE
      BY <1>1, <2>3 DEF GetSample
    <3> QED  BY <2>1, <3>1, Sizes
  <2>4. CASE Head(queue).sample # End
    <3>1. /\ batch' = Append(batch, Head(queue)) /\ stopping' = stopping
          /\ trainer' = IF Len(batch') = RequiredSamples THEN "training" ELSE "collecting"
      BY <1>1, <2>4 DEF GetSample
    <3>2. Head(queue) \in Taken(loaded)
      BY <2>2, <2>4 DEF Messages, End, FeedTypes
    <3>5. batch \in Seq(Taken(loaded))
      OBVIOUS
    <3> HIDE DEF Taken
    <3>3. batch' \in Seq(Taken(loaded)) /\ Len(batch') = Len(batch) + 1 /\ Len(batch) \in Nat
      BY <3>1, <3>2, <3>5
    <3>4. Len(batch') <= RequiredSamples /\ (trainer' = "collecting" => Len(batch') < RequiredSamples)
          /\ trainer' \in {"collecting", "training"}
      BY <2>1, <3>1, <3>3, Sizes
    <3> QED  BY <2>1, <3>1, <3>3, <3>4 DEF Taken
  <2> QED  BY <2>3, <2>4
<1>2. CASE Train
  <2>0. \A b \in ToSet(batch) : b.sample \in 1..loaded
    <3>1. ToSet(batch) \subseteq [sample : 1..loaded, version : Nat]
      BY Elements
    <3> QED  BY <3>1
  <2>1. {b.sample : b \in ToSet(batch)} \subseteq 1..loaded
    BY <2>0
  <2>3. TriggerSteps \in Nat \ {0} /\ local_trigger_step' \in 1..TriggerSteps
    BY <1>2, Sizes DEF Train
  <2>4. trained' \subseteq 1..loaded
    BY <1>2, <2>1 DEF Train
  <2>2. /\ batch' = <<>> /\ trainer' \in {"saving", "syncing"}
        /\ current_param_version' \in Nat /\ current_param_version' >= current_param_version
        /\ UNCHANGED <<loaded, rollout_version, checkpoint, paused, param_sync_paused, raised, stopping>>
    BY <1>2 DEF Train, feeding, flags
  <2> QED  BY <2>2, <2>3, <2>4, Sizes
<1>3. CASE UpdateWeights
  <2>1. /\ rollout_version' = current_param_version /\ trainer' = "resetting" /\ trainer = "updating"
        /\ UNCHANGED <<loaded, batch, local_trigger_step, current_param_version, trained, checkpoint>>
        /\ UNCHANGED <<paused, param_sync_paused, raised, stopping>>
    BY <1>3 DEF UpdateWeights, feeding, flags
  <2> QED  BY <2>1
<1>4. CASE SaveCheckpoint
  <2>1. /\ trainer = "saving" /\ trainer' \in {"over", "collecting"} /\ checkpoint' \in {checkpoint, Saved}
        /\ UNCHANGED <<loaded, batch, local_trigger_step, current_param_version, rollout_version, trained>>
        /\ UNCHANGED <<paused, param_sync_paused, raised, stopping>>
    BY <1>4 DEF SaveCheckpoint, feeding, flags
  <2>2. Saved \in [version : Nat, loaded : Nat, trained : SUBSET Nat] /\ Saved.trained \subseteq 1..Saved.loaded
    BY DEF Saved, FeedTypes
  <2> QED  BY <2>1, <2>2, Sizes
<1>5. CASE Restart
  <2>1. /\ trained' = checkpoint.trained /\ loaded' = checkpoint.loaded /\ checkpoint' = checkpoint
        /\ current_param_version' = checkpoint.version /\ rollout_version' = checkpoint.version
        /\ batch' = <<>> /\ trainer' = "collecting" /\ local_trigger_step' = 1
        /\ {paused', param_sync_paused', raised', stopping'} \subseteq BOOLEAN
    BY <1>5 DEF Restart, DataPosition
  <2> QED  BY <2>1, Sizes
<1>6. CASE PauseForSync \/ Drain \/ Drained \/ ResetFlags \/ ResetStaleness \/ StopTraining
  <2>1. /\ UNCHANGED <<loaded, batch, local_trigger_step, current_param_version, rollout_version, trained, checkpoint>>
        /\ trainer \notin {"collecting", "training"} /\ trainer' \notin {"collecting", "training"}
    BY <1>6 DEF PauseForSync, Drain, Drained, ResetFlags, ResetStaleness, StopTraining, feeding
  <2>2. FlagTypes'
    BY <1>6 DEF PauseForSync, Drain, Drained, ResetFlags, ResetStaleness, StopTraining, flags, PausedAfterSync
  <2> QED  BY <2>1, <2>2
<1>7. CASE ProcessorStep \/ WaitForLock("trainer")
  <2>1. UNCHANGED <<loaded, batch, local_trigger_step, current_param_version, rollout_version, trained,
                    checkpoint, trainer, stopping>>
    BY <1>7 DEF ProcessorStep, WaitForLock, Pause, SetPaused, Park, AwaitPending, TakePending,
                CreateTask, WaitForTasks, TasksFinished, Finish, PutEnd, training, feeding
  <2>2. {paused', param_sync_paused', raised'} \subseteq BOOLEAN
    BY <1>7 DEF ProcessorStep, WaitForLock, Pause, SetPaused, Park, AwaitPending, TakePending,
                CreateTask, WaitForTasks, TasksFinished, SomeFailed, Finish, PutEnd, flags
  <2> QED  BY <2>1, <2>2
<1>8. CASE FeedSample \/ FeedEnd \/ SampleGenerated \/ SampleLost \/ EndJob \/ UNCHANGED asyncVars
  <2>1. /\ UNCHANGED <<batch, local_trigger_step, current_param_version, rollout_version, trained,
                       checkpoint, trainer, stopping>>
        /\ UNCHANGED <<paused, param_sync_paused, raised>>
    BY <1>8 DEF FeedSample, FeedEnd, SampleGenerated, SampleLost, EndJob, asyncVars, training, flags
  <2>2. loaded \in Nat /\ loaded' \in {loaded, loaded + 1}
    BY <1>8 DEF FeedSample, FeedEnd, SampleGenerated, SampleLost, EndJob, asyncVars, feeding, FeedTypes
  <2>3. Taken(loaded) \subseteq Taken(loaded') /\ 1..loaded \subseteq 1..loaded'
    BY <2>2
  <2>4. batch \in Seq(Taken(loaded'))
    BY <2>3, SeqGrows
  <2> QED  BY <2>1, <2>3, <2>4
<1> QED
  BY <1>1, <1>2, <1>3, <1>4, <1>5, <1>6, <1>7, <1>8 DEF AsyncNext, TrainerStep

LEMMA TypedAlways == AsyncSpec => []Typed
<1>1. Typed /\ [AsyncNext]_asyncVars => Typed'
  BY FeedStep, TaskStep, QueueStep, TrainStep DEF Typed
<1> QED
  BY <1>1, InitTyped, PTL DEF AsyncSpec

-----------------------------------------------------------------------------
(* The weight push meets no generation.  From the moment the trainer has    *)
(* set paused until it resets it, the processor starts no task: either      *)
(* paused is still set, or the processor is past its last task.  So the set *)
(* the drain has found empty stays empty.                                   *)

PauseHolds ==
  trainer \in {"draining", "drainWait", "updating", "resetting"} =>
    paused \/ processor \in {"signalling", "over"}

DrainHolds == trainer \in {"updating", "resetting"} => active_tasks = {}

Pushed == PauseHolds /\ DrainHolds /\ NoPartialSamples

\* What the actions of the feeder, the tasks and the job, and most of the
\* others, leave alone.
PushIdle ==
  /\ UNCHANGED <<trainer, rollout_version>>
  /\ paused' = paused \/ processor' \in {"signalling", "over"} \/ paused'
  /\ processor \in {"signalling", "over"} => processor' \in {"signalling", "over"}
  /\ active_tasks = {} => active_tasks' = {}
  /\ \A t \in Generating' : t.version = rollout_version \/ t \in Generating

LEMMA PushIdleKeeps == ASSUME Pushed, PushIdle PROVE Pushed'
  BY DEF Pushed, PushIdle, PauseHolds, DrainHolds, NoPartialSamples

LEMMA PushedStep == ASSUME Typed, Pushed, [AsyncNext]_asyncVars PROVE Pushed'
<1>1. CASE FeedSample \/ FeedEnd \/ EndJob \/ UNCHANGED asyncVars
  <2>1. UNCHANGED <<trainer, rollout_version, paused, processor, active_tasks>>
    BY <1>1 DEF FeedSample, FeedEnd, EndJob, asyncVars, tasks, flags, training
  <2> QED
    BY <2>1 DEF Pushed, PauseHolds, DrainHolds, NoPartialSamples, Generating
<1>2. CASE SampleGenerated \/ SampleLost
  <2>1. PICK t \in Generating, s \in {"done", "cancelled", "failed"} :
          /\ active_tasks' = (active_tasks \ {t}) \cup {[t EXCEPT !.status = s]}
          /\ UNCHANGED <<trainer, rollout_version, paused, processor>>
    BY <1>2 DEF SampleGenerated, SampleLost, flags, training
  <2>2. t \in active_tasks
    BY DEF Generating
  <2>3. \A u \in active_tasks' : u \in active_tasks \/ u.status = s
    BY <2>1, <2>2, TaskEnds DEF Statuses
  <2>4. Generating' \subseteq Generating
    BY <2>3 DEF Generating
  <2> QED
    BY <2>1, <2>2, <2>4, PushIdleKeeps DEF PushIdle
<1>3. CASE ProcessorStep
  <2>1. UNCHANGED <<trainer, rollout_version>>
    BY <1>3 DEF ProcessorStep, WaitForLock, Pause, SetPaused, Park, AwaitPending, TakePending,
                CreateTask, WaitForTasks, TasksFinished, Finish, PutEnd, training
  <2>2. CASE WaitForLock("processor") \/ Pause \/ SetPaused \/ Park \/ AwaitPending \/ TakePending
    <3>1. active_tasks' = active_tasks /\ (paused' = paused \/ paused')
          /\ (processor \in {"signalling", "over"} => processor' \in {"signalling", "over"})
      BY <2>2 DEF WaitForLock, Pause, SetPaused, Park, AwaitPending, TakePending, tasks, flags
    <3> QED
      BY <2>1, <3>1, PushIdleKeeps DEF PushIdle, Generating
  <2>3. CASE CreateTask
    <3>1. CASE paused
      <4>1. UNCHANGED <<active_tasks, paused>> /\ processor' = "holding"
            /\ processor \in {"creating", "releasing"}
        BY <2>3, <3>1 DEF CreateTask, MayStart, flags
      <4> QED
        BY <2>1, <4>1, PushIdleKeeps DEF PushIdle, Generating
    <3>2. CASE ~paused
      <4>1. trainer \notin {"draining", "drainWait", "updating", "resetting"}
        BY <2>3, <3>2 DEF CreateTask, Pushed, PauseHolds
      <4>2. active_tasks' = active_tasks \cup
              {[sample |-> s, version |-> rollout_version, status |-> "generating"] : s \in held}
        BY <2>3, <3>2 DEF CreateTask, MayStart
      <4>3. NoPartialSamples'
        BY <2>1, <4>2 DEF Pushed, NoPartialSamples, Generating
      <4> QED
        BY <2>1, <4>1, <4>3 DEF Pushed, PauseHolds, DrainHolds
    <3> QED  BY <3>1, <3>2
  <2>4. CASE WaitForTasks \/ TasksFinished
    <3>1. active_tasks' \in {active_tasks, Generating} /\ paused' = paused
          /\ processor \notin {"signalling", "over"}
      BY <2>4 DEF WaitForTasks, TasksFinished, tasks, flags
    <3> QED
      BY <2>1, <3>1, PushIdleKeeps DEF PushIdle, Generating
  <2>5. CASE Finish \/ PutEnd
    <3>1. active_tasks' = active_tasks /\ processor' \in {"signalling", "over"}
      BY <2>5 DEF Finish, PutEnd, tasks
    <3> QED
      BY <2>1, <3>1, PushIdleKeeps DEF PushIdle, Generating
  <2> QED
    BY <1>3, <2>2, <2>3, <2>4, <2>5 DEF ProcessorStep
<1>4. CASE TrainerStep
  <2>1. CASE WaitForLock("trainer") \/ GetSample \/ Train \/ ResetStaleness \/ SaveCheckpoint \/ StopTraining
    <3>1. /\ UNCHANGED <<rollout_version, active_tasks, paused, processor>>
          /\ trainer' = trainer \/ trainer' \notin {"draining", "drainWait", "updating", "resetting"}
      BY <2>1 DEF WaitForLock, GetSample, Train, ResetStaleness, SaveCheckpoint, StopTraining,
                  tasks, flags, training
    <3> QED
      BY <3>1 DEF Pushed, PauseHolds, DrainHolds, NoPartialSamples, Generating
  <2>2. CASE PauseForSync
    <3>1. UNCHANGED <<rollout_version, active_tasks>> /\ paused' /\ trainer' = "draining"
      BY <2>2 DEF PauseForSync, tasks
    <3> QED
      BY <3>1 DEF Pushed, PauseHolds, DrainHolds, NoPartialSamples, Generating
  <2>3. CASE Drain \/ Drained
    <3>1. /\ UNCHANGED <<rollout_version, paused, processor>>
          /\ trainer \in {"draining", "drainWait"}
          /\ active_tasks' \in {active_tasks, Generating}
          /\ trainer' \in {"draining", "drainWait", "raised"} \/ (trainer' = "updating" /\ active_tasks' = {})
      BY <2>3 DEF Drain, Drained, tasks, flags
    <3> QED
      BY <3>1 DEF Pushed, PauseHolds, DrainHolds, NoPartialSamples, Generating
  <2>4. CASE UpdateWeights
    <3>1. /\ UNCHANGED <<active_tasks, paused, processor>>
          /\ trainer = "updating" /\ trainer' = "resetting"
      BY <2>4 DEF UpdateWeights, tasks, flags
    <3> QED
      BY <3>1 DEF Pushed, PauseHolds, DrainHolds, NoPartialSamples, Generating
  <2>5. CASE ResetFlags
    <3>1. UNCHANGED <<active_tasks, rollout_version>> /\ trainer' = "counting"
      BY <2>5 DEF ResetFlags, tasks
    <3> QED
      BY <3>1 DEF Pushed, PauseHolds, DrainHolds, NoPartialSamples, Generating
  <2> QED
    BY <1>4, <2>1, <2>2, <2>3, <2>4, <2>5 DEF TrainerStep
<1>5. CASE Restart
  <2>1. active_tasks' = {} /\ trainer' = "collecting"
    BY <1>5 DEF Restart
  <2> QED
    BY <2>1 DEF Pushed, PauseHolds, DrainHolds, NoPartialSamples, Generating
<1> QED
  BY <1>1, <1>2, <1>3, <1>4, <1>5 DEF AsyncNext

\* A weight push never meets a generation in flight.
THEOREM NoGenerationSeesAPush == AsyncSpec => []NoPartialSamples
<1>1. AsyncInit => Pushed
  BY DEF AsyncInit, Pushed, PauseHolds, DrainHolds, NoPartialSamples, Generating
<1>2. Typed /\ Pushed /\ [AsyncNext]_asyncVars => Pushed'
  BY PushedStep
<1>3. Pushed => NoPartialSamples
  BY DEF Pushed
<1> QED
  BY <1>1, <1>2, <1>3, TypedAlways, PTL DEF AsyncSpec

\* A checkpoint's data position lies after all it was trained on.
THEOREM CheckpointsCoverTraining == AsyncSpec => []CheckpointCoversTraining
<1>1. Typed => CheckpointCoversTraining
  BY DEF Typed, TrainTypes, CheckpointCoversTraining
<1> QED
  BY <1>1, TypedAlways, PTL

\* The types of the state: at most max_concurrent_samples tasks, no more on
\* the queue than it holds, and only samples that were drawn anywhere.
THEOREM AsyncTypeCorrect == AsyncSpec => []AsyncTypeOK
<1>1. ASSUME Typed PROVE AsyncTypeOK
  <2>1. \A s : IsFiniteSet({s}) /\ Cardinality({s}) = 1
    BY FS_Singleton
  <2>2. IsFiniteSet({}) /\ Cardinality({}) = 0
    BY FS_EmptySet
  <2>3. held \subseteq 1..loaded /\ Cardinality(held) <= 1
    <3>1. CASE held = {}
      BY <2>2, <3>1
    <3>2. CASE held # {}
      <4>1. PICK s \in 1..loaded : held = {s}
        BY <1>1, <3>2 DEF Typed, TaskTypes
      <4>2. Cardinality(held) = 1
        BY <2>1, <4>1
      <4> QED  BY <4>1, <4>2
    <3> QED  BY <3>1, <3>2
  <2> QED
    BY <1>1, <2>3 DEF Typed, FeedTypes, TaskTypes, QueueTypes, TrainTypes, FlagTypes, TaskRecords, Statuses, AsyncTypeOK
<1> QED
  BY <1>1, TypedAlways, PTL

-----------------------------------------------------------------------------
(* The lock                                                                 *)

Locks == {<<>>, <<"processor">>, <<"trainer">>, <<"processor", "trainer">>, <<"trainer", "processor">>}

HeldBy(c) == lock # <<>> /\ Head(lock) = c
InLock(c) == c \in ToSet(lock)

Locked ==
  /\ lock \in Locks
  /\ processor \in {"drainWait", "endWait", "limitWait"} => HeldBy("processor")
  /\ trainer \in {"drainWait", "counting"} => HeldBy("trainer")
  /\ processor = "loop" => ~InLock("processor")

LEMMA Tuples ==
  ASSUME NEW c, NEW d
  PROVE  /\ <<c>> # <<>> /\ Head(<<c>>) = c /\ Tail(<<c>>) = <<>> /\ ToSet(<<c>>) = {c}
         /\ <<c, d>> # <<>> /\ Head(<<c, d>>) = c /\ Tail(<<c, d>>) = <<d>> /\ ToSet(<<c, d>>) = {c, d}
         /\ Append(<<c>>, d) = <<c, d>> /\ ToSet(<<>>) = {}
<1> DEFINE S == {c, d}
<1>1. /\ <<c>> \in Seq(S) /\ Len(<<c>>) = 1 /\ d \in S
      /\ <<c, d>> \in Seq(S) /\ Len(<<c, d>>) = 2 /\ <<c, d>>[1] = c /\ <<c, d>>[2] = d
  OBVIOUS
<1>2. /\ Append(<<c>>, d) \in Seq(S) /\ Len(Append(<<c>>, d)) = 2
      /\ Append(<<c>>, d)[1] = c /\ Append(<<c>>, d)[2] = d
  BY <1>1, AppendProperties
<1>3. \A i \in 1..2 : Append(<<c>>, d)[i] = <<c, d>>[i]
  BY <1>1, <1>2
<1>4. Append(<<c>>, d) = <<c, d>>
  BY <1>1, <1>2, <1>3, SeqEqual
<1>5. <<c>> # <<>> /\ Head(<<c>>) = c /\ Tail(<<c>>) = <<>>
  OBVIOUS
<1>6. <<c, d>> # <<>> /\ Head(<<c, d>>) = c
  OBVIOUS
<1>7. Tail(<<c, d>>) = <<d>>
  OBVIOUS
<1>8. ToSet(<<c>>) = {c} /\ ToSet(<<>>) = {}
  BY DEF ToSet
<1>9. ToSet(<<c, d>>) = {c, d}
  BY DEF ToSet
<1> QED
  BY <1>4, <1>5, <1>6, <1>7, <1>8, <1>9

LEMMA LockIs ==
  ASSUME NEW l \in Locks
  PROVE  /\ l = <<>> => ToSet(l) = {}
         /\ l # <<>> => /\ Head(l) \in Coroutines /\ Head(l) \in ToSet(l)
                        /\ Tail(l) \in Locks /\ ToSet(Tail(l)) = ToSet(l) \ {Head(l)}
                        /\ \A c \in Coroutines \ ToSet(l) :
                             /\ Append(l, c) \in Locks /\ Append(l, c) # <<>>
                             /\ Head(Append(l, c)) = Head(l)
                             /\ ToSet(Append(l, c)) = ToSet(l) \cup {c}
         /\ ToSet(l) \subseteq Coroutines
<1>0. \A c, d \in Coroutines : c # d => <<>> \in Locks /\ <<c>> \in Locks /\ <<c, d>> \in Locks /\ Coroutines = {c, d}
  BY DEF Locks, Coroutines
<1>1. CASE l = <<>>
  BY <1>1, Tuples
<1>2. ASSUME NEW c \in Coroutines, NEW d \in Coroutines, c # d, l = <<c>>
      PROVE  /\ l # <<>> /\ Head(l) = c /\ Tail(l) = <<>> /\ ToSet(l) = {c} /\ ToSet(<<>>) = {}
             /\ Append(l, d) = <<c, d>> /\ <<c, d>> # <<>> /\ Head(<<c, d>>) = c
             /\ ToSet(<<c, d>>) = {c, d}
  BY <1>2, Tuples
<1>3. ASSUME NEW c \in Coroutines, NEW d \in Coroutines, c # d, l = <<c, d>>
      PROVE  /\ l # <<>> /\ Head(l) = c /\ Tail(l) = <<d>> /\ ToSet(l) = {c, d} /\ ToSet(<<d>>) = {d}
  BY <1>3, Tuples
<1>4. CASE \E c, d \in Coroutines : c # d /\ l = <<c>>
  <2>1. PICK c \in Coroutines, d \in Coroutines : c # d /\ l = <<c>>
    BY <1>4
  <2>2. /\ l # <<>> /\ Head(l) = c /\ Tail(l) = <<>> /\ ToSet(l) = {c} /\ ToSet(<<>>) = {}
        /\ Append(l, d) = <<c, d>> /\ <<c, d>> # <<>> /\ Head(<<c, d>>) = c
        /\ ToSet(<<c, d>>) = {c, d}
    BY <1>2, <2>1
  <2>3. <<>> \in Locks /\ <<c, d>> \in Locks /\ Coroutines = {c, d}
    BY <1>0, <2>1
  <2>4. \A e \in Coroutines \ ToSet(l) : e = d
    BY <2>2, <2>3
  <2>5. ToSet(Tail(l)) = ToSet(l) \ {Head(l)} /\ Tail(l) \in Locks
    BY <2>2, <2>3
  <2>6. \A e \in Coroutines \ ToSet(l) : /\ Append(l, e) \in Locks /\ Append(l, e) # <<>>
                                         /\ Head(Append(l, e)) = Head(l)
                                         /\ ToSet(Append(l, e)) = ToSet(l) \cup {e}
    BY <2>2, <2>3, <2>4
  <2>7. ToSet(l) \subseteq Coroutines /\ Head(l) \in Coroutines /\ Head(l) \in ToSet(l)
    BY <2>2, <2>3
  <2> QED
    BY <2>2, <2>5, <2>6, <2>7
<1>5. CASE \E c, d \in Coroutines : c # d /\ l = <<c, d>>
  <2>1. PICK c \in Coroutines, d \in Coroutines : c # d /\ l = <<c, d>>
    BY <1>5
  <2>2. /\ l # <<>> /\ Head(l) = c /\ Tail(l) = <<d>> /\ ToSet(l) = {c, d} /\ ToSet(<<d>>) = {d}
    BY <1>3, <2>1
  <2>3. <<d>> \in Locks /\ Coroutines = {c, d}
    BY <1>0, <2>1
  <2>4. ToSet(Tail(l)) = ToSet(l) \ {Head(l)} /\ Tail(l) \in Locks
    BY <2>1, <2>2, <2>3
  <2>5. Coroutines \ ToSet(l) = {}
    BY <2>2, <2>3
  <2>6. ToSet(l) \subseteq Coroutines /\ Head(l) \in Coroutines /\ Head(l) \in ToSet(l)
    BY <2>2, <2>3
  <2> QED
    BY <2>2, <2>4, <2>5, <2>6
<1>6. "processor" # "trainer"
  OBVIOUS
<1> QED
  BY <1>1, <1>4, <1>5, <1>6 DEF Locks, Coroutines

\* Whoever acquires the lock had it, or nobody had; it then keeps it or leaves
\* it to the one that waits.
LEMMA Acquired ==
  ASSUME lock \in Locks, NEW c \in Coroutines, Acquires(c)
  PROVE  /\ \A d : HeldBy(d) => d = c
         /\ Releases => /\ lock' \in Locks /\ ~InLock(c)'
                        /\ \A d \in Coroutines : InLock(d)' => InLock(d)
                        /\ \A d \in Coroutines \ {c} : InLock(d) => HeldBy(d)'
         /\ KeepsLock(c) => /\ lock' \in Locks /\ HeldBy(c)'
                            /\ \A d \in Coroutines \ {c} : InLock(d)' => InLock(d)
<1>1. lock = <<>> \/ (lock # <<>> /\ Head(lock) = c)
  BY DEF Acquires
<1>2. \A d : HeldBy(d) => d = c
  BY <1>1 DEF HeldBy
<1>3. Releases => lock' \in Locks /\ ~InLock(c)' /\ \A d \in Coroutines : InLock(d)' => InLock(d)
  BY <1>1, LockIs DEF InLock, Releases
<1>4. KeepsLock(c) => lock' \in Locks /\ HeldBy(c)' /\ \A d \in Coroutines \ {c} : InLock(d)' => InLock(d)
  <2>1. <<c>> \in Locks /\ <<c>> # <<>> /\ Head(<<c>>) = c /\ ToSet(<<c>>) = {c}
    <3>1. <<c>> \in Locks
      BY DEF Locks, Coroutines
    <3> QED  BY <3>1, Tuples
  <2> QED
    BY <1>1, <2>1 DEF KeepsLock, HeldBy, InLock
<1>5. ASSUME NEW d \in Coroutines \ {c}, InLock(d), Releases
      PROVE  HeldBy(d)'
  <2>1. lock # <<>> /\ Head(lock) = c /\ lock' = Tail(lock)
    BY <1>1, <1>5, LockIs DEF InLock, Releases
  <2>2. lock' \in Locks /\ d \in ToSet(lock') /\ c \notin ToSet(lock')
    BY <1>5, <2>1, LockIs DEF InLock
  <2>3. lock' # <<>> /\ Head(lock') \in Coroutines \ {c}
    BY <2>2, LockIs
  <2>4. \A e \in Coroutines \ {c} : e = d
    BY DEF Coroutines
  <2> QED
    BY <2>3, <2>4 DEF HeldBy
<1> QED
  BY <1>2, <1>3, <1>4, <1>5

LEMMA Released ==
  ASSUME lock \in Locks, NEW c, HeldBy(c), Releases
  PROVE  /\ lock' \in Locks /\ ~InLock(c)' /\ \A d : HeldBy(d) => d = c
         /\ \A d \in Coroutines : InLock(d)' => InLock(d)
BY LockIs DEF HeldBy, InLock, Releases

LEMMA Waited ==
  ASSUME lock \in Locks, NEW c \in Coroutines, WaitForLock(c)
  PROVE  /\ lock' \in Locks /\ \A d : HeldBy(d) => HeldBy(d)'
         /\ \A d : InLock(d)' => InLock(d) \/ d = c
         /\ \A d : InLock(d) => InLock(d)'
BY LockIs DEF WaitForLock, HeldBy, InLock

LEMMA LockStep ==
  ASSUME Locked, [AsyncNext]_asyncVars
  PROVE  Locked'
<1> USE DEF Locked
<1>0. "processor" \in Coroutines /\ "trainer" \in Coroutines /\ "processor" # "trainer"
  BY DEF Coroutines
<1>1. CASE WaitForLock("processor") \/ WaitForLock("trainer")
  <2>1. PICK c \in Coroutines : WaitForLock(c) /\ (c = "processor" => processor # "loop")
    BY <1>0, <1>1 DEF WaitForLock, WantsLock
  <2>2. UNCHANGED <<processor, trainer>> /\ lock' \in Locks /\ \A d : HeldBy(d) => HeldBy(d)'
    BY <2>1, Waited DEF WaitForLock, training
  <2>3. processor = "loop" => ~InLock("processor")'
    BY <1>0, <2>1, Waited
  <2> QED
    BY <2>2, <2>3
<1>2. CASE SetPaused \/ Park \/ CreateTask \/ Finish
  <2>1. /\ Acquires("processor") /\ Releases /\ trainer' = trainer
        /\ processor' \notin {"drainWait", "endWait", "limitWait"}
    BY <1>2 DEF SetPaused, Park, CreateTask, Finish, training
  <2> QED
    BY <1>0, <2>1, Acquired
<1>3. CASE WaitForTasks
  <2>1. /\ Acquires("processor") /\ trainer' = trainer /\ processor' # "loop"
        /\ \/ Releases /\ processor' \notin {"drainWait", "endWait", "limitWait"}
           \/ KeepsLock("processor")
    BY <1>3 DEF WaitForTasks, training
  <2> QED
    BY <1>0, <2>1, Acquired
<1>4. CASE TasksFinished
  <2>1. /\ HeldBy("processor") /\ Releases /\ trainer' = trainer
        /\ processor' \notin {"drainWait", "endWait", "limitWait", "loop"}
    BY <1>4 DEF TasksFinished, training
  <2> QED
    BY <1>0, <2>1, Released
<1>5. CASE PauseForSync \/ Drain
  <2>1. /\ Acquires("trainer") /\ processor' = processor
        /\ \/ Releases /\ trainer' \notin {"drainWait", "counting"}
           \/ KeepsLock("trainer")
    BY <1>5 DEF PauseForSync, Drain
  <2>2. processor = "loop" => ~InLock("processor")'
    BY <1>0, <2>1, Acquired
  <2>3. ~HeldBy("processor")
    BY <1>0, <2>1, Acquired
  <2>4. lock' \in Locks /\ (trainer' \in {"drainWait", "counting"} => HeldBy("trainer")')
    BY <1>0, <2>1, Acquired
  <2> QED
    BY <2>1, <2>2, <2>3, <2>4
<1>6. CASE Drained \/ ResetStaleness
  <2>1. /\ HeldBy("trainer") /\ Releases /\ processor' = processor
        /\ trainer' \notin {"drainWait", "counting"}
    BY <1>6 DEF Drained, ResetStaleness
  <2>2. /\ lock' \in Locks /\ ~HeldBy("processor")
        /\ processor = "loop" => ~InLock("processor")'
    BY <1>0, <2>1, Released
  <2> QED
    BY <2>1, <2>2
<1>7. CASE ResetFlags
  <2>1. /\ Acquires("trainer") /\ KeepsLock("trainer") /\ trainer' = "counting"
        /\ processor' = processor \/ processor' \in {"unparking", "releasing"}
    BY <1>7 DEF ResetFlags, Notified
  <2>2. /\ lock' \in Locks /\ HeldBy("trainer")' /\ ~HeldBy("processor")
        /\ processor = "loop" => ~InLock("processor")'
    BY <1>0, <2>1, Acquired
  <2> QED
    BY <2>1, <2>2
<1>8. CASE Restart
  <2>1. lock' = <<>> /\ processor' = "loop" /\ trainer' = "collecting"
    BY <1>8 DEF Restart
  <2>2. <<>> \in Locks /\ ToSet(<<>>) = {}
    BY LockIs DEF Locks
  <2> QED
    BY <2>1, <2>2 DEF InLock
<1>9. CASE /\ lock' = lock
           /\ trainer' = trainer \/ trainer' \notin {"drainWait", "counting"}
           /\ processor' = processor \/ processor' \notin {"drainWait", "endWait", "limitWait", "loop"}
  BY <1>9 DEF HeldBy, InLock
<1> QED
  BY <1>1, <1>2, <1>3, <1>4, <1>5, <1>6, <1>7, <1>8, <1>9
     DEF AsyncNext, ProcessorStep, TrainerStep, FeedSample, FeedEnd, SampleGenerated, SampleLost, EndJob,
         Pause, AwaitPending, TakePending, AfterEnd, PutEnd, GetSample, Train, UpdateWeights,
         SaveCheckpoint, StopTraining, asyncVars, training

-----------------------------------------------------------------------------
(* The order of a pause.  When the processor decides to pause, no           *)
(* synchronisation is under way; one that begins before it has the lock     *)
(* comes after its pause.                                                   *)

Syncing == {"draining", "drainWait", "updating", "resetting", "counting"}

LoopIsAlone == processor = "loop" => ~paused /\ trainer \notin Syncing

PauseComesFirst ==
  processor = "pausing" =>
    /\ trainer \notin Syncing \ {"draining"}
    /\ trainer = "draining" => HeldBy("processor")

CountsUnpaused == trainer = "counting" => ~paused

Serial == LoopIsAlone /\ PauseComesFirst /\ CountsUnpaused

\* The trainer does not get the lock from a processor that decides.
LEMMA TrainerWaits ==
  ASSUME Locked, LoopIsFreeFor("trainer")
  PROVE  processor # "loop" /\ (processor = "pausing" => InLock("processor"))
BY DEF Locked, LoopIsFreeFor, Executing, WantsLock, Coroutines, InLock

LEMMA SerialStep ==
  ASSUME Typed, Pushed, Locked, Serial, [AsyncNext]_asyncVars
  PROVE  Serial'
<1> USE DEF Serial, LoopIsAlone, PauseComesFirst, CountsUnpaused, Syncing
<1>0. "processor" \in Coroutines /\ "trainer" \in Coroutines /\ "processor" # "trainer" /\ lock \in Locks
  BY DEF Coroutines, Locked
<1>1. CASE WaitForLock("processor") \/ WaitForLock("trainer")
  <2>1. UNCHANGED <<processor, trainer, paused>> /\ (HeldBy("processor") => HeldBy("processor")')
    BY <1>0, <1>1, Waited DEF WaitForLock, training, flags
  <2> QED
    BY <2>1
<1>2. CASE SetPaused \/ Park \/ CreateTask \/ WaitForTasks \/ Finish
  <2>1. Acquires("processor") /\ trainer' = trainer /\ processor' # "pausing"
    BY <1>2 DEF SetPaused, Park, CreateTask, WaitForTasks, Finish, training
  <2>2. trainer \notin {"drainWait", "counting"}
    BY <1>0, <2>1, Acquired DEF Locked
  <2>3. processor' = "loop" => ~paused' /\ ~paused /\ processor \notin {"signalling", "over"}
    BY <1>2 DEF SetPaused, Park, CreateTask, WaitForTasks, Finish, flags, MayStart
  <2>4. processor' = "loop" => trainer \notin Syncing
    BY <2>2, <2>3 DEF Pushed, PauseHolds
  <2> QED
    BY <2>1, <2>2, <2>3, <2>4
<1>3. CASE Pause
  <2>1. processor = "loop" /\ processor' = "pausing" /\ UNCHANGED <<trainer, paused>>
    BY <1>3 DEF Pause, training, flags
  <2> QED
    BY <2>1
<1>4. CASE AwaitPending \/ TakePending \/ TasksFinished \/ PutEnd
  <2>1. processor' \notin {"loop", "pausing"} /\ UNCHANGED <<trainer, paused>>
    BY <1>4 DEF AwaitPending, TakePending, AfterEnd, TasksFinished, PutEnd, training, flags
  <2> QED
    BY <2>1
<1>5. CASE PauseForSync
  <2>1. Acquires("trainer") /\ LoopIsFreeFor("trainer") /\ Releases /\ trainer' = "draining" /\ processor' = processor
    BY <1>5 DEF PauseForSync, Acquires
  <2>2. processor # "loop" /\ (processor = "pausing" => HeldBy("processor")')
    BY <1>0, <2>1, TrainerWaits, Acquired
  <2> QED
    BY <2>1, <2>2
<1>6. CASE Drain \/ ResetFlags
  <2>1. /\ Acquires("trainer") /\ trainer \in Syncing
        /\ trainer' = "counting" => ~paused'
        /\ processor' = processor \/ processor' \in {"unparking", "releasing"}
    BY <1>6 DEF Drain, ResetFlags, Notified, PausedAfterSync
  <2>2. ~HeldBy("processor")
    BY <1>0, <2>1, Acquired
  <2> QED
    BY <2>1, <2>2
<1>7. CASE Drained \/ UpdateWeights
  <2>1. trainer \in {"drainWait", "updating"} /\ trainer' # "counting" /\ processor' = processor
    BY <1>7 DEF Drained, UpdateWeights
  <2> QED
    BY <2>1
<1>8. CASE GetSample \/ Train \/ SaveCheckpoint \/ StopTraining \/ ResetStaleness
  <2>1. trainer' \notin Syncing /\ UNCHANGED <<processor, paused>>
    BY <1>8 DEF GetSample, Train, SaveCheckpoint, StopTraining, ResetStaleness, flags
  <2> QED
    BY <2>1
<1>9. CASE Restart
  <2>1. processor' = "loop" /\ trainer' = "collecting" /\ paused' = FALSE
    BY <1>9 DEF Restart
  <2> QED
    BY <2>1
<1>10. CASE UNCHANGED <<processor, trainer, paused, lock>>
  BY <1>10 DEF HeldBy
<1> QED
  BY <1>1, <1>2, <1>3, <1>4, <1>5, <1>6, <1>7, <1>8, <1>9, <1>10
     DEF AsyncNext, ProcessorStep, TrainerStep, FeedSample, FeedEnd, SampleGenerated, SampleLost, EndJob,
         asyncVars, training, flags

-----------------------------------------------------------------------------
(* The sample in hand.                                                      *)

HoldsSample == {"limiting", "limitWait", "creating", "holding", "releasing"}

Hand ==
  /\ processor \in HoldsSample => held # {}
  /\ processor \notin HoldsSample \cup {"finishing", "signalling", "over"} => held = {}

LEMMA HandStep ==
  ASSUME Hand, [AsyncNext]_asyncVars
  PROVE  Hand'
<1> USE DEF Hand, HoldsSample
<1>1. CASE TakePending
  BY <1>1 DEF TakePending, AfterEnd
<1>2. CASE CreateTask
  BY <1>2 DEF CreateTask
<1>3. CASE SetPaused \/ Park \/ Pause \/ AwaitPending \/ Finish \/ PutEnd
  BY <1>3 DEF SetPaused, Park, Pause, AwaitPending, Finish, PutEnd, tasks
<1>4. CASE WaitForTasks
  BY <1>4 DEF WaitForTasks, tasks
<1>5. CASE TasksFinished
  BY <1>5 DEF TasksFinished
<1>6. CASE ResetFlags
  BY <1>6 DEF ResetFlags, Notified, tasks
<1>7. CASE Restart
  BY <1>7 DEF Restart
<1>8. CASE UNCHANGED <<processor, held>>
  BY <1>8
<1> QED
  BY <1>1, <1>2, <1>3, <1>4, <1>5, <1>6, <1>7, <1>8
     DEF AsyncNext, ProcessorStep, TrainerStep, FeedSample, FeedEnd, SampleGenerated, SampleLost, EndJob,
         WaitForLock, GetSample, Train, PauseForSync, Drain, Drained, UpdateWeights, ResetStaleness,
         SaveCheckpoint, StopTraining, asyncVars, tasks

-----------------------------------------------------------------------------
(* The counts.  staleness_samples is never more than one sample behind what *)
(* is on the queue, being generated or in the processor's hand: the end     *)
(* signal and lost samples only make it larger, and reset_staleness forgets *)
(* at most the sample in hand.                                              *)

Queued == Len(queue)
Ready  == Cardinality(Waiting)
Busy   == Cardinality(Generating)
InHand == Cardinality(held)

LEMMA Distinct ==
  ASSUME NEW S, NEW s \in Seq(S)
  PROVE  IsFiniteSet(ToSet(s)) /\ Cardinality(ToSet(s)) <= Len(s)
<1>1. s \in Surjection(1..Len(s), ToSet(s))
  BY DEF Surjection, ToSet
<1>2. IsFiniteSet(1..Len(s)) /\ Cardinality(1..Len(s)) = Len(s)
  <2>1. Len(s) \in Nat
    OBVIOUS
  <2> QED  BY <2>1, FS_Interval
<1> QED  BY <1>1, <1>2, FS_Surjection

LEMMA Counts ==
  ASSUME Typed
  PROVE  /\ Queued \in Nat /\ Queued <= MaxRequiredSamples /\ MaxRequiredSamples \in Nat
         /\ IsFiniteSet(Waiting) /\ Ready \in Nat /\ Ready <= Queued
         /\ IsFiniteSet(Generating) /\ Busy \in Nat
         /\ Cardinality(active_tasks) \in Nat /\ Busy <= Cardinality(active_tasks)
         /\ InHand = IF held = {} THEN 0 ELSE 1
<1> USE DEF Typed
<1>1. Queued \in Nat /\ Queued <= MaxRequiredSamples /\ MaxRequiredSamples \in Nat
  BY Sizes DEF QueueTypes, Queued, MaxQueueSize
<1>2. IsFiniteSet(Waiting) /\ Ready \in Nat /\ Ready <= Queued
  <2>1. IsFiniteSet(ToSet(queue)) /\ Cardinality(ToSet(queue)) <= Queued
    BY Distinct DEF QueueTypes, Queued
  <2>2. Waiting \subseteq ToSet(queue)
    BY DEF Waiting
  <2>3. IsFiniteSet(Waiting) /\ Cardinality(Waiting) <= Cardinality(ToSet(queue))
    BY <2>1, <2>2, FS_Subset
  <2>4. Cardinality(Waiting) \in Nat /\ Cardinality(ToSet(queue)) \in Nat
    BY <2>1, <2>3, FS_CardinalityType
  <2> QED
    BY <1>1, <2>1, <2>3, <2>4 DEF Ready
<1>3. /\ IsFiniteSet(Generating) /\ Busy \in Nat
      /\ Cardinality(active_tasks) \in Nat /\ Busy <= Cardinality(active_tasks)
  BY GeneratingIsSmaller, FS_CardinalityType DEF TaskTypes, Busy
<1>4. InHand = IF held = {} THEN 0 ELSE 1
  <2>1. CASE held = {}
    BY <2>1, FS_EmptySet DEF InHand
  <2>2. CASE held # {}
    <3>1. PICK s \in 1..loaded : held = {s}
      BY <2>2 DEF TaskTypes
    <3>2. Cardinality({s}) = 1
      BY FS_Singleton
    <3> QED  BY <2>2, <3>1, <3>2 DEF InHand
  <2> QED  BY <2>1, <2>2
<1> QED
  BY <1>1, <1>2, <1>3, <1>4

\* A message that is put adds at most itself; a message that is taken adds none.
LEMMA PutCounts ==
  ASSUME Typed, NEW m \in Messages, PutSample(m)
  PROVE  /\ Len(queue') \in Nat /\ Len(queue') <= Len(queue) + 1
         /\ Waiting' \subseteq Waiting \cup {m}
         /\ m.sample = End => Waiting' \subseteq Waiting
<1> USE DEF Typed, QueueTypes
<1> DEFINE kept == IF Len(queue) >= MaxQueueSize THEN Tail(queue) ELSE queue
<1>1. queue' = Append(kept, m)
  BY DEF PutSample
<1>2. kept \in Seq(Messages) /\ Len(kept) \in Nat /\ Len(kept) <= Len(queue) /\ ToSet(kept) \subseteq ToSet(queue)
  <2>1. CASE Len(queue) >= MaxQueueSize
    <3>1. queue # <<>>
      BY <2>1, Sizes
    <3>2. \A i \in 1..Len(Tail(queue)) : Tail(queue)[i] = queue[i + 1] /\ i + 1 \in 1..Len(queue)
      BY <3>1
    <3>3. ToSet(Tail(queue)) \subseteq ToSet(queue)
      BY <3>1, <3>2 DEF ToSet
    <3> QED  BY <2>1, <3>1, <3>3
  <2>2. CASE ~(Len(queue) >= MaxQueueSize)
    BY <2>2
  <2> QED  BY <2>1, <2>2
<1> HIDE DEF kept
<1>3. Len(queue') = Len(kept) + 1
  BY <1>1, <1>2
<1>4. ToSet(queue') \subseteq ToSet(kept) \cup {m}
  <2>1. \A i \in 1..(Len(kept) + 1) : Append(kept, m)[i] = IF i = Len(kept) + 1 THEN m ELSE kept[i]
    BY <1>2
  <2>2. DOMAIN queue' = 1..(Len(kept) + 1) /\ DOMAIN kept = 1..Len(kept)
    BY <1>1, <1>2
  <2>3. \A i \in DOMAIN queue' : queue'[i] = m \/ queue'[i] \in ToSet(kept)
    BY <1>1, <1>2, <2>1, <2>2 DEF ToSet
  <2> QED  BY <2>3 DEF ToSet
<1>5. Waiting' \subseteq Waiting \cup {m} /\ (m.sample = End => Waiting' \subseteq Waiting)
  BY <1>2, <1>4 DEF Waiting
<1> QED
  BY <1>2, <1>3, <1>5

LEMMA TakeCounts ==
  ASSUME Typed, queue # <<>>, queue' = Tail(queue)
  PROVE  Len(queue') <= Len(queue) /\ Waiting' \subseteq Waiting
<1> USE DEF Typed, QueueTypes
<1>1. \A i \in 1..Len(Tail(queue)) : Tail(queue)[i] = queue[i + 1] /\ i + 1 \in 1..Len(queue)
  OBVIOUS
<1>2. ToSet(Tail(queue)) \subseteq ToSet(queue)
  BY <1>1 DEF ToSet
<1> QED
  BY <1>2 DEF Waiting

\* What is ready or being generated, before and after a step.
LEMMA FewerGenerate ==
  ASSUME Typed, Generating' \subseteq Generating
  PROVE  Busy' \in Nat /\ Busy' <= Busy
<1>1. IsFiniteSet(Generating) /\ Busy \in Nat
  BY Counts
<1> QED
  BY <1>1, FS_Subset, FS_CardinalityType DEF Busy

LEMMA FewerReady ==
  ASSUME Typed, Waiting' \subseteq Waiting
  PROVE  Ready' \in Nat /\ Ready' <= Ready
<1>1. IsFiniteSet(Waiting) /\ Ready \in Nat
  BY Counts
<1> QED
  BY <1>1, FS_Subset, FS_CardinalityType DEF Ready

LEMMA OneReady ==
  ASSUME Typed, NEW m, Waiting' \subseteq Waiting \cup {m}
  PROVE  Ready' \in Nat /\ Ready' <= Ready + 1
<1>1. IsFiniteSet(Waiting) /\ Ready \in Nat
  BY Counts
<1>2. IsFiniteSet(Waiting \cup {m}) /\ Cardinality(Waiting \cup {m}) <= Cardinality(Waiting) + 1
  BY <1>1, AddOne
<1>3. IsFiniteSet(Waiting') /\ Cardinality(Waiting') <= Cardinality(Waiting \cup {m})
  BY <1>2, FS_Subset
<1>4. Cardinality(Waiting') \in Nat /\ Cardinality(Waiting \cup {m}) \in Nat
  BY <1>2, <1>3, FS_CardinalityType
<1> QED
  BY <1>1, <1>2, <1>3, <1>4 DEF Ready

LEMMA OneGenerates ==
  ASSUME Typed, NEW t, Generating' = Generating \cup {t}
  PROVE  Busy' \in Nat /\ Busy' >= 1 /\ Busy' <= Busy + 1
<1>1. IsFiniteSet(Generating) /\ Busy \in Nat
  BY Counts
<1>2. IsFiniteSet(Generating') /\ Cardinality(Generating') <= Cardinality(Generating) + 1
  BY <1>1, AddOne
<1>3. Cardinality(Generating') \in Nat /\ Cardinality(Generating') # 0
  BY <1>2, FS_CardinalityType, FS_EmptySet
<1> QED
  BY <1>1, <1>2, <1>3 DEF Busy

LEMMA OneLess ==
  ASSUME Typed, NEW t \in Generating, Generating' = Generating \ {t}
  PROVE  Busy' \in Nat /\ Busy' = Busy - 1
<1>1. IsFiniteSet(Generating) /\ Busy \in Nat
  BY Counts
<1>2. IsFiniteSet(Generating \ {t}) /\ Cardinality(Generating \ {t}) = Cardinality(Generating) - 1
  BY <1>1, FS_RemoveElement
<1>3. Cardinality(Generating \ {t}) \in Nat
  BY <1>2, FS_CardinalityType
<1> QED
  BY <1>2, <1>3 DEF Busy

\* Where the processor is while it pauses.
AtPause == {"draining", "drainWait", "parking", "parked", "unparking"}

Staleness ==
  /\ staleness_samples \in Nat
  /\ processor # "over" => Queued + Busy + InHand <= staleness_samples + 1
  /\ processor = "loop" => Queued <= staleness_samples
  /\ processor \in AtPause /\ ~paused /\ trainer # "counting" => Queued + Busy <= staleness_samples

Bounded ==
  /\ Ready + Busy + InHand <= MaxRequiredSamples + 1
  /\ processor = "getting" => Ready + Busy + InHand <= MaxRequiredSamples

Counted == Staleness /\ Bounded

\* A step that changes no count and is not one of the three that the
\* processor pauses or goes on with.
CountsStay ==
  /\ UNCHANGED staleness_samples
  /\ Queued' \in Nat /\ Busy' \in Nat /\ InHand' \in Nat /\ Ready' \in Nat
  /\ Queued' + Busy' <= Queued + Busy /\ InHand' = InHand
  /\ Ready' + Busy' <= Ready + Busy
  /\ processor' = "over" \/ processor # "over"
  /\ processor' = "loop" => processor = "loop" /\ Queued' <= Queued
  /\ processor' \in AtPause /\ ~paused' /\ trainer' # "counting" =>
       processor \in AtPause /\ ~paused /\ trainer # "counting"
  /\ processor' = "getting" => processor = "getting"

LEMMA CountsStayKeeps ==
  ASSUME Typed, Counted, CountsStay
  PROVE  Counted'
<1>1. /\ Queued \in Nat /\ Busy \in Nat /\ InHand \in Nat /\ Ready \in Nat
      /\ MaxRequiredSamples \in Nat
  BY Counts
<1>2. \A a, b, c, d, f, n \in Nat : a + b <= c + d /\ c + d + f <= n => a + b + f <= n
  OBVIOUS
<1>a. Queued' + Busy' <= Queued + Busy /\ Ready' + Busy' <= Ready + Busy
  BY DEF CountsStay
<1>b. Queued' \in Nat /\ Busy' \in Nat /\ Ready' \in Nat
  BY DEF CountsStay
<1>4. \A a, b, c, d, n \in Nat : a + b <= c + d /\ c + d <= n => a + b <= n
  OBVIOUS
<1>5. \A a, b, n \in Nat : a <= b /\ b <= n => a <= n
  OBVIOUS
<1>6. staleness_samples \in Nat /\ staleness_samples + 1 \in Nat /\ MaxRequiredSamples + 1 \in Nat
  BY <1>1 DEF Counted, Staleness
<1>7. /\ Queued' \in Nat /\ Busy' \in Nat /\ InHand' \in Nat /\ Ready' \in Nat
      /\ Queued' + Busy' <= Queued + Busy /\ InHand' = InHand /\ Ready' + Busy' <= Ready + Busy
      /\ staleness_samples' = staleness_samples
  BY DEF CountsStay
<1>8. processor' # "over" => Queued' + Busy' + InHand' <= staleness_samples' + 1
  <2>1. processor' # "over" => Queued + Busy + InHand <= staleness_samples + 1
    BY DEF CountsStay, Counted, Staleness
  <2> DEFINE n == staleness_samples + 1
  <2> n \in Nat
    BY <1>6
  <2>2. processor' # "over" => Queued' + Busy' + InHand <= n
    <3>1. processor' # "over" => Queued + Busy + InHand <= n
      BY <2>1
    <3> HIDE DEF n
    <3> QED  BY <1>1, <1>2, <1>a, <1>b, <3>1
  <2> QED
    BY <1>7, <2>2
<1>9. processor' = "loop" => Queued' <= staleness_samples'
  <2>1. processor' = "loop" => Queued <= staleness_samples /\ Queued' <= Queued
    BY DEF CountsStay, Counted, Staleness
  <2> QED
    BY <1>1, <1>5, <1>6, <1>7, <2>1
<1>10. processor' \in AtPause /\ ~paused' /\ trainer' # "counting" => Queued' + Busy' <= staleness_samples'
  <2>1. processor' \in AtPause /\ ~paused' /\ trainer' # "counting" => Queued + Busy <= staleness_samples
    BY DEF CountsStay, Counted, Staleness
  <2> QED
    BY <1>1, <1>4, <1>6, <1>7, <2>1
<1>11. Ready' + Busy' + InHand' <= MaxRequiredSamples + 1
  <2>1. Ready + Busy + InHand <= MaxRequiredSamples + 1
    BY DEF Counted, Bounded
  <2> DEFINE n == MaxRequiredSamples + 1
  <2> n \in Nat
    BY <1>6
  <2>2. Ready' + Busy' + InHand <= n
    <3>1. Ready + Busy + InHand <= n
      BY <2>1
    <3> HIDE DEF n
    <3> QED  BY <1>1, <1>2, <1>a, <1>b, <3>1
  <2> QED
    BY <1>7, <2>2
<1>12. processor' = "getting" => Ready' + Busy' + InHand' <= MaxRequiredSamples
  <2>1. processor' = "getting" => Ready + Busy + InHand <= MaxRequiredSamples
    BY DEF CountsStay, Counted, Bounded
  <2>2. processor' = "getting" => Ready' + Busy' + InHand <= MaxRequiredSamples
    BY <1>1, <1>2, <1>a, <1>b, <2>1
  <2> QED
    BY <1>7, <2>2
<1>3. Staleness' /\ Bounded'
  <2>1. (MaxRequiredSamples + 1)' = MaxRequiredSamples + 1 /\ MaxRequiredSamples' = MaxRequiredSamples
    BY DEF MaxRequiredSamples, PeriodSamples
  <2> QED
    BY <1>6, <1>7, <1>8, <1>9, <1>10, <1>11, <1>12, <2>1 DEF Staleness, Bounded, AtPause
<1> QED
  BY <1>3 DEF Counted

\* The steps that leave queue, hand and count alone, and generate no more.
LEMMA QuietCounts ==
  ASSUME Typed, UNCHANGED <<queue, held, staleness_samples>>, Generating' \subseteq Generating,
         processor' = "over" \/ processor # "over",
         processor' = "loop" => processor = "loop",
         processor' = "getting" => processor = "getting",
         processor' \in AtPause /\ ~paused' /\ trainer' # "counting" =>
           processor \in AtPause /\ ~paused /\ trainer # "counting"
  PROVE  CountsStay
<1>1. Queued' = Queued /\ Ready' = Ready /\ InHand' = InHand
  BY DEF Queued, Ready, InHand, Waiting
<1>2. Queued \in Nat /\ Ready \in Nat /\ InHand \in Nat /\ Busy \in Nat
  BY Counts
<1>3. Busy' \in Nat /\ Busy' <= Busy
  BY FewerGenerate
<1>4. \A a, b, c \in Nat : b <= c => a + b <= a + c
  OBVIOUS
<1>5. Queued' + Busy' <= Queued + Busy /\ Ready' + Busy' <= Ready + Busy
  BY <1>1, <1>2, <1>3, <1>4
<1>6. Queued' <= Queued
  BY <1>1, <1>2
<1> QED
  BY <1>1, <1>2, <1>3, <1>5, <1>6 DEF CountsStay

LEMMA QuietStep ==
  ASSUME Typed, Locked, Counted,
         \/ FeedSample \/ FeedEnd \/ SampleLost \/ EndJob \/ UNCHANGED asyncVars
         \/ WaitForLock("processor") \/ Pause \/ SetPaused \/ WaitForTasks \/ TasksFinished \/ Finish
         \/ WaitForLock("trainer") \/ Train \/ PauseForSync \/ Drain \/ Drained \/ UpdateWeights
         \/ ResetFlags \/ SaveCheckpoint \/ StopTraining
  PROVE  Counted'
<1>1. CASE FeedSample \/ FeedEnd \/ EndJob \/ WaitForLock("processor") \/ WaitForLock("trainer") \/ UNCHANGED asyncVars
  <2>1. UNCHANGED <<queue, held, staleness_samples, active_tasks, processor, paused, trainer>>
    BY <1>1 DEF FeedSample, FeedEnd, EndJob, WaitForLock, asyncVars, tasks, messages, flags, training
  <2> QED
    BY <2>1, QuietCounts, CountsStayKeeps DEF Generating
<1>2. CASE SampleLost
  <2>1. PICK t \in Generating, s \in {"cancelled", "failed"} :
          active_tasks' = (active_tasks \ {t}) \cup {[t EXCEPT !.status = s]}
    BY <1>2 DEF SampleLost
  <2>2. t \in active_tasks
    BY DEF Generating
  <2>3. Generating' \subseteq Generating
    BY <2>1, <2>2, TaskEnds DEF Statuses, Generating
  <2>4. UNCHANGED <<queue, held, staleness_samples, processor, paused, trainer>>
    BY <1>2 DEF SampleLost, messages, flags, training
  <2> QED
    BY <2>3, <2>4, QuietCounts, CountsStayKeeps
<1>3. CASE Pause \/ SetPaused \/ Finish
  <2>1. /\ UNCHANGED <<queue, held, staleness_samples, active_tasks, trainer>>
        /\ processor \in {"loop", "pausing", "finishing"} /\ processor' \notin {"loop", "getting"}
        /\ processor' \in AtPause => paused'
    BY <1>3 DEF Pause, SetPaused, Finish, tasks, messages, training, AtPause
  <2>2. Generating' \subseteq Generating
    BY <2>1 DEF Generating
  <2> QED
    BY <2>1, <2>2, QuietCounts, CountsStayKeeps
<1>4. CASE WaitForTasks \/ TasksFinished
  <2>1. /\ UNCHANGED <<queue, held, staleness_samples, trainer, paused>>
        /\ active_tasks' \in {active_tasks, Generating}
        /\ processor # "over" /\ processor' \notin {"loop", "getting"}
        /\ processor' \in AtPause => processor \in AtPause
    BY <1>4 DEF WaitForTasks, TasksFinished, tasks, messages, training, flags, AtPause
  <2>2. Generating' \subseteq Generating
    BY <2>1 DEF Generating
  <2> QED
    BY <2>1, <2>2, QuietCounts, CountsStayKeeps
<1>5. CASE Train \/ UpdateWeights \/ SaveCheckpoint \/ StopTraining \/ PauseForSync \/ Drain \/ Drained
  <2>1. /\ UNCHANGED <<queue, held, staleness_samples, processor>>
        /\ active_tasks' \in {active_tasks, Generating}
        /\ trainer # "counting" /\ (paused' = paused \/ paused')
    BY <1>5 DEF Train, UpdateWeights, SaveCheckpoint, StopTraining, PauseForSync, Drain, Drained,
                tasks, messages, flags
  <2>2. Generating' \subseteq Generating
    BY <2>1 DEF Generating
  <2> QED
    BY <2>1, <2>2, QuietCounts, CountsStayKeeps
<1>6. CASE ResetFlags
  <2>1. /\ UNCHANGED <<queue, held, staleness_samples, active_tasks>>
        /\ trainer' = "counting"
        /\ processor' = processor \/ (processor # "over" /\ processor' \in {"unparking", "releasing"})
    BY <1>6 DEF ResetFlags, Notified, tasks, messages
  <2>2. Generating' \subseteq Generating
    BY <2>1 DEF Generating
  <2> QED
    BY <2>1, <2>2, QuietCounts, CountsStayKeeps
<1> QED
  BY <1>1, <1>2, <1>3, <1>4, <1>5, <1>6

\* A finished sample moves from its task to the queue.
LEMMA GeneratedCounts ==
  ASSUME Typed, Locked, Counted, SampleGenerated
  PROVE  Counted'
<1>1. PICK t \in Generating :
        /\ PutSample([sample |-> t.sample, version |-> t.version])
        /\ active_tasks' = (active_tasks \ {t}) \cup {[t EXCEPT !.status = "done"]}
  BY DEF SampleGenerated
<1>2. UNCHANGED <<held, staleness_samples, processor, paused, trainer>>
  BY DEF SampleGenerated, flags, training
<1>3. processor # "loop"
  BY DEF SampleGenerated, LoopIsFreeFor, Executing, Locked, InLock, Coroutines
<1>4. t \in active_tasks /\ t \in TaskRecords /\ t.status = "generating"
  BY DEF Generating, Typed, TaskTypes
<1>5. Generating' = Generating \ {t}
  <2>1. [t EXCEPT !.status = "done"].status = "done"
    BY <1>4 DEF TaskRecords
  <2> QED  BY <1>1, <2>1 DEF Generating
<1>6. Busy' \in Nat /\ Busy' = Busy - 1 /\ Busy \in Nat /\ Queued \in Nat /\ Ready \in Nat /\ InHand \in Nat
  BY <1>5, OneLess, Counts
<1>7. [sample |-> t.sample, version |-> t.version] \in Messages
  BY <1>4 DEF TaskRecords, Messages, Typed, TrainTypes, FeedTypes
<1>8. Queued' \in Nat /\ Queued' <= Queued + 1 /\ Ready' \in Nat /\ Ready' <= Ready + 1
  BY <1>1, <1>7, PutCounts, OneReady DEF Queued
<1>9. \A a, b, c, d \in Nat : a <= b + 1 /\ c = d - 1 => a + c <= b + d
  OBVIOUS
<1>10. Queued' + Busy' <= Queued + Busy /\ Ready' + Busy' <= Ready + Busy
  BY <1>6, <1>8, <1>9
<1>11. InHand' = InHand
  BY <1>2 DEF InHand
<1> QED
  BY <1>2, <1>3, <1>6, <1>8, <1>10, <1>11, CountsStayKeeps DEF CountsStay

\* The trainer takes a message; the end signal is no sample.
LEMMA GetCounts ==
  ASSUME Typed, Counted, GetSample
  PROVE  Counted'
<1>1. /\ UNCHANGED <<held, staleness_samples, active_tasks, processor, paused>>
      /\ queue # <<>> /\ queue' = Tail(queue) /\ trainer # "counting"
  BY DEF GetSample, tasks, flags
<1>2. Queued' \in Nat /\ Queued' <= Queued /\ Ready' \in Nat /\ Ready' <= Ready
  <2>1. Len(queue') \in Nat
    BY <1>1 DEF Typed, QueueTypes
  <2> QED  BY <1>1, <2>1, TakeCounts, FewerReady DEF Queued
<1>3. Busy' = Busy /\ InHand' = InHand
  BY <1>1 DEF Busy, InHand, Generating
<1>4. Queued \in Nat /\ Ready \in Nat /\ Busy \in Nat /\ InHand \in Nat
  BY Counts
<1>5. \A a, b, c \in Nat : a <= b => a + c <= b + c
  OBVIOUS
<1>6. Queued' + Busy' <= Queued + Busy /\ Ready' + Busy' <= Ready + Busy
  BY <1>2, <1>3, <1>4, <1>5
<1> QED
  BY <1>1, <1>2, <1>3, <1>4, <1>6, CountsStayKeeps DEF CountsStay

LEMMA PutEndCounts ==
  ASSUME Typed, Counted, PutEnd
  PROVE  Counted'
<1>1. /\ UNCHANGED <<held, staleness_samples, active_tasks>>
      /\ processor' = "over" /\ PutSample([sample |-> End, version |-> 0])
  BY DEF PutEnd, tasks
<1>2. [sample |-> End, version |-> 0] \in Messages /\ [sample |-> End, version |-> 0].sample = End
  BY DEF Messages, End, Typed, FeedTypes
<1>3. Ready' \in Nat /\ Ready' <= Ready
  BY <1>1, <1>2, PutCounts, FewerReady
<1>4. Busy' = Busy /\ InHand' = InHand
  BY <1>1 DEF Busy, InHand, Generating
<1>5. Ready \in Nat /\ Busy \in Nat /\ InHand \in Nat /\ MaxRequiredSamples \in Nat
  BY Counts
<1>6. \A a, b, c, d, n \in Nat : a <= b /\ b + c + d <= n + 1 => a + c + d <= n + 1
  OBVIOUS
<1>7. Ready + Busy + InHand <= MaxRequiredSamples + 1
  BY DEF Counted, Bounded
<1>8. Ready' + Busy + InHand <= MaxRequiredSamples + 1
  BY <1>3, <1>5, <1>6, <1>7
<1>9. staleness_samples' \in Nat
  BY <1>1 DEF Counted, Staleness
<1> QED
  BY <1>1, <1>4, <1>8, <1>9 DEF Counted, Staleness, Bounded, AtPause

\* The processor asks for a sample when staleness_samples leaves room for one.
LEMMA RoomForOne ==
  ASSUME Typed, Hand, Counted, processor = "loop", ~ShouldPause
  PROVE  Ready + Busy + InHand <= MaxRequiredSamples
<1>1. /\ Queued \in Nat /\ Ready \in Nat /\ Ready <= Queued /\ Busy \in Nat /\ InHand = 0
      /\ MaxRequiredSamples \in Nat /\ staleness_samples \in Nat
  BY Counts DEF Hand, HoldsSample, Counted, Staleness
<1>2. ~(staleness_samples >= MaxRequiredSamples)
  BY DEF ShouldPause
<1>3. Queued + Busy + InHand <= staleness_samples + 1
  BY DEF Counted, Staleness
<1>4. \A q, r, b, h, s, m \in Nat : r <= q /\ q + b + h <= s + 1 /\ ~(s >= m) => r + b + h <= m
  OBVIOUS
<1> QED
  BY <1>1, <1>2, <1>3, <1>4

LEMMA AwaitCounts ==
  ASSUME Typed, Hand, Counted, AwaitPending
  PROVE  Counted'
<1>1. /\ UNCHANGED <<held, staleness_samples, active_tasks, queue>>
      /\ processor = "loop" /\ processor' = "getting" /\ ~ShouldPause
  BY DEF AwaitPending, tasks, messages
<1>2. Queued' = Queued /\ Ready' = Ready /\ Busy' = Busy /\ InHand' = InHand
  BY <1>1 DEF Queued, Ready, Busy, InHand, Waiting, Generating
<1> QED
  BY <1>1, <1>2, RoomForOne DEF Counted, Staleness, Bounded, AtPause

\* What it takes is counted before it is in hand.
LEMMA TakeStep ==
  ASSUME Typed, TaskTypes', Hand, Counted, TakePending
  PROVE  Counted'
<1>1. /\ processor \in {"loop", "getting"}
      /\ processor = "loop" => ~ShouldPause
      /\ staleness_samples' = staleness_samples + 1
      /\ UNCHANGED <<active_tasks, queue>>
      /\ processor' \in {"finishing", "ending", "limiting", "creating"}
  BY DEF TakePending, AfterEnd, messages
<1>2. Queued' = Queued /\ Ready' = Ready /\ Busy' = Busy
  BY <1>1 DEF Queued, Ready, Busy, Waiting, Generating
<1>3. held = {} /\ (held' = held \/ \E s : held' = {s})
  BY <1>1 DEF TakePending, Hand, HoldsSample
<1>4. InHand = 0 /\ InHand' \in Nat /\ InHand' <= 1
  <2>1. \A s : Cardinality({s}) = 1
    BY FS_Singleton
  <2>2. CASE held' = held
    BY <1>3, <2>2, FS_EmptySet DEF InHand
  <2>3. CASE \E s : held' = {s}
    <3>1. PICK s : held' = {s}
      BY <2>3
    <3>2. InHand' = 1
      BY <2>1, <3>1 DEF InHand
    <3> QED  BY <1>3, <3>2, FS_EmptySet DEF InHand
  <2> QED  BY <1>3, <2>2, <2>3
<1>5. /\ Queued \in Nat /\ Ready \in Nat /\ Busy \in Nat
      /\ MaxRequiredSamples \in Nat /\ staleness_samples \in Nat
  BY Counts DEF Counted, Staleness
<1>6. Queued + Busy + InHand <= staleness_samples + 1
  BY <1>1 DEF Counted, Staleness
<1>7. Ready + Busy + InHand <= MaxRequiredSamples
  BY <1>1, RoomForOne DEF Counted, Bounded
<1>8. \A a, b, h, n \in Nat : a + b + 0 <= n /\ h <= 1 => a + b + h <= n + 1
  OBVIOUS
<1>9. Queued + Busy + InHand' <= (staleness_samples + 1) + 1
  <2>1. staleness_samples + 1 \in Nat
    BY <1>5
  <2> QED  BY <1>4, <1>5, <1>6, <1>8, <2>1
<1>10. Ready + Busy + InHand' <= MaxRequiredSamples + 1
  BY <1>4, <1>5, <1>7, <1>8
<1> QED
  BY <1>1, <1>2, <1>5, <1>9, <1>10 DEF Counted, Staleness, Bounded, AtPause

\* The sample in hand becomes a task: the queue alone is within the count, for
\* the new task is generating.
LEMMA CreateStep ==
  ASSUME Typed, Hand, Counted, CreateTask
  PROVE  Counted'
<1>1. /\ UNCHANGED <<staleness_samples, queue>> /\ processor \in {"creating", "releasing"}
  BY DEF CreateTask, messages
<1>2. Queued' = Queued /\ Ready' = Ready
  BY <1>1 DEF Queued, Ready, Waiting
<1>3. PICK s \in 1..loaded : held = {s}
  BY <1>1 DEF Hand, HoldsSample, Typed, TaskTypes
<1>4. /\ Queued \in Nat /\ Ready \in Nat /\ Busy \in Nat /\ InHand = 1
      /\ MaxRequiredSamples \in Nat /\ staleness_samples \in Nat
  BY <1>3, Counts DEF Counted, Staleness
<1>5. Queued + Busy + InHand <= staleness_samples + 1 /\ Ready + Busy + InHand <= MaxRequiredSamples + 1
  BY <1>1 DEF Counted, Staleness, Bounded
<1>6. CASE MayStart
  <2> DEFINE t == [sample |-> s, version |-> rollout_version, status |-> "generating"]
  <2>1. active_tasks' = active_tasks \cup {t} /\ held' = {} /\ processor' = "loop" /\ t.status = "generating"
    BY <1>3, <1>6 DEF CreateTask
  <2> HIDE DEF t
  <2>2. Generating' = Generating \cup {t}
    BY <2>1 DEF Generating
  <2>3. Busy' \in Nat /\ Busy' >= 1 /\ Busy' <= Busy + 1
    BY <2>2, OneGenerates
  <2>4. InHand' = 0
    BY <2>1, FS_EmptySet DEF InHand
  <2>5. \A a, b, c, n \in Nat : a + b + 1 <= n + 1 /\ c <= b + 1 => a + c + 0 <= n + 1
    OBVIOUS
  <2>6. \A a, c, n \in Nat : a + c + 0 <= n + 1 /\ c >= 1 => a <= n
    OBVIOUS
  <2>7. Queued + Busy' + 0 <= staleness_samples + 1 /\ Ready + Busy' + 0 <= MaxRequiredSamples + 1
    BY <1>4, <1>5, <2>3, <2>5
  <2>8. Queued <= staleness_samples
    BY <1>4, <2>3, <2>6, <2>7
  <2> QED
    BY <1>1, <1>2, <1>4, <2>1, <2>4, <2>7, <2>8 DEF Counted, Staleness, Bounded, AtPause
<1>7. CASE ~MayStart
  <2>1. UNCHANGED <<active_tasks, held>> /\ processor' = "holding"
    BY <1>7 DEF CreateTask
  <2>2. Busy' = Busy /\ InHand' = InHand
    BY <2>1 DEF Busy, InHand, Generating
  <2> QED
    BY <1>1, <1>2, <1>4, <1>5, <2>1, <2>2 DEF Counted, Staleness, Bounded, AtPause
<1> QED
  BY <1>6, <1>7

\* The processor leaves a pause when reset_staleness has counted.
LEMMA ParkStep ==
  ASSUME Typed, Locked, Counted, Park
  PROVE  Counted'
<1>1. /\ UNCHANGED <<held, staleness_samples, active_tasks, queue, paused, trainer>>
      /\ processor \in AtPause /\ processor' = IF paused THEN "parked" ELSE "loop"
      /\ Acquires("processor")
  BY DEF Park, tasks, messages, flags, training, AtPause
<1>2. Queued' = Queued /\ Ready' = Ready /\ Busy' = Busy /\ InHand' = InHand
  BY <1>1 DEF Queued, Ready, Busy, InHand, Waiting, Generating
<1>3. trainer # "counting"
  BY <1>1, Acquired DEF Locked, Coroutines
<1>4. Queued \in Nat /\ Busy \in Nat /\ staleness_samples \in Nat
  BY Counts DEF Counted, Staleness
<1>5. ~paused => Queued <= staleness_samples
  <2>1. ~paused => Queued + Busy <= staleness_samples
    BY <1>1, <1>3 DEF Counted, Staleness
  <2>2. \A a, b, n \in Nat : a + b <= n => a <= n
    OBVIOUS
  <2> QED  BY <1>4, <2>1, <2>2
<1>6. Queued + Busy + InHand <= staleness_samples + 1 /\ Ready + Busy + InHand <= MaxRequiredSamples + 1
  BY <1>1 DEF Counted, Staleness, Bounded, AtPause
<1>7. Staleness'
  BY <1>1, <1>2, <1>4, <1>5, <1>6 DEF Staleness, AtPause
<1>8. Bounded'
  BY <1>1, <1>2, <1>6 DEF Bounded
<1> QED
  BY <1>7, <1>8 DEF Counted

LEMMA ResetStep ==
  ASSUME Typed, Serial, Counted, ResetStaleness
  PROVE  Counted'
<1>1. /\ UNCHANGED <<held, active_tasks, queue, paused, processor>>
      /\ staleness_samples' = Cardinality(active_tasks) + Queued
      /\ trainer = "counting"
  BY DEF ResetStaleness, Outstanding, messages, flags, Queued
<1>2. Queued' = Queued /\ Ready' = Ready /\ Busy' = Busy /\ InHand' = InHand
  BY <1>1 DEF Queued, Ready, Busy, InHand, Waiting, Generating
<1>3. processor # "loop"
  BY <1>1 DEF Serial, LoopIsAlone, Syncing
<1>4. /\ Queued \in Nat /\ Busy \in Nat /\ InHand \in Nat /\ InHand <= 1
      /\ Cardinality(active_tasks) \in Nat /\ Busy <= Cardinality(active_tasks)
  BY Counts
<1>5. \A a, b, c, h \in Nat : b <= c /\ h <= 1 => a + b <= c + a /\ a + b + h <= (c + a) + 1 /\ c + a \in Nat
  OBVIOUS
<1>6. /\ Queued + Busy <= Cardinality(active_tasks) + Queued
      /\ Queued + Busy + InHand <= (Cardinality(active_tasks) + Queued) + 1
      /\ Cardinality(active_tasks) + Queued \in Nat
  BY <1>4, <1>5
<1>7. Staleness'
  BY <1>1, <1>2, <1>3, <1>6 DEF Staleness
<1>8. Bounded'
  BY <1>1, <1>2 DEF Bounded, Counted
<1> QED
  BY <1>7, <1>8 DEF Counted

LEMMA FreshCounts ==
  ASSUME queue = <<>>, active_tasks = {}, held = {}, staleness_samples = 0, processor = "loop"
  PROVE  Counted
<1>1. Waiting = {} /\ Generating = {}
  BY DEF Waiting, Generating, ToSet
<1>2. Queued = 0 /\ Ready = 0 /\ Busy = 0 /\ InHand = 0
  BY <1>1, FS_EmptySet DEF Queued, Ready, Busy, InHand
<1>3. MaxRequiredSamples \in Nat
  BY Sizes DEF MaxQueueSize
<1> QED
  BY <1>2, <1>3 DEF Counted, Staleness, Bounded, AtPause

LEMMA CountedStep ==
  ASSUME Typed, TaskTypes', Locked, Serial, Hand, Counted, [AsyncNext]_asyncVars
  PROVE  Counted'
<1>1. CASE Restart
  <2>1. queue' = <<>> /\ active_tasks' = {} /\ held' = {} /\ staleness_samples' = 0 /\ processor' = "loop"
    BY <1>1 DEF Restart
  <2>2. Waiting' = {} /\ Generating' = {}
    BY <2>1 DEF Waiting, Generating, ToSet
  <2>3. Queued' = 0 /\ Ready' = 0 /\ Busy' = 0 /\ InHand' = 0
    BY <2>1, <2>2, FS_EmptySet DEF Queued, Ready, Busy, InHand
  <2>4. MaxRequiredSamples \in Nat
    BY Sizes DEF MaxQueueSize
  <2> QED
    BY <2>1, <2>3, <2>4 DEF Counted, Staleness, Bounded, AtPause
<1>2. CASE SampleGenerated \/ GetSample \/ PutEnd \/ AwaitPending \/ TakePending \/ CreateTask \/ Park
           \/ ResetStaleness
  BY <1>2, GeneratedCounts, GetCounts, PutEndCounts, AwaitCounts, TakeStep, CreateStep, ParkStep, ResetStep
<1>3. CASE \/ FeedSample \/ FeedEnd \/ SampleLost \/ EndJob \/ UNCHANGED asyncVars
           \/ WaitForLock("processor") \/ Pause \/ SetPaused \/ WaitForTasks \/ TasksFinished \/ Finish
           \/ WaitForLock("trainer") \/ Train \/ PauseForSync \/ Drain \/ Drained \/ UpdateWeights
           \/ ResetFlags \/ SaveCheckpoint \/ StopTraining
  BY <1>3, QuietStep
<1> QED
  BY <1>1, <1>2, <1>3 DEF AsyncNext, ProcessorStep, TrainerStep

-----------------------------------------------------------------------------
(* The reason to pause: staleness_samples, at the moment of the decision    *)
(* and until reset_staleness, which finds the flag reset.                   *)

Reasons ==
  /\ processor = "pausing" => staleness_samples >= MaxRequiredSamples
  /\ paused /\ ~param_sync_paused => staleness_samples >= MaxRequiredSamples

LEMMA ReasonsStep ==
  ASSUME Typed, Serial, Counted, Reasons, [AsyncNext]_asyncVars
  PROVE  Reasons'
<1> USE DEF Reasons
<1>0. /\ MaxRequiredSamples \in Nat /\ staleness_samples \in Nat /\ Queued \in Nat
      /\ {paused, param_sync_paused} \subseteq BOOLEAN
  BY Counts DEF Counted, Staleness, Typed, FlagTypes
<1>1. CASE Pause
  <2>1. /\ processor = "loop" /\ ~paused
        /\ UNCHANGED <<paused, param_sync_paused, staleness_samples>>
    BY <1>1 DEF Pause, Serial, LoopIsAlone, flags, tasks
  <2>2. ShouldPause
    BY <1>1, <2>1 DEF Pause
  <2>3. Queued <= staleness_samples
    BY <2>1 DEF Counted, Staleness
  <2>4. \A q, s, m \in Nat : (q >= m \/ s >= m) /\ q <= s => s >= m
    OBVIOUS
  <2>5. staleness_samples >= MaxRequiredSamples
    BY <1>0, <2>2, <2>3, <2>4 DEF ShouldPause, Queued, MaxQueueSize
  <2> QED
    BY <2>1, <2>5
<1>2. CASE SetPaused
  <2>1. processor = "pausing" /\ processor' # "pausing" /\ staleness_samples' = staleness_samples
    BY <1>2 DEF SetPaused, tasks
  <2> QED
    BY <2>1
<1>3. CASE TakePending
  <2>1. /\ processor \in {"loop", "getting"} /\ processor' # "pausing"
        /\ UNCHANGED <<paused, param_sync_paused>> /\ staleness_samples' = staleness_samples + 1
    BY <1>3 DEF TakePending, AfterEnd, flags
  <2>2. \A s, m \in Nat : s >= m => s + 1 >= m
    OBVIOUS
  <2> QED
    BY <1>0, <2>1, <2>2
<1>4. CASE ResetStaleness
  <2>1. trainer = "counting" /\ UNCHANGED <<paused, param_sync_paused, processor>>
    BY <1>4 DEF ResetStaleness, flags
  <2> QED
    BY <2>1 DEF Serial, PauseComesFirst, CountsUnpaused, Syncing
<1>5. CASE Finish \/ ResetFlags
  <2>1. /\ ~paused' /\ staleness_samples' = staleness_samples
        /\ processor' = "pausing" => processor = "pausing"
    BY <1>5 DEF Finish, ResetFlags, PausedAfterSync, Notified, tasks
  <2> QED
    BY <2>1
<1>6. CASE PauseForSync
  <2>1. param_sync_paused' /\ UNCHANGED <<staleness_samples, processor>>
    BY <1>6 DEF PauseForSync, tasks
  <2> QED
    BY <2>1
<1>7. CASE Restart
  <2>1. ~paused' /\ processor' = "loop"
    BY <1>7 DEF Restart
  <2> QED
    BY <2>1
<1>8. CASE /\ UNCHANGED <<paused, param_sync_paused, staleness_samples>>
           /\ processor' = processor \/ processor' # "pausing"
  BY <1>8
<1> QED
  BY <1>1, <1>2, <1>3, <1>4, <1>5, <1>6, <1>7, <1>8
     DEF AsyncNext, ProcessorStep, TrainerStep, FeedSample, FeedEnd, SampleGenerated, SampleLost, EndJob,
         WaitForLock, Park, AwaitPending, CreateTask, WaitForTasks, TasksFinished, PutEnd, GetSample, Train,
         Drain, Drained, UpdateWeights, SaveCheckpoint, StopTraining, asyncVars, flags, tasks

Scheduled == Pushed /\ Locked /\ Serial /\ Hand /\ Counted /\ Reasons

LEMMA ScheduledAlways == AsyncSpec => [](Typed /\ Scheduled)
<1>1. ASSUME AsyncInit PROVE Scheduled
  <2>1. Pushed
    BY <1>1 DEF AsyncInit, Pushed, PauseHolds, DrainHolds, NoPartialSamples, Generating
  <2>2. Locked
    BY <1>1 DEF AsyncInit, Locked, Locks, InLock, ToSet
  <2>3. Serial /\ Hand /\ Reasons
    BY <1>1 DEF AsyncInit, Serial, LoopIsAlone, PauseComesFirst, CountsUnpaused, Syncing, Hand, HoldsSample, Reasons
  <2>4. Counted
    BY <1>1, FreshCounts DEF AsyncInit
  <2> QED
    BY <2>1, <2>2, <2>3, <2>4 DEF Scheduled
<1>2. ASSUME Typed, Typed', Scheduled, [AsyncNext]_asyncVars PROVE Scheduled'
  BY <1>2, PushedStep, LockStep, SerialStep, HandStep, CountedStep, ReasonsStep DEF Scheduled, Typed
<1> QED
  BY <1>1, <1>2, TypedAlways, PTL DEF AsyncSpec

\* A processor that is paused outside a synchronisation still has a reason:
\* the monitor, which has no action here, would never resume it.
THEOREM MonitorIsIdle == AsyncSpec => []MonitorNeverResumes
<1>1. Typed /\ Scheduled => MonitorNeverResumes
  BY DEF Scheduled, Reasons, MonitorNeverResumes, ShouldPause
<1> QED
  BY <1>1, ScheduledAlways, PTL

\* Samples that are ready, being generated or in hand exceed the limit by at
\* most the one in hand.
THEOREM OutstandingStaysBounded == AsyncSpec => []OutstandingIsBounded
<1>1. Typed /\ Scheduled => OutstandingIsBounded
  BY DEF Scheduled, Counted, Bounded, OutstandingIsBounded, Ready, Busy, InHand
<1> QED
  BY <1>1, ScheduledAlways, PTL

-----------------------------------------------------------------------------
(* Where a sample is                                                        *)

PendingSamples    == ToSet(pending_queue) \ {End}
GeneratingSamples == {t.sample : t \in Generating}
QueueSamples      == {q.sample : q \in Waiting}
BatchSamples      == {b.sample : b \in ToSet(batch)}

\* A sample that is fed is nowhere else, and so on along its way.
Apart ==
  /\ PendingSamples \cap (held \cup GeneratingSamples \cup QueueSamples \cup BatchSamples \cup trained) = {}
  /\ held \cap (GeneratingSamples \cup QueueSamples \cup BatchSamples \cup trained) = {}
  /\ GeneratingSamples \cap (QueueSamples \cup BatchSamples \cup trained) = {}
  /\ QueueSamples \cap (BatchSamples \cup trained) = {}
  /\ BatchSamples \cap trained = {}

FedOnce       == \A i, j \in DOMAIN pending_queue : i # j /\ pending_queue[i] = pending_queue[j] => pending_queue[i] = End
GeneratedOnce == \A t, u \in Generating : t.sample = u.sample => t = u
QueuedOnce    == \A i, j \in DOMAIN queue : i # j => queue[i].sample # queue[j].sample

\* The end signal is put once.
NoEndYet == processor # "over" => \A i \in DOMAIN queue : queue[i].sample # End

Placed == Apart /\ FedOnce /\ GeneratedOnce /\ QueuedOnce /\ NoEndYet

LEMMA AllLoaded ==
  ASSUME Typed
  PROVE  /\ held \cup GeneratingSamples \cup QueueSamples \cup BatchSamples \cup trained \subseteq 1..loaded
         /\ PendingSamples \subseteq 1..loaded
<1> USE DEF Typed
<1>1. held \subseteq 1..loaded /\ trained \subseteq 1..loaded
  BY DEF TaskTypes, TrainTypes
<1>2. GeneratingSamples \subseteq 1..loaded
  BY DEF GeneratingSamples, Generating, TaskTypes, TaskRecords
<1>3. QueueSamples \subseteq 1..loaded
  <2>1. ToSet(queue) \subseteq Messages
    BY Elements DEF QueueTypes
  <2> QED
    BY <2>1 DEF QueueSamples, Waiting, Messages, End, FeedTypes
<1>4. BatchSamples \subseteq 1..loaded
  <2>1. ToSet(batch) \subseteq [sample : 1..loaded, version : Nat]
    BY Elements DEF TrainTypes
  <2> QED
    BY <2>1 DEF BatchSamples
<1>5. PendingSamples \subseteq 1..loaded
  <2>1. ToSet(pending_queue) \subseteq 0..loaded
    BY Elements DEF FeedTypes
  <2> QED
    BY <2>1 DEF PendingSamples, End, FeedTypes
<1> QED
  BY <1>1, <1>2, <1>3, <1>4, <1>5

\* What the ends of a sequence hold.
LEMMA AppendSet ==
  ASSUME NEW S, NEW s \in Seq(S), NEW e \in S
  PROVE  ToSet(Append(s, e)) = ToSet(s) \cup {e}
<1>1. /\ DOMAIN s = 1..Len(s) /\ DOMAIN Append(s, e) = 1..(Len(s) + 1) /\ Len(s) \in Nat
      /\ \A i \in 1..Len(s) : Append(s, e)[i] = s[i]
      /\ Append(s, e)[Len(s) + 1] = e
  OBVIOUS
<1> QED
  BY <1>1 DEF ToSet

LEMMA TailSet ==
  ASSUME NEW S, NEW s \in Seq(S), s # <<>>
  PROVE  ToSet(Tail(s)) \subseteq ToSet(s) /\ ToSet(s) = {Head(s)} \cup ToSet(Tail(s))
<1>1. /\ DOMAIN s = 1..Len(s) /\ Len(s) \in Nat \ {0} /\ Head(s) = s[1]
      /\ DOMAIN Tail(s) = 1..(Len(s) - 1)
      /\ \A i \in 1..(Len(s) - 1) : Tail(s)[i] = s[i + 1]
  OBVIOUS
<1>2. \A i \in 1..Len(s) : i = 1 \/ i - 1 \in 1..(Len(s) - 1)
  BY <1>1
<1>3. \A i \in 1..Len(s) : s[i] \in {Head(s)} \cup ToSet(Tail(s))
  <2> TAKE i \in 1..Len(s)
  <2>1. CASE i = 1
    BY <1>1, <2>1
  <2>2. CASE i # 1
    <3>1. i - 1 \in 1..(Len(s) - 1) /\ Tail(s)[i - 1] = s[i]
      BY <1>1, <1>2, <2>2
    <3> QED
      BY <1>1, <3>1 DEF ToSet
  <2> QED
    BY <2>1, <2>2
<1>4. \A i \in 1..(Len(s) - 1) : Tail(s)[i] \in ToSet(s)
  BY <1>1 DEF ToSet
<1> QED
  BY <1>1, <1>3, <1>4 DEF ToSet

-----------------------------------------------------------------------------
(* The queue of fed samples                                                 *)

LEMMA FedStep ==
  ASSUME Typed, Placed, [AsyncNext]_asyncVars
  PROVE  FedOnce'
<1> USE DEF Typed, FeedTypes, FedOnce
<1>0. FedOnce
  BY DEF Placed
<1>1. CASE FeedSample \/ FeedEnd
  <2>1. PICK e \in 0..(loaded + 1) : pending_queue' = Append(pending_queue, e) /\ (e = End \/ e > loaded)
    BY <1>1 DEF FeedSample, FeedEnd, End
  <2>2. /\ DOMAIN pending_queue = 1..Len(pending_queue) /\ Len(pending_queue) \in Nat
        /\ DOMAIN pending_queue' = 1..(Len(pending_queue) + 1)
        /\ \A i \in 1..Len(pending_queue) : pending_queue'[i] = pending_queue[i] /\ pending_queue[i] <= loaded
        /\ pending_queue'[Len(pending_queue) + 1] = e
    BY <2>1
  <2> QED
    BY <1>0, <2>1, <2>2
<1>2. CASE TakePending
  <2>1. pending_queue # <<>> /\ pending_queue' = Tail(pending_queue)
    BY <1>2 DEF TakePending
  <2>2. /\ DOMAIN pending_queue = 1..Len(pending_queue) /\ Len(pending_queue) \in Nat \ {0}
        /\ DOMAIN pending_queue' = 1..(Len(pending_queue) - 1)
        /\ \A i \in 1..(Len(pending_queue) - 1) :
             pending_queue'[i] = pending_queue[i + 1] /\ i + 1 \in DOMAIN pending_queue
    BY <2>1
  <2>3. \A i, j \in 1..(Len(pending_queue) - 1) : i # j => i + 1 # j + 1
    OBVIOUS
  <2>4. ASSUME NEW i \in DOMAIN pending_queue', NEW j \in DOMAIN pending_queue', i # j,
               pending_queue'[i] = pending_queue'[j]
        PROVE  pending_queue'[i] = End
    <3>1. i + 1 \in DOMAIN pending_queue /\ j + 1 \in DOMAIN pending_queue /\ i + 1 # j + 1
      BY <2>2, <2>3, <2>4
    <3>2. pending_queue[i + 1] = pending_queue[j + 1]
      BY <2>2, <2>4
    <3> QED
      BY <1>0, <2>2, <3>1, <3>2
  <2> QED
    BY <2>4
<1>3. CASE Restart
  BY <1>3 DEF Restart
<1>4. CASE pending_queue' = pending_queue
  BY <1>0, <1>4
<1> QED
  BY <1>1, <1>2, <1>3, <1>4
     DEF AsyncNext, ProcessorStep, TrainerStep, SampleGenerated, SampleLost, EndJob,
         WaitForLock, Pause, SetPaused, Park, AwaitPending, CreateTask, WaitForTasks,
         TasksFinished, Finish, PutEnd, GetSample, Train, PauseForSync, Drain, Drained, ResetFlags,
         ResetStaleness, UpdateWeights, SaveCheckpoint, StopTraining, asyncVars, feeding

\* A sample that is taken is the one that leaves the queue.
LEMMA TakenLeaves ==
  ASSUME Typed, FedOnce, TakePending, Head(pending_queue) # End
  PROVE  /\ held' = {Head(pending_queue)} /\ Head(pending_queue) \in PendingSamples
         /\ PendingSamples' \subseteq PendingSamples \ {Head(pending_queue)}
<1> USE DEF Typed, FeedTypes
<1>1. /\ pending_queue # <<>> /\ pending_queue' = Tail(pending_queue) /\ held' = {Head(pending_queue)}
  BY DEF TakePending
<1>2. ToSet(pending_queue') \subseteq ToSet(pending_queue) /\ Head(pending_queue) \in ToSet(pending_queue)
  BY <1>1, TailSet
<1>3. Head(pending_queue) \notin ToSet(pending_queue')
  <2>1. /\ DOMAIN pending_queue = 1..Len(pending_queue) /\ Len(pending_queue) \in Nat \ {0}
        /\ Head(pending_queue) = pending_queue[1]
        /\ DOMAIN pending_queue' = 1..(Len(pending_queue) - 1)
        /\ \A i \in 1..(Len(pending_queue) - 1) :
             pending_queue'[i] = pending_queue[i + 1] /\ i + 1 \in 1..Len(pending_queue) /\ i + 1 # 1
    BY <1>1
  <2>2. ASSUME NEW i \in 1..(Len(pending_queue) - 1)
        PROVE  pending_queue'[i] # Head(pending_queue)
    <3>1. i + 1 \in DOMAIN pending_queue /\ 1 \in DOMAIN pending_queue /\ i + 1 # 1
      BY <2>1
    <3>2. pending_queue[1] # End
      BY <2>1
    <3>3. pending_queue[i + 1] # pending_queue[1]
      BY <3>1, <3>2 DEF FedOnce
    <3> QED
      BY <2>1, <3>3
  <2> QED
    BY <2>1, <2>2 DEF ToSet
<1> QED
  BY <1>1, <1>2, <1>3 DEF PendingSamples

-----------------------------------------------------------------------------
(* The message queue                                                        *)

\* What is put behind different messages leaves them different.
LEMMA PutIs ==
  ASSUME Typed, NEW m \in Messages, PutSample(m)
  PROVE  \E s \in Seq(Messages) :
           /\ queue' = Append(s, m)
           /\ s = queue \/ (queue # <<>> /\ s = Tail(queue))
<1> USE DEF Typed, QueueTypes
<1>1. CASE Len(queue) >= MaxQueueSize
  <2>1. queue # <<>> /\ queue' = Append(Tail(queue), m)
    BY <1>1, Sizes DEF PutSample
  <2>2. Tail(queue) \in Seq(Messages)
    BY <2>1
  <2> QED
    BY <2>1, <2>2
<1>2. CASE ~(Len(queue) >= MaxQueueSize)
  BY <1>2 DEF PutSample
<1> QED
  BY <1>1, <1>2

LEMMA PutSet ==
  ASSUME Typed, NEW m \in Messages, PutSample(m)
  PROVE  ToSet(queue') \subseteq ToSet(queue) \cup {m}
<1>1. PICK s \in Seq(Messages) : queue' = Append(s, m) /\ (s = queue \/ (queue # <<>> /\ s = Tail(queue)))
  BY PutIs
<1>2. ToSet(queue') = ToSet(s) \cup {m}
  BY <1>1, AppendSet
<1>3. queue # <<>> => ToSet(Tail(queue)) \subseteq ToSet(queue)
  BY TailSet DEF Typed, QueueTypes
<1> QED
  BY <1>1, <1>2, <1>3

LEMMA PutOnce ==
  ASSUME Typed, QueuedOnce, NEW m \in Messages, PutSample(m),
         \A i \in DOMAIN queue : queue[i].sample # m.sample
  PROVE  QueuedOnce'
<1> USE DEF Typed, QueueTypes
<1>1. PICK s \in Seq(Messages) : queue' = Append(s, m) /\ (s = queue \/ (queue # <<>> /\ s = Tail(queue)))
  BY PutIs
<1>2. /\ DOMAIN s = 1..Len(s) /\ Len(s) \in Nat
      /\ DOMAIN queue' = 1..(Len(s) + 1)
      /\ \A i \in 1..Len(s) : queue'[i] = s[i]
      /\ queue'[Len(s) + 1] = m
  BY <1>1
<1>3. \A i, j \in 1..Len(s) : s[i].sample # m.sample /\ (i # j => s[i].sample # s[j].sample)
  <2>1. CASE s = queue
    BY <2>1, <1>2 DEF QueuedOnce
  <2>2. CASE s = Tail(queue) /\ queue # <<>>
    <3>1. \A i \in 1..Len(s) : i + 1 \in DOMAIN queue /\ s[i] = queue[i + 1]
      BY <2>2
    <3>2. \A i, j \in 1..Len(s) : i # j => i + 1 # j + 1
      BY <1>2
    <3> QED
      BY <3>1, <3>2 DEF QueuedOnce
  <2> QED
    BY <1>1, <2>1, <2>2
<1> QED
  BY <1>2, <1>3 DEF QueuedOnce

LEMMA QueuedSample ==
  ASSUME Typed, NEW i \in DOMAIN queue, queue[i].sample # End
  PROVE  queue[i].sample \in QueueSamples
  BY DEF QueueSamples, Waiting, ToSet

LEMMA NoEndIn ==
  ASSUME NoEndYet, processor # "over"
  PROVE  \A q \in ToSet(queue) : q.sample # End
  BY DEF NoEndYet, ToSet

LEMMA QueuedStep ==
  ASSUME Typed, Placed, [AsyncNext]_asyncVars
  PROVE  QueuedOnce' /\ NoEndYet'
<1> USE DEF Placed
<1>1. CASE SampleGenerated
  <2>1. PICK t \in Generating : PutSample([sample |-> t.sample, version |-> t.version])
    BY <1>1 DEF SampleGenerated
  <2> DEFINE m == [sample |-> t.sample, version |-> t.version]
  <2>2. m \in Messages /\ m.sample = t.sample /\ t.sample \in 1..loaded /\ t.sample \in GeneratingSamples
    BY DEF Typed, Generating, TaskTypes, TaskRecords, Messages, FeedTypes, TrainTypes, GeneratingSamples
  <2>3. t.sample # End /\ t.sample \notin QueueSamples
    BY <2>2 DEF Apart, End, Typed, FeedTypes
  <2>4. \A i \in DOMAIN queue : queue[i].sample # m.sample
    BY <2>2, <2>3, QueuedSample
  <2>5. QueuedOnce' /\ ToSet(queue') \subseteq ToSet(queue) \cup {m}
    BY <2>1, <2>2, <2>4, PutOnce, PutSet
  <2>6. processor' = processor
    BY <1>1 DEF SampleGenerated
  <2>7. ASSUME processor # "over" PROVE \A i \in DOMAIN queue' : queue'[i].sample # End
    <3>1. \A q \in ToSet(queue) \cup {m} : q.sample # End
      BY <2>7, <2>2, <2>3, NoEndIn
    <3> QED
      BY <2>5, <3>1 DEF ToSet
  <2> QED
    BY <2>5, <2>6, <2>7 DEF NoEndYet
<1>2. CASE PutEnd
  <2> DEFINE m == [sample |-> End, version |-> 0]
  <2>1. processor = "signalling" /\ processor' = "over" /\ PutSample(m)
    BY <1>2 DEF PutEnd
  <2>2. m \in Messages /\ m.sample = End
    BY DEF Typed, FeedTypes, Messages, End
  <2>3. \A i \in DOMAIN queue : queue[i].sample # m.sample
    BY <2>1, <2>2 DEF NoEndYet
  <2>4. QueuedOnce'
    BY <2>1, <2>2, <2>3, PutOnce
  <2> QED
    BY <2>1, <2>4 DEF NoEndYet
<1>3. CASE GetSample
  <2>1. queue # <<>> /\ queue' = Tail(queue) /\ processor' = processor
    BY <1>3 DEF GetSample
  <2>2. /\ DOMAIN queue = 1..Len(queue) /\ DOMAIN queue' = 1..(Len(queue) - 1) /\ Len(queue) \in Nat \ {0}
        /\ \A i \in 1..(Len(queue) - 1) : queue'[i] = queue[i + 1] /\ i + 1 \in DOMAIN queue
    BY <2>1 DEF Typed, QueueTypes
  <2>3. \A i, j \in 1..(Len(queue) - 1) : i # j => i + 1 # j + 1
    OBVIOUS
  <2>4. QueuedOnce'
    BY <2>2, <2>3 DEF QueuedOnce
  <2> QED
    BY <2>1, <2>2, <2>4 DEF NoEndYet
<1>4. CASE Restart
  BY <1>4 DEF Restart, QueuedOnce, NoEndYet
<1>5. CASE queue' = queue /\ (processor = "over" => processor' = "over")
  BY <1>5 DEF QueuedOnce, NoEndYet
<1> QED
  BY <1>1, <1>2, <1>3, <1>4, <1>5
     DEF AsyncNext, ProcessorStep, TrainerStep, FeedSample, FeedEnd, SampleLost, EndJob,
         WaitForLock, Pause, SetPaused, Park, AwaitPending, TakePending, CreateTask, WaitForTasks,
         TasksFinished, Finish, Train, PauseForSync, Drain, Drained, ResetFlags, Notified,
         ResetStaleness, UpdateWeights, SaveCheckpoint, StopTraining, asyncVars, messages

-----------------------------------------------------------------------------
(* One step of a sample                                                     *)

\* The task that ends leaves the generating ones, and no other has its sample.
LEMMA TaskLeaves ==
  ASSUME GeneratedOnce, NEW t \in Generating, NEW s, s # "generating",
         Typed, active_tasks' = (active_tasks \ {t}) \cup {[t EXCEPT !.status = s]}
  PROVE  GeneratedOnce' /\ GeneratingSamples' = GeneratingSamples \ {t.sample}
<1>1. [t EXCEPT !.status = s].status = s
  BY DEF Typed, TaskTypes, TaskRecords, Generating
<1>2. Generating' = Generating \ {t}
  BY <1>1 DEF Generating
<1> QED
  BY <1>2 DEF GeneratedOnce, GeneratingSamples

LEMMA GeneratedStep ==
  ASSUME Typed, Placed, [AsyncNext]_asyncVars
  PROVE  GeneratedOnce'
<1> USE DEF Placed
<1>1. CASE SampleGenerated \/ SampleLost
  <2>1. PICK t \in Generating, s \in {"done", "cancelled", "failed"} :
          active_tasks' = (active_tasks \ {t}) \cup {[t EXCEPT !.status = s]}
    BY <1>1 DEF SampleGenerated, SampleLost
  <2> QED
    BY <2>1, TaskLeaves
<1>2. CASE CreateTask
  <2>1. CASE MayStart /\ held # {}
    <3>1. PICK s \in 1..loaded : held = {s}
      BY <2>1 DEF Typed, TaskTypes
    <3> DEFINE t == [sample |-> s, version |-> rollout_version, status |-> "generating"]
    <3>2. active_tasks' = active_tasks \cup {t}
      BY <1>2, <2>1, <3>1 DEF CreateTask
    <3>3. Generating' = Generating \cup {t} /\ t.sample = s
      BY <3>2 DEF Generating
    <3>4. s \notin GeneratingSamples
      BY <3>1 DEF Apart
    <3> QED
      BY <3>3, <3>4 DEF GeneratedOnce, GeneratingSamples
  <2>2. CASE ~MayStart \/ held = {}
    <3>1. active_tasks' = active_tasks
      BY <1>2, <2>2 DEF CreateTask
    <3> QED
      BY <3>1 DEF GeneratedOnce, Generating
  <2> QED
    BY <2>1, <2>2
<1>3. CASE active_tasks' \subseteq active_tasks
  BY <1>3 DEF GeneratedOnce, Generating
<1> QED
  BY <1>1, <1>2, <1>3
     DEF AsyncNext, ProcessorStep, TrainerStep, FeedSample, FeedEnd, EndJob, Restart, Generating,
         WaitForLock, Pause, SetPaused, Park, AwaitPending, TakePending, WaitForTasks,
         TasksFinished, Finish, PutEnd, GetSample, Train, PauseForSync, Drain, Drained, ResetFlags,
         ResetStaleness, UpdateWeights, SaveCheckpoint, StopTraining, asyncVars, tasks

\* Samples that stay where they are, or disappear.
PlacesShrink ==
  /\ PendingSamples' \subseteq PendingSamples /\ held' \subseteq held
  /\ GeneratingSamples' \subseteq GeneratingSamples /\ QueueSamples' \subseteq QueueSamples
  /\ BatchSamples' \subseteq BatchSamples /\ trained' \subseteq trained

LEMMA ShrinkKeepsApart ==
  ASSUME Apart, PlacesShrink
  PROVE  Apart'
  BY DEF Apart, PlacesShrink

LEMMA PutKeepsPlaces ==
  ASSUME Typed, NEW m \in Messages, PutSample(m)
  PROVE  QueueSamples' \subseteq QueueSamples \cup ({m.sample} \ {End})
  BY PutSet DEF QueueSamples, Waiting

\* What the trainer takes is no longer on the queue.
LEMMA GetLeaves ==
  ASSUME Typed, QueuedOnce, GetSample, Head(queue).sample # End
  PROVE  /\ Head(queue).sample \in QueueSamples
         /\ QueueSamples' \subseteq QueueSamples \ {Head(queue).sample}
         /\ BatchSamples' = BatchSamples \cup {Head(queue).sample}
<1> USE DEF Typed
<1>1. queue # <<>> /\ queue' = Tail(queue) /\ batch' = Append(batch, Head(queue))
  BY DEF GetSample
<1>2. /\ DOMAIN queue = 1..Len(queue) /\ Len(queue) \in Nat \ {0} /\ Head(queue) = queue[1]
      /\ DOMAIN queue' = 1..(Len(queue) - 1)
      /\ \A i \in 1..(Len(queue) - 1) : queue'[i] = queue[i + 1] /\ i + 1 \in DOMAIN queue /\ i + 1 # 1
      /\ Head(queue) \in Messages
  BY <1>1 DEF QueueTypes
<1>3. ToSet(queue') \subseteq ToSet(queue) /\ Head(queue) \in ToSet(queue)
  BY <1>1, TailSet DEF QueueTypes
<1>4. \A q \in ToSet(queue') : q.sample # Head(queue).sample
  BY <1>2 DEF QueuedOnce, ToSet
<1>5. Head(queue) \in [sample : 1..loaded, version : Nat]
  BY <1>2 DEF Messages, End, FeedTypes
<1>6. ToSet(batch') = ToSet(batch) \cup {Head(queue)}
  <2> DEFINE T == [sample : 1..loaded, version : Nat]
  <2>1. batch \in Seq(T) /\ Head(queue) \in T
    BY <1>5 DEF TrainTypes
  <2> HIDE DEF T
  <2> QED
    BY <1>1, <2>1, AppendSet
<1> QED
  BY <1>3, <1>4, <1>6 DEF QueueSamples, Waiting, BatchSamples

LEMMA ApartStep ==
  ASSUME Typed, Placed, [AsyncNext]_asyncVars
  PROVE  Apart'
<1> USE DEF Placed
<1>1. CASE FeedSample \/ FeedEnd
  <2>1. PICK e \in 0..(loaded + 1) : pending_queue' = Append(pending_queue, e) /\ (e = End \/ e = loaded + 1)
    BY <1>1 DEF FeedSample, FeedEnd, End, Typed, FeedTypes
  <2>2. ToSet(pending_queue') = ToSet(pending_queue) \cup {e}
    <3>1. 0..loaded \subseteq 0..(loaded + 1)
      BY DEF Typed, FeedTypes
    <3> DEFINE S == 0..(loaded + 1)
    <3>2. pending_queue \in Seq(S) /\ e \in S
      BY <3>1, SeqGrows DEF Typed, FeedTypes
    <3> HIDE DEF S
    <3> QED
      BY <2>1, <3>2, AppendSet
  <2>3. UNCHANGED <<held, active_tasks, queue, batch, trained>>
    BY <1>1 DEF FeedSample, FeedEnd, tasks, messages, training
  <2>4. /\ PendingSamples' \subseteq PendingSamples \cup ({e} \ {End})
        /\ UNCHANGED <<held, GeneratingSamples, QueueSamples, BatchSamples, trained>>
    BY <2>2, <2>3 DEF PendingSamples, GeneratingSamples, Generating, QueueSamples, Waiting, BatchSamples
  <2>5. e # End => e \notin held \cup GeneratingSamples \cup QueueSamples \cup BatchSamples \cup trained
    BY <2>1, AllLoaded DEF Typed, FeedTypes
  <2> QED
    BY <2>4, <2>5 DEF Apart
<1>2. CASE SampleGenerated
  <2>1. PICK t \in Generating :
          /\ PutSample([sample |-> t.sample, version |-> t.version])
          /\ active_tasks' = (active_tasks \ {t}) \cup {[t EXCEPT !.status = "done"]}
    BY <1>2 DEF SampleGenerated
  <2>2. [sample |-> t.sample, version |-> t.version] \in Messages
    BY DEF Typed, Generating, TaskTypes, TaskRecords, Messages, FeedTypes, TrainTypes
  <2>3. QueueSamples' \subseteq QueueSamples \cup {t.sample}
    BY <2>1, <2>2, PutKeepsPlaces
  <2>4. GeneratingSamples' = GeneratingSamples \ {t.sample} /\ t.sample \in GeneratingSamples
    BY <2>1, TaskLeaves DEF GeneratingSamples
  <2>5. UNCHANGED <<pending_queue, held, batch, trained>>
    BY <1>2 DEF SampleGenerated, feeding, training
  <2>6. UNCHANGED <<PendingSamples, BatchSamples>>
    BY <2>5 DEF PendingSamples, BatchSamples
  <2> QED
    BY <2>3, <2>4, <2>5, <2>6 DEF Apart
<1>3. CASE TakePending /\ Head(pending_queue) # End
  <2>1. /\ held' = {Head(pending_queue)} /\ Head(pending_queue) \in PendingSamples
        /\ PendingSamples' \subseteq PendingSamples \ {Head(pending_queue)}
    BY <1>3, TakenLeaves
  <2>2. UNCHANGED <<active_tasks, queue, batch, trained>>
    BY <1>3 DEF TakePending, messages, training
  <2>3. UNCHANGED <<GeneratingSamples, QueueSamples, BatchSamples>>
    BY <2>2 DEF GeneratingSamples, Generating, QueueSamples, Waiting, BatchSamples
  <2> QED
    BY <2>1, <2>2, <2>3 DEF Apart
<1>4. CASE CreateTask /\ MayStart
  <2>1. /\ active_tasks' = active_tasks \cup
             {[sample |-> s, version |-> rollout_version, status |-> "generating"] : s \in held}
        /\ held' = {} /\ UNCHANGED <<pending_queue, queue, batch, trained>>
    BY <1>4 DEF CreateTask, feeding, messages, training
  <2>2. GeneratingSamples' = GeneratingSamples \cup held
    <3> DEFINE New == {[sample |-> s, version |-> rollout_version, status |-> "generating"] : s \in held}
    <3>1. \A t \in New : t.status = "generating" /\ t.sample \in held
      OBVIOUS
    <3>2. ASSUME NEW s \in held PROVE \E t \in New : t.sample = s
      <4> DEFINE t == [sample |-> s, version |-> rollout_version, status |-> "generating"]
      <4>1. t \in New /\ t.sample = s
        OBVIOUS
      <4> QED
        BY <4>1
    <3> HIDE DEF New
    <3>3. Generating' = Generating \cup New
      BY <2>1, <3>1 DEF Generating, New
    <3> QED
      BY <3>1, <3>2, <3>3 DEF GeneratingSamples
  <2>3. UNCHANGED <<PendingSamples, QueueSamples, BatchSamples>>
    BY <2>1 DEF PendingSamples, QueueSamples, Waiting, BatchSamples
  <2> QED
    BY <2>1, <2>2, <2>3 DEF Apart
<1>5. CASE GetSample /\ Head(queue).sample # End
  <2>1. /\ Head(queue).sample \in QueueSamples
        /\ QueueSamples' \subseteq QueueSamples \ {Head(queue).sample}
        /\ BatchSamples' = BatchSamples \cup {Head(queue).sample}
    BY <1>5, GetLeaves
  <2>2. UNCHANGED <<pending_queue, held, active_tasks, trained>>
    BY <1>5 DEF GetSample, feeding, tasks
  <2>3. UNCHANGED <<PendingSamples, GeneratingSamples>>
    BY <2>2 DEF PendingSamples, GeneratingSamples, Generating
  <2> QED
    BY <2>1, <2>2, <2>3 DEF Apart
<1>6. CASE Train
  <2>1. trained' = trained \cup BatchSamples /\ batch' = <<>> /\ UNCHANGED <<pending_queue, held, active_tasks, queue>>
    BY <1>6 DEF Train, BatchSamples, feeding, tasks, messages
  <2>2. BatchSamples' = {} /\ UNCHANGED <<PendingSamples, GeneratingSamples, QueueSamples>>
    BY <2>1 DEF BatchSamples, ToSet, PendingSamples, GeneratingSamples, Generating, QueueSamples, Waiting
  <2> QED
    BY <2>1, <2>2 DEF Apart
<1>7. CASE Restart
  <2>1. /\ pending_queue' = <<>> /\ held' = {} /\ active_tasks' = {} /\ queue' = <<>> /\ batch' = <<>>
    BY <1>7 DEF Restart
  <2>2. PendingSamples' = {} /\ GeneratingSamples' = {} /\ QueueSamples' = {} /\ BatchSamples' = {}
    BY <2>1 DEF PendingSamples, GeneratingSamples, Generating, QueueSamples, Waiting, BatchSamples, ToSet
  <2> QED
    BY <2>1, <2>2 DEF Apart
<1>8. CASE PutEnd
  <2>1. QueueSamples' \subseteq QueueSamples
    <3>1. [sample |-> End, version |-> 0] \in Messages
      BY DEF Typed, FeedTypes, Messages, End
    <3> QED
      BY <1>8, <3>1, PutKeepsPlaces DEF PutEnd
  <2>2. UNCHANGED <<pending_queue, held, active_tasks, batch, trained>>
    BY <1>8 DEF PutEnd, feeding, tasks, training
  <2> QED
    BY <2>1, <2>2, ShrinkKeepsApart
       DEF PlacesShrink, PendingSamples, GeneratingSamples, Generating, BatchSamples
<1>9. CASE /\ pending_queue' = pending_queue \/ (TakePending /\ pending_queue # <<>>)
           /\ queue' = queue \/ (queue # <<>> /\ queue' = Tail(queue))
           /\ batch' = batch \/ batch' = <<>>
           /\ UNCHANGED <<held, trained>>
           /\ Generating' \subseteq Generating
  <2>1. ToSet(pending_queue') \subseteq ToSet(pending_queue)
    BY <1>9, TailSet DEF TakePending, Typed, FeedTypes
  <2>2. ToSet(queue') \subseteq ToSet(queue)
    BY <1>9, TailSet DEF Typed, QueueTypes
  <2>3. ToSet(batch') \subseteq ToSet(batch)
    BY <1>9 DEF ToSet
  <2> QED
    BY <1>9, <2>1, <2>2, <2>3, ShrinkKeepsApart
       DEF PlacesShrink, PendingSamples, GeneratingSamples, QueueSamples, Waiting, BatchSamples
<1>10. CASE SampleLost
  <2>1. PICK t \in Generating, s \in {"cancelled", "failed"} :
          active_tasks' = (active_tasks \ {t}) \cup {[t EXCEPT !.status = s]}
    BY <1>10 DEF SampleLost
  <2>2. GeneratingSamples' \subseteq GeneratingSamples
    BY <2>1, TaskLeaves
  <2>3. UNCHANGED <<pending_queue, held, queue, batch, trained>>
    BY <1>10 DEF SampleLost, feeding, messages, training
  <2> QED
    BY <2>2, <2>3, ShrinkKeepsApart DEF PlacesShrink, PendingSamples, QueueSamples, Waiting, BatchSamples
<1>11. CASE TakePending /\ Head(pending_queue) = End
  <2>1. pending_queue # <<>> /\ UNCHANGED <<held, active_tasks, queue, batch, trained>>
    BY <1>11 DEF TakePending, messages, training
  <2> QED
    BY <1>9, <1>11, <2>1 DEF Generating
<1>12. CASE GetSample /\ Head(queue).sample = End
  <2>1. queue # <<>> /\ queue' = Tail(queue) /\ batch' = <<>> /\ UNCHANGED <<pending_queue, held, active_tasks, trained>>
    BY <1>12 DEF GetSample, feeding, tasks
  <2> QED
    BY <1>9, <2>1 DEF Generating
<1>13. CASE CreateTask /\ ~MayStart
  <2>1. UNCHANGED <<pending_queue, held, active_tasks, queue, batch, trained>>
    BY <1>13 DEF CreateTask, feeding, messages, training
  <2> QED
    BY <1>9, <2>1 DEF Generating
<1>14. CASE TasksFinished \/ Drained
  <2>1. active_tasks' = Generating /\ UNCHANGED <<pending_queue, held, queue, batch, trained>>
    BY <1>14 DEF TasksFinished, Drained, feeding, messages, training
  <2> QED
    BY <1>9, <2>1 DEF Generating
<1>15. CASE UNCHANGED <<pending_queue, held, active_tasks, queue, batch, trained>>
  BY <1>9, <1>15 DEF Generating
<1> QED
  BY <1>1, <1>2, <1>3, <1>4, <1>5, <1>6, <1>7, <1>8, <1>10, <1>11, <1>12, <1>13, <1>14, <1>15
     DEF AsyncNext, ProcessorStep, TrainerStep, EndJob, WaitForLock, Pause, SetPaused, Park, AwaitPending,
         WaitForTasks, Finish, PauseForSync, Drain, ResetFlags, ResetStaleness, UpdateWeights,
         SaveCheckpoint, StopTraining, asyncVars, feeding, tasks, messages, training

LEMMA PlacedAlways == AsyncSpec => []Placed
<1>1. AsyncInit => Placed
  <2> SUFFICES ASSUME AsyncInit PROVE Placed
    OBVIOUS
  <2>1. /\ pending_queue = <<>> /\ held = {} /\ active_tasks = {} /\ queue = <<>> /\ batch = <<>>
    BY DEF AsyncInit
  <2>2. PendingSamples = {} /\ GeneratingSamples = {} /\ QueueSamples = {} /\ BatchSamples = {}
    BY <2>1 DEF PendingSamples, GeneratingSamples, Generating, QueueSamples, Waiting, BatchSamples, ToSet
  <2>3. Apart
    BY <2>1, <2>2 DEF Apart
  <2> QED
    BY <2>1, <2>3 DEF Placed, FedOnce, GeneratedOnce, Generating, QueuedOnce, NoEndYet
<1>2. Typed /\ Placed /\ [AsyncNext]_asyncVars => Placed'
  BY FedStep, QueuedStep, GeneratedStep, ApartStep DEF Placed
<1> QED
  BY <1>1, <1>2, TypedAlways, PTL DEF AsyncSpec

\* No sample is generated twice, queued twice or trained on twice, also when a
\* restart sets the data loader back to the position of the checkpoint.
THEOREM SamplesHaveOnePlace == AsyncSpec => []EachSampleIsInOnePlace
<1>1. ASSUME Typed, Placed PROVE EachSampleIsInOnePlace
  <2>1. /\ Places = <<held, GeneratingSamples, QueueSamples, BatchSamples, trained>>
        /\ DOMAIN Places = 1..5
    BY DEF Places, GeneratingSamples, QueueSamples, BatchSamples
  <2>2. /\ Places[1] = held /\ Places[2] = GeneratingSamples /\ Places[3] = QueueSamples
        /\ Places[4] = BatchSamples /\ Places[5] = trained
    BY <2>1
  <2>3. \A i \in 1..5 : i = 1 \/ i = 2 \/ i = 3 \/ i = 4 \/ i = 5
    OBVIOUS
  <2>4. \A i, j \in DOMAIN Places : i # j => Places[i] \cap Places[j] = {}
    <3> TAKE i, j \in DOMAIN Places
    <3> HAVE i # j
    <3>1. CASE i = 1
      BY <1>1, <2>1, <2>2, <2>3, <3>1 DEF Placed, Apart
    <3>2. CASE i = 2
      BY <1>1, <2>1, <2>2, <2>3, <3>2 DEF Placed, Apart
    <3>3. CASE i = 3
      BY <1>1, <2>1, <2>2, <2>3, <3>3 DEF Placed, Apart
    <3>4. CASE i = 4
      BY <1>1, <2>1, <2>2, <2>3, <3>4 DEF Placed, Apart
    <3>5. CASE i = 5
      BY <1>1, <2>1, <2>2, <2>3, <3>5 DEF Placed, Apart
    <3> QED
      BY <2>1, <2>3, <3>1, <3>2, <3>3, <3>4, <3>5
  <2>5. UNION ToSet(Places) \subseteq 1..loaded
    <3>1. \A i \in 1..5 : Places[i] \subseteq 1..loaded
      BY <1>1, <2>2, <2>3, AllLoaded
    <3>2. ToSet(Places) = {Places[i] : i \in 1..5}
      BY <2>1 DEF ToSet
    <3> QED
      BY <3>1, <3>2
  <2> QED
    BY <1>1, <2>4, <2>5 DEF EachSampleIsInOnePlace, Placed, QueuedOnce
<1> QED
  BY <1>1, TypedAlways, PlacedAlways, PTL

-----------------------------------------------------------------------------
(* The end of the data: End is the last message the feeder queues, the last *)
(* one the processor takes and, unless a task failed, the last one the      *)
(* trainer gets.                                                            *)

Closing == {"finishing", "signalling", "over"}
Ending  == Closing \cup {"ending", "endWait"}

EndIsLast == \A i \in DOMAIN pending_queue : pending_queue[i] = End => i = Len(pending_queue) /\ feeder = "done"

\* Unless the processor raised, it ends when the data and the tasks are over.
DataIsOver ==
  /\ raised => processor \in Closing
  /\ processor \in Ending => raised \/ (pending_queue = <<>> /\ feeder = "done" /\ held = {})
  /\ processor \in Closing => raised \/ active_tasks = {}

LEMMA EndIsLastStep ==
  ASSUME Typed, EndIsLast, [AsyncNext]_asyncVars
  PROVE  EndIsLast'
<1> USE DEF Typed, FeedTypes, EndIsLast
<1>1. CASE FeedSample \/ FeedEnd
  <2>1. PICK e \in 0..(loaded + 1) :
          /\ pending_queue' = Append(pending_queue, e) /\ feeder # "done"
          /\ e = End => feeder' = "done"
    BY <1>1 DEF FeedSample, FeedEnd, End
  <2>2. /\ DOMAIN pending_queue = 1..Len(pending_queue) /\ Len(pending_queue) \in Nat
        /\ DOMAIN pending_queue' = 1..(Len(pending_queue) + 1) /\ Len(pending_queue') = Len(pending_queue) + 1
        /\ \A i \in 1..Len(pending_queue) : pending_queue'[i] = pending_queue[i]
        /\ pending_queue'[Len(pending_queue) + 1] = e
    BY <2>1
  <2> QED
    BY <2>1, <2>2
<1>2. CASE TakePending
  <2>1. pending_queue # <<>> /\ pending_queue' = Tail(pending_queue) /\ feeder' = feeder
    BY <1>2 DEF TakePending
  <2>2. /\ DOMAIN pending_queue = 1..Len(pending_queue) /\ Len(pending_queue) \in Nat \ {0}
        /\ DOMAIN pending_queue' = 1..(Len(pending_queue) - 1) /\ Len(pending_queue') = Len(pending_queue) - 1
        /\ \A i \in 1..(Len(pending_queue) - 1) :
             pending_queue'[i] = pending_queue[i + 1] /\ i + 1 \in DOMAIN pending_queue
    BY <2>1
  <2> QED
    BY <2>1, <2>2
<1>3. CASE Restart
  BY <1>3 DEF Restart
<1>4. CASE UNCHANGED <<pending_queue, feeder>>
  BY <1>4
<1> QED
  BY <1>1, <1>2, <1>3, <1>4
     DEF AsyncNext, ProcessorStep, TrainerStep, SampleGenerated, SampleLost, EndJob,
         WaitForLock, Pause, SetPaused, Park, AwaitPending, CreateTask, WaitForTasks,
         TasksFinished, Finish, PutEnd, GetSample, Train, PauseForSync, Drain, Drained, ResetFlags,
         ResetStaleness, UpdateWeights, SaveCheckpoint, StopTraining, asyncVars, feeding

\* The end signal is taken when nothing is pending behind it.
LEMMA EndIsTakenLast ==
  ASSUME Typed, EndIsLast, TakePending, Head(pending_queue) = End
  PROVE  pending_queue' = <<>> /\ feeder = "done"
<1>1. /\ pending_queue # <<>> /\ pending_queue' = Tail(pending_queue)
  BY DEF TakePending
<1>2. 1 \in DOMAIN pending_queue /\ pending_queue[1] = End
  BY <1>1 DEF Typed, FeedTypes
<1>3. Len(pending_queue) = 1 /\ feeder = "done"
  BY <1>2 DEF EndIsLast
<1>4. Len(Tail(pending_queue)) = 0 /\ Tail(pending_queue) \in Seq(0..loaded)
  BY <1>1, <1>3 DEF Typed, FeedTypes
<1> QED
  BY <1>1, <1>3, <1>4

\* What keeps DataIsOver: nothing new is fed, held or started.
DataStays ==
  /\ pending_queue = <<>> => pending_queue' = <<>>
  /\ feeder = "done" => feeder' = "done"
  /\ held = {} => held' = {}
  /\ active_tasks = {} => active_tasks' = {}

LEMMA DataIsOverStep ==
  ASSUME Typed, Hand, EndIsLast, DataIsOver, [AsyncNext]_asyncVars
  PROVE  DataIsOver'
<1> USE DEF Closing, Ending
<1>1. CASE TakePending
  <2>1. processor \in {"loop", "getting"} /\ UNCHANGED <<raised, active_tasks, feeder>>
    BY <1>1 DEF TakePending
  <2>2. held = {} /\ ~raised
    BY <2>1 DEF Hand, HoldsSample, DataIsOver
  <2>3. CASE Head(pending_queue) = End
    <3>1. /\ pending_queue' = <<>> /\ feeder = "done" /\ held' = held
          /\ processor' = AfterEnd
      BY <1>1, <2>3, EndIsTakenLast DEF TakePending
    <3> QED
      BY <2>1, <2>2, <3>1 DEF DataIsOver, AfterEnd
  <2>4. CASE Head(pending_queue) # End
    <3>1. processor' \in {"limiting", "creating"}
      BY <1>1, <2>4 DEF TakePending
    <3> QED
      BY <2>1, <2>2, <3>1 DEF DataIsOver
  <2> QED
    BY <2>3, <2>4
<1>2. CASE TasksFinished
  <2>1. /\ processor \in {"drainWait", "endWait", "limitWait"} /\ raised' = SomeFailed
        /\ UNCHANGED <<pending_queue, feeder, held>>
        /\ SomeFailed => processor' = "finishing"
        /\ ~SomeFailed /\ processor = "drainWait" => processor' \in {"parking", "draining"}
        /\ ~SomeFailed /\ processor = "limitWait" => processor' \in {"limiting", "creating"}
        /\ ~SomeFailed /\ processor = "endWait" => processor' = IF active_tasks' = {} THEN "finishing" ELSE "ending"
    BY <1>2 DEF TasksFinished, feeding
  <2>2. ~raised
    BY <2>1 DEF DataIsOver
  <2>3. CASE SomeFailed
    BY <2>1, <2>3 DEF DataIsOver
  <2>4. CASE ~SomeFailed
    BY <2>1, <2>2, <2>4 DEF DataIsOver
  <2> QED
    BY <2>3, <2>4
<1>3. CASE WaitForTasks
  <2>1. /\ UNCHANGED <<pending_queue, feeder, held, active_tasks, raised>>
        /\ \/ processor' \in {"parking", "creating", "drainWait", "limitWait"} /\ processor \in {"draining", "limiting"}
           \/ processor = "ending" /\ processor' = "endWait"
           \/ processor = "ending" /\ processor' = "finishing" /\ active_tasks = {}
    BY <1>3 DEF WaitForTasks, feeding, tasks
  <2> QED
    BY <2>1 DEF DataIsOver
<1>4. CASE CreateTask
  <2>1. /\ processor \in {"creating", "releasing"} /\ processor' \in {"loop", "holding"} /\ raised' = raised
    BY <1>4 DEF CreateTask
  <2> QED
    BY <2>1 DEF DataIsOver
<1>5. CASE FeedSample \/ FeedEnd
  <2>1. ~raised /\ feeder # "done" /\ UNCHANGED <<processor, raised>>
    BY <1>5 DEF FeedSample, FeedEnd
  <2> QED
    BY <2>1 DEF DataIsOver
<1>6. CASE Restart
  BY <1>6 DEF Restart, DataIsOver
<1>7. CASE Finish \/ PutEnd
  <2>1. /\ processor \in Closing /\ processor' \in Closing
        /\ UNCHANGED <<pending_queue, feeder, held, active_tasks, raised>>
    BY <1>7 DEF Finish, PutEnd, feeding, tasks
  <2> QED
    BY <2>1 DEF DataIsOver
<1>8. CASE /\ DataStays /\ raised' = raised
           /\ processor' = processor \/ (processor \notin Closing /\ processor' \notin Ending)
  BY <1>8 DEF DataIsOver, DataStays
<1>9. CASE SampleGenerated \/ SampleLost
  <2>1. active_tasks # {} /\ UNCHANGED <<pending_queue, feeder, held, raised, processor>>
    BY <1>9 DEF SampleGenerated, SampleLost, Generating, feeding
  <2> QED
    BY <1>8, <2>1 DEF DataStays
<1>10. CASE Drained
  <2>1. active_tasks' = Generating /\ UNCHANGED <<pending_queue, feeder, held, raised, processor>>
    BY <1>10 DEF Drained, feeding
  <2> QED
    BY <1>8, <2>1 DEF DataStays, Generating
<1>11. CASE Pause \/ SetPaused \/ Park \/ AwaitPending
  <2>1. /\ UNCHANGED <<pending_queue, feeder, held, active_tasks, raised>>
        /\ processor \in {"loop", "pausing", "parking", "unparking"}
        /\ processor' \in {"pausing", "parking", "draining", "parked", "loop", "getting"}
    BY <1>11 DEF Pause, SetPaused, Park, AwaitPending, feeding, tasks
  <2> QED
    BY <1>8, <2>1 DEF DataStays
<1>12. CASE ResetFlags
  <2>1. /\ UNCHANGED <<pending_queue, feeder, held, active_tasks, raised>>
        /\ processor' = processor \/ (processor \in {"parked", "holding"} /\ processor' \in {"unparking", "releasing"})
    BY <1>12 DEF ResetFlags, Notified, feeding, tasks
  <2> QED
    BY <1>8, <2>1 DEF DataStays
<1>13. CASE UNCHANGED <<pending_queue, feeder, held, active_tasks, raised, processor>>
  BY <1>8, <1>13 DEF DataStays
<1> QED
  BY <1>1, <1>2, <1>3, <1>4, <1>5, <1>6, <1>7, <1>9, <1>10, <1>11, <1>12, <1>13
     DEF AsyncNext, ProcessorStep, TrainerStep, EndJob, WaitForLock, GetSample, Train, PauseForSync, Drain,
         ResetStaleness, UpdateWeights, SaveCheckpoint, StopTraining, asyncVars, feeding, tasks

\* A run that did not fail puts nothing behind the end signal.
EndIsQueuedLast == raised \/ \A i \in DOMAIN queue : queue[i].sample = End => i = Len(queue)

LEMMA EndIsQueuedLastStep ==
  ASSUME Typed, NoEndYet, DataIsOver, EndIsQueuedLast, [AsyncNext]_asyncVars
  PROVE  EndIsQueuedLast'
<1> USE DEF Closing, Ending
<1>1. CASE SampleGenerated
  <2>1. PICK t \in Generating : PutSample([sample |-> t.sample, version |-> t.version])
    BY <1>1 DEF SampleGenerated
  <2> DEFINE m == [sample |-> t.sample, version |-> t.version]
  <2>2. m \in Messages /\ m.sample # End
    BY DEF Typed, Generating, TaskTypes, TaskRecords, Messages, FeedTypes, TrainTypes, End
  <2>3. raised' = raised /\ active_tasks # {}
    BY <1>1 DEF SampleGenerated, Generating
  <2>4. ASSUME ~raised PROVE \A i \in DOMAIN queue' : queue'[i].sample # End
    <3>1. processor # "over"
      BY <2>3, <2>4 DEF DataIsOver
    <3>2. \A q \in ToSet(queue) : q.sample # End
      BY <3>1, NoEndIn
    <3>3. ToSet(queue') \subseteq ToSet(queue) \cup {m}
      BY <2>1, <2>2, PutSet
    <3> QED
      BY <2>2, <3>2, <3>3 DEF ToSet
  <2> QED
    BY <2>3, <2>4 DEF EndIsQueuedLast
<1>2. CASE PutEnd
  <2> DEFINE m == [sample |-> End, version |-> 0]
  <2>1. processor = "signalling" /\ PutSample(m)
    BY <1>2 DEF PutEnd
  <2>2. m \in Messages
    BY DEF Typed, FeedTypes, Messages, End
  <2>3. PICK s \in Seq(Messages) : queue' = Append(s, m) /\ (s = queue \/ (queue # <<>> /\ s = Tail(queue)))
    BY <2>1, <2>2, PutIs
  <2>4. ToSet(s) \subseteq ToSet(queue)
    BY <2>3, TailSet DEF Typed, QueueTypes
  <2>5. \A q \in ToSet(s) : q.sample # End
    BY <2>1, <2>4, NoEndIn
  <2>6. /\ DOMAIN s = 1..Len(s) /\ Len(s) \in Nat /\ Len(queue') = Len(s) + 1
        /\ DOMAIN queue' = 1..(Len(s) + 1) /\ \A i \in 1..Len(s) : queue'[i] = s[i]
    BY <2>3
  <2>7. \A i \in 1..Len(s) : s[i].sample # End
    BY <2>5, <2>6 DEF ToSet
  <2> QED
    BY <2>6, <2>7 DEF EndIsQueuedLast
<1>3. CASE GetSample
  <2>1. queue # <<>> /\ queue' = Tail(queue) /\ raised' = raised
    BY <1>3 DEF GetSample
  <2>2. /\ DOMAIN queue = 1..Len(queue) /\ Len(queue) \in Nat \ {0} /\ Len(queue') = Len(queue) - 1
        /\ DOMAIN queue' = 1..(Len(queue) - 1)
        /\ \A i \in 1..(Len(queue) - 1) : queue'[i] = queue[i + 1] /\ i + 1 \in DOMAIN queue
    BY <2>1 DEF Typed, QueueTypes
  <2> QED
    BY <2>1, <2>2 DEF EndIsQueuedLast
<1>4. CASE Restart
  BY <1>4 DEF Restart, EndIsQueuedLast
<1>5. CASE TasksFinished
  <2>1. queue' = queue /\ processor \in {"drainWait", "endWait", "limitWait"}
    BY <1>5 DEF TasksFinished, messages
  <2> QED
    BY <2>1 DEF NoEndYet, EndIsQueuedLast
<1>6. CASE UNCHANGED <<queue, raised>>
  BY <1>6 DEF EndIsQueuedLast
<1> QED
  BY <1>1, <1>2, <1>3, <1>4, <1>5, <1>6
     DEF AsyncNext, ProcessorStep, TrainerStep, FeedSample, FeedEnd, SampleLost, EndJob,
         WaitForLock, Pause, SetPaused, Park, AwaitPending, TakePending, CreateTask, WaitForTasks,
         Finish, Train, PauseForSync, Drain, Drained, ResetFlags,
         ResetStaleness, UpdateWeights, SaveCheckpoint, StopTraining, asyncVars, messages

\* The trainer stops at the end signal, which is then behind everything else.
Stopped ==
  /\ stopping => processor = "over" /\ trainer \notin {"collecting", "training"} /\ (raised \/ queue = <<>>)
  /\ trainer \in {"stopping", "over"} => stopping

LEMMA StoppedStep ==
  ASSUME Typed, NoEndYet, DataIsOver, EndIsQueuedLast, Stopped, [AsyncNext]_asyncVars
  PROVE  Stopped'
<1> USE DEF Stopped
<1>1. CASE SampleGenerated
  <2>1. active_tasks # {} /\ UNCHANGED <<processor, trainer, stopping, raised>>
    BY <1>1 DEF SampleGenerated, Generating, training
  <2>2. processor = "over" => raised
    BY <2>1 DEF DataIsOver, Closing
  <2> QED
    BY <2>1, <2>2
<1>2. CASE GetSample
  <2>1. /\ trainer = "collecting" /\ queue # <<>> /\ queue' = Tail(queue)
        /\ UNCHANGED <<processor, raised>>
    BY <1>2 DEF GetSample
  <2>2. CASE Head(queue).sample = End
    <3>1. 1 \in DOMAIN queue /\ queue[1] = Head(queue) /\ Len(queue) \in Nat
      BY <2>1 DEF Typed, QueueTypes
    <3>2. processor = "over"
      BY <2>2, <3>1 DEF NoEndYet
    <3>3. raised \/ Len(queue) = 1
      BY <2>2, <3>1 DEF EndIsQueuedLast
    <3>4. Len(queue) = 1 => queue' = <<>>
      BY <2>1 DEF Typed, QueueTypes
    <3> QED
      BY <1>2, <2>1, <2>2, <3>2, <3>3, <3>4 DEF GetSample
  <2>3. CASE Head(queue).sample # End
    BY <1>2, <2>1, <2>3 DEF GetSample
  <2> QED
    BY <2>2, <2>3
<1>3. CASE Restart
  BY <1>3 DEF Restart
<1>4. CASE /\ UNCHANGED <<stopping, trainer>>
           /\ processor # "over" \/ UNCHANGED <<processor, raised, queue>>
  BY <1>4
<1>5. CASE \/ Pause \/ SetPaused \/ Park \/ AwaitPending \/ TakePending \/ CreateTask \/ WaitForTasks
           \/ TasksFinished \/ Finish \/ PutEnd
  <2>1. processor # "over" /\ UNCHANGED <<stopping, trainer>>
    BY <1>5 DEF Pause, SetPaused, Park, AwaitPending, TakePending, CreateTask, WaitForTasks, TasksFinished,
                Finish, PutEnd, training
  <2> QED
    BY <1>4, <2>1
<1>6. CASE Train
  BY <1>6 DEF Train, messages
<1>7. CASE PauseForSync \/ Drain \/ Drained \/ UpdateWeights \/ ResetFlags \/ ResetStaleness
  <2>1. /\ trainer' \in {"draining", "updating", "drainWait", "raised", "resetting", "counting", "saving"}
        /\ UNCHANGED <<stopping, raised, queue>>
        /\ processor = "over" => processor' = "over"
    BY <1>7 DEF PauseForSync, Drain, Drained, UpdateWeights, ResetFlags, Notified, ResetStaleness, messages
  <2> QED
    BY <2>1
<1>8. CASE SaveCheckpoint \/ StopTraining
  <2>1. /\ stopping => trainer' \in {"over", "syncing", "saving"}
        /\ trainer' = "over" => stopping
        /\ trainer' # "stopping"
        /\ UNCHANGED <<stopping, raised, queue, processor>>
    BY <1>8 DEF SaveCheckpoint, StopTraining, messages
  <2> QED
    BY <2>1
<1> QED
  BY <1>1, <1>2, <1>3, <1>4, <1>5, <1>6, <1>7, <1>8
     DEF AsyncNext, ProcessorStep, TrainerStep, FeedSample, FeedEnd, SampleLost, EndJob,
         WaitForLock, asyncVars, messages, training

\* Only a run whose components are over is completed.
Completed == outcome = "completed" => trainer = "over" /\ processor = "over" /\ ~raised

LEMMA CompletedStep ==
  ASSUME Completed, [AsyncNext]_asyncVars
  PROVE  Completed'
<1>1. CASE EndJob
  BY <1>1 DEF EndJob, Completed, training
<1>2. CASE Restart
  BY <1>2 DEF Restart, Completed
<1>3. CASE UNCHANGED asyncVars
  BY <1>3 DEF asyncVars, training, job, Completed
<1>4. CASE Running /\ outcome' = outcome
  BY <1>4 DEF Running, Completed
<1> QED
  BY <1>1, <1>2, <1>3, <1>4
     DEF AsyncNext, ProcessorStep, TrainerStep, FeedSample, FeedEnd, SampleGenerated, SampleLost, LoopIsFreeFor,
         Acquires, WaitForLock, Pause, SetPaused, Park, AwaitPending, TakePending, CreateTask, WaitForTasks,
         TasksFinished, Finish, PutEnd, GetSample, Train, PauseForSync, Drain, Drained, ResetFlags,
         ResetStaleness, UpdateWeights, SaveCheckpoint, StopTraining, job

\* How a run ends.
Closed == EndIsLast /\ DataIsOver /\ EndIsQueuedLast /\ Stopped /\ Completed

LEMMA ClosedAlways == AsyncSpec => []Closed
<1>1. AsyncInit => Closed
  BY DEF AsyncInit, Closed, EndIsLast, DataIsOver, Closing, Ending, EndIsQueuedLast, Stopped, Completed
<1>2. Typed /\ Scheduled /\ Placed /\ Closed /\ [AsyncNext]_asyncVars => Closed'
  BY EndIsLastStep, DataIsOverStep, EndIsQueuedLastStep, StoppedStep, CompletedStep
     DEF Closed, Scheduled, Placed
<1> QED
  BY <1>1, <1>2, TypedAlways, ScheduledAlways, PlacedAlways, PTL DEF AsyncSpec

-----------------------------------------------------------------------------
(* What becomes of the samples that were drawn                              *)

\* A failed task keeps its sample until it is awaited and ends the job.
LiveSamples == {t.sample : t \in {u \in active_tasks : u.status \in {"generating", "failed"}}}

Known   == PendingSamples \cup held \cup LiveSamples \cup QueueSamples \cup BatchSamples \cup trained
Missing == (1..loaded) \ Known

\* What may be missing: the dropped, the cancelled and the batch the end cut.
Allowed == dropped_samples + cancelled + (IF stopping THEN RequiredSamples - 1 ELSE 0)

LEMMA MissingIsFinite ==
  ASSUME Typed
  PROVE  IsFiniteSet(Missing) /\ Cardinality(Missing) \in Nat
<1>1. IsFiniteSet(1..loaded) /\ Missing \subseteq 1..loaded
  BY FS_Interval DEF Typed, FeedTypes, Missing
<1> QED
  BY <1>1, FS_Subset, FS_CardinalityType

LEMMA NoneMissing ==
  ASSUME Typed, Missing' \subseteq Missing
  PROVE  Cardinality(Missing') \in Nat /\ Cardinality(Missing') <= Cardinality(Missing)
  BY MissingIsFinite, FS_Subset, FS_CardinalityType

LEMMA OneMissing ==
  ASSUME Typed, NEW x, Missing' \subseteq Missing \cup {x}
  PROVE  Cardinality(Missing') \in Nat /\ Cardinality(Missing') <= Cardinality(Missing) + 1
<1>1. IsFiniteSet(Missing \cup {x}) /\ Cardinality(Missing \cup {x}) <= Cardinality(Missing) + 1
  BY MissingIsFinite, AddOne
<1>2. IsFiniteSet(Missing') /\ Cardinality(Missing') <= Cardinality(Missing \cup {x})
  BY <1>1, FS_Subset
<1> QED
  BY <1>1, <1>2, MissingIsFinite, FS_CardinalityType

\* The batch has no more samples than places.
LEMMA BatchIsSmall ==
  ASSUME Typed
  PROVE  IsFiniteSet(BatchSamples) /\ Cardinality(BatchSamples) \in Nat /\ Cardinality(BatchSamples) <= Len(batch)
<1> DEFINE s == [i \in 1..Len(batch) |-> batch[i].sample]
<1>1. Len(batch) \in Nat /\ DOMAIN batch = 1..Len(batch)
  BY DEF Typed, TrainTypes
<1>2. BatchSamples = {batch[i].sample : i \in 1..Len(batch)}
  BY <1>1 DEF BatchSamples, ToSet
<1>3. s \in Surjection(1..Len(batch), BatchSamples)
  BY <1>2 DEF Surjection
<1>4. IsFiniteSet(1..Len(batch)) /\ Cardinality(1..Len(batch)) = Len(batch)
  <2>1. Len(batch) \in Nat
    BY <1>1
  <2> HIDE DEF s
  <2> QED
    BY SMTT(30), <2>1, FS_Interval
<1> QED
  BY <1>3, <1>4, FS_Surjection, FS_CardinalityType

LEMMA BatchMissing ==
  ASSUME Typed, Missing' \subseteq Missing \cup BatchSamples
  PROVE  Cardinality(Missing') \in Nat /\ Cardinality(Missing') <= Cardinality(Missing) + Len(batch)
<1>1. /\ IsFiniteSet(Missing) /\ Cardinality(Missing) \in Nat
      /\ IsFiniteSet(BatchSamples) /\ Cardinality(BatchSamples) \in Nat /\ Cardinality(BatchSamples) <= Len(batch)
      /\ Len(batch) \in Nat
  BY MissingIsFinite, BatchIsSmall DEF Typed, TrainTypes
<1>2. /\ IsFiniteSet(Missing \cup BatchSamples) /\ Cardinality(Missing \cap BatchSamples) \in Nat
      /\ Cardinality(Missing \cup BatchSamples) =
           Cardinality(Missing) + Cardinality(BatchSamples) - Cardinality(Missing \cap BatchSamples)
  BY <1>1, FS_Union, FS_Intersection, FS_CardinalityType
<1>3. IsFiniteSet(Missing') /\ Cardinality(Missing') <= Cardinality(Missing \cup BatchSamples)
  BY <1>2, FS_Subset
<1>4. Cardinality(Missing') \in Nat
  BY <1>3, FS_CardinalityType
<1> QED
  BY <1>1, <1>2, <1>3, <1>4

\* A message that is put stays, and at most one other is dropped for it.
LEMMA PutKeeps ==
  ASSUME Typed, NEW m \in Messages, PutSample(m)
  PROVE  \/ dropped_samples' = dropped_samples /\ ToSet(queue) \cup {m} \subseteq ToSet(queue')
         \/ /\ dropped_samples' = dropped_samples + 1
            /\ \E q : ToSet(queue) \cup {m} \subseteq ToSet(queue') \cup {q}
<1> USE DEF Typed, QueueTypes
<1>1. CASE Len(queue) >= MaxQueueSize
  <2>1. queue # <<>> /\ queue' = Append(Tail(queue), m) /\ dropped_samples' = dropped_samples + 1
    BY <1>1, Sizes DEF PutSample
  <2>2. Tail(queue) \in Seq(Messages)
    BY <2>1
  <2>3. ToSet(queue') = ToSet(Tail(queue)) \cup {m}
    <3> DEFINE rest == Tail(queue)
    <3>1. rest \in Seq(Messages) /\ queue' = Append(rest, m)
      BY <2>1, <2>2
    <3> HIDE DEF rest
    <3>2. ToSet(queue') = ToSet(rest) \cup {m}
      BY <3>1, AppendSet
    <3> QED
      BY <3>2 DEF rest
  <2>5. ToSet(queue) = {Head(queue)} \cup ToSet(Tail(queue))
    BY <2>1, TailSet
  <2>4. ToSet(queue) \cup {m} \subseteq ToSet(queue') \cup {Head(queue)}
    BY <2>3, <2>5
  <2> QED
    BY <2>1, <2>4
<1>2. CASE ~(Len(queue) >= MaxQueueSize)
  <2>1. queue' = Append(queue, m) /\ dropped_samples' = dropped_samples
    BY <1>2 DEF PutSample
  <2>2. ToSet(queue') = ToSet(queue) \cup {m}
    BY <2>1, AppendSet
  <2> QED
    BY <2>1, <2>2
<1> QED
  BY <1>1, <1>2

LEMMA PutLosesOne ==
  ASSUME Typed, NEW m \in Messages, PutSample(m)
  PROVE  \/ /\ dropped_samples' = dropped_samples
            /\ QueueSamples \cup ({m.sample} \ {End}) \subseteq QueueSamples'
         \/ /\ dropped_samples' = dropped_samples + 1
            /\ \E x : QueueSamples \cup ({m.sample} \ {End}) \subseteq QueueSamples' \cup {x}
<1>1. CASE dropped_samples' = dropped_samples /\ ToSet(queue) \cup {m} \subseteq ToSet(queue')
  BY <1>1 DEF QueueSamples, Waiting
<1>2. CASE /\ dropped_samples' = dropped_samples + 1
           /\ \E q : ToSet(queue) \cup {m} \subseteq ToSet(queue') \cup {q}
  <2>1. PICK q : ToSet(queue) \cup {m} \subseteq ToSet(queue') \cup {q}
    BY <1>2
  <2>2. QueueSamples \cup ({m.sample} \ {End}) \subseteq QueueSamples' \cup {q.sample}
    BY <2>1 DEF QueueSamples, Waiting
  <2> QED
    BY <1>2, <2>2
<1> QED
  BY <1>1, <1>2, PutKeeps

\* What one step may lose.
LosesNone == Missing' \subseteq Missing /\ UNCHANGED <<dropped_samples, cancelled, stopping>>
LosesOne ==
  /\ \E x : Missing' \subseteq Missing \cup {x}
  /\ stopping' = stopping
  /\ \/ dropped_samples' = dropped_samples + 1 /\ cancelled' = cancelled
     \/ dropped_samples' = dropped_samples /\ cancelled' = cancelled + 1
LosesBatch ==
  /\ Missing' \subseteq Missing \cup BatchSamples
  /\ ~stopping /\ trainer = "collecting" /\ UNCHANGED <<dropped_samples, cancelled>>
  /\ stopping'

LEMMA GeneratedLoses ==
  ASSUME Typed, SampleGenerated
  PROVE  LosesNone \/ LosesOne
<1>1. PICK t \in Generating :
        /\ PutSample([sample |-> t.sample, version |-> t.version])
        /\ active_tasks' = (active_tasks \ {t}) \cup {[t EXCEPT !.status = "done"]}
  BY DEF SampleGenerated
<1> DEFINE m == [sample |-> t.sample, version |-> t.version]
<1>2. m \in Messages /\ m.sample = t.sample /\ t.sample # End
  BY DEF Typed, Generating, TaskTypes, TaskRecords, Messages, FeedTypes, TrainTypes, End
<1>3. /\ UNCHANGED <<loaded, pending_queue, held, batch, trained, cancelled, stopping>>
  BY DEF SampleGenerated, feeding, training, job
<1>4. UNCHANGED <<PendingSamples, BatchSamples>>
  BY <1>3 DEF PendingSamples, BatchSamples
<1>5. LiveSamples \subseteq LiveSamples' \cup {t.sample}
  BY <1>1 DEF LiveSamples
<1>6. \/ dropped_samples' = dropped_samples /\ QueueSamples \cup {t.sample} \subseteq QueueSamples'
      \/ /\ dropped_samples' = dropped_samples + 1
         /\ \E x : QueueSamples \cup {t.sample} \subseteq QueueSamples' \cup {x}
  <2> HIDE DEF m
  <2>1. {m.sample} \ {End} = {t.sample}
    BY <1>2
  <2>2. PutSample(m)
    BY <1>1 DEF m
  <2> QED
    BY <1>2, <2>1, <2>2, PutLosesOne
<1>7. CASE dropped_samples' = dropped_samples /\ QueueSamples \cup {t.sample} \subseteq QueueSamples'
  BY <1>3, <1>4, <1>5, <1>7 DEF LosesNone, Missing, Known
<1>8. CASE /\ dropped_samples' = dropped_samples + 1
           /\ \E x : QueueSamples \cup {t.sample} \subseteq QueueSamples' \cup {x}
  <2>1. PICK x : QueueSamples \cup {t.sample} \subseteq QueueSamples' \cup {x}
    BY <1>8
  <2>2. Missing' \subseteq Missing \cup {x}
    BY <1>3, <1>4, <1>5, <2>1 DEF Missing, Known
  <2> QED
    BY <1>3, <1>8, <2>2 DEF LosesOne
<1> QED
  BY <1>6, <1>7, <1>8

LEMMA PutEndLoses ==
  ASSUME Typed, PutEnd
  PROVE  LosesNone \/ LosesOne
<1> DEFINE m == [sample |-> End, version |-> 0]
<1>1. m \in Messages /\ PutSample(m)
  BY DEF PutEnd, Typed, FeedTypes, Messages, End
<1>2. UNCHANGED <<loaded, pending_queue, held, active_tasks, batch, trained, cancelled, stopping>>
  BY DEF PutEnd, feeding, tasks, training, job
<1>3. UNCHANGED <<PendingSamples, LiveSamples, BatchSamples>>
  BY <1>2 DEF PendingSamples, LiveSamples, BatchSamples
<1> HIDE DEF m
<1>4. \/ dropped_samples' = dropped_samples /\ QueueSamples \subseteq QueueSamples'
      \/ dropped_samples' = dropped_samples + 1 /\ \E x : QueueSamples \subseteq QueueSamples' \cup {x}
  BY <1>1, PutLosesOne
<1>5. CASE dropped_samples' = dropped_samples /\ QueueSamples \subseteq QueueSamples'
  BY <1>2, <1>3, <1>5 DEF LosesNone, Missing, Known
<1>6. CASE dropped_samples' = dropped_samples + 1 /\ \E x : QueueSamples \subseteq QueueSamples' \cup {x}
  <2>1. PICK x : QueueSamples \subseteq QueueSamples' \cup {x}
    BY <1>6
  <2>2. Missing' \subseteq Missing \cup {x}
    BY <1>2, <1>3, <2>1 DEF Missing, Known
  <2> QED
    BY <1>2, <1>6, <2>2 DEF LosesOne
<1> QED
  BY <1>4, <1>5, <1>6

LEMMA LostLoses ==
  ASSUME Typed, SampleLost
  PROVE  LosesNone \/ LosesOne
<1>1. PICK t \in Generating :
        \/ /\ active_tasks' = (active_tasks \ {t}) \cup {[t EXCEPT !.status = "cancelled"]}
           /\ cancelled' = cancelled + 1
        \/ /\ active_tasks' = (active_tasks \ {t}) \cup {[t EXCEPT !.status = "failed"]}
           /\ cancelled' = cancelled
  BY DEF SampleLost
<1>2. UNCHANGED <<loaded, pending_queue, held, queue, batch, trained, dropped_samples, stopping>>
  BY DEF SampleLost, feeding, training, messages
<1>3. UNCHANGED <<PendingSamples, QueueSamples, BatchSamples>>
  BY <1>2 DEF PendingSamples, QueueSamples, Waiting, BatchSamples
<1>4. t \in TaskRecords
  BY DEF Generating, Typed, TaskTypes
<1>5. CASE /\ active_tasks' = (active_tasks \ {t}) \cup {[t EXCEPT !.status = "cancelled"]}
           /\ cancelled' = cancelled + 1
  <2>1. LiveSamples \subseteq LiveSamples' \cup {t.sample}
    BY <1>5 DEF LiveSamples
  <2>2. Missing' \subseteq Missing \cup {t.sample}
    BY <1>2, <1>3, <2>1 DEF Missing, Known
  <2> QED
    BY <1>2, <1>5, <2>2 DEF LosesOne
<1>6. CASE /\ active_tasks' = (active_tasks \ {t}) \cup {[t EXCEPT !.status = "failed"]}
           /\ cancelled' = cancelled
  <2>1. [t EXCEPT !.status = "failed"].sample = t.sample /\ [t EXCEPT !.status = "failed"].status = "failed"
    BY <1>4 DEF TaskRecords
  <2>2. LiveSamples \subseteq LiveSamples'
    BY <1>6, <2>1 DEF LiveSamples
  <2> QED
    BY <1>2, <1>3, <1>6, <2>2 DEF LosesNone, Missing, Known
<1> QED
  BY <1>1, <1>5, <1>6

LEMMA TakeLoses ==
  ASSUME Typed, Hand, TakePending
  PROVE  LosesNone
<1>1. /\ UNCHANGED <<loaded, active_tasks, queue, batch, trained, dropped_samples, cancelled, stopping>>
      /\ processor \in {"loop", "getting"}
      /\ pending_queue # <<>> /\ pending_queue' = Tail(pending_queue)
      /\ held' = IF Head(pending_queue) = End THEN held ELSE {Head(pending_queue)}
  BY DEF TakePending, messages, training, job
<1>2. held = {}
  BY <1>1 DEF Hand, HoldsSample
<1>3. UNCHANGED <<LiveSamples, QueueSamples, BatchSamples>>
  BY <1>1 DEF LiveSamples, QueueSamples, Waiting, BatchSamples
<1>4. ToSet(pending_queue) = {Head(pending_queue)} \cup ToSet(pending_queue')
  BY <1>1, TailSet DEF Typed, FeedTypes
<1>5. PendingSamples \subseteq PendingSamples' \cup held'
  BY <1>1, <1>4 DEF PendingSamples
<1> QED
  BY <1>1, <1>2, <1>3, <1>5 DEF LosesNone, Missing, Known

LEMMA FeedLoses ==
  ASSUME Typed, FeedSample \/ FeedEnd
  PROVE  LosesNone
<1>1. UNCHANGED <<held, active_tasks, queue, batch, trained, dropped_samples, cancelled, stopping>>
  BY DEF FeedSample, FeedEnd, tasks, messages, training, job
<1>2. UNCHANGED <<LiveSamples, QueueSamples, BatchSamples>>
  BY <1>1 DEF LiveSamples, QueueSamples, Waiting, BatchSamples
<1>3. PICK e \in 0..(loaded + 1) :
        /\ pending_queue' = Append(pending_queue, e)
        /\ (e = End /\ loaded' = loaded) \/ (e = loaded + 1 /\ loaded' = loaded + 1)
  BY DEF FeedSample, FeedEnd, End, Typed, FeedTypes
<1>4. ToSet(pending_queue') = ToSet(pending_queue) \cup {e}
  <2> DEFINE S == 0..(loaded + 1)
  <2>1. 0..loaded \subseteq S
    BY DEF Typed, FeedTypes
  <2>2. pending_queue \in Seq(S) /\ e \in S
    BY <2>1, SeqGrows DEF Typed, FeedTypes
  <2> HIDE DEF S
  <2> QED
    BY <1>3, <2>2, AppendSet
<1>5. 1..loaded' \subseteq (1..loaded) \cup ({e} \ {End})
  BY <1>3 DEF Typed, FeedTypes, End
<1>6. PendingSamples' = PendingSamples \cup ({e} \ {End})
  BY <1>4 DEF PendingSamples
<1> QED
  BY <1>1, <1>2, <1>5, <1>6 DEF LosesNone, Missing, Known

LEMMA CreateLoses ==
  ASSUME Typed, CreateTask
  PROVE  LosesNone
<1>1. UNCHANGED <<loaded, pending_queue, queue, batch, trained, dropped_samples, cancelled, stopping>>
  BY DEF CreateTask, feeding, messages, training, job
<1>2. UNCHANGED <<PendingSamples, QueueSamples, BatchSamples>>
  BY <1>1 DEF PendingSamples, QueueSamples, Waiting, BatchSamples
<1>3. LiveSamples \cup held \subseteq LiveSamples' \cup held'
  <2>1. CASE MayStart
    <3> DEFINE New == {[sample |-> s, version |-> rollout_version, status |-> "generating"] : s \in held}
    <3>1. active_tasks' = active_tasks \cup New
      BY <2>1 DEF CreateTask
    <3>2. ASSUME NEW s \in held PROVE \E t \in New : t.sample = s /\ t.status = "generating"
      <4> DEFINE t == [sample |-> s, version |-> rollout_version, status |-> "generating"]
      <4>1. t \in New /\ t.sample = s /\ t.status = "generating"
        OBVIOUS
      <4> QED
        BY <4>1
    <3> HIDE DEF New
    <3>3. held \subseteq LiveSamples' /\ LiveSamples \subseteq LiveSamples'
      BY <3>1, <3>2 DEF LiveSamples
    <3> QED
      BY <3>3
  <2>2. CASE ~MayStart
    BY <2>2 DEF CreateTask, LiveSamples
  <2> QED
    BY <2>1, <2>2
<1> QED
  BY <1>1, <1>2, <1>3 DEF LosesNone, Missing, Known

\* Tasks are only forgotten when none of them failed, or the job does.
LEMMA AwaitedLoses ==
  ASSUME Typed, \/ TasksFinished /\ ~raised'
                \/ Drained /\ trainer' # "raised"
  PROVE  LosesNone
<1>1. /\ UNCHANGED <<loaded, pending_queue, held, queue, batch, trained, dropped_samples, cancelled, stopping>>
      /\ active_tasks' = Generating /\ ~SomeFailed
  BY DEF TasksFinished, Drained, feeding, messages, training, job
<1>2. UNCHANGED <<PendingSamples, QueueSamples, BatchSamples>>
  BY <1>1 DEF PendingSamples, QueueSamples, Waiting, BatchSamples
<1>3. LiveSamples \subseteq LiveSamples'
  <2>1. \A t \in active_tasks : t.status \in {"generating", "failed"} => t \in Generating
    BY <1>1 DEF SomeFailed, Finished, Generating
  <2> QED
    BY <1>1, <2>1 DEF LiveSamples
<1> QED
  BY <1>1, <1>2, <1>3 DEF LosesNone, Missing, Known

LEMMA GetLoses ==
  ASSUME Typed, Stopped, GetSample
  PROVE  LosesNone \/ LosesBatch
<1>1. /\ UNCHANGED <<loaded, pending_queue, held, active_tasks, trained, dropped_samples, cancelled>>
      /\ queue # <<>> /\ queue' = Tail(queue) /\ trainer = "collecting"
  BY DEF GetSample, feeding, tasks, job
<1>2. UNCHANGED <<PendingSamples, LiveSamples>>
  BY <1>1 DEF PendingSamples, LiveSamples
<1>3. ToSet(queue) = {Head(queue)} \cup ToSet(queue')
  BY <1>1, TailSet DEF Typed, QueueTypes
<1>4. CASE Head(queue).sample = End
  <2>1. QueueSamples \subseteq QueueSamples' /\ stopping' /\ ~stopping
    BY <1>1, <1>3, <1>4 DEF QueueSamples, Waiting, GetSample, Stopped
  <2>2. Missing' \subseteq Missing \cup BatchSamples
    BY <1>1, <1>2, <2>1 DEF Missing, Known
  <2> QED
    BY <1>1, <2>1, <2>2 DEF LosesBatch
<1>5. CASE Head(queue).sample # End
  <2>1. batch' = Append(batch, Head(queue)) /\ stopping' = stopping
    BY <1>5 DEF GetSample
  <2>2. Head(queue) \in [sample : 1..loaded, version : Nat]
    <3>1. Head(queue) \in Messages
      BY <1>1 DEF Typed, QueueTypes
    <3> QED
      BY <1>5, <3>1 DEF Messages, End, Typed, FeedTypes
  <2>3. ToSet(batch') = ToSet(batch) \cup {Head(queue)}
    <3> DEFINE T == [sample : 1..loaded, version : Nat]
    <3>1. batch \in Seq(T) /\ Head(queue) \in T
      BY <2>2 DEF Typed, TrainTypes
    <3> HIDE DEF T
    <3> QED
      BY <2>1, <3>1, AppendSet
  <2>4. QueueSamples \cup BatchSamples \subseteq QueueSamples' \cup BatchSamples'
    BY <1>3, <2>3 DEF QueueSamples, Waiting, BatchSamples
  <2> QED
    BY <1>1, <1>2, <2>1, <2>4 DEF LosesNone, Missing, Known
<1> QED
  BY <1>4, <1>5

LEMMA TrainLoses ==
  ASSUME Train
  PROVE  LosesNone
<1>1. /\ trained' = trained \cup BatchSamples
      /\ UNCHANGED <<loaded, pending_queue, held, active_tasks, queue, dropped_samples, cancelled, stopping>>
  BY DEF Train, BatchSamples, feeding, tasks, messages, job
<1>2. UNCHANGED <<PendingSamples, LiveSamples, QueueSamples>>
  BY <1>1 DEF PendingSamples, LiveSamples, QueueSamples, Waiting
<1> QED
  BY <1>1, <1>2 DEF LosesNone, Missing, Known

\* A step that does not fail the job loses at most one sample and counts it, or
\* the unfinished batch at the end signal.
LEMMA WhatAStepLoses ==
  ASSUME Typed, Hand, Stopped, [AsyncNext]_asyncVars, ~Restart, ~raised', trainer' # "raised"
  PROVE  LosesNone \/ LosesOne \/ LosesBatch
<1>1. CASE UNCHANGED <<loaded, pending_queue, held, active_tasks, queue, batch, trained,
                       dropped_samples, cancelled, stopping>>
  BY <1>1 DEF LosesNone, Missing, Known, PendingSamples, LiveSamples, QueueSamples, Waiting, BatchSamples
<1>2. CASE \/ FeedSample \/ FeedEnd \/ SampleGenerated \/ SampleLost \/ TakePending \/ CreateTask
           \/ TasksFinished \/ PutEnd \/ GetSample \/ Train \/ Drained
  BY <1>2, FeedLoses, GeneratedLoses, LostLoses, TakeLoses, CreateLoses, AwaitedLoses, PutEndLoses, GetLoses, TrainLoses
<1>3. CASE \/ EndJob \/ UNCHANGED asyncVars
           \/ WaitForLock("processor") \/ Pause \/ SetPaused \/ Park \/ AwaitPending \/ WaitForTasks \/ Finish
           \/ WaitForLock("trainer") \/ PauseForSync \/ Drain \/ UpdateWeights \/ ResetFlags \/ ResetStaleness
           \/ SaveCheckpoint \/ StopTraining
  BY <1>1, <1>3
     DEF EndJob, WaitForLock, Pause, SetPaused, Park, AwaitPending, WaitForTasks, Finish, PauseForSync, Drain,
         UpdateWeights, ResetFlags, ResetStaleness, SaveCheckpoint, StopTraining, asyncVars, feeding, tasks,
         messages, training, job
<1> QED
  BY <1>2, <1>3 DEF AsyncNext, ProcessorStep, TrainerStep

\* In the first run nothing is missing that was not counted, and the feeder
\* only ends with the last step.
Accounted ==
  /\ dropped_samples \in Nat /\ cancelled \in Nat /\ crashes \in Nat
  /\ crashes = 0 /\ ~raised /\ trainer # "raised" => Cardinality(Missing) <= Allowed
  /\ crashes = 0 => \/ feeder = "feeding" /\ loaded + 1 = global_steps
                    \/ feeder # "feeding" /\ loaded >= TotalRolloutSteps

LEMMA FeederStep ==
  ASSUME Typed, Accounted, [AsyncNext]_asyncVars, ~Restart
  PROVE  /\ crashes' = crashes
         /\ crashes' = 0 => \/ feeder' = "feeding" /\ loaded' + 1 = global_steps'
                            \/ feeder' # "feeding" /\ loaded' >= TotalRolloutSteps
<1> USE DEF Accounted, Typed, FeedTypes
<1>1. CASE FeedSample
  <2>1. /\ loaded' = loaded + 1 /\ feeder = "feeding" /\ crashes' = crashes
        /\ \/ global_steps >= TotalRolloutSteps /\ feeder' = "signalling"
           \/ global_steps' = global_steps + 1 /\ feeder' = "feeding"
    BY <1>1 DEF FeedSample, job
  <2> QED
    BY <2>1, AsyncAssumption
<1>2. CASE FeedEnd
  BY <1>2 DEF FeedEnd, job
<1>3. CASE UNCHANGED <<loaded, global_steps, feeder, crashes>>
  BY <1>3
<1> QED
  BY <1>1, <1>2, <1>3
     DEF AsyncNext, ProcessorStep, TrainerStep, SampleGenerated, SampleLost, EndJob,
         WaitForLock, Pause, SetPaused, Park, AwaitPending, TakePending, CreateTask, WaitForTasks,
         TasksFinished, Finish, PutEnd, GetSample, Train, PauseForSync, Drain, Drained, ResetFlags,
         ResetStaleness, UpdateWeights, SaveCheckpoint, StopTraining, asyncVars, feeding, job

\* What has raised stays so until the job is started again.
LEMMA RaisedStays ==
  ASSUME DataIsOver, [AsyncNext]_asyncVars, ~Restart, ~raised', trainer' # "raised"
  PROVE  ~raised /\ trainer # "raised"
<1>1. CASE TasksFinished
  BY <1>1 DEF TasksFinished, DataIsOver, Closing, training
<1>2. CASE raised' = raised /\ (trainer' = trainer \/ trainer # "raised")
  BY <1>2
<1> QED
  BY <1>1, <1>2
     DEF AsyncNext, ProcessorStep, TrainerStep, FeedSample, FeedEnd, SampleGenerated, SampleLost, EndJob,
         WaitForLock, Pause, SetPaused, Park, AwaitPending, TakePending, CreateTask, WaitForTasks,
         Finish, PutEnd, GetSample, Train, PauseForSync, Drain, Drained, ResetFlags,
         ResetStaleness, UpdateWeights, SaveCheckpoint, StopTraining, asyncVars, training

\* The counters only go up, the dropped ones until a restart.
LEMMA CountersStep ==
  ASSUME Typed, Accounted, [AsyncNext]_asyncVars
  PROVE  dropped_samples' \in Nat /\ cancelled' \in Nat /\ crashes' \in Nat
<1> USE DEF Accounted
<1>1. dropped_samples' \in {dropped_samples, dropped_samples + 1, 0}
  <2>1. CASE SampleGenerated \/ PutEnd
    BY <2>1 DEF SampleGenerated, PutEnd, PutSample
  <2>2. CASE Restart
    BY <2>2 DEF Restart
  <2>3. CASE dropped_samples' = dropped_samples
    BY <2>3
  <2> QED
    BY <2>1, <2>2, <2>3
       DEF AsyncNext, ProcessorStep, TrainerStep, FeedSample, FeedEnd, SampleLost, EndJob,
           WaitForLock, Pause, SetPaused, Park, AwaitPending, TakePending, CreateTask, WaitForTasks,
           TasksFinished, Finish, GetSample, Train, PauseForSync, Drain, Drained, ResetFlags,
           ResetStaleness, UpdateWeights, SaveCheckpoint, StopTraining, asyncVars, messages
<1>2. cancelled' \in {cancelled, cancelled + 1} /\ crashes' \in {crashes, crashes + 1}
  BY DEF AsyncNext, ProcessorStep, TrainerStep, FeedSample, FeedEnd, SampleGenerated, SampleLost, EndJob, Restart,
         WaitForLock, Pause, SetPaused, Park, AwaitPending, TakePending, CreateTask, WaitForTasks,
         TasksFinished, Finish, PutEnd, GetSample, Train, PauseForSync, Drain, Drained, ResetFlags,
         ResetStaleness, UpdateWeights, SaveCheckpoint, StopTraining, asyncVars, job
<1> QED
  BY <1>1, <1>2

LEMMA AccountedStep ==
  ASSUME Typed, Hand, DataIsOver, Stopped, Accounted, [AsyncNext]_asyncVars
  PROVE  Accounted'
<1>1. dropped_samples' \in Nat /\ cancelled' \in Nat /\ crashes' \in Nat
  BY CountersStep
<1>2. CASE Restart
  <2>1. crashes' # 0
    BY <1>2 DEF Restart, Accounted
  <2> QED
    BY <1>1, <2>1 DEF Accounted
<1>3. CASE ~Restart
  <2>1. ASSUME crashes' = 0, ~raised', trainer' # "raised"
        PROVE  Cardinality(Missing') <= Allowed'
    <3>1. ~raised /\ trainer # "raised" /\ crashes = 0
      BY <1>3, <2>1, RaisedStays, FeederStep
    <3>2. Cardinality(Missing) <= Allowed
      BY <3>1 DEF Accounted
    <3>3. /\ dropped_samples \in Nat /\ cancelled \in Nat /\ RequiredSamples \in Nat \ {0}
          /\ Cardinality(Missing) \in Nat
      BY Sizes, MissingIsFinite DEF Accounted
    <3>4. CASE LosesNone
      <4>1. Allowed' = Allowed
        BY <3>4 DEF LosesNone, Allowed
      <4>2. Cardinality(Missing') \in Nat /\ Cardinality(Missing') <= Cardinality(Missing)
        BY <3>4, NoneMissing DEF LosesNone
      <4>3. Allowed \in Nat
        BY <3>3 DEF Allowed
      <4> QED
        BY <3>2, <3>3, <4>1, <4>2, <4>3
    <3>5. CASE LosesOne
      <4>1. PICK x : Missing' \subseteq Missing \cup {x}
        BY <3>5 DEF LosesOne
      <4>2. Cardinality(Missing') \in Nat /\ Cardinality(Missing') <= Cardinality(Missing) + 1
        BY <4>1, OneMissing
      <4>3. Allowed' = Allowed + 1 /\ Allowed \in Nat
        BY <3>3, <3>5 DEF LosesOne, Allowed
      <4> QED
        BY <3>2, <3>3, <4>2, <4>3
    <3>6. CASE LosesBatch
      <4>1. Cardinality(Missing') \in Nat /\ Cardinality(Missing') <= Cardinality(Missing) + Len(batch)
        BY <3>6, BatchMissing DEF LosesBatch
      <4>2. Len(batch) \in Nat /\ Len(batch) <= RequiredSamples - 1
        BY <3>3, <3>6 DEF LosesBatch, Typed, TrainTypes
      <4>3. Allowed = dropped_samples + cancelled /\ Allowed' = dropped_samples + cancelled + (RequiredSamples - 1)
        BY <3>3, <3>6 DEF LosesBatch, Allowed
      <4> QED
        BY <3>2, <3>3, <4>1, <4>2, <4>3
    <3> QED
      BY <1>3, <2>1, <3>4, <3>5, <3>6, WhatAStepLoses
  <2> QED
    BY <1>1, <1>3, <2>1, FeederStep DEF Accounted
<1> QED
  BY <1>2, <1>3

-----------------------------------------------------------------------------
(* What is trained and not saved                                            *)

\* Since the checkpoint of this version the steps of the period were trained,
\* and fit saves its last version if anything is saved.
Unsaved ==
  /\ checkpoint.version <= current_param_version
  /\ current_param_version = checkpoint.version =>
       Cardinality(trained \ checkpoint.trained) <= RequiredSamples * (local_trigger_step - 1)
  /\ SaveFreq > 0 /\ trainer = "over" => current_param_version = checkpoint.version

LEMMA NothingUnsaved ==
  ASSUME NEW S, NEW step \in Nat \ {0}
  PROVE  Cardinality(S \ S) <= RequiredSamples * (step - 1)
<1>1. S \ S = {}
  OBVIOUS
<1>2. \A m, n \in Nat : m * n >= 0
  OBVIOUS
<1>3. RequiredSamples * (step - 1) >= 0
  BY <1>2, Sizes
<1> QED
  BY <1>1, <1>3, FS_EmptySet

LEMMA TrainedMore ==
  ASSUME Typed, Train
  PROVE  /\ Cardinality(trained' \ checkpoint.trained) \in Nat /\ Cardinality(trained \ checkpoint.trained) \in Nat
         /\ Cardinality(trained' \ checkpoint.trained) <= Cardinality(trained \ checkpoint.trained) + RequiredSamples
<1> DEFINE T == trained \ checkpoint.trained
<1>1. trained' = trained \cup BatchSamples
  BY DEF Train, BatchSamples
<1>2. IsFiniteSet(T)
  <2>1. loaded \in Nat /\ T \subseteq 1..loaded
    BY DEF Typed, FeedTypes, TrainTypes
  <2> HIDE DEF T
  <2>2. IsFiniteSet(1..loaded)
    BY <2>1, FS_Interval
  <2> QED
    BY <2>1, <2>2, FS_Subset
<1>3. /\ IsFiniteSet(BatchSamples) /\ Cardinality(BatchSamples) \in Nat
      /\ Cardinality(BatchSamples) <= RequiredSamples /\ RequiredSamples \in Nat
  BY BatchIsSmall, Sizes DEF Typed, TrainTypes
<1>4. trained' \ checkpoint.trained \subseteq T \cup BatchSamples
  BY <1>1
<1> HIDE DEF T
<1>5. /\ IsFiniteSet(T \cup BatchSamples) /\ Cardinality(T \cap BatchSamples) \in Nat /\ Cardinality(T) \in Nat
      /\ Cardinality(T \cup BatchSamples) = Cardinality(T) + Cardinality(BatchSamples) - Cardinality(T \cap BatchSamples)
  BY <1>2, <1>3, FS_Union, FS_Intersection, FS_CardinalityType
<1>6. /\ IsFiniteSet(trained' \ checkpoint.trained)
      /\ Cardinality(trained' \ checkpoint.trained) <= Cardinality(T \cup BatchSamples)
  BY <1>4, <1>5, FS_Subset
<1>7. Cardinality(trained' \ checkpoint.trained) \in Nat
  BY <1>6, FS_CardinalityType
<1>8. /\ Cardinality(trained' \ checkpoint.trained) <= Cardinality(T) + RequiredSamples
      /\ Cardinality(T) \in Nat
  BY <1>3, <1>5, <1>6, <1>7
<1> QED
  BY <1>7, <1>8 DEF T

LEMMA UnsavedStep ==
  ASSUME Typed, Stopped, Unsaved, [AsyncNext]_asyncVars
  PROVE  Unsaved'
<1> USE DEF Unsaved
<1>0. /\ current_param_version \in Nat /\ checkpoint.version \in Nat
      /\ local_trigger_step \in Nat \ {0} /\ local_trigger_step <= TriggerSteps
  BY Sizes DEF Typed, TrainTypes
<1>1. CASE Train
  <2>1. checkpoint' = checkpoint /\ trainer' \in {"saving", "syncing"}
    BY <1>1 DEF Train
  <2>2. CASE local_trigger_step < TriggerSteps
    <3>1. local_trigger_step' = local_trigger_step + 1 /\ current_param_version' = current_param_version
      BY <1>1, <2>2 DEF Train
    <3>2. \A r, n \in Nat : n # 0 => r * ((n + 1) - 1) = r * (n - 1) + r
      OBVIOUS
    <3>3. /\ RequiredSamples * (local_trigger_step' - 1) = RequiredSamples * (local_trigger_step - 1) + RequiredSamples
          /\ RequiredSamples * (local_trigger_step - 1) \in Int
      <4>1. \A r, n \in Nat : r * (n - 1) \in Int
        OBVIOUS
      <4> QED
        BY <1>0, <3>1, <3>2, <4>1, Sizes
    <3>4. current_param_version = checkpoint.version =>
            Cardinality(trained \ checkpoint.trained) <= RequiredSamples * (local_trigger_step - 1)
      OBVIOUS
    <3>5. \A a, b, r \in Nat, c \in Int : a <= b + r /\ b <= c => a <= c + r
      OBVIOUS
    <3>6. current_param_version = checkpoint.version =>
            Cardinality(trained' \ checkpoint.trained) <= RequiredSamples * (local_trigger_step' - 1)
      <4> HAVE current_param_version = checkpoint.version
      <4>1. Cardinality(trained' \ checkpoint.trained) <= RequiredSamples * (local_trigger_step - 1) + RequiredSamples
        BY <1>1, <3>3, <3>4, <3>5, TrainedMore, Sizes
      <4> QED
        BY <3>3, <4>1
    <3> QED
      BY <2>1, <3>1, <3>6
  <2>3. CASE ~(local_trigger_step < TriggerSteps)
    <3>1. current_param_version' = current_param_version + 1
      BY <1>1, <2>3 DEF Train
    <3> QED
      BY <1>0, <2>1, <3>1
  <2> QED
    BY <2>2, <2>3
<1>2. CASE SaveCheckpoint
  <2>1. UNCHANGED <<current_param_version, trained, local_trigger_step>>
    BY <1>2 DEF SaveCheckpoint
  <2>2. CASE checkpoint' = Saved
    <3>1. checkpoint'.version = current_param_version /\ checkpoint'.trained = trained
      BY <2>2 DEF Saved
    <3> QED
      BY <1>0, <2>1, <3>1, NothingUnsaved
  <2>3. CASE checkpoint' = checkpoint /\ (current_param_version = checkpoint.version \/ ~SaveIsDue)
    <3>1. trainer' = IF stopping THEN "over" ELSE "collecting"
      BY <1>2 DEF SaveCheckpoint
    <3>2. SaveFreq > 0 /\ ~SaveIsDue => ~stopping
      BY DEF SaveIsDue
    <3> QED
      BY <2>1, <2>3, <3>1, <3>2
  <2> QED
    BY <1>2, <2>2, <2>3 DEF SaveCheckpoint
<1>3. CASE Restart
  <2>1. /\ checkpoint' = checkpoint /\ current_param_version' = checkpoint.version
        /\ trained' = checkpoint.trained /\ local_trigger_step' = 1 /\ trainer' = "collecting"
    BY <1>3 DEF Restart
  <2> QED
    BY <1>0, <2>1, NothingUnsaved
<1>4. CASE /\ UNCHANGED <<current_param_version, trained, local_trigger_step, checkpoint>>
           /\ trainer' = "over" => trainer = "over"
  BY <1>4
<1> QED
  BY <1>1, <1>2, <1>3, <1>4
     DEF AsyncNext, ProcessorStep, TrainerStep, FeedSample, FeedEnd, SampleGenerated, SampleLost, EndJob,
         WaitForLock, Pause, SetPaused, Park, AwaitPending, TakePending, CreateTask, WaitForTasks,
         TasksFinished, Finish, PutEnd, GetSample, PauseForSync, Drain, Drained, ResetFlags,
         ResetStaleness, UpdateWeights, StopTraining, asyncVars, training

LEMMA AccountsAlways == AsyncSpec => [](Accounted /\ Unsaved)
<1>1. AsyncInit => Accounted /\ Unsaved
  <2> SUFFICES ASSUME AsyncInit PROVE Accounted /\ Unsaved
    OBVIOUS
  <2>1. Missing = {}
    BY DEF AsyncInit, Missing
  <2>2. Allowed = 0
    BY DEF AsyncInit, Allowed
  <2>3. Accounted
    BY <2>1, <2>2, FS_EmptySet DEF AsyncInit, Accounted
  <2>4. Unsaved
    BY NothingUnsaved DEF AsyncInit, NoCheckpoint, Unsaved
  <2> QED
    BY <2>3, <2>4
<1>2. Typed /\ Scheduled /\ Closed /\ Accounted /\ Unsaved /\ [AsyncNext]_asyncVars => (Accounted /\ Unsaved)'
  BY AccountedStep, UnsavedStep DEF Scheduled, Closed
<1> QED
  BY <1>1, <1>2, TypedAlways, ScheduledAlways, ClosedAlways, PTL DEF AsyncSpec

\* A run that completes without a restart has trained on every sample that was
\* not dropped, cancelled or in the batch the end signal cut, whatever the
\* interleaving of feeder, tasks, processor and trainer.  With a positive
\* save_freq the last checkpoint of a completed run misses less than one
\* synchronisation period of training; nothing is claimed of a run that is
\* configured to save nothing.
THEOREM FinishedRunsAreTrained == AsyncSpec => []FinishedRunsTrainEverySample
<1>1. ASSUME Typed, Closed, Accounted, Unsaved PROVE FinishedRunsTrainEverySample
  <2> SUFFICES ASSUME outcome = "completed"
               PROVE  /\ crashes = 0 =>
                           Cardinality(trained) + dropped_samples + cancelled > TotalRolloutSteps - RequiredSamples
                      /\ SaveFreq > 0 => Cardinality(trained \ checkpoint.trained) < PeriodSamples
    BY DEF FinishedRunsTrainEverySample
  <2>1. trainer = "over" /\ processor = "over" /\ ~raised /\ stopping
    BY <1>1 DEF Closed, Completed, Stopped
  <2>2. /\ pending_queue = <<>> /\ feeder = "done" /\ held = {} /\ active_tasks = {} /\ queue = <<>> /\ batch = <<>>
    BY <1>1, <2>1 DEF Closed, DataIsOver, Closing, Ending, Stopped, Typed, TrainTypes
  <2>3. Missing = (1..loaded) \ trained
    BY <2>2 DEF Missing, Known, PendingSamples, LiveSamples, QueueSamples, Waiting, BatchSamples, ToSet
  <2>4. ASSUME crashes = 0
        PROVE  Cardinality(trained) + dropped_samples + cancelled > TotalRolloutSteps - RequiredSamples
    <3>1. Cardinality(Missing) <= dropped_samples + cancelled + (RequiredSamples - 1) /\ loaded >= TotalRolloutSteps
      BY <1>1, <2>1, <2>2, <2>4 DEF Accounted, Allowed
    <3>2. /\ dropped_samples \in Nat /\ cancelled \in Nat /\ loaded \in Nat /\ RequiredSamples \in Nat
          /\ TotalRolloutSteps \in Nat
      BY <1>1, AsyncAssumption DEF Accounted, Typed, FeedTypes
    <3>3. IsFiniteSet(1..loaded) /\ Cardinality(1..loaded) = loaded
      BY <3>2, FS_Interval
    <3>4. trained \subseteq 1..loaded /\ 1..loaded = trained \cup Missing
      BY <1>1, <2>3 DEF Typed, TrainTypes
    <3>5. IsFiniteSet(trained) /\ IsFiniteSet(Missing) /\ Cardinality(trained) \in Nat /\ Cardinality(Missing) \in Nat
      BY <1>1, <3>3, <3>4, FS_Subset, FS_CardinalityType, MissingIsFinite
    <3>6. trained \cap Missing = {}
      BY <2>3
    <3>7. loaded = Cardinality(trained) + Cardinality(Missing)
      <4>1. Cardinality(trained \cup Missing) =
              Cardinality(trained) + Cardinality(Missing) - Cardinality(trained \cap Missing)
        BY <3>5, FS_Union
      <4>2. Cardinality(trained \cap Missing) = 0
        BY <3>6, FS_EmptySet
      <4> QED
        <5>1. Cardinality(1..loaded) = Cardinality(trained \cup Missing)
          BY <3>4, Zenon
        <5> QED
          BY <3>3, <3>5, <4>1, <4>2, <5>1
    <3> QED
      BY <3>1, <3>2, <3>5, <3>7
  <2>5. ASSUME SaveFreq > 0 PROVE Cardinality(trained \ checkpoint.trained) < PeriodSamples
    <3>1. Cardinality(trained \ checkpoint.trained) <= RequiredSamples * (local_trigger_step - 1)
      BY <1>1, <2>1, <2>5 DEF Unsaved
    <3>2. \A r, t, n \in Nat \ {0} : n <= t => r * (n - 1) < r * t
      <4> TAKE r, t, n \in Nat \ {0}
      <4> HAVE n <= t
      <4>1. r * t = r * (n - 1) + r * ((t - n) + 1)
        OBVIOUS
      <4>2. \A a, b \in Nat \ {0} : a * b > 0
        OBVIOUS
      <4>3. r * ((t - n) + 1) > 0
        BY <4>2
      <4>4. \A a \in Int : r * a \in Int
        OBVIOUS
      <4> QED
        BY <4>1, <4>3, <4>4
    <3>3. RequiredSamples * (local_trigger_step - 1) < RequiredSamples * TriggerSteps
      BY <1>1, <3>2, Sizes DEF Typed, TrainTypes
    <3>4. IsFiniteSet(trained \ checkpoint.trained)
      <4>1. loaded \in Nat /\ trained \ checkpoint.trained \subseteq 1..loaded
        BY <1>1 DEF Typed, FeedTypes, TrainTypes
      <4>2. IsFiniteSet(1..loaded)
        BY <4>1, FS_Interval
      <4> QED
        BY <4>1, <4>2, FS_Subset
    <3>5. Cardinality(trained \ checkpoint.trained) \in Nat
      BY <3>4, FS_CardinalityType
    <3>6. \A a, b, c \in Int : a <= b /\ b < c => a < c
      OBVIOUS
    <3>7. RequiredSamples * (local_trigger_step - 1) \in Int /\ RequiredSamples * TriggerSteps \in Int
      <4>1. \A r, n \in Int : r * n \in Int
        OBVIOUS
      <4> QED
        BY <1>1, <4>1, Sizes DEF Typed, TrainTypes
    <3> QED
      BY <3>1, <3>3, <3>5, <3>6, <3>7 DEF PeriodSamples
  <2> QED
    BY <2>4, <2>5
<1> QED
  BY <1>1, TypedAlways, ClosedAlways, AccountsAlways, PTL

-----------------------------------------------------------------------------
(* How old a sample is.  Taken counts the samples the trainer took, one     *)
(* period to each version; whatever stands in line behind them is used in   *)
(* its turn, and staleness_samples limits the line.                         *)

\* The version whose period staleness_samples counts: until reset_staleness
\* it is the one before the new weights.
Pushing == {"syncing", "draining", "drainWait", "updating", "resetting", "counting", "raised"}
Base    == IF trainer \in Pushing /\ ~stopping THEN current_param_version - 1 ELSE current_param_version
CountedFrom == Base * PeriodSamples

Taken == current_param_version * PeriodSamples + (local_trigger_step - 1) * RequiredSamples + Len(batch)
Line  == Taken + Ready + Busy + InHand

\* The sample in hand that reset_staleness forgets, if it can be there at all.
Forgotten == IF ExcessSamples = 0 THEN 0 ELSE 1

InStep ==
  /\ Base <= rollout_version
  /\ trainer \in {"resetting", "counting"} => rollout_version = current_param_version
  /\ trainer \in Pushing => local_trigger_step = 1
  /\ trainer = "training" => Len(batch) = RequiredSamples

LEMMA InStepStep ==
  ASSUME Typed, Stopped, InStep, [AsyncNext]_asyncVars
  PROVE  InStep'
<1> USE DEF InStep, Base, Pushing
<1>0. /\ current_param_version \in Nat /\ rollout_version \in Nat /\ rollout_version <= current_param_version
      /\ stopping \in BOOLEAN /\ checkpoint.version \in Nat
  BY DEF Typed, TrainTypes, FlagTypes
<1>1. CASE GetSample
  <2>1. /\ trainer = "collecting" /\ UNCHANGED <<current_param_version, rollout_version, local_trigger_step>>
        /\ trainer' \in {"stopping", "training", "collecting"}
        /\ trainer' = "training" => Len(batch') = RequiredSamples
    BY <1>1 DEF GetSample
  <2> QED
    BY <1>0, <2>1
<1>2. CASE Train
  <2>1. ~stopping /\ stopping' = stopping /\ rollout_version' = rollout_version /\ trainer = "training"
    BY <1>2 DEF Train, Stopped
  <2>2. \/ trainer' = "saving" /\ current_param_version' = current_param_version
        \/ trainer' = "syncing" /\ current_param_version' = current_param_version + 1 /\ local_trigger_step' = 1
    BY <1>2 DEF Train
  <2> QED
    BY <1>0, <2>1, <2>2
<1>3. CASE UpdateWeights
  <2>1. /\ trainer = "updating" /\ trainer' = "resetting" /\ rollout_version' = current_param_version
        /\ UNCHANGED <<current_param_version, local_trigger_step, stopping>>
    BY <1>3 DEF UpdateWeights
  <2> QED
    BY <1>0, <2>1
<1>4. CASE StopTraining
  <2>1. /\ trainer = "stopping" /\ stopping /\ UNCHANGED <<current_param_version, local_trigger_step, stopping, rollout_version>>
        /\ trainer' \in {"syncing", "saving"} /\ (trainer' = "syncing" => local_trigger_step = 1)
    BY <1>4 DEF StopTraining, Stopped
  <2> QED
    BY <1>0, <2>1
<1>5. CASE ResetStaleness \/ SaveCheckpoint
  <2>1. /\ trainer \in {"counting", "saving"} /\ trainer' \in {"saving", "over", "collecting"}
        /\ UNCHANGED <<current_param_version, local_trigger_step, stopping, rollout_version>>
    BY <1>5 DEF ResetStaleness, SaveCheckpoint
  <2> QED
    BY <1>0, <2>1
<1>6. CASE PauseForSync \/ Drain \/ Drained \/ ResetFlags
  <2>1. /\ UNCHANGED <<current_param_version, local_trigger_step, stopping, rollout_version>>
        /\ trainer \in Pushing /\ trainer' \in Pushing
        /\ trainer' \in {"resetting", "counting"} => trainer \in {"resetting", "counting"}
        /\ trainer' # "training"
    BY <1>6 DEF PauseForSync, Drain, Drained, ResetFlags
  <2> QED
    BY <1>0, <2>1
<1>7. CASE Restart
  BY <1>0, <1>7 DEF Restart
<1>8. CASE UNCHANGED <<trainer, batch, current_param_version, local_trigger_step, stopping, rollout_version>>
  BY <1>8
<1> QED
  BY <1>1, <1>2, <1>3, <1>4, <1>5, <1>6, <1>7, <1>8
     DEF AsyncNext, ProcessorStep, TrainerStep, FeedSample, FeedEnd, SampleGenerated, SampleLost, EndJob,
         WaitForLock, Pause, SetPaused, Park, AwaitPending, TakePending, CreateTask, WaitForTasks,
         TasksFinished, Finish, PutEnd, asyncVars, training

\* The line and its limit are numbers.
LEMMA LineNumbers ==
  ASSUME Typed
  PROVE  /\ Taken \in Nat /\ CountedFrom \in Int /\ Base \in Int /\ Line \in Nat
         /\ current_param_version * PeriodSamples \in Nat
         /\ Taken >= current_param_version * PeriodSamples
         /\ Ready \in Nat /\ Busy \in Nat /\ InHand \in Nat /\ InHand <= 1
         /\ MaxRequiredSamples \in Nat /\ PeriodSamples \in Nat \ {0} /\ Forgotten \in {0, 1}
<1>1. \A m, n \in Nat : m * n \in Nat
  OBVIOUS
<1>2. \A m \in Int, n \in Nat : m * n \in Int
  OBVIOUS
<1>3. \A m, n \in Nat \ {0} : m * n \in Nat \ {0}
  OBVIOUS
<1>4. PeriodSamples \in Nat \ {0} /\ RequiredSamples \in Nat
  BY <1>3, AsyncAssumption DEF PeriodSamples
<1>5. /\ current_param_version \in Nat /\ local_trigger_step - 1 \in Nat /\ Len(batch) \in Nat
  BY Sizes DEF Typed, TrainTypes
<1>6. current_param_version * PeriodSamples \in Nat /\ (local_trigger_step - 1) * RequiredSamples \in Nat
  BY <1>1, <1>4, <1>5
<1>7. Taken \in Nat /\ Taken >= current_param_version * PeriodSamples
  BY <1>5, <1>6 DEF Taken
<1>8. Base \in Int
  BY <1>5 DEF Base
<1>9. CountedFrom \in Int
  BY <1>2, <1>4, <1>8 DEF CountedFrom
<1>10. Ready \in Nat /\ Busy \in Nat /\ InHand \in Nat /\ InHand <= 1 /\ MaxRequiredSamples \in Nat
  BY Counts
<1> QED
  BY <1>4, <1>6, <1>7, <1>8, <1>9, <1>10 DEF Line, Forgotten

\* A step of training goes on to the next step or version with what it took.
LEMMA TrainKeepsTaken ==
  ASSUME Typed, Stopped, InStep, Train
  PROVE  Taken' = Taken /\ Base' = Base
<1>1. /\ trainer = "training" /\ Len(batch) = RequiredSamples /\ batch' = <<>> /\ Len(batch') = 0
      /\ ~stopping /\ stopping' = stopping
  BY DEF Train, InStep, Stopped
<1>2. /\ current_param_version \in Nat /\ local_trigger_step \in 1..TriggerSteps
      /\ RequiredSamples \in Nat /\ TriggerSteps \in Nat \ {0}
  BY Sizes DEF Typed, TrainTypes
<1>3. CASE local_trigger_step < TriggerSteps
  <2>1. /\ local_trigger_step' = local_trigger_step + 1 /\ current_param_version' = current_param_version
        /\ trainer' = "saving"
    BY <1>3 DEF Train
  <2>2. \A c, n, r \in Nat : c + ((n + 1) - 1) * r + 0 = c + (n - 1) * r + r
    OBVIOUS
  <2>3. current_param_version * PeriodSamples \in Nat /\ local_trigger_step \in Nat
    BY <1>2, LineNumbers
  <2>4. Taken' = Taken
    BY <1>1, <1>2, <2>1, <2>2, <2>3 DEF Taken
  <2> QED
    BY <1>1, <2>1, <2>4 DEF Base, Pushing
<1>4. CASE ~(local_trigger_step < TriggerSteps)
  <2>1. /\ local_trigger_step' = 1 /\ current_param_version' = current_param_version + 1
        /\ trainer' = "syncing" /\ local_trigger_step = TriggerSteps
    BY <1>2, <1>4 DEF Train
  <2>2. \A c, r, t \in Nat : (c + 1) * (r * t) + (1 - 1) * r + 0 = c * (r * t) + (t - 1) * r + r
    OBVIOUS
  <2>3. Taken' = Taken
    BY <1>1, <1>2, <2>1, <2>2 DEF Taken, PeriodSamples
  <2> QED
    BY <1>1, <1>2, <2>1, <2>3 DEF Base, Pushing
<1> QED
  BY <1>3, <1>4

\* Only a step of the job and reset_staleness change what is counted from.
LEMMA BaseStep ==
  ASSUME Typed, Stopped, InStep, [AsyncNext]_asyncVars, ~Restart, ~ResetStaleness
  PROVE  Base' = Base
<1> USE DEF Base, Pushing
<1>1. CASE Train
  BY <1>1, TrainKeepsTaken
<1>2. CASE GetSample
  <2>1. /\ trainer = "collecting" /\ trainer' \in {"stopping", "training", "collecting"}
        /\ current_param_version' = current_param_version
    BY <1>2 DEF GetSample
  <2> QED
    BY <2>1
<1>3. CASE StopTraining \/ SaveCheckpoint
  <2>1. /\ UNCHANGED <<current_param_version, stopping>>
        /\ \/ trainer = "stopping" /\ stopping
           \/ trainer = "saving" /\ trainer' \in {"over", "collecting"}
    BY <1>3 DEF StopTraining, SaveCheckpoint, Stopped
  <2> QED
    BY <2>1
<1>4. CASE PauseForSync \/ Drain \/ Drained \/ UpdateWeights \/ ResetFlags
  <2>1. trainer \in Pushing /\ trainer' \in Pushing /\ UNCHANGED <<current_param_version, stopping>>
    BY <1>4 DEF PauseForSync, Drain, Drained, UpdateWeights, ResetFlags
  <2> QED
    BY <2>1
<1>5. CASE UNCHANGED <<trainer, current_param_version, stopping>>
  BY <1>5
<1> QED
  BY <1>1, <1>2, <1>3, <1>4, <1>5
     DEF AsyncNext, ProcessorStep, TrainerStep, FeedSample, FeedEnd, SampleGenerated, SampleLost, EndJob,
         WaitForLock, Pause, SetPaused, Park, AwaitPending, TakePending, CreateTask, WaitForTasks,
         TasksFinished, Finish, PutEnd, asyncVars, training

\* The line is never longer than what was counted for it.
Ahead ==
  /\ Line <= CountedFrom + MaxRequiredSamples + Forgotten
  /\ processor = "getting" => Line + 1 <= CountedFrom + MaxRequiredSamples + Forgotten
  /\ processor # "over" => Line <= CountedFrom + staleness_samples + Forgotten

LEMMA StaysBelow ==
  ASSUME NEW l \in Nat, NEW m \in Nat, NEW c \in Int, NEW r \in Nat, NEW f \in {0, 1}, l <= m
  PROVE  (m <= c + r + f => l <= c + r + f) /\ (m + 1 <= c + r + f => l + 1 <= c + r + f)
OBVIOUS

LEMMA AheadKeeps ==
  ASSUME Typed, Ahead, staleness_samples \in Nat, Line' \in Nat, Line' <= Line, Base' = Base,
         staleness_samples' = staleness_samples,
         processor' = "getting" => processor = "getting",
         processor = "over" => processor' = "over"
  PROVE  Ahead'
<1>1. CountedFrom' = CountedFrom /\ CountedFrom \in Int /\ Line \in Nat /\ MaxRequiredSamples \in Nat /\ Forgotten \in {0, 1}
  BY LineNumbers DEF CountedFrom
<1>2. MaxRequiredSamples' = MaxRequiredSamples /\ Forgotten' = Forgotten
  BY DEF MaxRequiredSamples, PeriodSamples, Forgotten
<1>3. Line' <= CountedFrom' + MaxRequiredSamples' + Forgotten'
  <2>1. Line <= CountedFrom + MaxRequiredSamples + Forgotten
    BY DEF Ahead
  <2> QED
    BY <1>1, <1>2, <2>1, StaysBelow
<1>4. ASSUME processor' = "getting"
      PROVE  Line' + 1 <= CountedFrom' + MaxRequiredSamples' + Forgotten'
  <2>1. Line + 1 <= CountedFrom + MaxRequiredSamples + Forgotten
    BY <1>4 DEF Ahead
  <2> QED
    BY <1>1, <1>2, <2>1, StaysBelow
<1>5. ASSUME processor' # "over"
      PROVE  Line' <= CountedFrom' + staleness_samples' + Forgotten'
  <2>1. Line <= CountedFrom + staleness_samples + Forgotten
    BY <1>5 DEF Ahead
  <2> QED
    BY <1>1, <1>2, <2>1
<1> QED
  BY <1>3, <1>4, <1>5 DEF Ahead

\* The steps that leave queue and hand alone, and generate no more.
LEMMA QuietAhead ==
  ASSUME Typed, Ahead, staleness_samples \in Nat, Taken' = Taken, Base' = Base,
         UNCHANGED <<queue, held, staleness_samples>>, Generating' \subseteq Generating,
         processor' = "getting" => processor = "getting",
         processor = "over" => processor' = "over"
  PROVE  Ahead'
<1>1. Ready' = Ready /\ InHand' = InHand
  BY DEF Ready, InHand, Waiting
<1>2. Busy' \in Nat /\ Busy' <= Busy
  BY FewerGenerate
<1>3. Line' \in Nat /\ Line' <= Line
  BY <1>1, <1>2, LineNumbers DEF Line
<1> QED
  BY <1>3, AheadKeeps

\* A finished sample moves from its task to the queue.
LEMMA GeneratedMoves ==
  ASSUME Typed, SampleGenerated
  PROVE  /\ Busy \in Nat \ {0} /\ Busy' = Busy - 1 /\ Ready' \in Nat /\ Ready' <= Ready + 1
         /\ UNCHANGED <<held, staleness_samples, processor, batch, local_trigger_step, current_param_version>>
<1>1. PICK t \in Generating :
        /\ PutSample([sample |-> t.sample, version |-> t.version])
        /\ active_tasks' = (active_tasks \ {t}) \cup {[t EXCEPT !.status = "done"]}
  BY DEF SampleGenerated
<1>2. t \in active_tasks /\ t \in TaskRecords /\ t.status = "generating"
  BY DEF Generating, Typed, TaskTypes
<1>3. Generating' = Generating \ {t}
  <2>1. [t EXCEPT !.status = "done"].status = "done"
    BY <1>2 DEF TaskRecords
  <2> QED  BY <1>1, <2>1 DEF Generating
<1>4. Busy' \in Nat /\ Busy' = Busy - 1 /\ Busy \in Nat
  BY <1>3, OneLess, Counts
<1>5. [sample |-> t.sample, version |-> t.version] \in Messages
  BY <1>2 DEF TaskRecords, Messages, Typed, TrainTypes, FeedTypes
<1>6. Ready' \in Nat /\ Ready' <= Ready + 1
  BY <1>1, <1>5, PutCounts, OneReady
<1> QED
  BY <1>4, <1>6 DEF SampleGenerated, training

LEMMA GeneratedAhead ==
  ASSUME Typed, Ahead, staleness_samples \in Nat, SampleGenerated, Base' = Base
  PROVE  Ahead'
<1>1. /\ Busy \in Nat \ {0} /\ Busy' = Busy - 1 /\ Ready' \in Nat /\ Ready' <= Ready + 1
      /\ Taken' = Taken /\ InHand' = InHand /\ UNCHANGED <<processor, staleness_samples>>
  BY GeneratedMoves DEF Taken, InHand
<1>2. Line' \in Nat /\ Line' <= Line
  BY <1>1, LineNumbers DEF Line
<1> QED
  BY <1>1, <1>2, AheadKeeps

\* The trainer takes the first sample of the line, or ends.
LEMMA GetMoves ==
  ASSUME Typed, QueuedOnce, GetSample
  PROVE  /\ Taken' \in Nat /\ Ready' \in Nat
         /\ Head(queue).sample = End => Taken' <= Taken /\ Ready' <= Ready
         /\ Head(queue).sample # End => Taken' = Taken + 1 /\ Ready' <= Ready - 1
<1>1. /\ queue # <<>> /\ queue' = Tail(queue)
      /\ UNCHANGED <<current_param_version, local_trigger_step>>
  BY DEF GetSample
<1>2. /\ current_param_version * PeriodSamples \in Nat /\ Taken \in Nat /\ Ready \in Nat
      /\ Len(batch) \in Nat /\ IsFiniteSet(Waiting)
      /\ current_param_version * PeriodSamples + (local_trigger_step - 1) * RequiredSamples \in Nat
  <2>1. \A m, n \in Nat : m * n \in Nat
    OBVIOUS
  <2>2. local_trigger_step - 1 \in Nat /\ RequiredSamples \in Nat /\ Len(batch) \in Nat
    BY Sizes DEF Typed, TrainTypes
  <2>3. (local_trigger_step - 1) * RequiredSamples \in Nat
    BY <2>1, <2>2
  <2> QED
    BY <2>2, <2>3, LineNumbers, Counts
<1>3. CASE Head(queue).sample = End
  <2>1. batch' = <<>> /\ Len(batch') = 0
    BY <1>3 DEF GetSample
  <2>2. Ready' \in Nat /\ Ready' <= Ready
    BY <1>1, TakeCounts, FewerReady
  <2>3. Taken' \in Nat /\ Taken' <= Taken
    BY <1>1, <1>2, <2>1 DEF Taken
  <2> QED
    BY <1>3, <2>2, <2>3
<1>4. CASE Head(queue).sample # End
  <2>1. batch' = Append(batch, Head(queue)) /\ Len(batch') = Len(batch) + 1
    BY <1>4 DEF GetSample, Typed, TrainTypes
  <2>2. Taken' = Taken + 1
    BY <1>1, <1>2, <2>1 DEF Taken
  <2>3. Head(queue) \in Waiting /\ Waiting' \subseteq Waiting \ {Head(queue)}
    <3>1. ToSet(queue') \subseteq ToSet(queue) /\ Head(queue) \in ToSet(queue)
      BY <1>1, TailSet DEF Typed, QueueTypes
    <3>2. QueueSamples' \subseteq QueueSamples \ {Head(queue).sample}
      BY <1>4, GetLeaves
    <3>3. Head(queue) \notin Waiting'
      BY <3>2 DEF QueueSamples
    <3> QED
      BY <1>4, <3>1, <3>3 DEF Waiting
  <2>4. IsFiniteSet(Waiting \ {Head(queue)}) /\ Cardinality(Waiting \ {Head(queue)}) = Ready - 1
    BY <1>2, <2>3, FS_RemoveElement DEF Ready
  <2>5. IsFiniteSet(Waiting') /\ Ready' <= Ready - 1
    BY <2>3, <2>4, FS_Subset DEF Ready
  <2>6. Ready' \in Nat
    BY <2>5, FS_CardinalityType DEF Ready
  <2> QED
    BY <1>2, <1>4, <2>2, <2>5, <2>6
<1> QED
  BY <1>3, <1>4

LEMMA GetAhead ==
  ASSUME Typed, QueuedOnce, Ahead, staleness_samples \in Nat, GetSample, Base' = Base
  PROVE  Ahead'
<1>1. /\ UNCHANGED <<held, active_tasks, processor, staleness_samples>>
  BY DEF GetSample, tasks
<1>2. InHand' = InHand /\ Busy' = Busy
  BY <1>1 DEF InHand, Busy, Generating
<1>3. Line' \in Nat /\ Line' <= Line
  BY <1>2, GetMoves, LineNumbers DEF Line
<1> QED
  BY <1>1, <1>3, AheadKeeps

LEMMA PutEndAhead ==
  ASSUME Typed, Ahead, staleness_samples \in Nat, PutEnd, Base' = Base
  PROVE  Ahead'
<1>1. /\ UNCHANGED <<held, active_tasks, staleness_samples, batch, local_trigger_step, current_param_version>>
      /\ processor' = "over" /\ PutSample([sample |-> End, version |-> 0])
  BY DEF PutEnd, tasks, training
<1>2. [sample |-> End, version |-> 0] \in Messages /\ [sample |-> End, version |-> 0].sample = End
  BY DEF Messages, End, Typed, FeedTypes
<1>3. Ready' \in Nat /\ Ready' <= Ready
  BY <1>1, <1>2, PutCounts, FewerReady
<1>4. Busy' = Busy /\ InHand' = InHand /\ Taken' = Taken
  BY <1>1 DEF Busy, InHand, Generating, Taken
<1>5. Line' \in Nat /\ Line' <= Line
  BY <1>3, <1>4, LineNumbers DEF Line
<1> QED
  BY <1>1, <1>5, AheadKeeps

\* The processor only asks for a sample when the count leaves room for it.
LEMMA AwaitAhead ==
  ASSUME Typed, Ahead, staleness_samples \in Nat, AwaitPending, Base' = Base
  PROVE  Ahead'
<1>1. /\ UNCHANGED <<held, active_tasks, queue, staleness_samples, batch, local_trigger_step, current_param_version>>
      /\ processor = "loop" /\ ~(staleness_samples >= MaxRequiredSamples)
  BY DEF AwaitPending, ShouldPause, tasks, messages, training
<1>2. Line' = Line /\ CountedFrom' = CountedFrom
  BY <1>1 DEF Line, Taken, Ready, Busy, InHand, Waiting, Generating, CountedFrom
<1>3. Line <= CountedFrom + staleness_samples + Forgotten
  BY <1>1 DEF Ahead
<1>4. Line + 1 <= CountedFrom + MaxRequiredSamples + Forgotten
  BY <1>1, <1>3, LineNumbers
<1>5. MaxRequiredSamples' = MaxRequiredSamples /\ Forgotten' = Forgotten /\ staleness_samples' = staleness_samples
  BY <1>1 DEF MaxRequiredSamples, PeriodSamples, Forgotten
<1> QED
  BY <1>2, <1>3, <1>4, <1>5, LineNumbers DEF Ahead

LEMMA TakeAhead ==
  ASSUME Typed, Hand, Ahead, staleness_samples \in Nat, TakePending, Base' = Base
  PROVE  Ahead'
<1>1. /\ UNCHANGED <<active_tasks, queue, batch, local_trigger_step, current_param_version>>
      /\ processor \in {"loop", "getting"} /\ (processor = "loop" => ~(staleness_samples >= MaxRequiredSamples))
      /\ processor' # "getting" /\ staleness_samples' = staleness_samples + 1
      /\ held' = held \/ held' = {Head(pending_queue)}
  BY DEF TakePending, ShouldPause, AfterEnd, messages, training
<1>2. Taken' = Taken /\ Ready' = Ready /\ Busy' = Busy /\ CountedFrom' = CountedFrom
  BY <1>1 DEF Taken, Ready, Busy, Waiting, Generating, CountedFrom
<1>3. InHand = 0 /\ InHand' \in {0, 1}
  <2>1. held = {}
    BY <1>1 DEF Hand, HoldsSample
  <2>2. Cardinality({Head(pending_queue)}) = 1 /\ Cardinality({}) = 0
    BY FS_Singleton, FS_EmptySet
  <2> QED
    BY <1>1, <2>1, <2>2 DEF InHand
<1>4. Line' \in Nat /\ Line' <= Line + 1
  BY <1>2, <1>3, LineNumbers DEF Line
<1>5. /\ Line <= CountedFrom + staleness_samples + Forgotten
      /\ Line + 1 <= CountedFrom + MaxRequiredSamples + Forgotten
  <2>1. CASE processor = "loop"
    <3>1. Line <= CountedFrom + staleness_samples + Forgotten
      BY <2>1 DEF Ahead
    <3> QED
      BY <1>1, <2>1, <3>1, LineNumbers
  <2>2. CASE processor = "getting"
    BY <2>2 DEF Ahead
  <2> QED
    BY <1>1, <2>1, <2>2
<1>6. MaxRequiredSamples' = MaxRequiredSamples /\ Forgotten' = Forgotten
  BY DEF MaxRequiredSamples, PeriodSamples, Forgotten
<1>7. Line' <= CountedFrom' + MaxRequiredSamples' + Forgotten'
  BY <1>2, <1>4, <1>5, <1>6, LineNumbers
<1>8. Line' <= CountedFrom' + staleness_samples' + Forgotten'
  BY <1>1, <1>2, <1>4, <1>5, <1>6, LineNumbers
<1> QED
  BY <1>1, <1>7, <1>8 DEF Ahead

LEMMA CreateAhead ==
  ASSUME Typed, Hand, Ahead, staleness_samples \in Nat, CreateTask, Base' = Base
  PROVE  Ahead'
<1>1. /\ UNCHANGED <<staleness_samples, queue, batch, local_trigger_step, current_param_version>>
      /\ processor \in {"creating", "releasing"} /\ processor' \in {"loop", "holding"}
  BY DEF CreateTask, messages, training
<1>2. Taken' = Taken /\ Ready' = Ready
  BY <1>1 DEF Taken, Ready, Waiting
<1>3. PICK s \in 1..loaded : held = {s}
  BY <1>1 DEF Hand, HoldsSample, Typed, TaskTypes
<1>4. Busy' \in Nat /\ InHand' \in Nat /\ Busy' + InHand' <= Busy + InHand
  <2>1. CASE MayStart
    <3> DEFINE t == [sample |-> s, version |-> rollout_version, status |-> "generating"]
    <3>1. active_tasks' = active_tasks \cup {t} /\ held' = {} /\ t.status = "generating"
      BY <1>3, <2>1 DEF CreateTask
    <3> HIDE DEF t
    <3>2. Generating' = Generating \cup {t}
      BY <3>1 DEF Generating
    <3>3. Busy' \in Nat /\ Busy' <= Busy + 1
      BY <3>2, OneGenerates
    <3>4. InHand' = 0 /\ InHand = 1
      BY <1>3, <3>1, FS_EmptySet, FS_Singleton DEF InHand
    <3> QED
      BY <3>3, <3>4, LineNumbers
  <2>2. CASE ~MayStart
    <3>1. UNCHANGED <<active_tasks, held>>
      BY <2>2 DEF CreateTask
    <3> QED
      BY <3>1, LineNumbers DEF Busy, InHand, Generating
  <2> QED
    BY <2>1, <2>2
<1>5. Line' \in Nat /\ Line' <= Line
  BY <1>2, <1>4, LineNumbers DEF Line
<1> QED
  BY <1>1, <1>5, AheadKeeps


\* Until reset_staleness there is one period less in the line; afterwards the
\* count covers everything but the sample in hand.
LEMMA ResetAhead ==
  ASSUME Typed, Stopped, InStep, Ahead, ResetStaleness
  PROVE  Ahead'
<1> DEFINE full == current_param_version * PeriodSamples
<1>1. /\ UNCHANGED <<held, active_tasks, queue, processor, stopping, batch, local_trigger_step, current_param_version>>
      /\ staleness_samples' = Cardinality(active_tasks) + Len(queue)
      /\ trainer = "counting" /\ trainer' = "saving"
  BY DEF ResetStaleness, Outstanding, messages
<1>2. Ready' = Ready /\ Busy' = Busy /\ InHand' = InHand /\ Taken' = Taken /\ Line' = Line
  BY <1>1 DEF Ready, Busy, InHand, Waiting, Generating, Taken, Line
<1>3. MaxRequiredSamples' = MaxRequiredSamples /\ Forgotten' = Forgotten
  BY DEF MaxRequiredSamples, PeriodSamples, Forgotten
<1>4. /\ local_trigger_step = 1 /\ Len(batch) = 0 /\ current_param_version \in Nat
      /\ RequiredSamples \in Nat
  BY <1>1, Sizes DEF InStep, Pushing, Typed, TrainTypes
<1>5. full \in Nat /\ Taken = full
  <2>1. \A r \in Nat : (1 - 1) * r = 0
    OBVIOUS
  <2> QED
    BY <1>4, <2>1, LineNumbers DEF Taken
<1>6. CountedFrom' = full
  BY <1>1 DEF CountedFrom, Base, Pushing, PeriodSamples
<1>7. CountedFrom = IF stopping THEN full ELSE full - PeriodSamples
  <2>1. \A c, p \in Nat : (c - 1) * p = c * p - p
    OBVIOUS
  <2> QED
    BY <1>1, <1>4, <2>1, LineNumbers DEF CountedFrom, Base, Pushing
<1> HIDE DEF full
<1>8. Line <= CountedFrom + MaxRequiredSamples + Forgotten /\ CountedFrom <= full
  BY <1>5, <1>7, LineNumbers DEF Ahead
<1>9. Line <= full + MaxRequiredSamples + Forgotten
  BY <1>5, <1>8, LineNumbers
<1>10. ASSUME processor = "getting"
       PROVE  Line + 1 <= full + MaxRequiredSamples + Forgotten
  <2>1. Line + 1 <= CountedFrom + MaxRequiredSamples + Forgotten
    BY <1>10 DEF Ahead
  <2> QED
    BY <1>5, <1>8, <2>1, LineNumbers
<1>11. ASSUME processor # "over"
       PROVE  Line <= full + staleness_samples' + Forgotten
  <2>1. /\ Ready <= Len(queue) /\ Busy <= Cardinality(active_tasks)
        /\ Len(queue) \in Nat /\ Cardinality(active_tasks) \in Nat
    BY Counts DEF Queued
  <2>2. Ready + Busy <= staleness_samples' /\ staleness_samples' \in Nat
    BY <1>1, <2>1, LineNumbers
  <2>3. InHand <= Forgotten
    <3>1. CASE ExcessSamples = 0
      <4>1. ~stopping
        BY <1>11 DEF Stopped
      <4>2. MaxRequiredSamples = PeriodSamples /\ Forgotten = 0
        BY <3>1, LineNumbers DEF MaxRequiredSamples, Forgotten
      <4>3. Line <= full - PeriodSamples + PeriodSamples
        BY <1>5, <1>7, <1>8, <4>1, <4>2, LineNumbers
      <4>4. Line = full + Ready + Busy + InHand
        BY <1>5 DEF Line
      <4> QED
        BY <1>5, <4>2, <4>3, <4>4, LineNumbers
    <3>2. CASE ExcessSamples # 0
      BY <3>2, LineNumbers DEF Forgotten
    <3> QED
      BY <3>1, <3>2
  <2>4. Line = full + Ready + Busy + InHand
    BY <1>5 DEF Line
  <2> QED
    BY <1>5, <2>2, <2>3, <2>4, LineNumbers
<1> QED
  BY <1>1, <1>2, <1>3, <1>6, <1>9, <1>10, <1>11 DEF Ahead

LEMMA FreshAhead ==
  ASSUME Typed, queue = <<>>, active_tasks = {}, held = {}, staleness_samples = 0, processor = "loop",
         batch = <<>>, local_trigger_step = 1, trainer = "collecting"
  PROVE  Ahead
<1>1. Waiting = {} /\ Generating = {}
  BY DEF Waiting, Generating, ToSet
<1>2. Ready = 0 /\ Busy = 0 /\ InHand = 0
  BY <1>1, FS_EmptySet DEF Ready, Busy, InHand
<1>3. Taken = current_param_version * PeriodSamples
  <2>1. \A r \in Nat : (1 - 1) * r = 0
    OBVIOUS
  <2>2. Len(batch) = 0 /\ RequiredSamples \in Nat
    BY Sizes
  <2> QED
    BY <2>1, <2>2, LineNumbers DEF Taken
<1>4. CountedFrom = current_param_version * PeriodSamples
  BY DEF CountedFrom, Base, Pushing
<1>5. Line = CountedFrom
  BY <1>2, <1>3, <1>4, LineNumbers DEF Line
<1>6. Line <= CountedFrom + MaxRequiredSamples + Forgotten
  BY <1>5, LineNumbers
<1>7. Line <= CountedFrom + staleness_samples + Forgotten
  BY <1>5, LineNumbers
<1> QED
  BY <1>6, <1>7 DEF Ahead

LEMMA RestartAhead ==
  ASSUME Typed, Restart
  PROVE  Ahead'
<1>1. /\ queue' = <<>> /\ active_tasks' = {} /\ held' = {} /\ staleness_samples' = 0 /\ processor' = "loop"
      /\ batch' = <<>> /\ local_trigger_step' = 1 /\ trainer' = "collecting"
      /\ current_param_version' = checkpoint.version
  BY DEF Restart
<1>2. Waiting' = {} /\ Generating' = {}
  BY <1>1 DEF Waiting, Generating, ToSet
<1>3. Ready' = 0 /\ Busy' = 0 /\ InHand' = 0
  BY <1>1, <1>2, FS_EmptySet DEF Ready, Busy, InHand
<1>4. checkpoint.version * PeriodSamples \in Nat /\ RequiredSamples \in Nat
  <2>1. \A m, n \in Nat : m * n \in Nat
    OBVIOUS
  <2> QED
    BY <2>1, Sizes, LineNumbers DEF Typed, TrainTypes
<1>5. Taken' = checkpoint.version * PeriodSamples
  <2>1. \A r \in Nat : (1 - 1) * r = 0
    OBVIOUS
  <2>2. Len(batch') = 0
    BY <1>1
  <2>3. Taken' = checkpoint.version * PeriodSamples + (1 - 1) * RequiredSamples + 0
    BY <1>1, <2>2 DEF Taken, PeriodSamples
  <2> QED
    BY <1>4, <2>1, <2>3
<1>6. CountedFrom' = checkpoint.version * PeriodSamples
  BY <1>1 DEF CountedFrom, Base, Pushing, PeriodSamples
<1>7. MaxRequiredSamples' = MaxRequiredSamples /\ Forgotten' = Forgotten
  BY DEF MaxRequiredSamples, PeriodSamples, Forgotten
<1>8. Line' = CountedFrom' /\ CountedFrom' \in Nat
  BY <1>3, <1>4, <1>5, <1>6 DEF Line
<1> QED
  BY <1>1, <1>7, <1>8, LineNumbers DEF Ahead

LEMMA AheadStep ==
  ASSUME Typed, Hand, Counted, QueuedOnce, Stopped, InStep, Ahead, [AsyncNext]_asyncVars
  PROVE  Ahead'
<1>1. staleness_samples \in Nat
  BY DEF Counted, Staleness
<1>2. CASE Restart
  BY <1>2, RestartAhead
<1>3. CASE ResetStaleness
  BY <1>3, ResetAhead
<1>4. CASE ~Restart /\ ~ResetStaleness
  <2>1. Base' = Base
    BY <1>4, BaseStep
  <2>2. CASE SampleGenerated \/ GetSample \/ PutEnd \/ AwaitPending \/ TakePending \/ CreateTask
    BY <1>1, <2>1, <2>2, GeneratedAhead, GetAhead, PutEndAhead, AwaitAhead, TakeAhead, CreateAhead
  <2>3. CASE Train
    <3>1. Taken' = Taken
      BY <2>3, TrainKeepsTaken
    <3>2. UNCHANGED <<queue, held, staleness_samples, active_tasks, processor>>
      BY <2>3 DEF Train, tasks, messages
    <3> QED
      BY <1>1, <2>1, <3>1, <3>2, QuietAhead DEF Generating
  <2>4. CASE SampleLost
    <3>1. PICK t \in Generating, s \in {"cancelled", "failed"} :
            active_tasks' = (active_tasks \ {t}) \cup {[t EXCEPT !.status = s]}
      BY <2>4 DEF SampleLost
    <3>2. t \in active_tasks
      BY DEF Generating
    <3>3. Generating' \subseteq Generating
      BY <3>1, <3>2, TaskEnds DEF Statuses, Generating, Typed, TaskTypes
    <3>4. UNCHANGED <<queue, held, staleness_samples, processor, batch, local_trigger_step, current_param_version>>
      BY <2>4 DEF SampleLost, messages, training
    <3> QED
      BY <1>1, <2>1, <3>3, <3>4, QuietAhead DEF Taken
  <2>5. CASE \/ FeedSample \/ FeedEnd \/ EndJob \/ UNCHANGED asyncVars
             \/ WaitForLock("processor") \/ Pause \/ SetPaused \/ Park \/ WaitForTasks \/ TasksFinished \/ Finish
             \/ WaitForLock("trainer") \/ PauseForSync \/ Drain \/ Drained \/ UpdateWeights
             \/ ResetFlags \/ SaveCheckpoint \/ StopTraining
    <3>1. /\ UNCHANGED <<queue, held, staleness_samples, batch, local_trigger_step, current_param_version>>
          /\ active_tasks' \in {active_tasks, Generating}
          /\ processor' = "getting" => processor = "getting"
          /\ processor = "over" => processor' = "over"
      BY <2>5 DEF FeedSample, FeedEnd, EndJob, WaitForLock, Pause, SetPaused, Park, WaitForTasks, TasksFinished,
                  Finish, PauseForSync, Drain, Drained, UpdateWeights, ResetFlags, Notified, SaveCheckpoint,
                  StopTraining, asyncVars, tasks, messages, training
    <3>2. Generating' \subseteq Generating /\ Taken' = Taken
      BY <3>1 DEF Generating, Taken
    <3> QED
      BY <1>1, <2>1, <3>1, <3>2, QuietAhead
  <2> QED
    BY <1>4, <2>2, <2>3, <2>4, <2>5 DEF AsyncNext, ProcessorStep, TrainerStep
<1> QED
  BY <1>2, <1>3, <1>4


-----------------------------------------------------------------------------
(* In time.  A sample on the queue has a rank among the samples; when the   *)
(* trainer takes it, what was taken before it fits into the periods up to   *)
(* its deadline.                                                            *)

EndsBefore(q, i) == \E j \in 1..(i - 1) : q[j].sample = End
Rank(q, i)       == IF EndsBefore(q, i) THEN i - 1 ELSE i
Deadline(v)      == (v + LagBound + 1) * PeriodSamples

InTime ==
  /\ \A i \in DOMAIN queue : queue[i].sample # End => Taken + Rank(queue, i) <= Deadline(queue[i].version)
  /\ \A b \in ToSet(batch) : current_param_version <= b.version + LagBound

LEMMA DivideUp ==
  ASSUME NEW m \in Nat, NEW p \in Nat \ {0}
  PROVE  m \div p \in Nat /\ m + 1 <= (m \div p + 1) * p
<1> DEFINE q == m \div p
<1>1. q \in Nat
  OBVIOUS
<1>2. m < p * q + p
  OBVIOUS
<1> HIDE DEF q
<1>3. p * q \in Nat /\ (q + 1) * p = p * q + p
  BY <1>1
<1>4. m + 1 <= (q + 1) * p
  BY <1>2, <1>3
<1> QED
  BY <1>1, <1>4 DEF q

LEMMA LagCovers ==
  /\ LagBound \in Nat
  /\ MaxRequiredSamples + Forgotten <= (LagBound + 1) * PeriodSamples
<1>1. PeriodSamples \in Nat \ {0} /\ MaxRequiredSamples \in Nat /\ ExcessSamples \in Nat
  <2>1. \A m, n \in Nat \ {0} : m * n \in Nat \ {0}
    OBVIOUS
  <2> QED
    BY <2>1, AsyncAssumption DEF PeriodSamples, MaxRequiredSamples
<1>2. CASE ExcessSamples = 0
  <2>1. MaxRequiredSamples = PeriodSamples /\ Forgotten = 0 /\ LagBound = 0
    BY <1>1, <1>2 DEF MaxRequiredSamples, Forgotten, LagBound
  <2> QED
    BY <1>1, <2>1
<1>3. CASE ExcessSamples # 0
  <2>1. Forgotten = 1 /\ LagBound = MaxRequiredSamples \div PeriodSamples
    BY <1>3 DEF Forgotten, LagBound
  <2> QED
    BY <1>1, <2>1, DivideUp
<1> QED
  BY <1>2, <1>3

\* What stands in line is used before the deadline of the servers' weights.
LEMMA LineEndsInTime ==
  ASSUME NEW b \in Int, NEW v \in Nat, NEW l \in Nat, NEW p \in Nat, NEW m \in Nat,
         b <= v, m <= (l + 1) * p
  PROVE  b * p + m <= (v + l + 1) * p
<1>1. b * p <= v * p
  OBVIOUS
<1>2. (v + l + 1) * p = v * p + (l + 1) * p
  OBVIOUS
<1>3. b * p \in Int /\ v * p \in Int /\ (l + 1) * p \in Int
  OBVIOUS
<1> QED
  BY <1>1, <1>2, <1>3

\* What is taken before a deadline is not older than it says.
LEMMA TakenInTime ==
  ASSUME NEW c \in Nat, NEW v \in Nat, NEW l \in Nat, NEW p \in Nat \ {0}, c * p + 1 <= (v + l + 1) * p
  PROVE  c <= v + l
<1>1. ASSUME c > v + l PROVE FALSE
  <2>1. c >= v + l + 1
    BY <1>1
  <2>2. \A x, y \in Nat : x >= y => x * p >= y * p
    OBVIOUS
  <2>3. c * p >= (v + l + 1) * p
    BY <2>1, <2>2
  <2>4. c * p \in Nat /\ (v + l + 1) * p \in Nat
    OBVIOUS
  <2> QED
    BY <2>3, <2>4
<1> QED
  BY <1>1

\* With one end signal at most, the queue is as long as its samples are many.
LEMMA SamplesOnQueue ==
  ASSUME NEW S, NEW q \in Seq(S),
         \A i, j \in DOMAIN q : i # j => q[i].sample # q[j].sample,
         NEW W, W = {m \in ToSet(q) : m.sample # End}
  PROVE  /\ Len(q) <= Cardinality(W) + 1
         /\ (\A i \in DOMAIN q : q[i].sample # End) => Len(q) <= Cardinality(W)
<1> DEFINE n == Len(q)
           I == {i \in 1..n : q[i].sample # End}
           f == [i \in I |-> q[i]]
<1>1. n \in Nat /\ DOMAIN q = 1..n
  OBVIOUS
<1>2. IsFiniteSet(1..n) /\ Cardinality(1..n) = n
  <2> HIDE DEF n
  <2> QED
    BY <1>1, FS_Interval
<1>3. f \in Injection(I, W)
  <2>1. \A i \in I : q[i] \in W
    BY <1>1 DEF ToSet
  <2>2. \A i, j \in I : q[i] = q[j] => i = j
    BY <1>1
  <2>3. f \in [I -> W]
    BY <2>1
  <2>4. \A i, j \in I : f[i] = f[j] => i = j
    BY <2>2
  <2> HIDE DEF f, I
  <2> QED
    BY <2>3, <2>4, Fun_IsInj
<1> HIDE DEF n, f
<1>4. I \subseteq 1..n /\ IsFiniteSet(I)
  BY <1>2, FS_Subset
<1> HIDE DEF I
<1>5. Cardinality(I) <= Cardinality(W) /\ Cardinality(I) \in Nat /\ Cardinality(W) \in Nat
  <2>1. IsFiniteSet(ToSet(q))
    BY Distinct
  <2>2. IsFiniteSet(W)
    BY <2>1, FS_Subset
  <2> QED
    BY <1>3, <1>4, <2>2, FS_Injection, FS_CardinalityType
<1>6. ASSUME \A i \in DOMAIN q : q[i].sample # End
      PROVE  n = Cardinality(I)
  <2>1. I = 1..n
    BY <1>1, <1>6 DEF I
  <2> QED
    BY <1>2, <2>1
<1>7. ASSUME NEW e \in DOMAIN q, q[e].sample = End
      PROVE  n <= Cardinality(I) + 1
  <2>1. 1..n \subseteq I \cup {e}
    BY <1>1, <1>7 DEF I
  <2>2. IsFiniteSet(I \cup {e}) /\ Cardinality(I \cup {e}) <= Cardinality(I) + 1
    BY <1>4, AddOne
  <2>3. Cardinality(1..n) <= Cardinality(I \cup {e}) /\ Cardinality(I \cup {e}) \in Nat
    BY <2>1, <2>2, FS_Subset, FS_CardinalityType
  <2> QED
    BY <1>1, <1>2, <1>5, <2>2, <2>3
<1> QED
  BY <1>1, <1>5, <1>6, <1>7 DEF n

\* The rank of the sample that is put last, and the ranks behind one that is taken.
LEMMA LastRank ==
  ASSUME NEW S, NEW q \in Seq(S), q # <<>>,
         \A i, j \in DOMAIN q : i # j => q[i].sample # q[j].sample,
         NEW W, W = {m \in ToSet(q) : m.sample # End}, q[Len(q)].sample # End
  PROVE  Rank(q, Len(q)) <= Cardinality(W)
<1>1. Len(q) \in Nat \ {0} /\ DOMAIN q = 1..Len(q)
  OBVIOUS
<1>2. Len(q) <= Cardinality(W) + 1 /\ ((\A i \in DOMAIN q : q[i].sample # End) => Len(q) <= Cardinality(W))
  BY SamplesOnQueue
<1>3. Cardinality(W) \in Nat
  <2>1. IsFiniteSet(ToSet(q))
    BY Distinct
  <2>2. IsFiniteSet(W)
    BY <2>1, FS_Subset
  <2> QED
    BY <2>2, FS_CardinalityType
<1>4. CASE EndsBefore(q, Len(q))
  BY <1>1, <1>2, <1>3, <1>4 DEF Rank
<1>5. CASE ~EndsBefore(q, Len(q))
  <2>1. \A i \in 1..(Len(q) - 1) : q[i].sample # End
    BY <1>5 DEF EndsBefore
  <2>2. \A n \in Nat : \A i \in 1..n : i = n \/ i \in 1..(n - 1)
    OBVIOUS
  <2>3. \A i \in 1..Len(q) : i = Len(q) \/ i \in 1..(Len(q) - 1)
    BY <1>1, <2>2
  <2>4. \A i \in DOMAIN q : q[i].sample # End
    BY <1>1, <2>1, <2>3
  <2> QED
    BY <1>2, <1>5, <2>4 DEF Rank
<1> QED
  BY <1>4, <1>5

LEMMA TailRanks ==
  ASSUME NEW S, NEW q \in Seq(S), q # <<>>, NEW i \in DOMAIN Tail(q)
  PROVE  /\ i + 1 \in DOMAIN q /\ Tail(q)[i] = q[i + 1]
         /\ Rank(Tail(q), i) \in Nat /\ Rank(q, i + 1) \in Nat
         /\ Rank(Tail(q), i) <= Rank(q, i + 1)
         /\ Head(q).sample # End => Rank(Tail(q), i) + 1 <= Rank(q, i + 1)
<1>1. /\ Len(q) \in Nat \ {0} /\ DOMAIN q = 1..Len(q) /\ DOMAIN Tail(q) = 1..(Len(q) - 1) /\ Head(q) = q[1]
      /\ \A j \in 1..(Len(q) - 1) : Tail(q)[j] = q[j + 1]
  OBVIOUS
<1>2. i \in Nat \ {0} /\ i + 1 \in DOMAIN q /\ Tail(q)[i] = q[i + 1]
  BY <1>1
<1>3. Rank(Tail(q), i) \in {i - 1, i} /\ Rank(q, i + 1) \in {i, i + 1}
  BY <1>2 DEF Rank
<1>4. ASSUME Head(q).sample # End, EndsBefore(q, i + 1)
      PROVE  EndsBefore(Tail(q), i)
  <2>1. PICK j \in 1..((i + 1) - 1) : q[j].sample = End
    BY <1>4 DEF EndsBefore
  <2>2. j # 1
    BY <1>1, <1>4, <2>1
  <2>3. j - 1 \in 1..(i - 1) /\ j - 1 \in 1..(Len(q) - 1) /\ (j - 1) + 1 = j
    BY <1>1, <1>2, <2>1, <2>2
  <2>4. Tail(q)[j - 1].sample = End
    BY <1>1, <2>1, <2>3
  <2> QED
    BY <2>3, <2>4 DEF EndsBefore
<1>5. Head(q).sample # End => Rank(Tail(q), i) + 1 <= Rank(q, i + 1)
  BY <1>2, <1>4 DEF Rank
<1> QED
  BY <1>2, <1>3, <1>5


LEMMA DeadlineNumbers ==
  ASSUME NEW v \in Nat
  PROVE  Deadline(v) \in Nat
<1>1. \A m, n \in Nat : m * n \in Nat
  OBVIOUS
<1>2. PeriodSamples \in Nat
  BY <1>1, AsyncAssumption DEF PeriodSamples
<1> QED
  BY <1>1, <1>2, LagCovers DEF Deadline

\* Ranks are numbers; the samples in the queue keep time when it moves up.
LEMMA MovedUp ==
  ASSUME Typed, InTime, queue # <<>>, NEW i \in DOMAIN Tail(queue), Tail(queue)[i].sample # End
  PROVE  /\ Tail(queue)[i].version \in Nat /\ Rank(Tail(queue), i) \in Nat
         /\ Taken + Rank(Tail(queue), i) <= Deadline(Tail(queue)[i].version)
         /\ Head(queue).sample # End => Taken + 1 + Rank(Tail(queue), i) <= Deadline(Tail(queue)[i].version)
<1>1. queue \in Seq(Messages)
  BY DEF Typed, QueueTypes
<1>2. /\ i + 1 \in DOMAIN queue /\ Tail(queue)[i] = queue[i + 1]
      /\ Rank(Tail(queue), i) \in Nat /\ Rank(queue, i + 1) \in Nat
      /\ Rank(Tail(queue), i) <= Rank(queue, i + 1)
      /\ Head(queue).sample # End => Rank(Tail(queue), i) + 1 <= Rank(queue, i + 1)
  BY <1>1, TailRanks
<1>3. queue[i + 1].version \in Nat
  <2>1. queue[i + 1] \in Messages
    BY <1>1, <1>2
  <2> QED
    BY <2>1 DEF Messages
<1>4. Taken + Rank(queue, i + 1) <= Deadline(queue[i + 1].version)
  BY <1>2 DEF InTime
<1>5. Deadline(queue[i + 1].version) \in Nat /\ Taken \in Nat
  BY <1>3, DeadlineNumbers, LineNumbers
<1>6. \A t, r, s, d \in Nat : t + s <= d => (r <= s => t + r <= d) /\ (r + 1 <= s => t + 1 + r <= d)
  OBVIOUS
<1> QED
  BY <1>2, <1>3, <1>4, <1>5, <1>6

\* A message that is put leaves the others their time.
LEMMA PutInTime ==
  ASSUME Typed, InTime, NEW m \in Messages, PutSample(m), Taken' = Taken, batch' = batch,
         current_param_version' = current_param_version,
         queue' # <<>> /\ m.sample # End => Taken + Rank(queue', Len(queue')) <= Deadline(m.version)
  PROVE  InTime'
<1>1. PICK s \in Seq(Messages) :
        /\ queue' = Append(s, m)
        /\ s = queue \/ (queue # <<>> /\ s = Tail(queue))
  BY PutIs
<1>2. /\ Len(s) \in Nat /\ DOMAIN s = 1..Len(s) /\ DOMAIN queue' = 1..(Len(s) + 1)
      /\ Len(queue') = Len(s) + 1 /\ queue' # <<>>
      /\ \A i \in 1..Len(s) : queue'[i] = s[i]
      /\ queue'[Len(s) + 1] = m
  BY <1>1
<1>3. \A i \in 1..Len(s) : Rank(queue', i) = Rank(s, i)
  <2> TAKE i \in 1..Len(s)
  <2>1. \A j \in 1..(i - 1) : j \in 1..Len(s)
    BY <1>2
  <2> QED
    BY <1>2, <2>1 DEF Rank, EndsBefore
<1>4. \A i \in 1..Len(s) : s[i].sample # End => Taken + Rank(s, i) <= Deadline(s[i].version)
  <2>1. CASE s = queue
    BY <1>2, <2>1 DEF InTime
  <2>2. CASE queue # <<>> /\ s = Tail(queue)
    BY <1>2, <2>2, MovedUp
  <2> QED
    BY <1>1, <2>1, <2>2
<1>5. \A v : Deadline(v)' = Deadline(v)
  BY DEF Deadline, LagBound, MaxRequiredSamples, PeriodSamples
<1>6. ASSUME NEW i \in DOMAIN queue', queue'[i].sample # End
      PROVE  Taken + Rank(queue', i) <= Deadline(queue'[i].version)
  <2>1. CASE i \in 1..Len(s)
    BY <1>2, <1>3, <1>4, <1>6, <2>1
  <2>2. CASE i = Len(s) + 1
    BY <1>2, <1>6, <2>2
  <2> QED
    BY <1>2, <2>1, <2>2
<1>7. \A b \in ToSet(batch') : current_param_version' <= b.version + LagBound'
  BY DEF InTime, LagBound, MaxRequiredSamples, PeriodSamples
<1> QED
  BY <1>6, <1>7 DEF InTime, Deadline, LagBound, MaxRequiredSamples, PeriodSamples

\* A sample that is put stands at the end of the line.
LEMMA GeneratedInTime ==
  ASSUME Typed, Typed', NoPartialSamples, QueuedOnce', InStep, InTime, Ahead', SampleGenerated, Base' = Base
  PROVE  InTime'
<1>1. PICK t \in Generating : PutSample([sample |-> t.sample, version |-> t.version])
  BY DEF SampleGenerated
<1> DEFINE m == [sample |-> t.sample, version |-> t.version]
           W == {q \in ToSet(queue') : q.sample # End}
<1>2. m \in Messages /\ m.sample # End /\ m.version = rollout_version
  <2>1. m \in Messages /\ m.sample # End
    <3>1. t \in TaskRecords /\ loaded \in Nat /\ rollout_version \in Nat
      BY DEF Typed, Generating, TaskTypes, FeedTypes, TrainTypes
    <3>2. t.sample \in 1..loaded /\ t.version \in Nat
      BY <3>1 DEF TaskRecords
    <3> QED
      BY <3>1, <3>2 DEF Messages, End
  <2>2. t.version = rollout_version
    BY DEF NoPartialSamples
  <2> QED
    BY <2>1, <2>2
<1>3. UNCHANGED <<rollout_version, batch, local_trigger_step, current_param_version, held>>
  BY DEF SampleGenerated, training
<1>4. Taken' = Taken /\ InHand' = InHand
  BY <1>3 DEF Taken, InHand
<1>5. Ready' \in Nat /\ Busy' \in Nat
  BY GeneratedMoves, LineNumbers
<1>6. Line' <= CountedFrom + MaxRequiredSamples + Forgotten
  <2>1. CountedFrom' = CountedFrom /\ MaxRequiredSamples' = MaxRequiredSamples /\ Forgotten' = Forgotten
    BY DEF CountedFrom, MaxRequiredSamples, PeriodSamples, Forgotten
  <2>2. Line' <= CountedFrom' + MaxRequiredSamples' + Forgotten'
    BY DEF Ahead
  <2> QED
    BY <2>1, <2>2
<1>7. CountedFrom + MaxRequiredSamples + Forgotten <= Deadline(rollout_version)
  <2>1. rollout_version \in Nat /\ Base <= rollout_version
    BY DEF InStep, Typed, TrainTypes
  <2>2. MaxRequiredSamples + Forgotten \in Nat /\ Base \in Int /\ PeriodSamples \in Nat
    BY LineNumbers
  <2>3. Base * PeriodSamples + (MaxRequiredSamples + Forgotten) <= (rollout_version + LagBound + 1) * PeriodSamples
    BY <2>1, <2>2, LagCovers, LineEndsInTime
  <2> QED
    BY <2>2, <2>3, LineNumbers DEF CountedFrom, Deadline
<1>8. ASSUME queue' # <<>>
      PROVE  Taken + Rank(queue', Len(queue')) <= Deadline(rollout_version)
  <2>1. PICK s \in Seq(Messages) : queue' = Append(s, m)
    BY <1>1, <1>2, PutIs
  <2>2. queue' \in Seq(Messages) /\ queue'[Len(queue')] = m
    BY <1>2, <2>1
  <2>3. \A i, j \in DOMAIN queue' : i # j => queue'[i].sample # queue'[j].sample
    BY DEF QueuedOnce
  <2> HIDE DEF m
  <2>4. Rank(queue', Len(queue')) <= Cardinality(W)
    BY <1>2, <1>8, <2>2, <2>3, LastRank
  <2>5. Ready' = Cardinality(W)
    BY DEF Ready, Waiting
  <2>6. Rank(queue', Len(queue')) \in Int
    BY <2>2 DEF Rank
  <2>7. Line' = Taken + Ready' + Busy' + InHand
    BY <1>4 DEF Line
  <2> DEFINE rank == Rank(queue', Len(queue'))
             end  == Deadline(rollout_version)
             room == CountedFrom + MaxRequiredSamples + Forgotten
  <2> HIDE DEF rank, end, room
  <2>9. /\ rank \in Int /\ Ready' \in Nat /\ Busy' \in Nat /\ InHand \in Nat /\ Taken \in Int /\ rank <= Ready'
    BY <1>5, <2>4, <2>5, <2>6, LineNumbers DEF rank
  <2>10. Taken + rank <= Line' /\ Line' \in Int /\ Taken + rank \in Int
    <3> DEFINE w == Ready'
               b == Busy'
               l == Line'
    <3>1. l = Taken + w + b + InHand /\ w \in Nat /\ b \in Nat /\ rank <= w
      BY <2>7, <2>9
    <3> HIDE DEF w, b, l
    <3>2. Taken + rank <= l /\ l \in Int /\ Taken + rank \in Int
      BY <2>9, <3>1
    <3> QED
      BY <3>2 DEF l
  <2>11. room \in Int
    BY LineNumbers DEF room
  <2>12. end \in Int
    <3>1. rollout_version \in Nat
      BY DEF Typed, TrainTypes
    <3> QED
      BY <3>1, DeadlineNumbers DEF end
  <2>13. \A a, b, c, d \in Int : a <= b /\ b <= c /\ c <= d => a <= d
    OBVIOUS
  <2>14. Line' <= room /\ room <= end
    BY <1>6, <1>7 DEF room, end
  <2>15. Taken + rank <= end
    BY <2>10, <2>11, <2>12, <2>13, <2>14
  <2> QED
    BY <2>15 DEF rank, end
<1> QED
  BY <1>1, <1>2, <1>3, <1>4, <1>8, PutInTime


\* What is taken was in time; what stays moves up.
LEMMA GetInTime ==
  ASSUME Typed, InTime, GetSample
  PROVE  InTime'
<1>1. /\ queue # <<>> /\ queue' = Tail(queue)
      /\ UNCHANGED <<current_param_version, local_trigger_step>>
  BY DEF GetSample
<1>2. /\ queue \in Seq(Messages) /\ 1 \in DOMAIN queue /\ Head(queue) = queue[1] /\ queue[1] \in Messages
      /\ batch \in Seq([sample : 1..loaded, version : Nat])
  BY <1>1 DEF Typed, QueueTypes, TrainTypes
<1>3. \A v : Deadline(v)' = Deadline(v)
  BY DEF Deadline, LagBound, MaxRequiredSamples, PeriodSamples
<1>4. LagBound' = LagBound
  BY DEF LagBound, MaxRequiredSamples, PeriodSamples
<1>5. Taken \in Nat /\ Taken >= current_param_version * PeriodSamples
      /\ current_param_version * PeriodSamples \in Nat /\ PeriodSamples \in Nat \ {0}
      /\ current_param_version \in Nat
  BY LineNumbers DEF Typed, TrainTypes
<1> DEFINE before == current_param_version * PeriodSamples + (local_trigger_step - 1) * RequiredSamples
<1>6. before \in Nat /\ Taken = before + Len(batch) /\ Taken' = before + Len(batch')
  <2>1. \A m, n \in Nat : m * n \in Nat
    OBVIOUS
  <2>2. local_trigger_step - 1 \in Nat /\ RequiredSamples \in Nat
    BY Sizes DEF Typed, TrainTypes
  <2>3. (local_trigger_step - 1) * RequiredSamples \in Nat
    BY <2>1, <2>2
  <2> QED
    BY <1>1, <1>5, <2>3 DEF Taken, PeriodSamples
<1> HIDE DEF before
<1>7. CASE Head(queue).sample = End
  <2>1. batch' = <<>> /\ Len(batch') = 0 /\ ToSet(batch') = {}
    BY <1>7 DEF GetSample, ToSet
  <2>2. Taken' \in Nat /\ Taken' <= Taken
    BY <1>2, <1>6, <2>1
  <2>3. ASSUME NEW i \in DOMAIN Tail(queue), Tail(queue)[i].sample # End
        PROVE  Taken' + Rank(Tail(queue), i) <= Deadline(Tail(queue)[i].version)
    <3>1. /\ Tail(queue)[i].version \in Nat /\ Rank(Tail(queue), i) \in Nat
          /\ Taken + Rank(Tail(queue), i) <= Deadline(Tail(queue)[i].version)
      BY <1>1, <2>3, MovedUp
    <3> DEFINE rank == Rank(Tail(queue), i)
               end  == Deadline(Tail(queue)[i].version)
               now  == Taken'
    <3>2. end \in Nat /\ rank \in Nat /\ now \in Nat /\ now <= Taken /\ Taken + rank <= end
      BY <2>2, <3>1, DeadlineNumbers
    <3> HIDE DEF rank, end, now
    <3>3. now + rank <= end
      BY <1>5, <3>2
    <3> QED
      BY <3>3 DEF rank, end, now
  <2> QED
    BY <1>1, <1>3, <2>1, <2>3 DEF InTime
<1>8. CASE Head(queue).sample # End
  <2>1. batch' = Append(batch, Head(queue))
    BY <1>8 DEF GetSample
  <2>2. Len(batch') = Len(batch) + 1 /\ Taken' = Taken + 1
    BY <1>2, <1>6, <2>1
  <2>3. ASSUME NEW i \in DOMAIN Tail(queue), Tail(queue)[i].sample # End
        PROVE  Taken' + Rank(Tail(queue), i) <= Deadline(Tail(queue)[i].version)
    BY <1>1, <1>8, <2>2, <2>3, MovedUp
  <2>4. current_param_version <= Head(queue).version + LagBound
    <3>1. Head(queue).version \in Nat
      BY <1>2 DEF Messages
    <3>2. Rank(queue, 1) = 1
      BY DEF Rank, EndsBefore
    <3>3. Taken + 1 <= Deadline(Head(queue).version)
      BY <1>2, <1>8, <3>2 DEF InTime
    <3>4. Deadline(Head(queue).version) \in Nat
      BY <3>1, DeadlineNumbers
    <3>5. current_param_version * PeriodSamples + 1 <= (Head(queue).version + LagBound + 1) * PeriodSamples
      <4>1. current_param_version * PeriodSamples + 1 <= Deadline(Head(queue).version)
        BY <1>5, <3>3, <3>4
      <4> QED
        BY <4>1 DEF Deadline
    <3> QED
      BY <1>5, <3>1, <3>5, LagCovers, TakenInTime
  <2>5. ToSet(batch') \subseteq ToSet(batch) \cup {Head(queue)}
    <3>1. Head(queue) \in Messages \cup [sample : 1..loaded, version : Nat]
      BY <1>2
    <3>2. batch \in Seq(Messages \cup [sample : 1..loaded, version : Nat])
      BY <1>2, SeqGrows
    <3> QED
      BY <2>1, <3>1, <3>2, AppendSet
  <2>6. \A b \in ToSet(batch') : current_param_version' <= b.version + LagBound'
    BY <1>1, <1>4, <2>4, <2>5 DEF InTime
  <2> QED
    BY <1>1, <1>3, <2>3, <2>6 DEF InTime
<1> QED
  BY <1>7, <1>8

LEMMA InTimeStep ==
  ASSUME Typed, Typed', NoPartialSamples, QueuedOnce', Stopped, InStep, Ahead', InTime, [AsyncNext]_asyncVars
  PROVE  InTime'
<1>1. \A v : Deadline(v)' = Deadline(v)
  BY DEF Deadline, LagBound, MaxRequiredSamples, PeriodSamples
<1>2. LagBound' = LagBound
  BY DEF LagBound, MaxRequiredSamples, PeriodSamples
<1>3. CASE SampleGenerated
  <2>1. UNCHANGED <<trainer, stopping, current_param_version>>
    BY <1>3 DEF SampleGenerated, training
  <2>2. Base' = Base
    BY <2>1 DEF Base
  <2> QED
    BY <1>3, <2>2, GeneratedInTime
<1>4. CASE GetSample
  BY <1>4, GetInTime
<1>5. CASE PutEnd
  <2> DEFINE m == [sample |-> End, version |-> 0]
  <2>1. PutSample(m) /\ UNCHANGED <<batch, local_trigger_step, current_param_version>>
    BY <1>5 DEF PutEnd, training
  <2>2. m \in Messages /\ m.sample = End
    BY DEF Messages, End, Typed, FeedTypes
  <2>3. Taken' = Taken
    BY <2>1 DEF Taken
  <2> HIDE DEF m
  <2> QED
    BY <2>1, <2>2, <2>3, PutInTime
<1>6. CASE Train
  <2>1. Taken' = Taken
    BY <1>6, TrainKeepsTaken
  <2>2. queue' = queue /\ batch' = <<>> /\ ToSet(batch') = {}
    BY <1>6 DEF Train, messages, ToSet
  <2> QED
    BY <1>1, <2>1, <2>2 DEF InTime
<1>7. CASE Restart
  <2>1. queue' = <<>> /\ batch' = <<>> /\ ToSet(batch') = {} /\ DOMAIN queue' = {}
    BY <1>7 DEF Restart, ToSet
  <2> QED
    BY <2>1 DEF InTime
<1>8. CASE UNCHANGED <<queue, batch, local_trigger_step, current_param_version>>
  <2>1. Taken' = Taken
    BY <1>8 DEF Taken
  <2> QED
    BY <1>1, <1>2, <1>8, <2>1 DEF InTime
<1> QED
  BY <1>3, <1>4, <1>5, <1>6, <1>7, <1>8
     DEF AsyncNext, ProcessorStep, TrainerStep, FeedSample, FeedEnd, SampleLost, EndJob,
         WaitForLock, Pause, SetPaused, Park, AwaitPending, TakePending, CreateTask, WaitForTasks,
         TasksFinished, Finish, PauseForSync, Drain, Drained, ResetFlags,
         ResetStaleness, UpdateWeights, SaveCheckpoint, StopTraining, asyncVars, messages, training

LEMMA TimesAlways == AsyncSpec => [](InStep /\ Ahead /\ InTime)
<1>1. ASSUME AsyncInit PROVE InStep /\ Ahead /\ InTime
  <2>1. /\ queue = <<>> /\ active_tasks = {} /\ held = {} /\ staleness_samples = 0 /\ processor = "loop"
        /\ batch = <<>> /\ local_trigger_step = 1 /\ trainer = "collecting"
        /\ current_param_version = 0 /\ rollout_version = 0
    BY <1>1 DEF AsyncInit
  <2>2. InStep
    BY <2>1 DEF InStep, Base, Pushing
  <2>3. Ahead
    BY <1>1, <2>1, InitTyped, FreshAhead
  <2>4. ToSet(batch) = {} /\ DOMAIN queue = {}
    BY <2>1 DEF ToSet
  <2>5. InTime
    BY <2>4 DEF InTime
  <2> QED
    BY <2>2, <2>3, <2>5
<1>2. ASSUME Typed, Typed', Scheduled, Placed, Placed', Closed, InStep, Ahead, InTime, [AsyncNext]_asyncVars
      PROVE  (InStep /\ Ahead /\ InTime)'
  <2>1. /\ Hand /\ Counted /\ QueuedOnce /\ QueuedOnce' /\ NoPartialSamples /\ Stopped
    BY <1>2 DEF Scheduled, Pushed, Placed, Closed
  <2>2. InStep'
    BY <1>2, <2>1, InStepStep
  <2>3. Ahead'
    BY <1>2, <2>1, AheadStep
  <2>4. InTime'
    BY <1>2, <2>1, <2>3, InTimeStep
  <2> QED
    BY <2>2, <2>3, <2>4
<1> QED
  BY <1>1, <1>2, TypedAlways, ScheduledAlways, PlacedAlways, ClosedAlways, PTL DEF AsyncSpec

\* A sample is at most LagBound versions old when the trainer takes it, and no
\* sample on the queue is older: the trainer's periods use up the line in
\* order, and staleness_samples keeps the line short.
THEOREM SamplesAreFresh == AsyncSpec => []StalenessIsBounded
<1>1. ASSUME Typed, InTime PROVE StalenessIsBounded
  <2>1. \A b \in ToSet(batch) : current_param_version <= b.version + LagBound
    BY <1>1 DEF InTime
  <2>2. ASSUME NEW s \in Waiting PROVE current_param_version <= s.version + LagBound
    <3>1. queue \in Seq(Messages)
      BY <1>1 DEF Typed, QueueTypes
    <3>2. PICK i \in DOMAIN queue : queue[i] = s /\ s.sample # End
      BY DEF Waiting, ToSet
    <3>3. s.version \in Nat /\ i \in Nat \ {0}
      <4>1. s \in Messages
        BY <3>1, <3>2
      <4> QED
        BY <3>1, <3>2, <4>1 DEF Messages
    <3>4. Rank(queue, i) \in Nat \ {0}
      <4>1. i = 1 => ~EndsBefore(queue, i)
        BY DEF EndsBefore
      <4> QED
        BY <3>3, <4>1 DEF Rank
    <3>5. Taken + Rank(queue, i) <= Deadline(s.version)
      BY <1>1, <3>2 DEF InTime
    <3>6. /\ Taken \in Nat /\ Taken >= current_param_version * PeriodSamples
          /\ current_param_version * PeriodSamples \in Nat /\ PeriodSamples \in Nat \ {0}
          /\ current_param_version \in Nat /\ Deadline(s.version) \in Nat
      BY <1>1, <3>3, LineNumbers, DeadlineNumbers DEF Typed, TrainTypes
    <3>7. current_param_version * PeriodSamples + 1 <= Deadline(s.version)
      BY <3>4, <3>5, <3>6
    <3> QED
      BY <3>3, <3>6, <3>7, LagCovers, TakenInTime DEF Deadline
  <2> QED
    BY <2>1, <2>2 DEF StalenessIsBounded
<1> QED
  BY <1>1, TypedAlways, TimesAlways, PTL

=============================================================================
