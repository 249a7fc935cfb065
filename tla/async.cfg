SPECIFICATION AsyncSpec
CONSTANTS
  TotalRolloutSteps = 5
  RequiredSamples = 1
  TriggerSteps = 2
  ExcessSamples = 1
  MaxConcurrent = 2
  PendingSize = 1
  SaveFreq = 2
  MaxCancelled = 1
  MaxFailures = 1
  MaxCrashes = 1
INVARIANTS
  AsyncTypeOK
  MonitorNeverResumes
  NoPartialSamples
  OutstandingIsBounded
  StalenessIsBounded
  EachSampleIsInOnePlace
  CheckpointCoversTraining
  FinishedRunsTrainEverySample
PROPERTIES
  JobEnds
CHECK_DEADLOCK FALSE
