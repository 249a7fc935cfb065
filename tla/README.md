# ESR-GRPO: a verification project

TLA+ models, TLC runs and TLAPS proofs for ESR-GRPO (Evidence / State / Repair): the
harness in `src/esr_grpo/` that records an agent's search episode in an append-only
store, lets a policy revise a TaskState, has the answer verified and submitted, and
afterwards routes GRPO credit to the actions that produced it; the rollout and the
asynchronous training loop of the vendored ECHO that run it; and the two experiment
drivers.

Paths below are relative to the repository root unless they name a module here.

## 1. Inventory

| Component | Source | State it keeps | Operations |
|---|---|---|---|
| Episode environment | `src/esr_grpo/environment.py`, `models.py` | the lock, the visible-page map, the store | `search`, `open_page`, `read_evidence`, `update_state`, `verify_answer`, `submit_answer`, each with its rejection; `rebuild_context`; `execute_parallel`, `execute_tool` |
| Episode store | `store.py` | SQLite tables evidence, task_states, actions, metadata | `add_action`, `commit_transition` (one transaction), `set_metadata_once`, finders |
| Agent runner | `rollout.py` | messages, turns | turn loop, serial and parallel branch |
| Credit router | `credit.py` | none | `structural_trace`, `route`, `build_token_masks`, `masked_advantages`, `compute_group_advantages` |
| Episode audit | `diagnostics.py` | none | `audit_episode_store`, credit report, rollout metadata audit |
| Verifier, retrieval clients | `verification.py`, `retrieval.py` | none | one HTTP or in-memory request each |
| ECHO tool agent loop | `ECHO/verl/experimental/agent_loop/tool_agent_loop.py`, `tool_parser.py` | prompt, response, segments, turn history of one rollout | generate, execute tools, compress in five ways, build the outputs |
| ECHO integration | `integrations/echo.py`, `integrations/echo_tools.py`, `integrations/reward.py`, `scripts/common/install_echo_hooks.py` | per-rollout environment and metadata | tool adapters, token span per call, segmented advantage, reward |
| Fully asynchronous training | `ECHO/verl/experimental/fully_async_policy/` | pending queue, tasks, message queue, versions, checkpoint | feed, generate, pause, drain, train, push weights, save, restart |
| Benchmark pipeline | `scripts/experiment1_pipeline/run_benchmark.py`, `browsecomp.py`, `judge.py`, `cli.py` | a SQLite file, a trajectory and a run record per question | question loop, skip, rerun, evaluation |
| AREX native runner | `exper/arex_bcplus_native/run_arex_bcplus.py`, `runner.py`, `io_utils.py` | trajectory, run, failure and backup files | question loop, skip, retry, overwrite, atomic writes |
| AREX evaluation | `exper/arex_bcplus_native/evaluate.py` | cache of verdicts | judge each run, or use the cached verdict |
| Analysis, model download, preflight scripts | `analysis.py`, `model_download.py`, `scripts/` | files | statistics, download, checks |
| The rest of the vendored ECHO (a verl fork) | `ECHO/` | - | third-party training framework |

**How they interact.** The runner (or ECHO's tool adapters) calls handlers of one
environment, several at once from worker threads. A handler holds the environment's
lock for the whole call, reads the latest state and the ledger, asks the retriever or
the Verifier, and makes exactly one commit: an action row, together with the Evidence,
TaskState or submit metadata that the action explains. `_visible_evidence_inputs` is the
only state outside the store; it says from which action the policy has each page in
view. The router and the audit read a finished store and nothing else, so whatever they
conclude depends on what the handlers left in the ledger.

In training, the loop of `tool_agent_loop.py` stands where the runner does in the
benchmark. It cuts a rollout into segments whenever the context outgrows its budget, and
the hooks record for each tool call the segment and the tokens that made it; the router's
credit reaches the policy only through those positions. Many such rollouts run as tasks
of the asynchronous rollouter, which the trainer pauses and drains to push new weights.
The drivers run an episode per question and keep its result in files that the next
invocation reads.

**What is hard here.** Calls from several threads interleave between the calls of
others. The visible map can be lost (context rebuild, new process) while the store stays.
Ids are positions and counts in other tables. The environment accepts calls in any
order, before and after a submit. The router reconstructs, from content equality and
id sets, which earlier action is responsible for what was submitted. A call can be
rejected, or raise while its siblings have already committed. A turn is rolled back after
its tools have run, and the tokens of a segment must still be the ones the policy
sampled after. The rollouter's coroutines wait for one another on one lock, one
condition and two bounded queues while weights change under them. A checkpoint is taken
while samples are in flight. Programs are killed between any two files and started again.

**What makes each component correct.**
* Environment: a finding is only written from a page in view; new Evidence can never be
  lost or doubled; the submitted answer is the judged one and covers every page; gap ids
  are stable; the ledger explains every row of the other tables.
* Runner: each call gets its own answer, the run ends, state changes are serial, nothing
  follows a submit.
* Router: the chains it credits are complete, contain nothing that was not used, and do
  not move once the answer is submitted.
* Audit: what the environment writes before and up to the submit passes it, pages of
  white space apart; only a version written after the submit makes it object.
* Rollout: a token is trained on once and after the prefix it was sampled after; a span
  lies on the tokens of its call; a submit ends the rollout; compression ends.
* Asynchronous training: no generation spans a weight push, staleness is bounded, no
  sample is trained on twice or lost silently, nobody waits for ever.
* Drivers: a question is run to its end exactly once across interruptions, and the files
  that stand beside each other belong together.

`PROJECT.json` lists the hazards, each at its line, with the properties that watch it.

## 2. Modules

| Module | Models | Built on |
|---|---|---|
| `ESREnvironment` | environment and store of one episode | - |
| `ESRSafety` | type invariant and invariants of an episode, and a documented claim that fails | `ESREnvironment` |
| `EpisodeAudit` | the error codes of `audit_episode_store` | `ESREnvironment` |
| `Credit` | `CreditRouter.structural_trace` | `ESREnvironment` |
| `Episode` | abstract specification: collect pages, revise, judge, submit once | - |
| `ESRRefinement` | the refinement mapping from `ESREnvironment` to `Episode` | `ESREnvironment`, `Episode` |
| `AgentRunner` | the turn loop around an environment, with workers and exceptions | `ESREnvironment` |
| `EchoRollout` | one rollout of ECHO's tool agent loop with the ESR tools and hooks | - |
| `FullyAsync` | rollouter, message queue, trainer, checkpoint and restart | - |
| `BenchmarkRun` | the question loop of `run_benchmark.py`, and the start of a store | - |
| `ArexExperiment` | the question loop of `run_arex_bcplus.py`, its files, the judge cache | - |
| `ESRProofs` | type correctness, with the lemmas about operators and tables | `ESRSafety` |
| `ESRSafetyProofs` | findings (fresh, and with a writer), versions, submit, reopening, gap ids and their life in the ledger | `ESRProofs` |
| `RefinementProofs` | the environment implements `Episode` | `ESRRefinement`, `ESRSafetyProofs` |
| `ReaderProofs` | the two readers of a ledger: the chains of the router, and the audit | `Credit`, `EpisodeAudit`, `ESRSafetyProofs` |
| `AgentProofs` | every run is an episode; the runner's replies and its end | `AgentRunner`, `ESRSafetyProofs` |
| `ArexProofs` | types and file theorems of the AREX driver | `ArexExperiment` |
| `EchoProofs` | the whole of a rollout: types, its bound, the submit, spans, what is trained on and after which prefix | `EchoRollout` |
| `FullyAsyncProofs` | types, no partial samples, checkpoint coverage, the lock, the counts, the places of a sample, what a finished run trained on, how old a sample is | `FullyAsync` |
| `MCESREnvironment`, `MCAgentRunner`, `MCEchoRollout` | instances, symmetry and inputs for TLC | the above |

### State and actions of `ESREnvironment`

`evidence`, `states`, `actions` are the three tables as sequences: the k-th element is
row k, so Evidence `e<k>`, TaskState version k and action `a<k>` are the number k, and 0
is `None`. `submit_action_id` and `submitted_answer` are the metadata keys that are
written once. `visible` is `_visible_evidence_inputs`.

Each handler is one action, because the environment lock covers it from its first read
to its last assignment and its writes are one SQLite transaction; a crash inside a call
is a call that did not happen. Concurrent calls are the interleavings of these actions.
Every rejection is an action too (`Reject`): it logs an illegal row and changes nothing
else. `ForgetVisible` is `rebuild_context` and also a restart over the same file, both of
which empty the visible map only.

A document is a model value with fixed content, so "same source key and content hash"
is "same document"; `EmptyDocs` and `BlankDocs` are the documents on which the two
emptiness tests of the code differ. Answers, findings and gap descriptions are model
values compared for equality. The retriever may return any set of documents, the
Verifier any status with any list of descriptions. Left out: token spans, turn ids,
timestamps, wording, the truncation of observations, search ranking.

Rejections happen only where they can: an empty query, an unknown search id, an id out
of the directory, an over-long finding, or a verdict with too many gaps is always
possible input, so those actions carry no guard; `SubmitAnswerRejected` has no input and
is guarded by the negation of the submit's condition.

### `AgentRunner`

`phase` is the position in `run()`: waiting for the policy, in the serial or the parallel
branch, returned, or raised. A parallel turn is one `ParallelCall` per worker in any order;
`Slot` puts its result where `pool.map` does. A raised call is noticed when the main
thread reaches its result in call order; from then on calls nobody has started may be
cancelled while the others still run and commit, and `Join` waits for all of them before
the exception leaves `run()`. The request is cut at `max_parallel_calls`.

### `Episode` and the refinement

`Episode` knows pages, a draft, a verdict and a submitted answer: pages only grow, a
verdict applies to the draft it was given for and only when every page is indexed, and
one answer is submitted once, with the verdict in force. `ESRRefinement` maps the store
to it.

### `EchoRollout`

A rollout is one coroutine, so what happens between two values of `AgentState` is one
action: `Turn`, `LastTurn` and `CutOff` are the outcomes of `_handle_generating_state`
(complete, at the turn limit, cut off before a complete call), `Summarize` and
`SelectTurns` of a generation for a compression, `Overflow` and `Observe` of
`_handle_processing_tools_state`, `Output` the end of `run`. A rollout is started with any
of the five compression methods. Tokens are identities (which generation, which role,
which position), because all properties are about where a token ends up; a tool-call
block is one token of one of five kinds: a call of another ESR tool; a submit; a submit
under a name with blanks around it (padded); a finish tool that ESR does not have (stop:
`finish`, `stop`, `submit`); a block that is not JSON (broken). `_call_tool` strips the
name before it looks the tool up (`tool_agent_loop.py:1108`) and the test for a finishing
turn does not (`:859`, with the hook's `submit_answer`). So a padded submit is executed
and the rollout goes on, and a stop is answered with an error and ends the rollout:
`Submits`, `Unknown` and `IsFinish` keep the three apart. `generations` is a history
variable: the prompt each generation was sampled from, and its fate.

Left out: the interaction state and `max_user_turns` (no interaction is configured), the
embedding service and the texts, so a rebuilt prompt has any of `RebuiltLengths`; multi-modal
data; the batching of rollouts.

### `FullyAsync`

The rollouter is one asyncio event loop. Each action is what a coroutine does between two
awaits; `Executing` and `LoopIsFreeFor` keep a coroutine that has not yet awaited from
being interrupted. `lock` is the coroutine that has the `asyncio.Lock` and then the ones
that wait for it, in order. `asyncio.wait` is called with the lock held, so `WaitForTasks`
and `Drain` keep it. `condition.wait` gives it back and takes it again after `Notified`.
`processor` and `trainer` name the await at which `_processor_worker` and `fit` are. The
message queue is a Ray actor and each of its calls is one step. A generation ends with its
sample on the queue, is cancelled, or raises. `Restart` is a job that died anywhere, or
failed, and is started over from its latest checkpoint, whose parts are saved one after
the other while the rollouter continues; a checkpoint counts once it is complete.
`SaveCheckpoint` follows `_fit_save_checkpoint`: with a positive `SaveFreq` a new version
is saved when its number is due and at the end of `fit`, and may be at any other (the
training plan expires); with `SaveFreq = 0`, which stands for every value that is not
positive, nothing is ever saved, at the end neither (`fully_async_trainer.py:675`). The
shipped default is -1 (`verl/trainer/config/ppo_trainer.yaml:151`).

`_async_monitor_loop` has no action of its own: the invariant `MonitorNeverResumes` says
that the condition under which it would act never holds.

### `ArexExperiment` and `BenchmarkRun`

`main` is the position in the program's `main`, and every file operation is an action, so
`Killed` and `Kill` can come between any two. AREX files are replaced atomically and are
the record of one attempt; `run_benchmark.py` writes in place, so a file is first
truncated. A store passes through its two separate metadata commits.

## 3. Runs

Bounds of the episode runs: `MaxActions` is the length of the ledger, `MaxSearches` and
`MaxRejections` the legal searches and rejected calls within it; the documents, answers,
findings and descriptions are the listed model values. A full cycle of search, open,
update, verify, submit takes five calls.

| Run | Instance | Shows |
|---|---|---|
| `protocol` | 1 page, 2 answers, 2 findings, 2 descriptions, up to 2 gaps a verdict, 8 calls | types; the audit reports nothing in any reachable store but a version written after the submit; findings come from fresh reads and have a writer; the submitted answer was verified; gap ids are stable and the ledger tells when each gap is created and resolved; the answer chain ends in the latest matching update, surviving repairs are credited, nothing after the submit is |
| `pages` | 3 documents (1 empty), 2 searches, 1 rejection, 6 calls | unindexed Evidence can be reopened after the view was lost; before and after versions explain the state history; the evidence chain credits the retrieval that was used and nothing else, and settles at the submit; the environment implements `Episode` |
| `turns` | 1 page, 5 turns of up to 3 requested calls, 2 executed, 5 calls logged, 1 rejection | each call gets its own reply, a turn sees one version, a submit ends the run, and the run ends |
| `echo` | five methods, 2 compression rounds, with and without a turn limit; lengths of a few tokens; a reply is text, a call, a stop, a padded submit after text, or a submit and a call | a rolled back turn is not trained on and every other one is once; trained tokens keep their prefix; the masks can be built unless the rollout is overlong; a submit under the bare name is in the final segment; a rollout is bounded without a turn limit |
| `async` | 5 samples, 2 tasks, a push every 2 steps, `SaveFreq` 2, 1 cancelled and 1 failed generation, 1 restart | types; no partial samples; outstanding samples and staleness are bounded; a sample is in one place; checkpoints cover what was trained; a finished run has trained every sample and, as `SaveFreq` is positive, lost less than a period of it; the job ends |
| `arex` | 2 questions, 1 turn, 3 invocations with any options, 1 evaluation | types; the files of a question are of one attempt; a completed question stays; the latest run stays; an invocation that retries leaves no gaps |

Why these bounds are enough to be interesting. Eight calls fit a judged and submitted
episode followed by three more calls, or a rejected verdict, a repair and a second
verdict before the submit. In `pages` six calls fit a submit with a second page opened at
any point. Two descriptions and two gaps per verdict are the least with which ids can
collide: one gap resolved, one kept, one new. Two workers are the least that can commit
in the other order. In `echo` a segment fits two or three turns, so a rollback can leave
it empty or not, a tool response of one token fits and one of four overflows, and a
rebuilt prompt both fits `PromptLength` and exceeds it. In `async` two steps a push
and one excess sample make the pause for staleness, the full queue and the drain happen
each, with a sample in the processor's hand; five samples leave a partial period at the
end, and a `SaveFreq` of 2 makes some versions due and some not. In `arex` three invocations are the least with which a retry is killed and retried.
Symmetry is used in `protocol` and `pages` for sets whose members are only compared; the
two properties of `pages` over steps are `[][A]_v` formulas and safety refinement,
invariant under the same permutations. It is not used in runs with a liveness property.

Deadlock is checked for the episode, which never stops: the view can be forgotten at any
time. It is off in the others, where `run()` returns, a rollout or a job is over, or the
invocations are used up; `RunEnds` and `JobEnds` say that they stop only there.

**Fairness.** `RunSpec` assumes weak fairness of the turn loop's steps together: the
policy, retriever and Verifier clients have timeouts and raise when they expire, and a
worker holds the lock for one call. `AsyncSpec` assumes weak fairness of the feeder, of
the generations, of the processor, of the trainer and of the end of the job, each by
itself: asyncio runs every coroutine that is ready, its lock is first come, first served
(`lock` is a sequence), and a generation finishes because its response length is bounded.
Nothing is assumed about which call a policy makes, so no liveness is claimed for the
episode itself: a policy may search for ever. In `turns` a call that finds the ledger full
can only raise, so behaviours are complete up to five logged calls and cut there.
`RolloutIsBounded` says that a rollout ends as a bound on its generations.

`JobEnds` is checked with no more cancellations than `ExcessSamples` (1 and 1). With more it does
not hold: a cancelled sample keeps its count in `staleness_samples`
(`fully_async_rollouter.py:475-489`) and the count is only set right at the next weight
push, which the missing samples prevent. The repository states no bound on cancellations,
so this is a hazard with a note and not a finding. Two more facts the model shows and no
document contradicts: a job that is restarted after it trained everything trains one more
batch, as the feeder always draws one sample past its last step; and the last partial
synchronisation period of a run is in no checkpoint. That is under a positive `save_freq`,
which `FinishedRunsTrainEverySample` therefore assumes in its second part: with the
shipped default of -1 a run has no checkpoint at all. Between two pushes one sample
more than `fully_async_policy/README.md:136` computes can be generated, the one in the
processor's hand when staleness is reset; `OutstandingIsBounded` states the bound with it.

### Claims of the repository that the code does not keep

| Run | Claim | What happens |
|---|---|---|
| `after_submit` | `src/esr_grpo/diagnostics.py:124`: a submitted episode ends in a supported state with no gaps | an update after the submit is accepted, and the audit reports the episode |
| `rerun` | `README.md:287`, `docs/实验执行手册.md:362`: after an interruption the same command continues | a question whose SQLite file exists is skipped even if it never got a result |
| `stale_verdict` | `exper/arex_bcplus_native/evaluate.py:2`: it evaluates the runs | verdicts are cached by question, so after a retry the verdict on the earlier response is reported beside the new run |
| `lost_prefix` | `tool_agent_loop.py:592`: the context beyond `prompt_length` is kept as a masked response prefix | only the summary method does so; a truncated context is cut on the left (`run_esr_4gpu.sh`: 4096 of 8192 tokens remain) |
| `dropped_block` | `scripts/common/install_echo_hooks.py:61`: one exact token range per tool call | a block that is not JSON shifts the ranges of the calls after it |
| `lost_selection` | `tool_agent_loop.py:1989`: compression output is stored with its exact sampling prefix | after a rollback that left the segment empty it is appended to the segment before, or dropped |

Under `AgentRunner` the first cannot happen: `SubmitEndsTheRun` shows it. It concerns the
environment called freely, as the ECHO adapters do within one turn. The AREX
README says at line 56 that only a completed question is skipped, and in the next sentence
that failed ones need `--retry-failed`; the code treats an interrupted question like a
failed one, so `RetriesLeaveNoGaps` is stated for the invocations that retry.

One more divergence is in the model and has no run of its own, because the properties
about the submit are stated so that they hold beside it. `docs/echo_integration.md:31`
says that the loop recognises `submit_answer` as a terminating action, and line 42 that
the final submit lies in the last segment. A padded name submits and does not end the
rollout (`IsFinish`), so its segment need not be the last one, and if the rollout then
ends overlong the segment was never saved and `build_token_masks` raises. That is why
`SubmitIsInTheFinalSegment` speaks of submits under the bare name, and
`MasksCanBeBuilt` of rollouts that are not overlong, whatever name they submitted under.

## 4. Proofs

For every corpus, every set of answers, findings and descriptions, and every bound,
from the three assumptions in `ESREnvironment` (empty and blank documents are documents;
the empty answer is not an answer; bounds are natural numbers):

| Theorem | Statement | Argument |
|---|---|---|
| `TypeCorrect` | `Spec => []TypeOK` | inductive as it stands. The types of rows mention the ids of the other tables, so `RowsGrow` shows that they only widen when a table grows; `MaxIsMember` (by well-foundedness of the naturals) and `GapsAreFinite` give the two facts about gap ids, a `Max` that exists and a count that is a number |
| `FindingsAreFresh` | `Spec => []FindingsComeFromFreshReads` | an update takes `finding_inputs` from the visible map, so the invariant is strengthened by the freshness of the pages in view (`PagesInViewAreFresh`, from `FreshReads`) |
| `VersionsAreExplained` | `Spec => []LedgerExplainsVersions` | inductive with the types; a new writer adds one to the cardinality of a finite set |
| `SubmitsAreVerified` | `Spec => []SubmittedAnswerWasVerified` | `Judged` adds two facts: a verdict is only ever on a state that a legal verify wrote over an unverified state of the same content (`VerdictsJudgeUpdates`), and Evidence belongs to an action of the ledger (`EvidenceIsOlder`), which is why a page that arrives later is recognisably later |
| `FindingsHaveWriters` | `Spec => []EveryFindingHasAWriter` | inductive with `Versioned`: a new version either keeps a finding, whose writer's stretch of versions grows by it, or has it from the update that is being logged |
| `UnindexedPagesReopen` | `Spec => []UnindexedEvidenceCanBeReopened` | `PagesCanBeReopened` says it of every archived page, indexed or not: only an open after a legal search archives one, and searches stay in the ledger |
| `GapIdsStayStable`, `LedgerTellsGaps` | `Spec => []GapIdsAreStable`, `... []LedgerExplainsGaps` | the next id is a count plus one, so the strengthening is `GapsAreNumbered`: the ids in use are numbers up to their count, and a new one is above all of them. `LedgerNamesGaps` adds that the ledger creates and resolves only such ids; a verdict's gaps are then each kept, with its id and text, or fresh |
| `CreditedAnswerIsLatest`, `EvidenceIsCreditedToItsSearch`, `RepairsAreCredited` | `Spec => []AnswerChainIsTheLatest`, `... []EvidenceChainIsComplete`, `... []SurvivingRepairsAreCredited` | `Routed` says what the router can rely on: the current version is of the last writer and has the content of the last update (`CurrentIsLatest`), each of its findings and supports came in with some update (`FindingsCameIn`, `SupportCameIn`) whose row tells it (`UpdatesTellChanges`), Evidence has an opening and a search (`EvidenceHasOrigin`), and the gaps open at an action are those the verify before it left, each resolved later (`ActiveGapsWereLeft`, `LeftGapsAreResolved`). So no search of the router comes back empty, and the maxima it takes are the last ones |
| `OnlyUsedRetrievalIsCredited`, `NoCreditAfterSubmit` | `Spec => []UnusedRetrievalIsNotCredited`, `... []CreditStopsAtSubmit` | `WhatIsSelected` gives the five reasons an action is selected for; each is a writer, has Evidence of the final support, or lies before a verify. An action that saw the current version comes after every writer (`WritersPrecede`) |
| `CreditStaysSettled` | `Spec => CreditIsSettled` | a call that writes no TaskState adds only rows later than every verify (`LongerLedger`), where no chain looks |
| `EveryEpisodePassesAudit` | `Spec => []LedgerPassesAudit` | says which errors remain: EMPTY_EVIDENCE, only of pages of white space, and SUBMIT_STATE and SUBMIT_ANSWER_MISMATCH, only when a version was written after the submit (`after_submit` shows that they do occur); all other codes never. `VersionsPass` says it version by version of the action that wrote it (`AuditedAs`), and that stays: a page that arrives later is later than the writer |
| `EnvironmentImplementsEpisode` | `Spec => ImplementsEpisode` | the initial store maps to the initial episode, and each handler to one abstract step or a stutter; a verdict needs the numbered gaps, a submit that an answer is recorded only with it (`AnswerComesWithSubmit`) |

`LogGrows`, `AppendGrows`, `VersionsStay` and `ArchiveStays` carry the proofs: a call
appends one row and leaves every earlier row as it was. The `...Logs` lemmas say once
what each handler logs.

For the turn loop, with any number of workers, turns and requested calls:

| Theorem | Statement | Argument |
|---|---|---|
| `EveryRunIsAnEpisode` | `RunSpec => Spec` | a step of the loop is a handler or leaves the store alone, so what is proved of `Spec` holds under the runner |
| `RunsEndWithTheSubmit` | `RunSpec => []SubmitEndsTheRun` | a submit can only come from a call that runs alone, and the loop leaves when it was accepted |
| `RepliesAccount`, `TurnsAreConsistent` | `RunSpec => []RepliesAccountForLedger`, `... []TurnsSeeOneVersion` | `Accounted` follows each call from its start over its row to its message; workers of one turn only run calls that write no state |

For any number of questions, turns, invocations and evaluations (`ArexAssumption`: they
are natural numbers):

| Theorem | Statement | Argument |
|---|---|---|
| `ArexTypeCorrect`, `FilesAgree` | `ArexSpec => []ArexTypeOK`, `... []FilesAreOfOneAttempt` | `Inv` adds `Position`, what the files of the current question look like at each place of `main`, and `BackupIsOlder`: a backup is of an earlier attempt than the run it stands for |
| `CompletedStays` | `ArexSpec => CompletedIsKept` | only the two `Clear` steps take a completed question away, and `Position` says they run with `--overwrite` or on a question that was not completed |
| `LatestRunStays` | `ArexSpec => LatestRunIsKept` | a run is set aside over an older backup, and a new run has the newest attempt |
| `SummaryIsComplete` | `ArexSpec => []RetriesLeaveNoGaps` | `Progress`: the three counts add up to the questions passed, each of which is settled |

For every value of the limits of `FullyAsync` (`AsyncAssumption`: steps, sizes and
concurrency are positive):

| Theorem | Statement | Argument |
|---|---|---|
| `AsyncTypeCorrect` | `AsyncSpec => []AsyncTypeOK` | with the places of the coroutines, so that a task is only created below the limit |
| `NoGenerationSeesAPush` | `AsyncSpec => []NoPartialSamples` | `Pushed` says that `paused` holds from the trainer's pause to its reset, whatever the processor does (`PauseHolds`), and that the drained set stays empty until then (`DrainHolds`) |
| `CheckpointsCoverTraining` | `AsyncSpec => []CheckpointCoversTraining` | every sample that is queued, in the batch or trained on was drawn, and the data position only grows |
| `MonitorIsIdle` | `AsyncSpec => []MonitorNeverResumes` | `Scheduled`: `Locked` says who has the lock where, `Serial` that the processor decides to pause outside a synchronisation and has the lock before the next one counts, `Staleness` that the count is at least the queue when it decides. So the limit is reached at the decision and until `reset_staleness`, which finds the flag reset |
| `OutstandingStaysBounded` | `AsyncSpec => []OutstandingIsBounded` | the same invariant: what is queued, generating and in hand is at most one more than `staleness_samples`, because `reset_staleness` forgets only the sample in hand |
| `SamplesHaveOnePlace` | `AsyncSpec => []EachSampleIsInOnePlace` | `Placed` adds the samples that are fed and not taken to the places, which are then pairwise `Apart`; it is inductive because a sample is fed once (`FedOnce`), is generated by one task (`GeneratedOnce`) and the end signal, the only message that is not a sample, is put once (`NoEndYet`). A restart is covered by `checkpoint.trained` lying below the data position |
| `FinishedRunsAreTrained` | `AsyncSpec => []FinishedRunsTrainEverySample` | `Closed` says how a run comes to its end: the end signal is fed last (`EndIsLast`), the processor reaches its end only with no data and no task left, or because it raised (`DataIsOver`), so the signal is last on the queue too (`EndIsQueuedLast`) and the trainer stops behind everything else (`Stopped`). `Accounted` then counts the samples that were drawn and are in none of the places (`Missing`): `WhatAStepLoses` shows that a step loses none, or one that it counts as dropped or cancelled, or the unfinished batch of the end. `Unsaved` bounds what was trained since the checkpoint by the steps of the period, when `SaveFreq` is positive |
| `SamplesAreFresh` | `AsyncSpec => []StalenessIsBounded` | `Ahead`: the samples the trainer took, one period to each version, and those in line behind them (queued, generating, in hand) stay within the version the count started from (`Base`, one less during a push) plus `max_required_samples`, plus the one sample in hand that `reset_staleness` forgets, which there can only be when `ExcessSamples` is not zero (`Forgotten`). Every version's period takes its samples, so a sample at rank r of the queue is taken r samples from now: `InTime` says that this is before its deadline, the end of its version plus `LagBound` periods. `LagCovers` is the arithmetic that makes the limit of the line fit the deadline. A full queue that drops its head, the end signal among the samples of a processor that raised, and a restart only make the line shorter |

For every rollout of `EchoRollout`, with any lengths, budgets, turn and round limits, for
each of the five compression methods (`EchoAssumption`: lengths are positive, limits natural
numbers):

| Theorem | Statement | Argument |
|---|---|---|
| `EchoTypesHold` | `EchoSpec => []EchoTypeOK` | `Typed` adds the shapes of generations, segments, calls and pending turn, and what the loop relies on between two states (`Asking`) |
| `RolloutEnds` | `EchoSpec => []RolloutIsBounded` | `Bounded`: a turn that goes on adds at least two tokens to the current segment, the policy's and the observation's, so a segment has at most half the response budget of them before it is cut off or compressed, and each compression uses up a round |
| `SubmitEndsTheRollout` | `EchoSpec => []SubmitIsInTheFinalSegment` | `Submissions`: until a turn with a submit under the bare name ends the rollout the ledger has none of that name, the calls of a turn are filed under the segment that is open, and nothing after the submit saves a segment; only `Output` makes one final |
| `MasksAreBuilt` | `EchoSpec => []MasksCanBeBuilt` | for `truncate` and `summary`, a rollout that is not overlong, and calls under any name. `Spanned`: for the methods without selection each legal call of the ledger points at a policy token of its turn in a saved segment or the current response, unless the rollout is overlong, and saving, truncating and rolling back keep the tokens it points at |
| `TurnsAreTrainedOnce` | `EchoSpec => []EachTurnIsTrainedOnce` | `TrainedOnce`: the trained tokens of the saved segments and of a response that is still to be saved are pairwise different, belong to no rolled back turn and, unless the rollout is overlong, to every other turn; the last turn's tokens are the end of the response and nowhere else (`LastTurnIsLast`), so a rollback takes exactly them out. `HasASegment` gives echo_e2e the segment it appends its selection to |
| `TrainedTokensKeepTheirPrefix` | `PromptsFit`, `EchoSpec => []SegmentsKeepTheirPrefix` | `Prefixed`: each trained token of a saved segment or of the current response follows, prompt included, what its generation was sampled from (`SegmentsKept`, `AllKept`), and the next generation is sampled after exactly the current prompt and response (`SampledAfter`). The hypothesis `PromptsFit` is that the first prompt and the budgets of a truncation and of a rebuilt prompt are within `prompt_length`: the `lost_prefix` run, whose truncation budget is not, shows a prompt whose beginning the trainer's cut removes; the passing run's instance satisfies it |

So every invariant and action property that a passing run checks is also proved, and so is
the refinement. Out of the prover's reach, and
left to TLC: liveness under fairness (`RunEnds`, `JobEnds`) and `ENABLED`; induction over
data, so what a recursively defined operator computes for every input; and anything about
`RECURSIVE` operators, which no module here declares.

## 5. Not modelled, and the plan

* The rest of the vendored `ECHO/` (some hundred thousand lines): losses and advantages
  over tensors, model sharding, kernels, distributed workers, dataset readers. They are
  numerical or sequential, their inputs are tensors, and a model checker has nothing to
  interleave in them. They are most of the repository, so the share of all its lines that
  the map covers is small although the project's own core is covered.
* The advantage arithmetic of `credit.py` and `compute_esr_segmented_advantage`: means and
  standard deviations of real numbers. What it asks of the spans is in `EchoRollout`.
* Prompts, HTTP clients, the judge's parsing, statistics, downloads and preflight checks:
  sequential I/O.
* Validation, metrics and batch assembly of the asynchronous trainer.

Next: the turn-selection methods of `EchoRollout` under their own prefix property, and the
safety half of `JobEnds`, that in every running state some guard holds, as a theorem.
