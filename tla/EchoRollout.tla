----------------------------- MODULE EchoRollout -----------------------------
(***************************************************************************)
(* One rollout of ECHO's ToolAgentLoop with the ESR tools                   *)
(* (src/ECHO/verl/experimental/agent_loop/tool_agent_loop.py and the hooks  *)
(* that src/scripts/common/install_echo_hooks.py installs): generations,    *)
(* tool calls, the compression of a context that outgrows its budget, the   *)
(* trajectory segments that are trained on, and the token positions under   *)
(* which the ledger files each call.                                        *)
(*                                                                          *)
(* Tokens are identities, not text.  A <tool_call> block and a stretch of   *)
(* text are one token each.  A rollout is one coroutine: what happens       *)
(* between two of its states is one action.                                 *)
(***************************************************************************)
EXTENDS Naturals, FiniteSets, SequencesExt

CONSTANTS
  Methods,            \* context_compression_method a rollout may be configured with
  InitialLength,      \* tokens of the first prompt
  PromptLength,       \* prompt_length
  ResponseLength,     \* response_length
  WorkingContext,     \* working_context_length
  TruncateBudget,     \* working_context_length * truncate_keep_ratio
  SelectionBudget,    \* working_context_length * 0.8
  RebuiltLengths,     \* tokens of a prompt rebuilt from a summary or a selection
  ToolLengths,        \* tokens of a tool response
  Replies,            \* what the policy generates
  MaxSummaryRounds,   \* max_summary_rounds
  MaxParallelCalls,   \* max_parallel_calls
  TurnLimits          \* max_assistant_turns a rollout may be configured with, 0 for none

\* A stretch of text, a call of another tool, of submit_answer, of
\* submit_answer under a name with blanks around it, of a finish tool that ESR
\* does not have (finish, stop, submit), a block that is not JSON.
BlockKinds == {"text", "call", "submit", "padded", "stop", "broken"}

CallKinds  == {"call", "submit", "padded", "stop"}

ASSUME EchoAssumption ==
  /\ Methods \subseteq {"truncate", "summary", "echo_e2e", "semantic_selection", "full_observation"}
  /\ {InitialLength, PromptLength, ResponseLength, WorkingContext, TruncateBudget, SelectionBudget,
      MaxParallelCalls} \cup RebuiltLengths \cup ToolLengths \subseteq Nat \ {0}
  /\ {MaxSummaryRounds} \cup TurnLimits \subseteq Nat
  /\ \A r \in Replies : r \in Seq(BlockKinds) /\ r # <<>>

VARIABLES
  method,
  max_assistant_turns,
  state,                    \* AgentState; "over" when the outputs are built
  prompt_ids,               \* what the next generation is sampled from
  response_length,          \* tokens of the latest generation
  assistant_turns,
  tool_calls,               \* the calls the parser found, with the span the hook gives each
  current_traj_prompt_ids,  \* prompt of the current segment
  accumulated,              \* response of the current segment: tokens, and whether they are trained on
  sum_instruction_ids,
  is_summarizing,
  summary_count,
  overlong,
  trajectory_outputs,
  turn_history,             \* its length
  pending_turn,             \* whether a turn waits for its finding
  ledger,                   \* the legal actions of the episode
  generations               \* history: prompt and fate of every generation

context  == <<prompt_ids, current_traj_prompt_ids, accumulated, sum_instruction_ids, is_summarizing, summary_count>>
config   == <<method, max_assistant_turns>>
turns    == <<turn_history, pending_turn>>
echoVars == <<config, state, response_length, assistant_turns, tool_calls, overlong, trajectory_outputs,
              context, turns, ledger, generations>>

SelectsTurns  == method \in {"echo_e2e", "semantic_selection", "full_observation"}
SumsLastTurn  == method \in {"echo_e2e", "semantic_selection"}

-----------------------------------------------------------------------------
(* Tokens and segments                                                      *)

Tokens(n, role, len) == [i \in 1..len |-> [of |-> n, role |-> role, at |-> i]]

Generation == Len(generations) + 1

Trained(ids)   == [i \in DOMAIN ids |-> [id |-> ids[i], mask |-> 1]]
Untrained(ids) == [i \in DOMAIN ids |-> [id |-> ids[i], mask |-> 0]]
Ids(response)  == [i \in DOMAIN response |-> response[i].id]

First(s, n) == SubSeq(s, 1, IF n < Len(s) THEN n ELSE Len(s))
Rest(s, n)  == SubSeq(s, n + 1, Len(s))
LastOnes(s, n) == SubSeq(s, IF n < Len(s) THEN Len(s) - n + 1 ELSE 1, Len(s))

Segment(prompt, response, final) == [prompt |-> prompt, response |-> response, final |-> final]

\* _save_current_trajectory_without_current_turn: no empty segment
Saved(response) ==
  IF response = <<>> THEN trajectory_outputs
  ELSE Append(trajectory_outputs, Segment(current_traj_prompt_ids, response, FALSE))

\* defective: the overflow turn stays in the segment although it was rolled back
KeptTurn(response, len) == response

WithoutTurn(response, len) == SubSeq(response, 1, Len(response) - len)

-----------------------------------------------------------------------------
(* Compression                                                              *)

\* defective: only a compression that the policy wrote is counted
CountedRound == IF is_summarizing THEN summary_count + 1 ELSE summary_count

NextRound == summary_count + 1

\* a new segment begins with this prompt
NewContext(prompt, first, prefix) ==
  /\ prompt_ids' = prompt
  /\ current_traj_prompt_ids' = first
  /\ accumulated' = Untrained(prefix)
  /\ is_summarizing' = FALSE
  /\ summary_count' = NextRound
  /\ state' = "generating"
  /\ UNCHANGED <<sum_instruction_ids, overlong>>

\* _trigger_truncation
Truncate(ids) ==
  LET kept == LastOnes(ids, TruncateBudget) IN NewContext(kept, kept, <<>>)

\* _trigger_summary, _trigger_echo_selection: an auxiliary generation follows
AskForCompression(response) ==
  LET instruction == Tokens(Len(generations'), "instruction", 1) IN
  /\ sum_instruction_ids' = instruction
  /\ prompt_ids' = current_traj_prompt_ids \o Ids(response) \o instruction
  /\ accumulated' = response
  /\ is_summarizing' = TRUE
  /\ state' = "generating"
  /\ UNCHANGED <<current_traj_prompt_ids, summary_count, overlong>>

Terminate(response, tooLong) ==
  /\ accumulated' = response
  /\ overlong' = tooLong
  /\ state' = "terminated"
  /\ UNCHANGED <<prompt_ids, current_traj_prompt_ids, sum_instruction_ids, is_summarizing, summary_count>>

\* _trigger_semantic_selection: the recent turns are always kept
SelectSemantically(response) ==
  \E len \in RebuiltLengths :
    LET prompt == Tokens(Len(generations'), "rebuilt", len) IN
    IF len > SelectionBudget
    THEN Terminate(response, TRUE)
    ELSE NewContext(prompt, prompt, <<>>)

-----------------------------------------------------------------------------
(* GENERATING                                                               *)

\* defective: the offset forgets that the response is already accumulated
OffsetAfter(response, len) == Len(response)

SpanOffset(response, len) == Len(response) - len

\* the elements of a finite set of numbers, in increasing order
InOrder(S) == CHOOSE s \in [1..Cardinality(S) -> S] : \A i, j \in DOMAIN s : i < j => s[i] < s[j]

Positions(reply, kinds) == InOrder({p \in DOMAIN reply : reply[p] \in kinds})

\* HermesToolParser drops a block that is not JSON; the hook lists the spans of
\* all blocks and gives the i-th to the i-th parsed call
CallsOf(reply, response) ==
  LET parsed == Positions(reply, CallKinds)
      blocks == Positions(reply, CallKinds \cup {"broken"})
  IN [i \in DOMAIN parsed |->
        [kind    |-> reply[parsed[i]],
         block   |-> parsed[i],
         segment |-> Len(trajectory_outputs) + 1,
         at      |-> SpanOffset(response, Len(reply)) + blocks[i]]]

Generated(reply) ==
  /\ state = "generating" /\ ~is_summarizing
  /\ assistant_turns' = assistant_turns + 1
  /\ response_length' = Len(reply)
  /\ UNCHANGED <<config, ledger>>

Sampled(fate) == generations' = Append(generations, [prompt |-> prompt_ids, fate |-> fate])

Response(reply) == Tokens(Generation, "policy", Len(reply))
Extended(reply) == accumulated \o Trained(Response(reply))

\* defective: the budget may be reached
BeyondBudget(n) == n > ResponseLength

OverBudget(n) == n >= ResponseLength

AtTurnLimit(n) == max_assistant_turns > 0 /\ n >= max_assistant_turns

\* the calls of the last turn are not looked at
LastTurn ==
  \E reply \in Replies :
    /\ Generated(reply)
    /\ Sampled("turn")
    /\ AtTurnLimit(assistant_turns')
    /\ Terminate(Extended(reply), overlong)
    /\ UNCHANGED <<tool_calls, trajectory_outputs, turns>>

HasCalls(reply) == CallsOf(reply, Extended(reply)) # <<>>

MayCompress == summary_count < MaxSummaryRounds

\* a generation that was cut off before a complete call is rolled back
CutOff ==
  \E reply \in Replies :
    /\ Generated(reply)
    /\ ~AtTurnLimit(assistant_turns')
    /\ ~HasCalls(reply)
    /\ tool_calls' = <<>>
    /\ Sampled("rolled back")
    /\ IF ~MayCompress
       THEN /\ Terminate(Extended(reply), TRUE)
            /\ UNCHANGED <<trajectory_outputs, turns>>
       ELSE LET before == WithoutTurn(Extended(reply), Len(reply)) IN
            /\ trajectory_outputs' = Saved(before)
            /\ \/ /\ method = "truncate"
                  /\ Truncate(current_traj_prompt_ids \o Ids(before))
                  /\ UNCHANGED turns
               \/ /\ method = "summary"
                  /\ AskForCompression(before)
                  /\ UNCHANGED turns
               \/ /\ method = "echo_e2e"
                  /\ \/ UNCHANGED turns
                     \/ /\ pending_turn
                        /\ turn_history' = turn_history + 1
                        /\ pending_turn' = FALSE
                  /\ IF turn_history' = 0 THEN Terminate(before, TRUE) ELSE AskForCompression(before)
               \/ /\ method \in {"semantic_selection", "full_observation"}
                  /\ pending_turn' = FALSE
                  /\ UNCHANGED turn_history
                  /\ IF turn_history = 0 THEN Terminate(before, TRUE) ELSE SelectSemantically(before)

\* the generation is complete
Turn ==
  \E reply \in Replies :
    LET response == Extended(reply) IN
    /\ Generated(reply)
    /\ Sampled("turn")
    /\ ~AtTurnLimit(assistant_turns')
    /\ tool_calls' = CallsOf(reply, response)
    /\ accumulated' = response
    /\ prompt_ids' = prompt_ids \o Response(reply)
    /\ state' = IF OverBudget(Len(response)) \/ ~HasCalls(reply) THEN "terminated" ELSE "processing_tools"
    /\ UNCHANGED <<overlong, trajectory_outputs, turns, current_traj_prompt_ids, sum_instruction_ids,
                   is_summarizing, summary_count>>

-----------------------------------------------------------------------------
(* The auxiliary generation of a summary or a selection                     *)

\* _append_summary_to_current_trajectory: a summary is a segment of its own, a
\* selection is appended to the last segment
WithSummary(ids) ==
  LET full == current_traj_prompt_ids \o Ids(accumulated) \o sum_instruction_ids IN
  Append(trajectory_outputs,
         Segment(First(full, PromptLength), Untrained(Rest(full, PromptLength)) \o Trained(ids), FALSE))

WithSelection(ids) ==
  IF trajectory_outputs = <<>> THEN trajectory_outputs
  ELSE [trajectory_outputs EXCEPT ![Len(trajectory_outputs)].response =
          @ \o Untrained(sum_instruction_ids) \o Trained(ids)]

AuxiliaryGeneration ==
  /\ state = "generating" /\ is_summarizing
  /\ Sampled("auxiliary")
  /\ response_length' = 1
  /\ UNCHANGED <<config, assistant_turns, tool_calls, ledger>>

\* defective: the summary's context is left to the prompt field
WholePrompt(prompt) == prompt

\* prompt_length bounds the prompt field, the rest is an untrained prefix
PromptField(prompt) == First(prompt, PromptLength)

Summarize ==
  /\ method = "summary"
  /\ AuxiliaryGeneration
  /\ trajectory_outputs' = WithSummary(Tokens(Generation, "policy", 1))
  /\ UNCHANGED turns
  /\ \/ /\ overlong' = TRUE       \* the summary is too short
        /\ is_summarizing' = FALSE
        /\ state' = "terminated"
        /\ UNCHANGED <<prompt_ids, current_traj_prompt_ids, accumulated, sum_instruction_ids, summary_count>>
     \/ \E len \in RebuiltLengths :
          LET prompt == Tokens(Generation, "rebuilt", len) IN
          NewContext(prompt, PromptField(prompt), Rest(prompt, Len(PromptField(prompt))))

SelectTurns ==
  /\ method = "echo_e2e"
  /\ AuxiliaryGeneration
  /\ trajectory_outputs' = WithSelection(Tokens(Generation, "policy", 1))
  /\ \E len \in RebuiltLengths, found \in BOOLEAN :
       LET prompt == Tokens(Generation, "rebuilt", len) IN
       IF len > SelectionBudget
       THEN /\ overlong' = TRUE
            /\ is_summarizing' = FALSE
            /\ state' = "terminated"
            /\ UNCHANGED <<prompt_ids, current_traj_prompt_ids, accumulated, sum_instruction_ids,
                           summary_count, turns>>
       ELSE /\ NewContext(prompt, prompt, <<>>)
            /\ turn_history' = IF found /\ pending_turn THEN turn_history + 1 ELSE turn_history
            /\ pending_turn' = FALSE

-----------------------------------------------------------------------------
(* PROCESSING_TOOLS                                                         *)

\* _call_tool strips a name before it looks the tool up
Submits(calls) == {i \in DOMAIN calls : calls[i].kind \in {"submit", "padded"}}

\* there is no tool of these names
Unknown(calls) == {i \in DOMAIN calls : calls[i].kind = "stop"}

AlreadySubmitted == Submits(ledger) # {}

\* the calls run one after the other, as the tools never wait; which of them
\* are legal is the environment's affair, but only one submit is
LegalCalls(calls) ==
  {S \in SUBSET (DOMAIN calls \ Unknown(calls)) : Cardinality(S \cap Submits(calls)) <= IF AlreadySubmitted THEN 0 ELSE 1}

Entries(calls, legal) ==
  [i \in 1..Cardinality(legal) |->
     LET c == calls[InOrder(legal)[i]] IN
     [kind |-> c.kind, block |-> c.block, segment |-> c.segment, at |-> c.at, generation |-> Len(generations)]]

\* the turn before this one has its finding by now
History == IF SumsLastTurn /\ pending_turn THEN turn_history + 1 ELSE turn_history

\* defective: a submit does not end the rollout
KeepsGoing(calls) == FALSE

\* asked of the names as they are written, whatever became of the calls
IsFinish(calls) == \E i \in DOMAIN calls : calls[i].kind \in {"submit", "stop"}

Calls == First(tool_calls, MaxParallelCalls)

Executed ==
  /\ state = "processing_tools"
  /\ \E legal \in LegalCalls(Calls) : ledger' = ledger \o Entries(Calls, legal)
  /\ UNCHANGED <<config, response_length, assistant_turns, tool_calls>>

Overflows(tool) ==
  /\ Len(current_traj_prompt_ids) + Len(accumulated) + Len(tool) >= WorkingContext
  /\ ~IsFinish(Calls)

RollBack == generations' = [generations EXCEPT ![Len(generations)].fate = "rolled back"]

\* the turn selection methods roll the turn back before they save
OverflowSelecting ==
  LET before == WithoutTurn(accumulated, response_length) IN
  IF (method = "echo_e2e" /\ summary_count > 0 /\ History <= 1) \/ (method # "echo_e2e" /\ History = 0)
  THEN /\ trajectory_outputs' = Saved(accumulated)
       /\ Terminate(accumulated, TRUE)
       /\ turn_history' = History /\ pending_turn' = SumsLastTurn
       /\ UNCHANGED generations
  ELSE /\ trajectory_outputs' = Saved(before)
       /\ turn_history' = History /\ pending_turn' = FALSE
       /\ RollBack
       /\ IF method # "echo_e2e" THEN SelectSemantically(before)
          ELSE IF History = 0 THEN Terminate(before, TRUE)
          ELSE AskForCompression(before)

\* the others save it with its tool response; a summary then forgets it
OverflowSaving(tool) ==
  /\ trajectory_outputs' = Saved(accumulated \o Untrained(tool))
  /\ turn_history' = History /\ pending_turn' = SumsLastTurn
  /\ UNCHANGED generations
  /\ \/ ~MayCompress /\ Terminate(accumulated, TRUE)
     \/ MayCompress /\ method = "truncate" /\ Truncate(prompt_ids \o tool)
     \/ MayCompress /\ method = "summary" /\ AskForCompression(WithoutTurn(accumulated, response_length))

Overflow ==
  \E len \in ToolLengths :
    LET tool == Tokens(Len(generations), "tool", len) IN
    /\ Executed
    /\ Overflows(tool)
    /\ IF SelectsTurns /\ MayCompress THEN OverflowSelecting ELSE OverflowSaving(tool)

\* the response budget ends the rollout, or the response is appended
Observe ==
  \E len \in ToolLengths :
    LET tool == Tokens(Len(generations), "tool", len) IN
    /\ Executed
    /\ ~Overflows(tool)
    /\ pending_turn' = SumsLastTurn
    /\ IF OverBudget(Len(accumulated) + len)
       THEN /\ Terminate(accumulated, overlong)
            /\ turn_history' = History
       ELSE /\ accumulated' = accumulated \o Untrained(tool)
            /\ prompt_ids' = prompt_ids \o tool
            /\ turn_history' = IF method = "full_observation" THEN turn_history + 1 ELSE History
            /\ state' = IF IsFinish(Calls) THEN "terminated" ELSE "generating"
            /\ UNCHANGED <<overlong, current_traj_prompt_ids, sum_instruction_ids, is_summarizing, summary_count>>
    /\ UNCHANGED <<trajectory_outputs, generations>>

-----------------------------------------------------------------------------
(* The end of run                                                           *)

Output ==
  /\ state = "terminated"
  /\ trajectory_outputs' =
       IF ~overlong /\ accumulated # <<>>
       THEN Append(trajectory_outputs, Segment(current_traj_prompt_ids, accumulated, TRUE))
       ELSE trajectory_outputs
  /\ state' = "over"
  /\ UNCHANGED <<config, response_length, assistant_turns, tool_calls, overlong, context, turns, ledger, generations>>

\* what the trainer receives: the end of the prompt, the beginning of the response
Truncated(segment) ==
  [prompt   |-> LastOnes(segment.prompt, PromptLength),
   response |-> First(segment.response, ResponseLength),
   final    |-> segment.final]

Outputs == [i \in DOMAIN trajectory_outputs |-> Truncated(trajectory_outputs[i])]

EchoInit ==
  /\ method \in Methods
  /\ max_assistant_turns \in TurnLimits
  /\ state = "generating"
  /\ prompt_ids = Tokens(0, "prompt", InitialLength)
  /\ current_traj_prompt_ids = prompt_ids
  /\ accumulated = <<>> /\ sum_instruction_ids = <<>> /\ is_summarizing = FALSE /\ summary_count = 0
  /\ response_length = 0 /\ assistant_turns = 0 /\ tool_calls = <<>>
  /\ overlong = FALSE /\ trajectory_outputs = <<>>
  /\ turn_history = 0 /\ pending_turn = FALSE
  /\ ledger = <<>> /\ generations = <<>>

EchoNext ==
  \/ LastTurn \/ CutOff \/ Turn
  \/ Summarize \/ SelectTurns
  \/ Overflow \/ Observe
  \/ Output

EchoSpec == EchoInit /\ [][EchoNext]_echoVars

-----------------------------------------------------------------------------
(* Properties                                                               *)

Over == state = "over"

\* The types of the loop's state; a call is only executed while the segment is
\* within its response budget.
EchoTypeOK ==
  /\ state \in {"generating", "processing_tools", "terminated", "over"}
  /\ summary_count \in 0..MaxSummaryRounds /\ assistant_turns \in Nat
  /\ {is_summarizing, overlong, pending_turn} \subseteq BOOLEAN
  /\ response_length <= Len(accumulated) \/ state # "processing_tools"
  /\ state = "processing_tools" => Len(accumulated) < ResponseLength

TrainedAt(segments) ==
  UNION {{<<i, p>> : p \in {p \in DOMAIN segments[i].response : segments[i].response[p].mask = 1}} :
           i \in DOMAIN segments}

PolicyTokens(n) == {id \in {trajectory_outputs[x[1]].response[x[2]].id : x \in TrainedAt(trajectory_outputs)} : id.of = n}

\* A rollout trains on no token twice and on no turn that was rolled back, and
\* one that is not overlong trains on every other turn (tool_agent_loop.py:884,
\* "the overflow turn is rolled back before saving, so its [...] tokens are not
\* trained", and :1951, "policy tokens from the turn should still remain
\* trainable").
EachTurnIsTrainedOnce ==
  Over =>
    /\ \A x, y \in TrainedAt(trajectory_outputs) :
         trajectory_outputs[x[1]].response[x[2]].id = trajectory_outputs[y[1]].response[y[2]].id => x = y
    /\ \A n \in DOMAIN generations :
         /\ generations[n].fate = "rolled back" => PolicyTokens(n) = {}
         /\ generations[n].fate # "rolled back" /\ ~overlong => PolicyTokens(n) # {}

\* The tokens before a trained one are those it was sampled after.
HasItsPrefix(i, p) ==
  LET s == Outputs[i]
      id == s.response[p].id
  IN  s.prompt \o Ids(First(s.response, p - 1)) =
        generations[id.of].prompt \o Tokens(id.of, "policy", id.at - 1)

Auxiliary(i, p) == generations[Outputs[i].response[p].id.of].fate = "auxiliary"

\* Every token a segment trains on has the prefix it was sampled after, through
\* truncations, rollbacks, summaries and rebuilt prompts
\* (tool_agent_loop.py:592, "Preserve any remaining summary context as a masked
\* response prefix for PPO reconstruction").  The selections of echo_e2e are
\* left to CompressionKeepsItsPrefix.
SegmentsKeepTheirPrefix ==
  Over => \A x \in TrainedAt(Outputs) :
            (method = "echo_e2e" /\ Auxiliary(x[1], x[2])) \/ HasItsPrefix(x[1], x[2])

\* The docstring of _append_summary_to_current_trajectory
\* (tool_agent_loop.py:1989): "Store trainable compression output with its exact
\* sampling prefix".
CompressionKeepsItsPrefix ==
  Over /\ ~overlong => \A x \in TrainedAt(Outputs) : Auxiliary(x[1], x[2]) => HasItsPrefix(x[1], x[2])

\* ESR trains with truncate.  When a rollout ends without being overlong, and
\* so whenever it submitted under the bare name, the span of every legal call
\* lies within a segment the trainer receives, on a policy token of the turn
\* that made the call: build_token_masks raises nothing and no credit is cut
\* away or put on another turn.  An overlong rollout leaves its last segment
\* unsaved; one that submitted under a padded name may end so.
MasksCanBeBuilt ==
  Over /\ ~overlong /\ method \in {"truncate", "summary"} =>
    \A e \in ToSet(ledger) :
      /\ e.segment \in DOMAIN Outputs
      /\ e.at \in DOMAIN Outputs[e.segment].response
      /\ LET token == Outputs[e.segment].response[e.at] IN
         token.mask = 1 /\ token.id.of = e.generation

\* What install_echo_hooks.py:61 states: "one exact policy-token range per Hermes
\* tool call".
SpansCoverTheirCalls ==
  Over /\ ~overlong /\ method \in {"truncate", "summary"} =>
    \A e \in ToSet(ledger) : Outputs[e.segment].response[e.at].id.at = e.block

\* A rollout has one final segment, the last, and an overlong one has none.  A
\* legal submit under the bare name lies in it (docs/echo_integration.md:42) and
\* nothing is generated after it (:31).  Neither holds of a padded name, which
\* _call_tool strips (tool_agent_loop.py:1108) and the finish test does not
\* (:859): that rollout goes on after its submit.
SubmitIsInTheFinalSegment ==
  Over =>
    /\ \A i \in DOMAIN Outputs : Outputs[i].final <=> i = Len(Outputs) /\ ~overlong
    /\ \A k \in DOMAIN ledger : ledger[k].kind = "submit" =>
         ~overlong /\ ledger[k].segment = Len(Outputs) /\ ledger[k].generation = Len(generations)

\* A rollout ends whatever the policy and the tools do and without a limit on
\* its turns: a segment that is not compressed runs into the response budget, and
\* the compression rounds are limited, those of cut off generations included.
RolloutIsBounded ==
  Len(generations) <= (MaxSummaryRounds + 1) * ((ResponseLength + 1) \div 2) + MaxSummaryRounds

=============================================================================
