----------------------------- MODULE AgentRunner -----------------------------
(***************************************************************************)
(* The turn loop of AgentRunner (src/esr_grpo/rollout.py) around one        *)
(* ESREnvironment.  A policy turn asks for tool calls; retrieval calls of   *)
(* one turn run in worker threads that take the environment's lock in any   *)
(* order, every other call runs alone.  A call may be rejected, which is an *)
(* answer like any other, or raise (a retriever, Verifier or argument       *)
(* error), which ends the run.                                              *)
(***************************************************************************)
EXTENDS ESREnvironment

CONSTANTS
  MaxTurns,          \* max_turns
  MaxParallelCalls,  \* max_parallel_calls
  MaxCalls           \* bound on the calls a policy asks for in one turn

ASSUME RunnerAssumption == {MaxTurns, MaxParallelCalls, MaxCalls} \subseteq Nat \ {0}

VARIABLES
  turn,      \* policy turns taken
  phase,     \* where run() is
  calls,     \* kinds of the calls of this turn, truncated
  results,   \* the action that answered each of them, 0 until then
  failed,    \* the calls that raised or were cancelled
  messages   \* the calls and results of the turns that were completed

loop    == <<turn, phase, calls, results, failed, messages>>
runVars == <<vars, loop>>

Phases == {"policy", "single", "parallel", "returned", "raised"}

RunInit ==
  /\ Init
  /\ turn = 0
  /\ phase = "policy"
  /\ calls = <<>>
  /\ results = <<>>
  /\ failed = {}
  /\ messages = <<>>

-----------------------------------------------------------------------------
(* The policy's turn                                                        *)

\* defective: state changes run in worker threads too
AnyKind == Kinds

ParallelKinds == {"search", "open_page", "read_evidence"}

Requests == UNION {[1..n -> Kinds] : n \in 0..MaxCalls}

Truncated(request) == SubSeq(request, 1, Min({Len(request), MaxParallelCalls}))

\* How the calls of a turn are executed; a turn without calls, or with
\* several of which one changes state, ends the run.
Branch(executed) ==
  CASE Len(executed) = 1 -> "single"
    [] Len(executed) > 1 /\ Range(executed) \subseteq ParallelKinds -> "parallel"
    [] OTHER -> "returned"

PolicyTurn(request) ==
  /\ phase = "policy"
  /\ turn < MaxTurns
  /\ turn' = turn + 1
  /\ calls' = Truncated(request)
  /\ phase' = Branch(calls')
  /\ results' = [i \in DOMAIN calls' |-> 0]
  /\ failed' = {}
  /\ UNCHANGED <<messages, vars>>

PolicyRaises ==
  /\ phase = "policy"
  /\ turn < MaxTurns
  /\ phase' = "raised"
  /\ UNCHANGED <<turn, calls, results, failed, messages, vars>>

TurnLimit ==
  /\ phase = "policy"
  /\ turn = MaxTurns
  /\ phase' = "returned"
  /\ UNCHANGED <<turn, calls, results, failed, messages, vars>>

-----------------------------------------------------------------------------
(* Tool calls                                                               *)

\* The handler of a kind of call, with any arguments; in its step the
\* ledger grows by NextAction, legal or not.
Call(kind) ==
  \/ kind = "search" /\ (Search \/ SearchRejected)
  \/ /\ kind = "open_page"
     /\ \/ \E doc \in Docs, search \in ActionIds : OpenPage(doc, search)
        \/ OpenPageRejected
  \/ /\ kind = "read_evidence"
     /\ (\E e \in EvidenceIds : ReadEvidence(e)) \/ ReadEvidenceRejected
  \/ /\ kind = "update_state"
     /\ \/ \E answer \in Answers \cup {NoAnswer}, patch \in Patches,
              support \in SupportLists : UpdateState(answer, patch, support)
        \/ UpdateStateRejected
  \/ /\ kind = "verify_answer"
     /\ \/ \E status \in Statuses, texts \in GapLists : VerifyAnswer(status, texts)
        \/ VerifyAnswerRejected
  \/ kind = "submit_answer" /\ (SubmitAnswer \/ SubmitAnswerRejected)

\* defective: the loop goes on after a submit
KeepGoing == "policy"

\* After the results of a turn were recorded.
NextPhase == IF submit_action_id' # 0 THEN "returned" ELSE "policy"

SingleCall ==
  /\ phase = "single"
  /\ Call(calls[1])
  /\ results' = <<NextAction>>
  /\ messages' = Append(messages, [calls |-> calls, results |-> results'])
  /\ phase' = NextPhase
  /\ UNCHANGED <<turn, calls, failed>>

SingleCallRaises ==
  /\ phase = "single"
  /\ phase' = "raised"
  /\ UNCHANGED <<turn, calls, results, failed, messages, vars>>

Pending == {i \in DOMAIN calls : results[i] = 0 /\ i \notin failed}

\* defective: results are collected as they complete
InCompletionOrder(i) == CHOOSE k \in DOMAIN calls : results[k] = 0
                                                    /\ \A j \in 1..(k - 1) : results[j] # 0

\* pool.map returns the results in the order of the calls.
Slot(i) == i

ParallelCall(i) ==
  /\ phase = "parallel"
  /\ i \in Pending
  /\ Call(calls[i])
  /\ results' = [results EXCEPT ![Slot(i)] = NextAction]
  /\ UNCHANGED <<turn, phase, calls, failed, messages>>

ParallelCallRaises(i) ==
  /\ phase = "parallel"
  /\ i \in Pending
  /\ failed' = failed \cup {i}
  /\ UNCHANGED <<turn, phase, calls, results, messages, vars>>

\* The main thread reads the results in order; at the first exception it
\* cancels the calls that no worker has started, and waits for the others.
Noticed == \E i \in failed : \A j \in 1..(i - 1) : results[j] # 0

Cancel(i) ==
  /\ phase = "parallel"
  /\ Noticed
  /\ i \in Pending
  /\ failed' = failed \cup {i}
  /\ UNCHANGED <<turn, phase, calls, results, messages, vars>>

\* defective: waits for an answer of every call, also of one that raised
AllAnswered == \A i \in DOMAIN calls : results[i] # 0

AllDone == Pending = {}

Join ==
  /\ phase = "parallel"
  /\ AllDone
  /\ IF failed = {}
     THEN /\ messages' = Append(messages, [calls |-> calls, results |-> results])
          /\ phase' = IF IsSubmitted THEN "returned" ELSE "policy"
     ELSE /\ phase' = "raised"
          /\ UNCHANGED messages
  /\ UNCHANGED <<turn, calls, results, failed, vars>>

RunNext ==
  \/ \E request \in Requests : PolicyTurn(request)
  \/ PolicyRaises
  \/ TurnLimit
  \/ SingleCall
  \/ SingleCallRaises
  \/ \E i \in DOMAIN calls :
       ParallelCall(i) \/ ParallelCallRaises(i) \/ Cancel(i)
  \/ Join

\* Every request of the loop returns or raises: the HTTP clients have
\* timeouts, and a worker holds the lock for one call only.
RunSpec == RunInit /\ [][RunNext]_runVars /\ WF_runVars(RunNext)

-----------------------------------------------------------------------------
(* Properties                                                               *)

Replied(t) == ToSet(messages[t].results)

(* The policy hears of every action once: the messages give each call the   *)
(* result of an action of its own kind, turn after turn in the order of the *)
(* ledger whatever the order of the workers was, and only the turn that     *)
(* raised can leave actions in the ledger that no message tells.            *)
RepliesAccountForLedger ==
  LET told == UNION {Replied(t) : t \in DOMAIN messages}
  IN /\ \A t \in DOMAIN messages : \A i \in DOMAIN messages[t].calls :
          actions[messages[t].results[i]].kind = messages[t].calls[i]
     /\ \A s, t \in DOMAIN messages : s < t =>
          \A a \in Replied(s), b \in Replied(t) : a < b
     /\ ActionIds = told \cup (ToSet(results) \ {0})
     /\ phase \in {"policy", "returned"} => ActionIds = told

(* Calls of one turn all see the state the turn started from: state changes *)
(* are serial, so no worker's call runs before and another's after one.     *)
TurnsSeeOneVersion ==
  \A t \in DOMAIN messages : \A a, b \in Replied(t) : actions[a].before = actions[b].before

(* With this loop an accepted submit is the end: no action follows it in    *)
(* the ledger, and the state it submitted stays the latest one.             *)
SubmitEndsTheRun ==
  IsSubmitted => /\ phase = "returned"
                 /\ submit_action_id = Len(actions)
                 /\ actions[submit_action_id].before = Len(states)
                 /\ submitted_answer = Current.answer

(* Whatever the policy asks for and whichever call raises, run() ends.      *)
RunEnds == <>(phase \in {"returned", "raised"})

=============================================================================
