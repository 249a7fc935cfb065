----------------------------- MODULE AgentProofs -----------------------------
(***************************************************************************)
(* Proofs about the turn loop of AgentRunner, on top of those about the     *)
(* environment it runs around.                                              *)
(***************************************************************************)
EXTENDS AgentRunner, ESRSafetyProofs

-----------------------------------------------------------------------------
(* A run is an episode                                                      *)

LEMMA CallIsStep ==
  ASSUME NEW kind, Call(kind)
  PROVE  Next
BY DEF Call, Next, Retrieve, Revise, Rejected

LEMMA LoopStepsEpisode ==
  ASSUME [RunNext]_runVars
  PROVE  [Next]_vars
<1>1. CASE UNCHANGED runVars
  BY <1>1 DEF runVars
<1>2. ASSUME NEW request, PolicyTurn(request) PROVE UNCHANGED vars
  BY <1>2 DEF PolicyTurn
<1>3. CASE PolicyRaises \/ TurnLimit \/ SingleCallRaises \/ Join
  BY <1>3 DEF PolicyRaises, TurnLimit, SingleCallRaises, Join
<1>4. CASE SingleCall
  BY <1>4, CallIsStep DEF SingleCall
<1>5. ASSUME NEW i, ParallelCall(i) PROVE Next
  BY <1>5, CallIsStep DEF ParallelCall
<1>6. ASSUME NEW i, ParallelCallRaises(i) \/ Cancel(i) PROVE UNCHANGED vars
  BY <1>6 DEF ParallelCallRaises, Cancel
<1> QED
  BY <1>1, <1>2, <1>3, <1>4, <1>5, <1>6 DEF RunNext

(* Whatever the loop does, what it leaves in the store is an episode: every *)
(* theorem about Spec holds of a run of AgentRunner.                        *)
THEOREM EveryRunIsAnEpisode == RunSpec => Spec
<1>1. RunInit => Init
  BY DEF RunInit
<1>2. [RunNext]_runVars => [Next]_vars
  BY LoopStepsEpisode
<1> QED
  BY <1>1, <1>2, PTL DEF RunSpec, Spec

-----------------------------------------------------------------------------
(* What a call leaves in the ledger                                         *)

LEMMA CallLogs ==
  ASSUME NEW kind, Call(kind)
  PROVE  \E legal, after : Logs(kind, legal, after)
<1>1. CASE kind = "search"
  BY <1>1, SearchLogs, RejectLogs DEF Call, SearchRejected
<1>2. CASE kind = "open_page"
  BY <1>2, OpenPageLogs, RejectLogs DEF Call, OpenPageRejected
<1>3. CASE kind = "read_evidence"
  BY <1>3, ReadEvidenceLogs, RejectLogs DEF Call, ReadEvidenceRejected
<1>4. CASE kind = "update_state"
  BY <1>4, UpdateStateLogs, RejectLogs DEF Call, UpdateStateRejected
<1>5. CASE kind = "verify_answer"
  BY <1>5, VerifyAnswerLogs, RejectLogs DEF Call, VerifyAnswerRejected
<1>6. CASE kind = "submit_answer"
  BY <1>6, SubmitAnswerLogs, RejectLogs DEF Call, SubmitAnswerRejected
<1> QED
  BY <1>1, <1>2, <1>3, <1>4, <1>5, <1>6 DEF Call

LEMMA RetrievalKeepsState ==
  ASSUME NEW kind \in ParallelKinds, Call(kind)
  PROVE  UNCHANGED <<states, submit_action_id, submitted_answer>>
<1>1. CASE kind = "search"
  BY <1>1, SearchLogs, RejectLogs DEF Call, SearchRejected
<1>2. CASE kind = "open_page"
  BY <1>2, OpenPageLogs, RejectLogs DEF Call, OpenPageRejected
<1>3. CASE kind = "read_evidence"
  BY <1>3, ReadEvidenceLogs, RejectLogs DEF Call, ReadEvidenceRejected
<1> QED
  BY <1>1, <1>2, <1>3 DEF ParallelKinds

LEMMA OnlySubmitSubmits ==
  ASSUME NEW kind, Call(kind)
  PROVE  SubmitAnswer \/ submit_action_id' = submit_action_id
<1>1. CASE kind \in ParallelKinds
  BY <1>1, RetrievalKeepsState
<1>2. CASE kind = "update_state"
  BY <1>2, UpdateStateLogs, RejectLogs DEF Call, UpdateStateRejected
<1>3. CASE kind = "verify_answer"
  BY <1>3, VerifyAnswerLogs, RejectLogs DEF Call, VerifyAnswerRejected
<1>4. CASE kind = "submit_answer"
  BY <1>4, RejectLogs DEF Call, SubmitAnswerRejected
<1> QED
  BY <1>1, <1>2, <1>3, <1>4 DEF Call, ParallelKinds

(* A call issues the next action id, of its kind and against the latest     *)
(* version, and the rows before it stay.                                    *)
LEMMA CallAnswers ==
  ASSUME TypeOK, NEW kind, Call(kind)
  PROVE  /\ ActionIds' = ActionIds \cup {NextAction}
         /\ NextAction \notin ActionIds /\ NextAction \in Nat \ {0}
         /\ \A a \in ActionIds : a \in Nat \ {0} /\ a < NextAction
         /\ Len(actions)' = NextAction
         /\ actions'[NextAction].kind = kind /\ actions'[NextAction].before = Len(states)
         /\ \A a \in ActionIds : actions'[a] = actions[a]
<1>1. PICK row : Log(row) /\ row.kind = kind /\ row.before = Len(states)
  BY CallLogs DEF Logs
<1>2. ActionIds = 1..Len(actions) /\ Len(actions) \in Nat
  BY Tables
<1> QED
  BY <1>1, <1>2, LogGrows DEF NextAction

-----------------------------------------------------------------------------
(* An accepted submit ends the run                                          *)

LoopTypes ==
  /\ phase \in Phases
  /\ calls \in Seq(Kinds)
  /\ results \in [DOMAIN calls -> Nat]
  /\ phase = "single" => Len(calls) = 1
  /\ phase = "parallel" => Range(calls) \subseteq ParallelKinds

(* SubmitEndsTheRun is inductive with the kinds of the calls: only a call   *)
(* that runs alone can submit.                                              *)
SubmitsLast == TypeOK /\ LoopTypes /\ SubmitEndsTheRun

LEMMA TruncatedIsSequence ==
  ASSUME NEW request \in Requests
  PROVE  Truncated(request) \in Seq(Kinds)
<1>1. PICK n \in 0..MaxCalls : request \in [1..n -> Kinds]
  BY DEF Requests
<1>2. request \in Seq(Kinds) /\ Len(request) = n /\ n \in Nat
  BY <1>1
<1>3. MaxParallelCalls \in Nat
  BY RunnerAssumption
<1>4. Min({Len(request), MaxParallelCalls}) \in 0..Len(request)
  <2> DEFINE m == IF n <= MaxParallelCalls THEN n ELSE MaxParallelCalls
  <2>1. m \in {n, MaxParallelCalls} /\ \A k \in {n, MaxParallelCalls} : m <= k
    BY <1>2, <1>3
  <2>2. Min({n, MaxParallelCalls}) \in {n, MaxParallelCalls}
        /\ \A k \in {n, MaxParallelCalls} : Min({n, MaxParallelCalls}) <= k
    <3> HIDE DEF m
    <3> QED BY <2>1 DEF Min
  <2> QED
    BY <1>2, <1>3, <2>2
<1>5. \A m \in 0..Len(request) : SubSeq(request, 1, m) \in Seq(Kinds)
  BY <1>2
<1> QED
  BY <1>4, <1>5 DEF Truncated

LEMMA PolicyTurnKeepsLoopTypes ==
  ASSUME LoopTypes, NEW request \in Requests, PolicyTurn(request)
  PROVE  LoopTypes'
<1>1. calls' \in Seq(Kinds) /\ phase' = Branch(calls') /\ results' = [i \in DOMAIN calls' |-> 0]
  BY TruncatedIsSequence DEF PolicyTurn
<1>2. Branch(calls') \in Phases
  BY DEF Branch, Phases
<1>3. Branch(calls') = "single" => Len(calls') = 1
  BY DEF Branch
<1>4. Branch(calls') = "parallel" => Range(calls') \subseteq ParallelKinds
  BY DEF Branch
<1> QED
  BY <1>1, <1>2, <1>3, <1>4 DEF LoopTypes, Range

LEMMA ParallelCallIsRetrieval ==
  ASSUME LoopTypes, NEW i \in DOMAIN calls, phase = "parallel"
  PROVE  calls[i] \in ParallelKinds
BY DEF LoopTypes, Range

LEMMA StepKeepsLoopTypes ==
  ASSUME TypeOK, LoopTypes, RunNext
  PROVE  LoopTypes'
<1>1. ASSUME NEW request \in Requests, PolicyTurn(request) PROVE LoopTypes'
  BY <1>1, PolicyTurnKeepsLoopTypes
<1>2. CASE PolicyRaises \/ TurnLimit \/ SingleCallRaises
  BY <1>2 DEF PolicyRaises, TurnLimit, SingleCallRaises, LoopTypes, Phases
<1>3. CASE SingleCall
  <2>1. NextAction \in Nat
    BY Tables DEF NextAction
  <2>2. phase' \in {"returned", "policy"} /\ calls' = calls /\ results' = <<NextAction>>
    BY <1>3 DEF SingleCall, NextPhase
  <2>3. DOMAIN calls = 1..1
    BY <1>3 DEF SingleCall, LoopTypes
  <2>4. results' \in [1..1 -> Nat]
    BY <2>1, <2>2
  <2> QED
    BY <2>2, <2>3, <2>4 DEF LoopTypes, Phases, Range
<1>4. ASSUME NEW i \in DOMAIN calls, ParallelCall(i) PROVE LoopTypes'
  <2>1. NextAction \in Nat
    BY Tables DEF NextAction
  <2>2. results' = [results EXCEPT ![i] = NextAction] /\ phase' = phase /\ calls' = calls
    BY <1>4 DEF ParallelCall, Slot
  <2> QED
    BY <2>1, <2>2 DEF LoopTypes, Range
<1>5. ASSUME NEW i \in DOMAIN calls, ParallelCallRaises(i) \/ Cancel(i) PROVE LoopTypes'
  BY <1>5 DEF ParallelCallRaises, Cancel, LoopTypes
<1>6. CASE Join
  BY <1>6 DEF Join, LoopTypes, Phases
<1> QED
  BY <1>1, <1>2, <1>3, <1>4, <1>5, <1>6 DEF RunNext

LEMMA StepKeepsSubmit ==
  ASSUME SubmitsLast, RunNext
  PROVE  SubmitEndsTheRun'
<1> USE DEF SubmitsLast
<1>1. ASSUME UNCHANGED vars, phase' = phase \/ phase \in {"policy", "single", "parallel"}
      PROVE  SubmitEndsTheRun'
  <2>1. UNCHANGED <<states, actions, submit_action_id, submitted_answer>>
    BY <1>1 DEF vars, store
  <2> QED
    BY <1>1, <2>1 DEF SubmitEndsTheRun, IsSubmitted, Current
<1>2. ASSUME NEW request, PolicyTurn(request) PROVE SubmitEndsTheRun'
  BY <1>1, <1>2 DEF PolicyTurn
<1>3. CASE PolicyRaises \/ TurnLimit \/ SingleCallRaises
  BY <1>1, <1>3 DEF PolicyRaises, TurnLimit, SingleCallRaises
<1>4. CASE SingleCall
  <2>1. ~IsSubmitted /\ Call(calls[1])
    BY <1>4 DEF SingleCall, SubmitEndsTheRun
  <2>2. CASE SubmitAnswer
    <3>1. submit_action_id' = NextAction /\ submitted_answer' = Current.answer /\ states' = states
      BY <2>2 DEF SubmitAnswer
    <3>2. Len(actions)' = NextAction /\ actions'[NextAction].before = Len(states) /\ NextAction # 0
      BY <2>1, CallAnswers
    <3>3. phase' = "returned"
      BY <1>4, <3>1, <3>2 DEF SingleCall, NextPhase
    <3> QED
      BY <3>1, <3>2, <3>3 DEF SubmitEndsTheRun, IsSubmitted, Current
  <2>3. CASE submit_action_id' = submit_action_id
    BY <2>1, <2>3 DEF SubmitEndsTheRun, IsSubmitted
  <2> QED
    BY <2>1, <2>2, <2>3, OnlySubmitSubmits
<1>5. ASSUME NEW i \in DOMAIN calls, ParallelCall(i) PROVE SubmitEndsTheRun'
  <2>1. ~IsSubmitted /\ calls[i] \in ParallelKinds /\ Call(calls[i])
    BY <1>5, ParallelCallIsRetrieval DEF ParallelCall, SubmitEndsTheRun
  <2>2. submit_action_id' = submit_action_id
    BY <2>1, RetrievalKeepsState
  <2> QED
    BY <2>1, <2>2 DEF SubmitEndsTheRun, IsSubmitted
<1>6. ASSUME NEW i, ParallelCallRaises(i) \/ Cancel(i) PROVE SubmitEndsTheRun'
  BY <1>1, <1>6 DEF ParallelCallRaises, Cancel
<1>7. CASE Join
  BY <1>1, <1>7 DEF Join
<1> QED
  BY <1>2, <1>3, <1>4, <1>5, <1>6, <1>7 DEF RunNext

LEMMA StutterKeepsLoop ==
  ASSUME LoopTypes, UNCHANGED runVars
  PROVE  LoopTypes' /\ (SubmitEndsTheRun => SubmitEndsTheRun')
BY DEF runVars, loop, vars, store, LoopTypes, SubmitEndsTheRun, IsSubmitted, Current

(* With this loop nothing follows an accepted submit: it is the last row of *)
(* the ledger and the state it submitted stays the latest one.              *)
THEOREM RunsEndWithTheSubmit == RunSpec => []SubmitEndsTheRun
<1>1. RunInit => SubmitsLast
  <2> SUFFICES ASSUME RunInit PROVE SubmitsLast
    OBVIOUS
  <2>1. TypeOK
    BY InitHasTypes DEF RunInit
  <2>2. LoopTypes
    BY DEF RunInit, LoopTypes, Phases
  <2>3. SubmitEndsTheRun
    BY DEF RunInit, Init, SubmitEndsTheRun, IsSubmitted
  <2> QED
    BY <2>1, <2>2, <2>3 DEF SubmitsLast
<1>2. SubmitsLast /\ [RunNext]_runVars => SubmitsLast'
  <2> SUFFICES ASSUME SubmitsLast, [RunNext]_runVars PROVE SubmitsLast'
    OBVIOUS
  <2>1. TypeOK'
    BY LoopStepsEpisode, NextKeepsTypes, StutterKeepsTypes DEF SubmitsLast
  <2>2. CASE RunNext
    BY <2>1, <2>2, StepKeepsLoopTypes, StepKeepsSubmit DEF SubmitsLast
  <2>3. CASE UNCHANGED runVars
    BY <2>1, <2>3, StutterKeepsLoop DEF SubmitsLast
  <2> QED
    BY <2>2, <2>3
<1>3. SubmitsLast => SubmitEndsTheRun
  BY DEF SubmitsLast
<1> QED
  BY <1>1, <1>2, <1>3, PTL DEF RunSpec

-----------------------------------------------------------------------------
(* The messages account for the ledger                                      *)

Turns == {m \in [calls : Seq(Kinds), results : UNION {[1..n -> Nat] : n \in Nat}] :
            DOMAIN m.results = DOMAIN m.calls}

Told == UNION {Replied(t) : t \in DOMAIN messages}

(* The messages of the turns so far. *)
MessagesTell ==
  /\ messages \in Seq(Turns)
  /\ \A t \in DOMAIN messages : \A i \in DOMAIN messages[t].calls :
       /\ messages[t].results[i] \in ActionIds
       /\ actions[messages[t].results[i]].kind = messages[t].calls[i]
  /\ \A s, t \in DOMAIN messages : s < t => \A a \in Replied(s), b \in Replied(t) : a < b
  /\ TurnsSeeOneVersion

(* The results of the turn that runs. *)
ResultsTell ==
  /\ \A i \in DOMAIN results : results[i] # 0 =>
       /\ results[i] \in ActionIds
       /\ actions[results[i]].kind = calls[i]
       /\ phase = "parallel" => actions[results[i]].before = Len(states)
       /\ phase = "parallel" => \A a \in Told : a < results[i]
  /\ phase = "single" => \A i \in DOMAIN results : results[i] = 0

LedgerIsTold ==
  /\ ActionIds = Told \cup (ToSet(results) \ {0})
  /\ phase \in {"policy", "returned"} => ActionIds = Told

Accounted == TypeOK /\ LoopTypes /\ MessagesTell /\ ResultsTell /\ LedgerIsTold

RowsStay ==
  /\ ActionIds \subseteq ActionIds'
  /\ \A a \in ActionIds : actions'[a] = actions[a]

LEMMA ToldIsLogged ==
  ASSUME MessagesTell
  PROVE  Told \subseteq ActionIds
<1> SUFFICES ASSUME NEW t \in DOMAIN messages, NEW a \in Replied(t) PROVE a \in ActionIds
  BY DEF Told
<1>1. messages[t] \in Turns
  BY DEF MessagesTell
<1>2. PICK i \in DOMAIN messages[t].results : a = messages[t].results[i]
  BY DEF Replied, ToSet
<1> QED
  BY <1>1, <1>2 DEF MessagesTell, Turns

LEMMA OldMessagesTell ==
  ASSUME MessagesTell, messages' = messages, RowsStay
  PROVE  MessagesTell' /\ Told' = Told
<1>1. Told' = Told /\ \A t : Replied(t)' = Replied(t)
  BY DEF Told, Replied
<1>2. \A t \in DOMAIN messages : Replied(t) \subseteq ActionIds
  BY ToldIsLogged DEF Told
<1>3. TurnsSeeOneVersion'
  BY <1>1, <1>2 DEF MessagesTell, TurnsSeeOneVersion, RowsStay
<1>4. \A t \in DOMAIN messages' : \A i \in DOMAIN messages'[t].calls :
        /\ messages'[t].results[i] \in ActionIds'
        /\ actions'[messages'[t].results[i]].kind = messages'[t].calls[i]
  BY DEF MessagesTell, RowsStay
<1> QED
  BY <1>1, <1>3, <1>4 DEF MessagesTell

(* A turn is recorded whose calls are answered by later actions of their    *)
(* kinds, all against one version.                                          *)
LEMMA NewMessageTells ==
  ASSUME MessagesTell, RowsStay,
         NEW m \in Turns, messages' = Append(messages, m),
         \A i \in DOMAIN m.calls :
           /\ m.results[i] \in ActionIds'
           /\ actions'[m.results[i]].kind = m.calls[i]
           /\ \A a \in Told : a < m.results[i]
           /\ \A j \in DOMAIN m.calls : actions'[m.results[i]].before = actions'[m.results[j]].before
  PROVE  MessagesTell' /\ Told' = Told \cup ToSet(m.results)
<1> PICK n : n = Len(messages) + 1
  OBVIOUS
<1>1. messages \in Seq(Turns)
  BY DEF MessagesTell
<1>2. /\ messages' \in Seq(Turns) /\ n \in Nat
      /\ DOMAIN messages = 1..Len(messages) /\ Len(messages) \in Nat
      /\ DOMAIN messages' = 1..n
      /\ \A t \in DOMAIN messages : messages'[t] = messages[t]
      /\ messages'[n] = m
  BY <1>1, AppendGrows
<1>3. /\ DOMAIN messages' = DOMAIN messages \cup {n} /\ n \notin DOMAIN messages
      /\ \A t \in DOMAIN messages : t < n
  BY <1>2
<1>4. /\ \A t \in DOMAIN messages : Replied(t)' = Replied(t)
      /\ Replied(n)' = ToSet(m.results)
  BY <1>2 DEF Replied
<1>5. Told' = Told \cup ToSet(m.results)
  BY <1>3, <1>4 DEF Told
<1>6. \A b \in ToSet(m.results) : \E i \in DOMAIN m.calls : b = m.results[i]
  BY DEF Turns, ToSet
<1>7. \A t \in DOMAIN messages : Replied(t) \subseteq ActionIds /\ Replied(t) \subseteq Told
  BY ToldIsLogged DEF Told
<1>8. \A t \in DOMAIN messages' : \A i \in DOMAIN messages'[t].calls :
        /\ messages'[t].results[i] \in ActionIds'
        /\ actions'[messages'[t].results[i]].kind = messages'[t].calls[i]
  BY <1>2, <1>3 DEF MessagesTell, RowsStay
<1>9. ASSUME NEW s \in DOMAIN messages', NEW t \in DOMAIN messages', s < t,
             NEW a \in Replied(s)', NEW b \in Replied(t)'
      PROVE  a < b
  <2>1. s \in DOMAIN messages
    BY <1>2, <1>3, <1>9
  <2>2. CASE t = n
    BY <1>4, <1>6, <1>7, <1>9, <2>1, <2>2
  <2>3. CASE t \in DOMAIN messages
    BY <1>4, <1>9, <2>1, <2>3 DEF MessagesTell
  <2> QED
    BY <1>3, <2>2, <2>3
<1>10. ASSUME NEW t \in DOMAIN messages', NEW a \in Replied(t)', NEW b \in Replied(t)'
       PROVE  actions'[a].before = actions'[b].before
  <2>1. CASE t = n
    BY <1>4, <1>6, <1>10, <2>1
  <2>2. CASE t \in DOMAIN messages
    BY <1>4, <1>7, <1>10, <2>2 DEF MessagesTell, TurnsSeeOneVersion, RowsStay
  <2> QED
    BY <1>3, <2>1, <2>2
<1> QED
  BY <1>2, <1>5, <1>8, <1>9, <1>10 DEF MessagesTell, TurnsSeeOneVersion

LEMMA CallKeepsRows ==
  ASSUME TypeOK, NEW kind, Call(kind)
  PROVE  RowsStay
BY CallAnswers DEF RowsStay

(* A step that leaves ledger, messages and versions alone. *)
LEMMA SilentStepTells ==
  ASSUME Accounted, UNCHANGED vars, messages' = messages
  PROVE  /\ MessagesTell'
         /\ results' = results /\ calls' = calls /\ (phase' = phase \/ phase' = "raised")
              => ResultsTell' /\ LedgerIsTold'
<1>1. actions' = actions /\ states' = states /\ ActionIds' = ActionIds
  BY DEF vars, store, ActionIds
<1>2. RowsStay
  BY <1>1 DEF RowsStay
<1>3. MessagesTell' /\ Told' = Told
  BY <1>2, OldMessagesTell DEF Accounted
<1>4. ASSUME results' = results, calls' = calls, phase' = phase \/ phase' = "raised"
      PROVE  ResultsTell' /\ LedgerIsTold'
  BY <1>1, <1>3, <1>4 DEF Accounted, ResultsTell, LedgerIsTold
<1> QED
  BY <1>3, <1>4

LEMMA PolicyTurnTells ==
  ASSUME Accounted, NEW request, PolicyTurn(request)
  PROVE  MessagesTell' /\ ResultsTell' /\ LedgerIsTold'
<1>1. UNCHANGED vars /\ messages' = messages /\ phase = "policy"
  BY DEF PolicyTurn
<1>2. ActionIds' = ActionIds /\ RowsStay
  BY <1>1 DEF vars, store, ActionIds, RowsStay
<1>3. MessagesTell' /\ Told' = Told
  BY <1>1, <1>2, OldMessagesTell DEF Accounted
<1>4. \A i \in DOMAIN results' : results'[i] = 0
  BY DEF PolicyTurn
<1>5. ToSet(results') \subseteq {0}
  BY <1>4 DEF ToSet
<1>6. ResultsTell'
  BY <1>4 DEF ResultsTell
<1>7. LedgerIsTold'
  BY <1>1, <1>2, <1>3, <1>5 DEF Accounted, LedgerIsTold
<1> QED
  BY <1>3, <1>6, <1>7

LEMMA SingleCallTells ==
  ASSUME Accounted, SingleCall
  PROVE  MessagesTell' /\ ResultsTell' /\ LedgerIsTold'
<1> PICK a : a = NextAction
  OBVIOUS
<1> PICK m : m = [calls |-> calls, results |-> <<a>>]
  OBVIOUS
<1>1. /\ phase = "single" /\ Call(calls[1]) /\ calls' = calls
      /\ results' = <<a>> /\ messages' = Append(messages, m)
      /\ phase' \in {"policy", "returned"}
  BY DEF SingleCall, NextPhase
<1>2. DOMAIN calls = 1..1 /\ calls \in Seq(Kinds)
  BY <1>1 DEF Accounted, LoopTypes
<1>3. /\ ActionIds' = ActionIds \cup {a} /\ a \in Nat \ {0}
      /\ \A b \in ActionIds : b < a
      /\ actions'[a].kind = calls[1]
  BY <1>1, CallAnswers DEF Accounted
<1>4. m \in Turns /\ m.calls = calls /\ m.results = <<a>>
  <2>1. <<a>> \in [1..1 -> Nat]
    BY <1>3
  <2>2. 1 \in Nat
    OBVIOUS
  <2> QED
    BY <1>2, <2>1, <2>2 DEF Turns
<1>5. \A b \in Told : b < a
  BY <1>3, ToldIsLogged DEF Accounted
<1>6. \A i \in DOMAIN calls : <<a>>[i] = a /\ calls[i] = calls[1]
  BY <1>2
<1>7. MessagesTell' /\ Told' = Told \cup ToSet(<<a>>)
  <2>1. RowsStay /\ MessagesTell
    BY <1>1, CallKeepsRows DEF Accounted
  <2> QED
    BY <1>1, <1>3, <1>4, <1>5, <1>6, <2>1, NewMessageTells
<1>8. ToSet(<<a>>) = {a}
  BY DEF ToSet
<1>9. ActionIds = Told
  <2>1. ToSet(results) \subseteq {0}
    BY <1>1 DEF Accounted, ResultsTell, ToSet
  <2> QED
    BY <2>1 DEF Accounted, LedgerIsTold
<1>10. ResultsTell'
  <2>1. DOMAIN results' = 1..1 /\ results'[1] = a
    BY <1>1
  <2> QED
    BY <1>1, <1>3, <2>1 DEF ResultsTell
<1>11. LedgerIsTold'
  BY <1>1, <1>3, <1>7, <1>8, <1>9 DEF LedgerIsTold
<1> QED
  BY <1>7, <1>10, <1>11

LEMMA ParallelCallTells ==
  ASSUME Accounted, NEW i \in DOMAIN calls, ParallelCall(i)
  PROVE  MessagesTell' /\ ResultsTell' /\ LedgerIsTold'
<1> PICK a : a = NextAction
  OBVIOUS
<1>1. /\ phase = "parallel" /\ phase' = phase /\ Call(calls[i]) /\ calls' = calls
      /\ results' = [results EXCEPT ![i] = a] /\ messages' = messages /\ results[i] = 0
  BY DEF ParallelCall, Pending, Slot
<1>2. DOMAIN results = DOMAIN calls
  BY DEF Accounted, LoopTypes
<1>3. /\ ActionIds' = ActionIds \cup {a} /\ a \in Nat \ {0}
      /\ \A b \in ActionIds : b < a
      /\ actions'[a].kind = calls[i] /\ actions'[a].before = Len(states)
      /\ \A b \in ActionIds : actions'[b] = actions[b]
  BY <1>1, CallAnswers DEF Accounted
<1>4. states' = states
  BY <1>1, ParallelCallIsRetrieval, RetrievalKeepsState DEF Accounted
<1>5. MessagesTell' /\ Told' = Told /\ Told \subseteq ActionIds
  BY <1>1, CallKeepsRows, OldMessagesTell, ToldIsLogged DEF Accounted
<1>6. /\ DOMAIN results' = DOMAIN results /\ results'[i] = a
      /\ \A j \in DOMAIN results : j # i => results'[j] = results[j]
  BY <1>1, <1>2
<1>7. ResultsTell'
  <2> SUFFICES ASSUME NEW j \in DOMAIN results', results'[j] # 0
               PROVE  /\ results'[j] \in ActionIds'
                      /\ actions'[results'[j]].kind = calls'[j]
                      /\ actions'[results'[j]].before = Len(states')
                      /\ \A b \in Told' : b < results'[j]
    BY <1>1 DEF ResultsTell
  <2>1. CASE j = i
    BY <1>1, <1>3, <1>4, <1>5, <1>6, <2>1
  <2>2. CASE j # i
    <3>1. results'[j] = results[j] /\ j \in DOMAIN results
      BY <1>6, <2>2
    <3>2. /\ results[j] \in ActionIds
          /\ actions[results[j]].kind = calls[j]
          /\ actions[results[j]].before = Len(states)
          /\ \A b \in Told : b < results[j]
      BY <1>1, <3>1 DEF Accounted, ResultsTell
    <3> QED
      BY <1>1, <1>3, <1>4, <1>5, <3>1, <3>2
  <2> QED
    BY <2>1, <2>2
<1>8. ToSet(results') \ {0} = (ToSet(results) \ {0}) \cup {a}
  BY <1>1, <1>2, <1>3, <1>6 DEF ToSet
<1>9. LedgerIsTold'
  BY <1>1, <1>3, <1>5, <1>8 DEF Accounted, LedgerIsTold
<1> QED
  BY <1>5, <1>7, <1>9

LEMMA JoinTells ==
  ASSUME Accounted, Join
  PROVE  MessagesTell' /\ ResultsTell' /\ LedgerIsTold'
<1>1. /\ phase = "parallel" /\ UNCHANGED vars /\ calls' = calls /\ results' = results
      /\ DOMAIN results = DOMAIN calls
  BY DEF Join, Accounted, LoopTypes
<1>2. CASE failed # {}
  BY <1>1, <1>2, SilentStepTells DEF Join
<1>3. CASE failed = {}
  <2> PICK m : m = [calls |-> calls, results |-> results]
    OBVIOUS
  <2>1. messages' = Append(messages, m) /\ phase' \in {"policy", "returned"}
    BY <1>3 DEF Join
  <2>2. \A i \in DOMAIN calls : results[i] # 0
    BY <1>3 DEF Join, AllDone, Pending
  <2>3. m \in Turns /\ m.calls = calls /\ m.results = results
    <3>1. results \in [1..Len(calls) -> Nat] /\ Len(calls) \in Nat /\ calls \in Seq(Kinds)
      BY DEF Accounted, LoopTypes
    <3> QED
      BY <1>1, <3>1 DEF Turns
  <2>4. actions' = actions /\ states' = states /\ ActionIds' = ActionIds
    BY <1>1 DEF vars, store, ActionIds
  <2>5. \A i \in DOMAIN calls :
          /\ results[i] \in ActionIds'
          /\ actions'[results[i]].kind = calls[i]
          /\ actions'[results[i]].before = Len(states)
          /\ \A a \in Told : a < results[i]
    BY <1>1, <2>2, <2>4 DEF Accounted, ResultsTell
  <2>6. MessagesTell' /\ Told' = Told \cup ToSet(results)
    <3>1. RowsStay /\ MessagesTell
      BY <2>4 DEF RowsStay, Accounted
    <3> QED
      BY <2>1, <2>3, <2>5, <3>1, NewMessageTells
  <2>7. ToSet(results) \ {0} = ToSet(results)
    BY <1>1, <2>2 DEF ToSet
  <2>8. ResultsTell'
    BY <1>1, <2>1, <2>4, <2>5 DEF ResultsTell
  <2>9. LedgerIsTold'
    BY <1>1, <2>4, <2>6, <2>7 DEF Accounted, LedgerIsTold
  <2> QED
    BY <2>6, <2>8, <2>9
<1> QED
  BY <1>2, <1>3

LEMMA StepTells ==
  ASSUME Accounted, RunNext
  PROVE  MessagesTell' /\ ResultsTell' /\ LedgerIsTold'
<1>1. ASSUME NEW request, PolicyTurn(request) PROVE MessagesTell' /\ ResultsTell' /\ LedgerIsTold'
  BY <1>1, PolicyTurnTells
<1>2. CASE PolicyRaises \/ SingleCallRaises
  BY <1>2, SilentStepTells DEF PolicyRaises, SingleCallRaises
<1>3. CASE TurnLimit
  <2>1. /\ phase = "policy" /\ phase' = "returned" /\ results' = results /\ messages' = messages
        /\ calls' = calls /\ UNCHANGED vars
    BY <1>3 DEF TurnLimit
  <2>2. ActionIds' = ActionIds /\ Told' = Told /\ actions' = actions
    BY <2>1 DEF vars, store, ActionIds, Told, Replied
  <2>3. MessagesTell'
    BY <2>1, SilentStepTells
  <2> QED
    BY <2>1, <2>2, <2>3 DEF Accounted, ResultsTell, LedgerIsTold
<1>4. CASE SingleCall
  BY <1>4, SingleCallTells
<1>5. ASSUME NEW i \in DOMAIN calls, ParallelCall(i)
      PROVE  MessagesTell' /\ ResultsTell' /\ LedgerIsTold'
  BY <1>5, ParallelCallTells
<1>6. ASSUME NEW i, ParallelCallRaises(i) \/ Cancel(i)
      PROVE  MessagesTell' /\ ResultsTell' /\ LedgerIsTold'
  BY <1>6, SilentStepTells DEF ParallelCallRaises, Cancel
<1>7. CASE Join
  BY <1>7, JoinTells
<1> QED
  BY <1>1, <1>2, <1>3, <1>4, <1>5, <1>6, <1>7 DEF RunNext

LEMMA AccountedInductive == RunSpec => []Accounted
<1>1. RunInit => Accounted
  <2> SUFFICES ASSUME RunInit PROVE Accounted
    OBVIOUS
  <2>1. TypeOK
    BY InitHasTypes DEF RunInit
  <2>2. phase = "policy" /\ calls = <<>> /\ results = <<>> /\ messages = <<>> /\ ActionIds = {}
    BY DEF RunInit, Init, ActionIds
  <2>3. LoopTypes
    BY <2>2 DEF LoopTypes, Phases
  <2>4. Told = {} /\ ToSet(results) = {}
    BY <2>2 DEF Told, ToSet
  <2>5. MessagesTell
    BY <2>2 DEF MessagesTell, TurnsSeeOneVersion
  <2>6. ResultsTell /\ LedgerIsTold
    BY <2>2, <2>4 DEF ResultsTell, LedgerIsTold
  <2> QED
    BY <2>1, <2>3, <2>5, <2>6 DEF Accounted
<1>2. Accounted /\ [RunNext]_runVars => Accounted'
  <2> SUFFICES ASSUME Accounted, [RunNext]_runVars PROVE Accounted'
    OBVIOUS
  <2>1. TypeOK'
    BY LoopStepsEpisode, NextKeepsTypes, StutterKeepsTypes DEF Accounted
  <2>2. CASE RunNext
    BY <2>1, <2>2, StepKeepsLoopTypes, StepTells DEF Accounted
  <2>3. CASE UNCHANGED runVars
    <3>1. UNCHANGED vars /\ phase' = phase /\ calls' = calls /\ results' = results /\ messages' = messages
      BY <2>3 DEF runVars, loop
    <3> QED
      BY <2>1, <2>3, <3>1, StutterKeepsLoop, SilentStepTells DEF Accounted
  <2> QED
    BY <2>2, <2>3
<1> QED
  BY <1>1, <1>2, PTL DEF RunSpec

(* The messages give every call the result of an action of its own kind, in *)
(* the order of the ledger, whatever order the workers ran in, and miss no  *)
(* action unless the turn raised.                                           *)
THEOREM RepliesAccount == RunSpec => []RepliesAccountForLedger
<1>1. Accounted => RepliesAccountForLedger
  BY DEF Accounted, MessagesTell, LedgerIsTold, RepliesAccountForLedger, Told
<1> QED
  BY <1>1, AccountedInductive, PTL

(* The calls of one turn all ran against the same version of the TaskState. *)
THEOREM TurnsAreConsistent == RunSpec => []TurnsSeeOneVersion
<1>1. Accounted => TurnsSeeOneVersion
  BY DEF Accounted, MessagesTell
<1> QED
  BY <1>1, AccountedInductive, PTL

=============================================================================
