------------------------------ MODULE ESRProofs ------------------------------
(***************************************************************************)
(* Proofs that the invariants of ESRSafety hold in every episode, whatever  *)
(* the corpus, the answers, the findings, the gap descriptions and the      *)
(* bounds are.                                                              *)
(***************************************************************************)
EXTENDS ESRSafety, FiniteSetTheorems, WellFoundedInduction, TLAPS

-----------------------------------------------------------------------------
(* Sets, functions and sequences                                            *)

(* Partial functions stay partial functions of larger sets. *)
LEMMA PartialFunctionsGrow ==
  ASSUME NEW S, NEW T, NEW S2, NEW T2, S \subseteq S2, T \subseteq T2
  PROVE  PartialFunctions(S, T) \subseteq PartialFunctions(S2, T2)
<1>1. SUFFICES ASSUME NEW X \in SUBSET S, NEW f \in [X -> T]
               PROVE  f \in [X -> T2] /\ X \in SUBSET S2
  BY DEF PartialFunctions
<1> QED
  OBVIOUS

(* A non-empty set of positions has a largest one, so Max picks a member. *)
LEMMA MaxIsMember ==
  ASSUME NEW n \in Nat, NEW S \in SUBSET (1..n), S # {}
  PROVE  Max(S) \in S /\ \A y \in S : Max(S) >= y
<1> DEFINE T == {n - i : i \in S}
<1>1. T \subseteq Nat /\ T # {}
  <2>1. \A i \in S : n - i \in Nat
    OBVIOUS
  <2>2. PICK i \in S : TRUE
    OBVIOUS
  <2>3. n - i \in T
    BY <2>2
  <2> QED BY <2>1, <2>3
<1>2. PICK x \in T : \A y \in T : ~(<<y, x>> \in OpToRel(<, Nat))
  <2> HIDE DEF T
  <2> QED BY <1>1, NatLessThanWellFounded, WFMin
<1>3. \A y \in T : ~(y < x)
  BY <1>1, <1>2 DEF OpToRel
<1>4. PICK m \in S : x = n - m
  OBVIOUS
<1>5. \A y \in S : m >= y
  BY <1>3, <1>4
<1> QED
  BY <1>5 DEF Max

(* Lists without repetition are sequences. *)
LEMMA SetToSeqsAreSequences ==
  ASSUME NEW S, IsFiniteSet(S), NEW s \in SetToSeqs(S)
  PROVE  s \in Seq(S)
<1>1. Cardinality(S) \in Nat
  BY FS_CardinalityType
<1>2. s \in [1..Cardinality(S) -> S]
  BY DEF SetToSeqs
<1> QED
  BY <1>1, <1>2

-----------------------------------------------------------------------------
(* The types of the rows                                                    *)

(* Appending a row to a table, and widening the type of its rows. *)
LEMMA AppendGrows ==
  ASSUME NEW S, NEW T, S \subseteq T, NEW s \in Seq(S), NEW x \in T
  PROVE  /\ Append(s, x) \in Seq(T)
         /\ DOMAIN Append(s, x) = 1..(Len(s) + 1)
         /\ DOMAIN s = 1..Len(s)
         /\ Len(s) \in Nat
         /\ Len(Append(s, x)) = Len(s) + 1
         /\ \A i \in 1..Len(s) : Append(s, x)[i] = s[i]
         /\ Append(s, x)[Len(s) + 1] = x
<1>1. s \in Seq(T)
  OBVIOUS
<1> QED
  BY <1>1

(* The tables are sequences; the ids of a table are an initial segment. *)
LEMMA Tables ==
  ASSUME TypeOK
  PROVE  /\ EvidenceIds = 1..Len(evidence) /\ Len(evidence) \in Nat
         /\ Versions = 1..Len(states) /\ Len(states) \in Nat
         /\ ActionIds = 1..Len(actions) /\ Len(actions) \in Nat
BY DEF TypeOK, EvidenceIds, Versions, ActionIds

(* NoState is a TaskState too, so Current always is one. *)
LEMMA CurrentIsTaskState ==
  ASSUME TypeOK
  PROVE  Current \in TaskState
<1>1. CASE states = <<>>
  <2>1. <<>> \in PartialFunctions(EvidenceIds, Findings)
    BY DEF PartialFunctions
  <2>2. <<>> \in Seq(EvidenceIds) /\ <<>> \in Seq(Gap)
    OBVIOUS
  <2> QED
    BY <1>1, <2>1, <2>2 DEF Current, NoState, TaskState, Statuses
<1>2. CASE states # <<>>
  BY <1>2 DEF Current, TypeOK
<1> QED
  BY <1>1, <1>2

LEMMA GapIdsAreNumbers ==
  ASSUME NEW gaps \in Seq(Gap)
  PROVE  GapIds(gaps) \subseteq Nat
<1>1. \A i \in DOMAIN gaps : gaps[i] \in Gap
  OBVIOUS
<1> QED
  BY <1>1 DEF GapIds, Gap

(* The ids in a row keep naming rows when the tables grow. *)
LEMMA RowsGrow ==
  ASSUME TypeOK, EvidenceIds \subseteq EvidenceIds', ActionIds \subseteq ActionIds',
         Len(states)' \in Nat, Len(states) <= Len(states)'
  PROVE  TaskState \subseteq TaskState' /\ ActionRow \subseteq ActionRow'
<1>1. PartialFunctions(EvidenceIds, Findings) \subseteq PartialFunctions(EvidenceIds, Findings)'
  BY PartialFunctionsGrow DEF PartialFunctions
<1>2. PartialFunctions(EvidenceIds, ActionIds) \subseteq PartialFunctions(EvidenceIds, ActionIds)'
  BY PartialFunctionsGrow DEF PartialFunctions
<1>3. Seq(EvidenceIds) \subseteq Seq(EvidenceIds')
  OBVIOUS
<1>4. 0..Len(states) \subseteq 0..Len(states)'
  BY Tables
<1>5. TaskState \subseteq TaskState'
  BY <1>1, <1>3 DEF TaskState
<1>6. ActionRow \subseteq ActionRow'
  BY <1>2, <1>4 DEF ActionRow
<1> QED
  BY <1>5, <1>6

(* Logging a row issues the next action id. *)
LEMMA LogGrows ==
  ASSUME TypeOK, NEW row, Log(row)
  PROVE  /\ actions' = Append(actions, row)
         /\ ActionIds' = 1..(Len(actions) + 1)
         /\ Len(actions') = Len(actions) + 1
         /\ ActionIds \subseteq ActionIds'
         /\ NextAction \in ActionIds'
         /\ NextAction \notin ActionIds
         /\ actions'[NextAction] = row
         /\ \A a \in ActionIds : actions'[a] = actions[a]
<1>1. actions' = Append(actions, row) /\ Len(actions) \in Nat /\ ActionIds = 1..Len(actions)
  BY Tables DEF Log
<1>2. actions \in Seq(ActionRow) /\ ActionRow \subseteq ActionRow \cup {row}
      /\ row \in ActionRow \cup {row}
  BY DEF TypeOK
<1> HIDE DEF TypeOK
<1>3. /\ DOMAIN Append(actions, row) = 1..(Len(actions) + 1)
      /\ Len(Append(actions, row)) = Len(actions) + 1
      /\ \A i \in 1..Len(actions) : Append(actions, row)[i] = actions[i]
      /\ Append(actions, row)[Len(actions) + 1] = row
  BY <1>2, AppendGrows
<1> QED
  BY <1>1, <1>3 DEF ActionIds, NextAction

(* The row every handler starts from. *)
LEMMA ActionIsRow ==
  ASSUME TypeOK, NEW kind \in Kinds
  PROVE  Action(kind) \in ActionRow
<1>1. <<>> \in PartialFunctions(EvidenceIds, ActionIds)
  BY DEF PartialFunctions
<1>2. Len(states) \in 0..Len(states) /\ 0 \in 0..Len(states)
  BY Tables
<1> QED
  BY <1>1, <1>2 DEF Action, ActionRow

(* The types after a call that logs a row and appends to no other table. *)
LEMMA LogKeepsTypes ==
  ASSUME TypeOK, NEW row, Log(row), row \in ActionRow',
         UNCHANGED <<evidence, states>>,
         submit_action_id' \in {0} \cup ActionIds',
         submitted_answer' \in Answers \cup {NoAnswer},
         visible' \in PartialFunctions(EvidenceIds, ActionIds')
  PROVE  TypeOK'
<1>1. EvidenceIds' = EvidenceIds /\ Len(states)' = Len(states) /\ Len(states) \in Nat
  BY Tables DEF EvidenceIds
<1>2. TaskState \subseteq TaskState' /\ ActionRow \subseteq ActionRow'
  BY <1>1, LogGrows, RowsGrow
<1>3. actions' \in Seq(ActionRow)'
  <2>1. actions' = Append(actions, row)
    BY LogGrows
  <2>2. actions \in Seq(ActionRow)
    BY DEF TypeOK
  <2> QED
    BY <1>2, <2>1, <2>2, AppendGrows
<1>4. evidence' \in Seq(EvidenceRow)' /\ states' \in Seq(TaskState)'
  BY <1>2 DEF TypeOK, EvidenceRow
<1> QED
  BY <1>1, <1>3, <1>4 DEF TypeOK

(* With the tables of Evidence and states as they are, the old rows, the    *)
(* visible pages and a recorded submit keep their types.                    *)
LEMMA OldTypesHold ==
  ASSUME TypeOK, NEW row, Log(row), UNCHANGED <<evidence, states>>
  PROVE  /\ ActionRow \subseteq ActionRow'
         /\ visible \in PartialFunctions(EvidenceIds, ActionIds')
         /\ submit_action_id \in {0} \cup ActionIds'
<1>1. EvidenceIds' = EvidenceIds /\ Len(states)' = Len(states) /\ Len(states) \in Nat
  BY Tables DEF EvidenceIds
<1>2. ActionRow \subseteq ActionRow'
  BY <1>1, LogGrows, RowsGrow
<1>3. visible \in PartialFunctions(EvidenceIds, ActionIds')
  BY LogGrows, PartialFunctionsGrow DEF TypeOK
<1> QED
  BY <1>2, <1>3, LogGrows DEF TypeOK

-----------------------------------------------------------------------------
(* Every action preserves the types                                         *)

LEMMA RejectKeepsTypes ==
  ASSUME TypeOK, NEW kind \in Kinds, Reject(kind)
  PROVE  TypeOK'
<1> DEFINE row == [Action(kind) EXCEPT !.legal = FALSE]
<1>1. Log(row) /\ UNCHANGED <<evidence, states, submit_action_id, submitted_answer, visible>>
  BY DEF Reject
<1>2. Action(kind) \in ActionRow'
  BY <1>1, OldTypesHold, ActionIsRow
<1>3. row \in ActionRow'
  BY <1>2 DEF ActionRow
<1> HIDE DEF row
<1> QED
  BY <1>1, <1>3, OldTypesHold, LogKeepsTypes DEF TypeOK

LEMMA SearchKeepsTypes ==
  ASSUME TypeOK, Search
  PROVE  TypeOK'
<1>1. PICK hits \in SUBSET Docs :
        /\ Log([Action("search") EXCEPT !.active_gaps = GapIds(Current.gaps), !.hits = hits])
        /\ UNCHANGED <<evidence, states, submit_action_id, submitted_answer, visible>>
  BY DEF Search
<1> DEFINE row == [Action("search") EXCEPT !.active_gaps = GapIds(Current.gaps), !.hits = hits]
<1>2. Action("search") \in ActionRow'
  BY <1>1, OldTypesHold, ActionIsRow DEF Kinds
<1>3. GapIds(Current.gaps) \subseteq Nat
  BY CurrentIsTaskState, GapIdsAreNumbers DEF TaskState
<1>4. row \in ActionRow'
  BY <1>2, <1>3 DEF ActionRow
<1>5. Log(row)
  BY <1>1
<1> HIDE DEF row
<1> QED
  BY <1>1, <1>4, <1>5, OldTypesHold, LogKeepsTypes DEF TypeOK

(* Putting a page in view. *)
LEMMA ShowKeepsType ==
  ASSUME NEW E, NEW A, NEW e \in E, NEW a \in A,
         visible \in PartialFunctions(E, A)
  PROVE  Show(e, a) \in PartialFunctions(E, A)
<1>1. PICK X \in SUBSET E : visible \in [X -> A]
  BY DEF PartialFunctions
<1>2. Show(e, a) \in [X \cup {e} -> A]
  BY <1>1 DEF Show
<1> QED
  BY <1>2 DEF PartialFunctions

LEMMA ReadEvidenceKeepsTypes ==
  ASSUME TypeOK, NEW e \in EvidenceIds, ReadEvidence(e)
  PROVE  TypeOK'
<1> DEFINE row == [Action("read_evidence") EXCEPT !.active_gaps = GapIds(Current.gaps),
                                                  !.referenced = {e}]
<1>1. /\ Log(row) /\ visible' = Show(e, NextAction)
      /\ UNCHANGED <<evidence, states, submit_action_id, submitted_answer>>
  BY DEF ReadEvidence
<1>2. EvidenceIds' = EvidenceIds
  BY <1>1 DEF EvidenceIds
<1>3. Action("read_evidence") \in ActionRow'
  BY <1>1, OldTypesHold, ActionIsRow DEF Kinds
<1>4. GapIds(Current.gaps) \subseteq Nat
  BY CurrentIsTaskState, GapIdsAreNumbers DEF TaskState
<1>5. row \in ActionRow'
  BY <1>2, <1>3, <1>4 DEF ActionRow
<1> HIDE DEF row
<1>6. visible' \in PartialFunctions(EvidenceIds, ActionIds')
  BY <1>1, OldTypesHold, LogGrows, ShowKeepsType
<1> QED
  BY <1>1, <1>5, <1>6, OldTypesHold, LogKeepsTypes DEF TypeOK

LEMMA SubmitAnswerKeepsTypes ==
  ASSUME TypeOK, SubmitAnswer
  PROVE  TypeOK'
<1> DEFINE row == [Action("submit_answer") EXCEPT !.referenced = ToSet(Current.support)]
<1>1. /\ Log(row) /\ submit_action_id' = NextAction /\ submitted_answer' = Current.answer
      /\ UNCHANGED <<evidence, states, visible>>
  BY DEF SubmitAnswer
<1>2. Action("submit_answer") \in ActionRow'
  BY <1>1, OldTypesHold, ActionIsRow DEF Kinds
<1>3. EvidenceIds' = EvidenceIds
  BY <1>1 DEF EvidenceIds
<1>4. ToSet(Current.support) \subseteq EvidenceIds
  BY CurrentIsTaskState DEF TaskState, ToSet
<1>5. row \in ActionRow'
  BY <1>2, <1>3, <1>4 DEF ActionRow
<1> HIDE DEF row
<1>6. Current.answer \in Answers \cup {NoAnswer}
  BY CurrentIsTaskState DEF TaskState
<1> QED
  BY <1>1, <1>5, <1>6, OldTypesHold, LogGrows, LogKeepsTypes

LEMMA ForgetVisibleKeepsTypes ==
  ASSUME TypeOK, ForgetVisible
  PROVE  TypeOK'
<1>1. UNCHANGED store /\ visible' = <<>>
  BY DEF ForgetVisible, NothingVisible
<1>2. /\ evidence' = evidence /\ states' = states /\ actions' = actions
      /\ submit_action_id' = submit_action_id /\ submitted_answer' = submitted_answer
  BY <1>1 DEF store
<1>3. <<>> \in PartialFunctions(EvidenceIds, ActionIds)
  BY DEF PartialFunctions
<1>4. EvidenceIds' = EvidenceIds /\ ActionIds' = ActionIds
  BY <1>2 DEF EvidenceIds, ActionIds
<1>5. TaskState' = TaskState /\ ActionRow' = ActionRow
  BY <1>2, <1>4 DEF TaskState, ActionRow
<1> QED
  BY <1>1, <1>2, <1>3, <1>4, <1>5 DEF TypeOK

(* A known page keeps its Evidence row; a new one gets the next id. *)
LEMMA OpenPageKeepsTypes ==
  ASSUME TypeOK, NEW doc \in Docs, NEW search \in ActionIds, OpenPage(doc, search)
  PROVE  TypeOK'
<1> DEFINE opening == [Action("open_page") EXCEPT !.active_gaps = GapIds(Current.gaps),
                                                  !.parents = {search}]
           known   == FindEvidence(doc)
           new     == Len(evidence) + 1
<1>1. /\ UNCHANGED <<states, submit_action_id, submitted_answer>>
      /\ doc \in Docs \ EmptyDocs
      /\ \/ /\ known # 0
            /\ Log([opening EXCEPT !.referenced = {known}])
            /\ visible' = Show(known, NextAction)
            /\ UNCHANGED evidence
         \/ /\ known = 0
            /\ Log([opening EXCEPT !.created = {new}])
            /\ visible' = Show(new, NextAction)
            /\ evidence' = Append(evidence, [doc |-> doc, created_by |-> NextAction,
                                             search |-> search])
  BY DEF OpenPage, CanOpen
<1>2. Action("open_page") \in ActionRow
  BY ActionIsRow DEF Kinds
<1>3. GapIds(Current.gaps) \subseteq Nat
  BY CurrentIsTaskState, GapIdsAreNumbers DEF TaskState
<1>4. opening \in ActionRow
  BY <1>2, <1>3 DEF ActionRow
<1>5. CASE known # 0
  <2> DEFINE row == [opening EXCEPT !.referenced = {known}]
  <2>1. Log(row) /\ visible' = Show(known, NextAction) /\ UNCHANGED evidence
    BY <1>1, <1>5
  <2>2. known \in EvidenceIds /\ EvidenceIds' = EvidenceIds
    BY <1>5, <2>1 DEF FindEvidence, EvidenceIds
  <2> HIDE DEF opening, known
  <2>3. opening \in ActionRow'
    BY <1>1, <1>4, <2>1, OldTypesHold
  <2>4. row \in ActionRow'
    BY <2>2, <2>3 DEF ActionRow
  <2> HIDE DEF row
  <2>5. visible' \in PartialFunctions(EvidenceIds, ActionIds')
    BY <1>1, <2>1, <2>2, OldTypesHold, LogGrows, ShowKeepsType
  <2> QED
    BY <1>1, <2>1, <2>4, <2>5, OldTypesHold, LogKeepsTypes DEF TypeOK
<1>6. CASE known = 0
  <2> DEFINE row  == [opening EXCEPT !.created = {new}]
             page == [doc |-> doc, created_by |-> NextAction, search |-> search]
  <2>1. Log(row) /\ visible' = Show(new, NextAction) /\ evidence' = Append(evidence, page)
    <3>1. 0 \notin EvidenceIds
      BY Tables
    <3> QED
      BY <1>1, <1>6
  <2> HIDE DEF opening, known, row
  <2>2. evidence \in Seq(EvidenceRow) /\ search \in Nat /\ NextAction \in Nat
    BY Tables DEF TypeOK, NextAction
  <2>3. page \in EvidenceRow
    BY <1>1, <2>2 DEF EvidenceRow
  <2> HIDE DEF page
  <2>4. /\ evidence' \in Seq(EvidenceRow)
        /\ EvidenceIds' = 1..(Len(evidence) + 1)
        /\ EvidenceIds = 1..Len(evidence) /\ Len(evidence) \in Nat
    BY <2>1, <2>2, <2>3, AppendGrows DEF EvidenceIds
  <2>5. Len(states)' = Len(states) /\ Len(states) \in Nat
    BY <1>1, Tables
  <2>6. TaskState \subseteq TaskState' /\ ActionRow \subseteq ActionRow'
    BY <2>1, <2>4, <2>5, LogGrows, RowsGrow
  <2>7. new \in EvidenceIds' /\ EvidenceIds \subseteq EvidenceIds'
    BY <2>4
  <2>8. row \in ActionRow'
    BY <1>4, <2>6, <2>7 DEF ActionRow, row
  <2>9. actions' \in Seq(ActionRow')
    <3>1. actions' = Append(actions, row) /\ actions \in Seq(ActionRow)
      BY <2>1, LogGrows DEF TypeOK
    <3> QED
      BY <2>6, <2>8, <3>1, AppendGrows
  <2>10. visible' \in PartialFunctions(EvidenceIds', ActionIds')
    <3>1. NextAction \in ActionIds' /\ ActionIds \subseteq ActionIds'
      BY <2>1, LogGrows
    <3>2. visible \in PartialFunctions(EvidenceIds', ActionIds')
      BY <2>7, <3>1, PartialFunctionsGrow DEF TypeOK
    <3> QED
      BY <2>1, <2>7, <3>1, <3>2, ShowKeepsType
  <2>11. submit_action_id' \in {0} \cup ActionIds'
    BY <1>1, <2>1, LogGrows DEF TypeOK
  <2>12. states' \in Seq(TaskState') /\ submitted_answer' \in Answers \cup {NoAnswer}
    BY <1>1, <2>6 DEF TypeOK
  <2> QED
    BY <2>4, <2>9, <2>10, <2>11, <2>12 DEF TypeOK, EvidenceRow
<1> QED
  BY <1>5, <1>6

(* The types after an action that appended a TaskState. *)
LEMMA VersionGrows ==
  ASSUME TypeOK, NEW row, Log(row), NEW state, states' = Append(states, state),
         UNCHANGED evidence
  PROVE  /\ TaskState \subseteq TaskState' /\ ActionRow \subseteq ActionRow'
         /\ EvidenceIds' = EvidenceIds
         /\ Len(states') = Len(states) + 1 /\ Len(states) \in Nat
<1>1. states \in Seq(TaskState) /\ TaskState \subseteq TaskState \cup {state}
      /\ state \in TaskState \cup {state}
  BY DEF TypeOK
<1>2. Len(states') = Len(states) + 1 /\ Len(states) \in Nat
  <2> HIDE DEF TypeOK
  <2> QED BY <1>1, AppendGrows
<1>3. EvidenceIds' = EvidenceIds
  BY DEF EvidenceIds
<1> QED
  BY <1>2, <1>3, LogGrows, RowsGrow

LEMMA CommitKeepsTypes ==
  ASSUME TypeOK, NEW row, Log(row), NEW state, states' = Append(states, state),
         UNCHANGED <<evidence, submit_action_id, submitted_answer>>, visible' = <<>>,
         row \in ActionRow', state \in TaskState'
  PROVE  TypeOK'
<1>1. TaskState \subseteq TaskState' /\ ActionRow \subseteq ActionRow'
  BY VersionGrows
<1>2. states \in Seq(TaskState) /\ actions \in Seq(ActionRow) /\ actions' = Append(actions, row)
  BY LogGrows DEF TypeOK
<1>3. states' \in Seq(TaskState') /\ actions' \in Seq(ActionRow')
  <2> HIDE DEF TypeOK
  <2> QED BY <1>1, <1>2, AppendGrows
<1>4. <<>> \in PartialFunctions(EvidenceIds', ActionIds')
  BY DEF PartialFunctions
<1>5. submit_action_id' \in {0} \cup ActionIds'
  BY LogGrows DEF TypeOK
<1> QED
  BY <1>3, <1>4, <1>5 DEF TypeOK, EvidenceRow

(* Merging a patch of findings for known Evidence into a directory. *)
LEMMA MergeKeepsType ==
  ASSUME NEW E, NEW T, NEW old \in PartialFunctions(E, T),
         NEW patch \in PartialFunctions(E, T)
  PROVE  Merge(old, patch) \in PartialFunctions(E, T)
<1>1. PICK X \in SUBSET E : old \in [X -> T]
  BY DEF PartialFunctions
<1>2. PICK Y \in SUBSET E : patch \in [Y -> T]
  BY DEF PartialFunctions
<1>3. Merge(old, patch) \in [X \cup Y -> T]
  BY <1>1, <1>2 DEF Merge
<1> QED
  BY <1>3 DEF PartialFunctions

(* Evidence is finite, so every list of it is a sequence. *)
LEMMA SupportListsAreSequences ==
  ASSUME TypeOK, NEW support \in SupportLists
  PROVE  support \in Seq(EvidenceIds)
<1>1. PICK ids \in SUBSET EvidenceIds : support \in SetToSeqs(ids)
  BY DEF SupportLists
<1>2. IsFiniteSet(EvidenceIds)
  BY Tables, FS_Interval
<1>3. IsFiniteSet(ids)
  BY <1>2, FS_Subset
<1>4. support \in Seq(ids)
  BY <1>1, <1>3, SetToSeqsAreSequences
<1> QED
  BY <1>4

LEMMA UpdateStateKeepsTypes ==
  ASSUME TypeOK, NEW answer \in Answers \cup {NoAnswer}, NEW patch \in Patches,
         NEW support \in SupportLists, UpdateState(answer, patch, support)
  PROVE  TypeOK'
<1> DEFINE old     == Current
           new     == Merge(old.directory, patch)
           inputs  == [e \in Changed(old.directory, patch) |-> visible[e]]
           other_answer  == states = <<>> \/ old.answer # answer
           other_support == states = <<>> \/ old.support # support
           row     == [Action("update_state") EXCEPT
                         !.after           = Len(states) + 1,
                         !.parents         = Range(inputs),
                         !.referenced      = DOMAIN new,
                         !.active_gaps     = GapIds(old.gaps),
                         !.inputs          = inputs,
                         !.changed         = Changed(old.directory, new),
                         !.answer_changed  = other_answer,
                         !.support_changed = other_support]
           state   == [directory  |-> new,
                       answer     |-> answer,
                       support    |-> support,
                       gaps       |-> old.gaps,
                       status     |-> "unverified",
                       created_by |-> NextAction]
<1>1. /\ CanUpdate(answer, patch, support) /\ Log(row) /\ states' = Append(states, state)
      /\ visible' = <<>> /\ UNCHANGED <<evidence, submit_action_id, submitted_answer>>
  BY DEF UpdateState, NothingVisible
<1>2. /\ ActionRow \subseteq ActionRow' /\ TaskState \subseteq TaskState'
      /\ EvidenceIds' = EvidenceIds /\ Len(states)' = Len(states) + 1 /\ Len(states) \in Nat
  BY <1>1, VersionGrows
<1>3. old \in TaskState /\ GapIds(old.gaps) \subseteq Nat
  BY CurrentIsTaskState, GapIdsAreNumbers DEF TaskState
<1>4. patch \in PartialFunctions(EvidenceIds, Findings)
  BY DEF Patches, PartialFunctions
<1>5. new \in PartialFunctions(EvidenceIds, Findings)
  BY <1>3, <1>4, MergeKeepsType DEF TaskState
<1>6. support \in Seq(EvidenceIds)
  BY SupportListsAreSequences
<1>7. NextAction \in Nat
  BY Tables DEF NextAction
<1>8. state \in TaskState
  BY <1>3, <1>5, <1>6, <1>7 DEF TaskState, Statuses
<1>9. Changed(old.directory, patch) \subseteq DOMAIN visible
  BY <1>1 DEF CanUpdate
<1>10. PICK V \in SUBSET EvidenceIds : visible \in [V -> ActionIds]
  BY DEF TypeOK, PartialFunctions
<1>11. inputs \in [Changed(old.directory, patch) -> ActionIds]
  BY <1>9, <1>10
<1>12. inputs \in PartialFunctions(EvidenceIds, ActionIds)
  BY <1>9, <1>10, <1>11 DEF PartialFunctions
<1>13. Range(inputs) \subseteq ActionIds
  BY <1>11 DEF Range
<1>14. DOMAIN new \subseteq EvidenceIds /\ Changed(old.directory, new) \subseteq EvidenceIds
  BY <1>5 DEF PartialFunctions, Changed
<1>15. ActionIds \subseteq ActionIds'
  BY <1>1, LogGrows
<1>16. inputs \in PartialFunctions(EvidenceIds', ActionIds')
  BY <1>2, <1>12, <1>15, PartialFunctionsGrow
<1>17. Action("update_state") \in ActionRow'
  BY <1>2, ActionIsRow DEF Kinds
<1>18. row \in ActionRow'
  <2>1. other_answer \in BOOLEAN /\ other_support \in BOOLEAN
    OBVIOUS
  <2>2. Len(states) + 1 \in 0..Len(states)'
    BY <1>2
  <2>3. /\ Range(inputs) \subseteq ActionIds'
        /\ DOMAIN new \subseteq EvidenceIds' /\ Changed(old.directory, new) \subseteq EvidenceIds'
    BY <1>2, <1>13, <1>14, <1>15
  <2> HIDE DEF inputs, new, old, other_answer, other_support
  <2> QED
    BY <1>3, <1>16, <1>17, <2>1, <2>2, <2>3 DEF ActionRow
<1> HIDE DEF row, state
<1> QED
  BY <1>1, <1>2, <1>8, <1>18, CommitKeepsTypes

(* The number of distinct gap ids is a number: every state has finitely     *)
(* many gaps and there are finitely many states.                            *)
LEMMA GapsAreFinite ==
  ASSUME TypeOK
  PROVE  IsFiniteSet(AllGapIds) /\ Cardinality(AllGapIds) \in Nat
<1> DEFINE ids == [v \in Versions |-> GapIds(states[v].gaps)]
           all == {ids[v] : v \in Versions}
<1>1. \A v \in Versions : IsFiniteSet(GapIds(states[v].gaps))
  <2> TAKE v \in Versions
  <2> DEFINE gaps == states[v].gaps
             f    == [i \in DOMAIN gaps |-> gaps[i].gap_id]
  <2>1. gaps \in Seq(Gap)
    <3>1. states[v] \in TaskState
      BY DEF TypeOK, Versions
    <3> QED
      BY <3>1 DEF TaskState
  <2>2. DOMAIN gaps = 1..Len(gaps) /\ Len(gaps) \in Nat
    BY <2>1
  <2>3. IsFiniteSet(DOMAIN gaps)
    BY <2>2, FS_Interval
  <2>4. f \in Surjection(DOMAIN gaps, GapIds(gaps))
    BY DEF Surjection, GapIds
  <2> HIDE DEF gaps, f
  <2>5. IsFiniteSet(GapIds(gaps))
    BY <2>3, <2>4, FS_Surjection
  <2> QED
    BY <2>5 DEF gaps
<1>2. IsFiniteSet(Versions)
  BY Tables, FS_Interval
<1>3. ids \in Surjection(Versions, all)
  BY DEF Surjection
<1>4. IsFiniteSet(all)
  <2> HIDE DEF ids, all
  <2> QED BY <1>2, <1>3, FS_Surjection
<1>5. \A g \in all : IsFiniteSet(g)
  BY <1>1
<1>6. IsFiniteSet(UNION all)
  <2> HIDE DEF all
  <2> QED BY <1>4, <1>5, FS_UNION
<1>7. UNION all = AllGapIds
  BY DEF AllGapIds
<1> QED
  BY <1>6, <1>7, FS_CardinalityType

(* The gaps of a verdict: an open one keeps its record, found by OldGap;    *)
(* the others are numbered.                                                 *)
LEMMA GapsForAreGaps ==
  ASSUME TypeOK, NEW n \in Nat, NEW texts \in [1..n -> GapTexts]
  PROVE  GapsFor(texts) \in [1..n -> Gap]
<1> DEFINE Fresh(i) == {k \in 1..i : OldGap(texts[k]) = 0}
           gap(i)   == IF OldGap(texts[i]) # 0
                       THEN Current.gaps[OldGap(texts[i])]
                       ELSE [gap_id     |-> Cardinality(AllGapIds) + Cardinality(Fresh(i)),
                             text       |-> texts[i],
                             created_by |-> NextAction]
<1>1. SUFFICES ASSUME NEW i \in 1..n
               PROVE  gap(i) \in Gap
  BY DEF GapsFor
<1>2. CASE OldGap(texts[i]) # 0
  <2> DEFINE same == {j \in DOMAIN Current.gaps : Current.gaps[j].text = texts[i]}
  <2>1. Current.gaps \in Seq(Gap)
    BY CurrentIsTaskState DEF TaskState
  <2>2. same \subseteq 1..Len(Current.gaps) /\ Len(Current.gaps) \in Nat
    BY <2>1
  <2>3. same # {} /\ OldGap(texts[i]) = Max(same)
    BY <1>2 DEF OldGap
  <2>4. Max(same) \in same
    <3> HIDE DEF same
    <3> QED BY <2>2, <2>3, MaxIsMember
  <2>5. OldGap(texts[i]) \in DOMAIN Current.gaps
    BY <2>3, <2>4
  <2>6. \A j \in DOMAIN Current.gaps : Current.gaps[j] \in Gap
    BY <2>1
  <2> HIDE DEF same
  <2> QED
    BY <1>2, <2>5, <2>6
<1>3. CASE OldGap(texts[i]) = 0
  <2>1. IsFiniteSet(1..i)
    BY FS_Interval
  <2>2. IsFiniteSet(Fresh(i))
    BY <2>1, FS_Subset
  <2>3. Cardinality(Fresh(i)) \in Nat
    BY <2>2, FS_CardinalityType
  <2>4. Cardinality(AllGapIds) \in Nat /\ NextAction \in Nat
    BY GapsAreFinite, Tables DEF NextAction
  <2> HIDE DEF Fresh
  <2> QED
    BY <1>3, <2>3, <2>4 DEF Gap
<1> QED
  BY <1>2, <1>3

LEMMA VerifyAnswerKeepsTypes ==
  ASSUME TypeOK, NEW status \in Statuses, NEW texts \in GapLists, VerifyAnswer(status, texts)
  PROVE  TypeOK'
<1> DEFINE gaps    == GapsFor(texts)
           old_ids == GapIds(Current.gaps)
           new_ids == GapIds(gaps)
           row     == [Action("verify_answer") EXCEPT
                         !.after         = Len(states) + 1,
                         !.referenced    = ToSet(Current.support),
                         !.active_gaps   = old_ids,
                         !.created_gaps  = new_ids \ old_ids,
                         !.resolved_gaps = old_ids \ new_ids]
           state   == [Current EXCEPT !.gaps = gaps, !.status = status,
                                      !.created_by = NextAction]
<1>1. /\ Log(row) /\ states' = Append(states, state) /\ visible' = <<>>
      /\ UNCHANGED <<evidence, submit_action_id, submitted_answer>>
  BY DEF VerifyAnswer, NothingVisible
<1>2. /\ ActionRow \subseteq ActionRow' /\ TaskState \subseteq TaskState'
      /\ EvidenceIds' = EvidenceIds /\ Len(states)' = Len(states) + 1 /\ Len(states) \in Nat
  BY <1>1, VersionGrows
<1>3. Current \in TaskState /\ old_ids \subseteq Nat
  BY CurrentIsTaskState, GapIdsAreNumbers DEF TaskState
<1>4. gaps \in Seq(Gap)
  <2>1. PICK n \in 0..MaxGaps : texts \in [1..n -> GapTexts]
    BY DEF GapLists
  <2>2. n \in Nat
    BY BoundsAssumption
  <2>3. gaps \in [1..n -> Gap]
    BY <2>1, <2>2, GapsForAreGaps
  <2> HIDE DEF gaps
  <2> QED BY <2>2, <2>3
<1>5. new_ids \subseteq Nat
  BY <1>4, GapIdsAreNumbers
<1>6. NextAction \in Nat
  BY Tables DEF NextAction
<1>7. state \in TaskState
  <2> HIDE DEF gaps
  <2> QED BY <1>3, <1>4, <1>6 DEF TaskState
<1>8. ToSet(Current.support) \subseteq EvidenceIds'
  BY <1>2, <1>3 DEF TaskState, ToSet
<1>9. Action("verify_answer") \in ActionRow'
  BY <1>2, ActionIsRow DEF Kinds
<1>10. row \in ActionRow'
  <2>1. Len(states) + 1 \in 0..Len(states)'
    BY <1>2
  <2> HIDE DEF old_ids, new_ids
  <2> QED
    BY <1>3, <1>5, <1>8, <1>9, <2>1 DEF ActionRow
<1> HIDE DEF row, state
<1> QED
  BY <1>1, <1>2, <1>7, <1>10, CommitKeepsTypes

-----------------------------------------------------------------------------

LEMMA InitHasTypes ==
  ASSUME Init
  PROVE  TypeOK
<1>1. <<>> \in PartialFunctions(EvidenceIds, ActionIds)
  BY DEF PartialFunctions
<1>2. \A S : <<>> \in Seq(S)
  OBVIOUS
<1> QED
  BY <1>1, <1>2 DEF Init, TypeOK

(* A step that changes nothing, or nothing that TypeOK looks at. *)
LEMMA StutterKeepsTypes ==
  ASSUME TypeOK, UNCHANGED vars
  PROVE  TypeOK'
<1>1. /\ evidence' = evidence /\ states' = states /\ actions' = actions /\ visible' = visible
      /\ submit_action_id' = submit_action_id /\ submitted_answer' = submitted_answer
  BY DEF vars, store
<1>2. EvidenceIds' = EvidenceIds /\ ActionIds' = ActionIds
  BY <1>1 DEF EvidenceIds, ActionIds
<1>3. TaskState' = TaskState /\ ActionRow' = ActionRow
  BY <1>1, <1>2 DEF TaskState, ActionRow
<1> QED
  BY <1>1, <1>2, <1>3 DEF TypeOK

LEMMA NextKeepsTypes ==
  ASSUME TypeOK, Next
  PROVE  TypeOK'
<1>1. CASE Retrieve
  BY <1>1, SearchKeepsTypes, OpenPageKeepsTypes, ReadEvidenceKeepsTypes DEF Retrieve
<1>2. CASE Revise
  BY <1>2, UpdateStateKeepsTypes, VerifyAnswerKeepsTypes, SubmitAnswerKeepsTypes DEF Revise
<1>3. CASE Rejected
  BY <1>3, RejectKeepsTypes
     DEF Rejected, Kinds, SearchRejected, OpenPageRejected, ReadEvidenceRejected,
         UpdateStateRejected, VerifyAnswerRejected, SubmitAnswerRejected
<1>4. CASE ForgetVisible
  BY <1>4, ForgetVisibleKeepsTypes
<1> QED
  BY <1>1, <1>2, <1>3, <1>4 DEF Next

(* The tables hold rows of the types of models.py, and every id in them     *)
(* names a row that exists, through every sequence of calls.                *)
THEOREM TypeCorrect == Spec => []TypeOK
<1>1. Init => TypeOK
  BY InitHasTypes
<1>2. TypeOK /\ [Next]_vars => TypeOK'
  BY NextKeepsTypes, StutterKeepsTypes
<1> QED
  BY <1>1, <1>2, PTL DEF Spec

=============================================================================
