---------------------------- MODULE ReaderProofs ----------------------------
(***************************************************************************)
(* Proofs about the two readers of a ledger: what the credit router selects *)
(* in every episode, and that every episode passes the audit, whatever the  *)
(* policy did and however long the ledger is.                               *)
(***************************************************************************)
EXTENDS EpisodeAudit, Credit, ESRSafetyProofs

-----------------------------------------------------------------------------
(* What the router can rely on                                              *)

(* The current version was appended by the last writer, and has the content *)
(* of the last update.                                                      *)
CurrentIsLatest ==
  states # <<>> =>
    /\ Current.created_by \in Writers /\ \A w \in Writers : w <= Current.created_by
    /\ \E u \in Updates : HasFinalContent(StateAfter(u)) /\ \A x \in Updates : x <= u

(* No writer comes after an action that saw the current version.            *)
WritersPrecede ==
  \A a \in ActionIds : actions[a].before = Len(states) => \A w \in Writers : w < a

(* Evidence was archived by an open_page of a page some search returned.    *)
HasOrigin(e) ==
  /\ evidence[e].created_by \in LegalOf("open_page")
  /\ e \in actions[evidence[e].created_by].created
  /\ evidence[e].search \in LegalOf("search")
  /\ evidence[e].search < evidence[e].created_by

EvidenceHasOrigin == \A e \in EvidenceIds : HasOrigin(e)

SupportIsIndexed == FinalSupport \subseteq DOMAIN Current.directory

UpdatesTellChanges ==
  \A u \in Updates :
    actions[u].changed = Changed(StateBefore(u).directory, StateAfter(u).directory)

(* Each finding and each supporting Evidence of the current version came in *)
(* with some update.                                                        *)
WroteFinding(u, e) ==
  HasFinalFinding(StateAfter(u), e) /\ ~HasFinalFinding(StateBefore(u), e)

FindingsCameIn == \A e \in DOMAIN Current.directory : \E u \in Updates : WroteFinding(u, e)

AdoptedSupport(u, e) ==
  e \in ToSet(StateAfter(u).support) /\ e \notin ToSet(StateBefore(u).support)

SupportCameIn == \A e \in FinalSupport : \E u \in Updates : AdoptedSupport(u, e)

(* The gaps open at an action are those the verify before it left.          *)
LeftGaps(s) == GapIds(StateAfter(s).gaps)

OpenGapsWereLeft ==
  Current.gaps # <<>> =>
    \E s \in Verifications :
      GapIds(Current.gaps) = LeftGaps(s) /\ \A x \in Verifications : x <= s

ActiveGapsWereLeft ==
  \A a \in Legal : actions[a].active_gaps # {} =>
    \E s \in Verifications :
      /\ s < a /\ actions[a].active_gaps = LeftGaps(s)
      /\ \A x \in Verifications : x < a => x <= s

(* A gap that a verify left is open now, or a later verify resolved it.     *)
LeftGapsAreResolved ==
  \A s \in Verifications : \A g \in LeftGaps(s) :
    \/ g \in GapIds(Current.gaps)
    \/ \E r \in Verifications : s < r /\ g \in actions[r].resolved_gaps

Routed ==
  /\ TypeOK
  /\ CurrentIsLatest /\ WritersPrecede
  /\ EvidenceHasOrigin /\ SupportIsIndexed
  /\ UpdatesTellChanges /\ FindingsCameIn /\ SupportCameIn
  /\ OpenGapsWereLeft /\ ActiveGapsWereLeft /\ LeftGapsAreResolved

-----------------------------------------------------------------------------
(* The steps of an episode, by what the router sees of them                 *)

(* A call that writes no TaskState: it may archive a page.                  *)
Archives(row) ==
  \E doc, search :
    /\ row.legal /\ row.kind = "open_page" /\ row.created = {Len(evidence) + 1}
    /\ search \in LegalOf("search")
    /\ evidence' = Append(evidence, [doc |-> doc, created_by |-> NextAction, search |-> search])

Quiet(row) ==
  /\ Log(row) /\ states' = states /\ row.before = Len(states)
  /\ row.legal => /\ row.kind \notin {"update_state", "verify_answer"}
                  /\ row.active_gaps \in {{}, GapIds(Current.gaps)}
  /\ evidence' = evidence \/ Archives(row)

Writes(row, state) ==
  /\ Log(row) /\ states' = Append(states, state) /\ evidence' = evidence
  /\ row.legal /\ row.before = Len(states) /\ row.after = Len(states) + 1
  /\ row.active_gaps = GapIds(Current.gaps)
  /\ state.created_by = NextAction

Updating(row, state) ==
  /\ Writes(row, state) /\ row.kind = "update_state"
  /\ row.changed = Changed(Current.directory, state.directory)
  /\ state.gaps = Current.gaps /\ state.status = "unverified"
  /\ ToSet(state.support) \subseteq DOMAIN state.directory
  /\ DOMAIN state.directory = EvidenceIds

Judging(row, state) ==
  /\ Writes(row, state) /\ row.kind = "verify_answer" /\ states # <<>> /\ Missing = {}
  /\ row.resolved_gaps = GapIds(Current.gaps) \ GapIds(state.gaps)
  /\ state.answer = Current.answer
  /\ state.support = Current.support
  /\ state.directory = Current.directory

LEMMA RejectIsQuiet ==
  ASSUME NEW kind, Reject(kind)
  PROVE  \E row : Quiet(row)
<1>1. PICK row : /\ Log(row) /\ row.kind = kind /\ row.legal = FALSE /\ row.before = Len(states)
  BY RejectLogs DEF Logs
<1>2. evidence' = evidence /\ states' = states
  BY RejectLogs
<1> QED
  BY <1>1, <1>2 DEF Quiet

LEMMA SearchIsQuiet ==
  ASSUME Search
  PROVE  \E row : Quiet(row)
<1>1. PICK hits \in SUBSET Docs :
        /\ Log([Action("search") EXCEPT !.active_gaps = GapIds(Current.gaps), !.hits = hits])
        /\ UNCHANGED <<evidence, states, submit_action_id, submitted_answer, visible>>
  BY DEF Search
<1> DEFINE row == [Action("search") EXCEPT !.active_gaps = GapIds(Current.gaps), !.hits = hits]
<1>2. row.kind = "search" /\ row.before = Len(states) /\ row.active_gaps = GapIds(Current.gaps)
  BY DEF Action
<1>3. Log(row) /\ evidence' = evidence /\ states' = states
  BY <1>1
<1> HIDE DEF row
<1> QED
  BY <1>2, <1>3 DEF Quiet

LEMMA OpenPageIsQuiet ==
  ASSUME NEW doc, NEW search, OpenPage(doc, search)
  PROVE  \E row : Quiet(row)
<1> DEFINE opening == [Action("open_page") EXCEPT !.active_gaps = GapIds(Current.gaps),
                                                  !.parents = {search}]
           known   == FindEvidence(doc)
           new     == Len(evidence) + 1
           old_row == [opening EXCEPT !.referenced = {known}]
           new_row == [opening EXCEPT !.created = {new}]
<1>1. CanOpen(doc, search) /\ states' = states
  BY DEF OpenPage
<1>2. \/ Log(old_row) /\ evidence' = evidence
      \/ /\ Log(new_row)
         /\ evidence' = Append(evidence, [doc |-> doc, created_by |-> NextAction, search |-> search])
  BY DEF OpenPage
<1>3. search \in LegalOf("search")
  BY <1>1 DEF CanOpen, LegalOf
<1>4. /\ old_row.kind = "open_page" /\ old_row.legal /\ old_row.before = Len(states)
      /\ old_row.active_gaps = GapIds(Current.gaps)
  <2> HIDE DEF known
  <2> QED BY DEF Action
<1>5. /\ new_row.kind = "open_page" /\ new_row.legal /\ new_row.before = Len(states)
      /\ new_row.active_gaps = GapIds(Current.gaps) /\ new_row.created = {new}
  <2> HIDE DEF new
  <2> QED BY DEF Action
<1> HIDE DEF old_row, new_row
<1>6. CASE Log(old_row) /\ evidence' = evidence
  BY <1>1, <1>4, <1>6 DEF Quiet
<1>7. CASE /\ Log(new_row)
           /\ evidence' = Append(evidence, [doc |-> doc, created_by |-> NextAction, search |-> search])
  <2>1. Archives(new_row)
    BY <1>3, <1>5, <1>7 DEF Archives
  <2> QED
    BY <1>1, <1>5, <1>7, <2>1 DEF Quiet
<1> QED
  BY <1>2, <1>6, <1>7

LEMMA ReadEvidenceIsQuiet ==
  ASSUME NEW e, ReadEvidence(e)
  PROVE  \E row : Quiet(row)
<1> DEFINE row == [Action("read_evidence") EXCEPT !.active_gaps = GapIds(Current.gaps),
                                                  !.referenced = {e}]
<1>1. Log(row) /\ evidence' = evidence /\ states' = states
  BY DEF ReadEvidence
<1>2. row.kind = "read_evidence" /\ row.before = Len(states) /\ row.active_gaps = GapIds(Current.gaps)
  BY DEF Action
<1> HIDE DEF row
<1> QED
  BY <1>1, <1>2 DEF Quiet

LEMMA SubmitAnswerIsQuiet ==
  ASSUME SubmitAnswer
  PROVE  \E row : Quiet(row)
<1> DEFINE row == [Action("submit_answer") EXCEPT !.referenced = ToSet(Current.support)]
<1>1. Log(row) /\ evidence' = evidence /\ states' = states
  BY DEF SubmitAnswer
<1>2. row.kind = "submit_answer" /\ row.before = Len(states) /\ row.active_gaps = {}
  BY DEF Action
<1> HIDE DEF row
<1> QED
  BY <1>1, <1>2 DEF Quiet

LEMMA UpdateStateIsUpdating ==
  ASSUME NEW answer, NEW patch, NEW support, UpdateState(answer, patch, support)
  PROVE  \E row, state : Updating(row, state)
<1> DEFINE old    == Current
           new    == Merge(old.directory, patch)
           inputs == [e \in Changed(old.directory, patch) |-> visible[e]]
           row    == [Action("update_state") EXCEPT
                        !.after           = Len(states) + 1,
                        !.parents         = Range(inputs),
                        !.referenced      = DOMAIN new,
                        !.active_gaps     = GapIds(old.gaps),
                        !.inputs          = inputs,
                        !.changed         = Changed(old.directory, new),
                        !.answer_changed  = states = <<>> \/ old.answer # answer,
                        !.support_changed = states = <<>> \/ old.support # support]
           state  == [directory  |-> new,
                      answer     |-> answer,
                      support    |-> support,
                      gaps       |-> old.gaps,
                      status     |-> "unverified",
                      created_by |-> NextAction]
<1>1. CanUpdate(answer, patch, support) /\ Log(row) /\ states' = Append(states, state) /\ evidence' = evidence
  BY DEF UpdateState
<1>2. ToSet(support) \subseteq DOMAIN new /\ DOMAIN new = EvidenceIds
  BY <1>1 DEF CanUpdate
<1>3. /\ row.legal /\ row.kind = "update_state"
      /\ row.before = Len(states) /\ row.after = Len(states) + 1
      /\ row.active_gaps = GapIds(Current.gaps)
      /\ row.changed = Changed(old.directory, new)
  <2> HIDE DEF inputs, new
  <2> QED BY DEF Action
<1>4. /\ state.directory = new /\ state.support = support /\ state.gaps = Current.gaps
      /\ state.created_by = NextAction /\ state.status = "unverified"
  OBVIOUS
<1> HIDE DEF row, state
<1>5. Writes(row, state)
  BY <1>1, <1>3, <1>4 DEF Writes
<1> HIDE DEF new
<1>6. Updating(row, state)
  BY <1>2, <1>3, <1>4, <1>5 DEF Updating
<1> QED
  BY <1>6

LEMMA VerifyAnswerIsJudging ==
  ASSUME TypeOK, NEW status, NEW texts, VerifyAnswer(status, texts)
  PROVE  \E row, state : Judging(row, state)
<1> DEFINE old_ids == GapIds(Current.gaps)
           new_ids == GapIds(GapsFor(texts))
           row     == [Action("verify_answer") EXCEPT
                         !.after         = Len(states) + 1,
                         !.referenced    = ToSet(Current.support),
                         !.active_gaps   = old_ids,
                         !.created_gaps  = new_ids \ old_ids,
                         !.resolved_gaps = old_ids \ new_ids]
           state   == [Current EXCEPT !.gaps = GapsFor(texts),
                                      !.status = status,
                                      !.created_by = NextAction]
<1>1. CanVerify /\ states' = Append(states, state) /\ Log(row) /\ evidence' = evidence
  BY DEF VerifyAnswer
<1>2. /\ state.gaps = GapsFor(texts) /\ state.created_by = NextAction
      /\ state.answer = Current.answer /\ state.support = Current.support
      /\ state.directory = Current.directory
  <2>1. Current \in TaskState
    BY CurrentIsTaskState
  <2> QED
    BY <2>1 DEF TaskState
<1>3. /\ row.legal /\ row.kind = "verify_answer"
      /\ row.before = Len(states) /\ row.after = Len(states) + 1
      /\ row.active_gaps = old_ids /\ row.resolved_gaps = old_ids \ new_ids
  <2> HIDE DEF old_ids, new_ids
  <2> QED BY DEF Action
<1>4. states # <<>> /\ Missing = {}
  BY <1>1 DEF CanVerify
<1> HIDE DEF row, state
<1>5. Writes(row, state)
  BY <1>1, <1>2, <1>3 DEF Writes
<1>6. Judging(row, state)
  BY <1>2, <1>3, <1>4, <1>5 DEF Judging
<1> QED
  BY <1>6

(* Every step is one of these, or only forgets what is in view.             *)
LEMMA StepsAre ==
  ASSUME TypeOK, Next
  PROVE  \/ \E row : Quiet(row)
         \/ \E row, state : Updating(row, state)
         \/ \E row, state : Judging(row, state)
         \/ UNCHANGED store
<1>1. CASE Retrieve
  BY <1>1, SearchIsQuiet, OpenPageIsQuiet, ReadEvidenceIsQuiet DEF Retrieve
<1>2. CASE Revise
  BY <1>2, UpdateStateIsUpdating, VerifyAnswerIsJudging, SubmitAnswerIsQuiet DEF Revise
<1>3. CASE Rejected
  BY <1>3, RejectIsQuiet
     DEF Rejected, SearchRejected, OpenPageRejected, ReadEvidenceRejected,
         UpdateStateRejected, VerifyAnswerRejected, SubmitAnswerRejected
<1>4. CASE ForgetVisible
  BY <1>4 DEF ForgetVisible
<1> QED
  BY <1>1, <1>2, <1>3, <1>4 DEF Next

-----------------------------------------------------------------------------
(* What a step leaves as it was                                             *)

LEMMA LedgerSets ==
  /\ Updates = LegalOf("update_state") /\ Verifications = LegalOf("verify_answer")
  /\ Writers = Updates \cup Verifications
  /\ Updates \subseteq Legal /\ Verifications \subseteq Legal /\ Legal \subseteq ActionIds
BY DEF Updates, Verifications, Legal, LegalOf, Writers

LEMMA RowTypes ==
  ASSUME TypeOK, NEW a \in ActionIds
  PROVE  /\ actions[a].before \in 0..Len(states) /\ actions[a].after \in 0..Len(states)
         /\ actions[a].created \subseteq EvidenceIds /\ actions[a].referenced \subseteq EvidenceIds
         /\ a \in Nat /\ a < NextAction /\ NextAction \in Nat
<1>1. actions[a] \in ActionRow
  BY DEF TypeOK, ActionIds
<1>2. a \in Nat /\ a < NextAction /\ NextAction \in Nat
  BY LedgerSubsets
<1> QED
  BY <1>1, <1>2 DEF ActionRow

LEMMA CurrentIsLast ==
  ASSUME TypeOK
  PROVE  Current = StateAt(Len(states))
<1>1. states \in Seq(TaskState)
  BY DEF TypeOK
<1>2. CASE states = <<>>
  BY <1>2 DEF Current, StateAt
<1>3. CASE states # <<>>
  <2>1. Len(states) # 0
    BY <1>1, <1>3
  <2> QED
    BY <1>3, <2>1 DEF Current, StateAt
<1> QED
  BY <1>2, <1>3

(* Rows keep the versions they name.                                        *)
LEMMA RowsStay ==
  ASSUME TypeOK, NEW row, Log(row), states' = states \/ \E state : states' = Append(states, state),
         NEW a \in ActionIds
  PROVE  /\ a \in ActionIds' /\ actions'[a] = actions[a]
         /\ StateAfter(a)' = StateAfter(a) /\ StateBefore(a)' = StateBefore(a)
<1>1. a \in ActionIds' /\ actions'[a] = actions[a]
  BY LogGrows
<1>2. \A v \in 0..Len(states) : StateAt(v)' = StateAt(v)
  <2>1. ASSUME NEW v \in 0..Len(states), v # 0 PROVE states'[v] = states[v]
    <3>1. v \in Versions
      BY <2>1, Tables
    <3> QED
      BY <3>1, VersionsStay
  <2> QED
    BY <2>1 DEF StateAt, NoState
<1>3. actions[a].before \in 0..Len(states) /\ actions[a].after \in 0..Len(states)
  BY RowTypes
<1> QED
  BY <1>1, <1>2, <1>3 DEF StateAfter, StateBefore

LEMMA LegalGrows ==
  ASSUME TypeOK, NEW row, Log(row)
  PROVE  Legal' = Legal \cup IF row.legal THEN {NextAction} ELSE {}
<1>1. ActionIds' = ActionIds \cup {NextAction}
  BY Tables, LogGrows DEF NextAction
<1>2. actions'[NextAction] = row /\ \A a \in ActionIds : actions'[a] = actions[a]
  BY LogGrows
<1> QED
  BY <1>1, <1>2 DEF Legal

LEMMA QuietLeaves ==
  ASSUME TypeOK, NEW row, Quiet(row)
  PROVE  /\ Log(row) /\ ArchiveGrows
         /\ Updates' = Updates /\ Verifications' = Verifications /\ Writers' = Writers
         /\ Current' = Current /\ FinalSupport' = FinalSupport
         /\ \A a \in ActionIds : /\ a \in ActionIds' /\ actions'[a] = actions[a]
                                 /\ StateAfter(a)' = StateAfter(a)
                                 /\ StateBefore(a)' = StateBefore(a)
<1>1. Log(row) /\ states' = states
  BY DEF Quiet
<1>2. row.legal => row.kind \notin {"update_state", "verify_answer"}
  BY DEF Quiet
<1>3. LegalOf("update_state")' = LegalOf("update_state") /\ LegalOf("verify_answer")' = LegalOf("verify_answer")
  BY <1>1, <1>2, LegalOfGrows
<1>4. Updates' = Updates /\ Verifications' = Verifications /\ Writers' = Writers
  BY <1>3 DEF Updates, Verifications, Legal, LegalOf, Writers
<1>5. Current' = Current /\ FinalSupport' = FinalSupport
  BY <1>1 DEF Current, FinalSupport
<1>6. ArchiveGrows
  BY DEF Quiet, Archives, ArchiveGrows
<1> QED
  BY <1>1, <1>4, <1>5, <1>6, RowsStay

LEMMA WritesAdds ==
  ASSUME TypeOK, NEW row, NEW state, Writes(row, state), NEW n, n = NextAction
  PROVE  /\ Log(row)
         /\ Updates' = Updates \cup IF row.kind = "update_state" THEN {n} ELSE {}
         /\ Verifications' = Verifications \cup IF row.kind = "verify_answer" THEN {n} ELSE {}
         /\ Legal' = Legal \cup {n}
         /\ n \in Nat /\ \A a \in ActionIds : a \in Nat /\ a < n
         /\ states' # <<>> /\ Current' = state /\ FinalSupport' = ToSet(state.support)
         /\ ActionIds' = ActionIds \cup {n} /\ actions'[n] = row
         /\ StateAfter(n)' = state /\ StateBefore(n)' = Current
         /\ Len(states') = Len(states) + 1 /\ Len(states) \in Nat
         /\ \A a \in ActionIds : /\ a \in ActionIds' /\ actions'[a] = actions[a]
                                 /\ StateAfter(a)' = StateAfter(a)
                                 /\ StateBefore(a)' = StateBefore(a)
<1>1. Log(row) /\ states' = Append(states, state)
  BY DEF Writes
<1>2. /\ LegalOf("update_state")' = LegalOf("update_state") \cup IF row.kind = "update_state" THEN {n} ELSE {}
      /\ LegalOf("verify_answer")' = LegalOf("verify_answer") \cup IF row.kind = "verify_answer" THEN {n} ELSE {}
      /\ Legal' = Legal \cup {n}
  BY <1>1, LegalOfGrows, LegalGrows DEF Writes
<1>3. /\ Updates' = Updates \cup IF row.kind = "update_state" THEN {n} ELSE {}
      /\ Verifications' = Verifications \cup IF row.kind = "verify_answer" THEN {n} ELSE {}
  <2>1. Updates' = LegalOf("update_state")' /\ Verifications' = LegalOf("verify_answer")'
    BY DEF Updates, Verifications, Legal, LegalOf
  <2> QED
    BY <1>2, <2>1, LedgerSets
<1>4. n \in Nat /\ \A a \in ActionIds : a \in Nat /\ a < n
  BY LedgerSubsets
<1> DEFINE v == Len(states) + 1
<1>5. states'[v] = state /\ Current' = state /\ \A w \in Versions : states'[w] = states[w]
  BY <1>1, NewVersion
<1>6. states \in Seq(TaskState) /\ TaskState \subseteq TaskState \cup {state} /\ state \in TaskState \cup {state}
  BY DEF TypeOK
<1>7. Len(states') = Len(states) + 1 /\ Len(states) \in Nat /\ states' # <<>>
  BY <1>1, <1>6, AppendGrows
<1>8. ActionIds' = ActionIds \cup {n} /\ actions'[n] = row
  BY <1>1, Tables, LogGrows DEF NextAction
<1>9. StateAfter(n)' = state
  BY <1>5, <1>7, <1>8 DEF StateAfter, StateAt, Writes
<1>10. StateBefore(n)' = Current
  <2> PICK b : b = Len(states)
    OBVIOUS
  <2>1. StateBefore(n)' = StateAt(b)'
    BY <1>8 DEF StateBefore, StateAt, Writes
  <2>2. b # 0 => b \in Versions
    BY <1>7, Tables
  <2>3. StateAt(b)' = StateAt(b)
    BY <1>5, <2>2 DEF StateAt, NoState
  <2> QED
    BY <2>1, <2>3, CurrentIsLast
<1>11. FinalSupport' = ToSet(state.support)
  BY <1>5 DEF FinalSupport, ToSet
<1> QED
  BY <1>1, <1>2, <1>3, <1>4, <1>5, <1>7, <1>8, <1>9, <1>10, <1>11, RowsStay

-----------------------------------------------------------------------------
(* Calls that write no TaskState keep what the router relies on             *)

LEMMA QuietKeepsVersions ==
  ASSUME Routed, NEW row, Quiet(row)
  PROVE  CurrentIsLatest' /\ WritersPrecede' /\ SupportIsIndexed' /\ UpdatesTellChanges'
<1>1. TypeOK /\ states' = states /\ Log(row) /\ row.before = Len(states)
  BY DEF Routed, Quiet
<1>2. Updates \subseteq ActionIds /\ Writers \subseteq ActionIds
  BY <1>1, LedgerSets
<1>3. CurrentIsLatest'
  <2>1. \A u \in Updates : HasFinalContent(StateAfter(u)) => HasFinalContent(StateAfter(u))'
    BY <1>1, <1>2, QuietLeaves DEF HasFinalContent
  <2> QED
    BY <1>1, <2>1, QuietLeaves DEF Routed, CurrentIsLatest
<1>4. WritersPrecede'
  <2>1. ActionIds' = ActionIds \cup {NextAction} /\ \A a \in ActionIds : actions'[a] = actions[a]
    BY <1>1, Tables, LogGrows DEF NextAction
  <2>2. \A w \in Writers : w < NextAction
    BY <1>1, <1>2, LedgerSubsets
  <2> QED
    BY <1>1, <2>1, <2>2, QuietLeaves DEF Routed, WritersPrecede
<1>5. SupportIsIndexed'
  BY <1>1, QuietLeaves DEF Routed, SupportIsIndexed
<1>6. UpdatesTellChanges'
  BY <1>1, <1>2, QuietLeaves DEF Routed, UpdatesTellChanges, Changed
<1> QED
  BY <1>3, <1>4, <1>5, <1>6

LEMMA OriginsStay ==
  ASSUME TypeOK, EvidenceHasOrigin, NEW row, Log(row), evidence' = evidence \/ Archives(row)
  PROVE  EvidenceHasOrigin'
<1>1. ArchiveGrows
  BY DEF Archives, ArchiveGrows
<1>2. \A kind : LegalOf(kind) \subseteq LegalOf(kind)' /\ LegalOf(kind) \subseteq ActionIds
  BY LegalOfGrows, LedgerSubsets
<1>3. \A a \in ActionIds : actions'[a] = actions[a]
  BY LogGrows
<1>4. ASSUME NEW e \in EvidenceIds PROVE HasOrigin(e)'
  <2>1. evidence'[e] = evidence[e]
    BY <1>1, ArchiveStays
  <2>2. HasOrigin(e)
    BY DEF EvidenceHasOrigin
  <2> QED
    BY <1>2, <1>3, <2>1, <2>2 DEF HasOrigin
<1>5. ASSUME NEW e \in EvidenceIds' \ EvidenceIds PROVE HasOrigin(e)'
  <2>1. evidence' # evidence
    BY <1>5 DEF EvidenceIds
  <2>2. PICK doc, search :
          /\ row.legal /\ row.kind = "open_page" /\ row.created = {Len(evidence) + 1}
          /\ search \in LegalOf("search")
          /\ evidence' = Append(evidence, [doc |-> doc, created_by |-> NextAction, search |-> search])
    BY <2>1 DEF Archives
  <2> DEFINE new == [doc |-> doc, created_by |-> NextAction, search |-> search]
  <2>3. evidence \in Seq(EvidenceRow) /\ EvidenceRow \subseteq EvidenceRow \cup {new}
        /\ new \in EvidenceRow \cup {new}
    BY DEF TypeOK
  <2>4. new.created_by = NextAction /\ new.search = search
    OBVIOUS
  <2> HIDE DEF new
  <2>5. /\ DOMAIN evidence' = 1..(Len(evidence) + 1) /\ DOMAIN evidence = 1..Len(evidence)
        /\ Len(evidence) \in Nat /\ evidence'[Len(evidence) + 1] = new
    BY <2>2, <2>3, AppendGrows DEF new
  <2>6. e = Len(evidence) + 1
    BY <1>5, <2>5 DEF EvidenceIds
  <2>7. NextAction \in LegalOf("open_page")' /\ actions'[NextAction] = row
    BY <2>2, LegalOfGrows, LogGrows
  <2>8. search \in LegalOf("search")' /\ search < NextAction
    BY <1>2, <2>2, LedgerSubsets
  <2> QED
    BY <2>2, <2>4, <2>5, <2>6, <2>7, <2>8 DEF HasOrigin
<1> QED
  BY <1>4, <1>5 DEF EvidenceHasOrigin

LEMMA QuietKeepsOrigins ==
  ASSUME Routed, NEW row, Quiet(row)
  PROVE  EvidenceHasOrigin' /\ FindingsCameIn' /\ SupportCameIn'
<1>1. TypeOK /\ Updates \subseteq ActionIds
  BY LedgerSets DEF Routed
<1>2. EvidenceHasOrigin'
  BY <1>1, OriginsStay DEF Routed, Quiet
<1>3. FindingsCameIn'
  <2>1. \A u \in Updates : \A e : WroteFinding(u, e)' <=> WroteFinding(u, e)
    BY <1>1, QuietLeaves DEF WroteFinding, HasFinalFinding
  <2> QED
    BY <1>1, <2>1, QuietLeaves DEF Routed, FindingsCameIn
<1>4. SupportCameIn'
  <2>1. \A u \in Updates : \A e : AdoptedSupport(u, e)' <=> AdoptedSupport(u, e)
    BY <1>1, QuietLeaves DEF AdoptedSupport, ToSet
  <2> QED
    BY <1>1, <2>1, QuietLeaves DEF Routed, SupportCameIn
<1> QED
  BY <1>2, <1>3, <1>4

LEMMA QuietKeepsGaps ==
  ASSUME Routed, NEW row, Quiet(row)
  PROVE  OpenGapsWereLeft' /\ ActiveGapsWereLeft' /\ LeftGapsAreResolved'
<1>1. TypeOK /\ Verifications \subseteq ActionIds /\ Legal \subseteq ActionIds
  BY LedgerSets DEF Routed
<1>2. \A s \in Verifications : LeftGaps(s)' = LeftGaps(s)
  BY <1>1, QuietLeaves DEF LeftGaps, GapIds
<1>3. GapIds(Current.gaps)' = GapIds(Current.gaps)
  BY <1>1, QuietLeaves DEF GapIds
<1>4. OpenGapsWereLeft'
  BY <1>1, <1>2, <1>3, QuietLeaves DEF Routed, OpenGapsWereLeft
<1>5. LeftGapsAreResolved'
  BY <1>1, <1>2, <1>3, QuietLeaves DEF Routed, LeftGapsAreResolved
<1>6. ActiveGapsWereLeft'
  <2>1. ASSUME NEW a \in Legal', actions'[a].active_gaps # {}
        PROVE  \E s \in Verifications :
                 /\ s < a /\ actions'[a].active_gaps = LeftGaps(s)
                 /\ \A x \in Verifications : x < a => x <= s
    <3>1. CASE a \in Legal
      BY <1>1, <2>1, <3>1, QuietLeaves DEF Routed, ActiveGapsWereLeft
    <3>2. CASE a \notin Legal
      <4>1. a = NextAction /\ row.legal /\ actions'[a] = row
        BY <1>1, <3>2, LegalGrows, LogGrows, QuietLeaves
      <4>2. row.active_gaps = GapIds(Current.gaps)
        BY <2>1, <4>1 DEF Quiet
      <4>3. Current.gaps # <<>>
        BY <2>1, <4>1, <4>2 DEF GapIds
      <4>4. \A s \in Verifications : s < a
        BY <1>1, <4>1, LedgerSubsets
      <4> QED
        BY <4>1, <4>2, <4>3, <4>4 DEF Routed, OpenGapsWereLeft
    <3> QED
      BY <3>1, <3>2
  <2> QED
    BY <1>1, <1>2, <2>1, QuietLeaves DEF ActiveGapsWereLeft
<1> QED
  BY <1>4, <1>5, <1>6

-----------------------------------------------------------------------------
(* An update                                                                *)

LEMMA UpdatingKeepsVersions ==
  ASSUME Routed, NEW row, NEW state, Updating(row, state)
  PROVE  CurrentIsLatest' /\ WritersPrecede' /\ SupportIsIndexed' /\ UpdatesTellChanges'
<1> PICK n : n = NextAction
  OBVIOUS
<1>1. TypeOK /\ Writes(row, state) /\ row.kind = "update_state"
  BY DEF Routed, Updating
<1>2. /\ Updates' = Updates \cup {n} /\ Verifications' = Verifications
      /\ n \in Nat /\ \A a \in ActionIds : a \in Nat /\ a < n
  BY <1>1, WritesAdds
<1>3. Updates \subseteq ActionIds /\ Verifications \subseteq ActionIds
      /\ Writers' = Updates' \cup Verifications'
  BY LedgerSets DEF Writers, Updates, Verifications, Legal, LegalOf
<1>4. CurrentIsLatest'
  <2>1. HasFinalContent(StateAfter(n))'
    BY <1>1, WritesAdds DEF HasFinalContent
  <2>2. Current'.created_by = n
    BY <1>1, WritesAdds DEF Writes
  <2> QED
    BY <1>2, <1>3, <2>1, <2>2 DEF CurrentIsLatest
<1>5. WritersPrecede'
  <2>1. ASSUME NEW a \in ActionIds' PROVE actions'[a].before # Len(states')
    BY <1>1, WritesAdds, RowTypes DEF Writes
  <2> QED
    BY <2>1 DEF WritersPrecede
<1>6. SupportIsIndexed'
  BY <1>1, WritesAdds DEF Updating, SupportIsIndexed
<1>7. UpdatesTellChanges'
  <2>1. ASSUME NEW u \in Updates
        PROVE  (actions[u].changed = Changed(StateBefore(u).directory, StateAfter(u).directory))'
    BY <1>1, <1>3, WritesAdds DEF Routed, UpdatesTellChanges, Changed
  <2>2. (actions[n].changed = Changed(StateBefore(n).directory, StateAfter(n).directory))'
    BY <1>1, WritesAdds DEF Updating, Changed
  <2> QED
    BY <1>2, <2>1, <2>2 DEF UpdatesTellChanges
<1> QED
  BY <1>4, <1>5, <1>6, <1>7

LEMMA UpdatingKeepsOrigins ==
  ASSUME Routed, NEW row, NEW state, Updating(row, state)
  PROVE  EvidenceHasOrigin' /\ FindingsCameIn' /\ SupportCameIn'
<1> PICK n : n = NextAction
  OBVIOUS
<1>1. TypeOK /\ Writes(row, state) /\ row.kind = "update_state"
  BY DEF Routed, Updating
<1>2. Updates' = Updates \cup {n} /\ Updates \subseteq ActionIds
  BY <1>1, WritesAdds, LedgerSets
<1>3. EvidenceHasOrigin'
  BY <1>1, OriginsStay DEF Routed, Writes
<1>4. Current' = state /\ StateAfter(n)' = state /\ StateBefore(n)' = Current
  BY <1>1, WritesAdds
<1>5. FindingsCameIn'
  <2>1. ASSUME NEW e \in DOMAIN state.directory PROVE \E u \in Updates' : WroteFinding(u, e)'
    <3>1. CASE e \in DOMAIN Current.directory /\ Current.directory[e] = state.directory[e]
      <4>1. PICK u \in Updates : WroteFinding(u, e)
        BY <3>1 DEF Routed, FindingsCameIn
      <4>2. WroteFinding(u, e)'
        BY <1>1, <1>2, <1>4, <3>1, <4>1, WritesAdds DEF WroteFinding, HasFinalFinding
      <4> QED
        BY <1>2, <4>2
    <3>2. CASE ~(e \in DOMAIN Current.directory /\ Current.directory[e] = state.directory[e])
      <4>1. WroteFinding(n, e)'
        BY <1>4, <3>2 DEF WroteFinding, HasFinalFinding
      <4> QED
        BY <1>2, <4>1
    <3> QED
      BY <3>1, <3>2
  <2> QED
    BY <1>4, <2>1 DEF FindingsCameIn
<1>6. SupportCameIn'
  <2>1. ASSUME NEW e \in ToSet(state.support) PROVE \E u \in Updates' : AdoptedSupport(u, e)'
    <3>1. CASE e \in ToSet(Current.support)
      <4>1. PICK u \in Updates : AdoptedSupport(u, e)
        BY <3>1 DEF Routed, SupportCameIn, FinalSupport
      <4>2. AdoptedSupport(u, e)'
        BY <1>1, <1>2, <4>1, WritesAdds DEF AdoptedSupport, ToSet
      <4> QED
        BY <1>2, <4>2
    <3>2. CASE e \notin ToSet(Current.support)
      <4>1. AdoptedSupport(n, e)'
        BY <1>4, <2>1, <3>2 DEF AdoptedSupport, ToSet
      <4> QED
        BY <1>2, <4>1
    <3> QED
      BY <3>1, <3>2
  <2> QED
    BY <1>1, <2>1, WritesAdds DEF SupportCameIn
<1> QED
  BY <1>3, <1>5, <1>6

(* The gaps that were open at a new writer were left by the last verify.    *)
LEMMA WritesKeepsActive ==
  ASSUME Routed, NEW row, NEW state, Writes(row, state)
  PROVE  ActiveGapsWereLeft'
<1> PICK n : n = NextAction
  OBVIOUS
<1>1. TypeOK /\ Verifications \subseteq ActionIds /\ Legal \subseteq ActionIds
  BY LedgerSets DEF Routed
<1>2. /\ Legal' = Legal \cup {n} /\ Verifications \subseteq Verifications'
      /\ Verifications' \subseteq Verifications \cup {n}
      /\ n \in Nat /\ \A a \in ActionIds : a \in Nat /\ a < n
      /\ actions'[n] = row /\ \A a \in ActionIds : actions'[a] = actions[a]
  BY <1>1, WritesAdds
<1>3. \A s \in Verifications : LeftGaps(s)' = LeftGaps(s)
  BY <1>1, WritesAdds DEF LeftGaps, GapIds
<1>4. ASSUME NEW a \in Legal, actions[a].active_gaps # {}
      PROVE  \E s \in Verifications' :
               /\ s < a /\ actions[a].active_gaps = LeftGaps(s)'
               /\ \A x \in Verifications' : x < a => x <= s
  <2>1. PICK s \in Verifications : /\ s < a /\ actions[a].active_gaps = LeftGaps(s)
                                   /\ \A x \in Verifications : x < a => x <= s
    BY <1>4 DEF Routed, ActiveGapsWereLeft
  <2>2. ~(n < a)
    BY <1>1, <1>2
  <2> QED
    BY <1>2, <1>3, <2>1, <2>2
<1>5. ASSUME row.active_gaps # {}
      PROVE  \E s \in Verifications' :
               /\ s < n /\ row.active_gaps = LeftGaps(s)'
               /\ \A x \in Verifications' : x < n => x <= s
  <2>1. row.active_gaps = GapIds(Current.gaps)
    BY DEF Writes
  <2>2. Current.gaps # <<>>
    BY <1>5, <2>1 DEF GapIds
  <2>3. PICK s \in Verifications : /\ GapIds(Current.gaps) = LeftGaps(s)
                                   /\ \A x \in Verifications : x <= s
    BY <2>2 DEF Routed, OpenGapsWereLeft
  <2> QED
    BY <1>1, <1>2, <1>3, <2>1, <2>3
<1> QED
  BY <1>1, <1>2, <1>4, <1>5 DEF ActiveGapsWereLeft

LEMMA UpdatingKeepsGaps ==
  ASSUME Routed, NEW row, NEW state, Updating(row, state)
  PROVE  OpenGapsWereLeft' /\ LeftGapsAreResolved'
<1>1. TypeOK /\ Verifications \subseteq ActionIds /\ Writes(row, state)
      /\ row.kind = "update_state"
  BY LedgerSets DEF Routed, Updating
<1>2. Verifications' = Verifications /\ \A a \in ActionIds : actions'[a] = actions[a]
  BY <1>1, WritesAdds
<1>3. \A s \in Verifications : LeftGaps(s)' = LeftGaps(s)
  BY <1>1, WritesAdds DEF LeftGaps, GapIds
<1>4. Current'.gaps = Current.gaps /\ GapIds(Current.gaps)' = GapIds(Current.gaps)
  BY <1>1, WritesAdds DEF Updating, GapIds
<1>5. OpenGapsWereLeft'
  BY <1>2, <1>3, <1>4 DEF Routed, OpenGapsWereLeft
<1>6. LeftGapsAreResolved'
  BY <1>1, <1>2, <1>3, <1>4 DEF Routed, LeftGapsAreResolved
<1> QED
  BY <1>5, <1>6

-----------------------------------------------------------------------------
(* A verify                                                                 *)

LEMMA JudgingKeepsVersions ==
  ASSUME Routed, NEW row, NEW state, Judging(row, state)
  PROVE  CurrentIsLatest' /\ WritersPrecede' /\ SupportIsIndexed' /\ UpdatesTellChanges'
<1> PICK n : n = NextAction
  OBVIOUS
<1>1. TypeOK /\ Writes(row, state) /\ row.kind = "verify_answer"
  BY DEF Routed, Judging
<1>2. /\ Updates' = Updates /\ Verifications' = Verifications \cup {n}
      /\ n \in Nat /\ \A a \in ActionIds : a \in Nat /\ a < n
  BY <1>1, WritesAdds
<1>3. Updates \subseteq ActionIds /\ Verifications \subseteq ActionIds
      /\ Writers' = Updates' \cup Verifications'
  BY LedgerSets DEF Writers, Updates, Verifications, Legal, LegalOf
<1>4. CurrentIsLatest'
  <2>1. PICK u \in Updates : HasFinalContent(StateAfter(u)) /\ \A x \in Updates : x <= u
    BY DEF Routed, CurrentIsLatest, Judging
  <2>2. HasFinalContent(StateAfter(u))'
    BY <1>1, <1>3, <2>1, WritesAdds DEF HasFinalContent, Judging
  <2>3. Current'.created_by = n
    BY <1>1, WritesAdds DEF Writes
  <2> QED
    BY <1>2, <1>3, <2>1, <2>2, <2>3 DEF CurrentIsLatest
<1>5. WritersPrecede'
  <2>1. ASSUME NEW a \in ActionIds' PROVE actions'[a].before # Len(states')
    BY <1>1, WritesAdds, RowTypes DEF Writes
  <2> QED
    BY <2>1 DEF WritersPrecede
<1>6. SupportIsIndexed'
  <2>1. FinalSupport' = FinalSupport
    BY <1>1, WritesAdds DEF Judging, FinalSupport
  <2>2. Current'.directory = Current.directory
    BY <1>1, WritesAdds DEF Judging
  <2> QED
    BY <2>1, <2>2 DEF Routed, SupportIsIndexed
<1>7. UpdatesTellChanges'
  BY <1>1, <1>2, <1>3, WritesAdds DEF Routed, UpdatesTellChanges, Changed
<1> QED
  BY <1>4, <1>5, <1>6, <1>7

LEMMA JudgingKeepsOrigins ==
  ASSUME Routed, NEW row, NEW state, Judging(row, state)
  PROVE  EvidenceHasOrigin' /\ FindingsCameIn' /\ SupportCameIn'
<1> PICK n : n = NextAction
  OBVIOUS
<1>1. TypeOK /\ Writes(row, state) /\ row.kind = "verify_answer"
  BY DEF Routed, Judging
<1>2. Updates' = Updates /\ Updates \subseteq ActionIds
  <2>1. Updates' = Updates
    BY <1>1, WritesAdds
  <2> QED
    BY <2>1, LedgerSets
<1>3. EvidenceHasOrigin'
  BY <1>1, OriginsStay DEF Routed, Writes
<1>4. Current'.directory = Current.directory
  BY <1>1, WritesAdds DEF Judging
<1>5. FindingsCameIn'
  <2>1. \A u \in Updates : \A e : WroteFinding(u, e)' <=> WroteFinding(u, e)
    BY <1>1, <1>2, <1>4, WritesAdds DEF WroteFinding, HasFinalFinding
  <2> QED
    BY <1>2, <1>4, <2>1 DEF Routed, FindingsCameIn
<1>6. SupportCameIn'
  <2>1. \A u \in Updates : \A e : AdoptedSupport(u, e)' <=> AdoptedSupport(u, e)
    BY <1>1, <1>2, WritesAdds DEF AdoptedSupport, ToSet
  <2>2. FinalSupport' = FinalSupport
    BY <1>1, WritesAdds DEF Judging, FinalSupport
  <2> QED
    BY <1>2, <2>1, <2>2 DEF Routed, SupportCameIn
<1> QED
  BY <1>3, <1>5, <1>6

LEMMA JudgingKeepsGaps ==
  ASSUME Routed, NEW row, NEW state, Judging(row, state)
  PROVE  OpenGapsWereLeft' /\ LeftGapsAreResolved'
<1> PICK n : n = NextAction
  OBVIOUS
<1>1. TypeOK /\ Verifications \subseteq ActionIds /\ Writes(row, state)
      /\ row.kind = "verify_answer"
  BY LedgerSets DEF Routed, Judging
<1>2. /\ Verifications' = Verifications \cup {n}
      /\ n \in Nat /\ \A a \in ActionIds : a \in Nat /\ a < n
      /\ actions'[n] = row /\ \A a \in ActionIds : actions'[a] = actions[a]
  BY <1>1, WritesAdds
<1>3. \A s \in Verifications : LeftGaps(s)' = LeftGaps(s)
  BY <1>1, WritesAdds DEF LeftGaps, GapIds
<1>4. GapIds(Current.gaps)' = GapIds(state.gaps) /\ LeftGaps(n)' = GapIds(state.gaps)
  BY <1>1, WritesAdds DEF GapIds, LeftGaps
<1>5. OpenGapsWereLeft'
  BY <1>1, <1>2, <1>4 DEF OpenGapsWereLeft
<1>6. ASSUME NEW s \in Verifications, NEW g \in LeftGaps(s)
      PROVE  \/ g \in GapIds(state.gaps)
             \/ \E r \in Verifications' : s < r /\ g \in actions'[r].resolved_gaps
  <2>1. CASE g \in GapIds(Current.gaps)
    <3>1. row.resolved_gaps = GapIds(Current.gaps) \ GapIds(state.gaps)
      BY DEF Judging
    <3> QED
      BY <1>1, <1>2, <2>1, <3>1
  <2>2. CASE g \notin GapIds(Current.gaps)
    <3>1. PICK r \in Verifications : s < r /\ g \in actions[r].resolved_gaps
      BY <1>6, <2>2 DEF Routed, LeftGapsAreResolved
    <3> QED
      BY <1>1, <1>2, <3>1
  <2> QED
    BY <2>1, <2>2
<1>7. LeftGapsAreResolved'
  BY <1>2, <1>3, <1>4, <1>6 DEF LeftGapsAreResolved
<1> QED
  BY <1>5, <1>7

-----------------------------------------------------------------------------
(* Every step keeps it                                                      *)

LEMMA SameStoreIsRouted ==
  ASSUME Routed, UNCHANGED store, TypeOK'
  PROVE  Routed'
<1>1. evidence' = evidence /\ states' = states /\ actions' = actions
  BY DEF store
<1>2. /\ Current' = Current /\ ActionIds' = ActionIds /\ EvidenceIds' = EvidenceIds
      /\ FinalSupport' = FinalSupport /\ Legal' = Legal
      /\ \A kind : LegalOf(kind)' = LegalOf(kind)
  BY <1>1 DEF Current, ActionIds, EvidenceIds, FinalSupport, Legal, LegalOf
<1>3. Updates' = Updates /\ Verifications' = Verifications /\ Writers' = Writers
  BY <1>1, <1>2 DEF Updates, Verifications, Writers
<1>4. \A a : StateAfter(a)' = StateAfter(a) /\ StateBefore(a)' = StateBefore(a)
  BY <1>1 DEF StateAfter, StateBefore, StateAt
<1>5. \A a : LeftGaps(a)' = LeftGaps(a)
  BY <1>4 DEF LeftGaps, GapIds
<1>6. CurrentIsLatest' /\ WritersPrecede' /\ UpdatesTellChanges'
  BY <1>1, <1>2, <1>3, <1>4
     DEF Routed, CurrentIsLatest, WritersPrecede, UpdatesTellChanges, HasFinalContent, Changed
<1>7. EvidenceHasOrigin' /\ SupportIsIndexed'
  BY <1>1, <1>2 DEF Routed, EvidenceHasOrigin, HasOrigin, SupportIsIndexed
<1>8. FindingsCameIn' /\ SupportCameIn'
  <2>1. \A u, e : WroteFinding(u, e)' <=> WroteFinding(u, e)
    BY <1>2, <1>4 DEF WroteFinding, HasFinalFinding
  <2>2. \A u, e : AdoptedSupport(u, e)' <=> AdoptedSupport(u, e)
    BY <1>4 DEF AdoptedSupport, ToSet
  <2> QED
    BY <1>2, <1>3, <2>1, <2>2 DEF Routed, FindingsCameIn, SupportCameIn
<1>9. GapIds(Current.gaps)' = GapIds(Current.gaps)
  BY <1>2 DEF GapIds
<1>10. OpenGapsWereLeft' /\ ActiveGapsWereLeft' /\ LeftGapsAreResolved'
  BY <1>1, <1>2, <1>3, <1>5, <1>9
     DEF Routed, OpenGapsWereLeft, ActiveGapsWereLeft, LeftGapsAreResolved
<1> QED
  BY <1>6, <1>7, <1>8, <1>10 DEF Routed

LEMMA NextKeepsRouted ==
  ASSUME Routed, Next
  PROVE  Routed'
<1>1. TypeOK /\ TypeOK'
  BY NextKeepsTypes DEF Routed
<1>2. ASSUME NEW row, Quiet(row) PROVE Routed'
  BY <1>1, <1>2, QuietKeepsVersions, QuietKeepsOrigins, QuietKeepsGaps DEF Routed
<1>3. ASSUME NEW row, NEW state, Updating(row, state) PROVE Routed'
  <2>1. Writes(row, state)
    BY <1>3 DEF Updating
  <2> QED
    BY <1>1, <1>3, <2>1, UpdatingKeepsVersions, UpdatingKeepsOrigins, UpdatingKeepsGaps,
       WritesKeepsActive DEF Routed
<1>4. ASSUME NEW row, NEW state, Judging(row, state) PROVE Routed'
  <2>1. Writes(row, state)
    BY <1>4 DEF Judging
  <2> QED
    BY <1>1, <1>4, <2>1, JudgingKeepsVersions, JudgingKeepsOrigins, JudgingKeepsGaps,
       WritesKeepsActive DEF Routed
<1> QED
  BY <1>1, <1>2, <1>3, <1>4, StepsAre, SameStoreIsRouted

LEMMA RoutedInductive == Spec => []Routed
<1>1. Init => Routed
  <2> SUFFICES ASSUME Init PROVE Routed
    OBVIOUS
  <2>1. TypeOK
    BY InitHasTypes
  <2>2. ActionIds = {} /\ EvidenceIds = {} /\ states = <<>>
    BY DEF Init, ActionIds, EvidenceIds
  <2>3. Legal = {} /\ Updates = {} /\ Verifications = {}
    BY <2>2 DEF Legal, Updates, Verifications
  <2>4. Current = NoState
    BY <2>2 DEF Current
  <2>5. DOMAIN Current.directory = {} /\ FinalSupport = {} /\ Current.gaps = <<>>
    BY <2>4 DEF NoState, FinalSupport, ToSet
  <2> QED
    BY <2>1, <2>2, <2>3, <2>5
       DEF Routed, CurrentIsLatest, WritersPrecede, EvidenceHasOrigin, SupportIsIndexed,
           UpdatesTellChanges, FindingsCameIn, SupportCameIn,
           OpenGapsWereLeft, ActiveGapsWereLeft, LeftGapsAreResolved
<1>2. Routed /\ [Next]_vars => Routed'
  <2>1. ASSUME Routed, Next PROVE Routed'
    BY <2>1, NextKeepsRouted
  <2>2. ASSUME Routed, UNCHANGED vars PROVE Routed'
    BY <2>2, StutterKeepsTypes, SameStoreIsRouted DEF vars, Routed
  <2> QED
    BY <2>1, <2>2
<1> QED
  BY <1>1, <1>2, PTL DEF Spec

-----------------------------------------------------------------------------
(* The first and the last of a set of actions                               *)

LEMMA MaxIs ==
  ASSUME NEW S, S \subseteq Nat, NEW m \in S, \A x \in S : x <= m
  PROVE  Max(S) = m
<1>1. \A x \in S : (\A y \in S : x >= y) => x = m
  OBVIOUS
<1>2. \A y \in S : m >= y
  OBVIOUS
<1>3. m = CHOOSE x \in S : \A y \in S : x >= y
  BY <1>1, <1>2
<1> QED
  BY <1>3 DEF Max

LEMMA LastOfActions ==
  ASSUME TypeOK, NEW S, S \subseteq ActionIds
  PROVE  /\ LastOf(S) \subseteq S
         /\ S # {} => \E m \in S : LastOf(S) = {m} /\ \A x \in S : x <= m
<1>1. S \in SUBSET (1..Len(actions)) /\ Len(actions) \in Nat
  BY Tables
<1>2. S # {} => Max(S) \in S /\ \A x \in S : Max(S) >= x
  BY <1>1, MaxIsMember
<1>3. S # {} => \A x \in S : x \in Nat
  BY <1>1
<1> QED
  BY <1>2, <1>3 DEF LastOf

LEMMA FirstOfActions ==
  ASSUME TypeOK, NEW S, S \subseteq ActionIds
  PROVE  /\ FirstOf(S) \subseteq S
         /\ S # {} => \E m \in S : FirstOf(S) = {m} /\ \A x \in S : m <= x
<1>1. S \subseteq Nat
  BY LedgerSubsets
<1>2. ASSUME S # {} PROVE Min(S) \in S /\ \A x \in S : Min(S) <= x
  <2>1. PICK m \in S : \A x \in S : ~(<<x, m>> \in OpToRel(<, Nat))
    BY <1>1, <1>2, NatLessThanWellFounded, WFMin
  <2>2. \A x \in S : ~(x < m)
    BY <1>1, <2>1 DEF OpToRel
  <2>3. \A x \in S : m <= x
    BY <1>1, <2>2
  <2> QED
    BY <2>3 DEF Min
<1> QED
  BY <1>2 DEF FirstOf

-----------------------------------------------------------------------------
(* The answer chain                                                         *)

LEMMA EligibleVersion ==
  ASSUME Eligible
  PROVE  /\ states # <<>> /\ IsSubmitted /\ submit_action_id \in Legal
         /\ Current.status = "supported" /\ Current.gaps = <<>>
BY DEF Eligible

(* The verify and the update the router finds are the last ones.            *)
LEMMA AnswerChain ==
  ASSUME Routed, Judged, Eligible
  PROVE  \E u \in Updates, v \in Verifications :
           /\ FinalAnswerUpdate = {u} /\ Max(Updates) = u
           /\ FinalVerify = {v} /\ Max(Verifications) = v
           /\ u < v
           /\ \A x \in Updates : x <= u
           /\ \A x \in Verifications : x <= v
<1>1. TypeOK /\ CurrentIsLatest /\ VerdictsJudgeUpdates /\ states # <<>>
  BY EligibleVersion DEF Routed, Judged
<1>2. /\ Updates \subseteq ActionIds /\ Verifications \subseteq ActionIds /\ ActionIds \subseteq Nat
      /\ Writers = Updates \cup Verifications
  BY <1>1, LedgerSets, LedgerSubsets
<1>3. PICK v : v = Current.created_by /\ \A w \in Writers : w <= v
  BY <1>1 DEF CurrentIsLatest
<1>4. v \in Verifications
  <2>1. Len(states) \in Versions /\ Current = states[Len(states)]
    BY <1>1, Tables DEF Current, TypeOK
  <2>2. states[Len(states)].status # "unverified"
    BY <2>1, EligibleVersion
  <2> QED
    BY <1>1, <1>3, <2>1, <2>2, LedgerSets DEF VerdictsJudgeUpdates
<1>5. PICK u \in Updates : HasFinalContent(StateAfter(u)) /\ \A x \in Updates : x <= u
  BY <1>1 DEF CurrentIsLatest
<1>6. u < v
  <2>1. u <= v
    BY <1>2, <1>3
  <2>2. u # v
    BY <1>4 DEF Updates, Verifications
  <2> QED
    BY <1>2, <1>4, <2>1, <2>2
<1>7. Max(Updates) = u
  BY <1>2, <1>5, MaxIs
<1>8. Max(Verifications) = v
  BY <1>2, <1>3, <1>4, MaxIs
<1>9. FinalVerify = {v}
  BY <1>3, <1>4 DEF FinalVerify
<1>10. FinalAnswerUpdate = {u}
  <2> DEFINE S == {x \in Updates : HasFinalContent(StateAfter(x))}
  <2>1. u \in S /\ S \subseteq Nat /\ \A x \in S : x <= u
    BY <1>2, <1>5
  <2>2. Max(S) = u
    <3> HIDE DEF S
    <3> QED BY <2>1, MaxIs
  <2> QED
    BY <2>1, <2>2 DEF FinalAnswerUpdate, LastOf
<1> QED
  BY <1>2, <1>3, <1>4, <1>5, <1>6, <1>7, <1>8, <1>9, <1>10

(* The answer chain the router credits is the one that counted: the latest  *)
(* update of the episode, although it is looked up by content, then the     *)
(* latest verify.                                                           *)
THEOREM CreditedAnswerIsLatest == Spec => []AnswerChainIsTheLatest
<1>1. Routed /\ Judged => AnswerChainIsTheLatest
  BY AnswerChain DEF AnswerChainIsTheLatest
<1> QED
  BY <1>1, RoutedInductive, JudgedInductive, PTL

-----------------------------------------------------------------------------
(* The evidence chain                                                       *)

LEMMA WritersFound ==
  ASSUME TypeOK, NEW e
  PROVE  FindingWriter(e) \subseteq Updates /\ SupportWriter(e) \subseteq Updates
<1>1. Updates \subseteq ActionIds
  BY LedgerSets
<1>2. FindingWriter(e) \subseteq {u \in Updates : WroteFinding(u, e)}
  <2> DEFINE S == {u \in Updates : /\ HasFinalFinding(StateAfter(u), e)
                                   /\ ~HasFinalFinding(StateBefore(u), e)}
  <2>1. S \subseteq ActionIds /\ S \subseteq Updates
    BY <1>1
  <2>2. LastOf(S) \subseteq S
    <3> HIDE DEF S
    <3> QED BY <2>1, LastOfActions
  <2> QED
    BY <2>2 DEF FindingWriter, WroteFinding
<1>3. SupportWriter(e) \subseteq {u \in Updates : AdoptedSupport(u, e)}
  <2> DEFINE S == {u \in Updates : /\ e \in ToSet(StateAfter(u).support)
                                   /\ e \notin ToSet(StateBefore(u).support)}
  <2>1. S \subseteq ActionIds /\ S \subseteq Updates
    BY <1>1
  <2>2. LastOf(S) \subseteq S
    <3> HIDE DEF S
    <3> QED BY <2>1, LastOfActions
  <2> QED
    BY <2>2 DEF SupportWriter, AdoptedSupport
<1> QED
  BY <1>2, <1>3

(* Everything the router selects, by why it does.                           *)
LEMMA WhatIsSelected ==
  ASSUME TypeOK, NEW a \in SelectedActions
  PROVE  /\ Eligible
         /\ \/ a = submit_action_id
            \/ a \in Updates \cup Verifications
            \/ \E e \in FinalSupport :
                 a \in Legal /\ a \in {evidence[e].created_by, evidence[e].search}
            \/ \E e \in FinalSupport : a \in FindingSource(e)
            \/ /\ a \in Legal /\ SurvivesFinal(a)
               /\ \E v \in Verifications : a < v
<1>1. Eligible
  BY DEF SelectedActions
<1>2. FinalVerify \subseteq Verifications
  BY DEF FinalVerify
<1>3. FinalAnswerUpdate \subseteq Updates
  <2> DEFINE S == {u \in Updates : HasFinalContent(StateAfter(u))}
  <2>1. S \subseteq ActionIds /\ S \subseteq Updates
    BY LedgerSets
  <2>2. LastOf(S) \subseteq S
    <3> HIDE DEF S
    <3> QED BY <2>1, LastOfActions
  <2> QED
    BY <2>1, <2>2 DEF FinalAnswerUpdate
<1>4. ASSUME NEW e \in FinalSupport, a \in EvidenceChain(e)
      PROVE  \/ a \in Updates
             \/ a \in Legal /\ a \in {evidence[e].created_by, evidence[e].search}
             \/ a \in FindingSource(e)
  BY <1>4, WritersFound DEF EvidenceChain, Retrieval
<1>5. ASSUME NEW start \in Verifications, a \in GapChain(start)
      PROVE  \/ a \in Verifications
             \/ a \in Legal /\ SurvivesFinal(a) /\ \E v \in Verifications : a < v
  <2>1. ResolvedBy(start) \subseteq Verifications
    <3> DEFINE S == {v \in Verifications : v > start /\ GapsAfter(start) \cap actions[v].resolved_gaps # {}}
    <3>1. S \subseteq ActionIds /\ S \subseteq Verifications
      BY LedgerSets
    <3>2. FirstOf(S) \subseteq S
      <4> HIDE DEF S
      <4> QED BY <3>1, FirstOfActions
    <3> QED
      BY <3>2 DEF ResolvedBy
  <2>2. a = start \/ a \in Between(start) \/ a \in ResolvedBy(start)
    BY <1>5 DEF GapChain
  <2> QED
    BY <2>1, <2>2 DEF Between
<1>6. \/ a = submit_action_id
      \/ a \in FinalVerify \cup FinalAnswerUpdate
      \/ \E e \in FinalSupport : a \in EvidenceChain(e)
      \/ \E start \in Verifications : a \in GapChain(start)
  <2> DEFINE evidence_chains == UNION {EvidenceChain(e) : e \in FinalSupport}
             gap_chains      == UNION {GapChain(start) : start \in Verifications}
  <2>1. SelectedActions = {submit_action_id} \cup FinalVerify \cup FinalAnswerUpdate
                            \cup evidence_chains \cup gap_chains
    BY <1>1 DEF SelectedActions
  <2>2. a \in evidence_chains => \E e \in FinalSupport : a \in EvidenceChain(e)
    BY Zenon
  <2>3. a \in gap_chains => \E start \in Verifications : a \in GapChain(start)
    BY Zenon
  <2> HIDE DEF evidence_chains, gap_chains
  <2> QED
    BY <2>1, <2>2, <2>3
<1> QED
  BY <1>1, <1>2, <1>3, <1>4, <1>5, <1>6

LEMMA SupportIsEvidence ==
  ASSUME TypeOK
  PROVE  FinalSupport \subseteq EvidenceIds
<1>1. Current.support \in Seq(EvidenceIds)
  BY CurrentIsTaskState DEF TaskState
<1> QED
  BY <1>1 DEF FinalSupport, ToSet

(* The source of a finding showed its page, before the update.              *)
LEMMA SourceShows ==
  ASSUME TypeOK, FindingsComeFromFreshReads, NEW e, NEW a \in FindingSource(e)
  PROVE  \E u \in Updates : Shows(a, e) /\ a < u
<1>1. PICK u \in FindingWriter(e) : e \in DOMAIN actions[u].inputs /\ actions[u].inputs[e] = a
  BY DEF FindingSource
<1>2. u \in Updates
  BY <1>1, WritersFound
<1>3. e \in actions[u].changed
  BY <1>1, <1>2, LedgerSets DEF FindingsComeFromFreshReads
<1>4. a < u /\ Shows(a, e)
  BY <1>1, <1>2, <1>3, LedgerSets DEF FindingsComeFromFreshReads
<1> QED
  BY <1>1, <1>2, <1>4

(* A retrieval action is credited only for Evidence of the final support:   *)
(* pages opened in the same turn or the same interval and not used get      *)
(* nothing.                                                                 *)
THEOREM OnlyUsedRetrievalIsCredited == Spec => []UnusedRetrievalIsNotCredited
<1>1. ASSUME Routed, Judged, FindingsComeFromFreshReads, NEW a \in SelectedActions
      PROVE  /\ actions[a].kind \in {"open_page", "read_evidence"}
                  => \E e \in FinalSupport : e \in actions[a].created \cup actions[a].referenced
             /\ actions[a].kind = "search" => \E e \in FinalSupport : evidence[e].search = a
  <2>1. TypeOK /\ EvidenceHasOrigin
    BY <1>1 DEF Routed
  <2>2. CASE a = submit_action_id
    <3>1. a \in LegalOf("submit_answer")
      BY <1>1, <2>1, <2>2, WhatIsSelected, EligibleVersion DEF Judged, SubmittedAnswerWasVerified
    <3> QED
      BY <3>1 DEF LegalOf
  <2>3. CASE a \in Updates \cup Verifications
    BY <2>3 DEF Updates, Verifications
  <2>4. ASSUME NEW e \in FinalSupport, a = evidence[e].created_by
        PROVE  actions[a].kind = "open_page" /\ e \in actions[a].created
    BY <2>1, <2>4, SupportIsEvidence DEF EvidenceHasOrigin, HasOrigin, LegalOf
  <2>5. ASSUME NEW e \in FinalSupport, a = evidence[e].search
        PROVE  actions[a].kind = "search"
    BY <2>1, <2>5, SupportIsEvidence DEF EvidenceHasOrigin, HasOrigin, LegalOf
  <2>6. ASSUME NEW e \in FinalSupport, a \in FindingSource(e)
        PROVE  /\ actions[a].kind \in {"open_page", "read_evidence"}
               /\ e \in actions[a].created \cup actions[a].referenced
    BY <1>1, <2>1, <2>6, SourceShows DEF Shows, LegalOf
  <2>7. ASSUME SurvivesFinal(a), actions[a].kind \in {"open_page", "read_evidence"}
        PROVE  \E e \in FinalSupport : e \in actions[a].created \cup actions[a].referenced
    BY <2>7 DEF SurvivesFinal
  <2>8. ASSUME SurvivesFinal(a), actions[a].kind = "search"
        PROVE  \E e \in FinalSupport : evidence[e].search = a
    BY <2>8 DEF SurvivesFinal
  <2> QED
    BY <2>1, <2>2, <2>3, <2>4, <2>5, <2>6, <2>7, <2>8, WhatIsSelected
<1>2. Routed /\ Judged /\ FindingsComeFromFreshReads => UnusedRetrievalIsNotCredited
  BY <1>1 DEF UnusedRetrievalIsNotCredited
<1> QED
  BY <1>2, RoutedInductive, JudgedInductive, FindingsAreFresh, PTL

(* Nothing after the submit is credited, as long as no later update or      *)
(* verify replaced the submitted state.                                     *)
THEOREM NoCreditAfterSubmit == Spec => []CreditStopsAtSubmit
<1>1. ASSUME Routed, Judged, FindingsComeFromFreshReads, Eligible,
             Len(states) = actions[submit_action_id].before, NEW a \in SelectedActions
      PROVE  a <= submit_action_id
  <2>1. TypeOK /\ EvidenceHasOrigin /\ SupportIsIndexed /\ WritersPrecede
    BY <1>1 DEF Routed
  <2> PICK s : s = submit_action_id
    OBVIOUS
  <2>2. s \in ActionIds /\ s \in Nat /\ ActionIds \subseteq Nat
    BY <2>1, EligibleVersion, <1>1, LedgerSets, LedgerSubsets
  <2>3. /\ Updates \subseteq ActionIds /\ Verifications \subseteq ActionIds
        /\ Writers = Updates \cup Verifications
    BY LedgerSets
  <2>4. \A w \in Writers : w < s
    BY <1>1, <2>1, <2>2 DEF WritersPrecede
  <2>5. ASSUME NEW e \in FinalSupport PROVE evidence[e].created_by < s
    <3> PICK v : v = Len(states)
      OBVIOUS
    <3>1. JudgedAt(s, v)
      BY <1>1, SubmittedIsJudged, EligibleVersion DEF Judged
    <3>2. Current = states[v]
      BY <1>1, EligibleVersion DEF Current
    <3>3. e \in DOMAIN states[v - 1].directory
      BY <2>1, <3>1, <3>2 DEF JudgedAt, SupportIsIndexed
    <3>4. e \in EvidenceIds
      BY <2>1, SupportIsEvidence
    <3> QED
      BY <3>1, <3>3, <3>4 DEF JudgedAt
  <2>6. ASSUME NEW e \in FinalSupport, a = evidence[e].search PROVE a < s
    <3>1. /\ evidence[e].created_by \in Nat /\ evidence[e].search \in Nat
          /\ evidence[e].search < evidence[e].created_by
      BY <2>1, <2>2, SupportIsEvidence, LedgerSubsets DEF EvidenceHasOrigin, HasOrigin
    <3> QED
      BY <2>2, <2>5, <2>6, <3>1
  <2>7. ASSUME NEW e \in FinalSupport, a \in FindingSource(e) PROVE a < s
    <3>1. PICK u \in Updates : a < u /\ Shows(a, e)
      BY <1>1, <2>1, <2>7, SourceShows
    <3>2. a \in Nat
      BY <2>1, <2>2, <3>1, LedgerSubsets DEF Shows
    <3> QED
      BY <2>2, <2>3, <2>4, <3>1, <3>2
  <2>8. ASSUME a \in Legal, NEW v \in Verifications, a < v PROVE a < s
    BY <2>2, <2>3, <2>4, <2>8, LedgerSets
  <2>9. a < s \/ a = s
    BY <2>1, <2>3, <2>4, <2>5, <2>6, <2>7, <2>8, WhatIsSelected
  <2>10. a \in Nat
    <3>1. a \in Legal => a \in Nat
      BY <2>2, LedgerSets
    <3>2. \A e : a \in FindingSource(e) => a \in Legal
      BY DEF FindingSource
    <3>3. a \in Updates \cup Verifications => a \in Legal
      BY LedgerSets
    <3> QED
      BY <2>1, <2>2, <3>1, <3>2, <3>3, WhatIsSelected
  <2> QED
    BY <2>2, <2>9, <2>10
<1>2. Routed /\ Judged /\ FindingsComeFromFreshReads => CreditStopsAtSubmit
  BY <1>1 DEF CreditStopsAtSubmit
<1> QED
  BY <1>2, RoutedInductive, JudgedInductive, FindingsAreFresh, PTL

(* Rows name only Evidence that was archived when they were logged.         *)
ReferencesAreOlder ==
  \A a \in ActionIds : \A e \in actions[a].created \cup actions[a].referenced :
    evidence[e].created_by <= a

LEMMA NextKeepsReferences ==
  ASSUME Judged, ReferencesAreOlder, Next
  PROVE  ReferencesAreOlder'
<1>1. TypeOK /\ TypeOK' /\ Judged'
  BY NextKeepsJudged DEF Judged
<1>2. CASE UNCHANGED store
  BY <1>2 DEF store, ReferencesAreOlder, ActionIds
<1>3. ASSUME NEW row, Log(row), ArchiveGrows PROVE ReferencesAreOlder'
  <2>1. ASSUME NEW a \in ActionIds, NEW e \in actions[a].created \cup actions[a].referenced
        PROVE  evidence'[e].created_by <= a
    <3>1. e \in EvidenceIds
      BY <1>1, RowTypes
    <3>2. evidence'[e] = evidence[e]
      BY <1>1, <1>3, <3>1, ArchiveStays
    <3> QED
      BY <3>2 DEF ReferencesAreOlder
  <2>2. ASSUME NEW e \in actions'[NextAction].created \cup actions'[NextAction].referenced
        PROVE  evidence'[e].created_by <= NextAction
    <3> PICK n : n = NextAction
      OBVIOUS
    <3>1. ActionIds' = 1..n /\ n \in ActionIds' /\ n \in Nat
      BY <1>1, <1>3, LogGrows, LedgerSubsets DEF NextAction
    <3>2. actions'[n].created \subseteq EvidenceIds' /\ actions'[n].referenced \subseteq EvidenceIds'
      <4>1. actions'[n] \in ActionRow'
        BY <1>1, <3>1 DEF TypeOK, ActionIds
      <4> QED
        BY <4>1 DEF ActionRow
    <3>3. evidence'[e].created_by \in ActionIds'
      BY <1>1, <2>2, <3>2 DEF Judged, EvidenceIsOlder
    <3> QED
      BY <3>1, <3>3
  <2>3. ActionIds' = ActionIds \cup {NextAction} /\ \A a \in ActionIds : actions'[a] = actions[a]
    BY <1>1, <1>3, Tables, LogGrows DEF NextAction
  <2> QED
    BY <2>1, <2>2, <2>3 DEF ReferencesAreOlder
<1>4. ASSUME NEW row, Quiet(row) PROVE ReferencesAreOlder'
  BY <1>1, <1>3, <1>4, QuietLeaves
<1>5. ASSUME NEW row, NEW state, Writes(row, state) PROVE ReferencesAreOlder'
  BY <1>3, <1>5 DEF Writes, ArchiveGrows
<1> QED
  BY <1>1, <1>2, <1>4, <1>5, StepsAre DEF Updating, Judging

LEMMA ReferencesInductive == Spec => []ReferencesAreOlder
<1>1. Init => ReferencesAreOlder
  BY DEF Init, ReferencesAreOlder, ActionIds
<1>2. Judged /\ ReferencesAreOlder /\ [Next]_vars => ReferencesAreOlder'
  <2>1. ASSUME ReferencesAreOlder, UNCHANGED vars PROVE ReferencesAreOlder'
    BY <2>1 DEF vars, store, ReferencesAreOlder, ActionIds
  <2> QED
    BY <2>1, NextKeepsReferences
<1> QED
  BY <1>1, <1>2, JudgedInductive, PTL DEF Spec

Chained == Routed /\ Judged /\ FindingsComeFromFreshReads /\ ReferencesAreOlder

(* The update that wrote the final finding of e, and the page it used.      *)
LEMMA WriterAndSource ==
  ASSUME Chained, NEW e \in DOMAIN Current.directory
  PROVE  \E u \in Updates, a \in ActionIds :
           /\ FindingWriter(e) = {u} /\ FindingSource(e) = {a}
           /\ a < u /\ Shows(a, e)
<1>1. TypeOK /\ FindingsCameIn /\ UpdatesTellChanges /\ FindingsComeFromFreshReads
  BY DEF Chained, Routed
<1> DEFINE S == {u \in Updates : WroteFinding(u, e)}
<1>2. S # {} /\ S \subseteq Updates /\ S \subseteq ActionIds
  BY <1>1, LedgerSets DEF FindingsCameIn
<1>3. FindingWriter(e) = LastOf(S)
  BY DEF FindingWriter, WroteFinding
<1>4. PICK u \in S : LastOf(S) = {u}
  <2> HIDE DEF S
  <2> QED BY <1>1, <1>2, LastOfActions
<1>5. u \in Updates /\ WroteFinding(u, e) /\ FindingWriter(e) = {u}
  BY <1>3, <1>4
<1>6. e \in actions[u].changed
  BY <1>1, <1>5 DEF UpdatesTellChanges, Changed, WroteFinding, HasFinalFinding
<1>7. PICK a : a = actions[u].inputs[e]
  OBVIOUS
<1>8. e \in DOMAIN actions[u].inputs /\ a < u /\ Shows(a, e)
  BY <1>1, <1>5, <1>6, <1>7, LedgerSets DEF FindingsComeFromFreshReads
<1>9. a \in Legal /\ actions[a].kind \in {"open_page", "read_evidence"} /\ a \in ActionIds
  BY <1>8 DEF Shows, LegalOf, Legal
<1>10. FindingSource(e) = {a}
  BY <1>5, <1>7, <1>8, <1>9 DEF FindingSource
<1> QED
  BY <1>5, <1>8, <1>9, <1>10

LEMMA Adopter ==
  ASSUME Chained, NEW e \in FinalSupport
  PROVE  \E u \in Updates : SupportWriter(e) = {u}
<1>1. TypeOK /\ SupportCameIn
  BY DEF Chained, Routed
<1> DEFINE S == {u \in Updates : AdoptedSupport(u, e)}
<1>2. S # {} /\ S \subseteq Updates /\ S \subseteq ActionIds
  BY <1>1, LedgerSets DEF SupportCameIn
<1>3. SupportWriter(e) = LastOf(S)
  BY DEF SupportWriter, AdoptedSupport
<1>4. PICK u \in S : LastOf(S) = {u}
  <2> HIDE DEF S
  <2> QED BY <1>1, <1>2, LastOfActions
<1> QED
  BY <1>2, <1>3, <1>4

LEMMA ChainIsSelected ==
  ASSUME Eligible, NEW e \in FinalSupport
  PROVE  EvidenceChain(e) \subseteq SelectedActions
<1> DEFINE evidence_chains == UNION {EvidenceChain(x) : x \in FinalSupport}
           gap_chains      == UNION {GapChain(start) : start \in Verifications}
<1>1. SelectedActions = {submit_action_id} \cup FinalVerify \cup FinalAnswerUpdate
                          \cup evidence_chains \cup gap_chains
  BY DEF SelectedActions
<1>2. EvidenceChain(e) \subseteq evidence_chains
  BY Zenon
<1> HIDE DEF evidence_chains, gap_chains
<1> QED
  BY <1>1, <1>2

(* For each Evidence of the final support the whole chain search,           *)
(* open_page, the view the finding was written from, the update that wrote  *)
(* it and the update that adopted it is credited, in that order.            *)
THEOREM EvidenceIsCreditedToItsSearch == Spec => []EvidenceChainIsComplete
<1>1. ASSUME Chained, Eligible, NEW e \in FinalSupport
      PROVE  \E search, opening, source, writer, adopter \in SelectedActions :
               /\ search = evidence[e].search /\ actions[search].kind = "search"
               /\ opening = evidence[e].created_by /\ e \in actions[opening].created
               /\ FindingSource(e) = {source} /\ FindingWriter(e) = {writer}
               /\ SupportWriter(e) = {adopter}
               /\ search < opening /\ opening <= source /\ source < writer
               /\ writer <= Max(FinalAnswerUpdate) /\ adopter <= Max(FinalAnswerUpdate)
  <2>1. TypeOK /\ EvidenceHasOrigin /\ SupportIsIndexed /\ ReferencesAreOlder
    BY <1>1 DEF Chained, Routed
  <2>2. e \in DOMAIN Current.directory /\ e \in EvidenceIds
    BY <2>1, SupportIsEvidence DEF SupportIsIndexed
  <2>3. PICK writer \in Updates, source \in ActionIds :
          /\ FindingWriter(e) = {writer} /\ FindingSource(e) = {source}
          /\ source < writer /\ Shows(source, e)
    BY <1>1, <2>2, WriterAndSource
  <2>4. PICK adopter \in Updates : SupportWriter(e) = {adopter}
    BY <1>1, Adopter
  <2>5. PICK search, opening : search = evidence[e].search /\ opening = evidence[e].created_by
    OBVIOUS
  <2>6. /\ opening \in Legal /\ e \in actions[opening].created
        /\ search \in Legal /\ actions[search].kind = "search" /\ search < opening
    BY <2>1, <2>2, <2>5 DEF EvidenceHasOrigin, HasOrigin, LegalOf, Legal
  <2>7. opening <= source
    BY <2>1, <2>3, <2>5 DEF ReferencesAreOlder, Shows
  <2>8. {search, opening, source, writer, adopter} \subseteq EvidenceChain(e)
    BY <2>3, <2>4, <2>5, <2>6 DEF EvidenceChain, Retrieval
  <2>9. {search, opening, source, writer, adopter} \subseteq SelectedActions
    BY <1>1, <2>8, ChainIsSelected
  <2>10. PICK u \in Updates : FinalAnswerUpdate = {u} /\ \A x \in Updates : x <= u
    BY <1>1, AnswerChain DEF Chained
  <2>11. Max(FinalAnswerUpdate) = u
    <3>1. u \in Nat
      BY <2>1, LedgerSets, LedgerSubsets
    <3>2. {u} \subseteq Nat /\ \A x \in {u} : x <= u
      BY <3>1
    <3> QED
      BY <2>10, <3>2, MaxIs
  <2> QED
    BY <2>3, <2>4, <2>5, <2>6, <2>7, <2>9, <2>10, <2>11
<1>2. Chained => EvidenceChainIsComplete
  BY <1>1 DEF EvidenceChainIsComplete
<1> QED
  BY <1>2, RoutedInductive, JudgedInductive, FindingsAreFresh, ReferencesInductive, PTL DEF Chained

-----------------------------------------------------------------------------
(* The gap chain                                                            *)

(* What happened while a gap was open lies between the verify that left the *)
(* gap and the first one that resolved a gap of that verify.                *)
LEMMA RepairIsBetween ==
  ASSUME Chained, Eligible, NEW a \in Legal, actions[a].active_gaps # {}, SurvivesFinal(a)
  PROVE  \E s \in Verifications : a \in Between(s)
<1>1. TypeOK /\ ActiveGapsWereLeft /\ LeftGapsAreResolved
  BY DEF Chained, Routed
<1>2. Verifications \subseteq ActionIds /\ Legal \subseteq ActionIds /\ ActionIds \subseteq Nat
  BY <1>1, LedgerSets, LedgerSubsets
<1>3. PICK s \in Verifications : /\ s < a /\ actions[a].active_gaps = LeftGaps(s)
                                 /\ \A x \in Verifications : x < a => x <= s
  BY <1>1 DEF ActiveGapsWereLeft
<1> DEFINE S == {v \in Verifications : v > s /\ GapsAfter(s) \cap actions[v].resolved_gaps # {}}
<1>4. S # {}
  <2>1. PICK g \in LeftGaps(s) : TRUE
    BY <1>3
  <2>2. GapIds(Current.gaps) = {}
    BY EligibleVersion DEF GapIds
  <2>3. PICK r \in Verifications : s < r /\ g \in actions[r].resolved_gaps
    BY <1>1, <2>1, <2>2 DEF LeftGapsAreResolved
  <2>4. g \in GapsAfter(s)
    BY <2>1 DEF GapsAfter, LeftGaps
  <2> QED
    BY <1>2, <2>3, <2>4
<1>5. PICK v \in S : FirstOf(S) = {v}
  <2>1. S \subseteq ActionIds
    BY <1>2
  <2> HIDE DEF S
  <2> QED BY <1>1, <1>4, <2>1, FirstOfActions
<1>6. v \in Verifications /\ s < v /\ ResolvedBy(s) = {v}
  BY <1>2, <1>5 DEF ResolvedBy
<1>7. a # v
  BY <1>6 DEF SurvivesFinal, Verifications
<1>8. a < v
  <2>1. v < a => v <= s
    BY <1>3, <1>6
  <2>2. a \in Nat /\ v \in Nat /\ s \in Nat
    BY <1>2, <1>6
  <2> HIDE DEF S
  <2> QED
    BY <1>6, <1>7, <2>1, <2>2
<1> QED
  BY <1>3, <1>6, <1>8 DEF Between

(* Work done while a gap was open and kept in the final state is credited.  *)
THEOREM RepairsAreCredited == Spec => []SurvivingRepairsAreCredited
<1>1. ASSUME Chained, Eligible, NEW a \in Legal, actions[a].active_gaps # {}, SurvivesFinal(a)
      PROVE  a \in SelectedActions
  <2>1. PICK s \in Verifications : a \in Between(s)
    BY <1>1, RepairIsBetween
  <2>2. a \in GapChain(s)
    BY <2>1 DEF GapChain
  <2> DEFINE evidence_chains == UNION {EvidenceChain(x) : x \in FinalSupport}
             gap_chains      == UNION {GapChain(start) : start \in Verifications}
  <2>3. SelectedActions = {submit_action_id} \cup FinalVerify \cup FinalAnswerUpdate
                            \cup evidence_chains \cup gap_chains
    BY <1>1 DEF SelectedActions
  <2>4. a \in gap_chains
    BY <2>2, Zenon
  <2> HIDE DEF evidence_chains, gap_chains
  <2> QED
    BY <2>3, <2>4
<1>2. Chained => SurvivingRepairsAreCredited
  BY <1>1 DEF SurvivingRepairsAreCredited
<1> QED
  BY <1>2, RoutedInductive, JudgedInductive, FindingsAreFresh, ReferencesInductive, PTL DEF Chained

-----------------------------------------------------------------------------
(* Credit does not move once the answer is submitted                        *)

LEMMA SubmitStays ==
  ASSUME Next, IsSubmitted
  PROVE  submit_action_id' = submit_action_id
<1>1. CASE Retrieve
  BY <1>1, SearchLogs, OpenPageLogs, ReadEvidenceLogs DEF Retrieve
<1>2. CASE Revise
  <2>1. ~SubmitAnswer
    BY DEF SubmitAnswer, CanSubmit
  <2> QED
    BY <1>2, <2>1, UpdateStateLogs, VerifyAnswerLogs DEF Revise
<1>3. CASE Rejected
  BY <1>3, RejectLogs
     DEF Rejected, SearchRejected, OpenPageRejected, ReadEvidenceRejected,
         UpdateStateRejected, VerifyAnswerRejected, SubmitAnswerRejected
<1>4. CASE ForgetVisible
  BY <1>4 DEF ForgetVisible, store
<1> QED
  BY <1>1, <1>2, <1>3, <1>4 DEF Next

(* The router finds nothing new in a longer ledger of the same versions,    *)
(* writers and final Evidence.                                              *)
LongerLedger ==
  /\ states' = states /\ submit_action_id' = submit_action_id
  /\ Updates' = Updates /\ Verifications' = Verifications
  /\ Legal \subseteq Legal' /\ Legal' \subseteq Legal \cup {NextAction}
  /\ \A a \in ActionIds : actions'[a] = actions[a]
  /\ ArchiveGrows

LEMMA LongerLedgerSelectsTheSame ==
  ASSUME Routed, IsSubmitted, LongerLedger
  PROVE  SelectedActions' = SelectedActions
<1>1. TypeOK /\ EvidenceHasOrigin /\ states' = states
  BY DEF Routed, LongerLedger
<1>2. /\ Updates \subseteq ActionIds /\ Verifications \subseteq ActionIds
      /\ Legal \subseteq ActionIds /\ ActionIds \subseteq Nat
      /\ \A a \in ActionIds : a < NextAction
  BY <1>1, LedgerSets, LedgerSubsets
<1>3. /\ Updates' = Updates /\ Verifications' = Verifications
      /\ Current' = Current /\ FinalSupport' = FinalSupport
      /\ \A a \in ActionIds : /\ actions'[a] = actions[a]
                              /\ StateAfter(a)' = StateAfter(a)
                              /\ StateBefore(a)' = StateBefore(a)
  BY <1>1 DEF LongerLedger, Current, FinalSupport, StateAfter, StateBefore, StateAt, NoState
<1>4. Legal \subseteq Legal' /\ Legal' \subseteq Legal \cup {NextAction}
      /\ NextAction \notin ActionIds
  <2>1. NextAction \notin ActionIds
    BY <1>1, Tables DEF NextAction
  <2> QED
    BY <2>1 DEF LongerLedger
<1>5. \A a \in ActionIds : a \in Legal' <=> a \in Legal
  BY <1>4
<1>6. \A e \in FinalSupport : /\ evidence'[e] = evidence[e]
                              /\ evidence[e].created_by \in ActionIds
                              /\ evidence[e].search \in ActionIds
  BY <1>1, <1>2, SupportIsEvidence, ArchiveStays, LedgerSubsets
     DEF EvidenceHasOrigin, HasOrigin, LongerLedger
<1>7. Eligible' <=> Eligible
  <2>1. submit_action_id \in ActionIds
    BY DEF Routed, TypeOK, IsSubmitted
  <2> QED
    BY <1>1, <1>3, <1>5, <2>1 DEF Eligible, IsSubmitted, LongerLedger
<1>8. FinalVerify' = FinalVerify /\ FinalAnswerUpdate' = FinalAnswerUpdate
  <2>1. \A u \in Updates : HasFinalContent(StateAfter(u))' <=> HasFinalContent(StateAfter(u))
    BY <1>2, <1>3 DEF HasFinalContent
  <2>2. {u \in Updates : HasFinalContent(StateAfter(u))}' = {u \in Updates : HasFinalContent(StateAfter(u))}
    BY <1>3, <2>1
  <2> QED
    BY <1>3, <2>2 DEF FinalVerify, FinalAnswerUpdate
<1>9. ASSUME NEW e \in FinalSupport PROVE EvidenceChain(e)' = EvidenceChain(e)
  <2>1. Retrieval(e)' = Retrieval(e)
    BY <1>5, <1>6, <1>9 DEF Retrieval
  <2>2. FindingWriter(e)' = FindingWriter(e)
    <3>1. \A u \in Updates : /\ HasFinalFinding(StateAfter(u), e)' <=> HasFinalFinding(StateAfter(u), e)
                             /\ HasFinalFinding(StateBefore(u), e)' <=> HasFinalFinding(StateBefore(u), e)
      BY <1>2, <1>3 DEF HasFinalFinding
    <3>2. {u \in Updates : HasFinalFinding(StateAfter(u), e) /\ ~HasFinalFinding(StateBefore(u), e)}'
            = {u \in Updates : HasFinalFinding(StateAfter(u), e) /\ ~HasFinalFinding(StateBefore(u), e)}
      BY <1>3, <3>1
    <3> QED
      BY <3>2 DEF FindingWriter
  <2>3. SupportWriter(e)' = SupportWriter(e)
    <3>1. {u \in Updates : e \in ToSet(StateAfter(u).support) /\ e \notin ToSet(StateBefore(u).support)}'
            = {u \in Updates : e \in ToSet(StateAfter(u).support) /\ e \notin ToSet(StateBefore(u).support)}
      BY <1>2, <1>3 DEF ToSet
    <3> QED
      BY <3>1 DEF SupportWriter
  <2>4. FindingSource(e)' = FindingSource(e)
    <3>1. FindingWriter(e) \subseteq ActionIds
      BY <1>1, <1>2, WritersFound
    <3>2. \A u \in FindingWriter(e) : e \in DOMAIN actions[u].inputs => actions[u].inputs[e] \in ActionIds
      <4>1. \A u \in ActionIds : actions[u] \in ActionRow
        BY <1>1 DEF TypeOK, ActionIds
      <4>2. \A u \in ActionIds : actions[u].inputs \in PartialFunctions(EvidenceIds, ActionIds)
        BY <4>1 DEF ActionRow
      <4> QED
        BY <3>1, <4>2 DEF PartialFunctions
    <3>3. \A a \in Legal' : (\E u \in FindingWriter(e) :
                               e \in DOMAIN actions'[u].inputs /\ actions'[u].inputs[e] = a)
                            => a \in Legal
      BY <1>3, <1>5, <3>1, <3>2
    <3> QED
      BY <1>2, <1>3, <1>4, <2>2, <3>1, <3>3 DEF FindingSource
  <2> QED
    BY <2>1, <2>2, <2>3, <2>4 DEF EvidenceChain
<1>10. \A a \in ActionIds : SurvivesFinal(a)' <=> SurvivesFinal(a)
  BY <1>3, <1>6 DEF SurvivesFinal, HasFinalFinding, ToSet
<1>11. ASSUME NEW start \in Verifications PROVE GapChain(start)' = GapChain(start)
  <2>1. GapsAfter(start)' = GapsAfter(start)
    BY <1>2, <1>3 DEF GapsAfter, GapIds
  <2>2. {v \in Verifications : v > start /\ GapsAfter(start) \cap actions[v].resolved_gaps # {}}'
          = {v \in Verifications : v > start /\ GapsAfter(start) \cap actions[v].resolved_gaps # {}}
    BY <1>2, <1>3, <2>1
  <2>3. ResolvedBy(start)' = ResolvedBy(start)
    BY <2>2 DEF ResolvedBy, FirstOf, Min
  <2>4. ResolvedBy(start) \subseteq ActionIds
    <3> DEFINE S == {v \in Verifications : v > start /\ GapsAfter(start) \cap actions[v].resolved_gaps # {}}
    <3>1. S \subseteq ActionIds
      BY <1>2
    <3>2. FirstOf(S) \subseteq S
      <4> HIDE DEF S
      <4> QED BY <1>1, <3>1, FirstOfActions
    <3> QED
      BY <3>1, <3>2 DEF ResolvedBy
  <2>5. \A a \in Legal' : (\E v \in ResolvedBy(start) : a < v) => a \in Legal
    <3>1. \A v \in ResolvedBy(start) : v < NextAction /\ v \in Nat /\ NextAction \in Nat
      BY <1>1, <1>2, <2>4, LedgerSubsets
    <3> QED
      BY <1>4, <3>1
  <2>6. Between(start)' = Between(start)
    BY <1>2, <1>4, <1>10, <2>3, <2>5 DEF Between
  <2> QED
    BY <2>3, <2>6 DEF GapChain
<1> DEFINE evidence_chains == UNION {EvidenceChain(e) : e \in FinalSupport}
           gap_chains      == UNION {GapChain(start) : start \in Verifications}
<1>12. evidence_chains' = evidence_chains
  BY <1>3, <1>9
<1>13. gap_chains' = gap_chains
  BY <1>3, <1>11
<1>14. SelectedActions = IF ~Eligible THEN {} ELSE {submit_action_id} \cup FinalVerify
                           \cup FinalAnswerUpdate \cup evidence_chains \cup gap_chains
  BY DEF SelectedActions
<1>15. SelectedActions' = IF ~Eligible' THEN {} ELSE {submit_action_id'} \cup FinalVerify'
                            \cup FinalAnswerUpdate' \cup evidence_chains' \cup gap_chains'
  BY DEF SelectedActions
<1> HIDE DEF evidence_chains, gap_chains
<1> QED
  BY <1>7, <1>8, <1>12, <1>13, <1>14, <1>15 DEF LongerLedger

LEMMA QuietSelectsTheSame ==
  ASSUME Routed, NEW row, Quiet(row), IsSubmitted, submit_action_id' = submit_action_id
  PROVE  SelectedActions' = SelectedActions
<1>1. TypeOK /\ states' = states
  BY DEF Routed, Quiet
<1>2. Legal \subseteq Legal' /\ Legal' \subseteq Legal \cup {NextAction}
  BY <1>1, LegalGrows DEF Quiet
<1>3. LongerLedger
  BY <1>1, <1>2, QuietLeaves DEF LongerLedger
<1> QED
  BY <1>3, LongerLedgerSelectsTheSame

LEMMA SameStoreSelectsTheSame ==
  ASSUME Routed, UNCHANGED store, IsSubmitted
  PROVE  SelectedActions' = SelectedActions
<1>1. evidence' = evidence /\ states' = states /\ actions' = actions
      /\ submit_action_id' = submit_action_id
  BY DEF store
<1>2. Legal' = Legal
  BY <1>1 DEF Legal, ActionIds
<1>3. Updates' = Updates /\ Verifications' = Verifications
  BY <1>1, <1>2 DEF Updates, Verifications
<1>4. LongerLedger
  BY <1>1, <1>2, <1>3 DEF LongerLedger, ArchiveGrows
<1> QED
  BY <1>4, LongerLedgerSelectsTheSame

(* Credit depends on the ledger only through the states: whatever is        *)
(* searched, opened, read or rejected after the submit, the credited set    *)
(* stays the same.                                                          *)
THEOREM CreditStaysSettled == Spec => CreditIsSettled
<1>1. ASSUME Routed, [Next]_vars
      PROVE  [IsSubmitted /\ UNCHANGED states => UNCHANGED SelectedActions]_vars
  <2>1. SUFFICES ASSUME Next, IsSubmitted, states' = states PROVE SelectedActions' = SelectedActions
    BY <1>1
  <2>2. TypeOK /\ submit_action_id' = submit_action_id
    BY <1>1, <2>1, SubmitStays DEF Routed
  <2>3. ASSUME NEW row, NEW state, Writes(row, state) PROVE FALSE
    <3>1. Len(states') = Len(states) + 1 /\ Len(states) \in Nat
      BY <2>2, <2>3, WritesAdds
    <3> QED
      BY <2>1, <3>1
  <2> QED
    BY <1>1, <2>1, <2>2, <2>3, StepsAre, QuietSelectsTheSame, SameStoreSelectsTheSame
       DEF Updating, Judging
<1> QED
  BY <1>1, RoutedInductive, PTL DEF Spec, CreditIsSettled

-----------------------------------------------------------------------------
(* The audit                                                                *)

(* What the audit wants of version v and of the action c that wrote it.     *)
AuditedAs(v, c) ==
  /\ c \in Writers /\ actions[c].after = v
  /\ \A e \in EvidenceIds : e \in DOMAIN states[v].directory <=> evidence[e].created_by < c
  /\ DOMAIN states[v].directory \subseteq EvidenceIds
  /\ ToSet(states[v].support) \subseteq DOMAIN states[v].directory
  /\ actions[c].kind = "update_state" =>
       /\ states[v].status = "unverified"
       /\ v # 1 => states[v].gaps = states[v - 1].gaps
  /\ actions[c].kind = "verify_answer" =>
       /\ v # 1
       /\ states[v].answer = states[v - 1].answer
       /\ states[v].directory = states[v - 1].directory
       /\ states[v].support = states[v - 1].support

VersionsPass == \A v \in Versions : AuditedAs(v, states[v].created_by)

(* What a version passed with stays: pages that arrive later are later than *)
(* its writer.                                                              *)
LEMMA PassedVersionsStay ==
  ASSUME TypeOK, EvidenceIsOlder, VersionsPass, NEW row, Log(row), ArchiveGrows,
         states' = states \/ \E state : states' = Append(states, state),
         NEW v \in Versions
  PROVE  AuditedAs(v, states[v].created_by)' /\ states'[v] = states[v]
<1> PICK c : c = states[v].created_by
  OBVIOUS
<1>1. AuditedAs(v, c)
  BY DEF VersionsPass
<1>2. c \in Writers' /\ c \in ActionIds /\ actions'[c] = actions[c]
  BY <1>1, WritersGrow, LedgerSubsets, LogGrows DEF AuditedAs
<1>3. Versions = 1..Len(states) /\ Len(states) \in Nat
      /\ \A w \in Versions : states'[w] = states[w]
  BY Tables, VersionsStay
<1>4. v # 1 => v - 1 \in Versions
  BY <1>3
<1>5. states'[v] = states[v] /\ (v # 1 => states'[v - 1] = states[v - 1])
  BY <1>3, <1>4
<1>6. EvidenceIds \subseteq EvidenceIds' /\ \A e \in EvidenceIds : evidence'[e] = evidence[e]
  BY ArchiveStays
<1>7. ASSUME NEW e \in EvidenceIds' \ EvidenceIds PROVE ~(evidence'[e].created_by < c)
  <2>1. evidence'[e].created_by = NextAction
    BY <1>7, ArchiveStays
  <2> QED
    BY <1>2, <2>1, LedgerSubsets
<1>8. \A e \in EvidenceIds' : e \in DOMAIN states'[v].directory <=> evidence'[e].created_by < c
  BY <1>1, <1>5, <1>6, <1>7 DEF AuditedAs
<1>9. AuditedAs(v, c)'
  BY <1>1, <1>2, <1>5, <1>6, <1>8 DEF AuditedAs, ToSet
<1> QED
  BY <1>5, <1>9

LEMMA WritesKeepsPassing ==
  ASSUME TypeOK, EvidenceIsOlder, VersionsPass, NEW row, NEW state,
         Updating(row, state) \/ (Judging(row, state) /\ SupportIsIndexed)
  PROVE  VersionsPass'
<1> PICK c, n : c = NextAction /\ n = Len(states) + 1
  OBVIOUS
<1>1. Writes(row, state) /\ states' = Append(states, state) /\ evidence' = evidence /\ Log(row)
  BY DEF Updating, Judging, Writes
<1>2. /\ Versions' = Versions \cup {n} /\ states'[n] = state
      /\ \A v \in Versions : states'[v] = states[v]
  BY <1>1, NewVersion
<1>3. /\ c \in Writers' /\ actions'[c] = row /\ row.after = n
      /\ \A a \in ActionIds : a < c
  <2>1. row.legal /\ row.kind \in {"update_state", "verify_answer"}
    BY DEF Updating, Judging, Writes
  <2> QED
    BY <1>1, <2>1, WritersGrow, LogGrows, LedgerSubsets DEF Writes
<1>4. n # 1 => Current = states'[n - 1]
  <2>1. states \in Seq(TaskState)
    BY DEF TypeOK
  <2>2. n # 1 => /\ states # <<>> /\ n - 1 = Len(states) /\ Len(states) \in Versions
    BY <2>1, Tables
  <2> QED
    BY <1>2, <2>2 DEF Current
<1>5. states # <<>> => n # 1
  <2>1. states \in Seq(TaskState)
    BY DEF TypeOK
  <2> QED
    BY <2>1
<1>6. EvidenceIds' = EvidenceIds /\ \A e \in EvidenceIds : evidence'[e].created_by < c
  BY <1>1, <1>3 DEF EvidenceIds, EvidenceIsOlder
<1>7. CASE Updating(row, state)
  <2>1. AuditedAs(n, c)'
    BY <1>2, <1>3, <1>4, <1>6, <1>7 DEF AuditedAs, Updating, ToSet
  <2> QED
    BY <1>1, <1>2, <2>1, PassedVersionsStay DEF VersionsPass, ArchiveGrows, Writes
<1>8. CASE Judging(row, state) /\ SupportIsIndexed
  <2>1. DOMAIN Current.directory = EvidenceIds
    <3>1. EvidenceIds \subseteq DOMAIN Current.directory
      BY <1>8 DEF Judging, Missing
    <3>2. Current.directory \in PartialFunctions(EvidenceIds, Findings)
      BY CurrentIsTaskState DEF TaskState
    <3> QED
      BY <3>1, <3>2 DEF PartialFunctions
  <2>2. ToSet(state.support) \subseteq DOMAIN state.directory
    BY <1>8 DEF Judging, SupportIsIndexed, FinalSupport
  <2>3. AuditedAs(n, c)'
    BY <1>2, <1>3, <1>4, <1>5, <1>6, <1>8, <2>1, <2>2 DEF AuditedAs, Judging, ToSet
  <2> QED
    BY <1>1, <1>2, <2>3, PassedVersionsStay DEF VersionsPass, ArchiveGrows, Writes
<1> QED
  BY <1>7, <1>8

LEMMA VersionsPassInductive == Spec => []VersionsPass
<1>1. Init => VersionsPass
  BY DEF Init, VersionsPass, Versions
<1>2. Routed /\ Judged /\ VersionsPass /\ [Next]_vars => VersionsPass'
  <2>1. ASSUME VersionsPass, UNCHANGED store PROVE VersionsPass'
    BY <2>1 DEF store, VersionsPass, AuditedAs, Versions, EvidenceIds, Writers, LegalOf, ActionIds
  <2>2. ASSUME TypeOK, EvidenceIsOlder, VersionsPass, NEW row, Quiet(row) PROVE VersionsPass'
    <3>1. Log(row) /\ ArchiveGrows /\ states' = states /\ Versions' = Versions
      BY <2>2, QuietLeaves DEF Quiet, Versions
    <3> QED
      BY <2>2, <3>1, PassedVersionsStay DEF VersionsPass
  <2>3. ASSUME Routed, Judged, VersionsPass, Next PROVE VersionsPass'
    <3>1. TypeOK /\ EvidenceIsOlder /\ SupportIsIndexed
      BY <2>3 DEF Routed, Judged
    <3> QED
      BY <2>1, <2>2, <2>3, <3>1, StepsAre, WritesKeepsPassing
  <2> QED
    BY <2>1, <2>3 DEF vars
<1> QED
  BY <1>1, <1>2, RoutedInductive, JudgedInductive, PTL DEF Spec

(* What the handlers write and the ledger that explains it agree in every   *)
(* state of every episode.  The audit of an episode reports nothing but     *)
(* EMPTY_EVIDENCE, of a page of white space, and SUBMIT_STATE or            *)
(* SUBMIT_ANSWER_MISMATCH, after a version later than the submitted one.    *)
THEOREM EveryEpisodePassesAudit == Spec => []LedgerPassesAudit
<1>1. ASSUME Routed, Judged, VersionsPass PROVE LedgerPassesAudit
  <2>1. TypeOK /\ EvidenceHasOrigin
    BY <1>1 DEF Routed
  <2>2. \A e \in EvidenceIds :
          /\ evidence[e].created_by \in ActionIds
          /\ actions[evidence[e].created_by].kind = "open_page"
          /\ e \in actions[evidence[e].created_by].created
    BY <2>1 DEF EvidenceHasOrigin, HasOrigin, LegalOf
  <2>3. EVIDENCE_CREATOR = {} /\ EVIDENCE_CREATOR_LINK = {}
    BY <2>2 DEF EVIDENCE_CREATOR, EVIDENCE_CREATOR_LINK
  <2>4. \A e \in EMPTY_EVIDENCE : evidence[e].doc \in BlankDocs
    <3>1. \A e \in EvidenceIds : evidence[e] \in EvidenceRow
      BY <2>1 DEF TypeOK, EvidenceIds
    <3> QED
      BY <3>1 DEF EMPTY_EVIDENCE, EvidenceRow
  <2>5. \A v \in Versions : AuditedAs(v, states[v].created_by)
    BY <1>1 DEF VersionsPass
  <2>6. \A v \in Versions : states[v].created_by \in ActionIds
    BY <2>1, <2>5, LedgerSubsets DEF AuditedAs
  <2>7. STATE_CREATOR = {} /\ Audited = Versions
    BY <2>6 DEF STATE_CREATOR, Audited
  <2>8. STATE_ACTION_LINK = {} /\ SUPPORT_DIRECTORY = {}
    BY <2>5, <2>7 DEF STATE_ACTION_LINK, SUPPORT_DIRECTORY, Creator, AuditedAs
  <2>9. DIRECTORY_COVERAGE = {}
    <3>1. ASSUME NEW v \in Versions
          PROVE  DOMAIN states[v].directory = ArchivedBefore(states[v].created_by)
      BY <2>2, <2>5 DEF ArchivedBefore, AuditedAs
    <3> QED
      BY <2>7, <3>1 DEF DIRECTORY_COVERAGE
  <2>10. \A v \in Versions : Creator(v).kind \in {"update_state", "verify_answer"}
    BY <2>5 DEF Creator, AuditedAs, Writers, LegalOf
  <2>11. INVALID_STATE_ACTION = {}
    BY <2>7, <2>10 DEF INVALID_STATE_ACTION, Created
  <2>12. UPDATE_VERIFICATION = {} /\ UPDATE_CHANGED_GAPS = {}
    BY <2>5, <2>7 DEF UPDATE_VERIFICATION, UPDATE_CHANGED_GAPS, Created, Creator, AuditedAs
  <2>13. VERIFY_WITHOUT_STATE = {} /\ VERIFY_CHANGED_CONTENT = {}
    BY <2>5, <2>7
       DEF VERIFY_WITHOUT_STATE, VERIFY_CHANGED_CONTENT, Created, Creator, AuditedAs, SameContent
  <2>14. ~SUBMIT_ACTION
    <3>1. IsSubmitted => submit_action_id \in LegalOf("submit_answer")
      BY <1>1 DEF Judged, SubmittedAnswerWasVerified
    <3> QED
      BY <3>1 DEF SUBMIT_ACTION, LegalOf
  <2>15. SUBMIT_STATE \/ SUBMIT_ANSWER_MISMATCH => actions[submit_action_id].before < Len(states)
    <3> SUFFICES ASSUME IsSubmitted, ~(actions[submit_action_id].before < Len(states))
                 PROVE  ~SUBMIT_STATE /\ ~SUBMIT_ANSWER_MISMATCH
      BY DEF SUBMIT_STATE, SUBMIT_ANSWER_MISMATCH
    <3> DEFINE v == actions[submit_action_id].before
    <3>1. /\ submit_action_id \in ActionIds /\ v > 1
          /\ states[v].status = "supported" /\ states[v].gaps = <<>>
          /\ states[v].answer = submitted_answer
      BY <1>1 DEF Judged, SubmittedAnswerWasVerified, LegalOf
    <3>2. v \in 0..Len(states) /\ Len(states) \in Nat
      BY <2>1, <3>1, RowTypes, Tables
    <3>3. v = Len(states) /\ states # <<>>
      BY <3>1, <3>2
    <3> QED
      BY <3>1, <3>3 DEF SUBMIT_STATE, SUBMIT_ANSWER_MISMATCH, Current
  <2> QED
    BY <2>3, <2>4, <2>7, <2>8, <2>9, <2>11, <2>12, <2>13, <2>14, <2>15 DEF LedgerPassesAudit
<1> QED
  BY <1>1, RoutedInductive, JudgedInductive, VersionsPassInductive, PTL

=============================================================================
