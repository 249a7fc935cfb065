-------------------------- MODULE ESRSafetyProofs --------------------------
(***************************************************************************)
(* Proofs of safety invariants of ESRSafety, on top of type correctness,    *)
(* and of what the gaps of an episode keep.                                 *)
(***************************************************************************)
EXTENDS ESRProofs

-----------------------------------------------------------------------------
(* How the sets read from the ledger grow                                   *)

LEMMA LegalOfGrows ==
  ASSUME TypeOK, NEW row, Log(row), NEW kind
  PROVE  LegalOf(kind)' = LegalOf(kind)
           \cup IF row.legal /\ row.kind = kind THEN {NextAction} ELSE {}
<1>1. ActionIds' = ActionIds \cup {NextAction}
  BY Tables, LogGrows DEF NextAction
<1>2. actions'[NextAction] = row /\ \A a \in ActionIds : actions'[a] = actions[a]
  BY LogGrows
<1> QED
  BY <1>1, <1>2 DEF LegalOf

(* A row that is not a legal update or verify leaves the writers alone. *)
LEMMA WritersGrow ==
  ASSUME TypeOK, NEW row, Log(row)
  PROVE  Writers' = Writers
           \cup IF row.legal /\ row.kind \in {"update_state", "verify_answer"}
                THEN {NextAction} ELSE {}
BY LegalOfGrows DEF Writers

LEMMA ShowsStays ==
  ASSUME TypeOK, NEW row, Log(row), NEW a \in ActionIds, NEW e
  PROVE  Shows(a, e)' <=> Shows(a, e)
<1>1. NextAction \notin ActionIds /\ actions'[a] = actions[a]
  BY LogGrows
<1> QED
  BY <1>1, LegalOfGrows DEF Shows

(* The row just logged; a is its id, which the step does not change. *)
LEMMA NewestShows ==
  ASSUME TypeOK, NEW row, Log(row), NEW a, a = NextAction, NEW e,
         row.legal, row.kind \in {"open_page", "read_evidence"},
         e \in row.created \cup row.referenced
  PROVE  Shows(a, e)'
<1>1. actions'[a] = row
  BY LogGrows
<1>2. a \in (LegalOf("open_page") \cup LegalOf("read_evidence"))'
  BY LegalOfGrows
<1> QED
  BY <1>1, <1>2 DEF Shows

(* Writers and readers are rows of the ledger. *)
LEMMA LedgerSubsets ==
  ASSUME TypeOK
  PROVE  /\ Writers \subseteq ActionIds /\ ActionIds \subseteq Nat
         /\ \A kind : LegalOf(kind) \subseteq ActionIds
         /\ NextAction \in Nat /\ \A a \in ActionIds : a < NextAction
BY Tables DEF Writers, LegalOf, NextAction

-----------------------------------------------------------------------------
(* What each call logs                                                      *)

(* The call logs a row of this kind that ran against the latest version and *)
(* appended the version after, or none if that is 0.                        *)
Logs(kind, legal, after) ==
  \E row : /\ Log(row)
           /\ row.kind = kind /\ row.legal = legal
           /\ row.before = Len(states) /\ row.after = after

LEMMA RejectLogs ==
  ASSUME NEW kind, Reject(kind)
  PROVE  Logs(kind, FALSE, 0) /\ UNCHANGED <<evidence, states, submit_action_id, submitted_answer, visible>>
<1> DEFINE row == [Action(kind) EXCEPT !.legal = FALSE]
<1>1. Log(row) /\ UNCHANGED <<evidence, states, submit_action_id, submitted_answer, visible>>
  BY DEF Reject
<1>2. row.kind = kind /\ row.legal = FALSE /\ row.before = Len(states) /\ row.after = 0
  BY DEF Action
<1> HIDE DEF row
<1> QED
  BY <1>1, <1>2 DEF Logs

LEMMA SearchLogs ==
  ASSUME Search
  PROVE  Logs("search", TRUE, 0) /\ UNCHANGED <<evidence, states, submit_action_id, submitted_answer, visible>>
<1>1. PICK hits \in SUBSET Docs :
        /\ Log([Action("search") EXCEPT !.active_gaps = GapIds(Current.gaps), !.hits = hits])
        /\ UNCHANGED <<evidence, states, submit_action_id, submitted_answer, visible>>
  BY DEF Search
<1> DEFINE row == [Action("search") EXCEPT !.active_gaps = GapIds(Current.gaps), !.hits = hits]
<1>2. row.kind = "search" /\ row.legal = TRUE /\ row.before = Len(states) /\ row.after = 0
  BY DEF Action
<1>3. Log(row)
  BY <1>1
<1> HIDE DEF row
<1> QED
  BY <1>1, <1>2, <1>3 DEF Logs

(* A page is put in view by the row that created or referenced it. *)
LEMMA OpenPageLogs ==
  ASSUME NEW doc, NEW search, OpenPage(doc, search)
  PROVE  /\ Logs("open_page", TRUE, 0)
         /\ UNCHANGED <<states, submit_action_id, submitted_answer>>
         /\ \E row, page : /\ Log(row) /\ row.legal /\ row.kind = "open_page"
                           /\ page \in row.created \cup row.referenced
                           /\ visible' = Show(page, NextAction)
         /\ \/ evidence' = evidence
            \/ \E d, s : evidence' = Append(evidence, [doc |-> d, created_by |-> NextAction, search |-> s])
<1> DEFINE opening == [Action("open_page") EXCEPT !.active_gaps = GapIds(Current.gaps),
                                                  !.parents = {search}]
           known   == FindEvidence(doc)
           new     == Len(evidence) + 1
<1>1. /\ UNCHANGED <<states, submit_action_id, submitted_answer>>
      /\ \/ /\ Log([opening EXCEPT !.referenced = {known}])
            /\ visible' = Show(known, NextAction)
            /\ UNCHANGED evidence
         \/ /\ Log([opening EXCEPT !.created = {new}])
            /\ visible' = Show(new, NextAction)
            /\ evidence' = Append(evidence, [doc |-> doc, created_by |-> NextAction,
                                             search |-> search])
  BY DEF OpenPage
<1>2. PICK row, page : /\ Log(row)
                       /\ \/ row = [opening EXCEPT !.referenced = {known}] /\ page = known
                          \/ row = [opening EXCEPT !.created = {new}] /\ page = new
                       /\ visible' = Show(page, NextAction)
  <2> HIDE DEF opening, known, new
  <2> QED BY <1>1
<1>3. /\ row.kind = "open_page" /\ row.legal = TRUE /\ row.before = Len(states) /\ row.after = 0
      /\ page \in row.created \cup row.referenced
  <2> HIDE DEF known, new
  <2>1. CASE row = [opening EXCEPT !.referenced = {known}] /\ page = known
    BY <2>1 DEF Action
  <2>2. CASE row = [opening EXCEPT !.created = {new}] /\ page = new
    BY <2>2 DEF Action
  <2> QED
    BY <1>2, <2>1, <2>2
<1>4. Logs("open_page", TRUE, 0)
  BY <1>2, <1>3 DEF Logs
<1>5. \/ evidence' = evidence
      \/ \E d, s : evidence' = Append(evidence, [doc |-> d, created_by |-> NextAction, search |-> s])
  <2> HIDE DEF opening, known, new
  <2> QED BY <1>1
<1> QED
  BY <1>1, <1>2, <1>3, <1>4, <1>5

LEMMA ReadEvidenceLogs ==
  ASSUME NEW e, ReadEvidence(e)
  PROVE  /\ Logs("read_evidence", TRUE, 0)
         /\ UNCHANGED <<evidence, states, submit_action_id, submitted_answer>>
         /\ \E row, page : /\ Log(row) /\ row.legal /\ row.kind = "read_evidence"
                           /\ page \in row.created \cup row.referenced
                           /\ visible' = Show(page, NextAction)
<1> DEFINE row == [Action("read_evidence") EXCEPT !.active_gaps = GapIds(Current.gaps),
                                                  !.referenced = {e}]
<1>1. /\ Log(row) /\ visible' = Show(e, NextAction)
      /\ UNCHANGED <<evidence, states, submit_action_id, submitted_answer>>
  BY DEF ReadEvidence
<1>2. /\ row.kind = "read_evidence" /\ row.legal = TRUE /\ row.before = Len(states) /\ row.after = 0
      /\ e \in row.created \cup row.referenced
  BY DEF Action
<1> HIDE DEF row
<1> QED
  BY <1>1, <1>2 DEF Logs

LEMMA UpdateStateLogs ==
  ASSUME NEW answer, NEW patch, NEW support, UpdateState(answer, patch, support)
  PROVE  /\ Logs("update_state", TRUE, Len(states) + 1)
         /\ UNCHANGED <<evidence, submit_action_id, submitted_answer>>
<1> DEFINE inputs == [e \in Changed(Current.directory, patch) |-> visible[e]]
           row    == [Action("update_state") EXCEPT
                        !.after           = Len(states) + 1,
                        !.parents         = Range(inputs),
                        !.referenced      = DOMAIN Merge(Current.directory, patch),
                        !.active_gaps     = GapIds(Current.gaps),
                        !.inputs          = inputs,
                        !.changed         = Changed(Current.directory, Merge(Current.directory, patch)),
                        !.answer_changed  = states = <<>> \/ Current.answer # answer,
                        !.support_changed = states = <<>> \/ Current.support # support]
<1>1. Log(row) /\ UNCHANGED <<evidence, submit_action_id, submitted_answer>>
  BY DEF UpdateState
<1>2. row.kind = "update_state" /\ row.legal = TRUE
      /\ row.before = Len(states) /\ row.after = Len(states) + 1
  <2> HIDE DEF inputs
  <2> QED BY DEF Action
<1> HIDE DEF row
<1> QED
  BY <1>1, <1>2 DEF Logs

LEMMA VerifyAnswerLogs ==
  ASSUME NEW status, NEW texts, VerifyAnswer(status, texts)
  PROVE  /\ Logs("verify_answer", TRUE, Len(states) + 1)
         /\ UNCHANGED <<evidence, submit_action_id, submitted_answer>>
         /\ visible' = <<>>
<1> DEFINE old_ids == GapIds(Current.gaps)
           new_ids == GapIds(GapsFor(texts))
           row     == [Action("verify_answer") EXCEPT
                         !.after         = Len(states) + 1,
                         !.referenced    = ToSet(Current.support),
                         !.active_gaps   = old_ids,
                         !.created_gaps  = new_ids \ old_ids,
                         !.resolved_gaps = old_ids \ new_ids]
<1>1. Log(row) /\ UNCHANGED <<evidence, submit_action_id, submitted_answer>> /\ visible' = <<>>
  BY DEF VerifyAnswer, NothingVisible
<1>2. row.kind = "verify_answer" /\ row.legal = TRUE
      /\ row.before = Len(states) /\ row.after = Len(states) + 1
  <2> HIDE DEF old_ids, new_ids
  <2> QED BY DEF Action
<1> HIDE DEF row
<1> QED
  BY <1>1, <1>2 DEF Logs

LEMMA SubmitAnswerLogs ==
  ASSUME SubmitAnswer
  PROVE  Logs("submit_answer", TRUE, 0) /\ UNCHANGED <<evidence, states, visible>>
<1> DEFINE row == [Action("submit_answer") EXCEPT !.referenced = ToSet(Current.support)]
<1>1. Log(row) /\ UNCHANGED <<evidence, states, visible>>
  BY DEF SubmitAnswer
<1>2. row.kind = "submit_answer" /\ row.legal = TRUE /\ row.before = Len(states) /\ row.after = 0
  BY DEF Action
<1> HIDE DEF row
<1> QED
  BY <1>1, <1>2 DEF Logs

-----------------------------------------------------------------------------
(* Findings are written from pages in view                                  *)

FreshReads == TypeOK /\ VisiblePagesAreFresh /\ FindingsComeFromFreshReads

(* The row a legal update logs: each finding it changes has an input that   *)
(* shows its page and follows every writer.                                 *)
FreshUpdate(row) ==
  /\ DOMAIN row.inputs = row.changed
  /\ \A e \in row.changed : /\ row.inputs[e] \in ActionIds
                            /\ Shows(row.inputs[e], e)
                            /\ \A w \in Writers : w < row.inputs[e]

(* What an update of the ledger says of its inputs stays true; a new one    *)
(* has to be fresh.                                                         *)
LEMMA FindingsStayFresh ==
  ASSUME FreshReads, NEW row, Log(row),
         row.legal /\ row.kind = "update_state" => FreshUpdate(row)
  PROVE  FindingsComeFromFreshReads'
<1>1. SUFFICES ASSUME NEW u \in LegalOf("update_state")'
               PROVE  /\ DOMAIN actions'[u].inputs = actions'[u].changed
                      /\ \A e \in actions'[u].changed : \E source :
                           /\ source = actions'[u].inputs[e]
                           /\ source < u
                           /\ Shows(source, e)'
                           /\ \A w \in Writers' : ~(source < w /\ w < u)
  BY DEF FindingsComeFromFreshReads, Shows
<1>2. CASE u \in LegalOf("update_state")
  <2>1. u \in ActionIds /\ actions'[u] = actions[u]
    BY <1>2, LogGrows, LedgerSubsets DEF FreshReads
  <2>2. DOMAIN actions[u].inputs = actions[u].changed
    BY <1>2 DEF FreshReads, FindingsComeFromFreshReads
  <2>3. ASSUME NEW e \in actions[u].changed, NEW source, source = actions[u].inputs[e]
        PROVE  /\ source < u
               /\ Shows(source, e)'
               /\ \A w \in Writers' : ~(source < w /\ w < u)
    <3>1. source < u /\ Shows(source, e) /\ \A w \in Writers : ~(source < w /\ w < u)
      BY <1>2, <2>3 DEF FreshReads, FindingsComeFromFreshReads
    <3>2. source \in ActionIds
      BY <3>1, LedgerSubsets DEF Shows, FreshReads
    <3>3. Shows(source, e)'
      BY <3>1, <3>2, ShowsStays DEF FreshReads
    <3>4. \A w \in Writers' : ~(source < w /\ w < u)
      BY <2>1, <3>1, WritersGrow, LedgerSubsets DEF FreshReads
    <3> QED
      BY <3>1, <3>3, <3>4
  <2> QED
    BY <2>1, <2>2, <2>3
<1>3. CASE u \notin LegalOf("update_state")
  <2>1. u = NextAction /\ row.legal /\ row.kind = "update_state"
    BY <1>3, LegalOfGrows DEF FreshReads
  <2>2. actions'[u] = row /\ FreshUpdate(row)
    BY <2>1, LogGrows DEF FreshReads
  <2>3. ASSUME NEW e \in row.changed, NEW source, source = row.inputs[e]
        PROVE  /\ source < u
               /\ Shows(source, e)'
               /\ \A w \in Writers' : ~(source < w /\ w < u)
    <3>1. source \in ActionIds /\ Shows(source, e) /\ \A w \in Writers : w < source
      BY <2>2, <2>3 DEF FreshUpdate
    <3>2. Shows(source, e)'
      BY <3>1, ShowsStays DEF FreshReads
    <3> QED
      BY <2>1, <3>1, <3>2, WritersGrow, LedgerSubsets DEF FreshReads
  <2> QED
    BY <2>2, <2>3 DEF FreshUpdate
<1> QED
  BY <1>2, <1>3

(* A call that is no state change keeps the pages in view, and may add the  *)
(* one it opened or read.                                                   *)
LEMMA VisibleStaysFresh ==
  ASSUME FreshReads, NEW row, Log(row),
         ~(row.legal /\ row.kind \in {"update_state", "verify_answer"}),
         NEW shown, \A e \in shown : /\ row.legal
                                     /\ row.kind \in {"open_page", "read_evidence"}
                                     /\ e \in row.created \cup row.referenced,
         DOMAIN visible' \subseteq DOMAIN visible \cup shown,
         \A e \in DOMAIN visible' :
           visible'[e] = IF e \in shown THEN NextAction ELSE visible[e]
  PROVE  VisiblePagesAreFresh'
<1>1. SUFFICES ASSUME NEW e \in DOMAIN visible', NEW a, a = visible'[e]
               PROVE  Shows(a, e)' /\ \A w \in Writers' : w < a
  BY DEF VisiblePagesAreFresh, Shows
<1>2. Writers' = Writers
  BY WritersGrow DEF FreshReads
<1>3. CASE e \in shown
  <2>1. a = NextAction
    BY <1>1, <1>3
  <2>2. Shows(a, e)'
    BY <1>3, <2>1, NewestShows DEF FreshReads
  <2>3. \A w \in Writers' : w < a
    BY <1>2, <2>1, LedgerSubsets DEF FreshReads
  <2> QED
    BY <2>2, <2>3
<1>4. CASE e \notin shown
  <2>1. a = visible[e] /\ e \in DOMAIN visible
    BY <1>1, <1>4
  <2>2. Shows(a, e) /\ \A w \in Writers : w < a
    BY <2>1 DEF FreshReads, VisiblePagesAreFresh
  <2>3. a \in ActionIds
    BY <2>2, LedgerSubsets DEF Shows, FreshReads
  <2> QED
    BY <1>2, <2>2, <2>3, ShowsStays DEF FreshReads
<1> QED
  BY <1>3, <1>4

(* Calls that are rejected, search, or submit leave the view alone. *)
LEMMA SameViewStaysFresh ==
  ASSUME FreshReads, NEW row, Log(row), visible' = visible,
         ~(row.legal /\ row.kind \in {"update_state", "verify_answer"})
  PROVE  VisiblePagesAreFresh' /\ FindingsComeFromFreshReads'
<1>1. FindingsComeFromFreshReads'
  BY FindingsStayFresh
<1>2. VisiblePagesAreFresh'
  <2> DEFINE shown == {}
  <2>1. /\ DOMAIN visible' \subseteq DOMAIN visible \cup shown
        /\ \A e \in DOMAIN visible' :
             visible'[e] = IF e \in shown THEN NextAction ELSE visible[e]
    OBVIOUS
  <2>2. \A e \in shown : FALSE
    OBVIOUS
  <2> HIDE DEF shown
  <2> QED
    BY <2>1, <2>2, VisibleStaysFresh
<1> QED
  BY <1>1, <1>2

(* open_page and read_evidence add the page they returned. *)
LEMMA ShownPageIsFresh ==
  ASSUME FreshReads, NEW row, Log(row), NEW page, visible' = Show(page, NextAction),
         row.legal, row.kind \in {"open_page", "read_evidence"},
         page \in row.created \cup row.referenced
  PROVE  VisiblePagesAreFresh' /\ FindingsComeFromFreshReads'
<1>1. FindingsComeFromFreshReads'
  BY FindingsStayFresh
<1>2. VisiblePagesAreFresh'
  <2> DEFINE shown == {page}
  <2>1. /\ DOMAIN visible' \subseteq DOMAIN visible \cup shown
        /\ \A e \in DOMAIN visible' :
             visible'[e] = IF e \in shown THEN NextAction ELSE visible[e]
    BY DEF Show
  <2>2. \A e \in shown : e = page
    OBVIOUS
  <2> HIDE DEF shown
  <2>3. ~(row.legal /\ row.kind \in {"update_state", "verify_answer"})
    OBVIOUS
  <2> QED
    BY <2>1, <2>2, <2>3, VisibleStaysFresh
<1> QED
  BY <1>1, <1>2

(* The findings a patch changes are the findings the merge changed. *)
LEMMA MergeChangesThePatch ==
  ASSUME NEW old, NEW patch
  PROVE  Changed(old, Merge(old, patch)) = Changed(old, patch)
BY DEF Changed, Merge

LEMMA UpdateReadsFresh ==
  ASSUME FreshReads, NEW answer, NEW patch, NEW support, UpdateState(answer, patch, support)
  PROVE  VisiblePagesAreFresh' /\ FindingsComeFromFreshReads'
<1> DEFINE old     == Current
           new     == Merge(old.directory, patch)
           inputs  == [e \in Changed(old.directory, patch) |-> visible[e]]
           changed == Changed(old.directory, new)
           row     == [Action("update_state") EXCEPT
                         !.after           = Len(states) + 1,
                         !.parents         = Range(inputs),
                         !.referenced      = DOMAIN new,
                         !.active_gaps     = GapIds(old.gaps),
                         !.inputs          = inputs,
                         !.changed         = changed,
                         !.answer_changed  = states = <<>> \/ old.answer # answer,
                         !.support_changed = states = <<>> \/ old.support # support]
<1>1. CanUpdate(answer, patch, support) /\ Log(row) /\ visible' = <<>>
  BY DEF UpdateState, NothingVisible
<1>2. row.inputs = inputs /\ row.changed = changed
  BY DEF Action
<1>3. changed = Changed(old.directory, patch) /\ changed \subseteq DOMAIN visible
  BY <1>1, MergeChangesThePatch DEF CanUpdate
<1>4. FreshUpdate(row)
  <2> HIDE DEF row
  <2>1. ASSUME NEW e \in changed
        PROVE  /\ inputs[e] \in ActionIds /\ Shows(inputs[e], e)
               /\ \A w \in Writers : w < inputs[e]
    <3>1. inputs[e] = visible[e] /\ e \in DOMAIN visible
      BY <1>3
    <3>2. Shows(visible[e], e) /\ \A w \in Writers : w < visible[e]
      BY <3>1 DEF FreshReads, VisiblePagesAreFresh
    <3> QED
      BY <3>1, <3>2, LedgerSubsets DEF Shows, FreshReads
  <2>2. DOMAIN inputs = changed
    BY <1>3
  <2> HIDE DEF inputs, changed
  <2> QED
    BY <1>2, <2>1, <2>2 DEF FreshUpdate
<1>5. VisiblePagesAreFresh'
  BY <1>1 DEF VisiblePagesAreFresh
<1> HIDE DEF row
<1> QED
  BY <1>1, <1>4, <1>5, FindingsStayFresh

LEMMA ForgettingReadsFresh ==
  ASSUME FreshReads, visible' = <<>>, actions' = actions
  PROVE  VisiblePagesAreFresh' /\ FindingsComeFromFreshReads'
<1>1. \A kind : LegalOf(kind)' = LegalOf(kind)
  BY DEF LegalOf, ActionIds
<1>2. Writers' = Writers
  BY <1>1 DEF Writers
<1>3. \A a, e : Shows(a, e)' <=> Shows(a, e)
  BY <1>1 DEF Shows
<1>4. VisiblePagesAreFresh'
  BY DEF VisiblePagesAreFresh
<1> QED
  BY <1>1, <1>2, <1>3, <1>4 DEF FreshReads, FindingsComeFromFreshReads, Shows

LEMMA NextReadsFresh ==
  ASSUME FreshReads, Next
  PROVE  VisiblePagesAreFresh' /\ FindingsComeFromFreshReads'
<1>1. CASE Search
  BY <1>1, SearchLogs, SameViewStaysFresh DEF Logs
<1>2. ASSUME NEW doc, NEW search, OpenPage(doc, search)
      PROVE  VisiblePagesAreFresh' /\ FindingsComeFromFreshReads'
  BY <1>2, OpenPageLogs, ShownPageIsFresh
<1>3. ASSUME NEW e, ReadEvidence(e)
      PROVE  VisiblePagesAreFresh' /\ FindingsComeFromFreshReads'
  BY <1>3, ReadEvidenceLogs, ShownPageIsFresh
<1>4. ASSUME NEW status, NEW texts, VerifyAnswer(status, texts)
      PROVE  VisiblePagesAreFresh' /\ FindingsComeFromFreshReads'
  <2>1. visible' = <<>> /\ Logs("verify_answer", TRUE, Len(states) + 1)
    BY <1>4, VerifyAnswerLogs
  <2>2. VisiblePagesAreFresh'
    BY <2>1 DEF VisiblePagesAreFresh
  <2> QED
    BY <2>1, <2>2, FindingsStayFresh DEF Logs
<1>5. CASE SubmitAnswer
  BY <1>5, SubmitAnswerLogs, SameViewStaysFresh DEF Logs
<1>6. ASSUME NEW kind, Reject(kind)
      PROVE  VisiblePagesAreFresh' /\ FindingsComeFromFreshReads'
  BY <1>6, RejectLogs, SameViewStaysFresh DEF Logs
<1>7. CASE ForgetVisible
  BY <1>7, ForgettingReadsFresh DEF ForgetVisible, NothingVisible, store
<1>8. CASE Retrieve
  BY <1>1, <1>2, <1>3, <1>8 DEF Retrieve
<1>9. CASE Revise
  BY <1>4, <1>5, <1>9, UpdateReadsFresh DEF Revise
<1>10. CASE Rejected
  BY <1>6, <1>10 DEF Rejected, SearchRejected, OpenPageRejected, ReadEvidenceRejected,
                     UpdateStateRejected, VerifyAnswerRejected, SubmitAnswerRejected
<1> QED
  BY <1>7, <1>8, <1>9, <1>10 DEF Next

LEMMA FreshReadsInductive == Spec => []FreshReads
<1>1. Init => FreshReads
  BY InitHasTypes DEF Init, FreshReads, VisiblePagesAreFresh, FindingsComeFromFreshReads,
                      LegalOf, ActionIds
<1>2. FreshReads /\ [Next]_vars => FreshReads'
  <2>1. ASSUME FreshReads, Next PROVE FreshReads'
    BY <2>1, NextReadsFresh, NextKeepsTypes DEF FreshReads
  <2>2. ASSUME FreshReads, UNCHANGED vars PROVE FreshReads'
    <3>1. actions' = actions /\ visible' = visible /\ TypeOK'
      BY <2>2, StutterKeepsTypes DEF vars, store, FreshReads
    <3>2. \A kind : LegalOf(kind)' = LegalOf(kind)
      BY <3>1 DEF LegalOf, ActionIds
    <3>3. Writers' = Writers
      BY <3>2 DEF Writers
    <3> QED
      BY <2>2, <3>1, <3>2, <3>3
         DEF FreshReads, FindingsComeFromFreshReads, VisiblePagesAreFresh, Shows
  <2> QED
    BY <2>1, <2>2
<1> QED
  BY <1>1, <1>2, PTL DEF Spec

(* What the policy has in view was put there by a legal open_page or        *)
(* read_evidence of that Evidence, after every state change so far.         *)
THEOREM PagesInViewAreFresh == Spec => []VisiblePagesAreFresh
<1>1. FreshReads => VisiblePagesAreFresh
  BY DEF FreshReads
<1> QED
  BY <1>1, FreshReadsInductive, PTL

(* A finding is only ever written or changed from a page the policy read    *)
(* since the last state change: the ledger's finding_inputs can be trusted  *)
(* by the credit router.                                                    *)
THEOREM FindingsAreFresh == Spec => []FindingsComeFromFreshReads
<1>1. FreshReads => FindingsComeFromFreshReads
  BY DEF FreshReads
<1> QED
  BY <1>1, FreshReadsInductive, PTL

-----------------------------------------------------------------------------
(* The ledger explains the versions                                         *)

Versioned == TypeOK /\ LedgerExplainsVersions

LEMMA WritersAreFinite ==
  ASSUME TypeOK
  PROVE  IsFiniteSet(Writers) /\ Cardinality(Writers) \in Nat
<1>1. IsFiniteSet(ActionIds) /\ Writers \in SUBSET ActionIds
  BY Tables, FS_Interval, LedgerSubsets
<1> QED
  BY <1>1, FS_Subset, FS_CardinalityType

LEMMA LogKeepsVersions ==
  ASSUME Versioned, NEW row, Log(row), NEW writes \in BOOLEAN,
         writes <=> row.legal /\ row.kind \in {"update_state", "verify_answer"},
         row.before = Len(states),
         row.after = IF writes THEN Len(states) + 1 ELSE 0,
         Len(states') = IF writes THEN Len(states) + 1 ELSE Len(states)
  PROVE  LedgerExplainsVersions'
<1>1. Writers' = Writers \cup IF writes THEN {NextAction} ELSE {}
  BY WritersGrow DEF Versioned
<1>2. /\ Writers \subseteq ActionIds /\ ActionIds \subseteq Nat
      /\ NextAction \in Nat /\ \A a \in ActionIds : a < NextAction
  BY LedgerSubsets DEF Versioned
<1>3. ActionIds' = ActionIds \cup {NextAction} /\ NextAction \notin ActionIds
  BY <1>2, Tables, LogGrows DEF Versioned, NextAction
<1>4. actions'[NextAction] = row /\ \A a \in ActionIds : actions'[a] = actions[a]
  BY LogGrows DEF Versioned
<1>5. Cardinality(Writers) = Len(states) /\ Len(states) \in Nat
  BY Tables DEF Versioned, LedgerExplainsVersions
<1>6. Len(states') = Cardinality(Writers')
  <2>1. IsFiniteSet(Writers)
    BY WritersAreFinite DEF Versioned
  <2>2. NextAction \notin Writers
    BY <1>2, <1>3
  <2>3. Cardinality(Writers \cup {NextAction}) = Cardinality(Writers) + 1
    BY <2>1, <2>2, FS_AddElement
  <2> QED
    BY <1>1, <1>5, <2>3
<1>7. ASSUME NEW a \in ActionIds'
      PROVE  /\ actions'[a].before = Cardinality({w \in Writers' : w < a})
             /\ actions'[a].after = IF a \in Writers' THEN actions'[a].before + 1 ELSE 0
  <2>1. CASE a \in ActionIds
    <3>1. {w \in Writers' : w < a} = {w \in Writers : w < a}
      BY <1>1, <1>2, <2>1
    <3>2. a \in Writers' <=> a \in Writers
      BY <1>1, <1>3, <2>1
    <3> QED
      BY <1>4, <2>1, <3>1, <3>2 DEF Versioned, LedgerExplainsVersions
  <2>2. CASE a = NextAction
    <3>1. {w \in Writers' : w < a} = Writers
      <4>1. \A w \in Writers : w < a /\ w \in Writers'
        BY <1>1, <1>2, <2>2
      <4>2. \A w \in Writers' : w < a => w \in Writers
        BY <1>1, <1>2, <2>2
      <4> QED
        BY <4>1, <4>2
    <3>2. a \in Writers' <=> writes
      BY <1>1, <1>2, <1>3, <2>2
    <3> QED
      BY <1>4, <1>5, <2>2, <3>1, <3>2
  <2> QED
    BY <1>3, <2>1, <2>2
<1> QED
  BY <1>6, <1>7 DEF LedgerExplainsVersions

(* An action that logs what it did keeps the ledger and the states in step. *)
LEMMA LogsKeepVersions ==
  ASSUME Versioned, NEW kind, NEW legal \in BOOLEAN, NEW after, Logs(kind, legal, after),
         \/ /\ legal /\ kind \in {"update_state", "verify_answer"}
            /\ after = Len(states) + 1 /\ Len(states') = Len(states) + 1
         \/ /\ ~(legal /\ kind \in {"update_state", "verify_answer"})
            /\ after = 0 /\ states' = states
  PROVE  LedgerExplainsVersions'
<1> DEFINE writes == legal /\ kind \in {"update_state", "verify_answer"}
<1>1. PICK row : /\ Log(row) /\ row.kind = kind /\ row.legal = legal
                 /\ row.before = Len(states) /\ row.after = after
  BY DEF Logs
<1>2. /\ writes \in BOOLEAN
      /\ writes <=> row.legal /\ row.kind \in {"update_state", "verify_answer"}
  BY <1>1
<1>3. row.after = IF writes THEN Len(states) + 1 ELSE 0
  BY <1>1
<1>4. Len(states') = IF writes THEN Len(states) + 1 ELSE Len(states)
  OBVIOUS
<1> HIDE DEF writes
<1> QED
  BY <1>1, <1>2, <1>3, <1>4, LogKeepsVersions

LEMMA NextKeepsVersions ==
  ASSUME Versioned, Next
  PROVE  LedgerExplainsVersions'
<1>1. CASE Search
  BY <1>1, SearchLogs, LogsKeepVersions
<1>2. ASSUME NEW doc, NEW search, OpenPage(doc, search)
      PROVE  LedgerExplainsVersions'
  BY <1>2, OpenPageLogs, LogsKeepVersions
<1>3. ASSUME NEW e, ReadEvidence(e)
      PROVE  LedgerExplainsVersions'
  BY <1>3, ReadEvidenceLogs, LogsKeepVersions
<1>4. ASSUME NEW state, states' = Append(states, state)
      PROVE  Len(states') = Len(states) + 1
  <2>1. states \in Seq(TaskState)
    BY DEF Versioned, TypeOK
  <2> QED
    BY <1>4, <2>1, AppendGrows
<1>5. ASSUME NEW answer, NEW patch, NEW support, UpdateState(answer, patch, support)
      PROVE  LedgerExplainsVersions'
  <2>1. PICK state : states' = Append(states, state)
    BY <1>5 DEF UpdateState
  <2> QED
    BY <1>4, <1>5, <2>1, UpdateStateLogs, LogsKeepVersions
<1>6. ASSUME NEW status, NEW texts, VerifyAnswer(status, texts)
      PROVE  LedgerExplainsVersions'
  <2>1. PICK state : states' = Append(states, state)
    BY <1>6 DEF VerifyAnswer
  <2> QED
    BY <1>4, <1>6, <2>1, VerifyAnswerLogs, LogsKeepVersions
<1>7. CASE SubmitAnswer
  BY <1>7, SubmitAnswerLogs, LogsKeepVersions
<1>8. ASSUME NEW kind, Reject(kind)
      PROVE  LedgerExplainsVersions'
  BY <1>8, RejectLogs, LogsKeepVersions
<1>9. CASE ForgetVisible
  <2>1. actions' = actions /\ states' = states
    BY <1>9 DEF ForgetVisible, store
  <2> QED
    BY <2>1 DEF Versioned, LedgerExplainsVersions, Writers, LegalOf, ActionIds
<1>10. CASE Retrieve
  BY <1>1, <1>2, <1>3, <1>10 DEF Retrieve
<1>11. CASE Revise
  BY <1>5, <1>6, <1>7, <1>11 DEF Revise
<1>12. CASE Rejected
  BY <1>8, <1>12 DEF Rejected, SearchRejected, OpenPageRejected, ReadEvidenceRejected,
                     UpdateStateRejected, VerifyAnswerRejected, SubmitAnswerRejected
<1> QED
  BY <1>9, <1>10, <1>11, <1>12 DEF Next

(* Every action ran against the version that the writers before it had      *)
(* produced, each legal update or verify appended exactly the next one, and *)
(* nothing else appended any.                                               *)
THEOREM VersionsAreExplained == Spec => []LedgerExplainsVersions
<1>1. Init => Versioned
  <2> SUFFICES ASSUME Init PROVE Versioned
    OBVIOUS
  <2>1. ActionIds = {} /\ states = <<>>
    BY DEF Init, ActionIds
  <2>2. Writers = {} /\ Len(states) = 0
    BY <2>1 DEF Writers, LegalOf
  <2> QED
    BY <2>1, <2>2, InitHasTypes, FS_EmptySet DEF Versioned, LedgerExplainsVersions
<1>2. Versioned /\ [Next]_vars => Versioned'
  <2>1. ASSUME Versioned, Next PROVE Versioned'
    BY <2>1, NextKeepsVersions, NextKeepsTypes DEF Versioned
  <2>2. ASSUME Versioned, UNCHANGED vars PROVE Versioned'
    <3>1. actions' = actions /\ states' = states /\ TypeOK'
      BY <2>2, StutterKeepsTypes DEF vars, store, Versioned
    <3> QED
      BY <2>2, <3>1 DEF Versioned, LedgerExplainsVersions, Writers, LegalOf, ActionIds
  <2> QED
    BY <2>1, <2>2
<1>3. Versioned => LedgerExplainsVersions
  BY DEF Versioned
<1> QED
  BY <1>1, <1>2, <1>3, PTL DEF Spec

-----------------------------------------------------------------------------
(* The submitted answer was judged                                          *)

(* Only a verify sets a verdict, on the content of the update before it.    *)
VerdictsJudgeUpdates ==
  \A v \in Versions : states[v].status # "unverified" =>
    /\ v > 1
    /\ states[v].created_by \in LegalOf("verify_answer")
    /\ states[v - 1].status = "unverified"
    /\ states[v - 1].answer = states[v].answer
    /\ states[v - 1].support = states[v].support
    /\ states[v - 1].directory = states[v].directory

EvidenceIsOlder == \A e \in EvidenceIds : evidence[e].created_by \in ActionIds

(* What SubmittedAnswerWasVerified says of submit s of version v. *)
JudgedAt(s, v) ==
  /\ v > 1
  /\ states[v].status = "supported" /\ states[v].gaps = <<>>
  /\ states[v].answer = submitted_answer /\ submitted_answer # NoAnswer
  /\ states[v].support # <<>>
  /\ states[v].created_by \in LegalOf("verify_answer")
  /\ states[v - 1].status = "unverified"
  /\ states[v - 1].answer = states[v].answer
  /\ states[v - 1].support = states[v].support
  /\ states[v - 1].directory = states[v].directory
  /\ \A e \in EvidenceIds : e \in DOMAIN states[v - 1].directory <=> evidence[e].created_by < s

Judged ==
  TypeOK /\ VerdictsJudgeUpdates /\ EvidenceIsOlder /\ SubmittedAnswerWasVerified

LEMMA SubmittedIsJudged ==
  SubmittedAnswerWasVerified <=>
    /\ LegalOf("submit_answer") = IF IsSubmitted THEN {submit_action_id} ELSE {}
    /\ IsSubmitted => JudgedAt(submit_action_id, actions[submit_action_id].before)
BY DEF SubmittedAnswerWasVerified, JudgedAt

(* The versions so far stay as they are. *)
LEMMA VersionsStay ==
  ASSUME TypeOK, states' = states \/ \E state : states' = Append(states, state)
  PROVE  Versions \subseteq Versions' /\ \A v \in Versions : states'[v] = states[v]
<1>1. CASE states' = states
  BY <1>1 DEF Versions
<1>2. ASSUME NEW state, states' = Append(states, state)
      PROVE  Versions \subseteq Versions' /\ \A v \in Versions : states'[v] = states[v]
  <2>1. states \in Seq(TaskState) /\ TaskState \subseteq TaskState \cup {state}
        /\ state \in TaskState \cup {state}
    BY DEF TypeOK
  <2>2. /\ DOMAIN Append(states, state) = 1..(Len(states) + 1)
        /\ DOMAIN states = 1..Len(states) /\ Len(states) \in Nat
        /\ \A v \in 1..Len(states) : Append(states, state)[v] = states[v]
    BY <2>1, AppendGrows
  <2>3. Versions' = 1..(Len(states) + 1) /\ Versions = 1..Len(states)
    BY <1>2, <2>2 DEF Versions
  <2>4. \A v \in Versions : states'[v] = states[v]
    BY <1>2, <2>2, <2>3
  <2> QED
    BY <2>2, <2>3, <2>4
<1> QED
  BY <1>1, <1>2

(* Evidence so far stays as it is, and a new row belongs to this action. *)
ArchiveGrows ==
  \/ evidence' = evidence
  \/ \E d, s : evidence' = Append(evidence, [doc |-> d, created_by |-> NextAction, search |-> s])

LEMMA ArchiveStays ==
  ASSUME TypeOK, ArchiveGrows
  PROVE  /\ EvidenceIds \subseteq EvidenceIds'
         /\ \A e \in EvidenceIds : evidence'[e] = evidence[e]
         /\ \A e \in EvidenceIds' \ EvidenceIds : evidence'[e].created_by = NextAction
<1>1. CASE evidence' = evidence
  BY <1>1 DEF EvidenceIds
<1>2. ASSUME NEW row, evidence' = Append(evidence, row), row.created_by = NextAction
      PROVE  /\ EvidenceIds \subseteq EvidenceIds'
             /\ \A e \in EvidenceIds : evidence'[e] = evidence[e]
             /\ \A e \in EvidenceIds' \ EvidenceIds : evidence'[e].created_by = NextAction
  <2>1. evidence \in Seq(EvidenceRow) /\ EvidenceRow \subseteq EvidenceRow \cup {row}
        /\ row \in EvidenceRow \cup {row}
    BY DEF TypeOK
  <2>2. /\ DOMAIN Append(evidence, row) = 1..(Len(evidence) + 1)
        /\ DOMAIN evidence = 1..Len(evidence) /\ Len(evidence) \in Nat
        /\ \A e \in 1..Len(evidence) : Append(evidence, row)[e] = evidence[e]
        /\ Append(evidence, row)[Len(evidence) + 1] = row
    BY <2>1, AppendGrows
  <2> QED
    BY <1>2, <2>2 DEF EvidenceIds
<1> QED
  BY <1>1, <1>2 DEF ArchiveGrows

LEMMA EvidenceStaysOlder ==
  ASSUME TypeOK, EvidenceIsOlder, NEW row, Log(row), ArchiveGrows
  PROVE  EvidenceIsOlder'
BY ArchiveStays, LogGrows DEF EvidenceIsOlder

(* A judged submit stays judged whatever happens later. *)
LEMMA JudgedStays ==
  ASSUME Judged, NEW row, Log(row), ArchiveGrows, submitted_answer' = submitted_answer,
         states' = states \/ \E state : states' = Append(states, state),
         NEW s \in ActionIds, NEW v \in Versions, JudgedAt(s, v)
  PROVE  JudgedAt(s, v)'
<1>1. v \in Versions /\ v - 1 \in Versions
  BY Tables DEF Judged, JudgedAt
<1>2. states'[v] = states[v] /\ states'[v - 1] = states[v - 1]
  BY <1>1, VersionsStay DEF Judged
<1>3. LegalOf("verify_answer") \subseteq LegalOf("verify_answer")'
  BY LegalOfGrows DEF Judged
<1>4. DOMAIN states[v - 1].directory \subseteq EvidenceIds
  <2>1. states[v - 1] \in TaskState
    BY <1>1 DEF Judged, TypeOK, Versions
  <2> QED
    BY <2>1 DEF TaskState, PartialFunctions
<1>5. s < NextAction /\ s \in Nat /\ NextAction \in Nat
  BY LedgerSubsets DEF Judged
<1>6. ASSUME NEW e \in EvidenceIds'
      PROVE  e \in DOMAIN states[v - 1].directory <=> evidence'[e].created_by < s
  <2>1. CASE e \in EvidenceIds
    BY <2>1, ArchiveStays DEF Judged, JudgedAt
  <2>2. CASE e \notin EvidenceIds
    <3>1. evidence'[e].created_by = NextAction
      BY <2>2, ArchiveStays DEF Judged
    <3> QED
      BY <1>4, <1>5, <2>2, <3>1
  <2> QED
    BY <2>1, <2>2
<1> QED
  BY <1>2, <1>3, <1>6 DEF JudgedAt

(* No other call submits, and none of them disturbs a submit. *)
LEMMA OthersKeepSubmit ==
  ASSUME Judged, NEW row, Log(row), ~(row.legal /\ row.kind = "submit_answer"),
         ArchiveGrows, UNCHANGED <<submit_action_id, submitted_answer>>,
         states' = states \/ \E state : states' = Append(states, state)
  PROVE  SubmittedAnswerWasVerified'
<1>1. LegalOf("submit_answer")' = LegalOf("submit_answer") /\ IsSubmitted' = IsSubmitted
  BY LegalOfGrows DEF Judged, IsSubmitted
<1>2. LegalOf("submit_answer") = IF IsSubmitted THEN {submit_action_id} ELSE {}
  BY DEF Judged, SubmittedAnswerWasVerified
<1>3. ASSUME IsSubmitted, NEW s, s = submit_action_id, NEW v, v = actions[s].before
      PROVE  JudgedAt(s, v)' /\ s = submit_action_id' /\ v = actions'[s].before
  <2>1. s \in ActionIds /\ JudgedAt(s, v)
    BY <1>3, SubmittedIsJudged DEF Judged, TypeOK, IsSubmitted
  <2>2. actions[s] \in ActionRow
    BY <2>1 DEF Judged, TypeOK, ActionIds
  <2>3. v \in 0..Len(states) /\ v > 1
    BY <1>3, <2>1, <2>2 DEF ActionRow, JudgedAt
  <2>4. v \in Versions
    BY <2>3, Tables DEF Judged
  <2>5. actions'[s] = actions[s]
    BY <2>1, LogGrows DEF Judged
  <2> QED
    BY <1>3, <2>1, <2>4, <2>5, JudgedStays
<1> QED
  BY <1>1, <1>2, <1>3 DEF SubmittedAnswerWasVerified, JudgedAt

(* A verify judges the unverified state before it. *)
LEMMA NewVerdictJudgesUpdate ==
  ASSUME TypeOK, VerdictsJudgeUpdates, NEW row, Log(row),
         \/ states' = states
         \/ \E state : /\ states' = Append(states, state)
                       /\ \/ state.status = "unverified"
                          \/ /\ row.legal /\ row.kind = "verify_answer"
                             /\ states # <<>>
                             /\ state.created_by = NextAction
                             /\ Current.status = "unverified"
                             /\ state.answer = Current.answer
                             /\ state.support = Current.support
                             /\ state.directory = Current.directory
  PROVE  VerdictsJudgeUpdates'
<1>1. LegalOf("verify_answer") \subseteq LegalOf("verify_answer")'
  BY LegalOfGrows
<1>2. CASE states' = states
  BY <1>1, <1>2 DEF VerdictsJudgeUpdates, Versions
<1>3. ASSUME NEW state, states' = Append(states, state),
             \/ state.status = "unverified"
             \/ /\ row.legal /\ row.kind = "verify_answer"
                /\ states # <<>>
                /\ state.created_by = NextAction
                /\ Current.status = "unverified"
                /\ state.answer = Current.answer
                /\ state.support = Current.support
                /\ state.directory = Current.directory,
             NEW v \in Versions', states'[v].status # "unverified"
      PROVE  /\ v > 1
             /\ states'[v].created_by \in LegalOf("verify_answer")'
             /\ states'[v - 1].status = "unverified"
             /\ states'[v - 1].answer = states'[v].answer
             /\ states'[v - 1].support = states'[v].support
             /\ states'[v - 1].directory = states'[v].directory
  <2>1. /\ Versions' = 1..(Len(states) + 1) /\ Versions = 1..Len(states)
        /\ Len(states) \in Nat /\ states'[Len(states) + 1] = state
        /\ \A w \in Versions : states'[w] = states[w]
    <3>1. states \in Seq(TaskState) /\ TaskState \subseteq TaskState \cup {state}
          /\ state \in TaskState \cup {state}
      BY DEF TypeOK
    <3>2. /\ DOMAIN Append(states, state) = 1..(Len(states) + 1)
          /\ DOMAIN states = 1..Len(states) /\ Len(states) \in Nat
          /\ \A w \in 1..Len(states) : Append(states, state)[w] = states[w]
          /\ Append(states, state)[Len(states) + 1] = state
      BY <3>1, AppendGrows
    <3> QED
      BY <1>3, <3>2 DEF Versions
  <2>2. CASE v \in Versions
    <3>1. /\ v > 1 /\ states[v].created_by \in LegalOf("verify_answer")
          /\ states[v - 1].status = "unverified"
          /\ states[v - 1].answer = states[v].answer
          /\ states[v - 1].support = states[v].support
          /\ states[v - 1].directory = states[v].directory
      BY <1>3, <2>1, <2>2 DEF VerdictsJudgeUpdates
    <3>2. states'[v] = states[v] /\ states'[v - 1] = states[v - 1]
      BY <2>1, <2>2, <3>1
    <3> QED
      BY <1>1, <3>1, <3>2
  <2>3. CASE v \notin Versions
    <3>1. v = Len(states) + 1 /\ states'[v] = state
      BY <2>1, <2>3
    <3>2. states # <<>> /\ row.legal /\ row.kind = "verify_answer"
          /\ state.created_by = NextAction
      BY <1>3, <3>1
    <3>3. Len(states) > 0
      BY <2>1, <3>2 DEF TypeOK
    <3>4. v - 1 \in Versions /\ states'[v - 1] = Current
      BY <2>1, <3>1, <3>2, <3>3 DEF Current
    <3>5. NextAction \in LegalOf("verify_answer")'
      BY <3>2, LegalOfGrows
    <3> QED
      BY <1>3, <2>1, <3>1, <3>2, <3>3, <3>4, <3>5
  <2> QED
    BY <2>2, <2>3
<1> QED
  BY <1>2, <1>3 DEF VerdictsJudgeUpdates

(* A submit finds a judged state that indexes every page archived so far.   *)
LEMMA SubmitIsJudged ==
  ASSUME Judged, SubmitAnswer
  PROVE  SubmittedAnswerWasVerified'
<1>1. PICK row : /\ Log(row) /\ row.kind = "submit_answer" /\ row.legal = TRUE
                 /\ row.before = Len(states)
  BY SubmitAnswerLogs DEF Logs
<1>2. PICK s : s = NextAction
  OBVIOUS
<1>3. PICK v : v = Len(states)
  OBVIOUS
<1>4. /\ CanSubmit /\ submit_action_id' = s /\ submitted_answer' = Current.answer
      /\ UNCHANGED <<evidence, states, visible>>
  BY <1>2 DEF SubmitAnswer
<1>5. /\ ~IsSubmitted /\ states # <<>> /\ Missing = {}
      /\ Current.answer # NoAnswer /\ Current.support # <<>> /\ Current.gaps = <<>>
      /\ Current.status = "supported"
  BY <1>4 DEF CanSubmit, Submittable
<1>6. LegalOf("submit_answer")' = {s}
  BY <1>1, <1>2, <1>5, LegalOfGrows DEF Judged, SubmittedAnswerWasVerified
<1>7. actions'[s] = row /\ s \in Nat /\ s # 0
  BY <1>1, <1>2, LogGrows, Tables DEF Judged, NextAction
<1>8. v \in Versions /\ Current = states[v]
  <2>1. Len(states) > 0
    BY <1>5, Tables DEF Judged, TypeOK
  <2> QED
    BY <1>3, <1>5, <2>1, Tables DEF Judged, Current
<1>9. /\ v > 1 /\ states[v].created_by \in LegalOf("verify_answer")
      /\ states[v - 1].status = "unverified"
      /\ states[v - 1].answer = states[v].answer
      /\ states[v - 1].support = states[v].support
      /\ states[v - 1].directory = states[v].directory
  BY <1>5, <1>8 DEF Judged, VerdictsJudgeUpdates
<1>10. LegalOf("verify_answer") \subseteq LegalOf("verify_answer")'
  BY <1>1, LegalOfGrows DEF Judged
<1>11. ASSUME NEW e \in EvidenceIds
       PROVE  e \in DOMAIN states[v - 1].directory <=> evidence[e].created_by < s
  <2>1. e \in DOMAIN states[v].directory
    BY <1>5, <1>8 DEF Missing
  <2>2. evidence[e].created_by < s
    BY <1>2, LedgerSubsets DEF Judged, EvidenceIsOlder
  <2> QED
    BY <1>9, <2>1, <2>2
<1>12. EvidenceIds' = EvidenceIds /\ evidence' = evidence /\ states' = states
  BY <1>4 DEF EvidenceIds
<1>13. JudgedAt(s, v)'
  BY <1>4, <1>5, <1>8, <1>9, <1>10, <1>11, <1>12 DEF JudgedAt
<1>14. IsSubmitted' /\ s = submit_action_id' /\ v = actions'[s].before
  BY <1>1, <1>3, <1>4, <1>7 DEF IsSubmitted
<1> QED
  BY <1>6, <1>13, <1>14 DEF SubmittedAnswerWasVerified, JudgedAt

LEMMA UpdateIsUnverified ==
  ASSUME NEW answer, NEW patch, NEW support, UpdateState(answer, patch, support)
  PROVE  \E state : states' = Append(states, state) /\ state.status = "unverified"
BY DEF UpdateState

LEMMA VerifyIsVerdict ==
  ASSUME TypeOK, NEW status, NEW texts, VerifyAnswer(status, texts)
  PROVE  \E state : /\ states' = Append(states, state)
                    /\ states # <<>>
                    /\ state.created_by = NextAction
                    /\ Current.status = "unverified"
                    /\ state.answer = Current.answer
                    /\ state.support = Current.support
                    /\ state.directory = Current.directory
<1> DEFINE state == [Current EXCEPT !.gaps = GapsFor(texts), !.status = status,
                                    !.created_by = NextAction]
<1>1. states' = Append(states, state) /\ states # <<>> /\ Current.status = "unverified"
  BY DEF VerifyAnswer, CanVerify
<1>2. Current \in TaskState
  BY CurrentIsTaskState
<1>3. /\ state.created_by = NextAction /\ state.answer = Current.answer
      /\ state.support = Current.support /\ state.directory = Current.directory
  BY <1>2 DEF TaskState
<1> HIDE DEF state
<1> QED
  BY <1>1, <1>3

LEMMA NextKeepsJudged ==
  ASSUME Judged, Next
  PROVE  Judged'
<1>1. SUFFICES VerdictsJudgeUpdates' /\ EvidenceIsOlder' /\ SubmittedAnswerWasVerified'
  BY NextKeepsTypes DEF Judged
<1>2. ASSUME NEW kind, NEW legal, NEW after, Logs(kind, legal, after),
             legal = FALSE \/ kind \in {"search", "open_page", "read_evidence"},
             states' = states, ArchiveGrows, UNCHANGED <<submit_action_id, submitted_answer>>
      PROVE  VerdictsJudgeUpdates' /\ EvidenceIsOlder' /\ SubmittedAnswerWasVerified'
  <2>1. PICK row : Log(row) /\ ~(row.legal /\ row.kind = "submit_answer")
    BY <1>2 DEF Logs
  <2> QED
    BY <1>2, <2>1, OthersKeepSubmit, EvidenceStaysOlder, NewVerdictJudgesUpdate DEF Judged
<1>3. CASE Search
  BY <1>2, <1>3, SearchLogs DEF ArchiveGrows
<1>4. ASSUME NEW doc, NEW search, OpenPage(doc, search)
      PROVE  VerdictsJudgeUpdates' /\ EvidenceIsOlder' /\ SubmittedAnswerWasVerified'
  BY <1>2, <1>4, OpenPageLogs DEF ArchiveGrows
<1>5. ASSUME NEW e, ReadEvidence(e)
      PROVE  VerdictsJudgeUpdates' /\ EvidenceIsOlder' /\ SubmittedAnswerWasVerified'
  BY <1>2, <1>5, ReadEvidenceLogs DEF ArchiveGrows
<1>6. ASSUME NEW kind, Reject(kind)
      PROVE  VerdictsJudgeUpdates' /\ EvidenceIsOlder' /\ SubmittedAnswerWasVerified'
  BY <1>2, <1>6, RejectLogs DEF ArchiveGrows
<1>7. ASSUME NEW answer, NEW patch, NEW support, UpdateState(answer, patch, support)
      PROVE  VerdictsJudgeUpdates' /\ EvidenceIsOlder' /\ SubmittedAnswerWasVerified'
  <2>1. /\ \E state : states' = Append(states, state) /\ state.status = "unverified"
        /\ ArchiveGrows /\ UNCHANGED <<submit_action_id, submitted_answer>>
    BY <1>7, UpdateIsUnverified, UpdateStateLogs DEF ArchiveGrows
  <2>2. PICK row : Log(row) /\ row.kind = "update_state"
    BY <1>7, UpdateStateLogs DEF Logs
  <2> QED
    BY <2>1, <2>2, OthersKeepSubmit, EvidenceStaysOlder, NewVerdictJudgesUpdate DEF Judged
<1>8. ASSUME NEW status, NEW texts, VerifyAnswer(status, texts)
      PROVE  VerdictsJudgeUpdates' /\ EvidenceIsOlder' /\ SubmittedAnswerWasVerified'
  <2>1. ArchiveGrows /\ UNCHANGED <<submit_action_id, submitted_answer>>
    BY <1>8, VerifyAnswerLogs DEF ArchiveGrows
  <2>2. PICK row : Log(row) /\ row.kind = "verify_answer" /\ row.legal
    BY <1>8, VerifyAnswerLogs DEF Logs
  <2>3. PICK state : /\ states' = Append(states, state)
                     /\ states # <<>>
                     /\ state.created_by = NextAction
                     /\ Current.status = "unverified"
                     /\ state.answer = Current.answer
                     /\ state.support = Current.support
                     /\ state.directory = Current.directory
    BY <1>8, VerifyIsVerdict DEF Judged
  <2>4. VerdictsJudgeUpdates'
    BY <2>2, <2>3, NewVerdictJudgesUpdate DEF Judged
  <2> QED
    BY <2>1, <2>2, <2>3, <2>4, OthersKeepSubmit, EvidenceStaysOlder DEF Judged
<1>9. CASE SubmitAnswer
  <2>1. PICK row : Log(row)
    BY <1>9, SubmitAnswerLogs DEF Logs
  <2>2. ArchiveGrows /\ states' = states
    BY <1>9, SubmitAnswerLogs DEF ArchiveGrows
  <2> QED
    BY <1>9, <2>1, <2>2, SubmitIsJudged, EvidenceStaysOlder, NewVerdictJudgesUpdate DEF Judged
<1>10. CASE ForgetVisible
  <2>1. /\ evidence' = evidence /\ states' = states /\ actions' = actions
        /\ submit_action_id' = submit_action_id /\ submitted_answer' = submitted_answer
    BY <1>10 DEF ForgetVisible, store
  <2> QED
    BY <2>1 DEF Judged, VerdictsJudgeUpdates, EvidenceIsOlder, SubmittedAnswerWasVerified,
                Versions, EvidenceIds, ActionIds, LegalOf, IsSubmitted
<1>11. CASE Retrieve
  BY <1>3, <1>4, <1>5, <1>11 DEF Retrieve
<1>12. CASE Revise
  BY <1>7, <1>8, <1>9, <1>12 DEF Revise
<1>13. CASE Rejected
  BY <1>6, <1>13 DEF Rejected, SearchRejected, OpenPageRejected, ReadEvidenceRejected,
                     UpdateStateRejected, VerifyAnswerRejected, SubmitAnswerRejected
<1> QED
  BY <1>10, <1>11, <1>12, <1>13 DEF Next

LEMMA JudgedInductive == Spec => []Judged
<1>1. Init => Judged
  <2> SUFFICES ASSUME Init PROVE Judged
    OBVIOUS
  <2>1. /\ ActionIds = {} /\ Versions = {} /\ EvidenceIds = {} /\ ~IsSubmitted
    BY DEF Init, ActionIds, Versions, EvidenceIds, IsSubmitted
  <2>2. LegalOf("submit_answer") = {}
    BY <2>1 DEF LegalOf
  <2> QED
    BY <2>1, <2>2, InitHasTypes
       DEF Judged, VerdictsJudgeUpdates, EvidenceIsOlder, SubmittedAnswerWasVerified
<1>2. Judged /\ [Next]_vars => Judged'
  <2>1. ASSUME Judged, Next PROVE Judged'
    BY <2>1, NextKeepsJudged
  <2>2. ASSUME Judged, UNCHANGED vars PROVE Judged'
    <3>1. /\ evidence' = evidence /\ states' = states /\ actions' = actions /\ TypeOK'
          /\ submit_action_id' = submit_action_id /\ submitted_answer' = submitted_answer
      BY <2>2, StutterKeepsTypes DEF vars, store, Judged
    <3> QED
      BY <2>2, <3>1
         DEF Judged, VerdictsJudgeUpdates, EvidenceIsOlder, SubmittedAnswerWasVerified,
             Versions, EvidenceIds, ActionIds, LegalOf, IsSubmitted
  <2> QED
    BY <2>1, <2>2
<1> QED
  BY <1>1, <1>2, PTL DEF Spec

(* The submitted answer is the one a verify judged supported with no gap    *)
(* left, on the content of the update just before it, and that update       *)
(* indexed exactly the pages archived before the submit.  There is one      *)
(* legal submit at most, and nothing later touches the recorded answer.     *)
THEOREM SubmitsAreVerified == Spec => []SubmittedAnswerWasVerified
<1>1. Judged => SubmittedAnswerWasVerified
  BY DEF Judged
<1> QED
  BY <1>1, JudgedInductive, PTL

-----------------------------------------------------------------------------
(* A new version                                                            *)

LEMMA NewVersion ==
  ASSUME TypeOK, NEW state, states' = Append(states, state), NEW n, n = Len(states) + 1
  PROVE  /\ Versions' = Versions \cup {n} /\ n \notin Versions
         /\ Versions \subseteq Nat /\ \A v \in Versions : v < n
         /\ \A v \in Versions : states'[v] = states[v]
         /\ states'[n] = state /\ Current' = state
         /\ AllGapIds' = AllGapIds \cup GapIds(state.gaps)
<1>1. states \in Seq(TaskState) /\ TaskState \subseteq TaskState \cup {state}
      /\ state \in TaskState \cup {state}
  BY DEF TypeOK
<1>2. /\ DOMAIN states' = 1..n /\ DOMAIN states = 1..Len(states) /\ Len(states) \in Nat
      /\ Len(states') = n
      /\ \A v \in 1..Len(states) : states'[v] = states[v]
      /\ states'[n] = state
  BY <1>1, AppendGrows
<1>3. Versions' = Versions \cup {n} /\ n \notin Versions /\ Versions \subseteq Nat
      /\ \A v \in Versions : v < n
  BY <1>2 DEF Versions
<1>4. states' # <<>>
  BY <1>2
<1>5. Current' = state
  BY <1>2, <1>4 DEF Current
<1>6. AllGapIds' = AllGapIds \cup GapIds(state.gaps)
  BY <1>2, <1>3 DEF AllGapIds, Versions
<1> QED
  BY <1>2, <1>3, <1>5, <1>6 DEF Versions

-----------------------------------------------------------------------------
(* Findings have writers                                                    *)

(* Update u wrote the finding for e that version v holds. *)
WriterOf(u, e, v) ==
  /\ actions[u].after <= v
  /\ e \in DOMAIN actions[u].inputs
  /\ \A w \in (actions[u].after)..v : /\ e \in DOMAIN states[w].directory
                                     /\ states[w].directory[e] = states[v].directory[e]

Traced == Versioned /\ EveryFindingHasAWriter

LEMMA FindingsHaveWriterOf ==
  EveryFindingHasAWriter <=>
    \A v \in Versions : \A e \in DOMAIN states[v].directory :
      \E u \in LegalOf("update_state") : WriterOf(u, e, v)
BY DEF EveryFindingHasAWriter, WriterOf

(* What an earlier update wrote stays written. *)
LEMMA WriterStays ==
  ASSUME Traced, NEW row, Log(row), states' = states \/ \E state : states' = Append(states, state),
         NEW u \in LegalOf("update_state"), NEW e, NEW v \in Versions, WriterOf(u, e, v)
  PROVE  /\ u \in LegalOf("update_state")' /\ WriterOf(u, e, v)'
         /\ actions'[u].after = actions[u].after /\ actions[u].after \in Versions
<1>1. u \in ActionIds /\ actions'[u] = actions[u] /\ u \in LegalOf("update_state")'
  BY LogGrows, LedgerSubsets, LegalOfGrows DEF Traced, Versioned
<1>2. actions[u].after \in 0..Len(states) /\ actions[u].before \in 0..Len(states)
  <2>1. actions[u] \in ActionRow
    BY <1>1 DEF Traced, Versioned, TypeOK, ActionIds
  <2> QED
    BY <2>1 DEF ActionRow
<1>3. actions[u].after = actions[u].before + 1
  BY <1>1 DEF Traced, Versioned, LedgerExplainsVersions, Writers
<1>4. Versions = 1..Len(states) /\ Len(states) \in Nat
  BY Tables DEF Traced, Versioned
<1>5. actions[u].after \in Versions /\ (actions[u].after)..v \subseteq Versions
  BY <1>2, <1>3, <1>4
<1>6. \A w \in Versions : states'[w] = states[w]
  BY VersionsStay DEF Traced, Versioned
<1> QED
  BY <1>1, <1>5, <1>6 DEF WriterOf

LEMMA SameVersionsKeepWriters ==
  ASSUME Traced, NEW row, Log(row), states' = states
  PROVE  EveryFindingHasAWriter'
<1>1. \A v \in Versions : \A e \in DOMAIN states[v].directory :
        \E u \in LegalOf("update_state")' : WriterOf(u, e, v)'
  BY WriterStays, FindingsHaveWriterOf DEF Traced
<1> QED
  BY <1>1 DEF EveryFindingHasAWriter, WriterOf, Versions

(* A new version holds findings of its own update, and those it took over. *)
LEMMA NewVersionKeepsWriters ==
  ASSUME Traced, NEW row, Log(row), NEW state, states' = Append(states, state),
         \A e \in DOMAIN state.directory :
           \/ /\ row.legal /\ row.kind = "update_state" /\ row.after = Len(states) + 1
              /\ e \in DOMAIN row.inputs
           \/ /\ e \in DOMAIN Current.directory
              /\ Current.directory[e] = state.directory[e]
  PROVE  EveryFindingHasAWriter'
<1> PICK n : n = Len(states) + 1
  OBVIOUS
<1>1. /\ Versions' = Versions \cup {n} /\ n \notin Versions
      /\ \A v \in Versions : states'[v] = states[v]
      /\ states'[n] = state
  BY NewVersion DEF Traced, Versioned
<1>2. Versions = 1..Len(states) /\ Len(states) \in Nat
  BY Tables DEF Traced, Versioned
<1>3. ASSUME NEW v \in Versions, NEW e \in DOMAIN states[v].directory
      PROVE  \E u \in LegalOf("update_state")' : WriterOf(u, e, v)'
  BY WriterStays, FindingsHaveWriterOf DEF Traced
<1>4. ASSUME NEW e \in DOMAIN state.directory
      PROVE  \E u \in LegalOf("update_state")' : WriterOf(u, e, n)'
  <2>1. CASE row.legal /\ row.kind = "update_state" /\ row.after = n /\ e \in DOMAIN row.inputs
    <3> PICK a : a = NextAction
      OBVIOUS
    <3>1. a \in LegalOf("update_state")' /\ actions'[a] = row
      BY <2>1, LegalOfGrows, LogGrows DEF Traced, Versioned
    <3>2. n..n = {n} /\ n \in Nat
      BY <1>2
    <3>3. WriterOf(a, e, n)'
      BY <1>1, <2>1, <3>1, <3>2 DEF WriterOf
    <3> QED
      BY <3>1, <3>3
  <2>2. CASE e \in DOMAIN Current.directory /\ Current.directory[e] = state.directory[e]
    <3> PICK m : m = Len(states)
      OBVIOUS
    <3>1. states # <<>> /\ m \in Versions /\ Current = states[m]
      <4>1. states # <<>>
        BY <2>2 DEF Current, NoState
      <4>2. Len(states) \in Versions
        BY <4>1, Tables DEF Traced, Versioned, TypeOK
      <4> QED
        BY <4>1, <4>2 DEF Current
    <3>2. PICK u \in LegalOf("update_state") : WriterOf(u, e, m)
      BY <2>2, <3>1, FindingsHaveWriterOf DEF Traced
    <3>3. /\ u \in LegalOf("update_state")' /\ WriterOf(u, e, m)'
          /\ actions'[u].after = actions[u].after /\ actions[u].after \in Versions
      BY <3>1, <3>2, WriterStays
    <3>4. \A w \in (actions[u].after)..n : w = n \/ w \in (actions[u].after)..m
      BY <1>2, <3>3
    <3>5. states'[m].directory[e] = states'[n].directory[e] /\ e \in DOMAIN states'[n].directory
      BY <1>1, <2>2, <3>1
    <3>6. actions'[u].after <= n
      BY <1>2, <3>3
    <3>7. WriterOf(u, e, n)'
      BY <3>3, <3>4, <3>5, <3>6 DEF WriterOf
    <3> QED
      BY <3>3, <3>7
  <2> QED
    BY <2>1, <2>2
<1>5. ASSUME NEW v \in Versions', NEW e \in DOMAIN states'[v].directory
      PROVE  \E u \in LegalOf("update_state")' : WriterOf(u, e, v)'
  BY <1>1, <1>3, <1>4
<1> QED
  BY <1>5 DEF EveryFindingHasAWriter, WriterOf

LEMMA UpdateWritesFindings ==
  ASSUME Traced, NEW answer, NEW patch, NEW support, UpdateState(answer, patch, support)
  PROVE  EveryFindingHasAWriter'
<1> DEFINE old    == Current
           new    == Merge(old.directory, patch)
           inputs == [e \in Changed(old.directory, patch) |-> visible[e]]
           row    == [Action("update_state") EXCEPT
                        !.after           = Len(states) + 1,
                        !.parents         = Range(inputs),
                        !.referenced      = DOMAIN new,
                        !.active_gaps     = GapIds(old.gaps),
                        !.inputs          = inputs,
                        !.changed         = Changed(old.directory, new),
                        !.answer_changed  = states = <<>> \/ old.answer # answer,
                        !.support_changed = states = <<>> \/ old.support # support]
           state  == [directory  |-> new,
                      answer     |-> answer,
                      support    |-> support,
                      gaps       |-> old.gaps,
                      status     |-> "unverified",
                      created_by |-> NextAction]
<1>1. Log(row) /\ states' = Append(states, state)
  BY DEF UpdateState
<1>2. /\ row.legal /\ row.kind = "update_state" /\ row.after = Len(states) + 1
      /\ DOMAIN row.inputs = Changed(old.directory, patch)
  BY DEF Action
<1>3. state.directory = new
  OBVIOUS
<1>4. \A e \in DOMAIN new : \/ e \in Changed(old.directory, patch)
                            \/ e \in DOMAIN old.directory /\ old.directory[e] = new[e]
  BY DEF Merge, Changed
<1> HIDE DEF row, state
<1> QED
  BY <1>1, <1>2, <1>3, <1>4, NewVersionKeepsWriters

LEMMA VerifyKeepsFindings ==
  ASSUME Traced, NEW status, NEW texts, VerifyAnswer(status, texts)
  PROVE  EveryFindingHasAWriter'
<1> DEFINE state == [Current EXCEPT !.gaps = GapsFor(texts), !.status = status,
                                    !.created_by = NextAction]
<1>1. states' = Append(states, state)
  BY DEF VerifyAnswer
<1>2. state.directory = Current.directory
  <2>1. Current \in TaskState
    BY CurrentIsTaskState DEF Traced, Versioned
  <2> QED
    BY <2>1 DEF TaskState
<1> HIDE DEF state
<1>3. PICK row : Log(row)
  BY VerifyAnswerLogs DEF Logs
<1> QED
  BY <1>1, <1>2, <1>3, NewVersionKeepsWriters

LEMMA NextKeepsWriters ==
  ASSUME Traced, Next
  PROVE  EveryFindingHasAWriter'
<1>1. ASSUME NEW kind, NEW legal, NEW after, Logs(kind, legal, after), states' = states
      PROVE  EveryFindingHasAWriter'
  BY <1>1, SameVersionsKeepWriters DEF Logs
<1>2. CASE ForgetVisible
  BY <1>2 DEF ForgetVisible, store, Traced, EveryFindingHasAWriter, LegalOf, ActionIds, Versions
<1>3. CASE Retrieve
  BY <1>1, <1>3, SearchLogs, OpenPageLogs, ReadEvidenceLogs DEF Retrieve
<1>4. CASE Revise
  BY <1>1, <1>4, UpdateWritesFindings, VerifyKeepsFindings, SubmitAnswerLogs DEF Revise
<1>5. CASE Rejected
  BY <1>1, <1>5, RejectLogs
     DEF Rejected, SearchRejected, OpenPageRejected, ReadEvidenceRejected,
         UpdateStateRejected, VerifyAnswerRejected, SubmitAnswerRejected
<1> QED
  BY <1>2, <1>3, <1>4, <1>5 DEF Next

LEMMA VersionedInductive == Spec => []Versioned
BY TypeCorrect, VersionsAreExplained, PTL DEF Versioned

(* Each finding of each TaskState was put there by an update that had its   *)
(* page in view, and has not changed since: the chain the credit router     *)
(* walks back is never broken.                                              *)
THEOREM FindingsHaveWriters == Spec => []EveryFindingHasAWriter
<1>1. Init => EveryFindingHasAWriter
  BY DEF Init, EveryFindingHasAWriter, Versions
<1>2. Versioned /\ EveryFindingHasAWriter /\ [Next]_vars => EveryFindingHasAWriter'
  <2>1. ASSUME Traced, Next PROVE EveryFindingHasAWriter'
    BY <2>1, NextKeepsWriters
  <2>2. ASSUME Traced, UNCHANGED vars PROVE EveryFindingHasAWriter'
    BY <2>2 DEF vars, store, Traced, EveryFindingHasAWriter, LegalOf, ActionIds, Versions
  <2> QED
    BY <2>1, <2>2 DEF Traced
<1> QED
  BY <1>1, <1>2, VersionedInductive, PTL DEF Spec

-----------------------------------------------------------------------------
(* Pages can be opened again                                                *)

(* Every archived page is in the hits of a legal search, and in one row.    *)
PagesCanBeReopened ==
  /\ \A e \in EvidenceIds : \E search \in ActionIds : CanOpen(evidence[e].doc, search)
  /\ \A e, f \in EvidenceIds : evidence[f].doc = evidence[e].doc => f = e

Reopenable == TypeOK /\ PagesCanBeReopened

LEMMA SearchesStay ==
  ASSUME TypeOK, NEW row, Log(row), NEW doc, NEW search, CanOpen(doc, search)
  PROVE  search \in ActionIds' /\ CanOpen(doc, search)'
BY LogGrows DEF CanOpen

LEMMA SameArchiveIsReopenable ==
  ASSUME Reopenable, NEW row, Log(row), evidence' = evidence
  PROVE  PagesCanBeReopened'
<1>1. \A e \in EvidenceIds : \E search \in ActionIds' : CanOpen(evidence[e].doc, search)'
  BY SearchesStay DEF Reopenable, PagesCanBeReopened
<1> QED
  BY <1>1 DEF Reopenable, PagesCanBeReopened, EvidenceIds, CanOpen

(* open_page archives the page of a search, unless it is archived already.  *)
LEMMA OpenPageArchives ==
  ASSUME TypeOK, NEW doc, NEW search, OpenPage(doc, search), evidence' # evidence,
         NEW new, new = Len(evidence) + 1
  PROVE  /\ EvidenceIds' = EvidenceIds \cup {new} /\ evidence'[new].doc = doc
         /\ \A e \in EvidenceIds : evidence'[e] = evidence[e] /\ evidence[e].doc # doc
<1>1. PICK row : evidence' = Append(evidence, row) /\ row.doc = doc /\ FindEvidence(doc) = 0
  <2> DEFINE row == [doc |-> doc, created_by |-> NextAction, search |-> search]
  <2>1. evidence' = Append(evidence, row) /\ FindEvidence(doc) = 0
    BY DEF OpenPage
  <2>2. row.doc = doc
    OBVIOUS
  <2> HIDE DEF row
  <2> QED
    BY <2>1, <2>2
<1>2. /\ EvidenceIds' = EvidenceIds \cup {new} /\ evidence'[new] = row
      /\ \A e \in EvidenceIds : evidence'[e] = evidence[e] /\ e # 0
  <2>1. evidence \in Seq(EvidenceRow) /\ EvidenceRow \subseteq EvidenceRow \cup {row}
        /\ row \in EvidenceRow \cup {row}
    BY DEF TypeOK
  <2>2. /\ DOMAIN Append(evidence, row) = 1..(Len(evidence) + 1)
        /\ DOMAIN evidence = 1..Len(evidence) /\ Len(evidence) \in Nat
        /\ \A e \in 1..Len(evidence) : Append(evidence, row)[e] = evidence[e]
        /\ Append(evidence, row)[Len(evidence) + 1] = row
    BY <2>1, AppendGrows
  <2>3. EvidenceIds' = 1..(Len(evidence) + 1) /\ EvidenceIds = 1..Len(evidence)
    BY <1>1, <2>2 DEF EvidenceIds
  <2>4. 1..(Len(evidence) + 1) = 1..Len(evidence) \cup {new} /\ Len(evidence) \in Nat
    BY <2>2
  <2>5. EvidenceIds' = EvidenceIds \cup {new} /\ evidence'[new] = row
    BY <1>1, <2>2, <2>3, <2>4
  <2>6. \A e \in EvidenceIds : evidence'[e] = evidence[e] /\ e # 0
    <3>1. \A e \in 1..Len(evidence) : evidence'[e] = evidence[e]
      BY <1>1, <2>2
    <3>2. \A e \in 1..Len(evidence) : e # 0
      BY <2>2
    <3> QED
      BY <2>3, <3>1, <3>2
  <2> QED
    BY <2>5, <2>6
<1>3. \A e \in EvidenceIds : evidence[e].doc # doc
  BY <1>1, <1>2 DEF FindEvidence
<1> QED
  BY <1>1, <1>2, <1>3

LEMMA OpenedPageIsReopenable ==
  ASSUME Reopenable, NEW doc, NEW search, OpenPage(doc, search)
  PROVE  PagesCanBeReopened'
<1>1. PICK row : Log(row)
  BY OpenPageLogs DEF Logs
<1>2. CASE evidence' = evidence
  BY <1>1, <1>2, SameArchiveIsReopenable
<1>3. CASE evidence' # evidence
  <2> PICK new : new = Len(evidence) + 1
    OBVIOUS
  <2>1. /\ EvidenceIds' = EvidenceIds \cup {new} /\ evidence'[new].doc = doc
        /\ \A e \in EvidenceIds : evidence'[e] = evidence[e] /\ evidence[e].doc # doc
    BY <1>3, OpenPageArchives DEF Reopenable
  <2>2. ASSUME NEW e \in EvidenceIds', NEW page, page = evidence'[e].doc
        PROVE  \E s \in ActionIds' : CanOpen(page, s)'
    <3>1. CASE e \in EvidenceIds
      <4>1. PICK s \in ActionIds : CanOpen(page, s)
        BY <2>1, <2>2, <3>1 DEF Reopenable, PagesCanBeReopened
      <4> QED
        BY <1>1, <4>1, SearchesStay DEF Reopenable
    <3>2. CASE e = new
      <4>1. page = doc /\ CanOpen(page, search)
        BY <2>1, <2>2, <3>2 DEF OpenPage
      <4> QED
        BY <1>1, <4>1, SearchesStay DEF Reopenable
    <3> QED
      BY <2>1, <3>1, <3>2
  <2>3. \A e, f \in EvidenceIds' : evidence'[f].doc = evidence'[e].doc => f = e
    BY <2>1 DEF Reopenable, PagesCanBeReopened
  <2> QED
    BY <2>2, <2>3 DEF PagesCanBeReopened, CanOpen
<1> QED
  BY <1>2, <1>3

LEMMA NextKeepsReopenable ==
  ASSUME Reopenable, Next
  PROVE  PagesCanBeReopened'
<1>1. ASSUME NEW kind, NEW legal, NEW after, Logs(kind, legal, after), evidence' = evidence
      PROVE  PagesCanBeReopened'
  BY <1>1, SameArchiveIsReopenable DEF Logs
<1>2. CASE ForgetVisible
  BY <1>2 DEF ForgetVisible, store, Reopenable, PagesCanBeReopened, EvidenceIds, ActionIds, CanOpen
<1>3. CASE Retrieve
  BY <1>1, <1>3, SearchLogs, OpenedPageIsReopenable, ReadEvidenceLogs DEF Retrieve
<1>4. CASE Revise
  BY <1>1, <1>4, UpdateStateLogs, VerifyAnswerLogs, SubmitAnswerLogs DEF Revise
<1>5. CASE Rejected
  BY <1>1, <1>5, RejectLogs
     DEF Rejected, SearchRejected, OpenPageRejected, ReadEvidenceRejected,
         UpdateStateRejected, VerifyAnswerRejected, SubmitAnswerRejected
<1> QED
  BY <1>2, <1>3, <1>4, <1>5 DEF Next

(* A page that is archived but neither indexed nor in view can be opened    *)
(* again: an earlier search still allows it, and it leads to that very row. *)
THEOREM UnindexedPagesReopen == Spec => []UnindexedEvidenceCanBeReopened
<1>1. Init => PagesCanBeReopened
  BY DEF Init, PagesCanBeReopened, EvidenceIds
<1>2. TypeOK /\ PagesCanBeReopened /\ [Next]_vars => PagesCanBeReopened'
  <2>1. ASSUME Reopenable, Next PROVE PagesCanBeReopened'
    BY <2>1, NextKeepsReopenable
  <2>2. ASSUME Reopenable, UNCHANGED vars PROVE PagesCanBeReopened'
    BY <2>2 DEF vars, store, Reopenable, PagesCanBeReopened, EvidenceIds, ActionIds, CanOpen
  <2> QED
    BY <2>1, <2>2 DEF Reopenable
<1>3. PagesCanBeReopened => UnindexedEvidenceCanBeReopened
  BY DEF PagesCanBeReopened, UnindexedEvidenceCanBeReopened, Missing
<1> QED
  BY <1>1, <1>2, <1>3, TypeCorrect, PTL DEF Spec

-----------------------------------------------------------------------------
(* The gaps of a verdict                                                    *)

(* The ids in use are numbers up to their count, which is why a count gives *)
(* the next free id.                                                        *)
GapsAreNumbered == AllGapIds \subseteq 1..Cardinality(AllGapIds)

LEMMA OldGapIsOpen ==
  ASSUME TypeOK, NEW text, OldGap(text) # 0
  PROVE  OldGap(text) \in DOMAIN Current.gaps
<1> DEFINE same == {j \in DOMAIN Current.gaps : Current.gaps[j].text = text}
<1>1. Current.gaps \in Seq(Gap)
  BY CurrentIsTaskState DEF TaskState
<1>2. same \subseteq 1..Len(Current.gaps) /\ Len(Current.gaps) \in Nat
  BY <1>1
<1>3. same # {} /\ OldGap(text) = Max(same)
  BY DEF OldGap
<1>4. Max(same) \in same
  <2> HIDE DEF same
  <2> QED BY <1>2, <1>3, MaxIsMember
<1> QED
  BY <1>3, <1>4

LEMMA OpenGapsAreIssued ==
  ASSUME TypeOK
  PROVE  GapIds(Current.gaps) \subseteq AllGapIds
<1>1. CASE states = <<>>
  BY <1>1 DEF Current, NoState, GapIds
<1>2. CASE states # <<>>
  <2>1. Len(states) \in Versions
    BY <1>2, Tables DEF TypeOK
  <2> QED
    BY <1>2, <2>1 DEF Current, AllGapIds
<1> QED
  BY <1>1, <1>2

(* The new descriptions among the first i of a verdict. *)
NewAmong(texts, i) == {k \in 1..i : OldGap(texts[k]) = 0}

LEMMA NewAmongCounts ==
  ASSUME NEW n \in Nat, NEW texts
  PROVE  /\ \A i \in 1..n : IsFiniteSet(NewAmong(texts, i)) /\ Cardinality(NewAmong(texts, i)) \in Nat
         /\ \A i \in 1..n : Cardinality(NewAmong(texts, i)) <= Cardinality(NewAmong(texts, n))
         /\ \A i \in NewAmong(texts, n) : Cardinality(NewAmong(texts, i)) > 0
         /\ \A i, j \in NewAmong(texts, n) :
              i < j => Cardinality(NewAmong(texts, i)) < Cardinality(NewAmong(texts, j))
         /\ IsFiniteSet(NewAmong(texts, n)) /\ Cardinality(NewAmong(texts, n)) \in Nat
<1>1. ASSUME NEW i \in 0..n PROVE IsFiniteSet(NewAmong(texts, i)) /\ Cardinality(NewAmong(texts, i)) \in Nat
  <2>1. IsFiniteSet(1..i)
    BY FS_Interval
  <2>2. NewAmong(texts, i) \in SUBSET (1..i)
    BY DEF NewAmong
  <2> QED
    BY <2>1, <2>2, FS_Subset, FS_CardinalityType
<1>2. ASSUME NEW i \in 1..n, NEW j \in 1..n, i <= j
      PROVE  /\ NewAmong(texts, i) \in SUBSET NewAmong(texts, j)
             /\ Cardinality(NewAmong(texts, i)) <= Cardinality(NewAmong(texts, j))
             /\ Cardinality(NewAmong(texts, j)) = Cardinality(NewAmong(texts, i))
                  => NewAmong(texts, j) = NewAmong(texts, i)
  <2>1. NewAmong(texts, i) \in SUBSET NewAmong(texts, j)
    BY <1>2 DEF NewAmong
  <2> QED
    BY <1>1, <2>1, FS_Subset
<1>3. ASSUME NEW i \in NewAmong(texts, n) PROVE Cardinality(NewAmong(texts, i)) > 0
  <2>1. i \in NewAmong(texts, i) /\ i \in 1..n
    BY DEF NewAmong
  <2> QED
    BY <1>1, <2>1, FS_EmptySet
<1>4. ASSUME NEW i \in NewAmong(texts, n), NEW j \in NewAmong(texts, n), i < j
      PROVE  Cardinality(NewAmong(texts, i)) < Cardinality(NewAmong(texts, j))
  <2>1. i \in 1..n /\ j \in 1..n
    BY DEF NewAmong
  <2>2. j \in NewAmong(texts, j) /\ j \notin NewAmong(texts, i)
    BY <1>4, <2>1 DEF NewAmong
  <2>3. i <= j
    BY <1>4, <2>1
  <2> QED
    BY <1>1, <1>2, <2>1, <2>2, <2>3
<1>5. ASSUME NEW i \in 1..n PROVE Cardinality(NewAmong(texts, i)) <= Cardinality(NewAmong(texts, n))
  BY <1>2
<1> QED
  BY <1>1, <1>3, <1>4, <1>5

(* A gap of a verdict is an open one, or it gets a number no other gap ever *)
(* had.                                                                     *)
Kept(gap)  == \E j \in DOMAIN Current.gaps : gap = Current.gaps[j]
Fresh(gap) == gap.gap_id \in Nat /\ gap.gap_id > Cardinality(AllGapIds)

NumbersGaps(gaps) ==
  /\ \A i \in DOMAIN gaps : Kept(gaps[i]) \/ Fresh(gaps[i])
  /\ \A i, j \in DOMAIN gaps :
       Fresh(gaps[i]) /\ gaps[i].gap_id = gaps[j].gap_id => gaps[i] = gaps[j]
  /\ IsFiniteSet(GapIds(gaps))
  /\ \A i \in DOMAIN gaps :
       Fresh(gaps[i]) => gaps[i].gap_id <= Cardinality(AllGapIds \cup GapIds(gaps))

LEMMA FreshIsUnissued ==
  ASSUME TypeOK, GapsAreNumbered, NEW gap, Fresh(gap)
  PROVE  gap.gap_id \notin AllGapIds /\ ~Kept(gap)
<1>1. gap.gap_id \notin AllGapIds
  BY GapsAreFinite DEF GapsAreNumbered, Fresh
<1> QED
  BY <1>1, OpenGapsAreIssued DEF Kept, GapIds

LEMMA VerdictNumbersGaps ==
  ASSUME TypeOK, GapsAreNumbered, NEW n \in Nat, NEW texts \in [1..n -> GapTexts]
  PROVE  NumbersGaps(GapsFor(texts)) /\ DOMAIN GapsFor(texts) = 1..n
<1> DEFINE gaps == GapsFor(texts)
           N    == Cardinality(AllGapIds)
           new  == NewAmong(texts, n)
           c(i) == Cardinality(NewAmong(texts, i))
<1>1. DOMAIN gaps = 1..n
  BY DEF GapsFor
<1>2. N \in Nat /\ IsFiniteSet(AllGapIds)
  BY GapsAreFinite
<1>3. \A i \in 1..n : i \notin new => Kept(gaps[i])
  <2> TAKE i \in 1..n
  <2> HAVE i \notin new
  <2>1. OldGap(texts[i]) # 0
    BY DEF NewAmong
  <2>2. gaps[i] = Current.gaps[OldGap(texts[i])]
    BY <2>1 DEF GapsFor
  <2> QED
    BY <2>1, <2>2, OldGapIsOpen DEF Kept
<1>4. \A i \in new : i \in 1..n /\ gaps[i].gap_id = N + c(i)
  <2> TAKE i \in new
  <2>1. i \in 1..n /\ OldGap(texts[i]) = 0
    BY DEF NewAmong
  <2>2. gaps[i] = [gap_id     |-> N + Cardinality({k \in 1..i : OldGap(texts[k]) = 0}),
                   text       |-> texts[i],
                   created_by |-> NextAction]
    BY <2>1 DEF GapsFor
  <2> QED
    BY <2>1, <2>2 DEF NewAmong
<1>5. /\ \A i \in new : c(i) \in Nat /\ c(i) > 0 /\ c(i) <= c(n)
      /\ \A i, j \in new : i < j => c(i) < c(j)
      /\ IsFiniteSet(new) /\ c(n) = Cardinality(new) /\ c(n) \in Nat
  BY <1>4, NewAmongCounts
<1>6. \A i \in new : Fresh(gaps[i])
  BY <1>2, <1>4, <1>5 DEF Fresh
<1>7. \A i, j \in new : gaps[i].gap_id = gaps[j].gap_id => i = j
  <2> TAKE i, j \in new
  <2>1. i < j \/ j < i \/ i = j
    BY <1>4
  <2> QED
    BY <1>2, <1>4, <1>5, <2>1
<1>8. \A i \in 1..n : Fresh(gaps[i]) => i \in new
  BY <1>3, FreshIsUnissued
<1>9. ASSUME NEW i \in 1..n, NEW j \in 1..n, Fresh(gaps[i]), gaps[i].gap_id = gaps[j].gap_id
      PROVE  gaps[i] = gaps[j]
  <2>1. Fresh(gaps[j])
    BY <1>9 DEF Fresh
  <2> QED
    BY <1>7, <1>8, <1>9, <2>1
<1>10. IsFiniteSet(GapIds(gaps))
  <2> DEFINE f == [i \in 1..n |-> gaps[i].gap_id]
  <2>1. f \in Surjection(1..n, GapIds(gaps)) /\ IsFiniteSet(1..n)
    BY <1>1, FS_Interval DEF Surjection, GapIds
  <2> HIDE DEF f, gaps
  <2> QED
    BY <2>1, FS_Surjection
<1>11. N + c(n) <= Cardinality(AllGapIds \cup GapIds(gaps))
  <2> DEFINE ids == {gaps[i].gap_id : i \in new}
             f   == [i \in new |-> gaps[i].gap_id]
  <2>1. f \in Surjection(new, ids) /\ f \in Injection(new, ids)
    <3>1. f \in [new -> ids] /\ \A g \in ids : \E i \in new : f[i] = g
      OBVIOUS
    <3>2. \A i, j \in new : f[i] = f[j] => i = j
      BY <1>7
    <3> HIDE DEF f, ids, new
    <3> QED
      BY <3>1, <3>2 DEF Surjection, Injection, IsInjective
  <2>2. IsFiniteSet(ids) /\ Cardinality(ids) = c(n)
    <3> HIDE DEF ids, f, new
    <3> QED BY <1>5, <2>1, FS_Surjection
  <2>3. ids \cap AllGapIds = {}
    BY <1>6, FreshIsUnissued
  <2>4. ids \subseteq GapIds(gaps)
    BY <1>1, <1>4 DEF GapIds
  <2> HIDE DEF ids, gaps
  <2>5. IsFiniteSet(AllGapIds \cup ids) /\ Cardinality(AllGapIds \cup ids) = N + c(n)
    <3>1. Cardinality(AllGapIds \cap ids) = 0
      BY <2>3, FS_EmptySet
    <3>2. /\ IsFiniteSet(AllGapIds \cup ids)
          /\ Cardinality(AllGapIds \cup ids) = N + Cardinality(ids) - Cardinality(AllGapIds \cap ids)
      BY <1>2, <2>2, FS_Union
    <3> QED
      BY <1>2, <1>5, <2>2, <3>1, <3>2
  <2>6. IsFiniteSet(AllGapIds \cup GapIds(gaps))
    BY <1>2, <1>10, FS_Union
  <2>7. AllGapIds \cup ids \in SUBSET (AllGapIds \cup GapIds(gaps))
    BY <2>4
  <2> QED
    BY <2>5, <2>6, <2>7, FS_Subset
<1>12. Cardinality(AllGapIds \cup GapIds(gaps)) \in Nat
  BY <1>2, <1>10, FS_Union, FS_CardinalityType
<1>13. \A i \in 1..n : Fresh(gaps[i]) => gaps[i].gap_id <= Cardinality(AllGapIds \cup GapIds(gaps))
  BY <1>2, <1>4, <1>5, <1>8, <1>11, <1>12
<1> HIDE DEF gaps, new
<1>14. \A i \in 1..n : Kept(gaps[i]) \/ Fresh(gaps[i])
  BY <1>3, <1>6
<1>15. NumbersGaps(gaps)
  BY <1>1, <1>9, <1>10, <1>13, <1>14 DEF NumbersGaps
<1> QED
  BY <1>1, <1>15 DEF gaps

-----------------------------------------------------------------------------
(* A new version                                                            *)

(* An open gap is one of the latest version. *)
LEMMA OpenGapHasVersion ==
  ASSUME TypeOK, NEW gap, Kept(gap)
  PROVE  /\ Len(states) \in Versions /\ Current = states[Len(states)]
         /\ \E i \in DOMAIN states[Len(states)].gaps : gap = states[Len(states)].gaps[i]
<1>1. states # <<>>
  BY DEF Kept, Current, NoState
<1>2. Len(states) \in Versions
  BY <1>1, Tables DEF TypeOK
<1> QED
  BY <1>1, <1>2 DEF Kept, Current

LEMMA NewVersionIsNumbered ==
  ASSUME TypeOK, GapsAreNumbered, NEW state, states' = Append(states, state), NumbersGaps(state.gaps)
  PROVE  GapsAreNumbered'
<1> DEFINE all == AllGapIds \cup GapIds(state.gaps)
<1>1. AllGapIds' = all
  BY NewVersion
<1>2. IsFiniteSet(AllGapIds) /\ Cardinality(AllGapIds) \in Nat
  BY GapsAreFinite
<1>3. IsFiniteSet(all) /\ Cardinality(all) \in Nat
  BY <1>2, FS_Union, FS_CardinalityType DEF NumbersGaps
<1>4. Cardinality(AllGapIds) <= Cardinality(all)
  BY <1>3, FS_Subset
<1>5. ASSUME NEW g \in AllGapIds PROVE g \in 1..Cardinality(all)
  <2> HIDE DEF all
  <2> QED BY <1>2, <1>3, <1>4 DEF GapsAreNumbered
<1>6. ASSUME NEW g \in GapIds(state.gaps) PROVE g \in 1..Cardinality(all)
  <2>1. PICK i \in DOMAIN state.gaps : g = state.gaps[i].gap_id
    BY DEF GapIds
  <2>2. CASE Kept(state.gaps[i])
    <3>1. g \in AllGapIds
      BY <2>1, <2>2, OpenGapsAreIssued DEF Kept, GapIds
    <3> QED
      BY <1>5, <3>1
  <2>3. CASE Fresh(state.gaps[i])
    <3>1. g \in Nat /\ g > Cardinality(AllGapIds) /\ g <= Cardinality(all)
      BY <2>1, <2>3 DEF NumbersGaps, Fresh
    <3> HIDE DEF all
    <3> QED BY <1>2, <1>3, <3>1
  <2> QED
    BY <2>2, <2>3 DEF NumbersGaps
<1>7. all \subseteq 1..Cardinality(all)
  BY <1>5, <1>6
<1> HIDE DEF all
<1> QED
  BY <1>1, <1>7 DEF GapsAreNumbered

LEMMA NewVersionIsStable ==
  ASSUME TypeOK, GapsAreNumbered, GapIdsAreStable,
         NEW state, states' = Append(states, state), NumbersGaps(state.gaps)
  PROVE  GapIdsAreStable'
<1> PICK n : n = Len(states) + 1
  OBVIOUS
<1>1. /\ Versions' = Versions \cup {n} /\ n \notin Versions
      /\ Versions \subseteq Nat /\ \A v \in Versions : v < n
      /\ \A v \in Versions : states'[v] = states[v]
      /\ states'[n] = state
  BY NewVersion
<1>2. ASSUME NEW v \in Versions, NEW i \in DOMAIN states[v].gaps, NEW j \in DOMAIN state.gaps,
             states[v].gaps[i].gap_id = state.gaps[j].gap_id
      PROVE  states[v].gaps[i] = state.gaps[j] /\ Kept(state.gaps[j])
  <2>1. state.gaps[j].gap_id \in AllGapIds
    BY <1>2 DEF AllGapIds, GapIds
  <2>2. Kept(state.gaps[j])
    BY <2>1, FreshIsUnissued DEF NumbersGaps
  <2> QED
    BY <1>2, <2>2, OpenGapHasVersion DEF GapIdsAreStable
<1>3. ASSUME NEW i \in DOMAIN state.gaps, NEW j \in DOMAIN state.gaps,
             state.gaps[i].gap_id = state.gaps[j].gap_id
      PROVE  state.gaps[i] = state.gaps[j]
  <2>1. CASE Fresh(state.gaps[i])
    BY <1>3, <2>1 DEF NumbersGaps
  <2>2. CASE Kept(state.gaps[i])
    <3>1. PICK k \in DOMAIN states[Len(states)].gaps : state.gaps[i] = states[Len(states)].gaps[k]
      BY <2>2, OpenGapHasVersion
    <3>2. Len(states) \in Versions
      BY <2>2, OpenGapHasVersion
    <3> QED
      BY <1>2, <1>3, <3>1, <3>2
  <2> QED
    BY <2>1, <2>2 DEF NumbersGaps
<1>4. ASSUME NEW v \in Versions', NEW w \in Versions',
             NEW i \in DOMAIN states'[v].gaps, NEW j \in DOMAIN states'[w].gaps,
             states'[v].gaps[i].gap_id = states'[w].gaps[j].gap_id
      PROVE  states'[v].gaps[i] = states'[w].gaps[j]
  <2>1. CASE v \in Versions /\ w \in Versions
    <3>1. states'[v] = states[v] /\ states'[w] = states[w]
      BY <1>1, <2>1
    <3>2. /\ i \in DOMAIN states[v].gaps /\ j \in DOMAIN states[w].gaps
          /\ states[v].gaps[i].gap_id = states[w].gaps[j].gap_id
      BY <1>4, <3>1
    <3> QED
      BY <2>1, <3>1, <3>2 DEF GapIdsAreStable
  <2>2. CASE v \in Versions /\ w = n
    <3>1. states'[v] = states[v] /\ states'[w] = state
      BY <1>1, <2>2
    <3>2. /\ i \in DOMAIN states[v].gaps /\ j \in DOMAIN state.gaps
          /\ states[v].gaps[i].gap_id = state.gaps[j].gap_id
      BY <1>4, <3>1
    <3> QED
      BY <1>2, <2>2, <3>1, <3>2
  <2>3. CASE v = n /\ w \in Versions
    <3>1. states'[v] = state /\ states'[w] = states[w]
      BY <1>1, <2>3
    <3>2. /\ i \in DOMAIN state.gaps /\ j \in DOMAIN states[w].gaps
          /\ state.gaps[i].gap_id = states[w].gaps[j].gap_id
      BY <1>4, <3>1
    <3> QED
      BY <1>2, <2>3, <3>1, <3>2
  <2>4. CASE v = n /\ w = n
    <3>1. states'[v] = state /\ states'[w] = state
      BY <1>1, <2>4
    <3>2. /\ i \in DOMAIN state.gaps /\ j \in DOMAIN state.gaps
          /\ state.gaps[i].gap_id = state.gaps[j].gap_id
      BY <1>4, <3>1
    <3> QED
      BY <1>3, <3>1, <3>2
  <2> QED
    BY <1>1, <2>1, <2>2, <2>3, <2>4
<1>5. ASSUME NEW u \in Versions', NEW v \in Versions', NEW w \in Versions', u < v, v < w,
             NEW g \in GapIds(states'[u].gaps) \cap GapIds(states'[w].gaps)
      PROVE  g \in GapIds(states'[v].gaps)
  <2>1. u \in Versions /\ v \in Versions
    BY <1>1, <1>5
  <2>2. CASE w \in Versions
    BY <1>1, <1>5, <2>1, <2>2 DEF GapIdsAreStable
  <2>3. CASE w = n
    <3> DEFINE m == Len(states)
    <3>1. g \in GapIds(states[u].gaps) /\ g \in GapIds(state.gaps)
      <4>1. states'[u] = states[u] /\ states'[w] = state
        BY <1>1, <2>1, <2>3
      <4> QED
        BY <4>1
    <3>2. PICK i \in DOMAIN states[u].gaps, j \in DOMAIN state.gaps :
            g = states[u].gaps[i].gap_id /\ g = state.gaps[j].gap_id
      BY <3>1 DEF GapIds
    <3>3. Kept(state.gaps[j])
      BY <1>2, <2>1, <3>2
    <3>4. m \in Versions /\ g \in GapIds(states[m].gaps)
      BY <3>2, <3>3, OpenGapHasVersion DEF GapIds
    <3>5. v = m \/ v < m
      BY <2>1, Tables
    <3>6. CASE v = m
      <4>1. states'[v] = states[v]
        BY <1>1, <2>1
      <4>2. g \in GapIds(states[v].gaps)
        BY <3>4, <3>6
      <4> QED
        BY <4>1, <4>2
    <3>7. CASE v < m
      <4>1. g \in GapIds(states[u].gaps) \cap GapIds(states[m].gaps)
        BY <3>1, <3>4
      <4>2. g \in GapIds(states[v].gaps)
        BY <1>5, <2>1, <3>4, <3>7, <4>1 DEF GapIdsAreStable
      <4>3. states'[v] = states[v]
        BY <1>1, <2>1
      <4> QED
        BY <4>2, <4>3
    <3> QED
      BY <3>5, <3>6, <3>7
  <2> QED
    BY <1>1, <2>2, <2>3
<1> QED
  BY <1>4, <1>5 DEF GapIdsAreStable

-----------------------------------------------------------------------------
(* What the ledger tells of the gaps                                        *)

CreatorsOf(g)  == {a \in LegalOf("verify_answer") : g \in actions[a].created_gaps}
ResolversOf(g) == {a \in LegalOf("verify_answer") : g \in actions[a].resolved_gaps}

LifeOf(g) ==
  \E c \in ActionIds :
    /\ CreatorsOf(g) = {c}
    /\ \/ ResolversOf(g) = {} /\ g \in GapIds(Current.gaps)
       \/ \E r \in ActionIds : ResolversOf(g) = {r} /\ c < r /\ g \notin GapIds(Current.gaps)

(* The ledger speaks of no other gaps. *)
LedgerNamesGaps ==
  \A a \in LegalOf("verify_answer") :
    actions[a].created_gaps \cup actions[a].resolved_gaps \subseteq AllGapIds

LEMMA LedgerExplainsLives == LedgerExplainsGaps <=> \A g \in AllGapIds : LifeOf(g)
BY DEF LedgerExplainsGaps, AllGapIds, LifeOf, CreatorsOf, ResolversOf

LEMMA LedgersStay ==
  ASSUME TypeOK, NEW row, Log(row), NEW g, NEW a, a = NextAction
  PROVE  /\ CreatorsOf(g)' = CreatorsOf(g)
              \cup IF row.legal /\ row.kind = "verify_answer" /\ g \in row.created_gaps THEN {a} ELSE {}
         /\ ResolversOf(g)' = ResolversOf(g)
              \cup IF row.legal /\ row.kind = "verify_answer" /\ g \in row.resolved_gaps THEN {a} ELSE {}
         /\ ActionIds \subseteq ActionIds' /\ a \in ActionIds' /\ \A b \in ActionIds : b < a
<1>1. LegalOf("verify_answer")' = LegalOf("verify_answer")
        \cup IF row.legal /\ row.kind = "verify_answer" THEN {a} ELSE {}
  BY LegalOfGrows
<1>2. /\ actions'[a] = row /\ \A b \in ActionIds : actions'[b] = actions[b]
      /\ ActionIds \subseteq ActionIds' /\ a \in ActionIds'
  BY LogGrows
<1>3. LegalOf("verify_answer") \subseteq ActionIds /\ \A b \in ActionIds : b < a
  BY LedgerSubsets
<1> QED
  BY <1>1, <1>2, <1>3 DEF CreatorsOf, ResolversOf

GapLives == LedgerExplainsGaps /\ LedgerNamesGaps

(* Any call but a legal verify leaves the gaps as they are. *)
LEMMA OthersKeepLives ==
  ASSUME TypeOK, GapLives, NEW row, Log(row), ~(row.legal /\ row.kind = "verify_answer"),
         AllGapIds' = AllGapIds, GapIds(Current.gaps)' = GapIds(Current.gaps)
  PROVE  GapLives'
<1> PICK a : a = NextAction
  OBVIOUS
<1>1. ASSUME NEW g PROVE CreatorsOf(g)' = CreatorsOf(g) /\ ResolversOf(g)' = ResolversOf(g)
  BY LedgersStay
<1>2. ActionIds \subseteq ActionIds'
  BY LedgersStay
<1>3. \A g \in AllGapIds' : LifeOf(g)'
  <2> TAKE g \in AllGapIds'
  <2>1. LifeOf(g)
    BY LedgerExplainsLives DEF GapLives
  <2> QED
    BY <1>1, <1>2, <2>1 DEF LifeOf
<1>4. LedgerNamesGaps'
  <2>1. LegalOf("verify_answer")' = LegalOf("verify_answer")
    BY LegalOfGrows
  <2>2. \A b \in LegalOf("verify_answer") : actions'[b] = actions[b]
    BY LogGrows, LedgerSubsets
  <2> QED
    BY <2>1, <2>2 DEF GapLives, LedgerNamesGaps
<1>5. LedgerExplainsGaps'
  BY <1>3 DEF LedgerExplainsGaps, AllGapIds, LifeOf, CreatorsOf, ResolversOf
<1> QED
  BY <1>4, <1>5 DEF GapLives

(* A verdict: what is new was created by it, what is gone was resolved. *)
LEMMA VerdictKeepsLives ==
  ASSUME TypeOK, GapsAreNumbered, GapLives,
         NEW state, states' = Append(states, state), NumbersGaps(state.gaps),
         NEW row, Log(row), row.legal, row.kind = "verify_answer",
         row.created_gaps = GapIds(state.gaps) \ GapIds(Current.gaps),
         row.resolved_gaps = GapIds(Current.gaps) \ GapIds(state.gaps)
  PROVE  GapLives'
<1> DEFINE old == GapIds(Current.gaps)
           new == GapIds(state.gaps)
<1> PICK a : a = NextAction
  OBVIOUS
<1> PICK n : n = Len(states) + 1
  OBVIOUS
<1>1. AllGapIds' = AllGapIds \cup new /\ Current' = state
  BY NewVersion
<1>2. old \subseteq AllGapIds
  BY OpenGapsAreIssued
<1>3. \A g \in new : g \in AllGapIds => g \in old
  <2> SUFFICES ASSUME NEW i \in DOMAIN state.gaps, state.gaps[i].gap_id \in AllGapIds
               PROVE  state.gaps[i].gap_id \in old
    BY DEF GapIds
  <2>1. Kept(state.gaps[i])
    BY FreshIsUnissued DEF NumbersGaps
  <2> QED
    BY <2>1 DEF Kept, GapIds
<1>4. \A g : /\ CreatorsOf(g)' = CreatorsOf(g) \cup IF g \in new \ old THEN {a} ELSE {}
             /\ ResolversOf(g)' = ResolversOf(g) \cup IF g \in old \ new THEN {a} ELSE {}
  BY LedgersStay
<1>5. ActionIds \subseteq ActionIds' /\ a \in ActionIds' /\ \A b \in ActionIds : b < a
  BY LedgersStay
<1>6. GapIds(Current.gaps)' = new
  BY <1>1 DEF GapIds
<1> HIDE DEF old, new
<1>7. ASSUME NEW g \in AllGapIds PROVE LifeOf(g)'
  <2>1. CreatorsOf(g)' = CreatorsOf(g)
    BY <1>3, <1>4
  <2>2. PICK c \in ActionIds :
          /\ CreatorsOf(g) = {c}
          /\ \/ ResolversOf(g) = {} /\ g \in old
             \/ \E r \in ActionIds : ResolversOf(g) = {r} /\ c < r /\ g \notin old
    BY LedgerExplainsLives DEF GapLives, LifeOf, old
  <2>3. CASE ResolversOf(g) = {} /\ g \in old /\ g \in new
    BY <1>4, <1>5, <1>6, <2>1, <2>2, <2>3 DEF LifeOf
  <2>4. CASE ResolversOf(g) = {} /\ g \in old /\ g \notin new
    <3>1. ResolversOf(g)' = {a} /\ c < a
      BY <1>4, <1>5, <2>4
    <3> QED
      BY <1>5, <1>6, <2>1, <2>2, <2>4, <3>1 DEF LifeOf
  <2>5. CASE \E r \in ActionIds : ResolversOf(g) = {r} /\ c < r /\ g \notin old
    <3>1. ResolversOf(g)' = ResolversOf(g) /\ g \notin new
      BY <1>3, <1>4, <2>5
    <3> QED
      BY <1>5, <1>6, <2>1, <2>2, <2>5, <3>1 DEF LifeOf
  <2> QED
    BY <2>2, <2>3, <2>4, <2>5
<1>8. ASSUME NEW g \in new, g \notin AllGapIds PROVE LifeOf(g)'
  <2>1. CreatorsOf(g) = {} /\ ResolversOf(g) = {}
    BY <1>8 DEF GapLives, LedgerNamesGaps, CreatorsOf, ResolversOf
  <2>2. g \notin old
    BY <1>2, <1>8
  <2>3. CreatorsOf(g)' = {a} /\ ResolversOf(g)' = {}
    BY <1>4, <2>1, <2>2
  <2> QED
    BY <1>5, <1>6, <2>3 DEF LifeOf
<1>9. LedgerExplainsGaps'
  <2>1. \A g \in AllGapIds' : LifeOf(g)'
    BY <1>1, <1>7, <1>8
  <2> QED
    BY <2>1 DEF LedgerExplainsGaps, AllGapIds, LifeOf, CreatorsOf, ResolversOf
<1>10. LedgerNamesGaps'
  <2>1. LegalOf("verify_answer")' = LegalOf("verify_answer") \cup {a}
    BY LegalOfGrows
  <2>2. actions'[a] = row /\ \A b \in LegalOf("verify_answer") : actions'[b] = actions[b]
    BY LogGrows, LedgerSubsets
  <2>3. row.created_gaps \cup row.resolved_gaps \subseteq AllGapIds'
    BY <1>1, <1>2 DEF old, new
  <2> QED
    BY <1>1, <2>1, <2>2, <2>3 DEF GapLives, LedgerNamesGaps
<1> QED
  BY <1>9, <1>10 DEF GapLives

-----------------------------------------------------------------------------
(* The calls                                                                *)

Gapped == TypeOK /\ GapsAreNumbered /\ GapIdsAreStable /\ GapLives

(* A call that appends no version and is no verdict. *)
LEMMA SameVersionsKeepGaps ==
  ASSUME Gapped, states' = states, NEW row, Log(row), ~(row.legal /\ row.kind = "verify_answer")
  PROVE  GapsAreNumbered' /\ GapIdsAreStable' /\ GapLives'
<1>1. AllGapIds' = AllGapIds /\ Current' = Current
  BY DEF AllGapIds, Current, Versions
<1>2. GapIds(Current.gaps)' = GapIds(Current.gaps)
  BY <1>1 DEF GapIds
<1>3. GapLives'
  BY <1>1, <1>2, OthersKeepLives DEF Gapped
<1> QED
  BY <1>1, <1>3 DEF Gapped, GapsAreNumbered, GapIdsAreStable, Versions

LEMMA LogsKeepGaps ==
  ASSUME Gapped, states' = states, NEW kind, NEW legal, NEW after, Logs(kind, legal, after),
         ~(legal /\ kind = "verify_answer")
  PROVE  GapsAreNumbered' /\ GapIdsAreStable' /\ GapLives'
<1>1. PICK row : Log(row) /\ row.kind = kind /\ row.legal = legal
  BY DEF Logs
<1> QED
  BY <1>1, SameVersionsKeepGaps

(* An update carries the open gaps over. *)
LEMMA OpenGapsAreNumbered ==
  ASSUME TypeOK, GapsAreNumbered
  PROVE  NumbersGaps(Current.gaps)
<1>1. \A i \in DOMAIN Current.gaps : Kept(Current.gaps[i]) /\ ~Fresh(Current.gaps[i])
  BY FreshIsUnissued DEF Kept
<1>2. IsFiniteSet(GapIds(Current.gaps))
  BY OpenGapsAreIssued, GapsAreFinite, FS_Subset
<1> QED
  BY <1>1, <1>2 DEF NumbersGaps

LEMMA UpdateKeepsGaps ==
  ASSUME Gapped, NEW answer, NEW patch, NEW support, UpdateState(answer, patch, support)
  PROVE  GapsAreNumbered' /\ GapIdsAreStable' /\ GapLives'
<1>1. PICK state : states' = Append(states, state) /\ state.gaps = Current.gaps
  <2> DEFINE state == [directory  |-> Merge(Current.directory, patch),
                       answer     |-> answer,
                       support    |-> support,
                       gaps       |-> Current.gaps,
                       status     |-> "unverified",
                       created_by |-> NextAction]
  <2>1. states' = Append(states, state)
    BY DEF UpdateState
  <2>2. state.gaps = Current.gaps
    OBVIOUS
  <2> HIDE DEF state
  <2> QED
    BY <2>1, <2>2
<1>2. NumbersGaps(state.gaps)
  BY <1>1, OpenGapsAreNumbered DEF Gapped
<1>3. GapsAreNumbered' /\ GapIdsAreStable'
  BY <1>1, <1>2, NewVersionIsNumbered, NewVersionIsStable DEF Gapped
<1>4. Current' = state /\ AllGapIds' = AllGapIds \cup GapIds(state.gaps)
  BY <1>1, NewVersion DEF Gapped
<1>5. GapIds(Current.gaps)' = GapIds(Current.gaps)
  BY <1>1, <1>4 DEF GapIds
<1>6. AllGapIds' = AllGapIds
  BY <1>1, <1>4, OpenGapsAreIssued DEF Gapped
<1>7. PICK row : Log(row) /\ row.kind = "update_state"
  BY UpdateStateLogs DEF Logs
<1>8. GapLives'
  BY <1>5, <1>6, <1>7, OthersKeepLives DEF Gapped
<1> QED
  BY <1>3, <1>8

LEMMA VerifyKeepsGaps ==
  ASSUME Gapped, NEW status, NEW texts \in GapLists, VerifyAnswer(status, texts)
  PROVE  GapsAreNumbered' /\ GapIdsAreStable' /\ GapLives'
<1> DEFINE old_ids == GapIds(Current.gaps)
           new_ids == GapIds(GapsFor(texts))
           row     == [Action("verify_answer") EXCEPT
                         !.after         = Len(states) + 1,
                         !.referenced    = ToSet(Current.support),
                         !.active_gaps   = old_ids,
                         !.created_gaps  = new_ids \ old_ids,
                         !.resolved_gaps = old_ids \ new_ids]
           state   == [Current EXCEPT !.gaps = GapsFor(texts),
                                      !.status = status,
                                      !.created_by = NextAction]
<1>1. states' = Append(states, state) /\ Log(row)
  BY DEF VerifyAnswer
<1>2. state.gaps = GapsFor(texts)
  <2>1. Current \in TaskState
    BY CurrentIsTaskState DEF Gapped
  <2> QED
    BY <2>1 DEF TaskState
<1>3. /\ row.legal /\ row.kind = "verify_answer"
      /\ row.created_gaps = new_ids \ old_ids /\ row.resolved_gaps = old_ids \ new_ids
  <2> HIDE DEF old_ids, new_ids
  <2> QED BY DEF Action
<1>4. PICK n \in 0..MaxGaps : texts \in [1..n -> GapTexts]
  BY DEF GapLists
<1>5. n \in Nat
  BY BoundsAssumption
<1>6. NumbersGaps(GapsFor(texts))
  BY <1>4, <1>5, VerdictNumbersGaps DEF Gapped
<1> HIDE DEF row, state
<1>7. NumbersGaps(state.gaps)
  BY <1>2, <1>6
<1>8. GapsAreNumbered' /\ GapIdsAreStable'
  BY <1>1, <1>7, NewVersionIsNumbered, NewVersionIsStable DEF Gapped
<1>9. /\ row.created_gaps = GapIds(state.gaps) \ GapIds(Current.gaps)
      /\ row.resolved_gaps = GapIds(Current.gaps) \ GapIds(state.gaps)
  BY <1>2, <1>3
<1>10. GapLives'
  BY <1>1, <1>3, <1>7, <1>9, VerdictKeepsLives DEF Gapped
<1> QED
  BY <1>8, <1>10

LEMMA StutterKeepsGaps ==
  ASSUME Gapped, states' = states, actions' = actions
  PROVE  GapsAreNumbered' /\ GapIdsAreStable' /\ GapLives'
<1>1. AllGapIds' = AllGapIds /\ Current' = Current /\ Versions' = Versions
  BY DEF AllGapIds, Current, Versions
<1>2. ActionIds' = ActionIds /\ LegalOf("verify_answer")' = LegalOf("verify_answer")
  BY DEF LegalOf, ActionIds
<1>3. LedgerExplainsGaps'
  BY <1>1, <1>2 DEF Gapped, GapLives, LedgerExplainsGaps
<1> QED
  BY <1>1, <1>2, <1>3
     DEF Gapped, GapLives, GapsAreNumbered, GapIdsAreStable, LedgerNamesGaps

LEMMA NextKeepsGaps ==
  ASSUME Gapped, Next
  PROVE  GapsAreNumbered' /\ GapIdsAreStable' /\ GapLives'
<1> DEFINE KeepsGaps == GapsAreNumbered' /\ GapIdsAreStable' /\ GapLives'
<1>1. CASE Search
  BY <1>1, SearchLogs, LogsKeepGaps
<1>2. ASSUME NEW doc, NEW search, OpenPage(doc, search)
      PROVE  KeepsGaps
  BY <1>2, OpenPageLogs, LogsKeepGaps
<1>3. ASSUME NEW e, ReadEvidence(e)
      PROVE  KeepsGaps
  BY <1>3, ReadEvidenceLogs, LogsKeepGaps
<1>4. ASSUME NEW answer, NEW patch, NEW support, UpdateState(answer, patch, support)
      PROVE  KeepsGaps
  BY <1>4, UpdateKeepsGaps
<1>5. ASSUME NEW status, NEW texts \in GapLists, VerifyAnswer(status, texts)
      PROVE  KeepsGaps
  BY <1>5, VerifyKeepsGaps
<1>6. CASE SubmitAnswer
  BY <1>6, SubmitAnswerLogs, LogsKeepGaps
<1>7. ASSUME NEW kind, Reject(kind)
      PROVE  KeepsGaps
  BY <1>7, RejectLogs, LogsKeepGaps
<1>8. CASE ForgetVisible
  BY <1>8, StutterKeepsGaps DEF ForgetVisible, store
<1>9. CASE Retrieve
  BY <1>1, <1>2, <1>3, <1>9 DEF Retrieve
<1>10. CASE Revise
  BY <1>4, <1>5, <1>6, <1>10 DEF Revise
<1>11. CASE Rejected
  BY <1>7, <1>11 DEF Rejected, SearchRejected, OpenPageRejected, ReadEvidenceRejected,
                     UpdateStateRejected, VerifyAnswerRejected, SubmitAnswerRejected
<1> QED
  BY <1>8, <1>9, <1>10, <1>11 DEF Next

LEMMA GappedInductive == Spec => []Gapped
<1>1. Init => Gapped
  <2> SUFFICES ASSUME Init PROVE Gapped
    OBVIOUS
  <2>1. Versions = {} /\ ActionIds = {} /\ TypeOK
    BY InitHasTypes DEF Init, Versions, ActionIds
  <2>2. AllGapIds = {} /\ LegalOf("verify_answer") = {}
    BY <2>1 DEF AllGapIds, LegalOf
  <2>3. GapsAreNumbered /\ GapIdsAreStable /\ LedgerNamesGaps
    BY <2>1, <2>2 DEF GapsAreNumbered, GapIdsAreStable, LedgerNamesGaps
  <2>4. LedgerExplainsGaps
    BY <2>2, LedgerExplainsLives
  <2> QED
    BY <2>1, <2>3, <2>4 DEF Gapped, GapLives
<1>2. Gapped /\ [Next]_vars => Gapped'
  <2>1. ASSUME Gapped, Next PROVE Gapped'
    BY <2>1, NextKeepsGaps, NextKeepsTypes DEF Gapped
  <2>2. ASSUME Gapped, UNCHANGED vars PROVE Gapped'
    BY <2>2, StutterKeepsGaps, StutterKeepsTypes DEF Gapped, vars, store
  <2> QED
    BY <2>1, <2>2
<1> QED
  BY <1>1, <1>2, PTL DEF Spec

(* gap_id is stable: it names one gap for the whole episode and is never    *)
(* given out twice, although the next one is computed from a count.         *)
THEOREM GapIdsStayStable == Spec => []GapIdsAreStable
<1>1. Gapped => GapIdsAreStable
  BY DEF Gapped
<1> QED
  BY <1>1, GappedInductive, PTL

(* created_gap_ids and resolved_gap_ids of the ledger tell the life of each *)
(* gap exactly: one verify created it, and one later verify resolved it or  *)
(* else it is open now.                                                     *)
THEOREM LedgerTellsGaps == Spec => []LedgerExplainsGaps
<1>1. Gapped => LedgerExplainsGaps
  BY DEF Gapped, GapLives
<1> QED
  BY <1>1, GappedInductive, PTL

=============================================================================
