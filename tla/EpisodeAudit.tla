---------------------------- MODULE EpisodeAudit ----------------------------
(***************************************************************************)
(* audit_episode_store of src/esr_grpo/diagnostics.py: the offline check    *)
(* the project runs over a finished ledger.  Each definition is an error    *)
(* code of the audit, as the set of rows it reports.  Left out: the codes   *)
(* about the numbering of rows, which the sequences of ESREnvironment       *)
(* already are, the token spans, and the warning on placeholder findings.   *)
(***************************************************************************)
EXTENDS ESREnvironment

EVIDENCE_CREATOR ==
  {e \in EvidenceIds :
     \/ evidence[e].created_by \notin ActionIds
     \/ actions[evidence[e].created_by].kind # "open_page"}

EVIDENCE_CREATOR_LINK ==
  {e \in EvidenceIds \ EVIDENCE_CREATOR :
     e \notin actions[evidence[e].created_by].created}

EMPTY_EVIDENCE ==
  {e \in EvidenceIds : evidence[e].doc \in EmptyDocs \cup BlankDocs}

\* available_ids: the Evidence archived before action a.
ArchivedBefore(a) ==
  {e \in EvidenceIds : evidence[e].created_by \in ActionIds /\ evidence[e].created_by < a}

STATE_CREATOR == {v \in Versions : states[v].created_by \notin ActionIds}

Creator(v) == actions[states[v].created_by]

Audited == Versions \ STATE_CREATOR

STATE_ACTION_LINK == {v \in Audited : Creator(v).after # v}

DIRECTORY_COVERAGE ==
  {v \in Audited : DOMAIN states[v].directory # ArchivedBefore(states[v].created_by)}

SUPPORT_DIRECTORY ==
  {v \in Audited : ~(ToSet(states[v].support) \subseteq DOMAIN states[v].directory)}

Created(kind) == {v \in Audited : Creator(v).kind = kind}

UPDATE_VERIFICATION ==
  {v \in Created("update_state") : states[v].status # "unverified"}

UPDATE_CHANGED_GAPS ==
  {v \in Created("update_state") \ {1} : states[v].gaps # states[v - 1].gaps}

VERIFY_WITHOUT_STATE == Created("verify_answer") \cap {1}

SameContent(s, t) ==
  /\ s.answer = t.answer
  /\ s.directory = t.directory
  /\ s.support = t.support

VERIFY_CHANGED_CONTENT ==
  {v \in Created("verify_answer") \ {1} : ~SameContent(states[v], states[v - 1])}

INVALID_STATE_ACTION ==
  Audited \ (Created("update_state") \cup Created("verify_answer"))

SUBMIT_ACTION ==
  /\ IsSubmitted
  /\ \/ submit_action_id \notin ActionIds
     \/ actions[submit_action_id].kind # "submit_answer"
     \/ ~actions[submit_action_id].legal

SUBMIT_STATE ==
  /\ IsSubmitted
  /\ \/ states = <<>>
     \/ Current.status # "supported"
     \/ Current.gaps # <<>>

SUBMIT_ANSWER_MISMATCH ==
  /\ IsSubmitted
  /\ states # <<>>
  /\ submitted_answer # Current.answer

-----------------------------------------------------------------------------
(* In every reachable state the two tables the handlers write and the       *)
(* ledger that explains them agree: evidence rows name the open_page that   *)
(* created them; a state names the one update or verify that wrote it, and  *)
(* covers exactly the Evidence archived before that action; only a verify   *)
(* changes gaps or verification, and it changes nothing else; the submit    *)
(* metadata points at a legal submit.  Three codes the audit does report:   *)
(* EMPTY_EVIDENCE, only of a page of white space, and SUBMIT_STATE and      *)
(* SUBMIT_ANSWER_MISMATCH, only when an update or a verify wrote a version  *)
(* after the submitted one.                                                 *)
LedgerPassesAudit ==
  /\ EVIDENCE_CREATOR = {}
  /\ EVIDENCE_CREATOR_LINK = {}
  /\ \A e \in EMPTY_EVIDENCE : evidence[e].doc \in BlankDocs
  /\ STATE_CREATOR = {}
  /\ STATE_ACTION_LINK = {}
  /\ DIRECTORY_COVERAGE = {}
  /\ SUPPORT_DIRECTORY = {}
  /\ UPDATE_VERIFICATION = {}
  /\ UPDATE_CHANGED_GAPS = {}
  /\ VERIFY_WITHOUT_STATE = {}
  /\ VERIFY_CHANGED_CONTENT = {}
  /\ INVALID_STATE_ACTION = {}
  /\ ~SUBMIT_ACTION
  /\ SUBMIT_STATE \/ SUBMIT_ANSWER_MISMATCH => actions[submit_action_id].before < Len(states)

\* The audit's claim about a submitted episode: its latest state is the
\* supported one that was submitted.  The environment keeps accepting calls
\* after submit_answer, so this does not hold.
SubmittedStateIsFinal == ~SUBMIT_STATE /\ ~SUBMIT_ANSWER_MISMATCH

=============================================================================
