------------------------------ MODULE ESRSafety ------------------------------
(***************************************************************************)
(* What an episode of ESREnvironment guarantees whatever the policy, the    *)
(* retriever and the Verifier do.                                           *)
(***************************************************************************)
EXTENDS ESREnvironment

PartialFunctions(S, T) == UNION {[X -> T] : X \in SUBSET S}

EvidenceRow == [doc : Docs \ EmptyDocs, created_by : Nat, search : Nat]

Gap == [gap_id : Nat, text : GapTexts, created_by : Nat]

TaskState ==
  [directory  : PartialFunctions(EvidenceIds, Findings),
   answer     : Answers \cup {NoAnswer},
   support    : Seq(EvidenceIds),
   gaps       : Seq(Gap),
   status     : Statuses,
   created_by : Nat]

ActionRow ==
  [kind            : Kinds,
   legal           : BOOLEAN,
   before          : 0..Len(states),
   after           : 0..Len(states),
   parents         : SUBSET ActionIds,
   referenced      : SUBSET EvidenceIds,
   created         : SUBSET EvidenceIds,
   active_gaps     : SUBSET Nat,
   hits            : SUBSET Docs,
   inputs          : PartialFunctions(EvidenceIds, ActionIds),
   changed         : SUBSET EvidenceIds,
   answer_changed  : BOOLEAN,
   support_changed : BOOLEAN,
   created_gaps    : SUBSET Nat,
   resolved_gaps   : SUBSET Nat]

\* The tables hold rows of the types of models.py, and every id in them
\* names a row that exists.
TypeOK ==
  /\ evidence \in Seq(EvidenceRow)
  /\ states \in Seq(TaskState)
  /\ actions \in Seq(ActionRow)
  /\ submit_action_id \in {0} \cup ActionIds
  /\ submitted_answer \in Answers \cup {NoAnswer}
  /\ visible \in PartialFunctions(EvidenceIds, ActionIds)

LegalOf(kind) == {a \in ActionIds : actions[a].legal /\ actions[a].kind = kind}

\* The legal actions that appended a TaskState.
Writers == LegalOf("update_state") \cup LegalOf("verify_answer")

Shows(a, e) ==
  /\ a \in LegalOf("open_page") \cup LegalOf("read_evidence")
  /\ e \in actions[a].created \cup actions[a].referenced

-----------------------------------------------------------------------------
(* What the policy has in view was put there by a legal open_page or        *)
(* read_evidence of that very Evidence, after every state change so far.    *)
VisiblePagesAreFresh ==
  \A e \in DOMAIN visible :
    /\ Shows(visible[e], e)
    /\ \A w \in Writers : w < visible[e]

(* A finding may be written or changed only from a page the policy saw      *)
(* since the last state change: finding_inputs names a legal open_page or   *)
(* read_evidence of that very Evidence, with no update or verify between    *)
(* it and the update.                                                       *)
FindingsComeFromFreshReads ==
  \A u \in LegalOf("update_state") :
    /\ DOMAIN actions[u].inputs = actions[u].changed
    /\ \A e \in actions[u].changed :
         LET source == actions[u].inputs[e]
         IN /\ source < u
            /\ Shows(source, e)
            /\ \A w \in Writers : ~(source < w /\ w < u)

(* Every finding of every TaskState was put there by an update that had     *)
(* its page in view, and has not changed since: the chain the credit        *)
(* router walks back is never broken.                                       *)
EveryFindingHasAWriter ==
  \A v \in Versions : \A e \in DOMAIN states[v].directory :
    \E u \in LegalOf("update_state") :
      LET after == actions[u].after
      IN /\ after <= v
         /\ e \in DOMAIN actions[u].inputs
         /\ \A w \in after..v : /\ e \in DOMAIN states[w].directory
                                /\ states[w].directory[e] = states[v].directory[e]

(* The submitted answer is the one a verify judged supported with no gap    *)
(* left, on the content of the update just before it, and that update       *)
(* indexed every page archived until the submit: no page was opened between *)
(* the update and the submit.  There is one legal submit at most, and       *)
(* nothing that happens later touches the recorded answer.                  *)
SubmittedAnswerWasVerified ==
  /\ LegalOf("submit_answer") = IF IsSubmitted THEN {submit_action_id} ELSE {}
  /\ IsSubmitted =>
       LET v       == actions[submit_action_id].before
           final   == states[v]
           draft   == states[v - 1]
       IN /\ v > 1
          /\ final.status = "supported" /\ final.gaps = <<>>
          /\ final.answer = submitted_answer /\ submitted_answer # NoAnswer
          /\ final.support # <<>>
          /\ final.created_by \in LegalOf("verify_answer")
          /\ draft.status = "unverified"
          /\ draft.answer = final.answer
          /\ draft.support = final.support
          /\ draft.directory = final.directory
          /\ \A e \in EvidenceIds :
               e \in DOMAIN draft.directory
                 <=> evidence[e].created_by < submit_action_id

(* gap_id is stable: it names one gap for the whole episode, and a resolved *)
(* gap never comes back under its old id, although new ids are computed     *)
(* from a count.                                                            *)
GapIdsAreStable ==
  /\ \A v, w \in Versions : \A i \in DOMAIN states[v].gaps, j \in DOMAIN states[w].gaps :
       states[v].gaps[i].gap_id = states[w].gaps[j].gap_id
         => states[v].gaps[i] = states[w].gaps[j]
  /\ \A u, v, w \in Versions :
       u < v /\ v < w
         => GapIds(states[u].gaps) \cap GapIds(states[w].gaps) \subseteq GapIds(states[v].gaps)

(* created_gap_ids and resolved_gap_ids of the ledger, from which the credit *)
(* router rebuilds the life of a gap, tell it exactly: each gap is created  *)
(* by one verify, and resolved by one later verify or else open now.        *)
LedgerExplainsGaps ==
  LET Creators(g)  == {a \in LegalOf("verify_answer") : g \in actions[a].created_gaps}
      Resolvers(g) == {a \in LegalOf("verify_answer") : g \in actions[a].resolved_gaps}
  IN \A g \in UNION {GapIds(states[v].gaps) : v \in Versions} :
       \E c \in ActionIds :
         /\ Creators(g) = {c}
         /\ \/ Resolvers(g) = {} /\ g \in GapIds(Current.gaps)
            \/ \E r \in ActionIds : Resolvers(g) = {r} /\ c < r /\ g \notin GapIds(Current.gaps)

(* Opening is the way back to Evidence that is archived but not yet in the  *)
(* directory: read_evidence refuses it and every update must cover it, so   *)
(* after the visible pages are forgotten the episode is stuck unless some   *)
(* earlier search still allows an open_page of that page, and that          *)
(* open_page finds the archived row: no other row holds the same page.      *)
UnindexedEvidenceCanBeReopened ==
  \A e \in Missing \ DOMAIN visible :
    /\ \E search \in ActionIds : CanOpen(evidence[e].doc, search)
    /\ \A f \in EvidenceIds : evidence[f].doc = evidence[e].doc => f = e

(* The ledger tells how the state history grew: every action ran against    *)
(* the version that the writers before it had produced, each writer         *)
(* appended the next one, and a rejected action appended none.              *)
LedgerExplainsVersions ==
  /\ \A a \in ActionIds : actions[a].before = Cardinality({w \in Writers : w < a})
  /\ \A a \in ActionIds : actions[a].after = IF a \in Writers THEN actions[a].before + 1 ELSE 0
  /\ Len(states) = Cardinality(Writers)

=============================================================================
