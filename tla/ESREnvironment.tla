--------------------------- MODULE ESREnvironment ---------------------------
(***************************************************************************)
(* One episode of the ESR harness: the ESREnvironment of                    *)
(* src/esr_grpo/environment.py over its append-only EpisodeStore           *)
(* (src/esr_grpo/store.py).  A tool call holds the environment's lock from  *)
(* its first read to the in-memory bookkeeping after its commit, so one     *)
(* call is one step, and the steps of concurrent calls interleave freely.   *)
(*                                                                         *)
(* The k-th row of each table is the k-th element of a sequence: Evidence   *)
(* "e<k>", TaskState version k and action "a<k>" (sequence_index k - 1)     *)
(* are the number k, and 0 stands for Python's None.                        *)
(***************************************************************************)
EXTENDS SequencesExt

CONSTANTS
  Docs,          \* documents of the fixed corpus
  EmptyDocs,     \* documents whose content is the empty string
  BlankDocs,     \* documents whose content is white space only
  Answers,       \* non-empty answers, stripped
  NoAnswer,      \* the empty answer (and a metadata key that is not set)
  Findings,      \* non-empty findings within finding_char_limit, stripped
  GapTexts,      \* gap descriptions, up to case and surrounding space
  MaxGaps,       \* max_gaps of the constructor
  MaxActions,    \* bound on the length of the ledger
  MaxSearches,   \* bound on the legal searches in it
  MaxRejections  \* bound on the rejected actions in it

ASSUME DocsAssumption    == EmptyDocs \subseteq Docs /\ BlankDocs \subseteq Docs
ASSUME AnswersAssumption == NoAnswer \notin Answers
ASSUME BoundsAssumption  == {MaxGaps, MaxActions, MaxSearches, MaxRejections} \subseteq Nat

VARIABLES
  evidence,          \* table evidence
  states,            \* table task_states
  actions,           \* table actions
  submit_action_id,  \* metadata written once, 0 until then
  submitted_answer,  \* metadata written once, NoAnswer until then
  visible            \* _visible_evidence_inputs: Evidence id -> action id

store == <<evidence, states, actions, submit_action_id, submitted_answer>>
vars  == <<store, visible>>

Kinds    == {"search", "open_page", "read_evidence",
             "update_state", "verify_answer", "submit_answer"}
Statuses == {"unverified", "supported", "needs_revision"}

EvidenceIds == DOMAIN evidence
Versions    == DOMAIN states
ActionIds   == DOMAIN actions

-----------------------------------------------------------------------------
(* The latest state and what the handlers read from it                      *)

NoState == [directory |-> <<>>, answer |-> NoAnswer, support |-> <<>>,
            gaps |-> <<>>, status |-> "unverified", created_by |-> 0]

Current == IF states = <<>> THEN NoState ELSE states[Len(states)]

GapIds(gaps) == {gaps[i].gap_id : i \in DOMAIN gaps}

\* defective: counts the gaps of the latest state only
OpenGapIds == GapIds(Current.gaps)

AllGapIds == UNION {GapIds(states[v].gaps) : v \in Versions}

Missing == EvidenceIds \ DOMAIN Current.directory

\* The ledger row every handler starts from: legal, at the next position.
Action(kind) ==
  [kind            |-> kind,
   legal           |-> TRUE,
   before          |-> Len(states),
   after           |-> 0,
   parents         |-> {},
   referenced      |-> {},
   created         |-> {},
   active_gaps     |-> {},
   hits            |-> {},
   inputs          |-> <<>>,
   changed         |-> {},
   answer_changed  |-> FALSE,
   support_changed |-> FALSE,
   created_gaps    |-> {},
   resolved_gaps   |-> {}]

\* defective: the identity is read after the row was appended
LateNextAction == Len(actions) + 2

NextAction == Len(actions) + 1

Log(action) ==
  /\ Len(actions) < MaxActions
  /\ actions' = Append(actions, action)

\* defective: the rejected call is logged as a legal one
RejectAsLegal(kind) ==
  /\ Cardinality({a \in ActionIds : ~actions[a].legal}) < MaxRejections
  /\ Log(Action(kind))
  /\ UNCHANGED <<evidence, states, submit_action_id, submitted_answer, visible>>

\* _reject: the call is logged as illegal, raises, and changes nothing else.
Reject(kind) ==
  /\ Cardinality({a \in ActionIds : ~actions[a].legal}) < MaxRejections
  /\ Log([Action(kind) EXCEPT !.legal = FALSE])
  /\ UNCHANGED <<evidence, states, submit_action_id, submitted_answer, visible>>

-----------------------------------------------------------------------------
(* Retrieval: search, open_page, read_evidence                              *)

Init ==
  /\ evidence = <<>>
  /\ states = <<>>
  /\ actions = <<>>
  /\ submit_action_id = 0
  /\ submitted_answer = NoAnswer
  /\ visible = <<>>

\* The retriever answers a query with any set of documents.
Search ==
  \E hits \in SUBSET Docs :
    /\ Cardinality({a \in ActionIds : actions[a].kind = "search" /\ actions[a].legal})
         < MaxSearches
    /\ Log([Action("search") EXCEPT !.active_gaps = GapIds(Current.gaps),
                                    !.hits = hits])
    /\ UNCHANGED <<evidence, states, submit_action_id, submitted_answer, visible>>

SearchRejected == Reject("search")   \* an empty query

\* Opening or reading Evidence e in action a puts its page in view; a new
\* TaskState takes every page out of view.
Show(e, a) == [x \in DOMAIN visible \cup {e} |-> IF x = e THEN a ELSE visible[x]]

\* defective: state changes leave the old pages in view
StillVisible == visible

NothingVisible == <<>>

\* defective: every page is archived anew
NoDuplicate(doc) == 0

\* The archived page with this source key and content hash, or 0.
FindEvidence(doc) ==
  IF \E e \in EvidenceIds : evidence[e].doc = doc
  THEN CHOOSE e \in EvidenceIds : evidence[e].doc = doc
  ELSE 0

CanOpen(doc, search) ==
  /\ search \in ActionIds
  /\ actions[search].kind = "search"
  /\ actions[search].legal
  /\ doc \in actions[search].hits
  /\ doc \notin EmptyDocs

OpenPage(doc, search) ==
  /\ CanOpen(doc, search)
  /\ LET opening == [Action("open_page") EXCEPT !.active_gaps = GapIds(Current.gaps),
                                                !.parents = {search}]
         known   == FindEvidence(doc)
         new     == Len(evidence) + 1
     IN \/ /\ known # 0
           /\ Log([opening EXCEPT !.referenced = {known}])
           /\ visible' = Show(known, NextAction)
           /\ UNCHANGED evidence
        \/ /\ known = 0
           /\ Log([opening EXCEPT !.created = {new}])
           /\ visible' = Show(new, NextAction)
           /\ evidence' = Append(evidence, [doc |-> doc, created_by |-> NextAction,
                                            search |-> search])
  /\ UNCHANGED <<states, submit_action_id, submitted_answer>>

OpenPageRejected == Reject("open_page")   \* e.g. a search id nobody issued

CanRead(e) == e \in DOMAIN Current.directory

ReadEvidence(e) ==
  /\ CanRead(e)
  /\ Log([Action("read_evidence") EXCEPT !.active_gaps = GapIds(Current.gaps),
                                         !.referenced = {e}])
  /\ visible' = Show(e, NextAction)
  /\ UNCHANGED <<evidence, states, submit_action_id, submitted_answer>>

ReadEvidenceRejected == Reject("read_evidence")   \* an id not in the directory

-----------------------------------------------------------------------------
(* update_state                                                             *)

Merge(old, patch) ==
  [e \in DOMAIN old \cup DOMAIN patch |->
     IF e \in DOMAIN patch THEN patch[e] ELSE old[e]]

\* defective: an edited finding does not count as changed
Added(old, new) == {e \in DOMAIN new : e \notin DOMAIN old}

Changed(old, new) == {e \in DOMAIN new : e \notin DOMAIN old \/ old[e] # new[e]}

\* defective: new Evidence may be left out of the directory
CanUpdatePartially(answer, patch, support) ==
  /\ Changed(Current.directory, patch) \subseteq DOMAIN visible
  /\ ToSet(support) \subseteq DOMAIN Merge(Current.directory, patch)
  /\ answer # NoAnswer => support # <<>>

CanUpdate(answer, patch, support) ==
  LET new == Merge(Current.directory, patch)
  IN /\ Changed(Current.directory, patch) \subseteq DOMAIN visible
     /\ DOMAIN new = EvidenceIds
     /\ ToSet(support) \subseteq DOMAIN new
     /\ answer # NoAnswer => support # <<>>

UpdateState(answer, patch, support) ==
  LET old     == Current
      new     == Merge(old.directory, patch)
      inputs  == [e \in Changed(old.directory, patch) |-> visible[e]]
      first   == states = <<>>
  IN /\ CanUpdate(answer, patch, support)
     /\ Log([Action("update_state") EXCEPT
               !.after           = Len(states) + 1,
               !.parents         = Range(inputs),
               !.referenced      = DOMAIN new,
               !.active_gaps     = GapIds(old.gaps),
               !.inputs          = inputs,
               !.changed         = Changed(old.directory, new),
               !.answer_changed  = first \/ old.answer # answer,
               !.support_changed = first \/ old.support # support])
     /\ states' = Append(states, [directory  |-> new,
                                  answer     |-> answer,
                                  support    |-> support,
                                  gaps       |-> old.gaps,
                                  status     |-> "unverified",
                                  created_by |-> NextAction])
     /\ visible' = NothingVisible
     /\ UNCHANGED <<evidence, submit_action_id, submitted_answer>>

\* e.g. an empty or over-long finding, an unknown or repeated Evidence id
UpdateStateRejected == Reject("update_state")

\* The arguments of update_state: a finding for some known Evidence, and a
\* list of Evidence without repetition.
Patches      == UNION {[ids -> Findings] : ids \in SUBSET EvidenceIds}
SupportLists == UNION {SetToSeqs(ids) : ids \in SUBSET EvidenceIds}

-----------------------------------------------------------------------------
(* verify_answer                                                            *)

CanVerify ==
  /\ states # <<>>
  /\ Missing = {}
  /\ Current.answer # NoAnswer
  /\ Current.support # <<>>
  /\ Current.status = "unverified"

\* The verdicts verify_answer accepts from its Verifier.
AcceptableVerdict(status, texts) ==
  /\ status = "supported" => texts = <<>>
  /\ status = "needs_revision" => texts # <<>>
  /\ Len(texts) <= MaxGaps

\* old_by_text: the last gap of the latest state with this description, or 0.
OldGap(text) ==
  LET same == {i \in DOMAIN Current.gaps : Current.gaps[i].text = text}
  IN IF same = {} THEN 0 ELSE Max(same)

\* A description already open keeps its gap; each other gets the next number.
GapsFor(texts) ==
  [i \in DOMAIN texts |->
     IF OldGap(texts[i]) # 0
     THEN Current.gaps[OldGap(texts[i])]
     ELSE [gap_id     |-> Cardinality(AllGapIds)
                           + Cardinality({k \in 1..i : OldGap(texts[k]) = 0}),
           text       |-> texts[i],
           created_by |-> NextAction]]

VerifyAnswer(status, texts) ==
  LET gaps    == GapsFor(texts)
      old_ids == GapIds(Current.gaps)
      new_ids == GapIds(gaps)
  IN /\ CanVerify
     /\ AcceptableVerdict(status, texts)
     /\ Log([Action("verify_answer") EXCEPT
               !.after         = Len(states) + 1,
               !.referenced    = ToSet(Current.support),
               !.active_gaps   = old_ids,
               !.created_gaps  = new_ids \ old_ids,
               !.resolved_gaps = old_ids \ new_ids])
     /\ states' = Append(states, [Current EXCEPT !.gaps = gaps,
                                                 !.status = status,
                                                 !.created_by = NextAction])
     /\ visible' = NothingVisible
     /\ UNCHANGED <<evidence, submit_action_id, submitted_answer>>

\* The state may not be verified, or the verdict is not acceptable
\* (a Verifier may always return too many gaps).
VerifyAnswerRejected == Reject("verify_answer")

GapLists == UNION {[1..n -> GapTexts] : n \in 0..MaxGaps}

-----------------------------------------------------------------------------
(* submit_answer                                                            *)

IsSubmitted == submit_action_id # 0

Submittable ==
  /\ Current.answer # NoAnswer
  /\ Current.support # <<>>
  /\ Current.gaps = <<>>
  /\ Current.status = "supported"

\* defective: submits again; submits although new pages are not indexed
CanResubmit        == states # <<>> /\ Missing = {} /\ Submittable
CanSubmitUnindexed == ~IsSubmitted /\ states # <<>> /\ Submittable

CanSubmit ==
  /\ ~IsSubmitted
  /\ states # <<>>
  /\ Missing = {}
  /\ Submittable

SubmitAnswer ==
  /\ CanSubmit
  /\ Log([Action("submit_answer") EXCEPT !.referenced = ToSet(Current.support)])
  /\ submit_action_id' = NextAction
  /\ submitted_answer' = Current.answer
  /\ UNCHANGED <<evidence, states, visible>>

SubmitAnswerRejected == ~CanSubmit /\ Reject("submit_answer")

-----------------------------------------------------------------------------
(* rebuild_context, and a new environment over the same store file: what    *)
(* the policy can see is forgotten, the tables stay.                        *)

ForgetVisible ==
  /\ visible' = NothingVisible
  /\ UNCHANGED store

Retrieve ==
  \/ Search
  \/ \E doc \in Docs, search \in ActionIds : OpenPage(doc, search)
  \/ \E e \in EvidenceIds : ReadEvidence(e)

Revise ==
  \/ \E answer \in Answers \cup {NoAnswer}, patch \in Patches,
        support \in SupportLists : UpdateState(answer, patch, support)
  \/ \E status \in Statuses, texts \in GapLists : VerifyAnswer(status, texts)
  \/ SubmitAnswer

Rejected ==
  \/ SearchRejected
  \/ OpenPageRejected
  \/ ReadEvidenceRejected
  \/ UpdateStateRejected
  \/ VerifyAnswerRejected
  \/ SubmitAnswerRejected

Next == Retrieve \/ Revise \/ Rejected \/ ForgetVisible

Spec == Init /\ [][Next]_vars

=============================================================================
