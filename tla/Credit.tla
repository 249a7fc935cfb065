------------------------------- MODULE Credit -------------------------------
(***************************************************************************)
(* CreditRouter.structural_trace of src/esr_grpo/credit.py: which actions   *)
(* of a submitted episode the final TaskState is traced back to.  A         *)
(* candidate that may not exist is a set of at most one action.             *)
(***************************************************************************)
EXTENDS ESREnvironment

Legal         == {a \in ActionIds : actions[a].legal}
Updates       == {a \in Legal : actions[a].kind = "update_state"}
Verifications == {a \in Legal : actions[a].kind = "verify_answer"}

Eligible ==
  /\ states # <<>> /\ IsSubmitted
  /\ Current.status = "supported" /\ Current.gaps = <<>>
  /\ submit_action_id \in Legal

FirstOf(S) == IF S = {} THEN {} ELSE {Min(S)}
LastOf(S)  == IF S = {} THEN {} ELSE {Max(S)}

StateAt(v)     == IF v = 0 THEN NoState ELSE states[v]
StateBefore(a) == StateAt(actions[a].before)
StateAfter(a)  == StateAt(actions[a].after)

FinalSupport == ToSet(Current.support)

-----------------------------------------------------------------------------
(* The answer chain                                                         *)

FinalVerify == {Current.created_by} \cap Verifications

HasFinalContent(s) ==
  /\ s.answer = Current.answer
  /\ s.support = Current.support
  /\ s.directory = Current.directory

FinalAnswerUpdate == LastOf({u \in Updates : HasFinalContent(StateAfter(u))})

-----------------------------------------------------------------------------
(* The evidence chain of Evidence e of the final support                    *)

HasFinalFinding(s, e) ==
  e \in DOMAIN s.directory /\ s.directory[e] = Current.directory[e]

FindingWriter(e) ==
  LastOf({u \in Updates : /\ HasFinalFinding(StateAfter(u), e)
                          /\ ~HasFinalFinding(StateBefore(u), e)})

\* defective: every page the writer used is credited; the page is credited
\* for its latest view, not for the one the finding was written from
WriterSources(e) == UNION {actions[u].parents : u \in FindingWriter(e)}
LatestView(e) ==
  LastOf({a \in Legal : /\ actions[a].kind \in {"open_page", "read_evidence"}
                        /\ e \in actions[a].created \cup actions[a].referenced})

FindingSource(e) ==
  {a \in Legal : /\ actions[a].kind \in {"open_page", "read_evidence"}
                 /\ \E u \in FindingWriter(e) :
                      e \in DOMAIN actions[u].inputs /\ actions[u].inputs[e] = a}

SupportWriter(e) ==
  LastOf({u \in Updates : /\ e \in ToSet(StateAfter(u).support)
                          /\ e \notin ToSet(StateBefore(u).support)})

\* defective: the search behind the page is forgotten
OpeningOnly(e) == {evidence[e].created_by} \cap Legal

Retrieval(e) == {evidence[e].created_by, evidence[e].search} \cap Legal

EvidenceChain(e) ==
  Retrieval(e) \cup FindingWriter(e) \cup FindingSource(e) \cup SupportWriter(e)

-----------------------------------------------------------------------------
(* The gap chain: a verify that left gaps open, the first later verify that *)
(* resolved one of them, and what happened between them and survived.       *)

SurvivesFinal(a) ==
  \/ /\ actions[a].kind = "update_state"
     /\ \/ actions[a].answer_changed /\ StateAfter(a).answer = Current.answer
        \/ /\ actions[a].support_changed
           /\ ToSet(StateAfter(a).support) \cap FinalSupport # {}
        \/ \E e \in actions[a].changed : HasFinalFinding(StateAfter(a), e)
  \/ /\ actions[a].kind \in {"open_page", "read_evidence"}
     /\ (actions[a].created \cup actions[a].referenced) \cap FinalSupport # {}
  \/ /\ actions[a].kind = "search"
     /\ \E e \in FinalSupport : evidence[e].search = a

GapsAfter(a) == actions[a].created_gaps \cup GapIds(StateAfter(a).gaps)

ResolvedBy(start) ==
  FirstOf({v \in Verifications :
             v > start /\ GapsAfter(start) \cap actions[v].resolved_gaps # {}})

\* defective: the interval does not end at the resolving verify
AfterStart(start) ==
  {a \in Legal : SurvivesFinal(a) /\ ResolvedBy(start) # {} /\ start < a}

\* defective: only updates count as resolving a gap
UpdatesBetween(start) ==
  {a \in Updates : /\ SurvivesFinal(a)
                   /\ \E v \in ResolvedBy(start) : start < a /\ a < v}

Between(start) ==
  {a \in Legal : /\ SurvivesFinal(a)
                 /\ \E v \in ResolvedBy(start) : start < a /\ a < v}

GapChain(start) ==
  IF Between(start) = {} THEN {}
  ELSE {start} \cup Between(start) \cup ResolvedBy(start)

-----------------------------------------------------------------------------
SelectedActions ==
  IF ~Eligible THEN {}
  ELSE {submit_action_id} \cup FinalVerify \cup FinalAnswerUpdate
         \cup (UNION {EvidenceChain(e) : e \in FinalSupport})
         \cup (UNION {GapChain(start) : start \in Verifications})

(* The credited answer chain is the one that counted: the latest update of  *)
(* the episode, although the router looks it up by content, then the verify *)
(* that judged it, with no update between them.                             *)
AnswerChainIsTheLatest ==
  Eligible =>
    /\ FinalAnswerUpdate = {Max(Updates)}
    /\ FinalVerify = {Max(Verifications)}
    /\ Max(Updates) < Max(Verifications)

(* For each Evidence of the final support the whole chain search,           *)
(* open_page, the view the finding was written from, the update that wrote  *)
(* it is credited, and in that order: no link is missing because the router *)
(* fell back to None.                                                       *)
EvidenceChainIsComplete ==
  Eligible =>
    \A e \in FinalSupport :
      \E search, opening, source, writer, adopter \in SelectedActions :
        /\ search = evidence[e].search /\ actions[search].kind = "search"
        /\ opening = evidence[e].created_by /\ e \in actions[opening].created
        /\ FindingSource(e) = {source} /\ FindingWriter(e) = {writer}
        /\ SupportWriter(e) = {adopter}
        /\ search < opening /\ opening <= source /\ source < writer
        /\ writer <= Max(FinalAnswerUpdate) /\ adopter <= Max(FinalAnswerUpdate)

(* Work done while a gap was open and kept in the final state is credited:  *)
(* the ledger says which gaps were open at an action, the router finds out  *)
(* by pairing verifies, and the two agree.                                  *)
SurvivingRepairsAreCredited ==
  Eligible =>
    \A a \in Legal :
      actions[a].active_gaps # {} /\ SurvivesFinal(a) => a \in SelectedActions

(* A retrieval action is credited only for Evidence of the final support:   *)
(* pages opened in the same turn or the same interval and not used get      *)
(* nothing (docs/architecture.md, section 5).                               *)
UnusedRetrievalIsNotCredited ==
  \A a \in SelectedActions :
    /\ actions[a].kind \in {"open_page", "read_evidence"}
         => \E e \in FinalSupport : e \in actions[a].created \cup actions[a].referenced
    /\ actions[a].kind = "search" => \E e \in FinalSupport : evidence[e].search = a

(* Nothing after the submit is credited, as long as no later update or      *)
(* verify replaced the submitted state.                                     *)
CreditStopsAtSubmit ==
  (Eligible /\ Len(states) = actions[submit_action_id].before)
    => \A a \in SelectedActions : a <= submit_action_id

(* Credit depends on the ledger only through the states: whatever is        *)
(* searched, opened, read or rejected after the submit, the credited set    *)
(* stays the same.                                                          *)
CreditIsSettled ==
  [][IsSubmitted /\ UNCHANGED states => UNCHANGED SelectedActions]_vars

=============================================================================
