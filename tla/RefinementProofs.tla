-------------------------- MODULE RefinementProofs --------------------------
(***************************************************************************)
(* The environment implements Episode for every value of the constants:     *)
(* each of its steps is a step of the episode, or leaves it as it is.       *)
(***************************************************************************)
EXTENDS ESRRefinement, ESRSafetyProofs, SequenceTheorems

(* An answer is recorded only with the submit. *)
AnswerComesWithSubmit == IsSubmitted \/ submitted_answer = NoAnswer

Refines == Gapped /\ AnswerComesWithSubmit

EpisodeStep == Abstract!Next \/ UNCHANGED Abstract!vars

-----------------------------------------------------------------------------
(* The tables and the episode                                               *)

LEMMA IndexedIsArchived ==
  ASSUME TypeOK
  PROVE  DOMAIN Current.directory \subseteq EvidenceIds
<1>1. Current \in TaskState
  BY CurrentIsTaskState
<1> QED
  BY <1>1 DEF TaskState, PartialFunctions

LEMMA CoveredIsIndexed ==
  ASSUME TypeOK, Missing = {}
  PROVE  PagesOf(DOMAIN Current.directory) = PagesOf(EvidenceIds)
<1>1. DOMAIN Current.directory = EvidenceIds
  BY IndexedIsArchived DEF Missing
<1> QED
  BY <1>1

(* What the episode sees of the states. *)
LEMMA SameStatesSameDraft ==
  ASSUME states' = states
  PROVE  /\ Current' = Current /\ AllGapIds' = AllGapIds
         /\ GapIds(Current.gaps)' = GapIds(Current.gaps)
BY DEF Current, AllGapIds, Versions, GapIds

LEMMA SameTablesStutter ==
  ASSUME evidence' = evidence, states' = states, submitted_answer' = submitted_answer
  PROVE  UNCHANGED Abstract!vars
<1>1. PagesOf(EvidenceIds)' = PagesOf(EvidenceIds)
  BY DEF PagesOf, EvidenceIds
<1>2. PagesOf(DOMAIN Current.directory)' = PagesOf(DOMAIN Current.directory)
  BY SameStatesSameDraft DEF PagesOf
<1> QED
  BY <1>1, <1>2, SameStatesSameDraft DEF Abstract!vars

-----------------------------------------------------------------------------
(* Each call                                                                *)

LEMMA OpenPageCollects ==
  ASSUME TypeOK, NEW doc \in Docs, NEW search, OpenPage(doc, search)
  PROVE  EpisodeStep
<1>1. states' = states /\ submitted_answer' = submitted_answer /\ doc \notin EmptyDocs
  BY DEF OpenPage, CanOpen
<1>2. CASE evidence' = evidence
  BY <1>1, <1>2, SameTablesStutter DEF EpisodeStep
<1>3. CASE evidence' # evidence
  <2> PICK new : new = Len(evidence) + 1
    OBVIOUS
  <2>1. /\ EvidenceIds' = EvidenceIds \cup {new} /\ evidence'[new].doc = doc
        /\ \A e \in EvidenceIds : evidence'[e] = evidence[e] /\ evidence[e].doc # doc
    BY <1>3, OpenPageArchives
  <2>2. PagesOf(EvidenceIds)' = PagesOf(EvidenceIds) \cup {doc}
    BY <2>1 DEF PagesOf
  <2>3. doc \notin PagesOf(EvidenceIds)
    BY <2>1 DEF PagesOf
  <2>4. PagesOf(DOMAIN Current.directory)' = PagesOf(DOMAIN Current.directory)
    <3>1. \A e \in DOMAIN Current.directory : evidence'[e] = evidence[e]
      BY <2>1, IndexedIsArchived
    <3>2. Current' = Current
      BY <1>1, SameStatesSameDraft
    <3> QED
      BY <3>1, <3>2 DEF PagesOf
  <2>5. Abstract!Collect
    BY <1>1, <2>2, <2>3, <2>4, SameStatesSameDraft DEF Abstract!Collect
  <2> QED
    BY <2>5 DEF Abstract!Next, EpisodeStep
<1> QED
  BY <1>2, <1>3

LEMMA UpdateRevises ==
  ASSUME TypeOK, NEW answer \in Answers \cup {NoAnswer}, NEW patch, NEW support,
         UpdateState(answer, patch, support)
  PROVE  EpisodeStep
<1> DEFINE state == [directory  |-> Merge(Current.directory, patch),
                     answer     |-> answer,
                     support    |-> support,
                     gaps       |-> Current.gaps,
                     status     |-> "unverified",
                     created_by |-> NextAction]
<1>1. /\ states' = Append(states, state) /\ CanUpdate(answer, patch, support)
      /\ evidence' = evidence /\ submitted_answer' = submitted_answer
  BY DEF UpdateState
<1>2. /\ state.answer = answer /\ state.status = "unverified" /\ state.gaps = Current.gaps
      /\ DOMAIN state.directory = EvidenceIds
  BY <1>1 DEF CanUpdate
<1> HIDE DEF state
<1>3. Current' = state /\ AllGapIds' = AllGapIds \cup GapIds(state.gaps)
  BY <1>1, NewVersion
<1>4. GapIds(Current.gaps)' = GapIds(Current.gaps)
  BY <1>2, <1>3 DEF GapIds
<1>5. AllGapIds' = AllGapIds
  BY <1>2, <1>3, OpenGapsAreIssued
<1>6. /\ PagesOf(EvidenceIds)' = PagesOf(EvidenceIds)
      /\ PagesOf(DOMAIN Current.directory)' = PagesOf(EvidenceIds)
  BY <1>1, <1>2, <1>3 DEF PagesOf, EvidenceIds
<1>7. Current.answer' = answer /\ Current.status' = "unverified"
  BY <1>2, <1>3
<1>8. Abstract!Revise
  BY <1>1, <1>4, <1>5, <1>6, <1>7 DEF Abstract!Revise
<1> QED
  BY <1>8 DEF Abstract!Next, EpisodeStep

LEMMA VerifyJudges ==
  ASSUME Gapped, NEW status \in Statuses, NEW texts \in GapLists, VerifyAnswer(status, texts)
  PROVE  EpisodeStep
<1> DEFINE gaps  == GapsFor(texts)
           state == [Current EXCEPT !.gaps = gaps, !.status = status, !.created_by = NextAction]
<1>1. /\ CanVerify /\ AcceptableVerdict(status, texts) /\ states' = Append(states, state)
      /\ evidence' = evidence /\ submitted_answer' = submitted_answer
  BY DEF VerifyAnswer
<1>2. PICK n \in Nat : texts \in [1..n -> GapTexts]
  BY BoundsAssumption DEF GapLists
<1>3. NumbersGaps(gaps) /\ DOMAIN gaps = 1..n
  BY <1>2, VerdictNumbersGaps DEF Gapped
<1>4. /\ state.answer = Current.answer /\ state.status = status /\ state.gaps = gaps
      /\ state.directory = Current.directory
  <2>1. Current \in TaskState
    BY CurrentIsTaskState DEF Gapped
  <2> QED
    BY <2>1 DEF TaskState
<1> HIDE DEF state, gaps
<1>5. Current' = state /\ AllGapIds' = AllGapIds \cup GapIds(gaps)
  BY <1>1, <1>4, NewVersion DEF Gapped
<1>6. GapIds(Current.gaps)' = GapIds(gaps)
  BY <1>4, <1>5 DEF GapIds
<1>7. /\ PagesOf(EvidenceIds)' = PagesOf(EvidenceIds)
      /\ PagesOf(DOMAIN Current.directory)' = PagesOf(DOMAIN Current.directory)
  BY <1>1, <1>4, <1>5 DEF PagesOf, EvidenceIds
<1>8. Current.answer' = Current.answer /\ Current.status' = status
  BY <1>4, <1>5
<1>9. Abstract!Complete /\ Current.status = "unverified"
  BY <1>1, CoveredIsIndexed DEF CanVerify, Abstract!Complete, Gapped
<1>10. status = "supported" => GapIds(gaps) = {}
  <2>1. status = "supported" => DOMAIN texts = {}
    BY <1>1 DEF AcceptableVerdict
  <2> QED
    BY <1>2, <1>3, <2>1 DEF GapIds
<1>11. status = "needs_revision" => GapIds(gaps) # {}
  <2> HAVE status = "needs_revision"
  <2>1. texts # <<>> /\ texts \in Seq(GapTexts) /\ Len(texts) = n
    BY <1>1, <1>2 DEF AcceptableVerdict
  <2>2. n # 0
    BY <2>1, EmptySeq
  <2>3. 1 \in DOMAIN gaps
    BY <1>2, <1>3, <2>2
  <2> QED
    BY <2>3 DEF GapIds
<1>12. (GapIds(gaps) \ GapIds(Current.gaps)) \cap AllGapIds = {}
  <2> SUFFICES ASSUME NEW i \in DOMAIN gaps, gaps[i].gap_id \in AllGapIds
               PROVE  gaps[i].gap_id \in GapIds(Current.gaps)
    BY DEF GapIds
  <2>1. Kept(gaps[i])
    BY <1>3, FreshIsUnissued DEF NumbersGaps, Gapped
  <2> QED
    BY <2>1 DEF Kept, GapIds
<1>13. Abstract!Judge
  BY <1>1, <1>5, <1>6, <1>7, <1>8, <1>9, <1>10, <1>11, <1>12 DEF Abstract!Judge, Statuses
<1> QED
  BY <1>13 DEF Abstract!Next, EpisodeStep

LEMMA SubmitSubmits ==
  ASSUME Refines, SubmitAnswer
  PROVE  EpisodeStep
<1>1. /\ CanSubmit /\ submitted_answer' = Current.answer
      /\ evidence' = evidence /\ states' = states
  BY DEF SubmitAnswer
<1>2. Abstract!Complete /\ Current.status = "supported" /\ GapIds(Current.gaps) = {}
  BY <1>1, CoveredIsIndexed DEF CanSubmit, Submittable, Abstract!Complete, GapIds, Refines, Gapped
<1>3. submitted_answer = NoAnswer
  BY <1>1 DEF CanSubmit, Refines, AnswerComesWithSubmit
<1>4. /\ PagesOf(EvidenceIds)' = PagesOf(EvidenceIds)
      /\ PagesOf(DOMAIN Current.directory)' = PagesOf(DOMAIN Current.directory)
  BY <1>1, SameStatesSameDraft DEF PagesOf, EvidenceIds
<1>5. Abstract!Submit
  BY <1>1, <1>2, <1>3, <1>4, SameStatesSameDraft DEF Abstract!Submit
<1> QED
  BY <1>5 DEF Abstract!Next, EpisodeStep

-----------------------------------------------------------------------------
(* The refinement                                                           *)

LEMMA NextIsEpisodeStep ==
  ASSUME Refines, Next
  PROVE  EpisodeStep
<1>1. CASE Search
  BY <1>1, SearchLogs, SameTablesStutter DEF EpisodeStep
<1>2. ASSUME NEW e, ReadEvidence(e) PROVE EpisodeStep
  BY <1>2, ReadEvidenceLogs, SameTablesStutter DEF EpisodeStep
<1>3. ASSUME NEW kind, Reject(kind) PROVE EpisodeStep
  BY <1>3, RejectLogs, SameTablesStutter DEF EpisodeStep
<1>4. CASE ForgetVisible
  BY <1>4, SameTablesStutter DEF ForgetVisible, store, EpisodeStep
<1>5. CASE Retrieve
  BY <1>1, <1>2, <1>5, OpenPageCollects DEF Retrieve, Refines, Gapped
<1>6. CASE Revise
  BY <1>6, UpdateRevises, VerifyJudges, SubmitSubmits DEF Revise, Refines, Gapped
<1>7. CASE Rejected
  BY <1>3, <1>7 DEF Rejected, SearchRejected, OpenPageRejected, ReadEvidenceRejected,
                    UpdateStateRejected, VerifyAnswerRejected, SubmitAnswerRejected
<1> QED
  BY <1>4, <1>5, <1>6, <1>7 DEF Next

LEMMA NextKeepsAnswer ==
  ASSUME Refines, Next
  PROVE  AnswerComesWithSubmit'
<1>1. CASE SubmitAnswer
  <2>1. submit_action_id' = NextAction /\ NextAction # 0
    BY <1>1, LedgerSubsets, Tables DEF SubmitAnswer, NextAction, Refines, Gapped
  <2> QED
    BY <2>1 DEF AnswerComesWithSubmit, IsSubmitted
<1>2. CASE submit_action_id' = submit_action_id /\ submitted_answer' = submitted_answer
  BY <1>2 DEF AnswerComesWithSubmit, IsSubmitted, Refines
<1>3. CASE Retrieve
  BY <1>2, <1>3, SearchLogs, OpenPageLogs, ReadEvidenceLogs DEF Retrieve
<1>4. CASE Revise
  BY <1>1, <1>2, <1>4, UpdateStateLogs, VerifyAnswerLogs DEF Revise
<1>5. CASE Rejected
  BY <1>2, <1>5, RejectLogs
     DEF Rejected, SearchRejected, OpenPageRejected, ReadEvidenceRejected,
         UpdateStateRejected, VerifyAnswerRejected, SubmitAnswerRejected
<1>6. CASE ForgetVisible
  BY <1>2, <1>6 DEF ForgetVisible, store
<1> QED
  BY <1>3, <1>4, <1>5, <1>6 DEF Next

(* The environment keeps every promise of the episode: an answer is         *)
(* submitted once, judged supported, with no gap open and every archived    *)
(* page accounted for; only a verdict closes gaps, and a gap it opens never *)
(* had its id before.                                                       *)
THEOREM EnvironmentImplementsEpisode == Spec => ImplementsEpisode
<1>1. Init => Abstract!Init
  <2> SUFFICES ASSUME Init PROVE Abstract!Init
    OBVIOUS
  <2>1. EvidenceIds = {} /\ Versions = {} /\ Current = NoState /\ submitted_answer = NoAnswer
    BY DEF Init, EvidenceIds, Versions, Current
  <2>2. AllGapIds = {}
    BY <2>1 DEF AllGapIds
  <2>3. /\ Current.answer = NoAnswer /\ Current.status = "unverified"
        /\ DOMAIN Current.directory = {} /\ GapIds(Current.gaps) = {}
    BY <2>1 DEF NoState, GapIds
  <2>4. PagesOf(EvidenceIds) = {} /\ PagesOf(DOMAIN Current.directory) = {}
    BY <2>1, <2>3 DEF PagesOf
  <2> QED
    BY <2>1, <2>2, <2>3, <2>4 DEF Abstract!Init
<1>2. Init => AnswerComesWithSubmit
  BY DEF Init, AnswerComesWithSubmit
<1>3. Gapped /\ AnswerComesWithSubmit /\ [Next]_vars =>
        AnswerComesWithSubmit' /\ [Abstract!Next]_(Abstract!vars)
  <2>1. ASSUME Refines, Next PROVE AnswerComesWithSubmit' /\ [Abstract!Next]_(Abstract!vars)
    BY <2>1, NextKeepsAnswer, NextIsEpisodeStep DEF EpisodeStep
  <2>2. ASSUME Refines, UNCHANGED vars
        PROVE  AnswerComesWithSubmit' /\ [Abstract!Next]_(Abstract!vars)
    <3>1. /\ evidence' = evidence /\ states' = states /\ submitted_answer' = submitted_answer
          /\ submit_action_id' = submit_action_id
      BY <2>2 DEF vars, store
    <3>2. AnswerComesWithSubmit'
      BY <2>2, <3>1 DEF AnswerComesWithSubmit, IsSubmitted, Refines
    <3> QED
      BY <3>1, <3>2, SameTablesStutter
  <2> QED
    BY <2>1, <2>2 DEF Refines
<1> QED
  BY <1>1, <1>2, <1>3, GappedInductive, PTL DEF Spec, ImplementsEpisode, Abstract!Spec

=============================================================================
