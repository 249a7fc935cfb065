------------------------------- MODULE Episode -------------------------------
(***************************************************************************)
(* What an ESR episode promises, without the ledger: pages are collected,   *)
(* a draft answer is revised, judged and submitted once.                    *)
(***************************************************************************)
CONSTANTS Pages, Answers, NoAnswer

VARIABLES
  archive,  \* the pages kept so far
  indexed,  \* the pages the current draft accounts for
  draft,    \* the current answer, NoAnswer if there is none
  verdict,  \* what the Verifier said of the draft
  open,     \* the gaps to close before the draft may be submitted
  issued,   \* every gap there ever was
  result    \* the submitted answer, NoAnswer until then

vars == <<archive, indexed, draft, verdict, open, issued, result>>

Init ==
  /\ archive = {} /\ indexed = {}
  /\ draft = NoAnswer /\ verdict = "unverified" /\ result = NoAnswer
  /\ open = {} /\ issued = {}

\* Complete: the draft is an answer that accounts for every page.
Complete == draft # NoAnswer /\ indexed = archive

Collect ==
  /\ \E page \in Pages \ archive : archive' = archive \cup {page}
  /\ UNCHANGED <<indexed, draft, verdict, open, issued, result>>

\* A revision must index the whole archive, and loses the verdict.
Revise ==
  /\ draft' \in Answers \cup {NoAnswer}
  /\ indexed' = archive
  /\ verdict' = "unverified"
  /\ UNCHANGED <<archive, open, issued, result>>

\* Only the Verifier opens and closes gaps; a gap it opens is a new one, and
\* the draft itself is not touched.
Judge ==
  /\ Complete /\ verdict = "unverified"
  /\ verdict' \in {"unverified", "supported", "needs_revision"}
  /\ verdict' = "supported" => open' = {}
  /\ verdict' = "needs_revision" => open' # {}
  /\ (open' \ open) \cap issued = {}
  /\ issued' = issued \cup open'
  /\ UNCHANGED <<archive, indexed, draft, result>>

Submit ==
  /\ result = NoAnswer
  /\ Complete /\ verdict = "supported" /\ open = {}
  /\ result' = draft
  /\ UNCHANGED <<archive, indexed, draft, verdict, open, issued>>

Next == Collect \/ Revise \/ Judge \/ Submit

Spec == Init /\ [][Next]_vars

=============================================================================
