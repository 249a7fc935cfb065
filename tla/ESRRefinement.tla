---------------------------- MODULE ESRRefinement ----------------------------
(***************************************************************************)
(* ESREnvironment implements Episode: the tables give the collected pages,  *)
(* the draft, its verdict and gaps; rejected calls, searches, page views    *)
(* and a forgotten context are stutters.                                    *)
(***************************************************************************)
EXTENDS ESREnvironment

PagesOf(ids) == {evidence[e].doc : e \in ids}

Abstract == INSTANCE Episode WITH
  Pages   <- Docs \ EmptyDocs,
  archive <- PagesOf(EvidenceIds),
  indexed <- PagesOf(DOMAIN Current.directory),
  draft   <- Current.answer,
  verdict <- Current.status,
  open    <- GapIds(Current.gaps),
  issued  <- AllGapIds,
  result  <- submitted_answer

(* The environment keeps the episode's promises: an answer is submitted     *)
(* once, judged supported, with no gap open and every page accounted for;   *)
(* only a verify closes gaps, and a gap it opens never had a predecessor.   *)
ImplementsEpisode == Abstract!Spec

=============================================================================
