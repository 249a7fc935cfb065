------------------------- MODULE MCESREnvironment -------------------------
(* The environment with its safety properties, the audit, the credit router *)
(* and the abstract episode, with small sets for TLC.                       *)
EXTENDS ESRSafety, EpisodeAudit, Credit, ESRRefinement

\* Documents, answers, findings and gap descriptions are only compared.
Symmetry == UNION {Permutations(S) : S \in {Docs \ (EmptyDocs \cup BlankDocs), Answers, Findings, GapTexts}}

=============================================================================
