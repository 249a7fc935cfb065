---------------------------- MODULE MCAgentRunner ----------------------------
(* The turn loop with small sets for TLC.                                   *)
EXTENDS AgentRunner

\* Documents, answers, findings and gap descriptions are only compared.
Symmetry == UNION {Permutations(S) : S \in {Docs, Answers, Findings, GapTexts}}

=============================================================================
