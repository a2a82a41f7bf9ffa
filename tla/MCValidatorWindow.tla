-------------------------- MODULE MCValidatorWindow --------------------------
(***************************************************************************)
(* Values of the constants of ValidatorWindow for TLC.                     *)
(***************************************************************************)
EXTENDS ValidatorWindow

CONSTANTS s1, s2, s3, s4

\* Four requests for two prompts: s1 and s2 race for prompt 1, s4 fails GRAIL.
MCSubmissions == {s1, s2, s3, s4}
\* Without s2, for the liveness properties.
MCFewSubmissions == {s1, s3, s4}
MCPrompts == {1, 2}
MCPromptIdx == [s \in Submissions |-> IF s \in {s1, s2} THEN 1 ELSE 2]
MCDefect == [s \in Submissions |-> IF s = s4 THEN "proof" ELSE "none"]

Symmetry == Permutations({s1, s2})
=============================================================================
