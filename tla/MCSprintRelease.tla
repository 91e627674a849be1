---------------------------- MODULE MCSprintRelease ----------------------------
(* Two dev issues, one of them config-only, a fix version with an active sprint *)
(* and one without a sprint, an intake and a sprint issue that is not ready,    *)
(* over three moments, each a poll interval, with two cycles at a time.         *)
EXTENDS SprintRelease, TLC

CONSTANTS dev1, config1, v1, v2, d1, d2, qe1, s1, c1, c2

\* The intake is about the issue that is handed over with a comment.
TheirOriginal == [i \in Intakes |-> dev1]

\* Cycles are told apart by nothing but their names.
Interchangeable == Permutations(Cycles)
=============================================================================
