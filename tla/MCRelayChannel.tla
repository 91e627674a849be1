--------------------------- MODULE MCRelayChannel ---------------------------
(* Small instances of RelayChannel for TLC.                                *)
EXTENDS RelayChannel, TLC

\* The members of each set are interchangeable in every safety run.
Symmetries == Permutations(Calls) \cup Permutations(Tabs)
=============================================================================
