---------------------------- MODULE MCChangeMoves ----------------------------
(* Small instances of ChangeMoves for TLC.                                 *)
EXTENDS ChangeMoves, TLC

CONSTANTS b1, b2, b3, chgA, chgB

\* b1 and b2 move one change, b2 at a later moment; b3 moves another one.
MCChangeOf == (b1 :> chgA) @@ (b2 :> chgA) @@ (b3 :> chgB)
MCDueAt    == (b1 :> 0) @@ (b2 :> 1) @@ (b3 :> 0)
MCBookings == {b1, b2, b3}

\* Only the pair for one change.
PairBookings == {b1, b2}
PairChangeOf == (b1 :> chgA) @@ (b2 :> chgA)
PairDueAt    == (b1 :> 0) @@ (b2 :> 1)
=============================================================================
