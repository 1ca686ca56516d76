--------------------------- MODULE MCMtfWatchlist ---------------------------
(* An instance of MtfWatchlist for TLC: two boxes of one symbol. *)
EXTENDS MtfWatchlist

CONSTANTS b1, b2

TwoBoxes == {b1, b2}
=============================================================================
