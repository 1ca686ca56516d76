-------------------------- MODULE MCAlertLifecycle --------------------------
(* Instances of AlertLifecycle for TLC.  Prices: 1 gaps below the stop at 2, *)
(* 4 is the entry, below the breakeven stop at 5, the targets are 6, 7, 8.   *)
EXTENDS AlertLifecycle, TLC

CONSTANTS p1, p2

TwoPasses == {p1, p2}
Symmetry == Permutations(TwoPasses)

Quotes == {1, 2, 6, 7, 8}
Flat == {FlatBar(8)}
Wide == {[open |-> 4, low |-> 2, high |-> 4], [open |-> 4, low |-> 4, high |-> 7]}
History == Flat \cup Wide
=============================================================================
