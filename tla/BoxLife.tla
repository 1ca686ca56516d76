------------------------------ MODULE BoxLife -------------------------------
(***************************************************************************)
(* What the multi-timeframe watchlist promises of a consolidation box,     *)
(* whoever evaluates it and however often: it becomes live once, and a box *)
(* that is confirmed or rejected stays so (the terminal states of          *)
(* signal_contract.py's ALLOWED_TRANSITIONS).                              *)
(***************************************************************************)
CONSTANT Box

VARIABLE life    \* [Box -> stage]

Stage == {"NONE", "LIVE", "CONFIRMED", "REJECTED"}

Next_of == [NONE      |-> {"LIVE"},
            LIVE      |-> {"CONFIRMED", "REJECTED"},
            CONFIRMED |-> {},
            REJECTED  |-> {}]

Init == life = [b \in Box |-> "NONE"]

Advance(b) == \E s \in Next_of[life[b]] : life' = [life EXCEPT ![b] = s]

Next == \E b \in Box : Advance(b)

Spec == Init /\ [][Next]_life
=============================================================================
