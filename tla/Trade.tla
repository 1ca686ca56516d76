------------------------------- MODULE Trade --------------------------------
(***************************************************************************)
(* What the performance tracker promises of one position: its exits come   *)
(* in order, what leaves the position is booked as sold, the last exit     *)
(* leaves nothing, the stop never moves back, and what is closed stays     *)
(* closed.  A position may be refused, and opened anew by hand.  When a    *)
(* write came from a stale copy nothing is known of it until then.         *)
(***************************************************************************)
EXTENDS Integers

VARIABLE trade

Ended == {"WIN", "LOSS"}

After == [OPEN          |-> {"PARTIAL_WIN_1", "LOSS"},
          PARTIAL_WIN_1 |-> {"PARTIAL_WIN_2"} \cup Ended,
          PARTIAL_WIN_2 |-> Ended]

Stage == DOMAIN After \cup Ended \cup {"REJECTED", "UNKNOWN"}

Position == [stage : Stage, bought : Nat, left : Nat, sold : Nat, stop : Nat]

Unknown == [stage |-> "UNKNOWN", bought |-> 0, left |-> 0, sold |-> 0, stop |-> 0]

Fresh == {t \in Position : t.stage = "OPEN" /\ t.left = t.bought /\ t.sold = 0}

Init == trade \in Fresh

\* One exit: some of what is left is sold, the last exit sells all of it.
Exit ==
    /\ trade.stage \in DOMAIN After
    /\ trade' \in Position
    /\ trade'.stage \in After[trade.stage]
    /\ trade'.bought = trade.bought
    /\ trade'.left <= trade.left
    /\ trade'.sold + trade'.left = trade.sold + trade.left
    /\ trade'.stage \in Ended => trade'.left = 0
    /\ trade'.stop >= trade.stop

\* A position followed for its stop alone ends without an exit being booked.
WriteOff ==
    /\ trade.stage = "OPEN"
    /\ trade' = [trade EXCEPT !.stage = "LOSS", !.left = 0]

Refuse ==
    /\ trade.stage # "UNKNOWN"
    /\ trade' = [trade EXCEPT !.stage = "REJECTED"]

Reopen == trade' \in Fresh

LoseTrack == trade' = Unknown

Next == Exit \/ WriteOff \/ Refuse \/ Reopen \/ LoseTrack

Spec == Init /\ [][Next]_trade
=============================================================================
