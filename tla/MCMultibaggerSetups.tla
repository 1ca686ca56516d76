------------------------ MODULE MCMultibaggerSetups -------------------------
\* One symbol, whose setups no other symbol's depend on, over a few days.
EXTENDS MultibaggerSetups
CONSTANT s1

\* No action reads the date or the age of a row that is not armed, or more of a
\* candidate's record than its setup, and no property reads more of the dates that
\* a row was evaluated on than their number, unless it is armed: TLC need not
\* tell such states apart.
Shown(s, d) ==
    LET r == setup[s][d] IN
    IF r.state = "ARMED_BUY_ZONE" THEN <<r, seen[s][d]>>
    ELSE <<[r EXCEPT !.last = 0, !.age = 0],
           IF r.state \in {"TRIGGER_CANDIDATE", "ALERT_TRIGGERED"}
           THEN 1..Cardinality(seen[s][d]) ELSE {}>>
Known(w) == IF w.pc = "armed" THEN w ELSE <<w.pc, w.setup>>
Relevant == <<day, [s \in Symbol |-> [d \in Day |-> Shown(s, d)]],
              scanning, held, [s \in Symbol |-> Known(ev[s])],
              alerts, faults, blind>>
=============================================================================
