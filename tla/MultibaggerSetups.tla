-------------------------- MODULE MultibaggerSetups --------------------------
(***************************************************************************)
(* The multibagger scanner's setups (multibagger_state_machine) and the    *)
(* part of its scan that moves them: a symbol in its buy zone is armed, or *)
(* its armed setup is found; the setup is evaluated, and invalidated, left *)
(* armed or made a trigger candidate; when all symbols are evaluated, the  *)
(* candidates become alerts, and their setups are marked.                  *)
(*                                                                         *)
(* One scan runs at a time (ProcessLock), and a scan evaluates a symbol    *)
(* once.  What is hard is that every read and write may fail and is        *)
(* swallowed, that a setup's id is its trading date, so that a second scan *)
(* on the date meets the same row again, and that trading dates go back    *)
(* and forth while the day's bar is not closed.                            *)
(*                                                                         *)
(* Abstracted: prices, fundamentals and scores (any verdict they may give);*)
(* the four INVALIDATED states are one.                                     *)
(***************************************************************************)
EXTENDS Integers, FiniteSets

CONSTANTS
    Symbol,
    MaxAge,   \* MAX_ARMED_SESSIONS
    LastDay,  \* bound on the trading days
    MaxFaults \* bound on the reads and writes that fail, and on crashes

ASSUME SetupAssumption == MaxAge \in Nat /\ LastDay \in Nat /\ MaxFaults \in Nat

VARIABLES
    day,       \* today
    setup,     \* [Symbol -> [Day -> row of multibagger_state armed on that date]]
    scanning,
    held,      \* open_symbols, as the scan read it
    ev,        \* [Symbol -> where the scan is with it, and the record it works on]
    open,      \* [Symbol -> its alerts of the scanner that are OPEN]
    review,    \* [Symbol -> its alerts of the scanner that are in SELL_REVIEW]
    faults,    \* reads and writes that failed, and crashes
    blind,     \* history: symbols whose armed setup was not seen, as the read failed
    seen       \* history: [Symbol -> [Day -> the trading dates that the setup has been
               \* evaluated on since it was armed]]

alerts == <<open, review>>
vars == <<day, setup, scanning, held, ev, alerts, faults, blind, seen>>

Day == 0..LastDay
Dead == {"INVALIDATED", "ALERT_TRIGGERED"}
Row == [state : {"none", "ARMED_BUY_ZONE", "TRIGGER_CANDIDATE"} \cup Dead,
        age : Nat,    \* age_sessions
        last : Day,   \* last_evaluated_trade_date
        order : Nat]  \* armed_at
NoRow == [state |-> "none", age |-> 0, last |-> 0, order |-> 0]

\* setup, age and last are what arm_setup returned; on is the prices' trading date.
Work == [pc : {"ready", "armed", "candidate", "inserted", "done"},
         setup : Day, age : Nat, last : Day, on : Day]
Done == [pc |-> "done", setup |-> 0, age |-> 0, last |-> 0, on |-> 0]
Ready == [pc |-> "ready", setup |-> 0, age |-> 0, last |-> 0, on |-> 0]

TypeOK ==
    /\ day \in Day
    /\ setup \in [Symbol -> [Day -> Row]]
    /\ scanning \in BOOLEAN
    /\ held \subseteq Symbol
    /\ ev \in [Symbol -> Work]
    /\ open \in [Symbol -> Nat]
    /\ review \in [Symbol -> Nat]
    /\ faults \in Nat
    /\ blind \subseteq Symbol
    /\ seen \in [Symbol -> [Day -> SUBSET Day]]

Init ==
    /\ day = 0
    /\ setup = [s \in Symbol |-> [d \in Day |-> NoRow]]
    /\ scanning = FALSE
    /\ held = {}
    /\ ev = [s \in Symbol |-> Done]
    /\ open = [s \in Symbol |-> 0]
    /\ review = [s \in Symbol |-> 0]
    /\ faults = 0
    /\ blind = {}
    /\ seen = [s \in Symbol |-> [d \in Day |-> {}]]

Armed(s, d) == setup[s][d].state = "ARMED_BUY_ZONE"
At(s, l) == ev[s].pc = l

\* A read or write of the setups, a crash: an exception is logged and swallowed.
Works == UNCHANGED faults
Fails == faults < MaxFaults /\ faults' = faults + 1

\* The bar of the day before passes as fresh until the market closes.
TradeDate == Day \cap {day - 1, day}

\* Mutant of Held: an alert in review is no position.
HeldOpen == {s \in Symbol : open[s] > 0}

Held == {s \in Symbol : open[s] + review[s] > 0}

\* The query for OPEN and SELL_REVIEW alerts may fail, and then nothing counts as held.
Start ==
    /\ ~scanning
    /\ scanning' = TRUE
    /\ \/ held' = Held /\ Works
       \/ held' = {} /\ Fails
    /\ ev' = [s \in Symbol |-> Ready]
    /\ UNCHANGED <<day, setup, alerts, blind, seen>>

\* The symbol is stale, illiquid, of low quality, or not in its buy zone.
Skip(s) ==
    /\ At(s, "ready")
    /\ ev' = [ev EXCEPT ![s] = Done]
    /\ UNCHANGED <<day, setup, scanning, held, alerts, blind, seen, faults>>

(***************************************************************************)
(* arm_setup.  It returns the record it read, or the one it tried to write *)
(***************************************************************************)

\* get_active_armed_setups, and its first row.
Newest(s, d) ==
    /\ Armed(s, d)
    /\ \A e \in Day : Armed(s, e) => setup[s][e].order <= setup[s][d].order

Record(s, d, age, last, t) ==
    ev' = [ev EXCEPT ![s] = [pc |-> "armed", setup |-> d, age |-> age, last |-> last, on |-> t]]

\* Mutant of Refresh: the record is the row as it has been updated.
RefreshReturning(s, d, t) ==
    /\ At(s, "ready")
    /\ Newest(s, d)
    /\ Record(s, d, setup[s][d].age, t, t)
    /\ setup' = [setup EXCEPT ![s][d].last = t] /\ Works
    /\ UNCHANGED <<day, scanning, held, alerts, blind, seen>>

\* ALREADY_ARMED.  The row's date is moved on, the record keeps the one it had.
Refresh(s, d, t) ==
    /\ At(s, "ready")
    /\ Newest(s, d)
    /\ Record(s, d, setup[s][d].age, setup[s][d].last, t)
    /\ \/ setup' = [setup EXCEPT ![s][d].last = t] /\ Works
       \/ UNCHANGED setup /\ Fails
    /\ UNCHANGED <<day, scanning, held, alerts, blind, seen>>

\* Mutant of Unarmed: an armed setup of another date is overlooked.
UnarmedToday(s) == \A t \in TradeDate : ~Armed(s, t)

Unarmed(s) == \A d \in Day : ~Armed(s, d)

\* The row of the date is inserted; when the date has one, that keeps its state.
Upsert(s, t) ==
    \/ /\ setup[s][t].state = "none"
       /\ setup' = [setup EXCEPT ![s][t] =
            [state |-> "ARMED_BUY_ZONE", age |-> 0, last |-> t,
             order |-> Cardinality({d \in Day : setup[s][d].state # "none"})]]
    \/ /\ setup[s][t].state # "none"
       /\ setup' = [setup EXCEPT ![s][t].last = t]

\* ARMED_SUCCESS, whether the row could be written or not.
Begin(s, t) == Record(s, t, 0, t, t) /\ seen' = [seen EXCEPT ![s][t] = {}]

Arm(s, t) ==
    /\ At(s, "ready")
    /\ Unarmed(s)
    /\ Begin(s, t)
    /\ \/ Upsert(s, t) /\ Works
       \/ UNCHANGED setup /\ Fails
    /\ UNCHANGED <<day, scanning, held, alerts, blind>>

\* The read of the armed setups fails, and counts as none.
ArmBlind(s, t) ==
    /\ At(s, "ready")
    /\ Fails
    /\ blind' = blind \cup {s}
    /\ Begin(s, t)
    /\ \/ Upsert(s, t)
       \/ UNCHANGED setup
    /\ UNCHANGED <<day, scanning, held, alerts>>

(***************************************************************************)
(* evaluate_armed_trigger                                                  *)
(***************************************************************************)

\* Mutant of Age: the days between the dates are counted.
AgeByDays(s) == ev[s].age + ev[s].on - ev[s].last

\* A session more when the trading date is another, be it an earlier one.
Age(s) == IF ev[s].last # ev[s].on THEN ev[s].age + 1 ELSE ev[s].age

\* Support, fundamentals or price invalidate a setup at any age; one that is too old
\* does not get past that.
Verdict(s) ==
    {"INVALIDATED"} \cup (IF Age(s) > MaxAge THEN {} ELSE {"TRIGGER_CANDIDATE", "ARMED_BUY_ZONE"})

\* The row is overwritten whatever its state has become, if there is a row and
\* the write does not fail.  A symbol that is held is no candidate.
Evaluate(s) ==
    LET d == ev[s].setup
        exists == setup[s][d].state # "none" IN
    /\ At(s, "armed")
    /\ \E v \in Verdict(s) :
         /\ \/ /\ exists
               /\ setup' = [setup EXCEPT ![s][d] =
                    [state |-> v, age |-> Age(s), last |-> ev[s].on, order |-> setup[s][d].order]]
               /\ Works
            \/ ~exists /\ UNCHANGED setup /\ Works
            \/ UNCHANGED setup /\ Fails
         /\ ev' = [ev EXCEPT ![s] =
                     IF v = "TRIGGER_CANDIDATE" /\ s \notin held THEN [@ EXCEPT !.pc = "candidate"] ELSE Done]
    /\ seen' = [seen EXCEPT ![s][d] = IF exists THEN @ \cup {ev[s].on} ELSE @]
    /\ UNCHANGED <<day, scanning, held, alerts, blind>>

(***************************************************************************)
(* The candidates, once all symbols are evaluated                          *)
(***************************************************************************)
Selecting == \A s \in Symbol : ~At(s, "ready") /\ ~At(s, "armed")

\* Not among the best, its data incomplete, its live price gone or out of the zone,
\* its entry unconfirmed; or save_alert_if_new refuses the alert or raises.
Drop(s) ==
    /\ At(s, "candidate") /\ Selecting
    /\ ev' = [ev EXCEPT ![s] = Done]
    /\ UNCHANGED <<day, setup, scanning, held, alerts, blind, seen, faults>>

\* save_alert_if_new looks for OPEN alerts only.  An exception after its commit,
\* or a commit whose answer is lost, is a refusal to the scan: the setup is not marked.
Save(s) ==
    /\ At(s, "candidate") /\ Selecting
    /\ open[s] = 0
    /\ open' = [open EXCEPT ![s] = 1]
    /\ \/ ev' = [ev EXCEPT ![s].pc = "inserted"] /\ Works
       \/ ev' = [ev EXCEPT ![s] = Done] /\ Fails
    /\ UNCHANGED <<day, setup, scanning, held, review, blind, seen>>

\* mark_alert_triggered.
Mark(s) ==
    LET d == ev[s].setup IN
    /\ At(s, "inserted")
    /\ \/ /\ setup[s][d].state \in {"ARMED_BUY_ZONE", "TRIGGER_CANDIDATE"}
          /\ setup' = [setup EXCEPT ![s][d].state = "ALERT_TRIGGERED"]
          /\ Works
       \/ /\ setup[s][d].state \notin {"ARMED_BUY_ZONE", "TRIGGER_CANDIDATE"}
          /\ UNCHANGED setup
          /\ Works
       \/ UNCHANGED setup /\ Fails
    /\ ev' = [ev EXCEPT ![s] = Done]
    /\ UNCHANGED <<day, scanning, held, alerts, blind, seen>>

Finish ==
    /\ scanning /\ \A s \in Symbol : At(s, "done")
    /\ scanning' = FALSE
    /\ held' = {}
    /\ UNCHANGED <<day, setup, ev, alerts, blind, seen, faults>>

\* The scan raises, or its process ends.
Crash ==
    /\ scanning
    /\ Fails
    /\ scanning' = FALSE
    /\ held' = {}
    /\ ev' = [s \in Symbol |-> Done]
    /\ UNCHANGED <<day, setup, alerts, blind, seen>>

(***************************************************************************)
(* Around the scans                                                        *)
(***************************************************************************)

\* A scan has its prices from the start, and judges them by the day it began.
NextDay ==
    /\ ~scanning
    /\ day < LastDay
    /\ day' = day + 1
    /\ UNCHANGED <<setup, scanning, held, ev, alerts, blind, seen, faults>>

\* The exit monitor puts an alert in review (_persist_sell_review), or takes it out
\* again (_clear_sell_review_to_open).
Review(s) ==
    /\ open[s] > 0
    /\ open' = [open EXCEPT ![s] = @ - 1]
    /\ review' = [review EXCEPT ![s] = @ + 1]
    /\ UNCHANGED <<day, setup, scanning, held, ev, blind, seen, faults>>

Clear(s) ==
    /\ review[s] > 0
    /\ review' = [review EXCEPT ![s] = @ - 1]
    /\ open' = [open EXCEPT ![s] = @ + 1]
    /\ UNCHANGED <<day, setup, scanning, held, ev, blind, seen, faults>>

\* An alert is closed or rejected (AlertLifecycle, AlertDesk).
Close(s) ==
    /\ \/ open[s] > 0 /\ open' = [open EXCEPT ![s] = @ - 1] /\ UNCHANGED review
       \/ review[s] > 0 /\ review' = [review EXCEPT ![s] = @ - 1] /\ UNCHANGED open
    /\ UNCHANGED <<day, setup, scanning, held, ev, blind, seen, faults>>

Eval(s) ==
    \/ Skip(s)
    \/ \E d \in Day, t \in TradeDate : Refresh(s, d, t)
    \/ \E t \in TradeDate : Arm(s, t) \/ ArmBlind(s, t)
    \/ Evaluate(s) \/ Drop(s) \/ Save(s) \/ Mark(s)

Next ==
    \/ Start \/ Finish \/ Crash \/ NextDay
    \/ \E s \in Symbol : Eval(s) \/ Review(s) \/ Clear(s) \/ Close(s)

Spec == Init /\ [][Next]_vars

(***************************************************************************)
(* Properties                                                              *)
(***************************************************************************)

\* A symbol has one armed setup at most, whichever writes are lost and scans
\* crash; only a failed read of the setups may put a second one beside it.
OneArmed ==
    \A s \in Symbol \ blind : \A d, e \in Day : Armed(s, d) /\ Armed(s, e) => d = e

\* A setup that is armed, about to trigger or triggered has been evaluated on at most
\* MaxAge trading dates beside the one it was armed on, and on one more for each
\* read or write that failed and each crash: its age lives in the row and in the copy that
\* arm_setup returns, the row's date is moved on before the age is written
\* (multibagger_state_machine.py:169, :269), and trading dates go back and forth.
SessionsBounded ==
    \A s \in Symbol, d \in Day :
        setup[s][d].state \in {"ARMED_BUY_ZONE", "TRIGGER_CANDIDATE", "ALERT_TRIGGERED"} =>
            Cardinality(seen[s][d]) <= MaxAge + 1 + faults

\* A symbol has one alert of the scanner that is OPEN or in review, and one more at most
\* for each read or write that failed: save_alert_if_new, at the end of a scan, refuses
\* beside an OPEN alert only, so that the positions read at its start
\* (multibagger.py:3043) have to keep the symbols in review out.
OnePosition == \A s \in Symbol : open[s] + review[s] <= 1 + faults
=============================================================================
