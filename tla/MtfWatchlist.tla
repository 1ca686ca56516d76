---------------------------- MODULE MtfWatchlist ----------------------------
(***************************************************************************)
(* The multi-timeframe scanner (app/multitf): the rows of one symbol in    *)
(* mtf_v2_watchlist, one per consolidation box, and the two evaluators     *)
(* that move them, the 15 minute cycle (run_multitf_v2) and the 5 minute   *)
(* monitor (run_multitf_5m_monitor).  Each takes a lock of its own, so two *)
(* cycles never overlap and neither do two monitors, but a cycle and a     *)
(* monitor do: both run _process_symbol on the same rows, and only the     *)
(* version test of update_state_in_db stands between them.                 *)
(*                                                                         *)
(* Abstracted: prices, scores and gates (each outcome of an evaluation is  *)
(* a choice); the canonical state, which every write sets to               *)
(* to_canonical(substate); updated_at, which is the writer's clock and on  *)
(* insertion the start of its cycle, so that any active row may be latest. *)
(* attempt_bar_boundary has no default and update_state_in_db puts the     *)
(* record's old value back over the caller's, so it is NULL for ever: the  *)
(* TTL test of an ATTEMPT raises, and FAILED_ATTEMPT, its cooldown and     *)
(* PRESSURE_BUILDING, which nothing sets, are never reached.               *)
(***************************************************************************)
EXTENDS Integers, FiniteSets

CONSTANTS
    Box,          \* box_id's of the symbol
    Cycle,        \* the 15 minute cycle
    Monitor,      \* the 5 minute monitor
    NoBox,        \* None
    MaxDay,       \* bound on the days that pass
    MaxVersion    \* bound on the writes of a row

ASSUME WatchlistAssumption ==
    /\ Box # {} /\ NoBox \notin Box
    /\ Cycle # Monitor
    /\ MaxDay \in Nat
    /\ MaxVersion \in Nat

Evaluator == {Cycle, Monitor}
Day == 0..MaxDay

Live == {"WATCHING", "ARMED_PRE_BREAKOUT", "ATTEMPT"}
Handled == {"BREAKOUT_CONFIRMED", "INVALIDATED"}
Substate == Live \cup Handled

VARIABLES
    row,       \* [Box -> its row: mtf_substate, "NONE" when absent, and version]
    today,     \* the date
    open,      \* the symbol has an OPEN alert, of whichever scanner
    alerted,   \* the days with a MULTI_TF alert of the symbol
    ev,        \* [Evaluator -> where it is in _process_symbol, and its locals]
    saved,     \* history: [Box -> alerts inserted for it]
    owed       \* history: [Box -> of these, the confirmation is not on the row]

worldVars == <<today, open, alerted>>
vars == <<row, worldVars, ev, saved, owed>>

PC == {"idle", "find", "load", "insert", "reload", "judge", "confirm"}
Row == [sub : Substate \cup {"NONE"}, version : Nat]
NoRow == [sub |-> "NONE", version |-> 0]

\* consolidation.box_id, state_record, the date of ist_now, and whether
\* save_alert_if_new inserted.
Evaluation == [pc : PC, box : Box \cup {NoBox}, rec : Row, day : Day, inserted : BOOLEAN]
Idle == [pc |-> "idle", box |-> NoBox, rec |-> NoRow, day |-> 0, inserted |-> FALSE]

TypeOK ==
    /\ row \in [Box -> Row]
    /\ today \in Day
    /\ open \in BOOLEAN
    /\ alerted \subseteq Day
    /\ ev \in [Evaluator -> Evaluation]
    /\ saved \in [Box -> Nat]
    /\ owed \in [Box -> Nat]

Init ==
    /\ row = [b \in Box |-> NoRow]
    /\ today = 0
    /\ open = FALSE
    /\ alerted = {}
    /\ ev = [w \in Evaluator |-> Idle]
    /\ saved = [b \in Box |-> 0]
    /\ owed = [b \in Box |-> 0]

Exists(b) == row[b].sub # "NONE"
Eligible(b) == row[b].sub \in {"ARMED_PRE_BREAKOUT", "ATTEMPT"}

At(w, l) == ev[w].pc = l
Goto(w, l) == ev' = [ev EXCEPT ![w].pc = l]
Return(w) == ev' = [ev EXCEPT ![w] = Idle]

(***************************************************************************)
(* The start of an evaluation                                              *)
(***************************************************************************)

Begin(w, b) ==
    /\ At(w, "idle")
    /\ ev' = [ev EXCEPT ![w] =
           [pc |-> "find", box |-> b, rec |-> NoRow, day |-> today, inserted |-> FALSE]]
    /\ UNCHANGED <<row, worldVars, saved, owed>>

\* Any box: the structure in the candles, or what _GEOMETRY_CACHE kept of it,
\* whose box_id the reuse of an active row has overwritten.
RunCycle == \E b \in Box : Begin(Cycle, b)

\* The monitor starts for armed rows only, and detects the structure afresh.
RunMonitor == (\E b \in Box : Eligible(b)) /\ \E b \in Box : Begin(Monitor, b)

(***************************************************************************)
(* _process_symbol up to a state record                                    *)
(***************************************************************************)

Loaded(w, b) == ev' = [ev EXCEPT ![w].pc = "judge", ![w].box = b, ![w].rec = row[b]]

\* find_active_box_for_symbol: the row updated last that is not invalidated,
\* when its ceiling is near.  Confirmed rows pass, since the query excludes
\* 'CONFIRMED' and the substate is 'BREAKOUT_CONFIRMED'.
FindActive(w) ==
    /\ At(w, "find")
    /\ \E b \in Box : row[b].sub \in Substate \ {"INVALIDATED"} /\ Loaded(w, b)
    /\ UNCHANGED <<row, worldVars, saved, owed>>

\* No row, none near enough, or a failing query.
FindNone(w) ==
    /\ At(w, "find")
    /\ Goto(w, "load")
    /\ UNCHANGED <<row, worldVars, saved, owed>>

\* load_state; a failing query looks like an absent row.
Load(w) ==
    /\ (At(w, "load") \/ At(w, "reload"))
    /\ Exists(ev[w].box)
    /\ Loaded(w, ev[w].box)
    /\ UNCHANGED <<row, worldVars, saved, owed>>

LoadNone(w) ==
    /\ (At(w, "load") /\ Goto(w, "insert")) \/ (At(w, "reload") /\ Return(w))
    /\ UNCHANGED <<row, worldVars, saved, owed>>

\* Mutant of Insert: ON CONFLICT DO UPDATE.
InsertUpserts(w) ==
    /\ At(w, "insert")
    /\ Goto(w, "reload")
    /\ row' = [row EXCEPT ![ev[w].box] = [sub |-> "WATCHING", version |-> 1]]
    /\ UNCHANGED <<worldVars, saved, owed>>

\* persist_new_watchlist_candidate: ON CONFLICT DO NOTHING.
Insert(w) ==
    /\ At(w, "insert")
    /\ Goto(w, "reload")
    /\ row' = IF Exists(ev[w].box) THEN row
              ELSE [row EXCEPT ![ev[w].box] = [sub |-> "WATCHING", version |-> 1]]
    /\ UNCHANGED <<worldVars, saved, owed>>

InsertFails(w) ==
    /\ At(w, "insert")
    /\ Goto(w, "reload")
    /\ UNCHANGED <<row, worldVars, saved, owed>>

(***************************************************************************)
(* update_state_in_db                                                      *)
(***************************************************************************)

\* Mutant of Current: any version will do.
AnyVersion(w) == Exists(ev[w].box)

\* The row is still the version this evaluator loaded.
Current(w) == Exists(ev[w].box) /\ row[ev[w].box].version = ev[w].rec.version

\* Mutant of Put: the canonical state goes into the substate.
PutCanonical(w, s) ==
    row' = [row EXCEPT ![ev[w].box] =
        [sub |-> IF s = "BREAKOUT_CONFIRMED" THEN "CONFIRMED" ELSE s, version |-> @.version + 1]]

Put(w, s) ==
    /\ row[ev[w].box].version < MaxVersion
    /\ row' = [row EXCEPT ![ev[w].box] = [sub |-> s, version |-> @.version + 1]]

\* The last statement of an evaluation, which moves its box to s.  Another
\* evaluator wrote first, or the statement fails: the row is left as it is.
Finish(w, s) ==
    /\ At(w, "judge")
    /\ (Current(w) /\ Put(w, s)) \/ UNCHANGED row
    /\ Return(w)
    /\ UNCHANGED <<worldVars, saved, owed>>

(***************************************************************************)
(* The outcomes of _process_symbol                                         *)
(***************************************************************************)

\* What the TTL test lets through.
Evaluated == {"WATCHING", "ARMED_PRE_BREAKOUT"}

\* A handled box, or one whose breakout fails a gate: live data and version only.
Stamp(w) == ev[w].rec.sub \in Handled \cup Evaluated /\ Finish(w, ev[w].rec.sub)

\* The price is below the box, or the confirmed breakout is not tradeable.
Invalidate(w) == ev[w].rec.sub \in Live /\ Finish(w, "INVALIDATED")

\* apply_ttl_and_cooldown adds three to NULL; the caller's except ends it.
TtlRaises(w) ==
    /\ At(w, "judge")
    /\ ev[w].rec.sub = "ATTEMPT"
    /\ Return(w)
    /\ UNCHANGED <<row, worldVars, saved, owed>>

Arm(w) == ev[w].rec.sub \in Evaluated /\ Finish(w, "ARMED_PRE_BREAKOUT")

RegisterAttempt(w) == ev[w].rec.sub = "WATCHING" /\ Finish(w, "ATTEMPT")

ToConfirm(w, ins) == ev' = [ev EXCEPT ![w].pc = "confirm", ![w].inserted = ins]

\* Past every gate, save_alert_if_new inserts unless the symbol has an open
\* alert or had one of this scanner on the day.
SaveAlert(w) ==
    /\ At(w, "judge")
    /\ ev[w].rec.sub \in Evaluated
    /\ ~open
    /\ ev[w].day \notin alerted
    /\ open' = TRUE
    /\ alerted' = alerted \cup {ev[w].day}
    /\ saved' = [saved EXCEPT ![ev[w].box] = @ + 1]
    /\ owed' = [owed EXCEPT ![ev[w].box] = @ + 1]
    /\ ToConfirm(w, TRUE)
    /\ UNCHANGED <<row, today>>

\* It refuses, for these and other reasons; the box is confirmed all the same.
AlertRefused(w) ==
    /\ At(w, "judge")
    /\ ev[w].rec.sub \in Evaluated
    /\ ToConfirm(w, FALSE)
    /\ UNCHANGED <<row, worldVars, saved, owed>>

\* BREAKOUT_CONFIRMED is written after the alert, and pays what is owed for it.
Confirm(w) ==
    /\ At(w, "confirm")
    /\ Current(w)
    /\ Put(w, "BREAKOUT_CONFIRMED")
    /\ owed' = IF ev[w].inserted THEN [owed EXCEPT ![ev[w].box] = @ - 1] ELSE owed
    /\ Return(w)
    /\ UNCHANGED <<worldVars, saved>>

\* The row has moved on, the statement fails, or the dispatch of the alert
\* raises before it.
ConfirmLost(w) ==
    /\ At(w, "confirm")
    /\ Return(w)
    /\ UNCHANGED <<row, worldVars, saved, owed>>

(***************************************************************************)
(* The world                                                               *)
(***************************************************************************)

NextDay ==
    /\ today < MaxDay
    /\ today' = today + 1
    /\ UNCHANGED <<row, open, alerted, ev, saved, owed>>

\* The alert is closed, or another scanner opens one.
AlertMoves ==
    /\ open' = ~open
    /\ UNCHANGED <<row, today, alerted, ev, saved, owed>>

\* The process dies with both evaluators.
Crash ==
    /\ ev' = [w \in Evaluator |-> Idle]
    /\ UNCHANGED <<row, worldVars, saved, owed>>

Step(w) ==
    \/ FindActive(w) \/ FindNone(w) \/ Load(w) \/ LoadNone(w) \/ Insert(w) \/ InsertFails(w)
    \/ Stamp(w) \/ Invalidate(w) \/ TtlRaises(w) \/ Arm(w) \/ RegisterAttempt(w)
    \/ SaveAlert(w) \/ AlertRefused(w) \/ Confirm(w) \/ ConfirmLost(w)

Next ==
    \/ RunCycle \/ RunMonitor
    \/ \E w \in Evaluator : Step(w)
    \/ NextDay \/ AlertMoves \/ Crash

Spec == Init /\ [][Next]_vars

(***************************************************************************)
(* Properties                                                              *)
(***************************************************************************)

\* A box has at most one alert more than it has alerts whose confirmation never
\* reached its row: as long as no confirming write is lost to the other
\* evaluator, to a failing statement or to a crash, a box alerts once, however
\* the two evaluators interleave and however many days pass (_process_symbol
\* and the version test of update_state_in_db).
AlertsAccounted ==
    \A b \in Box : saved[b] <= owed[b] + IF row[b].sub = "BREAKOUT_CONFIRMED" THEN 1 ELSE 0

\* The stage of its life that a row's substate stands for.
StageOf(s) ==
    CASE s = "NONE" -> "NONE"
      [] s \in Live -> "LIVE"
      [] s = "BREAKOUT_CONFIRMED" -> "CONFIRMED"
      [] s = "INVALIDATED" -> "REJECTED"

\* Whatever record an evaluator acts on, its write never takes a box that the other
\* has confirmed or invalidated back, and never inserts it again ("CONFIRMED -> any
\* state (terminal)", signal_contract.py:453; update_state_in_db, Insert).
Abstract == INSTANCE BoxLife WITH life <- [b \in Box |-> StageOf(row[b].sub)]
RefinesBoxLife == Abstract!Spec
=============================================================================
