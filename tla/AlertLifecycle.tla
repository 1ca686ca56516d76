--------------------------- MODULE AlertLifecycle ---------------------------
(***************************************************************************)
(* One row of the alerts table after save_alert_if_new inserted it: the    *)
(* passes of the performance tracker that book its exits, and the actions  *)
(* of the operator that change it under them.                              *)
(*                                                                         *)
(* A pass (build_performance_data) reads every alert once, and evaluates   *)
(* each on that copy: process_trade_history walks a list of bars and calls *)
(* update_partial_exit and update_alert_outcome, each a transaction of its *)
(* own, as it goes.  Passes overlap: the scheduled one, the one of         *)
(* trigger_performance_rebuild and the one of the admin page hold          *)
(* different locks or none.  Alerts do not share a row, so one suffices.   *)
(*                                                                         *)
(* get_all_alerts does not select execution_state, entry_mode,             *)
(* actual_entry_price and structural_failure_stop, so for every pass the   *)
(* position was entered at entry_price: the branches of the evaluator for  *)
(* pending entries and structural stops are never taken and not modelled.  *)
(*                                                                         *)
(* Abstracted: prices are points of a scale that keeps the order of the    *)
(* levels; exit_history is its set of event types and the shares they      *)
(* sold; exit_price, pnl, closed_at and exit_signal, which                 *)
(* update_alert_outcome writes together, are the flag locked; splits,      *)
(* shadow outcomes, quality metrics and the capital ledger are left out.   *)
(***************************************************************************)
EXTENDS Integers

CONSTANTS
    Pass,          \* tracker passes that may be under way together
    StopLoss, Breakeven, Target1, Target2, Target3,  \* levels of the alert
    Prices,        \* what a live quote may be
    Bars,          \* what a bar of a replayed history may be
    MaxBars,       \* bound on the bars of a replay
    Sizes,         \* shares_bought as sizing computes it
    DefaultShares, \* what a position counts as when shares_bought is 0
    Part1, Part2,  \* exit profile: percentages sold at the first two targets
    MaxOps,        \* bound on operator actions and failed writes together
    Plans          \* which targets the alert may have, a subset of AllPlans

AllPlans == {"ladder", "legacy", "noT2", "noT3", "stopOnly"}

ASSUME AlertAssumption ==
    /\ {StopLoss, Breakeven, Target1, Target2, Target3} \subseteq Nat
    /\ StopLoss < Breakeven /\ Breakeven < Target2
    /\ Target1 < Target2 /\ Target2 < Target3
    /\ Prices \subseteq Nat
    /\ Bars \subseteq [open: Nat, low: Nat, high: Nat]
    /\ MaxBars \in Nat \ {0}
    /\ Sizes \subseteq Nat
    /\ DefaultShares \in Nat \ {0}
    /\ Part1 \in 0..100 /\ Part2 \in 0..100
    /\ MaxOps \in Nat
    /\ Plans \subseteq AllPlans

VARIABLES
    row,        \* the alert in the database
    plan,       \* which of its targets are set
    pass,       \* [Pass -> the copy of the alert it evaluates, and where it is]
    requested,  \* a replay was requested (recalc_ids) and has not started
    sizing,     \* the stop loss reallocate_capital has read, or NoSizing
    ops,        \* operator actions and failed writes so far, for the bound
    exact       \* history: every write since the row was opened or reset was
                \* made from an accurate copy (Exactly)

vars == <<row, plan, pass, requested, sizing, ops, exact>>

Event == {"T1_HIT", "T2_HIT", "T3_HIT", "SL_HIT", "GAP_LOSS"}
Held == {"OPEN", "PARTIAL_WIN_1", "PARTIAL_WIN_2"}
Closed == {"WIN", "LOSS"}
Terminal == Closed \cup {"REJECTED"}
Partial == {"PARTIAL_WIN_1", "PARTIAL_WIN_2"}

NoSizing == -1

FlatBar(price) == [open |-> price, low |-> price, high |-> price]

Larger(a, b) == IF a > b THEN a ELSE b

HasTarget2 == plan # "noT2"
HasTarget3 == plan \in {"ladder", "legacy"}

-----------------------------------------------------------------------------
(* The alert as save_alert_if_new inserts it, and the ways back to that.   *)

Saved(shares) ==
    [status |-> "OPEN", sl |-> StopLoss, bought |-> shares, rem |-> shares,
     events |-> {}, sold |-> 0, locked |-> FALSE, rejected |-> FALSE]

Idle ==
    [pc |-> "idle", replay |-> FALSE, left |-> 0, bar |-> FlatBar(0),
     status |-> "OPEN", sl |-> StopLoss, bought |-> 0, rem |-> 0,
     events |-> {}, untouched |-> TRUE]

Init ==
    /\ plan \in Plans
    /\ \E shares \in Sizes : row = Saved(shares)
    /\ pass = [p \in Pass |-> Idle]
    /\ requested = FALSE
    /\ sizing = NoSizing
    /\ ops = 0
    /\ exact = TRUE

\* What p takes the alert to be is what the row says.
Exactly(p) ==
    /\ pass[p].status = row.status
    /\ pass[p].sl = row.sl
    /\ pass[p].bought = row.bought
    /\ pass[p].rem = row.rem
    /\ pass[p].events = row.events

-----------------------------------------------------------------------------
(* Reading.                                                                *)

Bought == IF row.bought = 0 THEN DefaultShares ELSE row.bought

\* build_performance_data skips closed and rejected alerts.
Followed == row.status \notin Closed /\ ~row.rejected

\* A pass without history: one bar, the live price, on the row as it is.
ReadLive(p) ==
    /\ pass[p].pc = "idle"
    /\ Followed
    /\ pass' = [pass EXCEPT ![p] =
            [Idle EXCEPT !.pc = "next", !.left = 1,
                !.status = row.status, !.sl = row.sl, !.bought = Bought,
                !.rem = IF row.bought = 0 THEN DefaultShares ELSE row.rem,
                !.events = row.events]]
    /\ UNCHANGED <<row, plan, requested, sizing, ops, exact>>

\* The pass of a recalculation starts from the initial state of the trade,
\* whatever the row says by now, and remembers no event.
ReadReplay(p) ==
    /\ pass[p].pc = "idle"
    /\ requested
    /\ requested' = FALSE
    /\ IF Followed
       THEN pass' = [pass EXCEPT ![p] =
                [Idle EXCEPT !.pc = "next", !.left = MaxBars, !.replay = TRUE,
                    !.bought = Bought, !.rem = Bought]]
       ELSE UNCHANGED pass
    /\ UNCHANGED <<row, plan, sizing, ops, exact>>

\* The loop of process_trade_history takes the next bar.
NextBar(p) ==
    /\ pass[p].pc = "next"
    /\ pass[p].left > 0
    /\ pass[p].status \notin Terminal
    /\ \E bar \in IF pass[p].replay THEN Bars ELSE {FlatBar(q) : q \in Prices} :
          pass' = [pass EXCEPT ![p].pc = "bar", ![p].left = @ - 1,
                               ![p].bar = bar]
    /\ UNCHANGED <<row, plan, requested, sizing, ops, exact>>

\* No bar is left, or the copy is closed; a replay may also have fewer bars.
EndPass(p) ==
    /\ pass[p].pc = "next"
    /\ \/ pass[p].left = 0
       \/ pass[p].status \in Terminal
       \/ pass[p].replay
    /\ pass' = [pass EXCEPT ![p] = Idle]
    /\ UNCHANGED <<row, plan, requested, sizing, ops, exact>>

-----------------------------------------------------------------------------
(* Writing.                                                                *)

\* A transaction that fails is rolled back and logged; its caller is not told
\* and goes on as if the row had been written.
WriteFails ==
    /\ ops < MaxOps
    /\ ops' = ops + 1
    /\ UNCHANGED <<row, exact>>

\* update_partial_exit: whatever the row was, it is now what p computed.
\* p writes an event only if its copy of the history lacks it.
PartialExit(p, event, status, sl, shares, rem) ==
    IF event \in pass[p].events
    THEN UNCHANGED <<row, ops, exact>>
    ELSE \/ /\ row' = [row EXCEPT !.status = status, !.sl = sl, !.rem = rem,
                                  !.events = @ \cup {event},
                                  !.sold = @ + shares]
            /\ exact' = (exact /\ Exactly(p))
            /\ ops' = ops
         \/ WriteFails

\* The copy p goes on with.
Carries(p, pc, event, status, sl, rem) ==
    pass' = [pass EXCEPT ![p].pc = pc, ![p].status = status, ![p].sl = sl,
                         ![p].rem = rem, ![p].events = @ \cup {event},
                         ![p].untouched = FALSE,
                         ![p].bar = IF pc = "targets" THEN @ ELSE FlatBar(0)]

-----------------------------------------------------------------------------
(* One bar: the stop first, then the targets in order.                     *)

Gapped(t) == t.untouched /\ t.bar.open < t.sl
Stopped(t) == Gapped(t) \/ t.bar.low <= t.sl

\* execution_state is OPEN until this pass has booked a target.
GapLoss(p) ==
    LET t == pass[p] IN
    /\ t.pc = "bar" /\ plan # "stopOnly"
    /\ Gapped(t)
    /\ PartialExit(p, "GAP_LOSS", "LOSS", t.sl, t.rem, 0)
    /\ Carries(p, IF "GAP_LOSS" \in t.events THEN "next" ELSE "lock",
               "GAP_LOSS", "LOSS", t.sl, 0)
    /\ UNCHANGED <<plan, requested, sizing>>

StopHit(p) ==
    LET t == pass[p]
        final == IF t.status \in Partial THEN "WIN" ELSE "LOSS"
    IN
    /\ t.pc = "bar" /\ plan # "stopOnly"
    /\ Stopped(t) /\ ~Gapped(t)
    /\ PartialExit(p, "SL_HIT", final, t.sl, t.rem, 0)
    /\ Carries(p, IF "SL_HIT" \in t.events THEN "next" ELSE "lock",
               "SL_HIT", final, t.sl, 0)
    /\ UNCHANGED <<plan, requested, sizing>>

\* An alert without targets: the stop alone, and only the outcome is written.
StopOnly(p) ==
    /\ pass[p].pc = "bar" /\ plan = "stopOnly"
    /\ pass[p].bar.low <= pass[p].sl
    /\ pass' = [pass EXCEPT ![p].pc = "lock", ![p].bar = FlatBar(0)]
    /\ UNCHANGED <<row, plan, requested, sizing, ops, exact>>

\* The targets are looked at on a bar that did not stop the position.
AtTargets(p) ==
    /\ plan # "stopOnly"
    /\ \/ pass[p].pc = "bar" /\ ~Stopped(pass[p])
       \/ pass[p].pc = "targets"

Tranche(shares, percent) == (shares * percent) \div 100

FirstShares(t) ==
    LET part == Tranche(t.bought, Part1)
    IN  IF plan \in {"legacy", "noT2"} \/ part = 0 THEN t.rem ELSE part

\* Mutation: the second tranche without the cap at the remaining shares.
SecondSharesUncapped(t) ==
    LET part == Tranche(t.bought, Part2)
    IN  IF ~HasTarget3 \/ part = 0 THEN t.rem ELSE part

SecondShares(t) ==
    LET part == Tranche(t.bought, Part2)
        left == IF part > t.rem THEN t.rem ELSE part
    IN  IF ~HasTarget3 \/ left = 0 THEN t.rem ELSE left

\* Mutation: the new stop without max().
BooksLevel(p, event, status, level, shares) ==
    LET t == pass[p]
        rem == t.rem - shares
        sl == IF rem > 0 THEN level ELSE t.sl
    IN
    /\ PartialExit(p, event, status, sl, shares, rem)
    /\ Carries(p, IF rem > 0 THEN "targets" ELSE "next", event,
               IF rem > 0 THEN status ELSE "WIN", sl, rem)
    /\ UNCHANGED <<plan, requested, sizing>>

\* Booking target 1 or 2.  When it sells the last share the copy is a WIN,
\* but the row is not: the event that update_alert_outcome waits for has
\* just been added to db_events.
Books(p, event, status, level, shares) ==
    LET t == pass[p]
        rem == t.rem - shares
        sl == IF rem > 0 THEN Larger(t.sl, level) ELSE t.sl
    IN
    /\ PartialExit(p, event, status, sl, shares, rem)
    /\ Carries(p, IF rem > 0 THEN "targets" ELSE "next", event,
               IF rem > 0 THEN status ELSE "WIN", sl, rem)
    /\ UNCHANGED <<plan, requested, sizing>>

FirstHit(t) == t.status = "OPEN" /\ t.bar.high >= Target1
\* Mutation: target 2 is looked for before target 1 is booked.
SecondHitEarly(t) ==
    HasTarget2 /\ t.status \in {"OPEN", "PARTIAL_WIN_1"} /\ t.bar.high >= Target2
SecondHit(t) ==
    HasTarget2 /\ t.status = "PARTIAL_WIN_1" /\ t.bar.high >= Target2
ThirdHit(t) ==
    HasTarget3 /\ t.status = "PARTIAL_WIN_2" /\ t.bar.high >= Target3

FirstTarget(p) ==
    /\ AtTargets(p)
    /\ FirstHit(pass[p])
    /\ Books(p, "T1_HIT", "PARTIAL_WIN_1", Breakeven, FirstShares(pass[p]))

SecondTarget(p) ==
    /\ AtTargets(p)
    /\ SecondHit(pass[p])
    /\ Books(p, "T2_HIT", "PARTIAL_WIN_2", Target1, SecondShares(pass[p]))

ThirdTarget(p) ==
    LET t == pass[p] IN
    /\ AtTargets(p)
    /\ ThirdHit(t)
    /\ PartialExit(p, "T3_HIT", "WIN", Target2, t.rem, 0)
    /\ Carries(p, IF "T3_HIT" \in t.events THEN "next" ELSE "lock",
               "T3_HIT", "WIN", t.sl, 0)
    /\ UNCHANGED <<plan, requested, sizing>>

\* Nothing (more) happens on this bar.
Quiet(p) ==
    LET t == pass[p] IN
    /\ IF plan = "stopOnly"
       THEN t.pc = "bar" /\ t.bar.low > t.sl
       ELSE AtTargets(p) /\ ~FirstHit(t) /\ ~SecondHit(t) /\ ~ThirdHit(t)
    /\ pass' = [pass EXCEPT ![p].pc = "next", ![p].bar = FlatBar(0)]
    /\ UNCHANGED <<row, plan, requested, sizing, ops, exact>>

\* update_alert_outcome: leaves a row that is closed already alone.
Outcome(p) ==
    LET final == IF plan = "stopOnly" THEN "LOSS" ELSE pass[p].status IN
    /\ pass[p].pc = "lock"
    /\ IF row.status \in Terminal
       THEN UNCHANGED <<row, ops, exact>>
       ELSE \/ /\ row' = [row EXCEPT !.status = final, !.rem = 0, !.locked = TRUE]
               /\ exact' = (exact /\ Exactly(p))
               /\ ops' = ops
            \/ WriteFails
    /\ pass' = [pass EXCEPT ![p].pc = "next", ![p].status = final]
    /\ UNCHANGED <<plan, requested, sizing>>

-----------------------------------------------------------------------------
(* The operator.                                                           *)

\* Mutation: recalculation that marks the alert ACTIVE, a status the table allows.
RecalculateActive ==
    /\ row' = [Saved(Bought) EXCEPT !.rejected = row.rejected,
                                    !.status = "ACTIVE"]
    /\ requested' = TRUE
    /\ exact' = TRUE
    /\ UNCHANGED <<plan, pass, sizing>>

\* /api/alert/recalculate: reset_alert_for_recalculation, then a replay.
Recalculate ==
    /\ row' = [Saved(Bought) EXCEPT !.rejected = row.rejected]
    /\ requested' = TRUE
    /\ exact' = TRUE
    /\ UNCHANGED <<plan, pass, sizing>>

\* /api/admin/reset_all_positions keeps the stop where it is.
ResetAll ==
    /\ row' = [row EXCEPT !.status = "OPEN", !.rem = row.bought,
                          !.events = {}, !.sold = 0, !.locked = FALSE]
    /\ exact' = TRUE
    /\ UNCHANGED <<plan, pass, requested, sizing>>

\* /api/admin/reset_trades_to_open keeps the exit history.
ResetClosed ==
    /\ row.status \in Closed
    /\ row' = [row EXCEPT !.status = "OPEN", !.rem = row.bought,
                          !.locked = FALSE]
    /\ exact' = (exact /\ row.events = {})
    /\ UNCHANGED <<plan, pass, requested, sizing>>

Reject ==
    /\ ~row.rejected
    /\ row' = [row EXCEPT !.rejected = TRUE, !.status = "REJECTED"]
    /\ UNCHANGED <<plan, pass, requested, sizing, exact>>

\* accept_alert takes the mark off; the status stays REJECTED.
Accept ==
    /\ row.rejected
    /\ row' = [row EXCEPT !.rejected = FALSE]
    /\ UNCHANGED <<plan, pass, requested, sizing, exact>>

\* reallocate_capital reads the row, commits, sizes the position anew and
\* writes the stop loss it had read.  Nobody updates remaining_shares.
ReallocateRead ==
    /\ sizing = NoSizing
    /\ sizing' = row.sl
    /\ UNCHANGED <<row, plan, pass, requested, exact>>

ReallocateWrite ==
    /\ sizing # NoSizing
    /\ sizing' = NoSizing
    /\ \E shares \in Sizes :
          /\ row' = [row EXCEPT !.bought = shares, !.sl = sizing,
                                !.rejected = FALSE]
          /\ exact' = (exact /\ shares = row.bought /\ sizing = row.sl)
    /\ UNCHANGED <<plan, pass, requested>>

-----------------------------------------------------------------------------
PassStep(p) ==
    \/ ReadLive(p) \/ ReadReplay(p) \/ NextBar(p) \/ EndPass(p)
    \/ GapLoss(p) \/ StopHit(p) \/ StopOnly(p)
    \/ FirstTarget(p) \/ SecondTarget(p) \/ ThirdTarget(p) \/ Quiet(p)
    \/ Outcome(p)

\* Each of the first five counts; the last two end what one of them began.
Operator ==
    \/ /\ ops < MaxOps
       /\ ops' = ops + 1
       /\ \/ Recalculate \/ ResetAll \/ ResetClosed \/ Reject
          \/ ReallocateRead
    \/ /\ ops' = ops
       /\ Accept \/ ReallocateWrite

Next == Operator \/ \E p \in Pass : PassStep(p)

Spec == Init /\ [][Next]_vars

-----------------------------------------------------------------------------
Levels == {StopLoss, Breakeven, Target1, Target2}
Shares == Sizes \cup {DefaultShares}
PassTypes ==
    [pc: {"idle", "next", "bar", "targets", "lock"}, replay: BOOLEAN,
     left: 0..MaxBars, bar: [open: Nat, low: Nat, high: Nat],
     status: Held \cup Terminal, sl: Levels, bought: Shares \cup {0}, rem: Int,
     events: SUBSET Event, untouched: BOOLEAN]
RowTypes ==
    [status: Held \cup Terminal, sl: Levels, bought: Shares, rem: Int,
     events: SUBSET Event, sold: Int, locked: BOOLEAN, rejected: BOOLEAN]

\* Types.  The stop loss is always one of the levels the evaluator sets, and a
\* pass that has closed its copy writes a final status next.
TypeOK ==
    /\ row \in RowTypes
    /\ plan \in AllPlans
    /\ pass \in [Pass -> PassTypes]
    /\ requested \in BOOLEAN
    /\ sizing \in Levels \cup {NoSizing}
    /\ ops \in 0..MaxOps
    /\ exact \in BOOLEAN
    /\ \A p \in Pass : pass[p].pc = "lock" =>
          plan = "stopOnly" \/ pass[p].status \in Closed

\* The status that a history of exits amounts to.
StatusOf(events) ==
    LET stopped == "SL_HIT" \in events
        lost == "GAP_LOSS" \in events \/ (stopped /\ "T1_HIT" \notin events)
    IN  IF lost THEN "LOSS"
        ELSE IF stopped \/ "T3_HIT" \in events THEN "WIN"
        ELSE IF "T2_HIT" \in events THEN "PARTIAL_WIN_2"
        ELSE IF "T1_HIT" \in events THEN "PARTIAL_WIN_1"
        ELSE "OPEN"

Ledger ==
    /\ row.locked => row.status \in {"LOSS", "REJECTED"} /\ row.rem = 0
    /\ ~row.locked => row.sold + row.rem = row.bought /\ row.rem >= 0
    /\ row.events = {} => row.sold = 0
    /\ row.locked \/ row.status = "REJECTED" \/ row.status = StatusOf(row.events)

\* As long as every write was made from an accurate copy, the row is what its
\* exit history says: the shares sold and the shares left are the shares
\* bought, none is sold twice or short, and the status is the one the booked
\* events amount to (process_trade_history, update_partial_exit).
LedgerExact == exact => Ledger

\* Comment in process_trade_history: "Stop Loss never loosens/moves backward".
\* True while the copies are accurate, except for a recalculation, which
\* starts from the initial stop.
StopRatchet ==
    [][exact /\ exact' /\ ~Recalculate => row'.sl >= row.sl]_vars

\* Every write moves the row along the life of a position, passes and operator
\* together: exits in order, each selling what it books, none after the last, the
\* stop forward only (process_trade_history, update_partial_exit and the resets).
\* A row that a stale copy was written to has no life to tell until it is reset.
PositionOf(r) ==
    [stage |-> r.status, bought |-> r.bought, left |-> r.rem, sold |-> r.sold, stop |-> r.sl]
Untold == [stage |-> "UNKNOWN", bought |-> 0, left |-> 0, sold |-> 0, stop |-> 0]

Told == IF exact THEN PositionOf(row) ELSE Untold

Life == INSTANCE Trade WITH trade <- Told
RefinesTrade == Life!Spec

=============================================================================
