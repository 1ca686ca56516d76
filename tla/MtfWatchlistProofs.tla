------------------------- MODULE MtfWatchlistProofs -------------------------
(***************************************************************************)
(* The watchlist keeps its types, keeps its alerts accounted for, and      *)
(* implements BoxLife, for any boxes and any bounds.                       *)
(*                                                                         *)
(* The key is the version: it grows with every write, so that an evaluator *)
(* whose version is still the row's holds the row's substate too           *)
(* (RecordInv).  An unfinished confirmation is owed (OwedInv), which is    *)
(* what lets Confirm take one off.                                         *)
(***************************************************************************)
EXTENDS MtfWatchlist, TLAPS

RecordInv == \A w \in Evaluator :
    /\ ~At(w, "idle") => ev[w].box \in Box
    /\ (At(w, "judge") \/ At(w, "confirm")) =>
          /\ Exists(ev[w].box)
          /\ ev[w].rec.sub \in Substate
          /\ ev[w].rec.version <= row[ev[w].box].version
          /\ Current(w) => ev[w].rec.sub = row[ev[w].box].sub
    /\ At(w, "confirm") => ev[w].rec.sub \in Evaluated

Pending(w, b) == IF At(w, "confirm") /\ ev[w].inserted /\ ev[w].box = b THEN 1 ELSE 0

OwedInv == \A b \in Box : Pending(Cycle, b) + Pending(Monitor, b) <= owed[b]

Inv == TypeOK /\ RecordInv /\ OwedInv /\ AlertsAccounted

-----------------------------------------------------------------------------
LEMMA InitInv == Init => Inv
  <1> SUFFICES ASSUME Init PROVE Inv
    OBVIOUS
  <1> USE WatchlistAssumption
  <1>1. Idle \in Evaluation
    BY DEF Idle, Evaluation, PC, Row, NoRow, Day
  <1>2. NoRow \in Row
    BY DEF NoRow, Row
  <1>3. TypeOK
    <2>1. /\ row \in [Box -> Row] /\ ev \in [Evaluator -> Evaluation]
          /\ open \in BOOLEAN /\ alerted \subseteq Day
      BY <1>1, <1>2, Zenon DEF Init
    <2>2. today \in Day /\ saved \in [Box -> Nat] /\ owed \in [Box -> Nat]
      BY DEF Init, Day
    <2> QED
      BY <2>1, <2>2 DEF TypeOK
  <1>4. RecordInv
    BY DEF Init, RecordInv, At, Idle
  <1>5. ASSUME NEW b \in Box
        PROVE  /\ Pending(Cycle, b) + Pending(Monitor, b) <= owed[b]
               /\ saved[b] <= owed[b] + IF row[b].sub = "BREAKOUT_CONFIRMED" THEN 1 ELSE 0
    <2>1. Pending(Cycle, b) = 0 /\ Pending(Monitor, b) = 0
      BY DEF Pending, Init, At, Idle, Evaluator
    <2> QED
      BY <2>1 DEF Init, NoRow
  <1> QED
    BY <1>3, <1>4, <1>5 DEF Inv, OwedInv, AlertsAccounted

\* What a step that writes no row and opens no alert leaves to be shown of the
\* evaluations it changes.
LEMMA QuietStep ==
  ASSUME Inv, UNCHANGED <<row, saved, owed>>,
         ev' \in [Evaluator -> Evaluation],
         today' \in Day, open' \in BOOLEAN, alerted' \subseteq Day,
         \A w \in Evaluator :
            \/ ev'[w] = ev[w]
            \/ ev'[w] = Idle
            \/ /\ ev'[w].box \in Box
               /\ ev'[w].pc \in {"find", "load", "insert", "reload"}
            \/ /\ ev'[w].pc = "judge"
               /\ ev'[w].box \in Box
               /\ ev'[w].rec = row[ev'[w].box]
               /\ Exists(ev'[w].box)
            \/ /\ ev[w].pc = "judge" /\ ev'[w].pc = "confirm"
               /\ ev'[w].box = ev[w].box /\ ev'[w].rec = ev[w].rec
               /\ ev[w].rec.sub \in Evaluated
               /\ ev'[w].inserted = FALSE
  PROVE  Inv'
  <1> USE DEF Inv
  <1>1. TypeOK'
    BY DEF TypeOK
  <1>2. RecordInv'
    <2> SUFFICES ASSUME NEW w \in Evaluator
                 PROVE  (/\ ~At(w, "idle") => ev[w].box \in Box
                         /\ (At(w, "judge") \/ At(w, "confirm")) =>
                               /\ Exists(ev[w].box)
                               /\ ev[w].rec.sub \in Substate
                               /\ ev[w].rec.version <= row[ev[w].box].version
                               /\ Current(w) => ev[w].rec.sub = row[ev[w].box].sub
                         /\ At(w, "confirm") => ev[w].rec.sub \in Evaluated)'
      BY DEF RecordInv
    <2>1. CASE ev'[w] = ev[w]
      BY <2>1 DEF RecordInv, At, Exists, Current
    <2>2. CASE ev'[w] = Idle
      BY <2>2 DEF At, Idle
    <2>3. CASE ev'[w].box \in Box /\ ev'[w].pc \in {"find", "load", "insert", "reload"}
      BY <2>3 DEF At
    <2>4. CASE /\ ev'[w].pc = "judge" /\ ev'[w].box \in Box
               /\ ev'[w].rec = row[ev'[w].box] /\ Exists(ev'[w].box)
      BY <2>4 DEF At, Exists, Current, TypeOK, Row
    <2>5. CASE /\ ev[w].pc = "judge" /\ ev'[w].pc = "confirm"
               /\ ev'[w].box = ev[w].box /\ ev'[w].rec = ev[w].rec
               /\ ev[w].rec.sub \in Evaluated
      BY <2>5 DEF RecordInv, At, Exists, Current
    <2> QED
      BY <2>1, <2>2, <2>3, <2>4, <2>5
  <1>3. \A w \in Evaluator, b \in Box : Pending(w, b)' <= Pending(w, b)
    BY DEF Pending, At, Idle
  <1>4. OwedInv'
    <2> SUFFICES ASSUME NEW b \in Box
                 PROVE  (Pending(Cycle, b) + Pending(Monitor, b))' <= owed[b]
      BY DEF OwedInv
    <2>1. Pending(Cycle, b)' <= Pending(Cycle, b) /\ Pending(Monitor, b)' <= Pending(Monitor, b)
      BY <1>3 DEF Evaluator
    <2>2. Pending(Cycle, b) + Pending(Monitor, b) <= owed[b] /\ owed[b] \in Nat
      BY DEF OwedInv, TypeOK
    <2>3. \A w \in Evaluator : Pending(w, b) \in {0, 1} /\ Pending(w, b)' \in {0, 1}
      BY DEF Pending
    <2> QED
      BY <2>1, <2>2, <2>3 DEF Evaluator
  <1>5. AlertsAccounted'
    BY DEF AlertsAccounted
  <1> QED
    BY <1>1, <1>2, <1>4, <1>5

\* A write keeps the rows of the other boxes and raises the version of its own:
\* nobody else's record is current afterwards.
LEMMA WriteStep ==
  ASSUME Inv, NEW w \in Evaluator, NEW s \in Substate,
         ~At(w, "idle"), Exists(ev[w].box), Put(w, s),
         Return(w), UNCHANGED <<worldVars, saved>>,
         row[ev[w].box].sub = "BREAKOUT_CONFIRMED" => s = "BREAKOUT_CONFIRMED",
         \/ owed' = owed
         \/ /\ At(w, "confirm") /\ ev[w].inserted
            /\ owed' = [owed EXCEPT ![ev[w].box] = @ - 1]
            /\ row[ev[w].box].sub # "BREAKOUT_CONFIRMED" /\ s = "BREAKOUT_CONFIRMED"
  PROVE  Inv'
  <1> USE DEF Inv
  <1> DEFINE mine == ev[w].box
  <1>1. mine \in Box
    BY DEF RecordInv
  <1>2. row' = [row EXCEPT ![mine] = [sub |-> s, version |-> row[mine].version + 1]]
    BY DEF Put
  <1>3. row' \in [Box -> Row] /\ row[mine].version \in Nat
    BY <1>1, <1>2 DEF TypeOK, Row
  <1>4. Idle \in Evaluation
    BY WatchlistAssumption DEF Idle, Evaluation, PC, Row, NoRow, Day
  <1>5. ev' \in [Evaluator -> Evaluation]
    BY <1>4 DEF Return, TypeOK
  <1>6. \A v \in Evaluator, b \in Box : Pending(v, b) \in {0, 1} /\ Pending(v, b)' \in {0, 1}
    BY DEF Pending
  <1>7. \A v \in Evaluator, b \in Box : Pending(v, b)' = IF v = w THEN 0 ELSE Pending(v, b)
    BY DEF Pending, Return, At, Idle, TypeOK
  <1>8. ASSUME NEW b \in Box
        PROVE  /\ owed'[b] \in Nat
               /\ (Pending(Cycle, b) + Pending(Monitor, b))' <= owed'[b]
               /\ saved[b] <= owed'[b] + IF row'[b].sub = "BREAKOUT_CONFIRMED" THEN 1 ELSE 0
    <2>1. /\ Pending(Cycle, b) + Pending(Monitor, b) <= owed[b]
          /\ owed[b] \in Nat /\ saved[b] \in Nat
          /\ saved[b] <= owed[b] + IF row[b].sub = "BREAKOUT_CONFIRMED" THEN 1 ELSE 0
      BY DEF OwedInv, AlertsAccounted, TypeOK
    <2>2. /\ Pending(Cycle, b) \in {0, 1} /\ Pending(Monitor, b) \in {0, 1}
          /\ Pending(Cycle, b)' = IF Cycle = w THEN 0 ELSE Pending(Cycle, b)
          /\ Pending(Monitor, b)' = IF Monitor = w THEN 0 ELSE Pending(Monitor, b)
          /\ w = Cycle \/ w = Monitor
          /\ Cycle # Monitor
      BY <1>6, <1>7, WatchlistAssumption DEF Evaluator
    <2>3. CASE owed' = owed
      <3>1. row[b].sub = "BREAKOUT_CONFIRMED" => row'[b].sub = "BREAKOUT_CONFIRMED"
        BY <1>1, <1>2 DEF TypeOK
      <3> QED
        BY <2>1, <2>2, <2>3, <3>1
    <2>4. CASE owed' # owed
      <3>1. /\ owed' = [owed EXCEPT ![mine] = @ - 1]
            /\ row[mine].sub # "BREAKOUT_CONFIRMED" /\ s = "BREAKOUT_CONFIRMED"
        BY <2>4
      <3>2. Pending(w, mine) = 1
        BY <2>4 DEF Pending
      <3>3. CASE b = mine
        <4>1. row'[b].sub = "BREAKOUT_CONFIRMED" /\ row[b].sub # "BREAKOUT_CONFIRMED"
          BY <1>1, <1>2, <3>1, <3>3 DEF TypeOK
        <4>2. owed'[b] = owed[b] - 1
          BY <1>1, <3>1, <3>3 DEF TypeOK
        <4>3. Pending(w, b) = 1
          BY <3>2, <3>3
        <4> QED
          BY <2>1, <2>2, <4>1, <4>2, <4>3
      <3>4. CASE b # mine
        <4>1. row'[b] = row[b] /\ owed'[b] = owed[b]
          BY <1>2, <3>1, <3>4 DEF TypeOK
        <4> QED
          BY <2>1, <2>2, <4>1
      <3> QED
        BY <3>3, <3>4
    <2> QED
      BY <2>3, <2>4
  <1>9. owed' \in [Box -> Nat]
    <2>1. \E f : owed' = [b \in Box |-> f[b]]
      BY DEF TypeOK
    <2> QED
      BY <1>8, <2>1
  <1>10. RecordInv'
    <2> SUFFICES ASSUME NEW v \in Evaluator
                 PROVE  (/\ ~At(v, "idle") => ev[v].box \in Box
                         /\ (At(v, "judge") \/ At(v, "confirm")) =>
                               /\ Exists(ev[v].box)
                               /\ ev[v].rec.sub \in Substate
                               /\ ev[v].rec.version <= row[ev[v].box].version
                               /\ Current(v) => ev[v].rec.sub = row[ev[v].box].sub
                         /\ At(v, "confirm") => ev[v].rec.sub \in Evaluated)'
      BY DEF RecordInv
    <2>1. CASE v = w
      BY <2>1 DEF At, Return, Idle, TypeOK
    <2>2. CASE v # w
      <3>1. ev'[v] = ev[v]
        BY <2>2 DEF Return, TypeOK
      <3>2. /\ ~At(v, "idle") => ev[v].box \in Box
            /\ (At(v, "judge") \/ At(v, "confirm")) =>
                  /\ Exists(ev[v].box)
                  /\ ev[v].rec.sub \in Substate
                  /\ ev[v].rec.version <= row[ev[v].box].version
                  /\ Current(v) => ev[v].rec.sub = row[ev[v].box].sub
            /\ At(v, "confirm") => ev[v].rec.sub \in Evaluated
        BY DEF RecordInv
      <3>3. ev[v].rec.version \in Nat
        BY DEF TypeOK, Evaluation, Row
      <3>4. CASE ev[v].box = mine
        <4>1. row'[mine].sub = s /\ row'[mine].version = row[mine].version + 1
          BY <1>1, <1>2 DEF TypeOK
        <4>2. s # "NONE"
          BY DEF Substate, Live, Handled
        <4> QED
          BY <1>3, <3>1, <3>2, <3>3, <3>4, <4>1, <4>2 DEF At, Exists, Current
      <3>5. CASE ev[v].box # mine
        <4>1. ev[v].box \in Box => row'[ev[v].box] = row[ev[v].box]
          BY <1>2, <3>5 DEF TypeOK
        <4> QED
          BY <3>1, <3>2, <4>1 DEF At, Exists, Current
      <3> QED
        BY <3>4, <3>5
    <2> QED
      BY <2>1, <2>2
  <1>11. TypeOK'
    BY <1>3, <1>5, <1>9, Zenon DEF TypeOK, worldVars
  <1> QED
    BY <1>8, <1>10, <1>11 DEF OwedInv, AlertsAccounted

LEMMA IdleType == Idle \in Evaluation
  BY WatchlistAssumption DEF Idle, Evaluation, PC, Row, NoRow, Day

\* The steps before the judgement: they read, and write nothing but their own record.
LEMMA ReadStep ==
  ASSUME Inv, NEW w \in Evaluator,
         \/ \E b \in Box : Begin(w, b)
         \/ FindActive(w) \/ FindNone(w) \/ Load(w) \/ LoadNone(w) \/ InsertFails(w)
         \/ TtlRaises(w) \/ AlertRefused(w) \/ ConfirmLost(w)
  PROVE  Inv'
  <1> USE DEF Inv
  <1>1. UNCHANGED <<row, worldVars, saved, owed>>
    BY DEF Begin, FindActive, FindNone, Load, LoadNone, InsertFails, TtlRaises, AlertRefused, ConfirmLost
  <1>2. ev[w] \in Evaluation /\ ev \in [Evaluator -> Evaluation] /\ today \in Day
    BY DEF TypeOK
  <1>3. ASSUME NEW v \in Evaluator, v # w PROVE ev'[v] = ev[v]
    BY <1>2, <1>3 DEF Begin, FindActive, FindNone, Load, LoadNone, InsertFails, TtlRaises,
          AlertRefused, ConfirmLost, Loaded, Goto, Return, ToConfirm
  <1>4. /\ ev' \in [Evaluator -> Evaluation]
        /\ \/ ev'[w] = Idle
           \/ /\ ev'[w].box \in Box
              /\ ev'[w].pc \in {"find", "load", "insert", "reload"}
           \/ /\ ev'[w].pc = "judge"
              /\ ev'[w].box \in Box
              /\ ev'[w].rec = row[ev'[w].box]
              /\ Exists(ev'[w].box)
           \/ /\ ev[w].pc = "judge" /\ ev'[w].pc = "confirm"
              /\ ev'[w].box = ev[w].box /\ ev'[w].rec = ev[w].rec
              /\ ev[w].rec.sub \in Evaluated
              /\ ev'[w].inserted = FALSE
    <2>1. CASE \E b \in Box : Begin(w, b)
      <3> PICK b \in Box : Begin(w, b)
        BY <2>1
      <3> DEFINE new == [pc |-> "find", box |-> b, rec |-> NoRow, day |-> today, inserted |-> FALSE]
      <3>1. ev' = [ev EXCEPT ![w] = new]
        BY DEF Begin
      <3>3. new \in Evaluation /\ new.box \in Box /\ new.pc = "find"
        <4>1. NoRow \in Row
          BY DEF NoRow, Row
        <4> QED
          BY <1>2, <4>1, Zenon DEF Evaluation, PC
      <3> QED
        BY <1>2, <3>1, <3>3
    <2>2. CASE \E b \in Box : Exists(b) /\ Loaded(w, b)
      <3> PICK b \in Box : Exists(b) /\ Loaded(w, b)
        BY <2>2
      <3> DEFINE new == [ev[w] EXCEPT !.pc = "judge", !.box = b, !.rec = row[b]]
      <3>1. ev' = [ev EXCEPT ![w] = new]
        BY <1>2 DEF Loaded
      <3>2. row[b] \in Row
        BY DEF TypeOK
      <3>3. new \in Evaluation
        BY <1>2, <3>2, Zenon DEF Evaluation, PC
      <3>4. new.pc = "judge" /\ new.box = b /\ new.rec = row[b]
        BY <1>2 DEF Evaluation
      <3> QED
        BY <1>2, <3>1, <3>3, <3>4
    <2>3. CASE \E l \in {"load", "insert", "reload"} : ~At(w, "idle") /\ Goto(w, l)
      <3> PICK l \in {"load", "insert", "reload"} : ~At(w, "idle") /\ Goto(w, l)
        BY <2>3
      <3> DEFINE new == [ev[w] EXCEPT !.pc = l]
      <3>1. ev' = [ev EXCEPT ![w] = new]
        BY <1>2 DEF Goto
      <3>2. new \in Evaluation
        BY <1>2, Zenon DEF Evaluation, PC
      <3>3. new.pc = l /\ new.box = ev[w].box
        BY <1>2 DEF Evaluation
      <3>4. ev[w].box \in Box
        BY DEF RecordInv
      <3> QED
        BY <1>2, <3>1, <3>2, <3>3, <3>4
    <2>4. CASE Return(w)
      BY <1>2, <2>4, IdleType DEF Return
    <2>5. CASE AlertRefused(w)
      <3> DEFINE new == [ev[w] EXCEPT !.pc = "confirm", !.inserted = FALSE]
      <3>1. ev' = [ev EXCEPT ![w] = new] /\ ev[w].pc = "judge" /\ ev[w].rec.sub \in Evaluated
        BY <1>2, <2>5 DEF AlertRefused, ToConfirm, At
      <3>2. new \in Evaluation
        BY <1>2, Zenon DEF Evaluation, PC
      <3>3. /\ new.pc = "confirm" /\ new.box = ev[w].box
            /\ new.rec = ev[w].rec /\ new.inserted = FALSE
        BY <1>2 DEF Evaluation
      <3> QED
        BY <1>2, <3>1, <3>2, <3>3
    <2>6. CASE FindActive(w) \/ Load(w)
      <3>1. CASE FindActive(w)
        <4> PICK b \in Box : row[b].sub \in Substate \ {"INVALIDATED"} /\ Loaded(w, b)
          BY <3>1 DEF FindActive
        <4>1. Exists(b)
          BY DEF Exists, Substate, Live, Handled
        <4> QED
          BY <2>2, <4>1
      <3>2. CASE Load(w)
        <4>1. ev[w].box \in Box
          BY <3>2 DEF Load, RecordInv, At
        <4> QED
          BY <2>2, <3>2, <4>1 DEF Load
      <3> QED
        BY <2>6, <3>1, <3>2
    <2>7. CASE FindNone(w) \/ LoadNone(w) \/ InsertFails(w)
      BY <2>3, <2>4, <2>7 DEF FindNone, LoadNone, InsertFails, At
    <2>8. CASE TtlRaises(w) \/ ConfirmLost(w)
      BY <2>4, <2>8 DEF TtlRaises, ConfirmLost
    <2> QED
      BY <2>1, <2>5, <2>6, <2>7, <2>8
  <1> HIDE DEF Inv
  <1>5. today' \in Day /\ open' \in BOOLEAN /\ alerted' \subseteq Day
    BY <1>1, Zenon DEF TypeOK, worldVars, Inv
  <1> QED
    BY <1>1, <1>3, <1>4, <1>5, QuietStep

\* From substate x to substate s: within a stage, or along an edge of BoxLife.
Edge(x, s) ==
  \/ StageOf(s) = StageOf(x)
  \/ StageOf(s) \in Abstract!Next_of[StageOf(x)]

\* The substates an evaluation may write, given what it loaded.
LEMMA FinishStep ==
  ASSUME Inv, NEW w \in Evaluator,
         Stamp(w) \/ Invalidate(w) \/ Arm(w) \/ RegisterAttempt(w)
  PROVE  /\ Inv'
         /\ \/ UNCHANGED row
            \/ \E b \in Box, s \in Substate :
                  /\ row' = [row EXCEPT ![b] = [sub |-> s, version |-> row[b].version + 1]]
                  /\ Edge(row[b].sub, s)
  <1> USE DEF Inv
  <1>1. PICK s \in Substate : /\ Finish(w, s)
                              /\ Edge(ev[w].rec.sub, s)
                              /\ ev[w].rec.sub = "BREAKOUT_CONFIRMED" => s = "BREAKOUT_CONFIRMED"
    BY DEF Stamp, Invalidate, Arm, RegisterAttempt, Substate, Live, Handled, Evaluated, Abstract!Next_of, Edge, StageOf
  <1>2. /\ At(w, "judge") /\ ~At(w, "idle") /\ Exists(ev[w].box) /\ ev[w].box \in Box
        /\ Return(w) /\ UNCHANGED <<worldVars, saved, owed>>
        /\ Current(w) => ev[w].rec.sub = row[ev[w].box].sub
    BY <1>1 DEF Finish, RecordInv, At
  <1>3. CASE UNCHANGED row
    <2>1. ev' \in [Evaluator -> Evaluation] /\ \A v \in Evaluator : ev'[v] = ev[v] \/ ev'[v] = Idle
      BY <1>2, IdleType DEF Return, TypeOK
    <2>2. today' \in Day /\ open' \in BOOLEAN /\ alerted' \subseteq Day
      BY <1>2, Zenon DEF TypeOK, worldVars
    <2> HIDE DEF Inv
    <2>3. UNCHANGED <<row, saved, owed>>
      BY <1>2, <1>3
    <2>4. Inv'
      BY <2>1, <2>2, <2>3, QuietStep
    <2> QED
      BY <1>3, <2>4
  <1>4. CASE Current(w) /\ Put(w, s)
    <2>1. ev[w].rec.sub = row[ev[w].box].sub
      BY <1>2, <1>4
    <2>2. UNCHANGED <<worldVars, saved>> /\ owed' = owed
      BY <1>2
    <2>3. row[ev[w].box].sub = "BREAKOUT_CONFIRMED" => s = "BREAKOUT_CONFIRMED"
      BY <1>1, <2>1
    <2>4. Inv'
      <3> HIDE DEF Inv
      <3> QED
        BY <1>2, <1>4, <2>2, <2>3, WriteStep
    <2> QED
      BY <1>1, <1>2, <1>4, <2>1, <2>4 DEF Put
  <1> QED
    BY <1>1, <1>3, <1>4 DEF Finish

LEMMA ConfirmStep ==
  ASSUME Inv, NEW w \in Evaluator, Confirm(w)
  PROVE  /\ Inv'
         /\ \E b \in Box, s \in Substate :
               /\ row' = [row EXCEPT ![b] = [sub |-> s, version |-> row[b].version + 1]]
               /\ Edge(row[b].sub, s)
  <1> USE DEF Inv
  <1> DEFINE s == "BREAKOUT_CONFIRMED"
  <1>1. /\ At(w, "confirm") /\ ~At(w, "idle") /\ Exists(ev[w].box) /\ ev[w].box \in Box
        /\ Return(w) /\ UNCHANGED <<worldVars, saved>> /\ Put(w, s)
        /\ ev[w].rec.sub = row[ev[w].box].sub
        /\ row[ev[w].box].sub \in Evaluated
        /\ s \in Substate
    BY DEF Confirm, RecordInv, At, Substate, Handled
  <1>2. row[ev[w].box].sub # "BREAKOUT_CONFIRMED"
    BY <1>1 DEF Evaluated
  <1>3. \/ owed' = owed
        \/ /\ At(w, "confirm") /\ ev[w].inserted
           /\ owed' = [owed EXCEPT ![ev[w].box] = @ - 1]
           /\ row[ev[w].box].sub # "BREAKOUT_CONFIRMED" /\ s = "BREAKOUT_CONFIRMED"
    BY <1>1, <1>2 DEF Confirm
  <1>4. Inv'
    <2> HIDE DEF Inv
    <2> QED
      BY <1>1, <1>2, <1>3, WriteStep
  <1>5. Edge(row[ev[w].box].sub, s)
    BY <1>1 DEF Evaluated, Abstract!Next_of, Edge, StageOf, Live
  <1> QED
    BY <1>1, <1>4, <1>5 DEF Put

LEMMA InsertStep ==
  ASSUME Inv, NEW w \in Evaluator, Insert(w)
  PROVE  /\ Inv'
         /\ \/ UNCHANGED row
            \/ \E b \in Box : /\ row' = [row EXCEPT ![b] = [sub |-> "WATCHING", version |-> 1]]
                             /\ row[b].sub = "NONE"
  <1> DEFINE mine == ev[w].box
  <1>1. /\ At(w, "insert") /\ Goto(w, "reload") /\ UNCHANGED <<worldVars, saved, owed>>
        /\ mine \in Box /\ ev[w] \in Evaluation /\ ev \in [Evaluator -> Evaluation]
    BY DEF Insert, Inv, RecordInv, At, TypeOK
  <1> DEFINE new == [ev[w] EXCEPT !.pc = "reload"]
  <1>2. ev' = [ev EXCEPT ![w] = new]
    BY <1>1 DEF Goto
  <1>3. new \in Evaluation
    BY <1>1, Zenon DEF Evaluation, PC
  <1>4. new.pc = "reload" /\ new.box = mine
    BY <1>1 DEF Evaluation
  <1>5. today' \in Day /\ open' \in BOOLEAN /\ alerted' \subseteq Day
    BY <1>1, Zenon DEF TypeOK, worldVars, Inv
  <1>6. CASE Exists(mine)
    <2>1. UNCHANGED <<row, saved, owed>>
      BY <1>1, <1>6 DEF Insert
    <2>2. ev' \in [Evaluator -> Evaluation]
      BY <1>1, <1>2, <1>3
    <2>3. ev'[w].box \in Box /\ ev'[w].pc \in {"find", "load", "insert", "reload"}
          /\ \A v \in Evaluator : v # w => ev'[v] = ev[v]
      BY <1>1, <1>2, <1>4
    <2> QED
      BY <1>5, <2>1, <2>2, <2>3, QuietStep
  <1>7. CASE ~Exists(mine)
    <2> USE DEF Inv
    <2>1. row' = [row EXCEPT ![mine] = [sub |-> "WATCHING", version |-> 1]] /\ row[mine].sub = "NONE"
      BY <1>7 DEF Insert, Exists
    <2>2. row' \in [Box -> Row]
      BY <1>1, <2>1 DEF TypeOK, Row, Substate, Live
    <2>3. ev' \in [Evaluator -> Evaluation]
      BY <1>1, <1>2, <1>3
    <2>4. TypeOK'
      BY <1>1, <1>5, <2>2, <2>3, Zenon DEF TypeOK, worldVars
    <2>5. RecordInv'
      <3> SUFFICES ASSUME NEW v \in Evaluator
                   PROVE  (/\ ~At(v, "idle") => ev[v].box \in Box
                           /\ (At(v, "judge") \/ At(v, "confirm")) =>
                                 /\ Exists(ev[v].box)
                                 /\ ev[v].rec.sub \in Substate
                                 /\ ev[v].rec.version <= row[ev[v].box].version
                                 /\ Current(v) => ev[v].rec.sub = row[ev[v].box].sub
                           /\ At(v, "confirm") => ev[v].rec.sub \in Evaluated)'
        BY DEF RecordInv
      <3>1. CASE v = w
        BY <1>1, <1>2, <1>4, <3>1 DEF At
      <3>2. CASE v # w
        <4>1. ev'[v] = ev[v]
          BY <1>1, <1>2, <3>2
        <4>2. (At(v, "judge") \/ At(v, "confirm")) => ev[v].box # mine
          BY <1>7 DEF RecordInv
        <4>3. (At(v, "judge") \/ At(v, "confirm")) => row'[ev[v].box] = row[ev[v].box]
          BY <2>1, <4>2 DEF RecordInv, TypeOK, At
        <4> QED
          BY <4>1, <4>3 DEF RecordInv, At, Exists, Current
      <3> QED
        BY <3>1, <3>2
    <2>6. \A v \in Evaluator, b \in Box : Pending(v, b)' = Pending(v, b)
      BY <1>1, <1>2, <1>4 DEF Pending, At
    <2>7. OwedInv'
      BY <1>1, <2>6 DEF OwedInv, Evaluator
    <2>8. AlertsAccounted'
      <3> SUFFICES ASSUME NEW b \in Box
                   PROVE  saved[b] <= owed[b] + IF row'[b].sub = "BREAKOUT_CONFIRMED" THEN 1 ELSE 0
        BY <1>1 DEF AlertsAccounted
      <3>1. row'[b] = row[b] \/ row[b].sub = "NONE"
        BY <2>1 DEF TypeOK
      <3> QED
        BY <3>1 DEF AlertsAccounted, TypeOK
    <2> QED
      BY <1>1, <2>1, <2>4, <2>5, <2>7, <2>8
  <1> QED
    BY <1>6, <1>7

LEMMA SaveStep ==
  ASSUME Inv, NEW w \in Evaluator, SaveAlert(w)
  PROVE  Inv' /\ UNCHANGED row
  <1> USE DEF Inv
  <1> DEFINE mine == ev[w].box
             new == [ev[w] EXCEPT !.pc = "confirm", !.inserted = TRUE]
  <1>1. /\ At(w, "judge") /\ ev[w].rec.sub \in Evaluated /\ ev[w].day \in Day
        /\ open' = TRUE /\ alerted' = alerted \cup {ev[w].day} /\ UNCHANGED <<row, today>>
        /\ saved' = [saved EXCEPT ![mine] = @ + 1] /\ owed' = [owed EXCEPT ![mine] = @ + 1]
        /\ ev' = [ev EXCEPT ![w] = new]
        /\ mine \in Box /\ ev[w] \in Evaluation /\ ev \in [Evaluator -> Evaluation]
    <2>1. ev[w] \in Evaluation /\ ev \in [Evaluator -> Evaluation]
      BY DEF TypeOK
    <2>2. ev[w].day \in Day
      BY <2>1, Zenon DEF Evaluation
    <2>3. ev' = [ev EXCEPT ![w] = new]
      BY <2>1 DEF SaveAlert, ToConfirm
    <2> QED
      BY <2>1, <2>2, <2>3 DEF SaveAlert, RecordInv, At
  <1>2. new \in Evaluation
    BY <1>1, Zenon DEF Evaluation, PC
  <1>3. new.pc = "confirm" /\ new.box = mine /\ new.rec = ev[w].rec /\ new.inserted = TRUE
    BY <1>1 DEF Evaluation
  <1>4. TypeOK'
    <2>1. /\ ev' \in [Evaluator -> Evaluation]
          /\ saved' \in [Box -> Nat] /\ owed' \in [Box -> Nat]
      BY <1>1, <1>2 DEF TypeOK
    <2>2. open' \in BOOLEAN /\ alerted' \subseteq Day
      BY <1>1, Zenon DEF TypeOK
    <2> QED
      BY <1>1, <2>1, <2>2, Zenon DEF TypeOK
  <1>5. RecordInv'
    <2>1. \A v \in Evaluator : v # w => ev'[v] = ev[v]
      BY <1>1
    <2>2. ev'[w].pc = "confirm" /\ ev'[w].box = mine /\ ev'[w].rec = ev[w].rec
      BY <1>1, <1>3
    <2> QED
      BY <1>1, <2>1, <2>2 DEF RecordInv, At, Exists, Current
  <1>6. \A v \in Evaluator, b \in Box :
          Pending(v, b)' = IF v = w /\ b = mine THEN 1 ELSE Pending(v, b)
    BY <1>1, <1>3 DEF Pending, At
  <1>7. \A v \in Evaluator, b \in Box : Pending(v, b) \in {0, 1}
    BY DEF Pending
  <1>8. Pending(w, mine) = 0
    BY <1>1 DEF Pending, At
  <1>9. ASSUME NEW b \in Box
        PROVE  /\ (Pending(Cycle, b) + Pending(Monitor, b))' <= owed'[b]
               /\ saved'[b] <= owed'[b] + IF row[b].sub = "BREAKOUT_CONFIRMED" THEN 1 ELSE 0
    <2>1. /\ Pending(Cycle, b) + Pending(Monitor, b) <= owed[b]
          /\ owed[b] \in Nat /\ saved[b] \in Nat
          /\ saved[b] <= owed[b] + IF row[b].sub = "BREAKOUT_CONFIRMED" THEN 1 ELSE 0
      BY DEF OwedInv, AlertsAccounted, TypeOK
    <2>2. /\ Pending(Cycle, b)' = IF Cycle = w /\ b = mine THEN 1 ELSE Pending(Cycle, b)
          /\ Pending(Monitor, b)' = IF Monitor = w /\ b = mine THEN 1 ELSE Pending(Monitor, b)
          /\ Pending(Cycle, b) \in {0, 1} /\ Pending(Monitor, b) \in {0, 1}
          /\ Cycle # Monitor /\ (w = Cycle \/ w = Monitor)
      BY <1>6, <1>7, WatchlistAssumption DEF Evaluator
    <2>3. CASE b = mine
      <3>1. owed'[b] = owed[b] + 1 /\ saved'[b] = saved[b] + 1
        BY <1>1, <2>3 DEF TypeOK
      <3> QED
        BY <1>8, <2>1, <2>2, <2>3, <3>1
    <2>4. CASE b # mine
      <3>1. owed'[b] = owed[b] /\ saved'[b] = saved[b]
        BY <1>1, <2>4 DEF TypeOK
      <3> QED
        BY <2>1, <2>2, <2>4, <3>1
    <2> QED
      BY <2>3, <2>4
  <1> QED
    BY <1>1, <1>4, <1>5, <1>9 DEF OwedInv, AlertsAccounted

\* The world's steps leave rows and records alone, or drop the records.
LEMMA WorldStep ==
  ASSUME Inv, NextDay \/ AlertMoves \/ Crash \/ UNCHANGED vars
  PROVE  Inv' /\ UNCHANGED row
  <1>1. UNCHANGED <<row, saved, owed>>
    BY DEF NextDay, AlertMoves, Crash, vars
  <1>2. /\ ev' \in [Evaluator -> Evaluation]
        /\ \A v \in Evaluator : ev'[v] = ev[v] \/ ev'[v] = Idle
    BY IdleType DEF NextDay, AlertMoves, Crash, vars, Inv, TypeOK
  <1>3. today' \in Day
    BY WatchlistAssumption DEF NextDay, AlertMoves, Crash, vars, worldVars, Inv, TypeOK, Day
  <1>4. open' \in BOOLEAN /\ alerted' \subseteq Day
    BY Zenon DEF NextDay, AlertMoves, Crash, vars, worldVars, Inv, TypeOK
  <1> QED
    BY <1>1, <1>2, <1>3, <1>4, QuietStep

\* One step: the invariant, and an edge of BoxLife or a stutter.
LEMMA NextStep ==
  ASSUME Inv, [Next]_vars
  PROVE  Inv' /\ [Abstract!Next]_[b \in Box |-> StageOf(row[b].sub)]
  <1> DEFINE life == [b \in Box |-> StageOf(row[b].sub)]
  <1>1. CASE RunCycle \/ RunMonitor
    <2>1. PICK w \in Evaluator : \E b \in Box : Begin(w, b)
      BY <1>1 DEF RunCycle, RunMonitor, Evaluator
    <2>2. UNCHANGED row
      BY <2>1 DEF Begin
    <2> QED
      BY <2>1, <2>2, ReadStep
  <1>2. ASSUME NEW w \in Evaluator,
               \/ FindActive(w) \/ FindNone(w) \/ Load(w) \/ LoadNone(w) \/ InsertFails(w)
               \/ TtlRaises(w) \/ AlertRefused(w) \/ ConfirmLost(w)
        PROVE  Inv' /\ UNCHANGED row
    <2>1. Inv'
      BY <1>2, ReadStep
    <2> QED
      BY <1>2, <2>1 DEF FindActive, FindNone, Load, LoadNone, InsertFails, TtlRaises, AlertRefused, ConfirmLost
  <1>3. ASSUME NEW b \in Box, NEW s \in Substate, NEW n,
               row' = [row EXCEPT ![b] = [sub |-> s, version |-> n]],
               Edge(row[b].sub, s)
        PROVE  [Abstract!Next]_life
    <2>1. life' = [life EXCEPT ![b] = StageOf(s)]
      <3>1. row \in [Box -> Row]
        BY DEF Inv, TypeOK
      <3>2. \A c \in Box : row'[c].sub = IF c = b THEN s ELSE row[c].sub
        BY <1>3, <3>1
      <3> QED
        BY <3>2
    <2>2. CASE StageOf(s) = StageOf(row[b].sub)
      BY <2>1, <2>2
    <2>3. CASE StageOf(s) \in Abstract!Next_of[StageOf(row[b].sub)]
      <3>1. Abstract!Advance(b)
        BY <2>1, <2>3 DEF Abstract!Advance
      <3> QED
        BY <3>1 DEF Abstract!Next
    <2> QED
      BY <1>3, <2>2, <2>3 DEF Edge
  <1>4. ASSUME NEW w \in Evaluator, Stamp(w) \/ Invalidate(w) \/ Arm(w) \/ RegisterAttempt(w)
        PROVE  Inv' /\ [Abstract!Next]_life
    <2>1. /\ Inv'
          /\ \/ UNCHANGED row
             \/ \E b \in Box, s \in Substate :
                   /\ row' = [row EXCEPT ![b] = [sub |-> s, version |-> row[b].version + 1]]
                   /\ Edge(row[b].sub, s)
      BY <1>4, FinishStep
    <2> QED
      BY <1>3, <2>1
  <1>5. ASSUME NEW w \in Evaluator, Confirm(w) PROVE Inv' /\ [Abstract!Next]_life
    <2>1. /\ Inv'
          /\ \E b \in Box, s \in Substate :
                /\ row' = [row EXCEPT ![b] = [sub |-> s, version |-> row[b].version + 1]]
                /\ Edge(row[b].sub, s)
      BY <1>5, ConfirmStep
    <2> QED
      BY <1>3, <2>1
  <1>6. ASSUME NEW w \in Evaluator, Insert(w) PROVE Inv' /\ [Abstract!Next]_life
    <2>1. /\ Inv'
          /\ \/ UNCHANGED row
             \/ \E b \in Box : /\ row' = [row EXCEPT ![b] = [sub |-> "WATCHING", version |-> 1]]
                              /\ row[b].sub = "NONE"
      BY <1>6, InsertStep
    <2>2. Edge("NONE", "WATCHING") /\ "WATCHING" \in Substate
      BY DEF Edge, StageOf, Abstract!Next_of, Substate, Live
    <2> QED
      BY <1>3, <2>1, <2>2
  <1>7. ASSUME NEW w \in Evaluator, SaveAlert(w) PROVE Inv' /\ UNCHANGED row
    BY <1>7, SaveStep
  <1>8. CASE NextDay \/ AlertMoves \/ Crash \/ UNCHANGED vars
    BY <1>8, WorldStep
  <1> QED
    BY <1>1, <1>2, <1>4, <1>5, <1>6, <1>7, <1>8 DEF Next, Step

-----------------------------------------------------------------------------
LEMMA Invariance == Spec => []Inv
  <1>1. Init => Inv
    BY InitInv
  <1>2. Inv /\ [Next]_vars => Inv'
    BY NextStep
  <1> QED
    BY <1>1, <1>2, PTL DEF Spec

\* Every state of every behaviour is of its type.
THEOREM WatchlistTypes == Spec => []TypeOK
  <1>1. Inv => TypeOK
    BY DEF Inv
  <1> QED
    BY <1>1, Invariance, PTL

\* For any number of boxes, days and writes, the alerts a box has had beyond the
\* first are the ones whose confirmation its row never received.
THEOREM AlertsAreAccounted == Spec => []AlertsAccounted
  <1>1. Inv => AlertsAccounted
    BY DEF Inv
  <1> QED
    BY <1>1, Invariance, PTL

\* The watchlist, with its two evaluators, failing statements and crashes,
\* implements the life of its boxes.
THEOREM WatchlistRefinesBoxLife == Spec => RefinesBoxLife
  <1>1. ASSUME Init PROVE Abstract!Init
    <2>1. ASSUME NEW b \in Box PROVE StageOf(row[b].sub) = "NONE"
      <3>1. row[b].sub = "NONE"
        BY <1>1 DEF Init, NoRow
      <3> QED
        BY <3>1 DEF StageOf, Live
    <2> QED
      BY <2>1, Zenon DEF Abstract!Init
  <1>2. Inv /\ [Next]_vars => [Abstract!Next]_[b \in Box |-> StageOf(row[b].sub)]
    BY NextStep
  <1> QED
    BY <1>1, <1>2, Invariance, PTL DEF Spec, RefinesBoxLife, Abstract!Spec
=============================================================================
