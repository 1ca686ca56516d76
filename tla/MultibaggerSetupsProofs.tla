----------------------- MODULE MultibaggerSetupsProofs -----------------------
(***************************************************************************)
(* The setups keep their types, one armed setup for a symbol whose setups  *)
(* were never overlooked, and the bounds on the sessions of a setup and on *)
(* the positions of a symbol, for any symbols, ages, days and failures.    *)
(*                                                                         *)
(* The strengthening says what the scan knows of the record it works on    *)
(* (WorkInv), counts the dates against the age of the row, or of the       *)
(* record while the scan holds one (DatesInv), and leaves room for the     *)
(* alert that a scan may still insert (PosInv).  An action touches one     *)
(* symbol; the invariant of the others carries over (Frame).               *)
(***************************************************************************)
EXTENDS MultibaggerSetups, FiniteSetTheorems, TLAPS

Live == {"ARMED_BUY_ZONE", "TRIGGER_CANDIDATE"}

WorkInv(s) ==
    /\ ~scanning => At(s, "done")
    /\ At(s, "armed") =>
          /\ ev[s].age <= MaxAge
          /\ s \notin blind => \A d \in Day : Armed(s, d) => d = ev[s].setup

OneInv(s) == s \notin blind => \A d, e \in Day : Armed(s, d) /\ Armed(s, e) => d = e

AgeInv(s) == \A d \in Day : setup[s][d].state \in Live \cup {"ALERT_TRIGGERED"} => setup[s][d].age <= MaxAge

WorksOn(s, d) == At(s, "armed") /\ ev[s].setup = d

\* The dates of a row and the one it bears are counted by its age and the failures.
RowCounts(s, d) == Cardinality(seen[s][d] \cup {setup[s][d].last}) <= setup[s][d].age + 1 + faults

\* So are those of the record, and those of the row if the evaluation is not written.
RecordCounts(s, d) ==
    /\ Cardinality(seen[s][d] \cup {ev[s].last}) <= ev[s].age + 1 + faults
    /\ Cardinality((seen[s][d] \cup {ev[s].on}) \cup {setup[s][d].last}) <= setup[s][d].age + 2 + faults

DatesInv(s) == \A d \in Day :
    /\ setup[s][d].state = "none" => seen[s][d] = {}
    /\ WorksOn(s, d) => RecordCounts(s, d)
    /\ ~WorksOn(s, d) => RowCounts(s, d)

PosInv(s) ==
    /\ open[s] + review[s] <= 1 + faults
    /\ ev[s].pc \in {"ready", "armed", "candidate"} /\ s \notin held => open[s] + review[s] <= faults
    /\ At(s, "candidate") => s \notin held

SymbolInv(s) == WorkInv(s) /\ OneInv(s) /\ AgeInv(s) /\ DatesInv(s) /\ PosInv(s)

Inv == TypeOK /\ \A s \in Symbol : SymbolInv(s)

-----------------------------------------------------------------------------
\* A date more is one more at most.
LEMMA Dates ==
  ASSUME NEW S \in SUBSET Day, NEW x \in Day
  PROVE  /\ Cardinality(S) \in Nat /\ Cardinality(S \cup {x}) \in Nat
         /\ Cardinality(S) <= Cardinality(S \cup {x})
         /\ Cardinality(S \cup {x}) <= Cardinality(S) + 1
         /\ S = {} => Cardinality(S \cup {x}) = 1
  <1>1. IsFiniteSet(Day)
    BY SetupAssumption, FS_Interval DEF Day
  <1>2. IsFiniteSet(S)
    BY <1>1, FS_Subset
  <1>3. Cardinality(S) \in Nat
    BY <1>2, FS_CardinalityType
  <1>4. Cardinality(S \cup {x}) = Cardinality(S) \/ Cardinality(S \cup {x}) = Cardinality(S) + 1
    BY <1>2, FS_AddElement
  <1>5. S = {} => Cardinality(S \cup {x}) = 1
    BY FS_Singleton
  <1> QED
    BY <1>3, <1>4, <1>5

LEMMA InitInv == Init => Inv
  <1> SUFFICES ASSUME Init PROVE Inv
    OBVIOUS
  <1> USE SetupAssumption DEF Init
  <1>1. 0 \in Day
    BY DEF Day
  <1>2. NoRow \in Row /\ Done \in Work
    BY <1>1 DEF NoRow, Row, Done, Work
  <1>3. TypeOK
    BY <1>1, <1>2 DEF TypeOK
  <1>4. ASSUME NEW s \in Symbol PROVE SymbolInv(s)
    <2>1. WorkInv(s) /\ OneInv(s) /\ AgeInv(s) /\ PosInv(s)
      BY DEF WorkInv, OneInv, AgeInv, PosInv, At, Armed, Done, NoRow, Live
    <2>2. ASSUME NEW d \in Day PROVE ~WorksOn(s, d) /\ RowCounts(s, d) /\ seen[s][d] = {}
      <3>1. ev[s].pc = "done" /\ seen[s][d] = {} /\ setup[s][d].last = 0 /\ setup[s][d].age = 0 /\ faults = 0
        BY DEF Done, NoRow
      <3>2. Cardinality({} \cup {0}) = 1
        BY <1>1, Dates
      <3>3. seen[s][d] \cup {setup[s][d].last} = {} \cup {0}
        BY <3>1
      <3>4. RowCounts(s, d)
        <4> HIDE DEF Init
        <4> QED
          BY <3>1, <3>2, <3>3 DEF RowCounts
      <3> QED
        BY <3>1, <3>4 DEF WorksOn, At
    <2> QED
      BY <2>1, <2>2 DEF SymbolInv, DatesInv
  <1> QED
    BY <1>3, <1>4 DEF Inv

\* What a symbol's rows and record are made of.
LEMMA Parts ==
  ASSUME TypeOK, NEW s \in Symbol
  PROVE  /\ setup[s] \in [Day -> Row]
         /\ \A d \in Day : /\ setup[s][d] \in Row
                           /\ setup[s][d].age \in Nat /\ setup[s][d].order \in Nat
                           /\ setup[s][d].last \in Day
                           /\ seen[s][d] \in SUBSET Day
         /\ ev[s] \in Work
         /\ ev[s].setup \in Day /\ ev[s].age \in Nat /\ ev[s].last \in Day /\ ev[s].on \in Day
         /\ open[s] \in Nat /\ review[s] \in Nat /\ faults \in Nat
  <1>1. setup[s] \in [Day -> Row] /\ ev[s] \in Work /\ seen[s] \in [Day -> SUBSET Day]
    BY DEF TypeOK
  <1>2. \A d \in Day : setup[s][d] \in Row /\ seen[s][d] \in SUBSET Day
    BY <1>1
  <1> QED
    BY <1>1, <1>2 DEF TypeOK, Row, Work

\* The record of a symbol that is not worked on.
LEMMA Records ==
  /\ Done \in Work /\ Ready \in Work
  /\ \A w \in Work, pc \in {"candidate", "inserted"} :
        [w EXCEPT !.pc = pc] \in Work /\ [w EXCEPT !.pc = pc].pc = pc
  <1>1. 0 \in Day
    BY SetupAssumption DEF Day
  <1> QED
    BY <1>1 DEF Done, Ready, Work

\* The rows of a symbol are finitely many.
LEMMA Count == ASSUME NEW s \in Symbol PROVE Cardinality({d \in Day : setup[s][d].state # "none"}) \in Nat
  <1>1. IsFiniteSet(Day)
    BY SetupAssumption, FS_Interval DEF Day
  <1> QED
    BY <1>1, FS_Subset, FS_CardinalityType

LEMMA FaultTypes == ASSUME TypeOK, Works \/ Fails PROVE faults' \in Nat /\ faults <= faults'
  BY DEF TypeOK, Works, Fails

\* What an action that works on one symbol leaves alone.
Frame(s) ==
    /\ faults <= faults' /\ faults' \in Nat
    /\ \A x \in Symbol \ {s} :
          /\ setup'[x] = setup[x] /\ ev'[x] = ev[x] /\ seen'[x] = seen[x]
          /\ open'[x] = open[x] /\ review'[x] = review[x]
          /\ (x \in blind') = (x \in blind)

\* More failures leave the counts of a row and its record within their bounds.
LEMMA MoreFaults ==
  ASSUME TypeOK, NEW s \in Symbol, SymbolInv(s), faults <= faults', faults' \in Nat,
         setup'[s] = setup[s], ev'[s] = ev[s], seen'[s] = seen[s]
  PROVE  DatesInv(s)'
  <1> SUFFICES ASSUME NEW d \in Day
               PROVE  /\ setup'[s][d].state = "none" => seen'[s][d] = {}
                      /\ WorksOn(s, d)' => RecordCounts(s, d)'
                      /\ ~WorksOn(s, d)' => RowCounts(s, d)'
    BY DEF DatesInv
  <1> DEFINE a == Cardinality(seen[s][d] \cup {setup[s][d].last})
             b == Cardinality(seen[s][d] \cup {ev[s].last})
             c == Cardinality((seen[s][d] \cup {ev[s].on}) \cup {setup[s][d].last})
  <1>1. /\ setup[s][d].age \in Nat /\ setup[s][d].last \in Day /\ seen[s][d] \in SUBSET Day
        /\ ev[s].age \in Nat /\ ev[s].last \in Day /\ ev[s].on \in Day /\ faults \in Nat
    BY Parts
  <1>2. a \in Nat /\ b \in Nat /\ c \in Nat
    <2>1. seen[s][d] \cup {ev[s].on} \in SUBSET Day
      BY <1>1
    <2> QED
      BY <1>1, <2>1, Dates
  <1>3. /\ setup[s][d].state = "none" => seen[s][d] = {}
        /\ WorksOn(s, d) => b <= ev[s].age + 1 + faults /\ c <= setup[s][d].age + 2 + faults
        /\ ~WorksOn(s, d) => a <= setup[s][d].age + 1 + faults
    BY DEF SymbolInv, DatesInv, RecordCounts, RowCounts
  <1>4. WorksOn(s, d)' = WorksOn(s, d)
    BY DEF WorksOn, At
  <1>5. /\ RecordCounts(s, d)' = (b <= ev[s].age + 1 + faults' /\ c <= setup[s][d].age + 2 + faults')
        /\ RowCounts(s, d)' = (a <= setup[s][d].age + 1 + faults')
    BY DEF RecordCounts, RowCounts
  <1> HIDE DEF a, b, c
  <1>6. setup'[s][d].state = "none" => seen'[s][d] = {}
    BY <1>3
  <1>7. ASSUME WorksOn(s, d) PROVE RecordCounts(s, d)'
    <2>1. b <= ev[s].age + 1 + faults' /\ c <= setup[s][d].age + 2 + faults'
      BY <1>1, <1>2, <1>3, <1>7
    <2> QED
      BY <1>5, <2>1
  <1>8. ASSUME ~WorksOn(s, d) PROVE RowCounts(s, d)'
    <2>1. a <= setup[s][d].age + 1 + faults'
      BY <1>1, <1>2, <1>3, <1>8
    <2> QED
      BY <1>5, <2>1
  <1> QED
    BY <1>4, <1>6, <1>7, <1>8

\* A symbol's invariant depends on nothing else.
LEMMA FrameInv ==
  ASSUME TypeOK, NEW s \in Symbol, NEW x \in Symbol \ {s}, SymbolInv(x), Frame(s),
         scanning' = scanning, held' = held
  PROVE  SymbolInv(x)'
  <1>1. /\ setup'[x] = setup[x] /\ ev'[x] = ev[x] /\ seen'[x] = seen[x]
        /\ open'[x] = open[x] /\ review'[x] = review[x]
        /\ (x \in blind') = (x \in blind) /\ faults <= faults' /\ faults' \in Nat
    BY DEF Frame
  <1>2. WorkInv(x)'
    BY <1>1 DEF SymbolInv, WorkInv, At, Armed
  <1>3. OneInv(x)' /\ AgeInv(x)'
    BY <1>1 DEF SymbolInv, OneInv, AgeInv, Armed
  <1>4. DatesInv(x)'
    BY <1>1, MoreFaults
  <1>5. open[x] \in Nat /\ review[x] \in Nat /\ faults \in Nat
    BY Parts
  <1>6. PosInv(x)'
    BY <1>1, <1>5 DEF SymbolInv, PosInv, At
  <1> QED
    BY <1>2, <1>3, <1>4, <1>6 DEF SymbolInv

\* A row is replaced by another.
LEMMA PutRow ==
  ASSUME TypeOK, NEW s \in Symbol, NEW d \in Day, NEW r \in Row,
         setup' = [setup EXCEPT ![s][d] = r]
  PROVE  /\ setup' \in [Symbol -> [Day -> Row]]
         /\ \A x \in Symbol \ {s} : setup'[x] = setup[x]
         /\ \A e \in Day \ {d} : setup'[s][e] = setup[s][e]
         /\ setup'[s][d] = r
  <1>1. setup \in [Symbol -> [Day -> Row]] /\ setup[s] \in [Day -> Row]
    BY DEF TypeOK
  <1>2. setup' = [setup EXCEPT ![s] = [setup[s] EXCEPT ![d] = r]]
    OBVIOUS
  <1>3. [setup[s] EXCEPT ![d] = r] \in [Day -> Row]
    BY <1>1
  <1> QED
    BY <1>1, <1>2, <1>3

\* The updates of single columns, as rows.
LEMMA Columns ==
  ASSUME NEW r \in Row
  PROVE  /\ \A t \in Day : /\ [r EXCEPT !.last = t] \in Row
                           /\ [r EXCEPT !.last = t].state = r.state
                           /\ [r EXCEPT !.last = t].age = r.age
         /\ /\ [r EXCEPT !.state = "ALERT_TRIGGERED"] \in Row
            /\ [r EXCEPT !.state = "ALERT_TRIGGERED"].state = "ALERT_TRIGGERED"
            /\ [r EXCEPT !.state = "ALERT_TRIGGERED"].age = r.age
            /\ [r EXCEPT !.state = "ALERT_TRIGGERED"].last = r.last
  BY DEF Row, Dead

\* The date of a row is moved on: nothing else of it changes.
LEMMA PutLast ==
  ASSUME TypeOK, NEW s \in Symbol, NEW d \in Day, NEW t \in Day,
         NEW r, r = [setup[s][d] EXCEPT !.last = t], setup' = [setup EXCEPT ![s][d] = r]
  PROVE  /\ setup' \in [Symbol -> [Day -> Row]]
         /\ \A x \in Symbol \ {s} : setup'[x] = setup[x]
         /\ \A e \in Day \ {d} : setup'[s][e] = setup[s][e]
         /\ setup'[s][d].state = setup[s][d].state /\ setup'[s][d].age = setup[s][d].age
         /\ setup'[s][d].last = t
  <1>1. r \in Row /\ r.state = setup[s][d].state /\ r.age = setup[s][d].age /\ r.last = t
    <2>1. setup[s][d] \in Row
      BY Parts
    <2> QED
      BY <2>1, Columns DEF Row
  <1>2. /\ setup' \in [Symbol -> [Day -> Row]]
        /\ \A x \in Symbol \ {s} : setup'[x] = setup[x]
        /\ \A e \in Day \ {d} : setup'[s][e] = setup[s][e]
        /\ setup'[s][d] = r
    BY <1>1, PutRow, Zenon
  <1> QED
    BY <1>1, <1>2, Zenon

\* The insertion: a new row is armed, any other row of the symbol keeps its state.
LEMMA UpsertEffect ==
  ASSUME TypeOK, NEW s \in Symbol, NEW t \in Day, Upsert(s, t)
  PROVE  /\ setup' \in [Symbol -> [Day -> Row]]
         /\ \A x \in Symbol \ {s} : setup'[x] = setup[x]
         /\ \A e \in Day \ {t} : setup'[s][e] = setup[s][e]
         /\ \/ setup[s][t].state = "none" /\ setup'[s][t].state = "ARMED_BUY_ZONE" /\ setup'[s][t].age = 0
            \/ setup'[s][t].state = setup[s][t].state /\ setup'[s][t].age = setup[s][t].age
  <1> DEFINE n == Cardinality({d \in Day : setup[s][d].state # "none"})
  <1> DEFINE r == [state |-> "ARMED_BUY_ZONE", age |-> 0, last |-> t, order |-> n]
  <1>1. CASE setup[s][t].state = "none"
    <2>1. n \in Nat
      BY Count
    <2> HIDE DEF n
    <2>2. r \in Row /\ r.state = "ARMED_BUY_ZONE" /\ r.age = 0
      BY <2>1 DEF Row
    <2>3. setup' = [setup EXCEPT ![s][t] = r]
      BY <1>1 DEF Upsert, n
    <2> HIDE DEF r
    <2> QED
      BY <1>1, <2>2, <2>3, PutRow
  <1>2. CASE setup[s][t].state # "none"
    <2>1. setup' = [setup EXCEPT ![s][t].last = t]
      BY <1>2 DEF Upsert
    <2> DEFINE q == [setup[s][t] EXCEPT !.last = t]
    <2>2. setup' = [setup EXCEPT ![s][t] = q]
      BY <2>1
    <2>3. q = [setup[s][t] EXCEPT !.last = t]
      OBVIOUS
    <2> HIDE DEF q
    <2> QED
      BY <2>2, <2>3, PutLast, Zenon
  <1> QED
    BY <1>1, <1>2

LEMMA TradeDates == \A t \in TradeDate : t \in Day
  BY DEF TradeDate

\* The record that arm_setup returns.
LEMMA RecordEffect ==
  ASSUME TypeOK, NEW s \in Symbol, NEW d \in Day, NEW age \in Nat, NEW last \in Day, NEW t \in Day,
         Record(s, d, age, last, t)
  PROVE  /\ ev' \in [Symbol -> Work]
         /\ \A x \in Symbol \ {s} : ev'[x] = ev[x]
         /\ ev'[s].pc = "armed" /\ ev'[s].setup = d /\ ev'[s].age = age /\ ev'[s].last = last /\ ev'[s].on = t
  <1> DEFINE w == [pc |-> "armed", setup |-> d, age |-> age, last |-> last, on |-> t]
  <1>1. w \in Work /\ ev' = [ev EXCEPT ![s] = w] /\ ev \in [Symbol -> Work]
    BY DEF Work, Record, TypeOK
  <1> QED
    BY <1>1

\* A row that the action does not touch, and that the scan neither works on before nor
\* after, keeps within its bounds.
LEMMA OtherRow ==
  ASSUME TypeOK, NEW s \in Symbol, NEW d \in Day, SymbolInv(s), faults <= faults', faults' \in Nat,
         seen'[s][d] = seen[s][d], setup'[s][d].age = setup[s][d].age, setup'[s][d].last = setup[s][d].last,
         ~WorksOn(s, d), ~WorksOn(s, d)'
  PROVE  RowCounts(s, d)'
  <1> DEFINE a == Cardinality(seen[s][d] \cup {setup[s][d].last})
  <1>1. a \in Nat /\ setup[s][d].age \in Nat /\ faults \in Nat
    BY Parts, Dates
  <1>2. a <= setup[s][d].age + 1 + faults
    BY DEF SymbolInv, DatesInv, RowCounts
  <1>3. RowCounts(s, d)' = (a <= setup[s][d].age + 1 + faults')
    BY DEF RowCounts
  <1> HIDE DEF a
  <1>4. a <= setup[s][d].age + 1 + faults'
    BY <1>1, <1>2
  <1> QED
    BY <1>3, <1>4

-----------------------------------------------------------------------------
(* One lemma for each action on a symbol: types, frame, the symbol itself.  *)

Step(s) == TypeOK' /\ Frame(s) /\ SymbolInv(s)' /\ scanning' = scanning /\ held' = held

LEMMA QuietSteps ==
  ASSUME Inv, NEW s \in Symbol, Skip(s) \/ Drop(s)
  PROVE  Step(s)
  <1>1. ev' = [ev EXCEPT ![s] = Done] /\ UNCHANGED <<day, setup, scanning, held, alerts, blind, seen, faults>>
    BY DEF Skip, Drop
  <1>2. open' = open /\ review' = review
    BY <1>1 DEF alerts
  <1>3. TypeOK /\ SymbolInv(s) /\ ev[s].pc \in {"ready", "candidate"}
    BY DEF Inv, Skip, Drop, At
  <1>4. ev' \in [Symbol -> Work] /\ ev'[s] = Done /\ Done.pc = "done" /\ \A x \in Symbol \ {s} : ev'[x] = ev[x]
    BY <1>1, <1>3, Records DEF TypeOK, Done
  <1>5. TypeOK'
    BY <1>1, <1>2, <1>3, <1>4 DEF TypeOK
  <1>6. Frame(s) /\ faults <= faults' /\ faults' \in Nat
    BY <1>1, <1>2, <1>3, <1>4 DEF Frame, TypeOK
  <1>7. WorkInv(s)' /\ OneInv(s)' /\ AgeInv(s)' /\ PosInv(s)'
    BY <1>1, <1>2, <1>3, <1>4 DEF SymbolInv, WorkInv, OneInv, AgeInv, PosInv, At, Armed
  <1>8. DatesInv(s)'
    <2>1. ASSUME NEW d \in Day PROVE ~WorksOn(s, d) /\ ~WorksOn(s, d)'
      BY <1>3, <1>4 DEF WorksOn, At
    <2>2. ASSUME NEW d \in Day PROVE RowCounts(s, d)'
      BY <1>1, <1>3, <1>6, <2>1, OtherRow
    <2> QED
      BY <1>1, <1>3, <2>1, <2>2 DEF SymbolInv, DatesInv
  <1> QED
    BY <1>1, <1>5, <1>6, <1>7, <1>8 DEF Step, SymbolInv

LEMMA RefreshStep ==
  ASSUME Inv, NEW s \in Symbol, NEW d \in Day, NEW t \in TradeDate, Refresh(s, d, t)
  PROVE  Step(s)
  <1>1. TypeOK /\ SymbolInv(s) /\ t \in Day
    BY TradeDates DEF Inv
  <1>2. /\ At(s, "ready") /\ Armed(s, d)
        /\ Record(s, d, setup[s][d].age, setup[s][d].last, t)
        /\ UNCHANGED <<day, scanning, held, open, review, blind, seen>>
    BY DEF Refresh, Newest, alerts
  <1>3. /\ setup[s][d].age \in Nat /\ setup[s][d].last \in Day /\ seen[s][d] \in SUBSET Day
        /\ faults \in Nat /\ open[s] \in Nat /\ review[s] \in Nat
    BY <1>1, Parts
  <1>4. /\ ev' \in [Symbol -> Work]
        /\ \A x \in Symbol \ {s} : ev'[x] = ev[x]
        /\ ev'[s].pc = "armed" /\ ev'[s].setup = d /\ ev'[s].age = setup[s][d].age
        /\ ev'[s].last = setup[s][d].last /\ ev'[s].on = t
    BY <1>1, <1>2, <1>3, RecordEffect
  <1>5. /\ setup' \in [Symbol -> [Day -> Row]]
        /\ \A x \in Symbol \ {s} : setup'[x] = setup[x]
        /\ \A e \in Day \ {d} : setup'[s][e] = setup[s][e]
        /\ setup'[s][d].state = setup[s][d].state /\ setup'[s][d].age = setup[s][d].age
        /\ setup'[s][d].last \in {t, setup[s][d].last}
    <2>1. CASE UNCHANGED setup
      BY <2>1, <1>1 DEF TypeOK
    <2>2. CASE setup' = [setup EXCEPT ![s][d].last = t]
      <3> DEFINE q == [setup[s][d] EXCEPT !.last = t]
      <3>1. setup' = [setup EXCEPT ![s][d] = q]
        BY <2>2
      <3>2. q = [setup[s][d] EXCEPT !.last = t]
        OBVIOUS
      <3> HIDE DEF q
      <3>3. /\ setup' \in [Symbol -> [Day -> Row]]
            /\ \A x \in Symbol \ {s} : setup'[x] = setup[x]
            /\ \A e \in Day \ {d} : setup'[s][e] = setup[s][e]
            /\ setup'[s][d].state = setup[s][d].state /\ setup'[s][d].age = setup[s][d].age
            /\ setup'[s][d].last = t
        BY <3>1, <3>2, <1>1, PutLast, Zenon
      <3> QED
        BY <3>3
    <2> QED
      BY <2>1, <2>2 DEF Refresh
  <1>6. faults' \in Nat /\ faults <= faults'
    BY <1>1, FaultTypes DEF Refresh
  <1>7. TypeOK'
    BY <1>1, <1>2, <1>4, <1>5, <1>6 DEF TypeOK
  <1>8. Frame(s)
    BY <1>2, <1>4, <1>5, <1>6 DEF Frame
  <1>9. setup[s][d].age <= MaxAge
    BY <1>1, <1>2 DEF SymbolInv, AgeInv, Armed, Live
  <1>10. ASSUME NEW e \in Day PROVE setup'[s][e].state = setup[s][e].state /\ setup'[s][e].age = setup[s][e].age
    BY <1>5
  <1>11. WorkInv(s)'
    BY <1>1, <1>2, <1>4, <1>10, <1>9 DEF SymbolInv, WorkInv, OneInv, At, Armed
  <1>12. OneInv(s)' /\ AgeInv(s)'
    BY <1>1, <1>2, <1>10 DEF SymbolInv, OneInv, AgeInv, Armed
  <1>13. PosInv(s)'
    BY <1>1, <1>2, <1>3, <1>4, <1>6 DEF SymbolInv, PosInv, At
  <1>14. RecordCounts(s, d)'
    <2> DEFINE a == Cardinality(seen[s][d] \cup {setup[s][d].last})
               c == Cardinality((seen[s][d] \cup {t}) \cup {setup'[s][d].last})
    <2>1. a <= setup[s][d].age + 1 + faults
      BY <1>1, <1>2 DEF SymbolInv, DatesInv, WorksOn, At, RowCounts
    <2>2. a \in Nat /\ c \in Nat /\ c <= a + 1
      <3>1. CASE setup'[s][d].last = t
        <4> DEFINE S == seen[s][d]
        <4>1. (S \cup {t}) \cup {setup'[s][d].last} = S \cup {t} /\ S \in SUBSET Day /\ setup[s][d].last \in Day
          BY <1>3, <3>1
        <4> HIDE DEF S
        <4>2. Cardinality(S) \in Nat /\ Cardinality(S \cup {t}) \in Nat /\ Cardinality(S \cup {t}) <= Cardinality(S) + 1
          BY <1>1, <4>1, Dates
        <4>3. Cardinality(S \cup {setup[s][d].last}) \in Nat /\ Cardinality(S) <= Cardinality(S \cup {setup[s][d].last})
          BY <4>1, Dates
        <4>4. c = Cardinality(S \cup {t}) /\ a = Cardinality(S \cup {setup[s][d].last})
          BY <4>1 DEF S
        <4> HIDE DEF a, c
        <4> QED
          BY <4>2, <4>3, <4>4
      <3>2. CASE setup'[s][d].last = setup[s][d].last
        <4> DEFINE S == seen[s][d] \cup {setup[s][d].last}
        <4>1. (seen[s][d] \cup {t}) \cup {setup'[s][d].last} = S \cup {t} /\ S \in SUBSET Day
          BY <1>3, <3>2
        <4> HIDE DEF S
        <4>2. Cardinality(S) \in Nat /\ Cardinality(S \cup {t}) \in Nat /\ Cardinality(S \cup {t}) <= Cardinality(S) + 1
          BY <1>1, <4>1, Dates
        <4> QED
          BY <4>1, <4>2 DEF S
      <3> QED
        BY <1>5, <3>1, <3>2
    <2>3. RecordCounts(s, d)' = (a <= setup[s][d].age + 1 + faults' /\ c <= setup[s][d].age + 2 + faults')
      BY <1>2, <1>4, <1>5 DEF RecordCounts
    <2> HIDE DEF a, c
    <2>4. a <= setup[s][d].age + 1 + faults' /\ c <= setup[s][d].age + 2 + faults'
      BY <1>3, <1>6, <2>1, <2>2
    <2> QED
      BY <2>3, <2>4
  <1>15. DatesInv(s)'
    <2>1. ASSUME NEW e \in Day PROVE ~WorksOn(s, e) /\ (WorksOn(s, e)' <=> e = d)
      BY <1>2, <1>4 DEF WorksOn, At
    <2>2. ASSUME NEW e \in Day \ {d} PROVE RowCounts(s, e)'
      BY <1>1, <1>2, <1>5, <1>6, <2>1, OtherRow
    <2> QED
      BY <1>1, <1>2, <1>10, <1>14, <2>1, <2>2 DEF SymbolInv, DatesInv
  <1> QED
    BY <1>2, <1>7, <1>8, <1>11, <1>12, <1>13, <1>15 DEF Step, SymbolInv

LEMMA ArmStep ==
  ASSUME Inv, NEW s \in Symbol, NEW t \in TradeDate, Arm(s, t) \/ ArmBlind(s, t)
  PROVE  Step(s)
  <1>1. TypeOK /\ SymbolInv(s) /\ t \in Day
    BY TradeDates DEF Inv
  <1>2. /\ At(s, "ready") /\ Record(s, t, 0, t, t)
        /\ seen' = [seen EXCEPT ![s][t] = {}]
        /\ Upsert(s, t) \/ UNCHANGED setup
        /\ Fails \/ Works
        /\ UNCHANGED <<day, scanning, held, open, review>>
        /\ blind' \in {blind, blind \cup {s}}
        /\ Unarmed(s) \/ s \in blind'
    BY DEF Arm, ArmBlind, Begin, alerts
  <1>3. /\ ev' \in [Symbol -> Work]
        /\ \A x \in Symbol \ {s} : ev'[x] = ev[x]
        /\ ev'[s].pc = "armed" /\ ev'[s].setup = t /\ ev'[s].age = 0 /\ ev'[s].last = t /\ ev'[s].on = t
    BY <1>1, <1>2, RecordEffect
  <1>4. /\ setup' \in [Symbol -> [Day -> Row]]
        /\ \A x \in Symbol \ {s} : setup'[x] = setup[x]
        /\ \A e \in Day \ {t} : setup'[s][e] = setup[s][e]
        /\ \/ setup[s][t].state = "none" /\ setup'[s][t].state = "ARMED_BUY_ZONE" /\ setup'[s][t].age = 0
           \/ setup'[s][t].state = setup[s][t].state /\ setup'[s][t].age = setup[s][t].age
    <2>1. CASE Upsert(s, t)
      BY <1>1, <2>1, UpsertEffect
    <2>2. CASE UNCHANGED setup
      BY <1>1, <2>2 DEF TypeOK
    <2> QED
      BY <1>2, <2>1, <2>2
  <1>5. /\ seen' \in [Symbol -> [Day -> SUBSET Day]]
        /\ \A x \in Symbol \ {s} : seen'[x] = seen[x]
        /\ seen'[s][t] = {} /\ \A e \in Day \ {t} : seen'[s][e] = seen[s][e]
    <2>1. seen \in [Symbol -> [Day -> SUBSET Day]] /\ seen[s] \in [Day -> SUBSET Day]
      BY <1>1 DEF TypeOK
    <2> QED
      BY <1>1, <1>2, <2>1
  <1>6. faults' \in Nat /\ faults <= faults'
    BY <1>1, <1>2, FaultTypes
  <1>7. TypeOK'
    BY <1>1, <1>2, <1>3, <1>4, <1>5, <1>6 DEF TypeOK
  <1>8. Frame(s)
    BY <1>2, <1>3, <1>4, <1>5, <1>6 DEF Frame
  <1>9. 0 <= MaxAge
    BY SetupAssumption
  <1>10. s \notin blind' => Unarmed(s) /\ s \notin blind
    BY <1>2
  <1>11. ASSUME s \notin blind', NEW e \in Day, Armed(s, e)' PROVE e = t
    BY <1>4, <1>10, <1>11 DEF Armed, Unarmed
  <1>12. WorkInv(s)'
    <2>1. scanning'
      BY <1>1, <1>2 DEF SymbolInv, WorkInv, At
    <2> QED
      BY <2>1, <1>3, <1>9, <1>11 DEF WorkInv, At
  <1>13. OneInv(s)'
    BY <1>11 DEF OneInv
  <1>14. AgeInv(s)'
    BY <1>1, <1>4, <1>9 DEF SymbolInv, AgeInv, Live
  <1>15. PosInv(s)'
    <2>1. faults \in Nat /\ open[s] \in Nat /\ review[s] \in Nat
      BY <1>1, Parts
    <2> QED
      BY <1>1, <1>2, <1>3, <1>6, <2>1 DEF SymbolInv, PosInv, At
  <1>16. RecordCounts(s, t)'
    <2>1. setup'[s][t].age \in Nat /\ setup'[s][t].last \in Day
      <3>1. setup'[s] \in [Day -> Row]
        BY <1>4
      <3>2. setup'[s][t] \in Row
        BY <1>1, <3>1
      <3> QED
        BY <3>2 DEF Row
    <2> DEFINE l == setup'[s][t].last
               u == Cardinality({} \cup {t})
               v == Cardinality(({} \cup {t}) \cup {l})
               g == setup'[s][t].age
    <2>2. u = 1
      BY <1>1, Dates
    <2>3. v \in Nat /\ v <= 2
      <3>1. {} \cup {t} \in SUBSET Day /\ l \in Day
        BY <1>1, <2>1
      <3> HIDE DEF l
      <3> QED
        BY <2>2, <3>1, Dates
    <2>4. RecordCounts(s, t)' = (u <= 0 + 1 + faults' /\ v <= g + 2 + faults')
      BY <1>3, <1>5 DEF RecordCounts
    <2>5. g \in Nat /\ faults' \in Nat
      BY <1>6, <2>1
    <2> HIDE DEF l, u, v, g
    <2>6. u <= 0 + 1 + faults' /\ v <= g + 2 + faults'
      <3>1. \A f, i, j \in Nat : i <= 2 => 1 <= 0 + 1 + f /\ i <= j + 2 + f
        OBVIOUS
      <3> QED
        BY <2>2, <2>3, <2>5, <3>1
    <2> QED
      BY <2>4, <2>6
  <1>17. DatesInv(s)'
    <2>1. ASSUME NEW e \in Day PROVE ~WorksOn(s, e) /\ (WorksOn(s, e)' <=> e = t)
      BY <1>2, <1>3 DEF WorksOn, At
    <2>2. ASSUME NEW e \in Day \ {t} PROVE RowCounts(s, e)'
      BY <1>1, <1>4, <1>5, <1>6, <2>1, OtherRow
    <2> QED
      BY <1>1, <1>4, <1>5, <1>16, <2>1, <2>2 DEF SymbolInv, DatesInv
  <1> QED
    BY <1>2, <1>7, <1>8, <1>12, <1>13, <1>14, <1>15, <1>17 DEF Step, SymbolInv

\* A verdict is of the right age.
LEMMA Verdicts ==
  ASSUME TypeOK, NEW s \in Symbol, ev[s].age <= MaxAge, NEW v \in Verdict(s)
  PROVE  /\ v \in Live \cup {"INVALIDATED"}
         /\ Age(s) \in Nat
         /\ v \in Live => Age(s) <= MaxAge
  <1>1. ev[s].age \in Nat /\ MaxAge \in Nat
    BY Parts, SetupAssumption
  <1>2. Age(s) \in {ev[s].age, ev[s].age + 1}
    BY DEF Age
  <1>3. v = "INVALIDATED" \/ (~(Age(s) > MaxAge) /\ v \in Live)
    BY DEF Verdict, Live
  <1> QED
    BY <1>1, <1>2, <1>3 DEF Live

\* The counts of a row whose evaluation is written: its age is the record's, or one more
\* if the date is another.
LEMMA Counted ==
  ASSUME TypeOK, NEW s \in Symbol, NEW d \in Day, RecordCounts(s, d)
  PROVE  /\ Age(s) \in Nat
         /\ Cardinality((seen[s][d] \cup {ev[s].on}) \cup {ev[s].on}) <= Age(s) + 1 + faults
  <1> DEFINE D == seen[s][d]
             a == Cardinality(D \cup {ev[s].last})
             c == Cardinality(D \cup {ev[s].on})
  <1>1. D \in SUBSET Day /\ ev[s].last \in Day /\ ev[s].on \in Day /\ ev[s].age \in Nat /\ faults \in Nat
    BY Parts
  <1>2. a <= ev[s].age + 1 + faults
    BY DEF RecordCounts
  <1>3. (D \cup {ev[s].on}) \cup {ev[s].on} = D \cup {ev[s].on}
    OBVIOUS
  <1> HIDE DEF D
  <1>4. a \in Nat /\ c \in Nat /\ Cardinality(D) \in Nat /\ Cardinality(D) <= a /\ c <= Cardinality(D) + 1
    BY <1>1, Dates
  <1>5. ev[s].last = ev[s].on => a = c
    OBVIOUS
  <1> HIDE DEF a, c
  <1>6. Age(s) \in Nat /\ c <= Age(s) + 1 + faults
    BY <1>1, <1>2, <1>4, <1>5 DEF Age
  <1> QED
    BY <1>3, <1>6 DEF c, D

LEMMA EvaluateStep ==
  ASSUME Inv, NEW s \in Symbol, Evaluate(s)
  PROVE  Step(s)
  <1>0. ev[s].setup \in Day
    BY Parts DEF Inv
  <1> PICK d \in Day : d = ev[s].setup
    BY <1>0
  <1>1. TypeOK /\ SymbolInv(s) /\ d = ev[s].setup /\ ev[s].on \in Day /\ ev[s] \in Work
    BY Parts DEF Inv
  <1>2. /\ At(s, "armed")
        /\ UNCHANGED <<day, scanning, held, open, review, blind>>
        /\ seen' = [seen EXCEPT ![s][d] = IF setup[s][d].state # "none" THEN @ \cup {ev[s].on} ELSE @]
    BY <1>1 DEF Evaluate, alerts
  <1>3. PICK v \in Verdict(s) :
          /\ \/ /\ setup[s][d].state # "none"
                /\ setup' = [setup EXCEPT ![s][d] =
                     [state |-> v, age |-> Age(s), last |-> ev[s].on, order |-> setup[s][d].order]]
                /\ Works
             \/ setup[s][d].state = "none" /\ UNCHANGED setup /\ Works
             \/ UNCHANGED setup /\ Fails
          /\ ev' = [ev EXCEPT ![s] =
                     IF v = "TRIGGER_CANDIDATE" /\ s \notin held THEN [@ EXCEPT !.pc = "candidate"] ELSE Done]
    BY <1>1 DEF Evaluate
  <1>4. ev[s].age <= MaxAge /\ (s \notin blind => \A e \in Day : Armed(s, e) => e = d)
    BY <1>1, <1>2 DEF SymbolInv, WorkInv
  <1>5. /\ v \in Live \cup {"INVALIDATED"}
        /\ Age(s) \in Nat
        /\ v \in Live => Age(s) <= MaxAge
    BY <1>1, <1>4, Verdicts
  <1>6. /\ ev' \in [Symbol -> Work]
        /\ \A x \in Symbol \ {s} : ev'[x] = ev[x]
        /\ ev'[s].pc = "done" \/ (ev'[s].pc = "candidate" /\ s \notin held)
    <2> DEFINE c == [ev[s] EXCEPT !.pc = "candidate"]
    <2> DEFINE w == IF v = "TRIGGER_CANDIDATE" /\ s \notin held THEN c ELSE Done
    <2>1. c \in Work /\ c.pc = "candidate"
      BY <1>1, Records
    <2>2. ev' = [ev EXCEPT ![s] = w]
      BY <1>3
    <2>3. Done \in Work /\ Done.pc = "done"
      BY Records DEF Done
    <2> HIDE DEF c
    <2> QED
      BY <1>1, <2>1, <2>2, <2>3 DEF TypeOK
  <1> DEFINE Old == UNCHANGED setup /\ faults' = faults + 1
             New == /\ setup[s][d].state # "none"
                    /\ setup'[s][d].state = v /\ setup'[s][d].age = Age(s) /\ setup'[s][d].last = ev[s].on
                    /\ faults' = faults
             None == setup[s][d].state = "none" /\ UNCHANGED setup /\ faults' = faults
  <1>7. /\ setup' \in [Symbol -> [Day -> Row]]
        /\ \A x \in Symbol \ {s} : setup'[x] = setup[x]
        /\ \A e \in Day \ {d} : setup'[s][e] = setup[s][e]
        /\ Old \/ New \/ None
    <2>1. CASE UNCHANGED setup /\ Fails
      BY <2>1, <1>1 DEF TypeOK, Fails
    <2>2. CASE setup[s][d].state = "none" /\ UNCHANGED setup /\ Works
      BY <2>2, <1>1 DEF TypeOK, Works
    <2>3. CASE /\ setup[s][d].state # "none"
               /\ setup' = [setup EXCEPT ![s][d] =
                    [state |-> v, age |-> Age(s), last |-> ev[s].on, order |-> setup[s][d].order]]
               /\ Works
      <3> DEFINE r == [state |-> v, age |-> Age(s), last |-> ev[s].on, order |-> setup[s][d].order]
      <3>1. setup' = [setup EXCEPT ![s][d] = r]
        BY <2>3
      <3>2. setup[s][d].order \in Nat
        BY <1>1, Parts
      <3>3. r \in Row /\ r.state = v /\ r.age = Age(s) /\ r.last = ev[s].on
        BY <1>1, <1>5, <3>2 DEF Row, Live, Dead
      <3>4. faults' = faults /\ setup[s][d].state # "none"
        BY <2>3 DEF Works
      <3> HIDE DEF r
      <3>5. /\ setup' \in [Symbol -> [Day -> Row]]
            /\ \A x \in Symbol \ {s} : setup'[x] = setup[x]
            /\ \A e \in Day \ {d} : setup'[s][e] = setup[s][e]
            /\ setup'[s][d] = r
        BY <1>1, <3>1, <3>3, PutRow
      <3> QED
        BY <3>3, <3>4, <3>5
    <2> QED
      BY <1>3, <2>1, <2>2, <2>3
  <1>8. /\ seen' \in [Symbol -> [Day -> SUBSET Day]]
        /\ \A x \in Symbol \ {s} : seen'[x] = seen[x]
        /\ \A e \in Day \ {d} : seen'[s][e] = seen[s][e]
        /\ seen'[s][d] = IF setup[s][d].state # "none" THEN seen[s][d] \cup {ev[s].on} ELSE seen[s][d]
    <2> DEFINE D == IF setup[s][d].state # "none" THEN seen[s][d] \cup {ev[s].on} ELSE seen[s][d]
    <2>1. seen \in [Symbol -> [Day -> SUBSET Day]] /\ seen[s] \in [Day -> SUBSET Day] /\ seen[s][d] \in SUBSET Day
      BY <1>1 DEF TypeOK
    <2>2. D \in SUBSET Day
      BY <1>1, <2>1
    <2>3. seen' = [seen EXCEPT ![s] = [seen[s] EXCEPT ![d] = D]]
      BY <1>2
    <2>4. [seen[s] EXCEPT ![d] = D] \in [Day -> SUBSET Day]
      BY <2>1, <2>2
    <2> HIDE DEF D
    <2>5. /\ seen' \in [Symbol -> [Day -> SUBSET Day]]
          /\ \A x \in Symbol \ {s} : seen'[x] = seen[x]
          /\ \A e \in Day \ {d} : seen'[s][e] = seen[s][e]
          /\ seen'[s][d] = D
      BY <1>1, <2>1, <2>3, <2>4
    <2> QED
      BY <2>5 DEF D
  <1>9. faults' \in Nat /\ faults <= faults' /\ faults \in Nat
    BY <1>1, <1>3, FaultTypes DEF TypeOK
  <1>10. TypeOK'
    BY <1>1, <1>2, <1>6, <1>7, <1>8, <1>9 DEF TypeOK
  <1>11. Frame(s)
    BY <1>2, <1>6, <1>7, <1>8, <1>9 DEF Frame
  <1>12. scanning' = scanning /\ held' = held /\ scanning
    BY <1>1, <1>2 DEF SymbolInv, WorkInv, At
  <1>13. RecordCounts(s, d)
    BY <1>1, <1>2 DEF SymbolInv, DatesInv, WorksOn
  <1>14. WorkInv(s)'
    BY <1>6, <1>12 DEF WorkInv, At
  <1>15. OneInv(s)'
    BY <1>2, <1>4, <1>7 DEF OneInv, Armed
  <1>16. AgeInv(s)'
    BY <1>1, <1>5, <1>7 DEF SymbolInv, AgeInv, Live
  <1>17. PosInv(s)'
    <2>1. open[s] \in Nat /\ review[s] \in Nat
      BY <1>1, Parts
    <2> QED
      BY <1>1, <1>2, <1>6, <1>9, <2>1 DEF SymbolInv, PosInv, At
  <1>18. RowCounts(s, d)'
    <2> DEFINE D == seen[s][d]
               l == setup[s][d].last
    <2>1. D \in SUBSET Day /\ l \in Day /\ setup[s][d].age \in Nat
      BY <1>1, Parts
    <2>2. CASE setup[s][d].state = "none"
      <3>1. D = {}
        BY <1>1, <2>2 DEF SymbolInv, DatesInv
      <3>2. setup'[s][d] = setup[s][d]
        BY <1>7, <2>2
      <3>3. RowCounts(s, d)' = (Cardinality(D \cup {l}) <= setup[s][d].age + 1 + faults')
        BY <1>8, <2>2, <3>2 DEF RowCounts
      <3> HIDE DEF D, l
      <3>4. Cardinality(D \cup {l}) = 1
        BY <2>1, <3>1, Dates
      <3>5. Cardinality(D \cup {l}) <= setup[s][d].age + 1 + faults'
        BY <1>9, <2>1, <3>4
      <3> QED
        BY <3>3, <3>5
    <2>3. CASE setup[s][d].state # "none" /\ Old
      <3> DEFINE c == Cardinality((D \cup {ev[s].on}) \cup {l})
      <3>1. c <= setup[s][d].age + 2 + faults
        BY <1>13 DEF RecordCounts
      <3>2. RowCounts(s, d)' = (c <= setup[s][d].age + 1 + faults')
        BY <1>8, <2>3 DEF RowCounts
      <3>3. c \in Nat
        <4>1. D \cup {ev[s].on} \in SUBSET Day
          BY <1>1, <2>1
        <4> HIDE DEF D, l
        <4> QED
          BY <2>1, <4>1, Dates
      <3> HIDE DEF c, D, l
      <3>4. c <= setup[s][d].age + 1 + faults'
        BY <1>9, <2>1, <2>3, <3>1, <3>3
      <3> QED
        BY <3>2, <3>4
    <2>4. CASE New
      <3> DEFINE c == Cardinality((D \cup {ev[s].on}) \cup {ev[s].on})
      <3>1. RowCounts(s, d)' = (c <= Age(s) + 1 + faults)
        BY <1>8, <2>4 DEF RowCounts
      <3>2. c <= Age(s) + 1 + faults
        BY <1>1, <1>13, Counted
      <3> HIDE DEF c
      <3> QED
        BY <3>1, <3>2
    <2> QED
      BY <1>7, <2>2, <2>3, <2>4
  <1>19. DatesInv(s)'
    <2>1. ASSUME NEW e \in Day PROVE (WorksOn(s, e) <=> e = d) /\ ~WorksOn(s, e)'
      BY <1>1, <1>2, <1>6 DEF WorksOn, At
    <2>2. ASSUME NEW e \in Day \ {d} PROVE RowCounts(s, e)'
      BY <1>1, <1>7, <1>8, <1>9, <2>1, OtherRow
    <2>3. setup'[s][d].state = "none" => seen'[s][d] = {}
      BY <1>1, <1>5, <1>7, <1>8 DEF SymbolInv, DatesInv, Live
    <2> QED
      BY <1>1, <1>7, <1>8, <1>18, <2>1, <2>2, <2>3 DEF SymbolInv, DatesInv
  <1> QED
    BY <1>10, <1>11, <1>12, <1>14, <1>15, <1>16, <1>17, <1>19 DEF Step, SymbolInv

LEMMA SaveStep ==
  ASSUME Inv, NEW s \in Symbol, Save(s)
  PROVE  Step(s)
  <1>1. TypeOK /\ SymbolInv(s) /\ ev[s] \in Work /\ review[s] \in Nat /\ faults \in Nat
    BY Parts DEF Inv
  <1>2. /\ At(s, "candidate") /\ open[s] = 0
        /\ open' = [open EXCEPT ![s] = 1]
        /\ \/ ev' = [ev EXCEPT ![s].pc = "inserted"] /\ Works
           \/ ev' = [ev EXCEPT ![s] = Done] /\ Fails
        /\ UNCHANGED <<day, setup, scanning, held, review, blind, seen>>
    BY DEF Save
  <1>3. /\ ev' \in [Symbol -> Work]
        /\ \A x \in Symbol \ {s} : ev'[x] = ev[x]
        /\ ev'[s].pc \in {"inserted", "done"}
    <2>1. CASE ev' = [ev EXCEPT ![s].pc = "inserted"]
      <3> DEFINE w == [ev[s] EXCEPT !.pc = "inserted"]
      <3>1. w \in Work /\ w.pc = "inserted"
        BY <1>1, Records
      <3>2. ev' = [ev EXCEPT ![s] = w]
        BY <2>1
      <3> HIDE DEF w
      <3> QED
        BY <1>1, <3>1, <3>2 DEF TypeOK
    <2>2. CASE ev' = [ev EXCEPT ![s] = Done]
      BY <1>1, <2>2, Records DEF TypeOK, Done
    <2> QED
      BY <1>2, <2>1, <2>2
  <1>4. open' \in [Symbol -> Nat] /\ open'[s] = 1 /\ \A x \in Symbol \ {s} : open'[x] = open[x]
    BY <1>1, <1>2 DEF TypeOK
  <1>5. faults' \in Nat /\ faults <= faults'
    BY <1>1, <1>2, FaultTypes
  <1>6. TypeOK'
    BY <1>1, <1>2, <1>3, <1>4, <1>5 DEF TypeOK
  <1>7. Frame(s)
    BY <1>2, <1>3, <1>4, <1>5 DEF Frame
  <1>8. WorkInv(s)'
    <2>1. scanning'
      BY <1>1, <1>2 DEF SymbolInv, WorkInv, At
    <2> QED
      BY <2>1, <1>3 DEF WorkInv, At
  <1>9. OneInv(s)' /\ AgeInv(s)'
    BY <1>1, <1>2 DEF SymbolInv, OneInv, AgeInv, Armed
  <1>10. PosInv(s)'
    <2>1. open[s] + review[s] <= faults
      BY <1>1, <1>2 DEF SymbolInv, PosInv, At
    <2> QED
      BY <1>1, <1>2, <1>3, <1>4, <1>5, <2>1 DEF PosInv, At
  <1>11. DatesInv(s)'
    <2>1. ASSUME NEW d \in Day PROVE ~WorksOn(s, d) /\ ~WorksOn(s, d)'
      BY <1>2, <1>3 DEF WorksOn, At
    <2>2. ASSUME NEW d \in Day PROVE RowCounts(s, d)'
      BY <1>1, <1>2, <1>5, <2>1, OtherRow
    <2> QED
      BY <1>1, <1>2, <2>1, <2>2 DEF SymbolInv, DatesInv
  <1> QED
    BY <1>2, <1>6, <1>7, <1>8, <1>9, <1>10, <1>11 DEF Step, SymbolInv

LEMMA MarkStep ==
  ASSUME Inv, NEW s \in Symbol, Mark(s)
  PROVE  Step(s)
  <1>0. ev[s].setup \in Day
    BY Parts DEF Inv
  <1> PICK d \in Day : d = ev[s].setup
    BY <1>0
  <1>1. TypeOK /\ SymbolInv(s) /\ setup[s][d] \in Row
    BY Parts DEF Inv
  <1>2. /\ At(s, "inserted")
        /\ ev' = [ev EXCEPT ![s] = Done]
        /\ UNCHANGED <<day, scanning, held, open, review, blind, seen>>
    BY DEF Mark, alerts
  <1>3. \/ setup[s][d].state \in Live /\ setup' = [setup EXCEPT ![s][d].state = "ALERT_TRIGGERED"]
        \/ UNCHANGED setup
    BY DEF Mark, Live
  <1>4. faults' \in Nat /\ faults <= faults'
    BY <1>1, FaultTypes DEF Mark
  <1>5. ev' \in [Symbol -> Work] /\ ev'[s].pc = "done" /\ \A x \in Symbol \ {s} : ev'[x] = ev[x]
    BY <1>1, <1>2, Records DEF TypeOK, Done
  <1>6. /\ setup' \in [Symbol -> [Day -> Row]]
        /\ \A x \in Symbol \ {s} : setup'[x] = setup[x]
        /\ \A e \in Day : /\ setup'[s][e].age = setup[s][e].age /\ setup'[s][e].last = setup[s][e].last
                          /\ \/ setup'[s][e].state = setup[s][e].state
                             \/ setup[s][e].state \in Live /\ setup'[s][e].state = "ALERT_TRIGGERED"
    <2>1. CASE setup[s][d].state \in Live /\ setup' = [setup EXCEPT ![s][d].state = "ALERT_TRIGGERED"]
      <3> DEFINE r == [setup[s][d] EXCEPT !.state = "ALERT_TRIGGERED"]
      <3>1. setup' = [setup EXCEPT ![s][d] = r]
        BY <2>1
      <3>2. r \in Row /\ r.state = "ALERT_TRIGGERED" /\ r.age = setup[s][d].age /\ r.last = setup[s][d].last
        BY <1>1, Columns
      <3> HIDE DEF r
      <3>3. /\ setup' \in [Symbol -> [Day -> Row]]
            /\ \A x \in Symbol \ {s} : setup'[x] = setup[x]
            /\ \A e \in Day \ {d} : setup'[s][e] = setup[s][e]
            /\ setup'[s][d] = r
        BY <1>1, <3>1, <3>2, PutRow
      <3> QED
        BY <2>1, <3>2, <3>3
    <2>2. CASE UNCHANGED setup
      BY <2>2, <1>1 DEF TypeOK
    <2> QED
      BY <1>3, <2>1, <2>2
  <1>7. TypeOK'
    BY <1>1, <1>2, <1>4, <1>5, <1>6 DEF TypeOK
  <1>8. Frame(s)
    BY <1>2, <1>4, <1>5, <1>6 DEF Frame
  <1>9. WorkInv(s)'
    BY <1>5 DEF WorkInv, At
  <1>10. OneInv(s)'
    BY <1>1, <1>2, <1>6 DEF SymbolInv, OneInv, Armed
  <1>11. AgeInv(s)'
    BY <1>1, <1>6 DEF SymbolInv, AgeInv, Live
  <1>12. PosInv(s)'
    <2>1. open[s] \in Nat /\ review[s] \in Nat /\ faults \in Nat
      BY <1>1, Parts
    <2> QED
      BY <1>1, <1>2, <1>4, <1>5, <2>1 DEF SymbolInv, PosInv, At
  <1>13. DatesInv(s)'
    <2>1. ASSUME NEW e \in Day PROVE ~WorksOn(s, e) /\ ~WorksOn(s, e)'
      BY <1>2, <1>5 DEF WorksOn, At
    <2>2. ASSUME NEW e \in Day PROVE RowCounts(s, e)'
      BY <1>1, <1>2, <1>4, <1>6, <2>1, OtherRow
    <2>3. ASSUME NEW e \in Day, setup'[s][e].state = "none" PROVE seen'[s][e] = {}
      BY <1>1, <1>2, <1>6, <2>3 DEF SymbolInv, DatesInv
    <2> QED
      BY <2>1, <2>2, <2>3 DEF DatesInv
  <1> QED
    BY <1>2, <1>7, <1>8, <1>9, <1>10, <1>11, <1>12, <1>13 DEF Step, SymbolInv

LEMMA EvalInv ==
  ASSUME Inv, NEW s \in Symbol, Eval(s)
  PROVE  Inv'
  <1>1. Step(s)
    BY QuietSteps, RefreshStep, ArmStep, EvaluateStep, SaveStep, MarkStep DEF Eval
  <1>2. ASSUME NEW x \in Symbol PROVE SymbolInv(x)'
    BY <1>1, <1>2, FrameInv DEF Inv, Step
  <1> QED
    BY <1>1, <1>2 DEF Inv, Step

\* The alerts of one symbol change hands or go: nobody has more of them.
LEMMA DeskInv ==
  ASSUME Inv, NEW s \in Symbol, Review(s) \/ Clear(s) \/ Close(s)
  PROVE  Inv'
  <1>1. TypeOK /\ \A x \in Symbol : SymbolInv(x)
    BY DEF Inv
  <1>2. UNCHANGED <<day, setup, scanning, held, ev, blind, seen, faults>>
    BY DEF Review, Clear, Close
  <1>3. /\ open' \in [Symbol -> Nat] /\ review' \in [Symbol -> Nat]
        /\ \A x \in Symbol : open'[x] + review'[x] <= open[x] + review[x]
    <2>1. /\ open \in [Symbol -> Nat] /\ review \in [Symbol -> Nat]
          /\ \A x \in Symbol : open[x] \in Nat /\ review[x] \in Nat
      BY <1>1 DEF TypeOK
    <2>2. CASE Review(s)
      BY <2>1, <2>2 DEF Review
    <2>3. CASE Clear(s)
      BY <2>1, <2>3 DEF Clear
    <2>4. CASE Close(s)
      BY <2>1, <2>4 DEF Close
    <2> QED
      BY <2>2, <2>3, <2>4
  <1>4. TypeOK'
    BY <1>1, <1>2, <1>3 DEF TypeOK
  <1>5. ASSUME NEW x \in Symbol PROVE SymbolInv(x)'
    <2>1. WorkInv(x)' /\ OneInv(x)' /\ AgeInv(x)'
      BY <1>1, <1>2 DEF SymbolInv, WorkInv, OneInv, AgeInv, At, Armed
    <2>2. DatesInv(x)'
      BY <1>1, <1>2, MoreFaults DEF TypeOK
    <2>3. open[x] + review[x] \in Nat /\ open'[x] + review'[x] \in Nat /\ faults \in Nat
      BY <1>1, <1>3 DEF TypeOK
    <2>4. open'[x] + review'[x] <= open[x] + review[x]
      BY <1>3
    <2>5. PosInv(x)'
      BY <1>1, <1>2, <2>3, <2>4 DEF SymbolInv, PosInv, At
    <2> QED
      BY <2>1, <2>2, <2>5 DEF SymbolInv
  <1> QED
    BY <1>4, <1>5 DEF Inv

\* A scan that ends in the midst of an evaluation loses a session at most.
LEMMA CrashDates ==
  ASSUME TypeOK, NEW s \in Symbol, SymbolInv(s), faults' = faults + 1,
         setup' = setup, seen' = seen, ev'[s].pc = "done"
  PROVE  DatesInv(s)'
  <1> SUFFICES ASSUME NEW d \in Day
               PROVE  (setup'[s][d].state = "none" => seen'[s][d] = {}) /\ ~WorksOn(s, d)' /\ RowCounts(s, d)'
    BY DEF DatesInv
  <1> DEFINE D == seen[s][d]
             a == Cardinality(D \cup {setup[s][d].last})
             c == Cardinality((D \cup {setup[s][d].last}) \cup {ev[s].on})
             g == setup[s][d].age
  <1>1. D \in SUBSET Day /\ setup[s][d].last \in Day /\ ev[s].on \in Day /\ g \in Nat /\ faults \in Nat
    BY Parts
  <1>2. (D \cup {ev[s].on}) \cup {setup[s][d].last} = (D \cup {setup[s][d].last}) \cup {ev[s].on}
    OBVIOUS
  <1>3. a <= g + 1 + faults \/ c <= g + 2 + faults
    BY <1>2 DEF SymbolInv, DatesInv, RowCounts, RecordCounts
  <1>4. RowCounts(s, d)' = (a <= g + 1 + faults')
    BY DEF RowCounts
  <1>5. (setup'[s][d].state = "none" => seen'[s][d] = {}) /\ ~WorksOn(s, d)'
    BY DEF SymbolInv, DatesInv, WorksOn, At
  <1>6. a \in Nat /\ c \in Nat /\ a <= c
    <2> HIDE DEF D
    <2>1. D \cup {setup[s][d].last} \in SUBSET Day
      BY <1>1
    <2> QED
      BY <1>1, <2>1, Dates
  <1> HIDE DEF a, c, D, g
  <1>7. a <= g + 1 + faults'
    BY <1>1, <1>3, <1>6
  <1> QED
    BY <1>4, <1>5, <1>7

LEMMA ScanInv ==
  ASSUME Inv, Start \/ Finish \/ Crash \/ NextDay \/ UNCHANGED vars
  PROVE  Inv'
  <1>1. TypeOK /\ \A s \in Symbol : SymbolInv(s)
    BY DEF Inv
  <1>2. CASE Start
    <2>1. /\ ev' = [s \in Symbol |-> Ready]
          /\ scanning' = TRUE /\ faults' \in Nat /\ faults <= faults'
          /\ UNCHANGED <<day, setup, open, review, blind, seen>>
          /\ held' \subseteq Symbol
      BY <1>1, <1>2, FaultTypes DEF Start, Held, alerts, TypeOK
    <2>2. TypeOK'
      BY <1>1, <2>1, Records DEF TypeOK
    <2>3. ASSUME NEW s \in Symbol PROVE SymbolInv(s)'
      <3>1. SymbolInv(s) /\ At(s, "done") /\ open[s] \in Nat /\ review[s] \in Nat /\ faults \in Nat
        BY <1>1, <1>2, Parts DEF Start, SymbolInv, WorkInv
      <3>2. ev'[s].pc = "ready" /\ scanning' = TRUE
        BY <2>1 DEF Ready
      <3>3. WorkInv(s)' /\ OneInv(s)' /\ AgeInv(s)'
        BY <2>1, <3>1, <3>2 DEF SymbolInv, WorkInv, OneInv, AgeInv, At, Armed
      <3>4. ASSUME NEW d \in Day PROVE ~WorksOn(s, d) /\ ~WorksOn(s, d)'
        BY <3>1, <3>2 DEF WorksOn, At
      <3>5. ASSUME NEW d \in Day PROVE RowCounts(s, d)'
        BY <1>1, <2>1, <3>4, OtherRow
      <3>6. DatesInv(s)'
        BY <2>1, <3>1, <3>4, <3>5 DEF SymbolInv, DatesInv
      <3>7. s \notin held' => open[s] + review[s] <= faults'
        <4>1. CASE held' = Held /\ Works
          <5>1. s \notin held' => ~(open[s] + review[s] > 0)
            BY <4>1 DEF Held
          <5> QED
            BY <2>1, <3>1, <5>1
        <4>2. CASE Fails
          <5>1. faults' = faults + 1 /\ open[s] + review[s] <= 1 + faults
            BY <3>1, <4>2 DEF Fails, SymbolInv, PosInv
          <5> QED
            BY <3>1, <5>1
        <4> QED
          BY <1>2, <4>1, <4>2 DEF Start
      <3>8. PosInv(s)'
        <4>1. open[s] + review[s] <= 1 + faults
          BY <3>1 DEF SymbolInv, PosInv
        <4> QED
          BY <2>1, <3>1, <3>2, <3>7, <4>1 DEF PosInv, At
      <3> QED
        BY <3>3, <3>6, <3>8 DEF SymbolInv
    <2> QED
      BY <2>2, <2>3 DEF Inv
  <1>3. CASE Finish \/ NextDay \/ UNCHANGED vars
    <2>1. /\ UNCHANGED <<setup, ev, open, review, blind, seen, faults>>
          /\ day' \in Day /\ scanning' \in BOOLEAN /\ held' \subseteq Symbol
          /\ scanning' = scanning \/ \A s \in Symbol : At(s, "done")
          /\ held' = held \/ \A s \in Symbol : At(s, "done")
      <3>1. CASE Finish
        BY <1>1, <3>1 DEF Finish, alerts, TypeOK
      <3>2. CASE NextDay
        <4>1. day' \in Day
          BY <1>1, <3>2, SetupAssumption DEF NextDay, TypeOK, Day
        <4> QED
          BY <1>1, <3>2, <4>1 DEF NextDay, alerts, TypeOK
      <3>3. CASE UNCHANGED vars
        BY <1>1, <3>3 DEF vars, alerts, TypeOK
      <3> QED
        BY <1>3, <3>1, <3>2, <3>3
    <2>2. TypeOK'
      BY <1>1, <2>1 DEF TypeOK
    <2>3. ASSUME NEW s \in Symbol PROVE SymbolInv(s)'
      <3>1. WorkInv(s)' /\ OneInv(s)' /\ AgeInv(s)' /\ PosInv(s)'
        BY <1>1, <2>1 DEF SymbolInv, WorkInv, OneInv, AgeInv, PosInv, At, Armed
      <3>2. DatesInv(s)'
        BY <1>1, <2>1, MoreFaults DEF TypeOK
      <3> QED
        BY <3>1, <3>2 DEF SymbolInv
    <2> QED
      BY <2>2, <2>3 DEF Inv
  <1>4. CASE Crash
    <2>1. /\ ev' = [s \in Symbol |-> Done]
          /\ scanning' = FALSE /\ held' = {} /\ faults' = faults + 1 /\ faults' \in Nat
          /\ UNCHANGED <<day, setup, open, review, blind, seen>>
      BY <1>1, <1>4 DEF Crash, Fails, alerts, TypeOK
    <2>2. TypeOK'
      BY <1>1, <2>1, Records DEF TypeOK
    <2>3. ASSUME NEW s \in Symbol PROVE SymbolInv(s)'
      <3>1. SymbolInv(s) /\ open[s] \in Nat /\ review[s] \in Nat /\ faults \in Nat
        BY <1>1, Parts
      <3>2. ev'[s].pc = "done"
        BY <2>1 DEF Done
      <3>3. WorkInv(s)' /\ OneInv(s)' /\ AgeInv(s)'
        BY <2>1, <3>1, <3>2 DEF SymbolInv, WorkInv, OneInv, AgeInv, At, Armed
      <3>4. DatesInv(s)'
        BY <1>1, <2>1, <3>2, CrashDates
      <3>5. PosInv(s)'
        BY <2>1, <3>1, <3>2 DEF SymbolInv, PosInv, At
      <3> QED
        BY <3>3, <3>4, <3>5 DEF SymbolInv
    <2> QED
      BY <2>2, <2>3 DEF Inv
  <1> QED
    BY <1>2, <1>3, <1>4

-----------------------------------------------------------------------------
\* Inv holds in every reachable state.
THEOREM Invariance == Spec => []Inv
  <1>1. Inv /\ [Next]_vars => Inv'
    BY EvalInv, DeskInv, ScanInv DEF Next
  <1> QED
    BY InitInv, <1>1, PTL DEF Spec

\* The columns, the record of the scan and the histories keep their types.
THEOREM SetupTypes == Spec => []TypeOK
  <1>1. Inv => TypeOK
    BY DEF Inv
  <1> QED
    BY <1>1, Invariance, PTL

\* One armed setup, for a symbol whose setups were never overlooked.
THEOREM OneArmedSetup == Spec => []OneArmed
  <1>1. Inv => OneArmed
    BY DEF Inv, SymbolInv, OneInv, OneArmed
  <1> QED
    BY <1>1, Invariance, PTL

\* No setup is alive on more trading dates than its age and the failures account for.
THEOREM SessionsAreBounded == Spec => []SessionsBounded
  <1>1. ASSUME Inv, NEW s \in Symbol, NEW d \in Day, setup[s][d].state \in Live \cup {"ALERT_TRIGGERED"}
        PROVE  Cardinality(seen[s][d]) <= MaxAge + 1 + faults
    <2>1. TypeOK /\ SymbolInv(s)
      BY <1>1 DEF Inv
    <2>2. /\ setup[s][d].age \in Nat /\ setup[s][d].last \in Day /\ seen[s][d] \in SUBSET Day
          /\ ev[s].age \in Nat /\ ev[s].last \in Day /\ faults \in Nat /\ MaxAge \in Nat
      BY <2>1, Parts, SetupAssumption
    <2>3. PICK x \in Day, g \in Nat : g <= MaxAge /\ Cardinality(seen[s][d] \cup {x}) <= g + 1 + faults
      <3>1. CASE WorksOn(s, d)
        BY <2>1, <2>2, <3>1 DEF SymbolInv, DatesInv, RecordCounts, WorkInv, WorksOn
      <3>2. CASE ~WorksOn(s, d)
        BY <1>1, <2>1, <2>2, <3>2 DEF SymbolInv, DatesInv, RowCounts, AgeInv
      <3> QED
        BY <3>1, <3>2
    <2> DEFINE c == Cardinality(seen[s][d])
               a == Cardinality(seen[s][d] \cup {x})
    <2>4. c \in Nat /\ a \in Nat /\ c <= a /\ a <= g + 1 + faults
      BY <2>2, <2>3, Dates
    <2> HIDE DEF c, a
    <2>5. c <= MaxAge + 1 + faults
      BY <2>2, <2>3, <2>4
    <2> QED
      BY <2>5 DEF c
  <1>2. Inv => SessionsBounded
    BY <1>1 DEF SessionsBounded, Live
  <1> QED
    BY <1>2, Invariance, PTL

\* Whatever scans, monitors and failures there are, a symbol has no more positions than
\* one and the failures.
THEOREM PositionsAreBounded == Spec => []OnePosition
  <1>1. Inv => OnePosition
    BY DEF Inv, SymbolInv, PosInv, OnePosition
  <1> QED
    BY <1>1, Invariance, PTL

(***************************************************************************)
(* Scans whose reads, writes and processes do not fail.                    *)
(***************************************************************************)
LEMMA Faultless == ASSUME MaxFaults = 0 PROVE TypeOK => ~Fails
  BY DEF TypeOK, Fails

NoneBlind == blind = {}

AllOneArmed == \A s \in Symbol : \A d, e \in Day : Armed(s, d) /\ Armed(s, e) => d = e

\* arm_setup looks before it inserts.  Where its reads of the setups succeed no
\* symbol ever has two armed setups, however the dates of the prices go back and forth.
THEOREM FaultlessOneArmed ==
  ASSUME MaxFaults = 0
  PROVE  Spec => []AllOneArmed
  <1>1. Init => NoneBlind
    BY DEF Init, NoneBlind
  <1>2. TypeOK /\ NoneBlind /\ [Next]_vars => NoneBlind'
    <2> SUFFICES ASSUME TypeOK, NoneBlind, [Next]_vars PROVE NoneBlind'
      OBVIOUS
    <2>1. \A s \in Symbol : \A t \in TradeDate : ~ArmBlind(s, t)
      BY Faultless DEF ArmBlind
    <2> QED
      BY <2>1 DEF Next, Start, Finish, Crash, NextDay, Eval, Skip, Refresh, Arm, Evaluate,
         Drop, Save, Mark, Review, Clear, Close, vars, NoneBlind
  <1>3. NoneBlind /\ OneArmed => AllOneArmed
    BY DEF OneArmed, AllOneArmed, NoneBlind
  <1> QED
    BY <1>1, <1>2, <1>3, SetupTypes, OneArmedSetup, PTL DEF Spec
=============================================================================
