------------------------ MODULE AlertLifecycleProofs ------------------------
(* Proofs about AlertLifecycle, for every number of passes, every scale of     *)
(* prices, every exit profile and every bound.                                 *)
EXTENDS AlertLifecycle, TLAPS

(***************************************************************************)
(* The invariant                                                           *)
(***************************************************************************)

\* A pass in the middle of a bar holds its position.
WorkHeld ==
    \A p \in Pass : pass[p].pc \in {"bar", "targets"} => pass[p].status \in Held

TypeInv == TypeOK /\ WorkHeld

\* While the copies are accurate, the second target is booked after the first.
InOrder == "T2_HIT" \in row.events => "T1_HIT" \in row.events

Safe == exact => Ledger /\ InOrder /\ (row.locked => plan = "stopOnly")

(***************************************************************************)
(* Levels, tranches and histories                                          *)
(***************************************************************************)

\* The levels are prices, and none is above the second target.
LEMMA LevelsBounded ==
  \A level \in Levels : level \in Nat /\ level <= Target2
  BY AlertAssumption DEF Levels

\* Share counts are numbers of shares.
LEMMA SharesBounded ==
  \A n \in Shares : n \in Nat /\ n \in Int
  BY AlertAssumption DEF Shares

\* A percentage of the shares is between none and all of them.
LEMMA TrancheBounded ==
  ASSUME NEW n \in Nat, NEW percent \in 0..100
  PROVE  Tranche(n, percent) \in 0..n
<1>1. n * percent \in Nat /\ n * percent <= n * 100
  <2>1. \A k \in Nat : n * k \in Nat
    BY SMT
  <2>2. percent \in Nat /\ 100 - percent \in Nat
    BY SMT
  <2>3. n * (100 - percent) \in Nat
    BY <2>1, <2>2
  <2>4. n * (100 - percent) = n * 100 - n * percent
    BY <2>2, SMT
  <2> QED
    BY <2>1, <2>2, <2>3, <2>4, SMT
<1>2. \A m \in Nat : m <= n * 100 => m \div 100 \in 0..n
  BY SMT
<1> QED
  BY <1>1, <1>2 DEF Tranche

\* What a status that still holds shares says about the history.
LEMMA HeldHistory ==
  ASSUME NEW events \in SUBSET Event, StatusOf(events) \in Held
  PROVE  /\ "GAP_LOSS" \notin events
         /\ "SL_HIT" \notin events
         /\ "T3_HIT" \notin events
         /\ StatusOf(events) = "OPEN" => events = {}
         /\ StatusOf(events) # "OPEN" => "T1_HIT" \in events \/ "T2_HIT" \in events
         /\ StatusOf(events) = "PARTIAL_WIN_1" =>
                "T1_HIT" \in events /\ "T2_HIT" \notin events
  BY DEF StatusOf, Held, Event

(***************************************************************************)
(* Types                                                                   *)
(***************************************************************************)

\* The copy that a pass goes on with is well formed.
LEMMA CarriesType ==
  ASSUME TypeInv, plan' = plan, NEW p \in Pass, NEW to \in {"next", "targets", "lock"},
         NEW event \in Event, NEW status \in Held \cup Terminal, NEW sl \in Levels,
         NEW rem \in Int, Carries(p, to, event, status, sl, rem),
         to = "lock" => status \in Closed,
         to = "targets" => status \in Held
  PROVE  /\ pass' \in [Pass -> PassTypes]
         /\ \A q \in Pass : pass'[q].pc = "lock" =>
                plan' = "stopOnly" \/ pass'[q].status \in Closed
         /\ WorkHeld'
<1> DEFINE t == pass[p]
           nt == [t EXCEPT !.pc = to, !.status = status, !.sl = sl, !.rem = rem,
                           !.events = @ \cup {event}, !.untouched = FALSE,
                           !.bar = IF to = "targets" THEN @ ELSE FlatBar(0)]
<1>1. t \in PassTypes
  BY DEF TypeInv, TypeOK
<1>2. FlatBar(0) \in [open : Nat, low : Nat, high : Nat]
  BY DEF FlatBar
<1>3. nt \in PassTypes
  BY <1>1, <1>2, Zenon DEF PassTypes
<1>4. pass' = [pass EXCEPT ![p] = nt]
  BY DEF Carries, TypeInv, TypeOK
<1>5. nt.pc = to /\ nt.status = status
  BY <1>1 DEF PassTypes
<1>6. pass' \in [Pass -> PassTypes]
  BY <1>3, <1>4 DEF TypeInv, TypeOK
<1> QED
  BY <1>4, <1>5, <1>6 DEF TypeInv, TypeOK, WorkHeld

\* What a booking writes, or fails to write, is well formed.
LEMMA PartialExitType ==
  ASSUME TypeInv, NEW p \in Pass, NEW event \in Event,
         NEW status \in Held \cup Terminal, NEW sl \in Levels,
         NEW shares \in Int, NEW rem \in Int,
         PartialExit(p, event, status, sl, shares, rem)
  PROVE  row' \in RowTypes /\ ops' \in 0..MaxOps /\ exact' \in BOOLEAN
<1>1. row \in RowTypes /\ ops \in 0..MaxOps /\ exact \in BOOLEAN
  BY DEF TypeInv, TypeOK
<1>2. CASE UNCHANGED <<row, ops, exact>>
  BY <1>1, <1>2
<1>3. CASE WriteFails
  <2>1. ops' \in 0..MaxOps
    BY <1>1, <1>3, AlertAssumption DEF WriteFails
  <2> QED
    BY <1>1, <1>3, <2>1 DEF WriteFails
<1>4. CASE /\ row' = [row EXCEPT !.status = status, !.sl = sl, !.rem = rem,
                                 !.events = @ \cup {event}, !.sold = @ + shares]
           /\ exact' = (exact /\ Exactly(p))
           /\ ops' = ops
  <2>1. row.sold + shares \in Int
    BY <1>1 DEF RowTypes
  <2>2. row' \in RowTypes
    BY <1>1, <1>4, <2>1, Zenon DEF RowTypes
  <2>3. exact' \in BOOLEAN
    BY <1>4, Zenon
  <2> QED
    BY <1>1, <1>4, <2>2, <2>3
<1> QED
  BY <1>2, <1>3, <1>4 DEF PartialExit

\* A pass that writes nothing and only moves on keeps the types.
LEMMA MoveType ==
  ASSUME TypeInv, NEW p \in Pass, NEW nt \in PassTypes,
         pass' = [pass EXCEPT ![p] = nt],
         nt.pc = "lock" => plan = "stopOnly" \/ nt.status \in Closed,
         nt.pc \in {"bar", "targets"} => nt.status \in Held,
         UNCHANGED <<row, plan, sizing, ops, exact>>,
         requested' \in BOOLEAN
  PROVE  TypeInv'
<1>1. /\ pass' \in [Pass -> PassTypes]
      /\ \A q \in Pass : pass'[q].pc = "lock" =>
             plan' = "stopOnly" \/ pass'[q].status \in Closed
      /\ WorkHeld'
  BY DEF TypeInv, TypeOK, WorkHeld
<1> QED
  BY <1>1 DEF TypeInv, TypeOK

\* How many shares the first and the second target sell.
LEMMA SharesAreInts ==
  ASSUME NEW t \in PassTypes
  PROVE  FirstShares(t) \in Int /\ SecondShares(t) \in Int
<1>1. t.bought \in Nat /\ t.rem \in Int
  <2>1. t.bought \in Shares \cup {0} /\ t.rem \in Int
    BY DEF PassTypes
  <2>2. Shares \cup {0} \subseteq Nat
    BY AlertAssumption DEF Shares
  <2> QED
    BY <2>1, <2>2
<1>2. Tranche(t.bought, Part1) \in Int /\ Tranche(t.bought, Part2) \in Int
  <2>1. Part1 \in 0..100 /\ Part2 \in 0..100
    BY AlertAssumption
  <2>2. /\ Tranche(t.bought, Part1) \in 0..t.bought
        /\ Tranche(t.bought, Part2) \in 0..t.bought
    BY <1>1, <2>1, TrancheBounded
  <2> QED
    BY <1>1, <2>2
<1> QED
  BY <1>1, <1>2 DEF FirstShares, SecondShares

\* Booking a target keeps the types.
LEMMA BooksType ==
  ASSUME TypeInv, NEW p \in Pass, NEW event \in Event, NEW status \in Held,
         NEW level \in Levels, NEW shares \in Int,
         Books(p, event, status, level, shares)
  PROVE  TypeInv'
<1> DEFINE t == pass[p]
           rem == t.rem - shares
           sl == IF rem > 0 THEN Larger(t.sl, level) ELSE t.sl
           to == IF rem > 0 THEN "targets" ELSE "next"
           kept == IF rem > 0 THEN status ELSE "WIN"
<1>1. t.sl \in Levels /\ t.rem \in Int
  BY DEF TypeInv, TypeOK, PassTypes
<1>2. rem \in Int /\ sl \in Levels
  BY <1>1 DEF Larger
<1>3. /\ to \in {"next", "targets", "lock"} /\ kept \in Held \cup Terminal
      /\ to # "lock" /\ (to = "targets" => kept \in Held)
  BY DEF Terminal, Closed
<1>4. /\ PartialExit(p, event, status, sl, shares, rem)
      /\ Carries(p, to, event, kept, sl, rem)
      /\ UNCHANGED <<plan, requested, sizing>>
  BY DEF Books
<1>5. row' \in RowTypes /\ ops' \in 0..MaxOps /\ exact' \in BOOLEAN
  <2> HIDE DEF rem, sl
  <2> QED
    BY <1>2, <1>4, PartialExitType
<1>6. /\ pass' \in [Pass -> PassTypes]
      /\ \A q \in Pass : pass'[q].pc = "lock" =>
             plan' = "stopOnly" \/ pass'[q].status \in Closed
      /\ WorkHeld'
  <2> HIDE DEF rem, sl, to, kept
  <2> QED
    BY <1>2, <1>3, <1>4, CarriesType
<1> QED
  BY <1>4, <1>5, <1>6 DEF TypeInv, TypeOK

\* Closing the position keeps the types.
LEMMA ClosesType ==
  ASSUME TypeInv, NEW p \in Pass, NEW event \in Event, NEW status \in Closed,
         NEW sl \in Levels, NEW kept \in Levels, NEW to \in {"next", "lock"},
         PartialExit(p, event, status, sl, pass[p].rem, 0),
         Carries(p, to, event, status, kept, 0),
         UNCHANGED <<plan, requested, sizing>>
  PROVE  TypeInv'
<1>1. pass[p].rem \in Int
  BY DEF TypeInv, TypeOK, PassTypes
<1>2. row' \in RowTypes /\ ops' \in 0..MaxOps /\ exact' \in BOOLEAN
  BY <1>1, PartialExitType DEF Terminal
<1>3. /\ pass' \in [Pass -> PassTypes]
      /\ \A q \in Pass : pass'[q].pc = "lock" =>
             plan' = "stopOnly" \/ pass'[q].status \in Closed
      /\ WorkHeld'
  BY CarriesType DEF Terminal
<1> QED
  BY <1>2, <1>3 DEF TypeInv, TypeOK

\* A pass that is between alerts is well formed.
LEMMA IdleType == Idle \in PassTypes
<1>1. FlatBar(0) \in [open : Nat, low : Nat, high : Nat]
  BY DEF FlatBar
<1>2. /\ "OPEN" \in Held \cup Terminal /\ StopLoss \in Levels
      /\ 0 \in Shares \cup {0} /\ 0 \in Int /\ 0 \in 0..MaxBars
  BY AlertAssumption DEF Held, Levels
<1> QED
  BY <1>1, <1>2, Zenon DEF Idle, PassTypes

\* What a position counts as is a share count, also when sizing gave none.
LEMMA BoughtType ==
  ASSUME row \in RowTypes
  PROVE  Bought \in Shares /\ Bought \in Nat
<1>1. row.bought \in Shares
  BY DEF RowTypes
<1>2. DefaultShares \in Shares /\ Shares \subseteq Nat
  BY AlertAssumption DEF Shares
<1> QED
  BY <1>1, <1>2 DEF Bought

\* An alert as it is inserted is well formed.
LEMMA SavedType ==
  ASSUME NEW n \in Shares
  PROVE  Saved(n) \in RowTypes
<1>1. n \in Int
  BY SharesBounded
<1>2. "OPEN" \in Held \cup Terminal /\ StopLoss \in Levels /\ 0 \in Int
  BY DEF Held, Levels
<1>3. {} \in SUBSET Event
  OBVIOUS
<1> QED
  BY <1>1, <1>2, <1>3, Zenon DEF Saved, RowTypes

\* The types hold at the start.
LEMMA InitTyped ==
  ASSUME Init
  PROVE  TypeInv
<1>1. row \in RowTypes
  BY SavedType DEF Init, Shares
<1>2. pass \in [Pass -> PassTypes] /\ \A p \in Pass : pass[p].pc = "idle"
  BY IdleType DEF Init, Idle
<1>3. plan \in AllPlans /\ sizing \in Levels \cup {NoSizing} /\ ops \in 0..MaxOps
  BY AlertAssumption DEF Init
<1>4. requested \in BOOLEAN /\ exact \in BOOLEAN
  BY Zenon DEF Init
<1> QED
  BY <1>1, <1>2, <1>3, <1>4 DEF TypeInv, TypeOK, WorkHeld

\* The steps of a pass that write nothing keep the types.
LEMMA QuietStepsTyped ==
  ASSUME TypeInv, NEW p \in Pass,
         \/ ReadLive(p) \/ ReadReplay(p) \/ NextBar(p) \/ EndPass(p)
         \/ StopOnly(p) \/ Quiet(p)
  PROVE  TypeInv'
<1> DEFINE t == pass[p]
<1>1. t \in PassTypes /\ row \in RowTypes /\ requested \in BOOLEAN
  BY DEF TypeInv, TypeOK
<1>2. ASSUME ReadLive(p)
      PROVE  TypeInv'
  <2> DEFINE nt == [Idle EXCEPT !.pc = "next", !.left = 1,
                        !.status = row.status, !.sl = row.sl, !.bought = Bought,
                        !.rem = IF row.bought = 0 THEN DefaultShares ELSE row.rem,
                        !.events = row.events]
  <2>1. 1 \in 0..MaxBars /\ DefaultShares \in Int
    BY AlertAssumption
  <2>2. /\ row.status \in Held \cup Terminal /\ row.sl \in Levels
        /\ row.rem \in Int /\ row.events \in SUBSET Event
    BY <1>1 DEF RowTypes
  <2>3. nt \in PassTypes
    BY <1>1, <2>1, <2>2, IdleType, BoughtType, Zenon DEF PassTypes
  <2>4. nt.pc = "next"
    BY IdleType DEF PassTypes
  <2>5. pass' = [pass EXCEPT ![p] = nt] /\ requested' = requested
    BY <1>2 DEF ReadLive
  <2> QED
    BY <1>1, <1>2, <2>3, <2>4, <2>5, MoveType DEF ReadLive
<1>3. ASSUME ReadReplay(p)
      PROVE  TypeInv'
  <2> DEFINE nt == [Idle EXCEPT !.pc = "next", !.left = MaxBars, !.replay = TRUE,
                        !.bought = Bought, !.rem = Bought]
  <2>1. MaxBars \in 0..MaxBars /\ Bought \in Int
    BY <1>1, AlertAssumption, BoughtType
  <2>2. nt \in PassTypes
    BY <1>1, <2>1, IdleType, BoughtType, Zenon DEF PassTypes
  <2>3. nt.pc = "next"
    BY IdleType DEF PassTypes
  <2>4. CASE Followed
    <3>1. pass' = [pass EXCEPT ![p] = nt] /\ requested' = FALSE
      BY <1>3, <2>4 DEF ReadReplay
    <3> QED
      BY <1>3, <2>2, <2>3, <3>1, MoveType DEF ReadReplay
  <2>5. CASE ~Followed
    <3>1. UNCHANGED <<row, plan, pass, sizing, ops, exact>> /\ requested' = FALSE
      BY <1>3, <2>5 DEF ReadReplay
    <3> QED
      BY <3>1 DEF TypeInv, TypeOK, WorkHeld
  <2> QED
    BY <2>4, <2>5
<1>4. ASSUME NextBar(p)
      PROVE  TypeInv'
  <2>1. PICK bar \in IF t.replay THEN Bars ELSE {FlatBar(q) : q \in Prices} :
            pass' = [pass EXCEPT ![p] = [t EXCEPT !.pc = "bar", !.left = @ - 1,
                                                  !.bar = bar]]
    BY <1>4 DEF NextBar, TypeInv, TypeOK
  <2> DEFINE nt == [t EXCEPT !.pc = "bar", !.left = @ - 1, !.bar = bar]
  <2>2. bar \in [open : Nat, low : Nat, high : Nat]
    BY <2>1, AlertAssumption DEF FlatBar
  <2>3. t.left - 1 \in 0..MaxBars
    <3>1. t.left \in 0..MaxBars
      BY <1>1 DEF PassTypes
    <3> QED
      BY <1>4, <3>1, AlertAssumption DEF NextBar
  <2>4. nt \in PassTypes
    BY <1>1, <2>2, <2>3, Zenon DEF PassTypes
  <2>5. nt.pc = "bar" /\ nt.status \in Held
    BY <1>1, <1>4 DEF PassTypes, NextBar
  <2> QED
    BY <1>1, <1>4, <2>1, <2>4, <2>5, MoveType DEF NextBar
<1>5. ASSUME EndPass(p)
      PROVE  TypeInv'
  <2>1. Idle.pc = "idle"
    BY DEF Idle
  <2> QED
    BY <1>1, <1>5, <2>1, IdleType, MoveType DEF EndPass
<1>6. ASSUME NEW to \in {"lock", "next"},
             pass' = [pass EXCEPT ![p].pc = to, ![p].bar = FlatBar(0)],
             to = "lock" => plan = "stopOnly",
             UNCHANGED <<row, plan, requested, sizing, ops, exact>>
      PROVE  TypeInv'
  <2> DEFINE nt == [t EXCEPT !.pc = to, !.bar = FlatBar(0)]
  <2>1. FlatBar(0) \in [open : Nat, low : Nat, high : Nat]
    BY DEF FlatBar
  <2>2. nt \in PassTypes
    BY <1>1, <2>1, Zenon DEF PassTypes
  <2>3. nt.pc = to
    BY <1>1 DEF PassTypes
  <2>4. pass' = [pass EXCEPT ![p] = nt]
    BY <1>6 DEF TypeInv, TypeOK
  <2> QED
    BY <1>1, <1>6, <2>2, <2>3, <2>4, MoveType
<1>7. ASSUME StopOnly(p)
      PROVE  TypeInv'
  BY <1>6, <1>7 DEF StopOnly
<1>8. ASSUME Quiet(p)
      PROVE  TypeInv'
  BY <1>6, <1>8 DEF Quiet
<1> QED
  BY <1>2, <1>3, <1>4, <1>5, <1>7, <1>8

\* The steps of a pass that book an exit keep the types.
LEMMA BookingsTyped ==
  ASSUME TypeInv, NEW p \in Pass,
         \/ GapLoss(p) \/ StopHit(p)
         \/ FirstTarget(p) \/ SecondTarget(p) \/ ThirdTarget(p)
  PROVE  TypeInv'
<1> DEFINE t == pass[p]
<1>1. t \in PassTypes /\ t.sl \in Levels
  BY DEF TypeInv, TypeOK, PassTypes
<1>2. ASSUME GapLoss(p)
      PROVE  TypeInv'
  <2>1. PICK to \in {"next", "lock"} :
            /\ PartialExit(p, "GAP_LOSS", "LOSS", t.sl, t.rem, 0)
            /\ Carries(p, to, "GAP_LOSS", "LOSS", t.sl, 0)
            /\ UNCHANGED <<plan, requested, sizing>>
    BY <1>2 DEF GapLoss
  <2> QED
    BY <1>1, <2>1, ClosesType DEF Event, Closed
<1>3. ASSUME StopHit(p)
      PROVE  TypeInv'
  <2>1. PICK to \in {"next", "lock"}, final \in Closed :
            /\ PartialExit(p, "SL_HIT", final, t.sl, t.rem, 0)
            /\ Carries(p, to, "SL_HIT", final, t.sl, 0)
            /\ UNCHANGED <<plan, requested, sizing>>
    BY <1>3 DEF StopHit, Closed
  <2> QED
    BY <1>1, <2>1, ClosesType DEF Event
<1>4. ASSUME FirstTarget(p)
      PROVE  TypeInv'
  <2>1. Books(p, "T1_HIT", "PARTIAL_WIN_1", Breakeven, FirstShares(t))
    BY <1>4 DEF FirstTarget
  <2>2. Breakeven \in Levels /\ "PARTIAL_WIN_1" \in Held /\ "T1_HIT" \in Event
    BY DEF Levels, Held, Event
  <2> QED
    BY <1>1, <2>1, <2>2, SharesAreInts, BooksType
<1>5. ASSUME SecondTarget(p)
      PROVE  TypeInv'
  <2>1. Books(p, "T2_HIT", "PARTIAL_WIN_2", Target1, SecondShares(t))
    BY <1>5 DEF SecondTarget
  <2>2. Target1 \in Levels /\ "PARTIAL_WIN_2" \in Held /\ "T2_HIT" \in Event
    BY DEF Levels, Held, Event
  <2> QED
    BY <1>1, <2>1, <2>2, SharesAreInts, BooksType
<1>6. ASSUME ThirdTarget(p)
      PROVE  TypeInv'
  <2>1. PICK to \in {"next", "lock"} :
            /\ PartialExit(p, "T3_HIT", "WIN", Target2, t.rem, 0)
            /\ Carries(p, to, "T3_HIT", "WIN", t.sl, 0)
            /\ UNCHANGED <<plan, requested, sizing>>
    BY <1>6 DEF ThirdTarget
  <2> QED
    BY <1>1, <2>1, ClosesType DEF Event, Closed, Levels
<1> QED
  BY <1>2, <1>3, <1>4, <1>5, <1>6

\* Recording the outcome, or finding the row closed, keeps the types.
LEMMA OutcomeTyped ==
  ASSUME TypeInv, NEW p \in Pass, Outcome(p)
  PROVE  TypeInv'
<1> DEFINE t == pass[p]
           final == IF plan = "stopOnly" THEN "LOSS" ELSE t.status
           nt == [t EXCEPT !.pc = "next", !.status = final]
<1>1. t \in PassTypes /\ row \in RowTypes /\ exact \in BOOLEAN /\ ops \in 0..MaxOps
  BY DEF TypeInv, TypeOK
<1>2. final \in Held \cup Terminal
  BY DEF Outcome, TypeInv, TypeOK, Terminal, Closed
<1>3. nt \in PassTypes /\ nt.pc = "next"
  <2>1. nt \in PassTypes
    BY <1>1, <1>2, Zenon DEF PassTypes
  <2> QED
    BY <1>1, <2>1 DEF PassTypes
<1>4. pass' = [pass EXCEPT ![p] = nt]
  BY DEF Outcome, TypeInv, TypeOK
<1>5. /\ pass' \in [Pass -> PassTypes]
      /\ \A q \in Pass : pass'[q].pc = "lock" =>
             plan' = "stopOnly" \/ pass'[q].status \in Closed
      /\ WorkHeld'
  <2>1. plan' = plan
    BY DEF Outcome
  <2> HIDE DEF nt
  <2> QED
    BY <1>3, <1>4, <2>1 DEF TypeInv, TypeOK, WorkHeld
<1>6. row' \in RowTypes /\ ops' \in 0..MaxOps /\ exact' \in BOOLEAN
  <2>1. CASE UNCHANGED <<row, ops, exact>>
    BY <1>1, <2>1
  <2>2. CASE WriteFails
    <3>1. ops' \in 0..MaxOps
      BY <1>1, <2>2, AlertAssumption DEF WriteFails
    <3> QED
      BY <1>1, <2>2, <3>1 DEF WriteFails
  <2>3. CASE /\ row' = [row EXCEPT !.status = final, !.rem = 0, !.locked = TRUE]
             /\ exact' = (exact /\ Exactly(p))
             /\ ops' = ops
    <3>1. 0 \in Int
      OBVIOUS
    <3>2. row' \in RowTypes
      BY <1>1, <1>2, <2>3, <3>1, Zenon DEF RowTypes
    <3>3. exact' \in BOOLEAN
      BY <2>3, Zenon
    <3> QED
      BY <1>1, <2>3, <3>2, <3>3
  <2> QED
    BY <2>1, <2>2, <2>3 DEF Outcome
<1> QED
  BY <1>5, <1>6 DEF TypeInv, TypeOK, Outcome

\* What the operator does keeps the types.
LEMMA OperatorTyped ==
  ASSUME TypeInv, Operator
  PROVE  TypeInv'
<1>1. row \in RowTypes /\ exact \in BOOLEAN /\ requested \in BOOLEAN
      /\ ops \in 0..MaxOps /\ sizing \in Levels \cup {NoSizing}
  BY DEF TypeInv, TypeOK
<1>2. ops' \in 0..MaxOps
  BY <1>1, AlertAssumption DEF Operator
<1>3. row.bought \in Int /\ "OPEN" \in Held \cup Terminal
      /\ "REJECTED" \in Held \cup Terminal /\ 0 \in Int /\ {} \in SUBSET Event
  <2>1. row.bought \in Shares
    BY <1>1 DEF RowTypes
  <2>2. row.bought \in Int
    BY <2>1, SharesBounded
  <2>3. "OPEN" \in Held \cup Terminal /\ "REJECTED" \in Held \cup Terminal
    BY DEF Held, Terminal
  <2> QED
    BY <2>2, <2>3
<1>4. SUFFICES ASSUME UNCHANGED <<plan, pass>>,
                      \/ Recalculate \/ ResetAll \/ ResetClosed \/ Reject
                      \/ ReallocateRead \/ Accept \/ ReallocateWrite
               PROVE  /\ row' \in RowTypes /\ requested' \in BOOLEAN
                      /\ exact' \in BOOLEAN
                      /\ sizing' \in Levels \cup {NoSizing}
  BY <1>2 DEF Operator, Recalculate, ResetAll, ResetClosed, Reject, Accept,
              ReallocateRead, ReallocateWrite, TypeInv, TypeOK, WorkHeld
<1>5. CASE Recalculate
  <2>1. Saved(Bought) \in RowTypes
    BY <1>1, BoughtType, SavedType
  <2>2. row.rejected \in BOOLEAN
    BY <1>1, Zenon DEF RowTypes
  <2>3. row' \in RowTypes
    BY <1>5, <2>1, <2>2, Zenon DEF Recalculate, RowTypes
  <2> QED
    BY <1>1, <1>5, <2>3, Zenon DEF Recalculate
<1>6. CASE ResetAll
  <2>1. row' \in RowTypes
    BY <1>1, <1>3, <1>6, Zenon DEF ResetAll, RowTypes
  <2> QED
    BY <1>1, <1>6, <2>1, Zenon DEF ResetAll
<1>7. CASE ResetClosed
  <2>1. row' \in RowTypes
    BY <1>1, <1>3, <1>7, Zenon DEF ResetClosed, RowTypes
  <2>2. exact' \in BOOLEAN
    BY <1>7, Zenon DEF ResetClosed
  <2> QED
    BY <1>1, <1>7, <2>1, <2>2, Zenon DEF ResetClosed
<1>8. CASE Reject
  <2>1. row' \in RowTypes
    BY <1>1, <1>3, <1>8, Zenon DEF Reject, RowTypes
  <2> QED
    BY <1>1, <1>8, <2>1, Zenon DEF Reject
<1>9. CASE Accept
  <2>1. row' \in RowTypes
    BY <1>1, <1>9, Zenon DEF Accept, RowTypes
  <2> QED
    BY <1>1, <1>9, <2>1, Zenon DEF Accept
<1>10. CASE ReallocateRead
  <2>1. sizing' \in Levels
    BY <1>1, <1>10, Zenon DEF ReallocateRead, RowTypes
  <2> QED
    BY <1>1, <1>10, <2>1, Zenon DEF ReallocateRead
<1>11. CASE ReallocateWrite
  <2>1. PICK shares \in Sizes :
            /\ row' = [row EXCEPT !.bought = shares, !.sl = sizing,
                                  !.rejected = FALSE]
            /\ exact' = (exact /\ shares = row.bought /\ sizing = row.sl)
    BY <1>11 DEF ReallocateWrite
  <2>2. shares \in Shares /\ sizing \in Levels
    BY <1>1, <1>11 DEF Shares, ReallocateWrite
  <2>3. row' \in RowTypes
    BY <1>1, <2>1, <2>2, Zenon DEF RowTypes
  <2>4. exact' \in BOOLEAN
    BY <2>1, Zenon
  <2> QED
    BY <1>1, <1>11, <2>3, <2>4, Zenon DEF ReallocateWrite
<1> QED
  BY <1>4, <1>5, <1>6, <1>7, <1>8, <1>9, <1>10, <1>11

\* Every step keeps the types.
LEMMA TypeInductive ==
  ASSUME TypeInv, [Next]_vars
  PROVE  TypeInv'
<1>1. CASE UNCHANGED vars
  BY <1>1 DEF vars, TypeInv, TypeOK, WorkHeld
<1>2. CASE Operator
  BY <1>2, OperatorTyped
<1>3. CASE \E p \in Pass : PassStep(p)
  BY <1>3, QuietStepsTyped, BookingsTyped, OutcomeTyped DEF PassStep
<1> QED
  BY <1>1, <1>2, <1>3 DEF Next

\* Every variable keeps its type, the stop loss is always one of the levels, and
\* a pass about to record an outcome has closed its copy.
THEOREM TypeCorrect == Spec => []TypeOK
<1>1. TypeInv /\ [Next]_vars => TypeInv'
  BY TypeInductive
<1>2. Init => TypeInv
  BY InitTyped
<1>3. TypeInv => TypeOK
  BY DEF TypeInv
<1> QED
  BY <1>1, <1>2, <1>3, PTL DEF Spec

(***************************************************************************)
(* Bookings from accurate copies                                           *)
(***************************************************************************)

Written(p, event, status, sl, shares, rem) ==
    /\ row' = [row EXCEPT !.status = status, !.sl = sl, !.rem = rem,
                          !.events = @ \cup {event}, !.sold = @ + shares]
    /\ exact' => exact /\ Exactly(p)

\* A booking writes the row once, or leaves it.
LEMMA PartialExitCases ==
  ASSUME NEW p \in Pass, NEW event, NEW status, NEW sl, NEW shares, NEW rem,
         PartialExit(p, event, status, sl, shares, rem)
  PROVE  \/ row' = row /\ exact' = exact
         \/ Written(p, event, status, sl, shares, rem) /\ event \notin pass[p].events
  BY Zenon DEF PartialExit, WriteFails, Written

\* What an accurate copy that still holds shares says about the row.
LEMMA HeldRow ==
  ASSUME TypeInv, Safe, exact, NEW p \in Pass, Exactly(p), pass[p].status \in Held
  PROVE  /\ ~row.locked
         /\ row.sold + row.rem = row.bought /\ row.rem >= 0
         /\ row.status = StatusOf(row.events)
         /\ "GAP_LOSS" \notin row.events /\ "SL_HIT" \notin row.events
         /\ "T3_HIT" \notin row.events
         /\ row.status = "OPEN" => row.events = {} /\ row.sold = 0
         /\ row.status # "OPEN" => "T1_HIT" \in row.events
         /\ row.status = "PARTIAL_WIN_1" => "T2_HIT" \notin row.events
<1>1. row.status \in Held /\ row.status # "REJECTED" /\ row.status # "LOSS"
  BY DEF Exactly, Held
<1>2. Ledger /\ InOrder
  BY DEF Safe
<1>3. ~row.locked
  BY <1>1, <1>2 DEF Ledger
<1>4. row.status = StatusOf(row.events)
  BY <1>1, <1>2, <1>3 DEF Ledger
<1>5. row.events \in SUBSET Event
  BY DEF TypeInv, TypeOK, RowTypes
<1>6. /\ "GAP_LOSS" \notin row.events
      /\ "SL_HIT" \notin row.events
      /\ "T3_HIT" \notin row.events
      /\ row.status = "OPEN" => row.events = {}
      /\ row.status # "OPEN" => "T1_HIT" \in row.events \/ "T2_HIT" \in row.events
      /\ row.status = "PARTIAL_WIN_1" => "T2_HIT" \notin row.events
  BY <1>1, <1>4, <1>5, HeldHistory
<1>7. row.status # "OPEN" => "T1_HIT" \in row.events
  BY <1>2, <1>6 DEF InOrder
<1>8. row.sold + row.rem = row.bought /\ row.rem >= 0
  BY <1>2, <1>3 DEF Ledger
<1>9. row.events = {} => row.sold = 0
  BY <1>2 DEF Ledger
<1> QED
  BY <1>3, <1>4, <1>6, <1>7, <1>8, <1>9

\* A booking made from an accurate copy that still holds shares leaves the row
\* consistent, when it takes what it sells from what was left and writes the
\* status that the new history amounts to.
LEMMA BookingKeepsSafe ==
  ASSUME TypeInv, Safe, plan' = plan, NEW p \in Pass, NEW event \in Event,
         NEW status \in Held \cup Closed, NEW sl, NEW shares \in Int, NEW rem \in Int,
         PartialExit(p, event, status, sl, shares, rem),
         pass[p].status \in Held,
         shares + rem = pass[p].rem,
         exact /\ Exactly(p) =>
            /\ rem >= 0
            /\ status = StatusOf(row.events \cup {event})
            /\ event = "T2_HIT" => "T1_HIT" \in row.events
  PROVE  Safe'
<1>1. CASE row' = row /\ exact' = exact
  BY <1>1 DEF Safe, Ledger, InOrder
<1>2. CASE Written(p, event, status, sl, shares, rem)
  <2> SUFFICES ASSUME exact'
               PROVE  Ledger' /\ InOrder' /\ (row'.locked => plan' = "stopOnly")
    BY DEF Safe
  <2>1. exact /\ Exactly(p)
    BY <1>2 DEF Written
  <2>2. ~row.locked /\ row.sold + row.rem = row.bought /\ pass[p].rem = row.rem
    BY <2>1, HeldRow DEF Exactly
  <2>3. row \in RowTypes
    BY DEF TypeInv, TypeOK
  <2>4. /\ row'.locked = row.locked /\ row'.bought = row.bought
        /\ row'.status = status /\ row'.rem = rem
        /\ row'.events = row.events \cup {event} /\ row'.sold = row.sold + shares
    BY <1>2, <2>3 DEF Written, RowTypes
  <2>5. row'.sold + row'.rem = row'.bought
    <3>1. row.sold \in Int /\ row.rem \in Int
      BY <2>3 DEF RowTypes
    <3> QED
      BY <2>2, <2>4, <3>1
  <2>6. row'.status = StatusOf(row'.events) /\ row'.events # {} /\ row'.rem >= 0
    BY <2>1, <2>4
  <2>7. Ledger'
    BY <2>2, <2>4, <2>5, <2>6 DEF Ledger
  <2>8. InOrder'
    BY <2>1, <2>4 DEF InOrder, Safe
  <2> QED
    BY <2>2, <2>4, <2>7, <2>8
<1> QED
  BY <1>1, <1>2, PartialExitCases

\* The steps of a pass that write nothing leave the row consistent.
LEMMA UnwrittenKeepsSafe ==
  ASSUME Safe, UNCHANGED <<row, plan, exact>>
  PROVE  Safe'
  BY DEF Safe, Ledger, InOrder

\* A gap below the stop sells everything that is left, at a loss.
LEMMA GapLossSafe ==
  ASSUME TypeInv, Safe, NEW p \in Pass, GapLoss(p)
  PROVE  Safe'
<1> DEFINE t == pass[p]
           final == "LOSS"
<1>1. t.status \in Held /\ t.rem \in Int
  BY DEF GapLoss, TypeInv, TypeOK, WorkHeld, PassTypes
<1>2. PartialExit(p, "GAP_LOSS", final, t.sl, t.rem, 0) /\ plan' = plan
  BY DEF GapLoss
<1>3. final = StatusOf(row.events \cup {"GAP_LOSS"})
  BY DEF StatusOf
<1>4. final \in Held \cup Closed /\ "GAP_LOSS" \in Event /\ 0 \in Int /\ t.rem + 0 = t.rem
  BY <1>1 DEF Closed, Event
<1> HIDE DEF final
<1> QED
  BY <1>1, <1>2, <1>3, <1>4, BookingKeepsSafe

\* A stop is a win after the first target and a loss before it, as the history says.
LEMMA StopHitSafe ==
  ASSUME TypeInv, Safe, NEW p \in Pass, StopHit(p)
  PROVE  Safe'
<1> DEFINE t == pass[p]
           final == IF t.status \in Partial THEN "WIN" ELSE "LOSS"
<1>1. t.status \in Held /\ t.rem \in Int
  BY DEF StopHit, TypeInv, TypeOK, WorkHeld, PassTypes
<1>2. PartialExit(p, "SL_HIT", final, t.sl, t.rem, 0) /\ plan' = plan
  BY DEF StopHit
<1>3. ASSUME exact, Exactly(p)
      PROVE  final = StatusOf(row.events \cup {"SL_HIT"})
  <2>1. /\ row.status = t.status /\ "GAP_LOSS" \notin row.events
        /\ row.status = "OPEN" => row.events = {}
        /\ row.status # "OPEN" => "T1_HIT" \in row.events
    BY <1>1, <1>3, HeldRow DEF Exactly
  <2>2. CASE t.status = "OPEN"
    BY <2>1, <2>2 DEF StatusOf, Partial
  <2>3. CASE t.status \in Partial
    BY <2>1, <2>3 DEF StatusOf, Partial
  <2> QED
    BY <1>1, <2>2, <2>3 DEF Held, Partial
<1>4. final \in Held \cup Closed /\ "SL_HIT" \in Event /\ 0 \in Int /\ t.rem + 0 = t.rem
  BY <1>1 DEF Closed, Event
<1>5. exact /\ Exactly(p) =>
         /\ 0 >= 0
         /\ final = StatusOf(row.events \cup {"SL_HIT"})
         /\ "SL_HIT" = "T2_HIT" => "T1_HIT" \in row.events
  BY <1>3
<1> HIDE DEF final
<1> QED
  BY <1>1, <1>2, <1>4, <1>5, BookingKeepsSafe

\* Booking one of the first two targets, which sells some of what is left.
LEMMA BooksSafe ==
  ASSUME TypeInv, Safe, NEW p \in Pass, NEW event \in Event, NEW status \in Held,
         NEW level \in Levels, NEW shares \in Int,
         Books(p, event, status, level, shares),
         pass[p].status \in Held,
         exact /\ Exactly(p) =>
            /\ shares <= pass[p].rem
            /\ status = StatusOf(row.events \cup {event})
            /\ event = "T2_HIT" => "T1_HIT" \in row.events
  PROVE  Safe'
<1> DEFINE t == pass[p]
           rem == t.rem - shares
           sl == IF rem > 0 THEN Larger(t.sl, level) ELSE t.sl
<1>1. t.rem \in Int
  BY DEF TypeInv, TypeOK, PassTypes
<1>2. rem \in Int /\ shares + rem = t.rem /\ (shares <= t.rem => rem >= 0)
  BY <1>1
<1>3. PartialExit(p, event, status, sl, shares, rem) /\ plan' = plan
  BY DEF Books
<1> HIDE DEF rem, sl
<1> QED
  BY <1>2, <1>3, BookingKeepsSafe

\* The first target is booked on an untouched position, and sells no more than it has.
LEMMA FirstTargetSafe ==
  ASSUME TypeInv, Safe, NEW p \in Pass, FirstTarget(p)
  PROVE  Safe'
<1> DEFINE t == pass[p]
<1>1. t \in PassTypes /\ t.status \in Held
  BY DEF FirstTarget, FirstHit, Held, TypeInv, TypeOK
<1>2. FirstShares(t) \in Int /\ Breakeven \in Levels
  BY <1>1, SharesAreInts DEF Levels
<1>3. ASSUME exact, Exactly(p)
      PROVE  /\ FirstShares(t) <= t.rem
             /\ "PARTIAL_WIN_1" = StatusOf(row.events \cup {"T1_HIT"})
  <2>1. t.status = "OPEN"
    BY DEF FirstTarget, FirstHit
  <2>2. /\ row.events = {} /\ row.sold = 0 /\ row.sold + row.rem = row.bought
        /\ t.rem = row.rem /\ t.bought = row.bought
    BY <1>1, <1>3, <2>1, HeldRow DEF Exactly
  <2>3. t.rem \in Int /\ t.bought \in Nat
    <3>1. t.rem \in Int /\ row.bought \in Shares
      BY <1>1 DEF PassTypes, TypeInv, TypeOK, RowTypes
    <3> QED
      BY <2>2, <3>1, SharesBounded
  <2>4. t.rem = t.bought
    BY <2>2, <2>3
  <2>5. Tranche(t.bought, Part1) \in 0..t.bought
    <3>1. Part1 \in 0..100
      BY AlertAssumption
    <3> QED
      BY <2>3, <3>1, TrancheBounded
  <2>6. FirstShares(t) <= t.rem
    BY <2>3, <2>4, <2>5 DEF FirstShares
  <2>7. "PARTIAL_WIN_1" = StatusOf(row.events \cup {"T1_HIT"})
    BY <2>2 DEF StatusOf
  <2> QED
    BY <2>6, <2>7
<1>4. Books(p, "T1_HIT", "PARTIAL_WIN_1", Breakeven, FirstShares(t))
  BY DEF FirstTarget
<1>5. "PARTIAL_WIN_1" \in Held /\ "T1_HIT" \in Event
  BY DEF Held, Event
<1> QED
  BY <1>1, <1>2, <1>3, <1>4, <1>5, BooksSafe

\* The second target follows the first, and sells no more than is left.
LEMMA SecondTargetSafe ==
  ASSUME TypeInv, Safe, NEW p \in Pass, SecondTarget(p)
  PROVE  Safe'
<1> DEFINE t == pass[p]
<1>1. t \in PassTypes /\ t.status = "PARTIAL_WIN_1" /\ t.status \in Held
  BY DEF SecondTarget, SecondHit, Held, TypeInv, TypeOK
<1>2. SecondShares(t) \in Int /\ Target1 \in Levels
  BY <1>1, SharesAreInts DEF Levels
<1>3. ASSUME exact, Exactly(p)
      PROVE  /\ SecondShares(t) <= t.rem
             /\ "PARTIAL_WIN_2" = StatusOf(row.events \cup {"T2_HIT"})
             /\ "T1_HIT" \in row.events
  <2>1. /\ "GAP_LOSS" \notin row.events /\ "SL_HIT" \notin row.events
        /\ "T3_HIT" \notin row.events /\ "T1_HIT" \in row.events
    BY <1>1, <1>3, HeldRow DEF Exactly
  <2>2. t.rem \in Int /\ Tranche(t.bought, Part2) \in Int
    <3>1. t.rem \in Int /\ t.bought = row.bought /\ row.bought \in Shares
      BY <1>1, <1>3 DEF PassTypes, TypeInv, TypeOK, RowTypes, Exactly
    <3>2. t.bought \in Nat
      BY <3>1, SharesBounded
    <3>3. Part2 \in 0..100
      BY AlertAssumption
    <3>4. Tranche(t.bought, Part2) \in 0..t.bought
      BY <3>2, <3>3, TrancheBounded
    <3> QED
      BY <3>1, <3>2, <3>4
  <2>3. SecondShares(t) <= t.rem
    BY <2>2 DEF SecondShares
  <2>4. "PARTIAL_WIN_2" = StatusOf(row.events \cup {"T2_HIT"})
    BY <2>1 DEF StatusOf
  <2> QED
    BY <2>1, <2>3, <2>4
<1>4. Books(p, "T2_HIT", "PARTIAL_WIN_2", Target1, SecondShares(t))
  BY DEF SecondTarget
<1>5. "PARTIAL_WIN_2" \in Held /\ "T2_HIT" \in Event
  BY DEF Held, Event
<1> QED
  BY <1>1, <1>2, <1>3, <1>4, <1>5, BooksSafe

\* The third target sells the rest.
LEMMA ThirdTargetSafe ==
  ASSUME TypeInv, Safe, NEW p \in Pass, ThirdTarget(p)
  PROVE  Safe'
<1> DEFINE t == pass[p]
           final == "WIN"
<1>1. t.status \in Held /\ t.status = "PARTIAL_WIN_2" /\ t.rem \in Int
  BY DEF ThirdTarget, ThirdHit, Held, TypeInv, TypeOK, PassTypes
<1>2. PartialExit(p, "T3_HIT", final, Target2, t.rem, 0) /\ plan' = plan
  BY DEF ThirdTarget
<1>3. ASSUME exact, Exactly(p)
      PROVE  final = StatusOf(row.events \cup {"T3_HIT"})
  <2>1. "GAP_LOSS" \notin row.events /\ "SL_HIT" \notin row.events
    BY <1>1, <1>3, HeldRow
  <2> QED
    BY <2>1 DEF StatusOf
<1>4. final \in Held \cup Closed /\ "T3_HIT" \in Event /\ 0 \in Int /\ t.rem + 0 = t.rem
  BY <1>1 DEF Closed, Event
<1>5. exact /\ Exactly(p) =>
         /\ 0 >= 0
         /\ final = StatusOf(row.events \cup {"T3_HIT"})
         /\ "T3_HIT" = "T2_HIT" => "T1_HIT" \in row.events
  BY <1>3
<1> HIDE DEF final
<1> QED
  BY <1>1, <1>2, <1>4, <1>5, BookingKeepsSafe

\* Only an alert without targets is still open when its outcome is written.
LEMMA OutcomeSafe ==
  ASSUME TypeInv, Safe, NEW p \in Pass, Outcome(p)
  PROVE  Safe'
<1> DEFINE final == IF plan = "stopOnly" THEN "LOSS" ELSE pass[p].status
<1>1. plan' = plan
  BY DEF Outcome
<1>2. CASE row' = row /\ exact' = exact
  BY <1>1, <1>2, UnwrittenKeepsSafe
<1>3. CASE /\ row.status \notin Terminal
           /\ row' = [row EXCEPT !.status = final, !.rem = 0, !.locked = TRUE]
           /\ exact' = (exact /\ Exactly(p))
  <2> SUFFICES ASSUME exact'
               PROVE  Ledger' /\ InOrder' /\ (row'.locked => plan' = "stopOnly")
    BY DEF Safe
  <2>1. exact /\ Exactly(p)
    BY <1>3
  <2>2. plan = "stopOnly"
    <3>1. plan = "stopOnly" \/ pass[p].status \in Closed
      BY DEF Outcome, TypeInv, TypeOK
    <3> QED
      BY <1>3, <2>1, <3>1 DEF Exactly, Terminal
  <2>3. row \in RowTypes
    BY DEF TypeInv, TypeOK
  <2>4. /\ row'.status = "LOSS" /\ row'.rem = 0 /\ row'.locked = TRUE
        /\ row'.events = row.events /\ row'.sold = row.sold
    BY <1>3, <2>2, <2>3 DEF RowTypes
  <2>5. Ledger' /\ InOrder'
    BY <2>1, <2>4 DEF Safe, Ledger, InOrder
  <2> QED
    BY <1>1, <2>2, <2>5
<1> QED
  BY <1>2, <1>3 DEF Outcome, WriteFails

\* The operator leaves a consistent row consistent, or clears exact.
LEMMA OperatorSafe ==
  ASSUME TypeInv, Safe, Operator
  PROVE  Safe'
<1>1. row \in RowTypes
  BY DEF TypeInv, TypeOK
<1>2. CASE Recalculate
  <2>1. Bought \in Nat
    BY <1>1, BoughtType
  <2>2. /\ row'.status = "OPEN" /\ row'.bought = Bought /\ row'.rem = Bought
        /\ row'.events = {} /\ row'.sold = 0 /\ row'.locked = FALSE
    BY <1>2 DEF Recalculate, Saved
  <2>3. StatusOf({}) = "OPEN"
    BY DEF StatusOf
  <2> QED
    BY <2>1, <2>2, <2>3 DEF Safe, Ledger, InOrder
<1>3. CASE ResetAll \/ ResetClosed
  <2> SUFFICES ASSUME exact'
               PROVE  Ledger' /\ InOrder' /\ (row'.locked => plan' = "stopOnly")
    BY DEF Safe
  <2>1. row.bought \in Nat
    <3>1. row.bought \in Shares
      BY <1>1 DEF RowTypes
    <3> QED
      BY <3>1, SharesBounded
  <2>2. /\ row'.status = "OPEN" /\ row'.bought = row.bought /\ row'.rem = row.bought
        /\ row'.locked = FALSE
    BY <1>1, <1>3 DEF ResetAll, ResetClosed, RowTypes
  <2>3. row'.events = {} /\ row'.sold = 0
    <3>1. CASE ResetAll
      BY <1>1, <3>1 DEF ResetAll, RowTypes
    <3>2. CASE ResetClosed
      <4>1. exact /\ row.events = {}
        BY <3>2 DEF ResetClosed
      <4>2. row.sold = 0
        BY <4>1 DEF Safe, Ledger
      <4> QED
        BY <1>1, <3>2, <4>1, <4>2 DEF ResetClosed, RowTypes
    <3> QED
      BY <1>3, <3>1, <3>2
  <2>4. StatusOf({}) = "OPEN"
    BY DEF StatusOf
  <2> QED
    BY <2>1, <2>2, <2>3, <2>4 DEF Ledger, InOrder
<1>4. CASE Reject \/ Accept
  <2>1. /\ row'.bought = row.bought /\ row'.rem = row.rem /\ row'.sold = row.sold
        /\ row'.events = row.events /\ row'.locked = row.locked
        /\ row'.status \in {row.status, "REJECTED"}
    BY <1>1, <1>4 DEF Reject, Accept, RowTypes
  <2>2. plan' = plan /\ exact' = exact
    BY <1>4 DEF Reject, Accept
  <2> QED
    BY <2>1, <2>2 DEF Safe, Ledger, InOrder
<1>5. CASE ReallocateRead
  BY <1>5, UnwrittenKeepsSafe DEF ReallocateRead
<1>6. CASE ReallocateWrite
  <2> SUFFICES ASSUME exact'
               PROVE  Ledger' /\ InOrder' /\ (row'.locked => plan' = "stopOnly")
    BY DEF Safe
  <2>1. PICK shares \in Sizes :
            /\ row' = [row EXCEPT !.bought = shares, !.sl = sizing,
                                  !.rejected = FALSE]
            /\ exact' = (exact /\ shares = row.bought /\ sizing = row.sl)
    BY <1>6 DEF ReallocateWrite
  <2>2. exact /\ shares = row.bought
    BY <2>1
  <2>3. /\ row'.bought = row.bought /\ row'.rem = row.rem /\ row'.sold = row.sold
        /\ row'.events = row.events /\ row'.locked = row.locked
        /\ row'.status = row.status
    BY <1>1, <2>1, <2>2 DEF RowTypes
  <2>4. plan' = plan
    BY <1>6 DEF ReallocateWrite
  <2> QED
    BY <2>2, <2>3, <2>4 DEF Safe, Ledger, InOrder
<1> QED
  BY <1>2, <1>3, <1>4, <1>5, <1>6 DEF Operator

(***************************************************************************)
(* The theorems                                                            *)
(***************************************************************************)

\* Every step leaves a consistent row consistent.
LEMMA SafeInductive ==
  ASSUME TypeInv, Safe, [Next]_vars
  PROVE  Safe'
<1>1. CASE UNCHANGED vars
  BY <1>1, UnwrittenKeepsSafe DEF vars
<1>2. CASE Operator
  BY <1>2, OperatorSafe
<1>3. ASSUME NEW p \in Pass, PassStep(p)
      PROVE  Safe'
  <2>1. CASE \/ ReadLive(p) \/ ReadReplay(p) \/ NextBar(p) \/ EndPass(p)
             \/ StopOnly(p) \/ Quiet(p)
    BY <2>1, UnwrittenKeepsSafe
       DEF ReadLive, ReadReplay, NextBar, EndPass, StopOnly, Quiet
  <2> QED
    BY <1>3, <2>1, GapLossSafe, StopHitSafe, FirstTargetSafe, SecondTargetSafe,
       ThirdTargetSafe, OutcomeSafe DEF PassStep
<1> QED
  BY <1>1, <1>2, <1>3 DEF Next

\* A row is consistent when it is inserted.
LEMMA InitSafe ==
  ASSUME Init
  PROVE  Safe
<1>1. PICK shares \in Sizes : row = Saved(shares)
  BY DEF Init
<1>2. shares \in Nat
  BY <1>1, SharesBounded DEF Shares
<1>3. StatusOf({}) = "OPEN"
  BY DEF StatusOf
<1> QED
  BY <1>1, <1>2, <1>3 DEF Safe, Ledger, InOrder, Saved

\* The inductive invariant.
LEMMA Invariant == Spec => [](TypeInv /\ Safe)
<1>1. Init => TypeInv /\ Safe
  BY InitTyped, InitSafe
<1>2. TypeInv /\ Safe /\ [Next]_vars => (TypeInv /\ Safe)'
  BY TypeInductive, SafeInductive
<1> QED
  BY <1>1, <1>2, PTL DEF Spec

\* As long as every write was made from an accurate copy, the shares sold and the
\* shares left are the shares bought, and the status is the one that the booked
\* events amount to (update_partial_exit, process_trade_history).
THEOREM LedgerExactHolds == Spec => []LedgerExact
<1>1. Safe => LedgerExact
  BY DEF Safe, LedgerExact
<1> QED
  BY <1>1, Invariant, PTL

\* The stop a booking writes is not below the one in an accurate copy.
LEMMA BookingRatchets ==
  ASSUME TypeInv, NEW p \in Pass, NEW event, NEW status, NEW sl \in Levels,
         NEW shares, NEW rem, PartialExit(p, event, status, sl, shares, rem),
         sl >= pass[p].sl, exact'
  PROVE  row'.sl >= row.sl
<1>1. row \in RowTypes /\ row.sl \in Nat
  BY LevelsBounded DEF TypeInv, TypeOK, RowTypes
<1>2. CASE row' = row
  BY <1>1, <1>2
<1>3. CASE Written(p, event, status, sl, shares, rem)
  <2>1. row'.sl = sl /\ row.sl = pass[p].sl
    BY <1>1, <1>3 DEF Written, Exactly, RowTypes
  <2> QED
    BY <2>1
<1> QED
  BY <1>2, <1>3, PartialExitCases

\* The stop loss never moves backward while the copies are accurate, whatever the
\* levels, but for a recalculation: the ratchet of process_trade_history.
THEOREM StopRatchetHolds == Spec => StopRatchet
<1>1. ASSUME TypeInv, [Next]_vars, exact, exact', ~Recalculate, ~UNCHANGED vars
      PROVE  row'.sl >= row.sl
  <2>1. row \in RowTypes /\ row.sl \in Nat
    BY <1>1, LevelsBounded DEF TypeInv, TypeOK, RowTypes
  <2>2. CASE row'.sl = row.sl
    BY <2>1, <2>2
  <2>3. CASE Operator
    <3>1. CASE ResetAll \/ ResetClosed \/ Reject \/ Accept \/ ReallocateRead
      BY <2>1, <2>2, <3>1
         DEF ResetAll, ResetClosed, Reject, Accept, ReallocateRead, RowTypes
    <3>2. CASE ReallocateWrite
      <4>1. PICK shares \in Sizes :
                /\ row' = [row EXCEPT !.bought = shares, !.sl = sizing,
                                      !.rejected = FALSE]
                /\ exact' = (exact /\ shares = row.bought /\ sizing = row.sl)
        BY <3>2 DEF ReallocateWrite
      <4>2. row'.sl = row.sl
        BY <1>1, <2>1, <4>1 DEF RowTypes
      <4> QED
        BY <2>2, <4>2
    <3> QED
      BY <1>1, <2>3, <3>1, <3>2 DEF Operator
  <2>4. ASSUME NEW p \in Pass, PassStep(p)
        PROVE  row'.sl >= row.sl
    <3> DEFINE t == pass[p]
    <3>1. t.sl \in Levels /\ t.sl \in Nat
      BY <1>1, LevelsBounded DEF TypeInv, TypeOK, PassTypes
    <3>2. CASE \/ ReadLive(p) \/ ReadReplay(p) \/ NextBar(p) \/ EndPass(p)
               \/ StopOnly(p) \/ Quiet(p)
      BY <2>2, <3>2 DEF ReadLive, ReadReplay, NextBar, EndPass, StopOnly, Quiet
    <3>3. CASE GapLoss(p)
      BY <1>1, <3>1, <3>3, BookingRatchets DEF GapLoss
    <3>4. CASE StopHit(p)
      BY <1>1, <3>1, <3>4, BookingRatchets DEF StopHit
    <3>5. ASSUME NEW event, NEW status, NEW level \in Levels, NEW shares,
                 Books(p, event, status, level, shares)
          PROVE  row'.sl >= row.sl
      <4> DEFINE rem == t.rem - shares
                 sl == IF rem > 0 THEN Larger(t.sl, level) ELSE t.sl
      <4>1. level \in Nat
        BY LevelsBounded
      <4>2. sl \in Levels /\ sl >= t.sl
        BY <3>1, <4>1 DEF Larger
      <4>3. PartialExit(p, event, status, sl, shares, rem)
        BY <3>5 DEF Books
      <4> HIDE DEF sl, rem
      <4> QED
        BY <1>1, <4>2, <4>3, BookingRatchets
    <3>6. CASE FirstTarget(p)
      BY <3>5, <3>6 DEF FirstTarget, Levels
    <3>7. CASE SecondTarget(p)
      BY <3>5, <3>7 DEF SecondTarget, Levels
    <3>8. CASE ThirdTarget(p)
      <4>1. Target2 \in Levels /\ Target2 >= t.sl
        BY <3>1, LevelsBounded, AlertAssumption DEF Levels
      <4> QED
        BY <1>1, <3>8, <4>1, BookingRatchets DEF ThirdTarget
    <3>9. CASE Outcome(p)
      <4>1. row'.sl = row.sl
        BY <2>1, <3>9 DEF Outcome, WriteFails, RowTypes
      <4> QED
        BY <2>2, <4>1
    <3> QED
      BY <2>4, <3>2, <3>3, <3>4, <3>6, <3>7, <3>8, <3>9 DEF PassStep
  <2> QED
    BY <1>1, <2>3, <2>4 DEF Next
<1>2. TypeInv /\ [Next]_vars => [exact /\ exact' /\ ~Recalculate => row'.sl >= row.sl]_vars
  BY <1>1
<1>3. TypeInv /\ Safe => TypeInv
  OBVIOUS
<1> QED
  BY <1>2, <1>3, Invariant, PTL DEF Spec, StopRatchet

(***************************************************************************)
(* An undisturbed pass                                                     *)
(***************************************************************************)

\* What holds when one pass at a time follows an alert that was bought, no write
\* fails and nobody interferes.
Undisturbed == (\E one : Pass = {one}) /\ MaxOps = 0 /\ 0 \notin Sizes

Alone ==
    /\ exact /\ ~requested /\ sizing = NoSizing
    /\ ~row.rejected /\ row.bought > 0
    /\ \A p \in Pass :
          /\ pass[p].pc = "lock" => row.status \in Closed \/ Exactly(p)
          /\ pass[p].pc \in {"next", "bar", "targets"} /\ pass[p].status \in Held =>
                Exactly(p)

\* The copy and the row after a booking agree while shares are left; else the
\* row is closed or the copy is.
LEMMA BookingAlone ==
  ASSUME Undisturbed, TypeInv, Alone, NEW p \in Pass, Exactly(p),
         NEW to \in {"next", "targets", "lock"}, NEW event, NEW status, NEW kept,
         NEW sl, NEW kl, NEW shares, NEW rem,
         event \notin pass[p].events,
         PartialExit(p, event, status, sl, shares, rem),
         Carries(p, to, event, kept, kl, rem),
         UNCHANGED <<plan, requested, sizing>>,
         to = "lock" => status \in Closed,
         to # "lock" /\ kept \in Held => kept = status /\ kl = sl
  PROVE  Alone'
<1> DEFINE t == pass[p]
<1>1. row \in RowTypes /\ t \in PassTypes /\ ops \in 0..MaxOps /\ MaxOps = 0
  BY DEF TypeInv, TypeOK, Undisturbed
<1>2. ~WriteFails
  BY <1>1 DEF WriteFails
<1>3. /\ row' = [row EXCEPT !.status = status, !.sl = sl, !.rem = rem,
                            !.events = @ \cup {event}, !.sold = @ + shares]
      /\ exact' = (exact /\ Exactly(p))
  BY <1>2, Zenon DEF PartialExit
<1>4. exact'
  BY <1>3, Zenon DEF Alone
<1>5. /\ row'.status = status /\ row'.sl = sl /\ row'.rem = rem
      /\ row'.bought = row.bought /\ row'.events = row.events \cup {event}
      /\ row'.rejected = row.rejected
  BY <1>1, <1>3 DEF RowTypes
<1>6. /\ pass'[p].pc = to /\ pass'[p].status = kept /\ pass'[p].sl = kl
      /\ pass'[p].rem = rem /\ pass'[p].bought = t.bought
      /\ pass'[p].events = t.events \cup {event}
  BY <1>1 DEF Carries, TypeInv, TypeOK, PassTypes
<1>7. to # "lock" /\ kept \in Held => Exactly(p)'
  BY <1>5, <1>6 DEF Exactly
<1>8. \A q \in Pass : q = p
  BY DEF Undisturbed
<1> QED
  BY <1>4, <1>5, <1>6, <1>7, <1>8 DEF Alone

\* Every step of an undisturbed pass keeps its copy accurate while it matters.
LEMMA StepAlone ==
  ASSUME Undisturbed, TypeInv, Safe, Alone, [Next]_vars
  PROVE  Alone'
<1>1. row \in RowTypes /\ ops = 0 /\ MaxOps = 0 /\ \A p \in Pass : pass[p] \in PassTypes
  BY DEF TypeInv, TypeOK, Undisturbed
<1>2. CASE UNCHANGED vars
  BY <1>2 DEF vars, Alone, Exactly
<1>3. ~Operator
  <2>1. ~(ops < MaxOps)
    BY <1>1
  <2>2. ~Accept /\ ~ReallocateWrite
    BY Zenon DEF Accept, ReallocateWrite, Alone
  <2> QED
    BY <2>1, <2>2, Zenon DEF Operator
<1>4. ASSUME NEW p \in Pass, PassStep(p)
      PROVE  Alone'
  <2> DEFINE t == pass[p]
  <2>1. \A q \in Pass : q = p
    BY DEF Undisturbed
  <2>2. t \in PassTypes
    BY <1>1
  <2>3. ASSUME UNCHANGED <<row, requested, sizing, exact>>,
               pass'[p].pc = "lock" => row.status \in Closed \/ Exactly(p)',
               pass'[p].pc \in {"next", "bar", "targets"} /\ pass'[p].status \in Held
                  => Exactly(p)'
        PROVE  Alone'
    BY <2>1, <2>3 DEF Alone
  <2>4. t.pc \in {"bar", "targets"} => /\ t.status \in Held /\ Exactly(p)
    BY DEF Alone, TypeInv, WorkHeld
  <2>5. CASE ReadLive(p)
    <3>1. row.bought # 0
      BY <1>1 DEF Alone
    <3>2. pass' = [pass EXCEPT ![p] =
              [Idle EXCEPT !.pc = "next", !.left = 1, !.status = row.status,
                  !.sl = row.sl, !.bought = row.bought, !.rem = row.rem,
                  !.events = row.events]]
      BY <2>5, <3>1 DEF ReadLive, Bought
    <3>3. UNCHANGED <<row, requested, sizing, exact>>
      BY <2>5 DEF ReadLive
    <3>4. pass'[p].pc = "next" /\ Exactly(p)'
      BY <3>2, <3>3 DEF Exactly, Idle, TypeInv, TypeOK
    <3> QED
      BY <2>3, <3>3, <3>4
  <2>6. CASE ReadReplay(p)
    BY <2>6 DEF ReadReplay, Alone
  <2>7. ASSUME NextBar(p) \/ Quiet(p) \/ StopOnly(p)
        PROVE  Alone'
    <3>1. UNCHANGED <<row, requested, sizing, exact>>
      BY <2>7 DEF NextBar, Quiet, StopOnly
    <3>2. /\ pass'[p].status = t.status /\ pass'[p].sl = t.sl
          /\ pass'[p].bought = t.bought /\ pass'[p].rem = t.rem
          /\ pass'[p].events = t.events
      BY <2>2, <2>7 DEF NextBar, Quiet, StopOnly, TypeInv, TypeOK, PassTypes
    <3>3. t.pc \in {"next", "bar", "targets"}
      BY <2>7 DEF NextBar, Quiet, StopOnly, AtTargets
    <3>4. pass'[p].pc = "lock" => t.pc = "bar"
      BY <2>2, <2>7 DEF NextBar, Quiet, StopOnly, TypeInv, TypeOK, PassTypes
    <3>5. Exactly(p) => Exactly(p)'
      BY <3>1, <3>2 DEF Exactly
    <3> QED
      BY <2>3, <2>4, <3>1, <3>2, <3>3, <3>4, <3>5 DEF Alone
  <2>8. CASE EndPass(p)
    <3>1. pass'[p].pc = "idle"
      BY <2>8 DEF EndPass, Idle, TypeInv, TypeOK
    <3> QED
      BY <2>3, <2>8, <3>1 DEF EndPass
  <2>9. CASE Outcome(p)
    <3> DEFINE final == IF plan = "stopOnly" THEN "LOSS" ELSE t.status
    <3>1. final \in Closed
      BY <2>9 DEF Outcome, TypeInv, TypeOK, Closed
    <3>2. pass'[p].pc = "next" /\ pass'[p].status = final
      BY <2>2, <2>9 DEF Outcome, TypeInv, TypeOK, PassTypes
    <3>3. pass'[p].status \notin Held
      BY <3>1, <3>2 DEF Closed, Held
    <3>4. UNCHANGED <<requested, sizing>>
      BY <2>9 DEF Outcome
    <3>5. CASE row.status \in Terminal
      <4>1. row' = row /\ exact' = exact
        BY <2>9, <3>5 DEF Outcome
      <4> QED
        BY <2>3, <3>2, <3>3, <3>4, <4>1
    <3>6. CASE row.status \notin Terminal
      <4>1. Exactly(p)
        BY <2>9, <3>6 DEF Outcome, Alone, Terminal
      <4>2. ~WriteFails
        BY <1>1 DEF WriteFails
      <4>3. /\ row' = [row EXCEPT !.status = final, !.rem = 0, !.locked = TRUE]
            /\ exact' = (exact /\ Exactly(p))
        BY <2>9, <3>6, <4>2, Zenon DEF Outcome
      <4>4. exact'
        BY <4>1, <4>3, Zenon DEF Alone
      <4>5. row'.bought = row.bought /\ row'.rejected = row.rejected
        BY <1>1, <4>3 DEF RowTypes
      <4> QED
        BY <2>1, <3>2, <3>3, <3>4, <4>4, <4>5 DEF Alone
    <3> QED
      BY <3>5, <3>6
  <2>10. ASSUME t.pc \in {"bar", "targets"}
         PROVE  /\ "GAP_LOSS" \notin t.events /\ "SL_HIT" \notin t.events
                /\ "T3_HIT" \notin t.events
                /\ t.status = "OPEN" => "T1_HIT" \notin t.events
                /\ t.status = "PARTIAL_WIN_1" => "T2_HIT" \notin t.events
    BY <2>4, <2>10, HeldRow DEF Alone, Exactly
  <2>11. CASE GapLoss(p)
    <3>1. /\ PartialExit(p, "GAP_LOSS", "LOSS", t.sl, t.rem, 0)
          /\ Carries(p, "lock", "GAP_LOSS", "LOSS", t.sl, 0)
          /\ UNCHANGED <<plan, requested, sizing>> /\ Exactly(p)
          /\ "GAP_LOSS" \notin t.events
      BY <2>4, <2>10, <2>11 DEF GapLoss
    <3> QED
      BY <3>1, BookingAlone DEF Closed
  <2>12. CASE StopHit(p)
    <3>1. PICK final \in Closed :
            /\ PartialExit(p, "SL_HIT", final, t.sl, t.rem, 0)
            /\ Carries(p, "lock", "SL_HIT", final, t.sl, 0)
            /\ UNCHANGED <<plan, requested, sizing>> /\ Exactly(p)
            /\ "SL_HIT" \notin t.events
      BY <2>4, <2>10, <2>12 DEF StopHit, Closed
    <3> QED
      BY <3>1, BookingAlone
  <2>13. CASE ThirdTarget(p)
    <3>1. /\ PartialExit(p, "T3_HIT", "WIN", Target2, t.rem, 0)
          /\ Carries(p, "lock", "T3_HIT", "WIN", t.sl, 0)
          /\ UNCHANGED <<plan, requested, sizing>> /\ Exactly(p)
          /\ "T3_HIT" \notin t.events
      BY <2>4, <2>10, <2>13 DEF ThirdTarget, AtTargets
    <3> QED
      BY <3>1, BookingAlone DEF Closed
  <2>14. ASSUME NEW event, NEW status, NEW level, NEW shares, event \notin t.events,
                Exactly(p), Books(p, event, status, level, shares)
         PROVE  Alone'
    <3> DEFINE rem == t.rem - shares
               sl == IF rem > 0 THEN Larger(t.sl, level) ELSE t.sl
               to == IF rem > 0 THEN "targets" ELSE "next"
               kept == IF rem > 0 THEN status ELSE "WIN"
    <3>1. /\ PartialExit(p, event, status, sl, shares, rem)
          /\ Carries(p, to, event, kept, sl, rem)
          /\ UNCHANGED <<plan, requested, sizing>>
      BY <2>14 DEF Books
    <3>2. /\ to \in {"next", "targets", "lock"} /\ to # "lock"
          /\ kept \in Held => kept = status
      BY DEF Held
    <3> HIDE DEF rem, sl, to, kept
    <3> QED
      BY <2>14, <3>1, <3>2, BookingAlone
  <2>15. CASE FirstTarget(p)
    BY <2>4, <2>10, <2>14, <2>15 DEF FirstTarget, FirstHit, AtTargets
  <2>16. CASE SecondTarget(p)
    BY <2>4, <2>10, <2>14, <2>16 DEF SecondTarget, SecondHit, AtTargets
  <2> QED
    BY <1>4, <2>5, <2>6, <2>7, <2>8, <2>9, <2>11, <2>12, <2>13, <2>15, <2>16
       DEF PassStep
<1> QED
  BY <1>2, <1>3, <1>4 DEF Next

\* The undisturbed pass finds its position alone at the start, and at every step.
LEMMA AloneInvariant ==
  ASSUME Undisturbed
  PROVE  Spec => [](TypeInv /\ Safe /\ Alone)
<1>1. Init => Alone
  <2> SUFFICES ASSUME Init PROVE Alone
    OBVIOUS
  <2>1. PICK shares \in Sizes : row = Saved(shares)
    BY DEF Init
  <2>2. shares \in Nat /\ shares # 0
    BY <2>1, SharesBounded DEF Shares, Undisturbed
  <2>3. row.bought > 0 /\ ~row.rejected
    BY <2>1, <2>2 DEF Saved
  <2>4. \A p \in Pass : pass[p].pc = "idle"
    BY DEF Init, Idle
  <2> QED
    BY <2>3, <2>4 DEF Init, Alone
<1>2. TypeInv /\ Safe /\ Alone /\ [Next]_vars => Alone'
  BY StepAlone
<1> QED
  BY <1>1, <1>2, Invariant, PTL DEF Spec

\* One pass at a time, no failed write, no operator and a position that was sized:
\* every write is made from an accurate copy, so that the ledger holds without
\* any condition, whatever the prices, the levels and the exit profile.
THEOREM UndisturbedIsExact ==
  ASSUME Undisturbed
  PROVE  Spec => [](exact /\ Ledger)
<1>1. TypeInv /\ Safe /\ Alone => exact /\ Ledger
  BY DEF Safe, Alone
<1> QED
  BY <1>1, AloneInvariant, PTL

(***************************************************************************)
(* The life of the position                                                *)
(***************************************************************************)

\* What the refinement needs beside the ledger: no exit sells less than nothing,
\* and an alert without targets has no exit.
TradeInv ==
    /\ exact => row.sold >= 0
    /\ plan = "stopOnly" => row.events = {}

\* A step of the position's life, or a stutter.
Lives == Life!Next \/ Told' = Told

\* The stages of a position are the statuses of a row.
LEMMA Stages ==
  /\ DOMAIN Life!After = Held
  /\ Held \cup Terminal \subseteq Life!Stage
  /\ Life!Ended = Closed
  /\ Life!After["OPEN"] = {"PARTIAL_WIN_1", "LOSS"}
  /\ Life!After["PARTIAL_WIN_1"] = {"PARTIAL_WIN_2", "WIN", "LOSS"}
  /\ Life!After["PARTIAL_WIN_2"] = {"WIN", "LOSS"}
<1>1. DOMAIN Life!After = Held
  BY DEF Life!After, Held
<1>2. Held \cup Terminal \subseteq Life!Stage /\ Life!Ended = Closed
  BY <1>1 DEF Life!Stage, Life!Ended, Terminal, Closed
<1>3. /\ Life!After["OPEN"] = {"PARTIAL_WIN_1", "LOSS"}
      /\ Life!After["PARTIAL_WIN_1"] = {"PARTIAL_WIN_2", "WIN", "LOSS"}
      /\ Life!After["PARTIAL_WIN_2"] = {"WIN", "LOSS"}
  BY DEF Life!After, Life!Ended
<1> QED
  BY <1>1, <1>2, <1>3

\* A row that owes no shares is a position of the abstract trade.
LEMMA RowIsPosition ==
  ASSUME NEW r \in RowTypes, r.rem >= 0, r.sold >= 0
  PROVE  PositionOf(r) \in Life!Position
<1>1. r.bought \in Nat /\ r.sl \in Nat
  <2>1. r.bought \in Shares /\ r.sl \in Levels
    BY DEF RowTypes
  <2> QED
    BY <2>1, SharesBounded, LevelsBounded
<1>2. r.rem \in Nat /\ r.sold \in Nat /\ r.status \in Life!Stage
  BY Stages DEF RowTypes
<1> QED
  BY <1>1, <1>2 DEF PositionOf, Life!Position

\* A step that leaves the row alone is a stutter of the trade.
LEMMA UnwrittenLives ==
  ASSUME TradeInv, UNCHANGED <<row, plan, exact>>
  PROVE  TradeInv' /\ Lives
  BY DEF TradeInv, Lives, Told

\* A stale write loses track of the trade.
LEMMA StaleLives ==
  ASSUME ~exact'
  PROVE  Lives
  BY DEF Lives, Told, Untold, Life!Next, Life!LoseTrack, Life!Unknown

\* A booking from an accurate copy is an exit of the trade.
LEMMA BookingLives ==
  ASSUME TypeInv, TypeInv', Safe, Safe', TradeInv, plan # "stopOnly", plan' = plan,
         NEW p \in Pass, NEW event, NEW status, NEW sl \in Levels,
         NEW shares \in Int, NEW rem \in Int,
         PartialExit(p, event, status, sl, shares, rem),
         pass[p].status \in Held,
         shares + rem = pass[p].rem, sl >= pass[p].sl,
         exact /\ Exactly(p) =>
            /\ shares >= 0
            /\ status \in Life!After[pass[p].status]
            /\ status \in Closed => rem = 0
  PROVE  TradeInv' /\ Lives
<1>1. CASE row' = row /\ exact' = exact
  BY <1>1, UnwrittenLives
<1>2. CASE Written(p, event, status, sl, shares, rem) /\ ~exact'
  BY <1>2, StaleLives DEF TradeInv
<1>3. CASE Written(p, event, status, sl, shares, rem) /\ exact'
  <2>1. exact /\ Exactly(p)
    BY <1>3 DEF Written
  <2>2. row \in RowTypes /\ row.sold \in Int /\ row.rem \in Int
    BY DEF TypeInv, TypeOK, RowTypes
  <2>3. /\ row'.status = status /\ row'.sl = sl /\ row'.rem = rem
        /\ row'.bought = row.bought /\ row'.sold = row.sold + shares
    BY <1>3, <2>2 DEF Written, RowTypes
  <2>4. /\ row.status \in Held /\ shares + rem = row.rem /\ sl >= row.sl
        /\ shares >= 0 /\ status \in Life!After[row.status]
        /\ status \in Closed => rem = 0
    BY <2>1 DEF Exactly
  <2>5. TradeInv'
    BY <2>1, <2>2, <2>3, <2>4 DEF TradeInv
  <2>6. PositionOf(row') \in Life!Position
    <3>1. row' \in RowTypes /\ row'.rem >= 0 /\ row'.sold >= 0
      BY <1>3, <2>5 DEF TypeInv, TypeOK, RowTypes, Safe, Ledger, TradeInv
    <3> QED
      BY <3>1, RowIsPosition
  <2>7. Told = PositionOf(row) /\ Told' = PositionOf(row')
    BY <1>3, <2>1 DEF Told, PositionOf
  <2>8. /\ Told.stage \in DOMAIN Life!After
        /\ Told'.stage \in Life!After[Told.stage]
        /\ Told'.bought = Told.bought
        /\ Told'.left <= Told.left
        /\ Told'.sold + Told'.left = Told.sold + Told.left
        /\ Told'.stage \in Life!Ended => Told'.left = 0
        /\ Told'.stop >= Told.stop
    BY <2>2, <2>3, <2>4, <2>7, Stages DEF PositionOf
  <2> QED
    BY <2>5, <2>6, <2>7, <2>8 DEF Lives, Life!Next, Life!Exit
<1> QED
  BY <1>1, <1>2, <1>3, PartialExitCases

\* A gap or a stop sells all that is left.
LEMMA StopsLive ==
  ASSUME TypeInv, TypeInv', Safe, Safe', TradeInv, NEW p \in Pass,
         GapLoss(p) \/ StopHit(p)
  PROVE  TradeInv' /\ Lives
<1> DEFINE t == pass[p]
<1>1. t.status \in Held /\ t.rem \in Int /\ t.sl \in Levels
  BY DEF GapLoss, StopHit, TypeInv, TypeOK, WorkHeld, PassTypes
<1>2. PICK event \in Event, final \in Closed :
         /\ PartialExit(p, event, final, t.sl, t.rem, 0)
         /\ final = "LOSS" \/ t.status \in Partial
  <2>1. CASE GapLoss(p)
    BY <2>1 DEF GapLoss, Closed, Event
  <2>2. CASE StopHit(p)
    <3> DEFINE final == IF t.status \in Partial THEN "WIN" ELSE "LOSS"
    <3>1. final \in Closed /\ (final = "LOSS" \/ t.status \in Partial)
      BY DEF Closed
    <3>2. PartialExit(p, "SL_HIT", final, t.sl, t.rem, 0)
      BY <2>2 DEF StopHit
    <3>3. "SL_HIT" \in Event
      BY DEF Event
    <3> QED
      BY <3>1, <3>2, <3>3
  <2> QED
    BY <2>1, <2>2
<1>3. plan' = plan /\ plan # "stopOnly"
  BY DEF GapLoss, StopHit
<1>4. final \in Life!After[t.status]
  BY <1>1, <1>2, Stages DEF Held, Partial, Closed
<1>5. t.rem + 0 = t.rem /\ t.sl >= t.sl /\ 0 \in Int
  BY <1>1, LevelsBounded
<1>6. ASSUME exact, Exactly(p) PROVE t.rem >= 0
  BY <1>1, <1>6, HeldRow DEF Exactly
<1> QED
  BY <1>1, <1>2, <1>3, <1>4, <1>5, <1>6, BookingLives

\* What a target sells is a number of shares.
LEMMA TrancheSold ==
  ASSUME TypeInv, Safe, exact, NEW p \in Pass, Exactly(p), pass[p].status \in Held
  PROVE  FirstShares(pass[p]) >= 0 /\ SecondShares(pass[p]) >= 0
<1> DEFINE t == pass[p]
<1>1. t.rem \in Int /\ t.rem >= 0 /\ t.bought \in Nat
  <2>1. t.rem \in Int /\ t.bought = row.bought /\ row.bought \in Shares
    BY DEF TypeInv, TypeOK, PassTypes, RowTypes, Exactly
  <2>2. t.rem >= 0
    BY HeldRow DEF Exactly
  <2> QED
    BY <2>1, <2>2, SharesBounded
<1>2. Tranche(t.bought, Part1) \in Nat /\ Tranche(t.bought, Part2) \in Nat
  <2>1. Part1 \in 0..100 /\ Part2 \in 0..100
    BY AlertAssumption
  <2>2. /\ Tranche(t.bought, Part1) \in 0..t.bought
        /\ Tranche(t.bought, Part2) \in 0..t.bought
    BY <1>1, <2>1, TrancheBounded
  <2> QED
    BY <1>1, <2>2
<1> QED
  BY <1>1, <1>2 DEF FirstShares, SecondShares

\* A target of the first two sells some of what is left, and may move the stop up.
LEMMA BooksLives ==
  ASSUME TypeInv, TypeInv', Safe, Safe', TradeInv, plan # "stopOnly", NEW p \in Pass,
         NEW event, NEW status \in Partial, NEW level \in Levels, NEW shares \in Int,
         Books(p, event, status, level, shares),
         pass[p].status \in Held, status \in Life!After[pass[p].status],
         exact /\ Exactly(p) => shares >= 0
  PROVE  TradeInv' /\ Lives
<1> DEFINE t == pass[p]
           rem == t.rem - shares
           sl == IF rem > 0 THEN Larger(t.sl, level) ELSE t.sl
<1>1. t.rem \in Int /\ t.sl \in Levels
  BY DEF TypeInv, TypeOK, PassTypes
<1>2. rem \in Int /\ shares + rem = t.rem
  BY <1>1
<1>3. sl \in Levels /\ sl >= t.sl
  BY <1>1, LevelsBounded DEF Larger
<1>4. PartialExit(p, event, status, sl, shares, rem) /\ plan' = plan
  BY DEF Books
<1>5. status \notin Closed
  BY DEF Partial, Closed
<1> HIDE DEF rem, sl
<1> QED
  BY <1>2, <1>3, <1>4, <1>5, BookingLives

\* The three targets are exits of the trade.
LEMMA TargetsLive ==
  ASSUME TypeInv, TypeInv', Safe, Safe', TradeInv, NEW p \in Pass,
         FirstTarget(p) \/ SecondTarget(p) \/ ThirdTarget(p)
  PROVE  TradeInv' /\ Lives
<1> DEFINE t == pass[p]
<1>1. t \in PassTypes /\ t.rem \in Int /\ t.sl \in Levels /\ plan # "stopOnly"
  BY DEF FirstTarget, SecondTarget, ThirdTarget, AtTargets, TypeInv, TypeOK, PassTypes
<1>2. FirstShares(t) \in Int /\ SecondShares(t) \in Int
  BY <1>1, SharesAreInts
<1>3. CASE FirstTarget(p)
  <2>1. /\ Books(p, "T1_HIT", "PARTIAL_WIN_1", Breakeven, FirstShares(t))
        /\ t.status = "OPEN" /\ t.status \in Held /\ Breakeven \in Levels
        /\ "PARTIAL_WIN_1" \in Partial /\ "PARTIAL_WIN_1" \in Life!After[t.status]
    BY <1>3, Stages DEF FirstTarget, FirstHit, Held, Levels, Partial
  <2> QED
    BY <1>1, <1>2, <2>1, TrancheSold, BooksLives
<1>4. CASE SecondTarget(p)
  <2>1. /\ Books(p, "T2_HIT", "PARTIAL_WIN_2", Target1, SecondShares(t))
        /\ t.status \in Held /\ Target1 \in Levels
        /\ "PARTIAL_WIN_2" \in Partial /\ "PARTIAL_WIN_2" \in Life!After[t.status]
    BY <1>4, Stages DEF SecondTarget, SecondHit, Held, Levels, Partial
  <2> QED
    BY <1>1, <1>2, <2>1, TrancheSold, BooksLives
<1>5. CASE ThirdTarget(p)
  <2>1. /\ PartialExit(p, "T3_HIT", "WIN", Target2, t.rem, 0) /\ plan' = plan
        /\ t.status \in Held /\ "WIN" \in Life!After[t.status]
    BY <1>5, Stages DEF ThirdTarget, ThirdHit, Held
  <2>2. Target2 \in Levels /\ Target2 >= t.sl /\ t.rem + 0 = t.rem /\ 0 \in Int
    BY <1>1, LevelsBounded, AlertAssumption DEF Levels
  <2>3. ASSUME exact, Exactly(p) PROVE t.rem >= 0
    BY <1>1, <2>1, <2>3, HeldRow DEF Exactly
  <2> QED
    BY <1>1, <2>1, <2>2, <2>3, BookingLives
<1> QED
  BY <1>3, <1>4, <1>5

\* The outcome of an alert without targets writes an open position off.
LEMMA OutcomeLives ==
  ASSUME TypeInv, Safe, TradeInv, NEW p \in Pass, Outcome(p)
  PROVE  TradeInv' /\ Lives
<1> DEFINE final == IF plan = "stopOnly" THEN "LOSS" ELSE pass[p].status
<1>1. plan' = plan
  BY DEF Outcome
<1>2. CASE row' = row /\ exact' = exact
  BY <1>1, <1>2, UnwrittenLives
<1>3. CASE /\ row.status \notin Terminal
           /\ row' = [row EXCEPT !.status = final, !.rem = 0, !.locked = TRUE]
           /\ exact' = (exact /\ Exactly(p))
  <2>1. row \in RowTypes
    BY DEF TypeInv, TypeOK
  <2>2. /\ row'.status = final /\ row'.rem = 0 /\ row'.bought = row.bought
        /\ row'.events = row.events /\ row'.sold = row.sold /\ row'.sl = row.sl
    BY <1>3, <2>1 DEF RowTypes
  <2>3. TradeInv'
    BY <1>1, <1>3, <2>2, Zenon DEF TradeInv
  <2>4. CASE ~exact'
    BY <2>3, <2>4, StaleLives
  <2>5. CASE exact'
    <3>1. exact /\ Exactly(p)
      BY <1>3, <2>5, Zenon
    <3>2. plan = "stopOnly"
      <4>1. plan = "stopOnly" \/ pass[p].status \in Closed
        BY DEF Outcome, TypeInv, TypeOK
      <4> QED
        BY <1>3, <3>1, <4>1 DEF Exactly, Terminal
    <3>3. row.status = "OPEN"
      <4>1. row.events = {}
        BY <3>2 DEF TradeInv
      <4>2. StatusOf({}) = "OPEN"
        BY DEF StatusOf
      <4>3. ~row.locked
        BY <1>3, <3>1 DEF Safe, Ledger, Terminal, Closed
      <4> QED
        BY <1>3, <3>1, <4>1, <4>2, <4>3 DEF Safe, Ledger, Terminal
    <3>4. Told = PositionOf(row) /\ Told' = PositionOf(row')
      BY <2>5, <3>1 DEF Told, PositionOf
    <3>5. Told.stage = "OPEN" /\ Told' = [Told EXCEPT !.stage = "LOSS", !.left = 0]
      <4>1. row'.status = "LOSS"
        BY <2>2, <3>2
      <4>2. Told = [stage |-> "OPEN", bought |-> row.bought, left |-> row.rem,
                    sold |-> row.sold, stop |-> row.sl]
        BY <3>3, <3>4 DEF PositionOf
      <4>3. Told' = [stage |-> "LOSS", bought |-> row.bought, left |-> 0,
                     sold |-> row.sold, stop |-> row.sl]
        BY <2>2, <3>4, <4>1 DEF PositionOf
      <4> DEFINE lost == [Told EXCEPT !.stage = "LOSS"]
      <4>4. lost = [stage |-> "LOSS", bought |-> row.bought, left |-> row.rem,
                    sold |-> row.sold, stop |-> row.sl]
        BY <4>2
      <4>5. [Told EXCEPT !.stage = "LOSS", !.left = 0] = [lost EXCEPT !.left = 0]
        OBVIOUS
      <4> HIDE DEF lost
      <4>6. [lost EXCEPT !.left = 0] = Told'
        BY <4>3, <4>4
      <4> QED
        BY <3>3, <3>4, <4>2, <4>5, <4>6
    <3> QED
      BY <2>3, <3>5 DEF Lives, Life!Next, Life!WriteOff
  <2> QED
    BY <2>4, <2>5
<1> QED
  BY <1>2, <1>3 DEF Outcome, WriteFails

\* An alert that is open anew is a fresh position.
LEMMA ReopenedLives ==
  ASSUME row' \in RowTypes, row'.status = "OPEN", row'.rem = row'.bought, row'.sold = 0
  PROVE  Lives
<1>1. row'.bought \in Nat
  <2>1. row'.bought \in Shares
    BY DEF RowTypes
  <2> QED
    BY <2>1, SharesBounded
<1>2. row'.rem >= 0 /\ row'.sold >= 0
  BY <1>1
<1>3. PositionOf(row') \in Life!Position
  BY <1>2, RowIsPosition
<1>4. PositionOf(row') \in Life!Fresh
  BY <1>3 DEF PositionOf, Life!Fresh
<1>5. CASE exact'
  <2>1. Told' = PositionOf(row')
    BY <1>5 DEF Told, PositionOf
  <2> QED
    BY <1>4, <2>1 DEF Lives, Life!Next, Life!Reopen
<1> QED
  BY <1>5, StaleLives

\* The operator opens the position anew, refuses it, or leaves it as it is.
LEMMA OperatorLives ==
  ASSUME TypeInv, TypeInv', Safe, TradeInv, Operator
  PROVE  TradeInv' /\ Lives
<1>1. row \in RowTypes /\ row' \in RowTypes
  BY DEF TypeInv, TypeOK
<1>2. CASE Recalculate
  <2>1. /\ row'.status = "OPEN" /\ row'.bought = Bought /\ row'.rem = Bought
        /\ row'.events = {} /\ row'.sold = 0
    BY <1>2 DEF Recalculate, Saved
  <2> QED
    BY <1>1, <2>1, ReopenedLives DEF TradeInv
<1>3. CASE ResetAll
  <2>1. /\ row'.status = "OPEN" /\ row'.bought = row.bought /\ row'.rem = row.bought
        /\ row'.events = {} /\ row'.sold = 0
    BY <1>1, <1>3 DEF ResetAll, RowTypes
  <2> QED
    BY <1>1, <2>1, ReopenedLives DEF TradeInv
<1>4. CASE ResetClosed
  <2>1. /\ row'.status = "OPEN" /\ row'.bought = row.bought /\ row'.rem = row.bought
        /\ row'.events = row.events /\ row'.sold = row.sold /\ plan' = plan
    BY <1>1, <1>4 DEF ResetClosed, RowTypes
  <2>2. exact' => exact /\ row.events = {}
    BY <1>4 DEF ResetClosed
  <2>3. exact' => row'.sold = 0
    BY <2>1, <2>2 DEF Safe, Ledger
  <2>4. TradeInv'
    BY <2>1, <2>3 DEF TradeInv
  <2> QED
    BY <1>1, <2>1, <2>3, <2>4, ReopenedLives, StaleLives
<1>5. CASE Reject
  <2>1. /\ row'.status = "REJECTED" /\ row'.bought = row.bought /\ row'.rem = row.rem
        /\ row'.sold = row.sold /\ row'.sl = row.sl /\ row'.events = row.events
        /\ plan' = plan /\ exact' = exact
    BY <1>1, <1>5 DEF Reject, RowTypes
  <2>2. TradeInv'
    BY <2>1 DEF TradeInv
  <2>3. ASSUME exact PROVE Lives
    <3>1. Told = PositionOf(row) /\ Told' = PositionOf(row')
      BY <2>1, <2>3 DEF Told, PositionOf
    <3>2. Told' = [Told EXCEPT !.stage = "REJECTED"]
      BY <2>1, <3>1 DEF PositionOf
    <3>3. Told.stage # "UNKNOWN"
      BY <1>1, <3>1 DEF PositionOf, RowTypes, Held, Terminal, Closed
    <3> QED
      BY <3>2, <3>3 DEF Lives, Life!Next, Life!Refuse
  <2> QED
    BY <2>1, <2>2, <2>3, StaleLives
<1>6. CASE Accept \/ ReallocateRead
  <2>1. /\ row'.status = row.status /\ row'.bought = row.bought /\ row'.rem = row.rem
        /\ row'.sold = row.sold /\ row'.sl = row.sl /\ row'.events = row.events
        /\ plan' = plan /\ exact' = exact
    BY <1>1, <1>6 DEF Accept, ReallocateRead, RowTypes
  <2> QED
    BY <2>1 DEF TradeInv, Lives, Told, PositionOf
<1>7. CASE ReallocateWrite
  <2>1. PICK shares \in Sizes :
            /\ row' = [row EXCEPT !.bought = shares, !.sl = sizing,
                                  !.rejected = FALSE]
            /\ exact' = (exact /\ shares = row.bought /\ sizing = row.sl)
    BY <1>7 DEF ReallocateWrite
  <2>2. /\ row'.status = row.status /\ row'.rem = row.rem /\ row'.bought = shares
        /\ row'.sold = row.sold /\ row'.sl = sizing /\ row'.events = row.events
    BY <1>1, <2>1 DEF RowTypes
  <2>3. exact' => exact /\ shares = row.bought /\ sizing = row.sl
    BY <2>1
  <2>4. plan' = plan
    BY <1>7 DEF ReallocateWrite
  <2>5. TradeInv'
    BY <2>2, <2>3, <2>4 DEF TradeInv
  <2>6. exact' => Told' = Told
    BY <2>2, <2>3 DEF Told, PositionOf
  <2> QED
    BY <2>5, <2>6, StaleLives DEF Lives
<1> QED
  BY <1>2, <1>3, <1>4, <1>5, <1>6, <1>7 DEF Operator

\* Every step of the ledger is a step of the life, or a stutter.
LEMMA StepLives ==
  ASSUME TypeInv, TypeInv', Safe, Safe', TradeInv, [Next]_vars
  PROVE  TradeInv' /\ Lives
<1>1. CASE UNCHANGED vars
  BY <1>1, UnwrittenLives DEF vars
<1>2. CASE Operator
  BY <1>2, OperatorLives
<1>3. ASSUME NEW p \in Pass, PassStep(p)
      PROVE  TradeInv' /\ Lives
  <2>1. CASE \/ ReadLive(p) \/ ReadReplay(p) \/ NextBar(p) \/ EndPass(p)
             \/ StopOnly(p) \/ Quiet(p)
    BY <2>1, UnwrittenLives
       DEF ReadLive, ReadReplay, NextBar, EndPass, StopOnly, Quiet
  <2> QED
    BY <1>3, <2>1, StopsLive, TargetsLive, OutcomeLives DEF PassStep
<1> QED
  BY <1>1, <1>2, <1>3 DEF Next

\* The tracker's passes and the operator's actions together implement the life of a
\* position: while every write comes from an accurate copy, exits come in order, each
\* sells what it books, the last leaves nothing, none follows it, and the stop moves
\* forward only; and after a stale write nothing but a reset tells the life anew.
THEOREM PassesImplementTrade == Spec => RefinesTrade
<1>1. Init => TradeInv /\ Life!Init
  <2> SUFFICES ASSUME Init PROVE TradeInv /\ Life!Init
    OBVIOUS
  <2>1. PICK shares \in Sizes : row = Saved(shares)
    BY DEF Init
  <2>2. exact /\ row.status = "OPEN" /\ row.rem = row.bought /\ row.sold = 0
        /\ row.events = {} /\ row.bought = shares
    BY <2>1 DEF Init, Saved
  <2>3. row \in RowTypes /\ row.rem >= 0 /\ row.sold >= 0
    BY <2>1, <2>2, SavedType, SharesBounded DEF Shares
  <2>4. Told \in Life!Fresh
    BY <2>2, <2>3, RowIsPosition DEF Told, PositionOf, Life!Fresh
  <2> QED
    BY <2>2, <2>4 DEF TradeInv, Life!Init
<1>2. TypeInv /\ Safe /\ TradeInv /\ TypeInv' /\ Safe' /\ [Next]_vars
         => TradeInv' /\ [Life!Next]_Told
  BY StepLives DEF Lives
<1> QED
  BY <1>1, <1>2, Invariant, PTL DEF Spec, RefinesTrade, Life!Spec

\* What a pass does to a closed alert, while the copies are accurate: nothing.
ClosedStays ==
    [][exact /\ exact' /\ row.status \in Closed =>
          Operator \/ (row'.status = row.status /\ row'.sl = row.sl)]_vars

\* A pass that books something on an alert has read it before it was closed.
LEMMA AccurateStaysClosed == Spec => ClosedStays
<1>1. ASSUME TypeInv, Safe, [Next]_vars, exact, exact', row.status \in Closed, ~Operator
      PROVE  row'.status = row.status /\ row'.sl = row.sl
  <2>1. CASE row' = row
    BY <2>1
  <2>2. ASSUME NEW p \in Pass, NEW event, NEW status, NEW sl, NEW shares, NEW rem,
               PartialExit(p, event, status, sl, shares, rem), pass[p].status \in Held
        PROVE  row' = row
    <3>1. row.status \notin Held
      BY <1>1 DEF Closed, Held
    <3>2. ~Written(p, event, status, sl, shares, rem)
      BY <1>1, <2>2, <3>1 DEF Written, Exactly
    <3> QED
      BY <2>2, <3>2, PartialExitCases
  <2>3. ASSUME NEW p \in Pass, PassStep(p)
        PROVE  row' = row
    <3>1. CASE \/ ReadLive(p) \/ ReadReplay(p) \/ NextBar(p) \/ EndPass(p)
               \/ StopOnly(p) \/ Quiet(p)
      BY <3>1 DEF ReadLive, ReadReplay, NextBar, EndPass, StopOnly, Quiet
    <3>2. CASE \/ GapLoss(p) \/ StopHit(p)
               \/ FirstTarget(p) \/ SecondTarget(p) \/ ThirdTarget(p)
      <4>1. pass[p].status \in Held
        BY <1>1, <3>2 DEF GapLoss, StopHit, FirstTarget, SecondTarget, ThirdTarget,
                          AtTargets, TypeInv, WorkHeld
      <4> QED
        BY <2>2, <3>2, <4>1
           DEF GapLoss, StopHit, FirstTarget, SecondTarget, ThirdTarget, Books
    <3>3. CASE Outcome(p)
      BY <1>1, <3>3 DEF Outcome, Terminal
    <3> QED
      BY <2>3, <3>1, <3>2, <3>3 DEF PassStep
  <2> QED
    BY <1>1, <2>1, <2>3 DEF Next, vars
<1>2. TypeInv /\ Safe /\ [Next]_vars =>
         [exact /\ exact' /\ row.status \in Closed =>
             Operator \/ (row'.status = row.status /\ row'.sl = row.sl)]_vars
  BY <1>1
<1> QED
  BY <1>2, Invariant, PTL DEF Spec, ClosedStays

\* SYSTEM_ARCHITECTURE.md: "Once an alert reaches a terminal state [...] its status,
\* stop_loss, and exit_reason columns are frozen and immutable".  With one pass at a time,
\* no failed write, no operator and a position that was sized, this is so of the status
\* and the stop; overlapping passes break it, as a stale copy may reopen a closed alert.
THEOREM UndisturbedStaysClosed ==
  ASSUME Undisturbed
  PROVE  Spec => [][row.status \in Closed => row'.status = row.status /\ row'.sl = row.sl]_vars
<1>1. ASSUME TypeInv, Alone PROVE ~Operator
  <2>1. ~(ops < MaxOps)
    BY <1>1 DEF TypeInv, TypeOK, Undisturbed
  <2>2. ~Accept /\ ~ReallocateWrite
    BY <1>1, Zenon DEF Accept, ReallocateWrite, Alone
  <2> QED
    BY <2>1, <2>2, Zenon DEF Operator
<1>2. /\ TypeInv /\ Safe /\ Alone /\ Alone'
      /\ [exact /\ exact' /\ row.status \in Closed =>
             Operator \/ (row'.status = row.status /\ row'.sl = row.sl)]_vars
      => [row.status \in Closed => row'.status = row.status /\ row'.sl = row.sl]_vars
  BY <1>1 DEF Alone
<1> QED
  BY <1>2, AloneInvariant, AccurateStaysClosed, PTL DEF ClosedStays

=============================================================================
