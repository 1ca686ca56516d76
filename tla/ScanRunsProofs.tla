--------------------------- MODULE ScanRunsProofs ---------------------------
(* Proofs about ScanRuns, for every number of containers, threads, runs and     *)
(* every choice of faults.                                                      *)
EXTENDS ScanRuns, TLAPS

(***************************************************************************)
(* Types                                                                   *)
(***************************************************************************)

\* A thread that is about to insert a row may still register a run, and one that is
\* in the middle of a run has registered it.
RunsCounted ==
    \A t \in Thread :
       /\ pc[t] = "insert" => runs[t] < MaxRuns[t]
       /\ pc[t] \in RunPC \cup TailPC => runs[t] \in 1..MaxRuns[t]

TypeInv == TypeOK /\ RunsCounted

CardTypes == status \in Status /\ active \in Run \cup {NoOne} /\ lastSuccess \in BOOLEAN

LockTypes ==
    /\ rl \in [Proc -> [by : Thread \cup {NoOne}, n : Nat]]
    /\ held \in [Proc -> [by : Thread \cup {NoOne}, n : Nat, eod : BOOLEAN]]

\* Every write of upsert_scanner_health leaves a well-formed card.
LEMMA WriteCardType ==
  ASSUME CardTypes, NEW s \in Status, WriteCard(s)
  PROVE  CardTypes'
<1>1. status' \in Status /\ active' \in Run \cup {NoOne}
  BY DEF CardTypes, WriteCard
<1>2. lastSuccess' \in BOOLEAN
  BY Zenon DEF CardTypes, WriteCard
<1> QED
  BY <1>1, <1>2 DEF CardTypes

\* A guarded write of the card leaves it well formed, refused or not.
LEMMA WriteCardAsType ==
  ASSUME CardTypes, NEW r \in Run, NEW s \in Status, WriteCardAs(r, s)
  PROVE  CardTypes'
<1>1. status' \in Status /\ active' \in Run \cup {NoOne}
  BY DEF CardTypes, WriteCardAs
<1>2. lastSuccess' \in BOOLEAN
  BY Zenon DEF CardTypes, WriteCardAs
<1> QED
  BY <1>1, <1>2 DEF CardTypes

\* The locks keep their types whoever takes or releases them.
LEMMA TakeGlobalType ==
  ASSUME LockTypes, NEW t \in Thread, NEW eod \in BOOLEAN, TakeGlobal(t, eod)
  PROVE  LockTypes'
<1> DEFINE p == ProcOf[t]
<1>1. p \in Proc
  BY RunsAssumption
<1>2. CASE Reentrant(t)
  <2>1. held' = [held EXCEPT ![p].n = @ + 1] /\ rl' = rl
    BY <1>2 DEF TakeGlobal
  <2> QED
    BY <1>1, <2>1 DEF LockTypes
<1>3. CASE ~Reentrant(t)
  <2>1. /\ held' = [held EXCEPT ![p] = [by |-> t, n |-> 1, eod |-> eod]]
        /\ rl' = [rl EXCEPT ![p] = [by |-> t, n |-> @.n + 1]]
    BY <1>3 DEF TakeGlobal
  <2> QED
    BY <1>1, <2>1 DEF LockTypes
<1> QED
  BY <1>2, <1>3

\* Giving up the whole lock keeps the types of the locks.
LEMMA DropType ==
  ASSUME LockTypes, NEW t \in Thread, Drop(t)
  PROVE  LockTypes'
<1> DEFINE p == ProcOf[t]
<1>1. p \in Proc
  BY RunsAssumption
<1>2. held' \in [Proc -> [by : Thread \cup {NoOne}, n : Nat, eod : BOOLEAN]]
  BY <1>1 DEF LockTypes, Drop, NotHeld
<1>3. rl' \in [Proc -> [by : Thread \cup {NoOne}, n : Nat]]
  <2>1. CASE rl[p].by # t
    BY <1>1, <2>1 DEF LockTypes, Drop
  <2>2. CASE rl[p].by = t /\ rl[p].n > 1
    <3>1. rl' = [rl EXCEPT ![p] = [by |-> t, n |-> rl[p].n - 1]]
      BY <1>1, <2>2 DEF LockTypes, Drop
    <3>2. rl[p].n - 1 \in Nat
      BY <1>1, <2>2 DEF LockTypes
    <3> QED
      BY <1>1, <3>1, <3>2 DEF LockTypes
  <2>3. CASE rl[p].by = t /\ ~(rl[p].n > 1)
    <3>1. rl' = [rl EXCEPT ![p] = NoLock]
      BY <1>1, <2>3 DEF LockTypes, Drop
    <3> QED
      BY <1>1, <3>1 DEF LockTypes, NoLock
  <2> QED
    BY <2>1, <2>2, <2>3
<1> QED
  BY <1>2, <1>3 DEF LockTypes

\* One release, nested or last, keeps the types of the locks.
LEMMA ReleaseType ==
  ASSUME LockTypes, NEW t \in Thread, ReleaseGlobal(t)
  PROVE  LockTypes'
<1>1. CASE held[ProcOf[t]].n > 1
  <2>1. ProcOf[t] \in Proc /\ held[ProcOf[t]].n - 1 \in Nat
    BY <1>1, RunsAssumption DEF LockTypes
  <2>2. held' = [held EXCEPT ![ProcOf[t]].n = @ - 1] /\ rl' = rl
    BY <1>1 DEF ReleaseGlobal
  <2> QED
    BY <2>1, <2>2 DEF LockTypes
<1>2. CASE ~(held[ProcOf[t]].n > 1)
  BY <1>2, DropType DEF ReleaseGlobal
<1> QED
  BY <1>1, <1>2

\* The release made by a DOWN write keeps the types of the locks.
LEMMA ForceReleaseType ==
  ASSUME LockTypes, NEW t \in Thread, ForceRelease(t)
  PROVE  LockTypes'
<1>1. CASE held[ProcOf[t]].eod
  BY <1>1, DropType DEF ForceRelease
<1>2. CASE ~held[ProcOf[t]].eod
  BY <1>2 DEF ForceRelease, LockTypes
<1> QED
  BY <1>1, <1>2

ThreadTypes ==
    /\ pc \in [Thread -> PC]
    /\ ticked \subseteq Sched
    /\ runs \in [Thread -> Nat]
    /\ failed \in [Thread -> BOOLEAN]
    /\ seen \in [Thread -> Run \cup {NoOne}]
    /\ RunsCounted

OtherTypes ==
    /\ boot \in [Proc -> {"reset", "cleanup", "up"}]
    /\ scan \in Thread \cup {NoOne}
    /\ hist \in [Run -> Active \cup Closed \cup {"none"}]
    /\ localStopped \subseteq Proc
    /\ paused \in BOOLEAN
    /\ admin \in [Proc -> {"idle", "closeRows"} \cup Resumed]

\* The type invariant, part by part.
LEMMA TypeInvParts == TypeInv <=> ThreadTypes /\ CardTypes /\ LockTypes /\ OtherTypes
BY DEF TypeInv, TypeOK, ThreadTypes, CardTypes, LockTypes, OtherTypes

\* The same of the next state.
LEMMA TypeInvPartsNext == TypeInv' <=> ThreadTypes' /\ CardTypes' /\ LockTypes' /\ OtherTypes'
BY DEF TypeInv, TypeOK, ThreadTypes, CardTypes, LockTypes, OtherTypes

\* The run_id of a thread in the middle of a run is one of Run.
LEMMA ThisRunInRun ==
  ASSUME ThreadTypes, NEW t \in Thread, pc[t] \in RunPC \cup TailPC
  PROVE  ThisRun(t) \in Run
BY DEF ThreadTypes, RunsCounted, ThisRun, Run

\* Every step keeps the types.
THEOREM TypeInvariance == Spec => []TypeInv
<1>1. Init => TypeInv
  <2> SUFFICES ASSUME Init PROVE TypeInv
    OBVIOUS
  <2>1. ThreadTypes
    BY RunsAssumption DEF Init, ThreadTypes, RunsCounted, PC, RunPC, TailPC
  <2>2. CardTypes
    BY DEF Init, CardTypes, Status
  <2>3. LockTypes
    BY DEF Init, LockTypes, NoLock, NotHeld
  <2>4. OtherTypes
    BY DEF Init, OtherTypes
  <2> QED
    BY <2>1, <2>2, <2>3, <2>4, TypeInvParts
<1>2. TypeInv /\ [Next]_vars => TypeInv'
  <2> SUFFICES ASSUME ThreadTypes, CardTypes, LockTypes, OtherTypes, [Next]_vars PROVE TypeInv'
    BY TypeInvParts
  <2> USE RunsAssumption DEF PC, RunPC, TailPC
  <2>1. ASSUME NEW t \in Thread, SchedTick(t) PROVE TypeInv'
    <3>1. ThreadTypes'
      <4>1. pc' = [pc EXCEPT ![t] = "batchStopped"] \/ pc' = [pc EXCEPT ![t] = "batchQueue"]
        BY <2>1 DEF SchedTick, Goto
      <4>2. ticked' \subseteq Sched /\ UNCHANGED <<runs, failed, seen>>
        BY <2>1 DEF SchedTick, ThreadTypes
      <4> QED
        BY <4>1, <4>2 DEF ThreadTypes, RunsCounted
    <3>2. CardTypes'
      BY <2>1 DEF SchedTick, CardTypes, cardVars
    <3>3. LockTypes'
      BY <2>1, TakeGlobalType DEF SchedTick, LockTypes
    <3>4. OtherTypes'
      BY <2>1 DEF SchedTick, OtherTypes, lockVars, adminVars, Closed, Active
    <3> QED
      BY <3>1, <3>2, <3>3, <3>4, TypeInvPartsNext
  <2>2. ASSUME NEW t \in Thread, Trigger(t) PROVE TypeInv'
    <3>1. ThreadTypes'
      BY <2>2 DEF Trigger, NoteStopped, Stopped, Goto, ThreadTypes, RunsCounted, CardTypes, threadVars
    <3>2. CardTypes'
      BY <2>2 DEF Trigger, CardTypes, cardVars
    <3>3. LockTypes'
      BY <2>2 DEF Trigger, LockTypes, lockVars
    <3>4. OtherTypes'
      BY <2>2 DEF Trigger, NoteStopped, Stopped, OtherTypes, lockVars, adminVars, Closed, Active
    <3> QED
      BY <3>1, <3>2, <3>3, <3>4, TypeInvPartsNext
  <2>3. ASSUME NEW t \in Thread, StillQueued(t) PROVE TypeInv'
    <3>1. ThreadTypes'
      BY <2>3 DEF StillQueued, Goto, ThreadTypes, RunsCounted, CardTypes, threadVars
    <3>2. CardTypes'
      BY <2>3, WriteCardType DEF StillQueued, Status
    <3>3. LockTypes'
      BY <2>3 DEF StillQueued, LockTypes, lockVars
    <3>4. OtherTypes'
      BY <2>3 DEF StillQueued, OtherTypes, lockVars, adminVars, Closed, Active
    <3> QED
      BY <3>1, <3>2, <3>3, <3>4, TypeInvPartsNext
  <2>4. ASSUME NEW t \in Thread, SchedQueued(t) PROVE TypeInv'
    <3>1. ThreadTypes'
      BY <2>4 DEF SchedQueued, NoteStopped, Stopped, Goto, ThreadTypes, RunsCounted, CardTypes, threadVars
    <3>2. CardTypes'
      BY <2>4, WriteCardType DEF SchedQueued, CardTypes, Status, cardVars
    <3>3. LockTypes'
      BY <2>4 DEF SchedQueued, LockTypes, lockVars
    <3>4. OtherTypes'
      BY <2>4 DEF SchedQueued, NoteStopped, Stopped, OtherTypes, lockVars, adminVars, Closed, Active
    <3> QED
      BY <3>1, <3>2, <3>3, <3>4, TypeInvPartsNext
  <2>5. ASSUME NEW t \in Thread, SchedWait(t) PROVE TypeInv'
    <3>1. ThreadTypes'
      BY <2>5 DEF SchedWait, Goto, ThreadTypes, RunsCounted, CardTypes, threadVars
    <3>2. CardTypes'
      BY <2>5 DEF SchedWait, CardTypes, cardVars
    <3>3. LockTypes'
      BY <2>5, TakeGlobalType DEF SchedWait, LockTypes
    <3>4. OtherTypes'
      BY <2>5 DEF SchedWait, OtherTypes, lockVars, adminVars, Closed, Active
    <3> QED
      BY <3>1, <3>2, <3>3, <3>4, TypeInvPartsNext
  <2>6. ASSUME NEW t \in Thread, SchedStopped(t) PROVE TypeInv'
    <3>1. ThreadTypes'
      BY <2>6 DEF SchedStopped, NoteStopped, Stopped, Goto, ThreadTypes, RunsCounted, CardTypes, threadVars
    <3>2. CardTypes'
      BY <2>6 DEF SchedStopped, CardTypes, cardVars
    <3>3. LockTypes'
      BY <2>6 DEF SchedStopped, LockTypes, lockVars
    <3>4. OtherTypes'
      BY <2>6 DEF SchedStopped, NoteStopped, Stopped, OtherTypes, lockVars, adminVars, Closed, Active
    <3> QED
      BY <3>1, <3>2, <3>3, <3>4, TypeInvPartsNext
  <2>7. ASSUME NEW t \in Thread, SchedFree(t) PROVE TypeInv'
    <3>1. ThreadTypes'
      BY <2>7 DEF SchedFree, Goto, ThreadTypes, RunsCounted, CardTypes, threadVars
    <3>2. CardTypes'
      BY <2>7 DEF SchedFree, CardTypes, cardVars
    <3>3. LockTypes'
      BY <2>7, ReleaseType DEF SchedFree, LockTypes
    <3>4. OtherTypes'
      BY <2>7 DEF SchedFree, OtherTypes, lockVars, adminVars, Closed, Active
    <3> QED
      BY <3>1, <3>2, <3>3, <3>4, TypeInvPartsNext
  <2>8. ASSUME NEW t \in Thread, SchedHeal(t) PROVE TypeInv'
    <3>1. ThreadTypes'
      BY <2>8 DEF SchedHeal, Goto, ThreadTypes, RunsCounted, CardTypes, threadVars
    <3>2. CardTypes'
      BY <2>8 DEF SchedHeal, CardTypes, Status, cardVars
    <3>3. LockTypes'
      BY <2>8 DEF SchedHeal, LockTypes, lockVars
    <3>4. OtherTypes'
      BY <2>8 DEF SchedHeal, OtherTypes, lockVars, adminVars, Closed, Active
    <3> QED
      BY <3>1, <3>2, <3>3, <3>4, TypeInvPartsNext
  <2>9. ASSUME NEW t \in Thread, SchedDecide(t) PROVE TypeInv'
    <3>1. ThreadTypes'
      BY <2>9 DEF SchedDecide, Goto, ThreadTypes, RunsCounted, CardTypes, threadVars
    <3>2. CardTypes'
      BY <2>9 DEF SchedDecide, CardTypes, cardVars
    <3>3. LockTypes'
      BY <2>9 DEF SchedDecide, LockTypes, lockVars
    <3>4. OtherTypes'
      BY <2>9 DEF SchedDecide, OtherTypes, lockVars, adminVars, Closed, Active
    <3> QED
      BY <3>1, <3>2, <3>3, <3>4, TypeInvPartsNext
  <2>10. ASSUME NEW t \in Thread, TriggerLocked(t) PROVE TypeInv'
    <3>1. ThreadTypes'
      BY <2>10 DEF TriggerLocked, Goto, ThreadTypes, RunsCounted, CardTypes, threadVars
    <3>2. CardTypes'
      BY <2>10 DEF TriggerLocked, CardTypes, cardVars
    <3>3. LockTypes'
      BY <2>10 DEF TriggerLocked, LockTypes, lockVars
    <3>4. OtherTypes'
      BY <2>10 DEF TriggerLocked, OtherTypes, lockVars, adminVars, Closed, Active
    <3> QED
      BY <3>1, <3>2, <3>3, <3>4, TypeInvPartsNext
  <2>11. ASSUME NEW t \in Thread, TriggerActive(t) PROVE TypeInv'
    <3>1. ThreadTypes'
      BY <2>11 DEF TriggerActive, CheckRegistry, CloseAll, Goto, ThreadTypes, RunsCounted, CardTypes, threadVars
    <3>2. CardTypes'
      BY <2>11 DEF TriggerActive, CardTypes, cardVars
    <3>3. LockTypes'
      BY <2>11 DEF TriggerActive, LockTypes, lockVars
    <3>4. OtherTypes'
      BY <2>11 DEF TriggerActive, CheckRegistry, CloseAll, OtherTypes, lockVars, adminVars, Closed, Active
    <3> QED
      BY <3>1, <3>2, <3>3, <3>4, TypeInvPartsNext
  <2>12. ASSUME NEW t \in Thread, TriggerQueued(t) PROVE TypeInv'
    <3>1. ThreadTypes'
      BY <2>12 DEF TriggerQueued, Goto, ThreadTypes, RunsCounted, CardTypes, threadVars
    <3>2. CardTypes'
      BY <2>12, WriteCardType DEF TriggerQueued, Status
    <3>3. LockTypes'
      BY <2>12 DEF TriggerQueued, LockTypes, lockVars
    <3>4. OtherTypes'
      BY <2>12 DEF TriggerQueued, OtherTypes, lockVars, adminVars, Closed, Active
    <3> QED
      BY <3>1, <3>2, <3>3, <3>4, TypeInvPartsNext
  <2>13. ASSUME NEW t \in Thread, StartStopped(t) PROVE TypeInv'
    <3>1. ThreadTypes'
      BY <2>13 DEF StartStopped, NoteStopped, Stopped, Goto, ThreadTypes, RunsCounted, CardTypes, threadVars
    <3>2. CardTypes'
      BY <2>13 DEF StartStopped, CardTypes, cardVars
    <3>3. LockTypes'
      BY <2>13 DEF StartStopped, LockTypes, lockVars
    <3>4. OtherTypes'
      BY <2>13 DEF StartStopped, NoteStopped, Stopped, OtherTypes, lockVars, adminVars, Closed, Active
    <3> QED
      BY <3>1, <3>2, <3>3, <3>4, TypeInvPartsNext
  <2>14. ASSUME NEW t \in Thread, StartBusy(t) PROVE TypeInv'
    <3>1. ThreadTypes'
      BY <2>14 DEF StartBusy, Goto, ThreadTypes, RunsCounted, CardTypes, threadVars
    <3>2. CardTypes'
      BY <2>14 DEF StartBusy, CardTypes, cardVars
    <3>3. LockTypes'
      BY <2>14 DEF StartBusy, LockTypes, lockVars
    <3>4. OtherTypes'
      BY <2>14 DEF StartBusy, OtherTypes, lockVars, adminVars, Closed, Active
    <3> QED
      BY <3>1, <3>2, <3>3, <3>4, TypeInvPartsNext
  <2>15. ASSUME NEW t \in Thread, StartTry(t) PROVE TypeInv'
    <3>1. ThreadTypes'
      <4>1. pc' = [pc EXCEPT ![t] = "running"] \/ pc' = [pc EXCEPT ![t] = "queue"]
        BY <2>15 DEF StartTry, Goto
      <4>2. ticked' \subseteq Sched /\ UNCHANGED <<runs, failed, seen>>
        BY <2>15 DEF StartTry, ThreadTypes
      <4> QED
        BY <4>1, <4>2 DEF ThreadTypes, RunsCounted
    <3>2. CardTypes'
      BY <2>15 DEF StartTry, CardTypes, cardVars
    <3>3. LockTypes'
      BY <2>15, TakeGlobalType DEF StartTry, LockTypes
    <3>4. OtherTypes'
      BY <2>15 DEF StartTry, Reentrant, GlobalFree, OtherTypes, lockVars, adminVars, Closed, Active
    <3> QED
      BY <3>1, <3>2, <3>3, <3>4, TypeInvPartsNext
  <2>16. ASSUME NEW t \in Thread, StartQueued(t) PROVE TypeInv'
    <3>1. ThreadTypes'
      BY <2>16 DEF StartQueued, Goto, ThreadTypes, RunsCounted, CardTypes, threadVars
    <3>2. CardTypes'
      BY <2>16, WriteCardType DEF StartQueued, Status
    <3>3. LockTypes'
      BY <2>16 DEF StartQueued, LockTypes, lockVars
    <3>4. OtherTypes'
      BY <2>16 DEF StartQueued, OtherTypes, lockVars, adminVars, Closed, Active
    <3> QED
      BY <3>1, <3>2, <3>3, <3>4, TypeInvPartsNext
  <2>17. ASSUME NEW t \in Thread, StartWait(t) PROVE TypeInv'
    <3>1. ThreadTypes'
      BY <2>17 DEF StartWait, Goto, ThreadTypes, RunsCounted, CardTypes, threadVars
    <3>2. CardTypes'
      BY <2>17 DEF StartWait, CardTypes, cardVars
    <3>3. LockTypes'
      BY <2>17, TakeGlobalType DEF StartWait, LockTypes
    <3>4. OtherTypes'
      BY <2>17 DEF StartWait, OtherTypes, lockVars, adminVars, Closed, Active
    <3> QED
      BY <3>1, <3>2, <3>3, <3>4, TypeInvPartsNext
  <2>18. ASSUME NEW t \in Thread, StartRunning(t) PROVE TypeInv'
    <3>1. ThreadTypes'
      BY <2>18 DEF StartRunning, Goto, ThreadTypes, RunsCounted, CardTypes, threadVars
    <3>2. CardTypes'
      BY <2>18, WriteCardType DEF StartRunning, Status
    <3>3. LockTypes'
      BY <2>18 DEF StartRunning, LockTypes, lockVars
    <3>4. OtherTypes'
      BY <2>18 DEF StartRunning, OtherTypes, lockVars, adminVars, Closed, Active
    <3> QED
      BY <3>1, <3>2, <3>3, <3>4, TypeInvPartsNext
  <2>19. ASSUME NEW t \in Thread, StartScanLock(t) PROVE TypeInv'
    <3>1. ThreadTypes'
      BY <2>19 DEF StartScanLock, Goto, ThreadTypes, RunsCounted, CardTypes, threadVars
    <3>2. CardTypes'
      BY <2>19, WriteCardType DEF StartScanLock, CardTypes, Status, cardVars
    <3>3. LockTypes'
      BY <2>19 DEF StartScanLock, LockTypes, lockVars
    <3>4. OtherTypes'
      BY <2>19 DEF StartScanLock, OtherTypes, lockVars, adminVars, Closed, Active
    <3> QED
      BY <3>1, <3>2, <3>3, <3>4, TypeInvPartsNext
  <2>20. ASSUME NEW t \in Thread, RegisterCheck(t) PROVE TypeInv'
    <3>1. ThreadTypes'
      BY <2>20 DEF RegisterCheck, CheckRegistry, CloseAll, Goto, ThreadTypes, RunsCounted, CardTypes, threadVars
    <3>2. CardTypes'
      BY <2>20 DEF RegisterCheck, CardTypes, cardVars
    <3>3. LockTypes'
      BY <2>20 DEF RegisterCheck, LockTypes, lockVars
    <3>4. OtherTypes'
      BY <2>20 DEF RegisterCheck, CheckRegistry, CloseAll, OtherTypes, lockVars, adminVars, Closed, Active
    <3> QED
      BY <3>1, <3>2, <3>3, <3>4, TypeInvPartsNext
  <2>21. ASSUME NEW t \in Thread, RegisterRecheck(t) PROVE TypeInv'
    <3>1. ThreadTypes'
      BY <2>21 DEF RegisterRecheck, Goto, ThreadTypes, RunsCounted, CardTypes, threadVars
    <3>2. CardTypes'
      BY <2>21 DEF RegisterRecheck, CardTypes, cardVars
    <3>3. LockTypes'
      BY <2>21 DEF RegisterRecheck, LockTypes, lockVars
    <3>4. OtherTypes'
      BY <2>21 DEF RegisterRecheck, OtherTypes, lockVars, adminVars, Closed, Active
    <3> QED
      BY <3>1, <3>2, <3>3, <3>4, TypeInvPartsNext
  <2>22. ASSUME NEW t \in Thread, RegisterInsert(t) PROVE TypeInv'
    <3>1. ThreadTypes'
      BY <2>22 DEF RegisterInsert, Goto, ThreadTypes, RunsCounted, CardTypes, threadVars
    <3>2. CardTypes'
      BY <2>22 DEF RegisterInsert, CardTypes, cardVars
    <3>3. LockTypes'
      BY <2>22 DEF RegisterInsert, LockTypes, lockVars
    <3>4. OtherTypes'
      BY <2>22 DEF RegisterInsert, OtherTypes, lockVars, adminVars, Closed, Active
    <3> QED
      BY <3>1, <3>2, <3>3, <3>4, TypeInvPartsNext
  <2>23. ASSUME NEW t \in Thread, Banner(t) PROVE TypeInv'
    <3>1. ThreadTypes'
      BY <2>23 DEF Banner, Goto, ThreadTypes, RunsCounted, CardTypes, threadVars
    <3>2. CardTypes'
      BY <2>23, WriteCardAsType, ThisRunInRun DEF Banner, Status, RunPC
    <3>3. LockTypes'
      BY <2>23 DEF Banner, LockTypes, lockVars
    <3>4. OtherTypes'
      BY <2>23 DEF Banner, OtherTypes, lockVars, adminVars, Closed, Active
    <3> QED
      BY <3>1, <3>2, <3>3, <3>4, TypeInvPartsNext
  <2>24. ASSUME NEW t \in Thread, BodyDone(t) PROVE TypeInv'
    <3>1. ThreadTypes'
      BY <2>24 DEF BodyDone, Goto, ThreadTypes, RunsCounted, CardTypes, threadVars
    <3>2. CardTypes'
      BY <2>24, WriteCardType DEF BodyDone, Status
    <3>3. LockTypes'
      BY <2>24 DEF BodyDone, LockTypes, lockVars
    <3>4. OtherTypes'
      BY <2>24 DEF BodyDone, OtherTypes, lockVars, adminVars, Closed, Active
    <3> QED
      BY <3>1, <3>2, <3>3, <3>4, TypeInvPartsNext
  <2>25. ASSUME NEW t \in Thread, BodyNoData(t) PROVE TypeInv'
    <3>1. ThreadTypes'
      BY <2>25 DEF BodyNoData, Goto, ThreadTypes, RunsCounted, CardTypes, threadVars
    <3>2. CardTypes'
      BY <2>25 DEF BodyNoData, CardTypes, Status, cardVars
    <3>3. LockTypes'
      BY <2>25, ForceReleaseType DEF BodyNoData, LockTypes
    <3>4. OtherTypes'
      BY <2>25 DEF BodyNoData, OtherTypes, lockVars, adminVars, Closed, Active
    <3> QED
      BY <3>1, <3>2, <3>3, <3>4, TypeInvPartsNext
  <2>26. ASSUME NEW t \in Thread, BodyFails(t) PROVE TypeInv'
    <3>1. ThreadTypes'
      BY <2>26 DEF BodyFails, Goto, ThreadTypes, RunsCounted, CardTypes, threadVars
    <3>2. CardTypes'
      BY <2>26, WriteCardType DEF BodyFails, WriteDown, Status
    <3>3. LockTypes'
      BY <2>26, ForceReleaseType DEF BodyFails, WriteDown, LockTypes
    <3>4. OtherTypes'
      BY <2>26 DEF BodyFails, OtherTypes, lockVars, adminVars, Closed, Active
    <3> QED
      BY <3>1, <3>2, <3>3, <3>4, TypeInvPartsNext
  <2>27. ASSUME NEW t \in Thread, Complete(t) PROVE TypeInv'
    <3>1. ThreadTypes'
      BY <2>27 DEF Complete, Goto, ThreadTypes, RunsCounted, CardTypes, threadVars
    <3>2. CardTypes'
      BY <2>27 DEF Complete, CardTypes, cardVars
    <3>3. LockTypes'
      BY <2>27 DEF Complete, LockTypes, lockVars
    <3>4. OtherTypes'
      BY <2>27 DEF Complete, OtherTypes, lockVars, adminVars, Closed, Active
    <3> QED
      BY <3>1, <3>2, <3>3, <3>4, TypeInvPartsNext
  <2>28. ASSUME NEW t \in Thread, CompleteSync(t) PROVE TypeInv'
    <3>1. ThreadTypes'
      BY <2>28 DEF CompleteSync, Goto, ThreadTypes, RunsCounted, CardTypes, threadVars
    <3>2. CardTypes'
      BY <2>28, WriteCardType DEF CompleteSync, WriteDown, Status
    <3>3. LockTypes'
      BY <2>28, ForceReleaseType DEF CompleteSync, WriteDown, LockTypes
    <3>4. OtherTypes'
      BY <2>28 DEF CompleteSync, OtherTypes, lockVars, adminVars, Closed, Active
    <3> QED
      BY <3>1, <3>2, <3>3, <3>4, TypeInvPartsNext
  <2>29. ASSUME NEW t \in Thread, GuardRead(t) PROVE TypeInv'
    <3>1. ThreadTypes'
      BY <2>29 DEF GuardRead, Goto, ThreadTypes, RunsCounted, CardTypes, threadVars
    <3>2. CardTypes'
      BY <2>29 DEF GuardRead, CardTypes, cardVars
    <3>3. LockTypes'
      BY <2>29 DEF GuardRead, LockTypes, lockVars
    <3>4. OtherTypes'
      BY <2>29 DEF GuardRead, OtherTypes, lockVars, adminVars, Closed, Active
    <3> QED
      BY <3>1, <3>2, <3>3, <3>4, TypeInvPartsNext
  <2>30. ASSUME NEW t \in Thread, DownWrite(t) PROVE TypeInv'
    <3>1. ThreadTypes'
      BY <2>30 DEF DownWrite, Goto, ThreadTypes, RunsCounted, CardTypes, threadVars
    <3>2. CardTypes'
      BY <2>30, WriteCardAsType, ThisRunInRun DEF DownWrite, CardTypes, Status, TailPC, cardVars
    <3>3. LockTypes'
      BY <2>30, ForceReleaseType DEF DownWrite, LockTypes
    <3>4. OtherTypes'
      BY <2>30 DEF DownWrite, OtherTypes, lockVars, adminVars, Closed, Active
    <3> QED
      BY <3>1, <3>2, <3>3, <3>4, TypeInvPartsNext
  <2>31. ASSUME NEW t \in Thread, EndWrite(t) PROVE TypeInv'
    <3>1. ThreadTypes'
      BY <2>31 DEF EndWrite, Goto, ThreadTypes, RunsCounted, CardTypes, threadVars
    <3>2. CardTypes'
      BY <2>31, WriteCardAsType, ThisRunInRun DEF EndWrite, CardTypes, Status, TailPC, cardVars
    <3>3. LockTypes'
      BY <2>31 DEF EndWrite, LockTypes, lockVars
    <3>4. OtherTypes'
      BY <2>31 DEF EndWrite, OtherTypes, lockVars, adminVars, Closed, Active
    <3> QED
      BY <3>1, <3>2, <3>3, <3>4, TypeInvPartsNext
  <2>32. ASSUME NEW t \in Thread, FreeScan(t) PROVE TypeInv'
    <3>1. ThreadTypes'
      BY <2>32 DEF FreeScan, Goto, ThreadTypes, RunsCounted, CardTypes, threadVars
    <3>2. CardTypes'
      BY <2>32 DEF FreeScan, CardTypes, cardVars
    <3>3. LockTypes'
      BY <2>32 DEF FreeScan, LockTypes, lockVars
    <3>4. OtherTypes'
      BY <2>32 DEF FreeScan, OtherTypes, lockVars, adminVars, Closed, Active
    <3> QED
      BY <3>1, <3>2, <3>3, <3>4, TypeInvPartsNext
  <2>33. ASSUME NEW t \in Thread, FreeGlobal(t) PROVE TypeInv'
    <3>1. ThreadTypes'
      BY <2>33 DEF FreeGlobal, Goto, ThreadTypes, RunsCounted, CardTypes, threadVars
    <3>2. CardTypes'
      BY <2>33 DEF FreeGlobal, CardTypes, cardVars
    <3>3. LockTypes'
      BY <2>33, ReleaseType DEF FreeGlobal, LockTypes
    <3>4. OtherTypes'
      BY <2>33 DEF FreeGlobal, OtherTypes, lockVars, adminVars, Closed, Active
    <3> QED
      BY <3>1, <3>2, <3>3, <3>4, TypeInvPartsNext
  <2>34. ASSUME NEW t \in Thread, Return(t) PROVE TypeInv'
    <3>1. ThreadTypes'
      BY <2>34 DEF Return, AfterReturn, Goto, ThreadTypes, RunsCounted, CardTypes, threadVars
    <3>2. CardTypes'
      BY <2>34, WriteCardType DEF Return, WriteDown, CardTypes, Status, cardVars
    <3>3. LockTypes'
      BY <2>34, ForceReleaseType DEF Return, WriteDown, LockTypes
    <3>4. OtherTypes'
      BY <2>34 DEF Return, AfterReturn, OtherTypes, lockVars, adminVars, Closed, Active
    <3> QED
      BY <3>1, <3>2, <3>3, <3>4, TypeInvPartsNext
  <2>35. ASSUME NEW p \in Proc, Pause(p) PROVE TypeInv'
    <3>1. ThreadTypes'
      BY <2>35 DEF Pause, ThreadTypes, RunsCounted, threadVars
    <3>2. CardTypes'
      BY <2>35, WriteCardType DEF Pause, CardTypes, Status, Resumed, cardVars
    <3>3. LockTypes'
      BY <2>35 DEF Pause, LockTypes, lockVars
    <3>4. OtherTypes'
      BY <2>35 DEF Pause, OtherTypes, Resumed, lockVars, adminVars, CloseAll, Closed
    <3> QED
      BY <3>1, <3>2, <3>3, <3>4, TypeInvPartsNext
  <2>36. ASSUME NEW p \in Proc, PauseRows(p) PROVE TypeInv'
    <3>1. ThreadTypes'
      BY <2>36 DEF PauseRows, ThreadTypes, RunsCounted, threadVars
    <3>2. CardTypes'
      BY <2>36 DEF PauseRows, CardTypes, Status, Resumed, cardVars
    <3>3. LockTypes'
      BY <2>36 DEF PauseRows, LockTypes, lockVars
    <3>4. OtherTypes'
      BY <2>36 DEF PauseRows, OtherTypes, Resumed, lockVars, adminVars, CloseAll, Closed
    <3> QED
      BY <3>1, <3>2, <3>3, <3>4, TypeInvPartsNext
  <2>37. ASSUME NEW p \in Proc, Resume(p) PROVE TypeInv'
    <3>1. ThreadTypes'
      BY <2>37 DEF Resume, ThreadTypes, RunsCounted, threadVars
    <3>2. CardTypes'
      BY <2>37 DEF Resume, CardTypes, Status, Resumed, cardVars
    <3>3. LockTypes'
      BY <2>37 DEF Resume, LockTypes, lockVars
    <3>4. OtherTypes'
      BY <2>37 DEF Resume, OtherTypes, Resumed, lockVars, adminVars, CloseAll, Closed
    <3> QED
      BY <3>1, <3>2, <3>3, <3>4, TypeInvPartsNext
  <2>38. ASSUME NEW p \in Proc, ResumeCard(p) PROVE TypeInv'
    <3>1. ThreadTypes'
      BY <2>38 DEF ResumeCard, ThreadTypes, RunsCounted, threadVars
    <3>2. CardTypes'
      BY <2>38, WriteCardType DEF ResumeCard, CardTypes, Status, Resumed, cardVars
    <3>3. LockTypes'
      BY <2>38 DEF ResumeCard, LockTypes, lockVars
    <3>4. OtherTypes'
      BY <2>38 DEF ResumeCard, OtherTypes, Resumed, lockVars, adminVars, CloseAll, Closed
    <3> QED
      BY <3>1, <3>2, <3>3, <3>4, TypeInvPartsNext
  <2>39. ASSUME NEW p \in Proc, ShowCards(p) PROVE TypeInv'
    <3>1. ThreadTypes'
      BY <2>39 DEF ShowCards, ThreadTypes, RunsCounted, threadVars
    <3>2. CardTypes'
      BY <2>39 DEF ShowCards, CardTypes, Status, Resumed, cardVars
    <3>3. LockTypes'
      BY <2>39 DEF ShowCards, LockTypes, lockVars
    <3>4. OtherTypes'
      BY <2>39 DEF ShowCards, OtherTypes, Resumed, lockVars, adminVars, CloseAll, Closed
    <3> QED
      BY <3>1, <3>2, <3>3, <3>4, TypeInvPartsNext
  <2>40. ASSUME NEW p \in Proc, Crash(p) PROVE TypeInv'
    <3>1. ThreadTypes'
      BY <2>40 DEF Crash, ThreadTypes, RunsCounted, threadVars, PC, RunPC, TailPC
    <3>2. CardTypes'
      BY <2>40 DEF Crash, CardTypes, Status, Resumed, cardVars
    <3>3. LockTypes'
      BY <2>40 DEF Crash, LockTypes, lockVars, NoLock, NotHeld
    <3>4. OtherTypes'
      BY <2>40 DEF Crash, OtherTypes, Resumed, lockVars, adminVars, CloseAll, Closed
    <3> QED
      BY <3>1, <3>2, <3>3, <3>4, TypeInvPartsNext
  <2>41. ASSUME NEW p \in Proc, BootReset(p) PROVE TypeInv'
    <3>1. ThreadTypes'
      BY <2>41 DEF BootReset, ThreadTypes, RunsCounted, threadVars
    <3>2. CardTypes'
      BY <2>41 DEF BootReset, CardTypes, Status, Resumed, cardVars
    <3>3. LockTypes'
      BY <2>41 DEF BootReset, LockTypes, lockVars
    <3>4. OtherTypes'
      BY <2>41 DEF BootReset, OtherTypes, Resumed, lockVars, adminVars, CloseAll, Closed
    <3> QED
      BY <3>1, <3>2, <3>3, <3>4, TypeInvPartsNext
  <2>42. ASSUME NEW p \in Proc, BootCleanup(p) PROVE TypeInv'
    <3>1. ThreadTypes'
      BY <2>42 DEF BootCleanup, ThreadTypes, RunsCounted, threadVars
    <3>2. CardTypes'
      BY <2>42 DEF BootCleanup, CardTypes, Status, Resumed, cardVars
    <3>3. LockTypes'
      BY <2>42 DEF BootCleanup, LockTypes, lockVars
    <3>4. OtherTypes'
      BY <2>42 DEF BootCleanup, OtherTypes, Resumed, lockVars, adminVars, CloseAll, Closed
    <3> QED
      BY <3>1, <3>2, <3>3, <3>4, TypeInvPartsNext
  <2>43. CASE UNCHANGED vars
    BY <2>43, TypeInvPartsNext DEF vars, threadVars, lockVars, cardVars, adminVars, ThreadTypes, RunsCounted, CardTypes, LockTypes, OtherTypes
  <2> QED
    BY <2>1, <2>2, <2>3, <2>4, <2>5, <2>6, <2>7, <2>8, <2>9, <2>10, <2>11, <2>12, <2>13,
       <2>14, <2>15, <2>16, <2>17, <2>18, <2>19, <2>20, <2>21, <2>22, <2>23, <2>24,
       <2>25, <2>26, <2>27, <2>28, <2>29, <2>30, <2>31, <2>32, <2>33, <2>34, <2>35,
       <2>36, <2>37, <2>38, <2>39, <2>40, <2>41, <2>42, <2>43  DEF Next, TriggerStep,
       StartStep, RunStep, AdminStep
<1> QED
  BY <1>1, <1>2, PTL DEF Spec

\* TypeOK, for every instance.
THEOREM TypeCorrect == Spec => []TypeOK
<1>1. TypeInv => TypeOK
  BY DEF TypeInv
<1> QED
  BY <1>1, TypeInvariance, PTL

(***************************************************************************)
(* One active run, and no phantom one                                      *)
(***************************************************************************)

\* The steps of start() that only the owner of the scan lock takes.
Owning == {"check", "recheck", "insert", "freeScan"} \cup RunPC \cup TailPC

\* What the code relies on: the scan lock is held by the one thread between its
\* acquisition and its release, and the re-check of the registry still holds when the
\* row is inserted, because nobody else may insert one.
ScanOwned == \A t \in Thread : pc[t] \in Owning => scan = t
InsertAlone == \A t \in Thread : pc[t] = "insert" => ActiveRuns = {}

SafeInv == ScanOwned /\ InsertAlone /\ OneActiveRun /\ NoPhantomRun

\* A thread moves to l and opens no row.
LEMMA MoveKeepsSafe ==
  ASSUME TypeInv, SafeInv, NEW t \in Thread, NEW l,
         pc' = [pc EXCEPT ![t] = l],
         UNCHANGED <<runs, boot>>,
         \A r \in Run : hist'[r] \in Active => hist[r] \in Active,
         \A u \in Thread : pc'[u] \in Owning => scan' = u,
         l = "insert" => ActiveRuns' = {},
         pc[t] \in RunPC /\ l \notin RunPC => hist'[ThisRun(t)] \notin Active
  PROVE  SafeInv'
<1>1. ActiveRuns' \subseteq ActiveRuns
  BY DEF ActiveRuns
<1>2. ScanOwned'
  BY DEF ScanOwned
<1>3. InsertAlone'
  BY <1>1 DEF SafeInv, InsertAlone, TypeInv, TypeOK
<1>4. OneActiveRun'
  BY <1>1 DEF SafeInv, OneActiveRun
<1>5. NoPhantomRun'
  <2> SUFFICES ASSUME NEW r \in ActiveRuns', boot'[ProcOf[r[1]]] = "up" PROVE Live(r)'
    BY DEF NoPhantomRun
  <2>1. r \in Run /\ r \in ActiveRuns /\ r[1] \in Thread
    BY <1>1, RunsAssumption DEF ActiveRuns, Run
  <2>2. Live(r)
    BY <2>1 DEF SafeInv, NoPhantomRun
  <2>3. CASE r[1] # t
    BY <2>1, <2>2, <2>3 DEF Live, ThisRun, TypeInv, TypeOK
  <2>4. CASE r[1] = t
    <3>1. r = ThisRun(t) /\ pc[t] \in RunPC
      BY <2>2, <2>4 DEF Live
    <3>2. hist'[ThisRun(t)] \in Active
      BY <3>1 DEF ActiveRuns
    <3> QED
      BY <2>4, <3>1, <3>2 DEF Live, ThisRun, TypeInv, TypeOK
  <2> QED
    BY <2>3, <2>4
<1> QED
  BY <1>2, <1>3, <1>4, <1>5 DEF SafeInv

\* No thread moves and no row is opened.
LEMMA RestKeepsSafe ==
  ASSUME SafeInv, UNCHANGED <<pc, runs, scan>>,
         \A r \in Run : hist'[r] \in Active => hist[r] \in Active,
         \A p \in Proc : boot'[p] = "up" => boot[p] = "up" \/ ActiveRuns' = {}
  PROVE  SafeInv'
<1>1. ActiveRuns' \subseteq ActiveRuns
  BY DEF ActiveRuns
<1>2. ScanOwned' /\ InsertAlone' /\ OneActiveRun'
  BY <1>1 DEF SafeInv, ScanOwned, InsertAlone, OneActiveRun
<1>3. NoPhantomRun'
  <2> SUFFICES ASSUME NEW r \in ActiveRuns', boot'[ProcOf[r[1]]] = "up" PROVE Live(r)'
    BY DEF NoPhantomRun
  <2>1. r \in ActiveRuns /\ ProcOf[r[1]] \in Proc
    BY <1>1, RunsAssumption DEF ActiveRuns, Run
  <2>2. boot[ProcOf[r[1]]] = "up"
    BY <2>1
  <2> QED
    BY <2>1, <2>2 DEF SafeInv, NoPhantomRun, Live, ThisRun
<1> QED
  BY <1>2, <1>3 DEF SafeInv

\* is_scanner_actively_running closes rows, and sends the thread one way or the other.
LEMMA CheckRegistryEffect ==
  ASSUME TypeInv, NEW t \in Thread, NEW yes, NEW no, CheckRegistry(t, yes, no)
  PROVE  /\ pc' = [pc EXCEPT ![t] = yes] \/ pc' = [pc EXCEPT ![t] = no]
         /\ \A r \in Run : hist'[r] \in Active => hist[r] \in Active
<1>1. PICK S \in SUBSET MayBeStale :
         /\ CloseAll(S, "TIMEOUT_STALE")
         /\ Goto(t, IF ActiveRuns \ S # {} THEN yes ELSE no)
  BY Zenon DEF CheckRegistry
<1>2. \A r \in Run : hist'[r] \in Active => hist[r] \in Active
  BY <1>1 DEF CloseAll, Active
<1>3. pc' = [pc EXCEPT ![t] = yes] \/ pc' = [pc EXCEPT ![t] = no]
  BY <1>1 DEF Goto
<1> QED
  BY <1>2, <1>3

\* The INSERT: nothing was active, and now the new row is, which is a live run's.
LEMMA InsertKeepsSafe ==
  ASSUME TypeInv, SafeInv, NEW t \in Thread, RegisterInsert(t)
  PROVE  SafeInv'
<1> DEFINE new == <<t, runs[t] + 1>>
<1>1. /\ pc[t] = "insert" /\ pc' = [pc EXCEPT ![t] = "banner"]
      /\ runs' = [runs EXCEPT ![t] = @ + 1]
      /\ hist' = [hist EXCEPT ![new] = "RUNNING"]
      /\ UNCHANGED <<boot, scan>>
  BY DEF RegisterInsert, Goto, lockVars
<1>2. new \in Run /\ new[1] = t
  <2>1. runs[t] \in Nat /\ MaxRuns[t] \in Nat /\ runs[t] < MaxRuns[t]
    BY <1>1, RunsAssumption DEF TypeInv, TypeOK, RunsCounted
  <2>2. runs[t] + 1 \in 1..MaxRuns[t]
    BY <2>1
  <2> QED
    BY <2>2 DEF Run
<1>3. ActiveRuns = {} /\ scan = t
  BY <1>1 DEF SafeInv, InsertAlone, ScanOwned, Owning
<1>4. ActiveRuns' = {new}
  <2>1. \A r \in Run : r # new => hist'[r] = hist[r] /\ hist[r] \notin Active
    BY <1>1, <1>3 DEF ActiveRuns, TypeInv, TypeOK
  <2>2. hist'[new] \in Active
    BY <1>1, <1>2 DEF Active, TypeInv, TypeOK
  <2> QED
    BY <1>2, <2>1, <2>2 DEF ActiveRuns
<1>5. ThisRun(t)' = new /\ pc'[t] \in RunPC
  BY <1>1 DEF ThisRun, RunPC, TypeInv, TypeOK
<1>6. ScanOwned'
  BY <1>1, <1>3 DEF SafeInv, ScanOwned, Owning, TypeInv, TypeOK
<1>7. InsertAlone'
  <2> SUFFICES ASSUME NEW u \in Thread, pc'[u] = "insert" PROVE FALSE
    BY DEF InsertAlone
  <2>1. u # t /\ pc[u] = "insert"
    BY <1>1 DEF TypeInv, TypeOK
  <2> QED
    BY <1>3, <2>1 DEF SafeInv, ScanOwned, Owning
<1>8. OneActiveRun'
  BY <1>4 DEF OneActiveRun
<1>9. NoPhantomRun'
  BY <1>2, <1>4, <1>5 DEF NoPhantomRun, Live
<1> QED
  BY <1>6, <1>7, <1>8, <1>9 DEF SafeInv

\* A crash: the runs of the container stay in the registry, for its boot sequence.
LEMMA CrashKeepsSafe ==
  ASSUME TypeInv, SafeInv, NEW p \in Proc, Crash(p)
  PROVE  SafeInv'
<1> DEFINE mine == {t \in Thread : ProcOf[t] = p}
<1>1. /\ pc' = [t \in Thread |-> IF t \in mine THEN "idle" ELSE pc[t]]
      /\ boot' = [boot EXCEPT ![p] = "reset"]
      /\ scan' = IF scan \in mine THEN NoOne ELSE scan
      /\ UNCHANGED <<runs, hist>>
  BY DEF Crash
<1>2. ScanOwned'
  BY <1>1 DEF SafeInv, ScanOwned, Owning, RunPC, TailPC
<1>3. InsertAlone' /\ OneActiveRun'
  BY <1>1 DEF SafeInv, InsertAlone, OneActiveRun, ActiveRuns
<1>4. NoPhantomRun'
  <2> SUFFICES ASSUME NEW r \in ActiveRuns', boot'[ProcOf[r[1]]] = "up" PROVE Live(r)'
    BY DEF NoPhantomRun
  <2>1. r \in ActiveRuns /\ r[1] \in Thread /\ ProcOf[r[1]] \in Proc
    BY <1>1, RunsAssumption DEF ActiveRuns, Run
  <2>2. ProcOf[r[1]] # p /\ boot[ProcOf[r[1]]] = "up"
    BY <1>1, <2>1 DEF TypeInv, TypeOK
  <2>3. Live(r) /\ pc'[r[1]] = pc[r[1]]
    BY <1>1, <2>1, <2>2 DEF SafeInv, NoPhantomRun
  <2> QED
    BY <1>1, <2>3 DEF Live, ThisRun
<1> QED
  BY <1>2, <1>3, <1>4 DEF SafeInv

\* Every step keeps the invariant: only RegisterInsert opens a row, only Complete and
\* a crash end the life of one.
THEOREM SafeInvariance == Spec => []SafeInv
<1>1. Init => SafeInv
  BY RunsAssumption DEF Init, SafeInv, ScanOwned, InsertAlone, OneActiveRun, NoPhantomRun, ActiveRuns, Active, Owning, RunPC, TailPC
<1>2. TypeInv /\ SafeInv /\ [Next]_vars => SafeInv'
  <2> SUFFICES ASSUME TypeInv, SafeInv, [Next]_vars PROVE SafeInv'
    OBVIOUS
  <2> USE RunsAssumption DEF RunPC, TailPC
  <2>1. ASSUME NEW t \in Thread, SchedTick(t) PROVE SafeInv'
    <3>1. PICK l \in {"batchStopped", "batchQueue"} : pc' = [pc EXCEPT ![t] = l]
      BY <2>1 DEF SchedTick, Goto
    <3>2. UNCHANGED <<runs, boot>> /\ \A r \in Run : hist'[r] \in Active => hist[r] \in Active
      BY <2>1 DEF SchedTick, lockVars, Active
    <3>3. \A u \in Thread : pc'[u] \in Owning => scan' = u
      BY <2>1, <3>1 DEF SchedTick, SafeInv, ScanOwned, Owning, TypeInv, TypeOK, lockVars
    <3> QED
      BY <2>1, <3>1, <3>2, <3>3, MoveKeepsSafe DEF SchedTick
  <2>2. ASSUME NEW t \in Thread, Trigger(t) PROVE SafeInv'
    <3>1. PICK l \in {"idle", "locked?"} : pc' = [pc EXCEPT ![t] = l]
      BY <2>2 DEF Trigger, Goto
    <3>2. UNCHANGED <<runs, boot>> /\ \A r \in Run : hist'[r] \in Active => hist[r] \in Active
      BY <2>2 DEF Trigger, lockVars, Active
    <3>3. \A u \in Thread : pc'[u] \in Owning => scan' = u
      BY <2>2, <3>1 DEF Trigger, SafeInv, ScanOwned, Owning, TypeInv, TypeOK, lockVars
    <3> QED
      BY <2>2, <3>1, <3>2, <3>3, MoveKeepsSafe DEF Trigger
  <2>3. ASSUME NEW t \in Thread, StillQueued(t) PROVE SafeInv'
    BY <2>3, RestKeepsSafe DEF StillQueued, threadVars, lockVars
  <2>4. ASSUME NEW t \in Thread, SchedQueued(t) PROVE SafeInv'
    <3>1. pc' = [pc EXCEPT ![t] = "batchWait"]
      BY <2>4 DEF SchedQueued, Goto
    <3>2. UNCHANGED <<runs, boot>> /\ \A r \in Run : hist'[r] \in Active => hist[r] \in Active
      BY <2>4 DEF SchedQueued, lockVars, Active
    <3>3. \A u \in Thread : pc'[u] \in Owning => scan' = u
      BY <2>4, <3>1 DEF SchedQueued, SafeInv, ScanOwned, Owning, TypeInv, TypeOK, lockVars
    <3> QED
      BY <2>4, <3>1, <3>2, <3>3, MoveKeepsSafe DEF SchedQueued
  <2>5. ASSUME NEW t \in Thread, SchedWait(t) PROVE SafeInv'
    <3>1. pc' = [pc EXCEPT ![t] = "batchStopped"]
      BY <2>5 DEF SchedWait, Goto
    <3>2. UNCHANGED <<runs, boot>> /\ \A r \in Run : hist'[r] \in Active => hist[r] \in Active
      BY <2>5 DEF SchedWait, lockVars, Active
    <3>3. \A u \in Thread : pc'[u] \in Owning => scan' = u
      BY <2>5, <3>1 DEF SchedWait, SafeInv, ScanOwned, Owning, TypeInv, TypeOK, lockVars
    <3> QED
      BY <2>5, <3>1, <3>2, <3>3, MoveKeepsSafe DEF SchedWait
  <2>6. ASSUME NEW t \in Thread, SchedStopped(t) PROVE SafeInv'
    <3>1. PICK l \in {"batchFree", "heal"} : pc' = [pc EXCEPT ![t] = l]
      BY <2>6 DEF SchedStopped, Goto
    <3>2. UNCHANGED <<runs, boot>> /\ \A r \in Run : hist'[r] \in Active => hist[r] \in Active
      BY <2>6 DEF SchedStopped, lockVars, Active
    <3>3. \A u \in Thread : pc'[u] \in Owning => scan' = u
      BY <2>6, <3>1 DEF SchedStopped, SafeInv, ScanOwned, Owning, TypeInv, TypeOK, lockVars
    <3> QED
      BY <2>6, <3>1, <3>2, <3>3, MoveKeepsSafe DEF SchedStopped
  <2>7. ASSUME NEW t \in Thread, SchedFree(t) PROVE SafeInv'
    <3>1. pc' = [pc EXCEPT ![t] = "idle"]
      BY <2>7 DEF SchedFree, Goto
    <3>2. UNCHANGED <<runs, boot>> /\ \A r \in Run : hist'[r] \in Active => hist[r] \in Active
      BY <2>7 DEF SchedFree, lockVars, Active
    <3>3. \A u \in Thread : pc'[u] \in Owning => scan' = u
      BY <2>7, <3>1 DEF SchedFree, SafeInv, ScanOwned, Owning, TypeInv, TypeOK, lockVars
    <3> QED
      BY <2>7, <3>1, <3>2, <3>3, MoveKeepsSafe DEF SchedFree
  <2>8. ASSUME NEW t \in Thread, SchedHeal(t) PROVE SafeInv'
    <3>1. pc' = [pc EXCEPT ![t] = "decide"]
      BY <2>8 DEF SchedHeal, Goto
    <3>2. UNCHANGED <<runs, boot>> /\ \A r \in Run : hist'[r] \in Active => hist[r] \in Active
      BY <2>8 DEF SchedHeal, lockVars, Active
    <3>3. \A u \in Thread : pc'[u] \in Owning => scan' = u
      BY <2>8, <3>1 DEF SchedHeal, SafeInv, ScanOwned, Owning, TypeInv, TypeOK, lockVars
    <3> QED
      BY <2>8, <3>1, <3>2, <3>3, MoveKeepsSafe DEF SchedHeal
  <2>9. ASSUME NEW t \in Thread, SchedDecide(t) PROVE SafeInv'
    <3>1. PICK l \in {"batchFree", "stopped?"} : pc' = [pc EXCEPT ![t] = l]
      BY <2>9 DEF SchedDecide, Goto
    <3>2. UNCHANGED <<runs, boot>> /\ \A r \in Run : hist'[r] \in Active => hist[r] \in Active
      BY <2>9 DEF SchedDecide, lockVars, Active
    <3>3. \A u \in Thread : pc'[u] \in Owning => scan' = u
      BY <2>9, <3>1 DEF SchedDecide, SafeInv, ScanOwned, Owning, TypeInv, TypeOK, lockVars
    <3> QED
      BY <2>9, <3>1, <3>2, <3>3, MoveKeepsSafe DEF SchedDecide
  <2>10. ASSUME NEW t \in Thread, TriggerLocked(t) PROVE SafeInv'
    <3>1. PICK l \in {"idle", "active?"} : pc' = [pc EXCEPT ![t] = l]
      BY <2>10 DEF TriggerLocked, Goto
    <3>2. UNCHANGED <<runs, boot>> /\ \A r \in Run : hist'[r] \in Active => hist[r] \in Active
      BY <2>10 DEF TriggerLocked, lockVars, Active
    <3>3. \A u \in Thread : pc'[u] \in Owning => scan' = u
      BY <2>10, <3>1 DEF TriggerLocked, SafeInv, ScanOwned, Owning, TypeInv, TypeOK, lockVars
    <3> QED
      BY <2>10, <3>1, <3>2, <3>3, MoveKeepsSafe DEF TriggerLocked
  <2>11. ASSUME NEW t \in Thread, TriggerActive(t) PROVE SafeInv'
    <3>1. /\ pc' = [pc EXCEPT ![t] = "idle"] \/ pc' = [pc EXCEPT ![t] = "queuedCard"]
          /\ \A r \in Run : hist'[r] \in Active => hist[r] \in Active
      BY <2>11, CheckRegistryEffect DEF TriggerActive
    <3>2. UNCHANGED <<runs, boot, scan>> /\ pc[t] = "active?"
      BY <2>11 DEF TriggerActive, lockVars
    <3>3. \A u \in Thread : pc'[u] \in Owning => scan' = u
      BY <3>1, <3>2 DEF SafeInv, ScanOwned, Owning, TypeInv, TypeOK
    <3> QED
      BY <3>1, <3>2, <3>3, MoveKeepsSafe DEF Owning
  <2>12. ASSUME NEW t \in Thread, TriggerQueued(t) PROVE SafeInv'
    <3>1. pc' = [pc EXCEPT ![t] = "stopped?"]
      BY <2>12 DEF TriggerQueued, Goto
    <3>2. UNCHANGED <<runs, boot>> /\ \A r \in Run : hist'[r] \in Active => hist[r] \in Active
      BY <2>12 DEF TriggerQueued, lockVars, Active
    <3>3. \A u \in Thread : pc'[u] \in Owning => scan' = u
      BY <2>12, <3>1 DEF TriggerQueued, SafeInv, ScanOwned, Owning, TypeInv, TypeOK, lockVars
    <3> QED
      BY <2>12, <3>1, <3>2, <3>3, MoveKeepsSafe DEF TriggerQueued
  <2>13. ASSUME NEW t \in Thread, StartStopped(t) PROVE SafeInv'
    <3>1. PICK l \in {"return", "busy?"} : pc' = [pc EXCEPT ![t] = l]
      BY <2>13 DEF StartStopped, Goto
    <3>2. UNCHANGED <<runs, boot>> /\ \A r \in Run : hist'[r] \in Active => hist[r] \in Active
      BY <2>13 DEF StartStopped, lockVars, Active
    <3>3. \A u \in Thread : pc'[u] \in Owning => scan' = u
      BY <2>13, <3>1 DEF StartStopped, SafeInv, ScanOwned, Owning, TypeInv, TypeOK, lockVars
    <3> QED
      BY <2>13, <3>1, <3>2, <3>3, MoveKeepsSafe DEF StartStopped
  <2>14. ASSUME NEW t \in Thread, StartBusy(t) PROVE SafeInv'
    <3>1. PICK l \in {"return", "try"} : pc' = [pc EXCEPT ![t] = l]
      BY <2>14 DEF StartBusy, Goto
    <3>2. UNCHANGED <<runs, boot>> /\ \A r \in Run : hist'[r] \in Active => hist[r] \in Active
      BY <2>14 DEF StartBusy, lockVars, Active
    <3>3. \A u \in Thread : pc'[u] \in Owning => scan' = u
      BY <2>14, <3>1 DEF StartBusy, SafeInv, ScanOwned, Owning, TypeInv, TypeOK, lockVars
    <3> QED
      BY <2>14, <3>1, <3>2, <3>3, MoveKeepsSafe DEF StartBusy
  <2>15. ASSUME NEW t \in Thread, StartTry(t) PROVE SafeInv'
    <3>1. PICK l \in {"running", "queue"} : pc' = [pc EXCEPT ![t] = l]
      BY <2>15 DEF StartTry, Goto
    <3>2. UNCHANGED <<runs, boot>> /\ \A r \in Run : hist'[r] \in Active => hist[r] \in Active
      BY <2>15 DEF StartTry, lockVars, Active
    <3>3. \A u \in Thread : pc'[u] \in Owning => scan' = u
      BY <2>15, <3>1 DEF StartTry, SafeInv, ScanOwned, Owning, TypeInv, TypeOK, lockVars
    <3> QED
      BY <2>15, <3>1, <3>2, <3>3, MoveKeepsSafe DEF StartTry
  <2>16. ASSUME NEW t \in Thread, StartQueued(t) PROVE SafeInv'
    <3>1. pc' = [pc EXCEPT ![t] = "wait"]
      BY <2>16 DEF StartQueued, Goto
    <3>2. UNCHANGED <<runs, boot>> /\ \A r \in Run : hist'[r] \in Active => hist[r] \in Active
      BY <2>16 DEF StartQueued, lockVars, Active
    <3>3. \A u \in Thread : pc'[u] \in Owning => scan' = u
      BY <2>16, <3>1 DEF StartQueued, SafeInv, ScanOwned, Owning, TypeInv, TypeOK, lockVars
    <3> QED
      BY <2>16, <3>1, <3>2, <3>3, MoveKeepsSafe DEF StartQueued
  <2>17. ASSUME NEW t \in Thread, StartWait(t) PROVE SafeInv'
    <3>1. pc' = [pc EXCEPT ![t] = "running"]
      BY <2>17 DEF StartWait, Goto
    <3>2. UNCHANGED <<runs, boot>> /\ \A r \in Run : hist'[r] \in Active => hist[r] \in Active
      BY <2>17 DEF StartWait, lockVars, Active
    <3>3. \A u \in Thread : pc'[u] \in Owning => scan' = u
      BY <2>17, <3>1 DEF StartWait, SafeInv, ScanOwned, Owning, TypeInv, TypeOK, lockVars
    <3> QED
      BY <2>17, <3>1, <3>2, <3>3, MoveKeepsSafe DEF StartWait
  <2>18. ASSUME NEW t \in Thread, StartRunning(t) PROVE SafeInv'
    <3>1. pc' = [pc EXCEPT ![t] = "scanLock"]
      BY <2>18 DEF StartRunning, Goto
    <3>2. UNCHANGED <<runs, boot>> /\ \A r \in Run : hist'[r] \in Active => hist[r] \in Active
      BY <2>18 DEF StartRunning, lockVars, Active
    <3>3. \A u \in Thread : pc'[u] \in Owning => scan' = u
      BY <2>18, <3>1 DEF StartRunning, SafeInv, ScanOwned, Owning, TypeInv, TypeOK, lockVars
    <3> QED
      BY <2>18, <3>1, <3>2, <3>3, MoveKeepsSafe DEF StartRunning
  <2>19. ASSUME NEW t \in Thread, StartScanLock(t) PROVE SafeInv'
    <3>1. pc[t] = "scanLock" /\ UNCHANGED <<runs, boot, hist>>
      BY <2>19 DEF StartScanLock
    <3>2. CASE scan = NoOne
      <4>1. pc' = [pc EXCEPT ![t] = "check"] /\ scan' = t
        BY <2>19, <3>2 DEF StartScanLock, Goto
      <4>2. \A u \in Thread : pc[u] \notin Owning
        BY <3>2 DEF SafeInv, ScanOwned
      <4>3. \A u \in Thread : pc'[u] \in Owning => scan' = u
        BY <4>1, <4>2 DEF TypeInv, TypeOK
      <4> QED
        BY <3>1, <4>1, <4>3, MoveKeepsSafe
    <3>3. CASE scan # NoOne
      <4>1. pc' = [pc EXCEPT ![t] = "freeGlobal"] /\ scan' = scan
        BY <2>19, <3>3 DEF StartScanLock, Goto
      <4>2. \A u \in Thread : pc'[u] \in Owning => scan' = u
        BY <4>1 DEF SafeInv, ScanOwned, Owning, TypeInv, TypeOK
      <4> QED
        BY <3>1, <4>1, <4>2, MoveKeepsSafe
    <3> QED
      BY <3>2, <3>3
  <2>20. ASSUME NEW t \in Thread, RegisterCheck(t) PROVE SafeInv'
    <3>1. /\ pc' = [pc EXCEPT ![t] = "freeScan"] \/ pc' = [pc EXCEPT ![t] = "recheck"]
          /\ \A r \in Run : hist'[r] \in Active => hist[r] \in Active
      BY <2>20, CheckRegistryEffect DEF RegisterCheck
    <3>2. UNCHANGED <<runs, boot, scan>> /\ pc[t] = "check"
      BY <2>20 DEF RegisterCheck, lockVars
    <3>3. \A u \in Thread : pc'[u] \in Owning => scan' = u
      BY <3>1, <3>2 DEF SafeInv, ScanOwned, Owning, TypeInv, TypeOK
    <3> QED
      BY <3>1, <3>2, <3>3, MoveKeepsSafe DEF Owning
  <2>21. ASSUME NEW t \in Thread, RegisterRecheck(t) PROVE SafeInv'
    <3>1. /\ pc[t] = "recheck"
          /\ pc' = [pc EXCEPT ![t] = IF ActiveRuns # {} THEN "freeScan" ELSE "insert"]
          /\ UNCHANGED <<runs, boot, scan, hist>>
      BY <2>21 DEF RegisterRecheck, Goto, lockVars
    <3>2. \A u \in Thread : pc'[u] \in Owning => scan' = u
      BY <3>1 DEF SafeInv, ScanOwned, Owning, TypeInv, TypeOK
    <3>3. CASE ActiveRuns # {}
      <4>1. pc' = [pc EXCEPT ![t] = "freeScan"]
        BY <3>1, <3>3
      <4> QED
        BY <3>1, <3>2, <4>1, MoveKeepsSafe
    <3>4. CASE ActiveRuns = {}
      <4>1. pc' = [pc EXCEPT ![t] = "insert"] /\ ActiveRuns' = {}
        BY <3>1, <3>4 DEF ActiveRuns
      <4> QED
        BY <3>1, <3>2, <4>1, MoveKeepsSafe
    <3> QED
      BY <3>3, <3>4
  <2>22. ASSUME NEW t \in Thread, RegisterInsert(t) PROVE SafeInv'
    BY <2>22, InsertKeepsSafe
  <2>23. ASSUME NEW t \in Thread, Banner(t) PROVE SafeInv'
    <3>1. pc' = [pc EXCEPT ![t] = "body"]
      BY <2>23 DEF Banner, Goto
    <3>2. UNCHANGED <<runs, boot>> /\ \A r \in Run : hist'[r] \in Active => hist[r] \in Active
      BY <2>23 DEF Banner, lockVars, Active
    <3>3. \A u \in Thread : pc'[u] \in Owning => scan' = u
      BY <2>23, <3>1 DEF Banner, SafeInv, ScanOwned, Owning, TypeInv, TypeOK, lockVars
    <3> QED
      BY <2>23, <3>1, <3>2, <3>3, MoveKeepsSafe DEF Banner
  <2>24. ASSUME NEW t \in Thread, BodyDone(t) PROVE SafeInv'
    <3>1. pc' = [pc EXCEPT ![t] = "complete"]
      BY <2>24 DEF BodyDone, Goto
    <3>2. UNCHANGED <<runs, boot>> /\ \A r \in Run : hist'[r] \in Active => hist[r] \in Active
      BY <2>24 DEF BodyDone, lockVars, Active
    <3>3. \A u \in Thread : pc'[u] \in Owning => scan' = u
      BY <2>24, <3>1 DEF BodyDone, SafeInv, ScanOwned, Owning, TypeInv, TypeOK, lockVars
    <3> QED
      BY <2>24, <3>1, <3>2, <3>3, MoveKeepsSafe DEF BodyDone
  <2>25. ASSUME NEW t \in Thread, BodyNoData(t) PROVE SafeInv'
    <3>1. pc' = [pc EXCEPT ![t] = "complete"]
      BY <2>25 DEF BodyNoData, Goto
    <3>2. UNCHANGED <<runs, boot>> /\ \A r \in Run : hist'[r] \in Active => hist[r] \in Active
      BY <2>25 DEF BodyNoData, lockVars, Active
    <3>3. \A u \in Thread : pc'[u] \in Owning => scan' = u
      BY <2>25, <3>1 DEF BodyNoData, SafeInv, ScanOwned, Owning, TypeInv, TypeOK, lockVars
    <3> QED
      BY <2>25, <3>1, <3>2, <3>3, MoveKeepsSafe DEF BodyNoData
  <2>26. ASSUME NEW t \in Thread, BodyFails(t) PROVE SafeInv'
    <3>1. pc' = [pc EXCEPT ![t] = "complete"]
      BY <2>26 DEF BodyFails, Goto
    <3>2. UNCHANGED <<runs, boot>> /\ \A r \in Run : hist'[r] \in Active => hist[r] \in Active
      BY <2>26 DEF BodyFails, lockVars, Active
    <3>3. \A u \in Thread : pc'[u] \in Owning => scan' = u
      BY <2>26, <3>1 DEF BodyFails, SafeInv, ScanOwned, Owning, TypeInv, TypeOK, lockVars
    <3> QED
      BY <2>26, <3>1, <3>2, <3>3, MoveKeepsSafe DEF BodyFails
  <2>27. ASSUME NEW t \in Thread, Complete(t) PROVE SafeInv'
    <3>1. PICK l \in {"sync", "endRead"} : pc' = [pc EXCEPT ![t] = l]
      BY <2>27 DEF Complete, Goto
    <3>2. UNCHANGED <<runs, boot>> /\ \A r \in Run : hist'[r] \in Active => hist[r] \in Active
      BY <2>27 DEF Complete, lockVars, Active, TypeInv, TypeOK
    <3>3. \A u \in Thread : pc'[u] \in Owning => scan' = u
      BY <2>27, <3>1 DEF Complete, SafeInv, ScanOwned, Owning, TypeInv, TypeOK, lockVars
    <3>4. hist'[ThisRun(t)] \notin Active
      <4>1. ThisRun(t) \in Run
        BY <2>27, ThisRunInRun, TypeInvParts DEF Complete
      <4> QED
        BY <2>27, <4>1 DEF Complete, Active, TypeInv, TypeOK
    <3> QED
      BY <3>1, <3>2, <3>3, <3>4, MoveKeepsSafe
  <2>28. ASSUME NEW t \in Thread, CompleteSync(t) PROVE SafeInv'
    <3>1. pc' = [pc EXCEPT ![t] = "downRead"]
      BY <2>28 DEF CompleteSync, Goto
    <3>2. UNCHANGED <<runs, boot>> /\ \A r \in Run : hist'[r] \in Active => hist[r] \in Active
      BY <2>28 DEF CompleteSync, lockVars, Active
    <3>3. \A u \in Thread : pc'[u] \in Owning => scan' = u
      BY <2>28, <3>1 DEF CompleteSync, SafeInv, ScanOwned, Owning, TypeInv, TypeOK, lockVars
    <3> QED
      BY <2>28, <3>1, <3>2, <3>3, MoveKeepsSafe DEF CompleteSync
  <2>29. ASSUME NEW t \in Thread, GuardRead(t) PROVE SafeInv'
    <3>1. PICK l \in {"downWrite", "endWrite"} : pc' = [pc EXCEPT ![t] = l]
      BY <2>29 DEF GuardRead, Goto
    <3>2. UNCHANGED <<runs, boot>> /\ \A r \in Run : hist'[r] \in Active => hist[r] \in Active
      BY <2>29 DEF GuardRead, lockVars, Active
    <3>3. \A u \in Thread : pc'[u] \in Owning => scan' = u
      BY <2>29, <3>1 DEF GuardRead, SafeInv, ScanOwned, Owning, TypeInv, TypeOK, lockVars
    <3> QED
      BY <2>29, <3>1, <3>2, <3>3, MoveKeepsSafe DEF GuardRead
  <2>30. ASSUME NEW t \in Thread, DownWrite(t) PROVE SafeInv'
    <3>1. pc' = [pc EXCEPT ![t] = "endRead"]
      BY <2>30 DEF DownWrite, Goto
    <3>2. UNCHANGED <<runs, boot>> /\ \A r \in Run : hist'[r] \in Active => hist[r] \in Active
      BY <2>30 DEF DownWrite, lockVars, Active
    <3>3. \A u \in Thread : pc'[u] \in Owning => scan' = u
      BY <2>30, <3>1 DEF DownWrite, SafeInv, ScanOwned, Owning, TypeInv, TypeOK, lockVars
    <3> QED
      BY <2>30, <3>1, <3>2, <3>3, MoveKeepsSafe DEF DownWrite
  <2>31. ASSUME NEW t \in Thread, EndWrite(t) PROVE SafeInv'
    <3>1. pc' = [pc EXCEPT ![t] = "freeScan"]
      BY <2>31 DEF EndWrite, Goto
    <3>2. UNCHANGED <<runs, boot>> /\ \A r \in Run : hist'[r] \in Active => hist[r] \in Active
      BY <2>31 DEF EndWrite, lockVars, Active
    <3>3. \A u \in Thread : pc'[u] \in Owning => scan' = u
      BY <2>31, <3>1 DEF EndWrite, SafeInv, ScanOwned, Owning, TypeInv, TypeOK, lockVars
    <3> QED
      BY <2>31, <3>1, <3>2, <3>3, MoveKeepsSafe DEF EndWrite
  <2>32. ASSUME NEW t \in Thread, FreeScan(t) PROVE SafeInv'
    <3>1. pc' = [pc EXCEPT ![t] = "freeGlobal"]
      BY <2>32 DEF FreeScan, Goto
    <3>2. UNCHANGED <<runs, boot>> /\ \A r \in Run : hist'[r] \in Active => hist[r] \in Active
      BY <2>32 DEF FreeScan, lockVars, Active
    <3>3. \A u \in Thread : pc'[u] \in Owning => scan' = u
      BY <2>32, <3>1 DEF FreeScan, SafeInv, ScanOwned, Owning, TypeInv, TypeOK, lockVars
    <3> QED
      BY <2>32, <3>1, <3>2, <3>3, MoveKeepsSafe DEF FreeScan
  <2>33. ASSUME NEW t \in Thread, FreeGlobal(t) PROVE SafeInv'
    <3>1. pc' = [pc EXCEPT ![t] = "return"]
      BY <2>33 DEF FreeGlobal, Goto
    <3>2. UNCHANGED <<runs, boot>> /\ \A r \in Run : hist'[r] \in Active => hist[r] \in Active
      BY <2>33 DEF FreeGlobal, lockVars, Active
    <3>3. \A u \in Thread : pc'[u] \in Owning => scan' = u
      BY <2>33, <3>1 DEF FreeGlobal, SafeInv, ScanOwned, Owning, TypeInv, TypeOK, lockVars
    <3> QED
      BY <2>33, <3>1, <3>2, <3>3, MoveKeepsSafe DEF FreeGlobal
  <2>34. ASSUME NEW t \in Thread, Return(t) PROVE SafeInv'
    <3>1. PICK l \in {"idle", "batchFree", "heal"} : pc' = [pc EXCEPT ![t] = l]
      BY <2>34 DEF Return, Goto, AfterReturn
    <3>2. UNCHANGED <<runs, boot>> /\ \A r \in Run : hist'[r] \in Active => hist[r] \in Active
      BY <2>34 DEF Return, lockVars, Active
    <3>3. \A u \in Thread : pc'[u] \in Owning => scan' = u
      BY <2>34, <3>1 DEF Return, SafeInv, ScanOwned, Owning, TypeInv, TypeOK, lockVars
    <3> QED
      BY <2>34, <3>1, <3>2, <3>3, MoveKeepsSafe DEF Return
  <2>35. ASSUME NEW p \in Proc, Pause(p) PROVE SafeInv'
    BY <2>35, RestKeepsSafe DEF Pause, threadVars, lockVars
  <2>36. ASSUME NEW p \in Proc, PauseRows(p) PROVE SafeInv'
    <3>1. ActiveRuns' = {}
      BY <2>36 DEF PauseRows, CloseAll, ActiveRuns, Active
    <3>2. \A r \in Run : hist'[r] \in Active => hist[r] \in Active
      BY <3>1 DEF ActiveRuns
    <3> QED
      BY <2>36, <3>1, <3>2, RestKeepsSafe DEF PauseRows, threadVars, lockVars
  <2>37. ASSUME NEW p \in Proc, Resume(p) PROVE SafeInv'
    BY <2>37, RestKeepsSafe DEF Resume, threadVars, lockVars
  <2>38. ASSUME NEW p \in Proc, ResumeCard(p) PROVE SafeInv'
    BY <2>38, RestKeepsSafe DEF ResumeCard, threadVars, lockVars
  <2>39. ASSUME NEW p \in Proc, ShowCards(p) PROVE SafeInv'
    BY <2>39, RestKeepsSafe DEF ShowCards, threadVars, lockVars
  <2>40. ASSUME NEW p \in Proc, Crash(p) PROVE SafeInv'
    BY <2>40, CrashKeepsSafe
  <2>41. ASSUME NEW p \in Proc, BootReset(p) PROVE SafeInv'
    <3>1. \A q \in Proc : boot'[q] = "up" => boot[q] = "up"
      BY <2>41 DEF BootReset, TypeInv, TypeOK
    <3> QED
      BY <2>41, <3>1, RestKeepsSafe DEF BootReset, threadVars, lockVars
  <2>42. ASSUME NEW p \in Proc, BootCleanup(p) PROVE SafeInv'
    <3>1. ActiveRuns' = {}
      BY <2>42 DEF BootCleanup, CloseAll, ActiveRuns, Active
    <3>2. \A r \in Run : hist'[r] \in Active => hist[r] \in Active
      BY <3>1 DEF ActiveRuns
    <3> QED
      BY <2>42, <3>1, <3>2, RestKeepsSafe DEF BootCleanup, threadVars, lockVars
  <2>43. CASE UNCHANGED vars
    BY <2>43, RestKeepsSafe DEF vars, threadVars, lockVars
  <2> QED
    BY <2>1, <2>2, <2>3, <2>4, <2>5, <2>6, <2>7, <2>8, <2>9, <2>10, <2>11, <2>12, <2>13,
       <2>14, <2>15, <2>16, <2>17, <2>18, <2>19, <2>20, <2>21, <2>22, <2>23, <2>24,
       <2>25, <2>26, <2>27, <2>28, <2>29, <2>30, <2>31, <2>32, <2>33, <2>34, <2>35,
       <2>36, <2>37, <2>38, <2>39, <2>40, <2>41, <2>42, <2>43  DEF Next, TriggerStep,
       StartStep, RunStep, AdminStep
<1> QED
  BY <1>1, <1>2, TypeInvariance, PTL DEF Spec

\* Never two active rows of the scanner, in any instance: the registry alone does not
\* ensure it, the scan lock does.
THEOREM OneActiveRunHolds == Spec => []OneActiveRun
<1>1. SafeInv => OneActiveRun
  BY DEF SafeInv
<1> QED
  BY <1>1, SafeInvariance, PTL

\* An active row is that of a live run, or waits for the boot sequence of a container
\* that crashed, in any instance.
THEOREM NoPhantomRunHolds == Spec => []NoPhantomRun
<1>1. SafeInv => NoPhantomRun
  BY DEF SafeInv
<1> QED
  BY <1>1, SafeInvariance, PTL

\* Without a crash an active row is that of a live run, at every moment: the boot
\* sequence is the only gap there is in the bookkeeping.
THEOREM OnlyCrashesOrphan ==
  ASSUME "crash" \notin Faults
  PROVE  Spec => [](\A r \in ActiveRuns : Live(r))
<1> DEFINE Up == \A p \in Proc : boot[p] = "up"
<1>1. Init => Up
  BY DEF Init
<1>2. Up /\ [Next]_vars => Up'
  <2> SUFFICES ASSUME Up, [Next]_vars PROVE Up'
    OBVIOUS
  <2>1. ASSUME NEW p \in Proc, Crash(p) \/ BootReset(p) \/ BootCleanup(p)
        PROVE  FALSE
    BY <2>1 DEF Crash, BootReset, BootCleanup
  <2>2. CASE boot' = boot
    BY <2>2
  <2>3. ASSUME NEW t \in Thread,
               SchedTick(t) \/ Trigger(t) \/ StillQueued(t) \/ TriggerStep(t)
        PROVE  boot' = boot
    BY <2>3 DEF SchedTick, Trigger, StillQueued, TriggerStep, SchedQueued, SchedWait,
                SchedStopped, SchedFree, SchedHeal, SchedDecide, TriggerLocked,
                TriggerActive, TriggerQueued
  <2>4. ASSUME NEW t \in Thread, StartStep(t)
        PROVE  boot' = boot
    BY <2>4 DEF StartStep, StartStopped, StartBusy, StartTry, StartQueued, StartWait,
                StartRunning, StartScanLock, RegisterCheck, RegisterRecheck, RegisterInsert
  <2>5. ASSUME NEW t \in Thread, RunStep(t)
        PROVE  boot' = boot
    BY <2>5 DEF RunStep, Banner, BodyDone, BodyNoData, BodyFails, Complete, CompleteSync,
                GuardRead, DownWrite, EndWrite, FreeScan, FreeGlobal, Return
  <2>6. ASSUME NEW p \in Proc, AdminStep(p) \/ ShowCards(p)
        PROVE  boot' = boot
    BY <2>6 DEF AdminStep, Pause, PauseRows, Resume, ResumeCard, ShowCards
  <2> QED
    BY <2>1, <2>2, <2>3, <2>4, <2>5, <2>6 DEF Next, vars
<1>3. SafeInv /\ Up => \A r \in ActiveRuns : Live(r)
  <2> SUFFICES ASSUME SafeInv, Up, NEW r \in ActiveRuns PROVE Live(r)
    OBVIOUS
  <2>1. ProcOf[r[1]] \in Proc
    BY RunsAssumption DEF ActiveRuns, Run
  <2> QED
    BY <2>1 DEF SafeInv, NoPhantomRun
<1> QED
  BY <1>1, <1>2, <1>3, SafeInvariance, PTL DEF Spec

(***************************************************************************)
(* The registry is a book of runs                                          *)
(***************************************************************************)

\* What the refinement needs beside SafeInv: a row that no thread has inserted yet is
\* not there, and the row of a run that has not written its end says RUNNING, or what
\* somebody else cut it off with.
RowsAhead == \A r \in Run : r[2] > runs[r[1]] => hist[r] = "none"
RowsOpen == \A t \in Thread : pc[t] \in RunPC => hist[ThisRun(t)] \in Active \cup Book!Cut

RowInv == RowsAhead /\ RowsOpen

\* A step of the book, or a stutter.
Booked == Book!Next \/ hist' = hist

\* A step that writes no row: no thread comes to the middle of a run by it.
LEMMA UnwrittenBooked ==
  ASSUME RowInv, hist' = hist, runs' = runs,
         \A t \in Thread : pc'[t] \in RunPC => pc[t] \in RunPC
  PROVE  RowInv' /\ Booked
  BY DEF RowInv, RowsAhead, RowsOpen, Booked, ThisRun

\* Rows that are closed by somebody else: there is one active row, so one is cut off.
LEMMA CloseAllBooked ==
  ASSUME TypeInv, SafeInv, RowInv, NEW S, S \subseteq ActiveRuns, NEW as \in Book!Cut,
         CloseAll(S, as), runs' = runs,
         \A t \in Thread : pc'[t] \in RunPC => pc[t] \in RunPC
  PROVE  RowInv' /\ Booked
<1>1. /\ hist' = [r \in Run |-> IF r \in S THEN as ELSE hist[r]]
      /\ hist \in [Run -> Active \cup Closed \cup {"none"}]
      /\ S \subseteq Run
  BY DEF CloseAll, TypeInv, TypeOK, ActiveRuns
<1>2. RowsAhead'
  <2> SUFFICES ASSUME NEW r \in Run, r[2] > runs[r[1]] PROVE hist'[r] = "none"
    BY DEF RowsAhead
  <2>1. hist[r] = "none"
    BY DEF RowInv, RowsAhead
  <2>2. r \notin S
    BY <2>1 DEF ActiveRuns, Active
  <2> QED
    BY <1>1, <2>1, <2>2
<1>3. RowsOpen'
  <2> SUFFICES ASSUME NEW t \in Thread, pc'[t] \in RunPC
               PROVE  hist'[ThisRun(t)] \in Active \cup Book!Cut
    BY DEF RowsOpen, ThisRun
  <2>1. pc[t] \in RunPC /\ hist[ThisRun(t)] \in Active \cup Book!Cut
    BY DEF RowInv, RowsOpen
  <2>2. ThisRun(t) \in Run
    BY <2>1, TypeInvParts, ThisRunInRun
  <2> QED
    BY <1>1, <2>1, <2>2
<1>4. Booked
  <2>1. CASE S = {}
    <3>1. hist' = hist
      BY <1>1, <2>1
    <3> QED
      BY <3>1 DEF Booked
  <2>2. ASSUME NEW r \in S
        PROVE  Booked
    <3>1. r \in Run /\ hist[r] = "RUNNING" /\ \A q \in S : q = r
      BY <2>2 DEF SafeInv, OneActiveRun, ActiveRuns, Active
    <3>2. hist' = [hist EXCEPT ![r] = as]
      BY <1>1, <2>2, <3>1
    <3> QED
      BY <3>1, <3>2 DEF Booked, Book!Next, Book!CutOff
  <2> QED
    BY <2>1, <2>2
<1> QED
  BY <1>2, <1>3, <1>4 DEF RowInv

\* The check that heals, before a trigger and before a registration.
LEMMA CheckBooked ==
  ASSUME TypeInv, SafeInv, RowInv, NEW t \in Thread,
         TriggerActive(t) \/ RegisterCheck(t)
  PROVE  RowInv' /\ Booked
<1>1. PICK S \in SUBSET MayBeStale, l \in {"idle", "queuedCard", "freeScan", "recheck"} :
         CloseAll(S, "TIMEOUT_STALE") /\ pc' = [pc EXCEPT ![t] = l]
  <2>1. CASE TriggerActive(t)
    BY <2>1 DEF TriggerActive, CheckRegistry, Goto
  <2>2. CASE RegisterCheck(t)
    BY <2>2 DEF RegisterCheck, CheckRegistry, Goto
  <2> QED
    BY <2>1, <2>2
<1>2. runs' = runs
  BY DEF TriggerActive, RegisterCheck
<1>3. \A u \in Thread : pc'[u] \in RunPC => pc[u] \in RunPC
  BY <1>1 DEF RunPC, TypeInv, TypeOK
<1>4. S \subseteq ActiveRuns /\ "TIMEOUT_STALE" \in Book!Cut
  BY DEF MayBeStale, Book!Cut
<1> QED
  BY <1>1, <1>2, <1>3, <1>4, CloseAllBooked

\* The INSERT enters a run into a book in which none is active.
LEMMA InsertBooked ==
  ASSUME TypeInv, SafeInv, RowInv, NEW t \in Thread, RegisterInsert(t)
  PROVE  RowInv' /\ Booked
<1> DEFINE new == <<t, runs[t] + 1>>
<1>1. /\ pc[t] = "insert" /\ pc' = [pc EXCEPT ![t] = "banner"]
      /\ runs' = [runs EXCEPT ![t] = @ + 1]
      /\ hist' = [hist EXCEPT ![new] = "RUNNING"]
  BY DEF RegisterInsert, Goto
<1>2. /\ pc \in [Thread -> PC] /\ runs \in [Thread -> Nat]
      /\ hist \in [Run -> Active \cup Closed \cup {"none"}]
  BY DEF TypeInv, TypeOK
<1>3. new \in Run /\ new[1] = t /\ new[2] = runs[t] + 1
  <2>1. runs[t] \in Nat /\ MaxRuns[t] \in Nat /\ runs[t] < MaxRuns[t]
    BY <1>1, <1>2, RunsAssumption DEF TypeInv, RunsCounted
  <2>2. runs[t] + 1 \in 1..MaxRuns[t]
    BY <2>1
  <2> QED
    BY <2>2 DEF Run
<1>4. hist[new] = "none"
  BY <1>2, <1>3 DEF RowInv, RowsAhead
<1>5. \A q \in Run : hist[q] # "RUNNING"
  BY <1>1 DEF SafeInv, InsertAlone, ActiveRuns, Active
<1>6. RowsAhead'
  <2> SUFFICES ASSUME NEW r \in Run, r[2] > runs'[r[1]] PROVE hist'[r] = "none"
    BY DEF RowsAhead
  <2>1. r[1] \in Thread /\ r[2] \in Nat
    BY RunsAssumption DEF Run
  <2>2. r[2] > runs[r[1]] /\ r # new
    BY <1>1, <1>2, <1>3, <2>1
  <2> QED
    BY <1>1, <1>2, <2>2 DEF RowInv, RowsAhead
<1>7. RowsOpen'
  <2> SUFFICES ASSUME NEW u \in Thread, pc'[u] \in RunPC
               PROVE  hist'[<<u, runs'[u]>>] \in Active \cup Book!Cut
    BY DEF RowsOpen, ThisRun
  <2>1. CASE u = t
    BY <1>1, <1>2, <1>3, <2>1 DEF Active
  <2>2. CASE u # t
    <3>1. pc[u] \in RunPC /\ runs'[u] = runs[u] /\ <<u, runs[u]>> # new
      BY <1>1, <1>2, <2>2
    <3>2. hist[<<u, runs[u]>>] \in Active \cup Book!Cut
      BY <3>1 DEF RowInv, RowsOpen, ThisRun
    <3>3. <<u, runs[u]>> \in Run
      BY <3>1, TypeInvParts, ThisRunInRun DEF ThisRun
    <3> QED
      BY <1>1, <1>2, <3>1, <3>2, <3>3
  <2> QED
    BY <2>1, <2>2
<1>8. Booked
  BY <1>1, <1>3, <1>4, <1>5 DEF Booked, Book!Next, Book!Enter
<1> QED
  BY <1>6, <1>7, <1>8 DEF RowInv

\* A run writes how it ended, whatever its row has become.
LEMMA CompleteBooked ==
  ASSUME TypeInv, RowInv, NEW t \in Thread, Complete(t)
  PROVE  RowInv' /\ Booked
<1> DEFINE r == ThisRun(t)
           end == IF failed[t] THEN "FAILED" ELSE "COMPLETED"
<1>1. /\ pc[t] = "complete" /\ hist' = [hist EXCEPT ![r] = end] /\ runs' = runs
  BY DEF Complete
<1>2. PICK l \in {"sync", "endRead"} : pc' = [pc EXCEPT ![t] = l]
  BY DEF Complete, Goto
<1>3. /\ pc \in [Thread -> PC] /\ runs \in [Thread -> Nat]
      /\ hist \in [Run -> Active \cup Closed \cup {"none"}]
  BY DEF TypeInv, TypeOK
<1>4. r \in Run /\ r[1] = t /\ r[2] = runs[t] /\ pc[t] \in RunPC
  BY <1>1, TypeInvParts, ThisRunInRun DEF ThisRun, RunPC
<1>5. hist[r] \in {"RUNNING"} \cup Book!Cut
  BY <1>4 DEF RowInv, RowsOpen, Active
<1>6. RowsAhead'
  BY <1>1, <1>3, <1>4 DEF RowInv, RowsAhead
<1>7. RowsOpen'
  <2> SUFFICES ASSUME NEW u \in Thread, pc'[u] \in RunPC
               PROVE  hist'[ThisRun(u)] \in Active \cup Book!Cut
    BY <1>1 DEF RowsOpen, ThisRun
  <2>1. u # t /\ pc[u] \in RunPC
    BY <1>2, <1>3 DEF RunPC
  <2>2. ThisRun(u) # r /\ hist[ThisRun(u)] \in Active \cup Book!Cut
    BY <2>1 DEF RowInv, RowsOpen, ThisRun
  <2>3. ThisRun(u) \in Run
    BY <2>1, TypeInvParts, ThisRunInRun
  <2> QED
    BY <1>1, <1>3, <2>2, <2>3
<1>8. Booked
  <2>1. end \in Book!Ended
    BY DEF Book!Ended
  <2> QED
    BY <1>1, <1>4, <1>5, <2>1 DEF Booked, Book!Next, Book!End
<1> QED
  BY <1>6, <1>7, <1>8 DEF RowInv

\* Every other step of a thread writes no row.
LEMMA TriggerBooked ==
  ASSUME TypeInv, RowInv, NEW t \in Thread,
         \/ SchedTick(t) \/ Trigger(t) \/ StillQueued(t)
         \/ SchedQueued(t) \/ SchedWait(t) \/ SchedStopped(t) \/ SchedFree(t)
         \/ SchedHeal(t) \/ SchedDecide(t) \/ TriggerLocked(t) \/ TriggerQueued(t)
  PROVE  RowInv' /\ Booked
<1>1. pc \in [Thread -> PC]
  BY DEF TypeInv, TypeOK
<1>2. hist' = hist /\ runs' = runs
  BY DEF SchedTick, Trigger, StillQueued, SchedQueued, SchedWait, SchedStopped, SchedFree,
         SchedHeal, SchedDecide, TriggerLocked, TriggerQueued, threadVars
<1>3. \/ pc' = pc
      \/ \E l \in PC \ RunPC : pc' = [pc EXCEPT ![t] = l]
  BY DEF SchedTick, Trigger, StillQueued, SchedQueued, SchedWait, SchedStopped, SchedFree,
         SchedHeal, SchedDecide, TriggerLocked, TriggerQueued, threadVars, Goto, PC, RunPC, TailPC
<1> QED
  BY <1>1, <1>2, <1>3, UnwrittenBooked

\* So do the steps of start() but the registration and the end.
LEMMA StartBooked ==
  ASSUME TypeInv, RowInv, NEW t \in Thread,
         \/ StartStopped(t) \/ StartBusy(t) \/ StartTry(t) \/ StartQueued(t)
         \/ StartWait(t) \/ StartRunning(t) \/ StartScanLock(t) \/ RegisterRecheck(t)
  PROVE  RowInv' /\ Booked
<1>1. pc \in [Thread -> PC]
  BY DEF TypeInv, TypeOK
<1>2. hist' = hist /\ runs' = runs
  BY DEF StartStopped, StartBusy, StartTry, StartQueued, StartWait, StartRunning,
         StartScanLock, RegisterRecheck, threadVars
<1>3. \E l \in PC \ RunPC : pc' = [pc EXCEPT ![t] = l]
  BY DEF StartStopped, StartBusy, StartTry, StartQueued, StartWait, StartRunning,
         StartScanLock, RegisterRecheck, Goto, PC, RunPC, TailPC
<1> QED
  BY <1>1, <1>2, <1>3, UnwrittenBooked

\* And the steps of a run, up to its return.
LEMMA RunBooked ==
  ASSUME TypeInv, RowInv, NEW t \in Thread,
         \/ Banner(t) \/ BodyDone(t) \/ BodyNoData(t) \/ BodyFails(t)
         \/ CompleteSync(t) \/ GuardRead(t) \/ DownWrite(t) \/ EndWrite(t)
         \/ FreeScan(t) \/ FreeGlobal(t) \/ Return(t)
  PROVE  RowInv' /\ Booked
<1>1. pc \in [Thread -> PC]
  BY DEF TypeInv, TypeOK
<1>2. hist' = hist /\ runs' = runs
  BY DEF Banner, BodyDone, BodyNoData, BodyFails, CompleteSync, GuardRead, DownWrite,
         EndWrite, FreeScan, FreeGlobal, Return, threadVars
<1>3. \/ pc[t] \in RunPC /\ \E l : pc' = [pc EXCEPT ![t] = l]
      \/ \E l \in PC \ RunPC : pc' = [pc EXCEPT ![t] = l]
  <2>1. CASE Return(t)
    BY <2>1 DEF Return, AfterReturn, Goto, PC, RunPC, TailPC
  <2>2. CASE ~Return(t)
    BY <2>2 DEF Banner, BodyDone, BodyNoData, BodyFails, CompleteSync, GuardRead, DownWrite,
         EndWrite, FreeScan, FreeGlobal, Goto, PC, RunPC, TailPC
  <2> QED
    BY <2>1, <2>2
<1> QED
  BY <1>1, <1>2, <1>3, UnwrittenBooked

\* The admin, the dashboard, a crash and the boot sequence.
LEMMA ProcBooked ==
  ASSUME TypeInv, SafeInv, RowInv, NEW p \in Proc,
         AdminStep(p) \/ ShowCards(p) \/ Crash(p) \/ BootReset(p) \/ BootCleanup(p)
  PROVE  RowInv' /\ Booked
<1>1. CASE PauseRows(p) \/ BootCleanup(p)
  <2>1. PICK as \in Book!Cut : CloseAll(ActiveRuns, as)
    BY <1>1 DEF PauseRows, BootCleanup, Book!Cut
  <2>2. runs' = runs /\ pc' = pc
    BY <1>1 DEF PauseRows, BootCleanup, threadVars
  <2> QED
    BY <2>1, <2>2, CloseAllBooked
<1>2. CASE Pause(p) \/ Resume(p) \/ ResumeCard(p) \/ ShowCards(p) \/ BootReset(p)
  BY <1>2, UnwrittenBooked DEF Pause, Resume, ResumeCard, ShowCards, BootReset, threadVars
<1>3. CASE Crash(p)
  <2>1. hist' = hist /\ runs' = runs
    BY <1>3 DEF Crash
  <2>2. \A t \in Thread : pc'[t] \in RunPC => pc[t] \in RunPC
    BY <1>3 DEF Crash, RunPC
  <2> QED
    BY <2>1, <2>2, UnwrittenBooked
<1> QED
  BY <1>1, <1>2, <1>3 DEF AdminStep

\* The registry keeps a book of runs, in any instance: runs are entered one at a time, a
\* row is cut off at most once by somebody else, its own run may still say how it ended,
\* and that is the last word on it.
THEOREM RegistryImplementsRunBook == Spec => RefinesRunBook
<1>1. Init => RowInv /\ Book!Init
  BY DEF Init, RowInv, RowsAhead, RowsOpen, RunPC, Book!Init
<1>2. TypeInv /\ SafeInv /\ RowInv /\ [Next]_vars => RowInv' /\ [Book!Next]_hist
  <2> SUFFICES ASSUME TypeInv, SafeInv, RowInv, [Next]_vars
               PROVE  RowInv' /\ Booked
    BY DEF Booked
  <2>1. CASE UNCHANGED vars
    BY <2>1, UnwrittenBooked DEF vars, threadVars
  <2>2. ASSUME NEW t \in Thread,
               \/ SchedTick(t) \/ Trigger(t) \/ StillQueued(t)
               \/ TriggerStep(t) \/ StartStep(t) \/ RunStep(t)
        PROVE  RowInv' /\ Booked
    BY <2>2, CheckBooked, InsertBooked, CompleteBooked, TriggerBooked, StartBooked, RunBooked
       DEF TriggerStep, StartStep, RunStep
  <2> QED
    BY <2>1, <2>2, ProcBooked DEF Next
<1> QED
  BY <1>1, <1>2, TypeInvariance, SafeInvariance, PTL DEF Spec, RefinesRunBook, Book!Spec

(***************************************************************************)
(* Scans are run one at a time                                             *)
(***************************************************************************)

\* The threads between the acquisition of the scan lock and its release.
Scanning == {t \in Thread : pc[t] \in Owning}

Scans == INSTANCE ScannerMutex WITH running <- Scanning

\* A thread that scans goes on or leaves; one that does not stays out.
LEMMA StaysOut ==
  ASSUME TypeInv, SafeInv, NEW t \in Thread, NEW l, pc' = [pc EXCEPT ![t] = l],
         l \in Owning => pc[t] \in Owning
  PROVE  Scans!Next \/ Scanning' = Scanning
<1>1. \A u \in Thread : pc'[u] = IF u = t THEN l ELSE pc[u]
  BY DEF TypeInv, TypeOK
<1>2. CASE t \in Scanning /\ l \notin Owning
  <2>1. Scanning' = Scanning \ {t}
    BY <1>1, <1>2 DEF Scanning
  <2> QED
    BY <1>2, <2>1 DEF Scans!Next, Scans!Leave
<1>3. CASE ~(t \in Scanning /\ l \notin Owning)
  <2>1. Scanning' = Scanning
    BY <1>1, <1>3 DEF Scanning
  <2> QED
    BY <2>1
<1> QED
  BY <1>2, <1>3

\* The scan lock is what lets a thread in.
LEMMA ScanLockLetsIn ==
  ASSUME TypeInv, SafeInv, NEW t \in Thread, StartScanLock(t)
  PROVE  Scans!Next \/ Scanning' = Scanning
<1>1. pc[t] = "scanLock" /\ pc \in [Thread -> PC]
  BY DEF StartScanLock, TypeInv, TypeOK
<1>2. CASE scan = NoOne
  <2>1. pc' = [pc EXCEPT ![t] = "check"]
    BY <1>2 DEF StartScanLock, Goto
  <2>2. Scanning = {}
    BY <1>2, RunsAssumption DEF Scanning, SafeInv, ScanOwned
  <2>3. Scanning' = {t}
    BY <1>1, <2>1, <2>2 DEF Scanning, Owning
  <2> QED
    BY <2>2, <2>3 DEF Scans!Next, Scans!Enter
<1>3. CASE scan # NoOne
  <2>1. pc' = [pc EXCEPT ![t] = "freeGlobal"] /\ "freeGlobal" \notin Owning
    BY <1>3 DEF StartScanLock, Goto, Owning, RunPC, TailPC
  <2> QED
    BY <2>1, StaysOut
<1> QED
  BY <1>2, <1>3

\* A crash takes the one thread that scans with it, if it is the container's.
LEMMA CrashLeaves ==
  ASSUME TypeInv, SafeInv, NEW p \in Proc, Crash(p)
  PROVE  Scans!Next \/ Scanning' = Scanning
<1>1. \A t \in Thread : pc'[t] = IF ProcOf[t] = p THEN "idle" ELSE pc[t]
  BY DEF Crash
<1>2. "idle" \notin Owning
  BY DEF Owning, RunPC, TailPC
<1>3. \A t, u \in Scanning : t = u
  BY DEF SafeInv, ScanOwned, Scanning
<1>4. CASE \E t \in Scanning : ProcOf[t] = p
  <2>1. PICK t \in Scanning : ProcOf[t] = p
    BY <1>4
  <2>2. Scanning' = Scanning \ {t}
    BY <1>1, <1>2, <1>3, <2>1 DEF Scanning
  <2> QED
    BY <2>1, <2>2 DEF Scans!Next, Scans!Leave, Scanning
<1>5. CASE \A t \in Scanning : ProcOf[t] # p
  <2>1. Scanning' = Scanning
    BY <1>1, <1>2, <1>5 DEF Scanning
  <2> QED
    BY <2>1
<1> QED
  BY <1>4, <1>5

\* Scans implement the mutual exclusion that the global lock is there for, in any number
\* of containers, although a failing scan releases that lock twice and lets another
\* trigger in: the scan lock ensures it (eod_scanner.start).
THEOREM ScansImplementMutex == Spec => Scans!Spec
<1>1. Init => Scans!Init
  BY DEF Init, Scans!Init, Scanning, Owning, RunPC, TailPC
<1>2. TypeInv /\ SafeInv /\ [Next]_vars => [Scans!Next]_Scanning
  <2> SUFFICES ASSUME TypeInv, SafeInv, [Next]_vars
               PROVE  Scans!Next \/ Scanning' = Scanning
    OBVIOUS
  <2>1. CASE pc' = pc
    BY <2>1 DEF Scanning
  <2>2. ASSUME NEW t \in Thread, NEW l, Goto(t, l), l \in Owning => pc[t] \in Owning
        PROVE  Scans!Next \/ Scanning' = Scanning
    BY <2>2, StaysOut DEF Goto
  <2>3. ASSUME NEW t \in Thread, TriggerActive(t) \/ RegisterCheck(t)
        PROVE  \E l : Goto(t, l) /\ (l \in Owning => pc[t] \in Owning)
    <3>1. CASE TriggerActive(t)
      <4>1. Goto(t, "idle") \/ Goto(t, "queuedCard")
        BY <3>1, CheckRegistryEffect DEF TriggerActive, Goto
      <4>2. "idle" \notin Owning /\ "queuedCard" \notin Owning
        BY DEF Owning, RunPC, TailPC
      <4> QED
        BY <4>1, <4>2
    <3>2. CASE RegisterCheck(t)
      <4>1. Goto(t, "freeScan") \/ Goto(t, "recheck")
        BY <3>2, CheckRegistryEffect DEF RegisterCheck, Goto
      <4>2. pc[t] \in Owning
        BY <3>2 DEF RegisterCheck, Owning
      <4> QED
        BY <4>1, <4>2
    <3> QED
      BY <2>3, <3>1, <3>2
  <2>4. ASSUME NEW t \in Thread,
               \/ SchedTick(t) \/ Trigger(t) \/ TriggerStep(t) \/ StartStep(t),
               ~TriggerActive(t), ~RegisterCheck(t), ~StartScanLock(t)
        PROVE  \E l : Goto(t, l) /\ (l \in Owning => pc[t] \in Owning)
    <3>1. CASE SchedTick(t) \/ Trigger(t) \/ TriggerStep(t)
      <4>1. \E l \in PC \ Owning : pc' = [pc EXCEPT ![t] = l]
        BY <2>4, <3>1 DEF SchedTick, Trigger, TriggerStep, SchedQueued, SchedWait,
                SchedStopped, SchedFree, SchedHeal, SchedDecide, TriggerLocked,
                TriggerQueued, Goto, PC, Owning, RunPC, TailPC
      <4> QED
        BY <4>1 DEF Goto
    <3>2. CASE StartStep(t)
      <4>1. \/ pc[t] \in Owning /\ \E l \in PC : pc' = [pc EXCEPT ![t] = l]
            \/ \E l \in PC \ Owning : pc' = [pc EXCEPT ![t] = l]
        BY <2>4, <3>2 DEF StartStep, StartStopped, StartBusy, StartTry, StartQueued, StartWait,
                StartRunning, RegisterRecheck, RegisterInsert, Goto, PC, Owning, RunPC, TailPC
      <4> QED
        BY <4>1 DEF Goto
    <3> QED
      BY <2>4, <3>1, <3>2
  <2>5. ASSUME NEW t \in Thread, RunStep(t)
        PROVE  \E l : Goto(t, l) /\ (l \in Owning => pc[t] \in Owning)
    <3>1. CASE Return(t)
      BY <3>1 DEF Return, AfterReturn, Owning, RunPC, TailPC
    <3>2. CASE ~Return(t)
      BY <2>5, <3>2 DEF RunStep, Banner, BodyDone, BodyNoData, BodyFails, Complete,
                CompleteSync, GuardRead, DownWrite, EndWrite, FreeScan, FreeGlobal,
                Owning, RunPC, TailPC
    <3> QED
      BY <3>1, <3>2
  <2>6. ASSUME NEW p \in Proc,
               AdminStep(p) \/ ShowCards(p) \/ BootReset(p) \/ BootCleanup(p)
        PROVE  pc' = pc
    BY <2>6 DEF AdminStep, Pause, PauseRows, Resume, ResumeCard, ShowCards, BootReset,
                BootCleanup, threadVars
  <2>7. CASE UNCHANGED vars \/ \E t \in Thread : StillQueued(t)
    BY <2>1, <2>7 DEF vars, threadVars, StillQueued
  <2> QED
    BY <2>1, <2>2, <2>3, <2>4, <2>5, <2>6, <2>7, ScanLockLetsIn, CrashLeaves
       DEF Next, TriggerStep, StartStep
<1> QED
  BY <1>1, <1>2, TypeInvariance, SafeInvariance, PTL DEF Spec, Scans!Spec
=============================================================================
