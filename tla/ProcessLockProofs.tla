-------------------------- MODULE ProcessLockProofs --------------------------
(* Proofs about ProcessLock, for every number of processes and threads. *)
EXTENDS ProcessLock, TLAPS

\* The counters are positive while somebody holds what they count, so no release
\* takes one below zero.
Counts ==
    /\ \A p \in Proc : rlOwner[p] # NoOne => rlCount[p] > 0
    /\ pgHolder # NoOne => pgCount > 0
    /\ \A t \in Thread :
          pc[t] \in {"body", "except", "finally"} \/ ret[t] \in {"body", "finally"}
          => nest[t] > 0
    /\ \A t \in Thread :
          pc[t] \notin {"force", "unlockPg", "unlockFile", "unlockThread"}
          => ret[t] = "idle"

TypeInv == TypeOK /\ Counts

\* What the first part of release() does to the fields: they keep their types, and
\* the thread either returns at once (a nested release) or goes on to unlock.
LEMMA ReleaseEffect ==
  ASSUME TypeOK, NEW t \in Thread, NEW next, Release(t, next)
  PROVE  /\ depth' \in [Proc -> Nat]
         /\ owner' \in [Proc -> Name \cup {NoOne}]
         /\ label' \in [Proc -> Scanner \cup {Unlabelled}]
         /\ UNCHANGED <<mode, cur, retries, rlVars, fileVars, pgVars>>
         /\ \/ pc' = [pc EXCEPT ![t] = next] /\ ret' = ret
            \/ pc' = [pc EXCEPT ![t] = "unlockPg"] /\ ret' = [ret EXCEPT ![t] = next]
<1> USE LockAssumption DEF TypeOK, Release, Decrement, ClearFields, Goto
<1>1. ProcOf[t] \in Proc /\ depth[ProcOf[t]] \in Nat
  OBVIOUS
<1>2. depth' \in [Proc -> Nat]
  <2>1. \A n \in Nat : (IF n = 0 THEN 0 ELSE n - 1) \in Nat
    OBVIOUS
  <2> QED
    BY <1>1, <2>1
<1>3. CASE depth[ProcOf[t]] > 1
  BY <1>1, <1>2, <1>3
<1>4. CASE ~(depth[ProcOf[t]] > 1)
  BY <1>1, <1>2, <1>4
<1> QED
  BY <1>3, <1>4

\* The type invariant: every field of the lock keeps to its range whatever faults
\* occur and whoever calls release().
THEOREM TypeInvariance == Spec => []TypeInv
<1>1. Init => TypeInv
  BY LockAssumption DEF Init, TypeInv, TypeOK, Counts, PC, Host, Name, Scanner
<1>2. TypeInv /\ [Next]_vars => TypeInv'
  <2> SUFFICES ASSUME TypeInv, [Next]_vars PROVE TypeInv'
    OBVIOUS
  <2> USE LockAssumption DEF TypeInv, TypeOK, Counts, PC, Goto, threadVars, rlVars, fieldVars, fileVars, pgVars
  <2>1. ASSUME NEW t \in Thread, Begin(t) PROVE TypeInv'
    BY <2>1 DEF Begin, StartAcquire
  <2>2. ASSUME NEW t \in Thread, Queue(t) PROVE TypeInv'
    BY <2>2 DEF Queue, StartAcquire
  <2>3. ASSUME NEW t \in Thread, TakeThreadLock(t) PROVE TypeInv'
    BY <2>3 DEF TakeThreadLock
  <2>4. ASSUME NEW t \in Thread, ThreadLockBusy(t) PROVE TypeInv'
    BY <2>4 DEF ThreadLockBusy
  <2>5. ASSUME NEW t \in Thread, TakeFileLock(t) PROVE TypeInv'
    BY <2>5 DEF TakeFileLock
  <2>6. ASSUME NEW t \in Thread, FileLockBusy(t) PROVE TypeInv'
    BY <2>6 DEF FileLockBusy
  <2>7. ASSUME NEW t \in Thread, Checkout(t) PROVE TypeInv'
    BY <2>7 DEF Checkout, FreeConn
  <2>8. ASSUME NEW t \in Thread, CheckoutFails(t) PROVE TypeInv'
    BY <2>8 DEF CheckoutFails
  <2>9. ASSUME NEW t \in Thread, PollWins(t) PROVE TypeInv'
    BY <2>9 DEF PollWins
  <2>10. ASSUME NEW t \in Thread, PollLoses(t) PROVE TypeInv'
    BY <2>10 DEF PollLoses
  <2>11. ASSUME NEW t \in Thread, Reconnect(t) PROVE TypeInv'
    BY <2>11 DEF Reconnect, FreeConn, LockWithout, CountWithout, CursorsWithout
  <2>12. ASSUME NEW t \in Thread, ReconnectFails(t) PROVE TypeInv'
    BY <2>12 DEF ReconnectFails
  <2>13. ASSUME NEW t \in Thread, Grant(t) PROVE TypeInv'
    BY <2>13 DEF Grant, CallReturns, Name, Scanner
  <2>14. ASSUME NEW t \in Thread, Refuse(t) PROVE TypeInv'
    <3>1. /\ rlOwner' \in [Proc -> Thread \cup {NoOne}]
          /\ rlCount' \in [Proc -> Nat]
          /\ \A p \in Proc : rlOwner'[p] # NoOne => rlCount'[p] > 0
      BY <2>14 DEF Refuse, ReleaseRLock
    <3>2. /\ pgHolder' \in Conn \cup {NoOne} /\ pgCount' \in Nat
          /\ pgHolder' # NoOne => pgCount' > 0
          /\ cur' \in [Thread -> Conn \cup {NoOne, Dead}]
          /\ dbConn' \in [Proc -> Conn \cup {NoOne}]
      BY <2>14 DEF Refuse, LockWithout, CountWithout, CursorsWithout
    <3>3. /\ pc[t] = "refuse" /\ ret[t] = "idle"
          /\ pc' = [pc EXCEPT ![t] = AfterRefusal(t)]
          /\ nest' = [nest EXCEPT ![t] = IF mode[t] = "wait" /\ t \in Batch /\ @ = 0
                                         THEN 1 ELSE @]
          /\ CallReturns(t)
          /\ UNCHANGED <<ret, fieldVars, fileVars>>
      BY <2>14 DEF Refuse
    <3>4. /\ AfterRefusal(t) \in {"queue", "body", "idle"}
          /\ AfterRefusal(t) = "body" => nest'[t] > 0
      BY <3>3 DEF AfterRefusal
    <3> QED
      BY <3>1, <3>2, <3>3, <3>4 DEF CallReturns
  <2>15. ASSUME NEW t \in Thread, ScanFails(t) PROVE TypeInv'
    BY <2>15 DEF ScanFails
  <2>16. ASSUME NEW t \in Thread, Finish(t) PROVE TypeInv'
    <3>1. nest[t] \in Nat /\ nest[t] > 0
      BY <2>16 DEF Finish
    <3>2. nest' = [nest EXCEPT ![t] = @ - 1] /\ nest' \in [Thread -> Nat]
      BY <2>16, <3>1 DEF Finish
    <3>3. Release(t, IF nest[t] > 1 THEN "body" ELSE "idle")
      BY <2>16 DEF Finish
    <3> QED
      BY <2>16, <3>1, <3>2, <3>3, ReleaseEffect DEF Finish
  <2>17. ASSUME NEW t \in Thread, WriteDown(t) PROVE TypeInv'
    BY <2>17 DEF WriteDown, AfterDown
  <2>18. ASSUME NEW t \in Thread, ForceRelease(t) PROVE TypeInv'
    BY <2>18 DEF ForceRelease, Decrement, ClearFields
  <2>19. ASSUME NEW t \in Thread, FinallyRelease(t) PROVE TypeInv'
    <3>1. nest[t] \in Nat /\ nest[t] > 0
      BY <2>19 DEF FinallyRelease
    <3>2. nest' = [nest EXCEPT ![t] = @ - 1] /\ nest' \in [Thread -> Nat]
      BY <2>19, <3>1 DEF FinallyRelease
    <3>3. Release(t, "wrapper")
      BY <2>19 DEF FinallyRelease
    <3>4. /\ depth' \in [Proc -> Nat]
          /\ owner' \in [Proc -> Name \cup {NoOne}]
          /\ label' \in [Proc -> Scanner \cup {Unlabelled}]
          /\ UNCHANGED <<mode, cur, retries, rlVars, fileVars, pgVars>>
      BY <3>3, ReleaseEffect
    <3>5. CASE pc' = [pc EXCEPT ![t] = "wrapper"] /\ ret' = ret
      <4>1. pc[t] = "finally" /\ ret[t] = "idle"
        BY <2>19 DEF FinallyRelease
      <4> QED
        BY <3>1, <3>2, <3>4, <3>5, <4>1
    <3>6. CASE /\ pc' = [pc EXCEPT ![t] = "unlockPg"]
               /\ ret' = [ret EXCEPT ![t] = "wrapper"]
      BY <3>1, <3>2, <3>4, <3>6
    <3> QED
      BY <3>3, <3>5, <3>6, ReleaseEffect
  <2>20. ASSUME NEW t \in Thread, UnlockPg(t) PROVE TypeInv'
    BY <2>20 DEF UnlockPg, LockWithout, CountWithout, CursorsWithout
  <2>21. ASSUME NEW t \in Thread, UnlockFile(t) PROVE TypeInv'
    BY <2>21 DEF UnlockFile
  <2>22. ASSUME NEW t \in Thread, UnlockThread(t) PROVE TypeInv'
    BY <2>22 DEF UnlockThread, ReleaseRLock
  <2>23. ASSUME NEW p \in Proc, Crash(p) PROVE TypeInv'
    BY <2>23 DEF Crash
  <2>24. ASSUME NEW c \in Conn, ConnDrop(c) PROVE TypeInv'
    BY <2>24 DEF ConnDrop, LockWithout, CountWithout, CursorsWithout
  <2>25. ASSUME NEW t \in Thread, RunRefused(t) PROVE TypeInv'
    BY <2>25 DEF RunRefused
  <2>26. CASE UNCHANGED vars
    BY <2>26 DEF vars
  <2> QED
    BY <2>1, <2>2, <2>3, <2>4, <2>5, <2>6, <2>7, <2>8, <2>9, <2>10, <2>11, <2>12,
       <2>13, <2>14, <2>15, <2>16, <2>17, <2>18, <2>19, <2>20, <2>21, <2>22, <2>23,
       <2>24, <2>25, <2>26 DEF Next, AcquireStep, ReleaseStep
<1> QED
  BY <1>1, <1>2, PTL DEF Spec

\* The type invariant of the runs: no field of the lock leaves its range.
COROLLARY TypeCorrect == Spec => []TypeOK
  BY TypeInvariance, PTL DEF TypeInv

(***************************************************************************)
(* One scanner at a time within a process, whatever the faults.            *)
(***************************************************************************)

\* No two threads of a process carry one name, as the re-entry test assumes.
DistinctNames ==
    \A t, u \in Thread : ProcOf[t] = ProcOf[u] /\ NameOf[t] = NameOf[u] => t = u

HasRLock == {"flock", "checkout", "poll", "grant", "refuse", "body"}
NotHolding == {"idle", "queue", "rlock", "flock", "checkout", "poll", "grant",
               "refuse", "wrapper"}

\* A thread between taking the RLock and its own release owns the RLock; only a
\* thread that has not released yet is named as owner, so nobody re-enters.
ThreadInv ==
    /\ \A t \in Thread : pc[t] \in HasRLock => rlOwner[ProcOf[t]] = t
    /\ \A t \in Thread : owner[ProcOf[t]] = NameOf[t]
          => pc[t] \in {"body", "except", "force", "finally"}
    /\ \A p \in Proc : depth[p] <= 1
    /\ \A t \in Thread :
          /\ nest[t] <= 1
          /\ pc[t] \in NotHolding \/ ret[t] = "wrapper" => nest[t] = 0
          /\ pc[t] \in {"force", "unlockPg", "unlockFile", "unlockThread"} /\ ret[t] = "idle"
             => nest[t] = 0
          /\ ret[t] # "body"

\* Every step keeps ThreadInv: threads with different names pass the RLock of their
\* container one at a time, whatever fails.
LEMMA ThreadInvStep ==
  ASSUME DistinctNames, Batch = {}, TypeInv, ThreadInv, [Next]_vars
  PROVE  ThreadInv'
<1> USE LockAssumption DEF TypeInv, TypeOK, Counts, ThreadInv, HasRLock, NotHolding, Goto,
                           threadVars, rlVars, fieldVars, fileVars, pgVars
<1>1. ASSUME NEW t \in Thread, Begin(t) PROVE ThreadInv'
  BY <1>1 DEF Begin, StartAcquire, Reentrant, DistinctNames
<1>2. ASSUME NEW t \in Thread, Queue(t) PROVE ThreadInv'
  BY <1>2 DEF Queue, StartAcquire, Reentrant, DistinctNames
<1>3. ASSUME NEW t \in Thread, TakeThreadLock(t) PROVE ThreadInv'
  BY <1>3 DEF TakeThreadLock
<1>4. ASSUME NEW t \in Thread, ThreadLockBusy(t) PROVE ThreadInv'
  BY <1>4 DEF ThreadLockBusy
<1>5. ASSUME NEW t \in Thread, TakeFileLock(t) PROVE ThreadInv'
  BY <1>5 DEF TakeFileLock
<1>6. ASSUME NEW t \in Thread, FileLockBusy(t) PROVE ThreadInv'
  BY <1>6 DEF FileLockBusy
<1>7. ASSUME NEW t \in Thread, Checkout(t) PROVE ThreadInv'
  BY <1>7 DEF Checkout
<1>8. ASSUME NEW t \in Thread, CheckoutFails(t) PROVE ThreadInv'
  BY <1>8 DEF CheckoutFails
<1>9. ASSUME NEW t \in Thread, PollWins(t) PROVE ThreadInv'
  BY <1>9 DEF PollWins
<1>10. ASSUME NEW t \in Thread, PollLoses(t) PROVE ThreadInv'
  BY <1>10 DEF PollLoses
<1>11. ASSUME NEW t \in Thread, Reconnect(t) PROVE ThreadInv'
  BY <1>11 DEF Reconnect
<1>12. ASSUME NEW t \in Thread, ReconnectFails(t) PROVE ThreadInv'
  BY <1>12 DEF ReconnectFails
<1>13. ASSUME NEW t \in Thread, Grant(t) PROVE ThreadInv'
  BY <1>13 DEF Grant, DistinctNames
<1>14. ASSUME NEW t \in Thread, Refuse(t) PROVE ThreadInv'
  BY <1>14 DEF Refuse, ReleaseRLock, AfterRefusal
<1>15. ASSUME NEW t \in Thread, ScanFails(t) PROVE ThreadInv'
  BY <1>15 DEF ScanFails
<1>16. ASSUME NEW t \in Thread, Finish(t) PROVE ThreadInv'
  BY <1>16 DEF Finish, Release, Decrement, ClearFields, Name
<1>17. ASSUME NEW t \in Thread, WriteDown(t) PROVE ThreadInv'
  BY <1>17 DEF WriteDown, AfterDown
<1>18. ASSUME NEW t \in Thread, ForceRelease(t) PROVE ThreadInv'
  BY <1>18 DEF ForceRelease, Decrement, ClearFields, Name
<1>19. ASSUME NEW t \in Thread, FinallyRelease(t) PROVE ThreadInv'
  BY <1>19 DEF FinallyRelease, Release, Decrement, ClearFields, Name
<1>20. ASSUME NEW t \in Thread, UnlockPg(t) PROVE ThreadInv'
  BY <1>20 DEF UnlockPg
<1>21. ASSUME NEW t \in Thread, UnlockFile(t) PROVE ThreadInv'
  BY <1>21 DEF UnlockFile
<1>22. ASSUME NEW t \in Thread, UnlockThread(t) PROVE ThreadInv'
  BY <1>22 DEF UnlockThread, ReleaseRLock
<1>23. ASSUME NEW p \in Proc, Crash(p) PROVE ThreadInv'
  BY <1>23 DEF Crash, Name
<1>24. ASSUME NEW c \in Conn, ConnDrop(c) PROVE ThreadInv'
  BY <1>24 DEF ConnDrop
<1>25. ASSUME NEW t \in Thread, RunRefused(t) PROVE ThreadInv'
  BY <1>25 DEF RunRefused
<1>26. CASE UNCHANGED vars
  BY <1>26 DEF vars
<1> QED
  BY <1>1, <1>2, <1>3, <1>4, <1>5, <1>6, <1>7, <1>8, <1>9, <1>10, <1>11, <1>12,
     <1>13, <1>14, <1>15, <1>16, <1>17, <1>18, <1>19, <1>20, <1>21, <1>22,
     <1>23, <1>24, <1>25, <1>26 DEF Next, AcquireStep, ReleaseStep

\* Whatever fails (scans, the pool, connections, processes), and although a thread may
\* release a lock it does not own, the RLock keeps the scanners of one process apart,
\* provided thread names are distinct and no thread holds the lock around start().
THEOREM ThreadExclusionHolds ==
  ASSUME DistinctNames, Batch = {}
  PROVE  Spec => []ThreadExclusion
<1>1. Init => ThreadInv
  BY LockAssumption DEF Init, ThreadInv, HasRLock, NotHolding, Name
<1>2. TypeInv /\ ThreadInv /\ [Next]_vars => ThreadInv'
  BY ThreadInvStep
<1>3. ThreadInv => ThreadExclusion
  BY DEF ThreadInv, ThreadExclusion, InBody, HasRLock
<1> QED
  BY <1>1, <1>2, <1>3, TypeInvariance, PTL DEF Spec

(***************************************************************************)
(* One scanner at a time in all processes, as long as only whole processes *)
(* fail.                                                                   *)
(***************************************************************************)

LockPath == {"flock", "checkout", "poll", "grant", "refuse", "body",
             "unlockPg", "unlockFile", "unlockThread"}
HoldsPg == {"grant", "body", "unlockPg"}

\* Every layer of the lock agrees with every other about who holds it.
HealthyInv ==
    /\ \A t \in Thread :
          /\ pc[t] \in LockPath \cup {"idle", "queue", "rlock"}
          /\ pc[t] \in LockPath => rlOwner[ProcOf[t]] = t
          /\ pc[t] = "body" => owner[ProcOf[t]] = NameOf[t] /\ depth[ProcOf[t]] = nest[t]
          /\ pc[t] # "body" => nest[t] = 0
          /\ ret[t] = "idle"
          /\ pc[t] = "refuse" => mode[t] = "try"
          /\ pc[t] = "poll" => cur[t] = dbConn[ProcOf[t]] /\ cur[t] \in Conn
          /\ pc[t] \in HoldsPg => pgHolder = dbConn[ProcOf[t]] /\ pgHolder \in Conn
    /\ \A p \in Proc :
          /\ owner[p] # NoOne => \E t \in Thread : ProcOf[t] = p /\ pc[t] = "body"
          /\ dbConn[p] # NoOne => ConnOf[dbConn[p]] = p
    /\ pgHolder = NoOne => pgCount = 0
    /\ pgHolder # NoOne =>
          /\ pgCount = 1
          /\ \E t \in Thread : pc[t] \in HoldsPg /\ dbConn[ProcOf[t]] = pgHolder

\* Every step keeps HealthyInv when nothing fails but whole containers: the lock path
\* from RLock to file lock to advisory lock is held, and given up, in order.
LEMMA HealthyInvStep ==
  ASSUME DistinctNames, Faults \subseteq {"crash"}, TypeInv, HealthyInv, [Next]_vars
  PROVE  HealthyInv'
<1> USE LockAssumption DEF TypeInv, TypeOK, Counts, HealthyInv, LockPath, HoldsPg, Goto,
                           threadVars, rlVars, fieldVars, fileVars, pgVars
<1>0. \A t, u \in Thread :
         pc[t] \in LockPath /\ pc[u] \in LockPath /\ ProcOf[t] = ProcOf[u] => t = u
  OBVIOUS
<1>1. ASSUME NEW t \in Thread, Begin(t) PROVE HealthyInv'
  <2>1. CASE pc[t] = "idle"
    <3>1. ~Reentrant(t)
      BY <2>1 DEF Reentrant, DistinctNames, Name
    <3> QED
      BY <1>0, <1>1, <2>1, <3>1 DEF Begin, StartAcquire
  <2>2. CASE pc[t] = "body"
    <3>1. Reentrant(t)
      BY <2>2 DEF Reentrant
    <3>2. /\ depth' = [depth EXCEPT ![ProcOf[t]] = @ + 1]
          /\ nest' = [nest EXCEPT ![t] = @ + 1]
          /\ pc' = pc
          /\ UNCHANGED <<mode, ret, cur, retries, rlVars, owner, label, fileVars, pgVars>>
      BY <1>1, <2>2, <3>1 DEF Begin, StartAcquire
    <3> QED
      BY <1>0, <2>2, <3>2
  <2> QED
    BY <1>1, <2>1, <2>2 DEF Begin
<1>2. ASSUME NEW t \in Thread, Queue(t) PROVE HealthyInv'
  BY <1>0, <1>2 DEF Queue, StartAcquire, Reentrant, DistinctNames, Name
<1>3. ASSUME NEW t \in Thread, TakeThreadLock(t) PROVE HealthyInv'
  BY <1>0, <1>3 DEF TakeThreadLock
<1>4. ASSUME NEW t \in Thread, ThreadLockBusy(t) PROVE HealthyInv'
  BY <1>0, <1>4 DEF ThreadLockBusy
<1>5. ASSUME NEW t \in Thread, TakeFileLock(t) PROVE HealthyInv'
  BY <1>0, <1>5 DEF TakeFileLock
<1>6. ASSUME NEW t \in Thread, FileLockBusy(t) PROVE HealthyInv'
  BY <1>0, <1>6 DEF FileLockBusy
<1>7. ASSUME NEW t \in Thread, Checkout(t) PROVE HealthyInv'
  BY <1>0, <1>7 DEF Checkout, FreeConn
<1>8. ASSUME NEW t \in Thread, CheckoutFails(t) PROVE HealthyInv'
  BY <1>0, <1>8 DEF CheckoutFails
<1>9. ASSUME NEW t \in Thread, PollWins(t) PROVE HealthyInv'
  BY <1>0, <1>9 DEF PollWins
<1>10. ASSUME NEW t \in Thread, PollLoses(t) PROVE HealthyInv'
  BY <1>0, <1>10 DEF PollLoses
<1>11. ASSUME NEW t \in Thread, Reconnect(t) PROVE HealthyInv'
  BY <1>0, <1>11 DEF Reconnect
<1>12. ASSUME NEW t \in Thread, ReconnectFails(t) PROVE HealthyInv'
  BY <1>0, <1>12 DEF ReconnectFails
<1>13. ASSUME NEW t \in Thread, Grant(t) PROVE HealthyInv'
  BY <1>0, <1>13 DEF Grant, CallReturns
<1>14. ASSUME NEW t \in Thread, Refuse(t) PROVE HealthyInv'
  BY <1>0, <1>14 DEF Refuse, CallReturns, ReleaseRLock, AfterRefusal, LockWithout, CountWithout, CursorsWithout
<1>15. ASSUME NEW t \in Thread, ScanFails(t) PROVE HealthyInv'
  BY <1>0, <1>15 DEF ScanFails
<1>16. ASSUME NEW t \in Thread, Finish(t) PROVE HealthyInv'
  <2>1. /\ pc[t] = "body" /\ nest' = [nest EXCEPT ![t] = @ - 1]
        /\ depth[ProcOf[t]] = nest[t] /\ nest[t] \in Nat /\ nest[t] > 0
        /\ UNCHANGED <<mode, cur, retries, rlVars, fileVars, pgVars>>
    BY <1>16 DEF Finish, Release
  <2>2. CASE nest[t] > 1
    <3>1. /\ pc' = [pc EXCEPT ![t] = "body"]
          /\ UNCHANGED <<ret, owner, label>>
          /\ depth' = [depth EXCEPT ![ProcOf[t]] = IF @ = 0 THEN 0 ELSE @ - 1]
      <4>1. depth[ProcOf[t]] > 1
        BY <2>1, <2>2
      <4>2. Release(t, "body")
        BY <1>16, <2>2 DEF Finish
      <4> QED
        BY <2>1, <4>1, <4>2 DEF Release, Decrement
    <3> QED
      BY <1>0, <2>1, <2>2, <3>1
  <2>3. CASE nest[t] = 1
    <3>1. /\ pc' = [pc EXCEPT ![t] = "unlockPg"]
          /\ ret' = [ret EXCEPT ![t] = "idle"]
          /\ owner' = [owner EXCEPT ![ProcOf[t]] = NoOne]
          /\ depth' = [depth EXCEPT ![ProcOf[t]] = 0]
      BY <1>16, <2>1, <2>3 DEF Finish, Release, Decrement, ClearFields
    <3> QED
      BY <1>0, <2>1, <2>3, <3>1
  <2> QED
    BY <2>1, <2>2, <2>3
<1>17. ASSUME NEW t \in Thread, WriteDown(t) PROVE HealthyInv'
  BY <1>0, <1>17 DEF WriteDown
<1>18. ASSUME NEW t \in Thread, ForceRelease(t) PROVE HealthyInv'
  BY <1>0, <1>18 DEF ForceRelease
<1>19. ASSUME NEW t \in Thread, FinallyRelease(t) PROVE HealthyInv'
  BY <1>0, <1>19 DEF FinallyRelease
<1>20. ASSUME NEW t \in Thread, UnlockPg(t) PROVE HealthyInv'
  BY <1>0, <1>20 DEF UnlockPg, LockWithout, CountWithout, CursorsWithout
<1>21. ASSUME NEW t \in Thread, UnlockFile(t) PROVE HealthyInv'
  BY <1>0, <1>21 DEF UnlockFile
<1>22. ASSUME NEW t \in Thread, UnlockThread(t) PROVE HealthyInv'
  BY <1>0, <1>22 DEF UnlockThread, ReleaseRLock
<1>23. ASSUME NEW p \in Proc, Crash(p) PROVE HealthyInv'
  BY <1>0, <1>23 DEF Crash
<1>24. ASSUME NEW c \in Conn, ConnDrop(c) PROVE HealthyInv'
  BY <1>24 DEF ConnDrop
<1>25. ASSUME NEW t \in Thread, RunRefused(t) PROVE HealthyInv'
  BY <1>25 DEF RunRefused
<1>26. CASE UNCHANGED vars
  BY <1>26 DEF vars
<1> QED
  BY <1>1, <1>2, <1>3, <1>4, <1>5, <1>6, <1>7, <1>8, <1>9, <1>10, <1>11, <1>12,
     <1>13, <1>14, <1>15, <1>16, <1>17, <1>18, <1>19, <1>20, <1>21, <1>22,
     <1>23, <1>24, <1>25, <1>26 DEF Next, AcquireStep, ReleaseStep

\* As long as scans return, the pool gives a connection and the session of the holder
\* lives, at most one scanner runs in all containers together, crashes included.
THEOREM ExclusionHolds ==
  ASSUME DistinctNames, Faults \subseteq {"crash"}
  PROVE  Spec => []Exclusion
<1>1. Init => HealthyInv
  BY LockAssumption DEF Init, HealthyInv, LockPath, HoldsPg
<1>2. TypeInv /\ HealthyInv /\ [Next]_vars => HealthyInv'
  BY HealthyInvStep
<1>3. TypeInv /\ HealthyInv => Exclusion
  <2> SUFFICES ASSUME TypeInv, HealthyInv, NEW t \in Thread, NEW u \in Thread,
                      InBody(t), InBody(u)
               PROVE  t = u
    BY DEF Exclusion
  <2>1. pgHolder \in Conn /\ pgHolder = dbConn[ProcOf[t]] /\ pgHolder = dbConn[ProcOf[u]]
    BY DEF HealthyInv, HoldsPg, InBody
  <2>2. ProcOf[t] = ProcOf[u]
    <3>1. ProcOf[t] \in Proc /\ ProcOf[u] \in Proc /\ pgHolder # NoOne
      BY <2>1, LockAssumption
    <3>2. \A p \in Proc : dbConn[p] # NoOne => ConnOf[dbConn[p]] = p
      BY DEF HealthyInv
    <3>3. ConnOf[pgHolder] = ProcOf[t] /\ ConnOf[pgHolder] = ProcOf[u]
      BY <2>1, <3>1, <3>2
    <3> QED
      BY <3>3
  <2> QED
    BY <2>2 DEF HealthyInv, LockPath, InBody
<1> QED
  BY <1>1, <1>2, <1>3, TypeInvariance, PTL DEF Spec

\* Under the same assumptions the advisory lock always belongs to a lock object that
\* will unlock it.
THEOREM NoStrandedPgLockHolds ==
  ASSUME DistinctNames, Faults \subseteq {"crash"}
  PROVE  Spec => []NoStrandedPgLock
<1>1. Init => HealthyInv
  BY LockAssumption DEF Init, HealthyInv, LockPath, HoldsPg
<1>2. TypeInv /\ HealthyInv /\ [Next]_vars => HealthyInv'
  BY HealthyInvStep
<1>3. HealthyInv => NoStrandedPgLock
  BY LockAssumption DEF HealthyInv, NoStrandedPgLock
<1> QED
  BY <1>1, <1>2, <1>3, TypeInvariance, PTL DEF Spec

\* Under the same assumptions locked() is true while a scan of the process runs, so the
\* watchdog (database.py:4016) does not take its card for that of a stuck scan.
THEOREM LockedWhileRunningHolds ==
  ASSUME DistinctNames, Faults \subseteq {"crash"}
  PROVE  Spec => []LockedWhileRunning
<1>1. Init => HealthyInv
  BY LockAssumption DEF Init, HealthyInv, LockPath, HoldsPg
<1>2. TypeInv /\ HealthyInv /\ [Next]_vars => HealthyInv'
  BY HealthyInvStep
<1>3. HealthyInv => LockedWhileRunning
  BY LockAssumption DEF HealthyInv, LockedWhileRunning, InBody, Name
<1> QED
  BY <1>1, <1>2, <1>3, TypeInvariance, PTL DEF Spec

\* A step moves one thread, or sends all threads of a process that crashes to idle.
LEMMA OneMoves ==
  ASSUME TypeInv, [Next]_vars
  PROVE  \/ \E t \in Thread : \A u \in Thread : u # t => pc'[u] = pc[u]
         \/ \A u \in Thread : pc'[u] \in {pc[u], "idle"}
<1> USE DEF TypeInv, TypeOK, Goto
<1>1. ASSUME NEW t \in Thread, Begin(t) \/ Queue(t)
      PROVE  \A u \in Thread : u # t => pc'[u] = pc[u]
  BY <1>1 DEF Begin, Queue, StartAcquire
<1>2. ASSUME NEW t \in Thread, AcquireStep(t)
      PROVE  \A u \in Thread : u # t => pc'[u] = pc[u]
  BY <1>2 DEF AcquireStep, TakeThreadLock, ThreadLockBusy, TakeFileLock, FileLockBusy,
              Checkout, CheckoutFails, PollWins, PollLoses, Reconnect, ReconnectFails,
              Grant, Refuse
<1>3. ASSUME NEW t \in Thread, ReleaseStep(t)
      PROVE  \A u \in Thread : u # t => pc'[u] = pc[u]
  BY <1>3 DEF ReleaseStep, Finish, WriteDown, ForceRelease, FinallyRelease, Release,
              ClearFields, UnlockPg, UnlockFile, UnlockThread
<1>4. ASSUME NEW t \in Thread, ScanFails(t) \/ RunRefused(t)
      PROVE  \A u \in Thread : u # t => pc'[u] = pc[u]
  BY <1>4 DEF ScanFails, RunRefused
<1>5. ASSUME NEW p \in Proc, Crash(p)
      PROVE  \A u \in Thread : pc'[u] \in {pc[u], "idle"}
  BY <1>5 DEF Crash
<1>6. ASSUME NEW c \in Conn, ConnDrop(c)
      PROVE  \A u \in Thread : pc'[u] \in {pc[u], "idle"}
  BY <1>6 DEF ConnDrop
<1>7. CASE UNCHANGED vars
  BY <1>7 DEF vars, threadVars
<1> QED
  BY <1>1, <1>2, <1>3, <1>4, <1>5, <1>6, <1>7 DEF Next

Running == {t \in Thread : InBody(t)}

\* Under the same assumptions the three locks together implement one abstract mutex: no
\* scanner enters while another runs, not even in the step in which that one leaves.
THEOREM LockImplementsMutex ==
  ASSUME DistinctNames, Faults \subseteq {"crash"}
  PROVE  Spec => RefinesMutex
<1>1. Init => Mutex!Init
  BY DEF Init, Mutex!Init, InBody
<1>2. TypeInv /\ Exclusion /\ Exclusion' /\ [Next]_vars => [Mutex!Next]_Running
  <2> SUFFICES ASSUME TypeInv, Exclusion, Exclusion', [Next]_vars, Running' # Running
               PROVE  \E t \in Thread : Mutex!Enter(t) \/ Mutex!Leave(t)
    BY DEF Mutex!Next
  <2>1. \A t \in Running : Running = {t}
    BY DEF Running, Exclusion
  <2>2. \A t \in Running' : Running' = {t}
    BY DEF Running, Exclusion, InBody
  <2>3. Running \subseteq Thread /\ Running' \subseteq Thread
    BY DEF Running
  <2>4. CASE Running = {}
    <3>1. PICK t \in Thread : Running' = {t}
      BY <2>2, <2>3, <2>4
    <3> QED
      BY <2>4, <3>1 DEF Mutex!Enter, Running
  <2>5. CASE Running # {}
    <3>1. PICK t \in Thread : Running = {t}
      BY <2>1, <2>3, <2>5
    <3>2. \A u \in Running' : u = t
      <4>1. SUFFICES ASSUME NEW u \in Running', u # t PROVE FALSE
        OBVIOUS
      <4>2. u \in Thread /\ pc'[u] = "body" /\ pc[u] # "body" /\ pc[t] = "body" /\ pc'[t] # "body"
        BY <3>1, <4>1, <2>2 DEF Running, InBody
      <4> QED
        BY <4>1, <4>2, OneMoves
    <3>3. Running' = Running \ {t}
      BY <3>1, <3>2
    <3> QED
      BY <3>1, <3>3 DEF Mutex!Leave, Running
  <2> QED
    BY <2>4, <2>5
<1> QED
  BY <1>1, <1>2, ExclusionHolds, TypeInvariance, PTL DEF Spec, RefinesMutex, Mutex!Spec, Running

=============================================================================
