---------------------------- MODULE ProcessLock ----------------------------
(***************************************************************************)
(* app/lock_utils.py: ProcessLock("global_scanner_lock") and the scanner   *)
(* wrappers that use it (eod_scanner.start and its siblings).              *)
(*                                                                         *)
(* One lock object lives in every process.  acquire() takes, in this       *)
(* order, a threading.RLock, a flock on data/<name>.lock and a Postgres    *)
(* advisory lock on a connection checked out of the pool.  Its bookkeeping *)
(* fields are shared by the threads of the process, and release() may be   *)
(* called by a thread that does not own the lock.                          *)
(*                                                                         *)
(* Abstracted: logging, notifications, heartbeats and the durations of the *)
(* waits.  No caller of the lock passes a timeout, so a blocking acquire   *)
(* waits for ever.  is_acquired and _owner_thread are set and cleared by   *)
(* the same two critical sections, so owner[p] # NoOne stands for both.    *)
(* A connection that was closed and one that is idle in the pool are the   *)
(* same value: either can be checked out, and neither holds a lock unless  *)
(* pgHolder says so.                                                       *)
(***************************************************************************)
EXTENDS Integers, FiniteSets

CONSTANTS
    Proc,        \* containers: each runs one copy of app/main.py
    Thread,      \* the threads that run scanners
    Conn,        \* Postgres connections
    ProcOf,      \* [Thread -> Proc]
    NameOf,      \* thread -> threading.current_thread().name
    ScannerOf,   \* thread -> the scanner it runs (owner_scanner)
    Batch,       \* threads that hold the lock unlabelled around start() calls
    ConnOf,      \* [Conn -> Proc]: the pool a connection belongs to
    HostOf,      \* [Proc -> host]: processes of one host share the lock file
    Faults,      \* what may go wrong, a subset of AllFaults
    MaxRetries,  \* _lock_conn_max_retries
    MaxDepth,    \* bound on the re-entries of a thread that leaked the lock
    MaxPgCount,  \* bound on the nesting of one session's advisory lock
    NoOne        \* None

AllFaults == {"crash", "scanFails", "poolDown", "connDrop", "runRefused"}

Unlabelled == "UNKNOWN"          \* the default of owner_scanner
Dead == "dead"                   \* a cursor whose connection was closed
Name == {NameOf[t] : t \in Thread}
Scanner == {ScannerOf[t] : t \in Thread}
Host == {HostOf[p] : p \in Proc}

ASSUME LockAssumption ==
    /\ ProcOf \in [Thread -> Proc]
    /\ ConnOf \in [Conn -> Proc]
    /\ Batch \subseteq Thread
    /\ Faults \subseteq AllFaults
    /\ MaxRetries \in Nat /\ MaxDepth \in Nat /\ MaxPgCount \in Nat \ {0}
    /\ NoOne \notin Proc \cup Thread \cup Conn \cup Name
    /\ Dead \notin Conn \cup {NoOne}
    /\ Unlabelled \notin Scanner

VARIABLES
    pc,          \* [Thread -> where the thread is in start() / acquire() / release()]
    mode,        \* [Thread -> "try" (non-blocking) or "wait" (blocking)]
    nest,        \* [Thread -> acquisitions it still has to give back]
    ret,         \* [Thread -> pc to resume at when release() returns]
    cur,         \* [Thread -> connection of the cursor it polls with]
    retries,     \* [Thread -> _lock_conn_retries]
    rlOwner,     \* [Proc -> thread that owns thread_lock]
    rlCount,     \* [Proc -> recursion count of thread_lock]
    owner,       \* [Proc -> _owner_thread, a thread NAME]
    label,       \* [Proc -> lock_owner_scanner]
    depth,       \* [Proc -> _recursion_depth, every value below 1 being 0]
    dbConn,      \* [Proc -> db_conn]
    fdOpen,      \* [Proc -> lock_fd is not None]
    flockHolder, \* [Host -> process that holds the file lock]
    pgHolder,    \* the session that holds the advisory lock
    pgCount      \* how many times that session holds it

threadVars == <<pc, mode, nest, ret, cur, retries>>
rlVars     == <<rlOwner, rlCount>>
fieldVars  == <<owner, label, depth>>
fileVars   == <<fdOpen, flockHolder>>
pgVars     == <<dbConn, pgHolder, pgCount>>
vars == <<threadVars, rlVars, fieldVars, fileVars, pgVars>>

PC == {"idle", "queue", "rlock", "flock", "checkout", "poll", "grant", "refuse",
       "body", "except", "force", "finally", "wrapper",
       "unlockPg", "unlockFile", "unlockThread"}

TypeOK ==
    /\ pc \in [Thread -> PC]
    /\ mode \in [Thread -> {"try", "wait"}]
    /\ nest \in [Thread -> Nat]
    /\ ret \in [Thread -> {"idle", "body", "finally", "wrapper"}]
    /\ cur \in [Thread -> Conn \cup {NoOne, Dead}]
    /\ retries \in [Thread -> Nat]
    /\ rlOwner \in [Proc -> Thread \cup {NoOne}]
    /\ rlCount \in [Proc -> Nat]
    /\ owner \in [Proc -> Name \cup {NoOne}]
    /\ label \in [Proc -> Scanner \cup {Unlabelled}]
    /\ depth \in [Proc -> Nat]
    /\ dbConn \in [Proc -> Conn \cup {NoOne}]
    /\ fdOpen \in [Proc -> BOOLEAN]
    /\ flockHolder \in [Host -> Proc \cup {NoOne}]
    /\ pgHolder \in Conn \cup {NoOne}
    /\ pgCount \in Nat

Init ==
    /\ pc = [t \in Thread |-> "idle"]
    /\ mode = [t \in Thread |-> "try"]
    /\ nest = [t \in Thread |-> 0]
    /\ ret = [t \in Thread |-> "idle"]
    /\ cur = [t \in Thread |-> NoOne]
    /\ retries = [t \in Thread |-> 0]
    /\ rlOwner = [p \in Proc |-> NoOne]
    /\ rlCount = [p \in Proc |-> 0]
    /\ owner = [p \in Proc |-> NoOne]
    /\ label = [p \in Proc |-> Unlabelled]
    /\ depth = [p \in Proc |-> 0]
    /\ dbConn = [p \in Proc |-> NoOne]
    /\ fdOpen = [p \in Proc |-> FALSE]
    /\ flockHolder = [h \in Host |-> NoOne]
    /\ pgHolder = NoOne
    /\ pgCount = 0

Goto(t, l) == pc' = [pc EXCEPT ![t] = l]

(***************************************************************************)
(* acquire()                                                               *)
(***************************************************************************)

\* Mutant of Reentrant: the owner is not compared at all.
ReentrantForAll(t) == depth[ProcOf[t]] > 0

\* The re-entry test compares thread names, not thread identities.
Reentrant(t) == owner[ProcOf[t]] = NameOf[t] /\ depth[ProcOf[t]] > 0

\* The call itself: either a re-entry, or the thread goes for the RLock.
StartAcquire(t, m) ==
    \/ /\ Reentrant(t)
       /\ depth' = [depth EXCEPT ![ProcOf[t]] = @ + 1]
       /\ nest' = [nest EXCEPT ![t] = @ + 1]
       /\ Goto(t, "body")
       /\ UNCHANGED <<mode, ret, cur, retries, rlVars, owner, label, fileVars, pgVars>>
    \/ /\ ~Reentrant(t)
       /\ mode' = [mode EXCEPT ![t] = m]
       /\ Goto(t, "rlock")
       /\ UNCHANGED <<nest, ret, cur, retries, rlVars, fieldVars, fileVars, pgVars>>

\* start() tries without blocking; a batch thread does it again, inside its own hold.
Begin(t) ==
    /\ pc[t] = "idle" \/ (pc[t] = "body" /\ t \in Batch /\ nest[t] = 1)
    /\ StartAcquire(t, "try")

\* start(): the lock was busy, health is QUEUED, and the blocking call follows.
Queue(t) == pc[t] = "queue" /\ StartAcquire(t, "wait")

TakeThreadLock(t) ==
    LET p == ProcOf[t] IN
    /\ pc[t] = "rlock"
    /\ rlOwner[p] \in {NoOne, t}
    /\ rlOwner' = [rlOwner EXCEPT ![p] = t]
    /\ rlCount' = [rlCount EXCEPT ![p] = @ + 1]
    /\ Goto(t, "flock")
    /\ UNCHANGED <<mode, nest, ret, cur, retries, fieldVars, fileVars, pgVars>>

\* A non-blocking call returns False here with nothing to clean up.
ThreadLockBusy(t) ==
    /\ pc[t] = "rlock"
    /\ mode[t] = "try"
    /\ rlOwner[ProcOf[t]] \notin {NoOne, t}
    /\ Goto(t, "queue")
    /\ UNCHANGED <<mode, nest, ret, cur, retries, rlVars, fieldVars, fileVars, pgVars>>

\* flock(2) belongs to the open file, so a process that kept it gets it again.
TakeFileLock(t) ==
    LET p == ProcOf[t] IN
    /\ pc[t] = "flock"
    /\ flockHolder[HostOf[p]] \in {NoOne, p}
    /\ fdOpen' = [fdOpen EXCEPT ![p] = TRUE]
    /\ flockHolder' = [flockHolder EXCEPT ![HostOf[p]] = p]
    /\ Goto(t, "checkout")
    /\ UNCHANGED <<mode, nest, ret, cur, retries, rlVars, fieldVars, pgVars>>

FileLockBusy(t) ==
    LET p == ProcOf[t] IN
    /\ pc[t] = "flock"
    /\ mode[t] = "try"
    /\ flockHolder[HostOf[p]] \notin {NoOne, p}
    /\ fdOpen' = [fdOpen EXCEPT ![p] = TRUE]
    /\ Goto(t, "refuse")
    /\ UNCHANGED <<mode, nest, ret, cur, retries, rlVars, fieldVars, flockHolder, pgVars>>

FreeConn(p) == {c \in Conn : ConnOf[c] = p /\ c # dbConn[p]}

\* Check out the lock connection and open the cursor that polls on it.
Checkout(t) ==
    LET p == ProcOf[t] IN
    /\ pc[t] = "checkout"
    /\ \E c \in (IF dbConn[p] = NoOne THEN FreeConn(p) ELSE {dbConn[p]}) :
          /\ dbConn' = [dbConn EXCEPT ![p] = c]
          /\ cur' = [cur EXCEPT ![t] = c]
    /\ Goto(t, "poll")
    /\ UNCHANGED <<mode, nest, ret, retries, rlVars, fieldVars, fileVars, pgHolder, pgCount>>

\* "Could not checkout lock connection": db_conn stays None and the advisory
\* lock is skipped.
CheckoutFails(t) ==
    /\ "poolDown" \in Faults
    /\ pc[t] = "checkout"
    /\ dbConn[ProcOf[t]] = NoOne
    /\ Goto(t, "grant")
    /\ UNCHANGED <<mode, nest, ret, cur, retries, rlVars, fieldVars, fileVars, pgVars>>

\* Mutant of PollWins: the result of pg_try_advisory_lock is ignored.
PollWinsBlind(t) ==
    /\ pc[t] = "poll"
    /\ cur[t] \in Conn
    /\ pgHolder' = cur[t]
    /\ pgCount' = 1
    /\ Goto(t, "grant")
    /\ UNCHANGED <<mode, nest, ret, cur, retries, rlVars, fieldVars, fileVars, dbConn>>

\* pg_try_advisory_lock returns true: advisory locks nest within a session.
PollWins(t) ==
    /\ pc[t] = "poll"
    /\ cur[t] \in Conn
    /\ pgHolder \in {NoOne, cur[t]}
    /\ pgCount < MaxPgCount
    /\ pgHolder' = cur[t]
    /\ pgCount' = pgCount + 1
    /\ Goto(t, "grant")
    /\ UNCHANGED <<mode, nest, ret, cur, retries, rlVars, fieldVars, fileVars, dbConn>>

\* It returns false: a blocking call sleeps and polls again, the other gives up.
PollLoses(t) ==
    /\ pc[t] = "poll"
    /\ mode[t] = "try"
    /\ cur[t] \in Conn
    /\ pgHolder \notin {NoOne, cur[t]}
    /\ Goto(t, "refuse")
    /\ UNCHANGED <<mode, nest, ret, cur, retries, rlVars, fieldVars, fileVars, pgVars>>

\* Mutant of CountWithout: one unlock is counted whoever holds the lock.
CountDown(c) == pgCount' = pgCount - 1

\* Closing a session frees its advisory lock and breaks every cursor on it.
LockWithout(c)  == pgHolder' = (IF pgHolder = c THEN NoOne ELSE pgHolder)
CountWithout(c) == pgCount' = (IF pgHolder = c THEN 0 ELSE pgCount)
CursorsWithout(c) == [t \in Thread |-> IF cur[t] = c /\ c # NoOne THEN Dead ELSE cur[t]]

\* The poll raised: discard the connection and go on with a fresh one.
Reconnect(t) ==
    LET p == ProcOf[t]
        c == dbConn[p] IN
    /\ pc[t] = "poll"
    /\ cur[t] = Dead
    /\ retries[t] < MaxRetries
    /\ retries' = [retries EXCEPT ![t] = @ + 1]
    /\ LockWithout(c) /\ CountWithout(c)
    /\ \E d \in {d \in Conn : ConnOf[d] = p} :
          /\ dbConn' = [dbConn EXCEPT ![p] = d]
          /\ cur' = [CursorsWithout(c) EXCEPT ![t] = d]
    /\ UNCHANGED <<pc, mode, nest, ret, rlVars, fieldVars, fileVars>>

\* Out of retries, or the pool has no connection to give.
ReconnectFails(t) ==
    /\ pc[t] = "poll"
    /\ cur[t] = Dead
    /\ retries[t] >= MaxRetries \/ "poolDown" \in Faults
    /\ Goto(t, "refuse")
    /\ UNCHANGED <<mode, nest, ret, cur, retries, rlVars, fieldVars, fileVars, pgVars>>

\* The local variables of acquire() end with the call.
CallReturns(t) ==
    /\ mode' = [mode EXCEPT ![t] = "try"]
    /\ retries' = [retries EXCEPT ![t] = 0]

\* The success path: the fields are set under _internal_lock.
Grant(t) ==
    LET p == ProcOf[t] IN
    /\ pc[t] = "grant"
    /\ owner' = [owner EXCEPT ![p] = NameOf[t]]
    /\ label' = [label EXCEPT ![p] = IF t \in Batch /\ nest[t] = 0
                                     THEN Unlabelled ELSE ScannerOf[t]]
    /\ depth' = [depth EXCEPT ![p] = 1]
    /\ nest' = [nest EXCEPT ![t] = @ + 1]
    /\ CallReturns(t)
    /\ cur' = [cur EXCEPT ![t] = NoOne]
    /\ Goto(t, "body")
    /\ UNCHANGED <<ret, rlVars, fileVars, pgVars>>

\* Mutant of ReleaseRLock: a plain Lock, which any thread may release.
ReleaseAnyLock(t) ==
    /\ rlOwner' = [rlOwner EXCEPT ![ProcOf[t]] = NoOne]
    /\ rlCount' = [rlCount EXCEPT ![ProcOf[t]] = 0]

ReleaseRLock(t) ==
    LET p == ProcOf[t] IN
    IF rlOwner[p] = t
    THEN /\ rlOwner' = [rlOwner EXCEPT ![p] = IF rlCount[p] > 1 THEN t ELSE NoOne]
         /\ rlCount' = [rlCount EXCEPT ![p] = @ - 1]
    ELSE UNCHANGED rlVars        \* "cannot release un-acquired lock", swallowed

\* Where a refused call leaves the caller: start() queues after a refused try and
\* returns after a refused wait; the batch code ignores the result of its own wait.
AfterRefusal(t) ==
    CASE mode[t] = "try" -> "queue"
      [] mode[t] = "wait" /\ (t \in Batch \/ nest[t] > 0) -> "body"
      [] OTHER -> "idle"

\* The failure path closes the connection and frees the RLock.  It neither
\* unlocks nor closes the lock file.
Refuse(t) ==
    LET p == ProcOf[t]
        c == dbConn[p] IN
    /\ pc[t] = "refuse"
    /\ dbConn' = [dbConn EXCEPT ![p] = NoOne]
    /\ LockWithout(c) /\ CountWithout(c)
    /\ cur' = [CursorsWithout(c) EXCEPT ![t] = NoOne]
    /\ ReleaseRLock(t)
    /\ Goto(t, AfterRefusal(t))
    /\ nest' = [nest EXCEPT ![t] = IF mode[t] = "wait" /\ t \in Batch /\ @ = 0
                                   THEN 1 ELSE @]
    /\ CallReturns(t)
    /\ UNCHANGED <<ret, fieldVars, fileVars>>

(***************************************************************************)
(* release(force)                                                          *)
(***************************************************************************)

\* First part, under _internal_lock.  The caller is not checked to be the owner.
Decrement(t) == depth' = [depth EXCEPT ![ProcOf[t]] = IF @ = 0 THEN 0 ELSE @ - 1]

ClearFields(t, next) ==
    /\ Goto(t, "unlockPg")
    /\ ret' = [ret EXCEPT ![t] = next]
    /\ owner' = [owner EXCEPT ![ProcOf[t]] = NoOne]
    /\ label' = [label EXCEPT ![ProcOf[t]] = Unlabelled]

\* Mutant of Release: it does not stop at a nested release.
ReleaseAtOnce(t, next) ==
    /\ Decrement(t)
    /\ ClearFields(t, next)
    /\ UNCHANGED <<mode, cur, retries, rlVars, fileVars, pgVars>>

\* release(): a nested release only counts down.
Release(t, next) ==
    /\ Decrement(t)
    /\ IF depth[ProcOf[t]] > 1
       THEN Goto(t, next) /\ UNCHANGED <<ret, owner, label>>
       ELSE ClearFields(t, next)
    /\ UNCHANGED <<mode, cur, retries, rlVars, fileVars, pgVars>>

\* Mutant of UnlockPg: the connection goes back to the pool still holding the lock.
UnlockPgForgotten(t) ==
    /\ pc[t] = "unlockPg"
    /\ dbConn' = [dbConn EXCEPT ![ProcOf[t]] = NoOne]
    /\ Goto(t, "unlockFile")
    /\ UNCHANGED <<mode, nest, ret, cur, retries, rlVars, fieldVars, fileVars, pgHolder, pgCount>>

\* _cleanup_db_conn(): unlock, then back to the pool, which may close it.
UnlockPg(t) ==
    LET p == ProcOf[t]
        c == dbConn[p]
        mine == c # NoOne /\ pgHolder = c IN
    /\ pc[t] = "unlockPg"
    /\ dbConn' = [dbConn EXCEPT ![p] = NoOne]
    /\ \/ /\ pgHolder' = IF mine /\ pgCount = 1 THEN NoOne ELSE pgHolder
          /\ pgCount' = IF mine THEN pgCount - 1 ELSE pgCount
          /\ UNCHANGED cur
       \/ /\ c # NoOne
          /\ LockWithout(c) /\ CountWithout(c)
          /\ cur' = CursorsWithout(c)
    /\ Goto(t, "unlockFile")
    /\ UNCHANGED <<mode, nest, ret, retries, rlVars, fieldVars, fileVars>>

UnlockFile(t) ==
    LET p == ProcOf[t]
        h == HostOf[p] IN
    /\ pc[t] = "unlockFile"
    /\ fdOpen' = [fdOpen EXCEPT ![p] = FALSE]
    /\ flockHolder' = [flockHolder EXCEPT
                         ![h] = IF fdOpen[p] /\ @ = p THEN NoOne ELSE @]
    /\ Goto(t, "unlockThread")
    /\ UNCHANGED <<mode, nest, ret, cur, retries, rlVars, fieldVars, pgVars>>

UnlockThread(t) ==
    /\ pc[t] = "unlockThread"
    /\ ReleaseRLock(t)
    /\ Goto(t, ret[t])
    /\ ret' = [ret EXCEPT ![t] = "idle"]
    /\ UNCHANGED <<mode, nest, cur, retries, fieldVars, fileVars, pgVars>>

(***************************************************************************)
(* The scanner wrapper around the lock                                     *)
(***************************************************************************)

\* The scan returned: the finally block gives the lock back.
Finish(t) ==
    /\ pc[t] = "body"
    /\ nest' = [nest EXCEPT ![t] = @ - 1]
    /\ Release(t, IF nest[t] > 1 THEN "body" ELSE "idle")

\* The scan raised an exception (inside start(), not inside the batch code).
ScanFails(t) ==
    /\ "scanFails" \in Faults
    /\ pc[t] = "body"
    /\ nest[t] = (IF t \in Batch THEN 2 ELSE 1)
    /\ Goto(t, "except")
    /\ UNCHANGED <<mode, nest, ret, cur, retries, rlVars, fieldVars, fileVars, pgVars>>

\* _run_multibagger_scanner_single: start_scanner_execution_run raises after the lock
\* was taken and before the try block that would release it.
RunRefused(t) ==
    /\ "runRefused" \in Faults
    /\ pc[t] = "body" /\ t \in Batch /\ nest[t] = 1
    /\ depth[ProcOf[t]] < MaxDepth
    /\ nest' = [nest EXCEPT ![t] = 0]
    /\ Goto(t, "idle")
    /\ UNCHANGED <<mode, ret, cur, retries, rlVars, fieldVars, fileVars, pgVars>>

\* upsert_scanner_health(DOWN), by the except clause of start() and again by the
\* trigger that called it, ends in release_global_lock_if_held_by: a test ...
AfterDown(t) == IF pc[t] = "except" THEN "finally"
                ELSE IF nest[t] = 0 THEN "idle" ELSE "body"

WriteDown(t) ==
    LET p == ProcOf[t] IN
    /\ pc[t] \in {"except", "wrapper"}
    /\ IF owner[p] # NoOne /\ label[p] = ScannerOf[t]
       THEN Goto(t, "force") /\ ret' = [ret EXCEPT ![t] = AfterDown(t)]
       ELSE Goto(t, AfterDown(t)) /\ UNCHANGED ret
    /\ UNCHANGED <<mode, nest, cur, retries, rlVars, fieldVars, fileVars, pgVars>>

\* ... and then, separately, release(force=True) of whoever holds it by now.
ForceRelease(t) ==
    /\ pc[t] = "force"
    /\ Decrement(t)
    /\ ClearFields(t, ret[t])
    /\ UNCHANGED <<mode, nest, cur, retries, rlVars, fileVars, pgVars>>

\* The finally clause releases once more, knowing only that it acquired once.
FinallyRelease(t) ==
    /\ pc[t] = "finally"
    /\ nest' = [nest EXCEPT ![t] = @ - 1]
    /\ Release(t, "wrapper")

(***************************************************************************)
(* The environment                                                         *)
(***************************************************************************)

\* The process dies; start.sh starts it again with every thread idle.
Crash(p) ==
    LET mine == {t \in Thread : ProcOf[t] = p}
        held == pgHolder # NoOne /\ ConnOf[pgHolder] = p IN
    /\ "crash" \in Faults
    /\ pc' = [t \in Thread |-> IF t \in mine THEN "idle" ELSE pc[t]]
    /\ mode' = [t \in Thread |-> IF t \in mine THEN "try" ELSE mode[t]]
    /\ nest' = [t \in Thread |-> IF t \in mine THEN 0 ELSE nest[t]]
    /\ ret' = [t \in Thread |-> IF t \in mine THEN "idle" ELSE ret[t]]
    /\ cur' = [t \in Thread |-> IF t \in mine THEN NoOne ELSE cur[t]]
    /\ retries' = [t \in Thread |-> IF t \in mine THEN 0 ELSE retries[t]]
    /\ rlOwner' = [rlOwner EXCEPT ![p] = NoOne]
    /\ rlCount' = [rlCount EXCEPT ![p] = 0]
    /\ owner' = [owner EXCEPT ![p] = NoOne]
    /\ label' = [label EXCEPT ![p] = Unlabelled]
    /\ depth' = [depth EXCEPT ![p] = 0]
    /\ dbConn' = [dbConn EXCEPT ![p] = NoOne]
    /\ fdOpen' = [fdOpen EXCEPT ![p] = FALSE]
    /\ flockHolder' = [h \in Host |-> IF flockHolder[h] = p THEN NoOne ELSE flockHolder[h]]
    /\ pgHolder' = IF held THEN NoOne ELSE pgHolder
    /\ pgCount' = IF held THEN 0 ELSE pgCount

\* The server or the network ends the session of connection c.
ConnDrop(c) ==
    /\ "connDrop" \in Faults
    /\ c \in {dbConn[p] : p \in Proc}
    /\ LockWithout(c) /\ CountWithout(c)
    /\ cur' = CursorsWithout(c)
    /\ UNCHANGED <<pc, mode, nest, ret, retries, rlVars, fieldVars, fileVars, dbConn>>

AcquireStep(t) ==
    \/ TakeThreadLock(t) \/ ThreadLockBusy(t) \/ TakeFileLock(t) \/ FileLockBusy(t)
    \/ Checkout(t) \/ CheckoutFails(t) \/ PollWins(t) \/ PollLoses(t)
    \/ Reconnect(t) \/ ReconnectFails(t) \/ Grant(t) \/ Refuse(t)

ReleaseStep(t) ==
    \/ Finish(t) \/ WriteDown(t) \/ ForceRelease(t) \/ FinallyRelease(t)
    \/ UnlockPg(t) \/ UnlockFile(t) \/ UnlockThread(t)

Next ==
    \/ \E t \in Thread : Begin(t) \/ Queue(t) \/ AcquireStep(t) \/ ReleaseStep(t)
    \/ \E t \in Thread : ScanFails(t) \/ RunRefused(t)
    \/ \E p \in Proc : Crash(p)
    \/ \E c \in Conn : ConnDrop(c)

Spec == Init /\ [][Next]_vars

\* Every started call runs on: a thread inside acquire(), release() or a scan is
\* scheduled again by the operating system.  Only Begin, a new trigger, may not come.
Fairness == \A t \in Thread : WF_vars(Queue(t) \/ AcquireStep(t) \/ ReleaseStep(t))

FairSpec == Spec /\ Fairness

(***************************************************************************)
(* Properties                                                              *)
(***************************************************************************)

InBody(t) == pc[t] = "body"

\* "Protects against BOTH multiple threads AND multiple distributed containers"
\* (lock_utils.py:135): at most one scanner runs, in all processes together.
Exclusion == \A t, u \in Thread : InBody(t) /\ InBody(u) => t = u

\* The same within one process, which the RLock alone must ensure.
ThreadExclusion ==
    \A t, u \in Thread : InBody(t) /\ InBody(u) /\ ProcOf[t] = ProcOf[u] => t = u

\* "Unlock and return connection to pool cleanly" (lock_utils.py:438): the advisory
\* lock is only ever held by a connection that a lock object still refers to, so
\* somebody will unlock it.
NoStrandedPgLock == pgHolder # NoOne => pgHolder \in {dbConn[p] : p \in Proc}

\* The watchdog marks a RUNNING card with an old heartbeat DOWN "if global scanner
\* lock is NOT held" (database.py:4012): in the process that asks, locked() is
\* true as long as a scan runs there, whoever else acquires, gives up or
\* releases the lock meanwhile.
LockedWhileRunning ==
    \A t \in Thread : InBody(t) => owner[ProcOf[t]] # NoOne

Waiting(t) == pc[t] \in {"queue", "rlock", "flock", "checkout", "poll"}

\* A scheduler run that is refused after it took the lock (main.py:2163)
\* leaves its idle thread with the lock.
Leaked(t) == pc[t] = "idle" /\ rlOwner[ProcOf[t]] = t

\* Once processes stop crashing, a waiting scanner means that some scanner
\* eventually runs, if the waiter has not died itself: what dead processes
\* and refused calls leave behind never blocks the queue.  The one exception
\* is a leaked lock.
QueueMoves ==
    <>[][\A p \in Proc : ~Crash(p)]_vars =>
        ((\E t \in Thread : Waiting(t)) ~>
            \/ \E t \in Thread : InBody(t) \/ Leaked(t)
            \/ \A t \in Thread : ~Waiting(t))

\* The lock implements the abstract mutex of module ScannerMutex.
Mutex == INSTANCE ScannerMutex WITH running <- {t \in Thread : InBody(t)}
RefinesMutex == Mutex!Spec

=============================================================================
