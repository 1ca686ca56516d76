----------------------------- MODULE ScanRuns ------------------------------
(***************************************************************************)
(* The bookkeeping around one scanner (EOD): what triggers a run, the row  *)
(* it leaves in scanner_execution_history, and the scanner's card, its row *)
(* of scanner_health, which the scheduler, the admin and the dashboard     *)
(* read back to decide what may run next.                                  *)
(*                                                                         *)
(* A run is started by the scheduler's evening batch, which holds the      *)
(* global lock around _run_eod_with_retries, or by the dashboard           *)
(* (trigger_scanner_manual); both call eod_scanner.start().                *)
(* Every database statement is a step of its own; the card is written by   *)
(* upsert_scanner_health, sometimes with a run_id and more often without.  *)
(*                                                                         *)
(* The scan lock, a ProcessLock that only its owner releases, is its owner. *)
(* The global lock keeps the layers that come apart when a failing scan    *)
(* releases it twice: the RLock of each process, and the bookkeeping       *)
(* fields, which stand for the advisory lock too, since Grant and Release  *)
(* of module ProcessLock change both.                                      *)
(*                                                                         *)
(* Abstracted: one trading day, all of it inside the EOD window, so        *)
(* last_success is a flag; timestamps of heartbeats (a row may look stale  *)
(* when nobody refreshes it); DEGRADED, which is written where OK is.      *)
(***************************************************************************)
EXTENDS Integers, FiniteSets

CONSTANTS
    Proc,     \* containers
    Thread,   \* threads that may run the scanner, with distinct names
    ProcOf,   \* [Thread -> Proc]
    Sched,    \* the scheduler's threads; the others are manual triggers
    Faults,   \* what may go wrong, a subset of AllFaults
    Admin,    \* what the admin may do, a subset of {"pause"}
    MaxRuns,  \* [Thread -> bound on the runs it registers]
    NoOne     \* None, NULL

AllFaults == {"scanFails", "noData", "slow", "crash"}

ASSUME RunsAssumption ==
    /\ ProcOf \in [Thread -> Proc]
    /\ Sched \subseteq Thread
    /\ Faults \subseteq AllFaults
    /\ Admin \subseteq {"pause"}
    /\ MaxRuns \in [Thread -> Nat \ {0}]
    /\ NoOne \notin Proc \cup Thread \cup (Thread \X Nat)

Run == UNION {{t} \X (1..MaxRuns[t]) : t \in Thread}     \* run_id

VARIABLES
    pc,           \* [Thread -> where it is in the trigger or in start()]
    ticked,       \* scheduler threads that have run (evening_scanners_ran)
    runs,         \* [Thread -> runs it has registered]
    failed,       \* [Thread -> start() is raising an exception]
    seen,         \* [Thread -> active_run_id as upsert_scanner_health read it]
    boot,         \* [Proc -> progress of the boot sequence]
    rl,           \* [Proc -> owner and count of the global lock's RLock]
    held,         \* [Proc -> its fields: owner, recursion depth, labelled "EOD"]
    scan,         \* thread that holds the scan lock
    hist,         \* [Run -> lifecycle_status of its row]
    status,       \* scanner_health.status
    active,       \* scanner_health.active_run_id
    lastSuccess,  \* scanner_health.last_success is today
    localStopped, \* processes whose _LOCAL_STOPPED_SCANNERS has the scanner
    paused,       \* history: the admin paused the scanner and has not resumed it
    admin         \* [Proc -> the rest of the admin's request to its dashboard]

threadVars == <<pc, ticked, runs, failed, seen>>
lockVars   == <<rl, held, scan>>
cardVars   == <<status, active, lastSuccess>>
adminVars  == <<localStopped, paused, admin>>
vars == <<threadVars, boot, lockVars, hist, cardVars, adminVars>>

\* The steps between the registration of a run and the end of its bookkeeping.
RunPC  == {"banner", "body", "complete"}
TailPC == {"sync", "downRead", "downWrite", "endRead", "endWrite"}
PC == {"idle", "batchQueue", "batchWait", "batchStopped", "batchFree", "heal", "decide", "locked?", "active?", "queuedCard",
       "stopped?", "busy?", "try", "queue", "wait", "running", "scanLock",
       "check", "recheck", "insert", "freeScan", "freeGlobal", "return"}
      \cup RunPC \cup TailPC

NoLock  == [by |-> NoOne, n |-> 0]
NotHeld == [by |-> NoOne, n |-> 0, eod |-> FALSE]

Status == {"OK", "DOWN", "IDLE", "RUNNING", "QUEUED", "PAUSED"}
Active == {"RUNNING"}      \* start() registers RUNNING, never QUEUED
Resumed == {"RUNNING", "OK", "IDLE"}     \* what a resumed card may say
Closed == {"COMPLETED", "FAILED", "STOPPED", "TIMEOUT_STALE", "SERVER_RESTARTED"}

TypeOK ==
    /\ pc \in [Thread -> PC]
    /\ ticked \subseteq Sched
    /\ runs \in [Thread -> Nat]
    /\ failed \in [Thread -> BOOLEAN]
    /\ seen \in [Thread -> Run \cup {NoOne}]
    /\ boot \in [Proc -> {"reset", "cleanup", "up"}]
    /\ rl \in [Proc -> [by : Thread \cup {NoOne}, n : Nat]]
    /\ held \in [Proc -> [by : Thread \cup {NoOne}, n : Nat, eod : BOOLEAN]]
    /\ scan \in Thread \cup {NoOne}
    /\ hist \in [Run -> Active \cup Closed \cup {"none"}]
    /\ status \in Status
    /\ active \in Run \cup {NoOne}
    /\ lastSuccess \in BOOLEAN
    /\ localStopped \subseteq Proc
    /\ paused \in BOOLEAN
    /\ admin \in [Proc -> {"idle", "closeRows"} \cup Resumed]

Init ==
    /\ pc = [t \in Thread |-> "idle"]
    /\ ticked = {}
    /\ runs = [t \in Thread |-> 0]
    /\ failed = [t \in Thread |-> FALSE]
    /\ seen = [t \in Thread |-> NoOne]
    /\ boot = [p \in Proc |-> "up"]
    /\ rl = [p \in Proc |-> NoLock]
    /\ held = [p \in Proc |-> NotHeld]
    /\ scan = NoOne
    /\ hist = [r \in Run |-> "none"]
    /\ status = "IDLE"
    /\ active = NoOne
    /\ lastSuccess = FALSE
    /\ localStopped = {}
    /\ paused = FALSE
    /\ admin = [p \in Proc |-> "idle"]

Goto(t, l) == pc' = [pc EXCEPT ![t] = l]
ThisRun(t) == <<t, runs[t]>>
ActiveRuns == {r \in Run : hist[r] \in Active}

(***************************************************************************)
(* upsert_scanner_health                                                   *)
(***************************************************************************)

\* Without a run_id: no ownership check, and every status but RUNNING and
\* PAUSED clears active_run_id.  OK stamps last_success.
WriteCard(s) ==
    /\ status' = s
    /\ active' = IF s \in {"OK", "DOWN", "IDLE", "QUEUED"} THEN NoOne ELSE active
    /\ lastSuccess' = (lastSuccess \/ s = "OK")

\* With one.  The WHERE clause of the statement never rejects: the row it
\* proposes has no active_run_id column.
WriteCardAs(r, s) ==
    /\ status' = s
    /\ active' = r
    /\ lastSuccess' = (lastSuccess \/ s = "OK")

\* The execution ownership guard, on what a separate connection read before.
MayWrite(t) == seen[t] \in {NoOne, ThisRun(t)}

(***************************************************************************)
(* The global lock                                                         *)
(***************************************************************************)

\* A thread that holds the lock enters again; any other needs the RLock of its
\* process, and nobody may hold the advisory lock.
Reentrant(t) == held[ProcOf[t]].by = t
GlobalFree(t) == rl[ProcOf[t]].by \in {NoOne, t} /\ \A p \in Proc : held[p] = NotHeld

TakeGlobal(t, eod) ==
    LET p == ProcOf[t] IN
    IF Reentrant(t)
    THEN held' = [held EXCEPT ![p].n = @ + 1] /\ UNCHANGED rl
    ELSE /\ held' = [held EXCEPT ![p] = [by |-> t, n |-> 1, eod |-> eod]]
         /\ rl' = [rl EXCEPT ![p] = [by |-> t, n |-> @.n + 1]]

\* release(): a nested one counts down; otherwise the fields and the advisory lock
\* are cleared whoever holds them, and the RLock if it is the caller's.
Drop(t) ==
    LET p == ProcOf[t] IN
    /\ held' = [held EXCEPT ![p] = NotHeld]
    /\ rl' = [rl EXCEPT ![p] = CASE @.by # t -> @
                                 [] @.n > 1  -> [by |-> t, n |-> @.n - 1]
                                 [] OTHER    -> NoLock]

\* Mutant of ReleaseGlobal: it counts down and never lets go.
ReleaseCounts(t) ==
    /\ held' = [held EXCEPT ![ProcOf[t]].n = @ - 1]
    /\ UNCHANGED rl

ReleaseGlobal(t) ==
    LET p == ProcOf[t] IN
    IF held[p].n > 1
    THEN held' = [held EXCEPT ![p].n = @ - 1] /\ UNCHANGED rl
    ELSE Drop(t)

\* release_global_lock_if_held_by("EOD"), which ends every write of DOWN.
ForceRelease(t) == IF held[ProcOf[t]].eod THEN Drop(t) ELSE UNCHANGED <<rl, held>>

WriteDown(t) == WriteCard("DOWN") /\ ForceRelease(t)

(***************************************************************************)
(* The execution registry                                                  *)
(***************************************************************************)

\* A live run has a worker thread that refreshes its heartbeat.
Live(r) == pc[r[1]] \in RunPC /\ r = ThisRun(r[1])

\* Rows that may look stale: no heartbeat for 10 minutes, or 2 hours of run.
MayBeStale == {r \in ActiveRuns : ~Live(r) \/ "slow" \in Faults}

CloseAll(S, as) == hist' = [r \in Run |-> IF r \in S THEN as ELSE hist[r]]

\* is_scanner_actively_running: closes stale rows, then looks for an active one.
\* The rows from before the process booted were closed by its boot sequence, or
\* have lost their heartbeat.
CheckRegistry(t, yes, no) ==
    \E S \in SUBSET MayBeStale :
       /\ CloseAll(S, "TIMEOUT_STALE")
       /\ Goto(t, IF ActiveRuns \ S # {} THEN yes ELSE no)

Stopped(p) == p \in localStopped \/ status = "PAUSED"

\* is_scanner_stopped copies what it finds into the process.
NoteStopped(p) ==
    localStopped' = IF Stopped(p) THEN localStopped \cup {p} ELSE localStopped \ {p}

(***************************************************************************)
(* The scheduler: the evening batch, and _run_eod_with_retries within it   *)
(***************************************************************************)

\* Once an evening, on a thread of its own.
SchedTick(t) ==
    /\ pc[t] = "idle" /\ t \in Sched \ ticked
    /\ runs[t] < MaxRuns[t]
    /\ boot[ProcOf[t]] # "reset"     \* threads start after the card reset
    /\ ticked' = ticked \cup {t}
    /\ IF GlobalFree(t)
       THEN TakeGlobal(t, FALSE) /\ Goto(t, "batchStopped")
       ELSE Goto(t, "batchQueue") /\ UNCHANGED <<rl, held>>
    /\ UNCHANGED <<runs, failed, seen, boot, scan, hist, cardVars, adminVars>>

SchedQueued(t) ==
    /\ pc[t] = "batchQueue"
    /\ NoteStopped(ProcOf[t])
    /\ IF Stopped(ProcOf[t]) THEN UNCHANGED cardVars ELSE WriteCard("QUEUED")
    /\ Goto(t, "batchWait")
    /\ UNCHANGED <<ticked, runs, failed, seen, boot, lockVars, hist, paused, admin>>

SchedWait(t) ==
    /\ pc[t] = "batchWait"
    /\ GlobalFree(t)
    /\ TakeGlobal(t, FALSE)
    /\ Goto(t, "batchStopped")
    /\ UNCHANGED <<ticked, runs, failed, seen, boot, scan, hist, cardVars, adminVars>>

SchedStopped(t) ==
    /\ pc[t] = "batchStopped"
    /\ NoteStopped(ProcOf[t])
    /\ Goto(t, IF Stopped(ProcOf[t]) THEN "batchFree" ELSE "heal")
    /\ UNCHANGED <<ticked, runs, failed, seen, boot, lockVars, hist, cardVars, paused, admin>>

SchedFree(t) ==
    /\ pc[t] = "batchFree"
    /\ ReleaseGlobal(t)
    /\ Goto(t, "idle")
    /\ UNCHANGED <<ticked, runs, failed, seen, boot, scan, hist, cardVars, adminVars>>

\* A card that says RUNNING, when the process does not hold the lock and no row has a
\* heartbeat: get_all_scanner_health turns it DOWN once it is 10 minutes old.
Stuck(p) == status = "RUNNING" /\ held[p] = NotHeld /\ \A r \in ActiveRuns : ~Live(r)

SchedHeal(t) ==
    /\ pc[t] = "heal"
    /\ IF Stuck(ProcOf[t]) THEN status' \in {"RUNNING", "DOWN"} ELSE UNCHANGED status
    /\ Goto(t, "decide")
    /\ UNCHANGED <<ticked, runs, failed, seen, boot, lockVars, hist, active, lastSuccess, adminVars>>

AlreadyRan == status = "OK" /\ lastSuccess

SchedDecide(t) ==
    /\ pc[t] = "decide"
    /\ Goto(t, IF AlreadyRan THEN "batchFree" ELSE "stopped?")
    /\ UNCHANGED <<ticked, runs, failed, seen, boot, lockVars, hist, cardVars, adminVars>>

(***************************************************************************)
(* The dashboard: trigger_scanner_manual                                   *)
(***************************************************************************)

\* The dashboard is up before the boot sequence has run.
Trigger(t) ==
    /\ pc[t] = "idle" /\ t \notin Sched
    /\ runs[t] < MaxRuns[t]
    /\ NoteStopped(ProcOf[t])
    /\ Goto(t, IF Stopped(ProcOf[t]) THEN "idle" ELSE "locked?")
    /\ UNCHANGED <<ticked, runs, failed, seen, boot, lockVars, hist, cardVars, paused, admin>>

\* _scan_lock.locked() sees the threads of its own process only.
ScanLocked(p) == scan # NoOne /\ ProcOf[scan] = p

TriggerLocked(t) ==
    /\ pc[t] = "locked?"
    /\ Goto(t, IF ScanLocked(ProcOf[t]) THEN "idle" ELSE "active?")
    /\ UNCHANGED <<ticked, runs, failed, seen, boot, lockVars, hist, cardVars, adminVars>>

TriggerActive(t) ==
    /\ pc[t] = "active?"
    /\ CheckRegistry(t, "idle", "queuedCard")
    /\ UNCHANGED <<ticked, runs, failed, seen, boot, lockVars, cardVars, adminVars>>

TriggerQueued(t) ==
    /\ pc[t] = "queuedCard"
    /\ WriteCard("QUEUED")
    /\ Goto(t, "stopped?")
    /\ UNCHANGED <<ticked, runs, failed, seen, boot, lockVars, hist, adminVars>>

(***************************************************************************)
(* eod_scanner.start()                                                     *)
(***************************************************************************)

StartStopped(t) ==
    /\ pc[t] = "stopped?"
    /\ NoteStopped(ProcOf[t])
    /\ Goto(t, IF Stopped(ProcOf[t]) THEN "return" ELSE "busy?")
    /\ UNCHANGED <<ticked, runs, failed, seen, boot, lockVars, hist, cardVars, paused, admin>>

StartBusy(t) ==
    /\ pc[t] = "busy?"
    /\ Goto(t, IF ScanLocked(ProcOf[t]) THEN "return" ELSE "try")
    /\ UNCHANGED <<ticked, runs, failed, seen, boot, lockVars, hist, cardVars, adminVars>>

StartTry(t) ==
    /\ pc[t] = "try"
    /\ IF Reentrant(t) \/ GlobalFree(t)
       THEN TakeGlobal(t, TRUE) /\ Goto(t, "running")
       ELSE Goto(t, "queue") /\ UNCHANGED <<rl, held>>
    /\ UNCHANGED <<ticked, runs, failed, seen, boot, scan, hist, cardVars, adminVars>>

StartQueued(t) ==
    /\ pc[t] = "queue"
    /\ WriteCard("QUEUED")
    /\ Goto(t, "wait")
    /\ UNCHANGED <<ticked, runs, failed, seen, boot, lockVars, hist, adminVars>>

\* The blocking acquire.  Nobody looks at the pause again after it.
StartWait(t) ==
    /\ pc[t] = "wait"
    /\ GlobalFree(t)
    /\ TakeGlobal(t, TRUE)
    /\ Goto(t, "running")
    /\ UNCHANGED <<ticked, runs, failed, seen, boot, scan, hist, cardVars, adminVars>>

\* While it waits, acquire() puts the scanner on its card again every 3 minutes.
StillQueued(t) ==
    /\ pc[t] = "wait"
    /\ ~GlobalFree(t)
    /\ WriteCard("QUEUED")
    /\ UNCHANGED <<threadVars, boot, lockVars, hist, adminVars>>

StartRunning(t) ==
    /\ pc[t] = "running"
    /\ WriteCard("RUNNING")
    /\ Goto(t, "scanLock")
    /\ UNCHANGED <<ticked, runs, failed, seen, boot, lockVars, hist, adminVars>>

\* Mutant of StartScanLock: the result of acquire(blocking=False) is ignored.
StartScanLockBlind(t) ==
    /\ pc[t] = "scanLock"
    /\ scan' = t
    /\ Goto(t, "check")
    /\ UNCHANGED <<ticked, runs, failed, seen, boot, rl, held, hist, cardVars, adminVars>>

StartScanLock(t) ==
    /\ pc[t] = "scanLock"
    /\ IF scan = NoOne
       THEN scan' = t /\ Goto(t, "check") /\ UNCHANGED cardVars
       ELSE WriteCard("IDLE") /\ Goto(t, "freeGlobal") /\ UNCHANGED scan
    /\ UNCHANGED <<ticked, runs, failed, seen, boot, rl, held, hist, adminVars>>

\* start_scanner_execution_run: a check that heals, the re-check of the transaction,
\* and the INSERT.  A refused run leaves the card as it is.
RegisterCheck(t) ==
    /\ pc[t] = "check"
    /\ CheckRegistry(t, "freeScan", "recheck")
    /\ UNCHANGED <<ticked, runs, failed, seen, boot, lockVars, cardVars, adminVars>>

RegisterRecheck(t) ==
    /\ pc[t] = "recheck"
    /\ runs[t] < MaxRuns[t]
    /\ Goto(t, IF ActiveRuns # {} THEN "freeScan" ELSE "insert")
    /\ UNCHANGED <<ticked, runs, failed, seen, boot, lockVars, hist, cardVars, adminVars>>

RegisterInsert(t) ==
    /\ pc[t] = "insert"
    /\ runs' = [runs EXCEPT ![t] = @ + 1]
    /\ hist' = [hist EXCEPT ![<<t, runs[t] + 1>>] = "RUNNING"]
    /\ Goto(t, "banner")
    /\ UNCHANGED <<ticked, failed, seen, boot, lockVars, cardVars, adminVars>>

\* print_scanner_start_banner, and the RUNNING that _start_wrapper repeats.
Banner(t) ==
    /\ pc[t] = "banner"
    /\ WriteCardAs(ThisRun(t), "RUNNING")
    /\ Goto(t, "body")
    /\ UNCHANGED <<ticked, runs, failed, seen, boot, lockVars, hist, adminVars>>

\* The scan returns; its last write to the card names no run.
BodyDone(t) ==
    /\ pc[t] = "body"
    /\ WriteCard("OK")
    /\ Goto(t, "complete")
    /\ UNCHANGED <<ticked, runs, failed, seen, boot, lockVars, hist, adminVars>>

\* "CRITICAL BLOCKER": too little data.  The card is DOWN, with a last_success, and
\* the scan returns as if nothing had happened.
BodyNoData(t) ==
    /\ "noData" \in Faults
    /\ pc[t] = "body"
    /\ status' = "DOWN" /\ active' = NoOne /\ lastSuccess' = TRUE
    /\ ForceRelease(t)
    /\ Goto(t, "complete")
    /\ UNCHANGED <<ticked, runs, failed, seen, boot, scan, hist, adminVars>>

\* The scan raises: the handler of the body writes DOWN and raises again.
BodyFails(t) ==
    /\ "scanFails" \in Faults
    /\ pc[t] = "body"
    /\ WriteDown(t)
    /\ failed' = [failed EXCEPT ![t] = TRUE]
    /\ Goto(t, "complete")
    /\ UNCHANGED <<ticked, runs, seen, boot, scan, hist, adminVars>>

\* Mutant of Complete: the except clause forgets the row.
CompleteIfDone(t) ==
    /\ pc[t] = "complete"
    /\ hist' = IF failed[t] THEN hist ELSE [hist EXCEPT ![ThisRun(t)] = "COMPLETED"]
    /\ Goto(t, IF failed[t] THEN "sync" ELSE "endRead")
    /\ UNCHANGED <<ticked, runs, failed, seen, boot, lockVars, cardVars, adminVars>>

\* complete_scanner_execution_run overwrites whatever the row has become.
Complete(t) ==
    /\ pc[t] = "complete"
    /\ hist' = [hist EXCEPT ![ThisRun(t)] = IF failed[t] THEN "FAILED" ELSE "COMPLETED"]
    /\ Goto(t, IF failed[t] THEN "sync" ELSE "endRead")
    /\ UNCHANGED <<ticked, runs, failed, seen, boot, lockVars, cardVars, adminVars>>

\* ... and, for a FAILED run, writes the card ("[AUTO-SYNC]").
CompleteSync(t) ==
    /\ pc[t] = "sync"
    /\ WriteDown(t)
    /\ Goto(t, "downRead")
    /\ UNCHANGED <<ticked, runs, failed, seen, boot, scan, hist, adminVars>>

\* The guarded writes read active_run_id first, on another connection.
GuardRead(t) ==
    /\ pc[t] \in {"downRead", "endRead"}
    /\ seen' = [seen EXCEPT ![t] = active]
    /\ Goto(t, IF pc[t] = "downRead" THEN "downWrite" ELSE "endWrite")
    /\ UNCHANGED <<ticked, runs, failed, boot, lockVars, hist, cardVars, adminVars>>

\* The except clause of start(): DOWN with the run_id.  The finally clause of
\* upsert_scanner_health releases the lock even when the write was rejected.
DownWrite(t) ==
    /\ pc[t] = "downWrite"
    /\ IF MayWrite(t) THEN WriteCardAs(ThisRun(t), "DOWN") ELSE UNCHANGED cardVars
    /\ ForceRelease(t)
    /\ seen' = [seen EXCEPT ![t] = NoOne]
    /\ Goto(t, "endRead")
    /\ UNCHANGED <<ticked, runs, failed, boot, scan, hist, adminVars>>

\* The finally clause: print_scanner_end_banner says OK, even after a crash.
EndWrite(t) ==
    /\ pc[t] = "endWrite"
    /\ IF MayWrite(t) THEN WriteCardAs(ThisRun(t), "OK") ELSE UNCHANGED cardVars
    /\ seen' = [seen EXCEPT ![t] = NoOne]
    /\ Goto(t, "freeScan")
    /\ UNCHANGED <<ticked, runs, failed, boot, lockVars, hist, adminVars>>

FreeScan(t) ==
    /\ pc[t] = "freeScan"
    /\ scan' = NoOne
    /\ Goto(t, "freeGlobal")
    /\ UNCHANGED <<ticked, runs, failed, seen, boot, rl, held, hist, cardVars, adminVars>>

FreeGlobal(t) ==
    /\ pc[t] = "freeGlobal"
    /\ ReleaseGlobal(t)
    /\ Goto(t, "return")
    /\ UNCHANGED <<ticked, runs, failed, seen, boot, scan, hist, cardVars, adminVars>>

\* start() returned.  The scheduler takes every value for a success, the 0 of a
\* stopped scanner and the dictionary of a skipped one included; an exception makes
\* it try again, until midnight.  _trigger_eod drops the value; the trigger writes OK
\* unless a thread of its process holds the scan lock.
AfterReturn(t) ==
    IF t \notin Sched THEN {"idle"}
    ELSE {"batchFree"} \cup (IF failed[t] /\ runs[t] < MaxRuns[t] THEN {"heal"} ELSE {})

Return(t) ==
    /\ pc[t] = "return"
    /\ failed' = [failed EXCEPT ![t] = FALSE]
    /\ \E l \in AfterReturn(t) : Goto(t, l)
    /\ IF failed[t] THEN WriteDown(t)
       ELSE /\ IF t \notin Sched /\ ScanLocked(ProcOf[t])
               THEN UNCHANGED cardVars ELSE WriteCard("OK")
            /\ UNCHANGED <<rl, held>>
    /\ UNCHANGED <<ticked, runs, seen, boot, scan, hist, adminVars>>

(***************************************************************************)
(* The admin                                                               *)
(***************************************************************************)

\* stop_scanner, run by the dashboard of process p: the card, then the rows.
Pause(p) ==
    /\ "pause" \in Admin
    /\ ~paused /\ admin[p] = "idle"
    /\ paused' = TRUE
    /\ localStopped' = localStopped \cup {p}
    /\ WriteCard("PAUSED")
    /\ admin' = [admin EXCEPT ![p] = "closeRows"]
    /\ UNCHANGED <<threadVars, boot, lockVars, hist>>

PauseRows(p) ==
    /\ admin[p] = "closeRows"
    /\ CloseAll(ActiveRuns, "STOPPED")
    /\ admin' = [admin EXCEPT ![p] = "idle"]
    /\ UNCHANGED <<threadVars, boot, lockVars, cardVars, localStopped, paused>>

\* resume_scanner reads the card, and writes back a RUNNING or OK it found; any
\* other card turns IDLE.
Resume(p) ==
    /\ paused /\ admin[p] = "idle"
    /\ paused' = FALSE
    /\ localStopped' = localStopped \ {p}
    /\ admin' = [admin EXCEPT ![p] = IF status \in {"RUNNING", "OK"} THEN status ELSE "IDLE"]
    /\ UNCHANGED <<threadVars, boot, lockVars, hist, cardVars>>

ResumeCard(p) ==
    /\ admin[p] \in Resumed
    /\ WriteCard(admin[p])
    /\ admin' = [admin EXCEPT ![p] = "idle"]
    /\ UNCHANGED <<threadVars, boot, lockVars, hist, localStopped, paused>>

\* The dashboard shows the cards, and heals them first as the scheduler does.
ShowCards(p) ==
    /\ Stuck(p)
    /\ status' = "DOWN"
    /\ UNCHANGED <<threadVars, boot, lockVars, hist, active, lastSuccess, adminVars>>

(***************************************************************************)
(* Crashes and the boot sequence                                           *)
(***************************************************************************)

Crash(p) ==
    LET mine == {t \in Thread : ProcOf[t] = p} IN
    /\ "crash" \in Faults
    /\ boot[p] = "up"
    /\ boot' = [boot EXCEPT ![p] = "reset"]
    /\ pc' = [t \in Thread |-> IF t \in mine THEN "idle" ELSE pc[t]]
    /\ ticked' = ticked \ mine
    /\ failed' = [t \in Thread |-> failed[t] /\ t \notin mine]
    /\ seen' = [t \in Thread |-> IF t \in mine THEN NoOne ELSE seen[t]]
    /\ rl' = [rl EXCEPT ![p] = NoLock]
    /\ held' = [held EXCEPT ![p] = NotHeld]
    /\ scan' = IF scan \in mine THEN NoOne ELSE scan
    /\ localStopped' = localStopped \ {p}
    /\ admin' = [admin EXCEPT ![p] = "idle"]
    /\ UNCHANGED <<runs, hist, cardVars, paused>>

\* Mutant of BootReset: the QUEUED cards are left out of the WHERE clause.
BootResetRunning(p) ==
    /\ boot[p] = "reset"
    /\ boot' = [boot EXCEPT ![p] = "cleanup"]
    /\ IF status \in {"DOWN", "RUNNING"} \/ active # NoOne
       THEN status' = "OK" /\ active' = NoOne
       ELSE UNCHANGED <<status, active>>
    /\ UNCHANGED <<threadVars, lockVars, hist, lastSuccess, adminVars>>

\* reset_all_scanners_on_boot, before the scheduler's threads start.
BootReset(p) ==
    /\ boot[p] = "reset"
    /\ boot' = [boot EXCEPT ![p] = "cleanup"]
    /\ IF status \in {"DOWN", "RUNNING", "QUEUED"} \/ active # NoOne
       THEN status' = "OK" /\ active' = NoOne
       ELSE UNCHANGED <<status, active>>
    /\ UNCHANGED <<threadVars, lockVars, hist, lastSuccess, adminVars>>

\* Mutant of BootCleanup: it spares the rows instead of closing them.
BootCleanupSpares(p) ==
    /\ boot[p] = "cleanup"
    /\ boot' = [boot EXCEPT ![p] = "up"]
    /\ UNCHANGED <<threadVars, lockVars, hist, cardVars, adminVars>>

\* Mutant of BootCleanup: the UPDATE without its WHERE clause.
BootCleanupAll(p) ==
    /\ boot[p] = "cleanup"
    /\ boot' = [boot EXCEPT ![p] = "up"]
    /\ CloseAll({r \in Run : hist[r] # "none"}, "SERVER_RESTARTED")
    /\ UNCHANGED <<threadVars, lockVars, cardVars, adminVars>>

\* cleanup_orphaned_scanner_runs_on_boot, on a thread that races with them.  It
\* closes every active row, whoever runs it.
BootCleanup(p) ==
    /\ boot[p] = "cleanup"
    /\ boot' = [boot EXCEPT ![p] = "up"]
    /\ CloseAll(ActiveRuns, "SERVER_RESTARTED")
    /\ UNCHANGED <<threadVars, lockVars, cardVars, adminVars>>

TriggerStep(t) ==
    \/ SchedQueued(t) \/ SchedWait(t) \/ SchedStopped(t) \/ SchedFree(t)
    \/ SchedHeal(t) \/ SchedDecide(t)
    \/ TriggerLocked(t) \/ TriggerActive(t) \/ TriggerQueued(t)

StartStep(t) ==
    \/ StartStopped(t) \/ StartBusy(t) \/ StartTry(t) \/ StartQueued(t)
    \/ StartWait(t) \/ StartRunning(t) \/ StartScanLock(t)
    \/ RegisterCheck(t) \/ RegisterRecheck(t) \/ RegisterInsert(t)

RunStep(t) ==
    \/ Banner(t) \/ BodyDone(t) \/ BodyNoData(t) \/ BodyFails(t)
    \/ Complete(t) \/ CompleteSync(t) \/ GuardRead(t) \/ DownWrite(t) \/ EndWrite(t)
    \/ FreeScan(t) \/ FreeGlobal(t) \/ Return(t)

AdminStep(p) == Pause(p) \/ PauseRows(p) \/ Resume(p) \/ ResumeCard(p)

Next ==
    \/ \E t \in Thread :
          \/ SchedTick(t) \/ Trigger(t) \/ StillQueued(t)
          \/ TriggerStep(t) \/ StartStep(t) \/ RunStep(t)
    \/ \E p \in Proc :
          AdminStep(p) \/ ShowCards(p) \/ Crash(p) \/ BootReset(p) \/ BootCleanup(p)

Spec == Init /\ [][Next]_vars

\* A thread that was started goes on, and so do the boot sequence and a request to the
\* dashboard.  Somebody looks at the cards.  Nobody has to trigger a scan, to pause or
\* to resume it, and nothing has to fail.
Fairness ==
    /\ \A t \in Thread : WF_vars(TriggerStep(t) \/ StartStep(t) \/ RunStep(t))
    /\ \A p \in Proc :
          /\ WF_vars(BootReset(p) \/ BootCleanup(p))
          /\ WF_vars(PauseRows(p) \/ ResumeCard(p))
          /\ WF_vars(ShowCards(p))

FairSpec == Spec /\ Fairness

(***************************************************************************)
(* Properties                                                              *)
(***************************************************************************)

\* "Guarantees concurrency prevention across all scanners" (database.py:9856):
\* never two active rows, although two containers start runs, a failing scan
\* releases the global lock twice, and rows are closed under live runs.
OneActiveRun == \A r, q \in ActiveRuns : r = q

\* No phantom run: an active row belongs to a run that is going on, or to a
\* process that crashed and has not finished its boot sequence.
NoPhantomRun ==
    \A r \in ActiveRuns : Live(r) \/ boot[ProcOf[r[1]]] # "up"

\* The registry is kept as a book of runs, although nothing in the schema says so:
\* runs are entered one at a time, somebody else may cut a row off, the run itself may
\* still write how it ended, and after that nobody writes the row
\* (start_scanner_execution_run, complete_scanner_execution_run and the clean-ups).
Book == INSTANCE RunBook WITH book <- hist
RefinesRunBook == Book!Spec

\* Every row is closed, by its run or by a boot sequence.
RunsEnd == \A r \in Run : (hist[r] \in Active) ~> (hist[r] \notin Active)

\* The card never says for ever that the scanner runs or is about to: each of the
\* many ways out of start() and of its callers leaves a word on it.
CardSettles == (status \in {"RUNNING", "QUEUED"}) ~> (status \notin {"RUNNING", "QUEUED"})

\* "already_ran check: any successful run today ... counts" (main.py:634): the
\* scheduler does not drop its run as already done when every run there was FAILED.
SkipsOnlyIfRan ==
    [][\A t \in Thread : SchedDecide(t) /\ AlreadyRan =>
          \E r \in Run : hist[r] \notin {"none", "FAILED"}]_vars

=============================================================================
