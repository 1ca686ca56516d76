# Formal models of the Elite Breakout System

The repository is a trading platform for the Indian equity market, written in Python: scanners look
through the market after the close and during the day, write alerts into PostgreSQL, and a tracker
follows every alert until it is closed.  One deployment is a container that runs the scheduler
(`src/app/main.py`), a dashboard server with its own threads (`dashboard_server.py`) and several
background workers; containers overlap when a new version is deployed, and each may be killed at any
time.  All that they share is the database.

The indicator arithmetic of the scanners is ordinary sequential code.  What is hard to get right is
what happens around it: threads and containers that exclude each other, rows written from copies
read earlier, bookkeeping that has to survive a crash.  This directory models those parts in TLA+,
checks them with TLC on small instances, and proves the central properties with TLAPS for all
instances.

    tlc -config ProcessLock_healthy.cfg MCProcessLock.tla     # check a run
    tlapm ProcessLockProofs.tla                               # check a proof

`PROJECT.json` is the index: components, runs, the mutant that each property must reject, the source
lines of every definition, findings, hazards, theorems.

## 1. Inventory

Paths are relative to `src/app` unless they say otherwise.

### Modelled

| component | state | operations | who touches it | what makes it correct |
|---|---|---|---|---|
| Scanner execution lock (`lock_utils.py`) | RLock, `flock`, advisory lock; owner name, label, depth, connection | `acquire`, `release`, `release_global_lock_if_held_by`, `locked` | every scanner thread, the scheduler's batch, the health writer, the dashboard | one scanner at a time in all containers; no lock left behind that blocks the queue |
| Durable upload queue (`durable_upload_queue.py`) | JSON file of jobs; in memory a daemon and its copies | `enqueue_durable_upload`, the daemon's loop, `resume_durable_uploads`, pruning; saving and loading the cache file | scanners, one daemon per process, start-up | SUCCESS means the database has the content, unless a loader wrote over the file; retries are bounded; no open job is dropped, no settled one reopened |
| Scan run registry and health (`database.py`, `eod_scanner.py`, `main.py`) | `scanner_execution_history`, `scanner_health`, set of locally stopped scanners, scan lock | register, heartbeat, complete, stale clean-up, boot reset, card writes, pause, resume | scheduler, dashboard, admin, boot thread of each container | at most one active run; rows and cards settle; the scheduler skips only what was done; a pause holds |
| Alert lifecycle (`performance_tracker.py`, `database.py`) | the alert's row; the copy a tracker pass works on | live pass, replay, three targets, stop, gap, outcome, recalculation, resets, reject, accept, reallocate | tracker passes under different locks, the admin page | shares add up, status agrees with the booked events, the stop never moves back |
| Alert desk (`database.py`, `portfolio_engine.py`, routes of `dashboard_server.py`) | rows of `alerts`, `alert_events` and `capital_history`; `_DB_WRITE_LOCK` | `save_alert_if_new`, reject, accept, reset, reallocate one or several | scanners of all containers, the admin | a container opens one alert per symbol; evidence is backed by events; the journal says what was given back |
| Multi-timeframe watchlist (`multitf/state.py`, `multitf/scanner.py`) | rows of `mtf_v2_watchlist` with a version | find, load, insert, compare-and-set update, alert | the 15 minute cycle and the 5 minute monitor, under locks of their own | a box alerts once; confirmed or invalidated, it stays so |
| Multibagger setups (`multibagger_state_machine.py`, `multibagger.py`) | rows of `multibagger_state`; its alerts, open or in review | arm, evaluate, alert, mark; review and back | the multibagger scan, its exit monitor | one armed setup per symbol, evaluated on a bounded number of dates; one position per symbol |
| Performance rebuild (`performance_tracker.py`) | the two rows of the stored summary; rebuild lock, cool-down, trailing timer | `trigger_performance_rebuild`, the rebuild, builds that bypass it | every writer of alerts, the main loop, the auditor | what a request is about is shown in the end |

How they interact: `eod_scanner.start` takes the lock (ProcessLock), registers a run and writes the
card (ScanRuns); writing DOWN on the card releases the lock (`database.py:3980`); a scan saves its
caches through the upload queue, and its alerts through `save_alert_if_new` (AlertDesk) into the rows
that AlertLifecycle starts from.
The multi-timeframe and multibagger scanners call the same function, from the states that
MtfWatchlist and MultibaggerSetups model; there an alert of the symbol is open or not.  Whatever
changes an alert asks for a rebuild (PerfRebuild), where the alerts are a version number.

### Not modelled, and why

The same list with its files is under `components` in `PROJECT.json`.

| component | hard behaviour | why not |
|---|---|---|
| Yahoo rate limiter (`yf_rate_limiter.py`) | spacing reserved before the wait for a slot (`:131`), so that calls may leave together; breaker with growing cool-downs | its promises are rates in real time; without a clock nothing is left to tell apart |
| Fetch coordination (`market_data/services`) | a waiter looks its result up after it was removed (`fetch_coordinator.py:43`), and gets none | no path of the running service constructs it, only tests do |
| Telegram queue (`telegram_engine.py`, `database.py:6217`) | send, then mark | the send is a stub that returns True at once |
| Bayesian approval (`database.py:6570`) | an approval is written over a rejection made since the proposal was read | two requests of one administrator; the write has no guard that a model could be right about |
| Sizing (`portfolio_engine.py`, `database.py:2569`) | the margin is read before the lock, so that two scans may spend the same cash | AlertDesk has any size up to a cap; the arithmetic of equity and margin is left out |
| Saving on a caller's connection (`reversal_scanner.py:2446`, `database.py:2231`) | the day's alerts are deleted and saved again in one transaction; a statement that fails aborts it, the commit rolls back silently, and the health card says OK | one transaction: nothing can come between its steps |
| Symbol resolution (`symbol_resolution_engine.py`) | single-flight learning, stale mappings | a cache that no modelled state depends on |
| Connection pool (`database.py:82-292`) | a checkout that raises keeps its slot (`:252`) | below the models: ProcessLock has checkouts that fail for any reason |
| Accumulation scanner | own control plane and cool-downs | its life is that of the scanners modelled; the cool-down is one comparison |
| Opportunity pool | in-memory ranking, one thread | no protocol |
| Dashboard, main loop | routes and calendar; their effect on locks, runs and alerts is modelled | the rest is input and output |
| Price cache, data providers, workers, snapshots | files, HTTP, idempotent upserts | input and output |
| Scanner analytics, scoring, stop and target computation | floating-point arithmetic over price frames | out of TLC's reach, no protocol |
| Auditing and outcome research | writes to closed alerts | rewrites of statuses that no running pass reads again |
| Validation, telemetry, offline research, scripts, pages, data | stateless, or nothing depends on it | left out |

Most of the repository by lines is in the rows of analytics, pages, research and data providers; the
modelled parts are those whose state is shared by threads, containers or runs.

The hazards these components carry, with their lines, are under `hazards`, with and without a
property that covers them.

## 2. How the project is laid out

One module per component, an instance `MC<component>` with the values of its constants, one or two
runs, and `<component>Proofs`.  Abstract specifications, each refined by a component under a mapping
of its state: `ScannerMutex` (ProcessLock, and in a proof also ScanRuns), `Outbox`
(DurableUploadQueue), `RunBook` (ScanRuns), `Trade` (AlertLifecycle), `BoxLife` (MtfWatchlist).

The modules were written in the order in which an alert meets them: the lock and the run around a
scan, the queue that saves its caches, the life of an alert; then how an alert comes in (AlertDesk),
the two scanners whose candidates are carried from scan to scan (MtfWatchlist, MultibaggerSetups), and
what is shown of it all (PerfRebuild).

They are not composed into one state space: each pair interacts through one operation, and the model
of the caller has that operation's outcomes as choices (an alert is inserted or refused, the lock is
granted or not).  What a caller relies on is a property of the other module: that alerts of one symbol
are refused while one is open is SingleOpen of AlertDesk, which MtfWatchlist and MultibaggerSetups use
for a scanner of one container; that scans of a scanner do not overlap is Exclusion of ProcessLock,
which MultibaggerSetups uses.

## 3. Scanner execution lock

`ProcessLock` follows `ProcessLockImpl` line by line at the level of critical sections: a thread is at
a program counter (`rlock`, `flock`, `checkout`, `poll`, `grant`, `refuse` for acquire; `unlockPg`,
`unlockFile`, `unlockThread` for release; `except`, `force`, `finally`, `wrapper` for the callers).
`owner`, `label`, `depth` and `dbConn` are the shared fields; `rlOwner`, `flockHolder` and `pgHolder`
are the three locks, each with the rule of its kind (a recursive lock belongs to a thread, a file lock
to an open file, an advisory lock to a database session, in which it nests).  `Reentrant` compares
thread *names* because the code does.  `Release` does not ask who calls, because the code does not.

`ScannerMutex` is what callers are promised: a scanner enters only when none runs.

| run | instance | shows |
|---|---|---|
| `ProcessLock_healthy` | two containers and a second process on one host, four threads, one of them a batch that holds the lock around its scans; containers crash, a scheduler's run may be refused | Exclusion, no stranded advisory lock, `locked()` is true while a scan of the process runs (the watchdog asks it before it marks a RUNNING card DOWN, `database.py:4012`), refinement of ScannerMutex, the queue moves.  43 thousand states |
| `ProcessLock_faulty` | two containers, three threads, every fault: failing scans, dropped sessions, empty pool, refused runs, crashes | types, and exclusion within a container.  226 thousand states |

Bounds: `MaxRetries = 1` instead of five, as one retry already takes every path of the loop;
`MaxDepth` and `MaxPgCount` cap nesting that only leaks can drive further.  Three processes are
needed for a host that shares the file lock and one that does not; two threads in a container for
re-entry and queueing.

Fairness: a thread inside `acquire`, a scan or `release` is scheduled again.  Nothing is assumed of
new triggers, and nothing of the polling order: `QueueMoves` says somebody runs, not that each waiter
does, which the code does not give.  It holds once containers stop crashing, and except where a
refused run has leaked the lock (`main.py:2163`), which the formula names.

Proofs (`ProcessLockProofs`): `TypeCorrect` under all faults.  `ThreadExclusionHolds` under all faults,
for distinct thread names and no batch.  `ExclusionHolds`, `NoStrandedPgLockHolds`,
`LockedWhileRunningHolds` and the refinement `LockImplementsMutex` for distinct names when nothing but
crashes happens (a batch is allowed).  The invariant for the first is
`ThreadInv`: between the RLock and its release the thread owns the RLock, and whatever is held counts
at most once.  For the second, `HealthyInv` adds that whoever is past the poll holds the advisory lock
through the connection of its container, and that a free lock has no fields set.  The refinement
follows from Exclusion before and after a step and the lemma `OneMoves`: a step moves one thread, or
sends the threads of a container to idle, so no step swaps the running scanner for another.  The assumption on
names is not decoration: two threads with one name re-enter each other's lock.

Exclusion fails when scans fail: `start()` releases twice, first when its DOWN releases the lock of its
owner (`database.py:3980`, `lock_utils.py:470`) and then in `finally`; between the two another scanner
gets the lock, loses it, and a second container starts to scan, against "Only one stock-market scanner
can hold the global execution lock".  That is why Exclusion is checked and proved for crashes only,
and ThreadExclusion for all faults.

Seen while modelling, without a run of their own: threads of the same name scan together; with an
empty pool the advisory lock is skipped and containers scan together; an error path of the poll can
leave the lock with a connection nobody refers to; the refusal path keeps the file lock open
(`lock_utils.py:384`), which blocks a second process of the host until the process next gets and
releases the lock; a session dropped during a scan frees the lock under it; the comment at
`lock_utils.py:492` promises more of `wait_for_scanner_fetch_idle` than it does.

## 4. Durable upload queue

`DurableUploadQueue`: the queue file is `status` and `attempts` per job; what a cache file and its
database row hold are version numbers.  One write of a job is one step, because load, change and atomic
save are inside `_queue_lock`; the daemon, however, works on copies (`batch`, `tries`, `cur`, `buf`),
and its steps from the pick to the final write are separate, so that saves, loads, new jobs, crashes and
removed files come between them.  `ripe` is the set of jobs whose retry delay has passed, and the prune
takes any of the settled jobs (those older than 48 hours).  `UploadCommits` may report success or an
error, because a lost reply looks like a failure.

A cache file has two kinds of writers.  `SaveCache` replaces it by a newer version (`saved`).  The
loaders write the database's copy over it: `Fetch`, `Open` and `Fill` are the select, the `open(..., "wb")` that
empties the file, and the write of `download_parquet_from_db` (`database.py:5738`).  A name in `Synced`
is loaded over an existing file too, as `multibagger.load_cache` does when the daily scan asks
(`multibagger.py:2888`) or the file is 20 minutes old; others only when the file is missing.  A failed
download takes another cache's row (`multibagger.py:456`): version 0.  A save that comes between `Open`
and `Fill` wins, because it renames a new file into place (`LoseHandle`).

So "SUCCESS means that the database has what was saved" is false in the code: enqueue, load (the file
is now the database's older row), upload, SUCCESS.  `replaced` is the set of the jobs to which that
happened, and the properties say that it happens to no other.

`Outbox` is the promise: an open job is never dropped, a settled one stays settled, kept means backed
up or written over.

| run | instance | shows |
|---|---|---|
| `DurableUploadQueue_faults` | two jobs of one file that is also loaded over, a row of an earlier day, two saves, removed files, and one of: a crash, a lost write of the queue file, a corrupt queue file | BackedUp, OnlyLoadersRegress, RetryBound, refinement of Outbox.  1.4 million states |

Bounds: two saves (versions 2 and 3 beside 0, and 1 for the earlier day) and two jobs of one name are
the smallest case in which a late retry meets newer content; `MaxAttempts = 2` gives a failure that is
retried and one that is not; `MaxFaults = 1` bounds crashes and damages together, as each already meets
every step of the daemon and of a loader.  The two jobs are symmetric.  The run may stop, as saves are used up.

No liveness is claimed.  The header of the code says that a worker "resumes all PENDING/FAILED jobs from
previous process runs on startup" (`durable_upload_queue.py:11`), and `resume_durable_uploads` says that
it is "called at system startup" (`:83`), but nothing in the repository calls it: after a restart open
jobs wait for the next call of `enqueue_durable_upload`, which need not come, and an interrupted one stays
UPLOADING for good.  The model has both starts (`ResumesAtBoot`), and what is proved holds for both.

Proofs (`DurableUploadQueueProofs`): `TypeCorrect`, `SuccessIsBackedUp`, `OnlyOverwrittenRegress`,
`RetriesBounded` and `QueueImplementsOutbox`, for all jobs, names, loaders and faults.  `BackedInv` says
that, for a name none of whose jobs was written over, versions only shrink along save, file, buffer and
database, a pending loader's content included, and that whoever is about to write SUCCESS has uploaded
at least what the job wants.  `InStep` relates the daemon's copies to the queue file as long as no write
of it was lost.  `NoneGivenUpEarly` says why jobs end unsuccessfully: where nobody removes cache files,
ABANDONED stands beside at least `MaxAttempts` attempts, whatever crashes, fails to be saved or is
moved away (`OnFile`: the file of a known job is there; status and attempts are one write).

## 5. Scan runs and scanner health

`ScanRuns` models one scanner, its row on the health page (`status`, `active`, `lastSuccess`) and its
rows in the execution history (`hist`), with one step per database statement.  A run comes from the
scheduler's evening batch or from the dashboard.  The global lock appears with just the layers that
come apart on a double release; the scan lock as its owner.  `CheckRegistry` closes rows that may look
stale, `RegisterCheck`/`RegisterRecheck`/`RegisterInsert` are the check, the second check in the
transaction and the insertion, which no database lock joins.  `GuardRead` and `EndWrite` are the
ownership guard and the write it guards, on different connections.  `Crash`, `BootReset` and
`BootCleanup` are a container that dies and comes back while others run.

| run | instance | shows |
|---|---|---|
| `ScanRuns_containers` | two containers, a scheduler thread and two manual triggers, failing scans, missing data, runs long enough to look stale, crashes | OneActiveRun although the registry's transaction locks nothing; NoPhantomRun; refinement of RunBook.  935 thousand states |
| `ScanRuns_settles` | one container, a scheduler thread and a manual trigger, all faults, the admin pauses and resumes | RunsEnd and CardSettles: each row is closed and the card never stays RUNNING or QUEUED.  88 thousand states |
| `ScanRuns_skips` | a scan fails, the container restarts | **violation**: the scheduler takes the failed run for a success, because the end banner wrote OK |

Bounds: each thread registers one run (two where a second scheduler run matters).  Three threads are
enough for a holder, the one that takes the lock by the double release, and the one in the second
container.  One trading day inside the scanner's window makes `last_success` a flag.

Fairness: started threads, boot and dashboard requests go on, and somebody looks at the cards, as the
dashboard polls them: the clean-up of a stuck card is a side effect of that read.  Nobody has to start,
pause or resume anything.  Crashes are not bounded, but a container finishes its boot sequence between two.

Proofs (`ScanRunsProofs`): `TypeCorrect`, `OneActiveRunHolds` and `NoPhantomRunHolds` for any number of
containers and threads and all faults.  `SafeInv` has two more parts: a thread between the scan lock
and its release owns it (`ScanOwned`), and a thread about to insert sees no active row (`InsertAlone`).
So the uniqueness rests on the scan lock, not on the re-check in the transaction, and callers that
register before taking a lock (`main.py:2496`) are outside the theorem.

`RunBook` is what the history table promises: rows are entered one at a time, somebody else may cut a
row off once, only its run writes how it ended, and a closed row is never active again.
`RegistryImplementsRunBook` proves it for all faults, with `RowInv`: a row that was not entered yet is
ahead of its thread's count, and one whose run is still to complete it has not been ended.
`ScansImplementMutex` maps the threads inside the scan to `ScannerMutex`, the promise that ProcessLock
keeps only as long as scans do not fail: here it holds with failing scans, as the scan lock is not
released twice.  `OnlyCrashesOrphan` leaves out the exception of NoPhantomRun: if nothing crashes,
an active row is that of a live run at every moment.

Seen while modelling, without a run of their own: a run that is starting overwrites PAUSED on the card,
so that a pause does not hold (`database.py:4207`, `main.py:681`); the scheduler takes 0 or a skip of `start()` as success
(`main.py:681`); a blocking lack of data is written DOWN and then OK by the end banner; the conditional
update of `database.py:3939` never rejects; writes without a `run_id` bypass the ownership guard; the
pause is not looked at again after the queue; the boot clean-up closes rows of live runs of other
containers, and completing such a run overwrites STOPPED; `run_evening_scanners` is not called.

## 6. Alert lifecycle

`AlertLifecycle` models one row of `alerts`.  A tracker pass copies the row (`ReadLive`) or starts from
the initial trade (`ReadReplay`), takes bars, and on each bar looks at gap and stop first and then at
the targets in order, as `process_trade_history` does.  `PartialExit` is `update_partial_exit` (an
update by id, whatever the row has become), `Outcome` is `update_alert_outcome` (which leaves a closed
row alone); both may fail, and the caller then goes on (`WriteFails`).  Passes overlap because the
scheduled pass, the triggered rebuild and the admin's recalculation hold different locks.  The operator
recalculates, resets, rejects, accepts and reallocates; `ReallocateRead` and `ReallocateWrite` are the
two transactions of `reallocate_capital`.

Prices are points on a scale that keeps the order of the levels.  `plan` says which targets the alert
has: five shapes, since a missing target changes which tranche is the last.

`exact` is a history variable: every write since the row was opened or reset was made from a copy that
agreed with the row.  The code does not ensure that two passes stay apart, so an unconditional ledger
is false; conditioned on `exact` it says that the arithmetic and the order of events are right whenever
no pass worked from a stale copy, and `UndisturbedIsExact` proves that a single undisturbed pass at a
time keeps `exact` true.

| run | instance | shows |
|---|---|---|
| `AlertLifecycle_ledger` | two passes, one operator action or failed write, all five plans, 0, 3 and 5 shares with tranches of 30 and 40 per cent, live prices and two-bar replays | LedgerExact, StopRatchet, refinement of Trade.  2.3 million states |

Bounds: shares of 0, 3 and 5 give the default position, tranches that round to zero, and a second
tranche capped by what is left; the quotes hit every level and one gap below the stop; two passes are
what a stale copy needs.  The two passes are symmetric.

Proofs (`AlertLifecycleProofs`): `TypeCorrect`, `LedgerExactHolds`, `StopRatchetHolds`, and `UndisturbedIsExact`, for all prices, levels, percentages, share counts and any
number of passes.  The inductive invariant is `TypeInv` (a pass at a bar or at the targets holds an
alert that is not closed) with `Safe`: if the row is exact, the ledger balances, the second target is
booked only after the first, and only an alert without targets is locked.  There is one lemma per
action, over the case split of `PartialExit` (already booked, written, failed).

`Trade` is the life of a position: exits in order, what leaves it is booked as sold, the last exit
leaves nothing, the stop never moves back, what is closed stays closed until it is opened anew.  The
mapping tells the row as it is while `exact` holds, and UNKNOWN after a write from a stale copy, so
that `PassesImplementTrade` is not about one pass but about all passes and the operator together.  It
needs `TradeInv` beside the ledger: what was sold is not negative, and an alert without targets has
no exit booked.  `UndisturbedStaysClosed` is the
sentence of `SYSTEM_ARCHITECTURE.md` that terminal states are frozen, of the status and the stop, for one
pass at a time, no failed write, no operator and a position that was sized, without a condition on
the copies; with two passes it does not hold (below).

Seen while modelling, without a run of their own: a pass that copied the row before another closed it
turns LOSS into PARTIAL_WIN_1, since `update_partial_exit` updates whatever the status is
(`database.py:3201`), although terminal states are documented as frozen; `update_alert_outcome`, which
"locks in" the outcome once the stop or a target is hit (`database.py:3217`), finds the row closed by
`update_partial_exit` just before, so that the exit price, the profit and the sell notification of an
alert with targets are never recorded; `get_all_alerts` does not
select `execution_state`, `entry_mode`, `actual_entry_price` and `structural_failure_stop`, so pending alerts count as entered
and the branches for entry triggers and structural stops are dead; a live pass that finds the price
below the breakeven stop after the first target books a gap loss where a replay books a win; selling
the last share at the first or second target leaves the row PARTIAL with nothing in it;
`reset_closed_positions_to_open` keeps the exit history, so nothing is booked again; recalculation of
a rejected alert keeps `is_rejected`, and acceptance keeps the status REJECTED; `reallocate_capital`
leaves the remaining shares and writes back an old stop; `EXPIRED`, `NEUTRAL` and `TRAILING` are in
the document and never written; MULTIBAGGER and WEALTH alerts are skipped although the document names
one exit owner for all six scanners.

## 7. Alert desk

`AlertDesk` models how a row of `alerts` comes to be and what the admin does to it.  A scanner thread
takes `_DB_WRITE_LOCK` of its container (`Enter`), looks for an alert of the symbol (`FindOpen`,
`FindNone`), and either records the re-trigger as an event and raises the evidence (`Evolve`) or
inserts (`Insert`, `Entry`), as `save_alert_if_new` does in `database.py`.  The admin's requests are a
read and a write each: `Reject`/`Rejected`, `Accept`/`Accepted`, `Free`/`Put` for a reallocation,
`FreeMany` for the first transaction of one of several, `Reset` for the two resets (`database.py:3418`, `3617`).  `Fail`
is any statement that raises.  `row`, `rejected`, `events` and `journal` are the tables (`journal` is
the sum of an alert's rows in `capital_history`), `lock` is the lock of each container.

`by`, `first`, `reset` and `muddled` are history.  They name the exceptions that the code really has:
scanners of two containers do not exclude each other, a reset reopens whatever it is given, and two
requests that overlap on one alert, or one that is cut short, leave the journal wrong.

| run | instance | shows |
|---|---|---|
| `AlertDesk_requests` | two containers, two scanner threads in one of them and one in the other, two alerts of one symbol, two requests of the admin | SingleOpen, EvidenceBacked, JournalAgrees.  2.8 million states |

Bounds: two alerts of one symbol are what a duplicate needs, and two threads in one container and one
in another show both what the lock prevents and what it does not; sizes are 0 or 1; two requests are
what an overlap needs.  Alerts are interchangeable, and so are the threads of one container.  The run may stop, as
requests and ids are used up; nobody has to ask for anything, so there is no liveness to state.

Proofs (`AlertDeskProofs`): `DeskTypes`, `OneOpenAlert`, `EvidenceIsBacked` and `JournalIsTrue`, for any
containers, threads, alerts and sizes.  `ThreadInv` says that who is between lock and unlock holds the
lock; from it follows `SearchInv`, that what a thread did not find is still not there when it inserts,
unless another container brought it.  `CountInv` says that the count of events that a re-trigger holds
is never more than the table has.  `RequestInv` says what a request in the middle knows, as long as its
alert is not muddled: the row still has the capital that it read, and for a reallocation the journal is
ahead of the row by just that.  `OneContainerOneAlert` draws the conclusion for an installation of one
container: a symbol has one open alert at most, reset ones aside (every saved row has an inserter,
`InserterInv`, and two inserters are one).

Seen while modelling, without a run of their own: scanners of two containers may both insert;
`capital_history` rows of the kinds `trade_*` are written and never read, as `get_capital_info` reads
`BASE_CAPITAL` and `DEPOSIT` only; accepting a rejected alert leaves its status REJECTED; reallocating a
rejected alert books its refund twice; the reallocation of several alerts unpacks fifteen columns into
fourteen names (`database.py:8256`) after the transaction that freed the capital, so that its second
half never runs; a commit whose acknowledgement is lost counts as failed.

## 8. Multi-timeframe watchlist

`MtfWatchlist` models the boxes of one symbol in `mtf_v2_watchlist` and two evaluators, the 15 minute
cycle and the 5 minute monitor, that run `_process_symbol` (`multitf/scanner.py`) under locks of their
own.  An evaluator finds a box, loads or inserts its row, judges it by the record it has, and writes
with the version it read; between these statements the other one runs.  `Current` is the test of
`update_state_in_db` (`multitf/state.py`), `Finish` a write that may find it false and is then dropped.
`SaveAlert` and `Confirm` are the alert and the confirmation after it, two transactions: `Confirm`
writes if the version still fits, `ConfirmLost` is a version that does not, a failing statement or a
lost reply, and `Crash` may fall between the two.

`BoxLife` is the promise, of which the terminal states of `signal_contract.py:451-453` are a part: a box
becomes live once, and whoever evaluates it, a confirmed or invalidated one stays so.  The edges among
the live substates are not part of it, since the code and its documents disagree about them (below).

| run | instance | shows |
|---|---|---|
| `MtfWatchlist_overlap` | two boxes, two days, rows written up to three times, crashes, alerts of other scanners that open and close | AlertsAccounted, refinement of BoxLife.  1.5 million states |

Bounds: an insertion, a write by one evaluator and a write by the other make three versions, which is
the smallest history in which one of two writes is stale; two boxes are what `find_active` needs to
come back with another box than the one that was looked for; two days are what the daily limit on
alerts needs to lapse.  The run may stop, as versions are used up.

Proofs (`MtfWatchlistProofs`): `WatchlistTypes`, `AlertsAreAccounted` and `WatchlistRefinesBoxLife`, for
any boxes and bounds.  The key is the version: it grows with every write, so an evaluator whose version
is still the row's has the row's substate too (`RecordInv`), and what it decides from its record is
allowed from what the row is.  `OwedInv` counts the confirmations under way.

Seen while modelling, without a run of their own: `attempt_bar_boundary` is NULL for ever, so the
time-to-live test of an ATTEMPT raises a TypeError each time, the comment at `multitf/state.py:166` is
never put to use, FAILED_ATTEMPT, its cool-down and PRESSURE_BUILDING are unreachable, and an ATTEMPT
can only be invalidated; so that the edges by which
`multitf/state.py:8` and `:157-166` lead an ATTEMPT back to WATCHING are never taken; the step from WATCHING to BREAKOUT_CONFIRMED is taken,
which `signal_contract.py:449` forbids and whose table of transitions (`:426`) does not have, as
`assert_valid_transition` is not called here; the filter of
`find_active` says `CONFIRMED` where the substate is `BREAKOUT_CONFIRMED`; a confirmation that is lost
allows another alert for the box; a box is confirmed even when its alert was refused.

## 9. Multibagger setups

`MultibaggerSetups` models the rows of `multibagger_state` and the scan that moves them.  A row belongs
to a symbol and the trading date it was armed on.  A scan starts by reading the symbols with a position
(`Start`, `Held`), skips a symbol, arms it or finds its armed setup (`Arm`, `Refresh`; `ArmBlind` when the
read failed), evaluates the setup (`Evaluate`: invalidated, still armed, candidate), then saves alerts for
the candidates (`Save`, `Drop`) and marks them (`Mark`).  Every statement may fail and its failure is
swallowed, which is the disjunction of `Works` and `Fails`; `Crash` ends a scan anywhere.  The trading
date of a scan is today or the day before, since it depends on whether the day's bar is closed, and it may go
back.  The symbol's alerts are counted, `open` and in `review`; the exit monitor moves them from one to
the other at any moment, also in the middle of a scan (`Review`, `Clear`), and they are closed (`Close`).

`blind` and `seen` are history: the symbols for which a failed read hid an armed setup, and the trading
dates that a setup has been evaluated on since it was armed.

The age of a setup is a number that is passed around: `arm_setup` moves the row's date on and returns
the row as it was before (`multibagger_state_machine.py:169`), and `evaluate_armed_trigger` adds one to
that copy's age if the copy's date is another (`:269`), and writes age and date.  SessionsBounded is about the dates
themselves, not this number: a setup that is armed or triggered was evaluated on at most
`MAX_ARMED_SESSIONS` dates beside its own, and on one more for each failure.  Without the `+ faults` TLC
finds it violated: when the second write is lost, the date is moved and the age is not, and the session
is not counted.  OnePosition relates what the scan read at its start to what `save_alert_if_new` tests
at its end: that refuses beside an OPEN alert only (`database.py:2653`), so the symbols in review are
kept out by the read alone; `HeldOpen`, its mutant, is the query before MULTIBAGGER_OPEN_SYMBOLS_FIX
(`multibagger.py:3042`).  Its `+ faults` is tight too: a failed read holds nobody.

| run | instance | shows |
|---|---|---|
| `MultibaggerSetups_dates` | one symbol, four days, setups that expire after one session, one fault | OneArmed, SessionsBounded, OnePosition; no deadlock.  1.6 million states |

Bounds: four days are what a setup needs to be evaluated on the date it was armed on, on one more, and on
the one that a fault adds, with a date left to be refused on; symbols do not depend on each other, which
the proof shows (`Frame`), so one of them is enough; one fault is enough to lose any one read or write,
or to crash.  The view leaves out dates and ages of rows that are not armed, and of a candidate's record
all but its setup, which no action and no property reads.

Proofs (`MultibaggerSetupsProofs`): `SetupTypes`, `OneArmedSetup`, `SessionsAreBounded` and
`PositionsAreBounded`, for any symbols, ages, days and numbers of faults.  `WorkInv` says that the setup a
scan has in hand is the armed one, and is not too old.  `DatesInv` counts dates against ages, of the row and,
while a scan works on it, of the record: the date of the row is counted in, as it will not be counted
again.  `PosInv` leaves room for the alert that the scan may still insert: none beside a position, if it
was read.  An action moves one symbol, and the lemmas `FrameInv` and `OtherRow` carry the others.
`FaultlessOneArmed` shows that failed reads are the only way to a second armed setup: with
`MaxFaults = 0` every symbol has one at most.

Seen while modelling, without a run of their own: a scan on the date on which a setup was armed brings
it back even if it was invalidated or has triggered, since the upsert meets its row and the evaluation
overwrites its state, with its age begun anew (`Begin` empties `seen` there), though
`tests/test_phase3_multibagger_state_machine.py:46` says that an invalidated setup cannot trigger;
the age counts changes of the date, backwards as well; `get_active_armed_setups` does not find
TRIGGER_CANDIDATE, so that a candidate that was dropped, or overtaken by a crash, stays one for ever; an
alert whose commit was acknowledged to nobody leaves its setup unmarked; a setup whose price left the
zone is neither evaluated nor aged.  `reset_closed_positions_to_open` (`database.py:3617`), with which the
admin opens closed alerts again, is not an action here (it is one of AlertDesk): it may put several
alerts of a symbol beside each other.

## 10. Performance rebuild

`PerfRebuild` models `trigger_performance_rebuild` (`performance_tracker.py:1515`).  The alerts are a
version number, `saved`; `headline` and `stored` are the versions that the dashboard shows, in its
headline (`performance_summary`) and on its page (`performance_data`).  A request gets a thread
(`Spawn`) or, within the cool-down, starts or joins the trailing timer (`Trail`, `Join`), or is
forgotten when the timer's thread is past waiting (`Forget`).  A rebuild takes the lock (`Begin`) or
finds it taken and defers to the timer (`FindBusy`, then `Defer`, `Meet`, and `MeetItself` for the
timer's own thread).  `Read` is the snapshot, `StoreSummary` and `Store` the two rows made from it, each a transaction of its
own (`:1443`, `:1445`); the first may be lost while the second is written (`LoseSummary`).  The main loop,
the boot and the auditor build without the lock (`StartDirect`).

`due` is the version that the last accepted request is about, `owed` the ids it asked to recalculate;
`excused` and `dropped` name what the code forgets.

| run | instance | shows |
|---|---|---|
| `PerfRebuild_debounce` | two rebuild threads beside the timer, one build without the lock, three requests, a new version, one failed build, lost write or restart | NothingForgotten, and Shows under fairness.  558 thousand states |
| `PerfRebuild_drops` | the same threads, two saves, no build without the lock, nothing fails | **violation** of NeverDropped: a request is dropped |

Bounds: one thread that holds the lock, one that finds it taken, and the timer are all the roles there
are; a build without the lock is what stores an older summary over a newer one; three requests are the
running one, the deferred one and the one that joins; two versions, before and after a save, are what a
snapshot can miss.  `PerfRebuild_drops` takes a second save, so that the rebuild whose lock is in the way has
a version of its own.  The run may stop, as requests are used up.

Fairness: each thread runs on, and a timer that was started fires.  Nothing is assumed of requests, of
the cool-down, or of builds succeeding: a build that fails excuses.

Proofs (`PerfRebuildProofs`): `RebuildTypes`, with the lock held exactly by who builds, and
`NothingIsForgotten`, for any threads, ids and bounds.  `IdsInv` says that a thread that does nothing
carries no ids.  `LockedRebuildsInOrder` is about the summaries themselves: rebuilds that take the lock
never put an older one in place of a newer one (`Direct = {}`, which is the time outside market hours,
when neither the main loop nor the boot or the auditor is building).  `Shows` is liveness and stays with TLC.

The comment above the code says that alerts "must NEVER be lost or dropped by debounce cooldowns" and that
a batch "is guaranteed to trigger a final rebuild" (`performance_tracker.py:1503-1507`, also `:1517`).
`NeverDropped` is that sentence, and `PerfRebuild_drops` its counterexample, with nothing failing: a rebuild has read the
alerts; another alert is saved, and its request, within the cool-down, starts the trailing timer; the timer
fires while the rebuild still holds the lock, asks for a trailing rebuild (`:1528`), finds the timer's thread, which is its
own, alive (`:1545`), and returns.  `NothingForgotten` and `Shows` keep the sentence for all the rest and
name the windows in which it fails: this one; a request that arrives while the timer's thread executes
(`Forget`); a thread that finds the lock busy and the timer past waiting (`Meet`); and a build without the
lock that puts an older row in place of a newer one, for which nothing but the five minute loop, in market hours,
makes up.

Seen while modelling, without a run of their own: the ids to recalculate are lost when the lock is busy
and a timer alive; a build without the lock beside one with it may leave the headline of one and the page of the
other; a failed read stores an empty summary; on a caller's connection the trigger runs before the
caller commits.  The reset that deletes `performance_data` is left out.

## 11. What is only model-checked

Liveness (`QueueMoves`, `RunsEnd`, `CardSettles`, `Shows`): temporal properties under fairness
are out of the prover's reach and stay with TLC.  The refinements (`RefinesMutex`, `RefinesOutbox`,
`RefinesRunBook`, `RefinesTrade`, `RefinesBoxLife`) have safety on both sides and are proved.
`SkipsOnlyIfRan` and `NeverDropped` are the properties that do not hold.  No module declares a recursive operator.

Theorems with a hypothesis on the constants: those of ProcessLock (names, faults), `NoneGivenUpEarly` (cache files stay), `OnlyCrashesOrphan` (no crash),
`UndisturbedIsExact` and `UndisturbedStaysClosed` (one pass, nothing disturbs it),
`LockedRebuildsInOrder` (no build without the lock), `OneContainerOneAlert` (one container) and
`FaultlessOneArmed` (no failing statement).  Each says under which circumstances the code gives more
than it gives in general; what it gives in general is the theorem beside it.

Every property of a passing run has a mutant in `PROJECT.json`: a definition with a plausible bug (an
unlock forgotten, an off-by-one, a check of the wrong thing) under which TLC finds the property
violated.  The mutants stand beside the definitions they change, marked `Mutant of` or `Mutation`.

Assumptions on constants are named (`LockAssumption`, `QueueAssumption`, `RunsAssumption`,
`AlertAssumption`, `DeskAssumption`, `WatchlistAssumption`, `SetupAssumption`, `RebuildAssumption`)
and evaluated by TLC in every run; further assumptions of a theorem are in its statement.
