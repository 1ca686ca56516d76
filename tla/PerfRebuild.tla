----------------------------- MODULE PerfRebuild -----------------------------
(***************************************************************************)
(* trigger_performance_rebuild: what the dashboard shows of the alerts is  *)
(* a stored summary, rebuilt in the background whenever alerts change.     *)
(* Requests within the cool-down of the last rebuild are put together in   *)
(* one trailing timer; the others get a thread.  One lock lets one of      *)
(* these rebuilds run; those of the main loop, of the boot and of the      *)
(* auditor call build_performance_data without it.                         *)
(*                                                                         *)
(* The alerts are a version number, and so are a snapshot of them and what *)
(* is made from it: performance_summary, the headline of the dashboard,    *)
(* and performance_data, its performance page.  They are two rows that are *)
(* written one after the other; performance_generated_at, written between  *)
(* them, is read by nobody.  Time is abstracted: the cool-down may end and *)
(* the timer may fire at any moment after they began.                      *)
(***************************************************************************)
EXTENDS Integers

CONSTANTS
    Worker,    \* threads named PerfRebuildThread
    Direct,    \* threads that call build_performance_data themselves
    Timer,     \* the thread of _trailing_timer
    Id,        \* alerts that may be asked to be recalculated
    None,
    MaxSaves, MaxAsked, MaxDirect, MaxFaults  \* bounds

Locked == Worker \cup {Timer}
Job == Locked \cup Direct

ASSUME RebuildAssumption ==
    /\ Timer \notin Worker \cup Direct /\ Worker \cap Direct = {}
    /\ None \notin Job
    /\ MaxSaves \in Nat /\ MaxAsked \in Nat /\ MaxDirect \in Nat /\ MaxFaults \in Nat

VARIABLES
    saved,    \* version of the alerts table
    headline, \* version that performance_summary was built from, 0 when it is empty
    stored,   \* version that performance_data was built from, 0 when it is empty
    recent,   \* the cool-down since _last_perf_rebuild_ts is not over
    lock,     \* holder of _perf_rebuild_lock
    job,      \* [Job -> where it is, the snapshot it has, the ids to recalculate]
    asked,    \* requests so far
    directs,  \* direct builds so far
    faults,   \* builds that failed, writes that were lost, and restarts
    due,      \* history: the version that the last accepted request is about
    excused,  \* history: why due may never show: see Excuse
    owed,     \* history: ids that were asked for and not recalculated
    dropped   \* history: ids whose rebuild met a live timer, failed, or was killed

vars == <<saved, headline, stored, recent, lock, job, asked, directs, faults, due, excused, owed, dropped>>

\* A timer waits, and starts; a thread starts at once; either may find the lock
\* busy; a build reads the alerts some time after it began and writes the headline
\* before the page, and a timer's thread lives on after it let the lock go.
PC == {"idle", "waiting", "start", "busy", "build", "read", "wrote", "exit"}
Building == {"build", "read", "wrote"}
Work == [pc : PC, snap : Nat, ids : SUBSET Id]
Idle == [pc |-> "idle", snap |-> 0, ids |-> {}]

TypeOK ==
    /\ saved \in Nat /\ headline \in Nat /\ stored \in Nat /\ due \in Nat
    /\ asked \in Nat /\ directs \in Nat /\ faults \in Nat
    /\ recent \in BOOLEAN /\ excused \in BOOLEAN
    /\ lock \in Locked \cup {None}
    /\ job \in [Job -> Work]
    /\ owed \subseteq Id /\ dropped \subseteq Id
    /\ \A j \in Job : job[j].snap <= saved
    /\ headline <= saved /\ stored <= saved
    /\ \A j \in Locked : lock = j <=> job[j].pc \in Building

Init ==
    /\ saved = 0 /\ headline = 0 /\ stored = 0 /\ due = 0
    /\ asked = 0 /\ directs = 0 /\ faults = 0
    /\ recent = FALSE /\ excused = FALSE
    /\ lock = None
    /\ job = [j \in Job |-> Idle]
    /\ owed = {} /\ dropped = {}

At(j, l) == job[j].pc = l
Put(pc, ids) == [pc |-> pc, snap |-> 0, ids |-> ids]
Alive == ~At(Timer, "idle")

\* An alert is saved, closed or rejected: committed.
Save ==
    /\ saved < MaxSaves
    /\ saved' = saved + 1
    /\ UNCHANGED <<headline, stored, recent, lock, job, asked, directs, faults, due, excused, owed, dropped>>

(***************************************************************************)
(* trigger_performance_rebuild                                             *)
(***************************************************************************)
Accept(ids) ==
    /\ due' = saved
    /\ excused' = FALSE
    /\ owed' = owed \cup ids
    /\ dropped' = dropped \ ids

\* With force or ids, or when the cool-down is over, a thread of its own.
Spawn(w, ids, force) ==
    /\ asked < MaxAsked /\ asked' = asked + 1
    /\ At(w, "idle")
    /\ force \/ ids # {} \/ ~recent
    /\ job' = [job EXCEPT ![w] = Put("start", ids)]
    /\ Accept(ids)
    /\ UNCHANGED <<saved, headline, stored, recent, lock, directs, faults>>

\* Mutant of Trail: no timer is started.
TrailDropped ==
    /\ asked < MaxAsked /\ asked' = asked + 1
    /\ recent /\ ~Alive
    /\ Accept({})
    /\ UNCHANGED <<saved, headline, stored, recent, lock, job, directs, faults>>

\* Within the cool-down: the trailing timer is started, if it is not alive.
Trail ==
    /\ asked < MaxAsked /\ asked' = asked + 1
    /\ recent /\ ~Alive
    /\ job' = [job EXCEPT ![Timer] = Put("waiting", {})]
    /\ Accept({})
    /\ UNCHANGED <<saved, headline, stored, recent, lock, directs, faults>>

\* It is alive: its rebuild will do, when it still waits.
Join ==
    /\ asked < MaxAsked /\ asked' = asked + 1
    /\ recent /\ At(Timer, "waiting")
    /\ Accept({})
    /\ UNCHANGED <<saved, headline, stored, recent, lock, job, directs, faults>>

\* When its thread has gone on to the rebuild, it is alive as well: the request
\* is forgotten.
Forget ==
    /\ asked < MaxAsked /\ asked' = asked + 1
    /\ recent /\ Alive /\ ~At(Timer, "waiting")
    /\ UNCHANGED <<saved, headline, stored, recent, lock, job, directs, faults, due, excused, owed, dropped>>

(***************************************************************************)
(* _execute_rebuild                                                        *)
(***************************************************************************)
Fire ==
    /\ At(Timer, "waiting")
    /\ job' = [job EXCEPT ![Timer].pc = "start"]
    /\ UNCHANGED <<saved, headline, stored, recent, lock, asked, directs, faults, due, excused, owed, dropped>>

Begin(j) ==
    /\ At(j, "start")
    /\ lock = None
    /\ lock' = j
    /\ recent' = TRUE
    /\ job' = [job EXCEPT ![j].pc = "build"]
    /\ UNCHANGED <<saved, headline, stored, asked, directs, faults, due, excused, owed, dropped>>

\* A rebuild runs.
FindBusy(j) ==
    /\ At(j, "start")
    /\ lock # None
    /\ job' = [job EXCEPT ![j].pc = "busy"]
    /\ UNCHANGED <<saved, headline, stored, recent, lock, asked, directs, faults, due, excused, owed, dropped>>

\* Mutant of Defer: the timer is started without the ids.
DeferBare(w) ==
    /\ At(w, "busy") /\ ~Alive
    /\ job' = [job EXCEPT ![w] = Idle, ![Timer] = Put("waiting", {})]
    /\ UNCHANGED <<saved, headline, stored, recent, lock, asked, directs, faults, due, excused, owed, dropped>>

\* A thread that found it busy hands its own over to the timer.
Defer(w) ==
    /\ At(w, "busy") /\ ~Alive
    /\ job' = [job EXCEPT ![w] = Idle, ![Timer] = Put("waiting", job[w].ids)]
    /\ UNCHANGED <<saved, headline, stored, recent, lock, asked, directs, faults, due, excused, owed, dropped>>

\* The timer is alive: what waits there will do, but has other ids; what is at
\* work there may have read the alerts already.
Meet(w) ==
    /\ At(w, "busy") /\ Alive
    /\ job' = [job EXCEPT ![w] = Idle]
    /\ excused' = (excused \/ ~At(Timer, "waiting"))
    /\ dropped' = dropped \cup job[w].ids
    /\ UNCHANGED <<saved, headline, stored, recent, lock, asked, directs, faults, due, owed>>

\* The timer's own thread is the one that is alive: it starts none.
MeetItself ==
    /\ At(Timer, "busy")
    /\ job' = [job EXCEPT ![Timer] = Put("exit", {})]
    /\ excused' = TRUE
    /\ dropped' = dropped \cup job[Timer].ids
    /\ UNCHANGED <<saved, headline, stored, recent, lock, asked, directs, faults, due, owed>>

(***************************************************************************)
(* build_performance_data                                                  *)
(***************************************************************************)
StartDirect(d) ==
    /\ directs < MaxDirect /\ directs' = directs + 1
    /\ At(d, "idle")
    /\ job' = [job EXCEPT ![d] = Put("build", {})]
    /\ UNCHANGED <<saved, headline, stored, recent, lock, asked, faults, due, excused, owed, dropped>>

Read(j) ==
    /\ At(j, "build")
    /\ job' = [job EXCEPT ![j] = [pc |-> "read", snap |-> saved, ids |-> job[j].ids]]
    /\ UNCHANGED <<saved, headline, stored, recent, lock, asked, directs, faults, due, excused, owed, dropped>>

\* The end of a rebuild, be it a return or an exception.
End(j) ==
    /\ job' = [job EXCEPT ![j] = IF j = Timer THEN Put("exit", {}) ELSE Idle]
    /\ lock' = IF lock = j THEN None ELSE lock

\* What is made from the alerts replaces what is there, be it by something older.
Replaces(v, old) == v < due /\ v < old

StoreSummary(j) ==
    LET v == job[j].snap IN
    /\ At(j, "read")
    /\ headline' = v
    /\ excused' = (excused \/ Replaces(v, headline))
    /\ job' = [job EXCEPT ![j].pc = "wrote"]
    /\ UNCHANGED <<saved, stored, recent, lock, asked, directs, faults, due, owed, dropped>>

Store(j) ==
    LET v == job[j].snap IN
    /\ At(j, "wrote")
    /\ stored' = v
    /\ excused' = (~(v >= due /\ headline >= due) /\ (excused \/ Replaces(v, stored)))
    /\ owed' = owed \ job[j].ids
    /\ dropped' = dropped \ job[j].ids
    /\ End(j)
    /\ UNCHANGED <<saved, headline, recent, asked, directs, faults, due>>

Excuse(ids) ==
    /\ faults < MaxFaults /\ faults' = faults + 1
    /\ excused' = TRUE
    /\ dropped' = dropped \cup ids

\* The alerts cannot be read: what is made of none is written.
ReadFails(j) ==
    /\ At(j, "build")
    /\ Excuse(job[j].ids)
    /\ job' = [job EXCEPT ![j] = [pc |-> "read", snap |-> 0, ids |-> {}]]
    /\ UNCHANGED <<saved, headline, stored, recent, lock, asked, directs, due, owed>>

\* save_system_state swallows its failure: the page is written all the same.
LoseSummary(j) ==
    /\ At(j, "read")
    /\ Excuse({})
    /\ job' = [job EXCEPT ![j].pc = "wrote"]
    /\ UNCHANGED <<saved, headline, stored, recent, lock, asked, directs, due, owed>>

\* Mutant of Fail: the lock is kept.
FailLocked(j) ==
    /\ At(j, "build") \/ At(j, "wrote")
    /\ Excuse(job[j].ids)
    /\ job' = [job EXCEPT ![j] = IF j = Timer THEN Put("exit", {}) ELSE Idle]
    /\ UNCHANGED <<saved, headline, stored, recent, lock, asked, directs, due, owed>>

\* The build raises before it has anything to write, or the page is not written.
Fail(j) ==
    /\ At(j, "build") \/ At(j, "wrote")
    /\ Excuse(job[j].ids)
    /\ End(j)
    /\ UNCHANGED <<saved, headline, stored, recent, asked, directs, due, owed>>

Exit ==
    /\ At(Timer, "exit")
    /\ job' = [job EXCEPT ![Timer] = Idle]
    /\ UNCHANGED <<saved, headline, stored, recent, lock, asked, directs, faults, due, excused, owed, dropped>>

CoolDown ==
    /\ recent
    /\ recent' = FALSE
    /\ UNCHANGED <<saved, headline, stored, lock, job, asked, directs, faults, due, excused, owed, dropped>>

\* The process ends with its daemon threads, and starts with a direct build.
Restart(d) ==
    /\ faults < MaxFaults /\ faults' = faults + 1
    /\ job' = [j \in Job |-> IF j = d THEN Put("build", {}) ELSE Idle]
    /\ lock' = None
    /\ recent' = FALSE
    /\ excused' = TRUE
    /\ dropped' = dropped \cup owed
    /\ UNCHANGED <<saved, headline, stored, asked, directs, due, owed>>

Request ==
    \/ \E w \in Worker, ids \in SUBSET Id, force \in BOOLEAN : Spawn(w, ids, force)
    \/ Trail \/ Join \/ Forget

\* The steps of a thread that runs.
Run(j) ==
    \/ j \in Locked /\ (Begin(j) \/ FindBusy(j))
    \/ j \in Worker /\ (Defer(j) \/ Meet(j))
    \/ j = Timer /\ (Fire \/ MeetItself \/ Exit)
    \/ Read(j) \/ StoreSummary(j) \/ Store(j)

Next ==
    \/ Save \/ Request \/ CoolDown
    \/ \E j \in Job : Run(j) \/ ReadFails(j) \/ LoseSummary(j) \/ Fail(j)
    \/ \E d \in Direct : StartDirect(d) \/ Restart(d)

\* Threads run and timers fire.
Spec == Init /\ [][Next]_vars /\ \A j \in Job : WF_vars(Run(j))

(***************************************************************************)
(* Properties                                                              *)
(***************************************************************************)

\* Both rows show what the last accepted request is about.
Shown == headline >= due /\ stored >= due

\* A rebuild that has not read the alerts yet, or read them late enough.
WillShow(j) ==
    \/ job[j].pc \in {"waiting", "start", "busy", "build"}
    \/ At(j, "read") /\ job[j].snap >= due
    \/ At(j, "wrote") /\ job[j].snap >= due /\ headline >= due

\* "Alerts must NEVER be lost or dropped by debounce cooldowns ... guaranteed to
\* trigger a final rebuild" (performance_tracker.py:1503): what an accepted request
\* is about shows, or a rebuild that will show it is under way.
NeverDropped == Shown \/ \E j \in Job : WillShow(j)

\* Where the code keeps that word: always, unless a build failed or was killed, an
\* older summary was stored over a newer one, or a rebuild that found the lock taken
\* met a timer's thread that no longer waits; and the ids to recalculate are with
\* a rebuild, unless theirs failed, was killed, or met a timer that was alive.
NothingForgotten ==
    /\ excused \/ NeverDropped
    /\ \A i \in owed \ dropped : \E j \in Job : i \in job[j].ids

\* What an accepted request is about shows in the end, with the same exceptions.
Shows == ~Shown ~> (Shown \/ excused)

=============================================================================
