-------------------------- MODULE DurableUploadQueue --------------------------
(***************************************************************************)
(* app/durable_upload_queue.py: the queue that copies local cache files to *)
(* the table parquet_cache, with the callers that save a cache file        *)
(* (multibagger.py:488-516, screener_fetcher.py:64-77,                     *)
(* fundamentals_cache.py:86-101) and the loaders that write the database's *)
(* copy over it (multibagger.py:428-458, screener_fetcher.py:37-61,        *)
(* fundamentals_cache.py:44-50).                                           *)
(*                                                                         *)
(* The queue is a JSON file.  Every write of a job is a load, an upsert by *)
(* job id and an atomic save, all under _queue_lock, so one write is one   *)
(* step here.  One daemon thread per process loads the jobs to do, works   *)
(* through this copy, and writes each job back before and after its        *)
(* upload.  What the process holds in memory is lost by a crash.           *)
(*                                                                         *)
(* Abstracted: the contents of a file are a version number, 0 for what no  *)
(* scanner saved under its name (nothing yet, a file just opened for       *)
(* writing, the contents of another cache) and 1 for the newest row of an  *)
(* earlier day; the jobs of one pass are taken in any order; time is the   *)
(* set of jobs whose retry delay has passed, and a choice of the settled   *)
(* jobs that are older than 48 hours.  The process starts on a host with   *)
(* no files, which may find rows of an earlier day in the database.        *)
(***************************************************************************)
EXTENDS Integers, FiniteSets

CONSTANTS
    Job,            \* job ids
    Name,           \* cache names; each names one local file
    NameOf,         \* [Job -> Name]
    Synced,         \* the names whose loader downloads also over an existing file
    Earlier,        \* the names that have a row of an earlier day
    MaxAttempts,    \* _MAX_ATTEMPTS
    ResumesAtBoot,  \* may the process call resume_durable_uploads() when it starts
    Faults,         \* what may go wrong, a subset of AllFaults
    MaxVersion,     \* bound on the versions of a file
    MaxFaults,      \* bound on the crashes and damages together
    NoJob

AllFaults == {"crash", "unlink", "disk", "corrupt"}

ASSUME QueueAssumption ==
    /\ NameOf \in [Job -> Name]
    /\ Synced \subseteq Name /\ Earlier \subseteq Name
    /\ MaxAttempts \in Nat \ {0}
    /\ ResumesAtBoot \in BOOLEAN
    /\ Faults \subseteq AllFaults
    /\ MaxVersion \in Nat \ {0} /\ MaxFaults \in Nat
    /\ NoJob \notin Job

VARIABLES
    file,      \* [Name -> version of the local cache file]
    present,   \* the names whose local file exists
    saved,     \* [Name -> version that was saved last]
    loader,    \* [Name -> where a download of its row is]
    loaded,    \* [Name -> the content that download has fetched]
    db,        \* [Name -> version of the newest row of parquet_cache]
    status,    \* [Job -> status in the queue file, "absent" when not in it]
    attempts,  \* [Job -> attempts in the queue file]
    damages,   \* writes of the queue file that were lost, and files moved away
    wanted,    \* [Job -> version saved last when it was enqueued, 0 before]
    replaced,  \* jobs whose file a loader has written over since their save
    ripe,      \* jobs whose retry delay has elapsed
    daemon,    \* where the daemon thread is
    batch,     \* the jobs it has loaded and not yet processed
    tries,     \* [Job -> attempts in its copy of the job]
    cur,       \* the job it is processing
    buf,       \* the content it has read
    uploaded,  \* the result of upload_parquet_to_db
    boot,      \* the process is in resume_durable_uploads
    crashes

fileVars  == <<file, present, saved, loader, loaded>>
queueVars == <<status, attempts, damages>>
jobVars   == <<wanted, replaced>>
memVars   == <<daemon, batch, tries, cur, buf, uploaded>>
lifeVars  == <<boot, crashes>>
vars == <<fileVars, db, queueVars, jobVars, ripe, memVars, lifeVars>>

Unsettled == {"PENDING", "UPLOADING", "FAILED"}
Settled == {"SUCCESS", "ABANDONED"}
Status == Unsettled \cup Settled \cup {"absent"}

\* The daemon thread is in _process_job.
Busy == daemon \in {"check", "read", "upload", "finish"}

TypeOK ==
    /\ file \in [Name -> Nat]
    /\ present \in SUBSET Name
    /\ saved \in [Name -> Nat \ {0}]
    /\ loader \in [Name -> {"idle", "fetched", "opened"}]
    /\ loaded \in [Name -> Nat]
    /\ db \in [Name -> Nat]
    /\ status \in [Job -> Status]
    /\ attempts \in [Job -> Nat]
    /\ damages \in Nat
    /\ wanted \in [Job -> Nat]
    /\ replaced \in SUBSET Job
    /\ ripe \in SUBSET Job
    /\ daemon \in {"off", "load", "pick", "check", "read", "upload", "finish", "prune"}
    /\ batch \in SUBSET Job
    /\ tries \in [Job -> Nat]
    /\ cur \in Job \cup {NoJob} /\ (Busy => cur \in Job)
    /\ buf \in Nat
    /\ uploaded \in BOOLEAN
    /\ boot \in BOOLEAN
    /\ crashes \in Nat

Init ==
    /\ file = [n \in Name |-> 0]
    /\ present = {}
    /\ saved = [n \in Name |-> 1]
    /\ loader = [n \in Name |-> "idle"]
    /\ loaded = [n \in Name |-> 0]
    /\ db = [n \in Name |-> IF n \in Earlier THEN 1 ELSE 0]
    /\ status = [j \in Job |-> "absent"]
    /\ attempts = [j \in Job |-> 0]
    /\ damages = 0
    /\ wanted = [j \in Job |-> 0]
    /\ replaced = {}
    /\ ripe = {}
    /\ daemon = "off"
    /\ batch = {}
    /\ tries = [j \in Job |-> 0]
    /\ cur = NoJob
    /\ buf = 0
    /\ uploaded = FALSE
    /\ boot = FALSE
    /\ crashes = 0

\* One more crash or damage is within the bound.
Spare == crashes + damages < MaxFaults

\* _write_job: the upsert of one job.  _save_queue only logs a failed save.
WriteJob(j, s, n) ==
    \/ /\ status' = [status EXCEPT ![j] = s]
       /\ attempts' = [attempts EXCEPT ![j] = n]
       /\ UNCHANGED damages
    \/ /\ "disk" \in Faults /\ Spare
       /\ damages' = damages + 1
       /\ UNCHANGED <<status, attempts>>

(***************************************************************************)
(* The scanners                                                            *)
(***************************************************************************)

\* A loader that has the file open goes on writing to a file without a name.
LoseHandle(n) ==
    IF loader[n] = "opened"
    THEN loader' = [loader EXCEPT ![n] = "idle"] /\ loaded' = [loaded EXCEPT ![n] = 0]
    ELSE UNCHANGED <<loader, loaded>>

\* A scanner replaces its cache file, with or without an upload to follow.
SaveCache(n) ==
    /\ ~boot
    /\ saved[n] < MaxVersion
    /\ saved' = [saved EXCEPT ![n] = @ + 1]
    /\ file' = [file EXCEPT ![n] = saved[n] + 1]
    /\ present' = present \cup {n}
    /\ LoseHandle(n)
    /\ UNCHANGED <<db, queueVars, jobVars, ripe, memVars, lifeVars>>

\* enqueue_durable_upload, with the _ensure_daemon_running that ends it.  A
\* loader may have come between the save and this call.
Enqueue(j) ==
    LET n == NameOf[j] IN
    /\ ~boot
    /\ wanted[j] = 0
    /\ saved[n] > 1
    /\ wanted' = [wanted EXCEPT ![j] = saved[n]]
    /\ replaced' = IF file[n] = saved[n] THEN replaced ELSE replaced \cup {j}
    /\ WriteJob(j, "PENDING", 0)
    /\ daemon' = IF daemon = "off" THEN "load" ELSE daemon
    /\ UNCHANGED <<fileVars, db, ripe, batch, tries, cur, buf, uploaded, lifeVars>>

(***************************************************************************)
(* The loaders: load_cache and download_parquet_from_db                    *)
(***************************************************************************)

\* A loader downloads when the file is missing; that of a name in Synced also
\* when the file is old or the daily scan asks for it, and it takes the row of
\* another cache when its own is missing or cannot be read.
Fetch(n) ==
    /\ ~boot
    /\ loader[n] = "idle"
    /\ n \in Synced \/ n \notin present
    /\ \/ db[n] # 0 /\ loaded' = [loaded EXCEPT ![n] = db[n]]
       \/ n \in Synced /\ loaded' = [loaded EXCEPT ![n] = 0]
    /\ loader' = [loader EXCEPT ![n] = "fetched"]
    /\ UNCHANGED <<file, present, saved, db, queueVars, jobVars, ripe, memVars, lifeVars>>

\* open(file_path, "wb") empties the file that is there by now.
Open(n) ==
    /\ loader[n] = "fetched"
    /\ loader' = [loader EXCEPT ![n] = "opened"]
    /\ file' = [file EXCEPT ![n] = 0]
    /\ present' = present \cup {n}
    /\ replaced' = replaced \cup {j \in Job : NameOf[j] = n /\ wanted[j] # 0}
    /\ UNCHANGED <<saved, loaded, db, queueVars, wanted, ripe, memVars, lifeVars>>

Fill(n) ==
    /\ loader[n] = "opened"
    /\ loader' = [loader EXCEPT ![n] = "idle"]
    /\ file' = [file EXCEPT ![n] = loaded[n]]
    /\ loaded' = [loaded EXCEPT ![n] = 0]
    /\ UNCHANGED <<present, saved, db, queueVars, jobVars, ripe, memVars, lifeVars>>

(***************************************************************************)
(* _daemon_loop and _process_job                                           *)
(***************************************************************************)

\* _is_job_ready_for_retry
Ready(j) == status[j] = "PENDING" \/ (status[j] = "FAILED" /\ j \in ripe)

Load ==
    /\ daemon = "load"
    /\ batch' = {j \in Job : Ready(j)}
    /\ tries' = attempts
    /\ daemon' = "pick"
    /\ UNCHANGED <<fileVars, db, queueVars, jobVars, ripe, cur, buf, uploaded, lifeVars>>

Pick(j) ==
    /\ daemon = "pick" /\ j \in batch
    /\ batch' = batch \ {j}
    /\ cur' = j
    /\ tries' = [tries EXCEPT ![j] = @ + 1]
    /\ WriteJob(j, "UPLOADING", tries[j] + 1)
    /\ ripe' = ripe \ {j}
    /\ daemon' = "check"
    /\ UNCHANGED <<fileVars, db, jobVars, buf, uploaded, lifeVars>>

\* _process_job returns; what it held of the job is gone.
NextJob ==
    /\ cur' = NoJob
    /\ uploaded' = FALSE
    /\ daemon' = "pick"

FileMissing ==
    /\ daemon = "check" /\ NameOf[cur] \notin present
    /\ WriteJob(cur, "ABANDONED", tries[cur])
    /\ NextJob
    /\ UNCHANGED <<fileVars, db, jobVars, ripe, batch, tries, buf, lifeVars>>

FileFound ==
    /\ daemon = "check" /\ NameOf[cur] \in present
    /\ daemon' = "read"
    /\ UNCHANGED <<fileVars, db, queueVars, jobVars, ripe, batch, tries, cur, buf, uploaded, lifeVars>>

\* upload_parquet_to_db reads the file; it may have gone since the check.
ReadFile ==
    /\ daemon = "read"
    /\ \/ /\ NameOf[cur] \in present
          /\ buf' = file[NameOf[cur]]
          /\ daemon' = "upload"
          /\ UNCHANGED uploaded
       \/ /\ NameOf[cur] \notin present
          /\ uploaded' = FALSE
          /\ daemon' = "finish"
          /\ UNCHANGED buf
    /\ UNCHANGED <<fileVars, db, queueVars, jobVars, ripe, batch, tries, cur, lifeVars>>

\* Mutant of UploadCommits: the content is the one the job was enqueued with.
UploadCommitsSnapshot ==
    /\ daemon = "upload"
    /\ db' = [db EXCEPT ![NameOf[cur]] = wanted[cur]]
    /\ uploaded' \in BOOLEAN
    /\ buf' = 0
    /\ daemon' = "finish"
    /\ UNCHANGED <<fileVars, queueVars, jobVars, ripe, batch, tries, cur, lifeVars>>

\* The upsert commits; its caller may see an error all the same.
UploadCommits ==
    /\ daemon = "upload"
    /\ db' = [db EXCEPT ![NameOf[cur]] = buf]
    /\ uploaded' \in BOOLEAN
    /\ buf' = 0
    /\ daemon' = "finish"
    /\ UNCHANGED <<fileVars, queueVars, jobVars, ripe, batch, tries, cur, lifeVars>>

UploadFails ==
    /\ daemon = "upload"
    /\ uploaded' = FALSE
    /\ buf' = 0
    /\ daemon' = "finish"
    /\ UNCHANGED <<fileVars, db, queueVars, jobVars, ripe, batch, tries, cur, lifeVars>>

\* Mutant of Outcome: the name of a state that the daemon does not know.
OutcomeRetry == IF uploaded THEN "SUCCESS" ELSE "RETRY"

\* Mutant of Outcome: the result of the upload is not looked at.
OutcomeBlind == "SUCCESS"

\* Mutant of Outcome: the attempts are compared one too late.
OutcomeLate ==
    IF uploaded THEN "SUCCESS"
    ELSE IF tries[cur] > MaxAttempts THEN "ABANDONED" ELSE "FAILED"

Outcome ==
    IF uploaded THEN "SUCCESS"
    ELSE IF tries[cur] >= MaxAttempts THEN "ABANDONED" ELSE "FAILED"

FinishJob ==
    /\ daemon = "finish"
    /\ WriteJob(cur, Outcome, tries[cur])
    /\ NextJob
    /\ UNCHANGED <<fileVars, db, jobVars, ripe, batch, tries, buf, lifeVars>>

PassDone ==
    /\ daemon = "pick" /\ batch = {}
    /\ tries' = [j \in Job |-> 0]
    /\ daemon' = "prune"
    /\ UNCHANGED <<fileVars, db, queueVars, jobVars, ripe, batch, cur, buf, uploaded, lifeVars>>

\* Mutant of Prunable: open jobs go too.
PrunableAny == {j \in Job : status[j] # "absent"}

Prunable == {j \in Job : status[j] \in Settled}

\* Some of the settled jobs were created more than 48 hours ago.  The load, the
\* filter and the save are one critical section.
Prune ==
    /\ daemon = "prune"
    /\ \/ /\ \E S \in SUBSET Prunable :
               status' = [j \in Job |-> IF j \in S THEN "absent" ELSE status[j]]
          /\ UNCHANGED damages
       \/ /\ "disk" \in Faults /\ Spare
          /\ damages' = damages + 1
          /\ UNCHANGED status
    /\ daemon' = "load"
    /\ UNCHANGED <<fileVars, db, attempts, jobVars, ripe, batch, tries, cur, buf, uploaded, lifeVars>>

(***************************************************************************)
(* Start of the process                                                    *)
(***************************************************************************)

\* resume_durable_uploads: an interrupted job becomes PENDING again.
ResumeJob(j) ==
    /\ boot /\ status[j] = "UPLOADING"
    /\ WriteJob(j, "PENDING", attempts[j])
    /\ UNCHANGED <<fileVars, db, jobVars, ripe, memVars, lifeVars>>

\* The loop over the jobs is over; a job whose save failed stays UPLOADING.
ResumeDone ==
    /\ boot
    /\ "disk" \in Faults \/ \A j \in Job : status[j] # "UPLOADING"
    /\ boot' = FALSE
    /\ daemon' = "load"
    /\ UNCHANGED <<fileVars, db, queueVars, jobVars, ripe, batch, tries, cur, buf, uploaded, crashes>>

(***************************************************************************)
(* The environment                                                         *)
(***************************************************************************)

\* The retry delay of a FAILED job has passed.
Ripen(j) ==
    /\ status[j] = "FAILED" /\ j \notin ripe
    /\ ripe' = ripe \cup {j}
    /\ UNCHANGED <<fileVars, db, queueVars, jobVars, memVars, lifeVars>>

\* The process dies.  Nothing in the repository calls resume_durable_uploads()
\* when it starts again, though its docstring says that the start-up does: so it
\* may be called, or the open jobs wait for the next Enqueue.
Crash ==
    /\ "crash" \in Faults /\ Spare
    /\ crashes' = crashes + 1
    /\ daemon' = "off"
    /\ batch' = {}
    /\ tries' = [j \in Job |-> 0]
    /\ cur' = NoJob
    /\ buf' = 0
    /\ uploaded' = FALSE
    /\ boot' \in {FALSE, ResumesAtBoot}
    /\ loader' = [n \in Name |-> "idle"]
    /\ loaded' = [n \in Name |-> 0]
    /\ UNCHANGED <<file, present, saved, db, queueVars, jobVars, ripe>>

\* Someone removes a local cache file.
Unlink(n) ==
    /\ "unlink" \in Faults /\ n \in present
    /\ present' = present \ {n}
    /\ LoseHandle(n)
    /\ UNCHANGED <<file, saved, db, queueVars, jobVars, ripe, memVars, lifeVars>>

\* A load finds a file that is not a JSON list and moves it out of the way.
Quarantine ==
    /\ "corrupt" \in Faults /\ Spare
    /\ status' = [j \in Job |-> "absent"]
    /\ attempts' = [j \in Job |-> 0]
    /\ damages' = damages + 1
    /\ UNCHANGED <<fileVars, db, jobVars, ripe, memVars, lifeVars>>

Daemon ==
    \/ Load
    \/ \E j \in Job : Pick(j)
    \/ FileMissing \/ FileFound \/ ReadFile
    \/ UploadCommits \/ UploadFails
    \/ FinishJob \/ PassDone \/ Prune

Boot == ResumeDone \/ \E j \in Job : ResumeJob(j)

Next ==
    \/ \E n \in Name : SaveCache(n) \/ Unlink(n) \/ Fetch(n) \/ Open(n) \/ Fill(n)
    \/ \E j \in Job : Enqueue(j) \/ Ripen(j)
    \/ Daemon
    \/ Boot
    \/ Crash
    \/ Quarantine

Spec == Init /\ [][Next]_vars

(***************************************************************************)
(* Properties                                                              *)
(***************************************************************************)

\* A job is SUCCESS only when the database holds what was saved when it was
\* enqueued, or newer, unless a loader wrote over the file in the meantime:
\* crashes, retries, lost answers and a lost queue file never make one
\* (_process_job writes SUCCESS last; the loader is download_parquet_from_db).
BackedUp ==
    \A j \in Job : status[j] = "SUCCESS" /\ j \notin replaced => db[NameOf[j]] >= wanted[j]

\* Only a loader takes the database back to older content: a late retry of an
\* old job does not, as the content is read when it is uploaded, not when it is
\* enqueued, and neither does the answer of a loader that a new save overtook.
OnlyLoadersRegress ==
    [][\A n \in Name : db'[n] >= db[n] \/ \E j \in replaced' : NameOf[j] = n]_vars

\* A job is tried MaxAttempts times, and once more for every crash that
\* interrupted one of its uploads (resume keeps the attempts of a job).
RetryBound == \A j \in Job : attempts[j] <= MaxAttempts + crashes

\* The state of the promise that a job stands for.
PromiseOf(j) ==
    CASE wanted[j] = 0 -> "new"
      [] wanted[j] # 0 /\ status[j] \in Unsettled -> "open"
      [] wanted[j] # 0 /\ status[j] = "SUCCESS" -> "kept"
      [] wanted[j] # 0 /\ status[j] = "ABANDONED" -> "broken"
      [] wanted[j] # 0 /\ status[j] = "absent" -> "forgotten"

Abstract == INSTANCE Outbox WITH
    backup <- db,
    need <- wanted,
    lost <- replaced,
    sound <- damages = 0,
    promise <- [j \in Job |-> PromiseOf(j)]

\* As long as every write of the queue file went through, no open job is ever
\* dropped, no settled one reopened, and none settled without its upload,
\* loaders or not, crashes or not.
RefinesOutbox == Abstract!Init /\ [][Abstract!Next]_(Abstract!vars)
=============================================================================
