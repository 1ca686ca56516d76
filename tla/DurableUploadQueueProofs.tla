----------------------- MODULE DurableUploadQueueProofs -----------------------
(* Theorems about DurableUploadQueue, for any number of jobs and crashes. *)
EXTENDS DurableUploadQueue, TLAPS

(***************************************************************************)
(* Types                                                                   *)
(***************************************************************************)

\* Every step of the queue keeps its variables in their types.
LEMMA TypeStep == TypeOK /\ [Next]_vars => TypeOK'
<1> SUFFICES ASSUME TypeOK, [Next]_vars PROVE TypeOK'
  OBVIOUS
<1> USE QueueAssumption DEF TypeOK, fileVars, queueVars, jobVars, memVars, lifeVars, WriteJob,
        Status, Unsettled, Settled, Busy
<1>1. ASSUME NEW n \in Name, SaveCache(n) PROVE TypeOK'
  BY <1>1 DEF SaveCache, LoseHandle
<1>2. ASSUME NEW n \in Name, Unlink(n) PROVE TypeOK'
  BY <1>2 DEF Unlink, LoseHandle
<1>3. ASSUME NEW j \in Job, Enqueue(j) PROVE TypeOK'
  BY <1>3 DEF Enqueue
<1>4. ASSUME NEW j \in Job, Ripen(j) PROVE TypeOK'
  BY <1>4 DEF Ripen
<1>5. ASSUME NEW n \in Name, Fetch(n) \/ Open(n) \/ Fill(n) PROVE TypeOK'
  BY <1>5 DEF Fetch, Open, Fill
<1>6. CASE Load
  BY <1>6 DEF Load
<1>7. ASSUME NEW j \in Job, Pick(j) PROVE TypeOK'
  BY <1>7 DEF Pick
<1>8. CASE FileMissing
  <2>1. uploaded' \in BOOLEAN
    BY <1>8, Zenon DEF FileMissing, NextJob
  <2> QED
    BY <1>8, <2>1 DEF FileMissing, NextJob
<1>9. CASE FileFound
  BY <1>9 DEF FileFound
<1>10. CASE ReadFile
  <2>1. NameOf[cur] \in Name
    BY <1>10 DEF ReadFile
  <2>2. buf' \in Nat
    BY <1>10, <2>1 DEF ReadFile
  <2>3. uploaded' \in BOOLEAN
    BY <1>10, Zenon DEF ReadFile
  <2> QED
    BY <1>10, <2>2, <2>3 DEF ReadFile
<1>11. CASE UploadCommits
  BY <1>11 DEF UploadCommits
<1>12. CASE UploadFails
  BY <1>12 DEF UploadFails
<1>13. CASE FinishJob
  <2>1. uploaded' \in BOOLEAN
    BY <1>13, Zenon DEF FinishJob, NextJob
  <2> QED
    BY <1>13, <2>1 DEF FinishJob, Outcome, NextJob
<1>14. CASE PassDone
  BY <1>14 DEF PassDone
<1>15. CASE Prune
  BY <1>15 DEF Prune
<1>16. ASSUME NEW j \in Job, ResumeJob(j) PROVE TypeOK'
  BY <1>16 DEF ResumeJob
<1>17. CASE ResumeDone
  BY <1>17 DEF ResumeDone
<1>18. CASE Crash
  <2>1. boot' \in BOOLEAN /\ uploaded' \in BOOLEAN
    BY <1>18, Zenon DEF Crash
  <2>2. tries' \in [Job -> Nat]
    BY <1>18 DEF Crash
  <2> QED
    BY <1>18, <2>1, <2>2 DEF Crash
<1>19. CASE Quarantine
  BY <1>19 DEF Quarantine
<1>20. CASE UNCHANGED vars
  BY <1>20 DEF vars
<1> QED
  BY <1>1, <1>2, <1>3, <1>4, <1>5, <1>6, <1>7, <1>8, <1>9, <1>10, <1>11, <1>12, <1>13,
     <1>14, <1>15, <1>16, <1>17, <1>18, <1>19, <1>20 DEF Next, Daemon, Boot

\* The variables of the queue keep their types.
THEOREM TypeCorrect == Spec => []TypeOK
<1>1. ASSUME Init PROVE TypeOK
  <2>1. boot \in BOOLEAN /\ uploaded \in BOOLEAN
    BY <1>1, Zenon DEF Init
  <2> QED
    BY <1>1, <2>1 DEF Init, TypeOK, Status, Unsettled, Settled, Busy
<1> QED
  BY <1>1, TypeStep, PTL DEF Spec

(***************************************************************************)
(* A job that is SUCCESS is backed up                                      *)
(***************************************************************************)

\* No content is newer than what was saved last, and the file of a job that no
\* loader disturbed has that content.
Versions ==
    /\ \A n \in Name : /\ saved[n] <= MaxVersion
                       /\ file[n] <= saved[n] /\ loaded[n] <= saved[n] /\ db[n] <= saved[n]
                       /\ loader[n] = "opened" => file[n] = 0
    /\ \A j \in Job : wanted[j] <= saved[NameOf[j]]
    /\ \A j \in Job : wanted[j] # 0 /\ j \notin replaced => file[NameOf[j]] = saved[NameOf[j]]

\* Every job that the queue or the daemon knows has been enqueued.
Known ==
    /\ \A j \in Job : status[j] # "absent" => wanted[j] # 0
    /\ \A j \in replaced \cup batch : wanted[j] # 0
    /\ Busy => wanted[cur] # 0

\* What the daemon holds between the read and the final write of a job.
InFlight ==
    /\ daemon = "upload" =>
          /\ buf <= saved[NameOf[cur]]
          /\ cur \notin replaced => db[NameOf[cur]] <= buf
          /\ \A j \in Job \ replaced :
                NameOf[j] = NameOf[cur] /\ (j = cur \/ status[j] = "SUCCESS") => wanted[j] <= buf
    /\ daemon = "finish" /\ uploaded /\ cur \notin replaced => wanted[cur] <= db[NameOf[cur]]

BackedInv == Versions /\ Known /\ InFlight /\ BackedUp

\* Every step keeps BackedInv: a SUCCESS, in the file or in the daemon's copy, follows
\* an upload, and what was uploaded is what was saved last, but for the loaders.
LEMMA BackedStep == TypeOK /\ BackedInv /\ [Next]_vars => BackedInv'
<1> SUFFICES ASSUME TypeOK, BackedInv, [Next]_vars PROVE BackedInv'
  OBVIOUS
<1> USE QueueAssumption DEF TypeOK, BackedInv, Versions, Known, InFlight, BackedUp, Busy,
        fileVars, queueVars, jobVars, memVars, lifeVars, WriteJob
<1>1. ASSUME NEW n \in Name, SaveCache(n) PROVE BackedInv'
  BY <1>1 DEF SaveCache, LoseHandle
<1>2. ASSUME NEW n \in Name, Unlink(n) PROVE BackedInv'
  BY <1>2 DEF Unlink, LoseHandle
<1>3. ASSUME NEW j \in Job, Enqueue(j) PROVE BackedInv'
  BY <1>3 DEF Enqueue
<1>4. ASSUME NEW j \in Job, Ripen(j) PROVE BackedInv'
  BY <1>4 DEF Ripen
<1>5. ASSUME NEW n \in Name, Fetch(n) \/ Open(n) \/ Fill(n) PROVE BackedInv'
  <2>1. CASE Fetch(n)
    <3>1. Versions'
      <4>1. /\ \A m \in Name \ {n} : loaded'[m] = loaded[m] /\ loader'[m] = loader[m]
            /\ loaded'[n] \in {0, db[n]} /\ loader'[n] = "fetched"
        BY <2>1 DEF Fetch
      <4> QED
        BY <2>1, <4>1 DEF Fetch
    <3>2. Known' /\ InFlight' /\ BackedUp'
      BY <2>1 DEF Fetch
    <3> QED
      BY <3>1, <3>2
  <2>2. CASE Open(n)
    <3>1. \A m \in Name \ {n} : file'[m] = file[m] /\ loader'[m] = loader[m]
      BY <2>2 DEF Open
    <3>2. Versions'
      BY <2>2, <3>1 DEF Open
    <3>3. Known' /\ InFlight' /\ BackedUp'
      BY <2>2 DEF Open
    <3> QED
      BY <3>2, <3>3
  <2>3. CASE Fill(n)
    <3>1. \A j \in Job : NameOf[j] = n /\ wanted[j] # 0 => j \in replaced
      BY <2>3 DEF Fill
    <3>2. \A m \in Name \ {n} : file'[m] = file[m] /\ loader'[m] = loader[m] /\ loaded'[m] = loaded[m]
      BY <2>3 DEF Fill
    <3>3. loaded'[n] = 0 /\ file'[n] = loaded[n] /\ loader'[n] = "idle"
      BY <2>3 DEF Fill
    <3>5. \A m \in Name : file'[m] <= saved[m] /\ loaded'[m] <= saved[m]
      BY <3>2, <3>3
    <3>6. Versions'
      <4>1. UNCHANGED <<saved, db, wanted, replaced>>
        BY <2>3 DEF Fill
      <4>2. \A m \in Name : loader'[m] = "opened" => file'[m] = 0
        BY <3>2, <3>3
      <4>3. \A j \in Job : wanted[j] # 0 /\ j \notin replaced => file'[NameOf[j]] = saved[NameOf[j]]
        BY <3>1, <3>2
      <4> QED
        BY <3>5, <4>1, <4>2, <4>3
    <3>4. Known' /\ InFlight' /\ BackedUp'
      BY <2>3 DEF Fill
    <3> QED
      BY <3>4, <3>6
  <2> QED
    BY <1>5, <2>1, <2>2, <2>3
<1>6. CASE Load
  BY <1>6 DEF Load, Ready
<1>7. ASSUME NEW j \in Job, Pick(j) PROVE BackedInv'
  BY <1>7 DEF Pick
<1>8. CASE FileMissing
  BY <1>8 DEF FileMissing, NextJob
<1>9. CASE FileFound
  BY <1>9 DEF FileFound
<1>10. CASE ReadFile
  <2>1. Versions' /\ Known' /\ BackedUp'
    <3>1. /\ UNCHANGED <<file, saved, loader, loaded, db, status, wanted, replaced, batch, cur>>
          /\ cur \in Job /\ wanted[cur] # 0
      BY <1>10 DEF ReadFile
    <3> QED
      BY <3>1
  <2>2. \A j \in Job \ replaced :
           wanted[j] # 0 /\ NameOf[j] = NameOf[cur] => wanted[j] <= file[NameOf[cur]]
    OBVIOUS
  <2>3. /\ cur \in Job /\ wanted[cur] # 0 /\ NameOf[cur] \in Name
        /\ cur \notin replaced => db[NameOf[cur]] <= file[NameOf[cur]]
    BY <1>10 DEF ReadFile
  <2>4. CASE daemon' = "upload"
    <3>1. /\ buf' = file[NameOf[cur]]
          /\ UNCHANGED <<saved, db, status, wanted, replaced, cur>>
      BY <1>10, <2>4 DEF ReadFile
    <3>2. \A j \in Job : status[j] = "SUCCESS" => wanted[j] # 0
      OBVIOUS
    <3>3. InFlight'
      BY <2>2, <2>3, <2>4, <3>1, <3>2
    <3> QED
      BY <2>1, <3>3
  <2>5. CASE daemon' = "finish"
    BY <1>10, <2>5 DEF ReadFile
  <2> QED
    BY <1>10, <2>1, <2>4, <2>5 DEF ReadFile
<1>11. CASE UploadCommits
  <2>1. cur \in Job /\ NameOf[cur] \in Name /\ buf <= saved[NameOf[cur]]
    BY <1>11 DEF UploadCommits
  <2>2. \A n \in Name : db'[n] = IF n = NameOf[cur] THEN buf ELSE db[n]
    BY <1>11 DEF UploadCommits
  <2>3. Versions' /\ Known' /\ InFlight'
    BY <1>11, <2>1, <2>2 DEF UploadCommits
  <2>4. BackedUp'
    <3>1. daemon = "upload" /\ UNCHANGED <<status, wanted, replaced>>
      BY <1>11 DEF UploadCommits
    <3> QED
      BY <2>1, <2>2, <3>1
  <2> QED
    BY <2>3, <2>4
<1>12. CASE UploadFails
  BY <1>12 DEF UploadFails
<1>13. CASE FinishJob
  BY <1>13 DEF FinishJob, Outcome, NextJob
<1>14. CASE PassDone
  BY <1>14 DEF PassDone
<1>15. CASE Prune
  BY <1>15 DEF Prune
<1>16. ASSUME NEW j \in Job, ResumeJob(j) PROVE BackedInv'
  BY <1>16 DEF ResumeJob
<1>17. CASE ResumeDone
  BY <1>17 DEF ResumeDone
<1>18. CASE Crash
  BY <1>18 DEF Crash
<1>19. CASE Quarantine
  BY <1>19 DEF Quarantine
<1>20. CASE UNCHANGED vars
  BY <1>20 DEF vars
<1> QED
  BY <1>1, <1>2, <1>3, <1>4, <1>5, <1>6, <1>7, <1>8, <1>9, <1>10, <1>11, <1>12, <1>13,
     <1>14, <1>15, <1>16, <1>17, <1>18, <1>19, <1>20 DEF Next, Daemon, Boot

\* BackedInv always holds.
LEMMA BackedInductive == Spec => []BackedInv
<1>1. Init => BackedInv
  BY QueueAssumption DEF Init, BackedInv, Versions, Known, InFlight, BackedUp, Busy
<1> QED
  BY <1>1, BackedStep, TypeCorrect, PTL DEF Spec

\* A job is SUCCESS only when the database holds what was saved when it was
\* enqueued, or newer content (_process_job), whatever fails: only a loader that
\* wrote over its file can have made it SUCCESS with other content.
THEOREM SuccessIsBackedUp == Spec => []BackedUp
<1>1. BackedInv => BackedUp
  BY DEF BackedInv
<1> QED
  BY <1>1, BackedInductive, PTL

\* No step of the queue puts older content back into the database, except the
\* upload of a file that a loader wrote over after its content had been saved.
THEOREM OnlyOverwrittenRegress == Spec => OnlyLoadersRegress
<1>1. TypeOK /\ BackedInv /\ [Next]_vars
        => [\A n \in Name : db'[n] >= db[n] \/ \E j \in replaced' : NameOf[j] = n]_vars
  <2> SUFFICES ASSUME TypeOK, BackedInv, Next
               PROVE  \A n \in Name : db'[n] >= db[n] \/ \E j \in replaced' : NameOf[j] = n
    OBVIOUS
  <2>1. CASE UploadCommits
    BY <2>1 DEF UploadCommits, TypeOK, BackedInv, InFlight, Busy, jobVars
  <2>2. CASE UNCHANGED db
    BY <2>2 DEF TypeOK
  <2> QED
    BY <2>1, <2>2 DEF Next, Daemon, Boot, SaveCache, Unlink, Fetch, Open, Fill, Enqueue, Ripen, Load,
        Pick, FileMissing, FileFound, ReadFile, UploadFails, FinishJob, PassDone, Prune,
        ResumeJob, ResumeDone, Crash, Quarantine, TypeOK
<1> QED
  BY <1>1, TypeCorrect, BackedInductive, PTL DEF Spec, OnlyLoadersRegress

(***************************************************************************)
(* The number of attempts                                                  *)
(***************************************************************************)

\* Everything that may still be tried again has an attempt left.
Left ==
    /\ \A j \in Job : status[j] \in {"PENDING", "FAILED"} => attempts[j] < MaxAttempts + crashes
    /\ \A j \in batch : tries[j] < MaxAttempts + crashes
    /\ Busy => tries[cur] <= MaxAttempts + crashes

\* While the process starts, the interrupted jobs have one more attempt,
\* on account of the crash that interrupted them.
Interrupted ==
    boot => /\ daemon = "off"
            /\ \A j \in Job : status[j] = "UPLOADING" => attempts[j] < MaxAttempts + crashes

RetryInv == Left /\ Interrupted /\ RetryBound

\* Every step keeps RetryInv: the attempts made are those the file counts and those a crash cut off.
LEMMA RetryStep == TypeOK /\ RetryInv /\ [Next]_vars => RetryInv'
<1> SUFFICES ASSUME TypeOK, RetryInv, [Next]_vars PROVE RetryInv'
  OBVIOUS
<1> USE QueueAssumption DEF TypeOK, RetryInv, Left, Interrupted, RetryBound, Busy,
        fileVars, queueVars, jobVars, memVars, lifeVars, WriteJob
<1>1. ASSUME NEW n \in Name, SaveCache(n) PROVE RetryInv'
  BY <1>1 DEF SaveCache, LoseHandle
<1>2. ASSUME NEW n \in Name, Unlink(n) PROVE RetryInv'
  BY <1>2 DEF Unlink, LoseHandle
<1>3. ASSUME NEW j \in Job, Enqueue(j) PROVE RetryInv'
  BY <1>3 DEF Enqueue
<1>4. ASSUME NEW j \in Job, Ripen(j) PROVE RetryInv'
  BY <1>4 DEF Ripen
<1>5. ASSUME NEW n \in Name, Fetch(n) \/ Open(n) \/ Fill(n) PROVE RetryInv'
  BY <1>5 DEF Fetch, Open, Fill
<1>6. CASE Load
  BY <1>6 DEF Load, Ready
<1>7. ASSUME NEW j \in Job, Pick(j) PROVE RetryInv'
  BY <1>7 DEF Pick
<1>8. CASE FileMissing
  BY <1>8 DEF FileMissing, NextJob
<1>9. CASE FileFound
  BY <1>9 DEF FileFound
<1>10. CASE ReadFile
  BY <1>10 DEF ReadFile
<1>11. CASE UploadCommits
  BY <1>11 DEF UploadCommits
<1>12. CASE UploadFails
  BY <1>12 DEF UploadFails
<1>13. CASE FinishJob
  BY <1>13 DEF FinishJob, Outcome, NextJob
<1>14. CASE PassDone
  BY <1>14 DEF PassDone
<1>15. CASE Prune
  BY <1>15 DEF Prune
<1>16. ASSUME NEW j \in Job, ResumeJob(j) PROVE RetryInv'
  BY <1>16 DEF ResumeJob
<1>17. CASE ResumeDone
  BY <1>17 DEF ResumeDone
<1>18. CASE Crash
  BY <1>18 DEF Crash
<1>19. CASE Quarantine
  BY <1>19 DEF Quarantine
<1>20. CASE UNCHANGED vars
  BY <1>20 DEF vars
<1> QED
  BY <1>1, <1>2, <1>3, <1>4, <1>5, <1>6, <1>7, <1>8, <1>9, <1>10, <1>11, <1>12, <1>13,
     <1>14, <1>15, <1>16, <1>17, <1>18, <1>19, <1>20 DEF Next, Daemon, Boot

\* A job is tried MaxAttempts times, and once more for every crash: the
\* attempts survive resume_durable_uploads and every failed save.
THEOREM RetriesBounded == Spec => []RetryBound
<1>1. Init => RetryInv
  BY QueueAssumption DEF Init, RetryInv, Left, Interrupted, RetryBound, Busy
<1>2. RetryInv => RetryBound
  BY DEF RetryInv
<1> QED
  BY <1>1, <1>2, RetryStep, TypeCorrect, PTL DEF Spec

(***************************************************************************)
(* The queue implements Outbox                                             *)
(***************************************************************************)

\* No write of the queue file was lost so far.
Undamaged == damages = 0

\* What the daemon holds agrees with the queue file.
InStep ==
    /\ \A j \in batch : status[j] \in {"PENDING", "FAILED"}
    /\ Busy => status[cur] = "UPLOADING" /\ cur \notin batch
    /\ boot => daemon = "off"
    /\ daemon = "off" => batch = {}

\* Damages are counted and never repaired.
LEMMA DamagesStay == TypeOK /\ [Next]_vars => (Undamaged' => Undamaged)
<1> SUFFICES ASSUME TypeOK, Next PROVE damages' = damages \/ damages' = damages + 1
  BY DEF TypeOK, Undamaged, vars, queueVars
<1> QED
  BY DEF Next, Daemon, Boot, SaveCache, Unlink, Fetch, Open, Fill, Enqueue, Ripen, Load, Pick,
     FileMissing, FileFound, ReadFile, UploadCommits, UploadFails, FinishJob, PassDone, Prune,
     ResumeJob, ResumeDone, Crash, Quarantine, WriteJob, queueVars

\* Every step keeps InStep while every write of the queue file goes through.
LEMMA InStepStep ==
    TypeOK /\ BackedInv /\ (Undamaged => InStep) /\ [Next]_vars => (Undamaged => InStep)'
<1> SUFFICES ASSUME TypeOK, BackedInv, InStep, [Next]_vars, Undamaged, Undamaged' PROVE InStep'
  BY DamagesStay
<1> USE QueueAssumption DEF Undamaged, TypeOK, BackedInv, Known, InStep, Busy,
        fileVars, queueVars, jobVars, memVars, lifeVars, WriteJob
<1>1. ASSUME NEW n \in Name, SaveCache(n) PROVE InStep'
  BY <1>1 DEF SaveCache, LoseHandle
<1>2. ASSUME NEW n \in Name, Unlink(n) PROVE InStep'
  BY <1>2 DEF Unlink, LoseHandle
<1>3. ASSUME NEW j \in Job, Enqueue(j) PROVE InStep'
  BY <1>3 DEF Enqueue
<1>4. ASSUME NEW j \in Job, Ripen(j) PROVE InStep'
  BY <1>4 DEF Ripen
<1>5. ASSUME NEW n \in Name, Fetch(n) \/ Open(n) \/ Fill(n) PROVE InStep'
  BY <1>5 DEF Fetch, Open, Fill
<1>6. CASE Load
  BY <1>6 DEF Load, Ready
<1>7. ASSUME NEW j \in Job, Pick(j) PROVE InStep'
  BY <1>7 DEF Pick
<1>8. CASE FileMissing
  BY <1>8 DEF FileMissing, NextJob
<1>9. CASE FileFound
  BY <1>9 DEF FileFound
<1>10. CASE ReadFile
  BY <1>10 DEF ReadFile
<1>11. CASE UploadCommits
  BY <1>11 DEF UploadCommits
<1>12. CASE UploadFails
  BY <1>12 DEF UploadFails
<1>13. CASE FinishJob
  BY <1>13 DEF FinishJob, Outcome, NextJob
<1>14. CASE PassDone
  BY <1>14 DEF PassDone
<1>15. CASE Prune
  BY <1>15 DEF Prune, Prunable, Settled
<1>16. ASSUME NEW j \in Job, ResumeJob(j) PROVE InStep'
  BY <1>16 DEF ResumeJob
<1>17. CASE ResumeDone
  BY <1>17 DEF ResumeDone
<1>18. CASE Crash
  BY <1>18 DEF Crash
<1>19. CASE Quarantine
  BY <1>19 DEF Quarantine
<1>20. CASE UNCHANGED vars
  BY <1>20 DEF vars
<1> QED
  BY <1>1, <1>2, <1>3, <1>4, <1>5, <1>6, <1>7, <1>8, <1>9, <1>10, <1>11, <1>12, <1>13,
     <1>14, <1>15, <1>16, <1>17, <1>18, <1>19, <1>20 DEF Next, Daemon, Boot

\* The promises, as a function of the state.
Promises == [j \in Job |-> PromiseOf(j)]

\* A step that leaves the database and the known jobs alone, and moves jobs
\* at most between unsettled states, is a stuttering step of Outbox.
LEMMA Stutter ==
    ASSUME TypeOK, BackedInv, UNCHANGED <<db, wanted>>,
           damages' = damages, replaced' = replaced,
           \A j \in Job : status'[j] = status[j] \/ {status[j], status'[j]} \subseteq Unsettled
    PROVE  UNCHANGED Abstract!vars
<1>1. \A j \in Job : PromiseOf(j)' = PromiseOf(j)
  BY DEF PromiseOf, Unsettled, TypeOK, BackedInv, Known
<1> QED
  BY <1>1 DEF Abstract!vars

\* A job that alone changes its state changes its promise alone.
LEMMA OnePromise ==
    ASSUME TypeOK, BackedInv, NEW j \in Job, wanted[j] # 0, NEW s \in Status,
           UNCHANGED wanted, status' = [status EXCEPT ![j] = s]
    PROVE  Promises' = [Promises EXCEPT ![j] =
             IF s \in Unsettled THEN "open" ELSE IF s = "SUCCESS" THEN "kept"
             ELSE IF s = "ABANDONED" THEN "broken" ELSE "forgotten"]
  BY DEF Promises, PromiseOf, Unsettled, Settled, Status, TypeOK, BackedInv, Known

\* The version that was saved last is one of those the promises are about.
LEMMA SavedRange == TypeOK /\ BackedInv => \A n \in Name : saved[n] \in 1..MaxVersion
<1> SUFFICES ASSUME TypeOK, BackedInv, NEW n \in Name PROVE saved[n] \in 1..MaxVersion
  OBVIOUS
<1>1. saved[n] \in Nat \ {0}
  BY DEF TypeOK
<1>2. saved[n] <= MaxVersion
  BY DEF BackedInv, Versions
<1> QED
  BY <1>1, <1>2, QueueAssumption

\* Every step of the queue is a step of Outbox or changes none of its variables; the
\* step that damages the queue file is the last that says anything.
LEMMA OutboxStep ==
    TypeOK /\ BackedInv /\ (Undamaged => InStep) /\ [Next]_vars => [Abstract!Next]_(Abstract!vars)
<1> SUFFICES ASSUME TypeOK, BackedInv, InStep, [Next]_vars, Undamaged, Undamaged'
             PROVE  Abstract!Next \/ UNCHANGED Abstract!vars
  <2>1. CASE ~Undamaged'
    BY <2>1 DEF Undamaged, Abstract!Next, Abstract!Damaged
  <2> QED
    BY <2>1, DamagesStay
<1> USE QueueAssumption DEF Undamaged, WriteJob, fileVars, queueVars, jobVars, memVars, lifeVars
<1>1. CASE UNCHANGED <<db, wanted, replaced, status, damages>>
  BY <1>1, Stutter
<1>2. ASSUME NEW j \in Job, Enqueue(j) PROVE Abstract!Next
  <2>1. wanted[j] = 0 /\ saved[NameOf[j]] \in 1..MaxVersion
    <3>1. wanted[j] = 0 /\ NameOf[j] \in Name
      BY <1>2 DEF Enqueue
    <3> QED
      BY <3>1, SavedRange
  <2>2. Promises[j] = "new" /\ Promises' = [Promises EXCEPT ![j] = "open"]
    <3>1. /\ wanted' = [wanted EXCEPT ![j] = saved[NameOf[j]]]
          /\ status' = [status EXCEPT ![j] = "PENDING"]
      BY <1>2 DEF Enqueue
    <3>2. PromiseOf(j) = "new"
      BY <2>1 DEF PromiseOf
    <3>3. wanted'[j] # 0 /\ status'[j] \in Unsettled
      BY <2>1, <3>1 DEF TypeOK, Unsettled
    <3>4. PromiseOf(j)' = "open"
      BY <3>3 DEF PromiseOf, Unsettled
    <3>5. \A k \in Job \ {j} : PromiseOf(k)' = PromiseOf(k)
      BY <3>1 DEF PromiseOf, TypeOK
    <3> QED
      BY <3>2, <3>4, <3>5 DEF Promises
  <2>3. Abstract!Promise(j, saved[NameOf[j]])
    BY <1>2, <2>1, <2>2 DEF Enqueue, Abstract!Promise, Promises
  <2> QED
    BY <2>1, <2>3 DEF Abstract!Next
<1>3. ASSUME NEW j \in Job, Pick(j) PROVE UNCHANGED Abstract!vars
  BY <1>3, Stutter DEF Pick, InStep, Unsettled, TypeOK
<1>4. CASE FileMissing
  <2>1. cur \in Job /\ wanted[cur] # 0 /\ status[cur] = "UPLOADING"
    BY <1>4 DEF FileMissing, TypeOK, Busy, BackedInv, Known, InStep
  <2>2. Promises[cur] = "open" /\ Promises' = [Promises EXCEPT ![cur] = "broken"]
    <3>1. Promises[cur] = "open"
      BY <2>1 DEF Promises, PromiseOf, Unsettled
    <3>2. "ABANDONED" \in Status /\ "ABANDONED" \notin Unsettled
      BY DEF Status, Settled, Unsettled
    <3>3. status' = [status EXCEPT ![cur] = "ABANDONED"] /\ UNCHANGED wanted
      BY <1>4 DEF FileMissing
    <3> QED
      BY <2>1, <3>1, <3>2, <3>3, OnePromise
  <2>3. Abstract!Break(cur)
    BY <1>4, <2>2 DEF FileMissing, Abstract!Break, Promises
  <2> QED
    BY <2>1, <2>3 DEF Abstract!Next
<1>5. CASE UploadCommits
  <2>1. /\ NameOf[cur] \in Name /\ buf \in 0..MaxVersion
        /\ buf >= db[NameOf[cur]] \/ cur \in replaced
    <3>1. NameOf[cur] \in Name /\ buf \in Nat /\ buf <= saved[NameOf[cur]]
      BY <1>5 DEF UploadCommits, TypeOK, Busy, BackedInv, InFlight
    <3>2. saved[NameOf[cur]] \in 1..MaxVersion
      BY <3>1, SavedRange
    <3>3. buf >= db[NameOf[cur]] \/ cur \in replaced
      BY <1>5, <3>1 DEF UploadCommits, TypeOK, BackedInv, InFlight
    <3> QED
      BY <3>1, <3>2, <3>3
  <2>2. \A j \in Job : PromiseOf(j)' = PromiseOf(j)
    BY <1>5 DEF UploadCommits, PromiseOf
  <2>3. Abstract!Backup(NameOf[cur], buf)
    BY <1>5, <2>1, <2>2 DEF UploadCommits, Abstract!Backup
  <2> QED
    BY <2>1, <2>3 DEF Abstract!Next
<1>6. CASE FinishJob
  <2>1. cur \in Job /\ wanted[cur] # 0 /\ status[cur] = "UPLOADING"
    BY <1>6 DEF FinishJob, TypeOK, Busy, BackedInv, Known, InStep
  <2>2. Promises[cur] = "open"
    BY <2>1 DEF Promises, PromiseOf, Unsettled
  <2>3. status' = [status EXCEPT ![cur] = Outcome] /\ UNCHANGED <<db, wanted, replaced, damages>>
    BY <1>6 DEF FinishJob
  <2>4. CASE uploaded
    <3>1. Outcome = "SUCCESS" /\ (db[NameOf[cur]] >= wanted[cur] \/ cur \in replaced)
      BY <1>6, <2>4 DEF FinishJob, Outcome, BackedInv, InFlight, TypeOK
    <3>2. Promises' = [Promises EXCEPT ![cur] = "kept"]
      BY <2>1, <2>3, <3>1, OnePromise DEF Status, Settled, Unsettled
    <3>3. Abstract!Keep(cur)
      BY <2>2, <2>3, <3>1, <3>2 DEF Abstract!Keep, Promises
    <3> QED
      BY <2>1, <3>3 DEF Abstract!Next
  <2>5. CASE Outcome = "ABANDONED"
    <3>1. Promises' = [Promises EXCEPT ![cur] = "broken"]
      BY <2>1, <2>3, <2>5, OnePromise DEF Status, Settled, Unsettled
    <3>2. Abstract!Break(cur)
      BY <2>2, <2>3, <3>1 DEF Abstract!Break, Promises
    <3> QED
      BY <2>1, <3>2 DEF Abstract!Next
  <2>6. CASE Outcome = "FAILED"
    BY <2>1, <2>3, <2>6, Stutter DEF TypeOK, Unsettled
  <2> QED
    BY <2>4, <2>5, <2>6 DEF Outcome
<1>7. CASE Prune
  <2>1. PICK S \in SUBSET Prunable :
           /\ status' = [j \in Job |-> IF j \in S THEN "absent" ELSE status[j]]
           /\ UNCHANGED <<db, wanted, replaced, damages>>
    BY <1>7 DEF Prune
  <2>2. \A j \in S : Promises[j] \in {"kept", "broken"}
    BY DEF Prunable, Promises, PromiseOf, Settled, Unsettled, BackedInv, Known
  <2>3. \A j \in Job : PromiseOf(j)' = IF j \in S THEN "forgotten" ELSE PromiseOf(j)
    <3>1. ASSUME NEW j \in S PROVE PromiseOf(j)' = "forgotten"
      <4>1. j \in Job /\ wanted'[j] # 0 /\ status'[j] = "absent"
        BY <2>1, <3>1 DEF Prunable, Settled, BackedInv, Known
      <4> QED
        BY <4>1 DEF PromiseOf, Unsettled
    <3>2. ASSUME NEW j \in Job, j \notin S PROVE PromiseOf(j)' = PromiseOf(j)
      BY <2>1, <3>2 DEF PromiseOf
    <3> QED
      BY <3>1, <3>2 DEF Prunable
  <2>4. S \in SUBSET Job
    BY DEF Prunable
  <2>5. Abstract!Forget(S)
    BY <2>1, <2>2, <2>3, <2>4 DEF Abstract!Forget, Promises
  <2> QED
    BY <2>4, <2>5 DEF Abstract!Next
<1>8. ASSUME NEW j \in Job, ResumeJob(j) PROVE UNCHANGED Abstract!vars
  BY <1>8, Stutter DEF ResumeJob, Unsettled, TypeOK
<1>9. ASSUME NEW n \in Name, Open(n) PROVE Abstract!Next
  <2>1. \A j \in Job : PromiseOf(j)' = PromiseOf(j)
    BY <1>9 DEF Open, PromiseOf
  <2>2. \A j \in Job : PromiseOf(j) # "new" <=> wanted[j] # 0
    BY DEF PromiseOf, TypeOK, Status, Settled, Unsettled
  <2>3. Abstract!Overwrite(n)
    BY <1>9, <2>1, <2>2 DEF Open, Abstract!Overwrite
  <2> QED
    BY <2>3 DEF Abstract!Next
<1>10. CASE UNCHANGED vars
  BY <1>1, <1>10 DEF vars
<1>11. ASSUME NEW n \in Name, SaveCache(n) \/ Unlink(n) \/ Fetch(n) \/ Fill(n)
       PROVE  UNCHANGED Abstract!vars
  <2>1. UNCHANGED <<db, wanted, replaced, status, damages>>
    BY <1>11 DEF SaveCache, Unlink, Fetch, Fill
  <2> QED
    BY <2>1, Stutter
<1>12. ASSUME NEW j \in Job, Ripen(j) PROVE UNCHANGED Abstract!vars
  <2>1. UNCHANGED <<db, wanted, replaced, status, damages>>
    BY <1>12 DEF Ripen
  <2> QED
    BY <2>1, Stutter
<1>13. CASE Load \/ FileFound \/ ReadFile \/ UploadFails \/ PassDone \/ ResumeDone \/ Crash
  BY <1>1, <1>13 DEF Load, FileFound, ReadFile, UploadFails, PassDone, ResumeDone, Crash
<1>14. ~Quarantine
  BY DEF Quarantine, TypeOK
<1> QED
  BY <1>2, <1>3, <1>4, <1>5, <1>6, <1>7, <1>8, <1>9, <1>10, <1>11, <1>12, <1>13, <1>14
     DEF Next, Daemon, Boot

\* The queue implements Outbox through any crashes, lost cache files and loaders:
\* until a write of the queue file is lost, no open job is dropped, none settled
\* twice, none SUCCESS without the upload of what was saved for it, but for those
\* a loader overwrote.
THEOREM QueueImplementsOutbox == Spec => RefinesOutbox
<1>1. Init => Abstract!Init
  BY QueueAssumption DEF Init, Abstract!Init, PromiseOf
<1>2. Init => InStep
  BY DEF Init, InStep, Busy
<1> QED
  BY <1>1, <1>2, InStepStep, OutboxStep, TypeCorrect, BackedInductive, PTL DEF Spec, RefinesOutbox

(***************************************************************************)
(* Where no one removes cache files, a job is not given up early: the      *)
(* file of a known job is there, and ABANDONED is written with a count of  *)
(* MaxAttempts or more.                                                    *)
(***************************************************************************)
FilesStay == "unlink" \notin Faults

OnFile ==
    /\ \A n \in Name : saved[n] > 1 => n \in present
    /\ \A j \in Job : wanted[j] # 0 => NameOf[j] \in present

TriedEnough == \A j \in Job : status[j] = "ABANDONED" => attempts[j] >= MaxAttempts

\* Every step keeps OnFile and TriedEnough.
LEMMA TriedStep ==
    FilesStay /\ TypeOK /\ BackedInv /\ OnFile /\ TriedEnough /\ [Next]_vars
        => OnFile' /\ TriedEnough'
<1> SUFFICES ASSUME FilesStay, TypeOK, BackedInv, OnFile, TriedEnough, [Next]_vars
             PROVE  OnFile' /\ TriedEnough'
  OBVIOUS
<1> USE QueueAssumption
<1>t. /\ status \in [Job -> Status] /\ attempts \in [Job -> Nat] /\ tries \in [Job -> Nat]
      /\ Busy => cur \in Job
  BY DEF TypeOK
<1>w. ASSUME NEW j \in Job, NEW s, NEW n \in Nat, WriteJob(j, s, n),
             s = "ABANDONED" => n >= MaxAttempts
      PROVE  TriedEnough'
  BY <1>t, <1>w DEF WriteJob, TriedEnough, queueVars
<1>1. ASSUME NEW n \in Name, SaveCache(n) \/ Unlink(n) \/ Fetch(n) \/ Open(n) \/ Fill(n)
      PROVE  OnFile' /\ TriedEnough'
  BY <1>1 DEF SaveCache, Unlink, Fetch, Open, Fill, FilesStay, OnFile, TriedEnough, queueVars,
     jobVars, TypeOK
<1>2. ASSUME NEW j \in Job, Enqueue(j) PROVE OnFile' /\ TriedEnough'
  <2>1. TriedEnough'
    BY <1>2, <1>w DEF Enqueue
  <2>2. OnFile'
    BY <1>2 DEF Enqueue, OnFile, TypeOK, fileVars
  <2> QED
    BY <2>1, <2>2
<1>3. ASSUME NEW j \in Job, Ripen(j) PROVE OnFile' /\ TriedEnough'
  BY <1>3 DEF Ripen, OnFile, TriedEnough, fileVars, queueVars, jobVars
<1>4. CASE Daemon
  <2>1. OnFile'
    BY <1>4 DEF Daemon, Load, Pick, FileMissing, FileFound, ReadFile, UploadCommits,
       UploadFails, FinishJob, PassDone, Prune, OnFile, fileVars, jobVars
  <2> SUFFICES TriedEnough'
    BY <2>1
  <2>2. ASSUME NEW j \in Job, Pick(j) PROVE TriedEnough'
    <3>1. tries[j] + 1 \in Nat /\ WriteJob(j, "UPLOADING", tries[j] + 1)
      BY <1>t, <2>2 DEF Pick
    <3> QED
      BY <3>1, <1>w
  <2>3. CASE FileMissing
    BY <2>3 DEF FileMissing, Busy, BackedInv, Known, OnFile, TypeOK
  <2>4. CASE FinishJob
    <3>1. cur \in Job /\ tries[cur] \in Nat /\ WriteJob(cur, Outcome, tries[cur])
      BY <1>t, <2>4 DEF FinishJob, Busy
    <3>2. Outcome = "ABANDONED" => tries[cur] >= MaxAttempts
      BY DEF Outcome
    <3> QED
      BY <3>1, <3>2, <1>w
  <2>5. CASE Prune
    BY <1>t, <2>5 DEF Prune, TriedEnough
  <2>6. CASE Load \/ FileFound \/ ReadFile \/ UploadCommits \/ UploadFails \/ PassDone
    BY <2>6 DEF Load, FileFound, ReadFile, UploadCommits, UploadFails, PassDone, TriedEnough, queueVars
  <2> QED
    BY <1>4, <2>1, <2>2, <2>3, <2>4, <2>5, <2>6 DEF Daemon
<1>5. ASSUME NEW j \in Job, ResumeJob(j) PROVE OnFile' /\ TriedEnough'
  <2>1. TriedEnough'
    BY <1>5, <1>t, <1>w DEF ResumeJob
  <2> QED
    BY <1>5, <2>1 DEF ResumeJob, OnFile, fileVars, jobVars
<1>6. CASE ResumeDone \/ Crash \/ UNCHANGED vars
  BY <1>6 DEF ResumeDone, Crash, OnFile, TriedEnough, fileVars, queueVars, jobVars, vars
<1>7. CASE Quarantine
  BY <1>7 DEF Quarantine, OnFile, TriedEnough, fileVars, jobVars
<1> QED
  BY <1>1, <1>2, <1>3, <1>4, <1>5, <1>6, <1>7 DEF Next, Boot

\* _process_job gives a job up for two reasons, a missing file and its last failed
\* attempt.  While the files stay only the second is left, however the queue
\* file is written, lost or moved away and whenever the process crashes.
THEOREM NoneGivenUpEarly == ASSUME FilesStay PROVE Spec => []TriedEnough
<1>1. Init => OnFile /\ TriedEnough
  BY DEF Init, OnFile, TriedEnough
<1> QED
  BY <1>1, TriedStep, TypeCorrect, BackedInductive, PTL DEF Spec
=============================================================================
