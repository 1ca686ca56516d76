-------------------------- MODULE PerfRebuildProofs --------------------------
(***************************************************************************)
(* The rebuilds keep their types and their lock, and forget no accepted    *)
(* request, for any threads, ids and bounds.                               *)
(*                                                                         *)
(* The strengthening (Inv) says what a thread that does nothing carries:   *)
(* no ids, so that it may be given a new job; and that a request is about  *)
(* alerts that were there, so that a build that reads them later shows it. *)
(***************************************************************************)
EXTENDS PerfRebuild, TLAPS

IdsInv == \A j \in Job : job[j].pc \in {"idle", "exit"} => job[j].ids = {}

Kept == excused \/ NeverDropped
Carried == \A i \in owed \ dropped : \E j \in Job : i \in job[j].ids

Inv == TypeOK /\ due <= saved /\ IdsInv /\ Kept /\ Carried

USE DEF Building

-----------------------------------------------------------------------------
LEMMA InitInv == Init => Inv
  <1> SUFFICES ASSUME Init PROVE Inv
    OBVIOUS
  <1> USE RebuildAssumption DEF Init, Idle, NeverDropped, Shown
  <1>1. TypeOK
    <2>1. \A j \in Locked : j \in Job /\ j # None
      BY DEF Job, Locked
    <2>2. Idle \in Work
      BY DEF Work, PC
    <2>3. \A j \in Job : job[j] = Idle
      OBVIOUS
    <2>4. lock \in Locked \cup {None} /\ recent \in BOOLEAN /\ excused \in BOOLEAN
      OBVIOUS
    <2>5. \A j \in Locked : lock = j <=> job[j].pc \in Building
      BY <2>1, <2>3
    <2>6. /\ job \in [Job -> Work]
          /\ \A j \in Job : job[j].snap <= saved
      BY <2>2, <2>3
    <2>7. /\ saved \in Nat /\ headline \in Nat /\ stored \in Nat /\ due \in Nat
          /\ headline <= saved /\ stored <= saved
          /\ asked \in Nat /\ directs \in Nat /\ faults \in Nat
          /\ owed \subseteq Id /\ dropped \subseteq Id
      OBVIOUS
    <2> HIDE DEF Init
    <2> QED
      BY <2>4, <2>5, <2>6, <2>7 DEF TypeOK
  <1>2. IdsInv /\ Kept /\ Carried
    BY DEF IdsInv, Kept, Carried
  <1> QED
    BY <1>1, <1>2 DEF Inv

\* The threads are distinct, and what a thread does is a record.
LEMMA Threads ==
  /\ Timer \in Job /\ Timer \in Locked
  /\ \A w \in Worker : w \in Job /\ w \in Locked /\ w # Timer
  /\ \A d \in Direct : d \in Job /\ d \notin Locked
  /\ \A j \in Locked : j \in Job /\ j # None
  BY RebuildAssumption DEF Job, Locked

LEMMA Records ==
  /\ Idle \in Work
  /\ \A pc \in PC, ids \in SUBSET Id : Put(pc, ids) \in Work
  BY DEF Idle, Put, Work, PC

\* The work of a thread and of the one that it is changed to.
LEMMA Works ==
  ASSUME TypeOK, NEW j \in Job
  PROVE  /\ job[j] \in Work
         /\ job[j].pc \in PC /\ job[j].snap \in Nat /\ job[j].ids \in SUBSET Id
         /\ job[j].snap <= saved
  BY DEF TypeOK, Work

\* One thread's work becomes q, and the lock says so.
LEMMA Moves ==
  ASSUME TypeOK, NEW j \in Job, NEW q \in Work,
         job' = [job EXCEPT ![j] = q], q.snap <= saved, saved' = saved,
         lock' \in Locked \cup {None},
         j \in Locked => (lock' = j <=> q.pc \in Building),
         \A k \in Locked \ {j} : lock' = k <=> lock = k
  PROVE  /\ job' \in [Job -> Work]
         /\ job'[j] = q
         /\ \A k \in Job \ {j} : job'[k] = job[k]
         /\ \A k \in Job : job'[k].snap <= saved'
         /\ \A k \in Locked : lock' = k <=> job'[k].pc \in Building
  <1>1. job \in [Job -> Work] /\ \A k \in Job : job[k].snap <= saved
    BY DEF TypeOK
  <1>2. /\ job' \in [Job -> Work] /\ job'[j] = q
        /\ \A k \in Job \ {j} : job'[k] = job[k]
    BY <1>1
  <1>3. \A k \in Job : job'[k].snap <= saved'
    BY <1>1, <1>2
  <1>4. ASSUME NEW k \in Locked
        PROVE  lock' = k <=> job'[k].pc \in Building
    <2>1. k \in Job /\ (lock = k <=> job[k].pc \in Building)
      BY Threads DEF TypeOK
    <2> QED
      BY <1>2, <2>1
  <1> QED
    BY <1>2, <1>3, <1>4

\* The same, outside a build.
LEMMA MovesFree ==
  ASSUME TypeOK, NEW j \in Job, NEW q \in Work,
         job' = [job EXCEPT ![j] = q], q.snap = 0, saved' = saved, lock' = lock,
         j \in Locked => job[j].pc \notin Building /\ q.pc \notin Building
  PROVE  /\ job' \in [Job -> Work]
         /\ job'[j] = q
         /\ \A k \in Job \ {j} : job'[k] = job[k]
         /\ \A k \in Job : job'[k].snap <= saved'
         /\ \A k \in Locked : lock' = k <=> job'[k].pc \in Building
  <1>1. q.snap <= saved /\ lock' \in Locked \cup {None}
    BY DEF TypeOK
  <1>2. \A k \in Locked \ {j} : lock' = k <=> lock = k
    OBVIOUS
  <1>3. j \in Locked => (lock' = j <=> q.pc \in Building)
    BY DEF TypeOK
  <1> QED
    BY <1>1, <1>2, <1>3, Moves

\* What is shown and carried survives when a thread keeps its ids and goes on to
\* what will still show, or never would have.
LEMMA Goes ==
  ASSUME Inv, NEW j \in Job, NEW q \in Work,
         job'[j] = q, \A k \in Job \ {j} : job'[k] = job[k],
         q.ids = job[j].ids, due' = due, headline' = headline, stored' = stored, excused' = excused,
         owed' = owed, dropped' = dropped,
         WillShow(j) => WillShow(j)',
         q.pc \in {"idle", "exit"} => q.ids = {}
  PROVE  IdsInv' /\ Kept' /\ Carried'
  <1>1. \A k \in Job : job'[k].ids = job[k].ids
    OBVIOUS
  <1>2. \A k \in Job : WillShow(k) => WillShow(k)'
    BY DEF WillShow, At
  <1>3. IdsInv'
    BY DEF Inv, IdsInv
  <1>4. Kept'
    BY <1>2 DEF Inv, Kept, NeverDropped, Shown
  <1>5. Carried'
    BY <1>1 DEF Inv, Carried
  <1> QED
    BY <1>3, <1>4, <1>5

-----------------------------------------------------------------------------
\* A request that is accepted: some thread will read the alerts, and has its ids.
LEMMA AcceptInv ==
  ASSUME Inv, NEW j \in Job, NEW ids \in SUBSET Id, Accept(ids),
         NEW q \in Work, job'[j] = q, q.ids = ids, q.pc \in {"waiting", "start"},
         job[j].ids \subseteq ids,
         \A k \in Job \ {j} : job'[k] = job[k], headline' = headline, stored' = stored, saved' = saved
  PROVE  /\ due' \in Nat /\ excused' \in BOOLEAN /\ owed' \subseteq Id /\ dropped' \subseteq Id
         /\ due' <= saved' /\ IdsInv' /\ Kept' /\ Carried'
  <1> USE DEF Accept, Inv
  <1>1. /\ due' \in Nat /\ excused' \in BOOLEAN /\ owed' \subseteq Id /\ dropped' \subseteq Id
        /\ due' <= saved'
    <2>1. excused' \in BOOLEAN
      OBVIOUS
    <2>2. saved \in Nat /\ owed \subseteq Id /\ dropped \subseteq Id
      BY DEF TypeOK
    <2> QED
      BY <2>1, <2>2
  <1>2. IdsInv'
    BY DEF IdsInv
  <1>3. Kept'
    BY DEF Kept, NeverDropped, Shown, WillShow, At
  <1>4. Carried'
    BY DEF Carried
  <1> QED
    BY <1>1, <1>2, <1>3, <1>4

LEMMA SpawnInv ==
  ASSUME Inv, NEW w \in Worker, NEW ids \in SUBSET Id, NEW force \in BOOLEAN,
         Spawn(w, ids, force)
  PROVE  Inv'
  <1> DEFINE q == Put("start", ids)
  <1>1. q \in Work /\ q.pc = "start" /\ q.snap = 0 /\ q.ids = ids
    BY Records DEF Put, PC
  <1>2. job' = [job EXCEPT ![w] = q] /\ job[w].pc = "idle" /\ Accept(ids)
    BY DEF Spawn, At
  <1> HIDE DEF q
  <1>3. /\ saved' = saved /\ headline' = headline /\ stored' = stored /\ lock' = lock /\ asked' = asked + 1
        /\ recent' = recent /\ directs' = directs /\ faults' = faults
    BY DEF Spawn
  <1>4. TypeOK /\ w \in Job /\ job[w].ids = {}
    BY <1>2, Threads DEF Inv, IdsInv
  <1>5. w \in Locked => job[w].pc \notin Building /\ q.pc \notin Building
    BY <1>1, <1>2
  <1>6. /\ job' \in [Job -> Work] /\ job'[w] = q
        /\ \A k \in Job \ {w} : job'[k] = job[k]
        /\ \A k \in Job : job'[k].snap <= saved'
        /\ \A k \in Locked : lock' = k <=> job'[k].pc \in Building
    BY <1>1, <1>2, <1>3, <1>4, <1>5, MovesFree
  <1>7. /\ due' \in Nat /\ excused' \in BOOLEAN /\ owed' \subseteq Id /\ dropped' \subseteq Id
        /\ due' <= saved' /\ IdsInv' /\ Kept' /\ Carried'
    BY <1>1, <1>2, <1>3, <1>4, <1>6, AcceptInv
  <1>8. TypeOK'
    BY <1>3, <1>4, <1>6, <1>7 DEF TypeOK
  <1> QED
    BY <1>7, <1>8 DEF Inv
LEMMA TrailInv ==
  ASSUME Inv, Trail
  PROVE  Inv'
  <1> DEFINE q == Put("waiting", {})
  <1>1. q \in Work /\ q.pc = "waiting" /\ q.snap = 0 /\ q.ids = {}
    BY Records DEF Put, PC
  <1>2. job' = [job EXCEPT ![Timer] = q] /\ job[Timer].pc = "idle" /\ Accept({})
    BY DEF Trail, Alive, At
  <1> HIDE DEF q
  <1>3. /\ saved' = saved /\ headline' = headline /\ stored' = stored /\ lock' = lock /\ asked' = asked + 1
        /\ recent' = recent /\ directs' = directs /\ faults' = faults
    BY DEF Trail
  <1>4. TypeOK /\ Timer \in Job /\ job[Timer].ids = {}
    BY <1>2, Threads DEF Inv, IdsInv
  <1>5. Timer \in Locked => job[Timer].pc \notin Building /\ q.pc \notin Building
    BY <1>1, <1>2
  <1>6. /\ job' \in [Job -> Work] /\ job'[Timer] = q
        /\ \A k \in Job \ {Timer} : job'[k] = job[k]
        /\ \A k \in Job : job'[k].snap <= saved'
        /\ \A k \in Locked : lock' = k <=> job'[k].pc \in Building
    BY <1>1, <1>2, <1>3, <1>4, <1>5, MovesFree
  <1>7. /\ due' \in Nat /\ excused' \in BOOLEAN /\ owed' \subseteq Id /\ dropped' \subseteq Id
        /\ due' <= saved' /\ IdsInv' /\ Kept' /\ Carried'
    BY <1>1, <1>2, <1>3, <1>4, <1>6, AcceptInv
  <1>8. TypeOK'
    BY <1>3, <1>4, <1>6, <1>7 DEF TypeOK
  <1> QED
    BY <1>7, <1>8 DEF Inv

LEMMA JoinInv ==
  ASSUME Inv, Join
  PROVE  Inv'
  <1> USE DEF Join, Accept
  <1>1. /\ job' = job /\ saved' = saved /\ headline' = headline /\ stored' = stored /\ lock' = lock /\ recent' = recent
        /\ asked' = asked + 1 /\ directs' = directs /\ faults' = faults
        /\ due' = saved /\ excused' = FALSE /\ owed' = owed /\ dropped' = dropped
    OBVIOUS
  <1>2. excused' \in BOOLEAN
    OBVIOUS
  <1>3. TypeOK'
    BY <1>1, <1>2 DEF Inv, TypeOK
  <1>4. WillShow(Timer)'
    BY <1>1 DEF WillShow, At
  <1>5. Kept'
    BY <1>4, Threads DEF Kept, NeverDropped, Shown
  <1>6. due' <= saved' /\ IdsInv' /\ Carried'
    BY <1>1 DEF Inv, TypeOK, IdsInv, Carried
  <1> QED
    BY <1>3, <1>5, <1>6 DEF Inv

-----------------------------------------------------------------------------
\* A thread's place changes, and nothing else of its work.
LEMMA Places ==
  ASSUME TypeOK, NEW j \in Job, NEW p \in PC,
         job' = [job EXCEPT ![j].pc = p]
  PROVE  LET q == [pc |-> p, snap |-> job[j].snap, ids |-> job[j].ids] IN
         q \in Work /\ job' = [job EXCEPT ![j] = q]
  <1>1. job[j] \in Work /\ job \in [Job -> Work]
    BY DEF TypeOK
  <1>2. [job[j] EXCEPT !.pc = p] = [pc |-> p, snap |-> job[j].snap, ids |-> job[j].ids]
    BY <1>1 DEF Work
  <1> QED
    BY <1>1, <1>2 DEF Work

\* A thread goes on, and nothing changes but the lock and the cool-down.
LEMMA GoesOn ==
  ASSUME Inv, NEW j \in Job, NEW p \in PC \ {"idle", "exit"},
         job' = [job EXCEPT ![j].pc = p],
         WillShow(j) => p \in {"waiting", "start", "busy", "build"},
         lock' \in Locked \cup {None}, recent' \in BOOLEAN,
         j \in Locked => (lock' = j <=> p \in Building),
         \A k \in Locked \ {j} : lock' = k <=> lock = k,
         UNCHANGED <<saved, headline, stored, asked, directs, faults, due, excused, owed, dropped>>
  PROVE  Inv'
  <1> DEFINE q == [pc |-> p, snap |-> job[j].snap, ids |-> job[j].ids]
  <1>1. TypeOK /\ saved' = saved
    BY DEF Inv
  <1>2. q \in Work /\ job' = [job EXCEPT ![j] = q]
    BY <1>1, Places
  <1>3. q.pc = p /\ q.snap <= saved /\ q.ids = job[j].ids
    BY <1>1, Works
  <1> HIDE DEF q
  <1>4. j \in Locked => (lock' = j <=> q.pc \in Building)
    BY <1>3
  <1>5. /\ job' \in [Job -> Work] /\ job'[j] = q
        /\ \A k \in Job \ {j} : job'[k] = job[k]
        /\ \A k \in Job : job'[k].snap <= saved'
        /\ \A k \in Locked : lock' = k <=> job'[k].pc \in Building
    BY <1>1, <1>2, <1>3, <1>4, Moves
  <1>6. IdsInv' /\ Kept' /\ Carried'
    <2>1. WillShow(j) => WillShow(j)'
      BY <1>3, <1>5 DEF WillShow
    <2> QED
      BY <1>2, <1>3, <1>5, <2>1, Goes
  <1>7. TypeOK' /\ due' <= saved'
    BY <1>1, <1>5 DEF Inv, TypeOK
  <1> QED
    BY <1>6, <1>7 DEF Inv

LEMMA FireInv ==
  ASSUME Inv, Fire
  PROVE  Inv'
  <1>1. Timer \in Job /\ Timer \in Locked /\ "start" \in PC \ {"idle", "exit"}
    BY Threads DEF PC
  <1>2. /\ lock' = lock /\ recent' = recent /\ job[Timer].pc = "waiting"
        /\ job' = [job EXCEPT ![Timer].pc = "start"]
        /\ UNCHANGED <<saved, headline, stored, asked, directs, faults, due, excused, owed, dropped>>
    BY DEF Fire, At
  <1>3. /\ lock' \in Locked \cup {None} /\ recent' \in BOOLEAN
        /\ lock' = Timer <=> "start" \in Building
        /\ \A k \in Locked \ {Timer} : lock' = k <=> lock = k
    BY <1>1, <1>2 DEF Inv, TypeOK
  <1> QED
    BY <1>1, <1>2, <1>3, GoesOn

LEMMA FindBusyInv ==
  ASSUME Inv, NEW j \in Locked, FindBusy(j)
  PROVE  Inv'
  <1>1. j \in Job /\ "busy" \in PC \ {"idle", "exit"}
    BY Threads DEF PC
  <1>2. /\ lock' = lock /\ recent' = recent /\ job[j].pc = "start"
        /\ job' = [job EXCEPT ![j].pc = "busy"]
        /\ UNCHANGED <<saved, headline, stored, asked, directs, faults, due, excused, owed, dropped>>
    BY DEF FindBusy, At
  <1>3. /\ lock' \in Locked \cup {None} /\ recent' \in BOOLEAN
        /\ lock' = j <=> "busy" \in Building
        /\ \A k \in Locked \ {j} : lock' = k <=> lock = k
    BY <1>1, <1>2 DEF Inv, TypeOK
  <1> QED
    BY <1>1, <1>2, <1>3, GoesOn

LEMMA BeginInv ==
  ASSUME Inv, NEW j \in Locked, Begin(j)
  PROVE  Inv'
  <1>1. j \in Job /\ "build" \in PC \ {"idle", "exit"}
    BY Threads DEF PC
  <1>2. /\ lock = None /\ lock' = j /\ recent' = TRUE /\ job[j].pc = "start"
        /\ job' = [job EXCEPT ![j].pc = "build"]
        /\ UNCHANGED <<saved, headline, stored, asked, directs, faults, due, excused, owed, dropped>>
    BY DEF Begin, At
  <1>3. /\ lock' \in Locked \cup {None} /\ recent' \in BOOLEAN
        /\ lock' = j <=> "build" \in Building
        /\ \A k \in Locked \ {j} : lock' = k <=> lock = k
    BY <1>1, <1>2, Threads
  <1> QED
    BY <1>1, <1>2, <1>3, GoesOn

-----------------------------------------------------------------------------
\* A thread that found the lock busy leaves its ids to the timer it starts.
LEMMA DeferInv ==
  ASSUME Inv, NEW w \in Worker, Defer(w)
  PROVE  Inv'
  <1> DEFINE q == Put("waiting", job[w].ids)
  <1>1. TypeOK /\ w \in Job /\ Timer \in Job /\ Timer \in Locked /\ w \in Locked /\ w # Timer
    BY Threads DEF Inv
  <1>2. q \in Work /\ q.pc = "waiting" /\ q.snap = 0 /\ q.ids = job[w].ids
    BY <1>1, Works, Records DEF Put, PC
  <1>3. job[w].pc = "busy" /\ job[Timer].pc = "idle" /\ job[Timer].ids = {}
    BY <1>1 DEF Defer, At, Alive, Inv, IdsInv
  <1>4. /\ job' = [job EXCEPT ![w] = Idle, ![Timer] = q]
        /\ UNCHANGED <<saved, headline, stored, recent, lock, asked, directs, faults, due, excused, owed, dropped>>
    BY DEF Defer
  <1>5. Idle \in Work /\ Idle.pc = "idle" /\ Idle.snap = 0 /\ Idle.ids = {}
    BY Records DEF Idle
  <1> HIDE DEF q
  <1>6. /\ job' \in [Job -> Work] /\ job'[w] = Idle /\ job'[Timer] = q
        /\ \A k \in Job \ {w, Timer} : job'[k] = job[k]
    BY <1>1, <1>2, <1>4, <1>5 DEF TypeOK
  <1>7. \A k \in Job : job'[k].snap <= saved'
    BY <1>1, <1>2, <1>4, <1>5, <1>6 DEF TypeOK
  <1>8. \A k \in Locked : lock' = k <=> job'[k].pc \in Building
    <2>1. ASSUME NEW k \in Locked
          PROVE  lock' = k <=> job'[k].pc \in Building
      <3>1. (lock = k <=> job[k].pc \in Building) /\ k \in Job
        BY Threads DEF Inv, TypeOK
      <3> QED
        BY <1>2, <1>3, <1>4, <1>5, <1>6, <3>1
    <2> QED
      BY <2>1
  <1>9. TypeOK'
    BY <1>1, <1>4, <1>6, <1>7, <1>8 DEF TypeOK
  <1>10. Kept'
    BY <1>1, <1>2, <1>6 DEF Kept, NeverDropped, Shown, WillShow, At
  <1>11. IdsInv'
    BY <1>2, <1>5, <1>6 DEF Inv, IdsInv
  <1>12. Carried'
    BY <1>1, <1>2, <1>3, <1>4, <1>6 DEF Inv, Carried
  <1> QED
    BY <1>4, <1>9, <1>10, <1>11, <1>12 DEF Inv

LEMMA MeetInv ==
  ASSUME Inv, NEW w \in Worker, Meet(w)
  PROVE  Inv'
  <1>1. TypeOK /\ w \in Job /\ Timer \in Job /\ w # Timer
    BY Threads DEF Inv
  <1>2. /\ job[w].pc = "busy" /\ job' = [job EXCEPT ![w] = Idle]
        /\ excused' = (excused \/ job[Timer].pc # "waiting")
        /\ dropped' = dropped \cup job[w].ids
        /\ UNCHANGED <<saved, headline, stored, recent, lock, asked, directs, faults, due, owed>>
    BY DEF Meet, At
  <1>3. Idle \in Work /\ Idle.pc = "idle" /\ Idle.snap = 0 /\ Idle.ids = {}
    BY Records DEF Idle
  <1>4. /\ job' \in [Job -> Work] /\ job'[w] = Idle
        /\ \A k \in Job \ {w} : job'[k] = job[k]
        /\ \A k \in Job : job'[k].snap <= saved'
        /\ \A k \in Locked : lock' = k <=> job'[k].pc \in Building
    BY <1>1, <1>2, <1>3, MovesFree
  <1>5. excused' \in BOOLEAN /\ dropped' \subseteq Id
    BY <1>1, <1>2, Works DEF TypeOK
  <1>6. TypeOK'
    BY <1>1, <1>2, <1>4, <1>5 DEF TypeOK
  <1>7. Kept'
    BY <1>1, <1>2, <1>4 DEF Kept, NeverDropped, Shown, WillShow, At
  <1>8. IdsInv'
    BY <1>3, <1>4 DEF Inv, IdsInv
  <1>9. Carried'
    BY <1>1, <1>2, <1>4 DEF Inv, Carried
  <1> QED
    BY <1>2, <1>6, <1>7, <1>8, <1>9 DEF Inv

LEMMA MeetItselfInv ==
  ASSUME Inv, MeetItself
  PROVE  Inv'
  <1> DEFINE q == Put("exit", {})
  <1>1. TypeOK /\ Timer \in Job
    BY Threads DEF Inv
  <1>2. q \in Work /\ q.pc = "exit" /\ q.snap = 0 /\ q.ids = {}
    BY Records DEF Put, PC
  <1>3. /\ job[Timer].pc = "busy" /\ job' = [job EXCEPT ![Timer] = q]
        /\ excused' = TRUE /\ dropped' = dropped \cup job[Timer].ids
        /\ UNCHANGED <<saved, headline, stored, recent, lock, asked, directs, faults, due, owed>>
    BY DEF MeetItself, At
  <1> HIDE DEF q
  <1>4. /\ job' \in [Job -> Work] /\ job'[Timer] = q
        /\ \A k \in Job \ {Timer} : job'[k] = job[k]
        /\ \A k \in Job : job'[k].snap <= saved'
        /\ \A k \in Locked : lock' = k <=> job'[k].pc \in Building
    BY <1>1, <1>2, <1>3, MovesFree
  <1>5. excused' \in BOOLEAN /\ dropped' \subseteq Id
    BY <1>1, <1>3, Works DEF TypeOK
  <1>6. TypeOK'
    BY <1>1, <1>3, <1>4, <1>5 DEF TypeOK
  <1>7. Kept'
    BY <1>3 DEF Kept, NeverDropped, Shown
  <1>8. IdsInv'
    BY <1>2, <1>4 DEF Inv, IdsInv
  <1>9. Carried'
    BY <1>1, <1>3, <1>4 DEF Inv, Carried
  <1> QED
    BY <1>3, <1>6, <1>7, <1>8, <1>9 DEF Inv

LEMMA ExitInv ==
  ASSUME Inv, Exit
  PROVE  Inv'
  <1>1. TypeOK /\ Timer \in Job
    BY Threads DEF Inv
  <1>2. Idle \in Work /\ Idle.pc = "idle" /\ Idle.snap = 0 /\ Idle.ids = {}
    BY Records DEF Idle
  <1>3. /\ job[Timer].pc = "exit" /\ job[Timer].ids = {} /\ job' = [job EXCEPT ![Timer] = Idle]
        /\ UNCHANGED <<saved, headline, stored, recent, lock, asked, directs, faults, due, excused, owed, dropped>>
    BY <1>1 DEF Exit, At, Inv, IdsInv
  <1>4. /\ job' \in [Job -> Work] /\ job'[Timer] = Idle
        /\ \A k \in Job \ {Timer} : job'[k] = job[k]
        /\ \A k \in Job : job'[k].snap <= saved'
        /\ \A k \in Locked : lock' = k <=> job'[k].pc \in Building
    BY <1>1, <1>2, <1>3, MovesFree
  <1>5. TypeOK'
    BY <1>1, <1>3, <1>4 DEF TypeOK
  <1>6. IdsInv' /\ Kept' /\ Carried'
    <2>1. ~WillShow(Timer)
      BY <1>3 DEF WillShow, At
    <2> QED
      BY <1>1, <1>2, <1>3, <1>4, <2>1, Goes
  <1> QED
    BY <1>3, <1>5, <1>6 DEF Inv

LEMMA StartDirectInv ==
  ASSUME Inv, NEW d \in Direct, StartDirect(d)
  PROVE  Inv'
  <1> DEFINE q == Put("build", {})
  <1>1. TypeOK /\ d \in Job /\ d \notin Locked
    BY Threads DEF Inv
  <1>2. q \in Work /\ q.pc = "build" /\ q.snap = 0 /\ q.ids = {}
    BY Records DEF Put, PC
  <1>3. /\ job[d].pc = "idle" /\ job[d].ids = {} /\ job' = [job EXCEPT ![d] = q]
        /\ directs' = directs + 1
        /\ UNCHANGED <<saved, headline, stored, recent, lock, asked, faults, due, excused, owed, dropped>>
    BY <1>1 DEF StartDirect, At, Inv, IdsInv
  <1> HIDE DEF q
  <1>4. /\ job' \in [Job -> Work] /\ job'[d] = q
        /\ \A k \in Job \ {d} : job'[k] = job[k]
        /\ \A k \in Job : job'[k].snap <= saved'
        /\ \A k \in Locked : lock' = k <=> job'[k].pc \in Building
    BY <1>1, <1>2, <1>3, MovesFree
  <1>5. TypeOK'
    BY <1>1, <1>3, <1>4 DEF TypeOK
  <1>6. IdsInv' /\ Kept' /\ Carried'
    <2>1. ~WillShow(d)
      BY <1>3 DEF WillShow, At
    <2> QED
      BY <1>1, <1>2, <1>3, <1>4, <2>1, Goes
  <1> QED
    BY <1>3, <1>5, <1>6 DEF Inv

-----------------------------------------------------------------------------
\* The alerts that are read are those of every request so far.
LEMMA ReadInv ==
  ASSUME Inv, NEW j \in Job, Read(j)
  PROVE  Inv'
  <1> DEFINE q == [pc |-> "read", snap |-> saved, ids |-> job[j].ids]
  <1>1. TypeOK /\ saved \in Nat /\ job[j].ids \in SUBSET Id /\ due <= saved
    BY Works DEF Inv, TypeOK
  <1>2. q \in Work /\ q.pc = "read" /\ q.snap = saved /\ q.ids = job[j].ids
    BY <1>1 DEF Work, PC
  <1>3. /\ job[j].pc = "build" /\ job' = [job EXCEPT ![j] = q]
        /\ UNCHANGED <<saved, headline, stored, recent, lock, asked, directs, faults, due, excused, owed, dropped>>
    BY DEF Read, At
  <1> HIDE DEF q
  <1>4. /\ lock' \in Locked \cup {None} /\ q.snap <= saved
        /\ j \in Locked => (lock' = j <=> q.pc \in Building)
        /\ \A k \in Locked \ {j} : lock' = k <=> lock = k
    BY <1>1, <1>2, <1>3 DEF TypeOK
  <1>5. /\ job' \in [Job -> Work] /\ job'[j] = q
        /\ \A k \in Job \ {j} : job'[k] = job[k]
        /\ \A k \in Job : job'[k].snap <= saved'
        /\ \A k \in Locked : lock' = k <=> job'[k].pc \in Building
    BY <1>1, <1>2, <1>3, <1>4, Moves
  <1>6. TypeOK'
    BY <1>1, <1>3, <1>5 DEF TypeOK
  <1>7. IdsInv' /\ Kept' /\ Carried'
    <2>1. WillShow(j)'
      BY <1>1, <1>2, <1>3, <1>5 DEF WillShow, At
    <2> QED
      BY <1>2, <1>3, <1>5, <2>1, Goes
  <1> QED
    BY <1>1, <1>3, <1>6, <1>7 DEF Inv

\* The end of a build: the lock is given back, if it was the builder's.
LEMMA Ends ==
  ASSUME Inv, NEW j \in Job, job[j].pc \in Building, End(j), saved' = saved
  PROVE  /\ job' \in [Job -> Work]
         /\ job'[j].pc \in {"idle", "exit"} /\ job'[j].ids = {}
         /\ \A k \in Job \ {j} : job'[k] = job[k]
         /\ \A k \in Job : job'[k].snap <= saved'
         /\ \A k \in Locked : lock' = k <=> job'[k].pc \in Building
         /\ lock' \in Locked \cup {None}
         /\ IdsInv'
  <1> DEFINE q == IF j = Timer THEN Put("exit", {}) ELSE Idle
  <1>1. TypeOK
    BY DEF Inv
  <1>2. q \in Work /\ q.snap = 0 /\ q.ids = {} /\ q.pc \in {"idle", "exit"}
    BY Records DEF Put, Idle, PC
  <1>3. job' = [job EXCEPT ![j] = q] /\ lock' = IF lock = j THEN None ELSE lock
    BY DEF End
  <1> HIDE DEF q
  <1>4. /\ lock' \in Locked \cup {None}
        /\ j \in Locked => lock' # j
        /\ \A k \in Locked \ {j} : lock' = k <=> lock = k
    BY <1>1, <1>3, Threads DEF TypeOK
  <1>5. q.snap <= saved /\ (j \in Locked => (lock' = j <=> q.pc \in Building))
    BY <1>1, <1>2, <1>4 DEF TypeOK
  <1>6. /\ job' \in [Job -> Work] /\ job'[j] = q
        /\ \A k \in Job \ {j} : job'[k] = job[k]
        /\ \A k \in Job : job'[k].snap <= saved'
        /\ \A k \in Locked : lock' = k <=> job'[k].pc \in Building
    BY <1>1, <1>2, <1>3, <1>4, <1>5, Moves
  <1>7. IdsInv'
    BY <1>2, <1>6 DEF Inv, IdsInv
  <1> QED
    BY <1>2, <1>4, <1>6, <1>7

\* A headline that is older than what was asked for may only take the place of one that
\* is newer (then that is the excuse) or that did not show it either; a page that was to
\* follow it still will.
LEMMA StoreSummaryInv ==
  ASSUME Inv, NEW j \in Job, StoreSummary(j)
  PROVE  Inv'
  <1> DEFINE q == [pc |-> "wrote", snap |-> job[j].snap, ids |-> job[j].ids]
  <1>1. /\ TypeOK /\ job[j].snap \in Nat /\ job[j].snap <= saved
        /\ headline \in Nat /\ due \in Nat
    BY Works DEF Inv, TypeOK
  <1>2. /\ job[j].pc = "read" /\ job' = [job EXCEPT ![j].pc = "wrote"]
        /\ headline' = job[j].snap
        /\ excused' = (excused \/ (job[j].snap < due /\ job[j].snap < headline))
        /\ UNCHANGED <<saved, stored, recent, lock, asked, directs, faults, due, owed, dropped>>
    BY DEF StoreSummary, At, Replaces
  <1>3. q \in Work /\ job' = [job EXCEPT ![j] = q]
    BY <1>1, <1>2, Places DEF PC
  <1>4. q.pc = "wrote" /\ q.snap = job[j].snap /\ q.ids = job[j].ids
    OBVIOUS
  <1> HIDE DEF q
  <1>5. /\ lock' \in Locked \cup {None} /\ q.snap <= saved
        /\ j \in Locked => (lock' = j <=> q.pc \in Building)
        /\ \A k \in Locked \ {j} : lock' = k <=> lock = k
    BY <1>1, <1>2, <1>4 DEF TypeOK
  <1>6. /\ job' \in [Job -> Work] /\ job'[j] = q
        /\ \A k \in Job \ {j} : job'[k] = job[k]
        /\ \A k \in Job : job'[k].snap <= saved'
        /\ \A k \in Locked : lock' = k <=> job'[k].pc \in Building
    BY <1>1, <1>2, <1>3, <1>5, Moves
  <1>7. excused' \in BOOLEAN
    BY <1>2
  <1>8. TypeOK'
    BY <1>1, <1>2, <1>6, <1>7 DEF TypeOK
  <1>9. IdsInv' /\ Carried'
    <2>1. \A k \in Job : job'[k].ids = job[k].ids
      BY <1>4, <1>6
    <2> QED
      BY <1>2, <1>4, <1>6, <2>1 DEF Inv, IdsInv, Carried
  <1>10. Kept'
    <2>1. CASE excused \/ (job[j].snap < due /\ job[j].snap < headline)
      BY <1>2, <2>1 DEF Kept
    <2>2. CASE ~excused /\ Shown /\ ~(job[j].snap < due /\ job[j].snap < headline)
      <3>1. headline >= due /\ stored >= due
        BY <2>2 DEF Shown
      <3>2. job[j].snap >= due
        BY <1>1, <2>2, <3>1
      <3> QED
        BY <1>2, <3>1, <3>2 DEF Kept, NeverDropped, Shown
    <2>3. ASSUME NEW k \in Job, WillShow(k),
                 ~(job[j].snap < due /\ job[j].snap < headline)
          PROVE  WillShow(k)'
      <3>1. CASE k = j
        BY <1>1, <1>2, <1>4, <1>6, <2>3, <3>1 DEF WillShow, At
      <3>2. CASE k # j /\ ~At(k, "wrote")
        BY <1>2, <1>6, <2>3, <3>2 DEF WillShow, At
      <3>3. CASE k # j /\ At(k, "wrote")
        <4>1. job[k].snap >= due /\ headline >= due /\ job'[k] = job[k]
          BY <1>6, <2>3, <3>3 DEF WillShow, At
        <4>2. job[j].snap >= due
          BY <1>1, <2>3, <4>1
        <4> QED
          BY <1>2, <3>3, <4>1, <4>2 DEF WillShow, At
      <3> QED
        BY <3>1, <3>2, <3>3
    <2> QED
      BY <2>1, <2>2, <2>3 DEF Inv, Kept, NeverDropped
  <1> QED
    BY <1>1, <1>2, <1>8, <1>9, <1>10 DEF Inv

\* The same of the page, which is the last to be written.
LEMMA StoreInv ==
  ASSUME Inv, NEW j \in Job, Store(j)
  PROVE  Inv'
  <1>1. /\ job[j].pc = "wrote" /\ End(j) /\ stored' = job[j].snap
        /\ excused' = (/\ ~(job[j].snap >= due /\ headline >= due)
                       /\ excused \/ (job[j].snap < due /\ job[j].snap < stored))
        /\ owed' = owed \ job[j].ids /\ dropped' = dropped \ job[j].ids
        /\ UNCHANGED <<saved, headline, recent, asked, directs, faults, due>>
    BY DEF Store, At, Replaces
  <1>2. /\ TypeOK /\ job[j].snap \in Nat /\ job[j].snap <= saved
        /\ stored \in Nat /\ headline \in Nat /\ due \in Nat
    BY Works DEF Inv, TypeOK
  <1>3. /\ job' \in [Job -> Work] /\ job'[j].pc \in {"idle", "exit"} /\ job'[j].ids = {}
        /\ \A k \in Job \ {j} : job'[k] = job[k]
        /\ \A k \in Job : job'[k].snap <= saved'
        /\ \A k \in Locked : lock' = k <=> job'[k].pc \in Building
        /\ lock' \in Locked \cup {None} /\ IdsInv'
    BY <1>1, Ends
  <1>4. excused' \in BOOLEAN
    BY <1>1
  <1>5. TypeOK'
    BY <1>1, <1>2, <1>3, <1>4 DEF TypeOK
  <1>6. Kept'
    <2>1. CASE job[j].snap >= due /\ headline >= due
      BY <1>1, <2>1 DEF Kept, NeverDropped, Shown
    <2>2. CASE /\ ~(job[j].snap >= due /\ headline >= due)
               /\ excused \/ (job[j].snap < due /\ job[j].snap < stored)
      BY <1>1, <2>2 DEF Kept
    <2>3. CASE /\ ~(job[j].snap >= due /\ headline >= due) /\ ~excused
               /\ ~(job[j].snap < due /\ job[j].snap < stored)
      <3>1. ~Shown
        BY <1>2, <2>3 DEF Shown
      <3>2. PICK k \in Job : WillShow(k)
        BY <2>3, <3>1 DEF Inv, Kept, NeverDropped
      <3>3. k # j
        BY <1>1, <1>2, <2>3, <3>2 DEF WillShow, At
      <3>4. WillShow(k)'
        BY <1>1, <1>3, <3>2, <3>3 DEF WillShow, At
      <3> QED
        BY <3>4 DEF Kept, NeverDropped
    <2> QED
      BY <2>1, <2>2, <2>3
  <1>7. Carried'
    BY <1>1, <1>3 DEF Inv, Carried
  <1> QED
    BY <1>1, <1>3, <1>5, <1>6, <1>7 DEF Inv

\* A build that ends without its page is an excuse.
LEMMA FailInv ==
  ASSUME Inv, NEW j \in Job, Fail(j)
  PROVE  Inv'
  <1>1. /\ job[j].pc \in Building /\ End(j)
        /\ excused' = TRUE /\ dropped' = dropped \cup job[j].ids /\ faults' = faults + 1
        /\ UNCHANGED <<saved, headline, stored, recent, asked, directs, due, owed>>
    BY DEF Fail, Excuse, At
  <1>2. TypeOK /\ job[j].ids \in SUBSET Id
    BY Works DEF Inv
  <1>3. /\ job' \in [Job -> Work] /\ job'[j].pc \in {"idle", "exit"} /\ job'[j].ids = {}
        /\ \A k \in Job \ {j} : job'[k] = job[k]
        /\ \A k \in Job : job'[k].snap <= saved'
        /\ \A k \in Locked : lock' = k <=> job'[k].pc \in Building
        /\ lock' \in Locked \cup {None} /\ IdsInv'
    BY <1>1, Ends
  <1>4. excused' \in BOOLEAN /\ dropped' \subseteq Id
    BY <1>1, <1>2 DEF TypeOK
  <1>5. TypeOK'
    BY <1>1, <1>2, <1>3, <1>4 DEF TypeOK
  <1>6. Kept'
    BY <1>1 DEF Kept
  <1>7. Carried'
    BY <1>1, <1>3 DEF Inv, Carried
  <1> QED
    BY <1>1, <1>3, <1>5, <1>6, <1>7 DEF Inv

\* So are alerts that cannot be read and a headline that is not written, after which the
\* build goes on.
LEMMA FaultInv ==
  ASSUME Inv, NEW j \in Job, ReadFails(j) \/ LoseSummary(j)
  PROVE  Inv'
  <1>1. TypeOK /\ job \in [Job -> Work] /\ saved \in Nat
    BY DEF Inv, TypeOK
  <1>2. PICK q \in Work :
          /\ job' = [job EXCEPT ![j] = q]
          /\ q.pc \in {"read", "wrote"} /\ q.snap <= saved
          /\ q.ids \cup dropped' = job[j].ids \cup dropped'
    <2>1. CASE ReadFails(j)
      <3> DEFINE r == [pc |-> "read", snap |-> 0, ids |-> {}]
      <3>1. r \in Work /\ r.pc = "read" /\ r.snap = 0 /\ r.ids = {}
        BY DEF Work, PC
      <3>2. dropped' = dropped \cup job[j].ids /\ job' = [job EXCEPT ![j] = r]
        BY <2>1 DEF ReadFails, Excuse
      <3> HIDE DEF r
      <3>3. r.snap <= saved /\ r.ids \cup dropped' = job[j].ids \cup dropped'
        BY <1>1, <3>1, <3>2
      <3> QED
        BY <3>1, <3>2, <3>3
    <2>2. CASE LoseSummary(j)
      <3>1. job' = [job EXCEPT ![j].pc = "wrote"]
        BY <2>2 DEF LoseSummary
      <3>2. /\ [pc |-> "wrote", snap |-> job[j].snap, ids |-> job[j].ids] \in Work
            /\ job' = [job EXCEPT ![j] = [pc |-> "wrote", snap |-> job[j].snap, ids |-> job[j].ids]]
        BY <1>1, <3>1, Places DEF PC
      <3> QED
        BY <1>1, <3>2, Works
    <2> QED
      BY <2>1, <2>2
  <1>3. /\ job[j].pc \in Building
        /\ excused' = TRUE /\ faults' = faults + 1 /\ dropped \subseteq dropped'
        /\ dropped' \subseteq dropped \cup job[j].ids
        /\ UNCHANGED <<saved, headline, stored, recent, lock, asked, directs, due, owed>>
    BY DEF ReadFails, LoseSummary, Excuse, At
  <1>4. /\ lock' \in Locked \cup {None}
        /\ j \in Locked => (lock' = j <=> q.pc \in Building)
        /\ \A k \in Locked \ {j} : lock' = k <=> lock = k
    BY <1>1, <1>2, <1>3 DEF TypeOK
  <1>5. /\ job' \in [Job -> Work] /\ job'[j] = q
        /\ \A k \in Job \ {j} : job'[k] = job[k]
        /\ \A k \in Job : job'[k].snap <= saved'
        /\ \A k \in Locked : lock' = k <=> job'[k].pc \in Building
    BY <1>1, <1>2, <1>3, <1>4, Moves
  <1>6. excused' \in BOOLEAN /\ dropped' \subseteq Id
    BY <1>1, <1>3, Works DEF TypeOK
  <1>7. TypeOK'
    BY <1>1, <1>3, <1>5, <1>6 DEF TypeOK
  <1>8. IdsInv' /\ Kept'
    BY <1>2, <1>3, <1>5 DEF Inv, IdsInv, Kept
  <1>9. Carried'
    BY <1>2, <1>3, <1>5 DEF Inv, Carried
  <1> QED
    BY <1>3, <1>7, <1>8, <1>9 DEF Inv

LEMMA RestartInv ==
  ASSUME Inv, NEW d \in Direct, Restart(d)
  PROVE  Inv'
  <1>1. /\ job' = [j \in Job |-> IF j = d THEN Put("build", {}) ELSE Idle]
        /\ lock' = None /\ recent' = FALSE /\ excused' = TRUE /\ dropped' = dropped \cup owed
        /\ faults' = faults + 1
        /\ UNCHANGED <<saved, headline, stored, asked, directs, due, owed>>
    BY DEF Restart
  <1>2. Put("build", {}) \in Work /\ Idle \in Work
    BY Records DEF PC
  <1>3. /\ Put("build", {}).snap = 0 /\ Put("build", {}).pc = "build"
        /\ Idle.snap = 0 /\ Idle.pc = "idle" /\ Idle.ids = {}
    BY DEF Put, Idle
  <1>4. saved \in Nat /\ owed \subseteq Id /\ dropped \subseteq Id
    BY DEF Inv, TypeOK
  <1>5. /\ job' \in [Job -> Work]
        /\ \A j \in Job : job'[j].snap = 0 /\ job'[j].snap <= saved'
    BY <1>1, <1>2, <1>3, <1>4
  <1>6. \A j \in Locked : lock' = j <=> job'[j].pc \in Building
    <2>1. ASSUME NEW j \in Locked
          PROVE  lock' # j /\ job'[j] = Idle
      BY <1>1, Threads
    <2> QED
      BY <1>3, <2>1
  <1>7. excused' \in BOOLEAN /\ recent' \in BOOLEAN /\ dropped' \subseteq Id
    BY <1>1, <1>4
  <1>8. TypeOK'
    BY <1>1, <1>5, <1>6, <1>7 DEF Inv, TypeOK
  <1>9. Kept' /\ Carried'
    BY <1>1 DEF Kept, NeverDropped, Shown, Carried
  <1>10. IdsInv'
    BY <1>1, <1>3 DEF IdsInv
  <1> QED
    BY <1>1, <1>8, <1>9, <1>10 DEF Inv

\* A new alert, a request that is forgotten, the end of the cool-down, nothing.
LEMMA QuietInv ==
  ASSUME Inv, Save \/ Forget \/ CoolDown \/ UNCHANGED vars
  PROVE  Inv'
  <1>1. /\ saved' \in {saved, saved + 1} /\ recent' \in {recent, FALSE}
        /\ asked' \in {asked, asked + 1}
        /\ UNCHANGED <<headline, stored, lock, job, directs, faults, due, excused, owed, dropped>>
    BY DEF Save, Forget, CoolDown, vars
  <1>2. TypeOK
    BY DEF Inv
  <1>3. recent' \in BOOLEAN
    BY <1>1, <1>2 DEF TypeOK
  <1>4. saved' \in Nat /\ saved <= saved' /\ asked' \in Nat
    BY <1>1, <1>2 DEF TypeOK
  <1>5. \A j \in Job : job'[j].snap <= saved'
    BY <1>1, <1>2, <1>4, Works
  <1>6. stored' <= saved' /\ due' <= saved'
    BY <1>1, <1>4 DEF Inv, TypeOK
  <1>7. TypeOK'
    BY <1>1, <1>2, <1>3, <1>4, <1>5, <1>6 DEF TypeOK
  <1>8. IdsInv' /\ Kept' /\ Carried'
    BY <1>1 DEF Inv, IdsInv, Kept, NeverDropped, Shown, Carried, WillShow, At
  <1> QED
    BY <1>6, <1>7, <1>8 DEF Inv

-----------------------------------------------------------------------------
LEMMA NextInv ==
  ASSUME Inv, [Next]_vars
  PROVE  Inv'
  <1>1. CASE Save \/ Forget \/ CoolDown \/ UNCHANGED vars
    BY <1>1, QuietInv
  <1>2. CASE Request
    BY <1>2, SpawnInv, TrailInv, JoinInv, QuietInv DEF Request
  <1>3. ASSUME NEW j \in Job, Run(j)
        PROVE  Inv'
    <2>1. CASE j \in Locked /\ (Begin(j) \/ FindBusy(j))
      BY <2>1, BeginInv, FindBusyInv
    <2>2. CASE j \in Worker /\ (Defer(j) \/ Meet(j))
      BY <2>2, DeferInv, MeetInv
    <2>3. CASE Fire \/ MeetItself \/ Exit
      BY <2>3, FireInv, MeetItselfInv, ExitInv
    <2>4. CASE Read(j) \/ StoreSummary(j) \/ Store(j)
      BY <2>4, ReadInv, StoreSummaryInv, StoreInv
    <2> QED
      BY <1>3, <2>1, <2>2, <2>3, <2>4 DEF Run
  <1>4. ASSUME NEW j \in Job, ReadFails(j) \/ LoseSummary(j) \/ Fail(j)
        PROVE  Inv'
    BY <1>4, FaultInv, FailInv
  <1>5. ASSUME NEW d \in Direct, StartDirect(d) \/ Restart(d)
        PROVE  Inv'
    BY <1>5, StartDirectInv, RestartInv
  <1> QED
    BY <1>1, <1>2, <1>3, <1>4, <1>5 DEF Next

\* Inv holds in every reachable state.
THEOREM Invariance == Spec => []Inv
  <1>1. Inv /\ [Next]_vars => Inv'
    BY NextInv
  <1> QED
    BY InitInv, <1>1, PTL DEF Spec

\* The versions, the threads' places and the lock keep their types, and the lock is
\* held by the rebuild that is at work.
THEOREM RebuildTypes == Spec => []TypeOK
  <1>1. Inv => TypeOK
    BY DEF Inv
  <1> QED
    BY <1>1, Invariance, PTL

\* No accepted request is forgotten, but for the exceptions that are named.
THEOREM NothingIsForgotten == Spec => []NothingForgotten
  <1>1. Inv => NothingForgotten
    BY DEF Inv, Kept, Carried, NothingForgotten
  <1> QED
    BY <1>1, Invariance, PTL

(***************************************************************************)
(* The order of the summaries                                              *)
(***************************************************************************)

\* Where all rebuilds take the lock, the snapshot that is about to be stored is not
\* older than the page it replaces, or is none.
Ready(j) == At(j, "read") \/ At(j, "wrote")
InOrder == \A j \in Job : Ready(j) => job[j].snap >= stored \/ job[j].snap = 0

\* A thread that comes to a place other than "read" leaves the snapshots as they are.
LEMMA ElsewhereInOrder ==
  ASSUME Inv, InOrder, stored' = stored,
         \A j \in Job : job'[j] = job[j] \/ job'[j].pc \notin {"read", "wrote"}
  PROVE  InOrder'
  BY DEF InOrder, Ready, At

\* Every step keeps the snapshots in order when nobody builds without the lock, and a
\* summary is replaced by a later one, or emptied.
LEMMA StepInOrder ==
  ASSUME Direct = {}, Inv, InOrder, [Next]_vars
  PROVE  InOrder' /\ (stored' >= stored \/ stored' = 0)
  <1>1. TypeOK /\ stored \in Nat /\ stored <= saved /\ Job = Locked /\ stored >= stored
    BY DEF Inv, TypeOK, Job
  <1>2. job \in [Job -> Work] /\ Timer \in Job
    BY <1>1, Threads DEF TypeOK
  <1>3. ASSUME NEW j \in Job, job'[j].pc \notin {"read", "wrote"}, \A k \in Job \ {j} : job'[k] = job[k],
               stored' = stored
        PROVE  InOrder'
    BY <1>3, ElsewhereInOrder
  <1>5. CASE Save \/ CoolDown \/ Join \/ Forget \/ UNCHANGED vars
    <2>1. job' = job /\ stored' = stored
      BY <1>5 DEF Save, CoolDown, Join, Forget, vars
    <2> QED
      BY <1>1, <2>1, ElsewhereInOrder
  <1>6. CASE Trail \/ Fire \/ MeetItself \/ Exit
    <2>1. job'[Timer].pc \notin {"read", "wrote"} /\ \A k \in Job \ {Timer} : job'[k] = job[k]
      BY <1>2, <1>6 DEF Trail, Fire, MeetItself, Exit, Put, Idle, Work
    <2>2. stored' = stored
      BY <1>6 DEF Trail, Fire, MeetItself, Exit
    <2> QED
      BY <1>1, <1>2, <1>3, <2>1, <2>2
  <1>7. ASSUME NEW w \in Worker,
               \/ \E ids \in SUBSET Id, force \in BOOLEAN : Spawn(w, ids, force)
               \/ Defer(w) \/ Meet(w)
        PROVE  InOrder' /\ stored' = stored
    <2>1. w \in Job /\ w # Timer
      BY Threads
    <2>2. CASE \E ids \in SUBSET Id, force \in BOOLEAN : Spawn(w, ids, force)
      <3>1. /\ job'[w].pc \notin {"read", "wrote"} /\ stored' = stored
            /\ \A k \in Job \ {w} : job'[k] = job[k]
        BY <1>2, <2>1, <2>2 DEF Spawn, Put
      <3> QED
        BY <1>3, <2>1, <3>1
    <2>3. CASE Defer(w)
      <3>1. stored' = stored /\ job'[w] = Idle /\ job'[Timer] = Put("waiting", job[w].ids)
            /\ \A k \in Job \ {w, Timer} : job'[k] = job[k]
        BY <1>2, <2>1, <2>3 DEF Defer
      <3> QED
        BY <3>1, ElsewhereInOrder DEF Idle, Put
    <2>4. CASE Meet(w)
      <3>1. /\ job'[w].pc \notin {"read", "wrote"} /\ stored' = stored
            /\ \A k \in Job \ {w} : job'[k] = job[k]
        BY <1>2, <2>1, <2>4 DEF Meet, Idle
      <3> QED
        BY <1>3, <2>1, <3>1
    <2> QED
      BY <1>7, <2>2, <2>3, <2>4 DEF Spawn
  <1>8. ASSUME NEW j \in Job, Begin(j) \/ FindBusy(j)
        PROVE  InOrder' /\ stored' = stored
    <2>1. /\ job'[j].pc \notin {"read", "wrote"} /\ stored' = stored
          /\ \A k \in Job \ {j} : job'[k] = job[k]
      BY <1>2, <1>8 DEF Begin, FindBusy, Work
    <2> QED
      BY <1>3, <2>1
  <1>9. ASSUME NEW j \in Job, Read(j)
        PROVE  InOrder' /\ stored' = stored
    <2>1. /\ job'[j].snap = saved /\ stored' = stored
          /\ \A k \in Job \ {j} : job'[k] = job[k]
      BY <1>2, <1>9 DEF Read
    <2> QED
      BY <1>1, <2>1 DEF InOrder, Ready, At
  <1>10. ASSUME NEW j \in Job, End(j)
         PROVE  /\ job'[j].pc \notin {"read", "wrote"}
                /\ \A k \in Job \ {j} : job'[k] = job[k]
    BY <1>2, <1>10 DEF End, Put, Idle
  <1>11. ASSUME NEW j \in Job, job[j].pc \in Building
         PROVE  \A k \in Job \ {j} : ~Ready(k)
    BY <1>1, <1>11 DEF TypeOK, Ready, At
  <1>12. ASSUME NEW j \in Job, Store(j) \/ Fail(j)
         PROVE  InOrder' /\ (stored' >= stored \/ stored' = 0)
    <2>1. job[j].pc \in Building /\ End(j)
      BY <1>12 DEF Store, Fail, At
    <2>2. \A k \in Job : job'[k].pc \notin {"read", "wrote"}
      BY <1>10, <1>11, <2>1 DEF Ready, At
    <2>3. InOrder'
      BY <2>2 DEF InOrder, Ready, At
    <2>4. stored' >= stored \/ stored' = 0
      BY <1>1, <1>12 DEF Store, Fail, InOrder, Ready
    <2> QED
      BY <2>3, <2>4
  <1>13. ASSUME NEW j \in Job, ReadFails(j)
         PROVE  InOrder' /\ stored' = stored
    <2>1. /\ job'[j].snap = 0 /\ stored' = stored
          /\ \A k \in Job \ {j} : job'[k] = job[k]
      BY <1>2, <1>13 DEF ReadFails
    <2> QED
      BY <2>1 DEF InOrder, Ready, At
  <1>14. ASSUME NEW j \in Job, StoreSummary(j) \/ LoseSummary(j)
         PROVE  InOrder' /\ stored' = stored
    <2>1. /\ job' = [job EXCEPT ![j].pc = "wrote"] /\ At(j, "read") /\ stored' = stored
      BY <1>14 DEF StoreSummary, LoseSummary
    <2>2. /\ job'[j].snap = job[j].snap
          /\ \A k \in Job \ {j} : job'[k] = job[k]
      BY <1>2, <2>1 DEF Work
    <2> QED
      BY <2>1, <2>2 DEF InOrder, Ready, At
  <1> QED
    BY <1>1, <1>2, <1>5, <1>6, <1>7, <1>8, <1>9, <1>12, <1>13, <1>14
       DEF Next, Request, Run, Trail, Fire, MeetItself, Exit, Locked

\* Rebuilds that take the lock of trigger_performance_rebuild never put an older summary
\* in place of a newer one: one is replaced by a later one, or emptied when the alerts
\* cannot be read.  They are alone outside market hours, when the main loop does not
\* build; what it builds without the lock is what can be stored out of order.
THEOREM LockedRebuildsInOrder ==
  ASSUME Direct = {}
  PROVE  Spec => [][stored' >= stored \/ stored' = 0]_stored
  <1>1. Init => InOrder
    BY DEF Init, InOrder, At, Idle
  <1>2. Inv /\ InOrder /\ [Next]_vars => InOrder' /\ [stored' >= stored \/ stored' = 0]_stored
    BY StepInOrder
  <1> QED
    BY <1>1, <1>2, Invariance, PTL DEF Spec
=============================================================================
