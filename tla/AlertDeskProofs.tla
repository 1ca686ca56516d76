--------------------------- MODULE AlertDeskProofs --------------------------
(***************************************************************************)
(* The desk keeps its types, never opens a second alert of a symbol in one *)
(* container, never overstates evidence, and keeps a journal that agrees   *)
(* with the alerts, for any containers, threads and alerts.                *)
(*                                                                         *)
(* Three strengthenings carry it.  A thread between its search and its     *)
(* insertion holds the lock, and no alert that its container inserted is   *)
(* open on the symbol (SearchInv).  An open row that is marked rejected    *)
(* was reset (RejectedInv).  And a request in progress on an alert that is *)
(* not muddled is the only one, and what it read is still so (RequestInv). *)
(***************************************************************************)
EXTENDS AlertDesk, TLAPS

Scanning == {"search", "evolve", "insert", "entry"}
Requesting == {"reject", "accept", "size"}

ThreadInv == \A t \in Thread :
    /\ th[t].pc \in Scanning => lock[ProcOf[t]] = t
    /\ th[t].pc \in {"search", "insert"} => th[t].symbol \in Symbol /\ th[t].alert = None
    /\ th[t].pc \in {"evolve", "entry"} \cup Requesting => th[t].alert \in Alert /\ Saved(th[t].alert)

SearchInv == \A t \in Thread, b \in Alert \ reset :
    (At(t, "insert") /\ Open(b) /\ SymbolOf[b] = th[t].symbol) => by[b] # ProcOf[t]

RejectedInv == \A a \in rejected \ reset : row[a].status # "OPEN"

CountInv == \A t \in Thread : At(t, "evolve") => th[t].count <= events[th[t].alert]

RequestInv == \A t \in Thread :
    LET a == th[t].alert IN
    (th[t].pc \in Requesting /\ a \notin muddled) =>
        /\ ~Busy(t, a)
        /\ th[t].pc \in {"reject", "size"} <=> a \notin rejected
        /\ th[t].pc = "size" => row[a].cap = 0 /\ journal[a] = first[a] - th[t].cap
        /\ th[t].pc # "size" => row[a].cap = th[t].cap

UnsavedInv == \A a \in Alert : ~Saved(a) => journal[a] = 0 /\ a \notin rejected

JournalInv == RequestInv /\ UnsavedInv /\ JournalAgrees

Inv ==
    /\ TypeOK /\ ThreadInv
    /\ SearchInv /\ RejectedInv /\ SingleOpen
    /\ CountInv /\ EvidenceBacked
    /\ JournalInv

-----------------------------------------------------------------------------
LEMMA InitInv == Init => Inv
  <1> SUFFICES ASSUME Init PROVE Inv
    OBVIOUS
  <1> USE DeskAssumption DEF Init
  <1>1. TypeOK
    <2>1. NoRow \in Row
      BY DEF NoRow, Row
    <2>2. Idle \in Local
      BY DEF Idle, Local, PC
    <2> QED
      BY <2>1, <2>2 DEF TypeOK
  <1>2. ThreadInv /\ SearchInv /\ CountInv /\ RequestInv
    BY DEF ThreadInv, SearchInv, CountInv, RequestInv, At, Idle, Scanning, Requesting
  <1>3. RejectedInv /\ SingleOpen /\ EvidenceBacked /\ UnsavedInv /\ JournalAgrees
    BY DEF RejectedInv, SingleOpen, EvidenceBacked, UnsavedInv, JournalAgrees, Open, Saved, NoRow
  <1> QED
    BY <1>1, <1>2, <1>3 DEF Inv, JournalInv

\* What a thread keeps when it enters a state of its own.
LEMMA LocalTypes ==
  /\ Idle \in Local
  /\ \A s \in Symbol : [Idle EXCEPT !.pc = "search", !.symbol = s] \in Local
  /\ \A a \in Alert, n \in Nat : [Idle EXCEPT !.pc = "evolve", !.alert = a, !.count = n] \in Local
  /\ \A a \in Alert : [Idle EXCEPT !.pc = "entry", !.alert = a] \in Local
  /\ \A a \in Alert, c \in Nat, pc \in Requesting : [Idle EXCEPT !.pc = pc, !.alert = a, !.cap = c] \in Local
  /\ \A l \in Local : [l EXCEPT !.pc = "insert"] \in Local
  BY DEF Idle, Local, PC, Requesting

\* What a column's update makes of a row.
LEMMA RowTypes ==
  ASSUME NEW r \in Row
  PROVE  /\ r.cap \in Nat /\ r.evidence \in Nat
         /\ \A c \in Nat : [r EXCEPT !.cap = c] \in Row
         /\ \A n \in Nat : [r EXCEPT !.evidence = n] \in Row
         /\ \A x \in {"OPEN", "CLOSED", "REJECTED"} : [r EXCEPT !.status = x] \in Row
         /\ \A c \in Nat : [status |-> "OPEN", cap |-> c, evidence |-> 1] \in Row
  BY DEF Row

\* A column's update leaves the other columns.
LEMMA RowParts ==
  ASSUME NEW r \in Row, NEW x
  PROVE  /\ [r EXCEPT !.status = x].status = x
         /\ [r EXCEPT !.status = x].evidence = r.evidence
         /\ [r EXCEPT !.cap = x].status = r.status
         /\ [r EXCEPT !.cap = x].evidence = r.evidence
  BY DEF Row

\* Every step keeps the types.
LEMMA TypesKept == ASSUME TypeOK, ThreadInv, Next PROVE TypeOK'
  <1> USE DeskAssumption
  <1>a. ASSUME NEW a \in Alert, NEW r \in Row, row' = [row EXCEPT ![a] = r]
        PROVE row' \in [Alert -> Row]
    BY <1>a DEF TypeOK
  <1>b. ASSUME NEW t \in Thread, NEW l \in Local, th' = [th EXCEPT ![t] = l]
        PROVE th' \in [Thread -> Local]
    BY <1>b DEF TypeOK
  <1>c. ASSUME NEW t \in Thread, Leave(t)
        PROVE lock' \in [Proc -> Thread \cup {None}] /\ th' \in [Thread -> Local]
    <2>1. lock' \in [Proc -> Thread \cup {None}]
      BY <1>c DEF Leave, TypeOK
    <2> QED
      BY <1>b, <1>c, <2>1, LocalTypes DEF Leave
  <1>d. \A a \in Alert : row[a] \in Row /\ events[a] \in Nat /\ journal[a] \in Int /\ first[a] \in Nat
    BY DEF TypeOK
  <1>e. \A t \in Thread : th[t].cap \in Nat /\ th[t].count \in Nat /\ th[t] \in Local
    BY DEF TypeOK, Local
  <1>f. \A t \in Thread : th[t].pc \in {"evolve", "entry", "reject", "accept", "size"} => th[t].alert \in Alert
    BY DEF ThreadInv, Requesting
  <1>1. ASSUME NEW t \in Thread, Scan(t) PROVE TypeOK'
    <2>1. ASSUME NEW s \in Symbol, Enter(t, s) PROVE TypeOK'
      <3>1. th' \in [Thread -> Local]
        BY <2>1, <1>b, LocalTypes DEF Enter
      <3> QED
        BY <2>1, <3>1 DEF Enter, TypeOK
    <2>2. CASE Refuse(t)
      BY <2>2, <1>c DEF Refuse, TypeOK
    <2>3. CASE FindOpen(t)
      <3>1. th' \in [Thread -> Local]
        BY <2>3, <1>b, <1>d, LocalTypes DEF FindOpen, Of
      <3> QED
        BY <2>3, <3>1 DEF FindOpen, TypeOK
    <2>4. CASE Evolve(t)
      <3> DEFINE a == th[t].alert
      <3>1. a \in Alert /\ row' = [row EXCEPT ![a] = [row[a] EXCEPT !.evidence = th[t].count + 1]]
        BY <2>4, <1>f DEF Evolve, At
      <3>2. row' \in [Alert -> Row]
        <4>1. th[t].count + 1 \in Nat /\ row[a] \in Row
          BY <1>d, <1>e, <3>1
        <4>2. [row[a] EXCEPT !.evidence = th[t].count + 1] \in Row
          BY <4>1, RowTypes
        <4> QED
          BY <1>a, <3>1, <4>2
      <3>3. events' \in [Alert -> Nat]
        BY <2>4, <3>1 DEF Evolve, TypeOK
      <3> QED
        BY <2>4, <1>c, <3>2, <3>3 DEF Evolve, TypeOK
    <2>5. CASE FindNone(t)
      <3>1. th' \in [Thread -> Local]
        <4>1. th' = [th EXCEPT ![t] = [th[t] EXCEPT !.pc = "insert"]]
          BY <2>5 DEF FindNone
        <4> QED
          BY <4>1, <1>b, <1>e, LocalTypes
      <3> QED
        BY <2>5, <3>1 DEF FindNone, TypeOK
    <2>6. ASSUME NEW a \in Alert, Insert(t, a) PROVE TypeOK'
      <3> PICK c \in Allocation :
            /\ row' = [row EXCEPT ![a] = [status |-> "OPEN", cap |-> c, evidence |-> 1]]
            /\ first' = [first EXCEPT ![a] = c]
        BY <2>6 DEF Insert
      <3>1. c \in Nat
        BY DEF Allocation
      <3>2. row' \in [Alert -> Row]
        <4> DEFINE r == [status |-> "OPEN", cap |-> c, evidence |-> 1]
        <4>1. r \in Row
          BY <3>1, <1>d, RowTypes
        <4> HIDE DEF r
        <4>2. row' = [row EXCEPT ![a] = r]
          BY DEF r
        <4> QED
          BY <4>1, <4>2, <1>a
      <3>3. first' \in [Alert -> Nat] /\ by' \in [Alert -> Proc \cup {None}]
        BY <2>6, <3>1 DEF Insert, TypeOK
      <3>4. th' \in [Thread -> Local]
        BY <2>6, <1>b, LocalTypes DEF Insert
      <3> QED
        BY <2>6, <3>2, <3>3, <3>4 DEF Insert, TypeOK
    <2>7. CASE Entry(t)
      <3>1. events' \in [Alert -> Nat]
        BY <2>7, <1>f DEF Entry, At, TypeOK
      <3> QED
        BY <2>7, <3>1, <1>c DEF Entry, TypeOK
    <2> QED
      BY <1>1, <2>1, <2>2, <2>3, <2>4, <2>5, <2>6, <2>7 DEF Scan
  <1>2. ASSUME NEW t \in Thread, Admin(t) PROVE TypeOK'
    <2>1. ASSUME NEW a \in Alert, NEW odd, NEW pc \in Requesting,
                 Ask(t, a, odd), Request(t, pc, a)
          PROVE  asked' \in Nat /\ muddled' \subseteq Alert /\ th' \in [Thread -> Local]
      <3>1. asked' \in Nat /\ muddled' \subseteq Alert
        BY <2>1 DEF Ask, TypeOK
      <3>2. row[a].cap \in Nat
        BY <1>d, RowTypes
      <3> QED
        BY <2>1, <3>1, <3>2, <1>b, LocalTypes DEF Request
    <2>2. ASSUME NEW a \in Alert, Reject(t, a) \/ Accept(t, a) PROVE TypeOK'
      <3>1. asked' \in Nat /\ muddled' \subseteq Alert /\ th' \in [Thread -> Local]
        BY <2>1, <2>2 DEF Reject, Accept, Requesting
      <3> QED
        BY <2>2, <3>1 DEF Reject, Accept, TypeOK
    <2>3. ASSUME NEW a \in Alert, Free(t, a) PROVE TypeOK'
      <3>1. asked' \in Nat /\ muddled' \subseteq Alert /\ th' \in [Thread -> Local]
        BY <2>1, <2>3 DEF Free, Requesting
      <3>2. row' \in [Alert -> Row]
        <4>1. row' = [row EXCEPT ![a] = [row[a] EXCEPT !.cap = 0]]
          BY <2>3 DEF Free
        <4> QED
          BY <4>1, <1>a, <1>d, RowTypes
      <3> QED
        BY <2>3, <3>1, <3>2 DEF Free, TypeOK
    <2>4. ASSUME NEW a \in Alert, NEW n \in Int, Book(a, n) PROVE journal' \in [Alert -> Int]
      BY <2>4, <1>d DEF Book, TypeOK
    <2>5. ASSUME th' = [th EXCEPT ![t] = Idle] PROVE th' \in [Thread -> Local]
      BY <2>5, <1>b, LocalTypes
    <2>6. CASE Rejected(t)
      <3> DEFINE a == th[t].alert
      <3>1. a \in Alert /\ row' = [row EXCEPT ![a] = [row[a] EXCEPT !.status = "REJECTED"]]
        BY <2>6, <1>f DEF Rejected, At
      <3>2. row' \in [Alert -> Row]
        BY <3>1, <1>a, <1>d, RowTypes
      <3>3. journal' \in [Alert -> Int] /\ th' \in [Thread -> Local]
        BY <2>6, <3>1, <2>4, <2>5, <1>e DEF Rejected
      <3> QED
        BY <2>6, <3>1, <3>2, <3>3 DEF Rejected, TypeOK
    <2>7. CASE Accepted(t)
      <3> DEFINE a == th[t].alert
      <3>1. a \in Alert
        BY <2>7, <1>f DEF Accepted, At
      <3>2. journal' \in [Alert -> Int] /\ th' \in [Thread -> Local]
        BY <2>7, <3>1, <2>4, <2>5, <1>e DEF Accepted
      <3> QED
        BY <2>7, <3>1, <3>2 DEF Accepted, TypeOK
    <2>8. CASE Put(t)
      <3> DEFINE a == th[t].alert
      <3> PICK c \in Allocation :
            /\ row' = [row EXCEPT ![a] = [row[a] EXCEPT !.cap = c]]
            /\ Book(a, th[t].cap - c)
        BY <2>8 DEF Put
      <3>1. a \in Alert /\ c \in Nat
        BY <2>8, <1>f DEF Put, At, Allocation
      <3>2. row' \in [Alert -> Row]
        BY <3>1, <1>a, <1>d, RowTypes
      <3>3. journal' \in [Alert -> Int] /\ th' \in [Thread -> Local]
        BY <2>8, <3>1, <2>4, <2>5, <1>e DEF Put
      <3> QED
        BY <2>8, <3>2, <3>3 DEF Put, TypeOK
    <2>9. ASSUME NEW S \in SUBSET Alert, FreeMany(t, S) PROVE TypeOK'
      <3>1. \A a \in Alert : [row[a] EXCEPT !.cap = 0] \in Row
        BY <1>d, RowTypes
      <3>2. row' \in [Alert -> Row]
        BY <2>9, <3>1, <1>d DEF FreeMany
      <3> QED
        BY <2>9, <3>2 DEF FreeMany, TypeOK
    <2> QED
      BY <1>2, <2>2, <2>3, <2>6, <2>7, <2>8, <2>9 DEF Admin
  <1>3. ASSUME NEW t \in Thread, Fail(t) PROVE TypeOK'
    <2>1. muddled' \subseteq Alert
      BY <1>3, <1>f DEF Fail, At, TypeOK
    <2> QED
      BY <1>3, <1>c, <2>1 DEF Fail, TypeOK
  <1>4. ASSUME NEW p \in Proc, NEW S \in SUBSET Alert, Reset(p, S) PROVE TypeOK'
    <2>1. \A a \in Alert : [row[a] EXCEPT !.status = "OPEN"] \in Row
      BY <1>d, RowTypes
    <2>2. row' \in [Alert -> Row]
      BY <1>4, <2>1, <1>d DEF Reset
    <2> QED
      BY <1>4, <2>2 DEF Reset, TypeOK
  <1>5. ASSUME NEW a \in Alert, Close(a) PROVE TypeOK'
    <2>1. row' = [row EXCEPT ![a] = [row[a] EXCEPT !.status = "CLOSED"]]
      BY <1>5 DEF Close
    <2>2. row' \in [Alert -> Row]
      BY <2>1, <1>a, <1>d, RowTypes
    <2> QED
      BY <1>5, <2>2 DEF Close, TypeOK
  <1> QED
    BY <1>1, <1>2, <1>3, <1>4, <1>5 DEF Next

-----------------------------------------------------------------------------
\* A thread's step is its own: the others keep their locals and the lock they hold.
LEMMA OthersKept ==
  ASSUME TypeOK, ThreadInv, NEW t \in Thread, Scan(t) \/ Admin(t) \/ Fail(t),
         NEW u \in Thread \ {t}
  PROVE  th'[u] = th[u] /\ (th[u].pc \in Scanning => lock'[ProcOf[u]] = u)
  <1> USE DeskAssumption
  <1>1. th'[u] = th[u]
    <2>1. (\E l : th' = [th EXCEPT ![t] = l]) \/ th' = th
      <3>1. Leave(t) => \E l : th' = [th EXCEPT ![t] = l]
        BY DEF Leave
      <3>2. \A pc, a : Request(t, pc, a) => \E l : th' = [th EXCEPT ![t] = l]
        BY DEF Request
      <3>3. Scan(t) => \E l : th' = [th EXCEPT ![t] = l]
        BY <3>1 DEF Scan, Enter, Refuse, FindOpen, Evolve, FindNone, Insert, Entry
      <3>4. Admin(t) => ((\E l : th' = [th EXCEPT ![t] = l]) \/ th' = th)
        BY <3>2 DEF Admin, Reject, Accept, Free, Rejected, Accepted, Put, FreeMany
      <3> QED
        BY <3>1, <3>3, <3>4 DEF Fail
    <2> QED
      BY <2>1 DEF TypeOK
  <1>2. ASSUME th[u].pc \in Scanning PROVE lock'[ProcOf[u]] = u
    <2>1. lock[ProcOf[u]] = u /\ ProcOf[u] \in Proc /\ u # None
      BY <1>2 DEF ThreadInv
    <2>2. lock' = lock \/ Leave(t) \/ \E s \in Symbol : Enter(t, s)
      <3>1. Scan(t) => (lock' = lock \/ Leave(t) \/ \E s \in Symbol : Enter(t, s))
        BY DEF Scan, Refuse, FindOpen, Evolve, FindNone, Insert, Entry
      <3>2. Admin(t) => lock' = lock
        BY DEF Admin, Reject, Accept, Free, Rejected, Accepted, Put, FreeMany
      <3> QED
        BY <3>1, <3>2 DEF Fail
    <2> QED
      BY <2>1, <2>2 DEF Leave, Enter, TypeOK
  <1> QED
    BY <1>1, <1>2

\* What the steps do to the rows: they save one more, or none; they change no
\* status but as the open ones, the closed ones and the rejections ask for.
LEMMA RowSteps ==
  ASSUME TypeOK, ThreadInv, Next
  PROVE  \A a \in Alert :
            \/ \E t \in Thread : Insert(t, a)
            \/ /\ by'[a] = by[a] /\ first'[a] = first[a]
               /\ Saved(a)' <=> Saved(a)
               /\ row'[a].status = "OPEN" => row[a].status = "OPEN" \/ a \in reset'
  <1> SUFFICES ASSUME NEW a \in Alert, \A t \in Thread : ~Insert(t, a)
               PROVE  /\ by'[a] = by[a] /\ first'[a] = first[a]
                      /\ Saved(a)' <=> Saved(a)
                      /\ row'[a].status = "OPEN" => row[a].status = "OPEN" \/ a \in reset'
    OBVIOUS
  <1>0. row[a] \in Row /\ row \in [Alert -> Row]
    BY DEF TypeOK
  <1>1. ASSUME NEW t \in Thread, Scan(t)
        PROVE  row'[a].status = row[a].status /\ by'[a] = by[a] /\ first'[a] = first[a]
    <2>1. ASSUME NEW b \in Alert, Insert(t, b)
          PROVE  row'[a] = row[a] /\ by'[a] = by[a] /\ first'[a] = first[a]
      BY <2>1 DEF Insert, TypeOK
    <2>2. CASE Evolve(t)
      BY <2>2, <1>0 DEF Evolve, Row
    <2> QED
      BY <1>1, <2>1, <2>2 DEF Scan, Enter, Refuse, FindOpen, FindNone, Entry
  <1>2. ASSUME NEW t \in Thread, Admin(t)
        PROVE  /\ by'[a] = by[a] /\ first'[a] = first[a]
               /\ \/ row'[a].status = row[a].status
                  \/ /\ row'[a].status = "REJECTED" /\ Saved(a)
    <2>1. CASE Rejected(t)
      <3>1. th[t].alert \in Alert /\ Saved(th[t].alert)
        BY <2>1 DEF Rejected, At, ThreadInv, Requesting
      <3> QED
        BY <2>1, <1>0, <3>1 DEF Rejected, Row
    <2>2. CASE Put(t)
      BY <2>2, <1>0 DEF Put, Row
    <2>3. ASSUME NEW b \in Alert, Free(t, b)
          PROVE by'[a] = by[a] /\ first'[a] = first[a] /\ row'[a].status = row[a].status
      BY <2>3, <1>0 DEF Free, Row
    <2>4. ASSUME NEW S \in SUBSET Alert, FreeMany(t, S)
          PROVE by'[a] = by[a] /\ first'[a] = first[a] /\ row'[a].status = row[a].status
      BY <2>4, <1>0 DEF FreeMany, Row
    <2> QED
      BY <1>2, <2>1, <2>2, <2>3, <2>4 DEF Admin, Reject, Accept, Accepted
  <1>3. ASSUME NEW t \in Thread, Fail(t) PROVE by' = by /\ first' = first /\ row' = row
    BY <1>3 DEF Fail
  <1>4. ASSUME NEW p \in Proc, NEW S \in SUBSET Alert, Reset(p, S)
        PROVE  /\ by' = by /\ first' = first
               /\ \/ row'[a] = row[a]
                  \/ row'[a].status = "OPEN" /\ Saved(a) /\ a \in reset'
    BY <1>4, <1>0 DEF Reset, Closed, Row, Saved
  <1>5. ASSUME NEW b \in Alert, Close(b)
        PROVE  /\ by' = by /\ first' = first
               /\ \/ row'[a] = row[a]
                  \/ row'[a].status = "CLOSED" /\ Saved(a)
    BY <1>5, <1>0 DEF Close, Row, Saved
  <1> QED
    BY <1>1, <1>2, <1>3, <1>4, <1>5 DEF Next, Saved

\* A saved alert stays saved.
LEMMA SavedKept ==
  ASSUME TypeOK, ThreadInv, Next, NEW a \in Alert, Saved(a)
  PROVE  Saved(a)' /\ by'[a] = by[a] /\ first'[a] = first[a]
  <1>1. \A t \in Thread : ~Insert(t, a)
    BY DEF Insert
  <1> QED
    BY <1>1, RowSteps

LEMMA ThreadKept == ASSUME TypeOK, ThreadInv, Next PROVE ThreadInv'
  <1> USE DeskAssumption
  <1>1. ASSUME NEW t \in Thread, Scan(t) \/ Admin(t) \/ Fail(t) PROVE ThreadInv'
    <2>1. ASSUME NEW u \in Thread \ {t}
          PROVE  /\ th'[u].pc \in Scanning => lock'[ProcOf[u]] = u
                 /\ th'[u].pc \in {"search", "insert"} => th'[u].symbol \in Symbol /\ th'[u].alert = None
                 /\ th'[u].pc \in {"evolve", "entry"} \cup Requesting => th'[u].alert \in Alert /\ row'[th'[u].alert].status # "none"
      <3>1. th'[u] = th[u] /\ (th[u].pc \in Scanning => lock'[ProcOf[u]] = u)
        BY <1>1, OthersKept
      <3>2. th[u].pc \in {"evolve", "entry"} \cup Requesting => th[u].alert \in Alert /\ Saved(th[u].alert)
        BY DEF ThreadInv
      <3>3. \A a \in Alert : Saved(a) => Saved(a)'
        BY SavedKept
      <3> QED
        BY <3>1, <3>2, <3>3 DEF ThreadInv, Saved
    <2>2. \/ th'[t].pc = "idle"
          \/ /\ th'[t].pc \in {"search", "insert"} /\ lock'[ProcOf[t]] = t
             /\ th'[t].symbol \in Symbol /\ th'[t].alert = None
          \/ /\ th'[t].pc \in {"evolve", "entry"} /\ lock'[ProcOf[t]] = t
             /\ th'[t].alert \in Alert /\ row'[th'[t].alert].status # "none"
          \/ /\ th'[t].pc \in Requesting
             /\ th'[t].alert \in Alert /\ row'[th'[t].alert].status # "none"
      <3>0. th[t] \in Local /\ th \in [Thread -> Local] /\ ProcOf[t] \in Proc
        BY DEF TypeOK
      <3>1. CASE Leave(t) \/ th' = [th EXCEPT ![t] = Idle]
        BY <3>0, <3>1 DEF Leave, Idle
      <3>2. ASSUME NEW s \in Symbol, Enter(t, s)
            PROVE  /\ th'[t].pc = "search" /\ lock'[ProcOf[t]] = t
                   /\ th'[t].symbol \in Symbol /\ th'[t].alert = None
        BY <3>0, <3>2 DEF Enter, Idle, TypeOK
      <3>3. CASE FindOpen(t)
        <4> PICK a \in Alert : /\ Saved(a)
                               /\ th' = [th EXCEPT ![t] = [Idle EXCEPT !.pc = "evolve", !.alert = a, !.count = events[a]]]
          BY <3>3 DEF FindOpen, Of
        <4>1. th'[t].pc = "evolve" /\ th'[t].alert = a
          BY <3>0 DEF Idle
        <4>2. lock'[ProcOf[t]] = t
          BY <3>3 DEF FindOpen, ThreadInv, At, Scanning
        <4>3. Saved(a)'
          BY SavedKept
        <4> QED
          BY <4>1, <4>2, <4>3 DEF Saved
      <3>4. CASE FindNone(t)
        <4>1. lock'[ProcOf[t]] = t /\ th[t].symbol \in Symbol /\ th[t].alert = None
          BY <3>4 DEF FindNone, ThreadInv, At, Scanning
        <4> QED
          BY <3>0, <3>4, <4>1 DEF FindNone, Local
      <3>5. ASSUME NEW a \in Alert, Insert(t, a)
            PROVE  /\ th'[t].pc = "entry" /\ lock'[ProcOf[t]] = t
                   /\ th'[t].alert = a /\ row'[a].status # "none"
        <4>1. th'[t].pc = "entry" /\ th'[t].alert = a
          BY <3>0, <3>5 DEF Insert, Idle
        <4>2. lock'[ProcOf[t]] = t
          BY <3>5 DEF Insert, ThreadInv, At, Scanning
        <4>3. row'[a].status = "OPEN"
          BY <3>5 DEF Insert, TypeOK
        <4> QED
          BY <4>1, <4>2, <4>3 DEF Saved
      <3>6. ASSUME NEW a \in Alert, Reject(t, a) \/ Accept(t, a) \/ Free(t, a)
            PROVE  th'[t].pc \in Requesting /\ th'[t].alert = a /\ row'[a].status # "none"
        <4>1. PICK pc \in Requesting : Request(t, pc, a)
          BY <3>6 DEF Reject, Accept, Free, Requesting
        <4>2. Saved(a)
          BY <3>6 DEF Reject, Accept, Free, Ask
        <4>3. th'[t].pc = pc /\ th'[t].alert = a
          BY <3>0, <4>1 DEF Request, Idle
        <4>4. Saved(a)'
          BY <4>2, SavedKept
        <4> QED
          BY <4>3, <4>4 DEF Saved
      <3>7. ASSUME NEW S \in SUBSET Alert, FreeMany(t, S) PROVE th'[t].pc = "idle"
        BY <3>7 DEF FreeMany, At
      <3>8. Scan(t) => \/ Leave(t) \/ FindOpen(t) \/ FindNone(t)
                       \/ \E s \in Symbol : Enter(t, s)
                       \/ \E a \in Alert : Insert(t, a)
        BY DEF Scan, Refuse, Evolve, Entry
      <3>9. Admin(t) => \/ th' = [th EXCEPT ![t] = Idle]
                        \/ \E a \in Alert : Reject(t, a) \/ Accept(t, a) \/ Free(t, a)
                        \/ \E S \in SUBSET Alert : FreeMany(t, S)
        BY DEF Admin, Rejected, Accepted, Put
      <3>10. Fail(t) => Leave(t)
        BY DEF Fail
      <3> QED
        BY <1>1, <3>1, <3>2, <3>3, <3>4, <3>5, <3>6, <3>7, <3>8, <3>9, <3>10
    <2>3. /\ th'[t].pc \in Scanning => lock'[ProcOf[t]] = t
          /\ th'[t].pc \in {"search", "insert"} => th'[t].symbol \in Symbol /\ th'[t].alert = None
          /\ th'[t].pc \in {"evolve", "entry"} \cup Requesting => th'[t].alert \in Alert /\ row'[th'[t].alert].status # "none"
      BY <2>2 DEF Scanning, Requesting
    <2> QED
      BY <2>1, <2>3 DEF ThreadInv, Saved
  <1>2. ASSUME UNCHANGED <<th, lock>> PROVE ThreadInv'
    <2>1. \A a \in Alert : Saved(a) => Saved(a)'
      BY SavedKept
    <2> QED
      BY <1>2, <2>1 DEF ThreadInv, Saved
  <1>3. (\E p \in Proc, S \in SUBSET Alert : Reset(p, S)) \/ (\E a \in Alert : Close(a)) => UNCHANGED <<th, lock>>
    BY DEF Reset, Close
  <1> QED
    BY <1>1, <1>2, <1>3 DEF Next

\* An open alert was open, or is the one that is inserted: to be accepted again or
\* reallocated does not open an alert that no reset has touched.
LEMMA OpenKept ==
  ASSUME TypeOK, ThreadInv, SearchInv, RejectedInv, SingleOpen, UnsavedInv, Next
  PROVE  RejectedInv' /\ SearchInv' /\ SingleOpen'
  <1> USE DeskAssumption
  <1>1. reset \subseteq reset'
    BY DEF Next, Scan, Admin, Enter, Refuse, FindOpen, Evolve, FindNone, Insert, Entry, Reject,
           Accept, Free, Rejected, Accepted, Put, FreeMany, Fail, Reset, Close
  <1>2. ASSUME NEW a \in Alert, \A t \in Thread : ~Insert(t, a), a \notin reset'
        PROVE  /\ row'[a].status = "OPEN" => row[a].status = "OPEN"
               /\ by'[a] = by[a] /\ a \notin reset
    BY <1>1, <1>2, RowSteps
  <1>3. \A a \in rejected' : a \in rejected \/ row'[a].status = "REJECTED"
    <2>1. ASSUME NEW t \in Thread, Rejected(t) PROVE \A a \in rejected' : a \in rejected \/ row'[a].status = "REJECTED"
      <3>1. th[t].alert \in Alert
        BY <2>1 DEF Rejected, At, ThreadInv, Requesting
      <3> QED
        BY <2>1, <3>1 DEF Rejected, TypeOK, Row
    <2>2. (\A t \in Thread : ~Rejected(t)) => rejected' \subseteq rejected
      BY DEF Next, Scan, Admin, Enter, Refuse, FindOpen, Evolve, FindNone, Insert, Entry, Reject,
           Accept, Free, Accepted, Put, FreeMany, Fail, Reset, Close
    <2> QED
      BY <2>1, <2>2
  <1>4. RejectedInv'
    <2> SUFFICES ASSUME NEW a \in rejected', a \notin reset' PROVE row'[a].status # "OPEN"
      BY DEF RejectedInv
    <2>1. CASE a \in rejected
      <3>1. Saved(a) /\ a \in Alert
        BY <2>1 DEF UnsavedInv, TypeOK
      <3>2. \A t \in Thread : ~Insert(t, a)
        BY <3>1 DEF Insert
      <3> QED
        BY <1>2, <2>1, <3>1, <3>2 DEF RejectedInv
    <2> QED
      BY <1>3, <2>1
  <1>5. ASSUME NEW a \in Alert, a \notin reset', Open(a)', \A t \in Thread : ~Insert(t, a)
        PROVE  Open(a) /\ by'[a] = by[a] /\ a \notin reset
    BY <1>2, <1>5 DEF Open, RejectedInv
  <1>6. ASSUME NEW t \in Thread, NEW a \in Alert, Insert(t, a)
        PROVE  SearchInv' /\ SingleOpen'
    <2>1. reset' = reset /\ by'[a] = ProcOf[t] /\ SymbolOf[a] = th[t].symbol
      <3>1. by' = [by EXCEPT ![a] = ProcOf[t]] /\ by \in [Alert -> Proc \cup {None}]
        BY <1>6 DEF Insert, TypeOK
      <3> QED
        BY <1>6, <3>1 DEF Insert
    <2>2. \A b \in Alert \ {a}, u \in Thread : ~Insert(u, b)
      <3>1. row'[a].status = "OPEN" /\ row[a].status = "none"
        BY <1>6 DEF Insert, Saved, TypeOK
      <3>2. ASSUME NEW b \in Alert \ {a}, NEW u \in Thread, Insert(u, b) PROVE row'[a] = row[a]
        BY <3>2 DEF Insert, TypeOK
      <3> QED
        BY <3>1, <3>2
    <2>3. \A b \in Alert \ reset : b # a /\ Open(b)' /\ SymbolOf[b] = SymbolOf[a] => by'[b] # by'[a]
      <3>1. At(t, "insert")
        BY <1>6 DEF Insert
      <3> QED
        BY <1>5, <2>1, <2>2, <3>1 DEF SearchInv
    <2>4. SingleOpen'
      BY <1>5, <2>1, <2>2, <2>3 DEF SingleOpen
    <2>5. ASSUME NEW u \in Thread, NEW b \in Alert, b \notin reset, th'[u].pc = "insert", Open(b)',
                 SymbolOf[b] = th'[u].symbol
          PROVE  by'[b] # ProcOf[u]
      <3>1. u # t
        BY <1>6, <2>5 DEF Insert, TypeOK, Idle
      <3>2. th'[u] = th[u]
        BY <1>6, <3>1, OthersKept DEF Scan
      <3>3. CASE b = a
        <4>1. ProcOf[u] # ProcOf[t]
          <5>1. lock[ProcOf[u]] = u
            BY <2>5, <3>2 DEF ThreadInv, Scanning
          <5>2. lock[ProcOf[t]] = t
            BY <1>6 DEF Insert, At, ThreadInv, Scanning
          <5> QED
            BY <3>1, <5>1, <5>2
        <4> QED
          BY <2>1, <3>3, <4>1
      <3>4. CASE b # a
        <4>1. Open(b) /\ by'[b] = by[b]
          BY <1>5, <2>1, <2>2, <2>5, <3>4
        <4> QED
          BY <2>5, <3>2, <4>1 DEF SearchInv, At
      <3> QED
        BY <3>3, <3>4
    <2> QED
      BY <2>1, <2>4, <2>5 DEF SearchInv, At
  <1>7. ASSUME \A t \in Thread, a \in Alert : ~Insert(t, a)
        PROVE  SearchInv' /\ SingleOpen'
    <2>1. SingleOpen'
      BY <1>5, <1>7 DEF SingleOpen
    <2>2. ASSUME NEW u \in Thread, NEW b \in Alert, b \notin reset', th'[u].pc = "insert", Open(b)',
                 SymbolOf[b] = th'[u].symbol
          PROVE  by'[b] # ProcOf[u]
      <3>1. Open(b) /\ by'[b] = by[b] /\ b \notin reset
        BY <1>5, <1>7, <2>2
      <3>2. CASE th'[u] = th[u]
        BY <2>2, <3>1, <3>2 DEF SearchInv, At
      <3>3. CASE th'[u] # th[u]
        <4>1. FindNone(u)
          <5>1. Scan(u) \/ Admin(u) \/ Fail(u)
            BY <3>3, OthersKept DEF Next, Reset, Close
          <5>a. th \in [Thread -> Local]
            BY DEF TypeOK
          <5>b. ASSUME NEW a \in Alert, NEW pc \in Requesting, Request(u, pc, a) PROVE th'[u].pc = pc
            BY <5>a, <5>b DEF Request, Idle
          <5>2. th'[u] = Idle \/ (\E a \in Alert, pc \in Requesting : Request(u, pc, a)) => th'[u].pc # "insert"
            BY <5>b DEF Idle, Requesting
          <5>3. Leave(u) \/ th' = [th EXCEPT ![u] = Idle] => th'[u] = Idle
            BY DEF Leave, TypeOK
          <5>4. Admin(u) \/ Fail(u) => \/ th' = th \/ Leave(u) \/ th' = [th EXCEPT ![u] = Idle]
                                       \/ \E a \in Alert, pc \in Requesting : Request(u, pc, a)
            BY DEF Admin, Fail, Reject, Accept, Free, Rejected, Accepted, Put, FreeMany, Requesting
          <5>5. ASSUME Scan(u), ~FindNone(u) PROVE th'[u] = Idle \/ th'[u].pc # "insert"
            <6>1. ASSUME NEW s \in Symbol, Enter(u, s) PROVE th'[u].pc = "search"
              BY <5>a, <6>1 DEF Enter, Idle
            <6>2. ASSUME FindOpen(u) PROVE th'[u].pc = "evolve"
              BY <5>a, <6>2 DEF FindOpen, Idle
            <6> QED
              BY <1>7, <5>5, <5>3, <6>1, <6>2 DEF Scan, Refuse, Evolve, Entry
          <5> QED
            BY <2>2, <3>3, <5>1, <5>2, <5>3, <5>4, <5>5
        <4>2. th'[u].symbol = th[u].symbol
          BY <4>1 DEF FindNone, TypeOK, Local
        <4>3. b \in Of(th[u].symbol)
          BY <2>2, <3>1, <4>2 DEF Of, Open, Saved
        <4> QED
          BY <3>1, <4>1, <4>3 DEF FindNone
      <3> QED
        BY <3>2, <3>3
    <2> QED
      BY <2>1, <2>2 DEF SearchInv, At
  <1> QED
    BY <1>4, <1>6, <1>7

-----------------------------------------------------------------------------
\* Events only grow, and what an alert claims is counted before its event is in.
LEMMA EvidenceKept ==
  ASSUME TypeOK, ThreadInv, CountInv, EvidenceBacked, Next
  PROVE  CountInv' /\ EvidenceBacked'
  <1>0. /\ \A a \in Alert : row[a] \in Row /\ events[a] \in Nat /\ row[a].evidence \in Nat
        /\ th \in [Thread -> Local] /\ row \in [Alert -> Row] /\ events \in [Alert -> Nat]
    BY DEF TypeOK, Row
  <1>1. \A a \in Alert : events'[a] \in Nat /\ events[a] <= events'[a]
    <2>1. ASSUME NEW t \in Thread, Evolve(t) \/ Entry(t)
          PROVE  \A a \in Alert : events'[a] = events[a] \/ events'[a] = events[a] + 1
      BY <1>0, <2>1 DEF Evolve, Entry
    <2>2. (\A t \in Thread : ~Evolve(t) /\ ~Entry(t)) => events' = events
      BY DEF Next, Scan, Admin, Enter, Refuse, FindOpen, FindNone, Insert, Reject,
           Accept, Free, Rejected, Accepted, Put, FreeMany, Fail, Reset, Close
    <2> QED
      BY <1>0, <2>1, <2>2
  <1>2. ASSUME NEW t \in Thread, th'[t].pc = "evolve"
        PROVE  th'[t].count <= events'[th'[t].alert]
    <2>1. CASE th'[t] = th[t]
      <3>1. th[t].alert \in Alert /\ th[t].count <= events[th[t].alert] /\ th[t].count \in Nat
        BY <1>0, <1>2, <2>1 DEF ThreadInv, CountInv, At, Local
      <3> QED
        BY <1>0, <1>1, <2>1, <3>1
    <2>2. ASSUME FindOpen(t) PROVE th'[t].alert \in Alert /\ th'[t].count = events'[th'[t].alert] /\ events' = events
      BY <1>0, <2>2 DEF FindOpen, Of, Idle
    <2>3. CASE ~FindOpen(t) /\ th'[t] # th[t]
      <3>1. Scan(t) \/ Admin(t) \/ Fail(t)
        BY <2>3, OthersKept DEF Next, Reset, Close
      <3>2. Leave(t) \/ th' = [th EXCEPT ![t] = Idle] => th'[t] = Idle
        BY <1>0 DEF Leave
      <3>3. ASSUME NEW a \in Alert, Reject(t, a) \/ Accept(t, a) \/ Free(t, a) \/ Insert(t, a)
            PROVE  th'[t].pc # "evolve"
        BY <1>0, <3>3 DEF Reject, Accept, Free, Request, Insert, Idle
      <3>4. FindNone(t) => th'[t].pc = "insert"
        BY <1>0 DEF FindNone, Local
      <3>5. ASSUME NEW s \in Symbol, Enter(t, s) PROVE th'[t].pc = "search"
        BY <1>0, <3>5 DEF Enter, Idle
      <3> QED
        BY <1>2, <2>3, <3>1, <3>2, <3>3, <3>4, <3>5
           DEF Scan, Admin, Fail, Refuse, Evolve, Entry, Rejected, Accepted, Put, FreeMany, Idle
    <2> QED
      BY <1>0, <1>2, <2>1, <2>2, <2>3
  <1>3. ASSUME NEW a \in Alert PROVE row'[a].evidence <= 1 \/ row'[a].evidence <= events'[a]
    <2>1. ASSUME NEW t \in Thread, Evolve(t), th[t].alert = a
          PROVE  row'[a].evidence = th[t].count + 1 /\ events'[a] = events[a] + 1 /\ th[t].count <= events[a]
                 /\ th[t].count \in Nat
      <3>1. th[t].count <= events[a] /\ th[t].count \in Nat
        BY <1>0, <2>1 DEF Evolve, CountInv, Local
      <3> QED
        BY <1>0, <2>1, <3>1 DEF Evolve, Row
    <2>2. ASSUME NEW t \in Thread, Evolve(t), th[t].alert # a PROVE row'[a] = row[a]
      BY <1>0, <2>2 DEF Evolve
    <2>3. ASSUME NEW t \in Thread, NEW b \in Alert, Insert(t, b)
          PROVE  row'[a] = row[a] \/ row'[a].evidence = 1
      BY <1>0, <2>3 DEF Insert
    <2>4. ASSUME \A t \in Thread : ~Evolve(t) /\ \A b \in Alert : ~Insert(t, b)
          PROVE  row'[a].evidence = row[a].evidence
      <3>1. ASSUME NEW t \in Thread,
                   Rejected(t) \/ Put(t) \/ (\E b \in Alert : Free(t, b)) \/ \E S \in SUBSET Alert : FreeMany(t, S)
            PROVE  row'[a].evidence = row[a].evidence
        <4>1. \E b : \/ row' = [row EXCEPT ![b] = [row[b] EXCEPT !.status = "REJECTED"]]
                     \/ \E c : row' = [row EXCEPT ![b] = [row[b] EXCEPT !.cap = c]]
                     \/ row'[a] = row[a] \/ row'[a] = [row[a] EXCEPT !.cap = 0]
          BY <1>0, <3>1 DEF Rejected, Put, Free, FreeMany
        <4>2. PICK b : \/ row' = [row EXCEPT ![b] = [row[b] EXCEPT !.status = "REJECTED"]]
                       \/ \E c : row' = [row EXCEPT ![b] = [row[b] EXCEPT !.cap = c]]
                       \/ row'[a] = row[a] \/ row'[a] = [row[a] EXCEPT !.cap = 0]
          BY <4>1
        <4>3. \/ row'[a] = row[a]
              \/ row'[a] = [row[a] EXCEPT !.status = "REJECTED"]
              \/ \E c : row'[a] = [row[a] EXCEPT !.cap = c]
          BY <1>0, <4>2
        <4>4. \A c : [row[a] EXCEPT !.cap = c].evidence = row[a].evidence
          BY <1>0, RowParts
        <4>5. [row[a] EXCEPT !.status = "REJECTED"].evidence = row[a].evidence
          BY <1>0, RowParts
        <4> QED
          BY <4>3, <4>4, <4>5
      <3>2. ASSUME (\E p \in Proc, S \in SUBSET Alert : Reset(p, S)) \/ \E b \in Alert : Close(b)
            PROVE  row'[a].evidence = row[a].evidence
        BY <1>0, <3>2 DEF Reset, Close, Row
      <3> QED
        BY <2>4, <3>1, <3>2 DEF Next, Scan, Admin, Enter, Refuse, FindOpen, FindNone, Entry, Reject,
             Accept, Accepted, Fail
    <2>5. row[a].evidence <= 1 \/ row[a].evidence <= events[a]
      BY DEF EvidenceBacked
    <2> QED
      BY <1>0, <1>1, <2>1, <2>2, <2>3, <2>4, <2>5
  <1> QED
    BY <1>2, <1>3 DEF CountInv, EvidenceBacked, At

-----------------------------------------------------------------------------
\* Steps that move no capital of an alert that is not muddled afterwards, and begin
\* no request.  One that gives a request up in the middle muddles its alert.
LEMMA QuietJournal ==
  ASSUME TypeOK, ThreadInv, JournalInv,
         \A a \in Alert : Saved(a)' <=> Saved(a),
         \A a \in Alert \ muddled' : row'[a].cap = row[a].cap,
         UNCHANGED <<journal, first, rejected>>,
         muddled \subseteq muddled',
         \A u \in Thread : \/ th'[u] = th[u]
                           \/ /\ th'[u].pc \notin Requesting
                              /\ th[u].pc = "size" => th[u].alert \in muddled'
  PROVE  JournalInv'
  <1>1. UnsavedInv'
    BY DEF JournalInv, UnsavedInv
  <1>2. \A a : \A u \in Thread : Busy(u, a)' => Busy(u, a)
    BY DEF Busy, Requesting
  <1>3. RequestInv'
    <2> SUFFICES ASSUME NEW u \in Thread, th'[u].pc \in Requesting, th'[u].alert \notin muddled'
                 PROVE  /\ ~Busy(u, th[u].alert)'
                        /\ th'[u] = th[u]
                        /\ th[u].pc \in {"reject", "size"} <=> th[u].alert \notin rejected'
                        /\ th[u].pc = "size" => row'[th[u].alert].cap = 0 /\ journal'[th[u].alert] = first'[th[u].alert] - th[u].cap
                        /\ th[u].pc # "size" => row'[th[u].alert].cap = th[u].cap
      BY DEF RequestInv, Busy
    <2>1. th'[u] = th[u] /\ th[u].alert \in Alert
      BY DEF ThreadInv
    <2> QED
      BY <1>2, <2>1 DEF JournalInv, RequestInv
  <1>4. JournalAgrees'
    <2> SUFFICES ASSUME NEW a \in Alert, a \notin muddled'
                 PROVE  Resizing(a)' \/ journal'[a] = first'[a] - (IF a \in rejected' THEN 0 ELSE row'[a].cap)
      BY DEF JournalAgrees
    <2>1. Resizing(a) => Resizing(a)'
      BY DEF Resizing, At
    <2> QED
      BY <2>1 DEF JournalInv, JournalAgrees
  <1> QED
    BY <1>1, <1>3, <1>4 DEF JournalInv

\* A request that begins reads the alert as it is.
LEMMA RequestBegins ==
  ASSUME TypeOK, ThreadInv, JournalInv, NEW t \in Thread, NEW a \in Alert,
         Reject(t, a) \/ Accept(t, a) \/ Free(t, a)
  PROVE  JournalInv'
  <1>0. th \in [Thread -> Local] /\ row \in [Alert -> Row] /\ row[a].cap \in Nat
    BY DEF TypeOK, Row
  <1>1. PICK pc \in Requesting :
          /\ Request(t, pc, a)
          /\ pc = "reject" => Reject(t, a)
          /\ pc = "accept" => Accept(t, a)
          /\ pc = "size" => Free(t, a)
    BY DEF Reject, Accept, Free, Requesting
  <1>2. /\ th'[t].pc = pc /\ th'[t].alert = a /\ th'[t].cap = row[a].cap
        /\ \A u \in Thread \ {t} : th'[u] = th[u]
        /\ th[t].pc = "idle"
    BY <1>0, <1>1 DEF Request, Reject, Accept, Free, Ask, Idle, At
  <1>3. UNCHANGED <<journal, first, rejected>>
    BY DEF Reject, Accept, Free
  <1>4. /\ pc # "size" => row' = row
        /\ pc = "size" => row'[a].cap = 0
        /\ \A b \in Alert : b # a => row'[b] = row[b]
        /\ \A b \in Alert : row'[b].status = row[b].status
    <2>1. pc # "size" => row' = row
      BY <1>1 DEF Reject, Accept, Requesting
    <2>2. CASE pc = "size"
      <3>1. row' = [row EXCEPT ![a] = [row[a] EXCEPT !.cap = 0]]
        BY <1>1, <2>2 DEF Free
      <3>2. \A b \in Alert : b # a => row'[b] = row[b]
        BY <1>0, <3>1
      <3>3. row'[a].cap = 0 /\ row'[a].status = row[a].status
        BY <1>0, <3>1 DEF Row
      <3> QED
        BY <2>2, <3>2, <3>3
    <2> QED
      BY <2>1, <2>2
  <1>5. muddled \subseteq muddled' /\ (Busy(t, a) => a \in muddled') /\ (pc = "size" /\ a \in rejected => a \in muddled')
    <2>1. ASSUME NEW odd, Ask(t, a, odd)
          PROVE  muddled \subseteq muddled' /\ (Busy(t, a) => a \in muddled') /\ (odd => a \in muddled')
      BY <2>1 DEF Ask
    <2> QED
      BY <1>1, <2>1 DEF Reject, Accept, Free
  <1>6. UnsavedInv'
    BY <1>3, <1>4 DEF JournalInv, UnsavedInv, Saved
  <1>7. ASSUME a \notin muddled'
        PROVE  \A u \in Thread \ {t} : ~(th[u].alert = a /\ th[u].pc \in Requesting)
    BY <1>5, <1>7 DEF Busy, Requesting
  <1>8. a \notin muddled' => ~Resizing(a)
    BY <1>2, <1>7 DEF Resizing, At, Requesting
  <1>9. RequestInv'
    <2> SUFFICES ASSUME NEW u \in Thread, NEW b, b = th'[u].alert, th'[u].pc \in Requesting, b \notin muddled'
                 PROVE  /\ \A v \in Thread \ {u} : ~(th'[v].alert = b /\ th'[v].pc \in Requesting)
                        /\ th'[u].pc \in {"reject", "size"} <=> b \notin rejected'
                        /\ th'[u].pc = "size" => row'[b].cap = 0 /\ journal'[b] = first'[b] - th'[u].cap
                        /\ th'[u].pc # "size" => row'[b].cap = th'[u].cap
      BY DEF RequestInv, Busy, Requesting
    <2>1. CASE u = t
      <3>1. b = a
        BY <1>2, <2>1
      <3>2. pc = "size" => journal[a] = first[a] - row[a].cap
        BY <1>5, <1>8, <3>1 DEF JournalInv, JournalAgrees
      <3>3. pc \in {"reject", "size"} <=> a \notin rejected
        BY <1>1, <1>5, <3>1 DEF Reject, Accept, Requesting
      <3> QED
        BY <1>2, <1>3, <1>4, <1>7, <2>1, <3>1, <3>2, <3>3
    <2>2. CASE u # t
      <3>1. th'[u] = th[u] /\ b \in Alert /\ b \notin muddled
        BY <1>2, <1>5, <2>2 DEF ThreadInv
      <3>2. b # a
        BY <1>7, <2>2, <3>1
      <3>3. /\ ~Busy(u, b)
            /\ th[u].pc \in {"reject", "size"} <=> b \notin rejected
            /\ th[u].pc = "size" => row[b].cap = 0 /\ journal[b] = first[b] - th[u].cap
            /\ th[u].pc # "size" => row[b].cap = th[u].cap
        BY <3>1 DEF JournalInv, RequestInv
      <3> QED
        BY <1>2, <1>3, <1>4, <3>1, <3>2, <3>3 DEF Busy, Requesting
    <2> QED
      BY <2>1, <2>2
  <1>10. JournalAgrees'
    <2> SUFFICES ASSUME NEW b \in Alert, b \notin muddled'
                 PROVE  Resizing(b)' \/ journal'[b] = first'[b] - (IF b \in rejected' THEN 0 ELSE row'[b].cap)
      BY DEF JournalAgrees
    <2>1. Resizing(b) => Resizing(b)'
      BY <1>2 DEF Resizing, At
    <2>2. pc = "size" => Resizing(a)'
      BY <1>2 DEF Resizing, At
    <2> QED
      BY <1>3, <1>4, <1>5, <2>1, <2>2 DEF JournalInv, JournalAgrees
  <1> QED
    BY <1>6, <1>9, <1>10 DEF JournalInv

\* A request that ends books what it gave back or took.
LEMMA RequestEnds ==
  ASSUME TypeOK, ThreadInv, JournalInv, NEW t \in Thread,
         Rejected(t) \/ Accepted(t) \/ Put(t)
  PROVE  JournalInv'
  <1> DEFINE a == th[t].alert
  <1>0. /\ th \in [Thread -> Local] /\ row \in [Alert -> Row] /\ journal \in [Alert -> Int]
        /\ \A b \in Alert : row[b] \in Row /\ row[b].cap \in Nat /\ journal[b] \in Int /\ first[b] \in Nat
        /\ th[t].cap \in Nat
    BY DEF TypeOK, Row, Local
  <1>1. th[t].pc \in Requesting /\ a \in Alert /\ Saved(a)
    BY DEF Rejected, Accepted, Put, At, ThreadInv, Requesting
  <1>2. /\ \A u \in Thread \ {t} : th'[u] = th[u]
        /\ th'[t].pc = "idle"
    BY <1>0 DEF Rejected, Accepted, Put, Idle
  <1>3. first' = first /\ muddled' = muddled
    BY DEF Rejected, Accepted, Put
  <1>4. /\ \A b \in Alert : b # a => row'[b] = row[b] /\ journal'[b] = journal[b] /\ (b \in rejected' <=> b \in rejected)
        /\ row'[a].status # "none"
    <2>1. \A b \in Alert : b # a => row'[b] = row[b] /\ journal'[b] = journal[b] /\ (b \in rejected' <=> b \in rejected)
      BY <1>0, <1>1 DEF Rejected, Accepted, Put, Book
    <2>2. row'[a].status = row[a].status \/ row'[a].status = "REJECTED"
      <3>1. \/ row' = row
            \/ row' = [row EXCEPT ![a] = [row[a] EXCEPT !.status = "REJECTED"]]
            \/ \E c \in Allocation : row' = [row EXCEPT ![a] = [row[a] EXCEPT !.cap = c]]
        BY DEF Rejected, Accepted, Put
      <3>2. row[a] \in Row
        BY <1>0, <1>1
      <3> QED
        <4>1. \/ row'[a] = row[a]
              \/ row'[a] = [row[a] EXCEPT !.status = "REJECTED"]
              \/ \E c \in Allocation : row'[a] = [row[a] EXCEPT !.cap = c]
          BY <1>0, <1>1, <3>1
        <4>2. [row[a] EXCEPT !.status = "REJECTED"].status = "REJECTED"
          BY <3>2, RowParts
        <4>3. \A c : [row[a] EXCEPT !.cap = c].status = row[a].status
          BY <3>2, RowParts
        <4> QED
          BY <4>1, <4>2, <4>3
    <2>3. row[a].status # "none"
      BY <1>1 DEF Saved
    <2>4. row'[a].status # "none"
      BY <2>2, <2>3
    <2> QED
      BY <2>1, <2>4
  <1>5. UnsavedInv'
    <2> SUFFICES ASSUME NEW b \in Alert, ~Saved(b)' PROVE journal'[b] = 0 /\ b \notin rejected'
      BY DEF UnsavedInv
    <2>1. b # a
      BY <1>4 DEF Saved
    <2>2. ~Saved(b)
      BY <1>4, <2>1 DEF Saved
    <2> QED
      BY <1>4, <2>1, <2>2 DEF JournalInv, UnsavedInv
  <1>6. ASSUME a \notin muddled
        PROVE  /\ \A u \in Thread \ {t} : ~(th[u].alert = a /\ th[u].pc \in Requesting)
               /\ journal'[a] = first[a] - (IF a \in rejected' THEN 0 ELSE row'[a].cap)
    <2>1. /\ ~Busy(t, a)
          /\ th[t].pc \in {"reject", "size"} <=> a \notin rejected
          /\ th[t].pc = "size" => row[a].cap = 0 /\ journal[a] = first[a] - th[t].cap
          /\ th[t].pc # "size" => row[a].cap = th[t].cap
      BY <1>1, <1>6 DEF JournalInv, RequestInv
    <2>2. \A u \in Thread \ {t} : ~(th[u].alert = a /\ th[u].pc \in Requesting)
      BY <2>1 DEF Busy, Requesting
    <2>3. th[t].pc # "size" => journal[a] = first[a] - (IF a \in rejected THEN 0 ELSE row[a].cap)
      <3>1. th[t].pc # "size" => ~Resizing(a)
        BY <2>2 DEF Resizing, At, Requesting
      <3> QED
        BY <1>1, <1>6, <3>1 DEF JournalInv, JournalAgrees
    <2>4. CASE Rejected(t)
      <3>1. th[t].pc = "reject" /\ a \in rejected' /\ journal'[a] = journal[a] + th[t].cap
        BY <1>0, <1>1, <2>4 DEF Rejected, At, Book
      <3> QED
        BY <1>0, <1>1, <2>1, <2>2, <2>3, <3>1
    <2>5. CASE Accepted(t)
      <3>1. th[t].pc = "accept" /\ a \notin rejected' /\ journal'[a] = journal[a] - th[t].cap /\ row' = row
        BY <1>0, <1>1, <2>5 DEF Accepted, At, Book
      <3> QED
        BY <1>0, <1>1, <2>1, <2>2, <2>3, <3>1
    <2>6. CASE Put(t)
      <3> PICK c \in Allocation : row' = [row EXCEPT ![a].cap = c] /\ Book(a, th[t].cap - c)
        BY <2>6 DEF Put
      <3>1. c \in Nat
        BY DeskAssumption DEF Allocation
      <3>2. th[t].pc = "size" /\ a \notin rejected' /\ row'[a].cap = c /\ journal'[a] = journal[a] + (th[t].cap - c)
        BY <1>0, <1>1, <2>6 DEF Put, At, Book, Row
      <3> QED
        BY <1>0, <1>1, <2>1, <2>2, <3>1, <3>2
    <2> QED
      BY <2>2, <2>4, <2>5, <2>6
  <1>7. RequestInv'
    <2> SUFFICES ASSUME NEW u \in Thread, NEW b, b = th'[u].alert, th'[u].pc \in Requesting, b \notin muddled'
                 PROVE  /\ \A v \in Thread \ {u} : ~(th'[v].alert = b /\ th'[v].pc \in Requesting)
                        /\ th'[u].pc \in {"reject", "size"} <=> b \notin rejected'
                        /\ th'[u].pc = "size" => row'[b].cap = 0 /\ journal'[b] = first'[b] - th'[u].cap
                        /\ th'[u].pc # "size" => row'[b].cap = th'[u].cap
      BY DEF RequestInv, Busy, Requesting
    <2>1. u # t /\ th'[u] = th[u]
      BY <1>2 DEF Requesting
    <2>2. b \in Alert /\ b # a
      BY <1>3, <1>6, <2>1 DEF ThreadInv
    <2>3. /\ ~Busy(u, b)
          /\ th[u].pc \in {"reject", "size"} <=> b \notin rejected
          /\ th[u].pc = "size" => row[b].cap = 0 /\ journal[b] = first[b] - th[u].cap
          /\ th[u].pc # "size" => row[b].cap = th[u].cap
      BY <1>3, <2>1 DEF JournalInv, RequestInv
    <2> QED
      BY <1>2, <1>3, <1>4, <2>1, <2>2, <2>3 DEF Busy, Requesting
  <1>8. JournalAgrees'
    <2> SUFFICES ASSUME NEW b \in Alert, b \notin muddled'
                 PROVE  Resizing(b)' \/ journal'[b] = first'[b] - (IF b \in rejected' THEN 0 ELSE row'[b].cap)
      BY DEF JournalAgrees
    <2>1. CASE b = a
      BY <1>3, <1>6, <2>1
    <2>2. CASE b # a
      <3>1. Resizing(b) => Resizing(b)'
        BY <1>2, <2>2 DEF Resizing, At
      <3> QED
        BY <1>3, <1>4, <2>2, <3>1 DEF JournalInv, JournalAgrees
    <2> QED
      BY <2>1, <2>2
  <1> QED
    BY <1>5, <1>7, <1>8 DEF JournalInv

LEMMA JournalKept ==
  ASSUME TypeOK, ThreadInv, JournalInv, Next
  PROVE  JournalInv'
  <1>0. /\ th \in [Thread -> Local] /\ row \in [Alert -> Row]
        /\ \A a \in Alert : row[a] \in Row
    BY DEF TypeOK
  <1>1. ASSUME NEW t \in Thread, NEW a \in Alert, Insert(t, a) PROVE JournalInv'
    <2>1. /\ ~Saved(a) /\ journal[a] = 0 /\ a \notin rejected
          /\ Saved(a)'
          /\ UNCHANGED <<journal, rejected, muddled>>
          /\ first'[a] = row'[a].cap /\ row'[a].cap \in Nat
      BY <1>0, <1>1, DeskAssumption DEF Insert, JournalInv, UnsavedInv, Saved, Allocation, TypeOK
    <2>2. \A b \in Alert : b # a => row'[b] = row[b] /\ first'[b] = first[b]
      BY <1>0, <1>1 DEF Insert, TypeOK
    <2>3. /\ \A u \in Thread \ {t} : th'[u] = th[u]
          /\ th'[t].pc = "entry" /\ th[t].pc = "insert"
      BY <1>0, <1>1 DEF Insert, Idle, At
    <2>4. \A u \in Thread : th[u].pc \in Requesting => th[u].alert \in Alert /\ th[u].alert # a
      BY <2>1 DEF ThreadInv
    <2>5. UnsavedInv'
      BY <2>1, <2>2 DEF JournalInv, UnsavedInv, Saved
    <2>6. RequestInv'
      <3> SUFFICES ASSUME NEW u \in Thread, th'[u].pc \in Requesting, th'[u].alert \notin muddled'
                   PROVE  /\ ~Busy(u, th[u].alert)'
                          /\ th'[u] = th[u]
                          /\ th[u].pc \in {"reject", "size"} <=> th[u].alert \notin rejected'
                          /\ th[u].pc = "size" => row'[th[u].alert].cap = 0 /\ journal'[th[u].alert] = first'[th[u].alert] - th[u].cap
                          /\ th[u].pc # "size" => row'[th[u].alert].cap = th[u].cap
        BY DEF RequestInv, Busy
      <3>1. th'[u] = th[u] /\ th[u].alert \in Alert /\ th[u].alert # a
        BY <2>3, <2>4 DEF Requesting
      <3>2. Busy(u, th[u].alert)' => Busy(u, th[u].alert)
        BY <2>3, <3>1 DEF Busy, Requesting
      <3> QED
        BY <2>1, <2>2, <3>1, <3>2 DEF JournalInv, RequestInv, Busy
    <2>7. JournalAgrees'
      <3> SUFFICES ASSUME NEW b \in Alert, b \notin muddled'
                   PROVE  Resizing(b)' \/ journal'[b] = first'[b] - (IF b \in rejected' THEN 0 ELSE row'[b].cap)
        BY DEF JournalAgrees
      <3>1. Resizing(b) => Resizing(b)'
        BY <2>3 DEF Resizing, At
      <3> QED
        BY <2>1, <2>2, <3>1 DEF JournalInv, JournalAgrees
    <2> QED
      BY <2>5, <2>6, <2>7 DEF JournalInv
  <1>2. ASSUME NEW t \in Thread, Admin(t), \A S \in SUBSET Alert : ~FreeMany(t, S) PROVE JournalInv'
    BY <1>2, RequestBegins, RequestEnds DEF Admin
  <1>3. ASSUME \A t \in Thread, a \in Alert : ~Insert(t, a)
        PROVE  \A a \in Alert : Saved(a)' <=> Saved(a)
    BY <1>3, RowSteps
  <1>4. ASSUME NEW t \in Thread, Scan(t), \A u \in Thread, a \in Alert : ~Insert(u, a) PROVE JournalInv'
    <2>1. UNCHANGED <<journal, first, rejected, muddled>>
      BY <1>4 DEF Scan, Enter, Refuse, FindOpen, Evolve, FindNone, Entry
    <2>2. \A a \in Alert : row'[a].cap = row[a].cap
      <3>1. CASE Evolve(t)
        <4> DEFINE b == th[t].alert
        <4>1. row' = [row EXCEPT ![b] = [row[b] EXCEPT !.evidence = th[t].count + 1]]
          BY <3>1 DEF Evolve
        <4>2. \A r \in Row : \A n : [r EXCEPT !.evidence = n].cap = r.cap
          BY DEF Row
        <4> QED
          BY <1>0, <4>1, <4>2
      <3>2. CASE ~Evolve(t)
        BY <1>4, <3>2 DEF Scan, Enter, Refuse, FindOpen, FindNone, Entry
      <3> QED
        BY <3>1, <3>2
    <2>3. \A u \in Thread : th'[u] = th[u] \/ (th'[u].pc \notin Requesting /\ th[u].pc # "size")
      <3>1. th[t].pc \in Scanning \cup {"idle"}
        BY <1>4 DEF Scan, Enter, Refuse, FindOpen, Evolve, FindNone, Entry, At, Scanning
      <3>2. th'[t].pc \notin Requesting
        <4>1. Leave(t) => th'[t].pc = "idle"
          BY <1>0 DEF Leave, Idle
        <4>2. ASSUME NEW s \in Symbol, Enter(t, s) PROVE th'[t].pc = "search"
          BY <1>0, <4>2 DEF Enter, Idle
        <4>3. FindOpen(t) => th'[t].pc = "evolve"
          BY <1>0 DEF FindOpen, Idle
        <4>4. FindNone(t) => th'[t].pc = "insert"
          BY <1>0 DEF FindNone, Local
        <4> QED
          BY <1>4, <4>1, <4>2, <4>3, <4>4 DEF Scan, Refuse, Evolve, Entry, Requesting
      <3>3. \A u \in Thread \ {t} : th'[u] = th[u]
        BY <1>4, OthersKept
      <3> QED
        BY <3>1, <3>2, <3>3 DEF Scanning
    <2> QED
      BY <1>3, <1>4, <2>1, <2>2, <2>3, QuietJournal
  <1>5. ASSUME NEW t \in Thread, NEW S \in SUBSET Alert, FreeMany(t, S), \A u \in Thread, a \in Alert : ~Insert(u, a)
        PROVE  JournalInv'
    <2>1. UNCHANGED <<journal, first, rejected, th>> /\ muddled' = muddled \cup S
      BY <1>5 DEF FreeMany
    <2>2. \A a \in Alert \ muddled' : row'[a].cap = row[a].cap
      BY <1>5, <2>1 DEF FreeMany
    <2> QED
      BY <1>3, <1>5, <2>1, <2>2, QuietJournal
  <1>6. ASSUME NEW t \in Thread, Fail(t), \A u \in Thread, a \in Alert : ~Insert(u, a) PROVE JournalInv'
    <2>1. UNCHANGED <<journal, first, rejected, row>> /\ muddled \subseteq muddled'
      BY <1>6 DEF Fail
    <2>2. \A u \in Thread : th'[u] = th[u] \/ (th'[u].pc \notin Requesting /\ (th[u].pc = "size" => th[u].alert \in muddled'))
      BY <1>0, <1>6 DEF Fail, Leave, Idle, At, Requesting
    <2> QED
      BY <1>3, <1>6, <2>1, <2>2, QuietJournal
  <1>7. ASSUME \A u \in Thread, a \in Alert : ~Insert(u, a),
               (\E p \in Proc, S \in SUBSET Alert : Reset(p, S)) \/ \E b \in Alert : Close(b)
        PROVE  JournalInv'
    <2>1. UNCHANGED <<journal, first, rejected, muddled, th>>
      BY <1>7 DEF Reset, Close
    <2>2. \A r \in Row : \A x : [r EXCEPT !.status = x].cap = r.cap
      BY DEF Row
    <2>3. \A a \in Alert : /\ [row[a] EXCEPT !.status = "OPEN"].cap = row[a].cap
                          /\ [row[a] EXCEPT !.status = "CLOSED"].cap = row[a].cap
      BY <1>0, <2>2
    <2>4. \A a \in Alert : row'[a].cap = row[a].cap
      <3>1. ASSUME NEW b \in Alert, Close(b) PROVE \A a \in Alert : row'[a].cap = row[a].cap
        <4>1. row' = [row EXCEPT ![b] = [row[b] EXCEPT !.status = "CLOSED"]]
          BY <3>1 DEF Close
        <4>2. row'[b] = [row[b] EXCEPT !.status = "CLOSED"] /\ \A a \in Alert \ {b} : row'[a] = row[a]
          BY <1>0, <4>1
        <4> QED
          BY <2>3, <4>2
      <3>2. ASSUME NEW p \in Proc, NEW S \in SUBSET Alert, Reset(p, S)
            PROVE  \A a \in Alert : row'[a].cap = row[a].cap
        <4>1. \A a \in Alert : row'[a] = row[a] \/ row'[a] = [row[a] EXCEPT !.status = "OPEN"]
          BY <3>2 DEF Reset
        <4> QED
          BY <2>3, <4>1
      <3> QED
        BY <1>7, <3>1, <3>2
    <2> QED
      BY <1>3, <1>7, <2>1, <2>4, QuietJournal
  <1> QED
    BY <1>1, <1>2, <1>4, <1>5, <1>6, <1>7 DEF Next, Admin

-----------------------------------------------------------------------------
LEMMA NextStep == Inv /\ [Next]_vars => Inv'
  <1> SUFFICES ASSUME Inv, [Next]_vars PROVE Inv'
    OBVIOUS
  <1>1. CASE Next
    <2>1. TypeOK /\ ThreadInv /\ SearchInv /\ RejectedInv /\ SingleOpen /\ CountInv
          /\ EvidenceBacked /\ JournalInv /\ UnsavedInv
      BY DEF Inv, JournalInv
    <2>2. TypeOK' /\ ThreadInv'
      BY <1>1, <2>1, TypesKept, ThreadKept
    <2>3. RejectedInv' /\ SearchInv' /\ SingleOpen'
      BY <1>1, <2>1, OpenKept
    <2>4. CountInv' /\ EvidenceBacked' /\ JournalInv'
      BY <1>1, <2>1, EvidenceKept, JournalKept
    <2> QED
      BY <2>2, <2>3, <2>4 DEF Inv
  <1>2. CASE UNCHANGED vars
    BY <1>2 DEF vars, Inv, TypeOK, ThreadInv, SearchInv, RejectedInv, SingleOpen, CountInv, EvidenceBacked,
       JournalInv, RequestInv, UnsavedInv, JournalAgrees, Busy, Resizing, At, Saved, Open
  <1> QED
    BY <1>1, <1>2

THEOREM Invariance == Spec => []Inv
  BY InitInv, NextStep, PTL DEF Spec

\* The desk's state stays within its types.
THEOREM DeskTypes == Spec => []TypeOK
  <1>1. Inv => TypeOK
    BY DEF Inv
  <1> QED
    BY <1>1, Invariance, PTL

\* No container opens a second alert of a symbol, but for alerts that were reset.
THEOREM OneOpenAlert == Spec => []SingleOpen
  <1>1. Inv => SingleOpen
    BY DEF Inv
  <1> QED
    BY <1>1, Invariance, PTL

\* Evidence is never overstated.
THEOREM EvidenceIsBacked == Spec => []EvidenceBacked
  <1>1. Inv => EvidenceBacked
    BY DEF Inv
  <1> QED
    BY <1>1, Invariance, PTL

\* The journal agrees with the alerts whose requests did not get in each other's way.
THEOREM JournalIsTrue == Spec => []JournalAgrees
  <1>1. Inv => JournalAgrees
    BY DEF Inv, JournalInv
  <1> QED
    BY <1>1, Invariance, PTL

(***************************************************************************)
(* What the lock is worth to an installation of one container.             *)
(***************************************************************************)
InserterInv == \A a \in Alert : Saved(a) => by[a] \in Proc

LEMMA InserterKept == Spec => []InserterInv
  <1>1. Init => InserterInv
    BY DEF Init, InserterInv, Saved, NoRow
  <1>2. Inv /\ InserterInv /\ [Next]_vars => InserterInv'
    <2> SUFFICES ASSUME Inv, InserterInv, [Next]_vars, NEW a \in Alert, Saved(a)'
                 PROVE  by'[a] \in Proc
      BY DEF InserterInv
    <2>1. CASE UNCHANGED vars
      BY <2>1 DEF vars, InserterInv, Saved
    <2>2. ASSUME NEW t \in Thread, Insert(t, a) PROVE by'[a] \in Proc
      BY <2>2, DeskAssumption DEF Insert, Inv, TypeOK
    <2>3. CASE Next /\ \A t \in Thread : ~Insert(t, a)
      BY <2>3, RowSteps DEF Inv, InserterInv
    <2> QED
      BY <2>1, <2>2, <2>3
  <1> QED
    BY <1>1, <1>2, Invariance, PTL DEF Spec

Single == \A a, b \in Alert \ reset :
    Open(a) /\ Open(b) /\ SymbolOf[a] = SymbolOf[b] => a = b

\* Where one container runs the scanners, a symbol has one open alert at most,
\* whoever of its threads looked for it when: save_alert_if_new searches and
\* inserts under _DB_WRITE_LOCK.
THEOREM OneContainerOneAlert ==
  ASSUME \A p, q \in Proc : p = q
  PROVE  Spec => []Single
  <1>1. SingleOpen /\ InserterInv => Single
    <2> SUFFICES ASSUME SingleOpen, InserterInv, NEW a \in Alert \ reset, NEW b \in Alert \ reset,
                        Open(a), Open(b), SymbolOf[a] = SymbolOf[b], a # b
                 PROVE  FALSE
      BY DEF Single
    <2>1. by[a] # by[b]
      BY DEF SingleOpen
    <2>2. by[a] \in Proc /\ by[b] \in Proc
      BY DEF InserterInv, Saved, Open
    <2> QED
      BY <2>1, <2>2
  <1> QED
    BY <1>1, OneOpenAlert, InserterKept, PTL
=============================================================================
