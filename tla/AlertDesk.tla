------------------------------ MODULE AlertDesk -----------------------------
(***************************************************************************)
(* How alerts come in, and what the admin does to them: save_alert_if_new, *)
(* which looks for an alert the symbol already has and then inserts a row, *)
(* or records the re-trigger as an event of the alert it found; and the    *)
(* dashboard's requests to reject, accept, reset and reallocate, which     *)
(* book what they free or take in capital_history.                         *)
(*                                                                         *)
(* The search and the insertion are two statements under _DB_WRITE_LOCK,   *)
(* a lock of one process: scanners of two containers do not exclude each   *)
(* other.  The admin's requests read a row and write it later, without the *)
(* lock.                                                                   *)
(*                                                                         *)
(* Abstracted: prices and scores (a size is any amount up to Cap); the     *)
(* fingerprint, its tolerance and the trading date (any alert of the       *)
(* symbol that is not rejected may turn out to be the same setup);         *)
(* realized profit (see AlertLifecycle); notifications.                    *)
(***************************************************************************)
EXTENDS Integers

CONSTANTS
    Proc,       \* containers
    Thread,     \* scanner threads, and those that serve the admin's requests
    ProcOf,     \* [Thread -> Proc]
    Alert,      \* ids of the alerts table
    Symbol,
    SymbolOf,   \* [Alert -> Symbol], the alert's symbol once it is inserted
    Cap,        \* bound on one allocation
    MaxEvents,  \* bound on the events of an alert
    MaxAsked,   \* bound on the requests of the admin
    None

ASSUME DeskAssumption ==
    /\ ProcOf \in [Thread -> Proc]
    /\ SymbolOf \in [Alert -> Symbol]
    /\ Cap \in Nat /\ MaxEvents \in Nat /\ MaxAsked \in Nat
    /\ None \notin Thread \cup Proc \cup Alert \cup Symbol

VARIABLES
    row,      \* [Alert -> its row of alerts]
    rejected, \* alerts whose row has is_rejected
    events,   \* [Alert -> how many rows of alert_events it has]
    journal,  \* [Alert -> sum of its rows of capital_history]
    lock,     \* [Proc -> thread that holds _DB_WRITE_LOCK]
    th,       \* [Thread -> where it is, and its locals]
    asked,    \* requests so far
    by,       \* history: [Alert -> container that inserted it]
    first,    \* history: [Alert -> what it was inserted with]
    reset,    \* history: alerts that were reset to OPEN
    muddled   \* history: alerts whose requests overlapped or were cut short

vars == <<row, rejected, events, journal, lock, th, asked, by, first, reset, muddled>>

Row == [status : {"none", "OPEN", "CLOSED", "REJECTED"}, cap : Nat, evidence : Nat]
NoRow == [status |-> "none", cap |-> 0, evidence |-> 0]

\* A scan has a symbol, the alert that it found and the count of its events; a
\* request has an alert and the capital that it read.
PC == {"idle", "search", "evolve", "insert", "entry", "reject", "accept", "size"}
Local == [pc : PC, symbol : Symbol \cup {None}, alert : Alert \cup {None}, cap : Nat, count : Nat]
Idle == [pc |-> "idle", symbol |-> None, alert |-> None, cap |-> 0, count |-> 0]

TypeOK ==
    /\ row \in [Alert -> Row]
    /\ rejected \subseteq Alert
    /\ events \in [Alert -> Nat]
    /\ journal \in [Alert -> Int]
    /\ lock \in [Proc -> Thread \cup {None}]
    /\ th \in [Thread -> Local]
    /\ asked \in Nat
    /\ by \in [Alert -> Proc \cup {None}]
    /\ first \in [Alert -> Nat]
    /\ reset \subseteq Alert
    /\ muddled \subseteq Alert

Init ==
    /\ row = [a \in Alert |-> NoRow]
    /\ rejected = {}
    /\ events = [a \in Alert |-> 0]
    /\ journal = [a \in Alert |-> 0]
    /\ lock = [p \in Proc |-> None]
    /\ th = [t \in Thread |-> Idle]
    /\ asked = 0
    /\ by = [a \in Alert |-> None]
    /\ first = [a \in Alert |-> 0]
    /\ reset = {}
    /\ muddled = {}

At(t, l) == th[t].pc = l
Saved(a) == row[a].status # "none"
Open(a) == row[a].status = "OPEN" /\ a \notin rejected
Of(s) == {a \in Alert : Saved(a) /\ SymbolOf[a] = s}

\* Mutant of Allocation: max(0, ...) is forgotten when the margin is negative.
AllocationUnclamped == -1..Cap

\* calculate_trade_allocation, or the amount a long-term scanner asks for.  A scan
\* has its size before it has the lock.
Allocation == 0..Cap

(***************************************************************************)
(* save_alert_if_new                                                       *)
(***************************************************************************)

Enter(t, s) ==
    /\ At(t, "idle")
    /\ lock[ProcOf[t]] = None
    /\ lock' = [lock EXCEPT ![ProcOf[t]] = t]
    /\ th' = [th EXCEPT ![t] = [Idle EXCEPT !.pc = "search", !.symbol = s]]
    /\ UNCHANGED <<row, rejected, events, journal, asked, by, first, reset, muddled>>

\* A return, or an exception: the end of the with statement.
Leave(t) ==
    /\ lock' = [lock EXCEPT ![ProcOf[t]] = IF @ = t THEN None ELSE @]
    /\ th' = [th EXCEPT ![t] = Idle]

\* The same setup was saved before, or nothing material changed since the last
\* event of the open alert: nothing is written.
Refuse(t) ==
    /\ At(t, "search")
    /\ \E a \in Of(th[t].symbol) : a \notin rejected
    /\ Leave(t)
    /\ UNCHANGED <<row, rejected, events, journal, asked, by, first, reset, muddled>>

\* Mutant of FindOpen: the count is taken after the new event is in.
FindOpenAfter(t) ==
    /\ At(t, "search")
    /\ \E a \in Of(th[t].symbol) :
         /\ Open(a)
         /\ th' = [th EXCEPT ![t] = [Idle EXCEPT !.pc = "evolve", !.alert = a, !.count = events[a] + 1]]
    /\ UNCHANGED <<row, rejected, events, journal, lock, asked, by, first, reset, muddled>>

\* An open alert of the symbol, and the count of its events.
FindOpen(t) ==
    /\ At(t, "search")
    /\ \E a \in Of(th[t].symbol) :
         /\ Open(a)
         /\ th' = [th EXCEPT ![t] = [Idle EXCEPT !.pc = "evolve", !.alert = a, !.count = events[a]]]
    /\ UNCHANGED <<row, rejected, events, journal, lock, asked, by, first, reset, muddled>>

\* The re-trigger becomes an event of the alert that was found.
Evolve(t) ==
    LET a == th[t].alert IN
    /\ At(t, "evolve")
    /\ events[a] < MaxEvents
    /\ events' = [events EXCEPT ![a] = @ + 1]
    /\ row' = [row EXCEPT ![a].evidence = th[t].count + 1]
    /\ Leave(t)
    /\ UNCHANGED <<rejected, journal, asked, by, first, reset, muddled>>

\* Mutant of FindNone: only alerts of the fingerprint are looked for.
FindNothing(t) ==
    /\ At(t, "search")
    /\ th' = [th EXCEPT ![t].pc = "insert"]
    /\ UNCHANGED <<row, rejected, events, journal, lock, asked, by, first, reset, muddled>>

FindNone(t) ==
    /\ At(t, "search")
    /\ \A a \in Of(th[t].symbol) : ~Open(a)
    /\ th' = [th EXCEPT ![t].pc = "insert"]
    /\ UNCHANGED <<row, rejected, events, journal, lock, asked, by, first, reset, muddled>>

\* The row is committed before its first event.  capital_history gets nothing.
Insert(t, a) ==
    /\ At(t, "insert")
    /\ ~Saved(a) /\ SymbolOf[a] = th[t].symbol
    /\ \E c \in Allocation :
         /\ row' = [row EXCEPT ![a] = [status |-> "OPEN", cap |-> c, evidence |-> 1]]
         /\ first' = [first EXCEPT ![a] = c]
    /\ by' = [by EXCEPT ![a] = ProcOf[t]]
    /\ th' = [th EXCEPT ![t] = [Idle EXCEPT !.pc = "entry", !.alert = a]]
    /\ UNCHANGED <<rejected, events, journal, lock, asked, reset, muddled>>

\* The NEW_ENTRY event.  When it fails the alert stays without (see Fail).
Entry(t) ==
    /\ At(t, "entry")
    /\ events[th[t].alert] < MaxEvents
    /\ events' = [events EXCEPT ![th[t].alert] = @ + 1]
    /\ Leave(t)
    /\ UNCHANGED <<row, rejected, journal, asked, by, first, reset, muddled>>

(***************************************************************************)
(* The admin's requests                                                    *)
(***************************************************************************)

\* One more request on the alert.  It muddles what the journal says when another
\* has not finished, or when the request itself is odd.
Busy(t, a) == \E u \in Thread \ {t} : th[u].alert = a /\ th[u].pc \in {"reject", "accept", "size"}

Ask(t, a, odd) ==
    /\ At(t, "idle") /\ Saved(a)
    /\ asked < MaxAsked
    /\ asked' = asked + 1
    /\ muddled' = muddled \cup (IF odd \/ Busy(t, a) THEN {a} ELSE {})

Request(t, pc, a) == th' = [th EXCEPT ![t] = [Idle EXCEPT !.pc = pc, !.alert = a, !.cap = row[a].cap]]

Book(a, amount) == journal' = [journal EXCEPT ![a] = @ + amount]

\* Mutant of Reject: a rejected alert is rejected once more.
RejectAgain(t, a) ==
    /\ Ask(t, a, FALSE)
    /\ Request(t, "reject", a)
    /\ UNCHANGED <<row, rejected, events, journal, lock, by, first, reset>>

\* An alert that is already rejected is left alone.
Reject(t, a) ==
    /\ a \notin rejected
    /\ Ask(t, a, FALSE)
    /\ Request(t, "reject", a)
    /\ UNCHANGED <<row, rejected, events, journal, lock, by, first, reset>>

Rejected(t) ==
    LET a == th[t].alert IN
    /\ At(t, "reject")
    /\ row' = [row EXCEPT ![a].status = "REJECTED"]
    /\ rejected' = rejected \cup {a}
    /\ Book(a, th[t].cap)
    /\ th' = [th EXCEPT ![t] = Idle]
    /\ UNCHANGED <<events, lock, asked, by, first, reset, muddled>>

Accept(t, a) ==
    /\ a \in rejected
    /\ Ask(t, a, FALSE)
    /\ Request(t, "accept", a)
    /\ UNCHANGED <<row, rejected, events, journal, lock, by, first, reset>>

\* The status stays REJECTED.
Accepted(t) ==
    LET a == th[t].alert IN
    /\ At(t, "accept")
    /\ rejected' = rejected \ {a}
    /\ Book(a, -th[t].cap)
    /\ th' = [th EXCEPT ![t] = Idle]
    /\ UNCHANGED <<row, events, lock, asked, by, first, reset, muddled>>

\* reallocate_capital: what the alert holds is given back, and committed, before
\* the new size is computed.  A rejected alert's refund will be booked twice.
Free(t, a) ==
    /\ Ask(t, a, a \in rejected)
    /\ Request(t, "size", a)
    /\ row' = [row EXCEPT ![a].cap = 0]
    /\ UNCHANGED <<rejected, events, journal, lock, by, first, reset>>

Put(t) ==
    LET a == th[t].alert IN
    /\ At(t, "size")
    /\ \E c \in Allocation :
         /\ row' = [row EXCEPT ![a].cap = c]
         /\ Book(a, th[t].cap - c)
    /\ rejected' = rejected \ {a}
    /\ th' = [th EXCEPT ![t] = Idle]
    /\ UNCHANGED <<events, lock, asked, by, first, reset, muddled>>

\* reallocate_capital_multiple: the rows have one column more than the names they
\* are unpacked into, so that it ends after the commit that freed the capital.
FreeMany(t, S) ==
    /\ At(t, "idle")
    /\ S # {} /\ \A a \in S : Saved(a)
    /\ asked < MaxAsked
    /\ asked' = asked + 1
    /\ row' = [a \in Alert |-> IF a \in S THEN [row[a] EXCEPT !.cap = 0] ELSE row[a]]
    /\ muddled' = muddled \cup S
    /\ UNCHANGED <<rejected, events, journal, lock, th, by, first, reset>>

\* What reset_closed_positions_to_open opens again.
Closed == {a \in Alert : row[a].status = "CLOSED"}

\* It, or reset_alert_for_recalculation for one alert: a transaction under the lock.
Reset(p, S) ==
    /\ lock[p] = None
    /\ asked < MaxAsked
    /\ asked' = asked + 1
    /\ S \in {{a} : a \in {b \in Alert : Saved(b)}} \cup {Closed}
    /\ row' = [a \in Alert |-> IF a \in S THEN [row[a] EXCEPT !.status = "OPEN"] ELSE row[a]]
    /\ reset' = reset \cup S
    /\ UNCHANGED <<rejected, events, journal, lock, th, by, first, muddled>>

(***************************************************************************)
(* The exit monitors, exceptions and crashes                               *)
(***************************************************************************)

Close(a) ==
    /\ row[a].status = "OPEN"
    /\ row' = [row EXCEPT ![a].status = "CLOSED"]
    /\ UNCHANGED <<rejected, events, journal, lock, th, asked, by, first, reset, muddled>>

\* A statement raises, or the process ends: what was not committed is lost, and
\* a reallocation that freed its alert leaves it with nothing.
Fail(t) ==
    /\ ~At(t, "idle")
    /\ Leave(t)
    /\ muddled' = muddled \cup (IF At(t, "size") THEN {th[t].alert} ELSE {})
    /\ UNCHANGED <<row, rejected, events, journal, asked, by, first, reset>>

Scan(t) ==
    \/ \E s \in Symbol : Enter(t, s)
    \/ Refuse(t) \/ FindOpen(t) \/ Evolve(t) \/ FindNone(t)
    \/ \E a \in Alert : Insert(t, a)
    \/ Entry(t)

Admin(t) ==
    \/ \E a \in Alert : Reject(t, a) \/ Accept(t, a) \/ Free(t, a)
    \/ Rejected(t) \/ Accepted(t) \/ Put(t)
    \/ \E S \in SUBSET Alert : FreeMany(t, S)

Next ==
    \/ \E t \in Thread : Scan(t) \/ Admin(t) \/ Fail(t)
    \/ \E p \in Proc, S \in SUBSET Alert : Reset(p, S)
    \/ \E a \in Alert : Close(a)

Spec == Init /\ [][Next]_vars

(***************************************************************************)
(* Properties                                                              *)
(***************************************************************************)

\* A container never adds a second open alert of a symbol: of two, both inserted
\* by one container, one was closed or rejected when the other came and has been
\* reset since.  (Scanners of two containers may both find none and both insert.)
SingleOpen ==
    \A a, b \in Alert \ reset :
        (a # b /\ Open(a) /\ Open(b) /\ SymbolOf[a] = SymbolOf[b]) => by[a] # by[b]

\* The evidence that stands in an alert is never more than its events bear out,
\* its own insertion counted, however re-triggers overlap and whichever fail.
EvidenceBacked == \A a \in Alert : row[a].evidence <= 1 \/ row[a].evidence <= events[a]

Resizing(a) == \E t \in Thread : At(t, "size") /\ th[t].alert = a

\* What the journal says an alert gave back is what it gave back: the size it came
\* with, less what it holds now, less nothing when it is rejected.  The exceptions:
\* a reallocation under way, and alerts with requests that overlapped, were cut
\* short, or reallocated a rejected alert.
JournalAgrees ==
    \A a \in Alert \ muddled :
        Resizing(a) \/ journal[a] = first[a] - (IF a \in rejected THEN 0 ELSE row[a].cap)
=============================================================================
