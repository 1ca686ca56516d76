------------------------------- MODULE RunBook -------------------------------
(***************************************************************************)
(* What scanner_execution_history promises of the runs of one scanner:     *)
(* they are entered one at a time, a row may be cut off by somebody else   *)
(* once, only its run writes how it ended, that is the last word, and a    *)
(* row that was ever closed is never active again.                         *)
(***************************************************************************)
CONSTANT Run

VARIABLE book    \* [Run -> lifecycle_status, or "none"]

Cut == {"STOPPED", "TIMEOUT_STALE", "SERVER_RESTARTED"}
Ended == {"COMPLETED", "FAILED"}

Init == book = [r \in Run |-> "none"]

Enter(r) ==
    /\ \A q \in Run : book[q] # "RUNNING"
    /\ book[r] = "none"
    /\ book' = [book EXCEPT ![r] = "RUNNING"]

CutOff(r) ==
    /\ book[r] = "RUNNING"
    /\ \E s \in Cut : book' = [book EXCEPT ![r] = s]

End(r) ==
    /\ book[r] \in {"RUNNING"} \cup Cut
    /\ \E s \in Ended : book' = [book EXCEPT ![r] = s]

Next == \E r \in Run : Enter(r) \/ CutOff(r) \/ End(r)

Spec == Init /\ [][Next]_book
=============================================================================
