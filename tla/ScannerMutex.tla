---------------------------- MODULE ScannerMutex ----------------------------
(***************************************************************************)
(* What the global scanner lock promises (docs/SYSTEM_ARCHITECTURE.md      *)
(* section 12, and the GUARANTEES of main.py's InstrumentedLock): scanners *)
(* run one at a time.  A scanner enters only when none is running; it      *)
(* leaves on its own, or its process dies.                                 *)
(***************************************************************************)
CONSTANT Thread
VARIABLE running

Init == running = {}

Enter(t) == running = {} /\ running' = {t}
Leave(t) == t \in running /\ running' = running \ {t}

Next == \E t \in Thread : Enter(t) \/ Leave(t)

Spec == Init /\ [][Next]_running

=============================================================================
