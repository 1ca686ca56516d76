---------------------------- MODULE MCScanRuns -----------------------------
(* Instances of ScanRuns for TLC: container p1 runs the scheduler and the
   dashboard, container p2 is the next deployment, with its own dashboard. *)
EXTENDS ScanRuns, TLC

CONSTANTS p1, p2, cron, click, other

OneProc == {p1}
TwoProcs == {p1, p2}

OneThread == {cron}
TwoThreads == {cron, click}
ThreeThreads == {cron, click, other}

Alone == cron :> p1
Together == cron :> p1 @@ click :> p1
\* The third thread can get the lock that a failing click takes from cron.
TwoAndOne == Together @@ other :> p2

Twice == cron :> 2
OnceEach == [t \in Thread |-> 1]
=============================================================================
