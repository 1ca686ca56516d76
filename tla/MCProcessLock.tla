--------------------------- MODULE MCProcessLock ---------------------------
(* Instances of ProcessLock for TLC: containers p1 and p2, and p3, a second
   process on the host of p1. *)
EXTENDS ProcessLock, TLC

CONSTANTS p1, p2, p3, ta, tb, tc, td, c1, c2, c3, c4

MCProc == {p1, p2}

\* Two threads in p1 and one in p2; ta can run the evening batch.
MCThread == {ta, tb, tc}
MCProcOf == ta :> p1 @@ tb :> p1 @@ tc :> p2
MCNameOf == ta :> "EveningBatch" @@ tb :> "ManualTrigger-EOD" @@ tc :> "MainThread"
MCScannerOf == ta :> "EOD" @@ tb :> "EOD" @@ tc :> "REVERSAL"
MCBatch == {ta}
NoBatch == {}

\* One connection per pool, where every fault is allowed.
TwoConns == {c1, c3}

MCConnOf == c1 :> p1 @@ c2 :> p1 @@ c3 :> p2
TwoConnOf == c1 :> p1 @@ c3 :> p2

\* Containers have file systems of their own.
MCHostOf == p1 :> "h1" @@ p2 :> "h2"

\* With p3: its thread td meets the file lock of p1.
Proc3 == {p1, p2, p3}
Thread4 == {ta, tb, tc, td}
ProcOf4 == MCProcOf @@ td :> p3
NameOf4 == MCNameOf @@ td :> "MainThread"
ScannerOf4 == MCScannerOf @@ td :> "MULTIBAGGER"
Conn4 == {c1, c2, c3, c4}
ConnOf4 == MCConnOf @@ c4 :> p3
HostOf3 == MCHostOf @@ p3 :> "h1"
=============================================================================
