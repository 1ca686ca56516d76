---------------------------- MODULE MCAlertDesk -----------------------------
\* Two containers, three threads, one symbol.
EXTENDS AlertDesk, TLC
CONSTANTS p1, p2, t1, t2, t3, a1, a2, s1
MCProcOf == t1 :> p1 @@ t2 :> p1 @@ t3 :> p2
MCSymbolOf == [a \in Alert |-> s1]
Ids == Permutations(Alert) \cup Permutations({t1, t2})
=============================================================================
