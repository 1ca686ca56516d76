---------------------------- MODULE MCPerfRebuild ----------------------------
\* Two rebuild threads beside the timer, one direct build at a time.
EXTENDS PerfRebuild
CONSTANTS w1, w2, d1, i1
=============================================================================
