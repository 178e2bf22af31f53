---------------------------- MODULE MCPentestRuns ----------------------------
(* Two runs compete for one unit.  A liveness property is checked, so the    *)
(* runs are not declared symmetric.                                          *)
EXTENDS PentestRuns
=============================================================================
