------------------------------- MODULE MCPaper -------------------------------
(* Small instances of PaperExecution for TLC: long, flat and short targets, *)
(* one of them beyond the position limit and, from short, the order limit.  *)
EXTENDS PaperExecution

MCTargets == {-2, 0, 1, 3}
=============================================================================
