--------------------------- MODULE MC_ClauseChain ---------------------------
(* Small instances of ClauseChain for TLC: two variable names, one label.  *)
EXTENDS ClauseChain

MC_Names == {"a", "b"}
MC_Labels == {"L"}
=============================================================================
