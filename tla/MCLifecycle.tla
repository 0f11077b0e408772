----------------------------- MODULE MCLifecycle -----------------------------
(* Small instances of Lifecycle for TLC.                                      *)
EXTENDS Lifecycle

Twice == [connect |-> 2, lose |-> 1, send |-> 1]
Anything == {"return", "send", "wait", "stop", "throw"}
==============================================================================
