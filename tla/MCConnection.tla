----------------------------- MODULE MCConnection -----------------------------
(* Small instances of Connection for TLC.                                     *)
EXTENDS Connection

MCBudget == [t \in Troubles |-> IF t = "expire" THEN 2 ELSE 1]
OneExpiry == [t \in Troubles |-> IF t = "expire" THEN 1 ELSE 0]
===============================================================================
