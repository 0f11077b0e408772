------------------------------ MODULE MCComTest ------------------------------
(* Small instances of ComTest for TLC.                                        *)
EXTENDS ComTest

MCOffered == <<"extended", "number", "config", "invalid">>
MCNumbers == {0, 1, 4, 5, NoNumber}
Calm == [connect |-> 1, lose |-> 0, refuse |-> 0]
Rough == [connect |-> 3, lose |-> 2, refuse |-> 1]
==============================================================================
