------------------------------- MODULE MCFrame --------------------------------
(* Small instances of ResponseFrame for TLC: bytes of three bits.            *)
EXTENDS ResponseFrame

MCWords == {1, 63}
MCFloats == {4001}
Names == {<<>>, <<5>>}

MCCounts == {0, 1, 2}
==============================================================================
