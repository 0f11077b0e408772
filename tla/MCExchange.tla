------------------------------ MODULE MCExchange ------------------------------
(* Small instances of MessageExchange for TLC.                              *)
EXTENDS ExchangeRefinement

\* "count" and "config" are the two service requests of QueryParameters: both
\* are EXECUTE_SERVICE commands, and completing the first queues the second.
MCKinds == {"init", "count", "config", "exit"}
MCCmdOf == [k \in MCKinds |->
              CASE k = "init" -> "INIT" [] k = "exit" -> "EXIT"
                [] OTHER -> "EXECUTE_SERVICE"]
MCStartup == <<"init">>
MCAppKinds == {"count"}
MCFollowUp == [k \in MCKinds |-> [ok \in BOOLEAN |->
                 IF k = "count" /\ ok THEN <<"config">> ELSE <<>>]]

Quiet == [q \in Quirks |-> 0]
OneConnection == [Quiet EXCEPT !["connect"] = 1]
Losing == [Quiet EXCEPT !["connect"] = 2, !["break"] = 1]
Reconnecting == [Losing EXCEPT !["refuse"] = 1, !["ack"] = 1]
Unruly == [OneConnection EXCEPT !["break"] = 1, !["unsolicited"] = 1]
==============================================================================
