-------------------------- MODULE ExchangeRefinement --------------------------
(* MessageExchange implements RequestLine: the fates of the telegrams say who *)
(* is being served and who is through; those waiting are the queue and, ahead *)
(* of it, the telegram the message thread has taken and not sent yet.         *)
EXTENDS MessageExchange

With(fates) == {id \in Ids : fate[id] \in fates}
Taken == IF current # 0 /\ fate[current] = "taken" THEN <<current>> ELSE <<>>

Line == INSTANCE RequestLine WITH
  submitted <- Len(kind),
  waiting <- Taken \o queue,
  serving <- With({"sent"}),
  completed <- With({"done", "failed"}),
  lost <- With({"dropped", "abandoned"})

\* With a server that answers every request once and in time, the client sends
\* the telegrams in the order they were put, never two at a time, completes
\* only the one that is out, and no telegram twice (SendTelegram, MessageThread
\* and HandleResponse).
ServesInLine == Line!Spec
===============================================================================
