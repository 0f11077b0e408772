----------------------------- MODULE RequestLine -----------------------------
(* What the client promises of the telegrams given to SendTelegram: they are *)
(* served one at a time, in the order they were put, each at most once, and  *)
(* one that has been completed or lost stays so. Telegrams are numbered in   *)
(* the order of their submission.                                            *)
EXTENDS Naturals, Sequences

VARIABLES
  submitted,  \* how many telegrams were ever submitted
  waiting,    \* submitted and not sent yet, oldest first
  serving,    \* sent, and its response not handled yet
  completed,  \* OnComplete has been called
  lost        \* dropped or given up

vars == <<submitted, waiting, serving, completed, lost>>

Init ==
  /\ submitted = 0 /\ waiting = <<>>
  /\ serving = {} /\ completed = {} /\ lost = {}

Enqueue ==  \* any number of telegrams joins the end of the line
  /\ submitted' \in Nat /\ submitted' >= submitted
  /\ waiting' = waiting \o [i \in 1..(submitted' - submitted) |-> submitted + i]

Submit == Enqueue /\ UNCHANGED <<serving, completed, lost>>

Serve ==
  /\ waiting # <<>> /\ serving = {}
  /\ serving' = {Head(waiting)} /\ waiting' = Tail(waiting)
  /\ UNCHANGED <<submitted, completed, lost>>

Complete ==  \* the callback may submit further telegrams
  /\ serving # {}
  /\ completed' = completed \cup serving /\ serving' = {}
  /\ Enqueue
  /\ UNCHANGED lost

GiveUp ==
  /\ lost' = lost \cup serving /\ serving' = {}
  /\ UNCHANGED <<submitted, waiting, completed>>

Discard ==  \* the oldest, or all of those waiting, are dropped
  /\ waiting # <<>>
  /\ \E n \in {1, Len(waiting)} :
       /\ lost' = lost \cup {waiting[i] : i \in 1..n}
       /\ waiting' = SubSeq(waiting, n + 1, Len(waiting))
  /\ UNCHANGED <<submitted, serving, completed>>

Next == Submit \/ Serve \/ Complete \/ GiveUp \/ Discard

Spec == Init /\ [][Next]_vars
=============================================================================
