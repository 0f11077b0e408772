------------------------------ MODULE Connection ------------------------------
(* The handlers that Asap3Client runs in its worker thread: name lookup,      *)
(* connecting, reading length and body, and the two timers. Each starts the   *)
(* next asynchronous operation; a chain of them makes, keeps and restores the *)
(* connection. Operations that are given up are not gone: Boost.Asio calls    *)
(* their handlers with operation_aborted, and one whose handler is ready when *)
(* it is cancelled is called as if nothing had happened.                      *)
EXTENDS Naturals

CONSTANTS
  Budget,   \* how often each Trouble may happen in a behaviour
  MaxReady  \* bound on the handlers that are ready when another becomes so

Troubles == {"resolve", "connect", "lose", "length", "refuse", "expire"}
ASSUME BudgetAssumption == Budget \in [Troubles -> Nat] /\ MaxReady \in Nat

VARIABLES
  ops,       \* the asynchronous operations, by kind and status: how many
  socket,    \* socket_: none, connecting, connected or lost
  connected, \* connected_
  running,   \* the message thread has been started and not stopped
  expired,   \* how often the handler of deadlock_timer_ has run for expiry
  spare      \* what is left of Budget

vars == <<ops, socket, connected, running, expired, spare>>

SocketOps == {"connect", "length", "body"}
Links == SocketOps \cup {"resolve", "retry"}  \* what a chain may wait for
Ops == Links \cup {"deadlock"}
Results == {"ok", "bad", "error", "aborted"}  \* "bad": read, but not to be used

Start(o, op) == [o EXCEPT ![op]["pending"] = @ + 1]
Cancel(o, S) ==  \* their handlers are going to run with operation_aborted
  [op \in Ops |-> IF op \notin S THEN o[op]
                  ELSE [o[op] EXCEPT !["pending"] = 0, !["aborted"] = @ + o[op]["pending"]]]
Without(op, result) == [ops EXCEPT ![op][result] = @ - 1]
Spend(t) == spare[t] > 0 /\ spare' = [spare EXCEPT ![t] = @ - 1]

Init ==  \* WorkerThread has called DoLookup
  /\ ops = [op \in Ops |-> [r \in Results \cup {"pending"} |->
                              IF op = "resolve" /\ r = "pending" THEN 1 ELSE 0]]
  /\ socket = "none" /\ connected = FALSE /\ running = FALSE
  /\ expired = 0 /\ spare = Budget

-----------------------------------------------------------------------------
(* What the handlers call; o is what is left of ops without the handler's.    *)

\* Mutant: Close only forgets the socket, whose operations go on.
DoRetryWaitOpen(o) ==
  /\ ops' = Start(Cancel(o, {"retry"}), "retry")
  /\ socket' = "none" /\ connected' = FALSE /\ running' = FALSE

\* Mutant: Close does not stop the message thread.
DoRetryWaitRunning(o) ==
  /\ ops' = Start(Cancel(o, SocketOps \cup {"retry"}), "retry")
  /\ socket' = "none" /\ connected' = FALSE /\ UNCHANGED running

DoRetryWait(o) ==  \* Close, and the wait of retry_timer_, which ends one before
  /\ ops' = Start(Cancel(o, SocketOps \cup {"retry"}), "retry")
  /\ socket' = "none" /\ connected' = FALSE /\ running' = FALSE

DoReadLength(o) ==
  IF socket = "none" THEN DoRetryWait(o)
  ELSE ops' = Start(o, "length") /\ UNCHANGED <<socket, connected, running>>

DoReadBody(o) ==
  IF socket = "none" THEN DoRetryWait(o)
  ELSE /\ ops' = Start(Start(Cancel(o, {"deadlock"}), "deadlock"), "body")
       /\ UNCHANGED <<socket, connected, running>>

-----------------------------------------------------------------------------
(* The handlers.                                                              *)

Handle(op, result) == ops[op][result] > 0

Resolved ==  \* a new socket_ takes the place of one there may be, and connects
  /\ Handle("resolve", "ok")
  /\ ops' = Start(Cancel(Without("resolve", "ok"), SocketOps), "connect")
  /\ socket' = "connecting"
  /\ UNCHANGED <<connected, running, expired, spare>>

Connected ==  \* DoReadLength, StartMessageThread and connected_ = true
  /\ Handle("connect", "ok")
  /\ LET o == Without("connect", "ok")
     IN  IF socket = "none" THEN ops' = Start(Cancel(o, SocketOps \cup {"retry"}), "retry")
         ELSE ops' = Start(o, "length")
  /\ connected' = TRUE /\ running' = TRUE
  /\ UNCHANGED <<socket, expired, spare>>

LengthRead ==
  /\ Handle("length", "ok")
  /\ DoReadBody(Without("length", "ok"))
  /\ UNCHANGED <<expired, spare>>

BodyRead ==  \* HandleResponse; "bad" is a response that sets restart_
  /\ Handle("body", "ok")
  /\ DoReadLength(Cancel(Without("body", "ok"), {"deadlock"}))
  /\ UNCHANGED <<expired, spare>>

BodyFailed ==
  \E r \in {"bad", "error", "aborted"} :
    /\ Handle("body", r)
    /\ DoRetryWait(Cancel(Without("body", r), {"deadlock"}))
    /\ UNCHANGED <<expired, spare>>

Failed ==  \* lookup, connecting or the length: any error, or a short length
  \E op \in {"resolve", "connect", "length"}, r \in {"bad", "error", "aborted"} :
    /\ Handle(op, r)
    /\ DoRetryWait(Without(op, r))
    /\ UNCHANGED <<expired, spare>>

DeadlockExpired ==
  /\ Handle("deadlock", "ok")
  /\ DoRetryWait(Without("deadlock", "ok"))
  /\ expired' = expired + 1
  /\ UNCHANGED spare

\* Mutant: operation_aborted is no different from expiry.
DeadlockHasty ==
  /\ Handle("deadlock", "aborted")
  /\ DoRetryWait(Without("deadlock", "aborted"))
  /\ UNCHANGED <<expired, spare>>

DeadlockCancelled ==
  /\ Handle("deadlock", "aborted")
  /\ ops' = Without("deadlock", "aborted")
  /\ UNCHANGED <<socket, connected, running, expired, spare>>

\* Mutant: the wait is followed by another one, not by a lookup.
RetryExpiredAgain ==
  /\ Handle("retry", "ok")
  /\ DoRetryWait(Without("retry", "ok"))
  /\ UNCHANGED <<expired, spare>>

RetryExpired ==  \* DoLookup, whatever the error says
  \E r \in {"ok", "aborted"} :
    /\ Handle("retry", r)
    /\ ops' = Start(Without("retry", r), "resolve")
    /\ UNCHANGED <<socket, connected, running, expired, spare>>

-----------------------------------------------------------------------------
(* The network, the server and the clock: an operation is complete.           *)

Ready(f) == f["ok"] + f["bad"] + f["error"] + f["aborted"]
Waiting == Ready(ops["resolve"]) + Ready(ops["connect"]) + Ready(ops["length"])
           + Ready(ops["body"]) + Ready(ops["retry"]) + Ready(ops["deadlock"])

Complete(op, result) ==
  /\ ops[op]["pending"] > 0 /\ Waiting < MaxReady
  /\ ops' = [ops EXCEPT ![op]["pending"] = @ - 1, ![op][result] = @ + 1]
  /\ UNCHANGED <<connected, running, expired>>

Resolve ==
  /\ \/ Complete("resolve", "ok") /\ UNCHANGED spare
     \/ Complete("resolve", "error") /\ Spend("resolve")
  /\ UNCHANGED socket

Connect ==
  \/ Complete("connect", "ok") /\ socket' = "connected" /\ UNCHANGED spare
  \/ Complete("connect", "error") /\ Spend("connect") /\ UNCHANGED socket

Receive ==  \* a whole length or body arrives
  /\ socket = "connected"
  /\ \/ \E op \in {"length", "body"} : Complete(op, "ok") /\ UNCHANGED spare
     \/ Complete("length", "bad") /\ Spend("length")
     \/ Complete("body", "bad") /\ Spend("refuse")
  /\ UNCHANGED socket

Lose ==
  /\ socket = "connected" /\ Spend("lose")
  /\ socket' = "lost"
  /\ UNCHANGED <<ops, connected, running, expired>>

ReadError ==  \* also of a socket that is still connecting
  /\ socket \in {"lost", "connecting"}
  /\ \E op \in {"length", "body"} : Complete(op, "error")
  /\ UNCHANGED <<socket, spare>>

Expire ==  \* the 10 s of deadlock_timer_
  /\ Complete("deadlock", "ok") /\ Spend("expire")
  /\ UNCHANGED socket

Tick ==  \* the 5 s of retry_timer_
  /\ Complete("retry", "ok")
  /\ UNCHANGED <<socket, spare>>

-----------------------------------------------------------------------------
Handlers == Resolved \/ Connected \/ LengthRead \/ BodyRead \/ BodyFailed \/ Failed
            \/ DeadlockExpired \/ DeadlockCancelled \/ RetryExpired
Next == Handlers \/ Resolve \/ Connect \/ Receive \/ Lose \/ ReadError \/ Expire \/ Tick
Spec == Init /\ [][Next]_vars

\* The worker thread runs what is ready; lookups and connects end, an error of
\* the socket is reported, a body follows its length, and the clock goes on.
Fairness ==
  /\ WF_vars(Resolved) /\ WF_vars(Connected) /\ WF_vars(LengthRead)
  /\ WF_vars(BodyRead) /\ WF_vars(BodyFailed) /\ WF_vars(Failed)
  /\ WF_vars(DeadlockExpired) /\ WF_vars(DeadlockCancelled) /\ WF_vars(RetryExpired)
  /\ WF_vars(Resolve) /\ WF_vars(Connect) /\ WF_vars(ReadError) /\ WF_vars(Tick)
FairSpec == Spec /\ Fairness

-----------------------------------------------------------------------------
(* Properties.                                                                *)

All(f) == Ready(f) + f["pending"]
Chains == All(ops["resolve"]) + All(ops["connect"]) + All(ops["length"])
          + All(ops["body"]) + All(ops["retry"])

\* The types of the variables; no operation is pending on a null socket.
TypeOK ==
  /\ ops \in [Ops -> [Results \cup {"pending"} -> Nat]]
  /\ socket \in {"none", "connecting", "connected", "lost"}
  /\ connected \in BOOLEAN /\ running \in BOOLEAN
  /\ expired \in Nat /\ spare \in [Troubles -> Nat]
  /\ socket = "none" => \A op \in SocketOps : ops[op]["pending"] = 0

\* Whatever fails and in whatever order handlers run, the client never stops
\* trying, and there is one chain of operations for the start and one more for
\* each time the body timer has run out.
OneChainPerExpiry == Chains = 1 + expired

\* As long as that timer has not run out, the message thread runs exactly while
\* the client is connected, and then there is a socket.
ThreadNeedsSocket == expired = 0 =>
  /\ running = connected
  /\ connected => socket \in {"connected", "lost"}

\* Unless that timer runs out, a client whose troubles end is connected for good.
StaysConnected == <>[]connected \/ <>(expired > 0)

\* QueryParameters::Start is to "Block call until the connection is ready": once
\* the troubles are over a connection comes and stays.
BecomesReady == <>[]connected
===============================================================================
