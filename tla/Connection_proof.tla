--------------------------- MODULE Connection_proof ---------------------------
(* Theorems about Connection, for every budget of troubles and every bound.   *)
EXTENDS Connection, Integers, TLAPS

Counts == [Results \cup {"pending"} -> Nat]
OpsOK == ops \in [Ops -> Counts]
NoLost == socket = "none" => \A op \in SocketOps : ops[op]["pending"] = 0

\* A chain goes on: one operation that it waits for gives way to another.
Passed(from, to) ==
  /\ from \in Links /\ to \in Links /\ All(ops[from]) > 0
  /\ \A op \in Links : All(ops'[op]) = All(ops[op]) + (IF op = to THEN 1 ELSE 0)
                                                   - (IF op = from THEN 1 ELSE 0)
SameLinks == \A op \in Links : All(ops'[op]) = All(ops[op])

-----------------------------------------------------------------------------
(* The operations on ops, which are those of Boost.Asio.                      *)

\* An operation more is an operation more, of its kind.
LEMMA StartOps ==
  ASSUME NEW o \in [Ops -> Counts], NEW op \in Ops
  PROVE  /\ Start(o, op) \in [Ops -> Counts]
         /\ All(Start(o, op)[op]) = All(o[op]) + 1
         /\ \A other \in Ops \ {op} : Start(o, op)[other] = o[other]
         /\ \A r \in Results : Start(o, op)[op][r] = o[op][r]
BY SMTT(30) DEF Start, Counts, Results, Ops, Links, SocketOps, All, Ready

\* Cancelled operations do not go away: their handlers are still to run.
LEMMA CancelOps ==
  ASSUME NEW o \in [Ops -> Counts], NEW S
  PROVE  /\ Cancel(o, S) \in [Ops -> Counts]
         /\ \A op \in Ops : All(Cancel(o, S)[op]) = All(o[op])
         /\ \A op \in Ops \ S : Cancel(o, S)[op] = o[op]
         /\ \A op \in Ops \cap S : Cancel(o, S)[op]["pending"] = 0
         /\ \A op \in Ops : Cancel(o, S)[op]["ok"] = o[op]["ok"]
BY SMTT(30) DEF Cancel, Counts, Results, Ops, Links, SocketOps, All, Ready

\* A handler that runs is gone.
LEMMA WithoutOps ==
  ASSUME OpsOK, NEW op \in Ops, NEW r \in Results, Handle(op, r)
  PROVE  /\ Without(op, r) \in [Ops -> Counts]
         /\ All(Without(op, r)[op]) = All(ops[op]) - 1
         /\ \A other \in Ops \ {op} : Without(op, r)[other] = ops[other]
         /\ Without(op, r)[op]["pending"] = ops[op]["pending"]
BY SMTT(30) DEF OpsOK, Without, Handle, Counts, Results, Ops, Links, SocketOps, All, Ready

\* An operation that completes waits for its handler.
LEMMA CompleteOps ==
  ASSUME OpsOK, NEW op \in Ops, NEW r \in Results, Complete(op, r)
  PROVE  /\ OpsOK'
         /\ All(ops'[op]) = All(ops[op])
         /\ \A other \in Ops \ {op} : ops'[other] = ops[other]
         /\ \A other \in Ops : ops[other]["pending"] = 0 => ops'[other]["pending"] = 0
         /\ UNCHANGED <<connected, running, expired>>
BY SMTT(30) DEF OpsOK, Complete, Counts, Results, Ops, Links, SocketOps, All, Ready
-----------------------------------------------------------------------------
(* What the handlers call.                                                    *)

\* DoRetryWait begins one wait, and leaves no operation pending on a socket.
LEMMA RetryWaitStep ==
  ASSUME OpsOK, NEW op \in Ops, NEW r \in Results, Handle(op, r),
         NEW o \in [Ops -> Counts], DoRetryWait(o),
         \A k \in Links : All(o[k]) = All(Without(op, r)[k])
  PROVE  /\ OpsOK' /\ NoLost'
         /\ op \in Links => Passed(op, "retry")
         /\ socket' = "none" /\ connected' = FALSE /\ running' = FALSE
<1> DEFINE c == Cancel(o, SocketOps \cup {"retry"})
<1>0. /\ SocketOps \subseteq Links /\ "retry" \in Links /\ Links \subseteq Ops
      /\ "retry" \notin SocketOps /\ SocketOps \subseteq SocketOps \cup {"retry"}
  BY DEF Links, Ops, SocketOps
<1>1. /\ c \in [Ops -> Counts] /\ \A k \in Ops : All(c[k]) = All(o[k])
      /\ \A k \in SocketOps : c[k]["pending"] = 0
  BY <1>0, CancelOps
<1>2. ops' = Start(c, "retry")
  BY DEF DoRetryWait
<1> HIDE DEF c
<1>3. /\ OpsOK' /\ All(ops'["retry"]) = All(c["retry"]) + 1
      /\ \A k \in Ops \ {"retry"} : ops'[k] = c[k]
  BY <1>0, <1>1, <1>2, StartOps DEF OpsOK
<1>4. NoLost'
  BY <1>0, <1>1, <1>3 DEF NoLost
<1>5. ASSUME op \in Links PROVE Passed(op, "retry")
  <2>1. /\ All(Without(op, r)[op]) = All(ops[op]) - 1
        /\ \A k \in Ops \ {op} : Without(op, r)[k] = ops[k]
    BY WithoutOps
  <2>2. \A k \in Ops : ops[k] \in Counts
    BY DEF OpsOK
  <2>3. \A k \in Ops : All(ops[k]) \in Nat
    BY <2>2 DEF All, Ready, Counts, Results
  <2>4. All(ops[op]) > 0
    BY <2>2 DEF Handle, All, Ready, Counts, Results
  <2>5. \A k \in Links : All(c[k]) = All(ops[k]) - (IF k = op THEN 1 ELSE 0)
    BY <1>0, <1>1, <2>1, <2>3
  <2>6. \A k \in Links : All(ops'[k]) = All(c[k]) + (IF k = "retry" THEN 1 ELSE 0)
    BY <1>0, <1>3, <2>5, <2>3
  <2>7. \A k \in Links : All(ops'[k]) = All(ops[k]) + (IF k = "retry" THEN 1 ELSE 0)
                                                   - (IF k = op THEN 1 ELSE 0)
    BY <1>0, <2>3, <2>5, <2>6
  <2> QED BY <1>0, <1>5, <2>4, <2>7 DEF Passed
<1> QED BY <1>3, <1>4, <1>5 DEF DoRetryWait

\* A handler that starts the next operation keeps its chain; what it cancels
\* before, be it the operations of a socket or the body timer, loses nothing.
LEMMA GoOnStep ==
  ASSUME OpsOK, NoLost, NEW from \in Links, NEW to \in Links, NEW r \in Results,
         Handle(from, r), NEW S,
         NEW o \in [Ops -> Counts], o = Cancel(Without(from, r), S),
         ops' = Start(o, to)
  PROVE  /\ OpsOK' /\ Passed(from, to)
         /\ \A k \in SocketOps \ {to} : ops[k]["pending"] = 0 => ops'[k]["pending"] = 0
         /\ \A k \in Ops \ {from} : ops'[k]["ok"] = ops[k]["ok"]
<1>0. Links \subseteq Ops /\ SocketOps \subseteq Ops /\ {"ok"} \subseteq Results
  BY DEF Links, Ops, SocketOps, Results
<1> DEFINE w == Without(from, r)
<1>1. /\ w \in [Ops -> Counts] /\ All(w[from]) = All(ops[from]) - 1
      /\ \A k \in Ops \ {from} : w[k] = ops[k]
      /\ w[from]["pending"] = ops[from]["pending"]
  BY <1>0, WithoutOps
<1>2. o = Cancel(w, S)
  OBVIOUS
<1> HIDE DEF w
<1>3. /\ \A k \in Ops : All(o[k]) = All(w[k])
      /\ \A k \in Ops \ S : o[k] = w[k]
      /\ \A k \in Ops \cap S : o[k]["pending"] = 0
      /\ \A k \in Ops : o[k]["ok"] = w[k]["ok"]
  BY <1>1, <1>2, CancelOps
<1>4. /\ OpsOK' /\ All(ops'[to]) = All(o[to]) + 1
      /\ \A k \in Ops \ {to} : ops'[k] = o[k]
      /\ \A x \in Results : ops'[to][x] = o[to][x]
  BY <1>0, StartOps DEF OpsOK
<1>5. \A k \in Ops : All(ops[k]) \in Nat
  BY DEF OpsOK, All, Ready, Counts, Results
<1>6. All(ops[from]) > 0
  BY <1>0 DEF OpsOK, Handle, All, Ready, Counts, Results
<1>7. \A k \in Links : All(o[k]) = All(ops[k]) - (IF k = from THEN 1 ELSE 0)
  BY <1>0, <1>1, <1>3, <1>5
<1>8. \A k \in Links : All(ops'[k]) = All(o[k]) + (IF k = to THEN 1 ELSE 0)
  BY <1>0, <1>4, <1>5, <1>7
<1>9. Passed(from, to)
  <2>1. \A k \in Links : All(ops'[k]) = All(ops[k]) + (IF k = to THEN 1 ELSE 0)
                                                   - (IF k = from THEN 1 ELSE 0)
    BY <1>0, <1>5, <1>7, <1>8
  <2> QED BY <1>6, <2>1 DEF Passed
<1>10. ASSUME NEW k \in SocketOps \ {to}, ops[k]["pending"] = 0
       PROVE ops'[k]["pending"] = 0
  BY <1>0, <1>1, <1>3, <1>4, <1>10
<1>11. \A k \in Ops \ {from} : ops'[k]["ok"] = ops[k]["ok"]
  BY <1>0, <1>1, <1>3, <1>4
<1> QED BY <1>4, <1>9, <1>10, <1>11

-----------------------------------------------------------------------------
(* Each handler passes its chain on, or fails, and then the client waits.     *)

Fails(from) ==
  Passed(from, "retry") /\ socket' = "none" /\ connected' = FALSE /\ running' = FALSE
Held == UNCHANGED <<socket, connected, running>>
SameConnects == ops'["connect"]["ok"] = ops["connect"]["ok"]

LEMMA Names ==
  /\ SocketOps \subseteq Links /\ Links \subseteq Ops /\ "deadlock" \in Ops \ Links
  /\ {"resolve", "connect", "length", "body", "retry"} = Links
  /\ {"ok", "bad", "error", "aborted"} = Results
BY DEF Links, Ops, SocketOps, Results

LEMMA TypeFacts ==
  ASSUME TypeOK
  PROVE  OpsOK /\ NoLost
BY DEF TypeOK, OpsOK, NoLost, Counts

\* With nothing cancelled, what is left of ops is Without.
LEMMA NothingCancelled ==
  ASSUME NEW o \in [Ops -> Counts]
  PROVE  Cancel(o, {}) = o
BY DEF Cancel

LEMMA ResolvedStep ==
  ASSUME OpsOK, NoLost, Resolved
  PROVE  /\ OpsOK' /\ NoLost' /\ Passed("resolve", "connect") /\ SameConnects
         /\ socket' = "connecting"
<1> DEFINE w == Without("resolve", "ok")
<1>1. w \in [Ops -> Counts]
  BY Names, WithoutOps DEF Resolved
<1>2. Cancel(w, SocketOps) \in [Ops -> Counts]
  BY <1>1, CancelOps
<1>3. OpsOK' /\ Passed("resolve", "connect")
  BY <1>2, Names, GoOnStep DEF Resolved
<1>4. SameConnects
  <2>1. \A k \in Ops \ {"resolve"} : ops'[k]["ok"] = ops[k]["ok"]
    BY <1>2, Names, GoOnStep DEF Resolved
  <2> QED BY <2>1, Names DEF SameConnects
<1>5. NoLost'
  BY DEF Resolved, NoLost
<1> QED BY <1>3, <1>4, <1>5 DEF Resolved

LEMMA ConnectedStep ==
  ASSUME OpsOK, NoLost, Connected
  PROVE  /\ OpsOK' /\ NoLost' /\ UNCHANGED socket /\ ops["connect"]["ok"] > 0
         /\ connected' = TRUE /\ running' = TRUE
         /\ Passed("connect", IF socket = "none" THEN "retry" ELSE "length")
<1> DEFINE w == Without("connect", "ok")
<1>1. w \in [Ops -> Counts] /\ Handle("connect", "ok")
  BY Names, WithoutOps DEF Connected
<1>2. CASE socket = "none"
  <2>1. Cancel(w, SocketOps \cup {"retry"}) \in [Ops -> Counts]
    BY <1>1, CancelOps
  <2>2. ops' = Start(Cancel(w, SocketOps \cup {"retry"}), "retry")
    BY <1>2 DEF Connected
  <2>3. /\ OpsOK' /\ Passed("connect", "retry")
        /\ \A k \in SocketOps \ {"retry"} : ops[k]["pending"] = 0 => ops'[k]["pending"] = 0
    BY <1>1, <2>1, <2>2, Names, GoOnStep
  <2>4. "retry" \notin SocketOps
    BY DEF SocketOps
  <2> QED BY <1>1, <1>2, <2>3, <2>4 DEF Connected, NoLost, Handle
<1>3. CASE socket # "none"
  <2>1. Cancel(w, {}) = w /\ ops' = Start(w, "length")
    BY <1>1, <1>3, NothingCancelled DEF Connected
  <2>2. OpsOK' /\ Passed("connect", "length")
    BY <1>1, <2>1, Names, GoOnStep
  <2> QED BY <1>1, <1>3, <2>2 DEF Connected, NoLost, Handle
<1> QED BY <1>2, <1>3

LEMMA RetryExpiredStep ==
  ASSUME OpsOK, NoLost, RetryExpired
  PROVE  OpsOK' /\ NoLost' /\ Passed("retry", "resolve") /\ SameConnects /\ Held
<1>1. PICK r \in {"ok", "aborted"} :
        Handle("retry", r) /\ ops' = Start(Without("retry", r), "resolve")
  BY DEF RetryExpired
<1>2. Without("retry", r) \in [Ops -> Counts]
  BY <1>1, Names, WithoutOps
<1>3. Cancel(Without("retry", r), {}) = Without("retry", r)
  BY <1>2, NothingCancelled
<1>4. /\ OpsOK' /\ Passed("retry", "resolve")
      /\ \A k \in SocketOps \ {"resolve"} : ops[k]["pending"] = 0 => ops'[k]["pending"] = 0
      /\ \A k \in Ops \ {"retry"} : ops'[k]["ok"] = ops[k]["ok"]
  BY <1>1, <1>2, <1>3, Names, GoOnStep
<1>5. "resolve" \notin SocketOps
  BY DEF SocketOps
<1>6. Held
  BY DEF RetryExpired, Held
<1> QED BY <1>4, <1>5, <1>6, Names DEF NoLost, SameConnects, Held

LEMMA LengthReadStep ==
  ASSUME OpsOK, NoLost, LengthRead
  PROVE  /\ OpsOK' /\ NoLost'
         /\ Fails("length") \/ (Passed("length", "body") /\ SameConnects /\ Held)
<1> DEFINE w == Without("length", "ok")
<1>1. w \in [Ops -> Counts] /\ Handle("length", "ok")
  BY Names, WithoutOps DEF LengthRead
<1>2. CASE socket = "none"
  <2>1. DoRetryWait(w)
    BY <1>2 DEF LengthRead, DoReadBody
  <2>2. /\ OpsOK' /\ NoLost' /\ Passed("length", "retry")
        /\ socket' = "none" /\ connected' = FALSE /\ running' = FALSE
    BY <1>1, <2>1, Names, RetryWaitStep
  <2> QED BY <2>2 DEF Fails
<1>3. CASE socket # "none"
  <2> DEFINE c == Cancel(w, {"deadlock"})
             d == Start(c, "deadlock")
  <2>1. /\ c \in [Ops -> Counts] /\ \A k \in Ops : All(c[k]) = All(w[k])
        /\ \A k \in Ops \ {"deadlock"} : c[k] = w[k]
    BY <1>1, CancelOps
  <2>2. ops' = Start(d, "body") /\ UNCHANGED <<socket, connected, running>>
    BY <1>3 DEF LengthRead, DoReadBody
  <2> HIDE DEF c
  <2>3. d \in [Ops -> Counts] /\ \A k \in Ops \ {"deadlock"} : d[k] = c[k]
    BY <2>1, Names, StartOps
  <2> HIDE DEF d
  <2>4. /\ OpsOK' /\ All(ops'["body"]) = All(d["body"]) + 1
        /\ \A k \in Ops \ {"body"} : ops'[k] = d[k]
    BY <2>2, <2>3, Names, StartOps DEF OpsOK
  <2>5. /\ All(w["length"]) = All(ops["length"]) - 1
        /\ \A k \in Ops \ {"length"} : w[k] = ops[k]
    BY <1>1, Names, WithoutOps
  <2>6. \A k \in Links : d[k] = w[k]
    BY <2>1, <2>3, Names
  <2>7. \A k \in Ops : All(ops[k]) \in Nat
    BY DEF OpsOK, All, Ready, Counts, Results
  <2>8. All(ops["length"]) > 0
    BY <1>1, Names DEF OpsOK, Handle, All, Ready, Counts, Results
  <2>9. \A k \in Links : All(ops'[k]) = All(ops[k]) + (IF k = "body" THEN 1 ELSE 0)
                                                   - (IF k = "length" THEN 1 ELSE 0)
    BY <2>4, <2>5, <2>6, <2>7, Names
  <2>10. Passed("length", "body")
    BY <2>8, <2>9, Names DEF Passed
  <2>11. SameConnects
    BY <2>4, <2>5, <2>6, Names DEF SameConnects
  <2> QED BY <1>3, <2>2, <2>4, <2>10, <2>11 DEF Held, NoLost
<1> QED BY <1>2, <1>3

LEMMA BodyReadStep ==
  ASSUME OpsOK, NoLost, BodyRead
  PROVE  /\ OpsOK' /\ NoLost'
         /\ Fails("body") \/ (Passed("body", "length") /\ SameConnects /\ Held)
<1> DEFINE w == Without("body", "ok")
           c == Cancel(w, {"deadlock"})
<1>1. w \in [Ops -> Counts] /\ Handle("body", "ok") /\ DoReadLength(c)
  BY Names, WithoutOps DEF BodyRead
<1>2. c \in [Ops -> Counts] /\ \A k \in Ops : All(c[k]) = All(w[k])
  BY <1>1, CancelOps
<1>3. CASE socket = "none"
  <2>1. DoRetryWait(c)
    BY <1>1, <1>3 DEF DoReadLength
  <2>2. /\ OpsOK' /\ NoLost' /\ Passed("body", "retry")
        /\ socket' = "none" /\ connected' = FALSE /\ running' = FALSE
    <3> HIDE DEF c
    <3> QED BY ZenonT(40), <1>1, <1>2, <2>1, Names, RetryWaitStep
  <2> QED BY <2>2 DEF Fails
<1>4. CASE socket # "none"
  <2>1. ops' = Start(c, "length") /\ UNCHANGED <<socket, connected, running>>
    BY <1>1, <1>4 DEF DoReadLength
  <2>2. /\ OpsOK' /\ Passed("body", "length")
        /\ \A k \in Ops \ {"body"} : ops'[k]["ok"] = ops[k]["ok"]
    BY <1>1, <1>2, <2>1, Names, GoOnStep
  <2> QED BY <1>4, <2>1, <2>2, Names DEF Held, NoLost, SameConnects
<1> QED BY <1>3, <1>4

LEMMA BodyFailedStep ==
  ASSUME OpsOK, NoLost, BodyFailed
  PROVE  OpsOK' /\ NoLost' /\ Fails("body")
<1>1. PICK r \in {"bad", "error", "aborted"} :
        Handle("body", r) /\ DoRetryWait(Cancel(Without("body", r), {"deadlock"}))
  BY DEF BodyFailed
<1> DEFINE w == Without("body", r)
           c == Cancel(w, {"deadlock"})
<1>2. w \in [Ops -> Counts]
  BY <1>1, Names, WithoutOps
<1>3. c \in [Ops -> Counts] /\ \A k \in Ops : All(c[k]) = All(w[k])
  BY <1>2, CancelOps
<1>4. DoRetryWait(c) /\ \A k \in Links : All(c[k]) = All(w[k])
  BY <1>1, <1>3, Names
<1> HIDE DEF c
<1>5. r \in Results /\ "body" \in Ops /\ "body" \in Links
  BY Names
<1>6. /\ OpsOK' /\ NoLost' /\ Passed("body", "retry")
      /\ socket' = "none" /\ connected' = FALSE /\ running' = FALSE
  BY <1>1, <1>3, <1>4, <1>5, RetryWaitStep
<1> QED BY <1>6 DEF Fails

LEMMA FailedStep ==
  ASSUME OpsOK, NoLost, Failed
  PROVE  OpsOK' /\ NoLost' /\ \E op \in Links : Fails(op)
<1>1. PICK op \in {"resolve", "connect", "length"}, r \in {"bad", "error", "aborted"} :
        Handle(op, r) /\ DoRetryWait(Without(op, r))
  BY DEF Failed
<1>2. op \in Ops /\ op \in Links /\ r \in Results
  BY Names
<1>3. Without(op, r) \in [Ops -> Counts]
  BY <1>1, <1>2, WithoutOps
<1>4. /\ OpsOK' /\ NoLost' /\ Passed(op, "retry")
      /\ socket' = "none" /\ connected' = FALSE /\ running' = FALSE
  BY <1>1, <1>2, <1>3, RetryWaitStep
<1> QED BY <1>2, <1>4 DEF Fails

\* The timer that runs out starts a chain of its own: what it aborts goes on too.
LEMMA DeadlockExpiredStep ==
  ASSUME OpsOK, NoLost, DeadlockExpired
  PROVE  /\ OpsOK' /\ NoLost' /\ socket' = "none"
         /\ connected' = FALSE /\ running' = FALSE
         /\ \A op \in Links : All(ops'[op]) = All(ops[op]) + (IF op = "retry" THEN 1 ELSE 0)
<1> DEFINE w == Without("deadlock", "ok")
           c == Cancel(w, SocketOps \cup {"retry"})
<1>1. Handle("deadlock", "ok") /\ DoRetryWait(w)
  BY DEF DeadlockExpired
<1>2. w \in [Ops -> Counts] /\ \A k \in Links : w[k] = ops[k]
  BY <1>1, Names, WithoutOps
<1>3. OpsOK' /\ NoLost' /\ socket' = "none" /\ connected' = FALSE /\ running' = FALSE
  BY <1>1, <1>2, Names, RetryWaitStep
<1>4. c \in [Ops -> Counts] /\ \A k \in Ops : All(c[k]) = All(w[k])
  BY <1>2, CancelOps
<1>5. ops' = Start(c, "retry")
  BY <1>1 DEF DoRetryWait
<1> HIDE DEF c
<1>6. All(ops'["retry"]) = All(c["retry"]) + 1 /\ \A k \in Ops \ {"retry"} : ops'[k] = c[k]
  BY <1>4, <1>5, Names, StartOps
<1>7. \A k \in Ops : All(ops[k]) \in Nat
  BY DEF OpsOK, All, Ready, Counts, Results
<1>8. \A k \in Links : All(c[k]) = All(ops[k])
  BY <1>2, <1>4, Names
<1>9. \A k \in Links : All(ops'[k]) = All(ops[k]) + (IF k = "retry" THEN 1 ELSE 0)
  BY <1>6, <1>7, <1>8, Names
<1> QED BY <1>3, <1>9

LEMMA DeadlockCancelledStep ==
  ASSUME OpsOK, NoLost, DeadlockCancelled
  PROVE  OpsOK' /\ NoLost' /\ SameLinks /\ SameConnects /\ Held
<1>1. /\ OpsOK' /\ \A k \in Links : ops'[k] = ops[k]
  BY Names, WithoutOps DEF DeadlockCancelled, OpsOK
<1> QED BY <1>1, Names DEF DeadlockCancelled, NoLost, SameLinks, SameConnects, Held

\* Nothing but a handler ends or begins an operation. Only a connect that
\* succeeds changes the socket, and only such a connect is told of it.
LEMMA EnvironmentStep ==
  ASSUME OpsOK, NoLost, Resolve \/ Connect \/ Receive \/ Lose \/ ReadError \/ Expire \/ Tick
  PROVE  /\ OpsOK' /\ NoLost' /\ SameLinks /\ UNCHANGED <<connected, running, expired>>
         /\ \/ SameConnects /\ socket' = socket
            \/ SameConnects /\ socket = "connected" /\ socket' = "lost"
            \/ socket' = "connected"
<1>1. ASSUME NEW op \in Ops, NEW r \in Results, Complete(op, r), op # "connect" \/ r # "ok",
             UNCHANGED socket
      PROVE  /\ OpsOK' /\ NoLost' /\ SameLinks /\ UNCHANGED <<connected, running, expired>>
             /\ SameConnects
  <2>1. /\ OpsOK' /\ All(ops'[op]) = All(ops[op])
        /\ \A other \in Ops \ {op} : ops'[other] = ops[other]
        /\ \A other \in Ops : ops[other]["pending"] = 0 => ops'[other]["pending"] = 0
        /\ UNCHANGED <<connected, running, expired>>
    BY <1>1, CompleteOps
  <2>2. SameLinks
    BY <2>1, Names DEF SameLinks
  <2>3. NoLost'
    BY <1>1, <2>1, Names DEF NoLost
  <2>4. SameConnects
    <3>1. CASE op # "connect"
      BY <2>1, <3>1, Names DEF SameConnects
    <3>2. CASE op = "connect" /\ r # "ok"
      BY <1>1, <3>2, Names DEF SameConnects, Complete, OpsOK, Counts
    <3> QED BY <1>1, <3>1, <3>2
  <2> QED BY <2>1, <2>2, <2>3, <2>4
<1>2. CASE Resolve
  BY <1>1, <1>2, Names DEF Resolve
<1>3. CASE Connect
  <2>1. CASE Complete("connect", "error") /\ UNCHANGED socket
    BY <1>1, <2>1, Names
  <2>2. CASE Complete("connect", "ok") /\ socket' = "connected"
    <3>1. /\ OpsOK' /\ All(ops'["connect"]) = All(ops["connect"])
          /\ \A other \in Ops \ {"connect"} : ops'[other] = ops[other]
          /\ UNCHANGED <<connected, running, expired>>
      BY <2>2, Names, CompleteOps
    <3> QED BY <2>2, <3>1, Names DEF SameLinks, NoLost
  <2> QED BY <1>3, <2>1, <2>2 DEF Connect
<1>4. CASE Receive
  BY <1>1, <1>4, Names DEF Receive
<1>5. CASE Lose
  BY <1>5 DEF Lose, OpsOK, NoLost, SameLinks, SameConnects
<1>6. CASE ReadError
  BY <1>1, <1>6, Names DEF ReadError
<1>7. CASE Expire
  BY <1>1, <1>7, Names DEF Expire
<1>8. CASE Tick
  BY <1>1, <1>8, Names DEF Tick
<1> QED BY <1>2, <1>3, <1>4, <1>5, <1>6, <1>7, <1>8

-----------------------------------------------------------------------------
(* The types.                                                                 *)

LEMMA TypeInit == Init => TypeOK
<1> SUFFICES ASSUME Init PROVE TypeOK
  OBVIOUS
<1>1. OpsOK
  BY DEF Init, OpsOK, Counts
<1>2. NoLost
  BY Names DEF Init, NoLost, SocketOps
<1>3. /\ socket \in {"none", "connecting", "connected", "lost"}
      /\ connected \in BOOLEAN /\ running \in BOOLEAN
      /\ expired \in Nat /\ spare \in [Troubles -> Nat]
  BY BudgetAssumption DEF Init
<1> QED BY <1>1, <1>2, <1>3 DEF TypeOK, OpsOK, NoLost, Counts

LEMMA TypeStep == TypeOK /\ [Next]_vars => TypeOK'
<1> SUFFICES ASSUME TypeOK, [Next]_vars PROVE TypeOK'
  OBVIOUS
<1> DEFINE SocketOK == socket \in {"none", "connecting", "connected", "lost"}
           FlagsOK == connected \in BOOLEAN /\ running \in BOOLEAN
           CountOK == expired \in Nat
           SpareOK == spare \in [Troubles -> Nat]
<1>1. OpsOK /\ NoLost /\ SocketOK /\ FlagsOK /\ CountOK /\ SpareOK
  BY TypeFacts DEF TypeOK
<1>2. OpsOK' /\ NoLost'
  <2>1. CASE UNCHANGED vars
    BY <1>1, <2>1 DEF OpsOK, NoLost, vars
  <2>2. CASE Handlers
    BY <1>1, <2>2, ResolvedStep, ConnectedStep, LengthReadStep, BodyReadStep,
       BodyFailedStep, FailedStep, DeadlockExpiredStep, DeadlockCancelledStep,
       RetryExpiredStep DEF Handlers
  <2>3. CASE Resolve \/ Connect \/ Receive \/ Lose \/ ReadError \/ Expire \/ Tick
    BY <1>1, <2>3, EnvironmentStep
  <2> QED BY <2>1, <2>2, <2>3 DEF Next
<1>3. SocketOK' /\ FlagsOK'
  BY <1>1 DEF Next, Handlers, vars, Resolved, Connected, LengthRead, BodyRead, BodyFailed,
     Failed, DeadlockExpired, DeadlockCancelled, RetryExpired, DoRetryWait, DoReadLength,
     DoReadBody, Resolve, Connect, Receive, Lose, ReadError, Expire, Tick, Complete
<1>4. CountOK' /\ SpareOK'
  BY <1>1 DEF Next, Handlers, vars, Resolved, Connected, LengthRead, BodyRead, BodyFailed,
     Failed, DeadlockExpired, DeadlockCancelled, RetryExpired, Resolve, Connect, Receive,
     Lose, ReadError, Expire, Tick, Complete, Spend, Troubles
<1> QED BY <1>2, <1>3, <1>4 DEF TypeOK, OpsOK, NoLost, Counts

\* For every budget of troubles, no operation is left pending on a null socket.
THEOREM OpsTypeCorrect == Spec => []TypeOK
<1> QED BY TypeInit, TypeStep, PTL DEF Spec

-----------------------------------------------------------------------------
(* The chains of operations.                                                  *)

LEMMA LinkCounts ==
  ASSUME OpsOK
  PROVE  \A op \in Links : All(ops[op]) \in Nat
BY Names DEF OpsOK, All, Ready, Counts, Results

LEMMA PassedKeepsChains ==
  ASSUME OpsOK, NEW from, NEW to, Passed(from, to)
  PROVE  Chains' = Chains
<1> DEFINE In(k) == IF k = to THEN 1 ELSE 0
           Out(k) == IF k = from THEN 1 ELSE 0
<1>1. \A k \in Links : All(ops'[k]) = All(ops[k]) + In(k) - Out(k)
  BY DEF Passed
<1>2. /\ In("resolve") + In("connect") + In("length") + In("body") + In("retry") = 1
      /\ Out("resolve") + Out("connect") + Out("length") + Out("body") + Out("retry") = 1
  <2>1. /\ from \in {"resolve", "connect", "length", "body", "retry"}
        /\ to \in {"resolve", "connect", "length", "body", "retry"}
    BY Names DEF Passed
  <2> QED BY <2>1
<1>3. \A k : In(k) \in Int /\ Out(k) \in Int
  OBVIOUS
<1> HIDE DEF In, Out
<1>4. \A k \in Links : All(ops[k]) \in Int
  BY LinkCounts
<1>5. /\ All(ops'["resolve"]) = All(ops["resolve"]) + In("resolve") - Out("resolve")
      /\ All(ops'["connect"]) = All(ops["connect"]) + In("connect") - Out("connect")
      /\ All(ops'["length"]) = All(ops["length"]) + In("length") - Out("length")
      /\ All(ops'["body"]) = All(ops["body"]) + In("body") - Out("body")
      /\ All(ops'["retry"]) = All(ops["retry"]) + In("retry") - Out("retry")
  BY <1>1, Names
<1>6. /\ All(ops["resolve"]) \in Int /\ All(ops["connect"]) \in Int
      /\ All(ops["length"]) \in Int /\ All(ops["body"]) \in Int /\ All(ops["retry"]) \in Int
  BY <1>4, Names
<1> QED BY <1>2, <1>3, <1>5, <1>6 DEF Chains

LEMMA SameLinksKeepChains ==
  ASSUME SameLinks
  PROVE  Chains' = Chains
BY Names DEF SameLinks, Chains

LEMMA ChainStep == TypeOK /\ OneChainPerExpiry /\ [Next]_vars => OneChainPerExpiry'
<1> SUFFICES ASSUME TypeOK, OneChainPerExpiry, [Next]_vars PROVE OneChainPerExpiry'
  OBVIOUS
<1>1. OpsOK /\ NoLost /\ expired \in Nat
  BY TypeFacts DEF TypeOK
<1>2. ASSUME UNCHANGED expired, Chains' = Chains PROVE OneChainPerExpiry'
  BY <1>2 DEF OneChainPerExpiry
<1>3. CASE UNCHANGED vars
  BY <1>2, <1>3 DEF vars, Chains
<1>4. CASE Resolved
  BY <1>1, <1>2, <1>4, ResolvedStep, PassedKeepsChains DEF Resolved
<1>5. CASE Connected
  BY <1>1, <1>2, <1>5, ConnectedStep, PassedKeepsChains DEF Connected
<1>6. CASE LengthRead
  BY <1>1, <1>2, <1>6, LengthReadStep, PassedKeepsChains DEF LengthRead, Fails
<1>7. CASE BodyRead
  BY <1>1, <1>2, <1>7, BodyReadStep, PassedKeepsChains DEF BodyRead, Fails
<1>8. CASE BodyFailed
  BY <1>1, <1>2, <1>8, BodyFailedStep, PassedKeepsChains DEF BodyFailed, Fails
<1>9. CASE Failed
  BY <1>1, <1>2, <1>9, FailedStep, PassedKeepsChains DEF Failed, Fails
<1>10. CASE RetryExpired
  BY <1>1, <1>2, <1>10, RetryExpiredStep, PassedKeepsChains DEF RetryExpired
<1>11. CASE DeadlockCancelled
  BY <1>1, <1>2, <1>11, DeadlockCancelledStep, SameLinksKeepChains DEF DeadlockCancelled
<1>12. CASE DeadlockExpired
  <2>1. /\ All(ops'["resolve"]) = All(ops["resolve"]) + 0
        /\ All(ops'["connect"]) = All(ops["connect"]) + 0
        /\ All(ops'["length"]) = All(ops["length"]) + 0
        /\ All(ops'["body"]) = All(ops["body"]) + 0
        /\ All(ops'["retry"]) = All(ops["retry"]) + 1
    BY <1>1, <1>12, DeadlockExpiredStep, Names
  <2>2. \A op \in Links : All(ops[op]) \in Nat
    BY <1>1, LinkCounts
  <2>3. Chains' = Chains + 1 /\ expired' = expired + 1
    BY <1>12, <2>1, <2>2, Names DEF DeadlockExpired, Chains
  <2>4. Chains = 1 + expired
    BY DEF OneChainPerExpiry
  <2> QED BY <1>1, <2>3, <2>4 DEF OneChainPerExpiry
<1>13. CASE Resolve \/ Connect \/ Receive \/ Lose \/ ReadError \/ Expire \/ Tick
  BY <1>1, <1>2, <1>13, EnvironmentStep, SameLinksKeepChains
<1> QED BY <1>3, <1>4, <1>5, <1>6, <1>7, <1>8, <1>9, <1>10, <1>11, <1>12, <1>13
        DEF Next, Handlers

LEMMA ChainInit == Init => OneChainPerExpiry
BY Names DEF Init, OneChainPerExpiry, Chains, All, Ready, Results

\* However often lookups, connects and reads fail, no chain of operations is
\* lost, and only an expiry of the body timer adds one.
THEOREM ChainsCounted == Spec => []OneChainPerExpiry
<1> QED BY OpsTypeCorrect, ChainInit, ChainStep, PTL DEF Spec

-----------------------------------------------------------------------------
(* The message thread and the socket, while there is one chain.               *)

Up == socket \in {"connected", "lost"}
Offline == {"resolve", "connect", "retry"}

\* Where the one chain is tells whether the client is connected: it reads then,
\* and a connect that succeeded, handled or not, has left a socket.
ThreadInv == expired = 0 =>
  /\ running = connected
  /\ connected => Up /\ \A op \in Offline : All(ops[op]) = 0
  /\ All(ops["length"]) + All(ops["body"]) > 0 => connected
  /\ ops["connect"]["ok"] > 0 => Up

LEMMA FiveNaturals ==
  ASSUME NEW a \in Nat, NEW b \in Nat, NEW c \in Nat, NEW d \in Nat, NEW e \in Nat
  PROVE  /\ a + b + c + d + e = 0 => a = 0
         /\ a + b + c + d + e = 1 /\ b = 0 /\ c = 0 /\ d = 0 /\ e = 0 => a = 1
         /\ a + b + c + d + e = 1 /\ a = 0 /\ c = 0 /\ d = 0 /\ e = 0 => b = 1
         /\ a + b + c + d + e = 1 /\ a = 0 /\ b = 0 /\ d = 0 /\ e = 0 => c = 1
         /\ a + b + c + d + e = 1 /\ a = 0 /\ b = 0 /\ c = 0 /\ e = 0 => d = 1
         /\ a + b + c + d + e = 1 /\ a = 0 /\ b = 0 /\ c = 0 /\ d = 0 => e = 1
OBVIOUS

\* One chain that goes on from one operation to another is in no third.
LEMMA OnlyChain ==
  ASSUME OpsOK, Chains = 1, NEW from, NEW to, Passed(from, to)
  PROVE  /\ All(ops'[to]) = 1 /\ \A k \in Links \ {to} : All(ops'[k]) = 0
         /\ All(ops[from]) = 1 /\ \A k \in Links \ {from} : All(ops[k]) = 0
<1>1. /\ All(ops["resolve"]) \in Nat /\ All(ops["connect"]) \in Nat
      /\ All(ops["length"]) \in Nat /\ All(ops["body"]) \in Nat /\ All(ops["retry"]) \in Nat
  BY LinkCounts, Names
<1>2. from \in Links /\ to \in Links /\ All(ops[from]) > 0
  BY DEF Passed
<1>3. /\ from \in {"resolve", "connect", "length", "body", "retry"}
      /\ \A k \in Links : k \in {"resolve", "connect", "length", "body", "retry"}
  BY <1>2, Names
<1>4. All(ops[from]) = 1 /\ \A k \in Links \ {from} : All(ops[k]) = 0
  <2>1. All(ops["resolve"]) + All(ops["connect"]) + All(ops["length"])
        + All(ops["body"]) + All(ops["retry"]) = 1
    BY DEF Chains
  <2>2. /\ All(ops["resolve"]) = IF "resolve" = from THEN 1 ELSE 0
        /\ All(ops["connect"]) = IF "connect" = from THEN 1 ELSE 0
        /\ All(ops["length"]) = IF "length" = from THEN 1 ELSE 0
        /\ All(ops["body"]) = IF "body" = from THEN 1 ELSE 0
        /\ All(ops["retry"]) = IF "retry" = from THEN 1 ELSE 0
    <3>1. /\ All(ops["resolve"]) > 0 => from = "resolve"
          /\ All(ops["connect"]) > 0 => from = "connect"
          /\ All(ops["length"]) > 0 => from = "length"
          /\ All(ops["body"]) > 0 => from = "body"
          /\ All(ops["retry"]) > 0 => from = "retry"
      BY <1>1, <1>2, <1>3, <2>1
    <3>2. \A k \in Links : k # from => All(ops[k]) = 0
      BY <1>1, <1>3, <3>1
    <3>3. /\ "resolve" # from => All(ops["resolve"]) = 0
          /\ "connect" # from => All(ops["connect"]) = 0
          /\ "length" # from => All(ops["length"]) = 0
          /\ "body" # from => All(ops["body"]) = 0
          /\ "retry" # from => All(ops["retry"]) = 0
      BY <3>2, Names
    <3>4. CASE from = "resolve"
      BY <1>1, <2>1, <3>3, <3>4, FiveNaturals
    <3>5. CASE from = "connect"
      BY <1>1, <2>1, <3>3, <3>5, FiveNaturals
    <3>6. CASE from = "length"
      BY <1>1, <2>1, <3>3, <3>6, FiveNaturals
    <3>7. CASE from = "body"
      BY <1>1, <2>1, <3>3, <3>7, FiveNaturals
    <3>8. CASE from = "retry"
      BY <1>1, <2>1, <3>3, <3>8, FiveNaturals
    <3> QED BY <1>3, <3>4, <3>5, <3>6, <3>7, <3>8
  <2> QED BY <1>2, <1>3, <2>2
<1>5. \A k \in Links : All(ops'[k]) = All(ops[k]) + (IF k = to THEN 1 ELSE 0)
                                                  - (IF k = from THEN 1 ELSE 0)
  BY DEF Passed
<1>6. \A k \in Links : All(ops[k]) = IF k = from THEN 1 ELSE 0
  BY <1>4
<1>7. \A k \in Links : All(ops'[k]) = IF k = to THEN 1 ELSE 0
  BY <1>5, <1>6
<1> QED BY <1>2, <1>4, <1>7

\* No handler is ready of a kind that no operation is left of.
LEMMA NoneReady ==
  ASSUME NEW f \in Counts, All(f) = 0
  PROVE  f["ok"] = 0
<1>1. /\ f["ok"] \in Nat /\ f["bad"] \in Nat /\ f["error"] \in Nat
      /\ f["aborted"] \in Nat /\ f["pending"] \in Nat
  BY Names DEF Counts
<1>2. f["ok"] + f["bad"] + f["error"] + f["aborted"] + f["pending"] = 0
  BY DEF All, Ready
<1> DEFINE a == f["ok"]
           b == f["bad"]
           c == f["error"]
           d == f["aborted"]
           e == f["pending"]
<1>3. /\ a \in Nat /\ b \in Nat /\ c \in Nat /\ d \in Nat /\ e \in Nat
      /\ a + b + c + d + e = 0
  BY <1>1, <1>2
<1> HIDE DEF a, b, c, d, e
<1>4. a = 0
  BY <1>3, FiveNaturals
<1> QED BY <1>4 DEF a

LEMMA FailsKeepsThread ==
  ASSUME OpsOK, OpsOK', Chains = 1, NEW from, Fails(from)
  PROVE  ThreadInv'
<1>1. /\ \A k \in Links \ {"retry"} : All(ops'[k]) = 0
      /\ connected' = FALSE /\ running' = FALSE
  BY OnlyChain DEF Fails
<1>2. All(ops'["length"]) = 0 /\ All(ops'["body"]) = 0 /\ All(ops'["connect"]) = 0
  BY <1>1, Names
<1>3. ops'["connect"]["ok"] = 0
  <2>1. ops'["connect"] \in Counts
    BY Names DEF OpsOK
  <2> QED BY <1>2, <2>1, NoneReady
<1>4. running' = connected' /\ ~connected'
  BY <1>1, Zenon
<1>5. ~(ops'["connect"]["ok"] > 0) /\ ~(All(ops'["length"]) + All(ops'["body"]) > 0)
  BY <1>2, <1>3
<1> QED BY <1>4, <1>5, Zenon DEF ThreadInv

LEMMA OfflineLinks ==
  Offline \subseteq Links /\ {"length", "body"} \cap Offline = {} /\ {"length", "body"} \subseteq Links
BY Names DEF Offline

\* Between operations that read, a chain keeps the client connected.
LEMMA ReadsKeepThread ==
  ASSUME OpsOK, OpsOK', Chains = 1, ThreadInv, NEW from \in {"length", "body"},
         NEW to \in {"length", "body"}, Passed(from, to), SameConnects, Held, UNCHANGED expired
  PROVE  ThreadInv'
<1> SUFFICES ASSUME expired = 0 PROVE ThreadInv'
  BY DEF ThreadInv
<1>1. /\ running = connected
      /\ connected => Up
      /\ All(ops["length"]) + All(ops["body"]) > 0 => connected
      /\ ops["connect"]["ok"] > 0 => Up
  BY DEF ThreadInv
<1>2. /\ \A k \in Links \ {to} : All(ops'[k]) = 0
      /\ All(ops[from]) = 1 /\ \A k \in Links \ {from} : All(ops[k]) = 0
  BY OnlyChain
<1>3. \A op \in Offline : All(ops'[op]) = 0
  BY <1>2, OfflineLinks
<1>4. All(ops["length"]) + All(ops["body"]) > 0
  BY <1>2, OfflineLinks
<1>5. connected /\ Up /\ running
  BY <1>1, <1>4, Zenon
<1>6. connected' /\ Up' /\ running'
  BY <1>5 DEF Held, Up
<1>7. running' = connected'
  BY <1>1 DEF Held
<1> QED BY <1>3, <1>6, <1>7, Zenon DEF ThreadInv

\* Between operations that do not, it stays disconnected.
LEMMA WaitKeepsThread ==
  ASSUME OpsOK, OpsOK', Chains = 1, ThreadInv, NEW from \in {"resolve", "retry"},
         NEW to \in {"resolve", "connect"}, Passed(from, to), SameConnects,
         UNCHANGED <<connected, running, expired>>
  PROVE  ThreadInv'
<1> SUFFICES ASSUME expired = 0 PROVE ThreadInv'
  BY DEF ThreadInv
<1>1. /\ running = connected
      /\ connected => \A op \in Offline : All(ops[op]) = 0
  BY DEF ThreadInv
<1>2. /\ \A k \in Links \ {to} : All(ops'[k]) = 0
      /\ All(ops[from]) = 1 /\ \A k \in Links \ {from} : All(ops[k]) = 0
  BY OnlyChain
<1>3. ~connected
  <2>1. from \in Offline /\ All(ops[from]) # 0
    BY <1>2 DEF Offline
  <2> QED BY <1>1, <2>1, Zenon
<1>4. ops'["connect"]["ok"] = 0
  <2>1. ops["connect"] \in Counts /\ All(ops["connect"]) = 0
    BY <1>2, Names DEF OpsOK
  <2> QED BY <2>1, NoneReady DEF SameConnects
<1>5. ~(ops'["connect"]["ok"] > 0) /\ ~(All(ops'["length"]) + All(ops'["body"]) > 0)
  BY <1>2, <1>4, OfflineLinks
<1>6. ~connected' /\ running' = connected'
  BY <1>1, <1>3
<1> QED BY <1>5, <1>6, Zenon DEF ThreadInv

LEMMA ConnectedKeepsThread ==
  ASSUME OpsOK, NoLost, Chains = 1, ThreadInv, Connected
  PROVE  ThreadInv'
<1> SUFFICES ASSUME expired = 0 PROVE ThreadInv'
  BY DEF ThreadInv, Connected
<1>1. /\ OpsOK' /\ UNCHANGED socket /\ ops["connect"]["ok"] > 0
      /\ connected' = TRUE /\ running' = TRUE
      /\ Passed("connect", IF socket = "none" THEN "retry" ELSE "length")
  BY ConnectedStep
<1>2. Up
  BY <1>1 DEF ThreadInv
<1>3. Passed("connect", "length") /\ Up'
  BY <1>1, <1>2 DEF Up
<1>4. \A k \in Links \ {"length"} : All(ops'[k]) = 0
  BY <1>3, OnlyChain
<1>5. \A op \in Offline : All(ops'[op]) = 0
  BY <1>4, OfflineLinks
<1>6. connected' /\ running' /\ running' = connected'
  BY <1>1, Zenon
<1> QED BY <1>3, <1>5, <1>6, Zenon DEF ThreadInv

\* What the network and the clock do moves no chain.
LEMMA StillKeepsThread ==
  ASSUME ThreadInv, SameLinks, UNCHANGED <<connected, running, expired>>,
         \/ SameConnects /\ (Up => Up')
         \/ Up'
  PROVE  ThreadInv'
<1> SUFFICES ASSUME expired = 0 PROVE ThreadInv'
  BY DEF ThreadInv
<1>1. /\ running = connected
      /\ connected => Up
      /\ connected => \A op \in Offline : All(ops[op]) = 0
      /\ All(ops["length"]) + All(ops["body"]) > 0 => connected
      /\ ops["connect"]["ok"] > 0 => Up
  BY DEF ThreadInv
<1>2. running' = connected' /\ (connected' => Up')
  BY <1>1, Zenon
<1>3. connected' => \A op \in Offline : All(ops'[op]) = 0
  BY <1>1, OfflineLinks DEF SameLinks
<1>4. All(ops'["length"]) + All(ops'["body"]) > 0 => connected'
  BY <1>1, OfflineLinks DEF SameLinks
<1>5. ops'["connect"]["ok"] > 0 => Up'
  BY <1>1 DEF SameConnects
<1> QED BY <1>2, <1>3, <1>4, <1>5, Zenon DEF ThreadInv

LEMMA ThreadStep ==
  TypeOK /\ OneChainPerExpiry /\ ThreadInv /\ [Next]_vars => ThreadInv'
<1> SUFFICES ASSUME TypeOK, OneChainPerExpiry, ThreadInv, [Next]_vars, expired' = 0
             PROVE  ThreadInv'
  BY DEF ThreadInv
<1>1. OpsOK /\ NoLost /\ expired \in Nat
  BY TypeFacts DEF TypeOK
<1>2. OpsOK'
  BY TypeStep, TypeFacts DEF TypeOK, OpsOK, Counts
<1>3. CASE UNCHANGED vars
  BY <1>3 DEF vars, ThreadInv, All, Ready, Up
<1>4. CASE DeadlockExpired
  BY <1>1, <1>4 DEF DeadlockExpired
<1>5. ASSUME UNCHANGED expired PROVE Chains = 1
  BY <1>5 DEF OneChainPerExpiry
<1>6. ASSUME NEW from, Fails(from), UNCHANGED expired PROVE ThreadInv'
  BY <1>1, <1>2, <1>5, <1>6, FailsKeepsThread
<1>7. CASE Resolved
  <2>1. Passed("resolve", "connect") /\ SameConnects /\ UNCHANGED <<connected, running, expired>>
    BY <1>1, <1>7, ResolvedStep DEF Resolved
  <2> QED BY <1>1, <1>2, <1>5, <2>1, WaitKeepsThread
<1>8. CASE Connected
  BY <1>1, <1>5, <1>8, ConnectedKeepsThread DEF Connected
<1>9. CASE LengthRead
  <2>1. /\ UNCHANGED expired
        /\ Fails("length") \/ (Passed("length", "body") /\ SameConnects /\ Held)
    BY <1>1, <1>9, LengthReadStep DEF LengthRead
  <2> QED BY <1>1, <1>2, <1>5, <1>6, <2>1, ReadsKeepThread
<1>10. CASE BodyRead
  <2>1. /\ UNCHANGED expired
        /\ Fails("body") \/ (Passed("body", "length") /\ SameConnects /\ Held)
    BY <1>1, <1>10, BodyReadStep DEF BodyRead
  <2> QED BY <1>1, <1>2, <1>5, <1>6, <2>1, ReadsKeepThread
<1>11. CASE BodyFailed
  BY <1>1, <1>6, <1>11, BodyFailedStep DEF BodyFailed
<1>12. CASE Failed
  BY <1>1, <1>6, <1>12, FailedStep DEF Failed
<1>13. CASE RetryExpired
  <2>1. Passed("retry", "resolve") /\ SameConnects /\ UNCHANGED <<connected, running, expired>>
    BY <1>1, <1>13, RetryExpiredStep DEF RetryExpired, Held
  <2> QED BY <1>1, <1>2, <1>5, <2>1, WaitKeepsThread
<1>14. CASE DeadlockCancelled
  <2>1. SameLinks /\ SameConnects /\ UNCHANGED <<socket, connected, running, expired>>
    BY <1>1, <1>14, DeadlockCancelledStep DEF DeadlockCancelled
  <2>2. Up => Up'
    BY <2>1 DEF Up
  <2> QED BY <2>1, <2>2, StillKeepsThread
<1>15. CASE Resolve \/ Connect \/ Receive \/ Lose \/ ReadError \/ Expire \/ Tick
  <2>1. SameLinks /\ UNCHANGED <<connected, running, expired>>
    BY <1>1, <1>15, EnvironmentStep
  <2>2. (SameConnects /\ (Up => Up')) \/ Up'
    BY <1>1, <1>15, EnvironmentStep DEF Up
  <2> QED BY <2>1, <2>2, StillKeepsThread
<1> QED BY <1>3, <1>4, <1>7, <1>8, <1>9, <1>10, <1>11, <1>12, <1>13, <1>14, <1>15
        DEF Next, Handlers

LEMMA ThreadInit == Init => ThreadInv
<1> SUFFICES ASSUME Init PROVE ThreadInv
  OBVIOUS
<1>1. All(ops["length"]) = 0 /\ All(ops["body"]) = 0 /\ ops["connect"]["ok"] = 0
  BY Names DEF Init, All, Ready, Results
<1>2. running = connected /\ ~connected
  BY Zenon DEF Init
<1>3. ~(All(ops["length"]) + All(ops["body"]) > 0) /\ ~(ops["connect"]["ok"] > 0)
  BY <1>1
<1> QED BY <1>2, <1>3, Zenon DEF ThreadInv

\* Until the body timer has run out, however the network behaves, a message
\* thread runs exactly while the client is connected, and it has a socket.
THEOREM ThreadHasSocket == Spec => []ThreadNeedsSocket
<1>1. TypeOK /\ OneChainPerExpiry /\ ThreadInv => ThreadNeedsSocket
  BY Zenon DEF ThreadInv, ThreadNeedsSocket, Up
<1> QED BY <1>1, OpsTypeCorrect, ChainsCounted, ThreadInit, ThreadStep, PTL DEF Spec
===============================================================================
