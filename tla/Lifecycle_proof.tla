--------------------------- MODULE Lifecycle_proof ---------------------------
(* Theorems about Lifecycle, for every value of its constants: any number of *)
(* lives, connections and telegrams, and whatever the callbacks may do.      *)
EXTENDS Lifecycle, TLAPS

-----------------------------------------------------------------------------
(* Types: the values of the flags and the counts.                            *)

LEMMA FlagsStep == ASSUME FlagsOK, Next PROVE FlagsOK'
<1> USE DEF FlagsOK, Running, Steady, Fail, flags, holders, telegrams, observer
<1>1. CASE Over
  BY <1>1 DEF Over, vars
<1>2. CASE Running(Call)
  <2>1. CASE SendTelegram \/ WaitOnIdle
    BY <2>1 DEF SendTelegram, WaitOnIdle
  <2>3. CASE Start
    <3>1. CASE workerJoinable
      BY <2>3, <3>1 DEF Start
    <3>2. CASE ~workerJoinable
      BY <2>3, <3>2 DEF Start
    <3> QED
      BY <3>1, <3>2
  <2>2. CASE Stop \/ Destroy
    BY <2>2 DEF Stop, Destroy, BeginStop
  <2> QED
    BY <1>2, <2>1, <2>2, <2>3 DEF Call
<1>3. ASSUME NEW t \in Threads, StopSteps(t) \/ Idle(t) PROVE FlagsOK'
  <2>1. CASE Idle(t)
    BY <2>1 DEF Idle, IdleLoop, IdleConnected, IdleEmpty, IdleHandled
  <2>2. CASE SmtEnter(t) \/ SmtStop(t) \/ SmtJoined(t)
    BY ZenonT(40), <2>2 DEF SmtEnter, SmtStop, SmtJoined
  <2>4. CASE SmtJoin(t)
    <3>1. UNCHANGED <<flags, holders, telegrams, observer>>
      BY <2>4, Zenon DEF SmtJoin
    <3> QED
      BY <3>1
  <2>3. CASE StopFlag(t) \/ StopContext(t)
    BY <2>3 DEF StopFlag, StopContext
  <2> QED
    BY <1>3, <2>1, <2>2, <2>3, <2>4 DEF StopSteps
<1>4. CASE Running(App)
  <2>1. CASE StopJoin \/ StopReturn
    <3>1. UNCHANGED <<flags, telegrams, observer>>
      BY <2>1, Zenon DEF StopJoin, StopReturn
    <3> QED
      BY <3>1
  <2> QED
    BY <1>3, <1>4, <2>1 DEF App, Threads
<1>5. CASE Running(Arrival)
  <2>1. CASE Connect \/ Close
    BY <2>1 DEF Connect, Close
  <2>2. CASE HandleResponse
    <3>1. UNCHANGED <<flags, current, handled, observer>>
      BY <2>2, Zenon DEF HandleResponse
    <3> QED
      BY <3>1
  <2> QED
    BY <1>5, <2>1, <2>2 DEF Arrival
<1>6. CASE Running(Worker)
  <2>1. CASE WorkerReturns \/ Greet \/ Connected \/ CloseSocket
    BY ZenonT(40), <2>1 DEF WorkerReturns, Greet, Connected, CloseSocket
  <2>4. CASE StartThread
    <3>1. CASE messageJoinable
      BY <2>4, <3>1 DEF StartThread
    <3>2. CASE ~messageJoinable
      <4>1. late' \in BOOLEAN
        BY <2>4, <3>2, Zenon DEF StartThread
      <4> QED
        BY <2>4, <3>2, <4>1 DEF StartThread
    <3> QED
      BY <3>1, <3>2
  <2>2. CASE CallbackReturns \/ CallbackWaits \/ CallbackThrows \/ CallbackSends
    BY <2>2 DEF CallbackReturns, CallbackWaits, CallbackThrows, CallbackSends
  <2>3. CASE CallbackStops \/ Finish \/ StopJoinsItself
    BY ZenonT(40), <2>3 DEF CallbackStops, BeginStop, Finish, StopJoinsItself
  <2> QED
    BY <1>3, <1>6, <2>1, <2>2, <2>3, <2>4 DEF Worker, Threads
<1>7. CASE Running(Message)
  <2>1. CASE Loop \/ Get \/ GetNothing
    BY ZenonT(40), <2>1 DEF Loop, Get, GetNothing
  <2>2. CASE Check
    BY <2>2 DEF Check
  <2>3. CASE WaitDone
    BY <2>3 DEF WaitDone
  <2>4. CASE Send
    <3>1. CASE ~open
      BY <2>4, <3>1 DEF Send
    <3>2. CASE open
      BY <2>4, <3>2 DEF Send
    <3> QED
      BY <3>1, <3>2
  <2> QED
    BY <1>7, <2>1, <2>2, <2>3, <2>4 DEF Message
<1> QED
  BY <1>1, <1>2, <1>4, <1>5, <1>6, <1>7 DEF Next

LEMMA SpendType ==
  ASSUME spare \in [Events -> Nat], NEW e \in Events, Spend(e)
  PROVE  spare' \in [Events -> Nat]
BY DEF Spend

LEMMA CountsStep == ASSUME FlagsOK, CountsOK, Next PROVE CountsOK'
<1> USE DEF CountsOK, FlagsOK, Running, Steady, Fail, telegrams, observer
<1>1. CASE Over
  BY <1>1 DEF Over, vars
<1>2. CASE Running(Call)
  <2>1. CASE Start
    <3>1. lives < MaxLives => lives + 1 \in 0..MaxLives
      BY BoundsAssumption
    <3>2. CASE workerJoinable
      BY <2>1, <3>2 DEF Start
    <3>3. CASE ~workerJoinable
      BY <2>1, <3>1, <3>3 DEF Start
    <3> QED
      BY <3>2, <3>3
  <2>2. CASE SendTelegram
    <3>1. spare' \in [Events -> Nat]
      BY <2>2, SpendType DEF SendTelegram, Events
    <3> QED
      BY <2>2, <3>1 DEF SendTelegram
  <2>3. CASE WaitOnIdle
    BY <2>3 DEF WaitOnIdle
  <2>4. CASE Stop \/ Destroy
    <3>1. queue + 1 \in Nat
      OBVIOUS
    <3> QED
      BY <2>4, <3>1 DEF Stop, Destroy, BeginStop
  <2> QED
    BY <1>2, <2>1, <2>2, <2>3, <2>4 DEF Call
<1>3. ASSUME NEW t \in Threads, StopSteps(t) \/ Idle(t) PROVE CountsOK'
  <2>1. CASE Idle(t)
    BY <2>1 DEF Idle, IdleLoop, IdleConnected, IdleEmpty, IdleHandled
  <2>2. CASE StopSteps(t)
    BY <2>2 DEF StopSteps, SmtEnter, SmtStop, SmtJoin, SmtJoined, StopFlag, StopContext
  <2> QED
    BY <1>3, <2>1, <2>2
<1>4. CASE Running(App)
  BY <1>3, <1>4 DEF App, Threads, StopJoin, StopReturn
<1>5. CASE Running(Arrival)
  <2>1. CASE Connect \/ Close
    <3>1. spare' \in [Events -> Nat]
      BY <2>1, SpendType DEF Connect, Close, Events
    <3> QED
      BY <2>1, <3>1 DEF Connect, Close
  <2>2. CASE HandleResponse
    <3>1. asked > 0
      BY <2>2, Zenon DEF HandleResponse
    <3>2. asked - 1 \in Nat
      BY <3>1
    <3>3. CASE ~current
      BY <2>2, <3>3 DEF HandleResponse
    <3>4. CASE current
      BY <2>2, <3>2, <3>4 DEF HandleResponse
    <3> QED
      BY <3>3, <3>4
  <2> QED
    BY <1>5, <2>1, <2>2 DEF Arrival
<1>6. CASE Running(Worker)
  <2>1. CASE WorkerReturns \/ Connected \/ CloseSocket
    BY <2>1 DEF WorkerReturns, Connected, CloseSocket
  <2>6. CASE StartThread
    <3>1. CASE messageJoinable
      BY <2>6, <3>1 DEF StartThread
    <3>2. CASE ~messageJoinable
      BY <2>6, <3>2 DEF StartThread
    <3> QED
      BY <3>1, <3>2
  <2>5. CASE Greet
    BY <2>5, BoundsAssumption DEF Greet
  <2>2. CASE CallbackReturns \/ CallbackWaits \/ CallbackThrows
    BY <2>2 DEF CallbackReturns, CallbackWaits, CallbackThrows
  <2>3. CASE CallbackSends
    <3>1. spare' \in [Events -> Nat]
      BY <2>3, SpendType DEF CallbackSends, Events
    <3> QED
      BY <2>3, <3>1 DEF CallbackSends
  <2>4. CASE CallbackStops \/ Finish \/ StopJoinsItself
    BY <2>4 DEF CallbackStops, BeginStop, Finish, StopJoinsItself
  <2> QED
    BY <1>3, <1>6, <2>1, <2>2, <2>3, <2>4, <2>5, <2>6 DEF Worker, Threads
<1>7. CASE Running(Message)
  <2>1. CASE Get
    <3>1. queue - 1 \in Nat
      BY <2>1 DEF Get
    <3> QED
      BY <2>1, <3>1 DEF Get
  <2>2. CASE Loop \/ GetNothing \/ Check \/ WaitDone
    BY <2>2 DEF Loop, GetNothing, Check, WaitDone
  <2>3. CASE Send
    <3>1. CASE ~open
      BY <2>3, <3>1 DEF Send
    <3>2. CASE open
      BY <2>3, <3>2 DEF Send
    <3> QED
      BY <3>1, <3>2
  <2> QED
    BY <1>7, <2>1, <2>2, <2>3 DEF Message
<1> QED
  BY <1>1, <1>2, <1>4, <1>5, <1>6, <1>7 DEF Next

-----------------------------------------------------------------------------
(* Places: where the threads stand, the objects that hold them, the socket.  *)

\* While the message thread exists there is a socket. It is opened before the
\* thread is started, and closed after StopMessageThread has joined it.
SocketOK ==
  /\ pc["message"] # "off" => open
  /\ pc["worker"] \in {"start", "close_socket"} => ~messageJoinable
  /\ pc["worker"] = "start" \/ (pc["worker"] \in SmtPcs /\ ret["worker"] = "start")
       => open
PlacesOK == PcOK /\ HoldersOK /\ SocketOK

\* Where a thread that moves leaves all three.
LEMMA PcMoved ==
  ASSUME PcOK, NEW t \in {"app", "worker", "message"}, NEW l, Goto(t, l)
  PROVE  /\ pc'["app"] = IF t = "app" THEN l ELSE pc["app"]
         /\ pc'["worker"] = IF t = "worker" THEN l ELSE pc["worker"]
         /\ pc'["message"] = IF t = "message" THEN l ELSE pc["message"]
         /\ \/ t = "app" /\ l \in AppPcs
            \/ t = "worker" /\ l \in WorkerPcs
            \/ t = "message" /\ l \in MessagePcs
            => pc' \in [app : AppPcs, worker : WorkerPcs, message : MessagePcs]
BY DEF PcOK, Goto

LEMMA Stays ==
  ASSUME PlacesOK, UNCHANGED <<holders, open, ret, pc>>, fault' = fault \/ fault' \in Faults
  PROVE  PlacesOK'
BY DEF PlacesOK, PcOK, HoldersOK, SocketOK, holders

LEMMA AppGoes ==
  ASSUME PlacesOK, NEW l \in AppPcs, Goto("app", l), UNCHANGED <<holders, open, ret, fault>>
  PROVE  PlacesOK'
BY PcMoved DEF PlacesOK, PcOK, HoldersOK, SocketOK, holders

\* The places of the worker that ask nothing of the socket or of the thread.
Working == WorkerPcs \ (SmtPcs \cup {"off", "start", "close_socket"})

LEMMA WorkerGoes ==
  ASSUME PlacesOK, pc["worker"] # "off", NEW l \in Working, Goto("worker", l),
         UNCHANGED <<holders, open, ret, fault>>
  PROVE  PlacesOK'
BY PcMoved DEF PlacesOK, PcOK, HoldersOK, SocketOK, holders, Working

LEMMA MessageGoes ==
  ASSUME PlacesOK, pc["message"] # "off", NEW l \in MessagePcs \ {"off"},
         Goto("message", l), UNCHANGED <<holders, open, ret, fault>>
  PROVE  PlacesOK'
BY PcMoved DEF PlacesOK, PcOK, HoldersOK, SocketOK, holders

\* Stop, for both threads that may call it.
LEMMA BeginStopPlaces ==
  ASSUME PlacesOK, NEW t \in Threads, NEW leave, BeginStop(t, leave),
         \/ t = "app"
         \/ t = "worker" /\ pc["worker"] = "callback"
  PROVE  PlacesOK'
<1> USE DEF PlacesOK, BeginStop, holders, flags, Threads
<1>1. PICK l \in {"smt_enter", "stop_return"} :
        Goto(t, l) /\ (l = "stop_return" => ~workerJoinable)
  OBVIOUS
<1>2. CASE t = "app"
  <2>1. ret' = ret
    BY <1>2 DEF PcOK
  <2> QED
    BY <1>1, <1>2, <2>1, AppGoes DEF AppPcs, StopPcs, SmtPcs
<1>3. CASE t = "worker"
  <2>1. workerJoinable /\ l = "smt_enter" /\ ret' = [ret EXCEPT !["worker"] = "stop_flag"]
    BY <1>1, <1>3 DEF HoldersOK
  <2>2. /\ pc' \in [app : AppPcs, worker : WorkerPcs, message : MessagePcs]
        /\ pc'["worker"] = "smt_enter" /\ pc'["message"] = pc["message"]
    BY <1>1, <1>3, <2>1, PcMoved DEF WorkerPcs, StopPcs, SmtPcs
  <2> QED
    BY <1>3, <2>1, <2>2 DEF PcOK, HoldersOK, SocketOK, SmtPcs
<1> QED
  BY <1>2, <1>3

\* StopMessageThread and the rest of Stop, for both threads.
LEMMA StopStepsPlaces ==
  ASSUME PlacesOK, NEW t \in Threads, StopSteps(t)
  PROVE  PlacesOK'
<1> USE DEF Threads, Steady, Move, flags, holders
<1>1. ASSUME pc[t] \in SmtPcs, NEW l \in SmtPcs, Goto(t, l),
             UNCHANGED <<holders, open, ret, fault>>
      PROVE  PlacesOK'
  <2>1. CASE t = "app"
    BY <1>1, <2>1, AppGoes DEF AppPcs, StopPcs
  <2>2. CASE t = "worker"
    BY <1>1, <2>2, PcMoved DEF PlacesOK, PcOK, HoldersOK, SocketOK, WorkerPcs, StopPcs, SmtPcs
  <2> QED
    BY <2>1, <2>2
<1>2. ASSUME pc[t] \in SmtPcs, ~messageJoinable, Goto(t, ret[t]),
             UNCHANGED <<holders, open, ret, fault>>
      PROVE  PlacesOK'
  <2>1. CASE t = "app"
    BY <1>2, <2>1, AppGoes DEF AppPcs, StopPcs, PlacesOK, PcOK
  <2>2. CASE t = "worker"
    <3>1. ret["worker"] \in {"stop_flag", "start", "close_socket"}
      BY DEF PlacesOK, PcOK
    <3>2. /\ pc' \in [app : AppPcs, worker : WorkerPcs, message : MessagePcs]
          /\ pc'["worker"] = ret["worker"] /\ pc'["message"] = pc["message"]
      BY <1>2, <2>2, <3>1, PcMoved DEF WorkerPcs, StopPcs, PlacesOK
    <3> QED
      BY <1>2, <2>2, <3>1, <3>2 DEF PlacesOK, PcOK, HoldersOK, SocketOK, SmtPcs
  <2> QED
    BY <2>1, <2>2
<1>3. CASE SmtEnter(t)
  BY <1>1, <1>2, <1>3 DEF SmtEnter, SmtPcs
<1>4. CASE SmtStop(t)
  BY <1>1, <1>4 DEF SmtStop, SmtPcs
<1>5. CASE SmtJoin(t)
  <2>1. CASE \E o \in Threads \ {t} : pc[o] = "smt_joining"
    BY <1>5, <2>1, Stays DEF SmtJoin, Fail, Faults
  <2>2. CASE ~\E o \in Threads \ {t} : pc[o] = "smt_joining"
    BY <1>1, <1>2, <1>5, <2>2 DEF SmtJoin, SmtPcs
  <2> QED
    BY <2>1, <2>2
<1>6. CASE SmtJoined(t)
  <2>1. ret[t] \in {"stop_flag", "start", "close_socket"}
    BY DEF PlacesOK, PcOK
  <2>2. /\ pc' \in [app : AppPcs, worker : WorkerPcs, message : MessagePcs]
        /\ pc'["message"] = "off" /\ pc'[t] = ret[t]
        /\ t = "app" => pc'["worker"] = pc["worker"]
    BY <1>6, <2>1 DEF SmtJoined, PlacesOK, PcOK, AppPcs, WorkerPcs, MessagePcs, StopPcs
  <2> QED
    BY <1>6, <2>1, <2>2 DEF SmtJoined, PlacesOK, PcOK, HoldersOK, SocketOK, SmtPcs
<1>7. ASSUME pc[t] \in StopPcs, NEW l \in {"stop_context", "stop_join"}, Goto(t, l),
             UNCHANGED <<holders, open, ret, fault>>
      PROVE  PlacesOK'
  <2>1. CASE t = "app"
    BY <1>7, <2>1, AppGoes DEF AppPcs, StopPcs
  <2>2. CASE t = "worker"
    BY <1>7, <2>2, WorkerGoes DEF Working, WorkerPcs, StopPcs, SmtPcs
  <2> QED
    BY <2>1, <2>2
<1>8. CASE StopFlag(t) \/ StopContext(t)
  BY <1>7, <1>8 DEF StopFlag, StopContext, StopPcs
<1> QED
  BY <1>3, <1>4, <1>5, <1>6, <1>8 DEF StopSteps

LEMMA IdlePlaces ==
  ASSUME PlacesOK, NEW t \in Threads, Idle(t)
  PROVE  PlacesOK'
<1>1. PICK l \in IdlePcs \cup {WaitReturns(t)} : pc[t] \in IdlePcs /\ Goto(t, l) /\ Steady
  BY DEF Idle, IdleLoop, IdleConnected, IdleEmpty, IdleHandled, IdlePcs
<1>2. CASE t = "app"
  BY <1>1, <1>2, AppGoes DEF WaitReturns, AppPcs, Steady, flags
<1>3. CASE t = "worker"
  BY <1>1, <1>3, WorkerGoes DEF WaitReturns, WorkerPcs, Working, IdlePcs, SmtPcs, Steady, flags
<1> QED
  BY <1>2, <1>3 DEF Threads

LEMMA PlacesStep == ASSUME PlacesOK, Next PROVE PlacesOK'
<1> USE DEF Running, Steady, Move, flags, holders
<1>1. CASE Over
  BY <1>1, Stays DEF Over, vars
<1>2. CASE Running(Call)
  <2>1. CASE Start
    <3>1. CASE workerJoinable
      BY <2>1, <3>1, Stays DEF Start, Fail, Faults
    <3>2. CASE ~workerJoinable
      <4>1. /\ pc' \in [app : AppPcs, worker : WorkerPcs, message : MessagePcs]
            /\ pc'["worker"] = "run" /\ pc'["message"] = pc["message"]
        BY <2>1, <3>2, PcMoved DEF Start, PlacesOK, WorkerPcs
      <4>2. workerJoinable' = TRUE /\ UNCHANGED <<messageJoinable, open, ret, fault>>
        BY <2>1, <3>2 DEF Start
      <4> QED
        BY <4>1, <4>2 DEF PlacesOK, PcOK, HoldersOK, SocketOK, SmtPcs
    <3> QED
      BY <3>1, <3>2
  <2>2. CASE SendTelegram
    BY <2>2, Stays DEF SendTelegram
  <2>3. CASE WaitOnIdle
    BY <2>3, AppGoes DEF WaitOnIdle, AppPcs, IdlePcs
  <2>4. CASE Stop \/ Destroy
    BY <2>4, BeginStopPlaces DEF Stop, Destroy, Threads
  <2> QED
    BY <1>2, <2>1, <2>2, <2>3, <2>4 DEF Call
<1>3. CASE Running(App)
  <2>1. CASE StopJoin
    <3>1. /\ pc' \in [app : AppPcs, worker : WorkerPcs, message : MessagePcs]
          /\ pc'["worker"] = "off" /\ pc'["message"] = pc["message"]
      BY <2>1 DEF StopJoin, PlacesOK, PcOK, AppPcs, WorkerPcs
    <3>2. workerJoinable' = FALSE /\ UNCHANGED <<messageJoinable, open, ret, fault>>
      BY <2>1 DEF StopJoin
    <3> QED
      BY <3>1, <3>2 DEF PlacesOK, PcOK, HoldersOK, SocketOK, SmtPcs
  <2>2. CASE StopReturn
    <3>1. CASE leaving /\ messageJoinable
      BY <2>2, <3>1, Stays DEF StopReturn, Fail, Faults
    <3>2. CASE ~(leaving /\ messageJoinable)
      BY <2>2, <3>2, AppGoes DEF StopReturn, AppPcs
    <3> QED
      BY <3>1, <3>2
  <2> QED
    BY <1>3, <2>1, <2>2, StopStepsPlaces, IdlePlaces DEF App, Threads
<1>4. CASE Running(Arrival)
  <2>1. CASE Connect \/ Close
    <3>1. /\ pc' \in [app : AppPcs, worker : WorkerPcs, message : MessagePcs]
          /\ pc["worker"] = "run" /\ pc'["worker"] = "smt_enter"
          /\ pc'["message"] = pc["message"]
      BY <2>1, PcMoved DEF Connect, Close, PlacesOK, WorkerPcs, StopPcs, SmtPcs
    <3>2. \/ ret' = [ret EXCEPT !["worker"] = "start"] /\ open' = TRUE
          \/ ret' = [ret EXCEPT !["worker"] = "close_socket"] /\ open' = open
      BY <2>1, Zenon DEF Connect, Close
    <3>3. UNCHANGED <<holders, fault>>
      BY <2>1 DEF Connect, Close
    <3> QED
      BY <3>1, <3>2, <3>3 DEF PlacesOK, PcOK, HoldersOK, SocketOK, Threads, SmtPcs
  <2>2. CASE HandleResponse
    <3>1. CASE ~current
      BY <2>2, <3>1, Stays DEF HandleResponse, Fail, Faults
    <3>2. CASE current
      BY <2>2, <3>2, WorkerGoes DEF HandleResponse, Working, WorkerPcs, StopPcs, SmtPcs, IdlePcs
    <3> QED
      BY <3>1, <3>2
  <2> QED
    BY <1>4, <2>1, <2>2 DEF Arrival
<1>5. CASE Running(Worker)
  <2>1. CASE StartThread
    <3>1. ~messageJoinable /\ open
      BY <2>1 DEF StartThread, PlacesOK, SocketOK
    <3>2. /\ pc' \in [app : AppPcs, worker : WorkerPcs, message : MessagePcs]
          /\ pc["worker"] = "start" /\ pc'["worker"] = "greet" /\ pc'["message"] = "loop"
      BY <2>1, <3>1 DEF StartThread, PlacesOK, PcOK, WorkerPcs, MessagePcs
    <3>3. messageJoinable' = TRUE /\ UNCHANGED <<workerJoinable, open, ret, fault>>
      BY <2>1, <3>1 DEF StartThread
    <3> QED
      BY <3>1, <3>2, <3>3 DEF PlacesOK, PcOK, HoldersOK, SocketOK, SmtPcs
  <2>2. CASE CloseSocket
    <3>1. ~messageJoinable
      BY <2>2 DEF CloseSocket, PlacesOK, SocketOK
    <3>2. /\ pc' \in [app : AppPcs, worker : WorkerPcs, message : MessagePcs]
          /\ pc["worker"] = "close_socket" /\ pc'["worker"] = "run"
          /\ pc'["message"] = pc["message"]
      BY <2>2, PcMoved DEF CloseSocket, PlacesOK, WorkerPcs
    <3> QED
      BY <2>2, <3>1, <3>2 DEF CloseSocket, PlacesOK, PcOK, HoldersOK, SocketOK, SmtPcs
  <2>3. CASE CallbackStops
    BY <2>3, BeginStopPlaces DEF CallbackStops, Threads
  <2>4. ASSUME pc["worker"] # "off", Goto("worker", "run") \/ Goto("worker", "connected")
                 \/ Goto("worker", "over") \/ Goto("worker", "finish")
                 \/ Goto("worker", "idle_loop"),
               UNCHANGED <<holders, open, ret, fault>>
        PROVE  PlacesOK'
    BY <2>4, WorkerGoes DEF Working, WorkerPcs, StopPcs, SmtPcs, IdlePcs
  <2>5. CASE WorkerReturns \/ Greet \/ Connected \/ StopJoinsItself \/ Finish
    BY <2>4, <2>5 DEF WorkerReturns, Greet, Connected, StopJoinsItself, Finish
  <2>6. CASE CallbackReturns \/ CallbackWaits \/ CallbackThrows \/ CallbackSends
    BY <2>4, <2>6 DEF CallbackReturns, CallbackWaits, CallbackThrows, CallbackSends
  <2> QED
    BY <1>5, <2>1, <2>2, <2>3, <2>5, <2>6, StopStepsPlaces, IdlePlaces DEF Worker, Threads
<1>6. CASE Running(Message)
  <2>1. CASE Send
    <3>1. open
      BY <2>1 DEF Send, PlacesOK, SocketOK
    <3> QED
      BY <2>1, <3>1, MessageGoes DEF Send, MessagePcs
  <2>2. CASE Loop \/ Get \/ GetNothing
    BY <2>2, MessageGoes DEF Loop, Get, GetNothing, MessagePcs
  <2>3. CASE Check \/ WaitDone
    BY <2>3, MessageGoes DEF Check, WaitDone, MessagePcs
  <2> QED
    BY <1>6, <2>1, <2>2, <2>3 DEF Message
<1> QED
  BY <1>1, <1>2, <1>3, <1>4, <1>5, <1>6 DEF Next

\* Whatever the order of Start, Stop, the destructor, connections and callbacks,
\* the std::thread objects hold the threads there are, no running message
\* thread is overwritten and none lacks its socket.
TypeInv == TypeOK /\ SocketOK
THEOREM TypeInvariant == Spec => []TypeInv
<1> USE DEF TypeInv, TypeOK
<1>1. Init => TypeInv
  <2> SUFFICES ASSUME Init PROVE TypeInv
    OBVIOUS
  <2> USE DEF Init
  <2>1. FlagsOK
    BY DEF FlagsOK
  <2>2. CountsOK
    BY BoundsAssumption DEF CountsOK
  <2>3. PcOK
    BY DEF PcOK, AppPcs, WorkerPcs, MessagePcs, Threads, Faults
  <2>4. HoldersOK /\ SocketOK
    BY DEF HoldersOK, SocketOK, SmtPcs
  <2> QED
    BY <2>1, <2>2, <2>3, <2>4
<1>2. TypeInv /\ [Next]_vars => TypeInv'
  <2>1. ASSUME TypeInv, Next PROVE TypeInv'
    BY <2>1, FlagsStep, CountsStep, PlacesStep DEF PlacesOK
  <2>2. ASSUME TypeInv, UNCHANGED vars PROVE TypeInv'
    <3> USE <2>2 DEF vars, flags, holders, telegrams, observer
    <3>1. FlagsOK'
      BY DEF FlagsOK
    <3>2. CountsOK'
      BY DEF CountsOK
    <3>3. PlacesOK'
      BY Stays DEF PlacesOK
    <3> QED
      BY <3>1, <3>2, <3>3 DEF PlacesOK
  <2> QED
    BY <2>1, <2>2
<1> QED
  BY <1>1, <1>2, PTL DEF Spec

\* The part of it that the runs check.
THEOREM TypeCorrect == Spec => []TypeOK
<1>1. TypeInv => TypeOK
  BY DEF TypeInv
<1> QED
  BY <1>1, TypeInvariant, PTL

-----------------------------------------------------------------------------
(* Orphans: a message thread that outlives Stop.                             *)

\* From the join of the message thread to the end of Stop, a message thread
\* there is must have been started since; and Stop ends without a worker.
OrphanInv ==
  /\ OrphanNeedsRace
  /\ pc["app"] \in {"stop_flag", "stop_context", "stop_join"} /\ messageJoinable => late
  /\ pc["app"] = "stop_return" => ~workerJoinable

LEMMA OrphanKept ==
  ASSUME OrphanInv, workerJoinable' = workerJoinable, messageJoinable' = messageJoinable,
         late' = late, fault' = fault \/ fault' # "message thread destroyed",
         \/ pc'["app"] = pc["app"]
         \/ pc'["app"] \notin {"stop_flag", "stop_context", "stop_join", "stop_return"}
         \/ pc["app"] \in {"stop_flag", "stop_context"} /\ pc'["app"] # "stop_return"
  PROVE  OrphanInv'
BY DEF OrphanInv, OrphanNeedsRace, holders

LEMMA OrphanStops ==
  ASSUME PlacesOK, OrphanInv, NEW t \in Threads, StopSteps(t)
  PROVE  OrphanInv'
<1> USE DEF Threads, Steady, Move, flags, holders, observer
<1>1. /\ PcOK
      /\ ret["app"] = "stop_flag"
  BY DEF PlacesOK, PcOK
<1>2. CASE SmtEnter(t)
  <2>1. PICK l : Goto(t, l) /\ (messageJoinable => l = "smt_wait")
                 /\ (t = "app" => l \in {"smt_wait", "stop_flag"})
    BY <1>1, <1>2 DEF SmtEnter
  <2> QED
    BY <1>1, <1>2, <2>1, PcMoved DEF SmtEnter, OrphanInv, OrphanNeedsRace
<1>3. CASE SmtStop(t)
  BY <1>1, <1>3, PcMoved, OrphanKept DEF SmtStop
<1>4. CASE SmtJoin(t)
  <2>1. CASE \E o \in Threads \ {t} : pc[o] = "smt_joining"
    BY <1>4, <2>1, OrphanKept DEF SmtJoin, Fail
  <2>2. CASE ~\E o \in Threads \ {t} : pc[o] = "smt_joining"
    <3>1. PICK l : Goto(t, l) /\ (messageJoinable => l = "smt_joining")
                   /\ (t = "app" => l \in {"smt_joining", "stop_flag"})
      BY <1>1, <1>4, <2>2 DEF SmtJoin
    <3> QED
      BY <1>1, <1>4, <2>2, <3>1, PcMoved DEF SmtJoin, OrphanInv, OrphanNeedsRace
  <2> QED
    BY <2>1, <2>2
<1>5. CASE SmtJoined(t)
  <2>1. pc'["app"] = IF t = "app" THEN "stop_flag" ELSE pc["app"]
    BY <1>1, <1>5 DEF SmtJoined, PcOK
  <2>2. messageJoinable' = FALSE /\ UNCHANGED <<workerJoinable, late, fault>>
    BY <1>5 DEF SmtJoined
  <2> QED
    BY <2>1, <2>2 DEF OrphanInv, OrphanNeedsRace
<1>6. CASE StopFlag(t) \/ StopContext(t)
  <2>1. PICK l \in {"stop_context", "stop_join"} :
          Goto(t, l) /\ pc[t] \in {"stop_flag", "stop_context"}
    BY <1>6 DEF StopFlag, StopContext
  <2>2. UNCHANGED <<holders, late, fault>>
    BY <1>6 DEF StopFlag, StopContext
  <2> QED
    BY <1>1, <2>1, <2>2, PcMoved, OrphanKept
<1> QED
  BY <1>2, <1>3, <1>4, <1>5, <1>6 DEF StopSteps

LEMMA OrphanStep == ASSUME PlacesOK, FlagsOK, OrphanInv, Next PROVE OrphanInv'
<1> USE DEF Running, Steady, Move, flags, holders, observer
<1>1. PcOK /\ (workerJoinable <=> pc["worker"] # "off")
  BY DEF PlacesOK, HoldersOK
<1>2. CASE Over
  BY <1>2, OrphanKept DEF Over, vars
<1>3. ASSUME NEW t \in Threads, NEW leave, BeginStop(t, leave),
             fault = "none", t = "app" \/ pc["worker"] = "callback"
      PROVE  OrphanInv'
  <2>1. CASE t = "app" /\ workerJoinable
    <3>1. pc'["app"] = "smt_enter" /\ UNCHANGED <<holders, fault>>
      BY <1>1, <1>3, <2>1, PcMoved DEF BeginStop
    <3> QED
      BY <1>3, <2>1, <3>1 DEF OrphanInv, OrphanNeedsRace
  <2>2. CASE t = "app" /\ ~workerJoinable
    <3>1. pc'["app"] = "stop_return" /\ UNCHANGED <<holders, fault, late>>
      BY <1>1, <1>3, <2>2, PcMoved DEF BeginStop
    <3> QED
      BY <2>2, <3>1 DEF OrphanInv, OrphanNeedsRace
  <2>3. CASE t = "worker"
    <3>1. pc'["app"] = pc["app"] /\ UNCHANGED <<holders, fault, late>>
      BY <1>1, <1>3, <2>3, PcMoved DEF BeginStop
    <3> QED
      BY <3>1, OrphanKept
  <2> QED
    BY <2>1, <2>2, <2>3 DEF Threads
<1>4. CASE Running(Call)
  <2>1. CASE Start
    <3>1. CASE workerJoinable
      BY <2>1, <3>1, OrphanKept DEF Start, Fail
    <3>2. CASE ~workerJoinable
      <4>1. pc["app"] = "ready" /\ pc'["app"] = "ready"
        BY <1>1, <2>1, <3>2, PcMoved DEF Start
      <4> QED
        BY <2>1, <3>2, <4>1 DEF Start, OrphanInv, OrphanNeedsRace
    <3> QED
      BY <3>1, <3>2
  <2>2. CASE SendTelegram
    BY <2>2, OrphanKept DEF SendTelegram
  <2>3. CASE WaitOnIdle
    BY <1>1, <2>3, PcMoved, OrphanKept DEF WaitOnIdle
  <2>4. CASE Stop \/ Destroy
    BY <1>3, <1>4, <2>4 DEF Stop, Destroy, Threads
  <2> QED
    BY <1>4, <2>1, <2>2, <2>3, <2>4 DEF Call
<1>5. ASSUME NEW t \in Threads, Idle(t) PROVE OrphanInv'
  <2>1. PICK l \in IdlePcs \cup {WaitReturns(t)} : Goto(t, l) /\ Steady
    BY <1>5 DEF Idle, IdleLoop, IdleConnected, IdleEmpty, IdleHandled, IdlePcs
  <2>2. pc'["app"] = pc["app"] \/ pc'["app"] \in IdlePcs \cup {"ready"}
    BY <1>1, <2>1, PcMoved DEF Threads, WaitReturns
  <2> QED
    BY <2>1, <2>2, OrphanKept DEF IdlePcs
<1>6. CASE Running(App)
  <2>1. CASE StopJoin
    <3>1. pc["app"] = "stop_join" /\ pc'["app"] = "stop_return"
      BY <1>1, <2>1 DEF StopJoin, PcOK
    <3> QED
      BY <2>1, <3>1 DEF StopJoin, OrphanInv, OrphanNeedsRace
  <2>2. CASE StopReturn
    <3>1. CASE leaving /\ messageJoinable
      BY <2>2, <3>1 DEF StopReturn, Fail, OrphanInv, OrphanNeedsRace
    <3>2. CASE ~(leaving /\ messageJoinable)
      <4>1. PICK l \in {"gone", "ready"} : Goto("app", l)
        BY <2>2, <3>2 DEF StopReturn
      <4>2. UNCHANGED <<holders, late, fault>>
        BY <2>2, <3>2 DEF StopReturn
      <4> QED
        BY <1>1, <4>1, <4>2, PcMoved, OrphanKept
    <3> QED
      BY <3>1, <3>2
  <2> QED
    BY <1>5, <1>6, <2>1, <2>2, OrphanStops DEF App, Threads
<1>7. ASSUME NEW t \in {"worker", "message"}, NEW l, Goto(t, l),
             UNCHANGED <<holders, late, fault>>
      PROVE  OrphanInv'
  BY <1>1, <1>7, PcMoved, OrphanKept
<1>8. CASE Running(Arrival)
  <2>1. CASE HandleResponse
    <3>1. CASE ~current
      BY <2>1, <3>1, OrphanKept DEF HandleResponse, Fail
    <3>2. CASE current
      BY <1>7, <2>1, <3>2 DEF HandleResponse
    <3> QED
      BY <3>1, <3>2
  <2> QED
    BY <1>7, <1>8, <2>1 DEF Arrival, Connect, Close
<1>9. CASE Running(Worker)
  <2>1. CASE StartThread
    <3>1. CASE messageJoinable
      BY <2>1, <3>1, OrphanKept DEF StartThread, Fail
    <3>2. CASE ~messageJoinable
      <4>1. pc'["app"] = pc["app"] /\ workerJoinable /\ pc["app"] # "stop_return"
        BY <1>1, <2>1, <3>2 DEF StartThread, PcOK, OrphanInv
      <4>2. UNCHANGED <<workerJoinable, fault>>
        BY <2>1, <3>2 DEF StartThread
      <4>3. late' = (late \/ pc["app"] \in StopPcs)
        BY <2>1, <3>2 DEF StartThread
      <4>4. pc["app"] \in {"stop_flag", "stop_context", "stop_join"} => pc["app"] \in StopPcs
        BY DEF StopPcs
      <4> QED
        BY <4>1, <4>2, <4>3, <4>4, Zenon DEF OrphanInv, OrphanNeedsRace
    <3> QED
      BY <3>1, <3>2
  <2>2. CASE CallbackStops
    BY <1>3, <1>9, <2>2 DEF CallbackStops, Threads
  <2>3. CASE WorkerReturns \/ Greet \/ Connected \/ CloseSocket \/ StopJoinsItself \/ Finish
    BY <1>7, <2>3 DEF WorkerReturns, Greet, Connected, CloseSocket, StopJoinsItself, Finish
  <2>4. CASE CallbackReturns \/ CallbackWaits \/ CallbackThrows \/ CallbackSends
    BY <1>7, <2>4 DEF CallbackReturns, CallbackWaits, CallbackThrows, CallbackSends
  <2> QED
    BY <1>5, <1>9, <2>1, <2>2, <2>3, <2>4, OrphanStops DEF Worker, Threads
<1>10. CASE Running(Message)
  <2>1. CASE Send
    <3>1. CASE ~open
      BY <2>1, <3>1, OrphanKept DEF Send, Fail
    <3>2. CASE open
      BY <1>7, <2>1, <3>2 DEF Send
    <3> QED
      BY <3>1, <3>2
  <2>2. CASE Loop \/ Get \/ GetNothing \/ Check \/ WaitDone
    BY <1>7, <2>2 DEF Loop, Get, GetNothing, Check, WaitDone
  <2> QED
    BY <1>10, <2>1, <2>2 DEF Message
<1> QED
  BY <1>2, <1>4, <1>6, <1>8, <1>9, <1>10 DEF Next

\* A message thread is left behind, and ends the program in the destructor, only
\* if the handler of a connection started it while Stop was under way.
THEOREM OrphanSafe == Spec => []OrphanNeedsRace
<1>1. Init => OrphanInv
  BY DEF Init, OrphanInv, OrphanNeedsRace
<1>2. TypeInv /\ OrphanInv /\ [Next]_vars => OrphanInv'
  <2>1. ASSUME TypeInv, OrphanInv, Next PROVE OrphanInv'
    BY <2>1, OrphanStep DEF TypeInv, TypeOK, PlacesOK
  <2>2. ASSUME TypeInv, OrphanInv, UNCHANGED vars PROVE OrphanInv'
    BY <2>2, OrphanKept DEF vars, holders, observer, TypeInv, TypeOK, PlacesOK
  <2> QED
    BY <2>1, <2>2
<1>3. OrphanInv => OrphanNeedsRace
  BY DEF OrphanInv
<1> QED
  BY <1>1, <1>2, <1>3, TypeInvariant, PTL DEF Spec

-----------------------------------------------------------------------------
(* The first life of a client: WaitOnIdle returns true only while a worker   *)
(* thread runs context_, for every order of calls, callbacks and losses:     *)
(* theorem FirstIdleServed.                                                  *)

-----------------------------------------------------------------------------
(* Requests and responses, until a telegram is given up.                     *)

\* The worker is in the callback of a telegram, or sets response_handled_ next.
Calls(place, back) ==
  \/ place \in IdlePcs \cup {"callback", "finish", "stop_flag", "stop_context", "stop_join"}
  \/ place \in SmtPcs /\ back = "stop_flag"
Calling == Calls(pc["worker"], ret["worker"])

\* The worker is about to start a message thread.
Starts(place, back) == place = "start" \/ (place \in SmtPcs /\ back = "start")
Starting == Starts(pc["worker"], ret["worker"])

\* The message thread waits for the response, or was told not to.
Owing == pc["message"] = "wait" \/ (stopMessage /\ pc["message"] \in {"loop", "over", "off"})

\* At most one request is unanswered or being handled, and response_handled_ is
\* not set before it has been handled. A new message thread starts without one.
AnswerInv ==
  /\ ~gaveUp =>
       /\ asked > 0 \/ Calling => ~handled /\ Owing
       /\ Calling \/ Starting => asked = 0
       /\ asked <= 1
       /\ pc["message"] = "send" => ~handled
  /\ Starting => pc["message"] = "off"

\* The worker goes from one place to another, and no telegram changes.
LEMMA WorkerWalks ==
  ASSUME PcOK, AnswerInv, NEW l, Goto("worker", l),
         UNCHANGED <<asked, handled, stopMessage, ret, gaveUp>>,
         Calls(l, ret["worker"]) => Calling, Starts(l, ret["worker"]) => Starting
  PROVE  AnswerInv'
<1>1. pc'["worker"] = l /\ pc'["message"] = pc["message"]
  BY PcMoved
<1>2. (Calling' => Calling) /\ (Starting' => Starting) /\ (Owing' <=> Owing)
  BY <1>1 DEF Calling, Starting, Owing
<1> QED
  BY <1>1, <1>2 DEF AnswerInv

\* The worker stays, and so do the telegrams.
LEMMA WorkerStays ==
  ASSUME AnswerInv, UNCHANGED <<asked, handled, gaveUp>>,
         pc'["worker"] = pc["worker"], ret'["worker"] = ret["worker"],
         stopMessage => stopMessage',
         \/ pc'["message"] = pc["message"]
         \/ pc["message"] \in {"over", "off"} /\ pc'["message"] = "off"
  PROVE  AnswerInv'
<1>1. (Calling' <=> Calling) /\ (Starting' <=> Starting) /\ (Owing => Owing')
  BY DEF Calling, Starting, Owing
<1> QED
  BY <1>1 DEF AnswerInv

\* StopMessageThread, in either thread.
LEMMA AnswerStops ==
  ASSUME PlacesOK, AnswerInv, NEW t \in Threads, StopSteps(t)
  PROVE  AnswerInv'
<1> USE DEF Steady, Move, flags, holders, telegrams, observer
<1>0. PcOK
  BY DEF PlacesOK
<1>1. ASSUME pc[t] \in StopPcs, NEW l, Goto(t, l), UNCHANGED <<asked, handled, ret, gaveUp>>,
             stopMessage => stopMessage',
             Calls(l, ret["worker"]) => Calls(pc[t], ret["worker"]),
             Starts(l, ret["worker"]) => Starts(pc[t], ret["worker"])
      PROVE  AnswerInv'
  <2>1. /\ pc'["message"] = pc["message"]
        /\ pc'["worker"] = IF t = "worker" THEN l ELSE pc["worker"]
    BY <1>0, <1>1, PcMoved DEF Threads
  <2>2. (Calling' => Calling) /\ (Starting' => Starting) /\ (Owing => Owing')
    BY <1>1, <2>1 DEF Calling, Starting, Owing, Threads
  <2> QED
    BY <1>1, <2>1, <2>2 DEF AnswerInv
<1>2. ret["worker"] \in {"stop_flag", "start", "close_socket"} /\ ret["app"] = "stop_flag"
  BY <1>0 DEF PcOK, Threads
<1>3. ASSUME pc[t] \in SmtPcs, t = "worker"
      PROVE  /\ Calls(ret[t], ret["worker"]) => Calls(pc[t], ret["worker"])
             /\ Starts(ret[t], ret["worker"]) => Starts(pc[t], ret["worker"])
  BY <1>2, <1>3 DEF Calls, Starts, SmtPcs, IdlePcs
<1>4. ASSUME pc[t] \in SmtPcs, NEW l \in SmtPcs
      PROVE  /\ Calls(l, ret["worker"]) => Calls(pc[t], ret["worker"])
             /\ Starts(l, ret["worker"]) => Starts(pc[t], ret["worker"])
  BY <1>4 DEF Calls, Starts, SmtPcs, IdlePcs
<1>5. ASSUME t = "app", NEW l, Goto(t, l), UNCHANGED <<asked, handled, ret, gaveUp>>,
             stopMessage => stopMessage'
      PROVE  AnswerInv'
  BY <1>0, <1>5, PcMoved, WorkerStays
<1>6. CASE SmtEnter(t) \/ (SmtJoin(t) /\ ~\E o \in Threads \ {t} : pc[o] = "smt_joining")
  <2>1. PICK l \in SmtPcs \cup {ret[t]} : Goto(t, l) /\ pc[t] \in SmtPcs /\ Steady
    BY <1>6 DEF SmtEnter, SmtJoin, SmtPcs
  <2> QED
    BY <1>1, <1>3, <1>4, <1>5, <2>1 DEF Threads, StopPcs
<1>7. CASE SmtJoin(t) /\ \E o \in Threads \ {t} : pc[o] = "smt_joining"
  BY <1>7, WorkerStays DEF SmtJoin, Fail
<1>8. CASE SmtStop(t)
  <2>1. pc[t] \in SmtPcs /\ Goto(t, "smt_join") /\ "smt_join" \in SmtPcs
    BY <1>8 DEF SmtStop, SmtPcs
  <2> QED
    BY <1>1, <1>4, <1>8, <2>1 DEF SmtStop, StopPcs
<1>9. CASE SmtJoined(t)
  <2>1. /\ pc["message"] = "over" /\ pc'["message"] = "off" /\ pc[t] \in SmtPcs
        /\ pc'["worker"] = IF t = "worker" THEN ret[t] ELSE pc["worker"]
        /\ UNCHANGED <<asked, handled, stopMessage, ret, gaveUp>>
    BY <1>0, <1>9 DEF SmtJoined, PcOK, Threads, SmtPcs
  <2>2. (Calling' => Calling) /\ (Starting' => Starting) /\ (Owing => Owing')
    BY <1>3, <2>1 DEF Calling, Starting, Owing, Threads
  <2> QED
    BY <2>1, <2>2 DEF AnswerInv
<1>10. CASE StopFlag(t) \/ StopContext(t)
  <2>1. PICK l \in {"stop_context", "stop_join"} :
          Goto(t, l) /\ pc[t] \in {"stop_flag", "stop_context"}
    BY <1>10 DEF StopFlag, StopContext
  <2>2. /\ Calls(l, ret["worker"]) => Calls(pc[t], ret["worker"])
        /\ Starts(l, ret["worker"]) => Starts(pc[t], ret["worker"])
    BY <2>1 DEF Calls, Starts, SmtPcs
  <2> QED
    BY <1>1, <1>10, <2>1, <2>2 DEF StopFlag, StopContext, StopPcs
<1> QED
  BY <1>6, <1>7, <1>8, <1>9, <1>10 DEF StopSteps

\* The application, StopMessageThread excepted.
LEMMA AnswerApp ==
  ASSUME PlacesOK, AnswerInv,
         Over \/ Running(Call) \/ Idle("app") \/ StopJoin \/ StopReturn
  PROVE  AnswerInv'
<1> USE DEF Steady, Move, flags, holders, telegrams, observer
<1>0. PcOK
  BY DEF PlacesOK
<1>1. ASSUME NEW l, Goto("app", l), UNCHANGED <<asked, handled, stopMessage, gaveUp>>,
             ret'["worker"] = ret["worker"]
      PROVE  AnswerInv'
  BY <1>0, <1>1, PcMoved, WorkerStays
<1>2. CASE Over \/ SendTelegram
  BY <1>2, WorkerStays DEF Over, vars, SendTelegram
<1>3. CASE WaitOnIdle \/ Idle("app")
  BY <1>1, <1>3 DEF WaitOnIdle, Idle, IdleLoop, IdleConnected, IdleEmpty, IdleHandled
<1>4. CASE Stop \/ Destroy
  <2>1. PICK l : /\ Goto("app", l) /\ UNCHANGED <<asked, handled, stopMessage, gaveUp>>
                 /\ ret' \in {ret, [ret EXCEPT !["app"] = "stop_flag"]}
    BY <1>4 DEF Stop, Destroy, BeginStop
  <2>2. ret'["worker"] = ret["worker"]
    BY <1>0, <2>1 DEF PcOK, Threads
  <2> QED
    BY <1>1, <2>1, <2>2
<1>5. CASE Start
  <2>1. CASE workerJoinable
    BY <1>5, <2>1, WorkerStays DEF Start, Fail
  <2>2. CASE ~workerJoinable
    BY <1>0, <1>5, <2>2, WorkerWalks DEF Start, Calls, Starts, IdlePcs, SmtPcs
  <2> QED
    BY <2>1, <2>2
<1>6. CASE StopJoin
  <2>1. /\ pc'["worker"] = "off" /\ pc'["message"] = pc["message"]
        /\ UNCHANGED <<asked, handled, stopMessage, ret, gaveUp>>
    BY <1>0, <1>6 DEF StopJoin, PcOK
  <2>2. ~Calling' /\ ~Starting' /\ (Owing' <=> Owing)
    BY <2>1 DEF Calling, Starting, Calls, Starts, IdlePcs, SmtPcs, Owing
  <2> QED
    BY <2>1, <2>2 DEF AnswerInv
<1>7. CASE StopReturn
  <2>1. CASE leaving /\ messageJoinable
    BY <1>7, <2>1, WorkerStays DEF StopReturn, Fail
  <2>2. CASE ~(leaving /\ messageJoinable)
    BY <1>1, <1>7, <2>2 DEF StopReturn
  <2> QED
    BY <2>1, <2>2
<1> QED
  BY <1>2, <1>3, <1>4, <1>5, <1>6, <1>7 DEF Running, Call

\* The worker, StopMessageThread excepted.
LEMMA AnswerWorker ==
  ASSUME TypeOK, SocketOK, AnswerInv,
         \/ Running(Arrival) \/ WorkerReturns \/ StartThread \/ Greet \/ Connected
         \/ CloseSocket \/ CallbackReturns \/ CallbackWaits \/ CallbackThrows
         \/ CallbackStops \/ CallbackSends \/ Finish \/ Idle("worker") \/ StopJoinsItself
  PROVE  AnswerInv'
<1> USE DEF Steady, Move, flags, holders, telegrams, observer
<1>0. /\ PcOK /\ asked \in Nat
      /\ workerJoinable = (pc["worker"] # "off") /\ messageJoinable = (pc["message"] # "off")
  BY DEF TypeOK, CountsOK, HoldersOK
<1>1. CASE Connect
  <2>1. /\ pc'["worker"] = "smt_enter" /\ ret'["worker"] = "start" /\ asked' = 0
        /\ pc["message"] = "off" /\ pc'["message"] = "off"
        /\ UNCHANGED <<handled, stopMessage, gaveUp>>
    <3>1. pc'["worker"] = "smt_enter" /\ pc'["message"] = pc["message"]
      BY <1>0, <1>1, PcMoved DEF Connect
    <3>2. ret'["worker"] = "start"
      BY <1>0, <1>1 DEF Connect, PcOK, Threads
    <3>3. pc["message"] = "off"
      BY <1>1 DEF Connect, SocketOK
    <3> QED
      BY <1>1, <3>1, <3>2, <3>3 DEF Connect
  <2>2. ~Calling' /\ Starting'
    BY <2>1 DEF Calling, Calls, Starting, Starts, IdlePcs, SmtPcs
  <2> QED
    BY <2>1, <2>2 DEF AnswerInv
<1>2. CASE Close
  <2>1. pc'["worker"] = "smt_enter" /\ pc'["message"] = pc["message"]
    BY <1>0, <1>2, PcMoved DEF Close
  <2>2. ret'["worker"] = "close_socket"
    BY <1>0, <1>2 DEF Close, PcOK, Threads
  <2>3. ~Calling' /\ ~Starting' /\ (Owing' <=> Owing)
    BY <1>2, <2>1, <2>2 DEF Close, Calling, Calls, Starting, Starts, IdlePcs, SmtPcs, Owing
  <2> QED
    BY <1>2, <2>1, <2>3 DEF Close, AnswerInv
<1>3. CASE HandleResponse
  <2>1. CASE ~current
    BY <1>3, <2>1, WorkerStays DEF HandleResponse, Fail
  <2>2. CASE current
    <3>1. /\ pc'["worker"] = "callback" /\ pc'["message"] = pc["message"]
      BY <1>0, <1>3, <2>2, PcMoved DEF HandleResponse
    <3>2. /\ asked > 0 /\ asked' = asked - 1
          /\ UNCHANGED <<handled, stopMessage, ret, gaveUp>>
      BY <1>3, <2>2 DEF HandleResponse
    <3>3. ~Starting' /\ (Owing' <=> Owing)
      BY <3>1, <3>2 DEF Starting, Starts, SmtPcs, Owing
    <3>4. ~gaveUp => asked' = 0 /\ ~handled /\ Owing
      BY <1>0, <3>2 DEF AnswerInv
    <3> QED
      BY <3>1, <3>2, <3>3, <3>4 DEF AnswerInv
  <2> QED
    BY <2>1, <2>2
<1>4. CASE StartThread
  <2>1. CASE messageJoinable
    BY <1>4, <2>1, WorkerStays DEF StartThread, Fail
  <2>2. CASE ~messageJoinable
    <3>1. pc["worker"] = "start" /\ pc'["worker"] = "greet" /\ pc'["message"] = "loop"
      BY <1>0, <1>4, <2>2 DEF StartThread, PcOK
    <3>2. Starting /\ ~Starting' /\ ~Calling'
      BY <3>1 DEF Calling, Calls, Starting, Starts, IdlePcs, SmtPcs
    <3>3. UNCHANGED <<asked, handled, gaveUp>>
      BY <1>4, <2>2 DEF StartThread
    <3> QED
      BY <3>1, <3>2, <3>3 DEF AnswerInv
  <2> QED
    BY <2>1, <2>2
<1>5. CASE CloseSocket
  <2>1. pc'["worker"] = "run" /\ pc'["message"] = pc["message"]
    BY <1>0, <1>5, PcMoved DEF CloseSocket
  <2>2. ~Calling' /\ ~Starting' /\ asked' = 0 /\ UNCHANGED <<handled, gaveUp>>
    BY <1>5, <2>1 DEF CloseSocket, Calling, Calls, Starting, Starts, IdlePcs, SmtPcs
  <2> QED
    BY <2>1, <2>2 DEF AnswerInv
<1>6. CASE WorkerReturns \/ Greet \/ Connected \/ CallbackThrows \/ StopJoinsItself
  <2>1. PICK l \in {"over", "connected", "run"} : Goto("worker", l)
    BY <1>6 DEF WorkerReturns, Greet, Connected, CallbackThrows, StopJoinsItself
  <2>2. UNCHANGED <<asked, handled, stopMessage, ret, gaveUp>>
    BY <1>6 DEF WorkerReturns, Greet, Connected, CallbackThrows, StopJoinsItself
  <2> QED
    BY <1>0, <2>1, <2>2, WorkerWalks DEF Calls, Starts, IdlePcs, SmtPcs
<1>7. CASE CallbackReturns \/ CallbackWaits \/ CallbackSends
  <2>1. PICK l \in {"finish", "idle_loop"} : Goto("worker", l) /\ pc["worker"] = "callback"
    BY <1>7 DEF CallbackReturns, CallbackWaits, CallbackSends
  <2>2. UNCHANGED <<asked, handled, stopMessage, ret, gaveUp>>
    BY <1>7 DEF CallbackReturns, CallbackWaits, CallbackSends
  <2>3. Calling /\ ~Starts(l, ret["worker"])
    BY <2>1 DEF Calling, Calls, Starts, SmtPcs
  <2> QED
    BY <1>0, <2>1, <2>2, <2>3, WorkerWalks
<1>8. CASE CallbackStops
  <2>1. pc["worker"] = "callback" /\ BeginStop("worker", leaving)
    BY <1>8 DEF CallbackStops
  <2>2. workerJoinable
    BY <1>0, <2>1
  <2>3. pc'["worker"] = "smt_enter" /\ pc'["message"] = pc["message"]
    BY <1>0, <2>1, <2>2, PcMoved DEF BeginStop
  <2>4. ret'["worker"] = "stop_flag" /\ UNCHANGED <<asked, handled, stopMessage, gaveUp>>
    BY <1>0, <2>1, <2>2 DEF BeginStop, PcOK, Threads
  <2>5. Calling /\ ~Starting' /\ (Owing' <=> Owing)
    BY <2>1, <2>3, <2>4 DEF Calling, Calls, Starting, Starts, SmtPcs, Owing
  <2> QED
    BY <2>3, <2>4, <2>5 DEF AnswerInv
<1>9. CASE Finish
  <2>1. pc["worker"] = "finish" /\ pc'["worker"] = "run" /\ pc'["message"] = pc["message"]
    BY <1>0, <1>9, PcMoved DEF Finish
  <2>2. Calling /\ ~Calling' /\ ~Starting' /\ UNCHANGED <<asked, gaveUp>>
    BY <1>9, <2>1 DEF Finish, Calling, Calls, Starting, Starts, IdlePcs, SmtPcs
  <2>3. ~gaveUp => asked = 0 /\ pc["message"] # "send"
    BY <2>2 DEF AnswerInv, Owing
  <2> QED
    BY <2>1, <2>2, <2>3 DEF AnswerInv
<1>10. CASE Idle("worker")
  <2>1. PICK l \in IdlePcs \cup {"finish"} :
          Goto("worker", l) /\ pc["worker"] \in IdlePcs /\ Steady
    BY <1>10 DEF Idle, IdleLoop, IdleConnected, IdleEmpty, IdleHandled, IdlePcs, WaitReturns
  <2>2. Calling /\ ~Starts(l, ret["worker"])
    BY <2>1 DEF Calling, Calls, Starts, SmtPcs, IdlePcs
  <2> QED
    BY <1>0, <2>1, <2>2, WorkerWalks
<1> QED
  BY <1>1, <1>2, <1>3, <1>4, <1>5, <1>6, <1>7, <1>8, <1>9, <1>10 DEF Running, Arrival

LEMMA AnswerMessage == ASSUME TypeOK, AnswerInv, Message PROVE AnswerInv'
<1> USE DEF Steady, Move, flags, holders, telegrams, observer
<1>0. /\ PcOK /\ FlagsOK /\ asked \in Nat
  BY DEF TypeOK, CountsOK
<1>1. CASE Send /\ ~open
  BY <1>1, WorkerStays DEF Send, Fail
<1>2. CASE ~(Send /\ ~open)
  <2>1. PICK l : Goto("message", l) /\ UNCHANGED <<ret, stopMessage>> /\ pc["message"] # "off"
    BY <1>2 DEF Message, Loop, Get, GetNothing, Check, Send, WaitDone
  <2>2. /\ pc'["message"] = l /\ pc'["worker"] = pc["worker"]
        /\ ~Starting /\ ~Starting' /\ (Calling' <=> Calling)
    BY <1>0, <2>1, PcMoved DEF AnswerInv, Calling, Starting
  <2>3. CASE Loop
    BY <2>2, <2>3, <1>0, PcMoved DEF Loop, AnswerInv, Owing
  <2>4. CASE Get \/ GetNothing
    BY <2>2, <2>4, <1>0, PcMoved DEF Get, GetNothing, AnswerInv, Owing
  <2>5. CASE Check
    BY <2>2, <2>5, <1>0, PcMoved DEF Check, AnswerInv, Owing, FlagsOK
  <2>6. CASE Send
    <3>1. pc'["message"] = "wait" /\ asked' = asked + 1 /\ UNCHANGED <<handled, gaveUp>>
      BY <1>0, <1>2, <2>6, PcMoved DEF Send
    <3>2. ~Owing /\ pc["message"] = "send"
      BY <2>6 DEF Send, Owing
    <3>3. ~gaveUp => ~(asked > 0) /\ ~Calling /\ ~handled
      BY <3>2 DEF AnswerInv
    <3>4. ~gaveUp => asked = 0 /\ ~Calling /\ ~handled
      BY <1>0, <3>3
    <3> QED
      BY <2>2, <3>1, <3>4 DEF AnswerInv, Owing
  <2>7. CASE WaitDone
    <3>1. /\ pc'["message"] = "loop" /\ UNCHANGED <<asked, handled, stopMessage>>
          /\ gaveUp' = (gaveUp \/ ~(handled \/ stopMessage))
      BY <1>0, <2>7, PcMoved DEF WaitDone
    <3>2. ~gaveUp' => ~gaveUp /\ (handled \/ stopMessage)
      BY <3>1
    <3> QED
      BY <2>2, <3>1, <3>2 DEF AnswerInv, Owing
  <2> QED
    BY <2>3, <2>4, <2>5, <2>6, <2>7 DEF Message
<1> QED
  BY <1>1, <1>2

LEMMA AnswerStep == ASSUME TypeOK, SocketOK, AnswerInv, Next PROVE AnswerInv'
<1>1. PlacesOK
  BY DEF PlacesOK, TypeOK
<1> QED
  BY <1>1, AnswerStops, AnswerApp, AnswerWorker, AnswerMessage
     DEF Next, App, Worker, Running, Threads

-----------------------------------------------------------------------------
(* How the first life ends.                                                  *)

\* In the first life stop_thread_ and the stop of context_ come from a Stop that
\* has not returned, from a callback that called Stop, or from one that has
\* joined the worker. A worker that has ended by itself has left
\* response_handled_ unset, and one that is joined has left stop_thread_ set.
EndInv ==
  /\ lives = 0 => ~stopped /\ pc["app"] = "ready" /\ pc["worker"] = "off"
  /\ lives <= 1 =>
       /\ stopThread \/ stopped =>
            \/ pc["worker"] \in {"stop_context", "stop_join", "off", "over"}
            \/ pc["app"] \in {"stop_context", "stop_join"}
       /\ pc["app"] \in {"stop_context", "stop_join"} => stopThread
       /\ pc["worker"] = "off" =>
            stopThread /\ pc["app"] \in {"ready", "idle_loop", "stop_return", "gone"}
       /\ pc["worker"] = "over" /\ ~gaveUp => pc["app"] \in StopPcs \/ ~handled

LEMMA EndStays ==
  ASSUME EndInv, UNCHANGED <<lives, stopThread, stopped>>, gaveUp => gaveUp',
         handled' => handled, pc'["app"] = pc["app"], pc'["worker"] = pc["worker"]
  PROVE  EndInv'
BY DEF EndInv

\* The application goes from one place to another.
LEMMA EndApp ==
  ASSUME EndInv, UNCHANGED <<lives, stopThread, stopped, handled, gaveUp>>, lives # 0,
         pc'["worker"] = pc["worker"],
         pc["app"] \notin {"stop_context", "stop_join"},
         pc'["app"] \notin {"stop_context", "stop_join"},
         pc["app"] \in StopPcs => pc'["app"] \in StopPcs,
         pc["worker"] = "off" => pc'["app"] \in {"ready", "idle_loop", "stop_return", "gone"}
  PROVE  EndInv'
BY DEF EndInv

\* The worker goes from one place to another.
LEMMA EndWorker ==
  ASSUME EndInv, UNCHANGED <<lives, stopThread, stopped, gaveUp>>,
         pc'["app"] = pc["app"], pc["worker"] \notin {"off", "over"},
         pc'["worker"] # "off",
         pc["worker"] \in {"stop_context", "stop_join"}
           => pc'["worker"] \in {"stop_context", "stop_join", "over"},
         pc'["worker"] = "over" => (~gaveUp => pc["app"] \in StopPcs \/ ~handled')
  PROVE  EndInv'
BY DEF EndInv

\* Stop in the application, from StopMessageThread on.
LEMMA EndAppStops ==
  ASSUME TypeOK, EndInv, StopSteps("app") \/ StopJoin
  PROVE  EndInv'
<1> USE DEF Steady, Move, flags, holders, telegrams, observer
<1>0. PcOK /\ ret["app"] = "stop_flag"
  BY DEF TypeOK, PcOK
<1>1. ASSUME pc["app"] \in StopPcs PROVE lives # 0 /\ (lives <= 1 => pc["worker"] # "off")
  BY <1>1 DEF EndInv, StopPcs, SmtPcs
<1>2. ASSUME pc["app"] \in SmtPcs, pc'["app"] \in SmtPcs \cup {"stop_flag"},
             pc'["worker"] = pc["worker"],
             UNCHANGED <<lives, stopThread, stopped, handled, gaveUp>>
      PROVE  EndInv'
  BY <1>1, <1>2 DEF EndInv, StopPcs, SmtPcs
<1>3. CASE SmtEnter("app") \/ SmtStop("app")
           \/ (SmtJoin("app") /\ ~\E o \in Threads \ {"app"} : pc[o] = "smt_joining")
  <2>1. PICK l \in SmtPcs \cup {"stop_flag"} :
          /\ Goto("app", l) /\ pc["app"] \in SmtPcs
          /\ UNCHANGED <<lives, stopThread, stopped, handled, gaveUp>>
    BY <1>0, <1>3 DEF SmtEnter, SmtStop, SmtJoin, SmtPcs
  <2> QED
    BY <1>0, <1>2, <2>1, PcMoved
<1>4. CASE SmtJoin("app") /\ \E o \in Threads \ {"app"} : pc[o] = "smt_joining"
  BY <1>4, EndStays DEF SmtJoin, Fail
<1>5. CASE SmtJoined("app")
  <2>1. pc'["app"] = "stop_flag" /\ pc'["worker"] = pc["worker"] /\ pc["app"] = "smt_joining"
    BY <1>0, <1>5 DEF SmtJoined, PcOK
  <2> QED
    BY <1>2, <1>5, <2>1 DEF SmtJoined, SmtPcs
<1>6. CASE StopFlag("app")
  <2>1. pc["app"] = "stop_flag" /\ pc'["app"] = "stop_context" /\ pc'["worker"] = pc["worker"]
    BY <1>0, <1>6, PcMoved DEF StopFlag
  <2> QED
    BY <1>1, <1>6, <2>1 DEF StopFlag, EndInv, StopPcs
<1>7. CASE StopContext("app")
  <2>1. pc["app"] = "stop_context" /\ pc'["app"] = "stop_join" /\ pc'["worker"] = pc["worker"]
    BY <1>0, <1>7, PcMoved DEF StopContext
  <2> QED
    BY <1>1, <1>7, <2>1 DEF StopContext, EndInv, StopPcs
<1>8. CASE StopJoin
  <2>1. pc["app"] = "stop_join" /\ pc'["app"] = "stop_return" /\ pc'["worker"] = "off"
    BY <1>0, <1>8 DEF StopJoin, PcOK
  <2> QED
    BY <1>1, <1>8, <2>1 DEF StopJoin, EndInv, StopPcs
<1> QED
  BY <1>3, <1>4, <1>5, <1>6, <1>7, <1>8 DEF StopSteps

\* The calls of the application, and the way out of them.
LEMMA EndAppCalls ==
  ASSUME TypeOK, EndInv, Over \/ Running(Call) \/ Idle("app") \/ StopReturn
  PROVE  EndInv'
<1> USE DEF Steady, Move, flags, holders, telegrams, observer
<1>0. /\ PcOK /\ workerJoinable = (pc["worker"] # "off") /\ lives \in Nat
  BY BoundsAssumption DEF TypeOK, HoldersOK, CountsOK
<1>1. CASE Over \/ SendTelegram
  BY <1>1, EndStays DEF Over, vars, SendTelegram
<1>2. CASE Start
  <2>1. CASE workerJoinable
    BY <1>2, <2>1, EndStays DEF Start, Fail
  <2>2. CASE ~workerJoinable
    <3>1. /\ pc'["app"] = pc["app"] /\ pc'["worker"] = "run" /\ pc["app"] = "ready"
          /\ lives' = lives + 1 /\ stopThread' = FALSE /\ stopped' = stopped
      BY <1>0, <1>2, <2>2, PcMoved DEF Start
    <3>2. lives' # 0 /\ (lives' <= 1 => lives = 0)
      BY <1>0, <3>1
    <3> QED
      BY <3>1, <3>2 DEF EndInv
  <2> QED
    BY <2>1, <2>2
<1>3. CASE WaitOnIdle
  BY <1>0, <1>3, PcMoved, EndApp DEF WaitOnIdle, StopPcs, SmtPcs
<1>4. CASE Stop \/ Destroy
  <2>1. /\ pc'["app"] = IF workerJoinable THEN "smt_enter" ELSE "stop_return"
        /\ pc'["worker"] = pc["worker"]
    BY <1>0, <1>4, PcMoved DEF Stop, Destroy, BeginStop
  <2>2. /\ pc["app"] = "ready" /\ lives > 0
        /\ UNCHANGED <<lives, stopThread, stopped, handled, gaveUp>>
    BY <1>4 DEF Stop, Destroy, BeginStop
  <2>3. lives # 0 /\ pc["app"] \notin StopPcs
    BY <1>0, <2>2 DEF StopPcs, SmtPcs
  <2>4. /\ pc'["app"] \notin {"stop_context", "stop_join"}
        /\ pc["worker"] = "off" => pc'["app"] \in {"ready", "idle_loop", "stop_return", "gone"}
    BY <1>0, <2>1
  <2> QED
    BY <2>1, <2>2, <2>3, <2>4, EndApp
<1>5. CASE Idle("app")
  <2>1. lives # 0
    BY <1>5 DEF Idle, IdleLoop, IdleConnected, IdleEmpty, IdleHandled, EndInv
  <2>2. CASE IdleLoop("app")
    <3>1. /\ pc'["app"] = IF stopThread THEN "ready" ELSE "idle_connected"
          /\ pc'["worker"] = pc["worker"] /\ pc["app"] = "idle_loop"
      BY <1>0, <2>2, PcMoved DEF IdleLoop, WaitReturns
    <3> QED
      BY <2>1, <2>2, <3>1 DEF IdleLoop, EndInv, StopPcs, SmtPcs
  <2>3. CASE ~IdleLoop("app")
    <3>1. PICK l \in IdlePcs \cup {"ready"} :
            /\ Goto("app", l) /\ Steady
            /\ pc["app"] \in {"idle_connected", "idle_empty", "idle_handled"}
      BY <1>5, <2>3 DEF Idle, IdleConnected, IdleEmpty, IdleHandled, WaitReturns, IdlePcs
    <3>2. pc'["app"] = l /\ pc'["worker"] = pc["worker"]
      BY <1>0, <3>1, PcMoved
    <3> QED
      BY <2>1, <3>1, <3>2 DEF EndInv, StopPcs, SmtPcs, IdlePcs
  <2> QED
    BY <2>2, <2>3
<1>6. CASE StopReturn
  <2>1. CASE leaving /\ messageJoinable
    BY <1>6, <2>1, EndStays DEF StopReturn, Fail
  <2>2. CASE ~(leaving /\ messageJoinable)
    <3>1. /\ pc'["app"] \in {"gone", "ready"} /\ pc'["worker"] = pc["worker"]
          /\ pc["app"] = "stop_return" /\ Steady
      BY <1>0, <1>6, <2>2, PcMoved DEF StopReturn
    <3>2. lives # 0
      BY <3>1 DEF EndInv
    <3>3. /\ pc["app"] \notin StopPcs
          /\ UNCHANGED <<lives, stopThread, stopped, handled, gaveUp>>
      BY <3>1 DEF StopPcs, SmtPcs
    <3> QED
      BY <3>1, <3>2, <3>3, EndApp
  <2> QED
    BY <2>1, <2>2
<1> QED
  BY <1>1, <1>2, <1>3, <1>4, <1>5, <1>6 DEF Running, Call

\* The worker, StopMessageThread included.
LEMMA EndWorkerSteps ==
  ASSUME TypeOK, AnswerInv, EndInv, Running(Arrival) \/ Running(Worker)
  PROVE  EndInv'
<1> USE DEF Steady, Move, flags, holders, telegrams, observer
<1>0. /\ PcOK /\ workerJoinable = (pc["worker"] # "off")
      /\ ret["worker"] \in {"stop_flag", "start", "close_socket"}
  BY DEF TypeOK, HoldersOK, PcOK, Threads
<1>1. ASSUME NEW l, Goto("worker", l), UNCHANGED <<lives, stopThread, stopped, gaveUp>>,
             pc["worker"] \notin {"off", "over", "stop_context", "stop_join"},
             l \notin {"off", "over"}
      PROVE  EndInv'
  BY <1>0, <1>1, PcMoved, EndWorker
<1>2. CASE Connect \/ Close \/ Greet \/ Connected \/ CloseSocket \/ CallbackReturns
           \/ CallbackWaits \/ CallbackSends \/ Finish
  <2>1. PICK l \in {"smt_enter", "connected", "run", "finish", "idle_loop"} :
          /\ Goto("worker", l)
          /\ pc["worker"] \in {"run", "greet", "connected", "close_socket", "callback", "finish"}
    BY <1>2 DEF Connect, Close, Greet, Connected, CloseSocket, CallbackReturns,
                CallbackWaits, CallbackSends, Finish
  <2>2. UNCHANGED <<lives, stopThread, stopped, gaveUp>>
    BY <1>2 DEF Connect, Close, Greet, Connected, CloseSocket, CallbackReturns,
                CallbackWaits, CallbackSends, Finish
  <2> QED
    BY <1>1, <2>1, <2>2
<1>3. CASE HandleResponse
  <2>1. CASE ~current
    BY <1>3, <2>1, EndStays DEF HandleResponse, Fail
  <2>2. CASE current
    BY <1>1, <1>3, <2>2 DEF HandleResponse
  <2> QED
    BY <2>1, <2>2
<1>4. CASE StartThread
  <2>1. CASE messageJoinable
    BY <1>4, <2>1, EndStays DEF StartThread, Fail
  <2>2. CASE ~messageJoinable
    <3>1. pc["worker"] = "start" /\ pc'["worker"] = "greet" /\ pc'["app"] = pc["app"]
      BY <1>0, <1>4, <2>2 DEF StartThread, PcOK
    <3> QED
      BY <1>4, <2>2, <3>1, EndWorker DEF StartThread
  <2> QED
    BY <2>1, <2>2
<1>5. CASE CallbackStops
  <2>1. Goto("worker", "smt_enter") /\ pc["worker"] = "callback"
    BY <1>0, <1>5 DEF CallbackStops, BeginStop
  <2>2. UNCHANGED <<lives, stopThread, stopped, gaveUp>>
    BY <1>5 DEF CallbackStops, BeginStop
  <2> QED
    BY <1>1, <2>1, <2>2
<1>6. CASE WorkerReturns
  <2>1. /\ pc["worker"] = "run" /\ pc'["worker"] = "over" /\ pc'["app"] = pc["app"]
        /\ stopped /\ Steady
    BY <1>0, <1>6, PcMoved DEF WorkerReturns
  <2> QED
    BY <2>1 DEF EndInv, StopPcs
<1>7. CASE CallbackThrows \/ StopJoinsItself
  <2>1. /\ pc["worker"] \in {"callback", "stop_join"}
        /\ pc'["worker"] = "over" /\ pc'["app"] = pc["app"] /\ Steady
    BY <1>0, <1>7, PcMoved DEF CallbackThrows, StopJoinsItself
  <2>2. ~gaveUp => ~handled'
    BY <2>1 DEF AnswerInv, Calling, Calls
  <2> QED
    BY <2>1, <2>2, EndWorker
<1>8. CASE Idle("worker")
  <2>1. PICK l \in IdlePcs \cup {"finish"} :
          Goto("worker", l) /\ pc["worker"] \in IdlePcs /\ Steady
    BY <1>8 DEF Idle, IdleLoop, IdleConnected, IdleEmpty, IdleHandled, IdlePcs, WaitReturns
  <2> QED
    BY <1>1, <2>1 DEF IdlePcs
<1>9. CASE StopSteps("worker")
  <2>1. CASE SmtEnter("worker") \/ SmtStop("worker")
             \/ (SmtJoin("worker") /\ ~\E o \in Threads \ {"worker"} : pc[o] = "smt_joining")
    <3>1. PICK l \in SmtPcs \cup {ret["worker"]} :
            /\ Goto("worker", l) /\ pc["worker"] \in SmtPcs
            /\ UNCHANGED <<lives, stopThread, stopped, gaveUp>>
      BY <2>1 DEF SmtEnter, SmtStop, SmtJoin, SmtPcs
    <3> QED
      BY <1>0, <1>1, <3>1 DEF SmtPcs
  <2>2. CASE SmtJoin("worker") /\ \E o \in Threads \ {"worker"} : pc[o] = "smt_joining"
    BY <2>2, EndStays DEF SmtJoin, Fail
  <2>3. CASE SmtJoined("worker")
    <3>1. /\ pc["worker"] = "smt_joining" /\ pc'["worker"] = ret["worker"]
          /\ pc'["app"] = pc["app"]
      BY <1>0, <2>3 DEF SmtJoined, PcOK
    <3> QED
      BY <1>0, <2>3, <3>1, EndWorker DEF SmtJoined
  <2>4. CASE StopFlag("worker") \/ StopContext("worker")
    <3>1. /\ pc["worker"] \in {"stop_flag", "stop_context"} /\ pc'["app"] = pc["app"]
          /\ pc'["worker"] \in {"stop_context", "stop_join"}
      BY <1>0, <2>4, PcMoved DEF StopFlag, StopContext
    <3>2. (stopThread => stopThread') /\ UNCHANGED <<lives, gaveUp, handled>>
      BY <2>4 DEF StopFlag, StopContext
    <3> QED
      BY <3>1, <3>2 DEF EndInv
  <2> QED
    BY <1>9, <2>1, <2>2, <2>3, <2>4 DEF StopSteps
<1> QED
  BY <1>2, <1>3, <1>4, <1>5, <1>6, <1>7, <1>8, <1>9 DEF Running, Arrival, Worker

LEMMA EndMessage == ASSUME TypeOK, EndInv, Message PROVE EndInv'
<1> USE DEF Steady, Move, flags, holders, telegrams, observer
<1>0. PcOK /\ FlagsOK
  BY DEF TypeOK
<1>1. CASE Send /\ ~open
  BY <1>1, EndStays DEF Send, Fail
<1>2. CASE ~(Send /\ ~open)
  <2>1. PICK l : Goto("message", l)
    BY <1>2 DEF Message, Loop, Get, GetNothing, Check, Send, WaitDone
  <2>2. pc'["worker"] = pc["worker"] /\ pc'["app"] = pc["app"]
    BY <1>0, <2>1, PcMoved
  <2>3. UNCHANGED <<lives, stopThread, stopped>>
    BY <1>2 DEF Message, Loop, Get, GetNothing, Check, Send, WaitDone
  <2>4. gaveUp => gaveUp'
    BY <1>2 DEF Message, Loop, Get, GetNothing, Check, Send, WaitDone
  <2>5. handled' => handled
    <3>1. handled' = handled \/ handled' = (handled /\ stopMessage)
      BY <1>2 DEF Message, Loop, Get, GetNothing, Check, Send, WaitDone
    <3> QED
      BY <1>0, <3>1 DEF FlagsOK
  <2> QED
    BY <2>2, <2>3, <2>4, <2>5, EndStays
<1> QED
  BY <1>1, <1>2

LEMMA EndStep == ASSUME TypeOK, AnswerInv, EndInv, Next PROVE EndInv'
BY EndAppStops, EndAppCalls, EndWorkerSteps, EndMessage DEF Next, App, Running

\* The other threads leave the application where it is.
LEMMA OthersLeaveApp ==
  ASSUME TypeOK, Running(Arrival) \/ Running(Worker) \/ Running(Message)
  PROVE  pc'["app"] = pc["app"]
<1> USE DEF Steady, Move
<1>0. PcOK
  BY DEF TypeOK
<1>1. CASE Running(Message)
  <2>1. pc' = pc \/ \E l : Goto("message", l)
    BY <1>1 DEF Running, Message, Loop, Get, GetNothing, Check, Send, WaitDone, Fail
  <2> QED
    BY <1>0, <2>1, PcMoved
<1>2. CASE Running(Arrival)
  <2>1. pc' = pc \/ \E l : Goto("worker", l)
    BY <1>2 DEF Running, Arrival, Connect, Close, HandleResponse, Fail
  <2> QED
    BY <1>0, <2>1, PcMoved
<1>3. CASE StartThread \/ SmtJoined("worker")
  BY <1>0, <1>3 DEF StartThread, SmtJoined, Fail, PcOK
<1>4. CASE SmtEnter("worker") \/ SmtStop("worker") \/ SmtJoin("worker")
           \/ StopFlag("worker") \/ StopContext("worker")
  <2>1. pc' = pc \/ \E l : Goto("worker", l)
    BY <1>4 DEF SmtEnter, SmtStop, SmtJoin, StopFlag, StopContext, Fail
  <2> QED
    BY <1>0, <2>1, PcMoved
<1>5. CASE Idle("worker")
  <2>1. \E l : Goto("worker", l)
    BY <1>5 DEF Idle, IdleLoop, IdleConnected, IdleEmpty, IdleHandled
  <2> QED
    BY <1>0, <2>1, PcMoved
<1>6. CASE CallbackStops
  <2>1. \E l : Goto("worker", l)
    BY <1>6 DEF CallbackStops, BeginStop
  <2> QED
    BY <1>0, <2>1, PcMoved
<1>7. CASE WorkerReturns \/ Greet \/ Connected \/ CloseSocket \/ CallbackReturns
           \/ CallbackWaits \/ CallbackThrows \/ CallbackSends \/ Finish \/ StopJoinsItself
  BY <1>0, <1>7, PcMoved
     DEF WorkerReturns, Greet, Connected, CloseSocket, CallbackReturns, CallbackWaits,
         CallbackThrows, CallbackSends, Finish, StopJoinsItself
<1> QED
  BY <1>1, <1>2, <1>3, <1>4, <1>5, <1>6, <1>7 DEF Running, Worker, StopSteps

-----------------------------------------------------------------------------
(* The theorem.                                                              *)

\* WaitOnIdle: in the first life, unless a telegram has been given up, it returns
\* true only while the worker thread runs context_, whatever callbacks do.
THEOREM FirstIdleServed == Spec => FirstIdleIsServed
<1>1. Init => AnswerInv /\ EndInv
  <2> SUFFICES ASSUME Init PROVE AnswerInv /\ EndInv
    OBVIOUS
  <2>1. AnswerInv
    BY DEF Init, AnswerInv, Calling, Calls, Starting, Starts, Threads, IdlePcs, SmtPcs
  <2>2. EndInv
    BY DEF Init, EndInv
  <2> QED
    BY <2>1, <2>2
<1>2. TypeInv /\ AnswerInv /\ EndInv /\ [Next]_vars => AnswerInv' /\ EndInv'
  <2>1. ASSUME AnswerInv, EndInv, UNCHANGED vars PROVE AnswerInv' /\ EndInv'
    BY <2>1, WorkerStays, EndStays DEF vars, flags, telegrams, observer
  <2> QED
    BY <2>1, AnswerStep, EndStep DEF TypeInv
<1>3. ASSUME TypeInv, AnswerInv, EndInv, [Next]_vars, IdleReturns, lives = 1, ~gaveUp
      PROVE  ~stopped /\ pc["worker"] \notin {"off", "over"}
  <2>1. PcOK /\ pc["app"] = "idle_handled" /\ pc'["app"] = "ready" /\ Next
    BY <1>3 DEF TypeInv, TypeOK, IdleReturns, vars
  <2>2. handled
    <3>1. IdleHandled("app")
      <4> USE DEF Steady
      <4>1. CASE Running(Arrival) \/ Running(Worker) \/ Running(Message)
        <5>1. pc'["app"] = pc["app"]
          BY <1>3, <4>1, OthersLeaveApp DEF TypeInv
        <5> QED
          BY <2>1, <5>1
      <4>2. CASE Over \/ Running(Call)
        BY <2>1, <4>2 DEF Over, vars, Running, Call, Start, SendTelegram, WaitOnIdle, Stop,
                          Destroy
      <4>3. CASE Running(App)
        BY <2>1, <4>3 DEF Running, App, Idle, IdleLoop, IdleConnected, IdleEmpty, StopSteps,
                          SmtEnter, SmtStop, SmtJoin, SmtJoined, StopFlag, StopContext,
                          StopJoin, StopReturn, Move
      <4> QED
        BY <2>1, <4>1, <4>2, <4>3 DEF Next
    <3>2. Goto("app", IF handled THEN "ready" ELSE "idle_loop")
      BY <3>1 DEF IdleHandled, WaitReturns
    <3> QED
      BY <2>1, <3>2, PcMoved
  <2>3. ~Calling
    BY <1>3, <2>2 DEF AnswerInv
  <2> QED
    BY <1>3, <2>1, <2>2, <2>3 DEF EndInv, Calling, Calls, StopPcs, SmtPcs
<1>4. TypeInv /\ AnswerInv /\ EndInv /\ [Next]_vars =>
        [IdleReturns /\ lives = 1 /\ ~gaveUp =>
           ~stopped /\ pc["worker"] \notin {"off", "over"}]_vars
  BY <1>3
<1> QED
  BY <1>1, <1>2, <1>4, TypeInvariant, PTL DEF Spec, FirstIdleIsServed
==============================================================================
