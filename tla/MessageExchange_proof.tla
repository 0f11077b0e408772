------------------------ MODULE MessageExchange_proof ------------------------
(* Theorems about MessageExchange, for every value of its constants: every  *)
(* schedule of the threads, any behaviour of the server and the network, and *)
(* any number of telegrams.                                                  *)
EXTENDS ExchangeRefinement, SequenceTheorems, TLAPS

\* Sequences of identities remain such when more telegrams are put.
LEMMA IdsGrow ==
  ASSUME NEW m \in Nat, NEW n \in Nat, m <= n, NEW s \in Seq(1..m)
  PROVE  s \in Seq(1..n)
<1>1. 1..m \subseteq 1..n
  OBVIOUS
<1> QED
  BY <1>1, SeqMonotonic

\* The length of a sequence given by its elements.
LEMMA LenOfList ==
  ASSUME NEW S, NEW n \in Nat, NEW s \in [1..n -> S]
  PROVE  s \in Seq(S) /\ Len(s) = n
OBVIOUS

\* What TelegramQueue::Put does to the types of the telegrams.
LEMMA PutType ==
  ASSUME TelegramsOK, NEW ks \in Seq(Kinds),
         NEW fates \in Seq(Fates), Len(fates) = Len(kind),
         PutAfter(fates, ks)
  PROVE  /\ kind' \in Seq(Kinds) /\ fate' \in Seq(Fates) /\ Len(fate') = Len(kind')
         /\ queue' \in Seq(Ids') /\ Len(kind) <= Len(kind')
<1> DEFINE n == Len(kind)
           new == [i \in 1..Len(ks) |-> "queued"]
           ids == [i \in 1..Len(ks) |-> n + i]
<1>1. n \in Nat /\ Len(ks) \in Nat
  BY LenProperties DEF TelegramsOK
<1>2. kind' \in Seq(Kinds) /\ Len(kind') = n + Len(ks)
  BY ConcatProperties DEF PutAfter, TelegramsOK
<1>3. new \in Seq(Fates) /\ Len(new) = Len(ks)
  <2>1. new \in [1..Len(ks) -> Fates]
    BY DEF Fates
  <2> QED
    BY <1>1, <2>1, LenOfList
<1>4. fate' \in Seq(Fates) /\ Len(fate') = n + Len(ks)
  <2>1. fate' = fates \o new
    BY DEF PutAfter
  <2> HIDE DEF new
  <2>2. fates \o new \in Seq(Fates) /\ Len(fates \o new) = Len(fates) + Len(new)
    BY <1>3, ConcatProperties
  <2> QED
    BY <1>3, <2>1, <2>2
<1>5. ids \in Seq(1..(n + Len(ks)))
  <2>1. ids \in [1..Len(ks) -> 1..(n + Len(ks))]
    BY <1>1
  <2> QED
    BY <1>1, <2>1, LenOfList
<1>6. queue \in Seq(1..(n + Len(ks)))
  BY <1>1, IdsGrow DEF TelegramsOK, Ids
<1>7. queue' \in Seq(1..(n + Len(ks)))
  <2>1. queue' = queue \o ids
    BY DEF PutAfter
  <2> HIDE DEF ids
  <2> QED
    BY <1>5, <1>6, <2>1, ConcatProperties
<1> QED
  BY <1>1, <1>2, <1>4, <1>7 DEF Ids

\* A telegram whose fate changes still has one.
LEMMA FateType ==
  ASSUME TelegramsOK, NEW id \in Ids, NEW f \in Fates
  PROVE  /\ [fate EXCEPT ![id] = f] \in Seq(Fates)
         /\ Len([fate EXCEPT ![id] = f]) = Len(kind)
BY ExceptSeq DEF TelegramsOK, Ids

LEMMA SettleType ==
  ASSUME TelegramsOK, NEW id \in 0..Len(kind), NEW f \in Fates, Settle(id, f)
  PROVE  fate' \in Seq(Fates) /\ Len(fate') = Len(kind)
<1>1. CASE id # 0 /\ ~Settled(id)
  <2>1. id \in Ids
    BY <1>1, LenProperties DEF Ids, TelegramsOK
  <2> QED
    BY <1>1, <2>1, FateType DEF Settle
<1>2. CASE ~(id # 0 /\ ~Settled(id))
  BY <1>2 DEF Settle, TelegramsOK
<1> QED
  BY <1>1, <1>2

\* Telegrams when no telegram is put, and when some are.
LEMMA TelegramsUpdated ==
  ASSUME TelegramsOK, kind' = kind, fate' \in Seq(Fates), Len(fate') = Len(kind),
         queue' \in Seq(Ids), current' \in 0..Len(kind), using' \in 0..Len(kind),
         mark' \in 0..Len(kind)
  PROVE  TelegramsOK'
BY DEF TelegramsOK, Ids

LEMMA TelegramsPut ==
  ASSUME TelegramsOK, NEW ks \in Seq(Kinds), NEW fates \in Seq(Fates),
         Len(fates) = Len(kind), PutAfter(fates, ks),
         UNCHANGED <<current, using, mark>>
  PROVE  TelegramsOK'
<1>1. Len(kind) \in Nat /\ Len(kind') \in Nat /\ Len(kind) <= Len(kind')
  BY PutType, LenProperties DEF TelegramsOK
<1> QED
  BY <1>1, PutType DEF TelegramsOK

LEMMA TelegramsKept ==
  TelegramsOK /\ UNCHANGED <<kind, fate, queue, current, using, mark>> => TelegramsOK'
BY DEF TelegramsOK, Ids

\* The budget for the server and the network stays a budget.
LEMMA SpendType ==
  ASSUME spare \in [Quirks -> Nat], NEW q \in Quirks, Spend(q)
  PROVE  spare' \in [Quirks -> Nat]
BY DEF Spend

\* async_write sends a request of the telegram's command.
LEMMA WriteType ==
  ASSUME TelegramsOK, WireOK, NEW id \in Ids, Write(id)
  PROVE  toServer' \in Seq(Requests)
<1>1. kind[id] \in Kinds /\ id \in Nat
  BY ElementOfSeq, LenProperties DEF TelegramsOK, Ids
<1>2. [id |-> id, cmd |-> CmdOf[kind[id]]] \in Requests
  BY <1>1 DEF Requests, Cmds
<1> QED
  BY <1>2 DEF Write, WireOK

\* The server answers with the command and the number of the request.
LEMMA AnswerType ==
  ASSUME WireOK, toServer # <<>>, NEW s \in Status
  PROVE  Answer(s) \in Seq(Responses) /\ Tail(toServer) \in Seq(Requests)
<1>1. Head(toServer) \in Requests /\ Tail(toServer) \in Seq(Requests)
  BY HeadTailProperties DEF WireOK
<1>2. [to |-> Head(toServer).id, cmd |-> Head(toServer).cmd, status |-> s] \in Responses
  BY <1>1 DEF Requests, Responses
<1> QED
  BY <1>1, <1>2 DEF Answer, WireOK

-----------------------------------------------------------------------------
(* The typing invariant, one part of it at a time.                           *)

LEMMA FlagsKept ==
  FlagsOK /\ UNCHANGED <<handled, stopping, joinable, connected, ended, idled, ret,
                         fault>> => FlagsOK'
BY DEF FlagsOK

LEMMA FlagsStep == ASSUME TypeOK, Next PROVE FlagsOK'
<1> USE DEF TypeOK, exchange, threads, wire, observer
<1>1. CASE Over
  BY <1>1, FlagsKept DEF Over, vars
<1>2. CASE Running(Call)
  BY <1>2 DEF Running, Call, SendTelegram, WaitOnIdle, Stop, FlagsOK
<1>3. ASSUME NEW t \in Callers, StopMessageThread(t) PROVE FlagsOK'
  <2>1. CASE SmtEnter(t) \/ SmtEmpty(t) \/ SmtHandled(t) \/ SmtPatience(t)
    BY <2>1, FlagsKept DEF SmtEnter, SmtEmpty, SmtHandled, SmtPatience
  <2>2. CASE SmtStop(t) \/ SmtJoined(t)
    BY <2>2 DEF SmtStop, SmtJoined, FlagsOK
  <2>3. CASE SmtJoin(t)
    BY <2>3 DEF SmtJoin, Fail, FlagsOK, Faults
  <2> QED
    BY <1>3, <2>1, <2>2, <2>3 DEF StopMessageThread
<1>4. CASE Running(App)
  BY <1>3, <1>4 DEF Running, App, Callers, IdleConnected, IdleEmpty, IdleHandled,
                    StopContext, StopJoin, FlagsOK
<1>5. CASE Running(Worker)
  <2>1. CASE Connect \/ Greet \/ Greeted \/ CloseSocket \/ ReadError
    BY <2>1 DEF Connect, Greet, Greeted, CloseSocket, ReadError, Close, FlagsOK
  <2>2. CASE StartThread
    BY <2>2 DEF StartThread, Fail, FlagsOK, Faults
  <2>3. CASE WorkerExit \/ Receive \/ SwitchAck
    BY <2>3, FlagsKept DEF WorkerExit, Receive, SwitchAck
  <2>4. CASE Attach \/ SwitchRepeat
    BY <2>4 DEF Attach, SwitchRepeat, Fail, FlagsOK, Faults
  <2>5. CASE SwitchFinal \/ Callback
    BY ZenonT(40), <2>5 DEF SwitchFinal, Callback, Fail, FlagsOK, Faults
  <2>6. CASE SwitchNotProcessed \/ Finish
    BY <2>6 DEF SwitchNotProcessed, Finish, Close, FlagsOK
  <2> QED
    BY <1>3, <1>5, <2>1, <2>2, <2>3, <2>4, <2>5, <2>6 DEF Running, Worker, Callers
<1>6. CASE Running(Message)
  BY ZenonT(40), <1>6 DEF Running, Message, Loop, Get, GetNothing, Check, Send, WaitSecond,
              WaitDone, Fail, FlagsOK, Faults
<1>7. CASE Running(Server)
  BY <1>7, FlagsKept DEF Running, Server, ServerFinal, ServerAck, ServerRefuse,
                         ServerUnsolicited, Break
<1> QED
  BY <1>1, <1>2, <1>4, <1>5, <1>6, <1>7 DEF Next

LEMMA CountsStep == ASSUME TypeOK, Next PROVE CountsOK'
<1> USE DEF TypeOK, exchange, threads, wire, observer
<1>0. MaxWait \in Nat /\ Len(Startup) \in Nat
  BY KindsAssumption, BoundsAssumption, LenProperties
<1>1. CASE UNCHANGED <<waited, greeted>>
  BY <1>1 DEF CountsOK
<1>2. CASE Greet
  BY <1>0, <1>2 DEF Greet, CountsOK
<1>3. CASE Greeted
  BY <1>0, <1>3 DEF Greeted, CountsOK
<1>4. CASE WaitSecond
  BY <1>0, <1>4 DEF WaitSecond, CountsOK
<1>5. CASE WaitDone
  BY <1>0, <1>5 DEF WaitDone, CountsOK
<1>6. Next => \/ Greet \/ Greeted \/ WaitSecond \/ WaitDone
              \/ UNCHANGED <<waited, greeted>>
  <2>1. Over => UNCHANGED <<waited, greeted>>
    BY DEF Over, vars
  <2>2. Call \/ App \/ Server => UNCHANGED <<waited, greeted>>
    BY DEF Call, SendTelegram, WaitOnIdle, Stop, App, IdleConnected, IdleEmpty,
           IdleHandled, StopContext, StopJoin, StopMessageThread, SmtEnter,
           SmtEmpty, SmtHandled, SmtPatience, SmtStop, SmtJoin, SmtJoined, Fail,
           Server, ServerFinal, ServerAck, ServerRefuse, ServerUnsolicited, Break
  <2>3. Worker => Greet \/ Greeted \/ UNCHANGED <<waited, greeted>>
    BY DEF Worker, StopMessageThread, SmtEnter, SmtEmpty, SmtHandled, SmtPatience,
           SmtStop, SmtJoin, SmtJoined, Fail, Connect, StartThread, CloseSocket,
           ReadError, WorkerExit, Receive, Attach, SwitchNotProcessed, SwitchAck,
           SwitchRepeat, SwitchFinal, Callback, Finish
  <2>4. Message => WaitSecond \/ WaitDone \/ UNCHANGED <<waited, greeted>>
    BY DEF Message, Loop, Get, GetNothing, Check, Send, Fail
  <2> QED
    BY <2>1, <2>2, <2>3, <2>4 DEF Next, Running
<1> QED
  BY <1>1, <1>2, <1>3, <1>4, <1>5, <1>6

\* The actions that touch the telegrams, the queue or a pointer to a telegram.
LEMMA TelegramsTouched ==
  Next => \/ SendTelegram \/ WaitOnIdle \/ IdleHandled \/ Stop
          \/ StartThread \/ Greet \/ Receive \/ SwitchNotProcessed \/ SwitchAck
          \/ SwitchRepeat \/ SwitchFinal \/ Callback \/ Finish
          \/ Get \/ Check \/ Send \/ WaitDone
          \/ UNCHANGED <<kind, fate, queue, current, using, mark>>
<1> USE DEF exchange, threads, wire, observer, Fail
<1>1. Over => UNCHANGED <<kind, fate, queue, current, using, mark>>
  BY DEF Over, vars
<1>2. \A t \in Callers :
        StopMessageThread(t) => UNCHANGED <<kind, fate, queue, current, using, mark>>
  BY DEF StopMessageThread, SmtEnter, SmtEmpty, SmtHandled, SmtPatience, SmtStop,
         SmtJoin, SmtJoined
<1>3. App => IdleHandled \/ UNCHANGED <<kind, fate, queue, current, using, mark>>
  BY <1>2 DEF App, IdleConnected, IdleEmpty, StopContext, StopJoin, Callers
<1>4. Connect \/ Greeted \/ CloseSocket \/ ReadError \/ WorkerExit \/ Attach
        => UNCHANGED <<kind, fate, queue, current, using, mark>>
  BY DEF Connect, Greeted, CloseSocket, ReadError, WorkerExit, Attach
<1>5. Loop \/ GetNothing \/ WaitSecond \/ Server
        => UNCHANGED <<kind, fate, queue, current, using, mark>>
  BY DEF Loop, GetNothing, WaitSecond, Server, ServerFinal, ServerAck, ServerRefuse,
         ServerUnsolicited, Break
<1> QED
  BY <1>1, <1>2, <1>3, <1>4, <1>5 DEF Next, Running, Call, Worker, Message, Callers

LEMMA TelegramsStep == ASSUME TypeOK, Next PROVE TelegramsOK'
<1> USE DEF TypeOK, exchange, threads, wire, observer
<1>0. /\ Len(kind) \in Nat /\ current \in 0..Len(kind) /\ using \in 0..Len(kind)
      /\ mark \in 0..Len(kind) /\ fate \in Seq(Fates) /\ Len(fate) = Len(kind)
      /\ queue \in Seq(Ids) /\ 0 \in 0..Len(kind)
  BY LenProperties DEF TelegramsOK
<1>1. CASE UNCHANGED <<kind, fate, queue, current, using, mark>>
  BY <1>1, TelegramsKept
<1>2. CASE SendTelegram
  <2>1. PICK k \in AppKinds : Put(<<k>>)
    BY <1>2 DEF SendTelegram
  <2>2. <<k>> \in Seq(Kinds)
    BY KindsAssumption
  <2> QED
    BY <1>0, <1>2, <2>1, <2>2, TelegramsPut DEF SendTelegram, Put
<1>3. CASE Stop
  <2>1. <<Exit>> \in Seq(Kinds)
    BY KindsAssumption
  <2> QED
    BY <1>0, <1>3, <2>1, TelegramsPut DEF Stop, Put
<1>4. CASE Greet
  <2>1. greeted + 1 \in 1..Len(Startup)
    BY <1>4, KindsAssumption, LenProperties DEF Greet, CountsOK
  <2>2. <<Startup[greeted + 1]>> \in Seq(Kinds)
    BY <2>1, KindsAssumption, ElementOfSeq
  <2> QED
    BY <1>0, <1>4, <2>2, TelegramsPut DEF Greet, Put
<1>5. CASE WaitOnIdle \/ IdleHandled
  BY <1>0, <1>5, TelegramsUpdated DEF WaitOnIdle, IdleHandled
<1>6. CASE StartThread
  <2>1. CASE joinable
    BY <1>6, <2>1, TelegramsKept DEF StartThread, Fail
  <2>2. CASE ~joinable
    <3>1. fate \in [1..Len(kind) -> Fates]
      BY <1>0, LenProperties
    <3>2. fate' \in [1..Len(kind) -> Fates]
      BY <1>6, <2>2, <3>1 DEF StartThread, Fates
    <3>3. fate' \in Seq(Fates) /\ Len(fate') = Len(kind)
      BY <1>0, <3>2, LenOfList
    <3> QED
      BY <1>0, <1>6, <2>2, <3>3, TelegramsUpdated DEF StartThread
  <2> QED
    BY <2>1, <2>2
<1>7. CASE Receive \/ SwitchNotProcessed \/ SwitchAck \/ Finish
  BY <1>0, <1>7, TelegramsUpdated DEF Receive, SwitchNotProcessed, SwitchAck, Finish,
                                      Release
<1>8. CASE SwitchRepeat \/ SwitchFinal
  BY <1>0, <1>8, TelegramsUpdated, TelegramsKept DEF SwitchRepeat, SwitchFinal, Release,
                                                     Fail
<1>9. CASE Callback
  <2>1. CASE current # using \/ attached = NoReply
    BY <1>9, <2>1, TelegramsKept DEF Callback, Fail
  <2>2. CASE ~(current # using \/ attached = NoReply)
    <3> DEFINE fates == [fate EXCEPT ![using] = Completion]
               ks == FollowUp[kind[using]][attached.status = "OK"]
    <3>0. using # 0
      BY <1>9 DEF Callback, PointersOK
    <3>1. using \in Ids
      BY <1>0, <3>0 DEF Ids
    <3>2. kind[using] \in Kinds
      BY <3>1, ElementOfSeq DEF TelegramsOK, Ids
    <3>3. ks \in Seq(Kinds)
      BY <3>2, KindsAssumption
    <3>4. fates \in Seq(Fates) /\ Len(fates) = Len(kind)
      BY <3>1, FateType DEF Completion, Fates
    <3>5. PutAfter(fates, ks) /\ UNCHANGED <<current, using, mark>>
      BY <1>9, <2>2 DEF Callback
    <3> HIDE DEF fates, ks
    <3> QED
      BY <3>3, <3>4, <3>5, TelegramsPut
  <2> QED
    BY <2>1, <2>2
<1>10. CASE Get
  <2>1. Head(queue) \in Ids /\ Tail(queue) \in Seq(Ids)
    BY <1>0, <1>10, HeadTailProperties DEF Get
  <2>2. fate' \in Seq(Fates) /\ Len(fate') = Len(kind)
    BY <1>10, <2>1, FateType DEF Get, Fates
  <2> QED
    BY <1>0, <1>10, <2>1, <2>2, TelegramsUpdated DEF Get, Ids
<1>11. CASE Check
  <2>1. fate' \in Seq(Fates) /\ Len(fate') = Len(kind)
    BY <1>0, <1>11, SettleType DEF Check, Fates
  <2> QED
    BY <1>0, <1>11, <2>1, TelegramsUpdated DEF Check
<1>12. CASE Send
  <2>0. current # 0
    BY <1>12 DEF Send, PointersOK
  <2>1. current \in Ids
    BY <1>0, <2>0 DEF Ids
  <2>2. fate' \in Seq(Fates) /\ Len(fate') = Len(kind)
    BY <1>0, <1>12, <2>1, FateType DEF Send, Fates, Fail
  <2> QED
    BY <1>0, <1>12, <2>2, TelegramsUpdated DEF Send, Fail
<1>13. CASE WaitDone
  <2>1. fate' \in Seq(Fates) /\ Len(fate') = Len(kind)
    BY <1>0, <1>13, SettleType DEF WaitDone, Fates
  <2> QED
    BY <1>0, <1>13, <2>1, TelegramsUpdated DEF WaitDone
<1> QED
  BY <1>1, <1>2, <1>3, <1>4, <1>5, <1>6, <1>7, <1>8, <1>9, <1>10, <1>11, <1>12, <1>13,
     TelegramsTouched

\* The actions that touch the wire or a response taken from it.
LEMMA WireTouched ==
  Next => \/ Connect \/ CloseSocket \/ Receive \/ Attach \/ SwitchNotProcessed
          \/ SwitchAck \/ SwitchRepeat \/ Finish \/ Get \/ Send \/ WaitDone \/ Server
          \/ UNCHANGED <<link, spare, toServer, toClient, attached, reply>>
<1> USE DEF exchange, threads, wire, observer, Fail
<1>1. Over \/ Call => UNCHANGED <<link, spare, toServer, toClient, attached, reply>>
  BY DEF Over, vars, Call, SendTelegram, WaitOnIdle, Stop
<1>2. \A t \in Callers : StopMessageThread(t)
        => UNCHANGED <<link, spare, toServer, toClient, attached, reply>>
  BY DEF StopMessageThread, SmtEnter, SmtEmpty, SmtHandled, SmtPatience, SmtStop,
         SmtJoin, SmtJoined
<1>3. App => UNCHANGED <<link, spare, toServer, toClient, attached, reply>>
  BY <1>2 DEF App, IdleConnected, IdleEmpty, IdleHandled, StopContext, StopJoin, Callers
<1>4. StartThread \/ Greet \/ Greeted \/ ReadError \/ WorkerExit \/ SwitchFinal \/ Callback
        => UNCHANGED <<link, spare, toServer, toClient, attached, reply>>
  BY DEF StartThread, Greet, Greeted, ReadError, WorkerExit, SwitchFinal, Callback
<1>5. Loop \/ GetNothing \/ Check \/ WaitSecond
        => UNCHANGED <<link, spare, toServer, toClient, attached, reply>>
  BY DEF Loop, GetNothing, Check, WaitSecond
<1> QED
  BY <1>1, <1>2, <1>3, <1>4, <1>5 DEF Next, Running, Worker, Message, Callers

LEMMA WireStep == ASSUME TypeOK, Next PROVE WireOK'
<1> USE DEF TypeOK, exchange, threads, wire, observer
<1>0. NoReply \in Responses \cup {NoReply} /\ <<>> \in Seq(Requests) /\ <<>> \in Seq(Responses)
  OBVIOUS
<1>1. CASE UNCHANGED <<link, spare, toServer, toClient, attached, reply>>
  BY <1>1 DEF WireOK
<1>2. CASE Connect
  <2>1. spare' \in [Quirks -> Nat]
    BY <1>2, SpendType DEF Connect, WireOK, Quirks
  <2> QED
    BY <1>0, <1>2, <2>1 DEF Connect, WireOK
<1>3. CASE CloseSocket \/ SwitchNotProcessed \/ SwitchAck \/ Finish \/ Get \/ WaitDone
  BY <1>0, <1>3 DEF CloseSocket, SwitchNotProcessed, SwitchAck, Finish, Get, WaitDone,
                    Release, WireOK
<1>4. CASE Receive
  <2>1. Head(toClient) \in Responses /\ Tail(toClient) \in Seq(Responses)
    BY <1>4, HeadTailProperties DEF Receive, WireOK
  <2> QED
    BY <1>4, <2>1 DEF Receive, WireOK
<1>5. CASE Attach
  BY <1>5 DEF Attach, Fail, WireOK
<1>6. CASE SwitchRepeat
  <2>1. CASE using = 0 \/ current # using
    BY <1>0, <1>6, <2>1 DEF SwitchRepeat, Fail, Release, WireOK
  <2>2. CASE ~(using = 0 \/ current # using)
    <3>1. using \in Ids
      BY <2>2, LenProperties DEF Ids, TelegramsOK
    <3>2. toServer' \in Seq(Requests)
      BY <1>6, <2>2, <3>1, WriteType DEF SwitchRepeat
    <3> QED
      BY <1>0, <1>6, <2>2, <3>2 DEF SwitchRepeat, Release, WireOK
  <2> QED
    BY <2>1, <2>2
<1>7. CASE Send
  <2>1. CASE link = "none"
    BY <1>7, <2>1 DEF Send, Fail, WireOK
  <2>2. CASE link # "none"
    <3>1. current # 0
      BY <1>7 DEF Send, PointersOK
    <3>2. current \in Ids
      BY <3>1, LenProperties DEF Ids, TelegramsOK
    <3>3. toServer' \in Seq(Requests)
      BY <1>7, <2>2, <3>2, WriteType DEF Send
    <3> QED
      BY <1>7, <2>2, <3>3 DEF Send, WireOK
  <2> QED
    BY <2>1, <2>2
<1>8. CASE ServerFinal
  <2>1. PICK s \in FinalStatus : toClient' = Answer(s)
    BY <1>8 DEF ServerFinal
  <2>2. toClient' \in Seq(Responses) /\ toServer' \in Seq(Requests)
    BY <1>8, <2>1, AnswerType DEF ServerFinal, Status
  <2> QED
    BY <1>8, <2>2 DEF ServerFinal, WireOK
<1>9. CASE ServerAck
  <2>1. toClient' \in Seq(Responses)
    BY <1>9, AnswerType DEF ServerAck, Status
  <2>2. spare' \in [Quirks -> Nat]
    BY <1>9, SpendType DEF ServerAck, WireOK, Quirks
  <2> QED
    BY <1>9, <2>1, <2>2 DEF ServerAck, WireOK
<1>10. CASE ServerRefuse
  <2>1. toClient' \in Seq(Responses) /\ toServer' \in Seq(Requests)
    BY <1>10, AnswerType DEF ServerRefuse, Status
  <2>2. spare' \in [Quirks -> Nat]
    BY <1>10, SpendType DEF ServerRefuse, WireOK, Quirks
  <2> QED
    BY <1>10, <2>1, <2>2 DEF ServerRefuse, WireOK
<1>11. CASE ServerUnsolicited
  <2>1. PICK c \in Cmds, s \in Status :
          toClient' = Append(toClient, [to |-> 0, cmd |-> c, status |-> s])
    BY <1>11 DEF ServerUnsolicited
  <2>2. [to |-> 0, cmd |-> c, status |-> s] \in Responses
    BY DEF Responses
  <2>3. toClient' \in Seq(Responses)
    BY <2>1, <2>2 DEF WireOK
  <2>4. spare' \in [Quirks -> Nat]
    BY <1>11, SpendType DEF ServerUnsolicited, WireOK, Quirks
  <2> QED
    BY <1>11, <2>3, <2>4 DEF ServerUnsolicited, WireOK
<1>12. CASE Break
  <2>1. spare' \in [Quirks -> Nat]
    BY <1>12, SpendType DEF Break, WireOK, Quirks
  <2> QED
    BY <1>0, <1>12, <2>1 DEF Break, WireOK
<1> QED
  BY <1>1, <1>2, <1>3, <1>4, <1>5, <1>6, <1>7, <1>8, <1>9, <1>10, <1>11, <1>12,
     WireTouched DEF Server

LEMMA PcStep == ASSUME TypeOK, Next PROVE PcOK'
<1> USE DEF TypeOK, PcOK, Goto, Move, AppPcs, StopPcs, SmtPcs, WorkerPcs, MessagePcs
<1>1. CASE UNCHANGED pc
  BY <1>1
<1>2. CASE Running(Call)
  BY <1>2 DEF Running, Call, SendTelegram, WaitOnIdle, Stop
<1>3. ASSUME NEW t \in Callers, StopMessageThread(t) PROVE PcOK'
  <2> USE DEF Callers, Returned, FlagsOK
  <2>1. CASE SmtEnter(t) \/ SmtEmpty(t)
    BY <2>1 DEF SmtEnter, SmtEmpty
  <2>2. CASE SmtHandled(t) \/ SmtPatience(t) \/ SmtStop(t)
    BY <2>2 DEF SmtHandled, SmtPatience, SmtStop
  <2>3. CASE SmtJoin(t)
    <3>1. UNCHANGED pc \/ Goto(t, IF joinable THEN "smt_joining" ELSE Returned(t))
      BY <2>3 DEF SmtJoin, Fail
    <3> QED
      BY <3>1
  <2>4. CASE SmtJoined(t)
    BY <2>4 DEF SmtJoined
  <2> QED
    BY <1>3, <2>1, <2>2, <2>3, <2>4 DEF StopMessageThread
<1>4. CASE Running(App)
  BY <1>3, <1>4 DEF Running, App, Callers, IdleConnected, IdleEmpty, IdleHandled,
                    StopContext, StopJoin
<1>5. CASE Running(Worker)
  <2>1. CASE Connect \/ StartThread \/ Greet \/ Greeted
    BY <2>1 DEF Connect, StartThread, Greet, Greeted, Fail
  <2>2. CASE CloseSocket \/ ReadError \/ WorkerExit
    BY <2>2 DEF CloseSocket, ReadError, Close, WorkerExit
  <2>3. CASE Receive \/ Attach \/ SwitchNotProcessed \/ SwitchAck
    BY <2>3 DEF Receive, Attach, SwitchNotProcessed, Close, SwitchAck, Fail
  <2>4. CASE SwitchRepeat \/ SwitchFinal \/ Callback \/ Finish
    BY <2>4 DEF SwitchRepeat, SwitchFinal, Callback, Finish, Fail
  <2> QED
    BY <1>3, <1>5, <2>1, <2>2, <2>3, <2>4 DEF Running, Worker, Callers
<1>6. CASE Running(Message)
  BY ZenonT(40), <1>6 DEF Running, Message, Loop, Get, GetNothing, Check, Send, WaitSecond,
              WaitDone, Fail
<1>7. CASE Over \/ Running(Server)
  BY <1>7 DEF Over, vars, Running, Server, ServerFinal, ServerAck, ServerRefuse,
              ServerUnsolicited, Break
<1> QED
  BY <1>2, <1>4, <1>5, <1>6, <1>7 DEF Next

LEMMA PointersStep == ASSUME TypeOK, Next PROVE PointersOK'
<1> USE DEF TypeOK, PcOK, PointersOK, Goto, Move, exchange, threads, wire, observer
<1>1. CASE UNCHANGED <<pc, current, using>>
  BY <1>1
<1>2. CASE Running(Call)
  BY <1>2 DEF Running, Call, SendTelegram, WaitOnIdle, Stop
<1>3. ASSUME NEW t \in Callers, StopMessageThread(t) PROVE PointersOK'
  <2> USE DEF Callers, Returned, FlagsOK
  <2>1. CASE SmtEnter(t) \/ SmtEmpty(t) \/ SmtHandled(t)
    BY <2>1 DEF SmtEnter, SmtEmpty, SmtHandled
  <2>2. CASE SmtPatience(t) \/ SmtStop(t) \/ SmtJoined(t)
    BY <2>2 DEF SmtPatience, SmtStop, SmtJoined
  <2>3. CASE SmtJoin(t)
    <3>1. /\ UNCHANGED <<current, using>>
          /\ UNCHANGED pc \/ Goto(t, IF joinable THEN "smt_joining" ELSE Returned(t))
      BY <2>3 DEF SmtJoin, Fail
    <3> QED
      BY <3>1
  <2> QED
    BY <1>3, <2>1, <2>2, <2>3 DEF StopMessageThread
<1>4. CASE Running(App)
  BY <1>3, <1>4 DEF Running, App, Callers, IdleConnected, IdleEmpty, IdleHandled,
                    StopContext, StopJoin
<1>5. CASE Running(Worker)
  <2>1. CASE Connect \/ StartThread \/ Greet \/ Greeted
    BY <2>1 DEF Connect, StartThread, Greet, Greeted, Fail
  <2>2. CASE CloseSocket \/ ReadError \/ WorkerExit
    BY <2>2 DEF CloseSocket, ReadError, Close, WorkerExit
  <2>3. CASE Receive \/ Attach \/ SwitchNotProcessed \/ SwitchAck
    BY <2>3 DEF Receive, Attach, SwitchNotProcessed, Close, SwitchAck, Release, Fail
  <2>4. CASE SwitchRepeat \/ SwitchFinal \/ Callback \/ Finish
    BY <2>4 DEF SwitchRepeat, SwitchFinal, Callback, Finish, Release, Fail
  <2> QED
    BY <1>3, <1>5, <2>1, <2>2, <2>3, <2>4 DEF Running, Worker, Callers
<1>6. CASE Running(Message)
  <2>1. CASE Get
    <3>1. Head(queue) \in Ids
      BY <2>1, HeadTailProperties DEF Get, TelegramsOK
    <3>2. current' # 0
      BY <2>1, <3>1, LenProperties DEF Get, Ids, TelegramsOK
    <3> QED
      BY <2>1, <3>2 DEF Get
  <2>2. CASE Loop \/ GetNothing \/ Check \/ Send \/ WaitSecond \/ WaitDone
    BY <2>2 DEF Loop, GetNothing, Check, Send, WaitSecond, WaitDone, Fail
  <2> QED
    BY <1>6, <2>1, <2>2 DEF Running, Message
<1>7. CASE Over \/ Running(Server)
  BY <1>7 DEF Over, vars, Running, Server, ServerFinal, ServerAck, ServerRefuse,
              ServerUnsolicited, Break
<1> QED
  BY <1>2, <1>4, <1>5, <1>6, <1>7 DEF Next

\* Every state of every behaviour is well typed, and a thread that is about to
\* dereference current_message_ without a check holds a telegram.
THEOREM TypeCorrect == Spec => []TypeOK
<1>1. Init => TypeOK
  <2> SUFFICES ASSUME Init PROVE TypeOK
    OBVIOUS
  <2> USE DEF Init
  <2>1. Len(Startup) \in Nat /\ MaxWait \in Nat
    BY KindsAssumption, BoundsAssumption, LenProperties
  <2>2. TelegramsOK
    BY DEF TelegramsOK, Ids
  <2>3. FlagsOK
    BY DEF FlagsOK, Faults
  <2>4. WireOK
    BY BoundsAssumption DEF WireOK
  <2>5. CountsOK
    BY <2>1 DEF CountsOK
  <2>6. PcOK /\ PointersOK
    BY DEF PcOK, PointersOK, AppPcs, WorkerPcs, MessagePcs
  <2> QED
    BY <2>2, <2>3, <2>4, <2>5, <2>6 DEF TypeOK
<1>2. TypeOK /\ [Next]_vars => TypeOK'
  <2>1. ASSUME TypeOK, UNCHANGED vars PROVE TypeOK'
    <3> USE <2>1 DEF TypeOK, vars, exchange, threads, wire, observer
    <3>1. TelegramsOK'
      BY TelegramsKept
    <3>2. FlagsOK' /\ CountsOK'
      BY FlagsKept DEF CountsOK
    <3>3. WireOK'
      BY DEF WireOK
    <3>4. PcOK' /\ PointersOK'
      BY DEF PcOK, PointersOK
    <3> QED
      BY <3>1, <3>2, <3>3, <3>4
  <2>2. ASSUME TypeOK, Next PROVE TypeOK'
    BY <2>2, TelegramsStep, FlagsStep, CountsStep, WireStep, PcStep, PointersStep DEF TypeOK
  <2> QED
    BY <2>1, <2>2
<1> QED
  BY <1>1, <1>2, PTL DEF Spec

-----------------------------------------------------------------------------
(* The socket outlives the message thread.                                   *)

\* The inductive invariant. The std::thread is joinable exactly as long as the
\* message thread exists; then the worker is not past the join of Close, and
\* from the connection on until that join the socket is there.
SocketInv ==
  /\ joinable <=> pc["message"] # "off"
  /\ joinable => link # "none" /\ pc["worker"] \notin {"down", "start", "close_socket"}
  /\ pc["worker"] = "start" \/ (pc["worker"] \in SmtPcs /\ ret = "start")
       => link # "none"
  /\ fault \notin {"null socket", "running thread overwritten"}

\* Where a thread that moves leaves all three.
LEMMA PcMoved ==
  ASSUME PcOK, NEW t \in {"app", "worker", "message"}, NEW l, Goto(t, l)
  PROVE  /\ pc'["app"] = IF t = "app" THEN l ELSE pc["app"]
         /\ pc'["worker"] = IF t = "worker" THEN l ELSE pc["worker"]
         /\ pc'["message"] = IF t = "message" THEN l ELSE pc["message"]
BY DEF PcOK, Goto

\* The places of the worker that ask nothing of the socket or the thread.
Working == {"greet", "read", "attach", "switch", "callback", "finish", "dead"}

LEMMA SocketKept ==
  ASSUME SocketInv, UNCHANGED <<joinable, ret>>,
         fault' = fault \/ fault' \notin {"null socket", "running thread overwritten"},
         pc'["message"] = "off" <=> pc["message"] = "off",
         pc'["worker"] = pc["worker"] \/ pc'["worker"] \in Working,
         link' = "none" <=> link = "none"
  PROVE  SocketInv'
BY DEF SocketInv, Working, SmtPcs

LEMMA SocketStep == ASSUME TypeOK, SocketInv, Next PROVE SocketInv'
<1> USE DEF TypeOK, Move, exchange, threads, wire, observer
<1>1. ASSUME UNCHANGED <<pc, joinable, link, ret, fault>> PROVE SocketInv'
  BY <1>1, SocketKept
<1>2. CASE Running(Call)
  BY <1>2, PcMoved, SocketKept DEF Running, Call, SendTelegram, WaitOnIdle, Stop
<1>3. ASSUME NEW t \in Callers, StopMessageThread(t) PROVE SocketInv'
  <2> USE DEF Callers
  <2>1. ASSUME pc[t] \in SmtPcs, NEW l \in SmtPcs, Goto(t, l),
               UNCHANGED <<joinable, link, ret, fault>>
        PROVE  SocketInv'
    BY <2>1, PcMoved DEF SocketInv, SmtPcs
  <2>2. ASSUME pc[t] \in SmtPcs, ~joinable, Goto(t, Returned(t)),
               UNCHANGED <<joinable, link, ret, fault>>
        PROVE  SocketInv'
    BY <2>2, PcMoved DEF SocketInv, SmtPcs, Returned, FlagsOK
  <2>3. CASE SmtEmpty(t) \/ SmtHandled(t) \/ SmtPatience(t) \/ SmtStop(t)
    BY <2>1, <2>3 DEF SmtEmpty, SmtHandled, SmtPatience, SmtStop, SmtPcs
  <2>4. CASE SmtEnter(t)
    BY <2>1, <2>2, <2>4 DEF SmtEnter, SmtPcs
  <2>5. CASE SmtJoin(t)
    <3>1. CASE \E o \in Callers \ {t} : pc[o] = "smt_joining"
      BY <2>5, <3>1, SocketKept DEF SmtJoin, Fail
    <3>2. CASE ~\E o \in Callers \ {t} : pc[o] = "smt_joining"
      BY <2>1, <2>2, <2>5, <3>2 DEF SmtJoin, SmtPcs
    <3> QED
      BY <3>1, <3>2
  <2>6. CASE SmtJoined(t)
    <3>1. /\ pc'["message"] = "off" /\ pc'[t] = Returned(t)
          /\ t = "app" => pc'["worker"] = pc["worker"]
      BY <2>6 DEF SmtJoined, PcOK
    <3> QED
      BY <2>6, <3>1 DEF SmtJoined, SocketInv, Returned, SmtPcs, FlagsOK
  <2> QED
    BY <1>3, <2>3, <2>4, <2>5, <2>6 DEF StopMessageThread
<1>4. CASE Running(App)
  <2>1. CASE StopMessageThread("app")
    BY <1>3, <2>1 DEF Callers
  <2>2. CASE IdleConnected \/ IdleEmpty \/ IdleHandled \/ StopContext \/ StopJoin
    BY <2>2, PcMoved, SocketKept DEF IdleConnected, IdleEmpty, IdleHandled,
                                     StopContext, StopJoin
  <2> QED
    BY <1>4, <2>1, <2>2 DEF Running, App
<1>5. CASE Running(Worker)
  <2>1. CASE Connect
    BY <2>1, PcMoved DEF Connect, SocketInv, SmtPcs
  <2>2. CASE StartThread
    <3>1. ~joinable /\ link # "none"
      BY <2>2 DEF StartThread, SocketInv
    <3>2. pc'["worker"] = "greet" /\ pc'["message"] = "loop"
      BY <2>2, <3>1 DEF StartThread, PcOK
    <3> QED
      BY <2>2, <3>1, <3>2 DEF StartThread, SocketInv, SmtPcs
  <2>3. CASE CloseSocket
    <3>1. ~joinable /\ pc["message"] = "off"
      BY <2>3 DEF CloseSocket, SocketInv
    <3>2. pc'["worker"] = "down" /\ pc'["message"] = "off"
      BY <2>3, <3>1, PcMoved DEF CloseSocket
    <3> QED
      BY <2>3, <3>1, <3>2 DEF CloseSocket, SocketInv, SmtPcs
  <2>4. CASE ReadError \/ SwitchNotProcessed
    <3>1. /\ ret' = "close_socket" /\ UNCHANGED <<joinable, link, fault>>
          /\ Goto("worker", "smt_enter")
      BY <2>4 DEF ReadError, SwitchNotProcessed, Close
    <3>2. pc'["worker"] = "smt_enter" /\ pc'["message"] = pc["message"]
      BY <3>1, PcMoved
    <3> QED
      BY <3>1, <3>2 DEF SocketInv, SmtPcs
  <2>5. CASE Greet \/ Greeted \/ WorkerExit
    BY <2>5, PcMoved, SocketKept DEF Greet, Greeted, WorkerExit, Working
  <2>6. CASE Receive \/ Attach \/ SwitchAck
    BY <2>6, PcMoved, SocketKept DEF Receive, Attach, SwitchAck, Fail, Working
  <2>7. CASE SwitchRepeat \/ SwitchFinal \/ Callback \/ Finish
    BY <2>7, PcMoved, SocketKept DEF SwitchRepeat, SwitchFinal, Callback, Finish, Fail,
                                     Working
  <2> QED
    BY <1>3, <1>5, <2>1, <2>2, <2>3, <2>4, <2>5, <2>6, <2>7 DEF Running, Worker, Callers
<1>6. CASE Running(Message)
  <2>1. CASE Send
    <3>1. link # "none"
      BY <2>1 DEF Send, SocketInv
    <3> QED
      BY <2>1, <3>1, PcMoved, SocketKept DEF Send
  <2>2. ASSUME pc["message"] # "off", NEW l, l # "off", Goto("message", l),
               UNCHANGED <<joinable, link, ret, fault>>
        PROVE  SocketInv'
    <3>1. pc'["message"] = l /\ pc'["worker"] = pc["worker"]
      BY <2>2, PcMoved
    <3> QED
      BY <2>2, <3>1, SocketKept
  <2>3. CASE Loop \/ Get \/ GetNothing \/ Check \/ WaitDone
    BY <2>2, <2>3 DEF Loop, Get, GetNothing, Check, WaitDone
  <2>4. CASE WaitSecond
    BY <1>1, <2>4 DEF WaitSecond
  <2> QED
    BY <1>6, <2>1, <2>2, <2>3, <2>4 DEF Running, Message
<1>7. CASE Over \/ Running(Server)
  BY <1>7, SocketKept DEF Over, vars, Running, Server, ServerFinal, ServerAck,
                          ServerRefuse, ServerUnsolicited, Break
<1> QED
  BY <1>2, <1>4, <1>5, <1>6, <1>7 DEF Next

LEMMA SocketInvariant == Spec => []SocketInv
<1>1. Init => SocketInv
  BY DEF Init, SocketInv, SmtPcs
<1>2. TypeOK /\ SocketInv /\ [Next]_vars => SocketInv'
  <2>1. ASSUME SocketInv, UNCHANGED vars PROVE SocketInv'
    BY <2>1 DEF SocketInv, vars, threads, wire
  <2> QED
    BY <2>1, SocketStep
<1> QED
  BY <1>1, <1>2, TypeCorrect, PTL DEF Spec

\* Close and StartMessageThread: whatever the application, the server and the
\* network do, the message thread never writes to a null socket, and a thread
\* object that is still running is never overwritten.
THEOREM SocketSafe == Spec => []SocketOutlivesThread
<1>1. SocketInv => SocketOutlivesThread
  BY DEF SocketInv, SocketOutlivesThread
<1> QED
  BY <1>1, SocketInvariant, PTL

-----------------------------------------------------------------------------
(* One telegram at a time: who owns the queue, the wire and the response,    *)
(* for every schedule of the threads and any number of telegrams: theorems   *)
(* CrashOnlyInStop, OneExchange and IdleMeansServed.                         *)

-----------------------------------------------------------------------------
(* Sequences.                                                                *)

LEMMA RangeAppend ==
  ASSUME NEW S, NEW s \in Seq(S), NEW e \in S
  PROVE  /\ Append(s, e) \in Seq(S) /\ Len(Append(s, e)) = Len(s) + 1
         /\ \A i \in 1..Len(s) : Append(s, e)[i] = s[i]
         /\ Append(s, e)[Len(s) + 1] = e
         /\ RangeOf(Append(s, e)) = RangeOf(s) \cup {e}
<1>1. /\ Append(s, e) \in Seq(S) /\ Len(Append(s, e)) = Len(s) + 1
      /\ \A i \in 1..Len(s) : Append(s, e)[i] = s[i]
      /\ Append(s, e)[Len(s) + 1] = e
  BY AppendProperties
<1>2. DOMAIN s = 1..Len(s) /\ DOMAIN Append(s, e) = 1..(Len(s) + 1) /\ Len(s) \in Nat
  BY <1>1, LenProperties
<1>3. \A i \in 1..(Len(s) + 1) : i \in 1..Len(s) \/ i = Len(s) + 1
  BY <1>2
<1>4. \A i \in 1..Len(s) : i \in 1..(Len(s) + 1)
  BY <1>2
<1>5. Len(s) + 1 \in 1..(Len(s) + 1)
  BY <1>2
<1>6. RangeOf(Append(s, e)) = RangeOf(s) \cup {e}
  BY <1>1, <1>2, <1>3, <1>4, <1>5 DEF RangeOf
<1> QED
  BY <1>1, <1>6

LEMMA RangeTail ==
  ASSUME NEW S, NEW s \in Seq(S), s # <<>>
  PROVE  /\ Head(s) \in S /\ Tail(s) \in Seq(S) /\ Head(s) = s[1]
         /\ Len(s) \in Nat \ {0} /\ Len(Tail(s)) = Len(s) - 1
         /\ \A i \in 1..(Len(s) - 1) : Tail(s)[i] = s[i + 1]
         /\ DOMAIN s = 1..Len(s) /\ DOMAIN Tail(s) = 1..(Len(s) - 1)
         /\ RangeOf(s) = RangeOf(Tail(s)) \cup {Head(s)}
<1>1. /\ Head(s) \in S /\ Tail(s) \in Seq(S) /\ Head(s) = s[1]
      /\ Len(s) \in Nat \ {0} /\ Len(Tail(s)) = Len(s) - 1
      /\ \A i \in 1..(Len(s) - 1) : Tail(s)[i] = s[i + 1]
      /\ DOMAIN s = 1..Len(s) /\ DOMAIN Tail(s) = 1..(Len(s) - 1)
  BY HeadTailProperties, EmptySeq, LenProperties
<1>2. \A i \in 1..Len(s) : i = 1 \/ (i - 1 \in 1..(Len(s) - 1) /\ s[i] = Tail(s)[i - 1])
  BY <1>1
<1>3. \A i \in 1..(Len(s) - 1) : i + 1 \in 1..Len(s)
  BY <1>1
<1>4. 1 \in 1..Len(s)
  BY <1>1
<1>5. RangeOf(s) \subseteq RangeOf(Tail(s)) \cup {Head(s)}
  <2> SUFFICES ASSUME NEW i \in 1..Len(s) PROVE s[i] \in RangeOf(Tail(s)) \cup {Head(s)}
    BY <1>1 DEF RangeOf
  <2> QED
    BY <1>1, <1>2 DEF RangeOf
<1>6. RangeOf(Tail(s)) \cup {Head(s)} \subseteq RangeOf(s)
  BY <1>1, <1>3, <1>4 DEF RangeOf
<1> QED
  BY <1>1, <1>5, <1>6

-----------------------------------------------------------------------------
(* Telegrams in the queue and telegrams that have left it.                   *)

\* A telegram is in the queue as long as it is queued, and once; of those that
\* have left it, one that is taken or sent is in current_message_ while the
\* message thread is between Get and the end of its wait.
QueueInv ==
  /\ \A id \in Ids : fate[id] = "queued" <=> id \in RangeOf(queue)
  /\ \A i, j \in 1..Len(queue) : queue[i] = queue[j] => i = j
  /\ \A id \in Ids : fate[id] = "taken" => id = current /\ pc["message"] \in {"check", "send"}
  /\ \A id \in Ids : fate[id] = "sent" => id = current /\ pc["message"] = "wait"
  /\ current # 0 => fate[current] # "queued"

\* What TelegramQueue::Put does to the telegrams there were and the new ones.
LEMMA PutFacts ==
  ASSUME TelegramsOK, NEW ks \in Seq(Kinds),
         NEW fates \in Seq(Fates), Len(fates) = Len(kind),
         PutAfter(fates, ks)
  PROVE  /\ Len(kind) \in Nat /\ Len(ks) \in Nat /\ Len(queue) \in Nat
         /\ Len(kind') = Len(kind) + Len(ks) /\ Len(queue') = Len(queue) + Len(ks)
         /\ \A id \in 1..Len(kind) : kind'[id] = kind[id] /\ fate'[id] = fates[id]
         /\ \A id \in Len(kind) + 1 .. Len(kind) + Len(ks) : fate'[id] = "queued"
         /\ \A i \in 1..Len(queue) : queue'[i] = queue[i]
         /\ \A i \in Len(queue) + 1 .. Len(queue) + Len(ks) :
              queue'[i] = Len(kind) + (i - Len(queue))
<1> DEFINE new == [i \in 1..Len(ks) |-> "queued"]
           ids == [i \in 1..Len(ks) |-> Len(kind) + i]
<1>1. Len(kind) \in Nat /\ Len(ks) \in Nat /\ Len(queue) \in Nat
  BY LenProperties DEF TelegramsOK
<1>2. new \in Seq({"queued"}) /\ Len(new) = Len(ks)
  <2>1. new \in [1..Len(ks) -> {"queued"}]
    OBVIOUS
  <2> QED
    BY <1>1, <2>1, LenOfList
<1>3. ids \in Seq(Nat) /\ Len(ids) = Len(ks)
  <2>1. ids \in [1..Len(ks) -> Nat]
    BY <1>1
  <2> QED
    BY <1>1, <2>1, LenOfList
<1>4. \A i \in 1..Len(ks) : new[i] = "queued" /\ ids[i] = Len(kind) + i
  OBVIOUS
<1>5. kind' = kind \o ks /\ fate' = fates \o new /\ queue' = queue \o ids
  BY DEF PutAfter
<1> HIDE DEF new, ids
<1>6. /\ Len(kind') = Len(kind) + Len(ks)
      /\ \A id \in 1..Len(kind) : kind'[id] = kind[id]
  BY <1>1, <1>5 DEF TelegramsOK
<1>7. /\ \A id \in 1..Len(kind) : fate'[id] = fates[id]
      /\ \A id \in Len(kind) + 1 .. Len(kind) + Len(ks) : fate'[id] = "queued"
  BY <1>1, <1>2, <1>4, <1>5
<1>8. /\ Len(queue') = Len(queue) + Len(ks)
      /\ \A i \in 1..Len(queue) : queue'[i] = queue[i]
      /\ \A i \in Len(queue) + 1 .. Len(queue) + Len(ks) :
           queue'[i] = Len(kind) + (i - Len(queue))
  <2>1. queue \in Seq(Nat)
    BY <1>1, SeqMonotonic DEF TelegramsOK, Ids
  <2>2. \A i \in Len(queue) + 1 .. Len(queue) + Len(ks) :
          i - Len(queue) \in 1..Len(ks) /\ queue'[i] = ids[i - Len(queue)]
    BY <1>1, <1>3, <1>5, <2>1
  <2>3. \A i \in Len(queue) + 1 .. Len(queue) + Len(ks) :
          queue'[i] = Len(kind) + (i - Len(queue))
    BY <1>4, <2>2
  <2>4. /\ Len(queue') = Len(queue) + Len(ks)
        /\ \A i \in 1..Len(queue) : queue'[i] = queue[i]
    <3>1. /\ Len(queue \o ids) = Len(queue) + Len(ids)
          /\ \A i \in 1..(Len(queue) + Len(ids)) :
               (queue \o ids)[i] = IF i <= Len(queue) THEN queue[i] ELSE ids[i - Len(queue)]
      BY <1>3, <2>1, ConcatProperties
    <3>2. \A i \in 1..Len(queue) : i \in 1..(Len(queue) + Len(ids)) /\ i <= Len(queue)
      BY <1>1, <1>3
    <3> QED
      BY <1>3, <1>5, <3>1, <3>2
  <2> QED
    BY <2>3, <2>4
<1> QED
  BY <1>1, <1>6, <1>7, <1>8

\* Every telegram that was put has a fate.
LEMMA FateDomain ==
  ASSUME TelegramsOK
  PROVE  fate \in [Ids -> Fates] /\ 0 \notin Ids
BY LenProperties DEF TelegramsOK, Ids

LEMMA SettleUpdate ==
  ASSUME TelegramsOK, NEW id \in 0..Len(kind), NEW f, Settle(id, f)
  PROVE  \A n \in Ids : fate'[n] = IF n = id /\ ~Settled(n) THEN f ELSE fate[n]
<1>1. Len(kind) \in Nat /\ (id # 0 => id \in Ids)
  BY LenProperties DEF TelegramsOK, Ids
<1> QED
  BY <1>1, FateDomain DEF Settle

LEMMA QueueKept ==
  ASSUME QueueInv, UNCHANGED <<kind, fate, queue, current>>,
         pc'["message"] = pc["message"] \/ pc["message"] \notin {"check", "send", "wait"}
  PROVE  QueueInv'
BY DEF QueueInv, Ids, RangeOf

\* The telegram in current_message_ moves on, unless it has been settled.
LEMMA QueueMoved ==
  ASSUME TelegramsOK, QueueInv, NEW f \in {"sent", "dropped", "abandoned"},
         UNCHANGED <<kind, queue>>, current' \in {0, current},
         f = "sent" => current' = current /\ pc'["message"] = "wait",
         \A n \in Ids : fate'[n] = IF n = current /\ ~Settled(n) THEN f ELSE fate[n]
  PROVE  QueueInv'
<1>1. Ids' = Ids /\ RangeOf(queue') = RangeOf(queue) /\ Len(queue') = Len(queue)
  BY DEF Ids, RangeOf
<1>2. current # 0 => current \in Ids
  BY LenProperties DEF TelegramsOK, Ids
<1>3. \A n \in Ids : fate'[n] = "queued" <=> fate[n] = "queued"
  BY FateDomain DEF QueueInv, Settled
<1>4. \A n \in Ids : fate'[n] # "taken"
  BY DEF QueueInv, Settled
<1>5. \A n \in Ids : fate'[n] = "sent" => n = current /\ f = "sent"
  BY DEF QueueInv, Settled
<1>6. \A id \in Ids' : fate'[id] = "queued" <=> id \in RangeOf(queue')
  BY <1>1, <1>3 DEF QueueInv
<1>7. \A i, j \in 1..Len(queue') : queue'[i] = queue'[j] => i = j
  BY DEF QueueInv
<1>8. current' # 0 => fate'[current'] # "queued"
  BY <1>2, <1>3 DEF QueueInv
<1> QED
  BY <1>1, <1>4, <1>5, <1>6, <1>7, <1>8 DEF QueueInv

LEMMA QueuePut ==
  ASSUME TelegramsOK, QueueInv, NEW ks \in Seq(Kinds),
         NEW fates \in Seq(Fates), Len(fates) = Len(kind),
         PutAfter(fates, ks), current' = current,
         pc'["message"] = pc["message"] \/ pc["message"] \notin {"check", "send", "wait"},
         \A id \in Ids : \/ fates[id] = fate[id]
                         \/ fate[id] # "queued" /\ fates[id] \notin {"queued", "taken", "sent"}
  PROVE  QueueInv'
<1> DEFINE n == Len(kind)
           m == Len(queue)
           k == Len(ks)
<1>1. /\ n \in Nat /\ m \in Nat /\ k \in Nat /\ Len(kind') = n + k /\ Len(queue') = m + k
      /\ \A id \in 1..n : fate'[id] = fates[id]
      /\ \A id \in n + 1 .. n + k : fate'[id] = "queued"
      /\ \A i \in 1..m : queue'[i] = queue[i]
      /\ \A i \in m + 1 .. m + k : queue'[i] = n + (i - m)
  BY PutFacts
<1>2. /\ DOMAIN queue = 1..m /\ DOMAIN queue' = 1..(m + k)
      /\ \A i \in 1..m : queue[i] \in 1..n
  <2>1. queue \in Seq(1..n) /\ queue' \in Seq(1..Len(kind'))
    BY PutType DEF TelegramsOK, Ids
  <2> QED
    BY <1>1, <2>1, LenProperties, ElementOfSeq
<1> HIDE DEF n, m, k
<1>3. Ids = 1..n /\ Ids' = 1..(n + k)
  BY <1>1 DEF Ids, n
<1>4. \A i \in 1..(m + k) : i \in 1..m \/ i \in m + 1 .. m + k
  BY <1>1
<1>5. \A id \in 1..n : fate'[id] = "queued" <=> id \in RangeOf(queue')
  <2>1. \A i \in m + 1 .. m + k : queue'[i] \notin 1..n
    BY <1>1
  <2>2. \A id \in 1..n : id \in RangeOf(queue) <=> id \in RangeOf(queue')
    <3> TAKE id \in 1..n
    <3>1. \A i \in 1..m : i \in 1..(m + k)
      BY <1>1
    <3>2. ASSUME NEW i \in 1..m, queue[i] = id PROVE id \in RangeOf(queue')
      BY <1>1, <1>2, <3>1, <3>2 DEF RangeOf
    <3>3. ASSUME NEW i \in 1..(m + k), queue'[i] = id PROVE id \in RangeOf(queue)
      BY ZenonT(40), <1>1, <1>2, <1>4, <2>1, <3>3 DEF RangeOf
    <3> QED
      BY <1>2, <3>2, <3>3 DEF RangeOf
  <2>3. \A id \in 1..n : fate'[id] = "queued" <=> fate[id] = "queued"
    BY <1>1, <1>3
  <2> QED
    BY <1>3, <2>2, <2>3 DEF QueueInv
<1>6. \A id \in n + 1 .. n + k : id \in RangeOf(queue')
  <2> TAKE id \in n + 1 .. n + k
  <2>1. id + m - n \in m + 1 .. m + k
    BY <1>1
  <2>2. queue'[id + m - n] = id /\ id + m - n \in 1..(m + k)
    BY <1>1, <2>1
  <2> QED
    BY <1>2, <2>2 DEF RangeOf
<1>7. \A id \in 1..(n + k) : id \in 1..n \/ id \in n + 1 .. n + k
  BY <1>1
<1>8. \A id \in Ids' : fate'[id] = "queued" <=> id \in RangeOf(queue')
  BY <1>1, <1>3, <1>5, <1>6, <1>7
<1>9. \A i, j \in 1..(m + k) : queue'[i] = queue'[j] => i = j
  <2>1. \A i, j \in 1..m : queue'[i] = queue'[j] => i = j
    BY <1>1 DEF QueueInv, m
  <2>2. \A i, j \in m + 1 .. m + k : queue'[i] = queue'[j] => i = j
    BY <1>1
  <2>3. \A i \in 1..m, j \in m + 1 .. m + k : queue'[i] # queue'[j]
    BY <1>1, <1>2
  <2> QED
    BY <1>4, <2>1, <2>2, <2>3
<1>10. \A id \in Ids' : fate'[id] \in {"taken", "sent"} => id \in Ids /\ fate'[id] = fate[id]
  BY <1>1, <1>3, <1>7
<1>11. current # 0 => fate'[current] # "queued"
  <2>1. current # 0 => current \in 1..n
    BY <1>1 DEF TelegramsOK, n
  <2> QED
    BY <1>1, <1>3, <2>1 DEF QueueInv
<1> QED
  BY <1>1, <1>8, <1>9, <1>10, <1>11 DEF QueueInv

LEMMA QueueStep == ASSUME TypeOK, SocketInv, QueueInv, Next PROVE QueueInv'
<1> USE DEF TypeOK, Move, exchange, threads, wire, observer
<1>0. /\ Len(kind) \in Nat /\ current \in 0..Len(kind) /\ using \in 0..Len(kind)
      /\ fate \in Seq(Fates) /\ Len(fate) = Len(kind)
      /\ current # 0 => current \in Ids
  BY LenProperties DEF TelegramsOK, Ids
<1>1. CASE Running(Call)
  <2>1. CASE SendTelegram
    <3>1. PICK k \in AppKinds : Put(<<k>>)
      BY <2>1 DEF SendTelegram
    <3>2. <<k>> \in Seq(Kinds)
      BY KindsAssumption
    <3> QED
      BY <1>0, <2>1, <3>1, <3>2, QueuePut DEF SendTelegram, Put
  <2>2. CASE Stop
    <3>1. <<Exit>> \in Seq(Kinds)
      BY KindsAssumption
    <3>2. pc'["message"] = pc["message"]
      BY <2>2, PcMoved DEF Stop
    <3> QED
      BY <1>0, <2>2, <3>1, <3>2, QueuePut DEF Stop, Put
  <2>3. CASE WaitOnIdle
    BY <2>3, QueueKept, PcMoved DEF WaitOnIdle
  <2> QED
    BY <1>1, <2>1, <2>2, <2>3 DEF Running, Call
<1>2. ASSUME NEW t \in Callers, StopMessageThread(t) PROVE QueueInv'
  <2>1. CASE SmtEnter(t) \/ SmtEmpty(t) \/ SmtHandled(t) \/ SmtPatience(t) \/ SmtStop(t)
    BY <2>1, QueueKept, PcMoved DEF SmtEnter, SmtEmpty, SmtHandled, SmtPatience, SmtStop,
                                    Callers
  <2>2. CASE SmtJoin(t)
    BY <2>2, QueueKept, PcMoved DEF SmtJoin, Fail, Callers
  <2>3. CASE SmtJoined(t)
    BY <2>3, QueueKept DEF SmtJoined
  <2> QED
    BY <1>2, <2>1, <2>2, <2>3 DEF StopMessageThread
<1>3. CASE Running(App)
  <2>1. CASE IdleConnected \/ IdleEmpty \/ IdleHandled \/ StopContext \/ StopJoin
    BY <2>1, QueueKept, PcMoved DEF IdleConnected, IdleEmpty, IdleHandled, StopContext,
                                    StopJoin
  <2> QED
    BY <1>2, <1>3, <2>1 DEF Running, App, Callers
<1>4. CASE Running(Worker)
  <2>1. CASE Connect \/ Greeted \/ CloseSocket \/ ReadError \/ WorkerExit
    BY <2>1, QueueKept, PcMoved DEF Connect, Greeted, CloseSocket, ReadError, Close,
                                    WorkerExit
  <2>2. CASE Receive \/ Attach \/ SwitchNotProcessed \/ SwitchAck
    BY <2>2, QueueKept, PcMoved DEF Receive, Attach, SwitchNotProcessed, Close, SwitchAck,
                                    Fail
  <2>3. CASE SwitchRepeat \/ SwitchFinal \/ Finish
    BY <2>3, QueueKept, PcMoved DEF SwitchRepeat, SwitchFinal, Finish, Fail
  <2>4. CASE StartThread
    <3>1. CASE joinable
      BY <2>4, <3>1, QueueKept DEF StartThread, Fail
    <3>2. CASE ~joinable
      <4>1. pc["message"] = "off"
        BY <3>2 DEF SocketInv
      <4>2. DOMAIN fate = Ids /\ Ids' = Ids
        BY <1>0, <2>4, <3>2, LenProperties DEF StartThread, Ids
      <4>3. \A id \in Ids : fate'[id] = IF fate[id] = "queued" THEN "dropped" ELSE fate[id]
        BY <2>4, <3>2, <4>2 DEF StartThread
      <4>4. queue' = <<>> /\ current' = current /\ Len(queue') = 0 /\ RangeOf(queue') = {}
        BY <2>4, <3>2 DEF StartThread, RangeOf
      <4>5. \A id \in Ids : fate'[id] \notin {"queued", "taken", "sent"}
        BY <4>1, <4>3 DEF QueueInv
      <4> QED
        BY <1>0, <4>2, <4>4, <4>5 DEF QueueInv
    <3> QED
      BY <3>1, <3>2
  <2>5. CASE Greet
    <3>1. greeted + 1 \in 1..Len(Startup)
      BY <2>5, KindsAssumption, LenProperties DEF Greet, CountsOK
    <3>2. <<Startup[greeted + 1]>> \in Seq(Kinds)
      BY <3>1, KindsAssumption, ElementOfSeq
    <3> QED
      BY <1>0, <2>5, <3>2, QueuePut DEF Greet, Put
  <2>6. CASE Callback
    <3>1. CASE current # using
      BY <2>6, <3>1, QueueKept DEF Callback, Fail
    <3>2. CASE current = using /\ attached = NoReply
      BY <2>6, <3>2, QueueKept, PcMoved DEF Callback
    <3>3. CASE current = using /\ attached # NoReply
      <4> DEFINE fates == [fate EXCEPT ![using] = Completion]
                 ks == FollowUp[kind[using]][attached.status = "OK"]
      <4>1. using \in Ids /\ fate[using] # "queued"
        BY <1>0, <2>6, <3>3 DEF Callback, PointersOK, QueueInv
      <4>2. kind[using] \in Kinds
        BY <4>1, ElementOfSeq DEF TelegramsOK, Ids
      <4>3. ks \in Seq(Kinds)
        BY <4>2, KindsAssumption
      <4>4. Completion \in Fates /\ Completion \notin {"queued", "taken", "sent"}
        BY DEF Completion, Fates
      <4>5. fates \in Seq(Fates) /\ Len(fates) = Len(kind)
        BY <4>1, <4>4, FateType
      <4>6. \A id \in Ids : fates[id] = IF id = using THEN Completion ELSE fate[id]
        BY <4>1, FateDomain
      <4>7. PutAfter(fates, ks) /\ current' = current /\ pc'["message"] = pc["message"]
        BY <2>6, <3>3, PcMoved DEF Callback
      <4> HIDE DEF fates, ks
      <4> QED
        BY <4>1, <4>3, <4>4, <4>5, <4>6, <4>7, QueuePut
    <3> QED
      BY <3>1, <3>2, <3>3
  <2> QED
    BY <1>2, <1>4, <2>1, <2>2, <2>3, <2>4, <2>5, <2>6 DEF Running, Worker, Callers
<1>5. CASE Running(Message)
  <2>1. CASE Loop \/ GetNothing \/ WaitSecond
    BY <2>1, QueueKept, PcMoved DEF Loop, GetNothing, WaitSecond
  <2>2. CASE Get
    <3>1. /\ Head(queue) \in Ids /\ Head(queue) = queue[1]
          /\ Len(queue) \in Nat \ {0} /\ Len(queue') = Len(queue) - 1
          /\ \A i \in 1..(Len(queue) - 1) : queue'[i] = queue[i + 1]
          /\ DOMAIN queue' = 1..(Len(queue) - 1)
          /\ RangeOf(queue) = RangeOf(queue') \cup {Head(queue)}
      BY <2>2, RangeTail DEF Get, TelegramsOK
    <3>2. \A n \in Ids : fate'[n] = IF n = Head(queue) THEN "taken" ELSE fate[n]
      <4>1. fate' = [fate EXCEPT ![Head(queue)] = "taken"]
        BY <2>2 DEF Get
      <4> QED
        BY <3>1, <4>1, FateDomain
    <3>3. /\ Ids' = Ids /\ current' = Head(queue)
          /\ pc["message"] = "get" /\ pc'["message"] = "check"
      BY <2>2, PcMoved DEF Get, Ids
    <3>4. Head(queue) \notin RangeOf(queue')
      <4> SUFFICES ASSUME NEW i \in 1..(Len(queue) - 1), queue[i + 1] = queue[1]
                   PROVE  FALSE
        BY <3>1 DEF RangeOf
      <4>1. i + 1 \in 1..Len(queue) /\ 1 \in 1..Len(queue) /\ i + 1 # 1
        BY <3>1
      <4> QED
        BY <4>1 DEF QueueInv
    <3>5. \A i, j \in 1..Len(queue') : queue'[i] = queue'[j] => i = j
      <4> SUFFICES ASSUME NEW i \in 1..(Len(queue) - 1), NEW j \in 1..(Len(queue) - 1),
                          queue[i + 1] = queue[j + 1]
                   PROVE  i = j
        BY <3>1
      <4>1. i + 1 \in 1..Len(queue) /\ j + 1 \in 1..Len(queue)
        BY <3>1
      <4>2. i + 1 = j + 1
        BY <4>1 DEF QueueInv
      <4> QED
        BY <4>2
    <3> QED
      BY <3>1, <3>2, <3>3, <3>4, <3>5 DEF QueueInv
  <2>3. CASE Check
    <3>1. CASE stopping
      <4>1. \A n \in Ids : fate'[n] = IF n = current /\ ~Settled(n) THEN "dropped" ELSE fate[n]
        BY <1>0, <2>3, <3>1, SettleUpdate DEF Check
      <4> QED
        BY <2>3, <3>1, <4>1, QueueMoved DEF Check
    <3>2. CASE ~stopping
      BY <2>3, <3>2, PcMoved DEF Check, QueueInv, Ids, RangeOf
    <3> QED
      BY <3>1, <3>2
  <2>4. CASE Send
    <3>1. link # "none" /\ current \in Ids
      BY <1>0, <2>4 DEF Send, SocketInv, PointersOK
    <3>2. UNCHANGED <<kind, queue, current>> /\ pc'["message"] = "wait"
      BY <2>4, <3>1, PcMoved DEF Send
    <3>3. \A n \in Ids : fate'[n] = IF n = current /\ ~Settled(n) THEN "sent" ELSE fate[n]
      BY <2>4, <3>1, FateDomain DEF Send
    <3> QED
      BY <3>2, <3>3, QueueMoved
  <2>5. CASE WaitDone
    <3>1. \A n \in Ids : fate'[n] = IF n = current /\ ~Settled(n) THEN "abandoned" ELSE fate[n]
      BY <1>0, <2>5, SettleUpdate DEF WaitDone
    <3> QED
      BY <2>5, <3>1, QueueMoved DEF WaitDone
  <2> QED
    BY <1>5, <2>1, <2>2, <2>3, <2>4, <2>5 DEF Running, Message
<1>6. CASE Over \/ Running(Server)
  BY <1>6, QueueKept DEF Over, vars, Running, Server, ServerFinal, ServerAck, ServerRefuse,
                         ServerUnsolicited, Break
<1> QED
  BY <1>1, <1>3, <1>4, <1>5, <1>6 DEF Next

-----------------------------------------------------------------------------
(* What the places of the threads say of Stop and of StopMessageThread.      *)

LEMMA SpareStep ==
  ASSUME TypeOK, Next
  PROVE  spare'["unsolicited"] <= spare["unsolicited"]
<1> USE DEF exchange, threads, wire, observer
<1>0. spare["unsolicited"] \in Nat /\ spare \in [Quirks -> Nat] /\ "unsolicited" \in Quirks
  BY DEF TypeOK, WireOK, Quirks
<1>1. Spend("connect") \/ Spend("ack") \/ Spend("refuse")
      \/ Spend("break") \/ Spend("unsolicited") \/ UNCHANGED spare
  <2>1. CloseSocket \/ Receive \/ Attach \/ SwitchNotProcessed \/ SwitchAck => UNCHANGED spare
    BY DEF CloseSocket, Receive, Attach, SwitchNotProcessed, SwitchAck, Fail
  <2>2. SwitchRepeat \/ Finish \/ Get \/ Send \/ WaitDone => UNCHANGED spare
    BY DEF SwitchRepeat, Finish, Get, Send, WaitDone, Fail
  <2>3. Connect => Spend("connect")
    BY DEF Connect
  <2>4. Server => \/ Spend("ack") \/ Spend("refuse")
                  \/ Spend("break") \/ Spend("unsolicited") \/ UNCHANGED spare
    BY DEF Server, ServerFinal, ServerAck, ServerRefuse, ServerUnsolicited, Break
  <2> QED
    BY <2>1, <2>2, <2>3, <2>4, WireTouched
<1> QED
  BY <1>0, <1>1 DEF Spend, Quirks

\* A step of StopMessageThread moves its caller, and at the end takes away the
\* message thread that has exited; it may set stop_message_ and nothing else.
LEMMA SmtMoves ==
  ASSUME TypeOK, NEW t \in Callers, StopMessageThread(t)
  PROVE  /\ UNCHANGED <<kind, fate, queue, current, attached, handled, waited, connected,
                        reply, using, greeted, ret, ended, wire, observer>>
         /\ stopping => stopping'
         /\ joinable' => joinable
         /\ pc[t] \in SmtPcs
         /\ \A o \in Callers \ {t} : pc'[o] = pc[o]
         /\ \/ pc'["message"] = pc["message"]
            \/ pc["message"] = "exited" /\ pc'["message"] = "off"
         /\ \/ /\ pc' = pc
               /\ fault' = "joined by two threads"
               /\ \E o \in Callers \ {t} : pc[o] = "smt_joining"
            \/ /\ fault' = fault
               /\ pc'[t] \in SmtPcs \/ (pc'[t] = Returned(t) /\ ~joinable')
<1> USE DEF TypeOK, Callers, Move
<1>1. /\ UNCHANGED <<kind, fate, queue, current, attached, handled, waited, connected,
                     reply, using, greeted, ret, ended, wire, observer>>
      /\ stopping => stopping'
      /\ joinable' => joinable
  <2> USE DEF exchange, threads, wire, observer
  <2>1. CASE SmtEnter(t) \/ SmtEmpty(t) \/ SmtHandled(t) \/ SmtPatience(t)
    BY <2>1 DEF SmtEnter, SmtEmpty, SmtHandled, SmtPatience
  <2>2. CASE SmtStop(t) \/ SmtJoined(t)
    BY <2>2 DEF SmtStop, SmtJoined
  <2>3. CASE SmtJoin(t)
    BY <2>3 DEF SmtJoin, Fail
  <2> QED
    BY <2>1, <2>2, <2>3 DEF StopMessageThread
<1> DEFINE Moves ==
  /\ pc[t] \in SmtPcs
  /\ \A o \in Callers \ {t} : pc'[o] = pc[o]
  /\ \/ pc'["message"] = pc["message"]
     \/ pc["message"] = "exited" /\ pc'["message"] = "off"
  /\ \/ /\ pc' = pc
        /\ fault' = "joined by two threads"
        /\ \E o \in Callers \ {t} : pc[o] = "smt_joining"
     \/ /\ fault' = fault
        /\ pc'[t] \in SmtPcs \/ (pc'[t] = Returned(t) /\ ~joinable')
<1>2. ASSUME pc[t] \in SmtPcs, NEW l, Goto(t, l), fault' = fault,
             l \in SmtPcs \/ (l = Returned(t) /\ ~joinable')
      PROVE  Moves
  <2>1. pc'[t] = l /\ pc'["message"] = pc["message"] /\ \A o \in Callers \ {t} : pc'[o] = pc[o]
    BY <1>2, PcMoved
  <2> QED
    BY <1>2, <2>1
<1> HIDE DEF Moves
<1>3. ASSUME SmtEmpty(t) \/ SmtHandled(t) \/ SmtPatience(t) \/ SmtStop(t) PROVE Moves
  BY <1>2, <1>3 DEF SmtEmpty, SmtHandled, SmtPatience, SmtStop, SmtPcs
<1>4. ASSUME SmtEnter(t) PROVE Moves
  BY <1>2, <1>4 DEF SmtEnter, SmtPcs, threads
<1>5. ASSUME SmtJoin(t) PROVE Moves
  <2>1. CASE \E o \in Callers \ {t} : pc[o] = "smt_joining"
    <3>1. pc' = pc /\ pc[t] = "smt_join" /\ fault' = "joined by two threads"
      BY <1>5, <2>1 DEF SmtJoin, Fail
    <3> QED
      BY <2>1, <3>1 DEF SmtPcs, Moves
  <2>2. CASE ~\E o \in Callers \ {t} : pc[o] = "smt_joining"
    <3>1. /\ pc[t] = "smt_join" /\ fault' = fault /\ joinable' = joinable
          /\ Goto(t, IF joinable THEN "smt_joining" ELSE Returned(t))
      BY <1>5, <2>2 DEF SmtJoin, threads
    <3> QED
      BY <1>2, <3>1 DEF SmtPcs
  <2> QED
    BY <2>1, <2>2
<1>6. ASSUME SmtJoined(t) PROVE Moves
  <2>1. /\ pc'[t] = Returned(t) /\ pc["message"] = "exited" /\ pc'["message"] = "off"
        /\ \A o \in Callers \ {t} : pc'[o] = pc[o]
    BY <1>6 DEF SmtJoined, PcOK
  <2> QED
    <3>1. pc[t] = "smt_joining" /\ fault' = fault /\ ~joinable'
      BY <1>6 DEF SmtJoined
    <3> QED
      BY <2>1, <3>1 DEF SmtPcs, Moves
<1>7. Moves
  BY <1>3, <1>4, <1>5, <1>6 DEF StopMessageThread
<1> QED
  BY <1>1, <1>7 DEF Moves

\* A step of the application outside StopMessageThread, or of Greet, touches
\* neither the wire nor what the worker and the message thread hold.
Calm ==
  /\ UNCHANGED <<current, attached, handled, stopping, waited, joinable, reply, using, ret,
                 wire, fault>>
  /\ pc'["worker"] = pc["worker"] /\ pc'["message"] = pc["message"]
  /\ \A id \in Ids : kind'[id] = kind[id] /\ fate'[id] = fate[id]
  /\ Len(kind') >= Len(kind)
  /\ Stopping => Stopping'

LEMMA CalmSteps ==
  ASSUME TypeOK, \/ Over \/ Running(Call) \/ Greet
                 \/ IdleConnected \/ IdleEmpty \/ IdleHandled \/ StopContext \/ StopJoin
  PROVE  Calm
<1> USE DEF TypeOK, Calm, Stopping, StopPcs, SmtPcs, Move, exchange, threads, wire, observer
<1>0. /\ Len(kind) \in Nat /\ Ids = 1..Len(kind)
      /\ fate \in Seq(Fates) /\ Len(fate) = Len(kind)
  BY LenProperties DEF TelegramsOK, Ids
<1>1. ASSUME NEW ks \in Seq(Kinds), Put(ks)
      PROVE  /\ \A id \in Ids : kind'[id] = kind[id] /\ fate'[id] = fate[id]
             /\ Len(kind') >= Len(kind)
  BY <1>0, <1>1, PutFacts DEF Put
<1>2. CASE Over \/ IdleConnected \/ IdleEmpty \/ IdleHandled \/ StopContext \/ StopJoin
  BY <1>0, <1>2, PcMoved DEF Over, vars, IdleConnected, IdleEmpty, IdleHandled, StopContext,
                             StopJoin
<1>3. CASE WaitOnIdle
  BY <1>0, <1>3, PcMoved DEF WaitOnIdle
<1>4. CASE SendTelegram
  <2>1. PICK k \in AppKinds : Put(<<k>>)
    BY <1>4 DEF SendTelegram
  <2>2. <<k>> \in Seq(Kinds)
    BY KindsAssumption
  <2> QED
    BY <1>1, <1>4, <2>1, <2>2 DEF SendTelegram
<1>5. CASE Stop
  <2>1. <<Exit>> \in Seq(Kinds)
    BY KindsAssumption
  <2> QED
    BY <1>1, <1>5, <2>1, PcMoved DEF Stop
<1>6. CASE Greet
  <2>1. greeted + 1 \in 1..Len(Startup)
    BY <1>6, KindsAssumption, LenProperties DEF Greet, CountsOK
  <2>2. <<Startup[greeted + 1]>> \in Seq(Kinds)
    BY <2>1, KindsAssumption, ElementOfSeq
  <2> QED
    BY <1>1, <1>6, <2>2 DEF Greet
<1> QED
  BY <1>2, <1>3, <1>4, <1>5, <1>6 DEF Running, Call

Held == pc["worker"] \in {"attach", "switch", "callback", "finish"}

\* The budget only shrinks; between Connect and StartMessageThread there is no
\* message thread; and outside StopMessageThread the worker finds stop_message_
\* set only when the application is stopping the client.
PlacesInv ==
  /\ spare["unsolicited"] <= Budget["unsolicited"]
  /\ pc["worker"] \in SmtPcs /\ ret = "start" => ~joinable
  /\ Held \/ pc["worker"] \in {"greet", "read"} => Stopping \/ ~stopping

LEMMA PlacesStep == ASSUME TypeOK, SocketInv, PlacesInv, Next PROVE PlacesInv'
<1> USE DEF TypeOK, Callers, exchange, threads, wire, observer
<1> DEFINE Rest ==
      /\ pc["worker"] \in SmtPcs /\ ret = "start" => ~joinable
      /\ Held \/ pc["worker"] \in {"greet", "read"} => Stopping \/ ~stopping
<1>0. SUFFICES Rest'
  <2>1. /\ spare["unsolicited"] \in Nat /\ Budget["unsolicited"] \in Nat
        /\ spare' \in [Quirks -> Nat] /\ "unsolicited" \in Quirks
    BY WireStep, BoundsAssumption DEF WireOK, Quirks
  <2>2. spare'["unsolicited"] <= Budget["unsolicited"]
    BY <2>1, SpareStep DEF PlacesInv
  <2> QED
    BY <2>2 DEF PlacesInv
<1> USE DEF PlacesInv, Held
<1>1. CASE Over \/ Running(Call) \/ Greet \/ IdleConnected \/ IdleEmpty \/ IdleHandled
           \/ StopContext \/ StopJoin
  BY <1>1, CalmSteps DEF Calm
<1>2. ASSUME NEW t \in Callers, StopMessageThread(t) PROVE Rest'
  BY <1>2, SmtMoves DEF Returned, FlagsOK, SmtPcs, Stopping, StopPcs
<1>3. CASE Running(Worker)
  <2>0. ASSUME UNCHANGED <<joinable, ret, stopping>>, NEW l, Goto("worker", l), l \notin SmtPcs,
               \/ l \notin {"greet", "read", "attach", "switch", "callback", "finish"}
               \/ Held \/ pc["worker"] \in {"greet", "read"}
        PROVE  Rest'
    BY <2>0, PcMoved DEF Stopping
  <2>1. CASE Connect
    <3>1. ~joinable /\ ~joinable' /\ pc'["worker"] = "smt_enter"
      BY <2>1, PcMoved DEF Connect, Move, SocketInv
    <3> QED
      BY <3>1
  <2>2. CASE StartThread
    <3>1. ~joinable /\ ~stopping' /\ pc'["worker"] = "greet"
      BY <2>2 DEF StartThread, SocketInv, PcOK
    <3> QED
      BY <3>1 DEF SmtPcs
  <2>3. CASE ReadError \/ SwitchNotProcessed
    <3>1. ret' = "close_socket" /\ pc'["worker"] = "smt_enter"
      BY <2>3, PcMoved DEF ReadError, SwitchNotProcessed, Close, Move
    <3> QED
      BY <3>1
  <2>4. CASE Greeted \/ CloseSocket \/ WorkerExit \/ Receive \/ SwitchAck
    BY <2>0, <2>4 DEF Greeted, CloseSocket, WorkerExit, Receive, SwitchAck, Move, SmtPcs
  <2>5. CASE Attach \/ SwitchRepeat \/ SwitchFinal \/ Callback \/ Finish
    <3>1. ASSUME UNCHANGED <<joinable, ret, stopping, pc>> PROVE Rest'
      BY <3>1 DEF Stopping
    <3>2. CASE Attach \/ Finish
      BY <2>0, <3>1, <3>2 DEF Attach, Finish, Fail, Move, SmtPcs
    <3>3. CASE SwitchRepeat \/ SwitchFinal \/ Callback
      BY <2>0, <3>1, <3>3 DEF SwitchRepeat, SwitchFinal, Callback, Fail, SmtPcs
    <3> QED
      BY <2>5, <3>2, <3>3
  <2> QED
    BY <1>1, <1>2, <1>3, <2>1, <2>2, <2>3, <2>4, <2>5 DEF Running, Worker
<1>4. CASE Running(Message)
  <2>1. ASSUME UNCHANGED <<joinable, ret, stopping>>,
               pc' = pc \/ \E l : Goto("message", l)
        PROVE  Rest'
    BY <2>1, PcMoved DEF Stopping
  <2>2. Loop \/ Get \/ GetNothing \/ Check =>
          UNCHANGED <<joinable, ret, stopping>> /\ (pc' = pc \/ \E l : Goto("message", l))
    BY DEF Loop, Get, GetNothing, Check, Move
  <2>3. Send \/ WaitSecond \/ WaitDone =>
          UNCHANGED <<joinable, ret, stopping>> /\ (pc' = pc \/ \E l : Goto("message", l))
    BY DEF Send, WaitSecond, WaitDone, Fail, Move
  <2> QED
    BY <1>4, <2>1, <2>2, <2>3 DEF Running, Message
<1>5. CASE Running(Server)
  <2>1. UNCHANGED <<joinable, ret, stopping, pc>>
    BY <1>5 DEF Running, Server, ServerFinal, ServerAck, ServerRefuse, ServerUnsolicited, Break
  <2> QED
    BY <2>1 DEF Stopping
<1> QED
  BY <1>1, <1>2, <1>3, <1>4, <1>5 DEF Next, Running, App

-----------------------------------------------------------------------------
(* One exchange at a time.                                                   *)

Silent == toServer = <<>> /\ toClient = <<>> /\ ~Held
Waiting == pc["message"] = "wait"

\* Whose turn it is: something is out only while the message thread waits for
\* it, or when it has been told to stop and holds no telegram any more; nothing
\* is out between two connections; a request is not sent before the flag that
\* ends the wait is reset; and the server answers before the wait runs out.
TurnInv ==
  /\ \/ Silent
     \/ Waiting /\ ~handled
     \/ stopping /\ current = 0 /\ pc["message"] \in {"loop", "exited", "off"}
  /\ \/ pc["worker"] \in {"down", "start"}
     \/ pc["worker"] \in SmtPcs /\ ret = "start"
     => Silent
  /\ pc["message"] = "send" => ~handled
  /\ waited < MaxWait

\* Nothing follows a response that ends an exchange.
OrderInv ==
  /\ Len(toServer) <= 1
  /\ \A i \in 1..Len(toClient) :
       toClient[i].status # "ACK" => i = Len(toClient) /\ toServer = <<>>
  /\ Held /\ reply.status # "ACK" => toServer = <<>> /\ toClient = <<>>
  /\ pc["worker"] \in {"callback", "finish"} => reply.status # "ACK"

\* What is out belongs to the telegram that is waited for, and the worker works
\* on that telegram.
MatchInv == Waiting =>
  /\ \A r \in RangeOf(toServer) : r.id = current /\ r.cmd = CmdOf[kind[current]]
  /\ \A r \in RangeOf(toClient) : r.to = current /\ r.cmd = CmdOf[kind[current]]
  /\ Held => /\ reply.to = current /\ reply.cmd = CmdOf[kind[current]]
             /\ using = current
  /\ pc["worker"] \in {"switch", "callback"} => attached = reply

\* The telegram that is waited for is not settled before its callback has run,
\* and it is when the wait ends, unless the connection is being restarted.
FateInv ==
  /\ pc["message"] \in {"check", "send"} => fate[current] = "taken"
  /\ Waiting /\ ~handled /\ pc["worker"] # "finish" => fate[current] = "sent"
  /\ Waiting /\ pc["worker"] = "finish" => Settled(current)
  /\ Waiting /\ handled =>
       Settled(current) \/ (pc["worker"] \in SmtPcs /\ ret = "close_socket")

CrashInv == fault # "none" => Stopping

LineInv == TurnInv /\ OrderInv /\ MatchInv /\ FateInv /\ CrashInv

\* Everything that holds whatever the server does.
BaseInv == TypeOK /\ SocketInv /\ QueueInv /\ PlacesInv

\* The telegram that the message thread works on has been put.
LEMMA CurrentPut ==
  ASSUME TypeOK, pc["message"] \in {"check", "send", "wait"}
  PROVE  current # 0 /\ current \in Ids
BY LenProperties DEF TypeOK, PointersOK, TelegramsOK, Ids

LEMMA LineCalm == ASSUME BaseInv, LineInv, Calm PROVE LineInv'
<1> USE DEF BaseInv, LineInv, Calm, Silent, Waiting, Held, wire
<1>1. pc["message"] \in {"check", "send", "wait"} =>
        current # 0 /\ kind'[current] = kind[current] /\ fate'[current] = fate[current]
  BY CurrentPut
<1>2. TurnInv'
  BY DEF TurnInv
<1>3. OrderInv'
  BY DEF OrderInv
<1>4. MatchInv'
  BY <1>1 DEF MatchInv, RangeOf
<1>5. FateInv'
  BY <1>1 DEF FateInv, Settled
<1>6. CrashInv'
  BY DEF CrashInv
<1> QED
  BY <1>2, <1>3, <1>4, <1>5, <1>6

LEMMA LineSmt ==
  ASSUME BaseInv, LineInv, SocketInv', NEW t \in Callers, StopMessageThread(t)
  PROVE  LineInv'
<1> USE DEF BaseInv, LineInv, Callers, wire, observer
<1>0. TypeOK /\ (ret = "start" \/ ret = "close_socket")
  BY DEF TypeOK, FlagsOK
<1>1. /\ UNCHANGED <<kind, fate, queue, current, attached, handled, waited, reply, using,
                     ret, toServer, toClient>>
      /\ stopping => stopping'
      /\ \/ pc'["message"] = pc["message"]
         \/ pc["message"] = "exited" /\ pc'["message"] = "off"
  BY <1>0, SmtMoves
<1>2. /\ \/ pc'["worker"] = pc["worker"]
         \/ /\ pc["worker"] \in SmtPcs
            /\ \/ pc'["worker"] \in SmtPcs
               \/ pc'["worker"] = ret /\ pc'["message"] = "off"
      /\ fault' = fault \/ Stopping
      /\ Stopping => Stopping'
  BY <1>0, SmtMoves DEF SocketInv, Stopping, StopPcs, SmtPcs, Returned
<1>3. Held' <=> Held
  BY <1>0, <1>2 DEF Held, SmtPcs
<1>4. TurnInv'
  BY <1>0, <1>1, <1>2, <1>3 DEF TurnInv, Silent, Waiting, SmtPcs
<1>5. OrderInv'
  BY <1>0, <1>1, <1>2, <1>3 DEF OrderInv, SmtPcs
<1>6. MatchInv'
  BY <1>0, <1>1, <1>2, <1>3 DEF MatchInv, RangeOf, Waiting, SmtPcs
<1>7. FateInv'
  BY <1>0, <1>1, <1>2 DEF FateInv, Settled, Waiting, SmtPcs
<1>8. CrashInv'
  BY <1>2 DEF CrashInv
<1> QED
  BY <1>4, <1>5, <1>6, <1>7, <1>8

\* The worker before it reads, or on its way out: nothing on the wire changes
\* hands.
LEMMA LineConnection ==
  ASSUME BaseInv, LineInv,
         Connect \/ StartThread \/ Greeted \/ CloseSocket \/ ReadError \/ WorkerExit
  PROVE  LineInv'
<1> USE DEF BaseInv, LineInv, TypeOK, Move, exchange, threads, wire, observer
<1>1. CASE Connect \/ StartThread \/ CloseSocket
  <2>1. /\ Silent' /\ UNCHANGED <<current, handled, waited, reply>>
        /\ pc'["message"] \in {"off", "loop"}
        /\ pc'["worker"] \in {"smt_enter", "greet", "down"}
        /\ fault' = fault /\ pc'["app"] = pc["app"]
    <3>1. CASE Connect \/ CloseSocket
      <4>1. /\ toServer' = <<>> /\ toClient' = <<>>
            /\ UNCHANGED <<current, handled, waited, reply, fault>>
            /\ pc["worker"] \in {"down", "close_socket"}
            /\ Goto("worker", "smt_enter") \/ Goto("worker", "down")
        BY <3>1 DEF Connect, CloseSocket
      <4>2. /\ pc'["worker"] \in {"smt_enter", "down"}
            /\ pc'["message"] = pc["message"] /\ pc'["app"] = pc["app"]
        BY <4>1, PcMoved
      <4> QED
        BY <4>1, <4>2 DEF SocketInv, Silent, Held
    <3>2. CASE StartThread
      <4>1. ~joinable /\ Silent
        BY <3>2 DEF StartThread, SocketInv, TurnInv
      <4>2. pc'["worker"] = "greet" /\ pc'["message"] = "loop" /\ pc'["app"] = pc["app"]
        BY <3>2, <4>1 DEF StartThread, PcOK
      <4> QED
        BY <3>2, <4>1, <4>2 DEF StartThread, Silent, Held
    <3> QED
      BY <1>1, <3>1, <3>2
  <2>2. TurnInv'
    BY <2>1 DEF TurnInv
  <2>3. OrderInv'
    BY <2>1, EmptySeq DEF OrderInv, Silent
  <2>4. MatchInv' /\ FateInv'
    BY <2>1 DEF MatchInv, FateInv, Waiting
  <2>5. CrashInv'
    BY <2>1 DEF CrashInv, Stopping
  <2> QED
    BY <2>2, <2>3, <2>4, <2>5
<1>2. CASE Greeted \/ ReadError \/ WorkerExit
  <2>1. /\ UNCHANGED <<exchange, toServer, toClient, reply, using, fault>>
        /\ ~Held /\ ~Held' /\ pc'["message"] = pc["message"] /\ pc'["app"] = pc["app"]
        /\ pc["worker"] \notin SmtPcs
        /\ \/ pc'["worker"] \in {"read", "dead"}
           \/ pc'["worker"] = "smt_enter" /\ ret' = "close_socket"
    BY <1>2, PcMoved DEF Greeted, ReadError, Close, WorkerExit, Held, SmtPcs
  <2>2. TurnInv'
    BY <2>1 DEF TurnInv, Silent, Waiting, SmtPcs
  <2>3. OrderInv'
    BY <2>1 DEF OrderInv, Held
  <2>4. MatchInv'
    BY <2>1 DEF MatchInv, RangeOf, Waiting, Held
  <2>5. FateInv'
    BY <2>1 DEF FateInv, Settled, Waiting, Held
  <2>6. CrashInv'
    BY <2>1 DEF CrashInv, Stopping
  <2> QED
    BY <2>2, <2>3, <2>4, <2>5, <2>6
<1> QED
  BY <1>1, <1>2

LEMMA LineReceive == ASSUME BaseInv, LineInv, Receive PROVE LineInv'
<1> USE DEF BaseInv, LineInv, TypeOK, Move, exchange, threads, wire, observer
<1>1. /\ UNCHANGED <<exchange, ret, toServer, fault>>
      /\ toClient # <<>> /\ reply' = Head(toClient) /\ toClient' = Tail(toClient)
      /\ using' = current
      /\ pc["worker"] = "read" /\ pc'["worker"] = "attach" /\ ~Held /\ Held'
      /\ pc'["message"] = pc["message"] /\ pc'["app"] = pc["app"]
  BY PcMoved DEF Receive, Held
<1>2. /\ Head(toClient) = toClient[1] /\ Len(toClient) \in Nat \ {0}
      /\ toClient' \in Seq(Responses) /\ Len(toClient') = Len(toClient) - 1
      /\ \A i \in 1..(Len(toClient) - 1) : toClient'[i] = toClient[i + 1]
      /\ RangeOf(toClient) = RangeOf(toClient') \cup {reply'}
  BY <1>1, RangeTail DEF WireOK
<1>3. ~Silent
  BY <1>1 DEF Silent
<1>4. TurnInv'
  BY <1>1, <1>3 DEF TurnInv, Silent, Waiting, SmtPcs
<1>5. OrderInv'
  <2>1. ASSUME NEW i \in 1..Len(toClient'), toClient'[i].status # "ACK"
        PROVE  i = Len(toClient') /\ toServer' = <<>>
    <3>1. i \in 1..(Len(toClient) - 1) /\ i + 1 \in 1..Len(toClient)
      BY <1>2
    <3>2. i + 1 = Len(toClient) /\ toServer = <<>>
      BY <1>2, <2>1, <3>1 DEF OrderInv
    <3>3. i = Len(toClient')
      BY <1>2, <3>1, <3>2
    <3> QED
      BY <1>1, <3>2, <3>3
  <2>2. ASSUME reply'.status # "ACK" PROVE toServer' = <<>> /\ toClient' = <<>>
    <3>1. 1 \in 1..Len(toClient) /\ toClient[1].status # "ACK"
      BY <1>1, <1>2, <2>2
    <3>2. 1 = Len(toClient) /\ toServer = <<>>
      BY <3>1 DEF OrderInv
    <3> QED
      BY <1>1, <1>2, <3>2, EmptySeq
  <2> QED
    BY <1>1, <2>1, <2>2 DEF OrderInv
<1>6. MatchInv'
  <2> SUFFICES ASSUME Waiting' PROVE MatchInv'
    BY DEF MatchInv
  <2>1. Waiting
    BY <1>1 DEF Waiting
  <2>2. /\ \A r \in RangeOf(toServer) : r.id = current /\ r.cmd = CmdOf[kind[current]]
        /\ \A r \in RangeOf(toClient) : r.to = current /\ r.cmd = CmdOf[kind[current]]
    BY <2>1 DEF MatchInv
  <2>3. RangeOf(toServer') = RangeOf(toServer)
    BY <1>1 DEF RangeOf
  <2> QED
    BY <1>1, <1>2, <2>2, <2>3 DEF MatchInv
<1>7. FateInv'
  BY <1>1, <1>3 DEF FateInv, TurnInv, Settled, Waiting, SmtPcs
<1>8. CrashInv'
  BY <1>1 DEF CrashInv, Stopping
<1> QED
  BY <1>4, <1>5, <1>6, <1>7, <1>8

\* A response is being handled: either for the telegram that is waited for, or
\* when Stop has made the message thread give that telegram up.
LEMMA HeldTurn ==
  ASSUME BaseInv, LineInv, Held
  PROVE  /\ \/ /\ Waiting /\ ~handled /\ current # 0 /\ current \in Ids
               /\ using = current /\ reply.to = current
               /\ reply.cmd = CmdOf[kind[current]] /\ reply # NoReply
            \/ Stopping /\ stopping /\ current = 0 /\ ~Waiting
         /\ pc["message"] \notin {"check", "send"}
         /\ pc["worker"] \notin SmtPcs \cup {"down", "start"}
<1> USE DEF BaseInv, LineInv
<1>1. \/ Waiting /\ ~handled
      \/ stopping /\ current = 0 /\ pc["message"] \in {"loop", "exited", "off"}
  BY DEF TurnInv, Silent
<1>2. CASE Waiting /\ ~handled
  <2>1. current # 0 /\ current \in Ids
    BY <1>2, CurrentPut DEF Waiting
  <2>2. using = current /\ reply.to = current /\ reply.cmd = CmdOf[kind[current]]
    BY <1>2 DEF MatchInv
  <2>3. reply # NoReply
    BY <2>1, <2>2 DEF NoReply
  <2> QED
    BY <1>2, <2>1, <2>2, <2>3 DEF Waiting, Held, SmtPcs
<1>3. CASE stopping /\ current = 0 /\ pc["message"] \in {"loop", "exited", "off"}
  BY <1>3 DEF PlacesInv, Waiting, Held, SmtPcs
<1> QED
  BY <1>1, <1>2, <1>3

LEMMA LineFail ==
  ASSUME LineInv, Stopping, NEW what, Fail(what)
  PROVE  LineInv'
<1> USE DEF LineInv, Fail, Silent, Waiting, Held, exchange, threads, wire
<1>1. TurnInv' /\ OrderInv'
  BY DEF TurnInv, OrderInv
<1>2. MatchInv' /\ FateInv'
  BY DEF MatchInv, FateInv, RangeOf, Settled
<1>3. CrashInv'
  BY DEF CrashInv, Stopping
<1> QED
  BY <1>1, <1>2, <1>3

LEMMA LineAttach == ASSUME BaseInv, LineInv, Attach PROVE LineInv'
<1> USE DEF BaseInv, LineInv, TypeOK, exchange, threads, wire, observer
<1>1. Held
  BY DEF Attach, Held
<1>2. CASE using # 0 /\ current # using
  <2>1. Stopping
    BY <1>1, <1>2, HeldTurn
  <2> QED
    BY <1>2, <2>1, LineFail DEF Attach
<1>3. CASE ~(using # 0 /\ current # using)
  <2>1. /\ UNCHANGED <<kind, fate, queue, current, handled, stopping, waited, reply, using,
                       ret, toServer, toClient, fault>>
        /\ attached' = IF using # 0 /\ CmdOf[kind[using]] = reply.cmd THEN reply ELSE attached
        /\ pc'["worker"] = "switch" /\ pc["worker"] = "attach" /\ Held'
        /\ pc'["message"] = pc["message"] /\ pc'["app"] = pc["app"]
    BY <1>3, PcMoved DEF Attach, Held
  <2>2. TurnInv'
    BY <1>1, <2>1, HeldTurn DEF TurnInv, Silent, Waiting, SmtPcs
  <2>3. OrderInv'
    BY <1>1, <2>1 DEF OrderInv
  <2>4. Waiting => attached' = reply
    BY <1>1, <2>1, HeldTurn
  <2>5. MatchInv'
    BY <1>1, <2>1, <2>4 DEF MatchInv, Waiting, RangeOf
  <2>6. FateInv'
    BY <1>1, <2>1, HeldTurn DEF FateInv, Waiting, Settled
  <2>7. CrashInv'
    BY <2>1 DEF CrashInv, Stopping
  <2> QED
    BY <2>2, <2>3, <2>5, <2>6, <2>7
<1> QED
  BY <1>2, <1>3

LEMMA LineSwitch ==
  ASSUME BaseInv, LineInv, SwitchNotProcessed \/ SwitchAck \/ Finish
  PROVE  LineInv'
<1> USE DEF BaseInv, LineInv, TypeOK, Move, Release, exchange, threads, wire, observer
<1>1. /\ UNCHANGED <<kind, fate, queue, current, attached, stopping, waited, toServer,
                     toClient, fault>>
      /\ Held /\ ~Held'
      /\ pc'["message"] = pc["message"] /\ pc'["app"] = pc["app"]
      /\ pc'["worker"] \notin {"down", "start", "finish", "callback", "switch"}
  BY PcMoved DEF SwitchNotProcessed, Close, SwitchAck, Finish, Held
<1>2. \/ reply.status = "ACK" /\ handled' = handled /\ pc'["worker"] = "read"
         /\ pc["worker"] = "switch"
      \/ /\ reply.status # "ACK" /\ handled' = TRUE
         /\ \/ pc'["worker"] = "smt_enter" /\ ret' = "close_socket"
            \/ pc["worker"] = "finish" /\ pc'["worker"] = "read"
  BY PcMoved DEF SwitchNotProcessed, Close, SwitchAck, Finish, OrderInv
<1>3. reply.status # "ACK" => Silent'
  BY <1>1 DEF OrderInv, Silent
<1>4. TurnInv'
  BY <1>1, <1>2, <1>3, HeldTurn DEF TurnInv, Silent, Waiting, SmtPcs
<1>5. OrderInv'
  BY <1>1 DEF OrderInv
<1>6. MatchInv'
  BY <1>1 DEF MatchInv, Waiting, RangeOf
<1>7. FateInv'
  BY <1>1, <1>2, HeldTurn DEF FateInv, Waiting, Settled, SmtPcs
<1>8. CrashInv'
  BY <1>1 DEF CrashInv, Stopping
<1> QED
  BY <1>4, <1>5, <1>6, <1>7, <1>8

\* A request written when nothing is out is the only one, if the link is there.
LEMMA Written ==
  ASSUME NEW id, toServer = <<>>, Write(id)
  PROVE  /\ Len(toServer') <= 1
         /\ \A r \in RangeOf(toServer') : r.id = id /\ r.cmd = CmdOf[kind[id]]
<1> DEFINE req == [id |-> id, cmd |-> CmdOf[kind[id]]]
<1>1. req.id = id /\ req.cmd = CmdOf[kind[id]]
  OBVIOUS
<1>2. toServer' = <<>> \/ toServer' = Append(<<>>, req)
  BY DEF Write
<1> HIDE DEF req
<1>3. CASE toServer' = <<>>
  BY <1>3 DEF RangeOf
<1>4. CASE toServer' = Append(<<>>, req)
  <2>1. <<>> \in Seq({req}) /\ Len(<<>>) = 0 /\ RangeOf(<<>>) = {}
    BY DEF RangeOf
  <2>2. req \in {req}
    OBVIOUS
  <2>3. /\ Len(Append(<<>>, req)) = Len(<<>>) + 1
        /\ RangeOf(Append(<<>>, req)) = RangeOf(<<>>) \cup {req}
    BY <2>1, <2>2, RangeAppend
  <2>4. Len(toServer') = 1 /\ RangeOf(toServer') = {req}
    BY <1>4, <2>1, <2>3
  <2> QED
    BY <1>1, <2>4
<1> QED
  BY <1>2, <1>3, <1>4

LEMMA LineRepeat == ASSUME BaseInv, LineInv, SwitchRepeat PROVE LineInv'
<1> USE DEF BaseInv, LineInv, TypeOK, Release, exchange, threads, wire, observer
<1>1. Held /\ reply.status = "REPEAT" /\ pc["worker"] = "switch"
  BY DEF SwitchRepeat, Held
<1>2. CASE using # 0 /\ current # using
  <2>1. Stopping
    BY <1>1, <1>2, HeldTurn
  <2> QED
    BY <1>2, <2>1, LineFail DEF SwitchRepeat
<1>3. CASE ~(using # 0 /\ current # using)
  <2>1. /\ UNCHANGED <<exchange, ret, toClient, fault>>
        /\ pc'["worker"] = "read" /\ ~Held'
        /\ pc'["message"] = pc["message"] /\ pc'["app"] = pc["app"]
    <3>1. Goto("worker", "read") /\ UNCHANGED <<exchange, ret, toClient, fault>>
      BY <1>3 DEF SwitchRepeat
    <3> QED
      BY <3>1, PcMoved DEF Held
  <2>2. toServer = <<>> /\ toClient = <<>>
    BY <1>1 DEF OrderInv
  <2>3. using = 0 => ~Waiting
    BY <1>1, HeldTurn
  <2>4. /\ Len(toServer') <= 1
        /\ Waiting => \A r \in RangeOf(toServer') : r.id = using /\ r.cmd = CmdOf[kind[using]]
    <3>1. CASE using = 0
      BY <1>3, <2>2, <2>3, <3>1 DEF SwitchRepeat
    <3>2. CASE using # 0
      <4>1. Write(using)
        BY <1>3, <3>2 DEF SwitchRepeat
      <4> QED
        BY <2>2, <4>1, Written
    <3> QED
      BY <3>1, <3>2
  <2>5. RangeOf(toClient') = {} /\ Len(toClient') = 0
    BY <2>1, <2>2 DEF RangeOf
  <2>6. TurnInv'
    BY <1>1, <2>1, HeldTurn DEF TurnInv, Silent, Waiting, SmtPcs
  <2>7. OrderInv'
    BY <2>1, <2>4, <2>5 DEF OrderInv
  <2>8. MatchInv'
    BY <1>1, <2>1, <2>4, <2>5, HeldTurn DEF MatchInv, Waiting
  <2>9. FateInv'
    BY <1>1, <2>1, HeldTurn DEF FateInv, Waiting, Settled
  <2>10. CrashInv'
    BY <2>1 DEF CrashInv, Stopping
  <2> QED
    BY <2>6, <2>7, <2>8, <2>9, <2>10
<1> QED
  BY <1>2, <1>3

LEMMA LineFinal == ASSUME BaseInv, LineInv, SwitchFinal PROVE LineInv'
<1> USE DEF BaseInv, LineInv, TypeOK, exchange, threads, wire, observer
<1>1. Held /\ reply.status # "ACK" /\ pc["worker"] = "switch"
  BY DEF SwitchFinal, Held, FinalStatus
<1>2. CASE current = 0
  <2>1. Stopping
    BY <1>1, <1>2, HeldTurn
  <2> QED
    BY <1>2, <2>1, LineFail DEF SwitchFinal
<1>3. CASE current # 0
  <2>1. /\ UNCHANGED <<exchange, ret, reply, toServer, toClient, fault>> /\ using' = current
        /\ Goto("worker", "callback")
    BY <1>3 DEF SwitchFinal
  <2>2. /\ pc'["worker"] = "callback" /\ Held'
        /\ pc'["message"] = pc["message"] /\ pc'["app"] = pc["app"]
    BY <2>1, PcMoved DEF Held
  <2>3. TurnInv'
    BY <1>1, <2>1, <2>2, HeldTurn DEF TurnInv, Silent, Waiting, SmtPcs
  <2>4. OrderInv'
    BY <1>1, <2>1 DEF OrderInv
  <2>5. MatchInv'
    BY <1>1, <2>1, <2>2 DEF MatchInv, Waiting, RangeOf
  <2>6. FateInv'
    BY <1>1, <2>1, <2>2, HeldTurn DEF FateInv, Waiting, Settled
  <2>7. CrashInv'
    BY <2>1, <2>2 DEF CrashInv, Stopping
  <2> QED
    BY <2>3, <2>4, <2>5, <2>6, <2>7
<1> QED
  BY <1>2, <1>3

\* The callback of a telegram: its fate is settled, what it queues is put.
LEMMA CallbackStep ==
  ASSUME BaseInv, LineInv, Callback, current = using
  PROVE  /\ Waiting /\ ~handled /\ current \in Ids /\ fate[current] = "sent"
         /\ Completion \in {"done", "failed"}
         /\ PutAfter([fate EXCEPT ![current] = Completion],
                     FollowUp[kind[current]][attached.status = "OK"])
         /\ FollowUp[kind[current]][attached.status = "OK"] \in Seq(Kinds)
         /\ \A id \in Ids : /\ kind'[id] = kind[id]
                            /\ fate'[id] = IF id = current THEN Completion ELSE fate[id]
         /\ Len(kind) \in Nat /\ Len(kind') \in Nat /\ Len(kind) <= Len(kind')
         /\ \A id \in Ids' \ Ids : fate'[id] = "queued"
<1> USE DEF BaseInv, LineInv, TypeOK
<1> DEFINE fates == [fate EXCEPT ![current] = Completion]
           ks == FollowUp[kind[current]][attached.status = "OK"]
<1>1. Held /\ using # 0 /\ pc["worker"] = "callback"
  BY DEF Callback, Held, PointersOK
<1>2. /\ Waiting /\ ~handled /\ current \in Ids /\ current # 0
      /\ reply # NoReply /\ attached = reply
  BY <1>1, HeldTurn DEF MatchInv
<1>3. fate[current] = "sent"
  BY <1>1, <1>2 DEF FateInv
<1>4. Completion \in {"done", "failed"} /\ Completion \in Fates
  BY <1>3 DEF Completion, Settled, Fates
<1>5. PutAfter(fates, ks)
  BY <1>2 DEF Callback
<1>6. ks \in Seq(Kinds)
  <2>1. kind[current] \in Kinds
    BY <1>2, ElementOfSeq DEF TelegramsOK, Ids
  <2> QED
    BY <2>1, KindsAssumption
<1>7. fates \in Seq(Fates) /\ Len(fates) = Len(kind)
  BY <1>2, <1>4, FateType
<1>8. \A id \in Ids : fates[id] = IF id = current THEN Completion ELSE fate[id]
  BY <1>2, FateDomain
<1> HIDE DEF fates, ks
<1>9. /\ Len(kind) \in Nat /\ Len(ks) \in Nat /\ Len(kind') = Len(kind) + Len(ks)
      /\ \A id \in 1..Len(kind) : kind'[id] = kind[id] /\ fate'[id] = fates[id]
      /\ \A id \in Len(kind) + 1 .. Len(kind) + Len(ks) : fate'[id] = "queued"
  BY <1>5, <1>6, <1>7, PutFacts
<1>10. \A id \in Ids' \ Ids : id \in Len(kind) + 1 .. Len(kind) + Len(ks)
  BY <1>9 DEF Ids
<1>11. \A id \in Ids : /\ kind'[id] = kind[id]
                       /\ fate'[id] = IF id = current THEN Completion ELSE fate[id]
  BY <1>8, <1>9 DEF Ids
<1>12. Len(kind') \in Nat /\ Len(kind) <= Len(kind')
  BY <1>9
<1> QED
  BY <1>2, <1>3, <1>4, <1>5, <1>6, <1>9, <1>10, <1>11, <1>12 DEF fates, ks

LEMMA LineCallback == ASSUME BaseInv, LineInv, Callback PROVE LineInv'
<1> USE DEF BaseInv, LineInv, TypeOK, threads, wire, observer
<1>1. Held /\ using # 0 /\ pc["worker"] = "callback"
  BY DEF Callback, Held, PointersOK
<1>2. CASE current # using
  <2>1. Stopping
    BY <1>1, <1>2, HeldTurn
  <2> QED
    BY <1>2, <2>1, LineFail DEF Callback
<1>3. CASE current = using
  <2>1. /\ UNCHANGED <<current, attached, handled, stopping, waited, reply, using, ret,
                       toServer, toClient, fault>>
        /\ Goto("worker", "finish")
    BY <1>3 DEF Callback
  <2>2. /\ pc'["worker"] = "finish" /\ Held'
        /\ pc'["message"] = pc["message"] /\ pc'["app"] = pc["app"]
    BY <2>1, PcMoved DEF Held
  <2>3. /\ Waiting /\ ~handled /\ kind'[current] = kind[current]
        /\ fate'[current] \in {"done", "failed"}
    BY <1>3, CallbackStep
  <2>4. TurnInv'
    BY <2>1, <2>2, <2>3 DEF TurnInv, Silent, Waiting, SmtPcs
  <2>5. OrderInv'
    BY <1>1, <2>1, <2>2 DEF OrderInv
  <2>6. MatchInv'
    BY <1>1, <2>1, <2>2, <2>3 DEF MatchInv, Waiting, RangeOf
  <2>7. FateInv'
    BY <2>1, <2>2, <2>3 DEF FateInv, Waiting, Settled
  <2>8. CrashInv'
    BY <2>1, <2>2 DEF CrashInv, Stopping
  <2> QED
    BY <2>4, <2>5, <2>6, <2>7, <2>8
<1> QED
  BY <1>2, <1>3

LEMMA LineMessage == ASSUME BaseInv, LineInv, Prompt, Message PROVE LineInv'
<1> USE DEF BaseInv, LineInv, TypeOK, Move, threads, wire, observer
<1>1. MaxWait \in Nat \ {0} /\ waited \in Nat
  BY BoundsAssumption DEF CountsOK
<1>2. CASE Loop \/ Get \/ GetNothing \/ Check
  <2>1. /\ UNCHANGED <<kind, stopping, waited, reply, using, ret, toServer, toClient, fault>>
        /\ \E l \in {"exited", "get", "check", "loop", "send"} : Goto("message", l)
    BY <1>2 DEF Loop, Get, GetNothing, Check, exchange
  <2>2. /\ pc'["message"] \in {"exited", "get", "check", "loop", "send"}
        /\ pc'["worker"] = pc["worker"] /\ pc'["app"] = pc["app"] /\ (Held' <=> Held)
        /\ ~Waiting'
    BY <2>1, PcMoved DEF Held, Waiting
  <2>3. TurnInv'
    <3>1. CASE Loop
      <4>1. /\ UNCHANGED <<current, handled>>
            /\ pc["message"] = "loop" /\ (stopping => pc'["message"] = "exited")
            /\ pc'["message"] # "send"
        BY <3>1, PcMoved DEF Loop, exchange
      <4> QED
        BY <2>1, <2>2, <4>1 DEF TurnInv, Silent, Waiting
    <3>2. CASE Get \/ GetNothing
      <4>1. pc["message"] = "get" /\ pc'["message"] # "send"
        BY <3>2, PcMoved DEF Get, GetNothing
      <4> QED
        BY <2>1, <2>2, <4>1 DEF TurnInv, Silent, Waiting
    <3>3. CASE Check
      <4>1. pc["message"] = "check" /\ (pc'["message"] = "send" => ~handled')
        BY <3>3, PcMoved DEF Check
      <4> QED
        BY <2>1, <2>2, <4>1 DEF TurnInv, Silent, Waiting
    <3> QED
      BY <1>2, <3>1, <3>2, <3>3
  <2>4. OrderInv'
    BY <2>1, <2>2 DEF OrderInv
  <2>5. MatchInv'
    BY <2>2 DEF MatchInv
  <2>6. FateInv'
    <3>1. CASE Loop \/ GetNothing
      BY <2>2, <3>1, PcMoved DEF FateInv, Loop, GetNothing
    <3>2. CASE Get
      <4>1. Head(queue) \in Ids
        BY <3>2, RangeTail DEF Get, TelegramsOK
      <4>2. fate'[current'] = "taken"
        BY <3>2, <4>1, FateDomain DEF Get
      <4> QED
        BY <2>2, <4>2 DEF FateInv
    <3>3. CASE Check
      <4>1. /\ UNCHANGED current /\ pc["message"] = "check"
            /\ pc'["message"] = "loop" \/ UNCHANGED fate
        BY <3>3, PcMoved DEF Check
      <4> QED
        BY <2>2, <4>1 DEF FateInv
    <3> QED
      BY <1>2, <3>1, <3>2, <3>3
  <2>7. CrashInv'
    BY <2>1, <2>2 DEF CrashInv, Stopping
  <2> QED
    BY <2>3, <2>4, <2>5, <2>6, <2>7
<1>3. CASE Send
  <2>1. link # "none" /\ current # 0 /\ current \in Ids
    BY <1>3, CurrentPut DEF Send, SocketInv
  <2>2. /\ UNCHANGED <<kind, queue, current, attached, handled, stopping, waited, reply,
                       using, ret, toClient, fault>>
        /\ Write(current) /\ pc["message"] = "send" /\ Goto("message", "wait")
        /\ fate' = IF Settled(current) THEN fate ELSE [fate EXCEPT ![current] = "sent"]
    BY <1>3, <2>1 DEF Send
  <2>3. /\ pc'["message"] = "wait" /\ pc'["worker"] = pc["worker"] /\ pc'["app"] = pc["app"]
        /\ (Held' <=> Held)
    BY <2>2, PcMoved DEF Held
  <2>4. Silent /\ ~handled
    BY <2>2 DEF TurnInv, Waiting
  <2>5. fate'[current] = "sent"
    <3>1. fate[current] = "taken"
      BY <2>2 DEF FateInv
    <3> QED
      BY <2>1, <2>2, <3>1, FateDomain DEF Settled
  <2>6. /\ Len(toServer') <= 1
        /\ \A r \in RangeOf(toServer') : r.id = current /\ r.cmd = CmdOf[kind[current]]
    BY <2>2, <2>4, Written DEF Silent
  <2>7. Len(toClient') = 0 /\ RangeOf(toClient') = {}
    BY <2>2, <2>4 DEF Silent, RangeOf
  <2>8. pc["worker"] \notin {"down", "start"} /\ ~(pc["worker"] \in SmtPcs /\ ret = "start")
    BY <2>2 DEF SocketInv, PlacesInv
  <2>9. TurnInv'
    BY <2>2, <2>3, <2>4, <2>8 DEF TurnInv, Waiting
  <2>10. OrderInv'
    BY <2>2, <2>3, <2>4, <2>6, <2>7 DEF OrderInv, Silent, Held
  <2>11. MatchInv'
    BY <2>2, <2>3, <2>4, <2>6, <2>7 DEF MatchInv, Silent, Held
  <2>12. FateInv'
    BY <2>2, <2>3, <2>4, <2>5 DEF FateInv, Silent, Held, Waiting
  <2>13. CrashInv'
    BY <2>2, <2>3 DEF CrashInv, Stopping
  <2> QED
    BY <2>9, <2>10, <2>11, <2>12, <2>13
<1>4. CASE WaitSecond
  <2>1. /\ UNCHANGED <<kind, fate, current, attached, handled, stopping, reply, using, ret,
                       toServer, toClient, fault, pc>>
        /\ waited' < MaxWait
    BY <1>1, <1>4 DEF WaitSecond
  <2>2. TurnInv' /\ OrderInv'
    BY <2>1 DEF TurnInv, OrderInv, Silent, Waiting, Held
  <2>3. MatchInv' /\ FateInv'
    BY <2>1 DEF MatchInv, FateInv, Waiting, Held, RangeOf, Settled
  <2>4. CrashInv'
    BY <2>1 DEF CrashInv, Stopping
  <2> QED
    BY <2>2, <2>3, <2>4
<1>5. CASE WaitDone
  <2>1. /\ UNCHANGED <<kind, handled, stopping, reply, using, ret, toServer, toClient, fault>>
        /\ current' = 0 /\ waited' = 0 /\ Waiting /\ Goto("message", "loop")
        /\ handled \/ stopping \/ waited = MaxWait
    BY <1>5 DEF WaitDone, Waiting
  <2>2. /\ pc'["message"] = "loop" /\ pc'["worker"] = pc["worker"] /\ pc'["app"] = pc["app"]
        /\ (Held' <=> Held)
    BY <2>1, PcMoved DEF Held
  <2>3. handled \/ stopping
    BY <1>1, <2>1 DEF TurnInv
  <2>4. TurnInv'
    BY <1>1, <2>1, <2>2, <2>3 DEF TurnInv, Silent, Waiting
  <2>5. OrderInv'
    BY <2>1, <2>2 DEF OrderInv
  <2>6. MatchInv' /\ FateInv'
    BY <2>2 DEF MatchInv, FateInv, Waiting
  <2>7. CrashInv'
    BY <2>1, <2>2 DEF CrashInv, Stopping
  <2> QED
    BY <2>4, <2>5, <2>6, <2>7
<1> QED
  BY <1>2, <1>3, <1>4, <1>5 DEF Message

\* The server answers the only request that is out; only acknowledgements can
\* have come before the answer.
LEMMA Answered ==
  ASSUME TypeOK, LineInv, toServer # <<>>, NEW status \in Status, toClient' = Answer(status)
  PROVE  /\ Tail(toServer) = <<>> /\ Len(toClient') \in Nat /\ Len(toClient') # 0
         /\ \A i \in 1..Len(toClient') :
              IF i = Len(toClient') THEN toClient'[i].status = status
                                    ELSE toClient'[i].status = "ACK"
         /\ Held => reply.status = "ACK"
         /\ Waiting => \A r \in RangeOf(toClient') :
              r.to = current /\ r.cmd = CmdOf[kind[current]]
<1> USE DEF LineInv, TypeOK
<1> DEFINE a == [to |-> Head(toServer).id, cmd |-> Head(toServer).cmd, status |-> status]
<1>1. /\ Head(toServer) \in Requests /\ Tail(toServer) \in Seq(Requests)
      /\ Len(toServer) \in Nat \ {0} /\ Len(Tail(toServer)) = Len(toServer) - 1
      /\ Head(toServer) \in RangeOf(toServer)
  BY RangeTail DEF WireOK
<1>2. Tail(toServer) = <<>>
  <2>1. Len(Tail(toServer)) = 0
    BY <1>1 DEF OrderInv
  <2> QED
    BY <1>1, <2>1, EmptySeq
<1>3. a \in Responses /\ a.status = status
  BY <1>1 DEF Requests, Responses
<1>4. toClient' = Append(toClient, a) /\ toClient \in Seq(Responses)
  BY DEF Answer, WireOK
<1>5. Waiting => a.to = current /\ a.cmd = CmdOf[kind[current]]
  BY <1>1 DEF MatchInv
<1>6. Waiting => \A r \in RangeOf(toClient) : r.to = current /\ r.cmd = CmdOf[kind[current]]
  BY DEF MatchInv
<1>7. Held => reply.status = "ACK"
  BY DEF OrderInv
<1> HIDE DEF a
<1>8. /\ Len(toClient) \in Nat /\ Len(toClient') = Len(toClient) + 1
      /\ \A i \in 1..Len(toClient) : toClient'[i] = toClient[i]
      /\ toClient'[Len(toClient) + 1] = a
      /\ RangeOf(toClient') = RangeOf(toClient) \cup {a}
  BY <1>3, <1>4, RangeAppend, LenProperties
<1>9. \A i \in 1..Len(toClient) : toClient[i].status = "ACK"
  BY DEF OrderInv
<1>10. \A i \in 1..Len(toClient') :
         IF i = Len(toClient') THEN toClient'[i].status = status
                               ELSE toClient'[i].status = "ACK"
  <2> TAKE i \in 1..Len(toClient')
  <2>1. i \in 1..Len(toClient) \/ i = Len(toClient) + 1
    BY <1>8
  <2>2. i \in 1..Len(toClient) => i # Len(toClient')
    BY <1>8
  <2> QED
    BY <1>3, <1>8, <1>9, <2>1, <2>2
<1>11. Len(toClient') \in Nat /\ Len(toClient') # 0
  BY <1>8
<1> QED
  BY <1>2, <1>5, <1>6, <1>7, <1>8, <1>10, <1>11

LEMMA LineServer ==
  ASSUME BaseInv, LineInv, Server, spare'["unsolicited"] = spare["unsolicited"]
  PROVE  LineInv'
<1> USE DEF BaseInv, LineInv, TypeOK, exchange, threads, wire, observer
<1>1. /\ UNCHANGED <<kind, fate, current, attached, handled, stopping, waited, reply, using,
                     ret, fault, pc>>
      /\ (Held' <=> Held) /\ (Waiting' <=> Waiting)
  BY DEF Server, ServerFinal, ServerAck, ServerRefuse, ServerUnsolicited, Break, Held, Waiting
<1>2. ~ServerUnsolicited
  <2>1. spare["unsolicited"] \in Nat /\ spare \in [Quirks -> Nat] /\ "unsolicited" \in Quirks
    BY DEF WireOK, Quirks
  <2> QED
    BY <2>1 DEF ServerUnsolicited, Spend
<1>3. FateInv' /\ CrashInv'
  BY <1>1 DEF FateInv, CrashInv, Settled, Stopping, SmtPcs
<1>4. ASSUME toServer # <<>> \/ Silent' \/ (~Silent /\ ~Silent') PROVE TurnInv'
  BY <1>1, <1>4 DEF TurnInv, Silent
<1>5. ASSUME toServer # <<>>, NEW status \in Status, toClient' = Answer(status),
             toServer' = Tail(toServer) \/ (status = "ACK" /\ toServer' = toServer)
      PROVE  LineInv'
  <2>1. TurnInv'
    BY <1>4, <1>5
  <2>2. OrderInv'
    <3>1. Len(toServer') <= 1
      BY <1>5, Answered DEF OrderInv
    <3>2. \A i \in 1..Len(toClient') :
            toClient'[i].status # "ACK" => i = Len(toClient') /\ toServer' = <<>>
      BY <1>5, Answered
    <3>3. Held => reply.status = "ACK"
      BY <1>5, Answered
    <3> QED
      BY <1>1, <3>1, <3>2, <3>3 DEF OrderInv, Held
  <2>3. MatchInv'
    <3>1. Waiting => \A r \in RangeOf(toClient') :
                       r.to = current /\ r.cmd = CmdOf[kind[current]]
      BY <1>5, Answered
    <3>2. RangeOf(toServer') = {} \/ toServer' = toServer
      BY <1>5, Answered DEF RangeOf
    <3> QED
      BY <1>1, <3>1, <3>2 DEF MatchInv, Waiting, RangeOf
  <2> QED
    BY <1>3, <2>1, <2>2, <2>3
<1>6. CASE ServerFinal
  BY <1>5, <1>6 DEF ServerFinal, Status
<1>7. CASE ServerAck
  BY <1>5, <1>7 DEF ServerAck, Status
<1>8. CASE ServerRefuse
  BY <1>5, <1>8 DEF ServerRefuse, Status
<1>9. CASE Break
  <2>1. toServer' = <<>> /\ (toClient' = toClient \/ toClient' = <<>>)
    BY <1>9 DEF Break
  <2>2. TurnInv'
    BY <1>1, <2>1 DEF TurnInv, Silent
  <2>3. OrderInv'
    BY <1>1, <2>1, EmptySeq DEF OrderInv, Held
  <2>4. MatchInv'
    BY <1>1, <2>1 DEF MatchInv, RangeOf, Waiting
  <2> QED
    BY <1>3, <2>2, <2>3, <2>4
<1> QED
  BY <1>2, <1>6, <1>7, <1>8, <1>9 DEF Server

\* A step in which the server stays orderly keeps the exchange in line.
LEMMA LineStep ==
  ASSUME BaseInv, LineInv, SocketInv', Prompt,
         spare'["unsolicited"] = spare["unsolicited"], Next
  PROVE  LineInv'
<1>0. TypeOK
  BY DEF BaseInv
<1>1. CASE Over \/ Running(Call) \/ Greet \/ IdleConnected \/ IdleEmpty \/ IdleHandled
           \/ StopContext \/ StopJoin
  BY <1>0, <1>1, CalmSteps, LineCalm
<1>2. \A t \in Callers : StopMessageThread(t) => LineInv'
  BY LineSmt
<1>3. CASE Running(App)
  BY <1>1, <1>2, <1>3 DEF Running, App, Callers
<1>4. CASE Running(Worker)
  BY <1>1, <1>2, <1>4, LineConnection, LineReceive, LineAttach, LineSwitch, LineRepeat,
     LineFinal, LineCallback DEF Running, Worker, Callers
<1>5. CASE Running(Message) \/ Running(Server)
  BY <1>5, LineMessage, LineServer DEF Running
<1> QED
  BY <1>1, <1>3, <1>4, <1>5 DEF Next

-----------------------------------------------------------------------------
(* The theorems.                                                             *)

ExchangeInv == BaseInv /\ (Orderly => LineInv)

\* A server that is still orderly after a step was so before it.
LEMMA OrderlyStep ==
  ASSUME BaseInv, Next, Orderly'
  PROVE  Orderly /\ spare'["unsolicited"] = spare["unsolicited"]
<1>1. TypeOK /\ spare["unsolicited"] <= Budget["unsolicited"]
  BY DEF BaseInv, PlacesInv
<1>2. spare["unsolicited"] \in Nat /\ Budget["unsolicited"] \in Nat
  BY <1>1, BoundsAssumption DEF TypeOK, WireOK, Quirks
<1>3. spare'["unsolicited"] <= spare["unsolicited"]
  BY <1>1, SpareStep
<1> QED
  BY <1>1, <1>2, <1>3 DEF Orderly

LEMMA BaseInvariant == Spec => []BaseInv
<1>1. Init => QueueInv /\ PlacesInv
  <2> SUFFICES ASSUME Init PROVE QueueInv /\ PlacesInv
    OBVIOUS
  <2>1. QueueInv
    BY DEF Init, QueueInv, Ids
  <2>2. Budget["unsolicited"] <= Budget["unsolicited"]
    BY BoundsAssumption DEF Quirks
  <2>3. PlacesInv
    BY <2>2 DEF Init, PlacesInv, SmtPcs, Held
  <2> QED
    BY <2>1, <2>3
<1>2. TypeOK /\ SocketInv /\ QueueInv /\ PlacesInv /\ [Next]_vars => QueueInv' /\ PlacesInv'
  <2>1. ASSUME TypeOK, QueueInv, PlacesInv, UNCHANGED vars PROVE QueueInv' /\ PlacesInv'
    <3> USE <2>1 DEF vars, exchange, threads, wire, observer
    <3>1. QueueInv'
      BY QueueKept
    <3>2. PlacesInv'
      BY DEF PlacesInv, Held, Stopping
    <3> QED
      BY <3>1, <3>2
  <2> QED
    BY <2>1, QueueStep, PlacesStep
<1>3. TypeOK /\ SocketInv /\ QueueInv /\ PlacesInv <=> BaseInv
  BY DEF BaseInv
<1> QED
  BY <1>1, <1>2, <1>3, TypeCorrect, SocketInvariant, PTL DEF Spec

LEMMA ExchangeInvariant == Spec => []ExchangeInv
<1>1. Init => (Orderly => LineInv)
  <2> SUFFICES ASSUME Init PROVE LineInv
    OBVIOUS
  <2>1. MaxWait > 0
    BY BoundsAssumption
  <2>2. TurnInv /\ OrderInv
    BY <2>1, EmptySeq DEF Init, TurnInv, OrderInv, Silent, Held
  <2>3. MatchInv /\ FateInv /\ CrashInv
    BY DEF Init, MatchInv, FateInv, CrashInv, Waiting
  <2> QED
    BY <2>2, <2>3 DEF LineInv
<1>2. BaseInv /\ BaseInv' /\ (Orderly => LineInv) /\ [Next]_vars => (Orderly => LineInv)'
  <2>1. ASSUME LineInv, UNCHANGED vars PROVE LineInv'
    <3> USE <2>1 DEF LineInv, vars, exchange, threads, wire, observer, Held, Waiting, Silent
    <3>1. TurnInv' /\ OrderInv'
      BY DEF TurnInv, OrderInv
    <3>2. MatchInv' /\ FateInv'
      BY DEF MatchInv, FateInv, RangeOf, Settled
    <3>3. CrashInv'
      BY DEF CrashInv, Stopping
    <3> QED
      BY <3>1, <3>2, <3>3
  <2>2. UNCHANGED vars /\ Orderly' => Orderly
    BY DEF Orderly, vars, wire
  <2>3. ASSUME BaseInv, BaseInv', Orderly => LineInv, Next, Orderly' PROVE LineInv'
    <3>1. Orderly /\ spare'["unsolicited"] = spare["unsolicited"]
      BY <2>3, OrderlyStep
    <3> QED
      BY <2>3, <3>1, LineStep DEF Orderly, BaseInv
  <2> QED
    BY <2>1, <2>2, <2>3
<1>3. ExchangeInv <=> BaseInv /\ (Orderly => LineInv)
  BY DEF ExchangeInv
<1> QED
  BY <1>1, <1>2, <1>3, BaseInvariant, PTL DEF Spec

\* HandleResponse and MessageThread: with an orderly server no thread finds
\* current_message_ empty or gone, and no thread is joined twice, before the
\* application calls Stop.
THEOREM CrashOnlyInStop == Spec => []CrashNeedsStop
<1>1. ExchangeInv => CrashNeedsStop
  BY DEF ExchangeInv, LineInv, CrashInv, CrashNeedsStop
<1> QED
  BY <1>1, ExchangeInvariant, PTL

\* Whatever is on the wire or being handled, with an orderly server and before
\* stop_message_ is set, belongs to the telegram in current_message_.
THEOREM OneExchange == Spec => []ExclusiveExchange
<1>1. ExchangeInv => ExclusiveExchange
  <2> SUFFICES ASSUME BaseInv, LineInv, ~stopping PROVE ExclusiveExchange
    BY DEF ExchangeInv, ExclusiveExchange
  <2> USE DEF LineInv
  <2>1. Len(toServer) <= 1
    BY DEF OrderInv
  <2>2. \A r \in RangeOf(toServer) : r.id = current
    BY DEF TurnInv, MatchInv, Silent, RangeOf
  <2>3. \A r \in RangeOf(toClient) \cup Handling :
          r.to = current /\ r.cmd = CmdOf[kind[current]]
    <3>1. CASE Silent
      BY <3>1 DEF Silent, Held, Handling, RangeOf
    <3>2. CASE ~Silent
      <4>1. Waiting
        BY <3>2 DEF TurnInv
      <4> QED
        BY <4>1 DEF MatchInv, Handling, Held
    <3> QED
      BY <3>1, <3>2
  <2>4. \A i \in DOMAIN toClient :
          toClient[i].status # "ACK" => i = Len(toClient) /\ toServer = <<>>
    <3>1. DOMAIN toClient = 1..Len(toClient)
      BY LenProperties DEF BaseInv, TypeOK, WireOK
    <3> QED
      BY <3>1 DEF OrderInv
  <2>5. \A r \in Handling : r.status # "ACK" => toServer = <<>> /\ toClient = <<>>
    BY DEF OrderInv, Handling, Held
  <2> QED
    BY <2>1, <2>2, <2>3, <2>4, <2>5 DEF ExclusiveExchange
<1> QED
  BY <1>1, ExchangeInvariant, PTL

\* Only the application moves itself, and only it notes what WaitOnIdle covers.
LEMMA AppMoved ==
  ASSUME TypeOK, Next
  PROVE  Call \/ App \/ (pc'["app"] = pc["app"] /\ mark' = mark)
<1> USE DEF TypeOK, Move, observer
<1>1. CASE Over \/ Running(Server)
  BY <1>1 DEF Over, vars, Running, Server, ServerFinal, ServerAck, ServerRefuse,
              ServerUnsolicited, Break
<1>2. CASE Running(Message)
  BY <1>2, PcMoved DEF Running, Message, Loop, Get, GetNothing, Check, Send, WaitSecond,
                       WaitDone, Fail
<1>3. CASE Running(Worker)
  <2>1. CASE StopMessageThread("worker")
    BY <2>1, SmtMoves DEF Callers
  <2>2. CASE Connect \/ Greet \/ Greeted \/ CloseSocket \/ ReadError \/ WorkerExit \/ Receive
    BY <2>2, PcMoved DEF Connect, Greet, Greeted, CloseSocket, ReadError, Close, WorkerExit,
                         Receive
  <2>3. CASE StartThread
    BY <2>3 DEF StartThread, Fail, PcOK
  <2>4. CASE Attach \/ SwitchNotProcessed \/ SwitchAck \/ SwitchRepeat
    BY <2>4, PcMoved DEF Attach, SwitchNotProcessed, Close, SwitchAck, SwitchRepeat, Fail
  <2>5. CASE SwitchFinal \/ Callback \/ Finish
    BY <2>5, PcMoved DEF SwitchFinal, Callback, Finish, Fail
  <2> QED
    BY <1>3, <2>1, <2>2, <2>3, <2>4, <2>5 DEF Running, Worker
<1> QED
  BY <1>1, <1>2, <1>3 DEF Next, Running

\* A telegram that has left the queue does not get back into it.
LEMMA NotRequeued ==
  ASSUME TypeOK, Next
  PROVE  \A id \in Ids : fate'[id] = "queued" => fate[id] = "queued"
<1> USE DEF TypeOK, exchange, threads, wire, observer
<1>0. /\ Len(kind) \in Nat /\ fate \in [Ids -> Fates] /\ fate \in Seq(Fates)
      /\ Len(fate) = Len(kind) /\ current \in 0..Len(kind) /\ using \in 0..Len(kind)
  BY FateDomain, LenProperties DEF TelegramsOK
<1>1. ASSUME NEW ks \in Seq(Kinds), Put(ks) PROVE \A id \in Ids : fate'[id] = fate[id]
  BY <1>0, <1>1, PutFacts DEF Put, Ids
<1>2. CASE UNCHANGED fate
  BY <1>2
<1>3. CASE SendTelegram \/ Stop \/ Greet \/ WaitOnIdle \/ IdleHandled
  BY <1>3, CalmSteps DEF Calm, Next, Running, Call, App, Worker
<1>4. CASE StartThread
  BY <1>0, <1>4 DEF StartThread, Fail
<1>5. CASE Callback
  <2>1. CASE current # using \/ attached = NoReply
    BY <1>5, <2>1 DEF Callback, Fail
  <2>2. CASE current = using /\ attached # NoReply
    <3> DEFINE fates == [fate EXCEPT ![using] = Completion]
               ks == FollowUp[kind[using]][attached.status = "OK"]
    <3>1. using \in Ids
      <4>1. using # 0
        BY <1>5 DEF Callback, PointersOK
      <4> QED
        BY <1>0, <4>1 DEF Ids
    <3>2. kind[using] \in Kinds
      BY <3>1, ElementOfSeq DEF TelegramsOK, Ids
    <3>3. ks \in Seq(Kinds)
      BY <3>2, KindsAssumption
    <3>4. Completion \in Fates /\ Completion # "queued"
      BY DEF Completion, Fates
    <3>5. fates \in Seq(Fates) /\ Len(fates) = Len(kind)
      BY <3>1, <3>4, FateType
    <3>6. \A id \in Ids : fates[id] = IF id = using THEN Completion ELSE fate[id]
      BY <1>0, <3>1
    <3>7. PutAfter(fates, ks)
      BY <1>5, <2>2 DEF Callback
    <3> HIDE DEF fates, ks
    <3>8. \A id \in Ids : fate'[id] = fates[id]
      BY <3>3, <3>5, <3>7, PutFacts DEF Ids
    <3> QED
      BY <3>4, <3>6, <3>8
  <2> QED
    BY <2>1, <2>2
<1>6. CASE Get
  BY <1>0, <1>6 DEF Get
<1>7. CASE Check \/ WaitDone
  BY <1>0, <1>7 DEF Check, WaitDone, Settle
<1>8. CASE Send
  BY <1>0, <1>8 DEF Send, Fail
<1>9. Receive \/ SwitchNotProcessed \/ SwitchAck \/ SwitchRepeat \/ SwitchFinal \/ Finish
        => UNCHANGED fate
  BY DEF Receive, SwitchNotProcessed, SwitchAck, SwitchRepeat, SwitchFinal, Finish, Fail
<1> QED
  BY <1>2, <1>3, <1>4, <1>5, <1>6, <1>7, <1>8, <1>9, TelegramsTouched

\* WaitOnIdle has seen the queue empty: nothing put before the call is in it.
IdleInv == pc["app"] = "idle_handled" => \A id \in 1..mark : fate[id] # "queued"

LEMMA IdleStep == ASSUME BaseInv, IdleInv, Next PROVE IdleInv'
<1> USE DEF BaseInv, Move
<1>0. /\ TypeOK /\ Len(kind) \in Nat /\ mark \in 0..Len(kind)
      /\ \A id \in 1..mark : id \in Ids
  BY LenProperties DEF TypeOK, TelegramsOK, Ids
<1>1. CASE pc'["app"] = pc["app"] /\ mark' = mark
  BY <1>0, <1>1, NotRequeued DEF IdleInv
<1>2. CASE IdleEmpty
  <2>1. mark' = mark /\ fate' = fate /\ (pc'["app"] = "idle_handled" => queue = <<>>)
    BY <1>0, <1>2, PcMoved DEF IdleEmpty, TypeOK, exchange, observer
  <2>2. queue = <<>> => \A id \in Ids : fate[id] # "queued"
    BY DEF QueueInv, RangeOf
  <2> QED
    BY <1>0, <2>1, <2>2 DEF IdleInv
<1>3. CASE Call \/ IdleConnected \/ IdleHandled \/ StopContext \/ StopJoin
  <2>1. pc'["app"] # "idle_handled"
    <3>1. CASE SendTelegram
      BY <3>1 DEF SendTelegram
    <3>2. CASE WaitOnIdle \/ Stop \/ IdleConnected
      BY <1>0, <3>2, PcMoved DEF WaitOnIdle, Stop, IdleConnected, TypeOK
    <3>3. CASE IdleHandled \/ StopContext \/ StopJoin
      BY <1>0, <3>3, PcMoved DEF IdleHandled, StopContext, StopJoin, TypeOK
    <3> QED
      BY <1>3, <3>1, <3>2, <3>3 DEF Call
  <2> QED
    BY <2>1 DEF IdleInv
<1>4. CASE StopMessageThread("app")
  <2>1. pc'["app"] # "idle_handled"
    BY <1>0, <1>4, SmtMoves DEF Callers, SmtPcs, Returned
  <2> QED
    BY <2>1 DEF IdleInv
<1> QED
  BY <1>0, <1>1, <1>2, <1>3, <1>4, AppMoved DEF App

\* WaitOnIdle returns true: with an orderly server every telegram put before the
\* call is settled (completed, dropped by a reconnection, or abandoned), save one
\* that is on its way from the queue to the wire or was refused.
THEOREM IdleMeansServed == Spec => IdleMissesAtMostOne
<1>1. Init => IdleInv
  BY DEF Init, IdleInv
<1>2. BaseInv /\ IdleInv /\ [Next]_vars => IdleInv'
  <2>1. ASSUME IdleInv, UNCHANGED vars PROVE IdleInv'
    BY <2>1 DEF IdleInv, vars, exchange, observer
  <2> QED
    BY <2>1, IdleStep
<1>3. ASSUME ExchangeInv, IdleInv, [Next]_vars, IdleReturns, Orderly, NEW id \in 1..mark
      PROVE  \/ Settled(id)
             \/ id = current /\ (fate[id] = "taken" \/ pc["worker"] \in SmtPcs)
  <2> USE <1>3 DEF ExchangeInv, BaseInv, Move
  <2>1. TypeOK /\ id \in Ids /\ fate[id] # "queued"
    BY LenProperties DEF IdleInv, IdleReturns, TypeOK, TelegramsOK, Ids
  <2>2. handled
    <3>1. Next /\ pc["app"] = "idle_handled" /\ pc'["app"] = "ready"
      BY DEF IdleReturns, vars
    <3>2. ~StopMessageThread("app")
      BY <2>1, <3>1, SmtMoves DEF Callers, SmtPcs
    <3>3. Call \/ App
      BY <2>1, <3>1, AppMoved
    <3>4. IdleHandled
      BY <3>1, <3>2, <3>3 DEF Call, SendTelegram, WaitOnIdle, Stop, App, IdleConnected,
                              IdleEmpty, StopContext, StopJoin
    <3>5. Goto("app", IF handled THEN "ready" ELSE "idle_connected")
      BY <3>4 DEF IdleHandled
    <3> QED
      BY <2>1, <3>1, <3>5, PcMoved DEF TypeOK
  <2>3. CASE fate[id] = "taken"
    BY <2>1, <2>3 DEF QueueInv
  <2>4. CASE fate[id] = "sent"
    <3>1. id = current /\ Waiting /\ ~Settled(current)
      BY <2>1, <2>4 DEF QueueInv, Waiting, Settled
    <3> QED
      BY <2>2, <3>1 DEF LineInv, FateInv
  <2> QED
    BY <2>1, <2>3, <2>4 DEF Settled
<1>4. ExchangeInv /\ IdleInv /\ [Next]_vars =>
        [IdleReturns /\ Orderly =>
           \A id \in 1..mark :
             \/ Settled(id)
             \/ id = current /\ (fate[id] = "taken" \/ pc["worker"] \in SmtPcs)]_vars
  BY <1>3
<1> QED
  BY <1>1, <1>2, <1>4, BaseInvariant, ExchangeInvariant, PTL DEF Spec, IdleMissesAtMostOne

-----------------------------------------------------------------------------
(* MessageExchange implements RequestLine, if the server is orderly: theorem *)
(* ServedInLine.                                                             *)

-----------------------------------------------------------------------------
(* A telegram at the head of a sequence.                                     *)

LEMMA SingletonSeq ==
  ASSUME NEW x \in Nat
  PROVE  <<x>> \in Seq(Nat) /\ Len(<<x>>) = 1 /\ <<x>>[1] = x
OBVIOUS

LEMMA Prepend ==
  ASSUME NEW x \in Nat, NEW q \in Seq(Nat)
  PROVE  /\ <<x>> \o q \in Seq(Nat) /\ <<x>> \o q # <<>>
         /\ Len(<<x>> \o q) = Len(q) + 1 /\ Len(q) \in Nat
         /\ (<<x>> \o q)[1] = x /\ Head(<<x>> \o q) = x /\ Tail(<<x>> \o q) = q
         /\ SubSeq(<<x>> \o q, 2, Len(<<x>> \o q)) = q
<1> DEFINE s == <<x>> \o q
<1>1. /\ s \in Seq(Nat) /\ Len(s) = 1 + Len(q)
      /\ \A i \in 1..(1 + Len(q)) : s[i] = IF i <= 1 THEN <<x>>[i] ELSE q[i - 1]
  BY SingletonSeq, ConcatProperties
<1>2. Len(q) \in Nat
  BY LenProperties
<1> HIDE DEF s
<1>3. s # <<>> /\ Len(s) = Len(q) + 1
  BY <1>1, <1>2, EmptySeq
<1>4. s[1] = x
  BY <1>1, <1>2, SingletonSeq
<1>5. /\ Head(s) = s[1] /\ Tail(s) \in Seq(Nat) /\ Len(Tail(s)) = Len(q)
      /\ \A i \in 1..Len(q) : Tail(s)[i] = s[i + 1]
  BY <1>1, <1>2, <1>3, RangeTail
<1>6. \A i \in 1..Len(q) : s[i + 1] = q[i]
  <2> TAKE i \in 1..Len(q)
  <2>1. i + 1 \in 1..(1 + Len(q)) /\ ~(i + 1 <= 1) /\ (i + 1) - 1 = i
    BY <1>2
  <2> QED
    BY <1>1, <2>1
<1>7. Tail(s) = q
  BY <1>5, <1>6, SeqEqual
<1>8. SubSeq(s, 2, Len(s)) = q
  BY <1>1, <1>3, <1>7, TailIsSubSeq
<1> QED
  BY <1>1, <1>2, <1>3, <1>4, <1>5, <1>7, <1>8 DEF s

LEMMA HeadThenTail ==
  ASSUME NEW q \in Seq(Nat), q # <<>>
  PROVE  <<Head(q)>> \o Tail(q) = q
<1> DEFINE x == Head(q)
           t == Tail(q)
<1>1. /\ x \in Nat /\ t \in Seq(Nat) /\ x = q[1]
      /\ Len(q) \in Nat \ {0} /\ Len(t) = Len(q) - 1
      /\ \A i \in 1..(Len(q) - 1) : t[i] = q[i + 1]
  BY RangeTail
<1> HIDE DEF x, t
<1>2. /\ <<x>> \o t \in Seq(Nat) /\ Len(<<x>> \o t) = 1 + Len(t)
      /\ \A i \in 1..(1 + Len(t)) : (<<x>> \o t)[i] = IF i <= 1 THEN <<x>>[i] ELSE t[i - 1]
  BY <1>1, SingletonSeq, ConcatProperties
<1>3. Len(<<x>> \o t) = Len(q)
  BY <1>1, <1>2
<1>4. \A i \in 1..Len(<<x>> \o t) : (<<x>> \o t)[i] = q[i]
  <2> TAKE i \in 1..Len(<<x>> \o t)
  <2>1. i \in 1..(1 + Len(t))
    BY <1>2
  <2>2. CASE i = 1
    BY <1>1, <1>2, <2>1, <2>2, SingletonSeq
  <2>3. CASE i # 1
    <3>1. i - 1 \in 1..(Len(q) - 1) /\ (i - 1) + 1 = i /\ ~(i <= 1)
      BY <1>1, <2>1, <2>3
    <3> QED
      BY <1>1, <1>2, <2>1, <3>1
  <2> QED
    BY <2>2, <2>3
<1> QED
  BY <1>2, <1>3, <1>4, SeqEqual DEF x, t

-----------------------------------------------------------------------------
(* The line as the fates of the telegrams describe it.                       *)

Served == With({"done", "failed"})
Lost == With({"dropped", "abandoned"})

\* The telegrams of the line change no more than this step says.
LEMMA LineKept ==
  ASSUME UNCHANGED <<kind, fate, queue, current>>
  PROVE  UNCHANGED Line!vars
BY DEF Line!vars, Taken, With, Ids

\* One telegram moves on to another fate.
LEMMA WithUpdate ==
  ASSUME TypeOK, Ids' = Ids, NEW c \in Ids, NEW f, NEW F,
         \A n \in Ids : fate'[n] = IF n = c THEN f ELSE fate[n]
  PROVE  With(F)' = IF f \in F THEN With(F) \cup {c} ELSE With(F) \ {c}
BY DEF With

\* Telegrams are put: they are queued and those there were keep their fates.
LEMMA WithPut ==
  ASSUME NEW F, "queued" \notin F, \A n \in Ids : n \in Ids' /\ fate'[n] = fate[n],
         \A n \in Ids' \ Ids : fate'[n] = "queued"
  PROVE  With(F)' = With(F)
BY DEF With

\* The telegram out is the one the message thread waits for.
LEMMA ServingIs ==
  ASSUME TypeOK, QueueInv
  PROVE  With({"sent"}) = IF current # 0 /\ fate[current] = "sent" THEN {current} ELSE {}
<1>1. current # 0 => current \in Ids
  BY LenProperties DEF TypeOK, TelegramsOK, Ids
<1>2. 0 \notin Ids
  BY FateDomain DEF TypeOK
<1> QED
  BY <1>1, <1>2 DEF With, QueueInv

LEMMA LineTypes ==
  ASSUME TypeOK
  PROVE  /\ Len(kind) \in Nat /\ queue \in Seq(Nat) /\ Len(queue) \in Nat
         /\ Taken \in Seq(Nat) /\ Taken \o queue \in Seq(Nat)
<1>1. Len(kind) \in Nat /\ queue \in Seq(Nat) /\ current \in Nat
  BY LenProperties, SeqMonotonic DEF TypeOK, TelegramsOK, Ids
<1>2. Taken \in Seq(Nat)
  BY <1>1, SingletonSeq, EmptySeq DEF Taken
<1> QED
  BY <1>1, <1>2, LenProperties, ConcatProperties

LEMMA JoinEnd ==
  ASSUME NEW a \in Seq(Nat), NEW b \in Seq(Nat), NEW c \in Seq(Nat)
  PROVE  a \o (b \o c) = (a \o b) \o c
<1> DEFINE bc == b \o c
           ab == a \o b
<1>1. Len(a) \in Nat /\ Len(b) \in Nat /\ Len(c) \in Nat
  BY LenProperties
<1>2. /\ bc \in Seq(Nat) /\ Len(bc) = Len(b) + Len(c)
      /\ \A i \in 1..(Len(b) + Len(c)) : bc[i] = IF i <= Len(b) THEN b[i] ELSE c[i - Len(b)]
  BY ConcatProperties
<1>3. /\ ab \in Seq(Nat) /\ Len(ab) = Len(a) + Len(b)
      /\ \A i \in 1..(Len(a) + Len(b)) : ab[i] = IF i <= Len(a) THEN a[i] ELSE b[i - Len(a)]
  BY ConcatProperties
<1> HIDE DEF bc, ab
<1>4. ab \in Seq(Nat) /\ bc \in Seq(Nat)
  BY <1>2, <1>3
<1>5. /\ a \o bc \in Seq(Nat) /\ Len(a \o bc) = Len(a) + Len(bc)
      /\ \A i \in 1..(Len(a) + Len(bc)) :
           (a \o bc)[i] = IF i <= Len(a) THEN a[i] ELSE bc[i - Len(a)]
  BY <1>4, ConcatProperties, Zenon
<1>6. /\ ab \o c \in Seq(Nat) /\ Len(ab \o c) = Len(ab) + Len(c)
      /\ \A i \in 1..(Len(ab) + Len(c)) :
           (ab \o c)[i] = IF i <= Len(ab) THEN ab[i] ELSE c[i - Len(ab)]
  BY <1>4, ConcatProperties, Zenon
<1>7. Len(a \o bc) = Len(ab \o c)
  BY <1>1, <1>2, <1>3, <1>5, <1>6
<1>8. \A i \in 1..Len(a \o bc) : (a \o bc)[i] = (ab \o c)[i]
  <2> TAKE i \in 1..Len(a \o bc)
  <2>1. i \in 1..(Len(a) + Len(bc)) /\ i \in 1..(Len(ab) + Len(c))
    BY <1>1, <1>2, <1>3, <1>5
  <2>2. CASE i <= Len(a)
    <3>1. i \in 1..(Len(a) + Len(b)) /\ i <= Len(ab)
      BY <1>1, <1>3, <2>1, <2>2
    <3>2. (a \o bc)[i] = a[i]
      BY <1>5, <2>1, <2>2
    <3>3. (ab \o c)[i] = ab[i]
      BY <1>6, <2>1, <3>1
    <3>4. ab[i] = a[i]
      BY <1>3, <2>2, <3>1
    <3> QED
      BY <3>2, <3>3, <3>4
  <2>3. CASE ~(i <= Len(a)) /\ i <= Len(ab)
    <3>1. i - Len(a) \in 1..(Len(b) + Len(c)) /\ i - Len(a) <= Len(b)
      BY <1>1, <1>2, <1>3, <2>1, <2>3
    <3>2. i \in 1..(Len(a) + Len(b))
      BY <1>1, <1>3, <2>1, <2>3
    <3> QED
      BY <1>2, <1>3, <1>5, <1>6, <2>1, <2>3, <3>1, <3>2
  <2>4. CASE ~(i <= Len(a)) /\ ~(i <= Len(ab))
    <3>1. /\ i - Len(a) \in 1..(Len(b) + Len(c)) /\ ~(i - Len(a) <= Len(b))
          /\ (i - Len(a)) - Len(b) = i - Len(ab)
      BY <1>1, <1>2, <1>3, <2>1, <2>4
    <3> QED
      BY <1>2, <1>5, <1>6, <2>1, <2>4, <3>1
  <2> QED
    BY <2>2, <2>3, <2>4
<1>9. a \o bc = ab \o c
  BY <1>5, <1>6, <1>7, <1>8, SeqEqual
<1> QED
  BY <1>9 DEF bc, ab

\* TelegramQueue::Put enqueues: what waited still waits, ahead of the new ones.
LEMMA PutEnqueues ==
  ASSUME TypeOK, NEW ks \in Seq(Kinds), NEW fates, PutAfter(fates, ks), Taken' = Taken,
         Len(kind') = Len(kind) + Len(ks)
  PROVE  Line!Enqueue
<1> DEFINE ids == [i \in 1..Len(ks) |-> Len(kind) + i]
<1>1. Len(kind) \in Nat /\ Len(ks) \in Nat /\ queue \in Seq(Nat) /\ Taken \in Seq(Nat)
  BY LineTypes, LenProperties
<1>2. ids \in Seq(Nat)
  <2>1. ids \in [1..Len(ks) -> Nat]
    BY <1>1
  <2> QED
    BY <1>1, <2>1, LenOfList
<1>3. queue' = queue \o ids
  BY DEF PutAfter
<1>4. ids = [i \in 1..(Len(kind') - Len(kind)) |-> Len(kind) + i]
  BY <1>1
<1> HIDE DEF ids
<1>5. Taken' \o queue' = (Taken \o queue) \o ids
  <2>1. (Taken \o queue) \o ids = Taken \o (queue \o ids)
    BY <1>1, <1>2, JoinEnd
  <2> QED
    BY <1>3, <2>1
<1>6. Len(kind)' \in Nat /\ Len(kind)' >= Len(kind)
  BY <1>1
<1> QED
  BY <1>4, <1>5, <1>6 DEF Line!Enqueue

-----------------------------------------------------------------------------
(* Every step is a step of the line, or leaves it alone.                     *)

\* SendTelegram, Stop and StartMessageThread put telegrams.
LEMMA PutStep ==
  ASSUME BaseInv, NEW ks \in Seq(Kinds), Put(ks), current' = current
  PROVE  Line!Submit
<1> USE DEF BaseInv
<1>1. fate \in Seq(Fates) /\ Len(fate) = Len(kind) /\ PutAfter(fate, ks)
  BY DEF Put, TypeOK, TelegramsOK
<1>2. /\ Len(kind) \in Nat /\ Len(ks) \in Nat /\ Len(kind') = Len(kind) + Len(ks)
      /\ \A id \in 1..Len(kind) : fate'[id] = fate[id]
      /\ \A id \in Len(kind) + 1 .. Len(kind) + Len(ks) : fate'[id] = "queued"
  BY <1>1, PutFacts DEF TypeOK
<1>3. \A id \in Ids : id \in Ids' /\ fate'[id] = fate[id]
  BY <1>2 DEF Ids
<1>4. \A id \in Ids' \ Ids : fate'[id] = "queued"
  BY <1>2 DEF Ids
<1>5. Taken' = Taken
  <2>1. current # 0 => current \in Ids
    BY LenProperties DEF TypeOK, TelegramsOK, Ids
  <2> QED
    BY <1>3, <2>1 DEF Taken
<1>6. Line!Enqueue
  BY <1>1, <1>2, <1>5, PutEnqueues
<1>7. \A F : "queued" \notin F => With(F)' = With(F)
  BY <1>3, <1>4, WithPut
<1> QED
  BY <1>6, <1>7 DEF Line!Submit

\* StartMessageThread clears the queue.
LEMMA ClearStep ==
  ASSUME BaseInv, StartThread
  PROVE  Line!Discard \/ UNCHANGED Line!vars
<1> USE DEF BaseInv
<1>1. ~joinable /\ pc["message"] = "off"
  BY DEF StartThread, SocketInv
<1>2. /\ kind' = kind /\ current' = current /\ queue' = <<>> /\ Ids' = Ids
      /\ \A id \in Ids : fate'[id] = IF fate[id] = "queued" THEN "dropped" ELSE fate[id]
  BY <1>1, FateDomain DEF StartThread, TypeOK, Ids
<1>3. current # 0 => current \in Ids
  BY LenProperties DEF TypeOK, TelegramsOK, Ids
<1>4. Taken = <<>> /\ Taken' = <<>>
  BY <1>1, <1>2, <1>3 DEF Taken, QueueInv
<1>5. Taken \o queue = queue /\ Taken' \o queue' = <<>>
  BY <1>2, <1>4, LineTypes, ConcatEmptySeq, EmptySeq
<1>6. With({"sent"})' = With({"sent"}) /\ Served' = Served
  BY <1>2 DEF With, Served
<1>7. Lost' = Lost \cup RangeOf(queue)
  <2>1. RangeOf(queue) \subseteq Ids
    BY ElementOfSeq, LenProperties DEF TypeOK, TelegramsOK, RangeOf
  <2> QED
    BY <1>2, <2>1 DEF With, Lost, QueueInv
<1>8. CASE queue = <<>>
  <2>1. RangeOf(queue) = {}
    BY <1>8 DEF RangeOf
  <2> QED
    BY <1>2, <1>5, <1>6, <1>7, <1>8, <2>1 DEF Line!vars, Served, Lost
<1>9. CASE queue # <<>>
  <2>1. RangeOf(queue) = {queue[i] : i \in 1..Len(queue)}
    BY LineTypes, LenProperties DEF RangeOf
  <2>2. SubSeq(queue, Len(queue) + 1, Len(queue)) = <<>>
    BY LineTypes, SubSeqEmpty
  <2>3. /\ Lost' = Lost \cup {queue[i] : i \in 1..Len(queue)}
        /\ queue' = SubSeq(queue, Len(queue) + 1, Len(queue))
    BY <1>2, <1>7, <2>1, <2>2
  <2> QED
    BY <1>2, <1>5, <1>6, <1>9, <2>3 DEF Line!Discard, Served, Lost
<1> QED
  BY <1>8, <1>9

\* OnComplete is called for the telegram that is out.
LEMMA CallbackCompletes ==
  ASSUME BaseInv, LineInv, Callback
  PROVE  Line!Complete \/ UNCHANGED Line!vars
<1> USE DEF BaseInv
<1>1. CASE current # using \/ attached = NoReply
  BY <1>1, LineKept DEF Callback, Fail, exchange
<1>2. CASE current = using /\ attached # NoReply
  <2> DEFINE ks == FollowUp[kind[current]][attached.status = "OK"]
             fates == [fate EXCEPT ![current] = Completion]
  <2>1. /\ current \in Ids /\ current # 0 /\ fate[current] = "sent"
        /\ Completion \in {"done", "failed"}
        /\ PutAfter(fates, ks) /\ ks \in Seq(Kinds)
        /\ \A id \in Ids : /\ kind'[id] = kind[id]
                           /\ fate'[id] = IF id = current THEN Completion ELSE fate[id]
        /\ Len(kind) \in Nat /\ Len(kind') \in Nat /\ Len(kind) <= Len(kind')
        /\ \A id \in Ids' \ Ids : fate'[id] = "queued"
    BY <1>2, CallbackStep, FateDomain DEF TypeOK
  <2>2. current' = current
    BY <1>2 DEF Callback
  <2>3. Taken = <<>> /\ Taken' = <<>>
    BY <2>1, <2>2 DEF Taken
  <2>4. Ids \subseteq Ids'
    BY <2>1 DEF Ids
  <2> HIDE DEF ks, fates
  <2>5. Len(kind') = Len(kind) + Len(ks)
    BY <2>1, ConcatProperties DEF PutAfter, TypeOK, TelegramsOK
  <2>6. Line!Enqueue
    BY <2>1, <2>3, <2>5, PutEnqueues
  <2>7. With({"sent"}) = {current}
    BY <2>1, ServingIs
  <2>8. /\ With({"sent"})' = {}
        /\ Served' = Served \cup {current} /\ Lost' = Lost
    <3>1. With({"sent"})' = {}
      BY <2>1, <2>7 DEF With
    <3>2. Served' = Served \cup {current} /\ Lost' = Lost
      BY <2>1, <2>4 DEF With, Served, Lost
    <3> QED
      BY <3>1, <3>2
  <2> QED
    BY <2>6, <2>7, <2>8 DEF Line!Complete, Served, Lost
<1> QED
  BY <1>1, <1>2

\* TelegramQueue::Get only makes the head of the queue current_message_.
LEMMA GetStays ==
  ASSUME BaseInv, Get
  PROVE  UNCHANGED Line!vars
<1> USE DEF BaseInv
<1>1. /\ queue # <<>> /\ pc["message"] = "get" /\ current' = Head(queue) /\ kind' = kind
      /\ queue' = Tail(queue) /\ fate' = [fate EXCEPT ![Head(queue)] = "taken"]
  BY DEF Get, Move
<1>2. Head(queue) \in Ids /\ Head(queue) \in RangeOf(queue)
  BY <1>1, RangeTail DEF TypeOK, TelegramsOK
<1>3. Ids' = Ids /\ Head(queue) # 0
  BY <1>1, <1>2, FateDomain DEF Ids, TypeOK
<1>4. \A n \in Ids : fate'[n] = IF n = Head(queue) THEN "taken" ELSE fate[n]
  BY <1>1, <1>2, FateDomain DEF TypeOK
<1>5. fate[Head(queue)] = "queued"
  BY <1>2 DEF QueueInv
<1>6. Taken = <<>> /\ Taken' = <<Head(queue)>>
  <2>1. current # 0 => current \in Ids
    BY LenProperties DEF TypeOK, TelegramsOK, Ids
  <2> QED
    BY <1>1, <1>2, <1>3, <1>4, <2>1 DEF Taken, QueueInv
<1>7. Taken' \o queue' = Taken \o queue
  <2>1. queue \in Seq(Nat)
    BY LineTypes
  <2> QED
    BY <1>1, <1>6, <2>1, HeadThenTail, ConcatEmptySeq
<1>8. UNCHANGED <<With({"sent"}), With({"done", "failed"}), With({"dropped", "abandoned"})>>
  BY <1>3, <1>4, <1>5 DEF With
<1> QED
  BY <1>1, <1>7, <1>8 DEF Line!vars

\* MessageThread drops the telegram it has just taken, being told to stop.
LEMMA CheckStep ==
  ASSUME BaseInv, LineInv, Check
  PROVE  Line!Discard \/ UNCHANGED Line!vars
<1> USE DEF BaseInv
<1>1. /\ current \in Ids /\ current # 0 /\ current \in Nat /\ Ids' = Ids
      /\ fate[current] = "taken"
      /\ kind' = kind /\ queue' = queue /\ current' = current
  <2>1. pc["message"] = "check" /\ UNCHANGED <<kind, queue, current>>
    BY DEF Check, Move
  <2> QED
    BY <2>1, CurrentPut DEF Ids, LineInv, FateInv
<1>2. CASE ~stopping
  BY <1>1, <1>2, LineKept DEF Check
<1>3. CASE stopping
  <2>1. \A n \in Ids : fate'[n] = IF n = current THEN "dropped" ELSE fate[n]
    <3>1. Settle(current, "dropped") /\ ~Settled(current)
      BY <1>1, <1>3 DEF Check, Settled
    <3> QED
      BY <1>1, <3>1, SettleUpdate DEF TypeOK, TelegramsOK, Settled
  <2>2. /\ With({"sent"})' = With({"sent"}) /\ Served' = Served
        /\ Lost' = Lost \cup {current}
    BY <1>1, <2>1 DEF With, Served, Lost
  <2>3. Taken = <<current>> /\ Taken' = <<>>
    BY <1>1, <2>1 DEF Taken
  <2> DEFINE w == <<current>> \o queue
  <2>4. /\ w # <<>> /\ w[1] = current /\ queue = SubSeq(w, 1 + 1, Len(w))
    BY <1>1, LineTypes, Prepend
  <2>5. Taken' \o queue' = queue
    BY <1>1, <2>3, LineTypes, ConcatEmptySeq
  <2>6. Taken \o queue = w
    BY <2>3
  <2> HIDE DEF w
  <2>7. {w[i] : i \in 1..1} = {current}
    BY <2>4
  <2> QED
    BY <1>1, <2>2, <2>4, <2>5, <2>6, <2>7 DEF Line!Discard, Served, Lost
<1> QED
  BY <1>2, <1>3

\* HandleRequest sends the telegram, and no other is out.
LEMMA SendStep ==
  ASSUME BaseInv, LineInv, Send
  PROVE  Line!Serve \/ UNCHANGED Line!vars
<1> USE DEF BaseInv
<1>1. /\ current \in Ids /\ current # 0 /\ current \in Nat
      /\ fate[current] = "taken" /\ ~Settled(current)
  <2>1. pc["message"] = "send"
    BY DEF Send
  <2> QED
    BY <2>1, CurrentPut DEF Ids, LineInv, FateInv, Settled
<1>2. CASE link = "none"
  BY <1>2, LineKept DEF Send, Fail, exchange
<1>3. CASE link # "none"
  <2>1. /\ kind' = kind /\ queue' = queue /\ current' = current /\ Ids' = Ids
        /\ fate' = [fate EXCEPT ![current] = "sent"]
    BY <1>1, <1>3 DEF Send, Ids
  <2>2. \A n \in Ids : fate'[n] = IF n = current THEN "sent" ELSE fate[n]
    BY <1>1, <2>1, FateDomain DEF TypeOK
  <2>3. With({"sent"}) = {}
    BY <1>1, ServingIs
  <2>4. With({"sent"})' = {current} /\ Served' = Served /\ Lost' = Lost
    BY <1>1, <2>1, <2>2, <2>3 DEF With, Served, Lost
  <2>5. Taken = <<current>> /\ Taken' = <<>>
    BY <1>1, <2>1, <2>2 DEF Taken
  <2>6. Taken' \o queue' = queue
    BY <2>1, <2>5, LineTypes, ConcatEmptySeq
  <2> DEFINE w == <<current>> \o queue
  <2>7. w # <<>> /\ Head(w) = current /\ Tail(w) = queue
    BY <1>1, LineTypes, Prepend
  <2>8. Taken \o queue = w
    BY <2>5
  <2> HIDE DEF w
  <2> QED
    BY <2>1, <2>3, <2>4, <2>6, <2>7, <2>8 DEF Line!Serve, Served, Lost
<1> QED
  BY <1>2, <1>3

\* MessageThread resets current_message_: what is still out is given up.
LEMMA WaitDoneStep ==
  ASSUME BaseInv, WaitDone
  PROVE  Line!GiveUp
<1> USE DEF BaseInv
<1>1. /\ pc["message"] = "wait" /\ kind' = kind /\ queue' = queue /\ current' = 0 /\ Ids' = Ids
      /\ Settle(current, "abandoned")
  BY DEF WaitDone, Move, Ids
<1>2. current \in Ids /\ current # 0
  BY <1>1, CurrentPut
<1>3. fate[current] = "sent" <=> ~Settled(current)
  BY <1>1, <1>2 DEF QueueInv, Settled
<1>4. \A n \in Ids : fate'[n] = IF n = current /\ fate[current] = "sent" THEN "abandoned" ELSE fate[n]
  BY <1>1, <1>3, SettleUpdate DEF TypeOK, TelegramsOK
<1>5. Taken = <<>> /\ Taken' = <<>>
  BY <1>1, <1>2 DEF Taken, QueueInv
<1>6. With({"sent"}) = IF fate[current] = "sent" THEN {current} ELSE {}
  BY <1>2, ServingIs
<1>7. /\ With({"sent"})' = {} /\ Served' = Served
      /\ Lost' = Lost \cup With({"sent"})
  BY <1>1, <1>2, <1>4, <1>6 DEF With, Served, Lost
<1> QED
  BY <1>1, <1>5, <1>7 DEF Line!GiveUp, Served, Lost

LEMMA ServesStep ==
  ASSUME BaseInv, LineInv, Next
  PROVE  Line!Next \/ UNCHANGED Line!vars
<1> USE DEF Line!Next
<1>1. CASE SendTelegram \/ Stop \/ Greet
  <2>1. PICK k \in Kinds : Put(<<k>>) /\ current' = current
    <3>1. CASE SendTelegram
      BY <3>1, KindsAssumption DEF SendTelegram
    <3>2. CASE Stop
      BY <3>2, KindsAssumption DEF Stop
    <3>3. CASE Greet
      <4>1. greeted + 1 \in 1..Len(Startup)
        BY <3>3, KindsAssumption, LenProperties DEF Greet, BaseInv, TypeOK, CountsOK
      <4>2. Startup[greeted + 1] \in Kinds
        BY <4>1, KindsAssumption, ElementOfSeq
      <4> QED
        BY <3>3, <4>2 DEF Greet
    <3> QED
      BY <1>1, <3>1, <3>2, <3>3
  <2>2. <<k>> \in Seq(Kinds)
    OBVIOUS
  <2> QED
    BY <2>1, <2>2, PutStep
<1>2. CASE StartThread
  BY <1>2, ClearStep
<1>3. CASE Callback
  BY <1>3, CallbackCompletes
<1>4. CASE Get
  BY <1>4, GetStays
<1>5. CASE Check
  BY <1>5, CheckStep
<1>6. CASE Send
  BY <1>6, SendStep
<1>7. CASE WaitDone
  BY <1>7, WaitDoneStep
<1>8. WaitOnIdle \/ IdleHandled \/ Receive \/ SwitchNotProcessed \/ SwitchAck \/ SwitchRepeat
        \/ SwitchFinal \/ Finish => UNCHANGED <<kind, fate, queue, current>>
  BY DEF WaitOnIdle, IdleHandled, Receive, SwitchNotProcessed, SwitchAck, SwitchRepeat,
         SwitchFinal, Finish, Fail, exchange
<1>9. UNCHANGED <<kind, fate, queue, current>> => UNCHANGED Line!vars
  BY LineKept
<1> QED
  BY <1>1, <1>2, <1>3, <1>4, <1>5, <1>6, <1>7, <1>8, <1>9, TelegramsTouched

-----------------------------------------------------------------------------
(* The theorem.                                                              *)

\* SendTelegram, MessageThread and HandleResponse: with a server that answers
\* every request once and in time the client serves the telegrams one at a time,
\* in the order they were put, each at most once, and one that is completed or
\* lost stays so.
THEOREM ServedInLine ==
  ASSUME Prompt, Budget["unsolicited"] = 0
  PROVE  Spec => ServesInLine
<1>1. Init => Line!Init
  <2> SUFFICES ASSUME Init PROVE Line!Init
    OBVIOUS
  <2>1. Len(kind) = 0 /\ Ids = {}
    BY DEF Init, Ids
  <2>2. Taken \o queue = <<>>
    BY ConcatEmptySeq, EmptySeq DEF Init, Taken
  <2> QED
    BY <2>1, <2>2 DEF Line!Init, With
<1>2. BaseInv => Orderly
  <2> SUFFICES ASSUME BaseInv PROVE Orderly
    OBVIOUS
  <2>1. spare["unsolicited"] \in Nat /\ spare["unsolicited"] <= Budget["unsolicited"]
    BY DEF BaseInv, TypeOK, WireOK, Quirks, PlacesInv
  <2> QED
    BY <2>1 DEF Orderly
<1>3. ExchangeInv /\ [Next]_vars => [Line!Next]_(Line!vars)
  <2> SUFFICES ASSUME ExchangeInv, [Next]_vars PROVE Line!Next \/ UNCHANGED Line!vars
    OBVIOUS
  <2>1. BaseInv /\ LineInv
    BY <1>2 DEF ExchangeInv
  <2>2. CASE UNCHANGED vars
    BY <2>2, LineKept DEF vars, exchange
  <2> QED
    BY <2>1, <2>2, ServesStep
<1> QED
  BY <1>1, <1>3, ExchangeInvariant, PTL DEF Spec, ServesInLine, Line!Spec
==============================================================================
