----------------------------- MODULE ComTest_proof -----------------------------
(* QueryParameters: what is true when WaitOnIdle has returned, for every      *)
(* number of parameters, window, server and schedule.                         *)
EXTENDS ComTest, SequenceTheorems, TLAPS

-----------------------------------------------------------------------------
(* Program counters.                                                          *)

Threads == {"app", "worker", "message"}
PcOK == pc \in [app : AppPcs, worker : WorkerPcs, message : MessagePcs]

LEMMA PcMoved ==
  ASSUME PcOK, NEW t \in Threads, NEW l, Goto(t, l)
  PROVE  pc'[t] = l /\ \A u \in Threads \ {t} : pc'[u] = pc[u]
BY DEF PcOK, Goto, Threads

LEMMA PcTyped ==
  PcOK <=> /\ pc = [app |-> pc["app"], worker |-> pc["worker"], message |-> pc["message"]]
           /\ pc["app"] \in AppPcs /\ pc["worker"] \in WorkerPcs
           /\ pc["message"] \in MessagePcs
BY DEF PcOK

LEMMA PcGoes ==
  /\ PcOK => \A l \in AppPcs : Goto("app", l) => PcOK'
  /\ PcOK => \A l \in WorkerPcs : Goto("worker", l) => PcOK'
  /\ PcOK => \A l \in MessagePcs : Goto("message", l) => PcOK'
BY DEF PcOK, Goto

-----------------------------------------------------------------------------
(* Types, and where the threads may be at the same time.                      *)

\* The telegrams the client queues.
Mine == [do : Does \ {"none"}, args : Seq(Nat)]
TelegramsOK == queue \in Seq(Mine) /\ current \in Mine \cup {NoTelegram}

TextsOK == services \in Seq(ToSet(Offered))

FlagsOK ==
  /\ number \in Numbers /\ parsed \in Nat
  /\ handled \in BOOLEAN /\ stopping \in BOOLEAN /\ connected \in BOOLEAN
  /\ link \in {"none", "open", "broken"} /\ reply \in Statuses /\ refused \in BOOLEAN
  /\ left \subseteq {"taken", "queued"} /\ result \in {"none", "true", "false"}
  /\ after \in {"has_number", "started"} /\ spare \in [Events -> Nat] /\ fault \in Faults

\* Where the three threads may be at the same time.
Handling == {"set_services", "set_parameters", "complete", "finish"}
FlowInv ==
  /\ link = "open" => ~stopping
  /\ pc["worker"] = "down" <=> link = "none"
  /\ pc["worker"] = "down" => pc["message"] = "off"
  /\ pc["worker"] = "closing" => link = "broken"
  /\ stopping => pc["worker"] \in {"down", "closing"}
  /\ pc["message"] = "off" => stopping
  /\ pc["message"] \in {"check", "send", "wait"} => current \in Mine
  /\ pc["message"] = "send" => ~handled
  /\ pc["worker"] \in Handling \cup {"over"} =>
       pc["message"] = "wait" /\ ~handled /\ reply # "asked"
  /\ reply # "none" => pc["message"] = "wait" /\ ~handled /\ link = "open"

BaseInv == PcOK /\ FlagsOK /\ TextsOK /\ TelegramsOK /\ FlowInv

LEMMA ServerFixed == Next => number' = number
<1> USE DEF data, exchange, server, observer, AppOnly, WorkerOnly, MessageOnly, Running, Fail
<1>1. Running(App) => number' = number
  BY DEF App, IdleConnected, IdleEmpty, IdleHandled, HasNumber, HasConfig, Found, AskNumber,
         Started, ReadList
<1>2. Running(Worker) => number' = number
  BY DEF Worker, OnStartMessage, Greeted, Close, StopMessageThread, CloseSocket,
         ClearServices, SetServiceList, Complete, SetNumber, BeginParameters, SetParameters,
         PassOn, Finish
<1>3. Running(Message) => number' = number
  BY DEF Message, Get, GetNothing, Check, Send, WaitDone
<1> QED
  BY <1>1, <1>2, <1>3 DEF Next, Connect, Break, Serve, Refuse

LEMMA PcStep == ASSUME BaseInv, Next PROVE PcOK'
<1> USE DEF data, exchange, server, observer, AppOnly, WorkerOnly, MessageOnly, Running, Fail,
            Move
<1>0. PcOK /\ after \in AppPcs
  BY DEF BaseInv, FlagsOK, AppPcs
<1>1. CASE pc' = pc
  BY <1>0, <1>1 DEF PcOK
<1>2. CASE Running(App)
  <2>1. pc' = pc \/ \E l \in AppPcs : Goto("app", l)
    BY <1>0, <1>2 DEF App, IdleConnected, IdleEmpty, IdleHandled, HasNumber, HasConfig, Found,
         AskNumber, Started, ReadList, AppPcs
  <2> QED
    BY <1>0, <1>1, <2>1, PcGoes
<1>3. CASE Running(Worker)
  <2>1. pc' = pc \/ \E l \in WorkerPcs : Goto("worker", l)
    BY <1>3 DEF Worker, OnStartMessage, Greeted, Close, StopMessageThread, CloseSocket,
         ClearServices, SetServiceList, Complete, SetNumber, BeginParameters, SetParameters,
         PassOn, Finish, WorkerPcs
  <2> QED
    BY <1>0, <1>1, <2>1, PcGoes
<1>4. CASE Running(Message)
  <2>1. \E l \in MessagePcs : Goto("message", l)
    BY <1>4 DEF Message, Get, GetNothing, Check, Send, WaitDone, MessagePcs
  <2> QED
    BY <1>0, <2>1, PcGoes
<1>5. CASE Running(Connect)
  BY <1>0, <1>5 DEF Connect, PcOK, WorkerPcs, MessagePcs
<1> QED
  BY <1>1, <1>2, <1>3, <1>4, <1>5 DEF Next, Break, Serve, Refuse

LEMMA FlagsStep == ASSUME BaseInv, Next PROVE FlagsOK'
<1> USE DEF data, exchange, server, observer, AppOnly, WorkerOnly, MessageOnly, Running, Fail,
            Move, FlagsOK
<1>0. FlagsOK /\ Chunk \in Nat
  BY NumbersAssumption DEF BaseInv
<1>1. number' = number
  BY ServerFixed
<1>2. CASE UNCHANGED <<handled, stopping, connected, link, reply, refused, parsed, left, result,
                       after, spare, fault>>
  BY <1>0, <1>1, <1>2
<1>3. CASE Running(App)
  <2>1. CASE IdleHandled
    BY <1>0, <1>1, <2>1 DEF IdleHandled
  <2>2. CASE \E s \in {"number", "config"}, next \in AppPcs : Found(s, next)
    <3>1. /\ result' \in {result, "false"} /\ fault' \in {fault, "services read while written"}
          /\ UNCHANGED <<handled, stopping, connected, link, reply, refused, parsed, left, after,
                         spare>>
      BY <2>2 DEF Found
    <3> QED
      BY ZenonT(40), <1>0, <1>1, <3>1 DEF Faults
  <2>3. CASE Started
    BY <1>0, <1>1, <2>3 DEF Started
  <2>4. CASE ReadList
    BY ZenonT(40), <1>0, <1>1, <2>4 DEF ReadList, Faults
  <2>5. CASE AskNumber
    BY <1>0, <1>1, <2>5 DEF AskNumber, AppPcs
  <2>7. CASE IdleConnected \/ IdleEmpty
    BY <1>2, <2>7 DEF IdleConnected, IdleEmpty
  <2> QED
    BY <1>3, <2>1, <2>2, <2>3, <2>4, <2>5, <2>7 DEF App, HasNumber, HasConfig, AppPcs
<1>4. CASE Running(Worker)
  <2>1. CASE Greeted \/ Close \/ StopMessageThread \/ CloseSocket \/ Finish
    <3>1. CASE Greeted \/ Close
      BY <1>0, <1>1, <3>1 DEF Greeted, Close
    <3>2. CASE StopMessageThread
      BY <1>0, <1>1, <3>2 DEF StopMessageThread
    <3>3. CASE CloseSocket
      BY <1>0, <1>1, <3>3 DEF CloseSocket
    <3>4. CASE Finish
      BY <1>0, <1>1, <3>4 DEF Finish, Statuses
    <3> QED
      BY <2>1, <3>1, <3>2, <3>3, <3>4
  <2>2. CASE ~(Greeted \/ Close \/ StopMessageThread \/ CloseSocket \/ Finish)
    <3>1. CASE SetParameters
      <4>1. parsed' \in Nat
        BY <1>0, <3>1 DEF SetParameters
      <4> QED
        BY <1>0, <1>1, <3>1, <4>1 DEF SetParameters
    <3>2. CASE ~SetParameters
      BY <1>2, <1>4, <2>2, <3>2 DEF Worker, OnStartMessage, ClearServices, SetServiceList,
           Complete, SetNumber, BeginParameters, PassOn
    <3> QED
      BY <3>1, <3>2
  <2> QED
    BY <2>1, <2>2
<1>5. CASE Running(Message)
  <2>1. CASE Check
    <3>1. handled' \in BOOLEAN
      BY <1>0, <2>1 DEF Check
    <3>2. UNCHANGED <<stopping, connected, link, reply, refused, parsed, left, result, after, spare,
                      fault>>
      BY <2>1 DEF Check
    <3> QED
      BY <1>0, <1>1, <3>1, <3>2
  <2>2. CASE Send
    <3>1. reply' \in Statuses
      BY <1>0, <2>2 DEF Send, Statuses
    <3>2. UNCHANGED <<handled, stopping, connected, link, refused, parsed, left, result, after,
                      spare, fault>>
      BY <2>2 DEF Send
    <3> QED
      BY <1>0, <1>1, <3>1, <3>2
  <2>3. CASE Get \/ GetNothing \/ WaitDone
    BY <1>2, <2>3 DEF Get, GetNothing, WaitDone
  <2> QED
    BY <1>5, <2>1, <2>2, <2>3 DEF Message
<1>6. ASSUME NEW e \in Events, Spend(e) PROVE spare' \in [Events -> Nat]
  BY <1>0, <1>6 DEF Spend
<1>7. CASE Running(Connect) \/ Running(Break) \/ Running(Refuse)
  <2>1. spare' \in [Events -> Nat]
    BY <1>6, <1>7 DEF Connect, Break, Refuse, Events
  <2>3. CASE Running(Connect)
    BY <1>0, <1>1, <2>1, <2>3 DEF Connect, Statuses
  <2>4. CASE Running(Break)
    BY <1>0, <1>1, <2>1, <2>4 DEF Break, Statuses
  <2>5. CASE Running(Refuse)
    BY <1>0, <1>1, <2>1, <2>5 DEF Refuse, Statuses
  <2> QED
    BY <1>7, <2>3, <2>4, <2>5
<1>8. CASE Running(Serve)
  BY <1>0, <1>1, <1>8 DEF Serve, Statuses
<1> QED
  BY <1>3, <1>4, <1>5, <1>7, <1>8 DEF Next

-----------------------------------------------------------------------------
(* What is queued.                                                            *)

LEMMA LenOfList ==
  ASSUME NEW S, NEW n \in Nat, NEW s \in [1..n -> S]
  PROVE  s \in Seq(S) /\ Len(s) = n
OBVIOUS

LEMMA SingletonSeq ==
  ASSUME NEW S, NEW x \in S
  PROVE  <<x>> \in Seq(S) /\ Len(<<x>>) = 1 /\ <<x>>[1] = x
OBVIOUS

\* What SetServiceList makes of the items of the answer.
LEMMA ListTail == LET items == <<Len(Offered)>> \o Offered IN Tail(items) = Offered
<1> DEFINE S == Nat \cup STRING
           items == <<Len(Offered)>> \o Offered
<1>1. Len(Offered) \in Nat /\ Offered \in Seq(S)
  BY ServicesAssumption, LenProperties, SeqMonotonic
<1>2. <<Len(Offered)>> \in Seq(S) /\ Len(<<Len(Offered)>>) = 1
  BY <1>1, SingletonSeq
<1> HIDE DEF S
<1>3. /\ items \in Seq(S) /\ Len(items) = 1 + Len(Offered)
      /\ \A i \in 1..(1 + Len(Offered)) :
           items[i] = IF i <= 1 THEN <<Len(Offered)>>[i] ELSE Offered[i - 1]
  BY <1>1, <1>2, ConcatProperties
<1> HIDE DEF items
<1>4. items # <<>>
  BY <1>1, <1>3, EmptySeq
<1>5. /\ Tail(items) \in Seq(S) /\ Len(Tail(items)) = Len(Offered)
      /\ \A i \in 1..Len(Offered) : Tail(items)[i] = items[i + 1]
  BY <1>1, <1>3, <1>4, HeadTailProperties
<1>6. \A i \in 1..Len(Offered) : items[i + 1] = Offered[i]
  <2> TAKE i \in 1..Len(Offered)
  <2>1. i + 1 \in 1..(1 + Len(Offered)) /\ ~(i + 1 <= 1) /\ (i + 1) - 1 = i
    BY <1>1
  <2> QED
    BY <1>3, <2>1
<1>7. Tail(items) = Offered
  BY <1>1, <1>5, <1>6, SeqEqual
<1> QED
  BY <1>7 DEF items

LEMMA MineHas ==
  /\ Telegram("init", <<>>) \in Mine /\ Telegram("services", <<>>) \in Mine
  /\ \A args \in Seq(Nat) : Telegram("number", <<>>) \in Mine /\ Telegram("config", args) \in Mine
<1>1. <<>> \in Seq(Nat)
  OBVIOUS
<1> QED
  BY <1>1 DEF Mine, Does, Telegram

\* No telegram that is queued is the empty one.
LEMMA MineIs ==
  ASSUME NEW t \in Mine
  PROVE  t # NoTelegram /\ t.do \in Does \ {"none"}
BY DEF Mine, Does, NoTelegram, Telegram

LEMMA RequestsType ==
  ASSUME NEW n \in Nat
  PROVE  Requests(n) \in Seq(Mine)
<1>1. Chunk \in Nat \ {0} /\ AskFrom \in Nat /\ AskTo \in Nat
  BY NumbersAssumption
<1>2. n + Chunk - 1 \in Nat
  BY <1>1
<1>3. Windows(n) \in Nat
  BY <1>1, <1>2 DEF Windows
<1>4. <<AskFrom, AskTo>> \in Seq(Nat)
  BY <1>1
<1>5. Requests(n) \in [1..Windows(n) -> Mine]
  BY <1>4, MineHas DEF Requests
<1> QED
  BY <1>3, <1>5, LenOfList

LEMMA PutMine ==
  ASSUME queue \in Seq(Mine), NEW ts \in Seq(Mine), Put(ts)
  PROVE  queue' \in Seq(Mine)
BY ConcatProperties DEF Put

\* Steps that neither queue nor take a telegram.
LEMMA TelegramsTouched ==
  Next => \/ UNCHANGED <<queue, current>>
          \/ AskNumber \/ Connect \/ OnStartMessage \/ SetNumber \/ Get \/ WaitDone
<1> USE DEF data, exchange, server, observer, AppOnly, WorkerOnly, MessageOnly, Running, Fail,
            Move
<1>1. CASE Running(App)
  BY <1>1 DEF App, IdleConnected, IdleEmpty, IdleHandled, HasNumber, HasConfig, Found,
         Started, ReadList
<1>2. CASE Running(Worker)
  BY <1>2 DEF Worker, Greeted, Close, StopMessageThread, CloseSocket, ClearServices,
         SetServiceList, Complete, BeginParameters, SetParameters, PassOn, Finish
<1>3. CASE Running(Message)
  BY <1>3 DEF Message, GetNothing, Check, Send
<1> QED
  BY <1>1, <1>2, <1>3 DEF Next, Break, Serve, Refuse

\* The telegrams that are put are those of the client.
LEMMA PutsMine ==
  ASSUME BaseInv, AskNumber \/ OnStartMessage \/ SetNumber
  PROVE  current' = current /\ \E ts \in Seq(Mine) : Put(ts)
<1> USE DEF data, exchange, server, observer, WorkerOnly, MessageOnly, Move
<1>0. number \in Numbers
  BY DEF BaseInv, FlagsOK
<1> DEFINE Goal == current' = current /\ \E ts \in Seq(Mine) : Put(ts)
<1>1. ASSUME NEW ts \in Seq(Mine), Put(ts), current' = current PROVE Goal
  BY <1>1
<1>2. ASSUME NEW t \in Mine, Put(<<t>>), current' = current PROVE Goal
  BY <1>1, <1>2, SingletonSeq
<1> HIDE DEF Goal
<1> SUFFICES Goal
  BY DEF Goal
<1>3. CASE AskNumber
  BY <1>2, <1>3, MineHas, EmptySeq DEF AskNumber
<1>4. CASE OnStartMessage
  BY <1>2, <1>4, MineHas DEF OnStartMessage
<1>5. CASE SetNumber
  <2>1. CASE number = NoNumber
    <3>1. UNCHANGED <<queue, current>>
      BY <1>5, <2>1 DEF SetNumber
    <3>2. Put(<<>>)
      BY <3>1, ConcatEmptySeq DEF BaseInv, TelegramsOK, Put
    <3> QED
      BY <1>1, <3>1, <3>2, EmptySeq
  <2>2. CASE number # NoNumber
    <3>1. number \in Nat
      BY <1>0, <2>2, NumbersAssumption
    <3> QED
      BY <1>1, <1>5, <2>2, <3>1, RequestsType DEF SetNumber
  <2> QED
    BY <2>1, <2>2
<1> QED
  BY <1>3, <1>4, <1>5

LEMMA TelegramsStep == ASSUME BaseInv, Next PROVE TelegramsOK'
<1> USE DEF data, exchange, server, observer, WorkerOnly, MessageOnly, Move
<1>0. queue \in Seq(Mine) /\ current \in Mine \cup {NoTelegram}
  BY DEF BaseInv, TelegramsOK
<1>1. CASE AskNumber \/ OnStartMessage \/ SetNumber
  <2>1. current' = current /\ \E ts \in Seq(Mine) : Put(ts)
    BY <1>1, PutsMine
  <2> QED
    BY <1>0, <2>1, PutMine DEF TelegramsOK
<1>2. CASE UNCHANGED <<queue, current>>
  BY <1>0, <1>2 DEF TelegramsOK
<1>3. CASE Connect
  <2>1. queue' \in Seq(Mine) /\ current' = current
    BY <1>0, <1>3, MineHas, SingletonSeq DEF Connect
  <2> QED
    BY <1>0, <2>1 DEF TelegramsOK
<1>4. CASE Get
  BY <1>0, <1>4, HeadTailProperties DEF Get, TelegramsOK
<1>5. CASE WaitDone
  BY <1>0, <1>5 DEF WaitDone, TelegramsOK
<1> QED
  BY <1>1, <1>2, <1>3, <1>4, <1>5, TelegramsTouched

\* The telegram that is out is one the client has queued.
LEMMA CurrentIs ==
  ASSUME BaseInv
  PROVE  /\ pc["message"] \in {"check", "send", "wait"} \/ reply # "none"
              \/ pc["worker"] \in Handling \cup {"over"} => current \in Mine
         /\ current.do # "none" => current \in Mine
BY MineIs DEF BaseInv, FlowInv, TelegramsOK, NoTelegram, Telegram

LEMMA TextsStep == ASSUME BaseInv, Next PROVE TextsOK'
<1> USE DEF data, exchange, server, observer, AppOnly, WorkerOnly, MessageOnly, Fail, Move,
            Running
<1>0. TextsOK
  BY DEF BaseInv
<1>1. Offered \in Seq(ToSet(Offered)) /\ <<>> \in Seq(ToSet(Offered))
  <2>1. /\ Len(Offered) \in Nat /\ Offered \in [1..Len(Offered) -> STRING]
        /\ \A i \in 1..Len(Offered) : Offered[i] \in ToSet(Offered)
    BY ServicesAssumption, LenProperties DEF ToSet
  <2>2. Offered \in [1..Len(Offered) -> ToSet(Offered)]
    BY <2>1
  <2> QED
    BY <2>1, <2>2, LenOfList, EmptySeq
<1>2. CASE UNCHANGED services
  BY <1>0, <1>2 DEF TextsOK
<1>3. CASE Running(App)
  BY <1>2, <1>3 DEF App, IdleConnected, IdleEmpty, IdleHandled, HasNumber, HasConfig,
         AskNumber, Started, ReadList, Found
<1>4. CASE Running(Worker)
  <2>1. CASE ClearServices
    BY <1>0, <1>1, <2>1 DEF ClearServices, TextsOK
  <2>2. CASE SetServiceList
    <3>1. services' = Offered
      BY <2>2, ListTail DEF SetServiceList
    <3> QED
      BY <1>0, <1>1, <2>2, <3>1 DEF SetServiceList, TextsOK
  <2> QED
    BY <1>2, <1>4, <2>1, <2>2 DEF Worker, OnStartMessage, Greeted, Close, StopMessageThread,
         CloseSocket, Complete, SetNumber, BeginParameters, SetParameters, PassOn, Finish
<1>5. CASE Running(Message)
  BY <1>2, <1>5 DEF Message, Get, GetNothing, Check, Send, WaitDone
<1>6. CASE Running(Connect) \/ Running(Break) \/ Running(Serve) \/ Running(Refuse)
  BY <1>2, <1>6 DEF Connect, Break, Serve, Refuse
<1> QED
  BY <1>3, <1>4, <1>5, <1>6 DEF Next

LEMMA FlowStep == ASSUME BaseInv, Next PROVE FlowInv'
<1> USE DEF data, exchange, server, observer, AppOnly, WorkerOnly, MessageOnly, Fail, Move,
            Running
<1>0. /\ PcOK /\ FlagsOK /\ FlowInv /\ pc["worker"] \in WorkerPcs
      /\ pc["message"] \in MessagePcs /\ queue \in Seq(Mine)
  BY DEF BaseInv, PcOK, TelegramsOK
<1>1. ASSUME UNCHANGED <<link, stopping, handled, reply, current>>,
             pc'["worker"] = pc["worker"], pc'["message"] = pc["message"]
      PROVE  FlowInv'
  BY <1>0, <1>1 DEF FlowInv
<1>2. CASE Running(App)
  <2>1. UNCHANGED <<link, stopping, handled, reply, current>>
    BY <1>2 DEF App, IdleConnected, IdleEmpty, IdleHandled, HasNumber, HasConfig,
         AskNumber, Started, ReadList, Found
  <2>2. pc' = pc \/ \E l : Goto("app", l)
    BY <1>2 DEF App, IdleConnected, IdleEmpty, IdleHandled, HasNumber, HasConfig,
         AskNumber, Started, ReadList, Found
  <2>3. pc'["worker"] = pc["worker"] /\ pc'["message"] = pc["message"]
    BY <1>0, <2>2, PcMoved DEF Threads
  <2> QED
    BY <1>1, <2>1, <2>3
<1>3. ASSUME NEW l, Goto("worker", l)
      PROVE  pc'["worker"] = l /\ pc'["message"] = pc["message"]
  BY <1>0, <1>3, PcMoved DEF Threads
<1>4. ASSUME NEW l, Goto("message", l)
      PROVE  pc'["message"] = l /\ pc'["worker"] = pc["worker"]
  BY <1>0, <1>4, PcMoved DEF Threads
<1>5. CASE Running(Worker)
  <2>1. CASE OnStartMessage \/ Greeted
    <3>1. PICK l \in {"greeted", "read"} : Goto("worker", l) /\ pc["worker"] \in {"greet", "greeted"}
      BY <2>1 DEF OnStartMessage, Greeted
    <3>2. UNCHANGED <<link, stopping, handled, reply, current>>
      BY <2>1 DEF OnStartMessage, Greeted
    <3> QED
      BY <1>0, <1>3, <3>1, <3>2 DEF FlowInv, Handling
  <2>2. CASE Close
    BY <1>0, <1>3, <2>2 DEF Close, FlowInv, Handling
  <2>3. CASE StopMessageThread
    BY <1>0, <2>3 DEF StopMessageThread, FlowInv, Handling
  <2>4. CASE CloseSocket
    BY <1>0, <1>3, <2>4 DEF CloseSocket, FlowInv, Handling
  <2>5. CASE ClearServices \/ SetNumber \/ BeginParameters \/ PassOn
    <3>1. PICK l \in Handling \cup {"over"} : Goto("worker", l)
      BY <2>5 DEF ClearServices, SetNumber, BeginParameters, PassOn, Handling
    <3>2. /\ UNCHANGED <<link, stopping, handled, reply, current>>
          /\ pc["worker"] = "read" /\ reply \in {"OK", "FAILED"}
      BY <2>5 DEF ClearServices, SetNumber, BeginParameters, PassOn, Answered
    <3> QED
      BY <1>0, <1>3, <3>1, <3>2 DEF FlowInv, Handling
  <2>6. CASE SetServiceList \/ SetParameters \/ Complete
    <3>1. PICK l \in {"complete", "finish"} : Goto("worker", l)
      BY <2>6 DEF SetServiceList, SetParameters, Complete
    <3>2. /\ UNCHANGED <<link, stopping, handled, reply, current>>
          /\ pc["worker"] \in Handling
      BY <2>6 DEF SetServiceList, SetParameters, Complete, Handling
    <3> QED
      BY <1>0, <1>3, <3>1, <3>2 DEF FlowInv, Handling
  <2>7. CASE Finish
    BY <1>0, <1>3, <2>7 DEF Finish, FlowInv, Handling
  <2> QED
    BY <1>5, <2>1, <2>2, <2>3, <2>4, <2>5, <2>6, <2>7 DEF Worker
<1>6. CASE Running(Message)
  <2>1. CASE Get
    <3>1. current' \in Mine
      BY <1>0, <2>1, HeadTailProperties DEF Get
    <3> QED
      BY <1>0, <1>4, <2>1, <3>1 DEF Get, FlowInv, Handling
  <2>2. CASE GetNothing
    BY <1>0, <1>4, <2>2 DEF GetNothing, FlowInv, Handling
  <2>3. CASE Check
    <3>1. /\ pc["message"] = "check" /\ UNCHANGED <<link, stopping, reply, current>>
          /\ pc'["message"] = IF stopping THEN "off" ELSE "send"
          /\ pc'["worker"] = pc["worker"] /\ handled' = (handled /\ stopping)
      BY <1>4, <2>3 DEF Check
    <3>2. reply = "none" /\ pc["worker"] \notin Handling \cup {"over"}
      BY <1>0, <3>1 DEF FlowInv
    <3>3. CASE stopping
      BY <1>0, <3>1, <3>2, <3>3 DEF FlowInv
    <3>4. CASE ~stopping
      BY <1>0, <3>1, <3>2, <3>4 DEF FlowInv
    <3> QED
      BY <3>3, <3>4
  <2>4. CASE Send
    BY <1>0, <1>4, <2>4 DEF Send, FlowInv, Handling
  <2>5. CASE WaitDone
    BY <1>0, <1>4, <2>5 DEF WaitDone, FlowInv, Handling
  <2> QED
    BY <1>6, <2>1, <2>2, <2>3, <2>4, <2>5 DEF Message
<1>7. CASE Running(Connect)
  <2>1. pc'["worker"] = "greet" /\ pc'["message"] = "get"
    BY <1>0, <1>7 DEF Connect, PcOK
  <2> QED
    BY <1>0, <1>7, <2>1 DEF Connect, FlowInv, Handling
<1>8. CASE Running(Break)
  BY <1>0, <1>8 DEF Break, FlowInv, Handling
<1>9. CASE Running(Serve) \/ Running(Refuse)
  BY <1>0, <1>9 DEF Serve, Refuse, FlowInv, Handling
<1> QED
  BY <1>2, <1>5, <1>6, <1>7, <1>8, <1>9 DEF Next

LEMMA BaseInit == Init => BaseInv
<1> SUFFICES ASSUME Init PROVE BaseInv
  OBVIOUS
<1> USE NumbersAssumption DEF Init
<1>1. PcOK
  BY DEF PcOK, AppPcs, WorkerPcs, MessagePcs
<1>2. FlagsOK
  BY DEF FlagsOK, Statuses, Faults, Events
<1>3. TextsOK /\ TelegramsOK
  BY EmptySeq DEF TextsOK, TelegramsOK
<1>5. FlowInv
  BY DEF FlowInv, Handling
<1> QED
  BY <1>1, <1>2, <1>3, <1>5 DEF BaseInv

LEMMA BaseKept == BaseInv /\ UNCHANGED vars => BaseInv'
BY DEF BaseInv, PcOK, FlagsOK, TextsOK, TelegramsOK, FlowInv, vars, data, exchange,
       server, observer

LEMMA BaseInvariant == Spec => []BaseInv
<1>1. BaseInv /\ [Next]_vars => BaseInv'
  BY PcStep, FlagsStep, TextsStep, TelegramsStep, FlowStep, BaseKept DEF BaseInv
<1> QED
  BY BaseInit, <1>1, PTL DEF Spec

\* The types, and that a request is out only while its telegram is held, for any
\* number of steps, parameters and services.
THEOREM TypeCorrect == Spec => []TypeOK
<1>1. BaseInv => TypeOK
  <2> SUFFICES ASSUME BaseInv PROVE TypeOK
    OBVIOUS
  <2> USE DEF BaseInv
  <2>1. \A S : \A s \in Seq(S) : ToSet(s) \subseteq S
    BY LenProperties, ElementOfSeq DEF ToSet
  <2>2. ToSet(services) \subseteq ToSet(Offered)
    BY <2>1 DEF TextsOK
  <2>3. \A t \in ToSet(queue) \cup {current} : t.do \in Does
    BY <2>1, MineIs DEF TelegramsOK, NoTelegram, Telegram, Does
  <2>4. reply # "none" => current # NoTelegram
    BY CurrentIs, MineIs
  <2> QED
    BY <2>2, <2>3, <2>4 DEF TypeOK, FlagsOK, PcOK
<1> QED
  BY BaseInvariant, <1>1, PTL

-----------------------------------------------------------------------------
(* What each thread leaves alone.                                             *)

LEMMA AppMoves ==
  ASSUME BaseInv, Running(App)
  PROVE  /\ pc'["worker"] = pc["worker"] /\ pc'["message"] = pc["message"]
         /\ UNCHANGED <<services, current, handled, stopping, connected, link, reply, number,
                        refused, parsed, spare>>
<1> USE DEF data, exchange, server, observer, AppOnly, Fail, Move, Running
<1>1. UNCHANGED <<services, current, handled, stopping, connected, link, reply, number, refused,
                  parsed, spare>>
  BY DEF App, IdleConnected, IdleEmpty, IdleHandled, HasNumber, HasConfig, AskNumber,
       Started, ReadList, Found
<1>2. pc' = pc \/ \E l : Goto("app", l)
  BY DEF App, IdleConnected, IdleEmpty, IdleHandled, HasNumber, HasConfig, AskNumber,
       Started, ReadList, Found
<1> QED
  BY <1>1, <1>2, PcMoved DEF Threads, BaseInv

LEMMA WorkerMoves ==
  ASSUME BaseInv, Running(Worker)
  PROVE  /\ pc'["app"] = pc["app"] /\ pc'["message"] = pc["message"]
         /\ UNCHANGED <<current, number, refused, left, result, after, spare, fault>>
<1> USE DEF data, exchange, server, observer, WorkerOnly, Move, Running
<1>1. UNCHANGED <<current, number, refused, left, result, after, spare, fault>>
  BY DEF Worker, OnStartMessage, Greeted, Close, StopMessageThread, CloseSocket,
         ClearServices, SetServiceList, Complete, SetNumber, BeginParameters, SetParameters,
         PassOn, Finish
<1>2. pc' = pc \/ \E l : Goto("worker", l)
  BY DEF Worker, OnStartMessage, Greeted, Close, StopMessageThread, CloseSocket,
         ClearServices, SetServiceList, Complete, SetNumber, BeginParameters, SetParameters,
         PassOn, Finish
<1> QED
  BY <1>1, <1>2, PcMoved DEF Threads, BaseInv

\* But for the message thread and a new connection, telegrams are only added.
LEMMA QueueGrows ==
  ASSUME BaseInv, Running(App) \/ Running(Worker)
  PROVE  \/ queue' = queue
         \/ \E ts \in Seq(Mine) : Put(ts)
<1>1. CASE AskNumber \/ OnStartMessage \/ SetNumber
  BY <1>1, PutsMine
<1>2. CASE ~(AskNumber \/ OnStartMessage \/ SetNumber)
  BY <1>2 DEF data, exchange, AppOnly, WorkerOnly, Fail, Move, Running, App, IdleConnected,
         IdleEmpty, IdleHandled, HasNumber, HasConfig, Started, ReadList, Found, Complete,
         Worker, Greeted, Close, StopMessageThread, CloseSocket, ClearServices, SetServiceList,
         BeginParameters, SetParameters, PassOn, Finish
<1> QED
  BY <1>1, <1>2

LEMMA PutFacts ==
  ASSUME BaseInv, NEW ts \in Seq(Mine), Put(ts)
  PROVE  /\ Len(queue) \in Nat /\ Len(ts) \in Nat /\ Len(queue') = Len(queue) + Len(ts)
         /\ \A i \in 1..Len(queue) : i \in 1..Len(queue') /\ queue'[i] = queue[i]
         /\ \A i \in 1..Len(queue') : IF i <= Len(queue) THEN queue'[i] = queue[i]
                                      ELSE queue'[i] = ts[i - Len(queue)]
<1>1. queue \in Seq(Mine) /\ Len(queue) \in Nat /\ Len(ts) \in Nat
  BY LenProperties DEF BaseInv, TelegramsOK
<1>2. /\ Len(queue') = Len(queue) + Len(ts)
      /\ \A i \in 1..(Len(queue) + Len(ts)) :
           queue'[i] = IF i <= Len(queue) THEN queue[i] ELSE ts[i - Len(queue)]
  BY <1>1, ConcatProperties DEF Put
<1> QED
  BY <1>1, <1>2

LEMMA GetFacts ==
  ASSUME BaseInv, Get
  PROVE  /\ Len(queue) \in Nat \ {0} /\ current' = queue[1] /\ current' \in Mine
         /\ Len(queue') = Len(queue) - 1
         /\ \A i \in 1..(Len(queue) - 1) : queue'[i] = queue[i + 1]
         /\ pc["message"] = "get" /\ pc'["message"] = "check"
<1>1. queue \in Seq(Mine) /\ queue # <<>> /\ current' = Head(queue) /\ queue' = Tail(queue)
  BY DEF BaseInv, TelegramsOK, Get
<1>2. pc["message"] = "get" /\ pc'["message"] = "check"
  BY PcMoved DEF Get, Move, BaseInv, Threads
<1> QED
  BY <1>1, <1>2, HeadTailProperties, EmptySeq

LEMMA MessageMoves ==
  ASSUME BaseInv, Running(Message)
  PROVE  /\ pc'["app"] = pc["app"] /\ pc'["worker"] = pc["worker"]
         /\ UNCHANGED <<services, list, stopping, connected, link, number, refused, parsed, left,
                        result, after, spare, fault>>
<1> USE DEF data, exchange, server, observer, MessageOnly, Move, Running
<1>1. UNCHANGED <<services, list, stopping, connected, link, number, refused, parsed, left,
                  result, after, spare, fault>>
  BY DEF Message, Get, GetNothing, Check, Send, WaitDone
<1>2. \E l : Goto("message", l)
  BY DEF Message, Get, GetNothing, Check, Send, WaitDone
<1> QED
  BY <1>1, <1>2, PcMoved DEF Threads, BaseInv

-----------------------------------------------------------------------------
(* What the trouble with a connection leaves behind.                          *)

Kept == spare["lose"] = Budget["lose"]

TraceInv ==
  /\ spare["lose"] <= Budget["lose"] /\ (link = "broken" => ~Kept)
  /\ reply = "FAILED" => refused
  /\ pc["worker"] = "set_services" => current.do = "services"
  /\ pc["worker"] = "set_parameters" => current.do = "config"

LEMMA TraceStep == ASSUME BaseInv, TraceInv, Next PROVE TraceInv'
<1> USE DEF data, exchange, server, observer, WorkerOnly, MessageOnly, Move, Running, TraceInv,
            Kept
<1>0. /\ PcOK /\ FlowInv /\ spare \in [Events -> Nat] /\ Budget \in [Events -> Nat]
      /\ "lose" \in Events
  BY NumbersAssumption DEF BaseInv, FlagsOK, Events
<1>1. CASE Running(App)
  BY <1>1, AppMoves
<1>2. CASE Running(Worker)
  <2>1. /\ link' \in {link, "none"} /\ reply' \in {reply, "none"}
        /\ UNCHANGED <<current, refused, spare>>
    BY <1>2, WorkerMoves DEF Worker, OnStartMessage, Greeted, Close, StopMessageThread,
         CloseSocket, ClearServices, SetServiceList, Complete, SetNumber, BeginParameters,
         SetParameters, PassOn, Finish
  <2>2. \/ pc'["worker"] \notin {"set_services", "set_parameters"}
        \/ pc'["worker"] = pc["worker"]
        \/ pc'["worker"] = "set_services" /\ current.do = "services"
        \/ pc'["worker"] = "set_parameters" /\ current.do = "config"
    <3>1. ASSUME NEW l, Goto("worker", l) PROVE pc'["worker"] = l
      BY <1>0, <3>1, PcMoved DEF Threads
    <3> QED
      BY <1>2, <3>1 DEF Worker, OnStartMessage, Greeted, Close, StopMessageThread,
         CloseSocket, ClearServices, SetServiceList, Complete, SetNumber, BeginParameters,
         SetParameters, PassOn, Finish, Answered
  <2> QED
    BY <2>1, <2>2
<1>3. CASE Running(Message)
  <2>1. UNCHANGED <<link, refused, spare>> /\ pc'["worker"] = pc["worker"]
    BY <1>3, MessageMoves
  <2>2. reply' \in {reply, "asked"}
    BY <1>3 DEF Message, Get, GetNothing, Check, Send, WaitDone
  <2>3. current' = current \/ pc["worker"] \notin {"set_services", "set_parameters"}
    <3>1. CASE Get \/ WaitDone
      BY <1>0, <3>1 DEF Get, WaitDone, FlowInv, Handling
    <3> QED
      BY <1>3, <3>1 DEF Message, GetNothing, Check, Send
  <2> QED
    BY <2>1, <2>2, <2>3
<1>4. CASE Running(Connect)
  <2>1. pc'["worker"] = "greet" /\ spare'["lose"] = spare["lose"]
    BY <1>0, <1>4 DEF Connect, PcOK, Spend, Events
  <2> QED
    BY <1>4, <2>1 DEF Connect
<1>5. CASE Running(Break)
  <2>1. spare'["lose"] = spare["lose"] - 1 /\ spare["lose"] \in Nat /\ Budget["lose"] \in Nat
    BY <1>0, <1>5 DEF Break, Spend
  <2> QED
    BY <1>5, <2>1 DEF Break
<1>6. CASE Running(Serve) \/ Running(Refuse)
  <2>1. spare'["lose"] = spare["lose"]
    BY <1>0, <1>6 DEF Serve, Refuse, Spend, Events
  <2> QED
    BY <1>6, <2>1 DEF Serve, Refuse
<1> QED
  BY <1>1, <1>2, <1>3, <1>4, <1>5, <1>6 DEF Next

\* What has gone wrong stays so.
LEMMA TroubleStays ==
  ASSUME BaseInv, TraceInv, Next
  PROVE  (Kept' => Kept) /\ (~refused' => ~refused) /\ (Smooth' => Smooth) /\ left \subseteq left'
<1>0. /\ spare \in [Events -> Nat] /\ Budget \in [Events -> Nat] /\ "lose" \in Events
  BY NumbersAssumption DEF BaseInv, FlagsOK, Events
<1>1. (Kept' => Kept) /\ (~refused' => ~refused)
  <2>1. CASE Running(App) \/ Running(Worker) \/ Running(Message)
    BY <2>1, AppMoves, WorkerMoves, MessageMoves DEF Kept
  <2>2. CASE Running(Connect) \/ Running(Serve) \/ Running(Refuse)
    BY <1>0, <2>2 DEF Running, Connect, Serve, Refuse, Spend, Kept, Events, server
  <2>3. CASE Running(Break)
    BY <1>0, <2>3 DEF Running, Break, Spend, Kept, TraceInv, server
  <2> QED
    BY <2>1, <2>2, <2>3 DEF Next
<1>2. left \subseteq left'
  <2>1. CASE Running(App)
    BY <2>1 DEF Running, App, IdleConnected, IdleEmpty, IdleHandled, HasNumber, HasConfig,
         AskNumber, Started, ReadList, Found, AppOnly, Fail, observer
  <2> QED
    BY <2>1, WorkerMoves, MessageMoves
       DEF Next, Running, Connect, Break, Serve, Refuse, observer
<1> QED
  BY <1>1, <1>2 DEF Smooth, Kept

\* Before the first connection the application waits and has queued nothing.
Fresh == /\ link = "none" /\ ~connected /\ pc["app"] = "idle_connected" /\ queue = <<>>
OnlineInv == Kept =>
  IF link = "open" THEN connected \/ pc["app"] # "idle_connected" => pc["worker"] # "greet"
  ELSE Fresh

LEMMA OnlineStep == ASSUME BaseInv, TraceInv, OnlineInv, Next PROVE OnlineInv'
<1> USE DEF data, exchange, server, observer, AppOnly, WorkerOnly, MessageOnly, Fail, Move,
            Running, OnlineInv
<1>0. /\ PcOK /\ FlowInv /\ TraceInv /\ link \in {"none", "open", "broken"}
      /\ connected \in BOOLEAN
  BY DEF BaseInv, FlagsOK
<1>1. SUFFICES ASSUME Kept, Kept' PROVE OnlineInv'
  BY TroubleStays
<1>2. CASE Running(App)
  <2>1. UNCHANGED <<connected, link>> /\ pc'["worker"] = pc["worker"]
    BY <1>2, AppMoves
  <2>2. CASE link = "open"
    <3>1. pc["app"] = "idle_connected" /\ ~connected => pc'["app"] = "idle_connected"
      <4> SUFFICES ASSUME pc["app"] = "idle_connected", ~connected
                   PROVE  pc'["app"] = "idle_connected"
        OBVIOUS
      <4>1. Goto("app", "idle_connected")
        BY <1>2 DEF App, IdleConnected, IdleEmpty, IdleHandled, HasNumber, HasConfig,
           AskNumber, Started, ReadList
      <4> QED
        BY <1>0, <4>1, PcMoved DEF Threads
    <3> QED
      BY <1>1, <2>1, <2>2, <3>1
  <2>3. CASE link # "open"
    <3>1. Fresh
      BY <1>1, <2>3
    <3>2. Goto("app", "idle_connected") /\ queue' = queue
      BY <1>2, <3>1 DEF Fresh, App, IdleConnected, IdleEmpty, IdleHandled, HasNumber, HasConfig,
         AskNumber, Started, ReadList
    <3>3. pc'["app"] = "idle_connected"
      BY <1>0, <3>2, PcMoved DEF Threads
    <3> QED
      BY <2>1, <2>3, <3>1, <3>2, <3>3 DEF Fresh
  <2> QED
    BY <2>2, <2>3
<1>3. CASE Running(Worker)
  <2>1. pc["worker"] # "down"
    BY <1>3 DEF Worker, OnStartMessage, Greeted, Close, StopMessageThread,
         CloseSocket, ClearServices, SetServiceList, Complete, SetNumber, BeginParameters,
         SetParameters, PassOn, Finish, Answered
  <2>2. link = "open"
    BY <1>0, <1>1, <2>1 DEF FlowInv, TraceInv
  <2>3. link' = link
    BY <1>0, <1>3, <2>2 DEF Worker, OnStartMessage, Greeted, Close, StopMessageThread,
         CloseSocket, ClearServices, SetServiceList, Complete, SetNumber, BeginParameters,
         SetParameters, PassOn, Finish, Answered, FlowInv
  <2>4. pc'["worker"] # "greet"
    <3>1. ASSUME NEW l, Goto("worker", l) PROVE pc'["worker"] = l
      BY <1>0, <3>1, PcMoved DEF Threads
    <3> QED
      BY <1>3, <3>1 DEF Worker, OnStartMessage, Greeted, Close, StopMessageThread,
         CloseSocket, ClearServices, SetServiceList, Complete, SetNumber, BeginParameters,
         SetParameters, PassOn, Finish
  <2> QED
    BY <2>2, <2>3, <2>4
<1>4. CASE Running(Message)
  <2>1. /\ pc'["app"] = pc["app"] /\ pc'["worker"] = pc["worker"]
        /\ UNCHANGED <<connected, link>>
    BY <1>4, MessageMoves
  <2>2. link # "open" => queue' = queue
    BY <1>1, <1>4 DEF Message, Get, GetNothing, Check, Send, WaitDone, Fresh
  <2> QED
    BY <1>1, <2>1, <2>2 DEF Fresh
<1>5. CASE Running(Connect)
  <2>1. Fresh
    BY <1>0, <1>1, <1>5 DEF Connect, FlowInv
  <2>2. pc'["app"] = "idle_connected" /\ link' = "open" /\ connected' = connected
    BY <1>0, <1>5, <2>1 DEF Connect, Fresh, PcOK
  <2> QED
    BY <2>1, <2>2 DEF Fresh
<1>6. CASE Running(Break)
  <2>1. spare["lose"] \in Nat /\ spare'["lose"] = spare["lose"] - 1
    BY <1>6, NumbersAssumption DEF Break, BaseInv, FlagsOK, Spend, Events
  <2> QED
    BY <1>1, <2>1 DEF Kept
<1>7. CASE Running(Serve) \/ Running(Refuse)
  <2>1. link = "open"
    BY <1>0, <1>7 DEF Serve, Refuse, FlowInv
  <2> QED
    BY <1>1, <1>7, <2>1 DEF Serve, Refuse
<1> QED
  BY <1>2, <1>3, <1>4, <1>5, <1>6, <1>7 DEF Next

-----------------------------------------------------------------------------
(* The services.                                                              *)

Queued(do) == \E i \in 1..Len(queue) : queue[i].do = do
\* The telegram is out, and the worker is not past these places with its answer.
Out(do, past) ==
  /\ current.do = do
  /\ \/ pc["message"] \in {"check", "send"}
     \/ pc["message"] = "wait" /\ ~handled /\ pc["worker"] \notin past

\* Once they have been asked for, they are known when nothing is out any more.
Pending == Queued("services") \/ Out("services", {"complete", "finish"})
ServicesInv ==
  ~refused /\ link = "open" /\ pc["worker"] # "greet" => services = Offered \/ Pending

LEMMA QueuedStays ==
  ASSUME BaseInv, queue' = queue \/ \E ts \in Seq(Mine) : Put(ts), NEW do, Queued(do)
  PROVE  Queued(do)'
BY PutFacts DEF Queued

LEMMA ServicesStep == ASSUME BaseInv, TraceInv, ServicesInv, Next PROVE ServicesInv'
<1> USE DEF data, exchange, server, observer, AppOnly, WorkerOnly, MessageOnly, Fail, Move,
            Running
<1>0. PcOK /\ FlowInv /\ TraceInv /\ pc["worker"] \in WorkerPcs
  BY DEF BaseInv, PcOK
<1>1. SUFFICES ASSUME ~refused, ~refused', link' = "open", pc'["worker"] # "greet"
               PROVE  services' = Offered \/ Pending'
  BY TroubleStays DEF ServicesInv
<1>2. CASE Running(App)
  <2>1. services = Offered \/ Pending
    BY <1>1, <1>2, AppMoves DEF ServicesInv
  <2>2. Queued("services") => Queued("services")'
    BY <1>2, QueueGrows, QueuedStays
  <2> QED
    BY <1>2, <2>1, <2>2, AppMoves DEF Pending, Out
<1>3. CASE Running(Worker)
  <2>1. link = "open"
    BY <1>1, <1>3 DEF Worker, OnStartMessage, Greeted, Close, StopMessageThread, CloseSocket,
         ClearServices, SetServiceList, Complete, SetNumber, BeginParameters, SetParameters,
         PassOn, Finish
  <2>2. Queued("services") => Queued("services")'
    BY <1>3, QueueGrows, QueuedStays
  <2>3. CASE OnStartMessage
    <3>1. Telegram("services", <<>>) \in Mine
      BY MineHas DEF BaseInv
    <3>2. <<Telegram("services", <<>>)>> \in Seq(Mine) /\ Len(<<Telegram("services", <<>>)>>) = 1
      BY <3>1, SingletonSeq
    <3>3. Len(queue) \in Nat /\ Len(queue') = Len(queue) + 1
      BY <2>3, <3>2, PutFacts DEF OnStartMessage
    <3>4. queue'[Len(queue')] = <<Telegram("services", <<>>)>>[1]
      <4>1. Len(queue') \in 1..Len(queue') /\ ~(Len(queue') <= Len(queue))
            /\ Len(queue') - Len(queue) = 1
        BY <3>3
      <4> QED
        BY <2>3, <3>2, <4>1, PutFacts DEF OnStartMessage
    <3>5. queue'[Len(queue')].do = "services" /\ Len(queue') \in 1..Len(queue')
      BY <3>3, <3>4 DEF Telegram
    <3>6. Queued("services")'
      BY <3>5 DEF Queued
    <3> QED
      BY <3>6 DEF Pending
  <2>4. CASE ~OnStartMessage
    <3>0. ASSUME NEW l, Goto("worker", l) PROVE pc'["worker"] = l
      BY <1>0, <3>0, PcMoved DEF Threads
    <3>1. pc["worker"] # "greet"
      BY <1>3, <2>4 DEF Worker, Greeted, Close, StopMessageThread, CloseSocket,
         ClearServices, SetServiceList, Complete, SetNumber, BeginParameters, SetParameters,
         PassOn, Finish, Answered
    <3>2. services = Offered \/ Pending
      BY <1>1, <2>1, <3>1 DEF ServicesInv
    <3>3. pc'["message"] = pc["message"] /\ current' = current
      BY <1>3, WorkerMoves
    <3>4. CASE SetServiceList
      BY <3>4, ListTail DEF SetServiceList
    <3>5. CASE ClearServices
      <4>1. /\ current.do = "services" /\ pc["message"] = "wait" /\ ~handled /\ handled' = handled
            /\ pc'["worker"] = "set_services"
        BY <1>0, <3>0, <3>5 DEF ClearServices, Answered, FlowInv
      <4> QED
        BY <3>3, <4>1 DEF Pending, Out
    <3>6. CASE Finish
      <4>1. pc["worker"] = "finish" /\ pc["message"] = "wait" /\ services' = services
        BY <1>0, <3>6 DEF Finish, FlowInv, Handling
      <4> QED
        BY <2>2, <3>2, <4>1 DEF Pending, Out
    <3>7. CASE ~(SetServiceList \/ ClearServices \/ Finish)
      <4>1. services' = services /\ handled' = handled
        BY <1>3, <2>4, <3>7 DEF Worker, Greeted, Close, StopMessageThread, CloseSocket,
         Complete, SetNumber, BeginParameters, SetParameters, PassOn
      <4>2. \/ pc'["worker"] \notin {"complete", "finish"} \/ current.do # "services"
            \/ pc["worker"] \in {"complete", "finish"}
        BY <1>0, <1>1, <1>3, <2>4, <3>0, <3>7 DEF Worker, Greeted, Close, StopMessageThread,
         CloseSocket, Complete, SetNumber, BeginParameters, SetParameters, PassOn, Answered, TraceInv
      <4> QED
        BY <2>2, <3>2, <3>3, <4>1, <4>2 DEF Pending, Out
    <3> QED
      BY <3>4, <3>5, <3>6, <3>7
  <2> QED
    BY <2>3, <2>4
<1>4. CASE Running(Message)
  <2>1. /\ services = Offered \/ Pending
        /\ services' = services /\ pc'["worker"] = pc["worker"]
    BY <1>1, <1>4, MessageMoves DEF ServicesInv
  <2>2. link = "open" /\ ~stopping
    BY <1>0, <1>1, <1>4, MessageMoves DEF FlowInv
  <2>3. ASSUME NEW l, Goto("message", l) PROVE pc'["message"] = l
    BY <1>0, <2>3, PcMoved DEF Threads
  <2>4. CASE Get
    <3>1. SUFFICES ASSUME Pending PROVE Pending'
      BY <2>1
    <3>2. PICK i \in 1..Len(queue) : queue[i].do = "services"
      BY <3>1, GetFacts, <2>4 DEF Pending, Out, Queued
    <3>3. CASE i = 1
      BY <2>4, <3>2, <3>3, GetFacts DEF Pending, Out
    <3>4. CASE i # 1
      <4>1. i - 1 \in 1..(Len(queue) - 1) /\ (i - 1) + 1 = i
        BY <2>4, <3>4, GetFacts
      <4>2. i - 1 \in 1..Len(queue') /\ queue'[i - 1].do = "services"
        BY <2>4, <3>2, <4>1, GetFacts
      <4> QED
        BY <4>2 DEF Pending, Queued
    <3> QED
      BY <3>3, <3>4
  <2>5. CASE Check
    BY <2>1, <2>2, <2>3, <2>5 DEF Check, Pending, Out, Queued
  <2>6. CASE Send
    <3>1. pc["message"] = "send" /\ ~handled /\ pc["worker"] \notin {"complete", "finish"}
      BY <1>0, <2>6 DEF Send, FlowInv, Handling
    <3> QED
      BY <2>1, <2>2, <2>3, <2>6, <3>1 DEF Send, Pending, Out, Queued
  <2>7. CASE WaitDone
    BY <2>1, <2>2, <2>3, <2>7 DEF WaitDone, Pending, Out, Queued
  <2>8. CASE GetNothing
    BY <2>2, <2>8 DEF GetNothing
  <2> QED
    BY <1>4, <2>4, <2>5, <2>6, <2>7, <2>8 DEF Message
<1>5. CASE Running(Connect)
  <2>1. pc'["worker"] = "greet"
    BY <1>0, <1>5 DEF Connect, PcOK
  <2> QED
    BY <1>1, <2>1
<1>6. CASE Running(Break)
  BY <1>1, <1>6 DEF Break
<1>7. CASE Running(Serve) \/ Running(Refuse)
  BY <1>1, <1>7 DEF Serve, Refuse, ServicesInv, Pending, Out, Queued
<1> QED
  BY <1>2, <1>3, <1>4, <1>5, <1>6, <1>7 DEF Next

-----------------------------------------------------------------------------
(* WaitOnIdle, when it does not return early.                                 *)

Steps == {"has_number", "has_config", "ask_number", "started", "read_list"}
\* Nothing is queued, taken or out.
Settled == queue = <<>> /\ handled /\ pc["message"] # "check"
QueryInv ==
  Smooth /\ left = {} /\ pc["app"] \in Steps => Settled

LEMMA OnlineIs ==
  ASSUME BaseInv, TraceInv, OnlineInv, Smooth, pc["app"] # "idle_connected"
  PROVE  link = "open" /\ pc["worker"] \notin {"down", "greet"}
BY DEF Smooth, Kept, OnlineInv, Fresh, BaseInv, FlowInv

LEMMA SettledIs ==
  ASSUME BaseInv, Settled
  PROVE  /\ pc["worker"] \notin Handling \cup {"over"} /\ reply = "none"
         /\ pc["message"] # "send" /\ ~Pending
<1>1. Len(<<>>) = 0 /\ ~Queued("services")
  BY DEF Queued, Settled
<1> QED
  BY <1>1 DEF BaseInv, FlowInv, Settled, Pending, Out

LEMMA QueryStep == ASSUME BaseInv, TraceInv, OnlineInv, QueryInv, Next PROVE QueryInv'
<1> USE DEF data, exchange, server, observer, AppOnly, WorkerOnly, MessageOnly, Fail, Move,
            Running
<1>0. PcOK
  BY DEF BaseInv
<1>1. SUFFICES ASSUME Smooth, Smooth', left = {}, left' = {},
                      pc'["app"] \in Steps
               PROVE  Settled'
  BY <1>0, TroubleStays DEF QueryInv
<1>2. pc["app"] \in Steps => Settled
  BY <1>1 DEF QueryInv
<1>3. CASE Running(App)
  <2>1. handled' = handled /\ pc'["message"] = pc["message"]
    BY <1>3, AppMoves
  <2>2. ASSUME NEW l, Goto("app", l) PROVE pc'["app"] = l
    BY <1>0, <2>2, PcMoved DEF Threads
  <2>4. CASE IdleHandled
    <3>1. handled
      BY <1>1, <2>2, <2>4 DEF IdleHandled, Steps
    <3>2. pc["message"] # "check" /\ queue = <<>>
      BY <1>1, <2>4, <3>1 DEF IdleHandled
    <3> QED
      BY <2>1, <2>4, <3>1, <3>2 DEF IdleHandled, Settled
  <2>5. CASE IdleConnected \/ IdleEmpty \/ AskNumber
    BY <1>1, <2>2, <2>5 DEF IdleConnected, IdleEmpty, AskNumber, Steps
  <2>6. CASE HasNumber \/ HasConfig \/ Started \/ ReadList
    <3>1. pc["app"] \in Steps /\ queue' = queue
      BY <2>6 DEF HasNumber, HasConfig, Started, ReadList, Found, Steps
    <3> QED
      BY <1>2, <2>1, <3>1 DEF Settled
  <2> QED
    BY <1>3, <2>4, <2>5, <2>6 DEF App
<1>4. CASE Running(Worker)
  <2>1. pc'["app"] = pc["app"] /\ pc'["message"] = pc["message"]
    BY <1>4, WorkerMoves
  <2>2. Settled
    BY <1>1, <1>2, <2>1
  <2>3. pc["app"] # "idle_connected"
    BY <1>1, <2>1 DEF Steps
  <2>4. /\ pc["worker"] \notin Handling \cup {"over", "greet"} /\ reply = "none"
    BY <1>1, <2>2, <2>3, OnlineIs, SettledIs
  <2>5. UNCHANGED <<queue, handled>>
    BY <1>4, <2>4 DEF Worker, OnStartMessage, Greeted, Close, StopMessageThread, CloseSocket,
         ClearServices, SetServiceList, Complete, SetNumber, BeginParameters, SetParameters,
         PassOn, Finish, Answered, Handling
  <2> QED
    BY <2>1, <2>2, <2>5 DEF Settled
<1>5. CASE Running(Message)
  <2>1. Settled
    BY <1>1, <1>2, <1>5, MessageMoves
  <2>2. pc["message"] # "send"
    BY <2>1, SettledIs
  <2>3. UNCHANGED <<queue, handled>> /\ \E l \in {"off", "get"} : Goto("message", l)
    BY <1>5, <2>1, <2>2 DEF Message, Get, GetNothing, Check, Send, WaitDone, Settled
  <2> QED
    BY <1>0, <2>1, <2>3, PcMoved DEF Settled, Threads
<1>6. CASE Running(Connect)
  <2>1. pc'["app"] = pc["app"] /\ pc["worker"] = "down"
    BY <1>0, <1>6 DEF Connect, PcOK
  <2> QED
    BY <1>1, <2>1, OnlineIs DEF Steps
<1>7. CASE Running(Break)
  <2>1. Kept /\ Kept'
    BY <1>1 DEF Smooth, Kept
  <2> QED
    BY <1>7, <2>1, NumbersAssumption DEF Break, BaseInv, FlagsOK, Spend, Events, Kept
<1>8. CASE Running(Serve) \/ Running(Refuse)
  BY <1>1, <1>2, <1>8 DEF Serve, Refuse, Settled
<1> QED
  BY <1>3, <1>4, <1>5, <1>6, <1>7, <1>8 DEF Next

LEMMA MisledStep ==
  ASSUME {"number", "config"} \subseteq ToSet(Offered),
         BaseInv, TraceInv, OnlineInv, ServicesInv, QueryInv, OnlyEarlyReturnsMislead, Next
  PROVE  OnlyEarlyReturnsMislead'
<1>1. SUFFICES ASSUME Smooth, left = {}
               PROVE  fault' = fault /\ (result' = "false" => result = "false")
  BY TroubleStays DEF OnlyEarlyReturnsMislead
<1>2. pc["app"] \in Steps => Settled
  BY <1>1 DEF QueryInv
<1>3. pc["app"] \in Steps => /\ pc["worker"] \notin {"set_services", "set_parameters"}
                             /\ services = Offered
  <2> SUFFICES ASSUME pc["app"] \in Steps
               PROVE  /\ pc["worker"] \notin {"set_services", "set_parameters"}
                      /\ services = Offered
    OBVIOUS
  <2>1. pc["worker"] \notin Handling /\ ~Pending
    BY <1>2, SettledIs
  <2>2. link = "open" /\ pc["worker"] # "greet"
    BY <1>1, OnlineIs DEF Steps
  <2> QED
    BY <1>1, <2>1, <2>2 DEF ServicesInv, Smooth, Handling
<1>4. CASE Running(App)
  <2>1. CASE HasNumber \/ HasConfig
    <3>1. PICK service \in {"number", "config"} : \E next : Found(service, next)
      BY <2>1 DEF HasNumber, HasConfig
    <3>2. pc["app"] \in Steps
      BY <2>1 DEF HasNumber, HasConfig, Steps
    <3>3. HasService(service)
      BY <1>3, <3>2 DEF HasService
    <3> QED
      BY <1>3, <3>1, <3>2, <3>3 DEF Found, AppOnly
  <2>2. CASE ReadList
    BY <1>3, <2>2 DEF ReadList, Steps, AppOnly, observer
  <2> QED
    BY <1>4, <2>1, <2>2 DEF Running, App, IdleConnected, IdleEmpty, IdleHandled, AskNumber,
       Started, AppOnly, observer, Move
<1> QED
  BY <1>4, WorkerMoves, MessageMoves
     DEF Next, Running, Connect, Break, Serve, Refuse, observer

ClientInv == BaseInv /\ TraceInv /\ OnlineInv /\ ServicesInv /\ QueryInv

LEMMA ClientInit == Init => ClientInv
<1> SUFFICES ASSUME Init PROVE ClientInv
  OBVIOUS
<1>1. BaseInv
  BY BaseInit
<1>2. TraceInv
  <2>1. spare = Budget /\ Budget["lose"] \in Nat
    BY NumbersAssumption DEF Init, Events
  <2> QED
    BY <2>1 DEF Init, TraceInv
<1>3. OnlineInv /\ ServicesInv /\ QueryInv
  BY DEF Init, OnlineInv, Fresh, ServicesInv, QueryInv, Steps
<1> QED
  BY <1>1, <1>2, <1>3 DEF ClientInv

LEMMA ClientKept == ClientInv /\ UNCHANGED vars => ClientInv'
<1> SUFFICES ASSUME ClientInv, UNCHANGED vars PROVE ClientInv'
  OBVIOUS
<1>1. BaseInv'
  BY BaseKept DEF ClientInv
<1> QED
  BY <1>1 DEF ClientInv, TraceInv, OnlineInv, ServicesInv, QueryInv, Kept, Fresh, Pending, Queued,
         Out, Smooth, Settled, vars, data, exchange, server, observer

LEMMA ClientStep == ClientInv /\ [Next]_vars => ClientInv'
<1>1. ClientInv /\ Next => ClientInv'
  BY PcStep, FlagsStep, TextsStep, TelegramsStep, FlowStep, TraceStep, OnlineStep,
     ServicesStep, QueryStep DEF ClientInv, BaseInv
<1> QED
  BY <1>1, ClientKept

LEMMA ClientInvariant == Spec => []ClientInv
BY ClientInit, ClientStep, PTL DEF Spec

\* QueryParameters::Start fails, or meets a list that the worker is just changing,
\* only after WaitOnIdle returned too early or trouble with the connection,
\* whatever else the server offers and however many parameters it has.
THEOREM MisledOnlyByEarlyReturns ==
  ASSUME {"number", "config"} \subseteq ToSet(Offered)
  PROVE  Spec => []OnlyEarlyReturnsMislead
<1>1. Init => OnlyEarlyReturnsMislead
  BY DEF Init, OnlyEarlyReturnsMislead
<1>2. OnlyEarlyReturnsMislead /\ UNCHANGED vars => OnlyEarlyReturnsMislead'
  BY DEF OnlyEarlyReturnsMislead, Smooth, vars, data, exchange, server, observer
<1>3. OnlyEarlyReturnsMislead /\ ClientInv /\ [Next]_vars => OnlyEarlyReturnsMislead'
  BY <1>2, MisledStep DEF ClientInv
<1> QED
  BY ClientInvariant, <1>1, <1>3, PTL DEF Spec
=============================================================================
