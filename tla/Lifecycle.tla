------------------------------ MODULE Lifecycle ------------------------------
(* The life of an Asap3Client: Start, WaitOnIdle, Stop and the destructor,    *)
(* called by the application and, Start and the destructor excepted, by the   *)
(* callbacks of telegrams, which the worker thread runs.                      *)
(*                                                                            *)
(* A life is what lies between Start and Stop. The object keeps most of its   *)
(* state from one to the next: context_ stays stopped, connected_ and socket_ *)
(* stay as they were. Telegrams are counted, not told apart; what becomes of  *)
(* each is the subject of MessageExchange.                                    *)
EXTENDS Naturals

CONSTANTS
  MaxLives,     \* bound on the calls of Start
  Greeting,     \* how many telegrams StartMessageThread queues
  CallbackMay,  \* what the function given to SendTelegram does when called
  Budget        \* how often each Event may happen in a behaviour

Threads == {"app", "worker"}  \* the threads that call the client
Events == {"connect", "lose", "send"}
ASSUME BoundsAssumption ==
  /\ MaxLives \in Nat /\ Greeting \in Nat \ {0}
  /\ Budget \in [Events -> Nat]
ASSUME CallbackAssumption ==
  CallbackMay \subseteq {"return", "send", "wait", "stop", "throw"}

VARIABLES
  lives,     \* how often Start has been called
  workerJoinable,   \* worker_thread_ holds a thread
  messageJoinable,  \* message_thread_ holds a thread
  stopThread,  \* stop_thread_
  stopMessage, \* stop_message_, and with it the stop flag of the queue
  stopped,   \* context_ has been stopped
  connected, \* connected_
  open,      \* socket_ is connected
  queue,     \* length of telegram_queue_
  current,   \* current_message_ holds a telegram
  handled,   \* response_handled_
  asked,     \* requests the server has not answered yet
  ret,       \* where StopMessageThread returns to, in each thread
  leaving,   \* Stop has been called by the destructor
  late,      \* since Stop was called, a message thread has been started
  gaveUp,    \* the message thread has given up a telegram without a response
  spare,     \* what is left of Budget
  fault,     \* "none", or what ended the program
  pc         \* where each thread stands

flags == <<stopThread, stopMessage, stopped, connected, open>>
holders == <<workerJoinable, messageJoinable>>
telegrams == <<queue, current, handled, asked>>
observer == <<lives, leaving, late, gaveUp>>
vars == <<flags, holders, telegrams, observer, ret, spare, fault, pc>>

SmtPcs == {"smt_enter", "smt_wait", "smt_join", "smt_joining"}
StopPcs == SmtPcs \cup {"stop_flag", "stop_context", "stop_join"}
Goto(t, label) == pc' = [pc EXCEPT ![t] = label]
Move(t, from, to) == pc[t] = from /\ Goto(t, to)
Spend(e) == spare[e] > 0 /\ spare' = [spare EXCEPT ![e] = @ - 1]
Fail(what) == fault' = what /\ UNCHANGED <<flags, holders, telegrams, observer, ret, spare, pc>>

Init ==  \* the client is constructed
  /\ lives = 0 /\ leaving = FALSE /\ late = FALSE /\ gaveUp = FALSE
  /\ workerJoinable = FALSE /\ messageJoinable = FALSE
  /\ stopThread = TRUE /\ stopMessage = TRUE /\ stopped = FALSE
  /\ connected = FALSE /\ open = FALSE
  /\ queue = 0 /\ current = FALSE /\ handled = TRUE /\ asked = 0
  /\ ret = [t \in Threads |-> "stop_flag"] /\ spare = Budget /\ fault = "none"
  /\ pc = [app |-> "ready", worker |-> "off", message |-> "off"]

-----------------------------------------------------------------------------
(* Start and SendTelegram, called by the application.                         *)

Start ==
  /\ pc["app"] = "ready" /\ lives < MaxLives
  /\ IF workerJoinable THEN Fail("worker thread overwritten")
     ELSE /\ lives' = lives + 1
          /\ queue' = 0 /\ stopThread' = FALSE /\ workerJoinable' = TRUE
          /\ Goto("worker", "run")
          /\ UNCHANGED <<stopMessage, stopped, connected, open, messageJoinable,
                         current, handled, asked, leaving, late, gaveUp, ret, spare, fault>>

SendTelegram ==
  /\ pc["app"] = "ready" /\ Spend("send")
  /\ queue' = queue + 1
  /\ UNCHANGED <<flags, holders, current, handled, asked, observer, ret, fault, pc>>

-----------------------------------------------------------------------------
(* WaitOnIdle, called by the application or a callback.                       *)

WaitReturns(t) == IF t = "app" THEN "ready" ELSE "finish"
Steady == UNCHANGED <<flags, holders, telegrams, observer, ret, spare, fault>>

WaitOnIdle == pc["app"] = "ready" /\ lives > 0 /\ Goto("app", "idle_loop") /\ Steady

IdleLoop(t) ==  \* false is returned once stop_thread_ is set
  /\ pc[t] = "idle_loop"
  /\ Goto(t, IF stopThread THEN WaitReturns(t) ELSE "idle_connected")
  /\ Steady

IdleConnected(t) ==
  /\ pc[t] = "idle_connected"
  /\ Goto(t, IF connected THEN "idle_empty" ELSE "idle_loop")
  /\ Steady

IdleEmpty(t) ==
  /\ pc[t] = "idle_empty"
  /\ Goto(t, IF queue = 0 THEN "idle_handled" ELSE "idle_loop")
  /\ Steady

IdleHandled(t) ==
  /\ pc[t] = "idle_handled"
  /\ Goto(t, IF handled THEN WaitReturns(t) ELSE "idle_loop")
  /\ Steady

Idle(t) == IdleLoop(t) \/ IdleConnected(t) \/ IdleEmpty(t) \/ IdleHandled(t)

-----------------------------------------------------------------------------
(* Stop, called by the application, the destructor or a callback, and         *)
(* StopMessageThread, called by Stop, Close and StartMessageThread.           *)

\* Mutant: Stop leaves the message thread to itself.
BeginStopWorker(t, leave) ==
  /\ leaving' = leave
  /\ Goto(t, IF workerJoinable THEN "stop_flag" ELSE "stop_return")
  /\ late' = IF t = "app" /\ workerJoinable THEN FALSE ELSE late
  /\ queue' = IF workerJoinable THEN queue + 1 ELSE queue
  /\ ret' = IF workerJoinable THEN [ret EXCEPT ![t] = "stop_flag"] ELSE ret
  /\ UNCHANGED <<flags, holders, current, handled, asked, lives, gaveUp, spare, fault>>

\* Stop up to StopMessageThread; there is nothing to do without a worker.
BeginStop(t, leave) ==
  /\ leaving' = leave
  /\ Goto(t, IF workerJoinable THEN "smt_enter" ELSE "stop_return")
  /\ late' = IF t = "app" /\ workerJoinable THEN FALSE ELSE late
  /\ queue' = IF workerJoinable THEN queue + 1 ELSE queue
  /\ ret' = IF workerJoinable THEN [ret EXCEPT ![t] = "stop_flag"] ELSE ret
  /\ UNCHANGED <<flags, holders, current, handled, asked, lives, gaveUp, spare, fault>>

Stop == pc["app"] = "ready" /\ lives > 0 /\ BeginStop("app", FALSE)
Destroy == pc["app"] = "ready" /\ lives > 0 /\ BeginStop("app", TRUE)

SmtEnter(t) ==
  /\ pc[t] = "smt_enter"
  /\ Goto(t, IF messageJoinable THEN "smt_wait" ELSE ret[t])
  /\ Steady

SmtStop(t) ==  \* the client looks idle, or the 500 polls are used up
  /\ Move(t, "smt_wait", "smt_join")
  /\ stopMessage' = TRUE
  /\ UNCHANGED <<stopThread, stopped, connected, open, holders, telegrams, observer,
                 ret, spare, fault>>

SmtJoin(t) ==
  /\ pc[t] = "smt_join"
  /\ IF \E o \in Threads \ {t} : pc[o] = "smt_joining"
     THEN Fail("joined by two threads")
     ELSE Goto(t, IF messageJoinable THEN "smt_joining" ELSE ret[t]) /\ Steady

SmtJoined(t) ==
  /\ pc[t] = "smt_joining" /\ pc["message"] = "over"
  /\ messageJoinable' = FALSE
  /\ pc' = [pc EXCEPT ![t] = ret[t], !["message"] = "off"]
  /\ UNCHANGED <<flags, workerJoinable, telegrams, observer, ret, spare, fault>>

StopFlag(t) ==
  /\ Move(t, "stop_flag", "stop_context")
  /\ stopThread' = TRUE
  /\ UNCHANGED <<stopMessage, stopped, connected, open, holders, telegrams, observer,
                 ret, spare, fault>>

\* Mutant: the context is left running.
StopContextRunning(t) == Move(t, "stop_context", "stop_join") /\ Steady

StopContext(t) ==
  /\ Move(t, "stop_context", "stop_join")
  /\ stopped' = TRUE
  /\ UNCHANGED <<stopThread, stopMessage, connected, open, holders, telegrams, observer,
                 ret, spare, fault>>

\* Mutant: the worker thread is detached instead of joined.
StopDetach ==
  /\ Move("app", "stop_join", "stop_return")
  /\ workerJoinable' = FALSE
  /\ UNCHANGED <<flags, messageJoinable, telegrams, observer, ret, spare, fault>>

StopJoin ==  \* worker_thread_.join() in the application
  /\ pc["app"] = "stop_join" /\ pc["worker"] = "over"
  /\ workerJoinable' = FALSE
  /\ pc' = [pc EXCEPT !["app"] = "stop_return", !["worker"] = "off"]
  /\ UNCHANGED <<flags, messageJoinable, telegrams, observer, ret, spare, fault>>

StopJoinsItself ==  \* ... and in a callback: join throws, which ends the worker
  /\ Move("worker", "stop_join", "over")
  /\ Steady

StopReturn ==  \* and, in the destructor, the members are destroyed
  /\ pc["app"] = "stop_return"
  /\ IF leaving /\ messageJoinable THEN Fail("message thread destroyed")
     ELSE Goto("app", IF leaving THEN "gone" ELSE "ready") /\ Steady

StopSteps(t) ==
  \/ SmtEnter(t) \/ SmtStop(t) \/ SmtJoin(t) \/ SmtJoined(t)
  \/ StopFlag(t) \/ StopContext(t)

-----------------------------------------------------------------------------
(* The worker thread. A handler begins while context_ runs.                   *)

WorkerReturns ==  \* context_.run() returns, at once if it was stopped before
  /\ stopped
  /\ Move("worker", "run", "over")
  /\ Steady

Connect ==  \* the handler of DoConnect, up to StartMessageThread
  /\ ~stopped /\ ~open /\ Spend("connect")
  /\ Move("worker", "run", "smt_enter")
  /\ ret' = [ret EXCEPT !["worker"] = "start"]
  /\ open' = TRUE /\ asked' = 0
  /\ UNCHANGED <<stopThread, stopMessage, stopped, connected, holders, queue, current,
                 handled, observer, fault>>

StartThread ==
  /\ pc["worker"] = "start"
  /\ IF messageJoinable THEN Fail("message thread overwritten")
     ELSE /\ stopMessage' = FALSE /\ queue' = 0 /\ messageJoinable' = TRUE
          /\ late' = (late \/ pc["app"] \in StopPcs)
          /\ pc' = [pc EXCEPT !["worker"] = "greet", !["message"] = "loop"]
          /\ UNCHANGED <<stopThread, stopped, connected, open, workerJoinable,
                         current, handled, asked, lives, leaving, gaveUp, ret, spare, fault>>

Greet ==
  /\ Move("worker", "greet", "connected")
  /\ queue' = queue + Greeting
  /\ UNCHANGED <<flags, holders, current, handled, asked, observer, ret, spare, fault>>

\* Mutant: connected_ is not set.
ConnectedUnset == Move("worker", "connected", "run") /\ Steady

Connected ==
  /\ Move("worker", "connected", "run")
  /\ connected' = TRUE
  /\ UNCHANGED <<stopThread, stopMessage, stopped, open, holders, telegrams, observer,
                 ret, spare, fault>>

Close ==  \* a read fails: DoRetryWait, up to StopMessageThread
  /\ ~stopped /\ open /\ Spend("lose")
  /\ Move("worker", "run", "smt_enter")
  /\ ret' = [ret EXCEPT !["worker"] = "close_socket"]
  /\ connected' = FALSE
  /\ UNCHANGED <<stopThread, stopMessage, stopped, open, holders, telegrams, observer,
                 fault>>

CloseSocket ==
  /\ Move("worker", "close_socket", "run")
  /\ open' = FALSE /\ asked' = 0
  /\ UNCHANGED <<stopThread, stopMessage, stopped, connected, holders, queue, current,
                 handled, observer, ret, spare, fault>>

\* Mutant: the telegram counts as handled before its callback is called.
HandleResponseEarly ==
  /\ ~stopped /\ open /\ asked > 0
  /\ IF ~current THEN pc["worker"] = "run" /\ Fail("null telegram")
     ELSE /\ Move("worker", "run", "callback")
          /\ asked' = asked - 1 /\ handled' = TRUE
          /\ UNCHANGED <<flags, holders, queue, current, observer, ret, spare, fault>>

HandleResponse ==  \* up to the call of OnComplete
  /\ ~stopped /\ open /\ asked > 0
  /\ IF ~current THEN pc["worker"] = "run" /\ Fail("null telegram")
     ELSE /\ Move("worker", "run", "callback")
          /\ asked' = asked - 1
          /\ UNCHANGED <<flags, holders, queue, current, handled, observer, ret, spare,
                         fault>>

CallbackReturns == "return" \in CallbackMay /\ Move("worker", "callback", "finish") /\ Steady
CallbackWaits == "wait" \in CallbackMay /\ Move("worker", "callback", "idle_loop") /\ Steady
CallbackThrows == "throw" \in CallbackMay /\ Move("worker", "callback", "over") /\ Steady
CallbackStops ==
  /\ "stop" \in CallbackMay /\ pc["worker"] = "callback"
  /\ BeginStop("worker", leaving)
CallbackSends ==
  /\ "send" \in CallbackMay /\ Spend("send")
  /\ Move("worker", "callback", "finish")
  /\ queue' = queue + 1
  /\ UNCHANGED <<flags, holders, current, handled, asked, observer, ret, fault>>

Finish ==
  /\ Move("worker", "finish", "run")
  /\ handled' = TRUE
  /\ UNCHANGED <<flags, holders, queue, current, asked, observer, ret, spare, fault>>

-----------------------------------------------------------------------------
(* The message thread.                                                        *)

Loop ==
  /\ pc["message"] = "loop"
  /\ Goto("message", IF stopMessage THEN "over" ELSE "get")
  /\ Steady

Get ==
  /\ queue > 0
  /\ Move("message", "get", "check")
  /\ queue' = queue - 1 /\ current' = TRUE
  /\ UNCHANGED <<flags, holders, handled, asked, observer, ret, spare, fault>>

GetNothing == stopMessage /\ Move("message", "get", "loop") /\ Steady

Check ==
  /\ pc["message"] = "check"
  /\ Goto("message", IF stopMessage THEN "loop" ELSE "send")
  /\ handled' = (handled /\ stopMessage)
  /\ UNCHANGED <<flags, holders, queue, current, asked, observer, ret, spare, fault>>

Send ==
  /\ pc["message"] = "send"
  /\ IF ~open THEN Fail("null socket")
     ELSE /\ Goto("message", "wait")
          /\ asked' = asked + 1
          /\ UNCHANGED <<flags, holders, queue, current, handled, observer, ret, spare,
                         fault>>

WaitDone ==  \* a response, StopMessageThread, or the 600 s are over
  /\ Move("message", "wait", "loop")
  /\ current' = FALSE
  /\ gaveUp' = (gaveUp \/ ~(handled \/ stopMessage))
  /\ UNCHANGED <<flags, holders, queue, handled, asked, lives, leaving, late, ret,
                 spare, fault>>

-----------------------------------------------------------------------------
Call == Start \/ SendTelegram \/ WaitOnIdle \/ Stop \/ Destroy
App == Idle("app") \/ StopSteps("app") \/ StopJoin \/ StopReturn
Arrival == Connect \/ Close \/ HandleResponse
Worker == \/ WorkerReturns \/ StartThread \/ Greet \/ Connected \/ CloseSocket
          \/ CallbackReturns \/ CallbackWaits \/ CallbackThrows \/ CallbackStops
          \/ CallbackSends \/ Finish
          \/ Idle("worker") \/ StopSteps("worker") \/ StopJoinsItself
Message == Loop \/ Get \/ GetNothing \/ Check \/ Send \/ WaitDone
Over == (pc["app"] = "gone" \/ fault # "none") /\ UNCHANGED vars
Running(A) == fault = "none" /\ A

Next == Over \/ Running(Call) \/ Running(App) \/ Running(Arrival)
        \/ Running(Worker) \/ Running(Message)

Spec == Init /\ [][Next]_vars

\* The three threads run: their waits are bounded by counts of polls or end
\* with the process. The application need not call anything, and nothing need
\* come from the network.
FairSpec == Spec /\ WF_vars(Running(App)) /\ WF_vars(Running(Worker))
                 /\ WF_vars(Running(Message))

-----------------------------------------------------------------------------
(* Properties.                                                                *)

IdlePcs == {"idle_loop", "idle_connected", "idle_empty", "idle_handled"}
AppPcs == IdlePcs \cup StopPcs \cup {"ready", "stop_return", "gone"}
WorkerPcs == IdlePcs \cup StopPcs
  \cup {"off", "run", "start", "greet", "connected", "close_socket", "callback",
        "finish", "over"}
MessagePcs == {"off", "loop", "get", "check", "send", "wait", "over"}
Faults == {"none", "worker thread overwritten", "joined by two threads",
           "message thread destroyed", "null telegram"}

FlagsOK ==
  /\ stopThread \in BOOLEAN /\ stopMessage \in BOOLEAN /\ stopped \in BOOLEAN
  /\ connected \in BOOLEAN /\ open \in BOOLEAN
  /\ current \in BOOLEAN /\ handled \in BOOLEAN
  /\ leaving \in BOOLEAN /\ late \in BOOLEAN /\ gaveUp \in BOOLEAN
CountsOK == lives \in 0..MaxLives /\ queue \in Nat /\ asked \in Nat
            /\ spare \in [Events -> Nat]
PcOK ==
  /\ pc \in [app : AppPcs, worker : WorkerPcs, message : MessagePcs]
  /\ ret \in [Threads -> {"stop_flag", "start", "close_socket"}]
  /\ ret["app"] = "stop_flag" /\ fault \in Faults
HoldersOK ==
  /\ workerJoinable = (pc["worker"] # "off")
  /\ messageJoinable = (pc["message"] # "off")

\* The types of the variables. A std::thread object holds a thread exactly
\* while there is one, no running message thread is overwritten, and none lacks
\* its socket (two faults that the actions know and Faults does not): this is so
\* for every order of Start, Stop, callbacks and lost connections.
TypeOK == FlagsOK /\ CountsOK /\ PcOK /\ HoldersOK

\* A message thread is left behind when the client has stopped, and ends the
\* program when the client is destroyed, only if the connection was made while
\* Stop was under way: a Stop that nothing overlaps leaves no thread.
OrphanNeedsRace ==
  /\ ~workerJoinable /\ messageJoinable => late
  /\ fault = "message thread destroyed" => late

IdleReturns == pc["app"] = "idle_handled" /\ pc'["app"] = "ready"
\* In the first life, whatever callbacks do and whatever they throw, WaitOnIdle
\* returns true only while a worker thread runs context_, so that a telegram
\* sent now is looked after. Once a telegram has been given up this is lost:
\* its late answer sets response_handled_ for the next one.
FirstIdleIsServed ==
  [][IdleReturns /\ lives = 1 /\ ~gaveUp =>
       ~stopped /\ pc["worker"] \notin {"off", "over"}]_vars

\* QueryParameters::Start calls WaitOnIdle to "Block call until the connection is
\* ready with initialization", and Start after Stop returns true like the first:
\* in a later life, too, WaitOnIdle returns true only while a worker thread runs
\* context_, at least where no connection was made while Stop was under way.
IdleIsServed ==
  [][IdleReturns /\ ~gaveUp /\ ~late =>
       ~stopped /\ pc["worker"] \notin {"off", "over"}]_vars

Waiting == pc["app"] \in IdlePcs /\ fault = "none"
GivenUp == queue = 0 /\ ~handled /\ pc["message"] = "get"
\* WaitOnIdle waits for ever in three cases only: the client gets no
\* connection, the worker thread has ended (by Stop, also that of an earlier
\* life, or by an exception), or a telegram was given up, be it that the
\* server does not answer or that a callback does not return.
WaitEnds == <>[]Waiting =>
  <>[]~open \/ <>[](pc["worker"] = "over") \/ <>[]GivenUp

\* Stop and the destructor come to an end, even while a callback waits or stops
\* the client itself, unless a message thread is started meanwhile or two
\* threads join the same one.
StopReturns ==
  pc["app"] \in StopPcs ~> (pc["app"] \in {"ready", "gone"} \/ fault # "none" \/ late)

=============================================================================
