--------------------------- MODULE MessageExchange ---------------------------
(***************************************************************************)
(* The request/response exchange of Asap3Client: the application thread    *)
(* (SendTelegram, WaitOnIdle, Stop), the message thread (MessageThread),   *)
(* the worker thread that runs the socket handlers (HandleResponse, Close, *)
(* StartMessageThread) and the ASAP3 server at the other end of the wire.  *)
(*                                                                         *)
(* The three threads of the client share, without a common lock, the       *)
(* telegram queue, the unique_ptr current_message_, the atomics            *)
(* response_handled_, stop_message_ and connected_, the socket and the     *)
(* std::thread object of the message thread. An action is one access that  *)
(* another thread can observe; what a thread does between two accesses is  *)
(* part of the action that follows.                                        *)
(***************************************************************************)
EXTENDS Naturals, Sequences

CONSTANTS
  Kinds,     \* what a telegram can ask for: its command with its data list
  CmdOf,     \* the CommandCode of each kind; several kinds may share one
  Startup,   \* what StartMessageThread queues: INIT, IDENTIFY, OnStartMessage
  AppKinds,  \* what the application passes to SendTelegram
  Exit,      \* the EXIT telegram that Stop queues
  FollowUp,  \* what completing a kind, well or badly, queues in the callback
  MaxWait,   \* bound of the wait loop of MessageThread (600 in the code)
  Prompt,    \* TRUE: the server answers before that loop runs out
  StopWhen,  \* the application calls Stop: never, after WaitOnIdle, or any time
  Budget,    \* how often each Quirk may happen in a behaviour
  MaxTelegrams \* bound on the telegrams the application sends

Quirks == {"connect", "break", "ack", "refuse", "unsolicited"}
FinalStatus == {"OK", "FAILED"}
Status == FinalStatus \cup {"ACK", "REPEAT", "NOT_PROCESSED"}
Cmds == {CmdOf[k] : k \in Kinds}

ASSUME KindsAssumption ==
  /\ DOMAIN CmdOf = Kinds
  /\ Exit \in Kinds /\ AppKinds \subseteq Kinds /\ Startup \in Seq(Kinds)
  /\ FollowUp \in [Kinds -> [BOOLEAN -> Seq(Kinds)]]
ASSUME BoundsAssumption ==
  /\ MaxWait \in Nat \ {0} /\ MaxTelegrams \in Nat
  /\ Prompt \in BOOLEAN /\ StopWhen \in {"never", "idle", "any"}
  /\ Budget \in [Quirks -> Nat]

VARIABLES
  kind,      \* the telegrams ever put, by identity 1, 2, ...
  fate,      \* and what became of each of them
  queue,     \* telegram_queue_, oldest first
  current,   \* current_message_, 0 for the empty pointer
  attached,  \* the response current_message_ holds, if any
  handled,   \* response_handled_
  stopping,  \* stop_message_, and with it the stop flag of the queue
  waited,    \* seconds the message thread has waited for the response
  joinable,  \* message_thread_ holds a thread
  connected, \* connected_
  reply,     \* the response the worker is handling
  using,     \* the telegram the worker holds a reference to, 0 for none
  greeted,   \* how much of Startup has been queued on this connection
  ret,       \* where StopMessageThread returns to in the worker
  ended,     \* stop_thread_ is set and context_ is stopped
  link,      \* socket_: none (null), open, or broken (the peer is gone)
  toServer,  \* requests on the wire
  toClient,  \* responses on the wire
  mark,      \* how many telegrams had been put when WaitOnIdle was called
  idled,     \* WaitOnIdle has returned since the application last sent
  spare,     \* what is left of Budget
  fault,     \* "none", or the undefined behaviour that ended the program
  pc         \* where each of the three threads stands

exchange == <<kind, fate, queue, current, attached, handled, stopping, waited>>
threads == <<joinable, connected, reply, using, greeted, ret, ended>>
wire == <<link, toServer, toClient, spare>>
observer == <<mark, idled>>
vars == <<exchange, threads, wire, observer, fault, pc>>

NoReply == [to |-> 0, cmd |-> "none", status |-> "none"]
\* Mutant: a telegram is put at the wrong end.
PutFirst(fates, ks) ==
  /\ kind' = kind \o ks
  /\ fate' = fates \o [i \in 1..Len(ks) |-> "queued"]
  /\ queue' = [i \in 1..Len(ks) |-> Len(kind) + i] \o queue

\* TelegramQueue::Put of new telegrams, the others having the given fates.
PutAfter(fates, ks) ==
  /\ kind' = kind \o ks
  /\ fate' = fates \o [i \in 1..Len(ks) |-> "queued"]
  /\ queue' = queue \o [i \in 1..Len(ks) |-> Len(kind) + i]
Put(ks) == PutAfter(fate, ks)
Goto(t, label) == pc' = [pc EXCEPT ![t] = label]
Move(t, from, to) == pc[t] = from /\ Goto(t, to)
Spend(q) == spare[q] > 0 /\ spare' = [spare EXCEPT ![q] = @ - 1]
Fail(what) ==  \* undefined behaviour: the process ends here
  /\ fault' = what
  /\ UNCHANGED <<exchange, threads, wire, observer, pc>>
Settled(id) == fate[id] \notin {"queued", "taken", "sent"}
Settle(id, what) ==
  fate' = IF id # 0 /\ ~Settled(id) THEN [fate EXCEPT ![id] = what] ELSE fate

Init ==  \* Asap3Client::Start has returned: worker thread started, no socket
  /\ kind = <<>> /\ fate = <<>> /\ queue = <<>>
  /\ current = 0 /\ attached = NoReply /\ handled = TRUE
  /\ stopping = TRUE /\ waited = 0
  /\ joinable = FALSE /\ connected = FALSE /\ reply = NoReply /\ using = 0
  /\ greeted = 0 /\ ret = "close_socket" /\ ended = FALSE
  /\ link = "none" /\ toServer = <<>> /\ toClient = <<>>
  /\ mark = 0 /\ idled = FALSE /\ spare = Budget /\ fault = "none"
  /\ pc = [app |-> "ready", worker |-> "down", message |-> "off"]

-----------------------------------------------------------------------------
(* The application thread.                                                 *)

SendTelegram ==
  /\ pc["app"] = "ready" /\ Len(kind) < MaxTelegrams
  /\ \E k \in AppKinds : Put(<<k>>)
  /\ idled' = FALSE
  /\ UNCHANGED <<current, attached, handled, stopping, waited, threads, wire,
                 mark, fault, pc>>

\* WaitOnIdle polls IsIdle, which reads three shared objects one by one.
WaitOnIdle ==
  /\ Move("app", "ready", "idle_connected")
  /\ mark' = Len(kind)
  /\ UNCHANGED <<exchange, threads, wire, idled, fault>>

IdleConnected ==
  /\ pc["app"] = "idle_connected"
  /\ Goto("app", IF connected THEN "idle_empty" ELSE "idle_connected")
  /\ UNCHANGED <<exchange, threads, wire, observer, fault>>

\* Mutant: the queue is not looked at.
IdleEmptyUnchecked ==
  /\ Move("app", "idle_empty", "idle_handled")
  /\ UNCHANGED <<exchange, threads, wire, observer, fault>>

IdleEmpty ==
  /\ pc["app"] = "idle_empty"
  /\ Goto("app", IF queue = <<>> THEN "idle_handled" ELSE "idle_connected")
  /\ UNCHANGED <<exchange, threads, wire, observer, fault>>

IdleHandled ==
  /\ pc["app"] = "idle_handled"
  /\ Goto("app", IF handled THEN "ready" ELSE "idle_connected")
  /\ idled' = handled /\ mark' = IF handled THEN 0 ELSE mark
  /\ UNCHANGED <<exchange, threads, wire, fault>>

Stop ==
  /\ StopWhen = "any" \/ (StopWhen = "idle" /\ idled)
  /\ Move("app", "ready", "smt_enter")
  /\ Put(<<Exit>>)
  /\ UNCHANGED <<current, attached, handled, stopping, waited, threads, wire,
                 observer, fault>>

StopContext ==
  /\ Move("app", "stop_context", "stop_join")
  /\ ended' = TRUE
  /\ UNCHANGED <<exchange, joinable, connected, reply, using, greeted, ret,
                 wire, observer, fault>>

StopJoin ==  \* worker_thread_.join()
  /\ pc["worker"] = "dead"
  /\ Move("app", "stop_join", "stopped")
  /\ UNCHANGED <<exchange, threads, wire, observer, fault>>

-----------------------------------------------------------------------------
(* StopMessageThread, called by Stop in the application thread and by      *)
(* Close and StartMessageThread in the worker thread.                      *)

Callers == {"app", "worker"}
Returned(t) == IF t = "app" THEN "stop_context" ELSE ret

SmtEnter(t) ==
  /\ pc[t] = "smt_enter"
  /\ Goto(t, IF joinable THEN "smt_empty" ELSE Returned(t))
  /\ UNCHANGED <<exchange, threads, wire, observer, fault>>

SmtEmpty(t) ==
  /\ queue = <<>>
  /\ Move(t, "smt_empty", "smt_handled")
  /\ UNCHANGED <<exchange, threads, wire, observer, fault>>

SmtHandled(t) ==
  /\ pc[t] = "smt_handled"
  /\ Goto(t, IF handled THEN "smt_stop" ELSE "smt_empty")
  /\ UNCHANGED <<exchange, threads, wire, observer, fault>>

SmtPatience(t) ==  \* the 500 polls are used up
  /\ Move(t, "smt_empty", "smt_stop")
  /\ UNCHANGED <<exchange, threads, wire, observer, fault>>

\* Mutant: the flag that ends the message thread is not set.
SmtStopUnflagged(t) ==
  /\ Move(t, "smt_stop", "smt_join")
  /\ UNCHANGED <<exchange, threads, wire, observer, fault>>

SmtStop(t) ==
  /\ Move(t, "smt_stop", "smt_join")
  /\ stopping' = TRUE
  /\ UNCHANGED <<kind, fate, queue, current, attached, handled, waited,
                 threads, wire, observer, fault>>

SmtJoin(t) ==
  /\ pc[t] = "smt_join"
  /\ IF \E o \in Callers \ {t} : pc[o] = "smt_joining"
     THEN Fail("joined by two threads")
     ELSE /\ Goto(t, IF joinable THEN "smt_joining" ELSE Returned(t))
          /\ UNCHANGED <<exchange, threads, wire, observer, fault>>

SmtJoined(t) ==
  /\ pc[t] = "smt_joining" /\ pc["message"] = "exited"
  /\ joinable' = FALSE
  /\ pc' = [pc EXCEPT ![t] = Returned(t), !["message"] = "off"]
  /\ UNCHANGED <<exchange, connected, reply, using, greeted, ret, ended, wire,
                 observer, fault>>

StopMessageThread(t) ==
  \/ SmtEnter(t) \/ SmtEmpty(t) \/ SmtHandled(t) \/ SmtPatience(t)
  \/ SmtStop(t) \/ SmtJoin(t) \/ SmtJoined(t)

-----------------------------------------------------------------------------
(* The worker thread: connecting, and the start of the message thread.     *)

Connect ==  \* the handler of DoConnect runs without error
  /\ ~ended /\ Spend("connect")
  /\ Move("worker", "down", "smt_enter")
  /\ ret' = "start"
  /\ link' = "open" /\ toServer' = <<>> /\ toClient' = <<>>
  /\ UNCHANGED <<exchange, joinable, connected, reply, using, greeted, ended,
                 observer, fault>>

StartThread ==
  /\ pc["worker"] = "start"
  /\ IF joinable THEN Fail("running thread overwritten")
     ELSE /\ stopping' = FALSE /\ queue' = <<>> /\ joinable' = TRUE
          /\ fate' = [id \in DOMAIN fate |->
                        IF fate[id] = "queued" THEN "dropped" ELSE fate[id]]
          /\ pc' = [pc EXCEPT !["worker"] = "greet", !["message"] = "loop"]
          /\ UNCHANGED <<kind, current, attached, handled, waited, connected,
                         reply, using, greeted, ret, ended, wire, observer,
                         fault>>

Greet ==  \* INIT, IDENTIFY and the telegrams of OnStartMessage, one by one
  /\ pc["worker"] = "greet" /\ greeted < Len(Startup)
  /\ Put(<<Startup[greeted + 1]>>)
  /\ greeted' = greeted + 1
  /\ UNCHANGED <<current, attached, handled, stopping, waited, joinable,
                 connected, reply, using, ret, ended, wire, observer, fault, pc>>

Greeted ==
  /\ greeted = Len(Startup)
  /\ Move("worker", "greet", "read")
  /\ connected' = TRUE /\ greeted' = 0
  /\ UNCHANGED <<exchange, joinable, reply, using, ret, ended, wire, observer,
                 fault>>

\* Mutant: the socket is closed without stopping the message thread.
CloseAtOnce(from) ==
  /\ Move("worker", from, "close_socket")
  /\ connected' = FALSE /\ ret' = "close_socket"

Close(from) ==  \* the first half of Close, as called by DoRetryWait
  /\ Move("worker", from, "smt_enter")
  /\ connected' = FALSE /\ ret' = "close_socket"

CloseSocket ==
  /\ Move("worker", "close_socket", "down")
  /\ link' = "none" /\ toServer' = <<>> /\ toClient' = <<>>
  /\ UNCHANGED <<exchange, threads, spare, observer, fault>>

ReadError ==  \* DoReadLength or DoReadBody completes with an error
  /\ link = "broken" /\ toClient = <<>> /\ ~ended
  /\ Close("read")
  /\ UNCHANGED <<exchange, joinable, reply, using, greeted, ended, wire,
                 observer, fault>>

WorkerExit ==  \* context_.run() returns between two handlers
  /\ ended /\ pc["worker"] \in {"down", "read"}
  /\ Goto("worker", "dead")
  /\ UNCHANGED <<exchange, threads, wire, observer, fault>>

-----------------------------------------------------------------------------
(* HandleRequest, and HandleResponse in the worker thread.                 *)

Write(id) ==  \* async_write; on a broken link only the handler logs an error
  toServer' = IF link = "open"
              THEN Append(toServer, [id |-> id, cmd |-> CmdOf[kind[id]]])
              ELSE toServer

Receive ==  \* the body is read, and the pointer to the request fetched
  /\ ~ended /\ toClient # <<>>
  /\ Move("worker", "read", "attach")
  /\ reply' = Head(toClient) /\ toClient' = Tail(toClient)
  /\ using' = current
  /\ UNCHANGED <<exchange, joinable, connected, greeted, ret, ended, link,
                 toServer, spare, observer, fault>>

Attach ==  \* the telegram takes the response if the commands agree
  /\ pc["worker"] = "attach"
  /\ IF using # 0 /\ current # using THEN Fail("telegram freed in use")
     ELSE /\ Goto("worker", "switch")
          /\ attached' = IF using # 0 /\ CmdOf[kind[using]] = reply.cmd
                         THEN reply ELSE attached
          /\ UNCHANGED <<kind, fate, queue, current, handled, stopping, waited,
                         threads, wire, observer, fault>>

Release == using' = 0 /\ reply' = NoReply  \* HandleResponse is left

SwitchNotProcessed ==  \* restart_, then DoRetryWait
  /\ reply.status = "NOT_PROCESSED"
  /\ Close("switch")
  /\ handled' = TRUE /\ Release
  /\ UNCHANGED <<kind, fate, queue, current, attached, stopping, waited,
                 joinable, greeted, ended, wire, observer, fault>>

SwitchAck ==
  /\ reply.status = "ACK"
  /\ Move("worker", "switch", "read")
  /\ Release
  /\ UNCHANGED <<exchange, joinable, connected, greeted, ret, ended, wire,
                 observer, fault>>

SwitchRepeat ==
  /\ pc["worker"] = "switch" /\ reply.status = "REPEAT"
  /\ IF using # 0 /\ current # using THEN Fail("telegram freed in use")
     ELSE /\ Goto("worker", "read")
          /\ IF using = 0 THEN UNCHANGED toServer ELSE Write(using)
          /\ Release
          /\ UNCHANGED <<exchange, joinable, connected, greeted, ret, ended,
                         link, toClient, spare, observer, fault>>

\* Mutant: the wait is ended before the telegram is handled.
SwitchFinalEarly ==
  /\ pc["worker"] = "switch" /\ reply.status \in FinalStatus
  /\ IF current = 0 THEN Fail("null telegram")
     ELSE /\ Goto("worker", "callback")
          /\ using' = current /\ handled' = TRUE
          /\ UNCHANGED <<kind, fate, queue, current, attached, stopping, waited,
                         joinable, connected, reply, greeted, ret, ended, wire,
                         observer, fault>>

\* STATUS_ERROR, too: what it logs, of a list the telegram owns by then, is left out.
SwitchFinal ==  \* HandleTelegram(*current_message_)
  /\ pc["worker"] = "switch" /\ reply.status \in FinalStatus
  /\ IF current = 0 THEN Fail("null telegram")
     ELSE /\ Goto("worker", "callback")
          /\ using' = current
          /\ UNCHANGED <<exchange, joinable, connected, reply, greeted, ret,
                         ended, wire, observer, fault>>

Completion == IF Settled(using) THEN "completed twice"
              ELSE IF attached.status = "OK" THEN "done" ELSE "failed"

Callback ==  \* HandleTelegram: OnComplete, which may send telegrams
  /\ pc["worker"] = "callback"
  /\ IF current # using THEN Fail("telegram freed in use")
     ELSE /\ Goto("worker", "finish")
          /\ IF attached = NoReply THEN UNCHANGED <<kind, fate, queue>>
             ELSE PutAfter([fate EXCEPT ![using] = Completion],
                           FollowUp[kind[using]][attached.status = "OK"])
          /\ UNCHANGED <<current, attached, handled, stopping, waited,
                         threads, wire, observer, fault>>

\* Mutant: response_handled_ is not set.
FinishUnhandled ==
  /\ Move("worker", "finish", "read")
  /\ Release
  /\ UNCHANGED <<exchange, joinable, connected, greeted, ret, ended, wire,
                 observer, fault>>

Finish ==  \* response_handled_ = true; notify; next read
  /\ Move("worker", "finish", "read")
  /\ handled' = TRUE /\ Release
  /\ UNCHANGED <<kind, fate, queue, current, attached, stopping, waited,
                 joinable, connected, greeted, ret, ended, wire, observer,
                 fault>>

-----------------------------------------------------------------------------
(* The message thread.                                                     *)

Loop ==
  /\ pc["message"] = "loop"
  /\ Goto("message", IF stopping THEN "exited" ELSE "get")
  /\ UNCHANGED <<exchange, threads, wire, observer, fault>>

Get ==  \* telegram_queue_.Get(current_message_, true) hands out a telegram
  /\ queue # <<>>
  /\ Move("message", "get", "check")
  /\ current' = Head(queue) /\ queue' = Tail(queue) /\ attached' = NoReply
  /\ fate' = [fate EXCEPT ![Head(queue)] = "taken"]
  /\ UNCHANGED <<kind, handled, stopping, waited, threads, wire, observer,
                 fault>>

GetNothing ==  \* ... or is woken by telegram_queue_.Stop()
  /\ stopping
  /\ Move("message", "get", "loop")
  /\ UNCHANGED <<exchange, threads, wire, observer, fault>>

\* Mutant: response_handled_ is not reset before the request is sent.
CheckWithoutReset ==
  /\ pc["message"] = "check"
  /\ Goto("message", IF stopping THEN "loop" ELSE "send")
  /\ IF stopping THEN Settle(current, "dropped") ELSE UNCHANGED fate
  /\ UNCHANGED <<kind, queue, current, attached, handled, stopping, waited,
                 threads, wire, observer, fault>>

Check ==
  /\ pc["message"] = "check"
  /\ IF stopping
     THEN Goto("message", "loop") /\ Settle(current, "dropped") /\ UNCHANGED handled
     ELSE Goto("message", "send") /\ handled' = FALSE /\ UNCHANGED fate
  /\ UNCHANGED <<kind, queue, current, attached, stopping, waited, threads,
                 wire, observer, fault>>

Send ==
  /\ pc["message"] = "send"
  /\ IF link = "none" THEN Fail("null socket")
     ELSE /\ Goto("message", "wait")
          /\ Write(current)
          /\ fate' = IF Settled(current) THEN fate
                     ELSE [fate EXCEPT ![current] = "sent"]
          /\ UNCHANGED <<kind, queue, current, attached, handled, stopping,
                         waited, threads, link, toClient, spare, observer,
                         fault>>

\* Mutant: the wait has no bound.
WaitSecondForever ==
  /\ pc["message"] = "wait" /\ ~handled /\ ~stopping
  /\ waited' = waited + 1
  /\ UNCHANGED <<kind, fate, queue, current, attached, handled, stopping,
                 threads, wire, observer, fault, pc>>

WaitSecond ==  \* wait_for times out after a second without a response
  /\ pc["message"] = "wait" /\ ~handled /\ ~stopping /\ waited < MaxWait
  /\ Prompt => waited + 1 < MaxWait
  /\ waited' = waited + 1
  /\ UNCHANGED <<kind, fate, queue, current, attached, handled, stopping,
                 threads, wire, observer, fault, pc>>

WaitDone ==  \* current_message_.reset()
  /\ handled \/ stopping \/ waited = MaxWait
  /\ Move("message", "wait", "loop")
  /\ Settle(current, "abandoned")
  /\ current' = 0 /\ attached' = NoReply /\ waited' = 0
  /\ UNCHANGED <<kind, queue, handled, stopping, threads, wire, observer,
                 fault>>

-----------------------------------------------------------------------------
(* The server and the network, as the client can see them.                 *)

Answer(status) == Append(toClient, [to |-> Head(toServer).id,
                                    cmd |-> Head(toServer).cmd,
                                    status |-> status])

ServerFinal ==
  /\ link = "open" /\ toServer # <<>>
  /\ \E s \in FinalStatus : toClient' = Answer(s)
  /\ toServer' = Tail(toServer)
  /\ UNCHANGED <<exchange, threads, link, spare, observer, fault, pc>>

ServerAck ==
  /\ link = "open" /\ toServer # <<>> /\ Spend("ack")
  /\ toClient' = Answer("ACK")
  /\ UNCHANGED <<exchange, threads, link, toServer, observer, fault, pc>>

ServerRefuse ==
  /\ link = "open" /\ toServer # <<>> /\ Spend("refuse")
  /\ \E s \in {"REPEAT", "NOT_PROCESSED"} : toClient' = Answer(s)
  /\ toServer' = Tail(toServer)
  /\ UNCHANGED <<exchange, threads, link, observer, fault, pc>>

ServerUnsolicited ==  \* a response nobody asked for, or one sent twice
  /\ link = "open" /\ Spend("unsolicited")
  /\ \E c \in Cmds, s \in Status :
       toClient' = Append(toClient, [to |-> 0, cmd |-> c, status |-> s])
  /\ UNCHANGED <<exchange, threads, link, toServer, observer, fault, pc>>

Break ==  \* the peer is lost, with or without what it had sent
  /\ link = "open" /\ Spend("break")
  /\ link' = "broken" /\ toServer' = <<>> /\ toClient' \in {toClient, <<>>}
  /\ UNCHANGED <<exchange, threads, observer, fault, pc>>

-----------------------------------------------------------------------------
Call == SendTelegram \/ WaitOnIdle \/ Stop
App == IdleConnected \/ IdleEmpty \/ IdleHandled \/ StopContext \/ StopJoin
       \/ StopMessageThread("app")
Worker == Connect \/ StartThread \/ Greet \/ Greeted \/ CloseSocket \/ ReadError
          \/ WorkerExit \/ Receive \/ Attach \/ SwitchNotProcessed
          \/ SwitchAck \/ SwitchRepeat \/ SwitchFinal \/ Callback \/ Finish
          \/ StopMessageThread("worker")
Message == Loop \/ Get \/ GetNothing \/ Check \/ Send \/ WaitSecond \/ WaitDone
Server == ServerFinal \/ ServerAck \/ ServerRefuse \/ ServerUnsolicited \/ Break
Over == (pc["app"] = "stopped" \/ fault # "none") /\ UNCHANGED vars
Running(A) == fault = "none" /\ A

Next == Over \/ Running(Call) \/ Running(App) \/ Running(Worker)
        \/ Running(Message) \/ Running(Server)

Spec == Init /\ [][Next]_vars

\* Threads run; the wait of StopMessageThread counts its polls, so it cannot
\* go round for ever; and a server that is connected answers each request.
\* The application need not call anything and the network need not fail.
Fairness ==
  /\ WF_vars(Running(App)) /\ WF_vars(Running(Worker))
  /\ WF_vars(Running(Message)) /\ WF_vars(Running(ServerFinal))
  /\ \A t \in Callers : SF_vars(Running(SmtPatience(t)))

FairSpec == Spec /\ Fairness

\* What is left of it for a client that is not stopped, whatever the application
\* does while it waits.
ClientFairness ==
  /\ WF_vars(Running(Worker)) /\ WF_vars(Running(Message))
  /\ WF_vars(Running(ServerFinal)) /\ SF_vars(Running(SmtPatience("worker")))

LiveSpec == Spec /\ ClientFairness

-----------------------------------------------------------------------------
(* Properties.                                                             *)

Ids == 1..Len(kind)
Fates == {"queued", "taken", "sent", "done", "failed", "dropped", "abandoned",
          "completed twice"}
Faults == {"none", "null telegram", "telegram freed in use", "null socket",
           "joined by two threads", "running thread overwritten"}
SmtPcs == {"smt_enter", "smt_empty", "smt_handled", "smt_stop", "smt_join",
           "smt_joining"}
StopPcs == SmtPcs \cup {"stop_context", "stop_join", "stopped"}
AppPcs == StopPcs \cup {"ready", "idle_connected", "idle_empty", "idle_handled"}
WorkerPcs == SmtPcs \cup {"down", "start", "greet", "read", "attach", "switch",
                          "callback", "finish", "close_socket", "dead"}
MessagePcs == {"off", "loop", "get", "check", "send", "wait", "exited"}
Requests == [id : Nat, cmd : Cmds]
Responses == [to : Nat, cmd : Cmds, status : Status]

\* Identities name telegrams that were put, and each telegram has a fate.
TelegramsOK ==
  /\ kind \in Seq(Kinds) /\ fate \in Seq(Fates) /\ Len(fate) = Len(kind)
  /\ queue \in Seq(Ids)
  /\ current \in 0..Len(kind) /\ using \in 0..Len(kind) /\ mark \in 0..Len(kind)
FlagsOK ==
  /\ handled \in BOOLEAN /\ stopping \in BOOLEAN /\ joinable \in BOOLEAN
  /\ connected \in BOOLEAN /\ ended \in BOOLEAN /\ idled \in BOOLEAN
  /\ ret \in {"start", "close_socket"} /\ fault \in Faults
CountsOK == waited \in 0..MaxWait /\ greeted \in 0..Len(Startup)
WireOK ==
  /\ link \in {"none", "open", "broken"} /\ spare \in [Quirks -> Nat]
  /\ toServer \in Seq(Requests) /\ toClient \in Seq(Responses)
  /\ attached \in Responses \cup {NoReply} /\ reply \in Responses \cup {NoReply}
PcOK == pc \in [app : AppPcs, worker : WorkerPcs, message : MessagePcs]
PointersOK ==
  /\ pc["message"] \in {"check", "send", "wait"} => current # 0
  /\ pc["worker"] = "callback" => using # 0

\* The types of the variables; a thread that is about to dereference its
\* pointer to a telegram has one.
TypeOK == TelegramsOK /\ FlagsOK /\ CountsOK /\ WireOK /\ PcOK /\ PointersOK

\* While the message thread exists there is a socket to write to: Close joins
\* the thread before it resets socket_, whoever else is stopping it, and
\* StartMessageThread never overwrites a std::thread that still runs.
SocketOutlivesThread ==
  /\ pc["message"] # "off" => joinable /\ link # "none"
  /\ fault \notin {"null socket", "running thread overwritten"}

Stopping == pc["app"] \in StopPcs

\* The server answers every request once and in time, and has sent nothing else.
Orderly == Prompt /\ spare["unsolicited"] = Budget["unsolicited"]

\* With an orderly server the program only runs into undefined behaviour when
\* Stop is under way: without it the worker finds in current_message_ the
\* telegram it is answering.
CrashNeedsStop == fault # "none" /\ Orderly => Stopping

Handling == IF pc["worker"] \in {"attach", "switch", "callback", "finish"}
            THEN {reply} ELSE {}
RangeOf(s) == {s[i] : i \in DOMAIN s}
\* With an orderly server, unless the message thread is told to stop, at most
\* one request is out, and it and all that comes back for it, acknowledgements
\* included, belong to the telegram in current_message_: no response is
\* attributed to another telegram, and none follows the one that ends the
\* exchange.
ExclusiveExchange == Orderly /\ ~stopping =>
  /\ Len(toServer) <= 1
  /\ \A r \in RangeOf(toServer) : r.id = current
  /\ \A r \in RangeOf(toClient) \cup Handling :
       r.to = current /\ r.cmd = CmdOf[kind[current]]
  /\ \A i \in DOMAIN toClient :
       toClient[i].status # "ACK" => i = Len(toClient) /\ toServer = <<>>
  /\ \A r \in Handling : r.status # "ACK" => toServer = <<>> /\ toClient = <<>>

IdleReturns == pc["app"] = "idle_handled" /\ pc'["app"] = "ready"
\* When WaitOnIdle returns true, at most one of the telegrams put before the call
\* still has its end to come, and that one has been taken from the queue and not
\* sent yet, or was refused by the server (the connection is being restarted).
\* Not that the others were completed: the telegrams StartMessageThread clears from
\* the queue, any number of them, and those the message thread gives up never get
\* their OnComplete, and WaitOnIdle returns true all the same.
IdleMissesAtMostOne == [][IdleReturns /\ Orderly =>
  \A id \in 1..mark :
    \/ Settled(id)
    \/ id = current /\ (fate[id] = "taken" \/ pc["worker"] \in SmtPcs)]_vars

\* All telegrams put are completed, dropped or abandoned, again and again, unless
\* the connection is lost for good, the application stops the client or the program
\* ends: none waits for ever.
EveryTelegramSettles ==
  []<>(\/ \A id \in Ids : Settled(id)
       \/ Stopping \/ pc["worker"] = "down" \/ fault # "none")

\* Stop returns (or runs into undefined behaviour), whatever the worker does.
StopReturns == Stopping ~> (pc["app"] = "stopped" \/ fault # "none")

\* MessageThread says it will "Wait on response on this message": a wait that a
\* response ends leaves a telegram that has had its own response.
WaitsForOwnResponse ==
  [][pc["message"] = "wait" /\ pc'["message"] = "loop" /\ handled =>
       attached.to = current]_vars

\* Stop, which the test expects to return true, is no undefined behaviour.
StopIsClean == fault = "none"
=============================================================================
