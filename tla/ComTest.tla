------------------------------- MODULE ComTest -------------------------------
(* QueryParameters, which asks a ComTest server for its parameters. It queues *)
(* telegrams in OnStartMessage, when an answer is handled in the worker       *)
(* thread, and in Start in the application thread, and relies on WaitOnIdle   *)
(* to tell when they are through.                                             *)
(*                                                                            *)
(* The exchange is that of MessageExchange with a server that answers every   *)
(* request once and in time, where one telegram is out at a time; here it     *)
(* matters what the telegrams say and what their answers do to the client.    *)
EXTENDS Integers, Sequences, SequencesExt

CONSTANTS
  Offered,   \* the services the server lists, in the order it lists them
  Numbers,   \* what "Get Number of Parameters" may yield, NoNumber included
  NoNumber,  \* a text std::stoi throws at
  Chunk,     \* how many parameters a request is meant to ask for (50)
  AskFrom, AskTo,  \* the window every request asks for ("1,44")
  Budget     \* how often each Event may happen in a behaviour

Events == {"connect", "lose", "refuse"}
ASSUME ServicesAssumption == Offered \in Seq(STRING)
ASSUME NumbersAssumption ==
  /\ Numbers \subseteq Nat \cup {NoNumber} /\ NoNumber \notin Nat
  /\ Chunk \in Nat \ {0}
  /\ AskFrom \in Nat /\ AskTo \in Nat /\ Budget \in [Events -> Nat]

VARIABLES
  number,    \* the answer of the server to "Get Number of Parameters"
  services,  \* service_list_
  list,      \* parameter_list_
  queue,     \* telegram_queue_
  current,   \* current_message_, NoTelegram for the empty pointer
  handled,   \* response_handled_
  stopping,  \* stop_message_, and with it the stop flag of the queue
  connected, \* connected_
  link,      \* socket_: none, open, or broken
  reply,     \* to the current telegram: none, asked, or the status answered
  after,     \* where WaitOnIdle returns to
  refused,   \* the server has answered a request with an error
  parsed,    \* how many answers with parameters have been parsed
  left,      \* what was not through when WaitOnIdle returned, here or before
  result,    \* of QueryParameters::Start: none, true or false
  spare,     \* what is left of Budget
  fault,     \* "none", or the undefined behaviour that ended the program
  pc         \* where each thread stands

data == <<services, list>>
exchange == <<queue, current, handled, stopping, connected, link, reply>>
server == <<number, refused>>
observer == <<parsed, left, result>>
vars == <<data, exchange, server, observer, after, spare, fault, pc>>

Telegram(do, args) == [do |-> do, args |-> args]
NoTelegram == Telegram("none", <<>>)
Goto(t, label) == pc' = [pc EXCEPT ![t] = label]
Move(t, from, to) == pc[t] = from /\ Goto(t, to)
Spend(e) == spare[e] > 0 /\ spare' = [spare EXCEPT ![e] = @ - 1]
Fail(what) ==
  fault' = what /\ UNCHANGED <<data, exchange, server, observer, after, spare, pc>>
Put(ts) == queue' = queue \o ts

Init ==  \* Start, up to its first WaitOnIdle
  /\ number \in Numbers /\ services = <<>> /\ list = <<>>
  /\ queue = <<>> /\ current = NoTelegram /\ handled = TRUE
  /\ stopping = TRUE /\ connected = FALSE /\ link = "none" /\ reply = "none"
  /\ after = "has_number" /\ refused = FALSE /\ parsed = 0
  /\ left = {} /\ result = "none" /\ spare = Budget /\ fault = "none"
  /\ pc = [app |-> "idle_connected", worker |-> "down", message |-> "off"]

-----------------------------------------------------------------------------
(* WaitOnIdle in the application thread.                                      *)

AppOnly == UNCHANGED <<data, exchange, server, spare, fault>>

IdleConnected ==
  /\ pc["app"] = "idle_connected"
  /\ Goto("app", IF connected THEN "idle_empty" ELSE "idle_connected")
  /\ AppOnly /\ UNCHANGED <<observer, after>>

IdleEmpty ==
  /\ pc["app"] = "idle_empty"
  /\ Goto("app", IF queue = <<>> THEN "idle_handled" ELSE "idle_connected")
  /\ AppOnly /\ UNCHANGED <<observer, after>>

\* Mutant: response_handled_ is not looked at.
IdleHandledUnread ==
  /\ pc["app"] = "idle_handled"
  /\ Goto("app", after)
  /\ left' = left \cup {w \in {"taken", "queued"} :
                         IF w = "taken" THEN pc["message"] = "check" ELSE queue # <<>>}
  /\ AppOnly /\ UNCHANGED <<parsed, result, after>>

IdleHandled ==
  /\ pc["app"] = "idle_handled"
  /\ Goto("app", IF handled THEN after ELSE "idle_connected")
  /\ left' = left \cup {w \in {"taken", "queued"} : handled /\
                         IF w = "taken" THEN pc["message"] = "check" ELSE queue # <<>>}
  /\ AppOnly /\ UNCHANGED <<parsed, result, after>>

-----------------------------------------------------------------------------
(* QueryParameters::Start, and the application that reads the list then.      *)

HasService(service) == service \in ToSet(services)

\* HasService takes no lock: read while the worker thread rewrites the list it
\* may find anything, or nothing that is still there.
Found(service, next) ==
  IF pc["worker"] = "set_services"
  THEN Fail("services read while written")
       \/ (Goto("app", next) /\ AppOnly /\ UNCHANGED <<observer, after>>)
       \/ (Goto("app", "done") /\ result' = "false" /\ AppOnly
             /\ UNCHANGED <<parsed, left, after>>)
  ELSE /\ Goto("app", IF HasService(service) THEN next ELSE "done")
       /\ result' = IF HasService(service) THEN result ELSE "false"
       /\ AppOnly /\ UNCHANGED <<parsed, left, after>>

HasNumber == pc["app"] = "has_number" /\ Found("number", "has_config")
HasConfig == pc["app"] = "has_config" /\ Found("config", "ask_number")

AskNumber ==
  /\ Move("app", "ask_number", "idle_connected")
  /\ list' = <<>> /\ Put(<<Telegram("number", <<>>)>>) /\ after' = "started"
  /\ UNCHANGED <<services, current, handled, stopping, connected, link, reply, server,
                 observer, spare, fault>>

Started ==  \* Start returns true
  /\ Move("app", "started", "read_list")
  /\ result' = "true"
  /\ AppOnly /\ UNCHANGED <<parsed, left, after>>

ReadList ==  \* ParameterList() hands out a reference, without a lock
  /\ pc["app"] = "read_list"
  /\ IF pc["worker"] = "set_parameters" THEN Fail("parameters read while written")
     ELSE Goto("app", "done") /\ AppOnly /\ UNCHANGED <<observer, after>>

-----------------------------------------------------------------------------
(* The worker thread: making and losing the connection.                       *)

Connect ==  \* StartMessageThread, up to OnStartMessage
  /\ Spend("connect")
  /\ pc["worker"] = "down"
  /\ link' = "open" /\ reply' = "none" /\ stopping' = FALSE
  /\ queue' = <<Telegram("init", <<>>)>>
  /\ pc' = [pc EXCEPT !["worker"] = "greet", !["message"] = "get"]
  /\ UNCHANGED <<data, current, handled, connected, number, refused, observer,
                 after, fault>>

OnStartMessage ==
  /\ Move("worker", "greet", "greeted")
  /\ Put(<<Telegram("services", <<>>)>>)
  /\ UNCHANGED <<data, current, handled, stopping, connected, link, reply, server,
                 observer, after, spare, fault>>

Greeted ==
  /\ Move("worker", "greeted", "read")
  /\ connected' = TRUE
  /\ UNCHANGED <<data, queue, current, handled, stopping, link, reply, server,
                 observer, after, spare, fault>>

Break ==  \* the peer is gone, with what it had to say
  /\ link = "open" /\ Spend("lose")
  /\ link' = "broken" /\ reply' = "none"
  /\ UNCHANGED <<data, queue, current, handled, stopping, connected, server, observer,
                 after, fault, pc>>

Close ==
  /\ link = "broken"
  /\ Move("worker", "read", "closing")
  /\ connected' = FALSE
  /\ UNCHANGED <<data, queue, current, handled, stopping, link, reply, server, observer,
                 after, spare, fault>>

StopMessageThread ==
  /\ pc["worker"] = "closing" /\ ~stopping
  /\ stopping' = TRUE
  /\ UNCHANGED <<data, queue, current, handled, connected, link, reply, server, observer,
                 after, spare, fault, pc>>

CloseSocket ==
  /\ pc["message"] = "off" /\ stopping
  /\ Move("worker", "closing", "down")
  /\ link' = "none"
  /\ UNCHANGED <<data, queue, current, handled, stopping, connected, reply, server,
                 observer, after, spare, fault>>

-----------------------------------------------------------------------------
(* The worker thread: HandleTelegram with the answer to the current telegram. *)

Answered(do) == pc["worker"] = "read" /\ reply = "OK" /\ current.do = do
WorkerOnly == UNCHANGED <<current, handled, stopping, connected, link, reply, server,
                          observer, after, spare, fault>>

ClearServices ==  \* SetServiceList begins
  /\ Answered("services") /\ Goto("worker", "set_services")
  /\ services' = <<>>
  /\ WorkerOnly /\ UNCHANGED <<list, queue>>

SetServiceList ==  \* of what the server answers, the first item is a number
  /\ Move("worker", "set_services", "complete")
  /\ LET items == <<Len(Offered)>> \o Offered IN services' = Tail(items)
  /\ WorkerOnly /\ UNCHANGED <<list, queue>>

Complete ==  \* OnComplete has nothing to call
  /\ Move("worker", "complete", "finish")
  /\ WorkerOnly /\ UNCHANGED <<data, queue>>

\* The telegrams SetExecuteService queues: one for each Chunk parameters, and
\* each asks for the same window.
WindowsFull(n) == n \div Chunk  \* Mutant: the last, shorter window is left out.
Windows(n) == (n + Chunk - 1) \div Chunk
Requests(n) == [w \in 1..Windows(n) |-> Telegram("config", <<AskFrom, AskTo>>)]

SetNumber ==  \* SetExecuteService with the number of parameters
  /\ Answered("number")
  /\ list' = <<>> /\ UNCHANGED services
  /\ IF number = NoNumber THEN Goto("worker", "over") /\ UNCHANGED queue
     ELSE Goto("worker", "complete") /\ Put(Requests(number))
  /\ WorkerOnly

Least(a, b) == IF a < b THEN a ELSE b
\* The text of a window: the lines of each parameter, and an empty one.
Line(key, value) == [key |-> key, value |-> value]
Text(from, to) ==
  LET Lines(i) == <<Line("Name", i), Line("Field", i), Line("", 0)>>
  IN  IF to < from THEN <<>>
      ELSE FlattenSeq([i \in 1..(to + 1 - from) |-> Lines(from + i - 1)])

\* A parameter is added to the list when the next one begins.
NoParameter == [name |-> 0, field |-> 0]
ParseLineEarly(state, line) ==  \* Mutant: ... or when it begins itself.
  CASE line.key = "Name" ->
         [open |-> [name |-> line.value, field |-> 0],
          list |-> Append(state.list, [name |-> line.value, field |-> 0])]
    [] OTHER -> state
ParseLine(state, line) ==
  CASE line.key = "Name" ->
         [open |-> [name |-> line.value, field |-> 0],
          list |-> IF state.open = NoParameter THEN state.list
                   ELSE Append(state.list, state.open)]
    [] line.key = "Field" /\ state.open # NoParameter ->
         [state EXCEPT !.open = [name |-> state.open.name, field |-> line.value]]
    [] OTHER -> state
ParseCtParameterConfigString(lines, old) ==
  FoldLeft(ParseLine, [open |-> NoParameter, list |-> old], lines).list

BeginParameters ==
  /\ Answered("config") /\ Goto("worker", "set_parameters")
  /\ WorkerOnly /\ UNCHANGED <<data, queue>>

SetParameters ==  \* SetExecuteService with the parameters of a window
  /\ Move("worker", "set_parameters", "complete")
  /\ list' = ParseCtParameterConfigString(
               Text(current.args[1], Least(current.args[2], number - 1)), list)
  /\ parsed' = parsed + 1
  /\ UNCHANGED <<services, exchange, server, left, result, after, spare, fault>>

\* Errors complete the telegram at once, and so do answers nobody looks at.
PassOn ==
  /\ pc["worker"] = "read"
  /\ \/ reply = "FAILED"
     \/ reply = "OK" /\ current.do = "init"
  /\ Goto("worker", "complete")
  /\ WorkerOnly /\ UNCHANGED <<data, queue>>

\* Mutant: response_handled_ is not set.
FinishUnhandled ==
  /\ Move("worker", "finish", "read")
  /\ reply' = "none"
  /\ UNCHANGED <<data, queue, current, handled, stopping, connected, link, server,
                 observer, after, spare, fault>>

Finish ==
  /\ Move("worker", "finish", "read")
  /\ handled' = TRUE /\ reply' = "none"
  /\ UNCHANGED <<data, queue, current, stopping, connected, link, server, observer,
                 after, spare, fault>>

-----------------------------------------------------------------------------
(* The message thread, and the server.                                        *)

MessageOnly == UNCHANGED <<data, stopping, connected, link, server, observer,
                           after, spare, fault>>

Get ==
  /\ queue # <<>>
  /\ Move("message", "get", "check")
  /\ current' = Head(queue) /\ queue' = Tail(queue)
  /\ MessageOnly /\ UNCHANGED <<handled, reply>>

GetNothing ==
  /\ stopping
  /\ Move("message", "get", "off")
  /\ MessageOnly /\ UNCHANGED <<queue, current, handled, reply>>

Check ==
  /\ pc["message"] = "check"
  /\ Goto("message", IF stopping THEN "off" ELSE "send")
  /\ handled' = (handled /\ stopping)
  /\ MessageOnly /\ UNCHANGED <<queue, current, reply>>

Send ==
  /\ Move("message", "send", "wait")
  /\ reply' = IF link = "open" THEN "asked" ELSE reply
  /\ MessageOnly /\ UNCHANGED <<queue, current, handled>>

\* Mutant: the answer is not waited for.
WaitDoneAtOnce ==
  /\ Move("message", "wait", "get")
  /\ current' = NoTelegram
  /\ MessageOnly /\ UNCHANGED <<queue, handled, reply>>

WaitDone ==
  /\ handled \/ stopping
  /\ Move("message", "wait", "get")
  /\ current' = NoTelegram
  /\ MessageOnly /\ UNCHANGED <<queue, handled, reply>>

Serve ==
  /\ reply = "asked" /\ reply' = "OK"
  /\ UNCHANGED <<data, queue, current, handled, stopping, connected, link, server,
                 observer, after, spare, fault, pc>>

Refuse ==
  /\ reply = "asked" /\ Spend("refuse")
  /\ reply' = "FAILED" /\ refused' = TRUE
  /\ UNCHANGED <<data, queue, current, handled, stopping, connected, link, number,
                 observer, after, fault, pc>>

-----------------------------------------------------------------------------
App == \/ IdleConnected \/ IdleEmpty \/ IdleHandled \/ HasNumber \/ HasConfig
       \/ AskNumber \/ Started \/ ReadList
Worker == \/ OnStartMessage \/ Greeted \/ Close \/ StopMessageThread \/ CloseSocket
          \/ ClearServices \/ SetServiceList \/ Complete \/ SetNumber
          \/ BeginParameters \/ SetParameters \/ PassOn \/ Finish
Message == Get \/ GetNothing \/ Check \/ Send \/ WaitDone
Running(A) == fault = "none" /\ A

Next == \/ Running(App) \/ Running(Worker) \/ Running(Message)
        \/ Running(Connect) \/ Running(Break) \/ Running(Serve) \/ Running(Refuse)

Spec == Init /\ [][Next]_vars

\* The threads run, and a connected server answers.
FairSpec == Spec /\ WF_vars(Running(App)) /\ WF_vars(Running(Worker))
                 /\ WF_vars(Running(Message)) /\ WF_vars(Running(Serve))

-----------------------------------------------------------------------------
(* Properties.                                                                *)

Statuses == {"none", "asked", "OK", "FAILED"}
AppPcs == {"idle_connected", "idle_empty", "idle_handled", "has_number", "has_config",
           "ask_number", "started", "read_list", "done"}
WorkerPcs == {"down", "greet", "greeted", "read", "closing", "set_services",
              "set_parameters", "complete", "finish", "over"}
MessagePcs == {"off", "get", "check", "send", "wait"}
Faults == {"none", "services read while written", "parameters read while written"}
Does == {"none", "init", "services", "number", "config"}

\* The types of the variables. A request is out only while its telegram is held.
TypeOK ==
  /\ number \in Numbers
  /\ ToSet(services) \subseteq ToSet(Offered)
  /\ \A t \in ToSet(queue) \cup {current} : t.do \in Does
  /\ handled \in BOOLEAN /\ stopping \in BOOLEAN /\ connected \in BOOLEAN
  /\ link \in {"none", "open", "broken"} /\ reply \in Statuses
  /\ reply # "none" => current # NoTelegram
  /\ refused \in BOOLEAN
  /\ left \subseteq {"taken", "queued"} /\ result \in {"none", "true", "false"}
  /\ parsed \in Nat /\ after \in {"has_number", "started"}
  /\ spare \in [Events -> Nat] /\ fault \in Faults
  /\ pc \in [app : AppPcs, worker : WorkerPcs, message : MessagePcs]

\* A parameter never gets the fields of another one.
FieldsStayTogether ==
  \A p \in ToSet(list) : p \in [name : Nat, field : Nat] /\ p.name = p.field

\* No connection has been lost, and no request refused.
Smooth == spare["lose"] = Budget["lose"] /\ ~refused
WaitReturns(label) == pc["app"] = "idle_handled" /\ pc'["app"] = label

\* WaitOnIdle may return while telegrams are queued, as IsIdle looks at the queue
\* before it looks at response_handled_. But when Start is going to return true,
\* for every Chunk of the parameters counted, and for the rest of them, a request
\* has been answered and its answer parsed, or it is queued or just taken, unless
\* the number has not been asked for yet. This counts requests: it says nothing of
\* what they ask for, which is the same window each time, nor of what is in the
\* list then.
EveryWindowIsAskedFor == [][WaitReturns("started") /\ Smooth =>
  LET taken == IF pc["message"] = "check" THEN 1 ELSE 0
  IN  \/ taken = 1 /\ current.do = "number"
      \/ Chunk * (parsed + Len(queue) + taken) >= number]_vars

\* Start refuses a server that offers both services, and unlocked lists are read
\* while they are written, only after a WaitOnIdle that returned too early, or
\* after trouble with the connection.
OnlyEarlyReturnsMislead ==
  fault # "none" \/ result = "false" => left # {} \/ ~Smooth

\* QueryParameters::Start returns, unless the client is offline for good or the
\* answer to the number of parameters was no number, which ends the worker.
QueryReturns ==
  \/ <>(pc["app"] = "done" \/ fault # "none")
  \/ <>[](pc["worker"] = "down") \/ <>[](pc["worker"] = "over")

\* The test expects Start to return true, with a server that has the services.
StartSucceeds == result # "false"
=============================================================================
