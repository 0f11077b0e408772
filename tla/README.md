# A verification project for asaplib

asaplib is a C++ client for ASAP3, the request/response protocol between a
measurement or test-bed application and a calibration server. These TLA+ modules
model the library's core logic; TLC checks them on small instances, and TLAPS proves
for every instance what is said of the exchange, the connection, the life cycle, the
parameter query and the byte formats, but for liveness. Paths below are those of the
repository.

## Inventory

| Component | State | Operations | Talks to |
|---|---|---|---|
| Exchange (`src/asap3client.cpp`: `MessageThread`, `HandleResponse`, `HandleRequest`, `IsIdle`, `WaitOnIdle`; `src/iclient.cpp`: `SendTelegram`, `HandleTelegram`) | `telegram_queue_`, `current_message_`, `response_handled_`, `transmit_data_` | send a telegram, wait until idle, take it from the queue, send it, wait for its response, complete it | application thread, message thread and worker thread share all of it; the only lock is the one inside the queue |
| Connection (`DoLookup`, `DoRetryWait`, `DoConnect`, `DoReadLength`, `DoReadBody`, `Close`, `StartMessageThread`, `StopMessageThread`) | `socket_`, `connected_`, `restart_`, `stop_message_`, `message_thread_`, two timers | connect, greet (INIT, IDENTIFY, `OnStartMessage`), read, close, retry after 5 s | handlers run in the worker thread; it starts and joins the message thread |
| Life cycle (`Start`, `Stop`, `WaitOnIdle`, `WorkerThread`, destructor) | `worker_thread_`, `message_thread_`, `stop_thread_`, `context_`, `connected_` | start, wait, stop, destroy | starts the worker thread, joins both; callbacks may call it too |
| Message format (`src/asap3helper.*`, `src/irequest.cpp`, `src/iresponse.cpp`) | none | values to bytes and back, lengths, checksums | exchange, connection |
| Server data (`src/iclient.cpp`) | `service_list_`, `user_defined_list_`, `online_value_list_` | set by responses, read by the application, under `value_locker_` (except by `HasService` and by the reference `ParameterList()` returns) | `IResponse`, `HandleTelegram` |
| Parameter query (`src/queryparameters.cpp`) | `parameter_list_` | ask for the services, count the parameters, ask for them window by window, parse them | the exchange: `Start` in the application thread, the rest in its callbacks |
| ComTest client, subscriptions (`src/ctasap3client.cpp`, `src/iclient.cpp`) | `parameter_list_` | as linked, `StartSubscription`, `StopSubscription` and `IsScanning` return false | not modelled: no program runs the other definition |
| Factory, log texts, definitions | none | formatting and construction | not modelled |
| `util` (`ThreadSafeQueue`, `IListen`), Boost.Asio | external | | modelled as `src/` uses them |

What is hard in this code is that three threads share `current_message_`, the
flags, the socket and the `std::thread` of the message thread without a lock, that
a connection may be lost and made again under all of them, and that nothing in a
response says which request it answers. What makes the parts correct:

* exchange: one request is out at a time, a response completes the telegram it
  answers, telegrams are sent in the order put and completed at most once, each
  is settled in the end, and a caller of `WaitOnIdle` may rely on what it says;
* connection: the message thread never outlives its socket, and no thread is joined
  twice or overwritten;
* life cycle: `Stop` returns, and leaves no thread with a dangling pointer; a client
  that says it is idle is looked after by its threads;
* format: what one side composes the other reads, the place in the stream is never
  lost, damage is noticed and nothing else is taken for damage;
* parameter query: `Start` returns, refuses no server that has the services, and returns
  true with the requests for the whole number of parameters made; the parser keeps the
  parameters apart. (What the requests ask for is the same window each time, see below.)

## Modules

| Module | What it is |
|---|---|
| `MessageExchange` | The three threads, the server and the network, one action per access to shared state. |
| `RequestLine` | Abstract specification: a line of telegrams served one at a time, in order. |
| `ExchangeRefinement` | The mapping under which `MessageExchange` implements `RequestLine`. |
| `MCExchange` | The instances of these that TLC checks. |
| `MessageExchange_proof` | Theorems `TypeCorrect`, `SocketSafe`, `CrashOnlyInStop`, `OneExchange`, `IdleMeansServed`, and the refinement `ServedInLine`. |
| `Connection` | The handlers of the worker thread, with the asynchronous operations they start. |
| `MCConnection` | Its instances for TLC. |
| `Connection_proof` | Theorems `OpsTypeCorrect`, `ChainsCounted` and `ThreadHasSocket`. |
| `Lifecycle` | `Start`, `WaitOnIdle`, `Stop` and the destructor against the two threads, over several lives of one object. |
| `MCLifecycle` | Its instances for TLC. |
| `Lifecycle_proof` | Theorems `TypeCorrect`, `OrphanSafe` and `FirstIdleServed`. |
| `ComTest` | `QueryParameters` on top of the exchange, with a ComTest server. |
| `MCComTest` | Its instances for TLC. |
| `ComTest_proof` | Theorems `TypeCorrect` and `MisledOnlyByEarlyReturns`. |
| `ParameterList_proof` | Theorems `FieldsAreTheirOwn` and `RequestsCoverTheNumber`. |
| `Mc3Codec` | Bytes: numbers, strings, data lists, checksums, whole messages. Pure operators. |
| `ResponseFrame` | The stream of responses, cut by `DoReadLength`/`DoReadBody` and taken apart by `IResponse`. |
| `MCFrame` | Its instance for TLC. |
| `Recursion_proof` | Lemmas about recursive functions, folds and sums, for the proofs about data. |
| `ResponseFrame_proof` | Theorems `FrameTypes`, `FramesAreFound`, `ValuesAreNamed`, `ChangesAreSeen` and `AcceptsSmallSums`. |

### MessageExchange and the code

`kind` and `fate` are a record of all telegrams ever put and of what became of
each; `queue` and `current` hold their numbers. `handled`, `stopping`,
`connected`, `joinable`, `link` are `response_handled_`, `stop_message_` with the stop
flag of the queue, `connected_`, `message_thread_.joinable()` and `socket_`. `pc`
says where each thread stands. `mark` and `idled` only observe `WaitOnIdle`.

An action goes from one access another thread can observe to the next: `IsIdle`
takes three, the wait of `StopMessageThread` two per poll, and `Check`, `Send`
and `WaitDone` are apart. `HandleResponse` is `Receive` (the pointer
is read), `Attach`, one of the `Switch` actions, `Callback` and
`Finish`. Accesses are merged only where no thread can tell: the read of
`stop_message_` and the reset of `response_handled_` in `Check`; `response_handled_ =
true` and `connected_ = false` of a refusal (`IsIdle` reads them in the other
order). Two abstractions are coarser. The stop flags of thread and queue are one: where `Stop`
meets a reconnection, lines 296 and 298 of `asap3client.cpp` can come between 320 and 321 or the
other way round, and leave one flag set and the other not. `SwitchFinal` stands for `STATUS_ERROR`
as well, which first reads two items for the log from a list that `current_message_` owns by then.
No property of the passing runs depends on either.

Undefined behaviour ends a behaviour with its name in `fault`: the worker
dereferences an empty `current_message_`, or one that the message thread has reset
since; two threads join the message thread; a running thread is overwritten; the
message thread writes to a null socket.

The server answers a request once, with `FinalStatus`, possibly after
ACK, or with REPEAT or NOT_PROCESSED; `ServerUnsolicited` is one that does
not keep to that. Name lookup and the retry timer are part of `Connect`, which
may happen whenever the socket is gone. `FollowUp` stands for
callbacks that send telegrams, as `QueryParameters::HandleTelegram` does.

### Connection and the code

`ops` counts, for each kind of asynchronous operation, those pending and those whose
handler is ready, by result. It is a bag because Asio promises no order between handlers
of different operations, and because nothing in the code keeps two operations of a kind
apart. `socket` is `socket_` with what the network has made of it; `connected` and
`running` are `connected_` and the message thread. An action is one handler
with all it calls, which is how `context_.run()` runs them: `DoRetryWait` contains `Close`
and the `expires_after` that cancels the wait before. `Cancel` gives a pending operation the
result `aborted` and leaves one alone that is ready, as Asio does; so a body may
be complete and its timer have expired at the same time. The rest of the actions are the
environment, of which `Budget` limits the troubles; `expired` counts the expiries the code
has handled and is read by properties only. `MaxReady` bounds how many handlers may be
ready before another operation completes.

`MessageExchange` takes all this together in `Connect`, `ReadError` and `Close`, with one
chain of handlers. `OneChainPerExpiry` and `ThreadNeedsSocket` say that it may, as long as
the timer of `DoReadBody` has not run out; the exchange does not model that timer.
What the reads of two chains do to the same buffer is not modelled.

### Lifecycle and the code

`workerJoinable` and `messageJoinable` are `joinable()` of the two `std::thread` objects,
`pc` says where the threads themselves stand; that the two agree is part of `TypeOK`.
`stopped` is the state of `context_`, which is not reset by anything. Telegrams are
counted: `queue`, `current` and `handled` are `telegram_queue_`, `current_message_` and
`response_handled_`, and `asked` counts requests that may be answered, also late ones.
`StopMessageThread` is the same steps for the application, for `Close`, for `StartMessageThread`
and for a callback that calls `Stop`; `ret` is its return address. Its 500 polls are one
step, `SmtStop`, that may be taken at any time: what the polls see, and that they
end, is in `MessageExchange`. In return the callbacks of telegrams may here do all that the
type of `OnComplete` allows: return, send, wait, stop the client, throw. `Stop` in a callback joins the
worker thread from itself, which throws and ends it (`StopJoinsItself`).

The undefined behaviours are faults here too: a joinable `std::thread` overwritten or
destroyed, two joins of one, an empty `current_message_`. `late` and `gaveUp` observe
what the properties except: a message thread started while `Stop` is under way, and a telegram
given up without a response.

### ComTest and the code

The exchange is that of `MessageExchange` with one telegram out at a time and a server that
answers it, in fewer steps: `Check`, `Send` and `WaitDone` are apart as there, and so are the three
reads of `IsIdle`; handlers other than that of a response are one step each. `Init` is
`QueryParameters::Start` up to its first `WaitOnIdle`.

A service is a name, a parameter a number: `list` keeps the name and one field of each, so that
fields read into the wrong parameter would show. `Text` is the text a server gives for a window, a line for the name,
one for the field and an empty one; `ParseLine` is one turn of the parser's loop. The
constants `Chunk`, `AskFrom` and `AskTo` are 50, 1 and 44 in the code.

`service_list_` and `parameter_list_` are rewritten in two steps, so that the application may read
them in between: `HasService` and `ParameterList()` take no lock, and what they find then is
undefined (`fault`, or any answer of `HasService`). `refused` records that the server has answered
with an error, `parsed` counts the answers with parameters that have been parsed, and `left` observes
what was not through when `WaitOnIdle` returned: a telegram taken from the queue and not sent, or
telegrams still queued.

`IClient::StartSubscription` is not part of it. It is defined twice. `asap` is a static library
(`CMakeLists.txt:23`) and nothing refers to the object of `ctasap3client.cpp`: the constructor
and destructor of `CtAsap3Client` are private (`ctasap3client.h:11-13`) and the factory never makes one
(`asap3factory.cpp:12-31`). So a program links `iclient.cpp:288`, which returns false and sends
nothing, and `ctasap3client.cpp:61-106` is code that does not run; a program that drew in both objects
would not link.

### Mc3Codec, ResponseFrame and the code

A byte is a number below `Radix` (256 in the code); a word is two bytes, and
numbers are cut to their width with `%`. The messages of the server are composed
by `CreateBody` as `IResponse::CreateBody` composes them, and read by `ReadLength`,
`ReadBody` (the `IResponse` constructor with `BodyToDataList`, `ToDataList` here) and
`BodyTimeout` (`deadlock_timer_`). `CreateBody` with one header word is also
`IRequest::CreateBody`. User defined values go into `user`, as
`DefineUserDefinedData` and `SetUserDefinedData` put them.

## Runs

Pass:

| Run | Shows | Bounds |
|---|---|---|
| `Exchange_Reconnect` | `CrashNeedsStop`, `ExclusiveExchange`, `IdleMissesAtMostOne`, `ServesInLine`, `EveryTelegramSettles` | two connections; one loss, one refusal (NOT_PROCESSED or REPEAT) and one ACK at any moment; the application sends while fewer than two telegrams exist, greetings and follow-ups come on top; `Stop` is never called |
| `Exchange_Stop` | `TypeOK`, `SocketOutlivesThread`, `StopReturns` | one connection that may be lost, an unsolicited response of any command and status, `Stop` at any moment; INIT and EXIT are the telegrams |
| `Connection_Chains` | `TypeOK`, `OneChainPerExpiry`, `ThreadNeedsSocket`, `StaysConnected` | two expiries of the body timer and one each of a failed lookup, a failed connect, a loss, a bad length and a refusal; `MaxReady` 3 |
| `Frame_Stream` | `TypeOK`, `ReadsWhatWasSent`, `ValuesFindTheirNames`, `DamageShows`, `SmallSumsAccepted` | every layout; any two responses, or one with any byte changed to any other |
| `Lifecycle_Calls` | `TypeOK`, `OrphanNeedsRace`, `FirstIdleIsServed`, `WaitEnds`, `StopReturns` | two calls of `Start`, two connections, one loss, one telegram and two greetings on each connection; callbacks may do anything |
| `ComTest_Query` | `TypeOK`, `FieldsStayTogether`, `OnlyEarlyReturnsMislead`, `EveryWindowIsAskedFor`, `QueryReturns` | three connections, two losses, one refused request; 0, 1, 4 or 5 parameters or none readable, `Chunk` 2 |

Violation, each a place where the code does not do what the repository says:

| Run | Property | What happens |
|---|---|---|
| `Exchange_Late` | `WaitsForOwnResponse` | The late answer to a telegram given up is taken for that of the next. |
| `Exchange_StopHang` | `StopReturns` | `StartMessageThread` takes back the `stop_message_` that `Stop` has set, and `Stop` joins for ever. |
| `Exchange_StopCrash` | `StopIsClean` | `Stop` makes the message thread free the telegram the worker is handling. |
| `Connection_Timeout` | `BecomesReady` | One expiry of the body timer leaves two chains that close each other's connection for ever. |
| `Lifecycle_SecondLife` | `IdleIsServed` | `Stop`, `Start`, `WaitOnIdle`: the wait returns true by a `connected_` of the life before; the context stays stopped and the new worker thread has ended. |
| `ComTest_Start` | `StartSucceeds` | `WaitOnIdle` returns between `Get` and the reset of `response_handled_`, with the query for the services not yet sent, and `QueryParameters::Start` finds none. |

**Why the bounds are enough.** The threads interact through one current
telegram, one queue and one socket. Two telegrams on a connection show every confusion
of a telegram with its successor, and a second connection every confusion with a
predecessor; the queue is first-in first-out, so more telegrams only wait longer.
Each trouble of `Connection` leads back to `DoRetryWait`, so what counts is which
troubles meet, not how often one comes; two expiries make three chains, and `MaxReady` 3 lets
the handlers of all be ready at once.
`MaxWait` 1 already lets the wait end before the answer; where the
properties suppose a server that answers in time, `Prompt` keeps the wait from
ending first. With `Radix` 8 a word holds 64 values and sums overflow
within a message, as they do with 256 and longer texts; the strings used have even
and odd length, and lists have up to two entries.
`Lifecycle` keeps nothing of a life but what its flags say, so a third `Start` meets the same
state as the second; its second connection is there to meet the first `Stop`. In
`ComTest` four and five parameters are two full windows and two with a short one; 1 to 3 as the window asked for lies
inside or beyond the parameters there are, as 1 to 44 does.

**Deadlock** is checked in the `Exchange` runs but `Exchange_StopHang` and in those of `Connection`. It is
not where the system may stop: `Stop` that hangs, a server with nothing more to send (`Frame`), a
callback that waits for ever (`Lifecycle`), an application that has nothing more to do (`ComTest`). `Over`
lets a program that has ended stutter.

**Fairness.** The operating system runs each thread (`WF` of `App`, `Worker`,
`Message`), and a connected server answers (`WF` of `ServerFinal`).
`StopMessageThread` polls at most 500 times, so its patience ends: `SF` of
`SmtPatience`, which the two polls enable again and again. The application need not
call anything, no connection needs to succeed beyond the budget, and nothing needs to
fail. `EveryTelegramSettles` therefore excepts a connection lost for good. `Exchange_Reconnect` has of this
only what concerns the worker, the message thread and the server (`LiveSpec`): whether telegrams settle
does not depend on the application.

In `Connection` each handler that is ready is run, lookups and connects end, a broken socket
is reported to its reads and the retry timer expires (`WF` each). The
server need not send anything and nothing need go wrong. Where two chains go on, the
fairness of the handlers of one kind does not say which chain they serve.

In `Lifecycle` and `ComTest` the three threads run (`WF` each) and, in `ComTest`, a connected server
answers. In `Lifecycle` nothing need come from the network, so `WaitEnds` lists the cases
in which waiting has no end; `SmtStop` is fair because the polls are counted.

**What the properties suppose.** `ExclusiveExchange`, `CrashNeedsStop`, `IdleMissesAtMostOne`
and `ServesInLine` hold with a server that answers every request once and within the 600 s
and has sent nothing else so far (`Orderly`). Without it they do not, which `Exchange_Late`
shows in its mildest form.
`IdleMissesAtMostOne` speaks of telegrams that are settled, not of telegrams that are completed: those
`StartMessageThread` clears (`asap3client.cpp:297`), any number, and those given up never get their
`OnComplete`, and `WaitOnIdle` returns true all the same.
`FirstIdleIsServed` holds until a telegram has been given up. `EveryWindowIsAskedFor` speaks of a
connection that has not been lost and a server that has refused nothing (`Smooth`).

**What was learned on the way**, beyond the violations:

* `WaitOnIdle` after `QueryParameters` has counted the parameters may return with the windows queued: the callback
  puts them after `IsIdle` has seen the queue empty and before it reads
  `response_handled_`. `Start` then returns true with part of the list, or nothing of it.
* A connection that comes up while `Stop` waits leaves a message thread nobody
  joins; the destructor then terminates the program.
* A lost connection drops all requests for windows that are queued, and nothing repeats them.
* Every window asked for is `"1,44"`: `min_max_text` (`queryparameters.cpp:94-101`), in which consecutive
  windows of 50 are put together, is not used (`:105`). Parameters past 44 are never asked for, and with more
  than 50 the same ones are asked for again. So `EveryWindowIsAskedFor` counts requests
  and says nothing of what they ask for or of what is in the list.
* The parser adds a parameter to the list when the next one begins (`asap3helper.cpp:487-494`), so the last of
  each window is lost. `FieldsStayTogether` is about those that are added.
* `StartSubscription` is defined twice, and what links only returns false (see above).
* The mark `invalid_checksum_` is read by nothing, and is set on correct responses whose words
  add up to more than 16 bits (`SmallSumsAccepted` has the limit).
* A comment says that ACK prolongs the timeout; the count of the wait goes on.

## Proofs

`MessageExchange_proof` proves, for all constants that meet
`KindsAssumption` and `BoundsAssumption`:

* `TypeCorrect == Spec => []TypeOK`. `TypeOK` is inductive as it stands: besides types
  it says that the message thread in `check`, `send` or `wait`, and the worker in
  `callback`, hold a telegram. Its six parts are proved one by one, each with
  a lemma that says which actions touch the variables of that part; lemmas about
  sequences of numbers (`IdsGrow`, `LenOfList`, `PutType`) cover the queue.
* `SocketSafe == Spec => []SocketOutlivesThread`. That is not inductive: the step
  `CloseSocket` keeps it only because the message thread is off by then. `SocketInv` adds
  where the worker stands: it starts a thread only with a socket and
  without a thread, and closes the socket only after the join. The argument is in
  `SocketStep`, by cases on the steps that move the message thread, the link or
  `joinable`.

The same module proves, for all constants as above, what the exchange is for.
None of the three properties is inductive; they rest on these, in the order in which
each needs the ones before:

* `QueueInv`: a telegram is in the queue exactly as long as its fate says so, and once; one
  that is taken or sent is `current`. `PlacesInv`: outside `StopMessageThread` the worker finds
  `stop_message_` set only when the application is stopping the client. With `TypeOK` and
  `SocketInv` they make `BaseInv`, which holds whatever the server does.
* With an orderly server (`Orderly`), `LineInv`. `TurnInv`: something is out only while the message
  thread waits for it with `response_handled_` unset, or after it was told to stop;
  nothing is out between two connections. `OrderInv`: nothing follows a response that ends an
  exchange. `MatchInv`: what is out, and what the worker is handling, belongs to the telegram
  that is waited for. `FateInv`: that telegram is settled when the wait ends, unless the
  connection is being restarted. `CrashInv` is `CrashNeedsStop`. Each part is kept by a step only if
  all of them held before, so they are proved together, with one lemma per step of the
  message thread, of the worker and of the server.
* `CrashOnlyInStop` and `OneExchange` follow from `LineInv` in one step each. `IdleMeansServed` needs one more
  observation, `IdleInv`: past the second read of `IsIdle` nothing put before the call is queued.

It proves also `ServedInLine == Spec => ServesInLine`, for a server that answers in
time and sends nothing unasked (`Prompt`, no budget for `unsolicited`). The mapping takes the fates apart; that
what it says of `waiting` and `serving` fits together is `QueueInv`, and that `Send` finds
nothing being served and `Callback` completes what is served are `TurnInv` and `FateInv`. Every action
is shown to be one step of the line or to leave it alone.

`Connection_proof` proves, for every `Budget` and `MaxReady` that meet `BudgetAssumption`:

* `OpsTypeCorrect == Spec => []TypeOK`, inductive as it stands.
* `ChainsCounted == Spec => []OneChainPerExpiry`. What Asio does to an operation is told by
  `StartOps`, `CancelOps`, `WithoutOps` and `CompleteOps`; from these `GoOnStep`
  and `RetryWaitStep` derive that a handler passes its chain on (`Passed`), and one lemma
  per handler says from where to where. Only `DeadlockExpired` starts a chain without ending one.
* `ThreadHasSocket == Spec => []ThreadNeedsSocket`. Not inductive: `ThreadInv` adds that the
  one chain reads exactly while the client is connected, and that a connect that
  succeeded has left a socket. It needs `ChainsCounted`: with one chain, what
  one handler passes on (`OnlyChain`) is all there is.

`Lifecycle_proof` proves, for all constants that meet `BoundsAssumption` and
`CallbackAssumption`:

* `TypeCorrect == Spec => []TypeOK`. Inductive only together with `SocketOK`
  (`TypeInv`): the worker starts a message thread only with the socket open and without
  one, and closes the socket only after the join. One lemma for each part of
  the state (`FlagsStep`, `CountsStep`, `PlacesStep`) and, under it, one step for each action that touches it.
* `OrphanSafe == Spec => []OrphanNeedsRace`. `OrphanInv` says where `Stop` and the worker stand when a
  message thread exists: past `StopMessageThread`, a thread can only be there if it was started
  since, which is what `late` records.
* `FirstIdleServed == Spec => FirstIdleIsServed`. `AnswerInv`: until a telegram is given up, at most
  one request is unanswered or being handled, and `response_handled_` is not set before that is
  through. `EndInv` says who, in the first life, can have set `stop_thread_` and stopped the context, and
  that a worker which ended by itself, in a callback, has left `response_handled_` unset.

`ComTest_proof` proves, for every `Offered`, `Numbers`, `Chunk`, window and `Budget`:

* `TypeCorrect == Spec => []TypeOK`. `BaseInv` adds where the three threads may be at the same time
  (`FlowInv`) and what telegrams and services may be in the queues and lists.
* `MisledOnlyByEarlyReturns`, for a server that offers the two services `Start` asks for. `ServicesInv`: once
  asked for, the services are known or their telegram is queued or out. `OnlineInv`: unless the connection
  has been lost, a caller who is past `connected_` finds the greeting queued. `QueryInv`: if
  no `WaitOnIdle` has returned early, nothing is queued, taken or out while `Start` goes on.

`ParameterList_proof` proves, for parameters of any number, in windows of any size:

* `FieldsAreTheirOwn == Spec => []FieldsStayTogether`. `Apart` says of the parser's state, the list and the
  parameter that is open, that each has its own field. `WindowParsed` follows it from line to line through the
  text of a window; `FieldsInv` has it of the list (`ListInv`), with all windows asked for being the same
  (`WindowsInv`).
* `RequestsCoverTheNumber == Spec => EveryWindowIsAskedFor`. `AskInv` says that the number is asked for once, after
  the first wait, and that until then nothing queued asks for it or for a window and nothing has been parsed.
  `CountInv` follows the requests from one to the next: in the last wait of `Start` the number is still to be asked
  for (`NumberQueued`) or just out (`NumberOut`), or the requests parsed, queued and out add up to `Windows(number)`
  (`Counted`), which `WindowsCover` shows to be enough.

`Recursion_proof` holds what these and the next proofs have in common. The induction theorems of the library take a
predicate as a parameter, which the provers at hand cannot instantiate. `NumbersInduction` says the same of a set of
numbers, from the fact that the naturals are well founded (`WFMin`, `NatLessThanWellFounded`). With it the recursive
definitions of the community modules are shown to be what they are meant to be: `RecursiveFunction`
(a step, given as a function, makes a function on `0..N`), `LeftFold` (`FoldLeft` is its last value),
`FlattenAppend` and `SumStep` (sequences and sums grow by their last part), `SumChange` (a changed
summand changes the sum by as much).

`ResponseFrame_proof` proves, for all constants that meet `RadixAssumption` and `ServerAssumption` (a
radix above 3, so that the codes of commands fit a word; numbers that fit their width; texts of
bytes of any length):

* What is written is read. `DigitsOfWord` and `DigitsOfFloat` take a number apart into bytes, `WordIsRead`, `FloatIsRead`
  and `TextIsRead` put it together where a body holds these bytes (`Holds`). `ListAsBytes` gives each item its
  place among the bytes of a list, `FrameIs` the places of a whole message. `BodyReads`,
  `ServicesRead` and `UserListRead` follow the three loops that read lists, item by item, up to the limit that stops each
  (four bytes for an empty last name are fewer than six). `ListIsRead` sums this up: of each message a
  server can send, `ToDataList` yields `Kept` of its items.
* The checksum. `SumIsRight`: of an undamaged frame the client's sum is the server's, if that fits a word.
  `ChangeIsSeen`: a changed byte changes one word, by less than `Word`, so the two sums, equal
  before but for multiples of `Word`, cannot be equal after (`NearMultiples`).
* The stream. No property is inductive; `FrameInv` is. Its first part is `TypeInv`. While nothing is damaged,
  `Streaming` has all the bytes sent so far and the places of the frames among them: the wire is what
  follows the frames read, less two bytes while a body is awaited. `Reads` has what was read so far, `UserNamed` and
  `UserValued` what the client keeps of the last list and the last values. After a damage `Damaged` says that the wire is
  the one frame but for a byte, or what is left of it after its length. One lemma for each action shows `FrameInv`
  kept, from `LengthArrives` and `BodyArrives`, by which the stream is cut where the server put the frames together.
* `FrameTypes`, `FramesAreFound`, `ValuesAreNamed`, `ChangesAreSeen` and `AcceptsSmallSums` follow: with them
  every invariant of `Frame_Stream` holds for bytes of 256 values, any texts and any number of messages.

**Model-checked only.** Liveness (`EveryTelegramSettles`, `StopReturns`, `StaysConnected`, `WaitEnds`,
`QueryReturns`): the tool's fairness and `ENABLED` reasoning does not reach it. Every other property of the
passing runs is a theorem. The violations are counterexamples and have nothing to prove.

## Not modelled

* Log texts, the factory, the definitions and `A3Parameter` (no state of their own); the formatting and
  reading of numbers as text; real time: models count polls and seconds, not durations.
* What overlapping reads do to `short_data_` and `body_data_`, and overlapping writes
  to `transmit_data_`.
* Two application threads calling one client at the same time.
* `SetServiceInfo`, `SetOnlineData` and `IsSubscriptionInitialized`: lists that nothing of
  the modelled code reads.
* Subscriptions and `CtAsap3Client`: as linked they do nothing (see ComTest above).
* Fields of a parameter other than its name and one more; the parser treats them alike but for
  the conversions, and an exception of those ends the worker thread as that of `SetNumber` does.

## Plan

1. Done: exchange with its abstract line, frames, connection, life cycle, parameter query; proofs of all their
   safety properties and of the refinement.
2. Proofs: what holds of the exchange when the server is late (one response may be attributed wrongly
   for each telegram given up).
3. The `Connect`, `ReadError` and `CloseSocket` of the exchange as a refinement of `Connection`, and the
   exchange of `ComTest` as one of `RequestLine`.
