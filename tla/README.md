# kubemq-cpp: TLA+ models, checks and proofs

kubemq-cpp is a C++ client of the KubeMQ message broker over gRPC: events,
stored events, commands, queries and queues, with streaming publishers,
subscriptions that recover by themselves, and a queue consumer that settles
messages. The repository also holds a burn-in application, an HTTP-driven soak
test. This directory models the threads that share state in the library and in
the application, and what messages, requests, configurations and counters mean
on their way through them. TLC checks the models on small instances; every
safety property that a passing run checks is also proved, with TLAPS, for every
number of threads, streams, messages, callers and runs (section 4).

Paths below are those of `PROJECT.json`, with `src/` for the repository root.

## 1. The system

| Component | State | Operations | Talks to |
|---|---|---|---|
| Client (`src/src/client.cc`, `internal/client_impl.h`) | `closed`, `close_once`, options, transport | Create, State, Ping and every operation, Close, destructor | transport; application callbacks |
| Transport (`internal/transport/grpc_transport.cc`) | `closed_`, `close_once_`, `mu_`, channel, stub | Connect, State, the RPCs, Close | state machine, broker |
| State machine (`internal/transport/state_machine.cc`) | `state_`, `was_reconnecting_`, five callbacks | Transition, setters, WaitForState | callbacks |
| Subscription (`internal/subscription_impl.h`, `client_events.cc` and the other subscribing files) | `done`, `ctx`, `join_once`, reader thread | Subscribe, Cancel, Wait, destructor; the reader reads, delivers, re-subscribes | transport, broker, on_event, on_error |
| Stream handles (`internal/stream_handle_impl.h`, `client_events_store.cc`, `client_queues_stream.cc`) | `done`, `write_mu`, `callback_mu`, `join_once`, reader thread | Send, Close, Wait, setters, destructor | broker, on_result, on_error |
| Queue consumer (`internal/queue_stream_impl.h`, `client_queues_stream.cc`) | `closed`, `stream_mu`, the stream; responses and messages that hold it weakly | Poll, Ack/Nack/ReQueue of one message or of a response, Close, destructor | broker |
| Commands and queries (`client_commands.cc`, `client_queries.cc`) | per call: request, deadline; per subscription: stream, kept Subscribe message | SendCommand, SendQuery, Subscribe, the reader, SendResponse | broker, handlers of other clients |
| Channel management (`client_channels.cc`, `client_convenience.cc`) | none | create, delete, list | broker, as a query on an internal channel |
| Queue operations (`client_queues.cc`) | none | send, batch, receive, peek, ack-all, upstream requests | broker |
| Events (`client_events.cc`, `client_events_store.cc`) | per subscription: kept Subscribe message with its start option | publish, stream, subscribe, re-subscribe | broker, which stores and replays |
| Builders and converters (`event.cc` and the like, `validation.cc`, `internal/transport/converter.cc`) | fields of the builder | setters, Build; to and from protobuf | - |
| Options and TLS (`client_options.cc`, `tls_config.cc`, `internal/transport/tls.cc`) | the options; certificate files | setters, Validate, BuildChannelCredentials, Create | file system |
| ReconnectLoop, MessageBuffer, RetryUnary | thread and flags; ring; none | Start/Stop, Push/Drain/Discard, retry | used by their unit tests only |
| Burn-in engine (`src/burnin/engine`) | `state_`, `stop_requested_`, run thread, workers, counters, report | StartRun, StopRun, RunLoop, getters, destructor | workers, HTTP threads, main |
| Burn-in workers (`src/burnin/worker`) | `running_`, two threads, two clients | Start, Stop, the loops | client library, counters |
| Burn-in server, configuration, metrics (`server`, `config`, `engine/metrics.cc`) | configuration, counters of each pattern | the HTTP requests, parsing and defaults, Reset and Snapshot | engine |

What is hard here: user threads, reader threads and callbacks meet on flags,
mutexes and once flags, and each pair of accesses may be split by another
thread. A stream may break between any two of them. Callbacks run on the
library's own threads, some while it holds a mutex, and may call back or throw.
Destructors have to stop and join threads that are blocked in an RPC. Queue
messages can be handed out again while a settlement is on its way. A response
may be lost after the broker acted, a handler may answer late or twice, a
subscription that comes back asks for its start position again. Builders,
options, configurations and counters outlive one use and carry something into
the next. `PROJECT.json`
lists these hazards, each at its line, with the properties that watch it.

## 2. The modules

| Module | What it is |
|---|---|
| `Subscription` | the handle and its reader thread, step by step |
| `SubscriptionLifecycle` | what a subscription promises: an abstract specification |
| `StreamHandle` | a streaming publisher and its reader thread |
| `StateMachine` | the connection states, the legal transitions, which callbacks a transition calls |
| `Connection` | Create, State, admission of operations, Close and the destructor, over `StateMachine` |
| `ClientContract` | what a Client promises to threads that share it: an abstract specification |
| `QueueDownstream` | the queue consumer with a broker that holds messages in transactions |
| `BurninEngine` | the engine of the burn-in application, its workers and main |
| `Messages` | the types of messages: builders, validation, conversions to and from protobuf, error codes |
| `Builders` | one builder object used for several messages, over `Messages` |
| `MessageBuffer`, `DropOldestQueue` | the ring buffer, and the abstract queue it implements |
| `ReconnectLoop` | Start, Stop, the destructor and the thread of the class |
| `Retry` | RetryUnary |
| `ClientOptions` | an options object, TLS files and the clients made from it |
| `BuildingBlocks` | the five above side by side, one of them exercised in each behaviour |
| `Requests` | commands, queries and channel management, over `Messages` and a broker |
| `SimpleQueue` | queue operations without transactions, over `Messages` and a broker |
| `EventLog` | events and stored events, over `Messages` and a broker that keeps a log |
| `BurninWorkers` | one worker of any class, its threads and counters |
| `BurninService` | configurations, requests, counters and reports over several runs |
| `*Proofs` | the theorems about the module of that name. `BuildingBlocksProofs` has those about its five parts; `ConnectionProofs` has those about `EventLog` too, `QueueDownstreamProofs` those about `SimpleQueue`, and `BurninWorkersProofs` those about `BurninService`. Each of these extends both of its modules, so in the second one `Init`, `Next`, `Spec` and the invariant have names of their own (`LogInit`, `QueueSpec`, `ServiceIInv`); the two specifications are not joined |
| `MC*` | the module TLC runs; the `.cfg` files give the constants. `MCQueues` has `QueueDownstream` and `SimpleQueue`, `MCBurninRuns` has `BurninWorkers` and `BurninService`: as in `BuildingBlocks`, a behaviour exercises one of the two, and the other stays in its initial state |

Definitions called `...NoJoin`, `...Unlocks` and so on, marked "Variant" in their
comment, are faulty forms of the definition below them. No specification uses
them; putting one in place of the real definition makes TLC report the property
`PROJECT.json` pairs it with, which shows that the property depends on that code.

### Subscription

State: `done`, `ctx` and `once` are the members of `Subscription::Impl`; `rpc` is
where the reader thread is (`outer`, `read`, `callback`, `finish`, `retry`,
`sleep`, `subscribe`, `publish`, `exit`); `call[t]` is where thread `t` is inside
Cancel, Wait or the destructor; `seen[t]` is the context a Cancel has loaded. A
stream and its `ClientContext` are one number. One action is one access to shared
state: `Cancel` stores `done`, `LoadCtx` reads the pointer, `TryCancel` uses it;
`ResubscribeOk` opens a stream and `PublishCtx` replaces the pointer. `on_event`
may call Cancel or Wait on its own subscription or throw.

The order of these accesses is the one C++ gives, not a sequentially consistent
one. Cancel stores `done` with release and then loads the plain `ctx`
(`subscription_impl.h:34-35`); the reader stores `ctx` and then loads `done` with
acquire (`client_events.cc:269` and `:226`). Nothing orders a store before the
later load of the other variable, so both sides may miss the other's store.
`StoreDone` therefore may leave the store in `unflushed`, where the reader does
not see it until `FlushDone`, and `LoadCtx` may read the pointer the reader has
just replaced. `overtaken` records that the reader has taken up a stream in just
that race.

Properties: a Cancel that has come back has cancelled the stream the reader is
blocked on, whatever re-subscription raced with it, and that one race is the
only way to escape it (`CancelReachesReader`); Impl is freed only after the
reader ended (`FreedAfterReader`); the thread is joined once (`JoinedOnce`); the
whole implements `SubscriptionLifecycle` (`ImplementsLifecycle`, with the phase
read off `handle` and `rpc`). Under fairness Cancel ends the reader, but for the
same race (`CancelEndsReader`). That Cancel always does, as `subscription.h`
says, is `CancelTearsDown`, which the run `subscription_cancel` refutes: the
reader stays in Read on a stream nobody cancels until the stream ends by itself,
and the destructor waits for it. Proved besides: the reader ends only when
cancelled (`EndsOnlyWhenCancelled`).

### StreamHandle

`writeMu` and `callbackMu` hold the thread that has the mutex; `sent`, `acked`
and `delivered` count messages written, answered and handed to `on_result`;
`late` remembers that some Close has returned. `on_result` may send, close and
set callbacks from inside the library. The broker answers in order, ends a
half-closed stream when all is answered (`graceful`), may end it before
(`early`), or fail it (`error`).

Properties: one Write at a time and none after WritesDone (`WriteDiscipline`);
a Close the broker answered has delivered every result once the reader is joined
(`CloseFlushes`; a second Close that finds `done` set returns without joining and
may be back before that); Close returns (`CloseReturns`). Destroying a handle
whose reader was not joined ends the process (`terminated`): `closer` is the
thread that set `done` first, and only a stream that the reader found ended can
lead there, never one that an application thread or the destructor closed,
whoever else closes or waits (`TerminatesOnlyIfReaderFirst`). That it happens at
all is against `stream_handle.h`; `stream_handle_destroy` refutes
`DestructorCleansUp`. Proved besides: no message is accepted after any Close has
returned (`NoSendAfterClose`).

### Connection and StateMachine

Close is a `call_once` around a flag, around a second `call_once` in the
transport with a flag of its own, a mutex, a transition and the application's
`on_closed`, which runs under the mutex and may query the client, close it again
or throw. `pc[t]` walks through these steps; both once flags are one variable,
because the outer body is the only caller of the inner one. `Ping` stands for
every operation: all test the client's flag and then the transport's before they
use the stub. `late` and `answer` record what calls were told.

Properties: a client that failed to be created, or was destroyed, leaves nothing
open (`NoOrphan`); State, admission and Close look atomic
(`ImplementsContract`: a pending call may be told what held at its start or what
holds now, and never Ready after a call that began later than Closed was seen);
every call returns unless `on_closed` closes the client itself (`CallsReturn`).
Proved besides: once any Close has returned, the client is closed everywhere and
`on_closed` has run exactly once, also if an earlier `on_closed` threw
(`ClosedAnnounced`).

### QueueDownstream

`mu` is `stream_mu`; `gets`, `down` and `requests` are what is on the stream;
`responses` are the PollResponses the application holds. The broker is external
(it is not in the repository): it answers each Get once and in order, gives a
message to one transaction at a time, lets transactions expire, and applies
settlements to what the transaction still holds. A transaction has the number of
its Get.

Properties: a Poll returns the answer to its own Get with the auto-ack flag the
broker acted on (`OwnAnswer`); without auto-ack a message leaves the queue only
after Poll handed it over in that transaction (`SettledWereDelivered`: a response
lost with its stream is not consumed); every call returns, also while another
thread holds `stream_mu` in a blocking Read (`CallsReturn`).

### BurninEngine

`state`, `stopRequested`, `runId`, `hasReport` are members of `Engine`; `run` is
where the run thread is; `phase[w]` and `thread[w, loop]` are a worker and its
two threads; `pc[h]` is where an HTTP thread is in StartRun or StopRun; `app` is
how far main is in shutting down. All counters are one number, `counts`. Starting
a thread may throw, which leaves workers running behind a run in state `error`.
A queue_stream worker (`Streaming`) hands its upstream to a detached thread when
it is stopped (`burnin/worker/queue_stream.cc:49`). `upstreams` are those that
still exist, each with the run it was made for; their callbacks go on counting,
after the report and into the next run, and `late` counts what they add.

Properties: a report that can be fetched belongs to the run shown, no worker
thread is left, and its numbers are those of the counters but for what detached
upstreams added (`ReportFinal`); no worker thread, and no upstream a worker still
holds, counts into the counters of another run (`CountsOwnRun`); a stop accepted while the engine shows `running` stays
in force until the run has stopped, whoever starts or stops next
(`StopNotLost`); main ends after a signal (`ShutdownCompletes`). Proved besides:
a run is prepared only when the last one is over (`OneRun`); only detached
upstreams, and the workers of a failed run, are left when the counters are freed
(`OnlyDetachedLeft`).

### Messages and BuildingBlocks

A text is empty, plain, or one of the shapes validation tells apart (with a
space, a trailing dot, a wildcard); a number is a small integer. What a `Build`
leaves in its builder is part of the model: it moves the texts out and keeps the
rest. Conversions are functions on records named after the protobuf messages.

Properties: no text of a message comes from before the last Build, and a refused
Build loses none (`NothingCarriedOver`); every field of what Build accepts is
read by the other side (`RoundTrip`). `NameAt` gives the name a field has there
(the request id of a reply is the command or query id of the response) and
`NotTold` the fields that do not travel or are compared elsewhere: the client id
of an event, body and metadata of the reply to a command (the repository's
README: "Commands carry no response body"), and the durations of requests, which
`Requests` compares. The buffer is a queue that drops its oldest message,
and what Push and Discard return accounts for every message that is lost
(`ImplementsQueue`). Of the loop: after Stop connect_fn is not running and is not
called, and attempts are bounded (`AttemptsAsAsked`); Stop and Start return
(`ControlReturns`). Of RetryUnary (`RetryPolicyKept`): nothing that may have
happened is repeated unless it is idempotent, and retries are used up before a
retryable failure is returned. Of the options (`CreatedAsAsked`): a client
connects to the last address given or to none, TLS that was asked for is never
dropped when a file is missing or changes, and clients made from one object have
different generated ids.

Assumed: one thread uses a builder, an options object, and the Start and Stop of
a loop; the sender given to Drain does not throw.

### Requests, SimpleQueue, EventLog

A unary call is a step that sends it (closed, validation, token, deadline), steps
of the broker, and a step in which the caller gets the response, or an error, at
any time, also after the broker acted. The broker is external and chosen as
permissive as the code's use of it: it refuses, delivers to any matching
subscription, caches, lists, and answers with malformed lists.

Requests: a handler answers done, not done or with an error, with any body. A
caller is told what a handler said to that very call: the error, the executed
flag and the body of a query (`AnswerIsHandlers`); handlers see only requests
that passed the checks of the sender (`HandlersSeeValidRequests`); the deadline
of the RPC is never longer than the duration asked for, and is that duration
whenever it fits the 32 bits of the wire (`DeadlineIsAsked`: a longer one wraps
and the caller gives up early, after ten milliseconds if what is left is not
positive); a channel operation that succeeds was executed with the caller's
arguments (`ManagementTookEffect`). That a call ends is left to gRPC, which
enforces the deadline; a credential provider that blocks is before it and is not
bounded by anything in the code.

SimpleQueue: what callers are told is true (`ResultsAreTrue`: a send that
succeeds has stored its message on its channel with its policy, a message of a
batch or an upstream request without an error is stored, and what is received is
what was stored); every message is in exactly one place, and a consumed one whose
response was lost belongs to a call that failed (`Accounted`); the RPC outlives
the wait (`DeadlineOutlivesWait`). The broker numbers what it stores; `queue` is
the set of the numbers not yet consumed, and the lowest ones leave first.

EventLog: a subscription is handed the log (`ReplayIsExact`: in order and intact
on each stream, nothing from before its start, and over reconnections without
gaps when it replays from the first event or from a sequence), all of it in the
end (`ReplayIsComplete`); a result that says sent is about a stored event
(`ConfirmedIsStored`; it says nothing of a result with sent unset and no error,
which the unary publish reports as success).

`Int32Half` is 2^31: an int32 wraps beyond it, and the instances use a smaller
one. The broker's reply channels have names, and the
application sends nothing of its own to the internal channel that channel
management uses. The application holds messages made by Build or
default-constructed. The client that answers is not the one that `closed`
belongs to. Re-subscription is one step here; its steps are in `Subscription`.

### BurninWorkers and BurninService

`BurninWorkers` has one worker of any of the six classes: a sending and a
receiving thread, Stop between the start and the return of their calls, the
upstream of a queue stream with its detached clean-up, and the broker. Closing
the receiver of a queue stream waits for the Poll under way (`polling`,
`CloseReceiver`), whose messages are counted and acknowledged after all; an
AckAll that is lost leaves them to be delivered again. The broker may refuse an
event without saying why (`unsaid`): SendEvent returns OK for it and the worker
counts it. So the counters never claim more than the broker accepted, for events
more than it did not object to, and every request is in one of its three counters
(`CountersAreTrue`); after Stop nothing counts but the detached
upstream (`QuietAfterStop`).

`BurninService` has what an HTTP client sees: bodies in both formats, merged with
defaults; workers for each channel of a pattern; counters that live as long as
the engine; the report. `flushing` says that upstreams of stopped queue_stream
workers are still there; `late` are the counters they increased, before and after
the report. `GET /run`, `GET /run/status` and the report agree, but for such late
counts, and the configuration that is shown asks for the same run when posted
again (`ViewsAreTrue`); a report is of its own run and counts its workers, and
only what an earlier run's upstream added can get into it (`ReportIsOfThisRun`).
A request is one step; its critical sections are in
`BurninEngine`. Of the thirteen counters two are told apart, the one that makes
the verdict and the others. `Total` adds up the six patterns the engine knows:
only these ever have counters.

## 3. The runs

| Run | Instance | Result |
|---|---|---|
| `subscription` | 2 threads, 2 streams, on_event may Cancel and Wait | all properties hold |
| `subscription_cancel` | 1 thread, 2 streams | violated: a Cancel and a re-subscription miss each other and the reader stays |
| `stream_handle` | 2 threads, 2 messages, on_result may call everything | all hold |
| `stream_handle_destroy` | the same | violated: a handle whose stream ended first ends the process when destroyed |
| `connection` | 3 threads, on_closed may query, close, throw | all hold |
| `queues` | the consumer: 2 threads, 2 messages, 2 polls, 1 settlement at a time; the simple operations: 2 callers, 3 operations, 2 messages, a batch of up to 2 | all hold |
| `burnin_engine` | 2 HTTP threads, 1 queue_stream worker with 2 threads and its upstream, 2 runs, 2 counts | all hold |
| `building_blocks` | 7 builder classes; a ring of 3 slots and 7 pushes; 3 Starts, 2 attempts or no limit; up to 2 retries; 2 clients from one options object, 5 addresses, every TLS factory, one file | all hold |
| `requests` | 2 senders (symmetric), a subscription of each kind, 2 calls, 2 answers of 5 kinds, a timeout that is missing, fits or wraps | all hold |
| `requests_durations` | as `requests` | violated: a timeout sent in milliseconds is read as seconds by the handler |
| `burnin_runs` | a worker of each class, 3 messages, 2 errors; the service: 2 runs, 8 bodies, 2 counts | all hold |
| `event_log` | 1 subscription of either kind, 2 events, 2 broken streams, every start option | all hold |

The violated properties say what the headers say of the field, of Cancel and of
the destructor; `findings` in `PROJECT.json` quotes the lines.

Bounds. Two user threads beside the library's own thread are enough for every
race here: a lock holder, a waiter and the thread they both depend on; the
Connection run has three because one may be inside `on_closed`, one waiting for
the once flag and one asking for the state. Two streams let a re-subscription
happen between the steps of a Cancel; two messages or polls let an answer be
mistaken for another's; two runs let something of one run leak into the next.
A ring of three slots wraps twice in seven pushes. Two broken streams let a
replay be interrupted again. Two calls with one id, or one of each kind, let an
answer go astray. The back-off cap is 2 instead of 30 seconds, enough to reach
the cap. Two answers let one call be answered twice, or each of the two.
`MaxErrors` of the workers bounds redeliveries too. Channel
names with a wildcard are left to the theorem about `HandlersSeeValidRequests`. A bound
that limits calls also counts the calls under way, so it never cuts a call in
half. The theorems of section 4 do not depend on any of these values.

Deadlock checking is off in all runs: in each a state in which everything is
destroyed, or in which the application calls nothing any more, is a proper end.
That calls do not hang is stated by the liveness properties instead.

Fairness. Every thread that can go on does so in the end, and gets a mutex or a
once flag that keeps becoming free (strong fairness where a lock is taken). A
`sleep_for` ends, a callback returns, an RPC ends at its deadline, and a broker
that has seen a half-close answers what it got and ends the stream; a Get is
answered within its wait timeout. A cancelled or broken stream runs out of
buffered messages. In `EventLog` a broker delivers what it has to an open
stream, and streams break a bounded number of times. Otherwise nothing is assumed
to make a message arrive, a stream break, or an application call. `Requests`, `SimpleQueue`,
`BurninWorkers` and `BurninService` state no fairness: their properties are about
safety.

The liveness properties except what cannot end by itself: a callback that waits
for the thread it runs on (`WaitsOnItself`), and an `on_closed` that closes its
own client (`Stuck`).

## 4. The proofs

Assumptions are the `ASSUME`s of the modules: bounds are natural numbers, the
names of the library's own threads are not those of user threads, the sets of
callbacks are the ones the code has, names that stand for something are not
empty; TLC evaluates them on the runs. `ServiceConstants`, the one of
`BurninService`, says of start bodies only that in one without a value of a wrong
type the numbers of channels are numbers. Each proof module shows `Init => IInv`, then that every action preserves
every conjunct of `IInv` (a lemma for each conjunct with a step for each action,
or a lemma for each action), and concludes `Spec => []IInv` and from it the
properties. TLC also finds each `IInv` (in `BuildingBlocks`, the invariant of
each part) to hold on the instances of section 3.

| Module | Theorems | Why the invariant is needed |
|---|---|---|
| `SubscriptionProofs` | `Inductive`, `TypeCorrect`, `CancelReaches`, `SafeRelease`, `SingleJoin`, `Recovery`, `Refinement` | that a finished TryCancel has hit the right stream depends on four accesses that may be reordered: `done` is stored and `ctx` loaded, `ctx` is stored and `done` loaded. `CancelInv` says that as long as the reader reads, every Cancel past its load has loaded the current context, unless both sides missed the other's store (`overtaken`), and that a store still on its way belongs to a thread inside Cancel |
| `StreamHandleProofs` | `Inductive`, `TypeCorrect`, `WritesInOrder`, `ClosedIsClosed`, `Flushed`, `TerminatesOnly` | the reader sets `done` without `write_mu`, so the mutex alone orders nothing: `WriteInv` ties the holder of the mutex to the thread in Write, `FlushInv` orders the three counters |
| `ConnectionProofs` | `Inductive`, `TypeCorrect`, `CloseAnnounces`, `NothingLeft`, `Refinement` | `FlagInv` and `CloseInv` say how far Close is from which flags are set, also after an exception; `LateInv` that a call begun after closing never passes the first flag, which is what makes the answers atomic |
| `QueueDownstreamProofs` | `Inductive`, `TypeCorrect`, `AnswersMatch`, `NothingLost` | `StreamInv`: at most one Get or one response is on the stream and it belongs to the holder of `stream_mu`; `SettleInv`: every settlement names a response that was delivered, and what a transaction holds is what its response contains |
| `BurninEngineProofs` | `Inductive`, `TypeCorrect`, `ReportIsFinal`, `OwnCounts`, `SingleRun`, `OnlyDetachedUseFreed`, `StopKept` | `StopInv` keeps the flag of an accepted stop until the run thread has read it; `StateInv` ties the engine state to the request and the run thread, `WorkerInv` says where workers may exist, in particular after a failed run, and which upstreams are still held by one |
| `BuildingBlocksProofs`: loop | `LoopInvariant`, `AttemptsAsAskedAlways` | `ThreadInv` says which flags go with which place of the thread, so that a Stop that has returned leaves none in connect_fn; `CounterInv` that the attempts made are the ones counted, up to the cap of the counter |
| retry | `RetryInvariant`, `RetryPolicyKeptAlways` | `PendingInv`: as long as nothing is returned, all that was tried so far could be retried and the retries are not used up |
| ring | `BufferInvariant`, `ImplementsQueueAlways` | `BufferInv`: the slots from head on, taken modulo the capacity, are the messages held, `count` of them, and tail is the slot that follows. The refinement mapping is built from it, and a Push into a full ring moves head and tail together |
| options | `OptionsInvariant`, `CreatedAsAskedAlways` | `AskedInv`: the options hold the last address given or a port Validate refuses; `TlsInv`: a text and a path for the same file are never both set, so that the order in which the code looks at them does not matter; `NamesInv`: an id that was generated is numbered by the client it was made for |
| builders | `BuilderInvariant`, `NothingCarriedOverAlways`, `RoundTripAlways` | `GivenInv`: the texts in a builder are the ones given since the last message, the id excepted. `RoundTrip` rests on one lemma for each class, over any texts and numbers and every field that travels |
| `RequestsProofs` | `RequestInvariant`, `AnswerIsHandlersAlways`, `HandlersSeeValidRequestsAlways`, `ManagementTookEffectAlways`, `DeadlineIsAskedAlways` | `CallInv`: two calls under way never share a reply channel, and the request of each passed the checks of its kind; `AnswerInv`: an answer that waits for its caller is one some handler gave to that reply channel, or was taken from the cache, or was made by the broker when it executed the operation. `CacheInv` and `ReaderInv` say the same of what is cached and of what is on the streams |
| `BurninWorkersProofs` | `WorkerInvariant`, `CountersAreTrueAlways`, `QuietAfterStopAlways` | `MessageInv` adds what is on its way (a message in a call, a result on the stream) to what has been counted: the sum stays below what the broker accepted or, for events, let pass without a word, though counter and broker change in different steps. `RequestInv` does so for requests, `StopInv` says what Stop leaves behind |
| `ConnectionProofs`: `EventLog` | `LogInvariant`, `ReplayIsExactAlways`, `ConfirmedIsStoredAlways` | `StreamInv`: what the last stream handed over, what is on the wire and where the broker continues are one stretch of the log, from a beginning that the start option allows. The beginning survives the growth of the log and, with `TimeInv` (the log is in the order of time), also for a start time. That nothing is missed over reconnections follows, since each stream of such a subscription begins at the same position. `AnswerInv`: the answer a publisher waits for is about its own event, which is in the log if it says so |
| `QueueDownstreamProofs`: `SimpleQueue` | `QueueInvariant`, `ResultsAreTrueAlways`, `AccountedAlways`, `DeadlineOutlivesWaitAlways` | `SendInv` and `ReceiveInv` follow a call from what its caller gave to the request, the answer and the result; `StoredInv` (what is stored passed the checks of a sender, so that rebuilding it on receipt loses nothing) needs `UpstreamInv`, since the upstream checks nothing: a message with a channel was made by Build. `CarriedInv`: no message is on its way to two callers, though a message leaves the queue in one step and is received or lost in another |
| `BurninWorkersProofs`: `BurninService` | `ServiceInvariant`, `ReportIsOfThisRunAlways`, `ViewsAreTrueAlways` | `CountInv`: the counters tell what was counted since their reset and every worker has one, workers left by a failed run included; `RunInv`: in a run only patterns to which the configuration gives workers have counted; `ReportInv`: once there is a report, nobody but a detached upstream counts, and only for its own pattern. That a configuration can be posted again rests on `config = to_json(config)`: it has the seven settings and no other |

The theorems hold for every value of the constants, so type correctness and the
properties said above to be "proved besides" are not repeated in the runs. The
three refinements (both `Refinement` theorems and `ImplementsQueueAlways`) show
that initial states map to initial states and every step to a step of the
abstract specification or to none.

One theorem has a hypothesis beyond the assumptions: `DeadlineOutlivesWaitAlways`
is about waits that with five seconds more are below 2^31 seconds (`WaitsFit`).
The code does not check it, and a longer one gives a deadline that has wrapped.

Model-checked only are the liveness properties (`CancelEndsReader`,
`CloseReturns`, the `CallsReturn` of two modules, `ControlReturns`,
`ShutdownCompletes`, `ReplayIsComplete`): they need fairness and ENABLED, which
this prover does not handle. `DurationsTravel`, `CancelTearsDown` and
`DestructorCleansUp`, which the code violates, are refuted by their runs. The proofs use no induction over data: `Store`, `Take` and
`Total` say what they select, number and add up by sets and by the six names
instead of recursion, and the first event after a start time is found as a
smallest number.

## 5. Where code and documents part

`requests_durations`, `subscription_cancel` and `stream_handle_destroy` show three
disagreements. The others came up while modelling; each is a sequence of steps of the models, told here because the properties that
hold have to leave it out.

- `Cancel` loads `ctx` while the reader replaces it (`subscription_impl.h:35`):
  the context it then cancels may just have been freed.
- The code that reports a stream that cannot be re-opened (`client_events.cc:283`)
  is never reached, since the loop before it ends only when `done` is set;
  `client.h:102` promises the report. `Client::Close` does not end subscriptions,
  because no context is ever tracked (`client.h:66` says it shuts down gracefully
  and releases resources).
- A timeout of 2^31 milliseconds or more wraps in the cast to int32
  (`client_commands.cc:60`): the call ends earlier than asked, after ten
  milliseconds if the result is not positive.
- The detached upstream of a queue_stream worker counts after the report and into
  the next run, and uses counters that shutting down has freed
  (`burnin/worker/queue_stream.cc:49`).
- `on_connected` is set after the machine has become Ready and is never called
  (`grpc_transport.cc:80`).
- A message settled after its receiver was destroyed writes with a freed context
  (`queue_stream_impl.h:99`).
- A stop accepted in state `starting` is cleared by StartRun (`engine.cc:67`), so
  `StopNotLost` is about stops accepted in `running`. Two start requests at once
  may both pass (`engine.cc:60`).
- `ReconnectLoop::Stop` leaves the thread of a loop that ended by itself joinable
  (`reconnect.cc:32`); `MessageBuffer::Drain` removes the message its sender
  refused (`message_buffer.cc:38`). Neither class has a caller in the library.
- The default channel and the default timeout of the options are of no use to
  messages made by a builder, which refuses a message that lacks them.
- `set_insecure_skip_verify` is documented to skip verification and makes Create
  fail (`tls.cc:38`). `FromMTLS` with empty paths gives TLS without a client
  certificate.
- Of the burn-in application: the broker address of a run's configuration is not
  used; a body that does not parse starts a run with all defaults;
  `enabled_count` counts unknown patterns; `/metrics` looks for keys that
  GetRunStatus does not return; the answer 400 of `/run/start` is not reachable.

## 6. What is not modelled

- Texts, tags and metadata beyond what decides a check; tokens are the answer of
  a provider; keepalive and logging.
- Expiration, delay and dead letters of queue messages: the client only carries
  their numbers.
- The event stream and the queue upstream handle share the control flow of the
  event store stream handle, which `StreamHandle` has; the data they carry is in
  `EventLog` and `SimpleQueue`. The readers of the other three subscriptions
  share that of `SubscribeToEvents`.
- `WaitForState` and `WaitForStateFor`, the interceptor classes, and the four
  conversions of simple queue requests have no callers outside the unit tests.
- Use of a subscription after its Client is destroyed (the reader keeps a raw
  pointer to the transport), and destruction of a handle from its own callback.
- Two burn-in start requests at the same time; HTTP routes that only read.

## 7. Plan

Done: `Subscription` with its abstract specification, `StreamHandle`,
`StateMachine` with `Connection` and `ClientContract`, `QueueDownstream`,
`BurninEngine`, the building blocks, `Requests`, `SimpleQueue`, `EventLog`,
`BurninWorkers` and `BurninService`, each with its proofs.

Left, in the order of what it would show: a Cancel that uses the `ctx` the reader
has just freed; two burn-in start requests at once; abstract
specifications of the queue operations and of the event log, with the proved
invariants as their refinement mappings.
