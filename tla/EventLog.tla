------------------------------ MODULE EventLog ------------------------------
(***************************************************************************)
(* Events and stored events on one channel.  A publisher sends with a      *)
(* unary call or over a stream; subscriptions read from a stream of the    *)
(* broker that may break at any time, and subscribe again with the very    *)
(* Subscribe message they began with, start position included.             *)
(*                                                                         *)
(* The broker (external) numbers and keeps stored events, and serves a     *)
(* subscription from the position its start option means at that moment.   *)
(* Threads and handles are in Subscription and StreamHandle.               *)
(***************************************************************************)
EXTENDS Messages, SequencesExt, FiniteSets

CONSTANTS
  Readers,      \* subscriptions
  StoreReaders, \* the ones made by SubscribeToEventsStore
  Options,      \* start options they may use
  Bodies, Channels, \* arguments of a publisher and a subscriber
  MaxEvents,    \* bound on messages sent
  MaxBreaks,    \* bound on broken streams
  MaxTime,      \* bound on the broker's clock
  MaxSubscribed,\* bound on the subscriptions made; they share no state
  ClientId, DefaultChannel, AuthToken, ProviderAnswers

LogConstants ==
  /\ StoreReaders \subseteq Readers /\ Options \subseteq [type : 1..6, value : Int]
  /\ MaxEvents \in Nat /\ MaxBreaks \in Nat /\ MaxTime \in Nat /\ MaxSubscribed \in Nat
  /\ ProviderAnswers \subseteq ErrorCode

ASSUME EventLogAssumption == LogConstants

\* SubscriptionOption: the type on the wire and its value.
StartFromNewEvents == [type |-> 1, value |-> 0]
StartFromFirstEvent == [type |-> 2, value |-> 0]
StartFromLastEvent == [type |-> 3, value |-> 0]
StartFromSequence(sequence) == [type |-> 4, value |-> sequence]
StartFromTime(time) == [type |-> 5, value |-> time]
StartFromTimeDelta(delta) == [type |-> 6, value |-> delta]

NoOption == [type |-> 0, value |-> 0]

VARIABLES
  clientClosed, \* the client is closed
  clock,   \* the broker's time
  sent,    \* messages sent
  breaks,  \* streams broken
  log,     \* stored events, by sequence number
  call,    \* the unary call of the publisher
  result,  \* what its last call returned
  stream,  \* events written on the publisher's stream
  reports, \* results that on_result was given
  sub,     \* sub[r]: the subscription: its state and its Subscribe message
  next,    \* next[r]: where the broker continues on the stream of r
  wire,    \* wire[r]: events on that stream
  seen     \* seen[r]: what on_event was given, one sequence for each stream

logVars == <<clientClosed, clock, sent, breaks, log, call, result, stream, reports, sub, next, wire, seen>>
brokerVars == <<clock, breaks, log, next, wire>>
publisherVars == <<sent, call, result, stream, reports>>
readerVars == <<sub, seen>>

Idle == [op |-> "none", event |-> <<>>, at |-> "client", answer |-> <<>>]
NoResult == [op |-> "none", code |-> "kOk", value |-> <<>>]
Unsubscribed == [state |-> "none", option |-> NoOption]

LogInit ==
  /\ clientClosed = FALSE /\ clock = 0 /\ sent = 0 /\ breaks = 0
  /\ log = <<>>
  /\ call = Idle /\ result = NoResult
  /\ stream = <<>> /\ reports = {}
  /\ sub = [r \in Readers |-> Unsubscribed]
  /\ next = [r \in Readers |-> 0]
  /\ wire = [r \in Readers |-> <<>>]
  /\ seen = [r \in Readers |-> <<>>]

-----------------------------------------------------------------------------
(* Publishing. *)

Return(op, code, value) ==
  /\ result' = [op |-> op, code |-> code, value |-> value]
  /\ call' = Idle

Sendable(e) == /\ ValidateChannelNoWildcard(FirstNonEmpty(e.channel, DefaultChannel))
               /\ ValidateBody(e.body, e.metadata)

\* Both methods of the transport up to the call of the stub.
Unary(op, e, proto) ==
  \E answer \in ProviderAnswers :
    LET auth == InjectAuthToken(AuthToken, answer)
    IN  IF clientClosed THEN Return(op, "kFatal", <<>>)
        ELSE IF ~Sendable(e) THEN Return(op, "kValidation", <<>>)
        ELSE IF auth # "kOk" THEN Return(op, auth, <<>>)
        ELSE /\ call' = [op |-> op, at |-> "broker", answer |-> <<>>, event |->
                           [proto EXCEPT !.Channel = FirstNonEmpty(e.channel, DefaultChannel)]]
             /\ result' = NoResult

SendEvent(e) ==
  /\ call = Idle /\ sent < MaxEvents /\ sent' = sent + 1
  /\ Unary("event", e, EventToProto(e, ClientId))
  /\ UNCHANGED <<clientClosed, brokerVars, readerVars, stream, reports>>

SendEventStore(e) ==
  /\ call = Idle /\ sent < MaxEvents /\ sent' = sent + 1
  /\ Unary("store", e, EventStoreToProto(e, ClientId))
  /\ UNCHANGED <<clientClosed, brokerVars, readerVars, stream, reports>>

\* A builder first, then the same.
PublishEvent(channel, body) ==
  LET built == EventBuild([NewEvent EXCEPT !.channel = channel, !.body = body], "uuid")
  IN  IF built.status = "kOk" THEN SendEvent(built.message)
      ELSE /\ call = Idle /\ Return("event", built.status, <<>>)
           /\ UNCHANGED <<clientClosed, brokerVars, readerVars, sent, stream, reports>>

PublishEventStore(channel, body) ==
  LET built == EventStoreBuild([NewEventStore EXCEPT !.channel = channel, !.body = body], "uuid")
  IN  IF built.status = "kOk" THEN SendEventStore(built.message)
      ELSE /\ call = Idle /\ Return("store", built.status, <<>>)
           /\ UNCHANGED <<clientClosed, brokerVars, readerVars, sent, stream, reports>>

\* Variant: the error the broker reports is passed on as a result.
SendEventStoreResultUnchecked(r) ==
  [code |-> "kOk", value |-> [EventStoreResultFromProto(r) EXCEPT !.sent = TRUE]]

\* The error of the broker ends the call; otherwise its result is returned.
SendEventStoreResult(r) ==
  IF r.Error # NoText THEN [code |-> "kFatal", value |-> <<>>]
  ELSE [code |-> "kOk", value |-> EventStoreResultFromProto(r)]

ReceiveResult ==
  LET r == SendEventStoreResult(call.answer)
  IN  /\ call.at = "answered"
      /\ Return(call.op, r.code, IF call.op = "store" THEN r.value ELSE <<>>)
      /\ UNCHANGED <<clientClosed, brokerVars, readerVars, sent, stream, reports>>

Fail(grpcCode) ==
  /\ call # Idle /\ Return("failed", MapGrpcCode(grpcCode), <<>>)
  /\ UNCHANGED <<clientClosed, brokerVars, readerVars, sent, stream, reports>>

\* A stream takes any message: neither checks nor the default channel.
EventStreamSend(e) ==
  /\ sent < MaxEvents /\ sent' = sent + 1
  /\ stream' = Append(stream, EventToProto(e, ClientId))
  /\ UNCHANGED <<clientClosed, brokerVars, readerVars, call, result, reports>>

EventStoreStreamSend(e) ==
  /\ sent < MaxEvents /\ sent' = sent + 1
  /\ stream' = Append(stream, EventStoreToProto(e, ClientId))
  /\ UNCHANGED <<clientClosed, brokerVars, readerVars, call, result, reports>>

\* Streams that are open stay open; no new one can be opened.
CloseClient == ~clientClosed /\ clientClosed' = TRUE /\ UNCHANGED <<brokerVars, publisherVars, readerVars>>

-----------------------------------------------------------------------------
(* Where the broker starts for an option, at the time it is asked. *)

FirstSince(time) ==
  LET late == {i \in DOMAIN log : log[i].at >= time}
  IN  IF late = {} THEN Len(log) + 1 ELSE CHOOSE i \in late : \A j \in late : i <= j

StartPosition(option) ==
  CASE option.type = 2 -> 1
    [] option.type = 3 -> IF log = <<>> THEN 1 ELSE Len(log)
    [] option.type = 4 -> IF option.value < 1 THEN 1 ELSE option.value
    [] option.type = 5 -> FirstSince(option.value)
    [] option.type = 6 -> FirstSince(clock - option.value)
    [] OTHER -> Len(log) + 1

-----------------------------------------------------------------------------
(* Subscriptions. *)

\* A new stream: the broker starts at the option's position.
Open(r, option) ==
  /\ sub' = [sub EXCEPT ![r] = [state |-> "open", option |-> option]]
  /\ next' = [next EXCEPT ![r] = StartPosition(option)]
  /\ seen' = [seen EXCEPT ![r] = Append(@, <<>>)]
  /\ UNCHANGED <<clientClosed, clock, breaks, log, wire, publisherVars>>

Accepted(channel) ==
  /\ ~clientClosed /\ ValidateChannel(FirstNonEmpty(channel, DefaultChannel))
  /\ Cardinality({r \in Readers : sub[r] # Unsubscribed}) < MaxSubscribed

SubscribeToEvents(r, channel) ==
  /\ r \notin StoreReaders /\ sub[r] = Unsubscribed /\ Accepted(channel)
  /\ Open(r, NoOption)

\* A start time is one that has passed: what the broker does with a later one
\* the code does not tell.
SubscribeToEventsStore(r, channel, option) ==
  /\ r \in StoreReaders /\ sub[r] = Unsubscribed /\ Accepted(channel)
  /\ option.type = 5 => option.value <= clock
  /\ Open(r, option)

\* One round of the inner loop.  An exception of on_event is contained.
Read(r) ==
  LET event == IF r \in StoreReaders THEN EventStoreReceiveFromProto(Head(wire[r]))
               ELSE EventReceiveFromProto(Head(wire[r]))
  IN  /\ sub[r].state = "open" /\ wire[r] # <<>>
      /\ seen' = [seen EXCEPT ![r][Len(seen[r])] = Append(@, event)]
      /\ wire' = [wire EXCEPT ![r] = Tail(@)]
      /\ UNCHANGED <<clientClosed, clock, breaks, log, next, publisherVars, sub>>

\* Read fails; what was on the stream is lost.
StreamBreaks(r) ==
  /\ sub[r].state = "open" /\ breaks < MaxBreaks
  /\ breaks' = breaks + 1
  /\ sub' = [sub EXCEPT ![r].state = "broken"]
  /\ wire' = [wire EXCEPT ![r] = <<>>]
  /\ UNCHANGED <<clientClosed, clock, log, next, publisherVars, seen>>

\* Variant: a new stream starts with the first event.
ResubscribeFirst(r) ==
  /\ sub[r].state = "broken" /\ ~clientClosed
  /\ sub' = [sub EXCEPT ![r].state = "open"]
  /\ next' = [next EXCEPT ![r] = 1]
  /\ seen' = [seen EXCEPT ![r] = Append(@, <<>>)]
  /\ UNCHANGED <<clientClosed, clock, breaks, log, wire, publisherVars>>

\* Variant: an attempt that fails ends the loop.
ResubscribeNever(r) == sub[r].state = "broken" /\ breaks > MaxBreaks /\ Open(r, sub[r].option)

\* After a back-off, an attempt with the Subscribe message that was kept.  One
\* that fails (the token provider) leaves everything as it is.
Resubscribe(r) == sub[r].state = "broken" /\ ~clientClosed /\ Open(r, sub[r].option)

Cancel(r) ==
  /\ sub[r].state \in {"open", "broken"}
  /\ sub' = [sub EXCEPT ![r].state = "done"]
  /\ wire' = [wire EXCEPT ![r] = <<>>]
  /\ UNCHANGED <<clientClosed, clock, breaks, log, next, publisherVars, seen>>

-----------------------------------------------------------------------------
(* The broker. *)

Tick == /\ clock < MaxTime /\ clock' = clock + 1
        /\ UNCHANGED <<clientClosed, breaks, log, next, wire, publisherVars, readerVars>>

\* A stored event joins the log; an event goes to whoever listens now.
Publish(e) ==
  IF e.Store
  THEN /\ log' = Append(log, [EventID |-> e.EventID, Channel |-> e.Channel, Body |-> e.Body,
                              Metadata |-> e.Metadata, Tags |-> e.Tags, at |-> clock])
       /\ UNCHANGED wire
  ELSE /\ wire' = [r \in Readers |->
                     IF r \notin StoreReaders /\ sub[r].state = "open"
                     THEN Append(wire[r], [EventID |-> e.EventID, Channel |-> e.Channel,
                                           Body |-> e.Body, Metadata |-> e.Metadata,
                                           Tags |-> e.Tags, Timestamp |-> clock, Sequence |-> 0])
                     ELSE wire[r]]
       /\ UNCHANGED log

\* One outcome of an event sent: published, refused, or dropped with sent = FALSE.
Outcomes(e) ==
  [EventID : {e.EventID}, Sent : {TRUE}, Error : {NoText}] \cup
  [EventID : {e.EventID}, Sent : {FALSE}, Error : {NoText, "refused"}]

Answer ==
  /\ call.at = "broker"
  /\ \E o \in Outcomes(call.event) :
       /\ call' = [call EXCEPT !.at = "answered", !.answer = o]
       /\ IF o.Sent THEN Publish(call.event) ELSE UNCHANGED <<log, wire>>
  /\ UNCHANGED <<clientClosed, clock, sent, breaks, result, stream, reports, next, readerVars>>

\* The same on the stream, whose results on_result hears of for stored events.
StreamAnswer ==
  /\ stream # <<>> /\ stream' = Tail(stream)
  /\ \E o \in Outcomes(Head(stream)) :
       /\ Head(stream).Channel = NoText => ~o.Sent
       /\ IF o.Sent THEN Publish(Head(stream)) ELSE UNCHANGED <<log, wire>>
       /\ reports' = IF Head(stream).Store THEN reports \cup {EventStoreResultFromProto(o)}
                     ELSE reports
  /\ UNCHANGED <<clientClosed, clock, sent, breaks, call, result, next, readerVars>>

Deliver(r) ==
  /\ r \in StoreReaders /\ sub[r].state = "open" /\ next[r] \in DOMAIN log
  /\ LET e == log[next[r]]
     IN  wire' = [wire EXCEPT ![r] = Append(@, [EventID |-> e.EventID, Channel |-> e.Channel,
                    Body |-> e.Body, Metadata |-> e.Metadata, Tags |-> e.Tags,
                    Timestamp |-> e.at, Sequence |-> next[r]])]
  /\ next' = [next EXCEPT ![r] = @ + 1]
  /\ UNCHANGED <<clientClosed, clock, breaks, log, publisherVars, readerVars>>

-----------------------------------------------------------------------------
\* What an application can hold: what Build made, or a default-constructed event.
Made(channel, body) ==
  EventBuild([NewEvent EXCEPT !.id = body, !.channel = channel, !.body = body], NoText)

Events ==
  {NewEvent} \cup
  {Made(a[1], a[2]).message : a \in {x \in Channels \X Bodies : Made(x[1], x[2]).status = "kOk"}}

Publisher ==
  \/ \E e \in Events : SendEvent(e) \/ SendEventStore(e) \/ EventStreamSend(e)
                         \/ EventStoreStreamSend(e)
  \/ \E channel \in Channels, body \in Bodies :
       PublishEvent(channel, body) \/ PublishEventStore(channel, body)
  \/ ReceiveResult \/ Fail("DEADLINE_EXCEEDED")

Subscriber(r) ==
  \/ \E channel \in Channels :
       \/ SubscribeToEvents(r, channel)
       \/ \E option \in Options : SubscribeToEventsStore(r, channel, option)
  \/ Read(r) \/ StreamBreaks(r) \/ Resubscribe(r) \/ Cancel(r) \/ Deliver(r)

LogNext == Publisher \/ (\E r \in Readers : Subscriber(r)) \/ Answer \/ StreamAnswer \/ Tick \/ CloseClient

LogSpec == LogInit /\ [][LogNext]_logVars

\* The broker serves open streams, reader threads read and try again, and
\* gRPC ends calls.
Fairness ==
  /\ \A r \in Readers : WF_logVars(Deliver(r)) /\ WF_logVars(Read(r)) /\ WF_logVars(Resubscribe(r))
  /\ WF_logVars(Fail("DEADLINE_EXCEEDED"))

LogFairSpec == LogSpec /\ Fairness

-----------------------------------------------------------------------------
\* The sequence numbers of one stream's events.
Numbers(events) == [i \in DOMAIN events |-> events[i].sequence]
Streams(r) == {Numbers(seen[r][k]) : k \in DOMAIN seen[r]}
Seen(r) == UNION {ToSet(numbers) : numbers \in Streams(r)}

(***************************************************************************)
(* Each stream of a subscription to stored events hands on_event the log   *)
(* in order without a gap, exactly as it was stored.                       *)
(***************************************************************************)
StreamsFollowTheLog ==
  \A r \in StoreReaders : \A k \in DOMAIN seen[r] : \A i \in DOMAIN seen[r][k] :
    LET e == seen[r][k][i]
    IN  /\ e.sequence \in DOMAIN log
        /\ e.id = log[e.sequence].EventID /\ e.body = log[e.sequence].Body
        /\ i > 1 => e.sequence = seen[r][k][i - 1].sequence + 1

(***************************************************************************)
(* A subscription that replays from the first event or from a sequence     *)
(* misses nothing over reconnections: whenever it has seen an event it has *)
(* seen every earlier one from its start on.  It may see events again.     *)
(* (Starting with new events, the last one or a time ago promises less:    *)
(* the kept message then means another position.)                          *)
(***************************************************************************)
ReplayHasNoGaps ==
  \A r \in StoreReaders :
    sub[r].option.type \in {2, 4} =>
      \A n \in Seen(r) : \A m \in 1..n : m >= sub[r].option.value => m \in Seen(r)

(***************************************************************************)
(* No subscription is handed an event from before the sequence or the time *)
(* it asked to start from, on the first stream or on a later one.          *)
(***************************************************************************)
NothingBeforeStart ==
  \A r \in StoreReaders : \A n \in Seen(r) :
    CASE sub[r].option.type = 4 -> n >= sub[r].option.value
      [] sub[r].option.type = 5 -> log[n].at >= sub[r].option.value
      [] OTHER -> TRUE

(***************************************************************************)
(* A subscription to stored events is handed the log: in order and intact  *)
(* on each stream, from where it asked to start, and with no gap over all  *)
(* of its streams.                                                         *)
(***************************************************************************)
ReplayIsExact == StreamsFollowTheLog /\ ReplayHasNoGaps /\ NothingBeforeStart

(***************************************************************************)
(* A stored event the publisher is told was sent is in the log, whether it *)
(* was told by SendEventStore or by on_result of a stream.                 *)
(***************************************************************************)
ConfirmedIsStored ==
  LET confirmed == (IF result.op = "store" /\ result.code = "kOk" THEN {result.value} ELSE {})
                     \cup reports
  IN  \A o \in confirmed : o.sent => \E n \in DOMAIN log : log[n].EventID = o.id

(***************************************************************************)
(* A subscription from the first event is handed every stored event in the *)
(* end, streams breaking a bounded number of times, unless it is cancelled *)
(* or the client is closed.                                                *)
(***************************************************************************)
ReplayIsComplete ==
  \A r \in StoreReaders : \A n \in 1..MaxEvents :
    (sub[r].option.type = 2 /\ n \in DOMAIN log) ~> (n \in Seen(r) \/ sub[r].state = "done" \/ clientClosed)

-----------------------------------------------------------------------------
(***************************************************************************)
(* Why ReplayIsExact and ConfirmedIsStored hold.                           *)
(***************************************************************************)
Texts == Bodies \cup Channels \cup {NoText, "uuid", DefaultChannel, ClientId}

HeldEvents == [id : Texts, channel : Texts, metadata : Texts, body : Texts, clientId : Texts,
               tags : Texts]

Protos == [EventID : Texts, ClientID : Texts, Channel : Texts, Metadata : Texts, Body : Texts,
           Store : BOOLEAN, Tags : Texts]

Stored == [EventID : Texts, Channel : Texts, Body : Texts, Metadata : Texts, Tags : Texts, at : Nat]

OnWire == [EventID : Texts, Channel : Texts, Body : Texts, Metadata : Texts, Tags : Texts,
           Timestamp : Nat, Sequence : Nat]

Received == [id : Texts, channel : Texts, metadata : Texts, body : Texts, timestamp : Nat,
             sequence : Nat, tags : Texts]

Answers == [EventID : Texts, Sent : BOOLEAN, Error : {NoText, "refused"}]

Results == [id : Texts, sent : BOOLEAN, error : {NoText, "refused"}]

Calls == [op : {"event", "store"}, event : Protos, at : {"broker"}, answer : {<<>>}]
           \cup [op : {"event", "store"}, event : Protos, at : {"answered"}, answer : Answers]

LogTypeOK ==
  /\ clientClosed \in BOOLEAN /\ clock \in Nat /\ sent \in Nat /\ breaks \in Nat
  /\ log \in Seq(Stored)
  /\ call \in Calls \cup {Idle}
  /\ result.op = "store" /\ result.code = "kOk" => result.value \in Results
  /\ stream \in Seq(Protos) /\ reports \subseteq Results
  /\ sub \in [Readers -> [state : {"none", "open", "broken", "done"}, option : Options \cup {NoOption}]]
  /\ next \in [Readers -> Nat]
  /\ wire \in [Readers -> Seq(OnWire)]
  /\ seen \in [Readers -> Seq(Seq(Received))]

\* The log is in the order of time, and a start time has passed.
TimeInv ==
  /\ \A i \in DOMAIN log : log[i].at <= clock
  /\ \A i, j \in DOMAIN log : i <= j => log[i].at <= log[j].at
  /\ \A r \in StoreReaders : sub[r].option.type = 5 => sub[r].option.value <= clock

\* An answer is about the event of its call.
AnswerInv ==
  /\ call.op = "store" => call.event.Store
  /\ call.at = "answered" => call.answer.EventID = call.event.EventID
  /\ call.at = "answered" /\ call.op = "store" /\ call.answer.Sent =>
       \E n \in DOMAIN log : log[n].EventID = call.answer.EventID

\* A stream for the option may begin at position n of log l.
BeginsAt(option, n, l) ==
  /\ option.type = 2 => n = 1
  /\ option.type = 4 => n = IF option.value < 1 THEN 1 ELSE option.value
  /\ option.type = 5 => \A i \in DOMAIN l : i >= n => l[i].at >= option.value

\* What is said to be number n of log l is.
Copy(l, n, id, body) == n \in DOMAIN l /\ id = l[n].EventID /\ body = l[n].Body

\* The events are those of log l from position n on.
Follows(events, n, l) ==
  \A i \in DOMAIN events : /\ events[i].sequence = n + i - 1
                           /\ Copy(l, events[i].sequence, events[i].id, events[i].body)

\* So are the events on a stream.
FollowsOnWire(protos, n, l) ==
  \A i \in DOMAIN protos : /\ protos[i].Sequence = n + i - 1
                           /\ Copy(l, protos[i].Sequence, protos[i].EventID, protos[i].Body)

\* Each of the streams was handed over from a proper beginning on.
HandedOver(option, streams, l) ==
  \A k \in DOMAIN streams : streams[k] # <<>> =>
    /\ BeginsAt(option, streams[k][1].sequence, l)
    /\ Follows(streams[k], streams[k][1].sequence, l)

\* On the last of them, after what was handed over comes what is on the wire,
\* and then position n, where the broker continues.
Continues(option, streams, protos, n, l) ==
  LET current == streams[Len(streams)]
      beginning == n - Len(protos) - Len(current)
  IN  /\ streams # <<>> /\ beginning > 0
      /\ BeginsAt(option, beginning, l)
      /\ Follows(current, beginning, l)
      /\ FollowsOnWire(protos, beginning + Len(current), l)

StreamInv ==
  \A r \in StoreReaders :
    /\ HandedOver(sub[r].option, seen[r], log)
    /\ sub[r].state = "open" => Continues(sub[r].option, seen[r], wire[r], next[r], log)
    /\ sub[r].state # "open" => wire[r] = <<>>
    /\ sub[r].state = "none" => seen[r] = <<>>

LogIInv == LogTypeOK /\ TimeInv /\ AnswerInv /\ StreamInv /\ ConfirmedIsStored

=============================================================================
