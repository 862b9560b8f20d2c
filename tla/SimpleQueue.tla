----------------------------- MODULE SimpleQueue -----------------------------
(***************************************************************************)
(* The queue operations of the client that keep no transaction: sending    *)
(* one message or a batch, receiving, peeking, acknowledging everything,   *)
(* and batches on an upstream stream.  A unary call is a step that sends   *)
(* it, a step of the broker (external) that executes it, and a step in     *)
(* which the caller gets the response; the response may be lost after the  *)
(* broker has acted, and the call then ends with an error.                 *)
(*                                                                         *)
(* The upstream stream's threads are in StreamHandle; here it is the data  *)
(* that travels on it.                                                     *)
(***************************************************************************)
EXTENDS Messages, SequencesExt, FiniteSets

CONSTANTS
  Callers,   \* threads that call the client
  Texts,     \* bodies
  Channels,  \* arguments for a channel
  Counts,    \* max_number_of_messages
  Waits,     \* wait_time_seconds
  RequestIds,\* ids the application gives to upstream requests
  MaxCalls, MaxStored, MaxBatch, \* bounds
  ClientId, DefaultChannel, AuthToken, ProviderAnswers

QueueConstants ==
  /\ Int32Half \in Nat \ {0}
  /\ Counts \cup Waits \subseteq Int
  /\ MaxCalls \in Nat /\ MaxStored \in Nat /\ MaxBatch \in Nat
  /\ ProviderAnswers \subseteq ErrorCode

ASSUME SimpleQueueAssumption == QueueConstants

VARIABLES
  clientClosed, \* the client is closed
  calls,     \* operations begun
  call,      \* call[c]: the unary call c is blocked in
  result,    \* result[c]: what its last call returned
  stored,    \* every message the broker has accepted, in order
  queue,     \* the sequence numbers of the ones not consumed, lower ones first
  fate,      \* fate[n]: what became of message n when it left the queue
  opened,    \* the application has an upstream handle
  upstream,  \* requests written on the stream, not executed
  reported   \* what on_result was given

simpleVars == <<clientClosed, calls, call, result, stored, queue, fate, opened, upstream, reported>>
brokerVars == <<stored, queue, fate>>
upstreamVars == <<opened, upstream, reported>>

Idle == [op |-> "none", asked |-> <<>>, request |-> <<>>, deadline |-> 0,
         at |-> "client", answer |-> <<>>]
NoResult == [op |-> "none", asked |-> <<>>, code |-> "kOk", value |-> <<>>]

QueueInit ==
  /\ clientClosed = FALSE /\ calls = 0
  /\ call = [c \in Callers |-> Idle]
  /\ result = [c \in Callers |-> NoResult]
  /\ stored = <<>> /\ queue = {} /\ fate = <<>>
  /\ opened = FALSE /\ upstream = <<>> /\ reported = {}

-----------------------------------------------------------------------------
(* The client. *)

Return(c, op, asked, code, value) ==
  /\ result' = [result EXCEPT ![c] = [op |-> op, asked |-> asked, code |-> code,
                                      value |-> value]]
  /\ call' = [call EXCEPT ![c] = Idle]

Begin(c) == call[c] = Idle /\ calls < MaxCalls /\ calls' = calls + 1

\* Every unary method of the transport up to the call of its stub.
Invoke(c, op, asked, request, deadline) ==
  \E answer \in ProviderAnswers :
    LET auth == InjectAuthToken(AuthToken, answer)
    IN  IF auth # "kOk" THEN Return(c, op, <<>>, auth, <<>>)
        ELSE /\ call' = [call EXCEPT ![c] =
                          [op |-> op, asked |-> asked, request |-> request,
                           deadline |-> deadline, at |-> "broker", answer |-> <<>>]]
             /\ result' = [result EXCEPT ![c] = NoResult]

\* Closed, invalid, or on to the transport.
Checked(c, op, asked, valid, request, deadline) ==
  IF clientClosed THEN Return(c, op, <<>>, "kFatal", <<>>)
  ELSE IF ~valid THEN Return(c, op, <<>>, "kValidation", <<>>)
  ELSE Invoke(c, op, asked, request, deadline)

Sendable(m) ==
  /\ ValidateChannelNoWildcard(FirstNonEmpty(m.channel, DefaultChannel))
  /\ ValidateBody(m.body, m.metadata)

ToSend(m) == [QueueMessageToProto(m, ClientId) EXCEPT
                !.Channel = FirstNonEmpty(m.channel, DefaultChannel)]

kDefaultSendTimeout == 5

SendQueueMessage(c, m) ==
  /\ Begin(c)
  /\ Checked(c, "send", <<m>>, Sendable(m), <<ToSend(m)>>, kDefaultSendTimeout)
  /\ UNCHANGED <<clientClosed, brokerVars, upstreamVars>>

SendQueueMessageSimple(c, channel, body, expiration, delay) ==
  LET positive(n) == IF n > 0 THEN n ELSE 0
      built == QueueMessageBuild([NewQueueMessage EXCEPT
                 !.channel = channel, !.body = body,
                 !.expirationSeconds = positive(expiration), !.delaySeconds = positive(delay)],
                 "uuid")
  IN  IF built.status = "kOk" THEN SendQueueMessage(c, built.message)
      ELSE /\ Begin(c)
           /\ Return(c, "simple", [channel |-> channel, body |-> body], built.status, <<>>)
           /\ UNCHANGED <<clientClosed, brokerVars, upstreamVars>>

SendQueueMessagesBatch(c, batch, valid, request) ==
  Checked(c, "batch", batch, valid, request, kDefaultSendTimeout)

\* Variant: messages that do not pass the checks are left out.
SendQueueMessagesSkipping(c, batch) ==
  LET good == SelectSeq(batch, Sendable)
  IN  /\ Begin(c)
      /\ SendQueueMessagesBatch(c, batch, good # <<>>, [i \in DOMAIN good |-> ToSend(good[i])])
      /\ UNCHANGED <<clientClosed, brokerVars, upstreamVars>>

SendQueueMessages(c, batch) ==
  /\ Begin(c)
  /\ SendQueueMessagesBatch(c, batch, batch # <<>> /\ \A i \in DOMAIN batch : Sendable(batch[i]),
                            [i \in DOMAIN batch |-> ToSend(batch[i])])
  /\ UNCHANGED <<clientClosed, brokerVars, upstreamVars>>

\* Variant: the wait is the deadline.
ReceiveDeadlineTight(wait) == IF wait > 0 THEN wait ELSE 30

\* waittimeseconds() > 0 ? waittimeseconds() + 5 : 30, in 32 bits
ReceiveDeadline(wait) == IF wait > 0 THEN ToInt32(wait + 5) ELSE 30

\* Variant: is_peek is set whatever the caller asked.
ReceiveRequestPeeking(channel, count, wait, peek) ==
  [Channel |-> FirstNonEmpty(channel, DefaultChannel), Max |-> count, Wait |-> wait,
   IsPeek |-> TRUE]

ReceiveRequest(channel, count, wait, peek) ==
  [Channel |-> FirstNonEmpty(channel, DefaultChannel), Max |-> count, Wait |-> wait,
   IsPeek |-> peek]

ReceiveQueueMessages(c, channel, count, wait, peek) ==
  /\ Begin(c)
  /\ Checked(c, IF peek THEN "peek" ELSE "receive", <<wait>>,
             ValidateChannel(FirstNonEmpty(channel, DefaultChannel)),
             ReceiveRequest(channel, count, wait, peek), ReceiveDeadline(wait))
  /\ UNCHANGED <<clientClosed, brokerVars, upstreamVars>>

AckAllQueueMessages(c, channel, wait) ==
  /\ Begin(c)
  /\ Checked(c, "ackall", <<wait>>, ValidateChannel(FirstNonEmpty(channel, DefaultChannel)),
             [Channel |-> FirstNonEmpty(channel, DefaultChannel), Wait |-> wait],
             ReceiveDeadline(wait))
  /\ UNCHANGED <<clientClosed, brokerVars, upstreamVars>>

-----------------------------------------------------------------------------
(* What a call makes of its response. *)

SendResult(r) == IF r.isError THEN "kFatal" ELSE "kOk"

\* SendQueueMessages leaves the errors of its results to the caller.
BatchResult(answer) ==
  [code |-> "kOk", value |-> [i \in DOMAIN answer.results |-> QueueSendResultFromProto(answer.results[i])]]

ReceiveResult(answer) ==
  IF answer.error THEN [code |-> "kFatal", value |-> <<>>]
  ELSE [code |-> "kOk", value |-> [i \in DOMAIN answer.messages |->
                                     QueueMessageFromProto(answer.messages[i], "other")]]

AckAllResult(answer) ==
  IF answer.error THEN [code |-> "kFatal", value |-> <<>>]
  ELSE [code |-> "kOk", value |-> answer.affected]

Outcome(op, answer) ==
  CASE op = "send" -> [code |-> SendResult(BatchResult(answer).value[1]),
                       value |-> BatchResult(answer).value]
    [] op = "batch" -> BatchResult(answer)
    [] op = "ackall" -> AckAllResult(answer)
    [] OTHER -> ReceiveResult(answer)

\* The fates after something befell the messages with these numbers.
Marked(numbers, how) ==
  [n \in DOMAIN fate |-> IF n \in numbers THEN fate[n] \cup {how} ELSE fate[n]]

ReceiveResponse(c) ==
  LET k == call[c]
      outcome == Outcome(k.op, k.answer)
  IN  /\ k.at = "answered"
      /\ Return(c, k.op, IF k.answer.error THEN <<>> ELSE k.asked, outcome.code, outcome.value)
      /\ fate' = IF k.op = "receive" /\ outcome.code = "kOk"
                 THEN Marked({outcome.value[i].sequence : i \in DOMAIN outcome.value}, "received")
                 ELSE fate
      /\ UNCHANGED <<clientClosed, calls, stored, queue, upstreamVars>>

\* The messages that a receive holds once it is answered.
Carried(k) == IF k.op = "receive" /\ k.at = "answered"
              THEN {k.answer.messages[i].Attributes : i \in DOMAIN k.answer.messages} ELSE {}

\* The deadline, or the loss of the connection, before or after the broker acted.
Fail(c, grpcCode) ==
  /\ call[c] # Idle
  /\ Return(c, "failed", <<>>, MapGrpcCode(grpcCode), <<>>)
  /\ fate' = Marked(Carried(call[c]), "lost")
  /\ UNCHANGED <<clientClosed, calls, stored, queue, upstreamVars>>

Deadline(c) == Fail(c, "DEADLINE_EXCEEDED")

CloseClient == ~clientClosed /\ clientClosed' = TRUE
         /\ UNCHANGED <<calls, call, result, brokerVars, upstreamVars>>

-----------------------------------------------------------------------------
(* The upstream stream: what is written is neither checked nor defaulted. *)

QueueUpstreamRequestToProto(id, batch) ==
  [RequestID |-> FirstNonEmpty(id, "uuid"),
   Messages |-> [i \in DOMAIN batch |-> QueueMessageToProto(batch[i], ClientId)]]

\* The transport's part: "kOk" opens the stream.
OpenQueueUpstream ==
  {IF InjectAuthToken(AuthToken, answer) # "kOk" THEN InjectAuthToken(AuthToken, answer) ELSE code :
     answer \in ProviderAnswers, code \in {"kOk", "kTransient"}}

\* Client::QueueUpstream, on the thread of c.
QueueUpstream(c) ==
  /\ Begin(c) /\ ~opened
  /\ \E code \in IF clientClosed THEN {"kFatal"} ELSE OpenQueueUpstream :
       Return(c, "upstream", <<>>, code, <<>>) /\ opened' = (code = "kOk")
  /\ UNCHANGED <<clientClosed, brokerVars, upstream, reported>>

\* The handle outlives the client: closed is not looked at.
UpstreamSend(id, batch) ==
  /\ opened /\ calls < MaxCalls /\ calls' = calls + 1
  /\ upstream' = Append(upstream, QueueUpstreamRequestToProto(id, batch))
  /\ UNCHANGED <<clientClosed, call, result, brokerVars, opened, reported>>

QueueUpstreamResponseFromProto(p) ==
  [ref |-> p.RefRequestID, isError |-> p.IsError,
   results |-> [i \in DOMAIN p.Results |-> QueueSendResultFromProto(p.Results[i])]]

UpstreamBreaks ==
  /\ upstream # <<>> /\ upstream' = <<>>
  /\ UNCHANGED <<clientClosed, calls, call, result, brokerVars, opened, reported>>

-----------------------------------------------------------------------------
(* The broker. *)

\* It may refuse a message, and refuses one without a channel.
Storable(batch) ==
  {ok \in [DOMAIN batch -> BOOLEAN] : \A i \in DOMAIN batch : batch[i].Channel = NoText => ~ok[i]}

\* The members of S in their order: there is one such sequence.
Ascending(S) ==
  {s \in [1..Cardinality(S) -> S] : /\ \A i, j \in DOMAIN s : i < j => s[i] < s[j]
                                   /\ \A n \in S : \E i \in DOMAIN s : s[i] = n}

Numbered(m, n) == [m EXCEPT !.Attributes = n]

Store(batch, ok) ==
  \E accepted \in Ascending({i \in DOMAIN batch : ok[i]}) :
    /\ Len(stored) + Len(accepted) <= MaxStored
    /\ stored' = stored \o [j \in 1..Len(accepted) |->
                               Numbered(batch[accepted[j]], Len(stored) + j)]
    /\ queue' = queue \cup {Len(stored) + j : j \in 1..Len(accepted)}
    /\ fate' = fate \o [j \in 1..Len(accepted) |-> {}]

Results(batch, ok) == [i \in DOMAIN batch |-> [MessageID |-> batch[i].MessageID,
                                               IsError |-> ~ok[i], Error |-> NoText]]

Answered(k, answer) ==
  [op |-> k.op, asked |-> k.asked, request |-> k.request, deadline |-> k.deadline,
   at |-> "answered", answer |-> answer]

Answer(c, error, results, messages, affected) ==
  call' = [call EXCEPT ![c] = Answered(@, [error |-> error, results |-> results,
                                           messages |-> messages, affected |-> affected])]

Put(c) ==
  /\ call[c].at = "broker" /\ call[c].op \in {"send", "batch"}
  /\ \E ok \in Storable(call[c].request) :
       /\ Store(call[c].request, ok)
       /\ Answer(c, FALSE, Results(call[c].request, ok), <<>>, 0)
  /\ UNCHANGED <<clientClosed, calls, result, upstreamVars>>

On(channel) == {n \in queue : stored[n].Channel = channel}

\* The first ones of S, as many as count.
First(count, S) == {n \in S : Cardinality({m \in S : m < n}) < count}

Leave(numbers, how) ==
  queue' = queue \ numbers /\ fate' = Marked(numbers, how) /\ UNCHANGED stored

Take(c) ==
  LET request == call[c].request
      some == First(request.Max, On(request.Channel))
  IN  /\ call[c].at = "broker" /\ call[c].op \in {"receive", "peek"}
      /\ \/ Answer(c, TRUE, <<>>, <<>>, 0) /\ UNCHANGED brokerVars
         \/ /\ \E numbers \in Ascending(some) :
                 Answer(c, FALSE, <<>>, [i \in DOMAIN numbers |-> stored[numbers[i]]], 0)
            /\ IF request.IsPeek THEN UNCHANGED brokerVars ELSE Leave(some, "taken")
      /\ UNCHANGED <<clientClosed, calls, result, upstreamVars>>

Purge(c) ==
  LET all == On(call[c].request.Channel)
  IN  /\ call[c].at = "broker" /\ call[c].op = "ackall"
      /\ \/ Answer(c, TRUE, <<>>, <<>>, 0) /\ UNCHANGED brokerVars
         \/ Answer(c, FALSE, <<>>, <<>>, Cardinality(all)) /\ Leave(all, "acked")
      /\ UNCHANGED <<clientClosed, calls, result, upstreamVars>>

\* What on_result is called with, and the request it is about.
Report(request, error, results) ==
  [request |-> request, given |-> QueueUpstreamResponseFromProto(
     [RefRequestID |-> request.RequestID, IsError |-> error, Results |-> results])]

\* The stream's request is executed and on_result is called with the outcome.
UpstreamResult ==
  LET request == Head(upstream)
  IN  /\ upstream # <<>> /\ upstream' = Tail(upstream)
      /\ \/ reported' = reported \cup {Report(request, TRUE, <<>>)} /\ UNCHANGED brokerVars
         \/ \E ok \in Storable(request.Messages) :
              /\ Store(request.Messages, ok)
              /\ reported' = reported \cup {Report(request, FALSE, Results(request.Messages, ok))}
      /\ UNCHANGED <<clientClosed, calls, call, result, opened>>

-----------------------------------------------------------------------------
\* What an application can hold: what Build made, or a default-constructed message.
Made(channel, body) ==
  QueueMessageBuild([NewQueueMessage EXCEPT !.channel = channel, !.body = body,
                                            !.expirationSeconds = 7], "uuid")

Outgoing ==
  {NewQueueMessage} \cup
  {Made(a[1], a[2]).message : a \in {x \in Channels \X Texts : Made(x[1], x[2]).status = "kOk"}}

Batches == BoundedSeq(Outgoing, MaxBatch)
UpstreamBatches == BoundedSeq(Outgoing, 1)

Sends(c) ==
  \/ \E m \in Outgoing : SendQueueMessage(c, m)
  \/ \E batch \in Batches : SendQueueMessages(c, batch)
  \/ \E channel \in Channels, body \in Texts : SendQueueMessageSimple(c, channel, body, 0, 3)

Consumes(c) ==
  \E channel \in Channels, wait \in Waits :
    \/ \E count \in Counts, peek \in BOOLEAN : ReceiveQueueMessages(c, channel, count, wait, peek)
    \/ AckAllQueueMessages(c, channel, wait)

QueueNext ==
  \/ \E c \in Callers :
       Sends(c) \/ QueueUpstream(c) \/ Consumes(c) \/ ReceiveResponse(c) \/ Deadline(c) \/ Put(c) \/ Take(c) \/ Purge(c)
  \/ \E id \in RequestIds, batch \in UpstreamBatches : UpstreamSend(id, batch)
  \/ UpstreamResult \/ UpstreamBreaks \/ CloseClient

QueueSpec == QueueInit /\ [][QueueNext]_simpleVars

-----------------------------------------------------------------------------
\* Message m is in s, on the channel and with the policy it was sent with.
IsStored(m, s) ==
  \E n \in DOMAIN s :
    /\ s[n].MessageID = m.id /\ s[n].Body = m.body
    /\ s[n].Channel = FirstNonEmpty(m.channel, DefaultChannel)
    /\ s[n].Policy.expirationSeconds = m.expirationSeconds
    /\ s[n].Policy.delaySeconds = m.delaySeconds

(***************************************************************************)
(* A send that reports success has stored what it was given: the one       *)
(* message of SendQueueMessage, and of a batch each message whose result   *)
(* has no error, the results being as many as the messages and in their    *)
(* order.                                                                  *)
(***************************************************************************)
SuccessMeansStored(r, s) ==
  r.op \in {"send", "batch"} /\ r.code = "kOk" =>
    /\ Len(r.value) = Len(r.asked)
    /\ \A i \in DOMAIN r.asked :
         /\ r.op = "send" => ~r.value[i].isError
         /\ ~r.value[i].isError => r.value[i].messageId = r.asked[i].id /\ IsStored(r.asked[i], s)

(***************************************************************************)
(* What a caller receives or peeks at is what was stored under that        *)
(* number: rebuilding a message with the builder of the application loses  *)
(* nothing of a message that passed the checks of a sender.                *)
(***************************************************************************)
ReceivedIntact(r, s) ==
  r.op \in {"receive", "peek"} /\ r.code = "kOk" =>
    \A i \in DOMAIN r.value :
      LET m == r.value[i]
      IN  /\ m.sequence \in DOMAIN s
          /\ m.message.id = s[m.sequence].MessageID
          /\ m.message.body = s[m.sequence].Body
          /\ m.message.channel = s[m.sequence].Channel

(***************************************************************************)
(* What on_result is told of an upstream request is what happened to it:   *)
(* without an error there is a result for each message, and a message      *)
(* whose result has no error is stored.                                    *)
(***************************************************************************)
ReportIsTrue(r, s) ==
  /\ r.given.ref = r.request.RequestID
  /\ ~r.given.isError =>
       /\ Len(r.given.results) = Len(r.request.Messages)
       /\ \A i \in DOMAIN r.given.results :
            ~r.given.results[i].isError =>
              \E n \in DOMAIN s : /\ s[n].MessageID = r.given.results[i].messageId
                                  /\ s[n].Channel = r.request.Messages[i].Channel

(***************************************************************************)
(* What callers are told is true, by the result of a call or by on_result, *)
(* and what they are given is what was stored.                             *)
(***************************************************************************)
ResultsAreTrue ==
  /\ \A c \in Callers : SuccessMeansStored(result[c], stored) /\ ReceivedIntact(result[c], stored)
  /\ \A r \in reported : ReportIsTrue(r, stored)

(***************************************************************************)
(* Every message is in exactly one place: still queued, acknowledged,      *)
(* received by one caller, on its way to one, or lost with a response that *)
(* did not arrive (and whose call reported an error).  Peeks change        *)
(* nothing; no message is received twice.                                  *)
(***************************************************************************)
Accounted ==
  \A n \in DOMAIN stored :
    LET onItsWay == \E c \in Callers : n \in Carried(call[c])
    IN  IF n \in queue THEN fate[n] = {} /\ ~onItsWay
        ELSE IF onItsWay THEN fate[n] = {"taken"}
        ELSE fate[n] \in {{"acked"}, {"taken", "received"}, {"taken", "lost"}}

(***************************************************************************)
(* The RPC of a receive or an ack-all outlives the time the broker may     *)
(* wait, so that a broker that answers at the last moment is still heard.  *)
(***************************************************************************)
DeadlineOutlivesWait ==
  \A c \in Callers :
    call[c].op \in {"receive", "peek", "ackall"} => call[c].deadline > call[c].asked[1]

-----------------------------------------------------------------------------
(***************************************************************************)
(* Why they hold.                                                          *)
(***************************************************************************)
Words == Texts \cup Channels \cup RequestIds \cup {NoText, "uuid", DefaultChannel, ClientId}

HeldMessages ==
  [id : Words, channel : Words, metadata : Words, body : Words, clientId : Words, tags : Words,
   expirationSeconds : Int, delaySeconds : Int, maxReceiveCount : Int, maxReceiveQueue : Words]

Protos ==
  [MessageID : Words, ClientID : Words, Channel : Words, Metadata : Words, Body : Words,
   Tags : Words, Attributes : Nat,
   Policy : [expirationSeconds : Int, delaySeconds : Int, maxReceiveCount : Int,
             maxReceiveQueue : Words]]

ReceiveRequests == [Channel : Words, Max : Int, Wait : Int, IsPeek : BOOLEAN]

Answers ==
  [error : BOOLEAN, messages : Seq(Protos), affected : Nat,
   results : Seq([MessageID : Words, IsError : BOOLEAN, Error : {NoText}])]

\* A call at the broker or answered.
IsCall(k) ==
  /\ k = [op |-> k.op, asked |-> k.asked, request |-> k.request, deadline |-> k.deadline,
          at |-> k.at, answer |-> k.answer]
  /\ k.op \in {"send", "batch", "receive", "peek", "ackall"} /\ k.deadline \in Int
  /\ k.at \in {"broker", "answered"} /\ (k.at = "answered" => k.answer \in Answers)

QueueTypeOK ==
  /\ stored \in Seq(Protos) /\ queue \subseteq DOMAIN stored
  /\ fate \in Seq(SUBSET {"taken", "received", "lost", "acked"}) /\ Len(fate) = Len(stored)
  /\ call = [c \in Callers |-> call[c]] /\ \A c \in Callers : call[c] = Idle \/ IsCall(call[c])
  /\ result = [c \in Callers |-> result[c]]
  /\ upstream \in Seq([RequestID : Words, Messages : Seq(Protos)])

\* A message that passes the checks of a sender and has an id.
Whole(p) == p.MessageID # NoText /\ p.Channel # NoText /\ ValidateBody(p.Body, p.Metadata)

\* What the broker keeps is whole, under its number.
StoredInv == \A n \in DOMAIN stored : stored[n].Attributes = n /\ Whole(stored[n])

\* What may be stored of an upstream request is whole.
UpstreamInv ==
  \A i \in DOMAIN upstream : \A j \in DOMAIN upstream[i].Messages :
    upstream[i].Messages[j].Channel # NoText => Whole(upstream[i].Messages[j])

\* A send asks for what the caller gave, and its answer is true in s.
SendInv(k, s) ==
  k.op \in {"send", "batch"} =>
    /\ k.asked \in Seq(HeldMessages) /\ (k.op = "send" => Len(k.asked) = 1)
    /\ k.at = "broker" =>
         /\ k.request = [i \in DOMAIN k.asked |-> ToSend(k.asked[i])]
         /\ \A i \in DOMAIN k.asked : Whole(ToSend(k.asked[i]))
    /\ k.at = "answered" =>
         /\ ~k.answer.error /\ Len(k.answer.results) = Len(k.asked)
         /\ \A i \in DOMAIN k.asked :
              /\ k.answer.results[i].MessageID = k.asked[i].id
              /\ ~k.answer.results[i].IsError => IsStored(k.asked[i], s)

\* A receive asks to peek or not, and holds messages of s.
ReceiveInv(k, s) ==
  k.op \in {"receive", "peek"} =>
    /\ k.at = "broker" => k.request \in ReceiveRequests /\ k.request.IsPeek = (k.op = "peek")
    /\ k.at = "answered" =>
         /\ k.answer.error => k.answer.messages = <<>>
         /\ \A i \in DOMAIN k.answer.messages :
              /\ k.answer.messages[i].Attributes \in DOMAIN s
              /\ k.answer.messages[i] = s[k.answer.messages[i].Attributes]

CallInv == \A c \in Callers : SendInv(call[c], stored) /\ ReceiveInv(call[c], stored)

\* No message is on its way to two callers.
CarriedInv == \A c, d \in Callers : c # d => Carried(call[c]) \cap Carried(call[d]) = {}

QueueIInv == /\ QueueTypeOK /\ StoredInv /\ UpstreamInv /\ CallInv /\ CarriedInv
        /\ Accounted /\ ResultsAreTrue

=============================================================================
