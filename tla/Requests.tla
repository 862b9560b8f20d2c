------------------------------ MODULE Requests ------------------------------
(***************************************************************************)
(* Commands, queries and channel management: the three uses of the         *)
(* broker's SendRequest.  Threads of one client send requests and block    *)
(* until a response, an error or the deadline; subscriptions of another    *)
(* client read requests, hand them to the application's handler, and the   *)
(* handler answers when it likes, twice if it likes, or never.             *)
(*                                                                         *)
(* The broker (external) gives every request a reply channel of its own,   *)
(* passes it to one subscription, keeps answers of queries with a cache    *)
(* key, and executes requests on its internal channel itself.              *)
(***************************************************************************)
EXTENDS Messages, FiniteSets

CONSTANTS
  Senders,         \* threads that send
  Administrators,  \* the ones that also manage channels
  Readers,         \* subscriptions
  CommandReaders,  \* the ones made by SubscribeToCommands, the rest by SubscribeToQueries
  ReplyChannels,   \* names the broker can give: bounds the number of calls
  Channels,        \* arguments for a channel
  Bodies,          \* of requests and of answers
  Timeouts, Ids, CacheKeys, Ttls, \* arguments of a request
  ChannelNames,    \* arguments of channel management
  ClientId, DefaultChannel, DefaultCacheTtl, AuthToken, \* ClientOptions
  ProviderAnswers, \* what the credential provider may answer: codes
  MaxReplies       \* bounds the different answers of all handlers

ASSUME RequestsAssumption ==
  /\ CommandReaders \subseteq Readers /\ Administrators \subseteq Senders
  /\ Timeouts \cup Ttls \cup {DefaultCacheTtl} \subseteq Int
  /\ ProviderAnswers \subseteq ErrorCode /\ ProviderAnswers # {}
  /\ 10000 < Int32Half

kInternalChannel == "kubemq.cluster.internal.requests"
kDefaultRPCTimeout == 10000
kChannelTypes == {"events", "events_store", "commands", "queries", "queues"}

\* Identifiers are not empty; the application leaves the broker's own channel alone.
ASSUME NamesAssumption ==
  NoText \notin ReplyChannels /\ kInternalChannel \notin Channels \cup {DefaultChannel}

None == [ReplyChannel |-> NoText]

VARIABLES
  closed,   \* the sending client is closed
  used,     \* reply channels given so far
  call,     \* call[s]: the request s is blocked on
  result,   \* result[s]: what the last call of s returned
  sub,      \* sub[r]: the channel r has subscribed to, "" before that
  inbox,    \* inbox[r]: requests on the stream of r
  held,     \* requests the handlers have been given
  replies,  \* responses the broker has been sent
  cache,    \* answers the broker keeps: [key, response]
  channels, \* channels created: [name, type]
  managed   \* management requests the broker has executed

vars == <<closed, used, call, result, sub, inbox, held, replies, cache,
          channels, managed>>

\* What a caller wants: how long it will wait, or which channel it manages.
NoWish == [timeout |-> 0, name |-> NoText, type |-> NoText]
Idle == [op |-> "none", want |-> NoWish, request |-> None, at |-> "client", answer |-> None]
NoResult == [op |-> "none", want |-> NoWish, code |-> "kOk", rc |-> NoText, value |-> <<>>]

Init ==
  /\ closed = FALSE
  /\ used = {}
  /\ call = [s \in Senders |-> Idle]
  /\ result = [s \in Senders |-> NoResult]
  /\ sub = [r \in Readers |-> NoText]
  /\ inbox = [r \in Readers |-> <<>>]
  /\ held = {}
  /\ replies = {}
  /\ cache = {}
  /\ channels = {}
  /\ managed = {}

brokerVars == <<replies, cache, channels, managed>>
readerVars == <<sub, inbox, held>>

-----------------------------------------------------------------------------
(* Sending. *)

Return(s, op, code, rc, value) ==
  /\ result' = [result EXCEPT ![s] = [op |-> op, want |-> call[s].want, code |-> code,
                                      rc |-> rc, value |-> value]]
  /\ call' = [call EXCEPT ![s] = Idle]

Refuse(s, code) == Return(s, "refused", code, NoText, <<>>) /\ UNCHANGED <<used, brokerVars>>

\* GrpcTransport::SendRequest up to the call of the stub.  (The transport's
\* own closed flag is set by the same Close; Connection has the gap.)
SendRequest(s, op, request, want) ==
  \E answer \in ProviderAnswers :
    LET auth == InjectAuthToken(AuthToken, answer)
    IN  IF auth # "kOk" THEN Refuse(s, auth)
        ELSE /\ call' = [call EXCEPT ![s] = [op |-> op, want |-> want, request |-> request,
                                             at |-> "broker", answer |-> None]]
             /\ used' = used \cup {request.ReplyChannel}
             /\ result' = [result EXCEPT ![s] = NoResult]
             /\ UNCHANGED brokerVars

\* A name not used before: what GenerateUUID gives, and the broker's choice.
NewName == CHOOSE rc \in ReplyChannels \ used : TRUE
Named(s) == call[s] = Idle /\ used # ReplyChannels

EffectiveTimeout(timeout) == IF timeout <= 0 THEN kDefaultRPCTimeout ELSE timeout

SendCommand(s, c) ==
  LET channel == FirstNonEmpty(c.channel, DefaultChannel)
      timeout == EffectiveTimeout(c.timeout)
      full == [c EXCEPT !.channel = channel, !.timeout = timeout,
                        !.id = FirstNonEmpty(@, NewName)]
      proto == CommandToProto(full, ClientId)
  IN  /\ Named(s)
      /\ IF closed THEN Refuse(s, "kFatal")
         ELSE IF ~ValidateChannelNoWildcard(channel) \/ ~ValidateTimeout(timeout)
                 \/ ~ValidateBody(c.body, c.metadata)
         THEN Refuse(s, "kValidation")
         ELSE SendRequest(s, "command", [proto EXCEPT !.ReplyChannel = NewName],
                          [NoWish EXCEPT !.timeout = c.timeout])
      /\ UNCHANGED <<closed, readerVars>>

\* A TTL is only sent when positive, and the default replaces a missing one.
EffectiveTtl(ttl) == IF ttl <= 0 /\ DefaultCacheTtl > 0 THEN DefaultCacheTtl
                     ELSE IF ttl > 0 THEN ttl ELSE 0

SendQuery(s, q) ==
  LET channel == FirstNonEmpty(q.channel, DefaultChannel)
      timeout == EffectiveTimeout(q.timeout)
      full == [q EXCEPT !.channel = channel, !.timeout = timeout,
                        !.id = FirstNonEmpty(@, NewName), !.cacheTtl = EffectiveTtl(@)]
      proto == QueryToProto(full, ClientId)
  IN  /\ Named(s)
      /\ IF closed THEN Refuse(s, "kFatal")
         ELSE IF ~ValidateChannelNoWildcard(channel) \/ ~ValidateTimeout(timeout)
                 \/ ~ValidateBody(q.body, q.metadata)
         THEN Refuse(s, "kValidation")
         ELSE SendRequest(s, "query", [proto EXCEPT !.ReplyChannel = NewName],
                          [NoWish EXCEPT !.timeout = q.timeout])
      /\ UNCHANGED <<closed, readerVars>>

\* SendCommandSimple and SendQuerySimple: a builder first, then the same.
SendCommandSimple(s, channel, body, timeout) ==
  LET r == CommandBuild([NewCommand EXCEPT !.channel = channel, !.body = body,
                                           !.timeout = timeout], NewName)
  IN  /\ Named(s)
      /\ IF r.status = "kOk" THEN SendCommand(s, r.message)
         ELSE Refuse(s, r.status) /\ UNCHANGED <<closed, readerVars>>

SendQuerySimple(s, channel, body, timeout) ==
  LET r == QueryBuild([NewQuery EXCEPT !.channel = channel, !.body = body,
                                       !.timeout = timeout], NewName)
  IN  /\ Named(s)
      /\ IF r.status = "kOk" THEN SendQuery(s, r.message)
         ELSE Refuse(s, r.status) /\ UNCHANGED <<closed, readerVars>>

\* What SendCommand and SendQuery make of a response.

\* Variant: the error of the response is not looked at.
CommandResultUnchecked(s, response) ==
  Return(s, "command", "kOk", response.ReplyChannel, CommandResponseFromProto(response))

CommandResult(s, response) ==
  IF response.Error # NoText
  THEN Return(s, "command", "kFatal", response.ReplyChannel, <<>>)
  ELSE Return(s, "command", "kOk", response.ReplyChannel, CommandResponseFromProto(response))

QueryResult(s, response) ==
  IF response.Error # NoText
  THEN Return(s, "query", "kFatal", response.ReplyChannel, <<>>)
  ELSE Return(s, "query", "kOk", response.ReplyChannel, QueryResponseFromProto(response))

-----------------------------------------------------------------------------
(* Channel management. *)

\* Variant: the type of the channel is not passed on.
BuildChannelManagementRequestUntyped(name, type, operation, id) ==
  [RequestID |-> id, RequestTypeData |-> "Query", ClientID |-> ClientId,
   Channel |-> kInternalChannel, Metadata |-> operation, Body |-> NoText, Timeout |-> 10000,
   CacheKey |-> NoText, CacheTTL |-> 0, ReplyChannel |-> NewName,
   Tags |-> [channel |-> name, type |-> "events", search |-> NoText]]

BuildChannelManagementRequest(name, type, operation, id) ==
  [RequestID |-> id, RequestTypeData |-> "Query", ClientID |-> ClientId,
   Channel |-> kInternalChannel, Metadata |-> operation, Body |-> NoText, Timeout |-> 10000,
   CacheKey |-> NoText, CacheTTL |-> 0, ReplyChannel |-> NewName,
   Tags |-> [channel |-> name, type |-> type, search |-> NoText]]

ValidateChannelManagement(name, type) == name # NoText /\ type \in kChannelTypes

\* CreateChannel and DeleteChannel differ in the operation only.
Manage(s, operation, name, type) ==
  /\ Named(s)
  /\ IF closed THEN Refuse(s, "kFatal")
     ELSE IF ~ValidateChannelManagement(name, type) THEN Refuse(s, "kValidation")
     ELSE SendRequest(s, operation,
                      BuildChannelManagementRequest(name, type, operation, NewName),
                      [timeout |-> 10000, name |-> name, type |-> type])
  /\ UNCHANGED <<closed, readerVars>>

CreateChannel(s, name, type) == Manage(s, "create-channel", name, type)
DeleteChannel(s, name, type) == Manage(s, "delete-channel", name, type)

ListChannels(s, type, search) ==
  /\ Named(s)
  /\ IF closed THEN Refuse(s, "kFatal")
     ELSE IF type \notin kChannelTypes THEN Refuse(s, "kValidation")
     ELSE SendRequest(s, "list-channels",
                      [BuildChannelManagementRequest(NoText, type, "list-channels", NewName)
                         EXCEPT !.Tags.search = search],
                      [timeout |-> 10000, name |-> search, type |-> type])
  /\ UNCHANGED <<closed, readerVars>>

\* An empty body is an empty list; what is not an array, or not JSON, is an error.
ParseChannelListResponse(body) ==
  CASE body.json = "empty" -> [code |-> "kOk", items |-> {}]
    [] body.json = "array" -> [code |-> "kOk", items |-> body.items]
    [] OTHER -> [code |-> "kFatal", items |-> {}]

ManagementResult(s, response) ==
  LET op == call[s].op
      list == ParseChannelListResponse(response.Body)
  IN  IF response.Error # NoText THEN Return(s, op, "kFatal", response.ReplyChannel, <<>>)
      ELSE IF op = "list-channels"
      THEN Return(s, op, list.code, response.ReplyChannel, list.items)
      ELSE Return(s, op, "kOk", response.ReplyChannel, <<>>)

-----------------------------------------------------------------------------
(* The end of a call. *)

ReceiveResponse(s) ==
  /\ call[s].at = "answered"
  /\ CASE call[s].op = "command" -> CommandResult(s, call[s].answer)
       [] call[s].op = "query" -> QueryResult(s, call[s].answer)
       [] OTHER -> ManagementResult(s, call[s].answer)
  /\ UNCHANGED <<closed, used, readerVars, brokerVars>>

\* The deadline set on the call.  A timeout that is not positive is replaced by
\* kDefaultRPCTimeout.count(): seconds taken for milliseconds.
DeadlineOf(request) ==
  IF request.Timeout > 0 THEN request.Timeout ELSE kDefaultRPCTimeout \div 1000

Fail(s, grpcCode) ==
  /\ call[s] # Idle
  /\ Return(s, "failed", MapGrpcCode(grpcCode), NoText, <<>>)
  /\ UNCHANGED <<closed, used, readerVars, brokerVars>>

Deadline(s) == Fail(s, "DEADLINE_EXCEEDED")
CallBreaks(s) == Fail(s, "UNAVAILABLE")

Close ==
  /\ ~closed
  /\ closed' = TRUE
  /\ UNCHANGED <<used, call, result, readerVars, brokerVars>>

-----------------------------------------------------------------------------
(* Subscriptions and the answers of handlers. *)

Subscribe(r, channel) ==
  LET c == FirstNonEmpty(channel, DefaultChannel)
  IN  /\ sub[r] = NoText /\ ValidateChannel(c)
      /\ sub' = [sub EXCEPT ![r] = c]
      /\ UNCHANGED <<closed, used, call, result, inbox, held, brokerVars>>

SubscribeToCommands(r, channel) == r \in CommandReaders /\ Subscribe(r, channel)
SubscribeToQueries(r, channel) == r \notin CommandReaders /\ Subscribe(r, channel)

\* The stream ends and what is on it is lost.  The reader subscribes again with
\* the Subscribe message it kept; while it has not, the broker just has nothing
\* to deliver to, which it never must (Subscription has the steps of this).
StreamBreaks(r) ==
  /\ inbox[r] # <<>>
  /\ inbox' = [inbox EXCEPT ![r] = <<>>]
  /\ UNCHANGED <<closed, used, call, result, sub, held, brokerVars>>

CommandsReconnect(r) == r \in CommandReaders /\ StreamBreaks(r)
QueriesReconnect(r) == r \notin CommandReaders /\ StreamBreaks(r)

\* The reader takes one request: another type is skipped, the handler is
\* called in SafeInvoke and returns (it keeps a copy and may answer) or throws
\* (on_error hears of it, the reader goes on; Subscription has the details).

\* Variant: the type is not looked at.
ReadCommandAnyType(r, throws) ==
  LET request == Head(inbox[r])
  IN  /\ inbox[r] # <<>> /\ r \in CommandReaders
      /\ inbox' = [inbox EXCEPT ![r] = Tail(@)]
      /\ held' = IF throws THEN held
                 ELSE held \cup {[by |-> "Command", type |-> request.RequestTypeData,
                                  got |-> CommandReceiveFromProto(request)]}
      /\ UNCHANGED <<closed, used, call, result, sub, brokerVars>>

ReadCommand(r, throws) ==
  LET request == Head(inbox[r])
      mine == request.RequestTypeData = "Command"
  IN  /\ inbox[r] # <<>> /\ r \in CommandReaders
      /\ inbox' = [inbox EXCEPT ![r] = Tail(@)]
      /\ held' = IF mine /\ ~throws
                 THEN held \cup {[by |-> "Command", type |-> request.RequestTypeData,
                                  got |-> CommandReceiveFromProto(request)]}
                 ELSE held
      /\ UNCHANGED <<closed, used, call, result, sub, brokerVars>>

ReadQuery(r, throws) ==
  LET request == Head(inbox[r])
      mine == request.RequestTypeData = "Query"
  IN  /\ inbox[r] # <<>> /\ r \notin CommandReaders
      /\ inbox' = [inbox EXCEPT ![r] = Tail(@)]
      /\ held' = IF mine /\ ~throws
                 THEN held \cup {[by |-> "Query", type |-> request.RequestTypeData,
                                  got |-> QueryReceiveFromProto(request)]}
                 ELSE held
      /\ UNCHANGED <<closed, used, call, result, sub, brokerVars>>

Read(r) == \E throws \in BOOLEAN : ReadCommand(r, throws) \/ ReadQuery(r, throws)

-----------------------------------------------------------------------------
(* The broker. *)

InFlight(s) == call[s].at = "broker"
CacheEntries(s) == {e \in cache : e.key = call[s].request.CacheKey}

Answered(s, response) ==
  call' = [call EXCEPT ![s].at = "answered", ![s].answer = response]

Deliver(s, r) ==
  /\ InFlight(s) /\ sub[r] = call[s].request.Channel
  /\ CacheEntries(s) = {}
  /\ inbox' = [inbox EXCEPT ![r] = Append(@, call[s].request)]
  /\ call' = [call EXCEPT ![s].at = "handler"]
  /\ UNCHANGED <<closed, used, result, sub, held, brokerVars>>

ServeFromCache(s) ==
  /\ InFlight(s)
  /\ \E e \in CacheEntries(s) :
       Answered(s, [e.response EXCEPT !.RequestID = call[s].request.RequestID,
                                      !.ReplyChannel = call[s].request.ReplyChannel,
                                      !.CacheHit = 1])
  /\ UNCHANGED <<closed, used, result, readerVars, brokerVars>>

CacheExpires ==
  /\ \E e \in cache : cache' = cache \ {e}
  /\ UNCHANGED <<closed, used, call, result, readerVars, replies, channels, managed>>

Execute(s) ==
  LET request == call[s].request
      c == [name |-> request.Tags.channel, type |-> request.Tags.type]
      list == {d \in channels : d.type = c.type}
      respond(error, body) ==
        Answered(s, [ReplyChannel |-> request.ReplyChannel, Error |-> error, Body |-> body])
  IN  /\ InFlight(s) /\ request.Channel = kInternalChannel
      /\ \/ /\ respond("refused", [json |-> "empty"])
            /\ UNCHANGED <<channels, managed>>
         \/ /\ managed' = managed \cup {[rc |-> request.ReplyChannel, op |-> request.Metadata,
                                         name |-> c.name, type |-> c.type]}
            /\ channels' = CASE request.Metadata = "create-channel" -> channels \cup {c}
                             [] request.Metadata = "delete-channel" -> channels \ {c}
                             [] OTHER -> channels
            /\ \E json \in {"empty", "array", "malformed"} :
                 /\ json = "empty" <=> request.Metadata # "list-channels" \/ list = {}
                 /\ respond(NoText, [json |-> json, items |-> list])
      /\ UNCHANGED <<closed, used, result, readerVars, replies, cache>>

\* A response reaches the call that waits on its reply channel, if one still
\* does; the answer of a query with a cache key is kept for its TTL.
Accept(response) ==
  LET waiting == {s \in Senders : /\ call[s].request.ReplyChannel = response.ReplyChannel
                                  /\ call[s].at = "handler"}
  IN  /\ replies' = replies \cup {response}
      /\ call' = [s \in Senders |->
                    IF s \in waiting THEN [call[s] EXCEPT !.at = "answered", !.answer = response]
                    ELSE call[s]]
      /\ cache' = cache \cup
                    {[key |-> call[s].request.CacheKey, response |-> response] :
                       s \in {t \in waiting : /\ call[t].request.CacheKey # NoText
                                              /\ call[t].request.CacheTTL > 0
                                              /\ response.Error = NoText}}

\* The transport's part.  One that fails, for want of a token or of the broker,
\* changes nothing: it is a handler that has not answered.
SendResponse(response) ==
  /\ Accept(response)
  /\ UNCHANGED <<closed, used, result, readerVars, channels, managed>>

SendCommandResponse(h, answer) ==
  LET b == [NewCommandReply EXCEPT !.requestId = h.got.id, !.responseTo = h.got.responseTo,
                                   !.body = answer.body, !.error = answer.error,
                                   !.executed = answer.executed]
      r == CommandReplyBuild(b)
  IN  /\ h \in held /\ h.by = "Command"
      /\ SendResponse(CommandReplyToProto([r.message EXCEPT !.clientId = FirstNonEmpty(@, ClientId)]))

SendQueryResponse(h, answer) ==
  LET b == [NewQueryReply EXCEPT !.requestId = h.got.id, !.responseTo = h.got.responseTo,
                                 !.body = answer.body, !.error = answer.error,
                                 !.executed = answer.executed]
      r == QueryReplyBuild(b)
  IN  /\ h \in held /\ h.by = "Query"
      /\ SendResponse(QueryReplyToProto([r.message EXCEPT !.clientId = FirstNonEmpty(@, ClientId)]))

-----------------------------------------------------------------------------
\* What an application can hold: what Build made, or a default-constructed
\* message.  (So the defaults that SendCommand and SendQuery have for a missing
\* channel or timeout are of no use: what lacks one of them is not built.)
Commands ==
  {NewCommand} \cup
  {CommandBuild(b, NoText).message :
     b \in {c \in [id : Ids, channel : Channels, metadata : {NoText}, body : Bodies,
                   timeout : Timeouts, clientId : {NoText}, tags : {NoText}] :
            CommandBuild(c, NoText).status = "kOk"}}
Queries ==
  {NewQuery} \cup
  {QueryBuild(b, NoText).message :
     b \in {q \in [id : Ids, channel : Channels, metadata : {NoText}, body : Bodies,
                   timeout : Timeouts, clientId : {NoText}, cacheKey : CacheKeys,
                   cacheTtl : Ttls, tags : {NoText}] :
            QueryBuild(q, NoText).status = "kOk"}}

\* What a handler may say: done, not done, or an error.
Answers ==
  [error : {NoText}, executed : {0, 1}, body : Bodies] \cup
  [error : {"failed"}, executed : {0}, body : {NoText}]

Send(s) ==
  \/ \E c \in Commands : SendCommand(s, c)
  \/ \E q \in Queries : SendQuery(s, q)
  \/ \E channel \in Channels, body \in Bodies, t \in Timeouts :
       SendCommandSimple(s, channel, body, t) \/ SendQuerySimple(s, channel, body, t)

Administer(s) ==
  \E name \in ChannelNames, type \in {"events", "queues", "topics"} :
    \/ CreateChannel(s, name, type)
    \/ DeleteChannel(s, name, type)
    \/ ListChannels(s, type, name)

Reply ==
  /\ Cardinality(replies) < MaxReplies
  /\ \E h \in held, answer \in Answers :
       SendCommandResponse(h, answer) \/ SendQueryResponse(h, answer)

Next ==
  \/ \E s \in Senders :
       Send(s) \/ ReceiveResponse(s) \/ Deadline(s) \/ CallBreaks(s)
         \/ ServeFromCache(s) \/ Execute(s)
  \/ \E s \in Administrators : Administer(s)
  \/ \E r \in Readers :
       \/ \E channel \in Channels : SubscribeToCommands(r, channel) \/ SubscribeToQueries(r, channel)
       \/ CommandsReconnect(r) \/ QueriesReconnect(r) \/ Read(r)
  \/ \E s \in Senders, r \in Readers : Deliver(s, r)
  \/ Reply \/ CacheExpires \/ Close

Spec == Init /\ [][Next]_vars

-----------------------------------------------------------------------------
(***************************************************************************)
(* What a caller is told is what a handler said to that very call: success *)
(* only for an answer without an error, with its executed flag (done or    *)
(* not) and, for a query, its body; kFatal only for one with an error.     *)
(* Late, repeated and duplicate-id answers never reach another call, and a *)
(* cached answer was once a handler's.                                     *)
(***************************************************************************)
AnswerIsHandlers ==
  \A s \in Senders :
    result[s].op \in {"command", "query"} /\ result[s].rc # NoText =>
      \E p \in replies :
        IF result[s].code = "kOk"
        THEN /\ p.Error = NoText /\ p.Executed = result[s].value.executed
             /\ result[s].op = "query" => p.Body = result[s].value.body
             /\ p.ReplyChannel = result[s].rc
                \/ (result[s].op = "query" /\ result[s].value.cacheHit = 1)
        ELSE p.ReplyChannel = result[s].rc /\ p.Error # NoText

(***************************************************************************)
(* Whatever reaches a handler is a request of its kind that passed the     *)
(* checks of SendCommand or SendQuery: the type filter of the readers and  *)
(* the validation of the sender are on two machines.                       *)
(***************************************************************************)
HandlersSeeValidRequests ==
  \A h \in held :
    /\ h.by = h.type
    /\ ValidateChannelNoWildcard(h.got.channel)
    /\ ValidateBody(h.got.body, h.got.metadata)
    /\ h.got.id # NoText /\ h.got.responseTo \in used

(***************************************************************************)
(* A caller never waits longer than it asked for, and exactly that long    *)
(* when the duration fits the 32 bits it travels in.  One that does not is *)
(* wrapped by the cast to int32_t: the deadline is then what is left of    *)
(* it, or the ten milliseconds that the transport puts in place of what is *)
(* not positive.  Whoever is waiting asked for a positive timeout (so the  *)
(* default of SendCommand and SendQuery is never used), channel management *)
(* for its ten seconds.                                                    *)
(***************************************************************************)
DeadlineIsAsked ==
  \A s \in Senders :
    LET asked == call[s].want.timeout
        deadline == DeadlineOf(call[s].request)
    IN  call[s] # Idle =>
          /\ 0 < deadline /\ deadline <= asked
          /\ asked < Int32Half => deadline = asked

(***************************************************************************)
(* A handler is told how long its caller waits: the timeout of a command   *)
(* is the same duration on both sides ("Response timeout." in command.h).  *)
(* The code does not keep this: milliseconds are sent, seconds are read.   *)
(***************************************************************************)
DurationsTravel ==
  \A h \in held, s \in Senders :
    call[s].request.ReplyChannel = h.got.responseTo => h.got.timeout = call[s].want.timeout

(***************************************************************************)
(* A channel operation that reports success has been executed by the       *)
(* broker with the caller's own arguments; a listing holds only channels   *)
(* of the type asked for.                                                  *)
(***************************************************************************)
ManagementTookEffect ==
  \A s \in Senders :
    LET r == result[s]
    IN  r.code = "kOk" =>
          /\ r.op \in {"create-channel", "delete-channel"} =>
               [rc |-> r.rc, op |-> r.op, name |-> r.want.name, type |-> r.want.type] \in managed
          /\ r.op = "list-channels" => \A c \in r.value : c.type = r.want.type

-----------------------------------------------------------------------------
(***************************************************************************)
(* The inductive invariant                                                 *)
(***************************************************************************)

\* A request of an application, as the broker gets and delivers it.
AppRequests ==
  [RequestID : Ids \cup ReplyChannels, RequestTypeData : {"Command", "Query"}, ClientID : {ClientId},
   Channel : Channels \cup {DefaultChannel}, Metadata : {NoText}, Body : Bodies \cup {NoText},
   Timeout : Int, CacheKey : CacheKeys \cup {NoText}, CacheTTL : Int,
   ReplyChannel : ReplyChannels, Tags : {NoText}]

\* It has passed the checks of SendCommand or SendQuery.
Valid(request) ==
  /\ ValidateChannelNoWildcard(request.Channel)
  /\ ValidateBody(request.Body, request.Metadata)
  /\ request.RequestID # NoText

ManagementOps == {"create-channel", "delete-channel", "list-channels"}

\* What SendRequest is given: a command or query, only a query with a cache
\* key, or the request of a management operation for what the caller wants.
Proper(op, request, want) ==
  \/ /\ op \in {"command", "query"}
     /\ request \in AppRequests /\ Valid(request)
     /\ op = "command" => request.CacheKey = NoText
  \/ /\ op \in ManagementOps
     /\ request.Channel = kInternalChannel /\ request.CacheKey = NoText
     /\ request.Metadata = op /\ request.Tags.type = want.type
     /\ op # "list-channels" => request.Tags.channel = want.name

CallFields == {"op", "want", "request", "at", "answer"}
ReplyFields == {"ClientID", "RequestID", "ReplyChannel", "Metadata", "Body", "Timestamp",
                "Executed", "Error", "CacheHit", "Tags"}

TypeOK ==
  /\ used \subseteq ReplyChannels
  /\ DOMAIN call = Senders /\ DOMAIN result = Senders
  /\ sub \in [Readers -> Channels \cup {DefaultChannel, NoText}]
  /\ inbox \in [Readers -> Seq(AppRequests)]
  /\ \A p \in replies : DOMAIN p = ReplyFields

\* A call that is not idle has a proper request with a reply channel of its
\* own; what the broker executes itself is never with a handler.
Busy(s) == call[s].at # "client"
CallInv ==
  \A s \in Senders :
    /\ DOMAIN call[s] = CallFields
    /\ call[s].at \in {"client", "broker", "handler", "answered"}
    /\ ~Busy(s) => call[s] = Idle
    /\ Busy(s) =>
         /\ Proper(call[s].op, call[s].request, call[s].want)
         /\ call[s].request.ReplyChannel \in used
         /\ call[s].at = "handler" => call[s].op \in {"command", "query"}
         /\ \A t \in Senders \ {s} :
              Busy(t) => call[t].request.ReplyChannel # call[s].request.ReplyChannel

\* An answer is one of the handlers', or is a copy of one that the broker kept.
HandlersAnswer(op, answer, given) ==
  \/ answer \in given
  \/ /\ op = "query" /\ answer.Error = NoText /\ answer.CacheHit = 1
     /\ \E p \in given :
          p.Error = NoText /\ p.Executed = answer.Executed /\ p.Body = answer.Body

\* The broker's own answer: without an error it has done what was wanted.
BrokersAnswer(op, want, answer, executed) ==
  answer.Error = NoText =>
    /\ op # "list-channels" =>
         [rc |-> answer.ReplyChannel, op |-> op, name |-> want.name, type |-> want.type] \in executed
    /\ op = "list-channels" =>
         \A c \in ParseChannelListResponse(answer.Body).items : c.type = want.type

AnswerInv ==
  \A s \in Senders :
    call[s].at = "answered" =>
      /\ call[s].answer.ReplyChannel = call[s].request.ReplyChannel
      /\ IF call[s].op \in ManagementOps
         THEN BrokersAnswer(call[s].op, call[s].want, call[s].answer, managed)
         ELSE HandlersAnswer(call[s].op, call[s].answer, replies)

\* What is on a stream or has been given to a handler passed the checks.
ReaderInv ==
  /\ \A r \in Readers : \A i \in DOMAIN inbox[r] :
       Valid(inbox[r][i]) /\ inbox[r][i].ReplyChannel \in used
  /\ HandlersSeeValidRequests

\* The broker keeps answers without an error, and under a key.
CacheInv ==
  \A e \in cache : e.key # NoText /\ e.response \in replies /\ e.response.Error = NoText

ResultInv == AnswerIsHandlers /\ ManagementTookEffect

IInv == TypeOK /\ CallInv /\ AnswerInv /\ ReaderInv /\ CacheInv /\ ResultInv

=============================================================================
