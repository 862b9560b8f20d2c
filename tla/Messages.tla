------------------------------ MODULE Messages ------------------------------
(***************************************************************************)
(* The messages of the kubemq-cpp client, without behaviour: the checks on *)
(* them (validation.cc), their builders (event.cc, event_store.cc,         *)
(* command.cc, query.cc, queue_message.cc), the protobuf form they travel  *)
(* in (converter.cc) and the table of error codes (error_mapper.cc).       *)
(*                                                                         *)
(* Texts are abstract values, NoText the empty one.  The tags of a message *)
(* are one text, empty when there are none.  Channel names are told apart  *)
(* by what the validation looks for in them.  Durations are in             *)
(* milliseconds.                                                           *)
(***************************************************************************)
EXTENDS Integers, Sequences

CONSTANTS
  Spaced,   \* channel names that contain whitespace
  Dotted,   \* channel names that end with '.'
  Wild,     \* channel names that contain '*' or '>'
  Int32Half \* 2^31; less in the instances, TLC's own integers have 32 bits

ASSUME Int32Assumption == Int32Half \in Nat \ {0}

NoText == ""

\* static_cast<int32_t>
ToInt32(n) == ((n + Int32Half) % (2 * Int32Half)) - Int32Half

-----------------------------------------------------------------------------
(* Error codes, and how a gRPC status becomes one. *)

ErrorCode == {"kOk", "kTransient", "kTimeout", "kThrottling", "kAuthentication",
              "kAuthorization", "kValidation", "kNotFound", "kFatal",
              "kCancellation", "kBackpressure"}

MapGrpcCode(code) ==
  CASE code = "OK" -> "kOk"
    [] code = "CANCELLED" -> "kCancellation"
    [] code \in {"INVALID_ARGUMENT", "ALREADY_EXISTS", "FAILED_PRECONDITION",
                 "OUT_OF_RANGE"} -> "kValidation"
    [] code = "DEADLINE_EXCEEDED" -> "kTimeout"
    [] code = "NOT_FOUND" -> "kNotFound"
    [] code = "PERMISSION_DENIED" -> "kAuthorization"
    [] code = "UNAUTHENTICATED" -> "kAuthentication"
    [] code = "RESOURCE_EXHAUSTED" -> "kThrottling"
    [] code \in {"ABORTED", "UNAVAILABLE"} -> "kTransient"
    [] OTHER -> "kFatal"

IsRetryable(code) == code \in {"kTransient", "kTimeout", "kThrottling"}

-----------------------------------------------------------------------------
(* Validation: TRUE stands for Status(), FALSE for kValidation. *)

ValidateChannel(channel) == channel # NoText /\ channel \notin Spaced \cup Dotted

ValidateChannelNoWildcard(channel) == ValidateChannel(channel) /\ channel \notin Wild

ValidateBody(body, metadata) == body # NoText \/ metadata # NoText

ValidateTimeout(timeout) == timeout > 0

FirstNonEmpty(a, b) == IF a # NoText THEN a ELSE b

\* The code a call fails with before it is made, or kOk: a static token is
\* used as it is; otherwise the provider, if there is one, answers.
InjectAuthToken(token, answer) == IF token # NoText THEN "kOk" ELSE answer

-----------------------------------------------------------------------------
(* What a fresh builder holds: one record for each builder class. *)

NewEvent == [id |-> NoText, channel |-> NoText, metadata |-> NoText, body |-> NoText,
             clientId |-> NoText, tags |-> NoText]

NewEventStore == NewEvent

NewCommand == [id |-> NoText, channel |-> NoText, metadata |-> NoText, body |-> NoText,
               timeout |-> 0, clientId |-> NoText, tags |-> NoText]

NewCommandReply == [requestId |-> NoText, responseTo |-> NoText, metadata |-> NoText, body |-> NoText,
                    clientId |-> NoText, tags |-> NoText, error |-> NoText, executedAt |-> 0,
                    executed |-> 1]

NewQuery == [id |-> NoText, channel |-> NoText, metadata |-> NoText, body |-> NoText, timeout |-> 0,
             clientId |-> NoText, cacheKey |-> NoText, cacheTtl |-> 0, tags |-> NoText]

NewQueryReply == [requestId |-> NoText, responseTo |-> NoText, metadata |-> NoText, body |-> NoText,
                  clientId |-> NoText, tags |-> NoText, error |-> NoText, executedAt |-> 0,
                  cacheHit |-> 0, executed |-> 1]

QueuePolicy == [expirationSeconds |-> 0, delaySeconds |-> 0, maxReceiveCount |-> 0,
                maxReceiveQueue |-> NoText]

NewQueueMessage == [id |-> NoText, channel |-> NoText, metadata |-> NoText, body |-> NoText,
                    clientId |-> NoText, tags |-> NoText, expirationSeconds |-> 0,
                    delaySeconds |-> 0, maxReceiveCount |-> 0, maxReceiveQueue |-> NoText]

(* The setters: which fields hold text, which hold a number (or a bool). *)

EventSetters == [text |-> {"id", "channel", "metadata", "body", "clientId", "tags"},
                 number |-> {}]

EventStoreSetters == EventSetters

CommandSetters == [text |-> EventSetters.text, number |-> {"timeout"}]

ReplyText == {"requestId", "responseTo", "metadata", "body", "clientId", "tags", "error"}

CommandReplySetters == [text |-> ReplyText, number |-> {"executedAt", "executed"}]

QuerySetters == [text |-> EventSetters.text \cup {"cacheKey"},
                 number |-> {"timeout", "cacheTtl"}]

QueryReplySetters == [text |-> ReplyText, number |-> {"executedAt", "cacheHit", "executed"}]

QueueMessageSetters ==
  [text |-> EventSetters.text \cup {"maxReceiveQueue"},
   number |-> {"expirationSeconds", "delaySeconds", "maxReceiveCount"}]

(***************************************************************************)
(* Build: a refusal leaves the builder as it was; a success moves texts,   *)
(* tags and the policy's text out of it (they are left empty) and copies   *)
(* the rest, so what is in kept stays in the builder.                      *)
(***************************************************************************)
Refused(b) == [status |-> "kValidation", message |-> <<>>, builder |-> b]

Produced(b, message, fresh, kept) ==
  [status |-> "kOk", message |-> message,
   builder |-> [f \in DOMAIN b |-> IF f \in kept THEN b[f] ELSE fresh[f]]]

WithId(b, uuid) == [b EXCEPT !.id = FirstNonEmpty(@, uuid)]

\* Variant: the metadata is copied, not moved.
EventBuildCopying(b, uuid) ==
  IF b.channel # NoText /\ (b.body # NoText \/ b.metadata # NoText)
  THEN Produced(b, WithId(b, uuid), NewEvent, {"id", "metadata"})
  ELSE Refused(b)

EventBuild(b, uuid) ==
  IF b.channel # NoText /\ (b.body # NoText \/ b.metadata # NoText)
  THEN Produced(b, WithId(b, uuid), NewEvent, {"id"})
  ELSE Refused(b)

EventStoreBuild(b, uuid) ==
  IF b.channel # NoText /\ (b.body # NoText \/ b.metadata # NoText)
  THEN Produced(b, WithId(b, uuid), NewEventStore, {"id"})
  ELSE Refused(b)

CommandBuild(b, uuid) ==
  IF b.channel # NoText /\ (b.body # NoText \/ b.metadata # NoText) /\ b.timeout > 0
  THEN Produced(b, WithId(b, uuid), NewCommand, {"id", "timeout"})
  ELSE Refused(b)

CommandReplyBuild(b) ==
  IF b.requestId # NoText /\ b.responseTo # NoText
  THEN Produced(b, b, NewCommandReply, {"executedAt", "executed"})
  ELSE Refused(b)

QueryBuild(b, uuid) ==
  IF b.channel # NoText /\ (b.body # NoText \/ b.metadata # NoText) /\ b.timeout > 0
  THEN Produced(b, WithId(b, uuid), NewQuery, {"id", "timeout", "cacheTtl"})
  ELSE Refused(b)

QueryReplyBuild(b) ==
  IF b.requestId # NoText /\ b.responseTo # NoText
  THEN Produced(b, b, NewQueryReply, {"executedAt", "cacheHit", "executed"})
  ELSE Refused(b)

QueueMessageBuild(b, uuid) ==
  IF b.channel # NoText /\ (b.body # NoText \/ b.metadata # NoText)
  THEN Produced(b, WithId(b, uuid), NewQueueMessage,
                {"id", "expirationSeconds", "delaySeconds", "maxReceiveCount"})
  ELSE Refused(b)

-----------------------------------------------------------------------------
(***************************************************************************)
(* Conversions to and from the protobuf messages (their field names).  A   *)
(* bool that a builder sets is 0 or 1.                                     *)
(***************************************************************************)
EventToProto(e, clientId) ==
  [EventID |-> e.id, ClientID |-> FirstNonEmpty(e.clientId, clientId),
   Channel |-> e.channel, Metadata |-> e.metadata, Body |-> e.body,
   Store |-> FALSE, Tags |-> e.tags]

EventStoreToProto(e, clientId) ==
  [EventID |-> e.id, ClientID |-> FirstNonEmpty(e.clientId, clientId),
   Channel |-> e.channel, Metadata |-> e.metadata, Body |-> e.body,
   Store |-> TRUE, Tags |-> e.tags]

EventReceiveFromProto(p) ==
  [id |-> p.EventID, channel |-> p.Channel, metadata |-> p.Metadata,
   body |-> p.Body, timestamp |-> p.Timestamp, sequence |-> p.Sequence, tags |-> p.Tags]

EventStoreReceiveFromProto(p) ==
  [id |-> p.EventID, channel |-> p.Channel, metadata |-> p.Metadata,
   body |-> p.Body, timestamp |-> p.Timestamp, sequence |-> p.Sequence, tags |-> p.Tags]

EventStoreResultFromProto(p) == [id |-> p.EventID, sent |-> p.Sent, error |-> p.Error]

\* Variant: the timeout travels in seconds.
CommandToProtoSeconds(c, clientId) ==
  [RequestID |-> c.id, RequestTypeData |-> "Command",
   ClientID |-> FirstNonEmpty(c.clientId, clientId), Channel |-> c.channel,
   Metadata |-> c.metadata, Body |-> c.body, Timeout |-> ToInt32(c.timeout \div 1000),
   CacheKey |-> NoText, CacheTTL |-> 0, ReplyChannel |-> NoText, Tags |-> c.tags]

\* The timeout of a request travels in milliseconds, in 32 bits.
CommandToProto(c, clientId) ==
  [RequestID |-> c.id, RequestTypeData |-> "Command",
   ClientID |-> FirstNonEmpty(c.clientId, clientId), Channel |-> c.channel,
   Metadata |-> c.metadata, Body |-> c.body, Timeout |-> ToInt32(c.timeout),
   CacheKey |-> NoText, CacheTTL |-> 0, ReplyChannel |-> NoText, Tags |-> c.tags]

\* The cache TTL travels in whole seconds.
QueryToProto(q, clientId) ==
  [RequestID |-> q.id, RequestTypeData |-> "Query",
   ClientID |-> FirstNonEmpty(q.clientId, clientId), Channel |-> q.channel,
   Metadata |-> q.metadata, Body |-> q.body, Timeout |-> ToInt32(q.timeout),
   CacheKey |-> q.cacheKey, CacheTTL |-> ToInt32(q.cacheTtl \div 1000),
   ReplyChannel |-> NoText, Tags |-> q.tags]

\* std::chrono::seconds(proto.timeout()), held as milliseconds
CommandReceiveFromProto(p) ==
  [id |-> p.RequestID, clientId |-> p.ClientID, channel |-> p.Channel,
   metadata |-> p.Metadata, body |-> p.Body, responseTo |-> p.ReplyChannel,
   timeout |-> 1000 * p.Timeout, tags |-> p.Tags]

QueryReceiveFromProto(p) ==
  [id |-> p.RequestID, clientId |-> p.ClientID, channel |-> p.Channel,
   metadata |-> p.Metadata, body |-> p.Body, responseTo |-> p.ReplyChannel,
   timeout |-> 1000 * p.Timeout, cacheKey |-> p.CacheKey,
   cacheTtl |-> 1000 * p.CacheTTL, tags |-> p.Tags]

CommandReplyToProto(r) ==
  [ClientID |-> r.clientId, RequestID |-> r.requestId, ReplyChannel |-> r.responseTo,
   Metadata |-> r.metadata, Body |-> r.body, Timestamp |-> r.executedAt,
   Executed |-> r.executed, Error |-> r.error, CacheHit |-> 0, Tags |-> r.tags]

QueryReplyToProto(r) ==
  [ClientID |-> r.clientId, RequestID |-> r.requestId, ReplyChannel |-> r.responseTo,
   Metadata |-> r.metadata, Body |-> r.body, Timestamp |-> r.executedAt,
   Executed |-> r.executed, Error |-> r.error, CacheHit |-> r.cacheHit, Tags |-> r.tags]

CommandResponseFromProto(p) ==
  [commandId |-> p.RequestID, responseClientId |-> p.ClientID,
   replyChannel |-> p.ReplyChannel, executed |-> p.Executed,
   executedAt |-> p.Timestamp, error |-> p.Error, tags |-> p.Tags]

QueryResponseFromProto(p) ==
  [queryId |-> p.RequestID, responseClientId |-> p.ClientID,
   replyChannel |-> p.ReplyChannel, executed |-> p.Executed,
   executedAt |-> p.Timestamp, metadata |-> p.Metadata, body |-> p.Body,
   cacheHit |-> p.CacheHit, error |-> p.Error, tags |-> p.Tags]

\* Variant: the policy is left out.
QueueMessageToProtoNoPolicy(m, clientId) ==
  [MessageID |-> m.id, ClientID |-> FirstNonEmpty(m.clientId, clientId),
   Channel |-> m.channel, Metadata |-> m.metadata, Body |-> m.body, Tags |-> m.tags,
   Policy |-> QueuePolicy, Attributes |-> 0]

QueueMessageToProto(m, clientId) ==
  [MessageID |-> m.id, ClientID |-> FirstNonEmpty(m.clientId, clientId),
   Channel |-> m.channel, Metadata |-> m.metadata, Body |-> m.body, Tags |-> m.tags,
   Policy |-> [f \in DOMAIN QueuePolicy |-> m[f]], Attributes |-> 0]

\* The message is rebuilt with the builder of the application: what Build
\* refuses, or gives an id to, arrives changed.
QueueMessageFromProto(p, uuid) ==
  LET b == [f \in DOMAIN NewQueueMessage |->
              CASE f = "id" -> p.MessageID
                [] f = "channel" -> p.Channel
                [] f = "metadata" -> p.Metadata
                [] f = "body" -> p.Body
                [] f = "clientId" -> p.ClientID
                [] f = "tags" -> p.Tags
                [] OTHER -> p.Policy[f]]
      r == QueueMessageBuild(b, uuid)
  IN  IF r.status = "kOk"
      THEN [message |-> r.message, sequence |-> p.Attributes]
      ELSE [message |-> NewQueueMessage, sequence |-> 0]

QueueSendResultFromProto(p) ==
  [messageId |-> p.MessageID, isError |-> p.IsError, error |-> p.Error]

=============================================================================
