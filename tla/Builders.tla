------------------------------ MODULE Builders ------------------------------
(***************************************************************************)
(* The use of one builder: setters in any order, Build as often as the     *)
(* application likes, on the same object.  A built message is sent and     *)
(* converted to protobuf and back, so that the receiver's view of it can   *)
(* be compared with what the application asked for.                        *)
(***************************************************************************)
EXTENDS Messages

CONSTANTS
  Kinds,    \* the builder classes to use
  Texts,    \* values of texts, "" among them
  Numbers,  \* values of durations, counts and bools
  ClientId  \* ClientOptions::client_id

Classes == {"Event", "EventStore", "Command", "CommandReply", "Query", "QueryReply",
            "QueueMessage"}

ASSUME BuildersAssumption == Kinds \subseteq Classes /\ NoText \in Texts /\ Numbers \subseteq Int

VARIABLES
  kind,   \* the class of the builder in use
  b,      \* its fields
  given,  \* what the setters were given since the last message was built
  outcome \* the last Build: its status, the message, and given at that time

builderVars == <<kind, b, given, outcome>>

Fresh(k) ==
  CASE k = "Event" -> NewEvent
    [] k = "EventStore" -> NewEventStore
    [] k = "Command" -> NewCommand
    [] k = "CommandReply" -> NewCommandReply
    [] k = "Query" -> NewQuery
    [] k = "QueryReply" -> NewQueryReply
    [] k = "QueueMessage" -> NewQueueMessage

Setters(k) ==
  CASE k = "Event" -> EventSetters
    [] k = "EventStore" -> EventStoreSetters
    [] k = "Command" -> CommandSetters
    [] k = "CommandReply" -> CommandReplySetters
    [] k = "Query" -> QuerySetters
    [] k = "QueryReply" -> QueryReplySetters
    [] k = "QueueMessage" -> QueueMessageSetters

BuildOf(k, builder, uuid) ==
  CASE k = "Event" -> EventBuild(builder, uuid)
    [] k = "EventStore" -> EventStoreBuild(builder, uuid)
    [] k = "Command" -> CommandBuild(builder, uuid)
    [] k = "CommandReply" -> CommandReplyBuild(builder)
    [] k = "Query" -> QueryBuild(builder, uuid)
    [] k = "QueryReply" -> QueryReplyBuild(builder)
    [] k = "QueueMessage" -> QueueMessageBuild(builder, uuid)

NoOutcome == [status |-> "none", message |-> <<>>, given |-> <<>>]

BuilderInit ==
  /\ kind \in Kinds
  /\ b = Fresh(kind)
  /\ given = Fresh(kind)
  /\ outcome = NoOutcome

Set(f, v) ==
  /\ b' = [b EXCEPT ![f] = v]
  /\ given' = [given EXCEPT ![f] = v]
  /\ outcome' = NoOutcome
  /\ UNCHANGED kind

SetText == \E f \in Setters(kind).text, v \in Texts : Set(f, v)
SetNumber == \E f \in Setters(kind).number, v \in Numbers : Set(f, v)

Build ==
  LET r == BuildOf(kind, b, "uuid")
  IN  /\ b' = r.builder
      /\ outcome' = [status |-> r.status, message |-> r.message, given |-> given]
      /\ given' = IF r.status = "kOk" THEN Fresh(kind) ELSE given
      /\ UNCHANGED kind

BuilderNext == SetText \/ SetNumber \/ Build

-----------------------------------------------------------------------------
(* What arrives at the other side. *)

\* The broker stamps an event with the time and, when it is stored, a sequence.
Broadcast(p) ==
  [EventID |-> p.EventID, Channel |-> p.Channel, Metadata |-> p.Metadata, Body |-> p.Body,
   Timestamp |-> 1, Sequence |-> IF p.Store THEN 1 ELSE 0, Tags |-> p.Tags]

\* The fields of message m that its receiver sees.
Received(k, m) ==
  CASE k = "Event" -> EventReceiveFromProto(Broadcast(EventToProto(m, ClientId)))
    [] k = "EventStore" -> EventStoreReceiveFromProto(Broadcast(EventStoreToProto(m, ClientId)))
    [] k = "Command" -> CommandReceiveFromProto(CommandToProto(m, ClientId))
    [] k = "CommandReply" -> CommandResponseFromProto(CommandReplyToProto(m))
    [] k = "Query" -> QueryReceiveFromProto(QueryToProto(m, ClientId))
    [] k = "QueryReply" -> QueryResponseFromProto(QueryReplyToProto(m))
    [] k = "QueueMessage" -> QueueMessageFromProto(QueueMessageToProto(m, ClientId), "other").message

-----------------------------------------------------------------------------
(***************************************************************************)
(* A builder used again does not mix two messages: apart from its id, no   *)
(* text of a message comes from before the previous Build, however setters *)
(* and refused Builds are interleaved (Build moves every text but id_ out  *)
(* of the builder).                                                        *)
(***************************************************************************)
NothingCarriedOver ==
  outcome.status = "kOk" =>
    \A f \in Setters(kind).text \ {"id"} : outcome.message[f] = outcome.given[f]

Replies == {"CommandReply", "QueryReply"}

\* The name its receiver has for field f: a reply becomes a response.
NameAt(k, f) ==
  CASE k = "CommandReply" /\ f = "requestId" -> "commandId"
    [] k = "QueryReply" /\ f = "requestId" -> "queryId"
    [] k \in Replies /\ f = "responseTo" -> "replyChannel"
    [] k \in Replies /\ f = "clientId" -> "responseClientId"
    [] OTHER -> f

\* What the receiver is not told: who published an event, and what a responder
\* put into the answer to a command but success and error.  The durations of
\* requests are compared elsewhere: the two sides use different units.
NotTold(k) ==
  CASE k \in {"Event", "EventStore"} -> {"clientId"}
    [] k = "CommandReply" -> {"metadata", "body"}
    [] k \in {"Command", "Query"} -> {"timeout", "cacheTtl"}
    [] OTHER -> {}

\* Every other field of m is there for its receiver, with its value; a missing
\* client id is filled in, but not by the conversions of replies.
Survives(k, m) ==
  LET r == Received(k, m)
  IN  \A f \in DOMAIN m \ NotTold(k) :
        /\ NameAt(k, f) \in DOMAIN r
        /\ r[NameAt(k, f)] = IF f = "clientId" /\ k \notin Replies THEN FirstNonEmpty(m[f], ClientId) ELSE m[f]

(***************************************************************************)
(* Every message Build accepts survives the two conversions: each field    *)
(* that the application set is read by the other side under the name it    *)
(* has there.  Left out, by class: the sender of an event, the durations   *)
(* of a request, and body and metadata of the reply to a command, which    *)
(* CommandResponse has no room for (README.md: "Commands carry no response *)
(* body").                                                                 *)
(***************************************************************************)
RoundTrip == outcome.status = "kOk" => Survives(kind, outcome.message)

-----------------------------------------------------------------------------
(***************************************************************************)
(* Why NothingCarriedOver holds: apart from the id, the builder holds the  *)
(* texts that were given since the last message, and nothing else.         *)
(***************************************************************************)
GivenInv ==
  /\ kind \in Classes
  /\ DOMAIN b = DOMAIN Fresh(kind) /\ DOMAIN given = DOMAIN Fresh(kind)
  /\ \A f \in Setters(kind).text \ {"id"} : b[f] = given[f]

BuilderInv == GivenInv /\ NothingCarriedOver /\ RoundTrip

=============================================================================
