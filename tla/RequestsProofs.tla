--------------------------- MODULE RequestsProofs ---------------------------
(***************************************************************************)
(* Commands, queries and channel management, for any number of threads,    *)
(* subscriptions and calls: an answer reaches the call it was given to,    *)
(* handlers see valid requests, a management call that succeeds took       *)
(* effect, and the deadline of a call is the one asked for.                *)
(***************************************************************************)
EXTENDS Requests, SequenceTheorems, TLAPS

-----------------------------------------------------------------------------
(***************************************************************************)
(* What is sent                                                            *)
(***************************************************************************)

\* The texts the model tells from the empty one.
LEMMA SomeText == "refused" # NoText /\ kInternalChannel # NoText
BY Zenon DEF NoText, kInternalChannel

\* The cast to 32 bits gives a number that fits, and the same one if it fits.
LEMMA Int32 ==
  ASSUME NEW n \in Int
  PROVE  /\ ToInt32(n) \in Int /\ ToInt32(n) < Int32Half
         /\ 0 < n /\ n < Int32Half => ToInt32(n) = n
<1> DEFINE h == Int32Half
<1>1. h \in Nat \ {0} BY Int32Assumption
<1>2. 2 * h \in Nat \ {0} /\ n + h \in Int BY <1>1
<1>3. ToInt32(n) = ((n + h) % (2 * h)) - h BY DEF ToInt32
<1> HIDE DEF h
<1>4. (n + h) % (2 * h) \in Int /\ (n + h) % (2 * h) < 2 * h
  <2> DEFINE a == n + h
             b == 2 * h
  <2>1. a \in Int /\ b \in Nat \ {0} BY <1>2
  <2> HIDE DEF a, b
  <2>2. a % b \in Int /\ a % b < b BY <2>1
  <2> QED BY <2>2 DEF a, b
<1>5. ASSUME 0 < n, n < h PROVE (n + h) % (2 * h) = n + h
  <2> DEFINE a == n + h
             b == 2 * h
  <2>1. a \in Nat /\ b \in Nat \ {0} /\ a < b BY <1>1, <1>5
  <2> HIDE DEF a, b
  <2>2. a % b = a BY <2>1
  <2> QED BY <2>2 DEF a, b
<1> QED BY <1>1, <1>3, <1>4, <1>5 DEF h

\* The commands and queries a caller of SendCommand or SendQuery can hold.
CommandShapes ==
  [id : Ids \cup ReplyChannels \cup {NoText}, channel : Channels \cup {NoText}, metadata : {NoText},
   body : Bodies \cup {NoText}, timeout : Timeouts \cup {0}, clientId : {NoText}, tags : {NoText}]

QueryShapes ==
  [id : Ids \cup ReplyChannels \cup {NoText}, channel : Channels \cup {NoText}, metadata : {NoText},
   body : Bodies \cup {NoText}, timeout : Timeouts \cup {0}, clientId : {NoText},
   cacheKey : CacheKeys \cup {NoText}, cacheTtl : Ttls \cup {0}, tags : {NoText}]

\* Build gives a message the shape of its builder.
LEMMA CommandBuilt ==
  ASSUME NEW b \in CommandShapes, NEW u \in ReplyChannels \cup {NoText}, CommandBuild(b, u).status = "kOk"
  PROVE  CommandBuild(b, u).message \in CommandShapes
<1>1. CommandBuild(b, u).message = [b EXCEPT !.id = FirstNonEmpty(@, u)]
  BY DEF CommandBuild, Produced, Refused, WithId
<1>2. FirstNonEmpty(b.id, u) \in Ids \cup ReplyChannels \cup {NoText}
  BY DEF FirstNonEmpty, CommandShapes
<1> QED BY <1>1, <1>2 DEF CommandShapes

LEMMA QueryBuilt ==
  ASSUME NEW b \in QueryShapes, NEW u \in ReplyChannels \cup {NoText}, QueryBuild(b, u).status = "kOk"
  PROVE  QueryBuild(b, u).message \in QueryShapes
<1>1. QueryBuild(b, u).message = [b EXCEPT !.id = FirstNonEmpty(@, u)]
  BY DEF QueryBuild, Produced, Refused, WithId
<1>2. FirstNonEmpty(b.id, u) \in Ids \cup ReplyChannels \cup {NoText}
  BY DEF FirstNonEmpty, QueryShapes
<1> QED BY <1>1, <1>2 DEF QueryShapes

LEMMA CommandsShape == Commands \subseteq CommandShapes
<1>1. NewCommand \in CommandShapes
  BY DEF NewCommand, CommandShapes
<1> DEFINE S == [id : Ids, channel : Channels, metadata : {NoText}, body : Bodies,
                 timeout : Timeouts, clientId : {NoText}, tags : {NoText}]
<1>2. ASSUME NEW b \in S, CommandBuild(b, NoText).status = "kOk"
      PROVE  CommandBuild(b, NoText).message \in CommandShapes
  <2>1. b \in CommandShapes BY ONLY <1>2 DEF CommandShapes
  <2> QED BY <1>2, <2>1, CommandBuilt
<1> QED BY <1>1, <1>2 DEF Commands

LEMMA QueriesShape == Queries \subseteq QueryShapes
<1>1. NewQuery \in QueryShapes
  BY DEF NewQuery, QueryShapes
<1> DEFINE S == [id : Ids, channel : Channels, metadata : {NoText}, body : Bodies,
                 timeout : Timeouts, clientId : {NoText}, cacheKey : CacheKeys,
                 cacheTtl : Ttls, tags : {NoText}]
<1>2. ASSUME NEW b \in S, QueryBuild(b, NoText).status = "kOk"
      PROVE  QueryBuild(b, NoText).message \in QueryShapes
  <2>1. b \in QueryShapes BY ONLY <1>2 DEF QueryShapes
  <2> QED BY <1>2, <2>1, QueryBuilt
<1> QED BY <1>1, <1>2 DEF Queries

\* A name that has not been used.
LEMMA FreshName ==
  ASSUME TypeOK, NEW s, Named(s)
  PROVE  NewName \in ReplyChannels \ used /\ NewName # NoText /\ call[s] = Idle
<1>1. ReplyChannels \ used # {} BY DEF TypeOK, Named
<1>2. NewName \in ReplyChannels \ used BY <1>1 DEF NewName
<1> QED BY <1>2, NamesAssumption DEF Named

\* The request for command or query c; the name the broker gives is n.
CommandSent(c, n) ==
  LET full == [c EXCEPT !.channel = FirstNonEmpty(c.channel, DefaultChannel),
                      !.timeout = EffectiveTimeout(c.timeout),
                      !.id = FirstNonEmpty(@, n)]
  IN  [CommandToProto(full, ClientId) EXCEPT !.ReplyChannel = n]

LEMMA CommandRequest ==
  ASSUME NEW c \in CommandShapes, NEW n \in ReplyChannels, n # NoText, NEW want,
         ValidateChannelNoWildcard(FirstNonEmpty(c.channel, DefaultChannel)),
         ValidateBody(c.body, c.metadata)
  PROVE  /\ Proper("command", CommandSent(c, n), want)
         /\ CommandSent(c, n).ReplyChannel = n
         /\ CommandSent(c, n).Timeout = ToInt32(EffectiveTimeout(c.timeout))
<1> DEFINE channel == FirstNonEmpty(c.channel, DefaultChannel)
           timeout == EffectiveTimeout(c.timeout)
           full == [c EXCEPT !.channel = channel, !.timeout = timeout, !.id = FirstNonEmpty(@, n)]
           request == CommandSent(c, n)
<1>1. /\ full.id = FirstNonEmpty(c.id, n) /\ full.channel = channel /\ full.timeout = timeout
      /\ full.metadata = NoText /\ full.body = c.body /\ full.clientId = NoText /\ full.tags = NoText
      /\ c.metadata = NoText
  BY DEF CommandShapes
<1>2. /\ FirstNonEmpty(c.id, n) \in Ids \cup ReplyChannels /\ FirstNonEmpty(c.id, n) # NoText
      /\ channel \in Channels \cup {DefaultChannel} /\ c.body \in Bodies \cup {NoText}
      /\ timeout \in Int /\ FirstNonEmpty(NoText, ClientId) = ClientId
  BY RequestsAssumption DEF CommandShapes, FirstNonEmpty, EffectiveTimeout, kDefaultRPCTimeout
<1>3. ToInt32(timeout) \in Int
  BY <1>2, Int32
<1>4. request = [RequestID |-> full.id, RequestTypeData |-> "Command", ClientID |-> ClientId,
                 Channel |-> channel, Metadata |-> NoText, Body |-> c.body, Timeout |-> ToInt32(timeout),
                 CacheKey |-> NoText, CacheTTL |-> 0, ReplyChannel |-> n, Tags |-> NoText]
  BY <1>1, <1>2 DEF CommandSent, CommandToProto
<1> HIDE DEF request, full, channel, timeout
<1>5. request \in AppRequests
  BY ONLY <1>1, <1>2, <1>3, <1>4, n \in ReplyChannels DEF AppRequests
<1>6. Valid(request)
  BY <1>1, <1>2, <1>4 DEF Valid, channel
<1> QED BY <1>4, <1>5, <1>6 DEF Proper, request, timeout

QuerySent(c, n) ==
  LET full == [c EXCEPT !.channel = FirstNonEmpty(c.channel, DefaultChannel),
                      !.timeout = EffectiveTimeout(c.timeout),
                      !.id = FirstNonEmpty(@, n), !.cacheTtl = EffectiveTtl(@)]
  IN  [QueryToProto(full, ClientId) EXCEPT !.ReplyChannel = n]

LEMMA QueryRequest ==
  ASSUME NEW c \in QueryShapes, NEW n \in ReplyChannels, n # NoText, NEW want,
         ValidateChannelNoWildcard(FirstNonEmpty(c.channel, DefaultChannel)),
         ValidateBody(c.body, c.metadata)
  PROVE  /\ Proper("query", QuerySent(c, n), want)
         /\ QuerySent(c, n).ReplyChannel = n
         /\ QuerySent(c, n).Timeout = ToInt32(EffectiveTimeout(c.timeout))
<1> DEFINE channel == FirstNonEmpty(c.channel, DefaultChannel)
           timeout == EffectiveTimeout(c.timeout)
           full == [c EXCEPT !.channel = channel, !.timeout = timeout, !.id = FirstNonEmpty(@, n),
                             !.cacheTtl = EffectiveTtl(@)]
           request == QuerySent(c, n)
<1>1. /\ full.id = FirstNonEmpty(c.id, n) /\ full.channel = channel /\ full.timeout = timeout
      /\ full.metadata = NoText /\ full.body = c.body /\ full.clientId = NoText /\ full.tags = NoText
      /\ full.cacheKey = c.cacheKey /\ full.cacheTtl = EffectiveTtl(c.cacheTtl)
      /\ c.metadata = NoText
  BY DEF QueryShapes
<1>2. /\ FirstNonEmpty(c.id, n) \in Ids \cup ReplyChannels /\ FirstNonEmpty(c.id, n) # NoText
      /\ channel \in Channels \cup {DefaultChannel} /\ c.body \in Bodies \cup {NoText}
      /\ timeout \in Int /\ FirstNonEmpty(NoText, ClientId) = ClientId
  BY RequestsAssumption DEF QueryShapes, FirstNonEmpty, EffectiveTimeout, kDefaultRPCTimeout
<1>3. ToInt32(timeout) \in Int /\ ToInt32(full.cacheTtl \div 1000) \in Int
  <2>1. full.cacheTtl \in Int
    BY <1>1, RequestsAssumption DEF QueryShapes, EffectiveTtl
  <2>2. full.cacheTtl \div 1000 \in Int
    BY <2>1
  <2> QED BY <1>2, <2>2, Int32
<1>7. c.cacheKey \in CacheKeys \cup {NoText}
  BY DEF QueryShapes
<1>4. request = [RequestID |-> full.id, RequestTypeData |-> "Query", ClientID |-> ClientId,
                 Channel |-> channel, Metadata |-> NoText, Body |-> c.body, Timeout |-> ToInt32(timeout),
                 CacheKey |-> c.cacheKey, CacheTTL |-> ToInt32(full.cacheTtl \div 1000),
                 ReplyChannel |-> n, Tags |-> NoText]
  BY <1>1, <1>2 DEF QuerySent, QueryToProto
<1> HIDE DEF request, full, channel, timeout
<1>5. request \in AppRequests
  BY ONLY <1>1, <1>2, <1>3, <1>4, <1>7, n \in ReplyChannels DEF AppRequests
<1>6. Valid(request)
  BY <1>1, <1>2, <1>4 DEF Valid, channel
<1> QED BY <1>4, <1>5, <1>6 DEF Proper, request, timeout

\* What DeadlineIsAsked says of one call.
Timely(request, want) ==
  LET deadline == DeadlineOf(request)
  IN  /\ 0 < deadline /\ deadline <= want.timeout
      /\ want.timeout < Int32Half => deadline = want.timeout

LEMMA TimelyRequest ==
  ASSUME NEW t \in Timeouts, 0 < t, NEW request, NEW want,
         request.Timeout = ToInt32(EffectiveTimeout(t)), want = [NoWish EXCEPT !.timeout = t]
  PROVE  Timely(request, want)
<1>1. t \in Int /\ EffectiveTimeout(t) = t
  BY RequestsAssumption DEF EffectiveTimeout
<1>2. want.timeout = t
  BY DEF NoWish
<1>3. request.Timeout \in Int /\ request.Timeout < Int32Half
      /\ (t < Int32Half => request.Timeout = t)
  BY <1>1, Int32
<1>4. Int32Half \in Int /\ 10000 < Int32Half
  BY Int32Assumption, RequestsAssumption
<1>5. DeadlineOf(request) = IF request.Timeout > 0 THEN request.Timeout ELSE 10
  BY DEF DeadlineOf, kDefaultRPCTimeout
<1> QED BY ONLY <1>1, <1>2, <1>3, <1>4, <1>5, 0 < t DEF Timely

\* Whoever has something to send has given it a timeout.
Timed(c) == ValidateBody(c.body, c.metadata) => c.timeout \in Timeouts /\ 0 < c.timeout

LEMMA CommandTimed ==
  ASSUME NEW b \in CommandShapes, NEW u, CommandBuild(b, u).status = "kOk"
  PROVE  Timed(CommandBuild(b, u).message)
<1>1. b.timeout > 0
  BY DEF CommandBuild, Produced, Refused
<1>2. CommandBuild(b, u).message.timeout = b.timeout
  BY DEF CommandBuild, Produced, Refused, WithId, CommandShapes
<1>3. b.timeout \in Timeouts \cup {0} BY DEF CommandShapes
<1>4. b.timeout \in Int BY <1>3, RequestsAssumption
<1> QED BY <1>1, <1>2, <1>3, <1>4 DEF Timed

LEMMA QueryTimed ==
  ASSUME NEW b \in QueryShapes, NEW u, QueryBuild(b, u).status = "kOk"
  PROVE  Timed(QueryBuild(b, u).message)
<1>1. b.timeout > 0
  BY DEF QueryBuild, Produced, Refused
<1>2. QueryBuild(b, u).message.timeout = b.timeout
  BY DEF QueryBuild, Produced, Refused, WithId, QueryShapes
<1>3. b.timeout \in Timeouts \cup {0} BY DEF QueryShapes
<1>4. b.timeout \in Int BY <1>3, RequestsAssumption
<1> QED BY <1>1, <1>2, <1>3, <1>4 DEF Timed

LEMMA AllTimed == (\A c \in Commands : Timed(c)) /\ (\A q \in Queries : Timed(q))
<1>1. Timed(NewCommand) /\ Timed(NewQuery)
  BY DEF Timed, NewCommand, NewQuery, ValidateBody
<1>2. ASSUME NEW b \in [id : Ids, channel : Channels, metadata : {NoText}, body : Bodies,
                        timeout : Timeouts, clientId : {NoText}, tags : {NoText}]
      PROVE  b \in CommandShapes
  BY DEF CommandShapes
<1>3. ASSUME NEW b \in [id : Ids, channel : Channels, metadata : {NoText}, body : Bodies,
                        timeout : Timeouts, clientId : {NoText}, cacheKey : CacheKeys,
                        cacheTtl : Ttls, tags : {NoText}]
      PROVE  b \in QueryShapes
  BY DEF QueryShapes
<1>4. \A c \in Commands : Timed(c)
  BY <1>1, <1>2, CommandTimed DEF Commands
<1>5. \A q \in Queries : Timed(q)
  BY <1>1, <1>3, QueryTimed DEF Queries
<1> QED BY <1>4, <1>5

\* A call that is refused, and one that is begun.
Refusal(s) ==
  /\ \E code : Refuse(s, code)
  /\ UNCHANGED <<closed, readerVars>>

Begun(s, op, request, want) ==
  /\ call' = [call EXCEPT ![s] = [op |-> op, want |-> want, request |-> request,
                                  at |-> "broker", answer |-> None]]
  /\ used' = used \cup {request.ReplyChannel}
  /\ result' = [result EXCEPT ![s] = NoResult]
  /\ UNCHANGED <<brokerVars, closed, readerVars>>

Begins(s) ==
  \E op, request, want :
    /\ Begun(s, op, request, want)
    /\ Proper(op, request, want)
    /\ Timely(request, want)
    /\ request.ReplyChannel \in ReplyChannels \ used

LEMMA SendRequestStep ==
  ASSUME NEW s, NEW op, NEW request, NEW want,
         SendRequest(s, op, request, want), UNCHANGED <<closed, readerVars>>,
         Proper(op, request, want), Timely(request, want),
         request.ReplyChannel \in ReplyChannels \ used
  PROVE  Refusal(s) \/ Begins(s)
<1>1. CASE Begun(s, op, request, want)
  BY <1>1 DEF Begins
<1>2. CASE \E code : Refuse(s, code)
  BY <1>2 DEF Refusal
<1> QED BY <1>1, <1>2 DEF SendRequest, Begun

LEMMA SendCommandStep ==
  ASSUME TypeOK, NEW s, NEW c \in CommandShapes, Timed(c), SendCommand(s, c)
  PROVE  (Refusal(s) \/ Begins(s)) /\ call[s] = Idle
<1> DEFINE request == CommandSent(c, NewName)
           want == [NoWish EXCEPT !.timeout = c.timeout]
<1>1. NewName \in ReplyChannels \ used /\ NewName # NoText /\ call[s] = Idle
  BY FreshName DEF SendCommand
<1>2. UNCHANGED <<closed, readerVars>>
  BY DEF SendCommand
<1>3. CASE \E code : Refuse(s, code)
  BY <1>1, <1>2, <1>3 DEF Refusal
<1>4. CASE /\ ValidateChannelNoWildcard(FirstNonEmpty(c.channel, DefaultChannel))
           /\ ValidateBody(c.body, c.metadata)
           /\ SendRequest(s, "command", request, want)
  <2>1. /\ Proper("command", request, want)
        /\ request.ReplyChannel = NewName /\ request.Timeout = ToInt32(EffectiveTimeout(c.timeout))
    BY ONLY <1>1, <1>4, CommandRequest, c \in CommandShapes
  <2>2. c.timeout \in Timeouts /\ 0 < c.timeout
    BY <1>4 DEF Timed
  <2> HIDE DEF request, want
  <2>3. Timely(request, want)
    BY ONLY <2>1, <2>2, TimelyRequest DEF want
  <2> QED BY ONLY <1>1, <1>2, <1>4, <2>1, <2>3, SendRequestStep
<1> QED BY <1>3, <1>4 DEF SendCommand, CommandSent

LEMMA SendQueryStep ==
  ASSUME TypeOK, NEW s, NEW c \in QueryShapes, Timed(c), SendQuery(s, c)
  PROVE  (Refusal(s) \/ Begins(s)) /\ call[s] = Idle
<1> DEFINE request == QuerySent(c, NewName)
           want == [NoWish EXCEPT !.timeout = c.timeout]
<1>1. NewName \in ReplyChannels \ used /\ NewName # NoText /\ call[s] = Idle
  BY FreshName DEF SendQuery
<1>2. UNCHANGED <<closed, readerVars>>
  BY DEF SendQuery
<1>3. CASE \E code : Refuse(s, code)
  BY <1>1, <1>2, <1>3 DEF Refusal
<1>4. CASE /\ ValidateChannelNoWildcard(FirstNonEmpty(c.channel, DefaultChannel))
           /\ ValidateBody(c.body, c.metadata)
           /\ SendRequest(s, "query", request, want)
  <2>1. /\ Proper("query", request, want)
        /\ request.ReplyChannel = NewName /\ request.Timeout = ToInt32(EffectiveTimeout(c.timeout))
    BY ONLY <1>1, <1>4, QueryRequest, c \in QueryShapes
  <2>2. c.timeout \in Timeouts /\ 0 < c.timeout
    BY <1>4 DEF Timed
  <2> HIDE DEF request, want
  <2>3. Timely(request, want)
    BY ONLY <2>1, <2>2, TimelyRequest DEF want
  <2> QED BY ONLY <1>1, <1>2, <1>4, <2>1, <2>3, SendRequestStep
<1> QED BY <1>3, <1>4 DEF SendQuery, QuerySent

LEMMA SendStep ==
  ASSUME TypeOK, NEW s, Send(s)
  PROVE  (Refusal(s) \/ Begins(s)) /\ call[s] = Idle
<1>1. CASE \E c \in Commands : SendCommand(s, c)
  BY <1>1, CommandsShape, AllTimed, SendCommandStep
<1>2. CASE \E q \in Queries : SendQuery(s, q)
  BY <1>2, QueriesShape, AllTimed, SendQueryStep
<1>3. ASSUME NEW channel \in Channels, NEW body \in Bodies, NEW t \in Timeouts,
             SendCommandSimple(s, channel, body, t)
      PROVE  (Refusal(s) \/ Begins(s)) /\ call[s] = Idle
  <2> DEFINE b == [NewCommand EXCEPT !.channel = channel, !.body = body, !.timeout = t]
             r == CommandBuild(b, NewName)
  <2>1. NewName \in ReplyChannels \cup {NoText} /\ call[s] = Idle
    BY <1>3, FreshName DEF SendCommandSimple
  <2>2. b \in CommandShapes
    BY DEF NewCommand, CommandShapes
  <2>3. CASE r.status = "kOk"
    <3>1. r.message \in CommandShapes /\ Timed(r.message)
      BY ONLY <2>1, <2>2, <2>3, CommandBuilt, CommandTimed
    <3>2. SendCommand(s, r.message)
      BY <1>3, <2>3 DEF SendCommandSimple
    <3> QED BY <3>1, <3>2, SendCommandStep
  <2>4. CASE r.status # "kOk"
    <3>1. Refuse(s, r.status) /\ UNCHANGED <<closed, readerVars>>
      BY <1>3, <2>4 DEF SendCommandSimple
    <3> QED BY <2>1, <3>1 DEF Refusal
  <2> QED BY <2>3, <2>4
<1>4. ASSUME NEW channel \in Channels, NEW body \in Bodies, NEW t \in Timeouts,
             SendQuerySimple(s, channel, body, t)
      PROVE  (Refusal(s) \/ Begins(s)) /\ call[s] = Idle
  <2> DEFINE b == [NewQuery EXCEPT !.channel = channel, !.body = body, !.timeout = t]
             r == QueryBuild(b, NewName)
  <2>1. NewName \in ReplyChannels \cup {NoText} /\ call[s] = Idle
    BY <1>4, FreshName DEF SendQuerySimple
  <2>2. b \in QueryShapes
    BY DEF NewQuery, QueryShapes
  <2>3. CASE r.status = "kOk"
    <3>1. r.message \in QueryShapes /\ Timed(r.message)
      BY ONLY <2>1, <2>2, <2>3, QueryBuilt, QueryTimed
    <3>2. SendQuery(s, r.message)
      BY <1>4, <2>3 DEF SendQuerySimple
    <3> QED BY <3>1, <3>2, SendQueryStep
  <2>4. CASE r.status # "kOk"
    <3>1. Refuse(s, r.status) /\ UNCHANGED <<closed, readerVars>>
      BY <1>4, <2>4 DEF SendQuerySimple
    <3> QED BY <2>1, <3>1 DEF Refusal
  <2> QED BY <2>3, <2>4
<1> QED BY <1>1, <1>2, <1>3, <1>4 DEF Send

\* The request of a management operation names what the caller wants.
LEMMA ManagementRequest ==
  ASSUME NEW name, NEW type, NEW operation \in ManagementOps
  PROVE  LET m == BuildChannelManagementRequest(name, type, operation, NewName)
             want == [timeout |-> 10000, name |-> name, type |-> type]
         IN  Proper(operation, m, want) /\ Timely(m, want) /\ m.ReplyChannel = NewName
<1> DEFINE m == BuildChannelManagementRequest(name, type, operation, NewName)
           want == [timeout |-> 10000, name |-> name, type |-> type]
<1>1. /\ m.Channel = kInternalChannel /\ m.CacheKey = NoText /\ m.Metadata = operation
      /\ m.Tags.type = type /\ m.Tags.channel = name /\ m.ReplyChannel = NewName /\ m.Timeout = 10000
  BY DEF BuildChannelManagementRequest
<1> HIDE DEF m
<1>2. Proper(operation, m, want) /\ Timely(m, want)
  BY ONLY <1>1, operation \in ManagementOps DEF Proper, Timely, DeadlineOf
<1> QED BY <1>1, <1>2 DEF m

LEMMA ListRequest ==
  ASSUME NEW type, NEW search
  PROVE  LET l == [BuildChannelManagementRequest(NoText, type, "list-channels", NewName)
                     EXCEPT !.Tags.search = search]
             want == [timeout |-> 10000, name |-> search, type |-> type]
         IN  Proper("list-channels", l, want) /\ Timely(l, want) /\ l.ReplyChannel = NewName
<1> DEFINE k == BuildChannelManagementRequest(NoText, type, "list-channels", NewName)
           l == [k EXCEPT !.Tags.search = search]
           want == [timeout |-> 10000, name |-> search, type |-> type]
<1>1. /\ l.Channel = kInternalChannel /\ l.CacheKey = NoText /\ l.Metadata = "list-channels"
      /\ l.Tags.type = type /\ l.ReplyChannel = NewName /\ l.Timeout = 10000
  BY DEF BuildChannelManagementRequest
<1> HIDE DEF l
<1>2. Proper("list-channels", l, want) /\ Timely(l, want)
  BY ONLY <1>1 DEF Proper, Timely, DeadlineOf, ManagementOps
<1> QED BY <1>1, <1>2 DEF l

LEMMA AdministerStep ==
  ASSUME TypeOK, NEW s, Administer(s)
  PROVE  (Refusal(s) \/ Begins(s)) /\ call[s] = Idle
<1>1. ASSUME NEW operation \in {"create-channel", "delete-channel"}, NEW name, NEW type,
             Manage(s, operation, name, type)
      PROVE  (Refusal(s) \/ Begins(s)) /\ call[s] = Idle
  <2> DEFINE m == BuildChannelManagementRequest(name, type, operation, NewName)
             want == [timeout |-> 10000, name |-> name, type |-> type]
  <2>1. NewName \in ReplyChannels \ used /\ call[s] = Idle
    BY <1>1, FreshName DEF Manage
  <2>2. Proper(operation, m, want) /\ Timely(m, want) /\ m.ReplyChannel = NewName
    BY ManagementRequest DEF ManagementOps
  <2>3. UNCHANGED <<closed, readerVars>>
    BY <1>1 DEF Manage
  <2>4. (\E code : Refuse(s, code)) \/ SendRequest(s, operation, m, want)
    BY <1>1 DEF Manage
  <2> HIDE DEF m, want
  <2> QED BY ONLY <2>1, <2>2, <2>3, <2>4, SendRequestStep DEF Refusal
<1>2. ASSUME NEW type, NEW search, ListChannels(s, type, search)
      PROVE  (Refusal(s) \/ Begins(s)) /\ call[s] = Idle
  <2> DEFINE l == [BuildChannelManagementRequest(NoText, type, "list-channels", NewName)
                     EXCEPT !.Tags.search = search]
             want == [timeout |-> 10000, name |-> search, type |-> type]
  <2>1. NewName \in ReplyChannels \ used /\ call[s] = Idle
    BY <1>2, FreshName DEF ListChannels
  <2>2. Proper("list-channels", l, want) /\ Timely(l, want) /\ l.ReplyChannel = NewName
    BY ListRequest
  <2>3. UNCHANGED <<closed, readerVars>>
    BY <1>2 DEF ListChannels
  <2>4. (\E code : Refuse(s, code)) \/ SendRequest(s, "list-channels", l, want)
    BY <1>2 DEF ListChannels
  <2> HIDE DEF l, want
  <2> QED BY ONLY <2>1, <2>2, <2>3, <2>4, SendRequestStep DEF Refusal
<1> QED BY <1>1, <1>2 DEF Administer, CreateChannel, DeleteChannel

-----------------------------------------------------------------------------
(***************************************************************************)
(* What is told to callers                                                 *)
(***************************************************************************)

\* AnswerIsHandlers and ManagementTookEffect, of one result: given the answers
\* of handlers, and what the broker has executed.
ToldByHandler(r, answers) ==
  r.op \in {"command", "query"} /\ r.rc # NoText =>
    \E p \in answers :
      IF r.code = "kOk"
      THEN /\ p.Error = NoText /\ p.Executed = r.value.executed
           /\ r.op = "query" => p.Body = r.value.body
           /\ p.ReplyChannel = r.rc \/ (r.op = "query" /\ r.value.cacheHit = 1)
      ELSE p.ReplyChannel = r.rc /\ p.Error # NoText

ToldByBroker(r, executed) ==
  r.code = "kOk" =>
    /\ r.op \in {"create-channel", "delete-channel"} =>
         [rc |-> r.rc, op |-> r.op, name |-> r.want.name, type |-> r.want.type] \in executed
    /\ r.op = "list-channels" => \A c \in r.value : c.type = r.want.type

Told(r, answers, executed) == ToldByHandler(r, answers) /\ ToldByBroker(r, executed)

LEMMA ResultsOneByOne ==
  /\ ResultInv <=> \A s \in Senders : Told(result[s], replies, managed)
  /\ ResultInv' <=> \A s \in Senders : Told(result'[s], replies', managed')
BY DEF ResultInv, AnswerIsHandlers, ManagementTookEffect, ToldByHandler, ToldByBroker, Told

\* What was true of a result stays true: the broker forgets no answer.
LEMMA ToldStays ==
  ASSUME NEW r, NEW a, NEW b, NEW x, NEW y, a \subseteq b, x \subseteq y, Told(r, a, x)
  PROVE  Told(r, b, y)
<1>1. ToldByHandler(r, b)
  BY DEF Told, ToldByHandler
<1>2. ToldByBroker(r, y)
  BY DEF Told, ToldByBroker
<1> QED BY <1>1, <1>2 DEF Told

\* No call returns.
LEMMA ResultsStay ==
  ASSUME IInv, UNCHANGED result, replies \subseteq replies', managed \subseteq managed'
  PROVE  ResultInv'
<1>1. \A s \in Senders : Told(result[s], replies, managed)
  BY ResultsOneByOne DEF IInv
<1> QED BY <1>1, ResultsOneByOne, ToldStays

\* One call returns x.
LEMMA ResultIs ==
  ASSUME IInv, NEW s \in Senders, NEW x, result' = [result EXCEPT ![s] = x],
         Told(x, replies, managed), UNCHANGED <<replies, managed>>
  PROVE  ResultInv' /\ DOMAIN result' = Senders
<1>1. \A t \in Senders : Told(result[t], replies, managed)
  BY ResultsOneByOne DEF IInv
<1>2. DOMAIN result = Senders BY DEF IInv, TypeOK
<1>3. \A t \in Senders : result'[t] = IF t = s THEN x ELSE result[t]
  BY <1>2
<1> QED BY <1>1, <1>2, <1>3, ResultsOneByOne

\* Refusals, failures and a call that begins tell nothing.
LEMMA NothingTold ==
  ASSUME NEW r, NEW a, NEW x, r.op \in {"refused", "failed", "none"}
  PROVE  Told(r, a, x)
BY DEF Told, ToldByHandler, ToldByBroker

-----------------------------------------------------------------------------
(***************************************************************************)
(* The steps                                                               *)
(***************************************************************************)

\* A call is over: with a response, an error or a refusal.
LEMMA CallEnds ==
  ASSUME IInv, NEW s \in Senders, call' = [call EXCEPT ![s] = Idle],
         UNCHANGED <<used, readerVars, brokerVars>>
  PROVE  CallInv' /\ AnswerInv' /\ ReaderInv' /\ CacheInv'
         /\ (DOMAIN result' = Senders => TypeOK')
<1>1. DOMAIN call = Senders BY DEF IInv, TypeOK
<1>2. DOMAIN call' = Senders /\ \A t \in Senders : call'[t] = IF t = s THEN Idle ELSE call[t]
  BY <1>1
<1>3. /\ DOMAIN Idle = CallFields /\ Idle.at = "client"
  BY DEF Idle, CallFields
<1>4. \A t \in Senders : Busy(t)' => t # s /\ Busy(t)
  BY <1>2, <1>3 DEF Busy
<1>5. CallInv'
  BY <1>2, <1>3, <1>4 DEF IInv, CallInv, Busy
<1>6. AnswerInv'
  BY <1>2, <1>3 DEF IInv, AnswerInv, BrokersAnswer, HandlersAnswer, brokerVars
<1>7. ReaderInv' /\ CacheInv'
  BY DEF IInv, ReaderInv, CacheInv, HandlersSeeValidRequests, readerVars, brokerVars
<1>8. DOMAIN result' = Senders => TypeOK'
  BY <1>2 DEF IInv, TypeOK, readerVars, brokerVars
<1> QED BY <1>5, <1>6, <1>7, <1>8

\* Return with a result that is true.
LEMMA ReturnStep ==
  ASSUME IInv, NEW s \in Senders, NEW op, NEW code, NEW rc, NEW value, Return(s, op, code, rc, value),
         UNCHANGED <<used, readerVars, brokerVars>>,
         Told([op |-> op, want |-> call[s].want, code |-> code, rc |-> rc, value |-> value],
              replies, managed)
  PROVE  IInv'
<1>1. UNCHANGED <<replies, managed>> BY DEF brokerVars
<1>2. ResultInv' /\ DOMAIN result' = Senders
  BY <1>1, ResultIs DEF Return
<1>3. CallInv' /\ AnswerInv' /\ ReaderInv' /\ CacheInv' /\ TypeOK'
  BY <1>2, CallEnds DEF Return
<1> QED BY <1>2, <1>3 DEF IInv

LEMMA RefusalStep == ASSUME IInv, NEW s \in Senders, Refusal(s) PROVE IInv'
<1>1. PICK code : Refuse(s, code) BY DEF Refusal
<1>2. Return(s, "refused", code, NoText, <<>>) /\ UNCHANGED <<used, readerVars, brokerVars>>
  BY <1>1 DEF Refuse, Refusal
<1> DEFINE x == [op |-> "refused", want |-> call[s].want, code |-> code, rc |-> NoText, value |-> <<>>]
<1>3. x.op \in {"refused", "failed", "none"} OBVIOUS
<1>4. Told(x, replies, managed) BY ONLY <1>3, NothingTold
<1> QED BY <1>2, <1>4, ReturnStep

LEMMA FailStep == ASSUME IInv, NEW s \in Senders, NEW code, Fail(s, code) PROVE IInv'
<1> DEFINE x == [op |-> "failed", want |-> call[s].want, code |-> MapGrpcCode(code), rc |-> NoText,
                 value |-> <<>>]
<1>1. /\ Return(s, "failed", MapGrpcCode(code), NoText, <<>>)
      /\ UNCHANGED <<used, readerVars, brokerVars>>
  BY DEF Fail
<1>2. x.op \in {"refused", "failed", "none"} OBVIOUS
<1>3. Told(x, replies, managed) BY ONLY <1>2, NothingTold
<1> QED BY <1>1, <1>3, ReturnStep

\* What SendCommand, SendQuery and the management calls make of an answer is true.
LEMMA ReceiveResponseStep == ASSUME IInv, NEW s \in Senders, ReceiveResponse(s) PROVE IInv'
<1> DEFINE a == call[s].answer
           op == call[s].op
           Result(o, code, value) == [op |-> o, want |-> call[s].want, code |-> code,
                                      rc |-> a.ReplyChannel, value |-> value]
<1>1. /\ call[s].at = "answered" /\ UNCHANGED <<used, readerVars, brokerVars>>
      /\ op \in {"command", "query"} \cup ManagementOps
      /\ IF op \in ManagementOps THEN BrokersAnswer(op, call[s].want, a, managed) ELSE HandlersAnswer(op, a, replies)
  BY DEF ReceiveResponse, IInv, CallInv, AnswerInv, Busy, Proper
<1>2. CASE op = "command"
  <2>1. a \in replies
    BY <1>1, <1>2 DEF HandlersAnswer, ManagementOps
  <2>2. CASE a.Error # NoText
    <3>1. Return(s, "command", "kFatal", a.ReplyChannel, <<>>)
      BY <1>2, <2>2 DEF ReceiveResponse, CommandResult
    <3>2. Told(Result("command", "kFatal", <<>>), replies, managed)
      BY <2>1, <2>2 DEF Told, ToldByHandler, ToldByBroker
    <3> QED BY <1>1, <3>1, <3>2, ReturnStep
  <2>3. CASE a.Error = NoText
    <3> DEFINE v == CommandResponseFromProto(a)
    <3>1. Return(s, "command", "kOk", a.ReplyChannel, v)
      BY <1>2, <2>3 DEF ReceiveResponse, CommandResult
    <3>2. v.executed = a.Executed
      BY DEF CommandResponseFromProto
    <3> HIDE DEF v
    <3>3. Told(Result("command", "kOk", v), replies, managed)
      BY <2>1, <2>3, <3>2 DEF Told, ToldByHandler, ToldByBroker
    <3> QED BY <1>1, <3>1, <3>3, ReturnStep
  <2> QED BY <2>2, <2>3
<1>3. CASE op = "query"
  <2>1. HandlersAnswer("query", a, replies)
    BY <1>1, <1>3 DEF ManagementOps
  <2>2. CASE a.Error # NoText
    <3>1. Return(s, "query", "kFatal", a.ReplyChannel, <<>>)
      BY <1>3, <2>2 DEF ReceiveResponse, QueryResult
    <3>2. Told(Result("query", "kFatal", <<>>), replies, managed)
      BY <2>1, <2>2 DEF Told, ToldByHandler, ToldByBroker, HandlersAnswer
    <3> QED BY <1>1, <3>1, <3>2, ReturnStep
  <2>3. CASE a.Error = NoText
    <3> DEFINE v == QueryResponseFromProto(a)
    <3>1. Return(s, "query", "kOk", a.ReplyChannel, v)
      BY <1>3, <2>3 DEF ReceiveResponse, QueryResult
    <3>2. v.executed = a.Executed /\ v.cacheHit = a.CacheHit /\ v.body = a.Body
      BY DEF QueryResponseFromProto
    <3> HIDE DEF v
    <3>3. Told(Result("query", "kOk", v), replies, managed)
      BY <2>1, <2>3, <3>2 DEF Told, ToldByHandler, ToldByBroker, HandlersAnswer
    <3> QED BY <1>1, <3>1, <3>3, ReturnStep
  <2> QED BY <2>2, <2>3
<1>4. CASE op \in ManagementOps
  <2> DEFINE list == ParseChannelListResponse(a.Body)
  <2>1. BrokersAnswer(op, call[s].want, a, managed) /\ ManagementResult(s, a)
    BY <1>1, <1>4 DEF ReceiveResponse, ManagementOps
  <2>2. CASE a.Error # NoText
    <3>1. Return(s, op, "kFatal", a.ReplyChannel, <<>>)
      BY <2>1, <2>2 DEF ManagementResult
    <3>2. Told(Result(op, "kFatal", <<>>), replies, managed)
      BY <1>4 DEF Told, ToldByHandler, ToldByBroker, ManagementOps
    <3> QED BY <1>1, <3>1, <3>2, ReturnStep
  <2>3. CASE a.Error = NoText /\ op = "list-channels"
    <3> HIDE DEF list
    <3>1. Return(s, op, list.code, a.ReplyChannel, list.items)
      BY <2>1, <2>3 DEF ManagementResult, list
    <3>2. \A c \in list.items : c.type = call[s].want.type
      BY <2>1, <2>3 DEF BrokersAnswer, list
    <3>3. Told(Result(op, list.code, list.items), replies, managed)
      BY <2>3, <3>2 DEF Told, ToldByHandler, ToldByBroker
    <3> QED BY <1>1, <3>1, <3>3, ReturnStep
  <2>4. CASE a.Error = NoText /\ op \in {"create-channel", "delete-channel"}
    <3>1. Return(s, op, "kOk", a.ReplyChannel, <<>>)
      BY <2>1, <2>4 DEF ManagementResult
    <3>2. [rc |-> a.ReplyChannel, op |-> op, name |-> call[s].want.name, type |-> call[s].want.type] \in managed
      BY <2>1, <2>4 DEF BrokersAnswer
    <3>3. Told(Result(op, "kOk", <<>>), replies, managed)
      BY <2>4, <3>2 DEF Told, ToldByHandler, ToldByBroker
    <3> QED BY <1>1, <3>1, <3>3, ReturnStep
  <2> QED BY <1>4, <2>2, <2>3, <2>4 DEF ManagementOps
<1> QED BY <1>1, <1>2, <1>3, <1>4

\* A call begins: its request has passed the checks and its name is new.
LEMMA BeginsStep == ASSUME IInv, NEW s \in Senders, Begins(s) PROVE IInv'
<1>1. PICK op, request, want :
        /\ Begun(s, op, request, want) /\ Proper(op, request, want)
        /\ request.ReplyChannel \in ReplyChannels \ used
  BY DEF Begins
<1> DEFINE k == [op |-> op, want |-> want, request |-> request, at |-> "broker", answer |-> None]
<1>2. /\ call' = [call EXCEPT ![s] = k] /\ used' = used \cup {request.ReplyChannel}
      /\ result' = [result EXCEPT ![s] = NoResult]
      /\ UNCHANGED <<sub, inbox, held, replies, cache, managed>>
  BY <1>1 DEF Begun, brokerVars, readerVars
<1>3. /\ DOMAIN k = CallFields /\ k.at = "broker" /\ k.op = op /\ k.request = request /\ k.want = want
  BY DEF CallFields
<1> HIDE DEF k
<1>4. DOMAIN call' = Senders /\ \A t \in Senders : call'[t] = IF t = s THEN k ELSE call[t]
  BY <1>2 DEF IInv, TypeOK
<1>5. ResultInv' /\ DOMAIN result' = Senders
  <2>1. NoResult.op \in {"refused", "failed", "none"} BY DEF NoResult
  <2>2. Told(NoResult, replies, managed) BY ONLY <2>1, NothingTold
  <2> QED BY <1>2, <2>2, ResultIs
<1>6. TypeOK'
  BY <1>1, <1>2, <1>4, <1>5 DEF IInv, TypeOK
<1>7. CallInv'
  <2>1. \A t \in Senders : t # s => (Busy(t)' <=> Busy(t)) /\ call'[t] = call[t]
    BY <1>4 DEF Busy
  <2>2. \A t \in Senders : t # s /\ Busy(t) => call[t].request.ReplyChannel \in used
    BY DEF IInv, CallInv
  <2>3. call'[s] = k /\ Busy(s)'
    BY <1>3, <1>4 DEF Busy
  <2>4. ASSUME NEW t \in Senders, t # s
        PROVE  /\ DOMAIN call'[t] = CallFields
               /\ call'[t].at \in {"client", "broker", "handler", "answered"}
               /\ ~Busy(t)' => call'[t] = Idle
               /\ Busy(t)' =>
                    /\ Proper(call'[t].op, call'[t].request, call'[t].want)
                    /\ call'[t].request.ReplyChannel \in used'
                    /\ call'[t].at = "handler" => call'[t].op \in {"command", "query"}
                    /\ \A u \in Senders \ {t} :
                         Busy(u)' => call'[u].request.ReplyChannel # call'[t].request.ReplyChannel
    BY <1>1, <1>2, <1>3, <2>1, <2>2, <2>3, <2>4 DEF IInv, CallInv
  <2>5. \A u \in Senders \ {s} :
          Busy(u)' => call'[u].request.ReplyChannel # call'[s].request.ReplyChannel
    BY <1>1, <1>3, <2>1, <2>2, <2>3
  <2> QED BY <1>1, <1>2, <1>3, <2>3, <2>4, <2>5 DEF CallInv
<1>8. AnswerInv'
  BY <1>2, <1>3, <1>4 DEF IInv, AnswerInv, BrokersAnswer, HandlersAnswer
<1>9. ReaderInv' /\ CacheInv'
  BY <1>2 DEF IInv, ReaderInv, CacheInv, HandlersSeeValidRequests
<1> QED BY <1>5, <1>6, <1>7, <1>8, <1>9 DEF IInv

\* The broker moves a call along: only at and answer of s change.
LEMMA CallMoves ==
  ASSUME IInv, NEW s \in Senders, NEW at \in {"handler", "answered"}, Busy(s),
         DOMAIN call' = Senders,
         \A t \in Senders : t # s => call'[t] = call[t],
         DOMAIN call'[s] = CallFields, call'[s].at = at,
         call'[s].op = call[s].op, call'[s].want = call[s].want, call'[s].request = call[s].request,
         at = "handler" => call[s].op \in {"command", "query"},
         UNCHANGED used
  PROVE  CallInv'
<1>1. \A t \in Senders : /\ Busy(t)' <=> Busy(t)
                         /\ call'[t].request = call[t].request
                         /\ call'[t].op = call[t].op /\ call'[t].want = call[t].want
  BY DEF Busy
<1> QED BY <1>1 DEF IInv, CallInv

LEMMA DeliverStep == ASSUME IInv, NEW s \in Senders, NEW r \in Readers, Deliver(s, r) PROVE IInv'
<1>1. /\ call[s].at = "broker" /\ Busy(s) /\ sub[r] = call[s].request.Channel
      /\ inbox' = [inbox EXCEPT ![r] = Append(@, call[s].request)]
      /\ call' = [call EXCEPT ![s].at = "handler"]
      /\ UNCHANGED <<used, result, sub, held, replies, cache, managed>>
  BY DEF Deliver, InFlight, Busy, brokerVars
<1>2. DOMAIN call[s] = CallFields /\ Proper(call[s].op, call[s].request, call[s].want)
      /\ call[s].request.ReplyChannel \in used
  BY <1>1 DEF IInv, CallInv
<1>3. call[s].op \in {"command", "query"} /\ call[s].request \in AppRequests /\ Valid(call[s].request)
  <2>1. sub[r] \in Channels \cup {DefaultChannel, NoText} BY DEF IInv, TypeOK
  <2>2. call[s].request.Channel # kInternalChannel
    BY <1>1, <2>1, NamesAssumption, SomeText
  <2> QED BY <1>2, <2>2 DEF Proper
<1>4. /\ DOMAIN call' = Senders /\ \A t \in Senders : t # s => call'[t] = call[t]
      /\ DOMAIN call'[s] = CallFields /\ call'[s].at = "handler" /\ call'[s].op = call[s].op
      /\ call'[s].want = call[s].want /\ call'[s].request = call[s].request
  BY <1>1, <1>2 DEF IInv, TypeOK, CallFields
<1>5. CallInv'
  BY <1>1, <1>3, <1>4, CallMoves
<1>6. AnswerInv'
  BY <1>1, <1>4 DEF IInv, AnswerInv, BrokersAnswer, HandlersAnswer
<1>7. inbox' \in [Readers -> Seq(AppRequests)]
  BY <1>1, <1>3 DEF IInv, TypeOK
<1>8. TypeOK'
  BY <1>1, <1>4, <1>7 DEF IInv, TypeOK
<1>9. ReaderInv'
  <2>1. ASSUME NEW q \in Readers, NEW i \in DOMAIN inbox'[q]
        PROVE  Valid(inbox'[q][i]) /\ inbox'[q][i].ReplyChannel \in used
    <3>1. inbox[q] \in Seq(AppRequests) BY DEF IInv, TypeOK
    <3>2. CASE q # r
      BY <1>1, <2>1, <3>2 DEF IInv, TypeOK, ReaderInv
    <3>3. CASE q = r
      <4>1. inbox'[q] = Append(inbox[q], call[s].request)
        BY <1>1, <3>3 DEF IInv, TypeOK
      <4>2. \/ i \in DOMAIN inbox[q] /\ inbox'[q][i] = inbox[q][i]
            \/ inbox'[q][i] = call[s].request
        BY <1>3, <2>1, <3>1, <4>1
      <4> QED BY <1>2, <1>3, <4>2 DEF IInv, ReaderInv
    <3> QED BY <3>2, <3>3
  <2> QED BY <1>1, <2>1 DEF IInv, ReaderInv, HandlersSeeValidRequests
<1>10. CacheInv' /\ ResultInv'
  BY <1>1, ResultsStay DEF IInv, CacheInv
<1> QED BY <1>5, <1>6, <1>8, <1>9, <1>10 DEF IInv

\* What Answered(s, response) does to the calls.
LEMMA AnsweredCall ==
  ASSUME IInv, NEW s \in Senders, InFlight(s), NEW response, Answered(s, response), UNCHANGED used
  PROVE  /\ CallInv' /\ DOMAIN call' = Senders
         /\ \A t \in Senders : t # s => call'[t] = call[t]
         /\ call'[s].at = "answered" /\ call'[s].answer = response /\ call'[s].op = call[s].op
         /\ call'[s].want = call[s].want /\ call'[s].request = call[s].request
<1>1. Busy(s) /\ DOMAIN call[s] = CallFields
  BY DEF InFlight, Busy, IInv, CallInv
<1>2. /\ DOMAIN call' = Senders /\ \A t \in Senders : t # s => call'[t] = call[t]
      /\ DOMAIN call'[s] = CallFields /\ call'[s].at = "answered" /\ call'[s].answer = response
      /\ call'[s].op = call[s].op /\ call'[s].want = call[s].want /\ call'[s].request = call[s].request
  BY <1>1 DEF Answered, IInv, TypeOK, CallFields
<1>3. CallInv'
  BY <1>1, <1>2, CallMoves
<1> QED BY <1>2, <1>3

LEMMA ServeFromCacheStep == ASSUME IInv, NEW s \in Senders, ServeFromCache(s) PROVE IInv'
<1> DEFINE Copy(p) == [p EXCEPT !.RequestID = call[s].request.RequestID,
                                !.ReplyChannel = call[s].request.ReplyChannel, !.CacheHit = 1]
<1>1. PICK e \in CacheEntries(s) : Answered(s, Copy(e.response))
  BY DEF ServeFromCache
<1>2. InFlight(s) /\ UNCHANGED <<used, result, sub, inbox, held, replies, cache, managed>>
  BY DEF ServeFromCache, readerVars, brokerVars
<1>3. /\ e.key = call[s].request.CacheKey /\ e.key # NoText
      /\ e.response \in replies /\ e.response.Error = NoText /\ DOMAIN e.response = ReplyFields
  BY <1>1 DEF CacheEntries, IInv, CacheInv, TypeOK
<1>4. call[s].op = "query"
  BY <1>2, <1>3 DEF IInv, CallInv, Busy, InFlight, Proper
<1> DEFINE a == Copy(e.response)
<1>5. /\ a.ReplyChannel = call[s].request.ReplyChannel /\ a.CacheHit = 1 /\ a.Error = NoText
      /\ a.Executed = e.response.Executed /\ a.Body = e.response.Body
  BY <1>3 DEF ReplyFields
<1> HIDE DEF a
<1>6. Answered(s, a) BY <1>1 DEF a
<1>7. /\ CallInv' /\ DOMAIN call' = Senders
      /\ \A t \in Senders : t # s => call'[t] = call[t]
      /\ call'[s].answer = a /\ call'[s].op = call[s].op /\ call'[s].request = call[s].request
  BY <1>2, <1>6, AnsweredCall
<1>8. AnswerInv'
  <2>1. HandlersAnswer("query", a, replies')
    BY <1>2, <1>3, <1>5 DEF HandlersAnswer
  <2> QED BY <1>2, <1>4, <1>5, <1>7, <2>1 DEF IInv, AnswerInv, BrokersAnswer, HandlersAnswer, ManagementOps
<1>9. TypeOK' /\ ReaderInv' /\ CacheInv'
  BY <1>2, <1>7 DEF IInv, TypeOK, ReaderInv, CacheInv, HandlersSeeValidRequests
<1>10. ResultInv'
  BY <1>2, ResultsStay
<1> QED BY <1>7, <1>8, <1>9, <1>10 DEF IInv

LEMMA ExecuteStep == ASSUME IInv, NEW s \in Senders, Execute(s) PROVE IInv'
<1> DEFINE request == call[s].request
           op == call[s].op
           want == call[s].want
           list == {d \in channels : d.type = request.Tags.type}
           Response(error, body) == [ReplyChannel |-> request.ReplyChannel, Error |-> error, Body |-> body]
           done == [rc |-> request.ReplyChannel, op |-> request.Metadata,
                    name |-> request.Tags.channel, type |-> request.Tags.type]
<1>1. /\ InFlight(s) /\ request.Channel = kInternalChannel
      /\ UNCHANGED <<used, result, sub, inbox, held, replies, cache>>
  BY DEF Execute, readerVars
<1>2. /\ op \in ManagementOps /\ request.Metadata = op /\ request.Tags.type = want.type
      /\ op # "list-channels" => request.Tags.channel = want.name
  <2>1. Proper(op, request, want)
    BY <1>1 DEF IInv, CallInv, Busy, InFlight
  <2>2. request \in AppRequests => request.Channel \in Channels \cup {DefaultChannel}
    BY DEF AppRequests
  <2> QED BY <1>1, <2>1, <2>2, NamesAssumption DEF Proper
<1>3. ASSUME NEW a, Answered(s, a), a.ReplyChannel = request.ReplyChannel, managed \subseteq managed',
             BrokersAnswer(op, want, a, managed')
      PROVE  IInv'
  <2>1. /\ CallInv' /\ DOMAIN call' = Senders
        /\ \A t \in Senders : t # s => call'[t] = call[t]
        /\ call'[s].answer = a /\ call'[s].op = op /\ call'[s].want = want /\ call'[s].request = request
    BY <1>1, <1>3, AnsweredCall
  <2>2. AnswerInv'
    BY <1>1, <1>2, <1>3, <2>1 DEF IInv, AnswerInv, BrokersAnswer, HandlersAnswer
  <2>3. TypeOK' /\ ReaderInv' /\ CacheInv'
    BY <1>1, <2>1 DEF IInv, TypeOK, ReaderInv, CacheInv, HandlersSeeValidRequests
  <2>4. ResultInv'
    BY <1>1, <1>3, ResultsStay
  <2> QED BY <2>1, <2>2, <2>3, <2>4 DEF IInv
<1>4. CASE Answered(s, Response("refused", [json |-> "empty"])) /\ UNCHANGED managed
  <2> DEFINE a == Response("refused", [json |-> "empty"])
  <2>1. a.ReplyChannel = request.ReplyChannel /\ a.Error # NoText
    BY SomeText
  <2> HIDE DEF a
  <2>2. BrokersAnswer(op, want, a, managed')
    BY <2>1 DEF BrokersAnswer
  <2> QED BY <1>3, <1>4, <2>1, <2>2 DEF a
<1>5. CASE /\ managed' = managed \cup {done}
           /\ \E json : Answered(s, Response(NoText, [json |-> json, items |-> list]))
  <2>1. PICK json : Answered(s, Response(NoText, [json |-> json, items |-> list]))
    BY <1>5
  <2> DEFINE body == [json |-> json, items |-> list]
             a == Response(NoText, body)
  <2>2. a.ReplyChannel = request.ReplyChannel /\ a.Body = body
    OBVIOUS
  <2>3. \A c \in ParseChannelListResponse(body).items : c.type = want.type
    BY <1>2 DEF ParseChannelListResponse
  <2>4. op # "list-channels" => done = [rc |-> request.ReplyChannel, op |-> op,
                                        name |-> want.name, type |-> want.type]
    BY <1>2
  <2>5. done \in managed' BY <1>5
  <2> HIDE DEF a, body, done
  <2>6. BrokersAnswer(op, want, a, managed')
    BY <2>2, <2>3, <2>4, <2>5 DEF BrokersAnswer
  <2>7. Answered(s, a) BY <2>1 DEF a, body
  <2> QED BY <1>3, <1>5, <2>2, <2>6, <2>7
<1> QED BY <1>4, <1>5 DEF Execute

\* A response reaches the call on its reply channel, if that still waits.
LEMMA SendResponseStep ==
  ASSUME IInv, NEW response, DOMAIN response = ReplyFields, SendResponse(response)
  PROVE  IInv'
<1> DEFINE waiting == {s \in Senders : /\ call[s].request.ReplyChannel = response.ReplyChannel
                                      /\ call[s].at = "handler"}
           Given(s) == [call[s] EXCEPT !.at = "answered", !.answer = response]
<1>1. /\ replies' = replies \cup {response}
      /\ call' = [s \in Senders |-> IF s \in waiting THEN Given(s) ELSE call[s]]
      /\ UNCHANGED <<used, result, sub, inbox, held, managed>>
  BY DEF SendResponse, Accept, readerVars
<1>2. \A s \in waiting :
        /\ DOMAIN Given(s) = CallFields /\ Given(s).at = "answered" /\ Given(s).answer = response
        /\ Given(s).op = call[s].op /\ Given(s).want = call[s].want /\ Given(s).request = call[s].request
  BY DEF IInv, CallInv, CallFields
<1>3. /\ DOMAIN call' = Senders
      /\ \A s \in Senders : s \notin waiting => call'[s] = call[s]
      /\ \A s \in waiting : call'[s] = Given(s)
  BY <1>1
<1>4. \A s \in waiting : /\ call[s].request.ReplyChannel = response.ReplyChannel
                         /\ Busy(s) /\ call[s].op \in {"command", "query"}
  BY DEF IInv, CallInv, Busy
<1>5. waiting \subseteq Senders OBVIOUS
<1> HIDE DEF waiting, Given
<1>6. CallInv'
  <2>1. \A s \in Senders : /\ Busy(s)' <=> Busy(s)
                           /\ call'[s].request = call[s].request /\ call'[s].op = call[s].op
                           /\ call'[s].want = call[s].want /\ DOMAIN call'[s] = CallFields
                           /\ call'[s].at \in {"client", "broker", "handler", "answered"}
                           /\ call'[s].at = "handler" => call[s].at = "handler"
                           /\ ~Busy(s) => call'[s] = call[s]
    BY <1>2, <1>3, <1>4, <1>5 DEF Busy, IInv, CallInv
  <2> QED BY <1>1, <2>1 DEF IInv, CallInv
<1>7. AnswerInv'
  <2> SUFFICES ASSUME NEW s \in Senders, call'[s].at = "answered"
               PROVE  /\ call'[s].answer.ReplyChannel = call'[s].request.ReplyChannel
                      /\ IF call'[s].op \in ManagementOps
                         THEN BrokersAnswer(call'[s].op, call'[s].want, call'[s].answer, managed')
                         ELSE HandlersAnswer(call'[s].op, call'[s].answer, replies')
    BY DEF AnswerInv
  <2>1. CASE s \in waiting
    BY <1>1, <1>2, <1>3, <1>4, <2>1 DEF HandlersAnswer, ManagementOps
  <2>2. CASE s \notin waiting
    BY <1>1, <1>3, <2>2 DEF IInv, AnswerInv, HandlersAnswer
  <2> QED BY <2>1, <2>2
<1>8. TypeOK' /\ ReaderInv'
  BY <1>1, <1>3 DEF IInv, TypeOK, ReaderInv, HandlersSeeValidRequests
<1>9. CacheInv'
  <2>1. ASSUME NEW e \in cache'
        PROVE  e.key # NoText /\ e.response \in replies' /\ e.response.Error = NoText
    <3>1. \/ e \in cache
          \/ \E s \in Senders : /\ e = [key |-> call[s].request.CacheKey, response |-> response]
                                /\ call[s].request.CacheKey # NoText /\ response.Error = NoText
      BY <2>1 DEF SendResponse, Accept
    <3> QED BY <1>1, <3>1 DEF IInv, CacheInv
  <2> QED BY <2>1 DEF CacheInv
<1>10. ResultInv'
  BY <1>1, ResultsStay
<1> QED BY <1>6, <1>7, <1>8, <1>9, <1>10 DEF IInv

LEMMA ReplyStep == ASSUME IInv, Reply PROVE IInv'
<1>1. ASSUME NEW m PROVE DOMAIN CommandReplyToProto(m) = ReplyFields /\ DOMAIN QueryReplyToProto(m) = ReplyFields
  BY DEF CommandReplyToProto, QueryReplyToProto, ReplyFields
<1>2. \E m : SendResponse(CommandReplyToProto(m)) \/ SendResponse(QueryReplyToProto(m))
  BY DEF Reply, SendCommandResponse, SendQueryResponse
<1> QED BY <1>1, <1>2, SendResponseStep

-----------------------------------------------------------------------------
\* The steps of subscriptions: sub, inbox and held change.
LEMMA ReaderStep ==
  ASSUME IInv, UNCHANGED <<used, call, result, brokerVars>>,
         sub' \in [Readers -> Channels \cup {DefaultChannel, NoText}],
         inbox' \in [Readers -> Seq(AppRequests)],
         ReaderInv'
  PROVE  IInv'
<1>1. TypeOK' /\ CacheInv'
  BY DEF IInv, TypeOK, CacheInv, brokerVars
<1>2. CallInv' /\ AnswerInv'
  BY DEF IInv, CallInv, Busy, AnswerInv, brokerVars
<1>3. ResultInv'
  BY ResultsStay DEF brokerVars
<1> QED BY <1>1, <1>2, <1>3 DEF IInv

LEMMA SubscribeStep == ASSUME IInv, NEW r \in Readers, NEW channel \in Channels, Subscribe(r, channel) PROVE IInv'
<1>1. /\ sub' = [sub EXCEPT ![r] = FirstNonEmpty(channel, DefaultChannel)]
      /\ UNCHANGED <<used, call, result, inbox, held, brokerVars>>
  BY DEF Subscribe
<1>2. FirstNonEmpty(channel, DefaultChannel) \in Channels \cup {DefaultChannel, NoText}
  BY DEF FirstNonEmpty
<1>3. sub' \in [Readers -> Channels \cup {DefaultChannel, NoText}]
  BY <1>1, <1>2 DEF IInv, TypeOK
<1>4. ReaderInv' /\ inbox' \in [Readers -> Seq(AppRequests)]
  BY <1>1 DEF IInv, TypeOK, ReaderInv, HandlersSeeValidRequests
<1> QED BY <1>1, <1>3, <1>4, ReaderStep

LEMMA StreamBreaksStep == ASSUME IInv, NEW r \in Readers, StreamBreaks(r) PROVE IInv'
<1>1. /\ inbox' = [inbox EXCEPT ![r] = <<>>]
      /\ UNCHANGED <<used, call, result, sub, held, brokerVars>>
  BY DEF StreamBreaks
<1>2. inbox' \in [Readers -> Seq(AppRequests)]
  BY <1>1 DEF IInv, TypeOK
<1>3. \A q \in Readers : \A i \in DOMAIN inbox'[q] : i \in DOMAIN inbox[q] /\ inbox'[q][i] = inbox[q][i]
  BY <1>1 DEF IInv, TypeOK
<1>4. ReaderInv'
  BY <1>1, <1>3 DEF IInv, ReaderInv, HandlersSeeValidRequests
<1> QED BY <1>1, <1>2, <1>4, ReaderStep DEF IInv, TypeOK

LEMMA ReadStep == ASSUME IInv, NEW r \in Readers, Read(r) PROVE IInv'
<1> DEFINE q == Head(inbox[r])
           c == [by |-> "Command", type |-> q.RequestTypeData, got |-> CommandReceiveFromProto(q)]
           d == [by |-> "Query", type |-> q.RequestTypeData, got |-> QueryReceiveFromProto(q)]
<1>1. /\ inbox[r] # <<>> /\ inbox' = [inbox EXCEPT ![r] = Tail(@)]
      /\ \/ held' = held
         \/ q.RequestTypeData = "Command" /\ held' = held \cup {c}
         \/ q.RequestTypeData = "Query" /\ held' = held \cup {d}
      /\ UNCHANGED <<used, call, result, sub, brokerVars>>
  BY DEF Read, ReadCommand, ReadQuery
<1>2. inbox[r] \in Seq(AppRequests) BY DEF IInv, TypeOK
<1>3. /\ Tail(inbox[r]) \in Seq(AppRequests)
      /\ 1 \in DOMAIN inbox[r] /\ q = inbox[r][1]
      /\ \A i \in DOMAIN Tail(inbox[r]) : i + 1 \in DOMAIN inbox[r] /\ Tail(inbox[r])[i] = inbox[r][i + 1]
  BY <1>1, <1>2
<1>4. inbox' \in [Readers -> Seq(AppRequests)]
  BY <1>1, <1>3 DEF IInv, TypeOK
<1>5. Valid(q) /\ q.ReplyChannel \in used
  BY <1>3 DEF IInv, ReaderInv
<1> HIDE DEF q
<1>6. /\ c.by = "Command" /\ c.type = q.RequestTypeData /\ d.by = "Query" /\ d.type = q.RequestTypeData
      /\ c.got.channel = q.Channel /\ c.got.body = q.Body /\ c.got.metadata = q.Metadata
      /\ c.got.id = q.RequestID /\ c.got.responseTo = q.ReplyChannel
      /\ d.got.channel = q.Channel /\ d.got.body = q.Body /\ d.got.metadata = q.Metadata
      /\ d.got.id = q.RequestID /\ d.got.responseTo = q.ReplyChannel
  BY DEF CommandReceiveFromProto, QueryReceiveFromProto
<1> HIDE DEF c, d
<1>7. HandlersSeeValidRequests'
  BY <1>1, <1>5, <1>6 DEF IInv, ReaderInv, HandlersSeeValidRequests, Valid
<1>8. ASSUME NEW p \in Readers, NEW i \in DOMAIN inbox'[p]
      PROVE  Valid(inbox'[p][i]) /\ inbox'[p][i].ReplyChannel \in used
  <2>1. CASE p # r
    BY <1>1, <1>8, <2>1 DEF IInv, TypeOK, ReaderInv
  <2>2. CASE p = r
    <3>1. inbox'[p] = Tail(inbox[r]) BY <1>1, <2>2 DEF IInv, TypeOK
    <3> QED BY <1>3, <1>8, <3>1 DEF IInv, ReaderInv
  <2> QED BY <2>1, <2>2
<1>9. ReaderInv'
  BY <1>1, <1>7, <1>8 DEF ReaderInv
<1> QED BY <1>1, <1>4, <1>9, ReaderStep DEF IInv, TypeOK

LEMMA InitOK == Init => IInv
<1> SUFFICES ASSUME Init PROVE IInv
  OBVIOUS
<1>1. \A s \in Senders : call[s] = Idle /\ result[s] = NoResult
  BY DEF Init
<1>2. DOMAIN Idle = CallFields /\ Idle.at = "client" /\ NoResult.op = "none"
  BY DEF Idle, CallFields, NoResult
<1>3. TypeOK
  BY DEF Init, TypeOK
<1>4. CallInv /\ AnswerInv
  BY <1>1, <1>2 DEF CallInv, AnswerInv, Busy
<1>5. ReaderInv /\ CacheInv
  BY DEF Init, ReaderInv, CacheInv, HandlersSeeValidRequests
<1>6. ResultInv
  <2>1. Told(NoResult, replies, managed) BY <1>2, NothingTold
  <2> QED BY <1>1, <2>1, ResultsOneByOne
<1> QED BY <1>3, <1>4, <1>5, <1>6 DEF IInv

LEMMA StepOK == IInv /\ [Next]_vars => IInv'
<1> SUFFICES ASSUME IInv, [Next]_vars PROVE IInv'
  OBVIOUS
<1>0. TypeOK BY DEF IInv
<1>1. ASSUME NEW s \in Senders, Send(s) PROVE IInv'
  BY <1>0, <1>1, SendStep, RefusalStep, BeginsStep
<1>2. ASSUME NEW s \in Senders, ReceiveResponse(s) PROVE IInv'
  BY <1>2, ReceiveResponseStep
<1>3. ASSUME NEW s \in Senders, Deadline(s) \/ CallBreaks(s) PROVE IInv'
  BY <1>3, FailStep DEF Deadline, CallBreaks
<1>4. ASSUME NEW s \in Senders, ServeFromCache(s) \/ Execute(s) PROVE IInv'
  BY <1>4, ServeFromCacheStep, ExecuteStep
<1>5. ASSUME NEW s \in Administrators, Administer(s) PROVE IInv'
  <2>1. s \in Senders BY RequestsAssumption
  <2> QED BY <1>0, <1>5, <2>1, AdministerStep, RefusalStep, BeginsStep
<1>6. ASSUME NEW r \in Readers, NEW channel \in Channels,
             SubscribeToCommands(r, channel) \/ SubscribeToQueries(r, channel)
      PROVE  IInv'
  BY <1>6, SubscribeStep DEF SubscribeToCommands, SubscribeToQueries
<1>7. ASSUME NEW r \in Readers, CommandsReconnect(r) \/ QueriesReconnect(r) PROVE IInv'
  BY <1>7, StreamBreaksStep DEF CommandsReconnect, QueriesReconnect
<1>8. ASSUME NEW r \in Readers, Read(r) PROVE IInv'
  BY <1>8, ReadStep
<1>9. ASSUME NEW s \in Senders, NEW r \in Readers, Deliver(s, r) PROVE IInv'
  BY <1>9, DeliverStep
<1>10. CASE Reply
  BY <1>10, ReplyStep
<1>11. CASE CacheExpires
  <2>1. /\ cache' \subseteq cache
        /\ UNCHANGED <<used, call, result, sub, inbox, held, replies, managed>>
    BY <1>11 DEF CacheExpires, readerVars
  <2>2. TypeOK' /\ CallInv' /\ AnswerInv' /\ ReaderInv' /\ CacheInv'
    BY <2>1 DEF IInv, TypeOK, CallInv, Busy, AnswerInv, ReaderInv, HandlersSeeValidRequests, CacheInv
  <2>3. ResultInv' BY <2>1, ResultsStay
  <2> QED BY <2>2, <2>3 DEF IInv
<1>12. CASE Close \/ UNCHANGED vars
  <2>1. UNCHANGED <<used, call, result, sub, inbox, held, replies, cache, managed>>
    BY <1>12 DEF Close, vars, readerVars, brokerVars
  <2>2. TypeOK' /\ CallInv' /\ AnswerInv' /\ ReaderInv' /\ CacheInv'
    BY <2>1 DEF IInv, TypeOK, CallInv, Busy, AnswerInv, ReaderInv, HandlersSeeValidRequests, CacheInv
  <2>3. ResultInv' BY <2>1, ResultsStay
  <2> QED BY <2>2, <2>3 DEF IInv
<1> QED BY <1>1, <1>2, <1>3, <1>4, <1>5, <1>6, <1>7, <1>8, <1>9, <1>10, <1>11, <1>12 DEF Next

-----------------------------------------------------------------------------
(***************************************************************************)
(* What the theorems about SendRequest rest on: every call that waits has  *)
(* a request that passed the checks and a reply channel no other call has, *)
(* its answer came on that channel and from a handler, from the broker's   *)
(* cache or from the broker's own execution, and what was returned before  *)
(* is still true.                                                          *)
(***************************************************************************)
THEOREM RequestInvariant == Spec => []IInv
BY InitOK, StepOK, PTL DEF Spec

(***************************************************************************)
(* What SendCommand and SendQuery return is what a handler answered to     *)
(* that call, or to the query whose answer the broker kept, whatever late, *)
(* repeated or lost responses there are.                                   *)
(***************************************************************************)
THEOREM AnswerIsHandlersAlways == Spec => []AnswerIsHandlers
<1>1. IInv => AnswerIsHandlers BY DEF IInv, ResultInv
<1> QED BY <1>1, RequestInvariant, PTL

(***************************************************************************)
(* The handlers given to SubscribeToCommands and SubscribeToQueries only   *)
(* see requests of their kind that passed the checks of the sender.        *)
(***************************************************************************)
THEOREM HandlersSeeValidRequestsAlways == Spec => []HandlersSeeValidRequests
<1>1. IInv => HandlersSeeValidRequests BY DEF IInv, ReaderInv
<1> QED BY <1>1, RequestInvariant, PTL

(***************************************************************************)
(* CreateChannel, DeleteChannel and ListChannels succeed only when the     *)
(* broker has executed them with the caller's arguments.                   *)
(***************************************************************************)
THEOREM ManagementTookEffectAlways == Spec => []ManagementTookEffect
<1>1. IInv => ManagementTookEffect BY DEF IInv, ResultInv
<1> QED BY <1>1, RequestInvariant, PTL

\* A step leaves a call its request, ends it, or begins it.
LEMMA RequestStays ==
  ASSUME IInv, [Next]_vars, NEW s \in Senders, call'[s] # Idle
  PROVE  \/ call[s] # Idle /\ call'[s].request = call[s].request /\ call'[s].want = call[s].want
         \/ Begins(s)
<1> DEFINE Goal == \/ /\ call[s] # Idle
                      /\ call'[s].request = call[s].request /\ call'[s].want = call[s].want
                   \/ Begins(s)
<1>0. TypeOK /\ DOMAIN call = Senders BY DEF IInv, TypeOK
<1>1. ASSUME NEW t \in Senders, call' = [call EXCEPT ![t] = Idle] PROVE Goal
  BY <1>0, <1>1
<1>2. ASSUME NEW t \in Senders, Refusal(t) \/ Begins(t) PROVE Goal
  <2>1. CASE Refusal(t)
    BY <1>1, <2>1 DEF Refusal, Refuse, Return
  <2>2. CASE Begins(t) /\ t # s
    BY <1>0, <2>2 DEF Begins, Begun
  <2> QED BY <1>2, <2>1, <2>2
<1>3. CASE \E t \in Senders : Send(t)
  BY <1>0, <1>2, <1>3, SendStep
<1>4. CASE \E t \in Administrators : Administer(t)
  BY <1>0, <1>2, <1>4, AdministerStep, RequestsAssumption
<1>5. CASE \E t \in Senders : ReceiveResponse(t) \/ Deadline(t) \/ CallBreaks(t)
  <2>1. PICK t \in Senders : call' = [call EXCEPT ![t] = Idle]
    BY <1>5 DEF ReceiveResponse, CommandResult, QueryResult, ManagementResult, Deadline, CallBreaks,
                Fail, Return
  <2> QED BY <1>1, <2>1
<1>6. ASSUME NEW t \in Senders, InFlight(t), UNCHANGED used, NEW response, Answered(t, response) PROVE Goal
  <2>1. \A u \in Senders : u # t => call'[u] = call[u]
    BY <1>6, AnsweredCall
  <2>2. call'[t].request = call[t].request /\ call'[t].want = call[t].want
    BY <1>6, AnsweredCall
  <2>3. call[t] # Idle BY <1>6 DEF InFlight, Idle
  <2> QED BY <2>1, <2>2, <2>3
<1>7. CASE \E t \in Senders : ServeFromCache(t) \/ Execute(t)
  <2>1. PICK t \in Senders : InFlight(t) /\ UNCHANGED used /\ \E response : Answered(t, response)
    BY <1>7 DEF ServeFromCache, Execute
  <2> QED BY <1>6, <2>1
<1>8. CASE \E t \in Senders, r \in Readers : Deliver(t, r)
  <2>1. PICK t \in Senders : InFlight(t) /\ call' = [call EXCEPT ![t].at = "handler"]
    BY <1>8 DEF Deliver
  <2>2. DOMAIN call[t] = CallFields /\ call[t] # Idle
    BY <2>1 DEF IInv, CallInv, InFlight, Idle
  <2> QED BY <1>0, <2>1, <2>2 DEF CallFields
<1>9. CASE Reply
  <2>1. PICK response : Accept(response)
    BY <1>9 DEF Reply, SendCommandResponse, SendQueryResponse, SendResponse
  <2>2. \/ call'[s] = call[s]
        \/ call[s].at = "handler" /\ call'[s] = [call[s] EXCEPT !.at = "answered", !.answer = response]
    BY <2>1 DEF Accept
  <2>3. DOMAIN call[s] = CallFields BY DEF IInv, CallInv
  <2>4. call[s].at = "handler" => call[s] # Idle BY DEF Idle
  <2> QED BY <2>2, <2>3, <2>4 DEF CallFields
<1>10. CASE UNCHANGED call
  BY <1>10
<1>11. CASE \E r \in Readers :
              \/ \E channel \in Channels : SubscribeToCommands(r, channel) \/ SubscribeToQueries(r, channel)
              \/ CommandsReconnect(r) \/ QueriesReconnect(r) \/ Read(r)
  <2>1. UNCHANGED call
    BY <1>11 DEF SubscribeToCommands, SubscribeToQueries, Subscribe, CommandsReconnect, QueriesReconnect,
                 StreamBreaks, Read, ReadCommand, ReadQuery
  <2> QED BY <1>10, <2>1
<1>12. CASE CacheExpires \/ Close \/ UNCHANGED vars
  <2>1. UNCHANGED call BY <1>12 DEF CacheExpires, Close, vars
  <2> QED BY <1>10, <2>1
<1> QED BY <1>3, <1>4, <1>5, <1>7, <1>8, <1>9, <1>11, <1>12 DEF Next

(***************************************************************************)
(* The deadline GrpcTransport::SendRequest sets is never longer than the   *)
(* caller asked for, and is what it asked for whenever that fits 32 bits,  *)
(* for every timeout an application can give.                              *)
(***************************************************************************)
THEOREM DeadlineIsAskedAlways == Spec => []DeadlineIsAsked
<1> DEFINE P == \A s \in Senders : call[s] # Idle => Timely(call[s].request, call[s].want)
<1>1. P <=> DeadlineIsAsked
  BY DEF DeadlineIsAsked, Timely
<1>2. Init => P
  BY DEF Init
<1>3. IInv /\ P /\ [Next]_vars => P'
  <2> SUFFICES ASSUME IInv, P, [Next]_vars, NEW s \in Senders, call'[s] # Idle
               PROVE  Timely(call'[s].request, call'[s].want)
    OBVIOUS
  <2>1. CASE call[s] # Idle /\ call'[s].request = call[s].request /\ call'[s].want = call[s].want
    BY <2>1
  <2>2. CASE Begins(s)
    <3>1. PICK op, request, want : Begun(s, op, request, want) /\ Timely(request, want)
      BY <2>2 DEF Begins
    <3>2. call'[s].request = request /\ call'[s].want = want
      BY <3>1 DEF Begun, IInv, TypeOK
    <3> QED BY <3>1, <3>2
  <2> QED BY <2>1, <2>2, RequestStays
<1> QED BY <1>1, <1>2, <1>3, RequestInvariant, PTL DEF Spec
=============================================================================
