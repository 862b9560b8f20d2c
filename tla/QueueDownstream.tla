--------------------------- MODULE QueueDownstream ---------------------------
(***************************************************************************)
(* The queue consumer of kubemq-cpp: QueueDownstreamReceiver with the      *)
(* PollResponses and QueueDownstreamMessages it hands out.                 *)
(*                                                                         *)
(* All share one bidirectional stream and its stream_mu.  Poll writes a    *)
(* Get and reads one response under stream_mu; Ack, Nack and ReQueue, of   *)
(* one message or of a whole response, write a settlement under it and     *)
(* read nothing; Close writes a last request and half-closes.  A message   *)
(* holds the stream weakly: it may be settled while, or after, another     *)
(* thread destroys the receiver.                                           *)
(*                                                                         *)
(* The broker answers every Get once, in order, and hands each message to  *)
(* one transaction at a time; a transaction has the number of its Get.     *)
(***************************************************************************)
EXTENDS Naturals, Sequences, FiniteSets

CONSTANTS
  Users,    \* threads of the application
  Msgs,     \* messages in the queue
  MaxPolls, \* bound: Get requests written
  MaxSettles \* bound: settlements under way at a time

Nobody == "nobody"
Kinds == {"Ack", "Nack", "ReQueue"}

ASSUME QueueDownstreamAssumption ==
  /\ Nobody \notin Users
  /\ MaxPolls \in Nat
  /\ MaxSettles \in Nat

VARIABLES
  receiver,   \* "live", "destroying", "freed"
  closed,     \* Impl::closed
  mu,         \* holder of stream_mu
  pc,         \* where each thread is inside a call
  wants,      \* wants[t]: auto_ack of t's PollRequest
  poll,       \* poll[t]: the number of the Get t wrote last
  settle,     \* settle[t]: the settlement t is about to write
  writesDone, \* WritesDone was called
  stream,     \* "open" or "ended"
  polls,      \* how many Gets have been written
  autos,      \* history: the Gets whose PollRequest asked for auto_ack
  gets,       \* Gets on their way to the broker
  down,       \* responses on their way back
  requests,   \* settlements on their way to the broker
  responses,  \* PollResponses the application has got
  place,      \* place[m]: "queued", "held", "acked", "moved"
  holder      \* holder[m]: the transaction m was last handed to

clientVars == <<receiver, closed, mu, pc, wants, poll, settle, responses>>
streamVars == <<writesDone, stream, polls, autos, gets, down, requests>>
queueVars == <<place, holder>>
vars == <<clientVars, streamVars, queueVars>>

NoSettle == [kind |-> "none", tx |-> 0, all |-> FALSE, msgs |-> {}]

\* NewQueueDownstreamReceiver has opened the stream.
Init ==
  /\ receiver = "live"
  /\ closed = FALSE
  /\ mu = Nobody
  /\ pc = [t \in Users |-> "none"]
  /\ wants = [t \in Users |-> FALSE]
  /\ poll = [t \in Users |-> 0]
  /\ settle = [t \in Users |-> NoSettle]
  /\ writesDone = FALSE
  /\ stream = "open"
  /\ polls = 0
  /\ autos = {}
  /\ gets = {}
  /\ down = <<>>
  /\ requests = {}
  /\ responses = {}
  /\ place = [m \in Msgs |-> "queued"]
  /\ holder = [m \in Msgs |-> 0]

Goto(t, at) == pc' = [pc EXCEPT ![t] = at]

\* Poll returns: its local variables are gone.
PollReturns(t) ==
  /\ Goto(t, "none")
  /\ wants' = [wants EXCEPT ![t] = FALSE]
  /\ poll' = [poll EXCEPT ![t] = 0]

-----------------------------------------------------------------------------
(***************************************************************************)
(* Poll                                                                    *)
(***************************************************************************)

\* Poll is called; a closed receiver refuses it before it takes the lock.  The
\* bound MaxPolls counts the calls that have not written their Get yet.
Poll(t, auto) ==
  /\ receiver = "live" /\ pc[t] = "none"
  /\ ~closed
  /\ polls + Cardinality({u \in Users : pc[u] = "poll"}) < MaxPolls
  /\ wants' = [wants EXCEPT ![t] = auto]
  /\ Goto(t, "poll")
  /\ UNCHANGED <<receiver, closed, mu, poll, settle, responses, streamVars, queueVars>>

\* Variant: auto_ack is set on every Get.
PollWriteAutoAck(t) ==
  /\ pc[t] = "poll" /\ mu = Nobody
  /\ stream = "open" /\ ~writesDone
  /\ polls' = polls + 1
  /\ autos' = IF wants[t] THEN autos \cup {polls + 1} ELSE autos
  /\ gets' = gets \cup {[id |-> polls + 1, auto |-> TRUE]}
  /\ poll' = [poll EXCEPT ![t] = polls + 1]
  /\ mu' = t
  /\ Goto(t, "read")
  /\ UNCHANGED <<receiver, closed, wants, settle, responses, writesDone, stream,
                 down, requests, queueVars>>

\* Variant: stream_mu covers the Write only.
PollWriteUnlocks(t) ==
  /\ pc[t] = "poll" /\ mu = Nobody
  /\ stream = "open" /\ ~writesDone
  /\ polls' = polls + 1
  /\ autos' = IF wants[t] THEN autos \cup {polls + 1} ELSE autos
  /\ gets' = gets \cup {[id |-> polls + 1, auto |-> wants[t]]}
  /\ poll' = [poll EXCEPT ![t] = polls + 1]
  /\ Goto(t, "read")
  /\ UNCHANGED <<receiver, closed, mu, wants, settle, responses, writesDone, stream,
                 down, requests, queueVars>>

\* stream_mu is taken and the Get is written.
PollWrite(t) ==
  /\ pc[t] = "poll" /\ mu = Nobody
  /\ stream = "open" /\ ~writesDone
  /\ polls' = polls + 1
  /\ autos' = IF wants[t] THEN autos \cup {polls + 1} ELSE autos
  /\ gets' = gets \cup {[id |-> polls + 1, auto |-> wants[t]]}
  /\ poll' = [poll EXCEPT ![t] = polls + 1]
  /\ mu' = t
  /\ Goto(t, "read")
  /\ UNCHANGED <<receiver, closed, wants, settle, responses, writesDone, stream,
                 down, requests, queueVars>>

\* The Get is lost: the stream has ended, or another thread has half-closed it
\* since closed was tested.  Write may say so, or the Read that follows will.
PollWriteFails(t) ==
  /\ pc[t] = "poll" /\ mu = Nobody
  /\ stream = "ended" \/ writesDone
  /\ \/ PollReturns(t) /\ UNCHANGED mu
     \/ writesDone /\ Goto(t, "readNothing") /\ mu' = t /\ UNCHANGED <<wants, poll>>
  /\ UNCHANGED <<receiver, closed, settle, responses, streamVars,
                 queueVars>>

\* Read returns a response: an error is passed on, messages become a
\* PollResponse that can be settled; stream_mu is released.
PollRead(t) ==
  /\ pc[t] = "read" /\ down # <<>>
  /\ IF Head(down).error THEN UNCHANGED responses
     ELSE responses' = responses \cup {[poll |-> poll[t], tx |-> Head(down).tx,
                                        msgs |-> Head(down).msgs, auto |-> wants[t]]}
  /\ down' = Tail(down)
  /\ mu' = Nobody
  /\ PollReturns(t)
  /\ UNCHANGED <<receiver, closed, settle, writesDone, stream, polls, autos,
                 gets, requests, queueVars>>

\* Variant: the early return after a failed Read leaves stream_mu locked.
PollReadFailsLocked(t) ==
  /\ pc[t] \in {"read", "readNothing"}
  /\ stream = "ended" /\ down = <<>>
  /\ PollReturns(t)
  /\ UNCHANGED <<receiver, closed, mu, settle, responses, streamVars,
                 queueVars>>

\* Read returns false.
PollReadFails(t) ==
  /\ pc[t] \in {"read", "readNothing"}
  /\ stream = "ended" /\ down = <<>>
  /\ mu' = Nobody
  /\ PollReturns(t)
  /\ UNCHANGED <<receiver, closed, settle, responses, streamVars,
                 queueVars>>

-----------------------------------------------------------------------------
(***************************************************************************)
(* Settlement: SendSettle of one message, SendSettleAll of a response      *)
(***************************************************************************)

StartSettle(t, s) ==
  /\ settle' = [settle EXCEPT ![t] = s]
  /\ Goto(t, "settle")
  /\ UNCHANGED <<receiver, closed, mu, wants, poll, responses, streamVars, queueVars>>

\* The weak pointer is locked; auto-acked responses, and everything once the
\* receiver is gone, are refused.  MaxSettles bounds what is on its way.
MaySettle(t, r) ==
  /\ pc[t] = "none" /\ receiver # "freed" /\ ~r.auto
  /\ Cardinality(requests) + Cardinality({u \in Users : pc[u] = "settle"}) < MaxSettles

SendSettle(t, r, m, kind) ==
  /\ MaySettle(t, r)
  /\ StartSettle(t, [kind |-> kind, tx |-> r.tx, all |-> FALSE, msgs |-> {m}])

SendSettleAll(t, r, kind) ==
  /\ MaySettle(t, r) /\ r.msgs # {}
  /\ StartSettle(t, [kind |-> kind, tx |-> r.tx, all |-> TRUE, msgs |-> r.msgs])

\* stream_mu is taken, the settlement is written or lost, and the call returns.
SettleWrite(t) ==
  /\ pc[t] = "settle" /\ mu = Nobody
  /\ requests' = IF stream = "open" /\ ~writesDone
                 THEN requests \cup {settle[t]} ELSE requests
  /\ settle' = [settle EXCEPT ![t] = NoSettle]
  /\ Goto(t, "none")
  /\ UNCHANGED <<receiver, closed, mu, wants, poll, responses, writesDone, stream,
                 polls, autos, gets, down, queueVars>>

-----------------------------------------------------------------------------
(***************************************************************************)
(* Close and the destructor                                                *)
(***************************************************************************)

\* closed.exchange(true): only the first caller goes on to the stream.
CloseExchange(t) ==
  /\ closed' = TRUE
  /\ IF closed THEN Goto(t, IF receiver' = "destroying" THEN "free" ELSE "none")
               ELSE Goto(t, "close")
  /\ UNCHANGED <<mu, wants, poll, settle, responses, streamVars, queueVars>>

Close(t) ==
  /\ receiver = "live" /\ pc[t] = "none"
  /\ UNCHANGED receiver
  /\ CloseExchange(t)

\* ~QueueDownstreamReceiver is Close; no thread is inside Poll or Close, but
\* messages may be being settled.
Destroy(t) ==
  /\ receiver = "live" /\ pc[t] = "none"
  /\ \A u \in Users : pc[u] \in {"none", "settle"}
  /\ receiver' = "destroying"
  /\ CloseExchange(t)

\* stream_mu is taken, CloseByClient is written and WritesDone called.
CloseWrite(t) ==
  /\ pc[t] = "close" /\ mu = Nobody
  /\ writesDone' = TRUE
  /\ Goto(t, IF receiver = "destroying" THEN "free" ELSE "none")
  /\ UNCHANGED <<receiver, closed, mu, wants, poll, settle, responses, stream, polls, autos,
                 gets, down, requests, queueVars>>

\* Impl is destroyed: its reference to the stream goes, and the ClientContext,
\* which cancels the call.
Free(t) ==
  /\ pc[t] = "free"
  /\ receiver' = "freed"
  /\ stream' = "ended"
  /\ down' = <<>>
  /\ Goto(t, "none")
  /\ UNCHANGED <<closed, mu, wants, poll, settle, responses, writesDone, polls, autos, gets,
                 requests, queueVars>>

-----------------------------------------------------------------------------
(***************************************************************************)
(* The broker                                                              *)
(***************************************************************************)

\* Get: some queued messages go to the transaction, or out of the queue when
\* auto_ack is set; none after the wait timeout.
AnswerGet ==
  /\ stream = "open"
  /\ \E g \in gets, ms \in SUBSET {m \in Msgs : place[m] = "queued"} :
       /\ \A h \in gets : g.id <= h.id
       /\ gets' = gets \ {g}
       /\ down' = Append(down, [tx |-> g.id, msgs |-> ms, error |-> FALSE])
       /\ place' = [m \in Msgs |-> IF m \notin ms THEN place[m]
                                   ELSE IF g.auto THEN "acked" ELSE "held"]
       /\ holder' = [m \in Msgs |-> IF m \in ms THEN g.id ELSE holder[m]]
  /\ UNCHANGED <<clientVars, writesDone, stream, polls, autos, requests>>

AnswerError ==
  /\ stream = "open"
  /\ \E g \in gets :
       /\ \A h \in gets : g.id <= h.id
       /\ gets' = gets \ {g}
       /\ down' = Append(down, [tx |-> g.id, msgs |-> {}, error |-> TRUE])
  /\ UNCHANGED <<clientVars, writesDone, stream, polls, autos, requests, queueVars>>

\* A settlement takes effect on the messages its transaction still holds.
ApplySettle ==
  /\ \E s \in requests :
       /\ requests' = requests \ {s}
       /\ place' = [m \in Msgs |->
            IF place[m] = "held" /\ holder[m] = s.tx /\ (s.all \/ m \in s.msgs)
            THEN CASE s.kind = "Ack" -> "acked"
                   [] s.kind = "Nack" -> "queued"
                   [] s.kind = "ReQueue" -> "moved"
            ELSE place[m]]
  /\ UNCHANGED <<clientVars, writesDone, stream, polls, autos, gets, down, holder>>

\* The transaction runs out of time, or the stream it belongs to has ended.
Expire ==
  /\ \E m \in Msgs : place[m] = "held" /\ place' = [place EXCEPT ![m] = "queued"]
  /\ UNCHANGED <<clientVars, streamVars, holder>>

\* The broker ends the stream, or the connection breaks and takes what was on
\* its way with it.
EndStream ==
  /\ stream = "open"
  /\ stream' = "ended"
  /\ down' \in {down, <<>>}
  /\ requests' \in {requests, {}}
  /\ gets' = {}
  /\ UNCHANGED <<clientVars, writesDone, polls, autos, queueVars>>

-----------------------------------------------------------------------------
Step(t) ==
  \/ PollWrite(t) \/ PollWriteFails(t) \/ PollRead(t) \/ PollReadFails(t)
  \/ SettleWrite(t) \/ CloseWrite(t) \/ Free(t)

Next ==
  \/ \E t \in Users :
       \/ \E auto \in BOOLEAN : Poll(t, auto)
       \/ \E r \in responses, kind \in Kinds :
            (\E m \in r.msgs : SendSettle(t, r, m, kind)) \/ SendSettleAll(t, r, kind)
       \/ Close(t) \/ Destroy(t)
       \/ Step(t)
  \/ AnswerGet \/ AnswerError \/ ApplySettle \/ Expire \/ EndStream

Spec == Init /\ [][Next]_vars

(***************************************************************************)
(* Fairness: threads are scheduled and get a mutex that keeps becoming     *)
(* free; the broker answers a Get within its wait timeout and ends a       *)
(* stream that was half-closed.                                            *)
(***************************************************************************)
Fairness ==
  /\ \A t \in Users : SF_vars(Step(t))
  /\ WF_vars(AnswerGet)
  /\ WF_vars(writesDone /\ EndStream)

FairSpec == Spec /\ Fairness

-----------------------------------------------------------------------------
(***************************************************************************)
(* Properties                                                              *)
(***************************************************************************)

PCs == {"none", "poll", "read", "readNothing", "settle", "close", "free"}
Settlements == [kind : Kinds, tx : Nat, all : BOOLEAN,
                msgs : SUBSET Msgs]

\* Every variable has its type.
TypeOK ==
  /\ receiver \in {"live", "destroying", "freed"}
  /\ closed \in BOOLEAN
  /\ mu \in Users \cup {Nobody}
  /\ pc \in [Users -> PCs]
  /\ wants \in [Users -> BOOLEAN]
  /\ poll \in [Users -> Nat]
  /\ settle \in [Users -> Settlements \cup {NoSettle}]
  /\ writesDone \in BOOLEAN
  /\ stream \in {"open", "ended"}
  /\ polls \in Nat
  /\ autos \subseteq Nat
  /\ gets \subseteq [id : Nat, auto : BOOLEAN]
  /\ down \in Seq([tx : Nat, msgs : SUBSET Msgs, error : BOOLEAN])
  /\ requests \subseteq Settlements
  /\ responses \subseteq [poll : Nat, tx : Nat, msgs : SUBSET Msgs, auto : BOOLEAN]
  /\ place \in [Msgs -> {"queued", "held", "acked", "moved"}]
  /\ holder \in [Msgs -> Nat]

\* Every Poll returns the answer to its own Get, never that of another thread's
\* or of an earlier one, so its messages can be settled and its auto_ack flag
\* is the one the broker acted on ("Poll() calls are serialized internally").
OwnAnswer ==
  \A r \in responses : r.poll = r.tx /\ (r.auto <=> r.tx \in autos)

\* Unless the application asked for auto_ack, a message leaves the queue only
\* after Poll has handed it over in that very transaction: a response lost
\* with its stream is never counted as consumed.
SettledWereDelivered ==
  \A m \in Msgs :
    place[m] \in {"acked", "moved"} /\ holder[m] \notin autos
      => \E r \in responses : r.tx = holder[m] /\ m \in r.msgs

\* Poll, a settlement, Close and the destructor return, also while another
\* thread holds stream_mu in Read.
CallsReturn == \A t \in Users : pc[t] # "none" ~> pc[t] = "none"

-----------------------------------------------------------------------------
(***************************************************************************)
(* The inductive invariant behind the safety properties                    *)
(***************************************************************************)

Reading(t) == pc[t] \in {"read", "readNothing"}

\* stream_mu is held exactly while a thread waits for its response; what is on
\* the stream is its Get or the response to it, and nothing else.
StreamInv ==
  /\ \A t \in Users : Reading(t) <=> mu = t
  /\ \A t \in Users : pc[t] = "read" => /\ poll[t] <= polls
                                        /\ poll[t] \in autos <=> wants[t]
  /\ \A g \in gets : /\ \E t \in Users : pc[t] = "read" /\ g.id = poll[t]
                     /\ g.auto <=> g.id \in autos
                     /\ down = <<>>
  /\ \A g, h \in gets : g = h
  /\ stream = "ended" => gets = {}
  /\ down # <<>> =>
       /\ Len(down) = 1
       /\ \E t \in Users : pc[t] = "read" /\ down[1].tx = poll[t]
  /\ receiver = "freed" => \A t \in Users : pc[t] \in {"none", "settle"}
  /\ receiver = "destroying" =>
       /\ \A t \in Users : pc[t] \in {"none", "settle", "close", "free"}
       /\ \A t, u \in Users :
            pc[t] \in {"close", "free"} /\ pc[u] \in {"close", "free"} => t = u
  /\ \A t \in Users : pc[t] = "free" => receiver = "destroying"
  /\ \A p \in autos : p <= polls

\* A settlement, written or not, names a response the application has got; and
\* a message that was taken out of the queue has been delivered before.
SettleInv ==
  /\ \A t \in Users : pc[t] = "settle" =>
       /\ settle[t] # NoSettle
       /\ \E r \in responses : ~r.auto /\ r.tx = settle[t].tx
  /\ \A s \in requests :
       \E r \in responses : ~r.auto /\ r.tx = s.tx
  /\ \A m \in Msgs : place[m] = "held" => holder[m] <= polls
  /\ \A r \in responses :
       /\ r.poll = r.tx /\ (r.auto <=> r.tx \in autos) /\ r.tx <= polls
       /\ \A g \in gets : g.id # r.tx
       /\ down # <<>> => down[1].tx # r.tx
  /\ \A m \in Msgs : place[m] = "held" =>
       /\ \A g \in gets : holder[m] # g.id
       /\ down # <<>> /\ holder[m] = down[1].tx => m \in down[1].msgs
       /\ \A r \in responses : holder[m] = r.tx => m \in r.msgs
  /\ \A m \in Msgs :
       place[m] \in {"acked", "moved"} /\ holder[m] \notin autos
         => \E r \in responses : r.tx = holder[m] /\ m \in r.msgs

\* The conjunction that every step preserves.
IInv == TypeOK /\ StreamInv /\ SettleInv

=============================================================================
