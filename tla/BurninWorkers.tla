--------------------------- MODULE BurninWorkers ---------------------------
(***************************************************************************)
(* One worker of a burn-in run, of any of the six classes under            *)
(* burnin/worker: a thread that sends, a thread that receives or responds, *)
(* Stop called by the run thread, and the counters of its pattern, while   *)
(* the broker accepts, refuses, loses and delivers.  A call of the client  *)
(* library is two steps, its start and its return, because Stop may come   *)
(* in between.                                                             *)
(***************************************************************************)
EXTENDS Integers

CONSTANTS
  Classes,     \* the patterns of the workers to look at
  MaxMessages, \* bound: calls of the sending thread
  MaxErrors    \* bound: errors the receiving side counts, and redeliveries

ASSUME BurninWorkersAssumption == MaxMessages \in Nat /\ MaxErrors \in Nat

VARIABLES
  pattern, autoAck, \* the class, and auto_ack of its queue_config_
  running,   \* running_
  sender,    \* the producer or sender thread: "connect", "loop", "call", "ended"
  receiver,  \* the consumer or responder thread, the same; "polling" once the
             \* request of a call is with the broker
  stopping,  \* Stop: "none", "close", "join", "done"
  handle,    \* the subscription, or receiver_: "none", "open", "closing", "closed"
  upstream,  \* upstream_ of a queue stream: "none", "open", "detached", "gone"
  calls,     \* calls the sender has made
  current,   \* the message of the call under way: "none", "sent", "accepted",
             \* "refused", "unsaid" (refused without a word), "answered" (a request)
  written,   \* upstream requests the broker has not seen
  results,   \* results of upstream requests on their way back: [ok, bad]
  accepted,  \* messages the broker accepted
  unsaid,    \* events it did not send, with no error in its result
  queued,    \* those not yet delivered, or not yet removed from their queue
  answered,  \* requests the responder answered
  again,     \* deliveries of messages that will be delivered again
  count      \* the counters of the pattern

broker == <<written, results, accepted, unsaid, queued, answered, again>>
vars == <<pattern, autoAck, running, sender, receiver, stopping, handle, upstream, calls,
          current, broker, count>>

Rpc == pattern \in {"commands", "queries"}
Subscribes == pattern \in {"events", "events_store", "commands", "queries"}

\* Start: both threads are there (StartThread of BurninEngine has the steps).
Init ==
  /\ pattern \in Classes
  /\ autoAck \in BOOLEAN /\ (autoAck => pattern = "queue_stream")
  /\ running = TRUE /\ stopping = "none"
  /\ sender = "connect" /\ receiver = "connect"
  /\ handle = "none" /\ upstream = "none"
  /\ calls = 0 /\ current = "none" /\ written = 0 /\ results = [ok |-> 0, bad |-> 0]
  /\ accepted = 0 /\ unsaid = 0 /\ queued = 0 /\ answered = 0 /\ again = 0
  /\ count = [sent |-> 0, received |-> 0, errors |-> 0, rpc_success |-> 0,
              rpc_timeout |-> 0, rpc_error |-> 0]

Add(k, n) == [count EXCEPT ![k] = @ + n]
Fixed == UNCHANGED <<pattern, autoAck>>

-----------------------------------------------------------------------------
(***************************************************************************)
(* The thread that sends                                                   *)
(***************************************************************************)

SenderConnects ==
  /\ sender = "connect"
  /\ \/ /\ sender' = "loop"
        /\ upstream' = IF pattern = "queue_stream" THEN "open" ELSE "none"
        /\ UNCHANGED count
     \/ sender' = "ended" /\ count' = Add("errors", 1) /\ UNCHANGED upstream
  /\ UNCHANGED <<running, receiver, stopping, handle, calls, current, broker>> /\ Fixed

Send ==
  /\ sender = "loop"
  /\ \/ running /\ calls < MaxMessages /\ sender' = "call" /\ calls' = calls + 1 /\ current' = "sent"
     \/ ~running /\ sender' = "ended" /\ UNCHANGED <<calls, current>>
  /\ UNCHANGED <<running, receiver, stopping, handle, upstream, broker, count>> /\ Fixed

\* The broker gets the message of the call under way.  The Result for an event
\* has a flag, sent, and an error: the flag may be false and the error empty.
Arrive ==
  /\ current = "sent" /\ pattern # "queue_stream"
  /\ \/ /\ current' = "accepted" /\ accepted' = accepted + 1 /\ queued' = queued + 1
        /\ UNCHANGED unsaid
     \/ current' = "refused" /\ UNCHANGED <<accepted, queued, unsaid>>
     \/ /\ pattern \in {"events", "events_store"}
        /\ current' = "unsaid" /\ unsaid' = unsaid + 1 /\ UNCHANGED <<accepted, queued>>
  /\ UNCHANGED <<running, sender, receiver, stopping, handle, upstream, calls, written, results,
                 answered, again, count>> /\ Fixed

\* The call returns; n are the counters.
Return(n) ==
  /\ sender = "call" /\ sender' = "loop" /\ current' = "none" /\ count' = n
  /\ UNCHANGED <<running, receiver, stopping, handle, upstream, calls, broker>> /\ Fixed

\* Variant: the result is not looked at.
SentAnyway ==
  /\ ~Rpc /\ pattern # "queue_stream"
  /\ Return(Add("sent", 1))

\* What the producer takes for a success: for an event any result without an
\* error, for a stored one its flag as well.
Succeeded == current = "accepted" \/ (pattern = "events" /\ current = "unsaid")

\* PublishEvent, PublishEventStore or SendQueueMessageSimple: a success, or an
\* error, be it that the broker refused or that its answer was lost.
Sent ==
  /\ ~Rpc /\ pattern # "queue_stream"
  /\ \/ Succeeded /\ Return(Add("sent", 1))
     \/ Return(IF running THEN Add("errors", 1) ELSE count)

\* The counters after a command or query: answered as executed or not, or
\* failed by time or otherwise.
RpcCount(outcome) ==
  CASE outcome = "executed" -> [count EXCEPT !.sent = @ + 1, !.rpc_success = @ + 1, !.received = @ + 1]
    [] outcome = "refused" -> [count EXCEPT !.sent = @ + 1, !.rpc_success = @ + 1]
    [] outcome = "timeout" -> IF running THEN [count EXCEPT !.errors = @ + 1, !.rpc_timeout = @ + 1] ELSE count
    [] outcome = "error" -> IF running THEN [count EXCEPT !.errors = @ + 1, !.rpc_error = @ + 1] ELSE count

\* SendCommandSimple or SendQuerySimple.
RpcReturns ==
  /\ Rpc
  /\ \E outcome \in {"executed", "refused", "timeout", "error"} :
       /\ outcome = "executed" => current = "answered"
       /\ outcome = "refused" => current = "refused"
       /\ Return(RpcCount(outcome))

\* Send on the upstream: the request is written or not.
UpstreamSent ==
  /\ pattern = "queue_stream"
  /\ sender = "call" /\ sender' = "loop" /\ current' = "none"
  /\ \/ written' = written + 1 /\ UNCHANGED count
     \/ count' = (IF running THEN Add("errors", 1) ELSE count) /\ UNCHANGED written
  /\ UNCHANGED <<running, receiver, stopping, handle, upstream, calls, results, accepted,
                 unsaid, queued, answered, again>> /\ Fixed

ArriveUpstream ==
  /\ written > 0 /\ written' = written - 1
  /\ \/ results' = [results EXCEPT !.ok = @ + 1] /\ accepted' = accepted + 1 /\ queued' = queued + 1
     \/ results' = [results EXCEPT !.bad = @ + 1] /\ UNCHANGED <<accepted, queued>>
  /\ UNCHANGED <<running, sender, receiver, stopping, handle, upstream, calls, current, unsaid,
                 answered, again, count>> /\ Fixed

\* SetOnResult: a result arrives, for as long as the stream is there.
UpstreamResult ==
  /\ upstream \in {"open", "detached"}
  /\ \E k \in {"ok", "bad"} :
       /\ results[k] > 0 /\ results' = [results EXCEPT ![k] = @ - 1]
       /\ count' = Add(IF k = "ok" THEN "sent" ELSE "errors", 1)
  /\ UNCHANGED <<running, sender, receiver, stopping, handle, upstream, calls, current, written,
                 accepted, unsaid, queued, answered, again>> /\ Fixed

-----------------------------------------------------------------------------
(***************************************************************************)
(* The thread that receives                                                *)
(***************************************************************************)

\* The client is created and the subscription or the receiver opened; any of
\* it may fail.
ReceiverConnects ==
  /\ receiver = "connect"
  /\ \/ receiver' = "loop" /\ UNCHANGED count
        /\ handle' = IF pattern = "queue_simple" THEN "none" ELSE "open"
     \/ receiver' = "ended" /\ count' = Add("errors", 1) /\ UNCHANGED handle
  /\ UNCHANGED <<running, sender, stopping, upstream, calls, current, broker>> /\ Fixed

\* The callback of a subscription for events.
OnEvent ==
  /\ Subscribes /\ ~Rpc /\ handle = "open" /\ queued > 0
  /\ queued' = queued - 1
  /\ count' = Add("received", 1)
  /\ UNCHANGED <<running, sender, receiver, stopping, handle, upstream, calls, current, written, results,
                 accepted, unsaid, answered, again>> /\ Fixed

\* The callback for requests, oldest first: the answer is sent (to whoever
\* still waits for it) or fails.
OnRequest ==
  /\ Rpc /\ handle = "open" /\ queued > 0
  /\ queued' = queued - 1
  /\ \/ /\ answered' = answered + 1
        /\ current' = IF queued = 1 /\ current = "accepted" THEN "answered" ELSE current
        /\ UNCHANGED count
     \/ count["errors"] < MaxErrors /\ count' = Add("errors", 1) /\ UNCHANGED <<answered, current>>
  /\ UNCHANGED <<running, sender, receiver, stopping, handle, upstream, calls, written, results,
                 accepted, unsaid, again>> /\ Fixed

\* The error callback of a subscription or of an upstream.
OnError ==
  /\ (Subscribes /\ handle = "open") \/ upstream \in {"open", "detached"}
  /\ count["errors"] < MaxErrors
  /\ count' = Add("errors", 1)
  /\ UNCHANGED <<running, sender, receiver, stopping, handle, upstream, calls, current, broker>> /\ Fixed

\* The loop of a subscribing thread ends with Cancel, which joins the reader.
Cancel ==
  /\ Subscribes /\ receiver = "loop" /\ ~running
  /\ receiver' = "ended" /\ handle' = "closed"
  /\ UNCHANGED <<running, sender, stopping, upstream, calls, current, broker, count>> /\ Fixed

\* A queue: the next request, or the end.
Poll ==
  /\ ~Subscribes /\ receiver = "loop"
  /\ receiver' = IF running THEN "call" ELSE "ended"
  /\ UNCHANGED <<running, sender, stopping, handle, upstream, calls, current, broker, count>> /\ Fixed

\* Its request is with the broker: on a stream stream_mu is held from here to
\* the answer.
PollStarts ==
  /\ ~Subscribes /\ receiver = "call" /\ handle # "closed"
  /\ receiver' = "polling"
  /\ UNCHANGED <<running, sender, stopping, handle, upstream, calls, current, broker, count>> /\ Fixed

\* ReceiveQueueMessages or Poll returns n messages, which are counted, after
\* Stop too.  They leave the queue when the broker answers, when auto_ack asks
\* for that, or by AckAll.  An AckAll that fails, or that is written and does
\* not arrive, leaves them to be delivered again.
Polled ==
  /\ ~Subscribes /\ receiver = "polling" /\ receiver' = "loop"
  /\ \E n \in 0..queued, acked, failed \in BOOLEAN :
       /\ acked \/ (pattern = "queue_stream" /\ ~autoAck /\ n > 0 /\ again < MaxErrors)
       /\ failed => ~acked /\ count["errors"] < MaxErrors
       /\ queued' = IF acked THEN queued - n ELSE queued
       /\ again' = IF acked THEN again ELSE again + n
       /\ count' = [count EXCEPT !.received = @ + n, !.errors = IF failed THEN @ + 1 ELSE @]
  /\ UNCHANGED <<running, sender, stopping, handle, upstream, calls, current, written, results,
                 accepted, unsaid, answered>> /\ Fixed

\* It fails, and n messages that left the queue are lost on the way; an error
\* counts, on the stream only before Stop.
PollFails ==
  /\ ~Subscribes /\ receiver \in {"call", "polling"} /\ receiver' = "loop"
  /\ \E n \in 0..queued :
       /\ n > 0 => receiver = "polling" /\ (pattern = "queue_simple" \/ autoAck)
       /\ queued' = queued - n
  /\ \/ pattern = "queue_stream" /\ ~running /\ UNCHANGED count
     \/ /\ pattern = "queue_simple" \/ running
        /\ count["errors"] < MaxErrors /\ count' = Add("errors", 1)
  /\ UNCHANGED <<running, sender, stopping, handle, upstream, calls, current, written, results,
                 accepted, unsaid, answered, again>> /\ Fixed

-----------------------------------------------------------------------------
(***************************************************************************)
(* Stop                                                                    *)
(***************************************************************************)

\* running_ is cleared; if there is a receiver, its Close begins.
Stop ==
  /\ stopping = "none" /\ running' = FALSE
  /\ \/ /\ pattern = "queue_stream" /\ handle = "open"
        /\ handle' = "closing" /\ stopping' = "close"
     \/ /\ ~(pattern = "queue_stream" /\ handle = "open")
        /\ stopping' = "join" /\ UNCHANGED handle
  /\ UNCHANGED <<sender, receiver, upstream, calls, current, broker, count>> /\ Fixed

\* Close of the receiver gets stream_mu, which a Poll under way holds until its
\* answer is there, and writes the end of the stream.
CloseReceiver ==
  /\ stopping = "close" /\ receiver # "polling"
  /\ handle' = "closed" /\ stopping' = "join"
  /\ UNCHANGED <<running, sender, receiver, upstream, calls, current, broker, count>> /\ Fixed

\* Variant: only the producer is joined.
JoinedSender ==
  /\ stopping = "join" /\ sender = "ended"
  /\ stopping' = "done"
  /\ handle' = IF handle = "open" THEN "closed" ELSE handle
  /\ upstream' = IF upstream = "open" THEN "detached" ELSE upstream
  /\ UNCHANGED <<running, sender, receiver, calls, current, broker, count>> /\ Fixed

\* Both threads are joined and the clients closed; an upstream is left to a
\* detached thread.
Joined ==
  /\ stopping = "join" /\ sender = "ended" /\ receiver = "ended"
  /\ stopping' = "done"
  /\ handle' = IF handle = "open" THEN "closed" ELSE handle
  /\ upstream' = IF upstream = "open" THEN "detached" ELSE upstream
  /\ UNCHANGED <<running, sender, receiver, calls, current, broker, count>> /\ Fixed

\* The detached thread deletes the handle: its Close ends the stream.
Flushed ==
  /\ upstream = "detached" /\ upstream' = "gone"
  /\ UNCHANGED <<running, sender, receiver, stopping, handle, calls, current, broker, count>> /\ Fixed

SenderStep == SenderConnects \/ Send \/ Sent \/ RpcReturns \/ UpstreamSent
ReceiverStep == ReceiverConnects \/ Cancel \/ Poll \/ PollStarts \/ Polled \/ PollFails

Next ==
  \/ SenderStep \/ ReceiverStep
  \/ Arrive \/ ArriveUpstream \/ UpstreamResult
  \/ OnEvent \/ OnRequest \/ OnError
  \/ Stop \/ CloseReceiver \/ Joined \/ Flushed

\* Calls of the library return and threads are scheduled; nothing makes the run
\* end, a message arrive or an error happen.
Spec == Init /\ [][Next]_vars

-----------------------------------------------------------------------------
(***************************************************************************)
(* The inductive invariant                                                 *)
(***************************************************************************)

Counters == {"sent", "received", "errors", "rpc_success", "rpc_timeout", "rpc_error"}

\* The requests that are counted.
Finished(c) == c["rpc_success"] + c["rpc_timeout"] + c["rpc_error"]

\* A call of the sender that has not been counted yet, and what its message is.
Waiting(state) == IF current = state THEN 1 ELSE 0
InCall == IF sender = "call" THEN 1 ELSE 0

TypeOK ==
  /\ running \in BOOLEAN
  /\ count \in [Counters -> Nat]
  /\ results \in [{"ok", "bad"} -> Nat]
  /\ calls \in Nat /\ written \in Nat /\ accepted \in Nat /\ unsaid \in Nat
  /\ queued \in Nat /\ answered \in Nat /\ again \in Nat

\* The messages a worker may count as sent.
Unopposed == accepted + IF pattern = "events" THEN unsaid ELSE 0

\* The message of a call, and a result on its way back, are of a message that
\* nobody objected to and the worker has not counted; what is queued has not
\* been received.
MessageInv ==
  ~Rpc => /\ count["sent"] + results["ok"] + (IF Succeeded THEN 1 ELSE 0) <= Unopposed
          /\ count["received"] + queued <= accepted + again

\* A request is counted when its call returns, and has been answered if it
\* counts as received; none of it goes by the stream of a queue.
RequestInv ==
  Rpc => /\ written = 0 /\ results["ok"] = 0
         /\ count["received"] + Waiting("answered") <= answered
         /\ count["rpc_success"] = count["sent"]
         /\ Finished(count) + InCall <= calls
         /\ running => Finished(count) + InCall = calls

\* Stop returns when both threads have ended, and leaves nothing open.
StopInv ==
  stopping = "done" => sender = "ended" /\ receiver = "ended" /\ handle # "open"

IInv == TypeOK /\ MessageInv /\ RequestInv /\ StopInv

-----------------------------------------------------------------------------
(***************************************************************************)
(* The counters do not flatter the broker: what is counted as sent was     *)
(* accepted (an event: accepted, or not sent by a broker that gave no      *)
(* reason, which SendEvent reports as a success), and nothing is counted   *)
(* as received that was not, deliveries after a failed acknowledgement     *)
(* apart; a request counts as received if the responder answered it.  (The *)
(* report of a soak test is read for the difference of the two.)           *)
(***************************************************************************)
NothingFlattered ==
  /\ ~Rpc => count["sent"] <= Unopposed /\ count["received"] <= accepted + again
  /\ Rpc => count["received"] <= answered

(***************************************************************************)
(* Every request that was answered or failed is in exactly one of the      *)
(* three counters of a command or query worker, except one that failed     *)
(* after Stop; none is in two.                                             *)
(***************************************************************************)
RequestsCountedOnce ==
  Rpc => /\ count["rpc_success"] = count["sent"]
         /\ count["rpc_success"] + count["rpc_timeout"] + count["rpc_error"] <= calls
         /\ running /\ sender = "loop" =>
              count["rpc_success"] + count["rpc_timeout"] + count["rpc_error"] = calls

(* What a worker counted is what happened to its messages. *)
CountersAreTrue == NothingFlattered /\ RequestsCountedOnce

(***************************************************************************)
(* When Stop has returned the worker counts no more, so the report that is *)
(* made next is final and the worker may be freed.  The upstream of a      *)
(* queue stream is the exception: its detached thread still gets results.  *)
(***************************************************************************)
QuietAfterStop ==
  [][stopping = "done" /\ upstream \in {"none", "gone"} => count' = count]_vars

=============================================================================
