------------------------ MODULE BurninWorkersProofs ------------------------
(***************************************************************************)
(* The counters of a burn-in worker are true and Stop is final, for every  *)
(* number of messages and of errors.  Then BurninService, the application  *)
(* around the workers: its reports and the answers about a run, for every  *)
(* sequence of requests and runs.                                          *)
(***************************************************************************)
EXTENDS BurninWorkers, BurninService, Integers, FiniteSetTheorems, TLAPS

\* Counting leaves the counters numbers: AddMessage and its siblings of the
\* pattern's metrics, and the outcome of a command or query.
LEMMA AddCounts ==
  ASSUME TypeOK, NEW k \in Counters, NEW n \in Nat
  PROVE  /\ Add(k, n) \in [Counters -> Nat]
         /\ Add(k, n)[k] = count[k] + n
         /\ \A j \in Counters : j # k => Add(k, n)[j] = count[j]
BY DEF TypeOK, Add

\* The counters the proofs name are counters.
LEMMA CounterNames ==
  /\ "sent" \in Counters /\ "received" \in Counters /\ "errors" \in Counters
  /\ "rpc_success" \in Counters /\ "rpc_timeout" \in Counters /\ "rpc_error" \in Counters
BY DEF Counters

\* One more in a counter.
LEMMA OneMore ==
  ASSUME NEW c \in [Counters -> Nat], NEW k \in Counters
  PROVE  [c EXCEPT ![k] = @ + 1] \in [Counters -> Nat]
OBVIOUS

\* A request that returns is counted once, in one of the three counters of
\* requests, unless it failed after Stop; only an answer counts as received.
LEMMA RpcCounts ==
  ASSUME TypeOK, NEW outcome \in {"executed", "refused", "timeout", "error"}
  PROVE  /\ RpcCount(outcome) \in [Counters -> Nat]
         /\ RpcCount(outcome)["received"] =
              count["received"] + IF outcome = "executed" THEN 1 ELSE 0
         /\ count["rpc_success"] = count["sent"] =>
              RpcCount(outcome)["rpc_success"] = RpcCount(outcome)["sent"]
         /\ Finished(RpcCount(outcome)) <= Finished(count) + 1
         /\ running => Finished(RpcCount(outcome)) = Finished(count) + 1
<1> DEFINE n == RpcCount(outcome)
<1> SUFFICES /\ n \in [Counters -> Nat]
             /\ n["received"] = count["received"] + IF outcome = "executed" THEN 1 ELSE 0
             /\ count["rpc_success"] = count["sent"] => n["rpc_success"] = n["sent"]
             /\ Finished(n) <= Finished(count) + 1
             /\ running => Finished(n) = Finished(count) + 1
  OBVIOUS
<1>0. count \in [Counters -> Nat] BY DEF TypeOK
<1>1. CASE outcome = "executed"
  <2>1. n = [count EXCEPT !.sent = @ + 1, !.rpc_success = @ + 1, !.received = @ + 1]
    BY ONLY <1>1 DEF RpcCount
  <2> HIDE DEF n
  <2>2. n \in [Counters -> Nat]
    <3> DEFINE c1 == [count EXCEPT !["sent"] = @ + 1]
    <3> DEFINE c2 == [c1 EXCEPT !["rpc_success"] = @ + 1]
    <3> DEFINE c3 == [c2 EXCEPT !["received"] = @ + 1]
    <3>1. c1 \in [Counters -> Nat]
      BY ONLY <1>0, CounterNames, OneMore
    <3>2. c2 \in [Counters -> Nat]
      BY ONLY <3>1, CounterNames, OneMore
    <3>3. c3 \in [Counters -> Nat]
      BY ONLY <3>2, CounterNames, OneMore
    <3>4. n = c3
      BY ONLY <1>0, <2>1, CounterNames
    <3> QED BY <3>3, <3>4
  <2>3. /\ n["sent"] = count["sent"] + 1 /\ n["received"] = count["received"] + 1
        /\ n["rpc_success"] = count["rpc_success"] + 1 /\ n["rpc_timeout"] = count["rpc_timeout"] /\ n["rpc_error"] = count["rpc_error"]
    BY ONLY <1>0, <2>1, CounterNames
  <2> QED BY ONLY <1>0, <1>1, <2>2, <2>3, CounterNames DEF Finished
<1>2. CASE outcome = "refused"
  <2>1. n = [count EXCEPT !.sent = @ + 1, !.rpc_success = @ + 1]
    BY ONLY <1>2 DEF RpcCount
  <2> HIDE DEF n
  <2>2. n \in [Counters -> Nat]
    <3> DEFINE c1 == [count EXCEPT !["sent"] = @ + 1]
    <3> DEFINE c2 == [c1 EXCEPT !["rpc_success"] = @ + 1]
    <3>1. c1 \in [Counters -> Nat]
      BY ONLY <1>0, CounterNames, OneMore
    <3>2. c2 \in [Counters -> Nat]
      BY ONLY <3>1, CounterNames, OneMore
    <3>3. n = c2
      BY ONLY <1>0, <2>1, CounterNames
    <3> QED BY <3>2, <3>3
  <2>3. /\ n["sent"] = count["sent"] + 1 /\ n["received"] = count["received"]
        /\ n["rpc_success"] = count["rpc_success"] + 1 /\ n["rpc_timeout"] = count["rpc_timeout"] /\ n["rpc_error"] = count["rpc_error"]
    BY ONLY <1>0, <2>1, CounterNames
  <2> QED BY ONLY <1>0, <1>2, <2>2, <2>3, CounterNames DEF Finished
<1>3. CASE outcome \in {"timeout", "error"} /\ ~running
  <2>1. n = count
    BY ONLY <1>3 DEF RpcCount
  <2> HIDE DEF n
  <2> QED BY ONLY <1>0, <1>3, <2>1, CounterNames DEF Finished, Counters
<1>4. CASE outcome = "timeout" /\ running
  <2>1. n = [count EXCEPT !.errors = @ + 1, !.rpc_timeout = @ + 1]
    BY ONLY <1>4 DEF RpcCount
  <2> HIDE DEF n
  <2>2. n \in [Counters -> Nat]
    <3> DEFINE c1 == [count EXCEPT !["errors"] = @ + 1]
    <3> DEFINE c2 == [c1 EXCEPT !["rpc_timeout"] = @ + 1]
    <3>1. c1 \in [Counters -> Nat]
      BY ONLY <1>0, CounterNames, OneMore
    <3>2. c2 \in [Counters -> Nat]
      BY ONLY <3>1, CounterNames, OneMore
    <3>3. n = c2
      BY ONLY <1>0, <2>1, CounterNames
    <3> QED BY <3>2, <3>3
  <2>3. /\ n["sent"] = count["sent"] /\ n["received"] = count["received"]
        /\ n["rpc_success"] = count["rpc_success"] /\ n["rpc_timeout"] = count["rpc_timeout"] + 1 /\ n["rpc_error"] = count["rpc_error"]
    BY ONLY <1>0, <2>1, CounterNames
  <2> QED BY ONLY <1>0, <1>4, <2>2, <2>3, CounterNames DEF Finished
<1>5. CASE outcome = "error" /\ running
  <2>1. n = [count EXCEPT !.errors = @ + 1, !.rpc_error = @ + 1]
    BY ONLY <1>5 DEF RpcCount
  <2> HIDE DEF n
  <2>2. n \in [Counters -> Nat]
    <3> DEFINE c1 == [count EXCEPT !["errors"] = @ + 1]
    <3> DEFINE c2 == [c1 EXCEPT !["rpc_error"] = @ + 1]
    <3>1. c1 \in [Counters -> Nat]
      BY ONLY <1>0, CounterNames, OneMore
    <3>2. c2 \in [Counters -> Nat]
      BY ONLY <3>1, CounterNames, OneMore
    <3>3. n = c2
      BY ONLY <1>0, <2>1, CounterNames
    <3> QED BY <3>2, <3>3
  <2>3. /\ n["sent"] = count["sent"] /\ n["received"] = count["received"]
        /\ n["rpc_success"] = count["rpc_success"] /\ n["rpc_timeout"] = count["rpc_timeout"] /\ n["rpc_error"] = count["rpc_error"] + 1
    BY ONLY <1>0, <2>1, CounterNames
  <2> QED BY ONLY <1>0, <1>5, <2>2, <2>3, CounterNames DEF Finished
<1> QED BY <1>1, <1>2, <1>3, <1>4, <1>5 DEF TypeOK

LEMMA InitOK == Init => IInv
<1> SUFFICES ASSUME Init PROVE IInv OBVIOUS
<1>1. TypeOK BY DEF Init, TypeOK, Counters
<1>2. count["sent"] = 0 /\ count["received"] = 0 /\ count["rpc_success"] = 0
      /\ count["rpc_timeout"] = 0 /\ count["rpc_error"] = 0 /\ results["ok"] = 0
  BY DEF Init
<1>3. MessageInv BY <1>2 DEF Init, MessageInv, Succeeded, Unopposed
<1>4. RequestInv BY <1>2 DEF Init, RequestInv, Waiting, InCall, Finished
<1>5. StopInv BY DEF Init, StopInv
<1> QED BY <1>1, <1>3, <1>4, <1>5 DEF IInv

-----------------------------------------------------------------------------
LEMMA StepTypeOK == IInv /\ [Next]_vars => TypeOK'
<1> SUFFICES ASSUME IInv, [Next]_vars PROVE TypeOK'
  OBVIOUS
<1> USE DEF IInv
<1>0. /\ count \in [Counters -> Nat]
      /\ \A k \in Counters : Add(k, 1) \in [Counters -> Nat]
  BY AddCounts DEF TypeOK
<1>1. CASE SenderConnects
  <2>1. count' = count \/ count' = Add("errors", 1)
    BY <1>1 DEF SenderConnects
  <2>2. count' \in [Counters -> Nat]
    BY ONLY <1>0, <2>1, CounterNames
  <2> QED BY <1>1, <2>2 DEF SenderConnects, TypeOK, broker
<1>2. CASE Send
  BY <1>2 DEF Send, TypeOK, broker
<1>3. CASE Sent
  <2>1. count' = count \/ count' = Add("sent", 1) \/ count' = Add("errors", 1)
    BY <1>3 DEF Sent, Return
  <2>2. count' \in [Counters -> Nat]
    BY ONLY <1>0, <2>1, CounterNames
  <2> QED BY <1>3, <2>2 DEF Sent, Return, TypeOK, broker
<1>4. CASE RpcReturns
  <2>1. PICK outcome \in {"executed", "refused", "timeout", "error"} : Return(RpcCount(outcome))
    BY <1>4 DEF RpcReturns
  <2> QED BY <2>1, RpcCounts DEF Return, TypeOK, broker
<1>5. CASE UpstreamSent
  <2>1. count' = count \/ count' = Add("errors", 1)
    BY <1>5 DEF UpstreamSent
  <2>2. count' \in [Counters -> Nat]
    BY ONLY <1>0, <2>1, CounterNames
  <2> QED BY <1>5, <2>2 DEF UpstreamSent, TypeOK
<1>6. CASE ReceiverConnects
  <2>1. count' = count \/ count' = Add("errors", 1)
    BY <1>6 DEF ReceiverConnects
  <2>2. count' \in [Counters -> Nat]
    BY ONLY <1>0, <2>1, CounterNames
  <2> QED BY <1>6, <2>2 DEF ReceiverConnects, TypeOK, broker
<1>7. CASE Cancel \/ Poll \/ PollStarts
  BY <1>7 DEF Cancel, Poll, PollStarts, TypeOK, broker
<1>8. CASE Polled
  <2>1. PICK n \in 0..queued, acked, failed \in BOOLEAN :
          /\ queued' = IF acked THEN queued - n ELSE queued
          /\ again' = IF acked THEN again ELSE again + n
          /\ count' = [count EXCEPT !.received = @ + n, !.errors = IF failed THEN @ + 1 ELSE @]
    BY <1>8 DEF Polled
  <2>2. [count EXCEPT !["received"] = @ + n] \in [Counters -> Nat]
    BY <1>0, <2>1, CounterNames DEF TypeOK
  <2>3. count' \in [Counters -> Nat]
    BY ONLY <1>0, <2>1, <2>2, CounterNames, OneMore
  <2> QED BY <1>8, <2>1, <2>3 DEF Polled, TypeOK
<1>9. CASE PollFails
  <2>1. count' = count \/ count' = Add("errors", 1)
    BY <1>9 DEF PollFails
  <2>2. count' \in [Counters -> Nat]
    BY ONLY <1>0, <2>1, CounterNames
  <2> QED BY <1>9, <2>2 DEF PollFails, TypeOK
<1>10. CASE Arrive
  BY <1>10 DEF Arrive, TypeOK
<1>11. CASE ArriveUpstream
  BY <1>11 DEF ArriveUpstream, TypeOK
<1>12. CASE UpstreamResult
  <2>1. count' = Add("sent", 1) \/ count' = Add("errors", 1)
    BY <1>12 DEF UpstreamResult
  <2>2. results' \in [{"ok", "bad"} -> Nat]
    BY <1>12 DEF UpstreamResult, TypeOK
  <2>3. count' \in [Counters -> Nat]
    BY ONLY <1>0, <2>1, CounterNames
  <2> QED BY <1>12, <2>2, <2>3 DEF UpstreamResult, TypeOK
<1>13. CASE OnEvent
  <2>1. count' = Add("received", 1)
    BY <1>13 DEF OnEvent
  <2>2. count' \in [Counters -> Nat]
    BY ONLY <1>0, <2>1, CounterNames
  <2> QED BY <1>13, <2>2 DEF OnEvent, TypeOK
<1>14. CASE OnRequest
  <2>1. count' = count \/ count' = Add("errors", 1)
    BY <1>14 DEF OnRequest
  <2>2. count' \in [Counters -> Nat]
    BY ONLY <1>0, <2>1, CounterNames
  <2> QED BY <1>14, <2>2 DEF OnRequest, TypeOK
<1>15. CASE OnError
  <2>1. count' = Add("errors", 1)
    BY <1>15 DEF OnError
  <2>2. count' \in [Counters -> Nat]
    BY ONLY <1>0, <2>1, CounterNames
  <2> QED BY <1>15, <2>2 DEF OnError, TypeOK, broker
<1>16. CASE Stop \/ CloseReceiver \/ Joined \/ Flushed
  BY <1>16 DEF Stop, CloseReceiver, Joined, Flushed, TypeOK, broker
<1>17. CASE UNCHANGED vars
  BY <1>17 DEF vars, TypeOK, broker
<1> QED BY <1>1, <1>2, <1>3, <1>4, <1>5, <1>6, <1>7, <1>8, <1>9, <1>10, <1>11, <1>12, <1>13,
           <1>14, <1>15, <1>16, <1>17 DEF Next, SenderStep, ReceiverStep

LEMMA StepStopInv == IInv /\ [Next]_vars => StopInv'
<1> SUFFICES ASSUME IInv, [Next]_vars PROVE StopInv'
  OBVIOUS
<1> USE DEF IInv, StopInv
<1>1. CASE SenderStep
  BY <1>1 DEF SenderStep, SenderConnects, Send, Sent, RpcReturns, UpstreamSent, Return
<1>2. CASE ReceiverStep
  BY <1>2 DEF ReceiverStep, ReceiverConnects, Cancel, Poll, PollStarts, Polled, PollFails
<1>3. CASE Arrive \/ ArriveUpstream \/ UpstreamResult \/ OnEvent \/ OnRequest \/ OnError
  BY <1>3 DEF Arrive, ArriveUpstream, UpstreamResult, OnEvent, OnRequest, OnError
<1>4. CASE Stop \/ CloseReceiver \/ Joined \/ Flushed
  BY <1>4 DEF Stop, CloseReceiver, Joined, Flushed
<1>5. CASE UNCHANGED vars
  BY <1>5 DEF vars
<1> QED BY <1>1, <1>2, <1>3, <1>4, <1>5 DEF Next

\* What one more error, one more message sent and one more received change.
LEMMA AddEach ==
  ASSUME TypeOK
  PROVE  /\ \A j \in Counters \ {"errors"} : Add("errors", 1)[j] = count[j]
         /\ Add("sent", 1)["sent"] = count["sent"] + 1
         /\ Add("sent", 1)["received"] = count["received"]
         /\ Add("received", 1)["sent"] = count["sent"]
         /\ Add("received", 1)["received"] = count["received"] + 1
<1>1. \A j \in Counters \ {"errors"} : Add("errors", 1)[j] = count[j]
  BY ONLY TypeOK, AddCounts, CounterNames
<1>2. Add("sent", 1)["sent"] = count["sent"] + 1 /\ Add("sent", 1)["received"] = count["received"]
  BY ONLY TypeOK, AddCounts, CounterNames
<1>3. /\ Add("received", 1)["sent"] = count["sent"]
      /\ Add("received", 1)["received"] = count["received"] + 1
  BY ONLY TypeOK, AddCounts, CounterNames
<1> QED BY <1>1, <1>2, <1>3

\* A worker stays of its class.
LEMMA ClassStays == [Next]_vars => pattern' = pattern
<1> SUFFICES ASSUME [Next]_vars PROVE pattern' = pattern
  OBVIOUS
<1>1. CASE SenderStep
  BY ONLY <1>1 DEF SenderStep, SenderConnects, Send, Sent, RpcReturns, UpstreamSent, Return, Fixed
<1>2. CASE ReceiverStep
  BY ONLY <1>2 DEF ReceiverStep, ReceiverConnects, Cancel, Poll, PollStarts, Polled, PollFails, Fixed
<1>3. CASE Arrive \/ ArriveUpstream \/ UpstreamResult \/ OnEvent \/ OnRequest \/ OnError
  BY ONLY <1>3 DEF Arrive, ArriveUpstream, UpstreamResult, OnEvent, OnRequest, OnError, Fixed
<1>4. CASE Stop \/ CloseReceiver \/ Joined \/ Flushed
  BY ONLY <1>4 DEF Stop, CloseReceiver, Joined, Flushed, Fixed
<1>5. CASE UNCHANGED vars
  BY ONLY <1>5 DEF vars
<1> QED BY <1>1, <1>2, <1>3, <1>4, <1>5 DEF Next

LEMMA StepMessageInv == IInv /\ [Next]_vars => MessageInv'
<1> SUFFICES ASSUME IInv, [Next]_vars, ~Rpc PROVE MessageInv'
  BY ClassStays DEF MessageInv, Rpc
<1> DEFINE s == count["sent"]
           r == count["received"]
           ok == results["ok"]
           w == IF Succeeded THEN 1 ELSE 0
<1>0. /\ s \in Nat /\ r \in Nat /\ ok \in Nat /\ accepted \in Nat /\ queued \in Nat /\ again \in Nat
      /\ s + ok + w <= accepted + (IF pattern = "events" THEN unsaid ELSE 0) /\ r + queued <= accepted + again
      /\ unsaid \in Nat
  BY CounterNames DEF IInv, TypeOK, MessageInv, Unopposed
<1>p. pattern' = pattern
  BY ClassStays
<1>e. ASSUME count' = count \/ count' = Add("errors", 1) PROVE s' = s /\ r' = r
  BY <1>e, AddEach, CounterNames DEF IInv
<1>s. ASSUME count' = Add("sent", 1) PROVE s' = s + 1 /\ r' = r
  BY <1>s, AddEach DEF IInv
<1>r. ASSUME count' = Add("received", 1) PROVE s' = s /\ r' = r + 1
  BY <1>r, AddEach DEF IInv
<1> SUFFICES /\ s' + ok' + w' <= accepted' + (IF pattern' = "events" THEN unsaid' ELSE 0)
             /\ r' + queued' <= accepted' + again'
  BY DEF MessageInv, Unopposed
<1>1. CASE SenderConnects
  <2>1. s' = s /\ r' = r
    BY <1>1, <1>e DEF SenderConnects
  <2> QED BY ONLY <1>0, <1>p, <1>1, <2>1 DEF SenderConnects, broker, Succeeded
<1>2. CASE Send
  BY ONLY <1>0, <1>p, <1>2 DEF Send, broker, Succeeded
<1>3. CASE Sent
  <2>1. \/ Succeeded /\ s' = s + 1 /\ r' = r
        \/ s' = s /\ r' = r
    BY <1>3, <1>e, <1>s DEF Sent, Return
  <2>2. current' = "none" /\ UNCHANGED broker
    BY <1>3 DEF Sent, Return
  <2> QED BY ONLY <1>0, <1>p, <2>1, <2>2 DEF broker, Succeeded
<1>4. CASE RpcReturns
  BY <1>4 DEF RpcReturns
<1>5. CASE UpstreamSent
  <2>1. s' = s /\ r' = r
    BY <1>5, <1>e DEF UpstreamSent
  <2> QED BY ONLY <1>0, <1>p, <1>5, <2>1 DEF UpstreamSent, Succeeded
<1>6. CASE ReceiverConnects
  <2>1. s' = s /\ r' = r
    BY <1>6, <1>e DEF ReceiverConnects
  <2> QED BY ONLY <1>0, <1>p, <1>6, <2>1 DEF ReceiverConnects, broker, Succeeded
<1>7. CASE Cancel \/ Poll \/ PollStarts
  BY ONLY <1>0, <1>p, <1>7 DEF Cancel, Poll, PollStarts, broker, Succeeded
<1>8. CASE Polled
  <2>1. PICK n \in 0..queued, acked, failed \in BOOLEAN :
          /\ queued' = IF acked THEN queued - n ELSE queued
          /\ again' = IF acked THEN again ELSE again + n
          /\ count' = [count EXCEPT !.received = @ + n, !.errors = IF failed THEN @ + 1 ELSE @]
    BY <1>8 DEF Polled
  <2>2. s' = s /\ r' = r + n
    BY <2>1, CounterNames DEF IInv, TypeOK
  <2>3. UNCHANGED <<results, accepted, unsaid, current>>
    BY <1>8 DEF Polled
  <2> QED BY ONLY <1>0, <1>p, <2>1, <2>2, <2>3 DEF Succeeded
<1>9. CASE PollFails
  <2>1. s' = s /\ r' = r
    BY <1>9, <1>e DEF PollFails
  <2> QED BY ONLY <1>0, <1>p, <1>9, <2>1 DEF PollFails, Succeeded
<1>10. CASE Arrive
  BY ONLY <1>0, <1>p, <1>10 DEF Arrive, Succeeded
<1>11. CASE ArriveUpstream
  <2>1. \/ ok' = ok + 1 /\ accepted' = accepted + 1 /\ queued' = queued + 1
        \/ ok' = ok /\ accepted' = accepted /\ queued' = queued
    BY <1>11 DEF ArriveUpstream, IInv, TypeOK
  <2>2. UNCHANGED <<count, current, unsaid, again>>
    BY <1>11 DEF ArriveUpstream
  <2> QED BY ONLY <1>0, <1>p, <2>1, <2>2 DEF Succeeded
<1>12. CASE UpstreamResult
  <2>1. \/ ok' = ok - 1 /\ s' = s + 1 /\ r' = r
        \/ ok' = ok /\ s' = s /\ r' = r
    <3>1. PICK k \in {"ok", "bad"} :
            /\ results' = [results EXCEPT ![k] = @ - 1]
            /\ count' = Add(IF k = "ok" THEN "sent" ELSE "errors", 1)
      BY <1>12 DEF UpstreamResult
    <3>2. CASE k = "ok"
      <4>1. ok' = ok - 1 BY <3>1, <3>2 DEF IInv, TypeOK
      <4>2. s' = s + 1 /\ r' = r BY <3>1, <3>2, <1>s
      <4> QED BY <4>1, <4>2
    <3>3. CASE k = "bad"
      <4>1. ok' = ok BY <3>1, <3>3 DEF IInv, TypeOK
      <4>2. s' = s /\ r' = r BY <3>1, <3>3, <1>e
      <4> QED BY <4>1, <4>2
    <3> QED BY <3>2, <3>3
  <2>2. UNCHANGED <<accepted, unsaid, queued, current, again>>
    BY <1>12 DEF UpstreamResult
  <2> QED BY ONLY <1>0, <1>p, <2>1, <2>2 DEF Succeeded
<1>13. CASE OnEvent
  <2>1. s' = s /\ r' = r + 1
    BY <1>13, <1>r DEF OnEvent
  <2> QED BY ONLY <1>0, <1>p, <1>13, <2>1 DEF OnEvent, Succeeded
<1>14. CASE OnRequest
  BY <1>14 DEF OnRequest
<1>15. CASE OnError
  <2>1. s' = s /\ r' = r
    BY <1>15, <1>e DEF OnError
  <2> QED BY ONLY <1>0, <1>p, <1>15, <2>1 DEF OnError, broker, Succeeded
<1>16. CASE Stop \/ CloseReceiver \/ Joined \/ Flushed
  BY ONLY <1>0, <1>p, <1>16 DEF Stop, CloseReceiver, Joined, Flushed, broker, Succeeded
<1>17. CASE UNCHANGED vars
  BY ONLY <1>0, <1>p, <1>17 DEF vars, broker, Succeeded
<1> QED BY <1>1, <1>2, <1>3, <1>4, <1>5, <1>6, <1>7, <1>8, <1>9, <1>10, <1>11, <1>12, <1>13,
           <1>14, <1>15, <1>16, <1>17 DEF Next, SenderStep, ReceiverStep

LEMMA StepRequestInv == IInv /\ [Next]_vars => RequestInv'
<1> SUFFICES ASSUME IInv, [Next]_vars, Rpc PROVE RequestInv'
  BY ClassStays DEF RequestInv, Rpc
<1> DEFINE s == count["sent"]
           r == count["received"]
           y == count["rpc_success"]
           f == Finished(count)
           ok == results["ok"]
           Holds == /\ written = 0 /\ ok = 0
                    /\ r + Waiting("answered") <= answered
                    /\ y = s
                    /\ f + InCall <= calls
                    /\ running => f + InCall = calls
<1>0. /\ s \in Nat /\ r \in Nat /\ y \in Nat /\ f \in Nat /\ calls \in Nat /\ answered \in Nat
      /\ running \in BOOLEAN
      /\ Holds
  BY CounterNames DEF IInv, TypeOK, RequestInv, Finished
<1>e. ASSUME count' = count \/ count' = Add("errors", 1)
      PROVE  s' = s /\ r' = r /\ y' = y /\ f' = f
  BY <1>e, AddEach, CounterNames DEF IInv, Finished
<1> SUFFICES Holds'
  BY DEF RequestInv
<1>q. pattern # "queue_stream" /\ Subscribes
  BY DEF Rpc, Subscribes
<1>1. CASE SenderConnects
  <2>1. s' = s /\ r' = r /\ y' = y /\ f' = f
    BY <1>1, <1>e DEF SenderConnects
  <2>2. InCall = 0 /\ InCall' = 0
    BY <1>1 DEF SenderConnects, InCall
  <2> HIDE DEF f
  <2> QED BY ONLY <1>0, <1>1, <2>1, <2>2 DEF SenderConnects, broker, Waiting
<1>2. CASE Send
  <2>1. \/ running /\ InCall = 0 /\ InCall' = 1 /\ calls' = calls + 1
        \/ ~running /\ InCall = 0 /\ InCall' = 0 /\ calls' = calls
    BY <1>2 DEF Send, InCall
  <2>2. Waiting("answered")' <= Waiting("answered")
    BY <1>2 DEF Send, Waiting
  <2>3. UNCHANGED <<running, broker, count>>
    BY <1>2 DEF Send
  <2>4. Waiting("answered") \in Int /\ Waiting("answered")' \in Int
    BY DEF Waiting
  <2>5. s' = s /\ r' = r /\ y' = y /\ f' = f
    BY <2>3
  <2> HIDE DEF f
  <2> QED BY ONLY <1>0, <2>1, <2>2, <2>3, <2>4, <2>5 DEF broker
<1>3. CASE Sent
  BY <1>3 DEF Sent
<1>4. CASE RpcReturns
  <2>1. PICK outcome \in {"executed", "refused", "timeout", "error"} :
          /\ outcome = "executed" => current = "answered"
          /\ Return(RpcCount(outcome))
    BY <1>4 DEF RpcReturns
  <2>2. /\ r' = r + IF outcome = "executed" THEN 1 ELSE 0
        /\ y' = s'
        /\ f' <= f + 1
        /\ running => f' = f + 1
    BY <1>0, <2>1, RpcCounts DEF Return, IInv
  <2>3. /\ sender = "call" /\ sender' = "loop" /\ current' = "none"
        /\ UNCHANGED <<running, calls, written, results, answered>>
    BY <2>1 DEF Return, broker
  <2>4. Waiting("answered")' = 0 /\ InCall = 1 /\ InCall' = 0
    BY <2>3 DEF Waiting, InCall
  <2>5. r' <= r + Waiting("answered")
    BY ONLY <1>0, <2>1, <2>2 DEF Waiting
  <2>6. r' \in Nat /\ f' \in Nat
    BY CounterNames, StepTypeOK DEF TypeOK, Finished
  <2>7. Waiting("answered") \in Nat
    BY DEF Waiting
  <2>8. ok' = ok /\ written' = written /\ answered' = answered
    BY <2>3
  <2>9. (r + Waiting("answered") <= answered)'
    BY ONLY <1>0, <2>4, <2>5, <2>6, <2>7, <2>8
  <2>10. calls' = calls /\ running' = running
    BY <2>3
  <2>11. f' + InCall' <= calls' /\ (running' => f' + InCall' = calls')
    BY ONLY <1>0, <2>2, <2>10, <2>4, <2>6
  <2> QED BY <1>0, <2>2, <2>8, <2>9, <2>11
<1>5. CASE UpstreamSent
  BY <1>5, <1>q DEF UpstreamSent
<1>6. CASE ReceiverConnects \/ Cancel \/ OnError
  <2>1. s' = s /\ r' = r /\ y' = y /\ f' = f
    BY <1>6, <1>e DEF ReceiverConnects, Cancel, OnError
  <2> HIDE DEF f
  <2> QED BY ONLY <1>0, <1>6, <2>1 DEF ReceiverConnects, Cancel, OnError, broker, Waiting, InCall
<1>7. CASE Poll \/ PollStarts \/ Polled \/ PollFails
  BY <1>7, <1>q DEF Poll, PollStarts, Polled, PollFails
<1>8. CASE Arrive
  BY ONLY <1>0, <1>8 DEF Arrive, Waiting, InCall, Finished
<1>9. CASE ArriveUpstream \/ OnEvent
  BY <1>9, <1>0 DEF ArriveUpstream, OnEvent
<1>13. CASE UpstreamResult
  <2>0. PICK k \in {"ok", "bad"} :
          /\ results[k] > 0
          /\ results' = [results EXCEPT ![k] = @ - 1]
          /\ count' = Add(IF k = "ok" THEN "sent" ELSE "errors", 1)
    BY <1>13 DEF UpstreamResult
  <2>1. k = "bad" /\ count' = Add("errors", 1)
    BY <1>0, <2>0
  <2>2. ok' = ok
    BY <2>0, <2>1 DEF IInv, TypeOK
  <2>3. s' = s /\ r' = r /\ y' = y /\ f' = f
    BY <2>1, <1>e
  <2> HIDE DEF f
  <2> QED BY ONLY <1>0, <1>13, <2>2, <2>3 DEF UpstreamResult, Waiting, InCall
<1>10. CASE OnRequest
  <2>1. s' = s /\ r' = r /\ y' = y /\ f' = f
    BY <1>10, <1>e DEF OnRequest
  <2>2. \/ answered' = answered + 1 /\ Waiting("answered")' <= Waiting("answered") + 1
        \/ answered' = answered /\ Waiting("answered")' = Waiting("answered")
    BY <1>10 DEF OnRequest, Waiting
  <2>3. Waiting("answered") \in Int /\ Waiting("answered")' \in Int
    BY DEF Waiting
  <2> HIDE DEF f
  <2> QED BY ONLY <1>0, <1>10, <2>1, <2>2, <2>3 DEF OnRequest, InCall
<1>11. CASE Stop \/ CloseReceiver \/ Joined \/ Flushed
  BY ONLY <1>0, <1>11 DEF Stop, CloseReceiver, Joined, Flushed, broker, Waiting, InCall, Finished
<1>12. CASE UNCHANGED vars
  BY ONLY <1>0, <1>12 DEF vars, broker, Waiting, InCall, Finished
<1> QED BY <1>1, <1>2, <1>3, <1>4, <1>5, <1>6, <1>7, <1>8, <1>9, <1>10, <1>11, <1>12,
           <1>13 DEF Next, SenderStep, ReceiverStep

-----------------------------------------------------------------------------
(***************************************************************************)
(* What a worker of burnin/worker has counted, what is on its way to be    *)
(* counted and what Stop has ended, at every moment: the invariant the two *)
(* theorems below rest on.                                                 *)
(***************************************************************************)
THEOREM WorkerInvariant == Spec => []IInv
<1>1. IInv /\ [Next]_vars => IInv'
  BY StepTypeOK, StepMessageInv, StepRequestInv, StepStopInv DEF IInv
<1> QED BY InitOK, <1>1, PTL DEF Spec

(***************************************************************************)
(* The counters of a worker never say more than the broker did, and every  *)
(* command or query is in exactly one counter, however many are sent.      *)
(***************************************************************************)
THEOREM CountersAreTrueAlways == Spec => []CountersAreTrue
<1>1. IInv => NothingFlattered
  <2> SUFFICES ASSUME IInv PROVE NothingFlattered
    OBVIOUS
  <2>1. /\ count["sent"] \in Nat /\ count["received"] \in Nat /\ results["ok"] \in Nat /\ queued \in Nat
        /\ accepted \in Nat /\ unsaid \in Nat /\ again \in Nat /\ answered \in Nat
    BY CounterNames DEF IInv, TypeOK
  <2>2. ~Rpc => /\ count["sent"] + results["ok"] + (IF Succeeded THEN 1 ELSE 0) <= Unopposed
                /\ count["received"] + queued <= accepted + again
    BY DEF IInv, MessageInv
  <2>3. Rpc => count["received"] + Waiting("answered") <= answered
    BY DEF IInv, RequestInv
  <2> QED BY ONLY <2>1, <2>2, <2>3 DEF NothingFlattered, Waiting, Unopposed
<1>2. IInv => RequestsCountedOnce
  <2> SUFFICES ASSUME IInv, Rpc PROVE RequestsCountedOnce
    BY DEF RequestsCountedOnce
  <2>1. Finished(count) \in Nat /\ calls \in Nat
    BY CounterNames DEF IInv, TypeOK, Finished
  <2>2. /\ count["rpc_success"] = count["sent"]
        /\ Finished(count) + InCall <= calls
        /\ running => Finished(count) + InCall = calls
    BY DEF IInv, RequestInv
  <2>3. Finished(count) <= calls /\ (running /\ sender = "loop" => Finished(count) = calls)
    BY ONLY <2>1, <2>2 DEF InCall
  <2> QED BY <2>2, <2>3 DEF RequestsCountedOnce, Finished
<1> QED BY <1>1, <1>2, WorkerInvariant, PTL DEF CountersAreTrue

(***************************************************************************)
(* After Stop of a worker no step changes its counters, the flush of an    *)
(* upstream by its detached thread excepted: the engine may read them for  *)
(* the report and free the worker.                                         *)
(***************************************************************************)
THEOREM QuietAfterStopAlways == Spec => QuietAfterStop
<1> DEFINE Quiet == stopping = "done" /\ upstream \in {"none", "gone"} => count' = count
<1>1. IInv /\ [Next]_vars => [Quiet]_vars
  <2> SUFFICES ASSUME IInv, [Next]_vars, stopping = "done", upstream \in {"none", "gone"}
               PROVE  count' = count
    OBVIOUS
  <2>1. sender = "ended" /\ receiver = "ended" /\ handle # "open"
    BY DEF IInv, StopInv
  <2>2. CASE SenderStep
    BY ONLY <2>1, <2>2 DEF SenderStep, SenderConnects, Send, Sent, RpcReturns, UpstreamSent, Return
  <2>3. CASE ReceiverStep
    BY ONLY <2>1, <2>3 DEF ReceiverStep, ReceiverConnects, Cancel, Poll, PollStarts, Polled, PollFails
  <2>4. CASE Arrive \/ ArriveUpstream \/ UpstreamResult \/ OnEvent \/ OnRequest \/ OnError
    BY <2>1, <2>4 DEF Arrive, ArriveUpstream, UpstreamResult, OnEvent, OnRequest, OnError
  <2>5. CASE Stop \/ CloseReceiver \/ Joined \/ Flushed
    BY ONLY <2>5 DEF Stop, CloseReceiver, Joined, Flushed
  <2>6. CASE UNCHANGED vars
    BY ONLY <2>6 DEF vars
  <2> QED BY <2>2, <2>3, <2>4, <2>5, <2>6 DEF Next
<1> QED BY <1>1, WorkerInvariant, PTL DEF Spec, QuietAfterStop

-----------------------------------------------------------------------------
(* The application as its HTTP clients see it. *)

(* Configurations. *)

\* The keys of a configuration.
Keys == {"broker_address", "duration_seconds", "warmup_seconds", "payload_size", "run_id",
         "patterns", "queue"}

\* What the fields of an object replace.
LEMMA Merged ==
  ASSUME NEW r, NEW j
  PROVE  /\ DOMAIN Merge(r, j) = DOMAIN r
         /\ \A f \in DOMAIN r : Merge(r, j)[f] = IF f \in DOMAIN j THEN j[f] ELSE r[f]
         /\ Merge(r, j) = [f \in DOMAIN r |-> Merge(r, j)[f]]
BY DEF Merge

\* The configuration of one pattern, read from an object, has the three settings and no other.
LEMMA PatternRead ==
  ASSUME NEW j
  PROVE  /\ PatternToJson(Merge(NewPatternConfig, j)) = Merge(NewPatternConfig, j)
         /\ Merge(NewPatternConfig, j).channels = IF "channels" \in DOMAIN j THEN j.channels ELSE 1
<1>1. DOMAIN NewPatternConfig = {"enabled", "channels", "rate"} /\ NewPatternConfig.channels = 1
  BY DEF NewPatternConfig
<1> QED BY <1>1 DEF Merge, PatternToJson

LEMMA QueueRead ==
  ASSUME NEW j
  PROVE  QueueToJson(Merge(NewQueueConfig, j)) = Merge(NewQueueConfig, j)
<1>1. DOMAIN NewQueueConfig = {"poll_max_messages", "poll_wait_timeout_seconds", "auto_ack"}
  BY DEF NewQueueConfig
<1> QED BY <1>1 DEF Merge, QueueToJson

\* What is written of a pattern or of the queue is read as it was.
LEMMA PatternReread == ASSUME NEW q, q = PatternToJson(q) PROVE Merge(NewPatternConfig, q) = q
<1>1. DOMAIN NewPatternConfig = {"enabled", "channels", "rate"} BY DEF NewPatternConfig
<1>2. DOMAIN q = {"enabled", "channels", "rate"} /\ q = [f \in DOMAIN q |-> q[f]]
  BY DEF PatternToJson
<1> QED BY <1>1, <1>2 DEF Merge

LEMMA QueueReread == ASSUME NEW q, q = QueueToJson(q) PROVE Merge(NewQueueConfig, q) = q
<1>1. DOMAIN NewQueueConfig = {"poll_max_messages", "poll_wait_timeout_seconds", "auto_ack"}
  BY DEF NewQueueConfig
<1>2. /\ DOMAIN q = {"poll_max_messages", "poll_wait_timeout_seconds", "auto_ack"}
      /\ q = [f \in DOMAIN q |-> q[f]]
  BY DEF QueueToJson
<1> QED BY <1>1, <1>2 DEF Merge

\* The patterns of a configuration, all with their three settings.
IsPatterns(m) == m = [p \in DOMAIN m |-> PatternToJson(m[p])]

\* A configuration with its seven settings.
IsConfig(c) ==
  /\ DOMAIN c = Keys /\ c = [f \in Keys |-> c[f]]
  /\ IsPatterns(c.patterns) /\ c.queue = QueueToJson(c.queue)

\* That is: what is written of it is the configuration itself.
LEMMA WrittenAsItIs == ASSUME NEW c PROVE c = to_json(c) <=> IsConfig(c)
<1>1. ASSUME c = to_json(c) PROVE IsConfig(c)
  <2>1. DOMAIN c = Keys /\ c = [f \in Keys |-> c[f]] BY <1>1 DEF to_json, Keys
  <2>2. c.patterns = [p \in DOMAIN c.patterns |-> PatternToJson(c.patterns[p])]
    BY <1>1 DEF to_json
  <2>3. c.queue = QueueToJson(c.queue) BY <1>1 DEF to_json
  <2> QED BY <2>1, <2>2, <2>3 DEF IsConfig, IsPatterns
<1>2. ASSUME IsConfig(c) PROVE c = to_json(c)
  <2> DEFINE d == to_json(c)
  <2>1. DOMAIN d = Keys /\ d = [f \in Keys |-> d[f]] BY DEF to_json, Keys
  <2>2. \A f \in Keys : d[f] = c[f] BY <1>2 DEF to_json, Keys, IsConfig, IsPatterns
  <2> HIDE DEF d
  <2> QED BY <1>2, <2>1, <2>2 DEF IsConfig, d
<1> QED BY <1>1, <1>2

\* The defaults.
LEMMA Defaults == IsConfig(SetDefaults) /\ \A p \in DOMAIN SetDefaults.patterns : SetDefaults.patterns[p].channels = 1
<1> DEFINE d == SetDefaults
           At(e) == [NewPatternConfig EXCEPT !.rate = e]
<1>1. ASSUME NEW e PROVE At(e) = PatternToJson(At(e)) /\ At(e).channels = 1
  <2>1. At(e) = [f \in DOMAIN NewPatternConfig |-> IF f = "rate" THEN e ELSE NewPatternConfig[f]] OBVIOUS
  <2>2. /\ DOMAIN NewPatternConfig = {"enabled", "channels", "rate"} /\ NewPatternConfig.channels = 1
    BY DEF NewPatternConfig
  <2> HIDE DEF At
  <2> QED BY <2>1, <2>2 DEF PatternToJson
<1>2. /\ DOMAIN d = Keys /\ d = [f \in Keys |-> d[f]] /\ d.queue = NewQueueConfig
      /\ d.patterns = [p \in Patterns |-> At(DefaultRate[p])]
  BY DEF SetDefaults, Keys
<1>3. NewQueueConfig = QueueToJson(NewQueueConfig)
  BY DEF NewQueueConfig, QueueToJson
<1> HIDE DEF d, At
<1>4. IsPatterns(d.patterns) /\ \A p \in DOMAIN d.patterns : d.patterns[p].channels = 1
  BY <1>1, <1>2 DEF IsPatterns
<1> QED BY <1>2, <1>3, <1>4 DEF IsConfig, d

\* The second version sets neither the patterns nor the queue.
LEMMA Version2 ==
  ASSUME NEW j
  PROVE  LET v == ReadVersion2(j)
         IN  DOMAIN v = Keys /\ v.patterns = SetDefaults.patterns /\ v.queue = SetDefaults.queue
<1>1. DOMAIN SetDefaults = Keys /\ SetDefaults = [f \in Keys |-> SetDefaults[f]]
  BY Defaults DEF IsConfig
<1> QED BY <1>1 DEF ReadVersion2, Keys

\* What is read is a configuration, with the patterns of the body if it has some.
LEMMA ConfigRead ==
  ASSUME NEW j
  PROVE  LET c == from_json(j)
         IN  /\ IsConfig(c)
             /\ c.patterns = IF "patterns" \in DOMAIN j
                             THEN [p \in DOMAIN j.patterns |-> Merge(NewPatternConfig, j.patterns[p])]
                             ELSE SetDefaults.patterns
             /\ c.queue = IF "queue" \in DOMAIN j THEN Merge(NewQueueConfig, j.queue) ELSE SetDefaults.queue
             /\ \A f \in Keys \ {"patterns", "queue"} :
                  c[f] = IF f \in DOMAIN j THEN j[f] ELSE ReadVersion2(j)[f]
<1> DEFINE v == ReadVersion2(j)
           m == Merge(v, j)
           P == IF "patterns" \in DOMAIN j THEN [p \in DOMAIN j.patterns |-> Merge(NewPatternConfig, j.patterns[p])]
                ELSE SetDefaults.patterns
           Q == IF "queue" \in DOMAIN j THEN Merge(NewQueueConfig, j.queue) ELSE SetDefaults.queue
           c == from_json(j)
<1>1. /\ DOMAIN m = Keys /\ m = [f \in Keys |-> m[f]]
      /\ \A f \in Keys : m[f] = IF f \in DOMAIN j THEN j[f] ELSE v[f]
      /\ v.patterns = SetDefaults.patterns /\ v.queue = SetDefaults.queue
  BY Version2, Merged
<1>2. "patterns" \in Keys /\ "queue" \in Keys BY DEF Keys
<1>3. c = [m EXCEPT !.patterns = IF "patterns" \in DOMAIN j
                                  THEN [p \in DOMAIN j.patterns |-> Merge(NewPatternConfig, j.patterns[p])]
                                  ELSE m.patterns,
                    !.queue = IF "queue" \in DOMAIN j THEN Merge(NewQueueConfig, j.queue) ELSE m.queue]
  BY <1>1, <1>2 DEF from_json
<1> HIDE DEF m, v, c
<1>4. c = [m EXCEPT !.patterns = P, !.queue = Q] BY <1>1, <1>2, <1>3
<1>5. IsPatterns(P)
  <2>1. IsPatterns(SetDefaults.patterns) BY Defaults DEF IsConfig
  <2>2. CASE "patterns" \in DOMAIN j BY <2>2, PatternRead DEF IsPatterns
  <2> QED BY <2>1, <2>2
<1>6. Q = QueueToJson(Q) BY QueueRead, Defaults DEF IsConfig
<1> HIDE DEF P, Q
<1>7. DOMAIN c = Keys /\ c = [f \in Keys |-> c[f]] /\ c.patterns = P /\ c.queue = Q BY <1>1, <1>2, <1>4
<1>8. \A f \in Keys \ {"patterns", "queue"} : c[f] = m[f] BY <1>1, <1>4
<1> QED BY <1>1, <1>5, <1>6, <1>7, <1>8 DEF IsConfig, P, Q, c, v

\* A configuration that was written is read as it was.
LEMMA ConfigReread == ASSUME NEW c, c = to_json(c) PROVE from_json(c) = c
<1> DEFINE d == from_json(c)
<1>1. IsConfig(c) BY WrittenAsItIs
<1>2. /\ IsConfig(d)
      /\ d.patterns = [p \in DOMAIN c.patterns |-> Merge(NewPatternConfig, c.patterns[p])]
      /\ d.queue = Merge(NewQueueConfig, c.queue)
      /\ \A f \in Keys \ {"patterns", "queue"} : d[f] = c[f]
  <2>1. "patterns" \in DOMAIN c /\ "queue" \in DOMAIN c /\ DOMAIN c = Keys BY <1>1 DEF IsConfig, Keys
  <2> QED BY <2>1, ConfigRead
<1>3. d.queue = c.queue BY <1>1, <1>2, QueueReread DEF IsConfig
<1>4. d.patterns = c.patterns
  <2> DEFINE P == c.patterns
  <2>1. P = [p \in DOMAIN P |-> PatternToJson(P[p])] BY <1>1 DEF IsConfig, IsPatterns
  <2>2. d.patterns = [p \in DOMAIN P |-> Merge(NewPatternConfig, P[p])] BY <1>2
  <2> HIDE DEF P, d
  <2>3. \A p \in DOMAIN P : P[p] = PatternToJson(P[p]) BY <2>1
  <2>4. \A p \in DOMAIN P : Merge(NewPatternConfig, P[p]) = P[p] BY <2>3, PatternReread
  <2>5. P = [p \in DOMAIN P |-> P[p]] BY <2>1, <2>3
  <2> QED BY <2>2, <2>4, <2>5 DEF P
<1> HIDE DEF d
<1>5. \A f \in Keys : d[f] = c[f] BY <1>2, <1>3, <1>4 DEF Keys
<1> QED BY <1>1, <1>2, <1>5 DEF IsConfig, d

\* What a start request is read as.
LEMMA BodyRead ==
  ASSUME ServiceConstants, NEW body \in Bodies
  PROVE  LET c == FromJson(body)
         IN  IsConfig(c) /\ \A p \in DOMAIN c.patterns : c.patterns[p].channels \in Int
<1>1. CASE body.kind = "json" /\ body.wrong = {}
  <2> DEFINE j == body.fields
             c == from_json(j)
  <2>1. FromJson(body) = c BY <1>1 DEF FromJson
  <2>2. /\ IsConfig(c)
        /\ c.patterns = IF "patterns" \in DOMAIN j
                        THEN [p \in DOMAIN j.patterns |-> Merge(NewPatternConfig, j.patterns[p])]
                        ELSE SetDefaults.patterns
    BY ConfigRead
  <2>3. "patterns" \in DOMAIN j =>
          \A p \in DOMAIN j.patterns : "channels" \in DOMAIN j.patterns[p] => j.patterns[p].channels \in Int
    BY <1>1 DEF ServiceConstants
  <2> HIDE DEF c, j
  <2>4. ASSUME NEW p \in DOMAIN c.patterns PROVE c.patterns[p].channels \in Int
    <3>1. CASE "patterns" \in DOMAIN j
      <4>1. p \in DOMAIN j.patterns /\ c.patterns[p] = Merge(NewPatternConfig, j.patterns[p])
        BY <2>2, <3>1
      <4> QED BY <2>3, <3>1, <4>1, PatternRead
    <3>2. CASE "patterns" \notin DOMAIN j BY <2>2, <3>2, Defaults
    <3> QED BY <3>1, <3>2
  <2> QED BY <2>1, <2>2, <2>4
<1>2. CASE ~(body.kind = "json" /\ body.wrong = {})
  <2>1. FromJson(body) = SetDefaults BY <1>2 DEF FromJson
  <2> QED BY <2>1, Defaults
<1> QED BY <1>1, <1>2

\* A configuration with another run_id, or without patterns, is one.
LEMMA ConfigSet ==
  ASSUME NEW c, IsConfig(c), NEW id
  PROVE  /\ IsConfig([c EXCEPT !.run_id = id]) /\ [c EXCEPT !.run_id = id].patterns = c.patterns
         /\ IsConfig([c EXCEPT !.patterns = NoPatterns]) /\ [c EXCEPT !.patterns = NoPatterns].patterns = NoPatterns
<1>1. IsPatterns(NoPatterns) BY DEF IsPatterns, NoPatterns
<1> QED BY <1>1 DEF IsConfig, Keys

-----------------------------------------------------------------------------
(* Counting. *)

\* The numbers of workers that a configuration asks for.
LEMMA WorkersCreated ==
  ASSUME NEW c, \A p \in DOMAIN c.patterns : c.patterns[p].channels \in Int
  PROVE  /\ CreateWorkers(c) \in [Patterns -> Nat]
         /\ \A p \in Patterns : CreateWorkers(c)[p] > 0 => p \in DOMAIN c.patterns /\ c.patterns[p].enabled
<1>1. \A p \in Patterns : CreateWorkers(c)[p] \in Nat
                          /\ (CreateWorkers(c)[p] > 0 => p \in DOMAIN c.patterns /\ c.patterns[p].enabled)
  BY DEF CreateWorkers
<1>2. CreateWorkers(c) = [p \in Patterns |-> CreateWorkers(c)[p]]
  BY DEF CreateWorkers
<1> QED BY <1>1, <1>2

\* The counters of a pattern.
LEMMA Counts ==
  ASSUME ServiceTypeOK, NEW p
  PROVE  Read(metrics, p) \in [MetricNames -> Nat]
BY DEF ServiceTypeOK, Read, Zero

\* A set without one element is smaller by it.
LEMMA WithoutOne ==
  ASSUME NEW S, IsFiniteSet(S), NEW e
  PROVE  /\ IsFiniteSet(S \ {e}) /\ Cardinality(S \ {e}) \in Nat /\ Cardinality(S) \in Nat
         /\ Cardinality(S) = Cardinality(S \ {e}) + (IF e \in S THEN 1 ELSE 0)
<1>1. IsFiniteSet(S \ {e}) /\ Cardinality(S \ {e}) \in Nat /\ Cardinality(S) \in Nat
  BY FS_Subset, FS_CardinalityType
<1>2. CASE e \in S BY <1>1, <1>2, FS_RemoveElement
<1>3. CASE e \notin S
  <2>1. S \ {e} = S BY <1>3
  <2> QED BY <1>1, <1>3, <2>1
<1> QED BY <1>1, <1>2, <1>3

\* There are as many workers as patterns that have one, or more.
LEMMA WorkersAtLeast ==
  ASSUME NEW w \in [Patterns -> Nat], NEW S \in SUBSET Patterns, \A p \in S : w[p] > 0
  PROVE  Total(w) >= Cardinality(S)
<1> DEFINE N(e) == IF e \in S THEN 1 ELSE 0
           S1 == S \ {"events"}
           S2 == S1 \ {"events_store"}
           S3 == S2 \ {"queue_stream"}
           S4 == S3 \ {"queue_simple"}
           S5 == S4 \ {"commands"}
           S6 == S5 \ {"queries"}
<1>1. S6 = {} BY DEF Patterns
<1>2. IsFiniteSet(S)
  <2>1. IsFiniteSet(Patterns)
    <3>1. IsFiniteSet({} \cup {"events"} \cup {"events_store"} \cup {"queue_stream"})
      BY FS_EmptySet, FS_AddElement
    <3>2. IsFiniteSet({} \cup {"queue_simple"} \cup {"commands"} \cup {"queries"})
      BY FS_EmptySet, FS_AddElement
    <3>3. Patterns = ({} \cup {"events"} \cup {"events_store"} \cup {"queue_stream"})
                       \cup ({} \cup {"queue_simple"} \cup {"commands"} \cup {"queries"})
      BY DEF Patterns
    <3> QED BY <3>1, <3>2, <3>3, FS_Union
  <2> QED BY <2>1, FS_Subset
<1>3. /\ "events" \in S <=> "events" \in S
      /\ "events_store" \in S1 <=> "events_store" \in S
      /\ "queue_stream" \in S2 <=> "queue_stream" \in S
      /\ "queue_simple" \in S3 <=> "queue_simple" \in S
      /\ "commands" \in S4 <=> "commands" \in S
      /\ "queries" \in S5 <=> "queries" \in S
  OBVIOUS
<1> HIDE DEF S6
<1>10. Cardinality(S6) = 0 BY <1>1, FS_EmptySet
<1> HIDE DEF S5
<1> HIDE DEF S4
<1> HIDE DEF S3
<1> HIDE DEF S2
<1> HIDE DEF S1
<1>4. IsFiniteSet(S1) /\ Cardinality(S1) \in Nat /\ Cardinality(S) \in Nat /\ Cardinality(S) = Cardinality(S1) + N("events")
  BY <1>2, WithoutOne DEF S1
<1>5. IsFiniteSet(S2) /\ Cardinality(S2) \in Nat /\ Cardinality(S1) = Cardinality(S2) + N("events_store")
  BY <1>3, <1>4, WithoutOne DEF S2
<1>6. IsFiniteSet(S3) /\ Cardinality(S3) \in Nat /\ Cardinality(S2) = Cardinality(S3) + N("queue_stream")
  BY <1>3, <1>5, WithoutOne DEF S3
<1>7. IsFiniteSet(S4) /\ Cardinality(S4) \in Nat /\ Cardinality(S3) = Cardinality(S4) + N("queue_simple")
  BY <1>3, <1>6, WithoutOne DEF S4
<1>8. IsFiniteSet(S5) /\ Cardinality(S5) \in Nat /\ Cardinality(S4) = Cardinality(S5) + N("commands")
  BY <1>3, <1>7, WithoutOne DEF S5
<1>9. Cardinality(S6) \in Nat /\ Cardinality(S5) = Cardinality(S6) + N("queries")
  BY <1>3, <1>8, WithoutOne DEF S6
<1>11. ASSUME NEW p \in Patterns PROVE w[p] \in Nat /\ N(p) \in Nat /\ N(p) <= w[p] OBVIOUS
<1>12. {"events", "events_store", "queue_stream", "queue_simple", "commands", "queries"} = Patterns
  BY DEF Patterns
<1> HIDE DEF N
<1> QED BY <1>4, <1>5, <1>6, <1>7, <1>8, <1>9, <1>10, <1>11, <1>12 DEF Total

-----------------------------------------------------------------------------
(* The invariant. *)

LEMMA ServiceBegins == ServiceInit => ServiceIInv
<1> SUFFICES ASSUME ServiceInit PROVE ServiceIInv OBVIOUS
<1>1. /\ config = [SetDefaults EXCEPT !.patterns = NoPatterns] /\ metrics = NoPatterns /\ counted = {}
      /\ workers = [p \in Patterns |-> 0] /\ hasReport = FALSE /\ run = "none" /\ late = {} /\ flushing = FALSE
  BY DEF ServiceInit
<1>2. config = to_json(config) /\ config.patterns = NoPatterns
  BY <1>1, Defaults, ConfigSet, WrittenAsItIs
<1>3. DOMAIN metrics = {} /\ DOMAIN config.patterns = {} /\ metrics = [p \in {} |-> 0]
  BY <1>1, <1>2 DEF NoPatterns
<1>4. ServiceTypeOK
  <2>1. metrics \in [DOMAIN metrics -> [MetricNames -> Nat]] BY <1>3
  <2> QED BY <1>1, <1>2, <1>3, <2>1 DEF ServiceTypeOK
<1>5. CountInv BY <1>1, <1>3 DEF CountInv, Read, Zero, Stray
<1>6. RunInv /\ ReportInv BY <1>1 DEF RunInv, ReportInv
<1>7. ReportIsOfThisRun
  BY <1>1 DEF ReportIsOfThisRun, HandleRunReport, GetRunReport
<1> QED BY <1>4, <1>5, <1>6, <1>7 DEF ServiceIInv

\* A new configuration; the report is gone.
LEMMA StartIInv ==
  ASSUME ServiceConstants, ServiceIInv, NEW body \in Bodies, HandleRunStart(body)
  PROVE  ServiceIInv'
<1> DEFINE c == FromJson(body)
<1>1. /\ config' = [c EXCEPT !.run_id = IF c.run_id = NoText THEN "generated" ELSE c.run_id]
      /\ run' = "starting" /\ hasReport' = FALSE /\ UNCHANGED <<metrics, workers, flushing, counted, late>>
  BY DEF HandleRunStart
<1>2. IsConfig(c) /\ \A p \in DOMAIN c.patterns : c.patterns[p].channels \in Int BY BodyRead
<1> HIDE DEF c
<1>3. config' = to_json(config') /\ config'.patterns = c.patterns
  BY <1>1, <1>2, ConfigSet, WrittenAsItIs
<1>4. ServiceTypeOK' BY <1>1, <1>2, <1>3 DEF ServiceIInv, ServiceTypeOK
<1>5. CountInv' BY <1>1 DEF ServiceIInv, CountInv, Stray
<1>6. RunInv' /\ ReportInv' BY <1>1 DEF RunInv, ReportInv
<1>7. ReportIsOfThisRun'
  BY <1>1 DEF ReportIsOfThisRun, HandleRunReport, GetRunReport
<1> QED BY <1>4, <1>5, <1>6, <1>7 DEF ServiceIInv

\* All counters are reset, the workers are those of the configuration.
LEMMA BeginIInv == ASSUME ServiceIInv, BeginRun PROVE ServiceIInv'
<1>1. /\ run = "starting" /\ run' = "working" /\ workers' = CreateWorkers(config) /\ counted' = {} /\ late' = {}
      /\ flushing' = (flushing \/ workers["queue_stream"] > 0)
      /\ metrics' = [p \in DOMAIN metrics \cup {p \in Patterns : workers'[p] > 0} |-> Zero]
      /\ UNCHANGED <<config, hasReport, report, runs>>
  BY DEF BeginRun, Reset, Detach
<1>2. hasReport = FALSE BY <1>1 DEF ServiceIInv, ServiceTypeOK, ReportInv
<1>3. Zero \in [MetricNames -> Nat] /\ \A k \in MetricNames : ~(Zero[k] > 0)
  BY DEF Zero
<1>4. workers' \in [Patterns -> Nat] BY <1>1, WorkersCreated DEF ServiceIInv, ServiceTypeOK
<1>5. ServiceTypeOK' BY <1>1, <1>3, <1>4 DEF ServiceIInv, ServiceTypeOK
<1>6. CountInv'
  <2>1. \A p \in Patterns : Read(metrics', p) = Zero BY <1>1 DEF Read
  <2>2. flushing' => "queue_stream" \in DOMAIN metrics'
    <3>1. "queue_stream" \in Patterns BY DEF Patterns
    <3> QED BY <1>1, <3>1 DEF ServiceIInv, CountInv
  <2>3. \A p \in Patterns : workers'[p] > 0 => p \in DOMAIN metrics' BY <1>1
  <2>4. \A k \in MetricNames : ~Stray(k)' BY <1>1 DEF Stray
  <2> QED BY <1>1, <1>3, <2>1, <2>2, <2>3, <2>4 DEF CountInv
<1>7. RunInv' /\ ReportInv' BY <1>1, <1>2 DEF RunInv, ReportInv
<1>8. ReportIsOfThisRun'
  BY <1>1, <1>2 DEF ReportIsOfThisRun, HandleRunReport, GetRunReport
<1> QED BY <1>5, <1>6, <1>7, <1>8 DEF ServiceIInv

\* Counting adds one to one counter, and leaves the configuration, the workers and the report.
LEMMA CountingAdds ==
  ASSUME ServiceIInv, NEW p \in DOMAIN metrics, NEW k \in MetricNames, CountedIn(p, k)
  PROVE  /\ DOMAIN metrics' = DOMAIN metrics /\ metrics' \in [DOMAIN metrics -> [MetricNames -> Nat]]
         /\ Read(metrics', p)[k] = Read(metrics, p)[k] + 1 /\ Read(metrics, p)[k] \in Nat
         /\ \A q \in Patterns, l \in MetricNames :
              q # p \/ l # k => Read(metrics', q)[l] = Read(metrics, q)[l]
         /\ UNCHANGED <<config, workers, hasReport, report, run, runs, flushing>>
<1>1. /\ metrics' = [metrics EXCEPT ![p] = Increment(metrics[p], k)]
      /\ UNCHANGED <<config, workers, hasReport, report, run, runs, flushing>>
  BY DEF CountedIn
<1>2. metrics[p] \in [MetricNames -> Nat] BY DEF ServiceIInv, ServiceTypeOK
<1> DEFINE new == Increment(metrics[p], k)
<1>3. /\ new \in [MetricNames -> Nat] /\ new[k] = metrics[p][k] + 1 /\ metrics[p][k] \in Nat
      /\ \A l \in MetricNames : l # k => new[l] = metrics[p][l]
  BY <1>2 DEF Increment
<1>4. metrics' = [metrics EXCEPT ![p] = new] BY <1>1
<1> HIDE DEF new
<1>5. /\ DOMAIN metrics' = DOMAIN metrics /\ metrics'[p] = new
      /\ \A q \in DOMAIN metrics : q # p => metrics'[q] = metrics[q]
      /\ metrics' \in [DOMAIN metrics -> [MetricNames -> Nat]]
  BY <1>2, <1>3, <1>4 DEF ServiceIInv, ServiceTypeOK
<1>6. \A q \in Patterns, l \in MetricNames :
        q # p \/ l # k => Read(metrics', q)[l] = Read(metrics, q)[l]
  BY <1>3, <1>5 DEF Read
<1>7. Read(metrics', p)[k] = Read(metrics, p)[k] + 1 /\ Read(metrics, p)[k] \in Nat
  BY <1>3, <1>5 DEF Read
<1> QED BY <1>1, <1>5, <1>6, <1>7

\* One counter of a pattern that has a worker, and what was counted, grow together.
LEMMA WorkIInv == ASSUME ServiceIInv, NEW p \in Patterns, NEW k \in MetricNames, Work(p, k) PROVE ServiceIInv'
<1>1. workers[p] > 0 /\ CountedIn(p, k) /\ counted' = counted \cup {<<p, k>>} /\ late' = late
  BY DEF Work
<1>2. p \in DOMAIN metrics BY <1>1 DEF ServiceIInv, CountInv
<1>3. /\ DOMAIN metrics' = DOMAIN metrics /\ metrics' \in [DOMAIN metrics -> [MetricNames -> Nat]]
      /\ Read(metrics', p)[k] = Read(metrics, p)[k] + 1 /\ Read(metrics, p)[k] \in Nat
      /\ \A q \in Patterns, l \in MetricNames :
           q # p \/ l # k => Read(metrics', q)[l] = Read(metrics, q)[l]
      /\ UNCHANGED <<config, workers, hasReport, report, run, runs, flushing>>
  BY <1>1, <1>2, CountingAdds
<1>4. ServiceTypeOK' BY <1>1, <1>3 DEF ServiceIInv, ServiceTypeOK
<1>5. CountInv'
  <2>1. ASSUME NEW q \in Patterns, NEW l \in MetricNames
        PROVE  Read(metrics', q)[l] > 0 <=> <<q, l>> \in counted' \/ (q = "queue_stream" /\ Stray(l)')
    <3>1. Read(metrics, q)[l] > 0 <=> <<q, l>> \in counted \/ (q = "queue_stream" /\ Stray(l))
      BY DEF ServiceIInv, CountInv
    <3>2. Stray(l)' <=> Stray(l) BY <1>1 DEF Stray
    <3>3. CASE q = p /\ l = k BY <1>1, <1>3, <3>3
    <3>4. CASE q # p \/ l # k
      <4>1. <<q, l>> \in counted' <=> <<q, l>> \in counted BY <1>1, <3>4
      <4> QED BY <1>3, <3>1, <3>2, <3>4, <4>1
    <3> QED BY <3>3, <3>4
  <2>2. /\ \A q \in Patterns : workers'[q] > 0 => q \in DOMAIN metrics'
        /\ flushing' => "queue_stream" \in DOMAIN metrics'
    BY <1>3 DEF ServiceIInv, CountInv
  <2> QED BY <2>1, <2>2 DEF CountInv
<1>6. RunInv'
  <2>1. \A q \in Patterns : (\E l \in MetricNames : <<q, l>> \in counted') =>
                             q = p \/ \E l \in MetricNames : <<q, l>> \in counted
    BY <1>1
  <2> QED BY <1>1, <1>3, <2>1 DEF ServiceIInv, RunInv
<1>7. hasReport' = FALSE
  <2>1. hasReport => workers[p] = 0 BY DEF ServiceIInv, ReportInv
  <2>2. hasReport \in BOOLEAN BY DEF ServiceIInv, ServiceTypeOK
  <2> QED BY <1>1, <1>3, <2>1, <2>2
<1>8. ReportInv' BY <1>1, <1>3, <1>7 DEF ServiceIInv, ReportInv
<1> QED
  BY <1>4, <1>5, <1>6, <1>7, <1>8 DEF ServiceIInv, ReportIsOfThisRun, HandleRunReport, GetRunReport

\* A result that comes to a detached upstream is on record as such.
LEMMA LateIInv == ASSUME ServiceIInv, NEW k \in MetricNames, LateResult(k) PROVE ServiceIInv'
<1> DEFINE p == "queue_stream"
<1>1. flushing /\ CountedIn(p, k) /\ late' = late \cup {<<k, hasReport>>} /\ counted' = counted
  BY DEF LateResult
<1>2. p \in DOMAIN metrics /\ p \in Patterns BY <1>1 DEF ServiceIInv, CountInv, Patterns
<1>3. /\ DOMAIN metrics' = DOMAIN metrics /\ metrics' \in [DOMAIN metrics -> [MetricNames -> Nat]]
      /\ Read(metrics', p)[k] = Read(metrics, p)[k] + 1 /\ Read(metrics, p)[k] \in Nat
      /\ \A q \in Patterns, l \in MetricNames :
           q # p \/ l # k => Read(metrics', q)[l] = Read(metrics, q)[l]
      /\ UNCHANGED <<config, workers, hasReport, report, run, runs, flushing>>
  BY <1>1, <1>2, CountingAdds
<1>4. hasReport \in BOOLEAN BY DEF ServiceIInv, ServiceTypeOK
<1>5. ServiceTypeOK' BY <1>1, <1>3, <1>4 DEF ServiceIInv, ServiceTypeOK
<1>6. \A l \in MetricNames : Stray(l)' <=> Stray(l) \/ l = k
  BY <1>1, <1>4 DEF Stray
<1>7. CountInv'
  <2>1. ASSUME NEW q \in Patterns, NEW l \in MetricNames
        PROVE  Read(metrics', q)[l] > 0 <=> <<q, l>> \in counted' \/ (q = "queue_stream" /\ Stray(l)')
    <3>1. Read(metrics, q)[l] > 0 <=> <<q, l>> \in counted \/ (q = "queue_stream" /\ Stray(l))
      BY DEF ServiceIInv, CountInv
    <3>2. CASE q = p /\ l = k BY <1>3, <1>6, <3>2
    <3>3. CASE q # p \/ l # k BY <1>1, <1>3, <1>6, <3>1, <3>3
    <3> QED BY <3>2, <3>3
  <2>2. /\ \A q \in Patterns : workers'[q] > 0 => q \in DOMAIN metrics'
        /\ flushing' => "queue_stream" \in DOMAIN metrics'
    BY <1>3 DEF ServiceIInv, CountInv
  <2> QED BY <2>1, <2>2 DEF CountInv
<1>8. RunInv' BY <1>1, <1>3 DEF ServiceIInv, RunInv
<1>9. ReportInv'
  <2>1. run' = "working" => \A l \in MetricNames : <<l, TRUE>> \notin late'
    <3>1. run = "working" => hasReport = FALSE BY <1>4 DEF ServiceIInv, ReportInv
    <3> QED BY <1>1, <1>3, <3>1 DEF ServiceIInv, ReportInv
  <2>2. ASSUME hasReport, NEW q \in Patterns, NEW l \in MetricNames, report.patterns[q].enabled
        PROVE  /\ Enabled(q)'
               /\ \/ Read(metrics', q)[l] = report.patterns[q].counters[l]
                  \/ /\ q = "queue_stream" /\ <<l, TRUE>> \in late' /\ report.patterns[q].counters[l] \in Nat
                     /\ Read(metrics', q)[l] > report.patterns[q].counters[l]
    <3> DEFINE n == report.patterns[q].counters[l]
    <3>1. /\ Enabled(q)
          /\ \/ Read(metrics, q)[l] = n
             \/ q = "queue_stream" /\ <<l, TRUE>> \in late /\ n \in Nat /\ Read(metrics, q)[l] > n
      BY <2>2 DEF ServiceIInv, ReportInv
    <3>2. Enabled(q)' BY <1>3, <3>1 DEF Enabled
    <3>3. CASE q = p /\ l = k
      <4>1. <<l, TRUE>> \in late' BY <1>1, <1>4, <2>2, <3>3
      <4> HIDE DEF n
      <4>2. n \in Nat /\ Read(metrics', q)[l] > n BY <1>3, <3>1, <3>3
      <4> QED BY <3>2, <3>3, <4>1, <4>2 DEF n
    <3>4. CASE q # p \/ l # k BY <1>1, <1>3, <3>1, <3>2, <3>4
    <3> QED BY <3>3, <3>4
  <2> QED BY <1>3, <2>1, <2>2 DEF ServiceIInv, ReportInv
<1>10. ReportIsOfThisRun'
  <2>1. \A l \in MetricNames : hasReport => (<<l, FALSE>> \in late' <=> <<l, FALSE>> \in late)
    BY <1>1, <1>4
  <2>2. "errors" \in MetricNames BY DEF MetricNames
  <2>3. \A q : Enabled(q)' <=> Enabled(q) BY <1>3 DEF Enabled
  <2>4. HandleRunReport' = HandleRunReport /\ (HandleRunReport.status = 200 => hasReport)
    BY <1>3 DEF HandleRunReport, GetRunReport
  <2> QED BY <1>1, <1>3, <2>1, <2>2, <2>3, <2>4 DEF ServiceIInv, ReportIsOfThisRun
<1> QED BY <1>5, <1>7, <1>8, <1>9, <1>10 DEF ServiceIInv

\* The report is made of the counters, when the workers are those of the configuration.
LEMMA EndIInv == ASSUME ServiceIInv, EndRun PROVE ServiceIInv'
<1>1. /\ run = "working" /\ run' = "ended" /\ hasReport' = TRUE /\ workers' = [p \in Patterns |-> 0]
      /\ report' = [run |-> runs, patterns |-> PatternReport(config, metrics),
                    peakWorkers |-> Total(workers), verdict |-> Verdict(metrics)]
      /\ flushing' = (flushing \/ workers["queue_stream"] > 0)
      /\ UNCHANGED <<config, metrics, runs, counted, late>>
  BY DEF EndRun, MakeReport, Detach
<1>2. /\ workers = CreateWorkers(config) /\ workers \in [Patterns -> Nat]
      /\ \A p \in Patterns : (\E k \in MetricNames : <<p, k>> \in counted) => workers[p] > 0
      /\ \A p \in Patterns : workers[p] > 0 => p \in DOMAIN config.patterns /\ config.patterns[p].enabled
  BY <1>1, WorkersCreated DEF ServiceIInv, ServiceTypeOK, RunInv
<1>3. \A p \in Patterns : workers'[p] = 0 BY <1>1
<1>4. ServiceTypeOK' BY <1>1 DEF ServiceIInv, ServiceTypeOK
<1>5. CountInv'
  <2>1. "queue_stream" \in Patterns BY DEF Patterns
  <2>2. flushing' => "queue_stream" \in DOMAIN metrics' BY <1>1, <2>1 DEF ServiceIInv, CountInv
  <2>3. \A k : Stray(k)' <=> Stray(k) BY <1>1 DEF Stray
  <2>4. \A p \in Patterns, k \in MetricNames :
          Read(metrics', p)[k] > 0 <=> <<p, k>> \in counted' \/ (p = "queue_stream" /\ Stray(k)')
    BY <1>1, <2>3 DEF ServiceIInv, CountInv
  <2>5. \A p \in Patterns : ~(workers'[p] > 0) BY <1>3
  <2> QED BY <2>2, <2>4, <2>5 DEF CountInv
<1>6. RunInv' BY <1>1, <1>3 DEF ServiceIInv, RunInv
<1>0. \A p \in Patterns : PatternReport(config, metrics)[p] =
                            IF Enabled(p) THEN [enabled |-> TRUE, counters |-> Read(metrics, p)]
                            ELSE [enabled |-> FALSE]
  BY DEF PatternReport, Enabled
<1>7. ReportInv'
  <2>1. \A p : Enabled(p)' <=> Enabled(p) BY <1>1 DEF Enabled
  <2>2. report'.patterns = PatternReport(config, metrics) BY <1>1
  <2>3. ASSUME NEW p \in Patterns, NEW k \in MetricNames, report'.patterns[p].enabled
        PROVE  Enabled(p)' /\ Read(metrics', p)[k] = report'.patterns[p].counters[k]
    <3>0. report'.patterns[p] = IF Enabled(p) THEN [enabled |-> TRUE, counters |-> Read(metrics, p)]
                                ELSE [enabled |-> FALSE]
      BY <1>0, <2>2
    <3>1. Enabled(p) BY <2>3, <3>0
    <3>2. report'.patterns[p].counters = Read(metrics, p) BY <3>0, <3>1
    <3> QED BY <1>1, <2>1, <3>1, <3>2
  <2> QED BY <1>1, <1>3, <2>3 DEF ReportInv
<1>l. \A k \in MetricNames : Stray(k) <=> <<k, FALSE>> \in late
  BY <1>1 DEF ServiceIInv, ReportInv, Stray
<1>8. ASSUME NEW p \in Patterns, NEW k \in MetricNames
      PROVE  LET said == PatternReport(config, metrics)[p]
             IN  (said.enabled /\ said.counters[k] > 0) <=>
                   <<p, k>> \in counted \/ (p = "queue_stream" /\ <<k, FALSE>> \in late /\ Enabled(p))
  <2>2. Read(metrics, p)[k] > 0 <=> <<p, k>> \in counted \/ (p = "queue_stream" /\ <<k, FALSE>> \in late)
    BY <1>l DEF ServiceIInv, CountInv
  <2>3. <<p, k>> \in counted => Enabled(p) BY <1>2 DEF Enabled
  <2>1. PatternReport(config, metrics)[p] = IF Enabled(p) THEN [enabled |-> TRUE, counters |-> Read(metrics, p)]
                                            ELSE [enabled |-> FALSE]
    BY <1>0
  <2>4. CASE Enabled(p) BY <2>1, <2>2, <2>4
  <2>5. CASE ~Enabled(p) BY <2>1, <2>3, <2>5
  <2> QED BY <2>4, <2>5
<1> DEFINE Err(p) == <<p, "errors">> \in counted \/ (p = "queue_stream" /\ <<"errors", FALSE>> \in late)
<1>9. Verdict(metrics) = IF \E p \in Patterns : Err(p)
                         THEN "PASSED_WITH_WARNINGS" ELSE "PASSED"
  <2>1. "errors" \in MetricNames BY DEF MetricNames
  <2>2. \A p \in Patterns : Err(p) <=> Read(metrics, p)["errors"] > 0
    BY <2>1, <1>l DEF ServiceIInv, CountInv
  <2>3. \A p \in Patterns \ DOMAIN metrics : ~(Read(metrics, p)["errors"] > 0)
    BY <2>1 DEF Read, Zero
  <2>4. \A p \in DOMAIN metrics : p \in Patterns /\ metrics[p]["errors"] \in Nat /\ Read(metrics, p) = metrics[p]
    BY <2>1 DEF ServiceIInv, ServiceTypeOK, Read
  <2> HIDE DEF Err
  <2>5. (\A p \in DOMAIN metrics : metrics[p]["errors"] = 0) <=> ~\E p \in Patterns : Err(p)
    <3>1. ASSUME NEW p \in Patterns, Err(p)
          PROVE  p \in DOMAIN metrics /\ metrics[p]["errors"] # 0
      <4>1. Read(metrics, p)["errors"] > 0 /\ p \in DOMAIN metrics BY <2>2, <2>3, <3>1
      <4> QED BY <2>4, <4>1
    <3>2. ASSUME NEW p \in DOMAIN metrics, metrics[p]["errors"] # 0
          PROVE  p \in Patterns /\ Err(p)
      <4>1. p \in Patterns /\ metrics[p]["errors"] > 0 BY <2>4, <3>2
      <4> QED BY <2>2, <2>4, <4>1
    <3> QED BY <3>1, <3>2
  <2> QED BY <2>5 DEF Verdict
<1>10. Total(workers) >= Cardinality({x[1] : x \in counted})
  <2> DEFINE S == {x[1] : x \in counted}
  <2>1. ASSUME NEW q \in S PROVE q \in Patterns /\ workers[q] > 0
    <3>1. PICK x \in counted : q = x[1] OBVIOUS
    <3>2. x \in Patterns \X MetricNames BY DEF ServiceIInv, ServiceTypeOK
    <3>3. x = <<x[1], x[2]>> /\ x[1] \in Patterns /\ x[2] \in MetricNames BY <3>2
    <3> QED BY <1>2, <3>1, <3>3
  <2> HIDE DEF S
  <2>2. S \in SUBSET Patterns BY <2>1
  <2>3. Total(workers) >= Cardinality(S) BY <1>2, <2>1, <2>2, WorkersAtLeast
  <2> QED BY <2>3 DEF S
<1>11. ReportIsOfThisRun'
  <2> DEFINE r == report'
             P == PatternReport(config, metrics)
             V == Verdict(metrics)
             T == Total(workers)
             C == Cardinality({x[1] : x \in counted})
  <2>1. HandleRunReport' = [status |-> 200, body |-> r]
    BY <1>1 DEF HandleRunReport, GetRunReport
  <2> HIDE DEF P, V, T, C
  <2>2. r.run = runs /\ r.patterns = P /\ r.peakWorkers = T /\ r.verdict = V BY <1>1 DEF P, V, T
  <2> HIDE DEF r
  <2>3. /\ \A p \in Patterns, k \in MetricNames :
             LET said == P[p] IN (said.enabled /\ said.counters[k] > 0) <=>
               <<p, k>> \in counted \/ (p = "queue_stream" /\ <<k, FALSE>> \in late /\ Enabled(p))
    BY <1>8 DEF P
  <2>6. (\E p \in Patterns : Err(p)) <=>
          (\E p \in Patterns : <<p, "errors">> \in counted) \/ <<"errors", FALSE>> \in late
    BY DEF Patterns
  <2> HIDE DEF Err
  <2>7. V = IF (\E p \in Patterns : <<p, "errors">> \in counted) \/ <<"errors", FALSE>> \in late
            THEN "PASSED_WITH_WARNINGS" ELSE "PASSED"
    BY <1>9, <2>6 DEF V
  <2>8. \A p : Enabled(p)' <=> Enabled(p) BY <1>1 DEF Enabled
  <2>4. T >= C BY <1>10 DEF T, C
  <2>5. C = Cardinality({x[1] : x \in counted'}) BY <1>1 DEF C
  <2> QED BY <1>1, <2>1, <2>2, <2>3, <2>4, <2>5, <2>7, <2>8 DEF ReportIsOfThisRun
<1> QED BY <1>4, <1>5, <1>6, <1>7, <1>11 DEF ServiceIInv

\* Every step keeps the invariant.
LEMMA ServiceSteps == ASSUME ServiceConstants, ServiceIInv, [ServiceNext]_serviceVars PROVE ServiceIInv'
<1>1. ASSUME UNCHANGED <<config, metrics, workers, hasReport, report, runs, counted, late>>,
             flushing' \in {flushing, FALSE},
             run' = run \/ (run = "working" /\ run' = "ended")
      PROVE  ServiceIInv'
  <2>1. hasReport => run' = run BY <1>1 DEF ServiceIInv, ReportInv
  <2>2. ServiceTypeOK' BY <1>1 DEF ServiceIInv, ServiceTypeOK
  <2>s. \A k : Stray(k)' <=> Stray(k) BY <1>1 DEF Stray
  <2>e. \A p : Enabled(p)' <=> Enabled(p) BY <1>1 DEF Enabled
  <2>f. flushing' => "queue_stream" \in DOMAIN metrics'
    <3>1. flushing' => flushing BY <1>1, Zenon
    <3> QED BY <1>1, <3>1 DEF ServiceIInv, CountInv
  <2>3. CountInv'
    <3>1. \A p \in Patterns, k \in MetricNames :
            Read(metrics', p)[k] > 0 <=> <<p, k>> \in counted' \/ (p = "queue_stream" /\ Stray(k)')
      BY <1>1, <2>s DEF ServiceIInv, CountInv
    <3>2. \A p \in Patterns : workers'[p] > 0 => p \in DOMAIN metrics'
      BY <1>1 DEF ServiceIInv, CountInv
    <3> QED BY <3>1, <3>2, <2>f DEF CountInv
  <2>4. RunInv' BY <1>1 DEF ServiceIInv, RunInv
  <2>5. ReportInv' BY <1>1, <2>1 DEF ServiceIInv, ReportInv, Enabled
  <2>6. ReportIsOfThisRun'
    <3>1. HandleRunReport' = HandleRunReport BY <1>1 DEF HandleRunReport, GetRunReport
    <3> QED BY <1>1, <2>e, <3>1 DEF ServiceIInv, ReportIsOfThisRun
  <2> QED BY <2>2, <2>3, <2>4, <2>5, <2>6 DEF ServiceIInv
<1>2. CASE HandleRunStop BY <1>1, <1>2 DEF HandleRunStop
<1>3. CASE FailRun BY <1>1, <1>3 DEF FailRun
<1>4. CASE UNCHANGED serviceVars BY <1>1, <1>4 DEF serviceVars
<1>5. CASE FlushEnds BY <1>1, <1>5 DEF FlushEnds
<1> QED BY <1>2, <1>3, <1>4, <1>5, StartIInv, BeginIInv, EndIInv, WorkIInv, LateIInv DEF ServiceNext, RunThread

\* The invariant holds in every behaviour.
THEOREM ServiceInvariant == ServiceSpec => []ServiceIInv
<1>1. ServiceInit => ServiceIInv BY ServiceBegins, BurninServiceAssumption
<1>2. ServiceIInv /\ [ServiceNext]_serviceVars => ServiceIInv' BY ServiceSteps, BurninServiceAssumption
<1> QED BY <1>1, <1>2, PTL DEF ServiceSpec

\* A report that can be fetched is about its own run.
THEOREM ReportIsOfThisRunAlways == ServiceSpec => []ReportIsOfThisRun
<1>1. ServiceIInv => ReportIsOfThisRun BY DEF ServiceIInv
<1> QED BY <1>1, ServiceInvariant, PTL

\* The views of a run agree, and its configuration can be posted again.
THEOREM ViewsAreTrueAlways == ServiceSpec => []ViewsAreTrue
<1>1. ServiceIInv => ViewsAgree
  <2> SUFFICES ASSUME ServiceIInv, run \in {"working", "ended"}, NEW k \in MetricNames
               PROVE  /\ \/ GetRunStatus[k] = Total([p \in Patterns |-> GetRunFull[p][k]])
                         \/ Stray(k) /\ ~Enabled("queue_stream")
                      /\ \A p \in DOMAIN GetRunFull \ Patterns : GetRunFull[p][k] = 0
                      /\ hasReport =>
                           \A p \in Patterns :
                             LET said == report.patterns[p]
                             IN  said.enabled => \/ GetRunFull[p][k] = said.counters[k]
                                                 \/ /\ p = "queue_stream" /\ <<k, TRUE>> \in late
                                                    /\ GetRunFull[p][k] > said.counters[k]
    BY DEF ViewsAgree
  <2>1. /\ DOMAIN GetRunFull = DOMAIN config.patterns \cup Patterns
        /\ \A p \in DOMAIN GetRunFull :
             GetRunFull[p] = IF Enabled(p) THEN Read(metrics, p) ELSE Zero
    BY DEF GetRunFull, Enabled
  <2>2. Zero[k] = 0 BY DEF Zero
  <2>3. ASSUME ~(Stray(k) /\ ~Enabled("queue_stream")), NEW p \in Patterns
        PROVE  GetRunFull[p][k] = Read(metrics, p)[k]
    <3>1. Read(metrics, p)[k] \in Nat BY Counts DEF ServiceIInv
    <3>2. Read(metrics, p)[k] > 0 => Enabled(p)
      <4>1. Read(metrics, p)[k] > 0 => CreateWorkers(config)[p] > 0 \/ (p = "queue_stream" /\ Stray(k))
        BY DEF ServiceIInv, CountInv, RunInv
      <4>2. CreateWorkers(config)[p] > 0 => Enabled(p)
        BY WorkersCreated DEF ServiceIInv, ServiceTypeOK, Enabled
      <4> QED BY <2>3, <4>1, <4>2
    <3> QED BY <2>1, <2>2, <3>1, <3>2
  <2>4. \/ [p \in Patterns |-> Read(metrics, p)[k]] = [p \in Patterns |-> GetRunFull[p][k]]
        \/ Stray(k) /\ ~Enabled("queue_stream")
    BY <2>3
  <2>5. ASSUME NEW p \in DOMAIN GetRunFull \ Patterns PROVE GetRunFull[p][k] = 0
    <3>1. p \notin DOMAIN metrics BY DEF ServiceIInv, ServiceTypeOK
    <3>2. Read(metrics, p) = Zero BY <3>1 DEF Read
    <3> QED BY <2>1, <2>2, <3>2
  <2>6. ASSUME hasReport, NEW p \in Patterns, report.patterns[p].enabled
        PROVE  \/ GetRunFull[p][k] = report.patterns[p].counters[k]
               \/ /\ p = "queue_stream" /\ <<k, TRUE>> \in late
                  /\ GetRunFull[p][k] > report.patterns[p].counters[k]
    <3>1. /\ Enabled(p)
          /\ \/ Read(metrics, p)[k] = report.patterns[p].counters[k]
             \/ /\ p = "queue_stream" /\ <<k, TRUE>> \in late
                /\ Read(metrics, p)[k] > report.patterns[p].counters[k]
      BY <2>6 DEF ServiceIInv, ReportInv
    <3> QED BY <2>1, <3>1
  <2> QED BY <2>4, <2>5, <2>6 DEF GetRunStatus
<1>2. ServiceIInv => ConfigRoundTrip
  <2> SUFFICES ASSUME config = to_json(config), HandleRunConfig.status = 200
               PROVE  FromJson([kind |-> "json", fields |-> HandleRunConfig.body, wrong |-> {}]) = config
    BY DEF ServiceIInv, ServiceTypeOK, ConfigRoundTrip
  <2>1. HandleRunConfig.body = to_json(config)
    BY DEF HandleRunConfig, GetRunConfig
  <2>2. HandleRunConfig.body = config BY <2>1
  <2>3. from_json(config) = config BY ConfigReread
  <2> QED BY <2>2, <2>3 DEF FromJson
<1>3. ServiceIInv => ViewsAreTrue BY <1>1, <1>2 DEF ViewsAreTrue
<1> QED BY <1>3, ServiceInvariant, PTL

=============================================================================
