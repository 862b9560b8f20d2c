------------------------ MODULE QueueDownstreamProofs ------------------------
(***************************************************************************)
(* Theorems about QueueDownstream, for any number of threads, messages and *)
(* polls, and about SimpleQueue, the queue operations without transactions,*)
(* for any number of callers, messages and calls.                          *)
(***************************************************************************)
EXTENDS QueueDownstream, SimpleQueue, Integers, SequenceTheorems, FiniteSetTheorems, TLAPS

\* The initial state satisfies the inductive invariant.
LEMMA InitIInv == Init => IInv
<1> SUFFICES ASSUME Init PROVE IInv
  OBVIOUS
<1> USE QueueDownstreamAssumption DEF Init
<1>1. TypeOK
  <2>1. down \in Seq([tx : Nat, msgs : SUBSET Msgs, error : BOOLEAN])
    OBVIOUS
  <2>2. settle \in [Users -> Settlements \cup {NoSettle}]
    OBVIOUS
  <2> QED
    BY <2>1, <2>2 DEF TypeOK, PCs
<1>2. StreamInv
  BY DEF StreamInv, Reading
<1>3. SettleInv
  BY DEF SettleInv
<1> QED
  BY <1>1, <1>2, <1>3 DEF IInv

\* Every step keeps every variable in its type.
LEMMA NextTypeOK == IInv /\ [Next]_vars => TypeOK'
<1> SUFFICES ASSUME IInv, [Next]_vars PROVE TypeOK'
  OBVIOUS
<1> USE QueueDownstreamAssumption DEF IInv, TypeOK, PCs, Settlements, streamVars,
      queueVars, clientVars
<1>1. ASSUME NEW t \in Users, NEW auto \in BOOLEAN, Poll(t, auto)
      PROVE TypeOK'
  BY <1>1 DEF Poll, Goto
<1>2. ASSUME NEW t \in Users, NEW r \in responses, NEW kind \in Kinds,
             NEW m \in r.msgs, SendSettle(t, r, m, kind)
      PROVE TypeOK'
  BY <1>2 DEF SendSettle, StartSettle, MaySettle, Goto
<1>3. ASSUME NEW t \in Users, NEW r \in responses, NEW kind \in Kinds,
             SendSettleAll(t, r, kind)
      PROVE TypeOK'
  BY <1>3 DEF SendSettleAll, StartSettle, MaySettle, Goto
<1>4. ASSUME NEW t \in Users, Close(t) \/ Destroy(t)
      PROVE TypeOK'
  BY <1>4 DEF Close, Destroy, CloseExchange, Goto
<1>5. ASSUME NEW t \in Users, Step(t)
      PROVE TypeOK'
  <2>1. CASE PollWrite(t)
    BY <2>1 DEF PollWrite, Goto
  <2>2. CASE PollWriteFails(t)
    <3>1. CASE PollReturns(t) /\ UNCHANGED mu
      BY <2>2, <3>1 DEF PollWriteFails, PollReturns, Goto
    <3>2. CASE writesDone /\ Goto(t, "readNothing") /\ mu' = t /\ UNCHANGED <<wants, poll>>
      BY <2>2, <3>2 DEF PollWriteFails, Goto
    <3> QED
      BY <2>2, <3>1, <3>2 DEF PollWriteFails
  <2>3. CASE PollRead(t)
    <3> DEFINE Resp == [tx : Nat, msgs : SUBSET Msgs, error : BOOLEAN]
    <3>1. Head(down) \in Resp /\ down' \in Seq(Resp)
      <4>1. down \in Seq(Resp) /\ down # <<>> /\ down' = Tail(down)
        BY <2>3 DEF PollRead
      <4> QED
        BY <4>1, HeadTailProperties
    <3>2. responses' \subseteq [poll : Nat, tx : Nat, msgs : SUBSET Msgs, auto : BOOLEAN]
      BY <2>3, <3>1 DEF PollRead
    <3>3. /\ pc' \in [Users -> PCs] /\ wants' \in [Users -> BOOLEAN]
          /\ poll' \in [Users -> Nat]
      BY <2>3 DEF PollRead, PollReturns, Goto
    <3> QED
      BY <2>3, <3>1, <3>2, <3>3 DEF PollRead
  <2>4. CASE PollReadFails(t)
    BY <2>4 DEF PollReadFails, Goto, PollReturns
  <2>5. CASE SettleWrite(t)
    <3>1. settle[t] \in Settlements
      BY <2>5 DEF SettleWrite, SettleInv
    <3>2. requests' \subseteq Settlements
      BY <2>5, <3>1 DEF SettleWrite
    <3>3. settle' \in [Users -> Settlements \cup {NoSettle}] /\ pc' \in [Users -> PCs]
      BY <2>5 DEF SettleWrite, Goto
    <3> QED
      BY <2>5, <3>2, <3>3 DEF SettleWrite
  <2>6. CASE CloseWrite(t)
    BY <2>6 DEF CloseWrite, Goto
  <2>7. CASE Free(t)
    BY <2>7 DEF Free, Goto
  <2> QED
    BY <1>5, <2>1, <2>2, <2>3, <2>4, <2>5, <2>6, <2>7 DEF Step
<1>6. CASE AnswerGet
  BY <1>6 DEF AnswerGet
<1>7. CASE AnswerError
  BY <1>7 DEF AnswerError
<1>8. CASE ApplySettle
  <2>1. PICK s \in requests :
          /\ requests' = requests \ {s}
          /\ place' = [m \in Msgs |->
               IF place[m] = "held" /\ holder[m] = s.tx /\ (s.all \/ m \in s.msgs)
               THEN CASE s.kind = "Ack" -> "acked"
                      [] s.kind = "Nack" -> "queued"
                      [] s.kind = "ReQueue" -> "moved"
               ELSE place[m]]
    BY <1>8 DEF ApplySettle
  <2>2. s.kind \in {"Ack", "Nack", "ReQueue"}
    BY <2>1 DEF Kinds
  <2>3. place' \in [Msgs -> {"queued", "held", "acked", "moved"}]
    BY <2>1, <2>2
  <2> QED
    BY <1>8, <2>1, <2>3 DEF ApplySettle
<1>9. CASE Expire
  BY <1>9 DEF Expire
<1>10. CASE EndStream
  <2> DEFINE Resp == [tx : Nat, msgs : SUBSET Msgs, error : BOOLEAN]
  <2>0. down \in Seq(Resp) /\ (down' = down \/ down' = <<>>)
    BY <1>10 DEF EndStream
  <2>1. down' \in Seq(Resp)
    <3> HIDE DEF Resp
    <3>1. <<>> \in Seq(Resp)
      BY EmptySeq
    <3> QED
      BY <2>0, <3>1
  <2>2. requests' \subseteq Settlements /\ gets' = {}
    BY <1>10 DEF EndStream
  <2> QED
    BY <1>10, <2>1, <2>2 DEF EndStream
<1>11. CASE UNCHANGED vars
  BY <1>11 DEF vars, clientVars
<1> QED
  BY <1>1, <1>2, <1>3, <1>4, <1>5, <1>6, <1>7, <1>8, <1>9, <1>10, <1>11 DEF Next

\* While no thread is inside a read, nothing is asked of the broker, nothing is on
\* its way down, and nobody holds the lock a read holds.
LEMMA NobodyReads ==
  ASSUME StreamInv, \A u \in Users : pc[u] \notin {"read", "readNothing"}
  PROVE  gets = {} /\ down = <<>> /\ \A u \in Users : mu # u
<1>1. gets = {}
  BY DEF StreamInv
<1>2. down = <<>>
  BY DEF StreamInv
<1>3. \A u \in Users : mu # u
  BY DEF StreamInv, Reading
<1> QED
  BY <1>1, <1>2, <1>3

\* Every step preserves StreamInv.
LEMMA NextStreamInv == IInv /\ [Next]_vars => StreamInv'
<1> SUFFICES ASSUME IInv, [Next]_vars PROVE StreamInv'
  OBVIOUS
<1> USE QueueDownstreamAssumption DEF IInv, TypeOK, StreamInv, Reading, PCs,
      streamVars, queueVars, clientVars
<1>1. ASSUME NEW t \in Users, NEW auto \in BOOLEAN, Poll(t, auto)
      PROVE StreamInv'
  BY <1>1 DEF Poll, Goto
<1>2. ASSUME NEW t \in Users, NEW r \in responses, NEW kind \in Kinds,
             NEW m \in r.msgs, SendSettle(t, r, m, kind)
      PROVE StreamInv'
  BY <1>2 DEF SendSettle, StartSettle, MaySettle, Goto
<1>3. ASSUME NEW t \in Users, NEW r \in responses, NEW kind \in Kinds,
             SendSettleAll(t, r, kind)
      PROVE StreamInv'
  BY <1>3 DEF SendSettleAll, StartSettle, MaySettle, Goto
<1>4. ASSUME NEW t \in Users, Close(t) \/ Destroy(t)
      PROVE StreamInv'
  <2>1. CASE Close(t)
    <3>1. CASE closed
      <4>1. pc' = pc /\ UNCHANGED <<receiver, mu, wants, poll, streamVars>>
        BY <2>1, <3>1 DEF Close, CloseExchange, Goto
      <4> QED
        BY <4>1
    <3>2. CASE ~closed
      BY <2>1, <3>2 DEF Close, CloseExchange, Goto
    <3> QED
      BY <3>1, <3>2
  <2>2. CASE Destroy(t)
    <3>0. \A u \in Users : pc[u] \in {"none", "settle"}
      BY ONLY <2>2 DEF Destroy
    <3>1. gets = {} /\ down = <<>> /\ \A u \in Users : mu # u
      <4>1. StreamInv /\ \A u \in Users : pc[u] \notin {"read", "readNothing"}
        BY <3>0
      <4> QED
        BY ONLY <4>1, NobodyReads
    <3>2. /\ receiver' = "destroying" /\ UNCHANGED <<mu, wants, poll, streamVars>>
          /\ pc' = [pc EXCEPT ![t] = IF closed THEN "free" ELSE "close"]
      BY <2>2 DEF Destroy, CloseExchange, Goto
    <3>3. /\ pc'[t] \in {"free", "close"}
          /\ \A u \in Users : u # t => pc'[u] \in {"none", "settle"}
      <4>1. t \in Users /\ pc \in [Users -> PCs]
        OBVIOUS
      <4> QED
        BY ONLY <3>0, <3>2, <4>1
    <3>4. \A u \in Users : pc'[u] \in {"none", "settle", "close", "free"}
      BY ONLY <3>3
    <3>5. /\ gets' = {} /\ down' = <<>> /\ autos' = autos /\ polls' = polls
          /\ \A u \in Users : mu' # u
          /\ \A p \in autos : p <= polls
      BY <3>1, <3>2
    <3>6. receiver' = "destroying"
      BY <3>2
    <3> QED
      BY ONLY <3>3, <3>4, <3>5, <3>6 DEF StreamInv, Reading
  <2> QED
    BY <1>4, <2>1, <2>2
<1>5. ASSUME NEW t \in Users, Step(t)
      PROVE StreamInv'
  <2>1. CASE PollWrite(t)
    BY <2>1 DEF PollWrite, Goto
  <2>2. CASE PollWriteFails(t)
    <3>1. CASE PollReturns(t) /\ UNCHANGED mu
      BY <2>2, <3>1 DEF PollWriteFails, PollReturns, Goto
    <3>2. CASE writesDone /\ Goto(t, "readNothing") /\ mu' = t /\ UNCHANGED <<wants, poll>>
      BY <2>2, <3>2 DEF PollWriteFails, Goto
    <3> QED
      BY <2>2, <3>1, <3>2 DEF PollWriteFails
  <2>3. CASE PollRead(t)
    <3>1. mu = t /\ Len(down) = 1 /\ gets = {}
      BY <2>3 DEF PollRead
    <3>2. down' = <<>>
      <4>1. down' = Tail(down) /\ down # <<>>
        BY <2>3 DEF PollRead
      <4>2. Len(down) = 1 /\ down \in Seq([tx : Nat, msgs : SUBSET Msgs, error : BOOLEAN])
        BY <3>1
      <4> QED
        BY ONLY <4>1, <4>2, HeadTailProperties, EmptySeq
    <3>3. /\ pc' = [pc EXCEPT ![t] = "none"] /\ mu' = Nobody
          /\ \A u \in Users \ {t} : wants'[u] = wants[u] /\ poll'[u] = poll[u]
          /\ UNCHANGED <<polls, autos, gets, stream, receiver>>
      BY <2>3 DEF PollRead, PollReturns, Goto
    <3> QED
      BY <3>1, <3>2, <3>3
  <2>4. CASE PollReadFails(t)
    <3>1. mu = t /\ gets = {} /\ down = <<>>
      BY <2>4 DEF PollReadFails
    <3>2. /\ pc' = [pc EXCEPT ![t] = "none"] /\ mu' = Nobody
          /\ \A u \in Users \ {t} : wants'[u] = wants[u] /\ poll'[u] = poll[u]
          /\ UNCHANGED <<polls, autos, gets, down, stream, receiver>>
      BY <2>4 DEF PollReadFails, PollReturns, Goto
    <3> QED
      BY <3>1, <3>2
  <2>5. CASE SettleWrite(t)
    BY <2>5 DEF SettleWrite, Goto
  <2>6. CASE CloseWrite(t)
    BY <2>6 DEF CloseWrite, Goto
  <2>7. CASE Free(t)
    <3>0. pc[t] = "free" /\ receiver = "destroying"
      BY <2>7 DEF Free
    <3>1. \A u \in Users \ {t} : pc[u] \in {"none", "settle"}
      BY <3>0
    <3>2. gets = {} /\ down = <<>> /\ \A u \in Users : mu # u
      <4>1. StreamInv /\ \A u \in Users : pc[u] \notin {"read", "readNothing"}
        BY <3>0, <3>1
      <4> QED
        BY ONLY <4>1, NobodyReads
    <3>3. /\ receiver' = "freed" /\ stream' = "ended" /\ down' = <<>>
          /\ pc' = [pc EXCEPT ![t] = "none"] /\ UNCHANGED <<mu, wants, poll, polls, autos, gets>>
      BY <2>7 DEF Free, Goto
    <3>4. \A u \in Users : pc'[u] \in {"none", "settle"}
      BY <3>1, <3>3
    <3> QED
      BY <3>2, <3>3, <3>4
  <2> QED
    BY <1>5, <2>1, <2>2, <2>3, <2>4, <2>5, <2>6, <2>7 DEF Step
<1>6. CASE AnswerGet
  BY <1>6 DEF AnswerGet
<1>7. CASE AnswerError
  BY <1>7 DEF AnswerError
<1>8. CASE ApplySettle
  BY <1>8 DEF ApplySettle
<1>9. CASE Expire
  BY <1>9 DEF Expire
<1>10. CASE EndStream
  BY <1>10 DEF EndStream
<1>11. CASE UNCHANGED vars
  BY <1>11 DEF vars, clientVars
<1> QED
  BY <1>1, <1>2, <1>3, <1>4, <1>5, <1>6, <1>7, <1>8, <1>9, <1>10, <1>11 DEF Next

\* Every step preserves SettleInv.
LEMMA NextSettleInv == IInv /\ [Next]_vars => SettleInv'
<1> SUFFICES ASSUME IInv, [Next]_vars PROVE SettleInv'
  OBVIOUS
<1> USE QueueDownstreamAssumption DEF IInv, TypeOK, StreamInv, SettleInv, Reading,
      PCs, streamVars, queueVars, clientVars
<1>1. ASSUME NEW t \in Users, NEW auto \in BOOLEAN, Poll(t, auto)
      PROVE SettleInv'
  BY <1>1 DEF Poll, Goto
<1>2. ASSUME NEW t \in Users, NEW r \in responses, NEW kind \in Kinds,
             NEW m \in r.msgs, SendSettle(t, r, m, kind)
      PROVE SettleInv'
  <2>1. settle'[t] # NoSettle /\ settle'[t].tx = r.tx /\ ~r.auto
    BY <1>2 DEF SendSettle, StartSettle, MaySettle, NoSettle, Kinds
  <2>2. /\ \A u \in Users \ {t} : settle'[u] = settle[u] /\ pc'[u] = pc[u]
        /\ UNCHANGED <<responses, streamVars, queueVars>>
    BY <1>2 DEF SendSettle, StartSettle, Goto
  <2>3. \A u \in Users : pc'[u] = "settle" =>
          /\ settle'[u] # NoSettle
          /\ \E q \in responses' : ~q.auto /\ q.tx = settle'[u].tx
    <3>1. \A u \in Users : pc[u] = "settle" =>
            settle[u] # NoSettle /\ \E q \in responses : ~q.auto /\ q.tx = settle[u].tx
      OBVIOUS
    <3>2. r \in responses /\ responses' = responses
      BY <2>2
    <3> QED
      BY ONLY <2>1, <2>2, <3>1, <3>2
  <2> QED
    BY <2>2, <2>3
<1>3. ASSUME NEW t \in Users, NEW r \in responses, NEW kind \in Kinds,
             SendSettleAll(t, r, kind)
      PROVE SettleInv'
  <2>1. settle'[t] # NoSettle /\ settle'[t].tx = r.tx /\ ~r.auto
    BY <1>3 DEF SendSettleAll, StartSettle, MaySettle, NoSettle, Kinds
  <2>2. /\ \A u \in Users \ {t} : settle'[u] = settle[u] /\ pc'[u] = pc[u]
        /\ UNCHANGED <<responses, streamVars, queueVars>>
    BY <1>3 DEF SendSettleAll, StartSettle, Goto
  <2>3. \A u \in Users : pc'[u] = "settle" =>
          /\ settle'[u] # NoSettle
          /\ \E q \in responses' : ~q.auto /\ q.tx = settle'[u].tx
    <3>1. \A u \in Users : pc[u] = "settle" =>
            settle[u] # NoSettle /\ \E q \in responses : ~q.auto /\ q.tx = settle[u].tx
      OBVIOUS
    <3>2. r \in responses /\ responses' = responses
      BY <2>2
    <3> QED
      BY ONLY <2>1, <2>2, <3>1, <3>2
  <2> QED
    BY <2>2, <2>3
<1>4. ASSUME NEW t \in Users, Close(t) \/ Destroy(t)
      PROVE SettleInv'
  <2>1. CASE Close(t)
    <3>1. CASE closed
      BY <2>1, <3>1 DEF Close, CloseExchange, Goto
    <3>2. CASE ~closed
      BY <2>1, <3>2 DEF Close, CloseExchange, Goto
    <3> QED
      BY <3>1, <3>2
  <2>2. CASE Destroy(t)
    <3>1. CASE closed
      BY <2>2, <3>1 DEF Destroy, CloseExchange, Goto
    <3>2. CASE ~closed
      BY <2>2, <3>2 DEF Destroy, CloseExchange, Goto
    <3> QED
      BY <3>1, <3>2
  <2> QED
    BY <1>4, <2>1, <2>2
<1>5. ASSUME NEW t \in Users, Step(t)
      PROVE SettleInv'
  <2>1. CASE PollWrite(t)
    BY <2>1 DEF PollWrite, Goto
  <2>2. CASE PollWriteFails(t)
    BY <2>2 DEF PollWriteFails, Goto, PollReturns
  <2>3. CASE PollRead(t)
    <3>1. /\ mu = t /\ Len(down) = 1 /\ gets = {} /\ down[1].tx = poll[t]
          /\ poll[t] <= polls /\ (poll[t] \in autos <=> wants[t])
      BY <2>3 DEF PollRead
    <3>2. down' = <<>> /\ Head(down) = down[1]
      <4>1. down' = Tail(down) /\ down # <<>>
        BY <2>3 DEF PollRead
      <4>2. Len(down) = 1 /\ down \in Seq([tx : Nat, msgs : SUBSET Msgs, error : BOOLEAN])
        BY <3>1
      <4> QED
        BY ONLY <4>1, <4>2, HeadTailProperties, EmptySeq
    <3>3. /\ \A u \in Users : pc'[u] = "settle" => pc[u] = "settle"
          /\ UNCHANGED <<settle, requests, polls, autos, gets, place, holder>>
      BY <2>3 DEF PollRead, PollReturns, Goto
    <3>4. CASE down[1].error
      BY <2>3, <3>1, <3>2, <3>3, <3>4 DEF PollRead
    <3>5. CASE ~down[1].error
      <4> DEFINE new == [poll |-> poll[t], tx |-> down[1].tx, msgs |-> down[1].msgs,
                         auto |-> wants[t]]
      <4>1. responses' = responses \cup {new}
        BY <2>3, <3>2, <3>5 DEF PollRead
      <4>2. /\ new.poll = new.tx /\ (new.auto <=> new.tx \in autos) /\ new.tx <= polls
            /\ \A m \in Msgs : place[m] = "held" /\ holder[m] = new.tx => m \in new.msgs
        BY <3>1, <2>3 DEF PollRead
      <4> HIDE DEF new
      <4> QED
        BY <3>1, <3>2, <3>3, <4>1, <4>2
    <3> QED
      BY <3>4, <3>5
  <2>4. CASE PollReadFails(t)
    BY <2>4 DEF PollReadFails, Goto, PollReturns
  <2>5. CASE SettleWrite(t)
    <3>1. PICK r \in responses : ~r.auto /\ r.tx = settle[t].tx
      BY <2>5 DEF SettleWrite
    <3>2. \A s \in requests' : s \in requests \/ s = settle[t]
      BY <2>5 DEF SettleWrite
    <3>3. /\ \A u \in Users : pc'[u] = "settle" => pc[u] = "settle" /\ settle'[u] = settle[u]
          /\ UNCHANGED <<responses, polls, autos, gets, down, place, holder>>
      BY <2>5 DEF SettleWrite, Goto
    <3>4. \A s \in requests' : \E q \in responses' : ~q.auto /\ q.tx = s.tx
      <4>1. \A s \in requests : \E q \in responses : ~q.auto /\ q.tx = s.tx
        OBVIOUS
      <4> QED
        BY ONLY <3>1, <3>2, <3>3, <4>1
    <3>5. \A u \in Users : pc'[u] = "settle" =>
            /\ settle'[u] # NoSettle
            /\ \E q \in responses' : ~q.auto /\ q.tx = settle'[u].tx
      <4> TAKE u \in Users
      <4> HAVE pc'[u] = "settle"
      <4>1. pc[u] = "settle" /\ settle'[u] = settle[u] /\ responses' = responses
        BY <3>3
      <4>2. settle[u] # NoSettle
        BY <4>1
      <4>3. PICK q \in responses : ~q.auto /\ q.tx = settle[u].tx
        BY <4>1
      <4> QED
        BY <4>1, <4>2, <4>3
    <3> QED
      BY <3>3, <3>4, <3>5
  <2>6. CASE CloseWrite(t)
    BY <2>6 DEF CloseWrite, Goto
  <2>7. CASE Free(t)
    BY <2>7 DEF Free, Goto
  <2> QED
    BY <1>5, <2>1, <2>2, <2>3, <2>4, <2>5, <2>6, <2>7 DEF Step
<1>6. CASE AnswerGet
  BY <1>6 DEF AnswerGet
<1>7. CASE AnswerError
  BY <1>7 DEF AnswerError
<1>8. CASE ApplySettle
  BY <1>8 DEF ApplySettle
<1>9. CASE Expire
  BY <1>9 DEF Expire
<1>10. CASE EndStream
  BY <1>10 DEF EndStream
<1>11. CASE UNCHANGED vars
  BY <1>11 DEF vars, clientVars
<1> QED
  BY <1>1, <1>2, <1>3, <1>4, <1>5, <1>6, <1>7, <1>8, <1>9, <1>10, <1>11 DEF Next

-----------------------------------------------------------------------------
\* The inductive invariant holds in every reachable state.
THEOREM Inductive == Spec => []IInv
<1>1. IInv /\ [Next]_vars => IInv'
  BY NextTypeOK, NextStreamInv, NextSettleInv DEF IInv
<1> QED
  BY InitIInv, <1>1, PTL DEF Spec

\* Type correctness of the receiver, the stream and the queue.
THEOREM TypeCorrect == Spec => []TypeOK
<1>1. IInv => TypeOK
  BY DEF IInv
<1> QED
  BY Inductive, <1>1, PTL

\* Every Poll returns the answer to its own Get.
THEOREM AnswersMatch == Spec => []OwnAnswer
<1>1. IInv => OwnAnswer
  BY DEF IInv, SettleInv, OwnAnswer
<1> QED
  BY Inductive, <1>1, PTL

\* Without auto_ack a message leaves the queue only after it was delivered.
THEOREM NothingLost == Spec => []SettledWereDelivered
<1>1. IInv => SettledWereDelivered
  BY DEF IInv, SettleInv, SettledWereDelivered
<1> QED
  BY Inductive, <1>1, PTL

-----------------------------------------------------------------------------
(* The queue operations without transactions. *)

(* The messages of an application. *)

\* A message that has an id if it has a channel or passes the check of its body.
Proper(m) ==
  /\ m \in HeldMessages
  /\ m.channel # NoText => m.id # NoText /\ ValidateBody(m.body, m.metadata)
  /\ m.id = NoText => ~ValidateBody(m.body, m.metadata)

\* Build lets no empty message through, and gives an id.
LEMMA BuiltMessage ==
  ASSUME NEW b \in HeldMessages, QueueMessageBuild(b, "uuid").status = "kOk"
  PROVE  Proper(QueueMessageBuild(b, "uuid").message)
<1> DEFINE m == QueueMessageBuild(b, "uuid").message
<1>1. m = WithId(b, "uuid") /\ b.channel # NoText /\ ValidateBody(b.body, b.metadata)
  BY DEF QueueMessageBuild, Produced, Refused, ValidateBody
<1>2. "uuid" # NoText BY Zenon DEF NoText
<1>3. "uuid" \in Words BY DEF Words
<1> HIDE DEF m
<1>4. m \in HeldMessages /\ m.id = FirstNonEmpty(b.id, "uuid") /\ m.channel = b.channel /\ m.body = b.body
      /\ m.metadata = b.metadata
  BY <1>1, <1>3 DEF WithId, FirstNonEmpty, HeldMessages
<1>5. m.id # NoText BY <1>2, <1>4 DEF FirstNonEmpty
<1> QED BY <1>1, <1>4, <1>5 DEF Proper, m

\* The setters take what they are given.
LEMMA SetMessage ==
  ASSUME NEW channel \in Words, NEW body \in Words, NEW expiration \in Int, NEW delay \in Int
  PROVE  /\ [NewQueueMessage EXCEPT !.channel = channel, !.body = body, !.expirationSeconds = expiration]
              \in HeldMessages
         /\ [NewQueueMessage EXCEPT !.channel = channel, !.body = body,
                                    !.expirationSeconds = expiration, !.delaySeconds = delay]
              \in HeldMessages
<1>1. NewQueueMessage \in HeldMessages
  <2>1. NoText \in Words BY DEF Words
  <2> QED BY <2>1 DEF NewQueueMessage, HeldMessages
<1>2. [NewQueueMessage EXCEPT !.channel = channel] \in HeldMessages
  BY <1>1 DEF HeldMessages
<1>3. [NewQueueMessage EXCEPT !.channel = channel, !.body = body] \in HeldMessages
  BY <1>2 DEF HeldMessages
<1>4. \A x \in HeldMessages : /\ [x EXCEPT !.expirationSeconds = expiration] \in HeldMessages
                                     /\ [x EXCEPT !.delaySeconds = delay] \in HeldMessages
  BY DEF HeldMessages
<1> QED BY <1>3, <1>4, Zenon

\* What an application can hold is a proper message.
LEMMA HeldMessage == \A m \in Outgoing : Proper(m)
<1> SUFFICES ASSUME NEW m \in Outgoing PROVE Proper(m) OBVIOUS
<1>1. CASE m = NewQueueMessage
  <2>1. NoText \in Words BY DEF Words
  <2> QED BY <1>1, <2>1 DEF NewQueueMessage, HeldMessages, ValidateBody, Proper
<1>2. CASE m # NewQueueMessage
  <2>1. PICK a \in Channels \X Texts : Made(a[1], a[2]).status = "kOk" /\ m = Made(a[1], a[2]).message
    BY <1>2 DEF Outgoing
  <2>2. a[1] \in Words /\ a[2] \in Words /\ 7 \in Int /\ 0 \in Int BY DEF Words
  <2> DEFINE b == [NewQueueMessage EXCEPT !.channel = a[1], !.body = a[2], !.expirationSeconds = 7]
  <2>3. b \in HeldMessages BY <2>2, SetMessage, Zenon
  <2>4. QueueMessageBuild(b, "uuid").status = "kOk" /\ m = QueueMessageBuild(b, "uuid").message
    BY <2>1 DEF Made
  <2> HIDE DEF b
  <2> QED BY <2>3, <2>4, BuiltMessage
<1> QED BY <1>1, <1>2

\* The conversion keeps what a message is about, the policy included.
LEMMA ProtoOfMessage ==
  ASSUME NEW m \in HeldMessages
  PROVE  LET p == QueueMessageToProto(m, ClientId)
             q == ToSend(m)
         IN  /\ p \in Protos /\ q \in Protos
             /\ p.MessageID = m.id /\ p.Channel = m.channel /\ p.Body = m.body /\ p.Metadata = m.metadata
             /\ q.MessageID = m.id /\ q.Body = m.body /\ q.Metadata = m.metadata
             /\ q.Channel = FirstNonEmpty(m.channel, DefaultChannel)
             /\ q.Policy.expirationSeconds = m.expirationSeconds
             /\ q.Policy.delaySeconds = m.delaySeconds
<1> DEFINE policy == [f \in DOMAIN QueuePolicy |-> m[f]]
<1>1. /\ policy \in [expirationSeconds : Int, delaySeconds : Int, maxReceiveCount : Int,
                     maxReceiveQueue : Words]
      /\ policy.expirationSeconds = m.expirationSeconds /\ policy.delaySeconds = m.delaySeconds
  BY DEF QueuePolicy, HeldMessages
<1>2. /\ ClientId \in Words /\ DefaultChannel \in Words
      /\ FirstNonEmpty(m.clientId, ClientId) \in Words
      /\ FirstNonEmpty(m.channel, DefaultChannel) \in Words
  BY DEF Words, FirstNonEmpty, HeldMessages
<1> DEFINE p == QueueMessageToProto(m, ClientId)
<1>3. p = [MessageID |-> m.id, ClientID |-> FirstNonEmpty(m.clientId, ClientId),
           Channel |-> m.channel, Metadata |-> m.metadata, Body |-> m.body, Tags |-> m.tags,
           Policy |-> policy, Attributes |-> 0]
  BY DEF QueueMessageToProto
<1>4. ToSend(m) = [p EXCEPT !.Channel = FirstNonEmpty(m.channel, DefaultChannel)]
  BY DEF ToSend
<1> HIDE DEF policy, p
<1>5. p \in Protos BY <1>1, <1>2, <1>3 DEF Protos, HeldMessages
<1>6. ToSend(m) \in Protos /\ ToSend(m).Policy = policy
  BY <1>2, <1>3, <1>4, <1>5 DEF Protos
<1> QED BY <1>1, <1>3, <1>4, <1>5, <1>6 DEF p, Protos

\* What passes the checks of a sender is whole, and so is what the broker may
\* store of an upstream request.
LEMMA WholeMessage ==
  ASSUME NEW m, Proper(m)
  PROVE  /\ Sendable(m) => Whole(ToSend(m))
         /\ LET p == QueueMessageToProto(m, ClientId) IN p.Channel # NoText => Whole(p)
<1>1. m \in HeldMessages BY DEF Proper
<1> QED BY <1>1, ProtoOfMessage
     DEF Proper, Sendable, Whole, ValidateChannelNoWildcard, ValidateChannel

\* A whole message survives being rebuilt by the builder of the application.
LEMMA Rebuilt ==
  ASSUME NEW p, Whole(p)
  PROVE  LET r == QueueMessageFromProto(p, "other")
         IN  /\ r.sequence = p.Attributes /\ r.message.id = p.MessageID
             /\ r.message.body = p.Body /\ r.message.channel = p.Channel
<1> DEFINE b == [f \in DOMAIN NewQueueMessage |->
                  CASE f = "id" -> p.MessageID
                    [] f = "channel" -> p.Channel
                    [] f = "metadata" -> p.Metadata
                    [] f = "body" -> p.Body
                    [] f = "clientId" -> p.ClientID
                    [] f = "tags" -> p.Tags
                    [] OTHER -> p.Policy[f]]
           r == QueueMessageBuild(b, "other")
<1>1. DOMAIN b = {"id", "channel", "metadata", "body", "clientId", "tags", "expirationSeconds",
                  "delaySeconds", "maxReceiveCount", "maxReceiveQueue"}
  BY DEF NewQueueMessage
<1>2. b.id = p.MessageID /\ b.channel = p.Channel /\ b.metadata = p.Metadata /\ b.body = p.Body
  BY DEF NewQueueMessage
<1>3. QueueMessageFromProto(p, "other") =
        IF r.status = "kOk" THEN [message |-> r.message, sequence |-> p.Attributes]
        ELSE [message |-> NewQueueMessage, sequence |-> 0]
  BY DEF QueueMessageFromProto
<1>4. b = [f \in DOMAIN b |-> b[f]]
  OBVIOUS
<1> HIDE DEF b
<1>5. r.status = "kOk" /\ r.message = WithId(b, "other")
  BY <1>2 DEF QueueMessageBuild, Produced, Whole, ValidateBody
<1>6. /\ WithId(b, "other").id = p.MessageID /\ WithId(b, "other").body = p.Body
      /\ WithId(b, "other").channel = p.Channel
  BY <1>1, <1>2, <1>4 DEF WithId, FirstNonEmpty, Whole
<1> HIDE DEF r
<1> QED BY <1>3, <1>5, <1>6

-----------------------------------------------------------------------------
(* What the broker has stored only grows. *)

\* t is s with messages added.
Grows(s, t) == Len(s) <= Len(t) /\ \A n \in DOMAIN s : t[n] = s[n]

\* What was told or is on its way stays true.
LEMMA GrowthKeeps ==
  ASSUME NEW s \in Seq(Protos), NEW t \in Seq(Protos), Grows(s, t)
  PROVE  /\ \A r : SuccessMeansStored(r, s) => SuccessMeansStored(r, t)
         /\ \A r : ReceivedIntact(r, s) => ReceivedIntact(r, t)
         /\ \A r : ReportIsTrue(r, s) => ReportIsTrue(r, t)
         /\ \A k : SendInv(k, s) => SendInv(k, t)
         /\ \A k : ReceiveInv(k, s) => ReceiveInv(k, t)
<1>1. \A n \in DOMAIN s : n \in DOMAIN t /\ t[n] = s[n]
  BY DEF Grows
<1>2. \A m : IsStored(m, s) => IsStored(m, t) BY <1>1, Zenon DEF IsStored
<1>3. ASSUME NEW r, SuccessMeansStored(r, s) PROVE SuccessMeansStored(r, t)
  BY <1>2, <1>3 DEF SuccessMeansStored
<1>4. ASSUME NEW r, ReceivedIntact(r, s) PROVE ReceivedIntact(r, t)
  BY <1>1, <1>4 DEF ReceivedIntact
<1>5. ASSUME NEW r, ReportIsTrue(r, s) PROVE ReportIsTrue(r, t)
  BY <1>1, <1>5 DEF ReportIsTrue
<1>6. ASSUME NEW k, SendInv(k, s) PROVE SendInv(k, t)
  BY <1>2, <1>6 DEF SendInv
<1>7. ASSUME NEW k, ReceiveInv(k, s) PROVE ReceiveInv(k, t)
  BY <1>1, <1>7 DEF ReceiveInv
<1> QED BY <1>3, <1>4, <1>5, <1>6, <1>7

\* Sequence s has the members of S.
Enumerates(s, S) ==
  /\ s \in Seq(S) /\ DOMAIN s = 1..Len(s) /\ Len(s) \in Nat
  /\ \A i \in 1..Len(s) : s[i] \in S
  /\ \A n \in S : \E i \in 1..Len(s) : s[i] = n

\* The members of a set of numbers in their order.
LEMMA Enumerated ==
  ASSUME NEW N \in Nat, NEW S, S \subseteq 1..N, NEW s \in Ascending(S)
  PROVE  Enumerates(s, S)
<1>1. IsFiniteSet(S)
  <2>1. IsFiniteSet(1..N) BY FS_Interval
  <2> QED BY <2>1, FS_Subset
<1>2. Cardinality(S) \in Nat BY <1>1, FS_CardinalityType
<1>3. s \in [1..Cardinality(S) -> S] /\ \A n \in S : \E i \in DOMAIN s : s[i] = n
  BY DEF Ascending
<1>4. s \in Seq(S) /\ Len(s) = Cardinality(S) /\ DOMAIN s = 1..Cardinality(S)
  BY <1>2, <1>3
<1> QED BY <1>2, <1>3, <1>4 DEF Enumerates

\* Sequence u over F is s and then t.
Joins(u, s, t, F) ==
  /\ u \in Seq(F) /\ Len(u) = Len(s) + Len(t)
  /\ \A n \in 1..Len(s) : u[n] = s[n]
  /\ \A k \in 1..Len(t) : u[Len(s) + k] = t[k]

\* Two sequences, one after the other.
LEMMA Joined ==
  ASSUME NEW F, NEW s \in Seq(F), NEW t \in Seq(F)
  PROVE  Joins(s \o t, s, t, F)
  BY DEF Joins

\* What the broker does with a batch: what it accepts joins the end, whole and
\* numbered, and is queued.
LEMMA StoreGrows ==
  ASSUME QueueTypeOK, StoredInv, NEW batch \in Seq(Protos), NEW ok \in Storable(batch),
         \A i \in DOMAIN batch : batch[i].Channel # NoText => Whole(batch[i]),
         Store(batch, ok)
  PROVE  /\ stored' \in Seq(Protos) /\ Grows(stored, stored') /\ StoredInv'
         /\ queue' \subseteq DOMAIN stored' /\ Len(fate') = Len(stored')
         /\ fate' \in Seq(SUBSET {"taken", "received", "lost", "acked"})
         /\ \A n \in DOMAIN stored : (n \in queue' <=> n \in queue) /\ fate'[n] = fate[n]
         /\ \A n \in DOMAIN stored' : n \in DOMAIN stored \/ (n \in queue' /\ fate'[n] = {})
         /\ \A i \in DOMAIN batch : ok[i] =>
              \E n \in DOMAIN stored' : stored'[n] = Numbered(batch[i], n)
<1> DEFINE S == {i \in DOMAIN batch : ok[i]}
           N == Len(stored)
<1>1. PICK a \in Ascending(S) :
        /\ stored' = stored \o [j \in 1..Len(a) |-> Numbered(batch[a[j]], N + j)]
        /\ queue' = queue \cup {N + j : j \in 1..Len(a)}
        /\ fate' = fate \o [j \in 1..Len(a) |-> {}]
  BY DEF Store
<1>2. DOMAIN batch = 1..Len(batch) /\ Len(batch) \in Nat OBVIOUS
<1>3. /\ Len(a) \in Nat /\ \A i \in 1..Len(a) : a[i] \in S
      /\ \A n \in S : \E i \in 1..Len(a) : a[i] = n
  <2>1. S \subseteq 1..Len(batch) BY <1>2
  <2> HIDE DEF S
  <2>2. Enumerates(a, S) BY <1>2, <2>1, Enumerated, Zenon
  <2> QED BY <2>2 DEF Enumerates
<1>4. N \in Nat /\ DOMAIN stored = 1..N /\ Len(fate) = N BY DEF QueueTypeOK
<1> DEFINE new == [j \in 1..Len(a) |-> Numbered(batch[a[j]], N + j)]
<1>5. \A j \in 1..Len(a) : /\ Numbered(batch[a[j]], N + j) \in Protos
                           /\ Numbered(batch[a[j]], N + j).Attributes = N + j
                           /\ Whole(Numbered(batch[a[j]], N + j))
  <2> SUFFICES ASSUME NEW j \in 1..Len(a)
               PROVE  /\ Numbered(batch[a[j]], N + j) \in Protos
                      /\ Numbered(batch[a[j]], N + j).Attributes = N + j
                      /\ Whole(Numbered(batch[a[j]], N + j))
    OBVIOUS
  <2>1. batch[a[j]] \in Protos /\ ok[a[j]] /\ a[j] \in DOMAIN batch BY <1>3
  <2>2. Whole(batch[a[j]]) BY <2>1 DEF Storable
  <2>3. N + j \in Nat BY <1>3, <1>4
  <2> HIDE DEF N
  <2> QED BY <2>1, <2>2, <2>3 DEF Numbered, Protos, Whole
<1>6. new \in Seq(Protos) /\ Len(new) = Len(a) /\ \A j \in 1..Len(a) : new[j] = Numbered(batch[a[j]], N + j)
  BY <1>3, <1>5
<1>7. stored \in Seq(Protos) /\ fate \in Seq(SUBSET {"taken", "received", "lost", "acked"})
  BY DEF QueueTypeOK
<1> HIDE DEF S, N, new
<1>8. /\ stored' \in Seq(Protos) /\ Len(stored') = N + Len(a)
      /\ \A n \in 1..N : stored'[n] = stored[n]
      /\ \A j \in 1..Len(a) : stored'[N + j] = new[j]
  BY <1>1, <1>3, <1>4, <1>6, <1>7 DEF N, new
<1>9. DOMAIN stored' = 1..(N + Len(a)) BY <1>3, <1>4, <1>8
<1>10. \A n \in DOMAIN stored' : n \in 1..N \/ \E j \in 1..Len(a) : n = N + j
  <2> SUFFICES ASSUME NEW n \in 1..(N + Len(a)), n \notin 1..N PROVE \E j \in 1..Len(a) : n = N + j
    BY <1>9
  <2>1. n - N \in 1..Len(a) /\ n = N + (n - N) BY <1>3, <1>4
  <2> QED BY <2>1
<1>11. StoredInv'
  BY <1>4, <1>5, <1>6, <1>8, <1>10 DEF StoredInv
<1>12. /\ fate' \in Seq(SUBSET {"taken", "received", "lost", "acked"}) /\ Len(fate') = N + Len(a)
       /\ \A n \in 1..N : fate'[n] = fate[n]
       /\ \A j \in 1..Len(a) : fate'[N + j] = {}
  <2> DEFINE F == SUBSET {"taken", "received", "lost", "acked"}
             none == [j \in 1..Len(a) |-> {}]
  <2>0. {} \in F /\ fate \in Seq(F) BY <1>7
  <2> HIDE DEF F
  <2>1. none \in Seq(F) /\ Len(none) = Len(a) /\ \A j \in 1..Len(a) : none[j] = {}
    BY <1>3, <2>0
  <2>2. fate' = fate \o none BY <1>1
  <2> HIDE DEF none
  <2>3. /\ fate' \in Seq(F) /\ Len(fate') = N + Len(a)
        /\ \A n \in 1..N : fate'[n] = fate[n]
        /\ \A j \in 1..Len(a) : fate'[N + j] = {}
    <3>1. Len(fate) = N /\ N \in Nat /\ Len(a) \in Nat BY <1>3, <1>4
    <3>2. Joins(fate', fate, none, F) BY <2>0, <2>1, <2>2, Joined, Zenon
    <3> QED BY <2>1, <3>1, <3>2 DEF Joins
  <2> QED BY <2>3 DEF F
<1>13. queue' \subseteq DOMAIN stored' /\ \A n \in 1..N : n \in queue' <=> n \in queue
  BY <1>1, <1>3, <1>4, <1>9 DEF QueueTypeOK
<1>14. \A n \in DOMAIN stored' : n \in 1..N \/ (n \in queue' /\ fate'[n] = {})
  BY <1>1, <1>10, <1>12
<1>15. \A i \in DOMAIN batch : ok[i] => \E n \in DOMAIN stored' : stored'[n] = Numbered(batch[i], n)
  <2> SUFFICES ASSUME NEW i \in DOMAIN batch, ok[i]
               PROVE  \E n \in DOMAIN stored' : stored'[n] = Numbered(batch[i], n)
    OBVIOUS
  <2>1. PICK j \in 1..Len(a) : a[j] = i BY <1>3 DEF S
  <2>2. N + j \in DOMAIN stored' BY <1>3, <1>4, <1>9
  <2>3. stored'[N + j] = Numbered(batch[i], N + j) BY <1>6, <1>8, <2>1
  <2> QED BY <2>2, <2>3
<1>16. Grows(stored, stored') BY <1>3, <1>4, <1>8 DEF Grows, N
<1> QED BY <1>4, <1>8, <1>11, <1>12, <1>13, <1>14, <1>15, <1>16

-----------------------------------------------------------------------------
(* Where every message is. *)

\* Fates stay fates.
LEMMA MarkedFates ==
  ASSUME QueueTypeOK, NEW X, NEW how \in {"taken", "received", "lost", "acked"}
  PROVE  /\ Marked(X, how) \in Seq(SUBSET {"taken", "received", "lost", "acked"})
         /\ Len(Marked(X, how)) = Len(fate)
         /\ \A n \in DOMAIN stored : /\ n \in X => Marked(X, how)[n] = fate[n] \cup {how}
                                     /\ n \notin X => Marked(X, how)[n] = fate[n]
<1> DEFINE F == SUBSET {"taken", "received", "lost", "acked"}
<1>1. fate \in Seq(F) /\ DOMAIN fate = 1..Len(fate) /\ DOMAIN stored = DOMAIN fate /\ Len(fate) \in Nat
  BY DEF QueueTypeOK
<1>2. \A n \in DOMAIN fate : fate[n] \in F BY <1>1
<1>3. \A n \in DOMAIN fate : (IF n \in X THEN fate[n] \cup {how} ELSE fate[n]) \in F BY <1>2
<1> HIDE DEF F
<1>4. Marked(X, how) \in [1..Len(fate) -> F] BY <1>1, <1>3 DEF Marked
<1>5. Marked(X, how) \in Seq(F) /\ Len(Marked(X, how)) = Len(fate) BY <1>1, <1>4
<1> QED BY <1>1, <1>5 DEF Marked, F

\* What a step of one caller does to the messages on their way.
LEMMA CarriedStep ==
  ASSUME QueueTypeOK, NEW c \in Callers, NEW k, call' = [call EXCEPT ![c] = k]
  PROVE  /\ call'[c] = k
         /\ \A d \in Callers : d # c => call'[d] = call[d]
         /\ \A n : (\E d \in Callers : n \in Carried(call'[d])) <=>
                     (n \in Carried(k) \/ \E d \in Callers : d # c /\ n \in Carried(call[d]))
<1>1. DOMAIN call = Callers BY DEF QueueTypeOK
<1>2. call'[c] = k /\ \A d \in Callers : d # c => call'[d] = call[d] BY <1>1
<1> QED BY <1>2, Zenon

\* A caller that begins or ends a call, none of it a receive that was answered.
LEMMA AccountsQuiet ==
  ASSUME QueueTypeOK, Accounted, CarriedInv, NEW c \in Callers, NEW k, call' = [call EXCEPT ![c] = k],
         Carried(k) = {}, Carried(call[c]) = {}, DOMAIN stored \subseteq DOMAIN stored',
         \A n \in DOMAIN stored : (n \in queue' <=> n \in queue) /\ fate'[n] = fate[n],
         \A n \in DOMAIN stored' : n \in DOMAIN stored \/ (n \in queue' /\ fate'[n] = {}),
         \A d \in Callers : Carried(call[d]) \subseteq DOMAIN stored
  PROVE  Accounted' /\ CarriedInv'
<1>1. \A d \in Callers : Carried(call'[d]) = Carried(call[d]) BY CarriedStep, Zenon
<1>2. CarriedInv' BY <1>1 DEF CarriedInv
<1>3. \A n : (\E d \in Callers : n \in Carried(call'[d])) <=> (\E d \in Callers : n \in Carried(call[d]))
  BY <1>1, Zenon
<1>4. ASSUME NEW n \in DOMAIN stored'
      PROVE  LET onItsWay == \E d \in Callers : n \in Carried(call'[d])
             IN  IF n \in queue' THEN fate'[n] = {} /\ ~onItsWay
                 ELSE IF onItsWay THEN fate'[n] = {"taken"}
                 ELSE fate'[n] \in {{"acked"}, {"taken", "received"}, {"taken", "lost"}}
  <2>1. CASE n \in DOMAIN stored BY <1>3, <2>1 DEF Accounted
  <2>2. CASE n \notin DOMAIN stored BY <1>3, <2>2
  <2> QED BY <2>1, <2>2
<1> QED BY <1>2, <1>4 DEF Accounted

\* A receive whose response arrives or is lost.
LEMMA AccountsReturned ==
  ASSUME QueueTypeOK, Accounted, CarriedInv, NEW c \in Callers, NEW k, call' = [call EXCEPT ![c] = k],
         Carried(k) = {}, NEW how \in {"received", "lost"}, UNCHANGED <<stored, queue>>,
         fate' = Marked(Carried(call[c]), how)
  PROVE  Accounted' /\ CarriedInv'
<1>1. /\ call'[c] = k
      /\ \A d \in Callers : d # c => call'[d] = call[d]
      /\ \A n : (\E d \in Callers : n \in Carried(call'[d])) <=>
                  (\E d \in Callers : d # c /\ n \in Carried(call[d]))
  BY CarriedStep
<1>2. CarriedInv'
  <2> SUFFICES ASSUME NEW a \in Callers, NEW b \in Callers, a # b
               PROVE  Carried(call'[a]) \cap Carried(call'[b]) = {}
    BY DEF CarriedInv
  <2> QED BY <1>1 DEF CarriedInv
<1>3. \A n \in DOMAIN stored : /\ n \in Carried(call[c]) => fate'[n] = fate[n] \cup {how}
                               /\ n \notin Carried(call[c]) => fate'[n] = fate[n]
  BY MarkedFates
<1>4. ASSUME NEW n \in DOMAIN stored'
      PROVE  LET onItsWay == \E d \in Callers : n \in Carried(call'[d])
             IN  IF n \in queue' THEN fate'[n] = {} /\ ~onItsWay
                 ELSE IF onItsWay THEN fate'[n] = {"taken"}
                 ELSE fate'[n] \in {{"acked"}, {"taken", "received"}, {"taken", "lost"}}
  <2>0. n \in DOMAIN stored /\ queue' = queue OBVIOUS
  <2>1. CASE n \in Carried(call[c])
    <3>1. n \notin queue /\ fate[n] = {"taken"} BY <2>0, <2>1, Zenon DEF Accounted
    <3>2. ~(\E d \in Callers : d # c /\ n \in Carried(call[d]))
      BY <2>1 DEF CarriedInv
    <3>3. fate'[n] = {"taken", how} BY <1>3, <2>0, <2>1, <3>1
    <3>4. fate'[n] \in {{"taken", "received"}, {"taken", "lost"}} BY <3>3
    <3> QED BY <1>1, <2>0, <3>1, <3>2, <3>4
  <2>2. CASE n \notin Carried(call[c])
    <3>1. (\E d \in Callers : n \in Carried(call'[d])) <=> (\E d \in Callers : n \in Carried(call[d]))
      BY <1>1, <2>2, Zenon
    <3>2. fate'[n] = fate[n] BY <1>3, <2>0, <2>2
    <3> QED BY <2>0, <3>1, <3>2 DEF Accounted
  <2> QED BY <2>1, <2>2
<1> QED BY <1>2, <1>4 DEF Accounted

\* Messages that leave the queue, taken by the answer to a receive or acknowledged.
LEMMA AccountsLeft ==
  ASSUME QueueTypeOK, Accounted, CarriedInv, NEW c \in Callers, NEW k, call' = [call EXCEPT ![c] = k],
         Carried(call[c]) = {}, NEW X, X \subseteq queue, NEW how,
         (how = "taken" /\ Carried(k) = X) \/ (how = "acked" /\ Carried(k) = {}),
         UNCHANGED stored, queue' = queue \ X, fate' = Marked(X, how)
  PROVE  Accounted' /\ CarriedInv'
<1>1. /\ call'[c] = k
      /\ \A d \in Callers : d # c => call'[d] = call[d]
      /\ \A n : (\E d \in Callers : n \in Carried(call'[d])) <=>
                  (n \in Carried(k) \/ \E d \in Callers : d # c /\ n \in Carried(call[d]))
  BY CarriedStep
<1>0. X \subseteq DOMAIN stored BY DEF QueueTypeOK
<1>2. \A n \in X : fate[n] = {} /\ \A d \in Callers : n \notin Carried(call[d])
  BY <1>0 DEF Accounted
<1>3. CarriedInv'
  <2> SUFFICES ASSUME NEW a \in Callers, NEW b \in Callers, a # b
               PROVE  Carried(call'[a]) \cap Carried(call'[b]) = {}
    BY DEF CarriedInv
  <2>1. Carried(k) \subseteq X OBVIOUS
  <2> QED BY <1>1, <1>2, <2>1 DEF CarriedInv
<1>4. \A n \in DOMAIN stored : /\ n \in X => fate'[n] = fate[n] \cup {how}
                               /\ n \notin X => fate'[n] = fate[n]
  BY MarkedFates
<1>5. ASSUME NEW n \in DOMAIN stored'
      PROVE  LET onItsWay == \E d \in Callers : n \in Carried(call'[d])
             IN  IF n \in queue' THEN fate'[n] = {} /\ ~onItsWay
                 ELSE IF onItsWay THEN fate'[n] = {"taken"}
                 ELSE fate'[n] \in {{"acked"}, {"taken", "received"}, {"taken", "lost"}}
  <2>0. n \in DOMAIN stored OBVIOUS
  <2>1. CASE n \in X
    <3>1. n \notin queue' BY <2>1
    <3>2. fate'[n] = {how} BY <1>2, <1>4, <2>0, <2>1
    <3>3. CASE how = "taken"
      BY <1>1, <2>1, <3>1, <3>2, <3>3
    <3>4. CASE how = "acked"
      <4>1. ~(\E d \in Callers : n \in Carried(call'[d])) BY <1>1, <1>2, <2>1, <3>4
      <4> QED BY <3>1, <3>2, <3>4, <4>1
    <3> QED BY <3>3, <3>4
  <2>2. CASE n \notin X
    <3>1. (\E d \in Callers : n \in Carried(call'[d])) <=> (\E d \in Callers : n \in Carried(call[d]))
      BY <1>1, <2>2, Zenon
    <3>2. fate'[n] = fate[n] /\ (n \in queue' <=> n \in queue) BY <1>4, <2>0, <2>2
    <3> QED BY <2>0, <3>1, <3>2 DEF Accounted
  <2> QED BY <2>1, <2>2
<1> QED BY <1>3, <1>5 DEF Accounted

-----------------------------------------------------------------------------
(* The steps. *)

\* The initial state satisfies the invariant.
LEMMA QueueBegins == QueueInit => QueueIInv
<1> SUFFICES ASSUME QueueInit PROVE QueueIInv OBVIOUS
<1>1. /\ stored = <<>> /\ queue = {} /\ fate = <<>> /\ upstream = <<>> /\ reported = {}
      /\ call = [c \in Callers |-> Idle] /\ result = [c \in Callers |-> NoResult]
  BY DEF QueueInit
<1>2. QueueTypeOK
  <2>1. fate \in Seq(SUBSET {"taken", "received", "lost", "acked"}) /\ Len(fate) = Len(stored)
    BY <1>1
  <2>2. upstream \in Seq([RequestID : Words, Messages : Seq(Protos)]) /\ stored \in Seq(Protos)
    BY <1>1
  <2> QED BY <1>1, <2>1, <2>2 DEF QueueTypeOK
<1>3. StoredInv /\ UpstreamInv /\ Accounted
  BY <1>1 DEF StoredInv, UpstreamInv, Accounted
<1>4. \A c \in Callers : call[c].op = "none" /\ result[c].op = "none"
  BY <1>1 DEF Idle, NoResult
<1>5. CallInv /\ CarriedInv
  BY <1>4 DEF CallInv, SendInv, ReceiveInv, CarriedInv, Carried
<1>6. ResultsAreTrue
  BY <1>1, <1>4 DEF ResultsAreTrue, SuccessMeansStored, ReceivedIntact
<1> QED BY <1>2, <1>3, <1>5, <1>6 DEF QueueIInv

\* A step of a caller, or of the broker for it, from its parts.
LEMMA CallerStep ==
  ASSUME QueueIInv, NEW c \in Callers, NEW k, NEW r,
         call' = [call EXCEPT ![c] = k], result' = [result EXCEPT ![c] = r],
         UNCHANGED <<upstream, reported>>, k = Idle \/ IsCall(k),
         stored' \in Seq(Protos), Grows(stored, stored'), StoredInv',
         queue' \subseteq DOMAIN stored', Len(fate') = Len(stored'),
         fate' \in Seq(SUBSET {"taken", "received", "lost", "acked"}),
         Accounted', CarriedInv', SendInv(k, stored'), ReceiveInv(k, stored'),
         SuccessMeansStored(r, stored'), ReceivedIntact(r, stored')
  PROVE  QueueIInv'
<1>0. QueueTypeOK /\ UpstreamInv /\ CallInv /\ ResultsAreTrue /\ stored \in Seq(Protos)
  BY DEF QueueIInv, QueueTypeOK
<1>1. /\ \A d \in Callers : call'[d] = IF d = c THEN k ELSE call[d]
      /\ \A d \in Callers : result'[d] = IF d = c THEN r ELSE result[d]
      /\ call' = [d \in Callers |-> call'[d]] /\ result' = [d \in Callers |-> result'[d]]
  BY <1>0 DEF QueueTypeOK
<1>2. QueueTypeOK' BY <1>0, <1>1 DEF QueueTypeOK
<1>3. UpstreamInv' BY <1>0 DEF UpstreamInv
<1>4. CallInv' BY <1>0, <1>1, GrowthKeeps DEF CallInv
<1>5. ResultsAreTrue' BY <1>0, <1>1, GrowthKeeps DEF ResultsAreTrue
<1> QED BY <1>2, <1>3, <1>4, <1>5 DEF QueueIInv

\* What is carried is stored; an answer that holds nothing carries nothing.
LEMMA CarriedFacts ==
  ASSUME QueueIInv
  PROVE  /\ \A c \in Callers : Carried(call[c]) \subseteq DOMAIN stored
         /\ Carried(Idle) = {}
         /\ \A k : k.op # "receive" \/ k.at # "answered" => Carried(k) = {}
<1>1. \A k : k.op # "receive" \/ k.at # "answered" => Carried(k) = {} BY DEF Carried
<1>2. Carried(Idle) = {} BY DEF Carried, Idle
<1>3. ASSUME NEW c \in Callers PROVE Carried(call[c]) \subseteq DOMAIN stored
  BY DEF Carried, QueueIInv, CallInv, ReceiveInv
<1> QED BY <1>1, <1>2, <1>3

\* A step of a caller that neither the broker nor a message notices.
LEMMA QuietCall ==
  ASSUME QueueIInv, NEW c \in Callers, NEW k, NEW r,
         call' = [call EXCEPT ![c] = k], result' = [result EXCEPT ![c] = r],
         UNCHANGED <<upstream, reported, stored, queue, fate>>, k = Idle \/ IsCall(k),
         Carried(k) = {}, Carried(call[c]) = {}, SendInv(k, stored), ReceiveInv(k, stored),
         SuccessMeansStored(r, stored), ReceivedIntact(r, stored)
  PROVE  QueueIInv'
<1>0. QueueTypeOK /\ StoredInv /\ Accounted /\ CarriedInv BY DEF QueueIInv
<1>1. \A n \in DOMAIN stored : (n \in queue' <=> n \in queue) /\ fate'[n] = fate[n] OBVIOUS
<1>2. DOMAIN stored \subseteq DOMAIN stored' /\ \A n \in DOMAIN stored' : n \in DOMAIN stored OBVIOUS
<1>3. \A d \in Callers : Carried(call[d]) \subseteq DOMAIN stored BY CarriedFacts
<1>4. Accounted' /\ CarriedInv' BY <1>0, <1>1, <1>2, <1>3, AccountsQuiet
<1>5. stored' = stored /\ Grows(stored, stored') BY <1>0 DEF Grows, QueueTypeOK
<1>6. StoredInv' BY <1>0 DEF StoredInv
<1>7. /\ stored' \in Seq(Protos) /\ queue' \subseteq DOMAIN stored' /\ Len(fate') = Len(stored')
      /\ fate' \in Seq(SUBSET {"taken", "received", "lost", "acked"})
  BY <1>0 DEF QueueTypeOK
<1> QED BY <1>4, <1>5, <1>6, <1>7, CallerStep

\* A call that ends with a code other than kOk, or was about no message, tells nothing.
LEMMA ToldNothing ==
  ASSUME NEW op, NEW asked, NEW code, NEW value, NEW s,
         code # "kOk" \/ op \notin {"send", "batch", "receive", "peek"}
  PROVE  LET r == [op |-> op, asked |-> asked, code |-> code, value |-> value]
         IN  SuccessMeansStored(r, s) /\ ReceivedIntact(r, s)
  BY DEF SuccessMeansStored, ReceivedIntact

\* No call under way.
LEMMA IdleFacts == ASSUME NEW s PROVE SendInv(Idle, s) /\ ReceiveInv(Idle, s)
  BY DEF SendInv, ReceiveInv, Idle

\* A call that is refused leaves everything as it is.
LEMMA RefusedIInv ==
  ASSUME QueueIInv, NEW c \in Callers, call[c] = Idle, NEW op, NEW asked, NEW code, NEW value,
         Return(c, op, asked, code, value), UNCHANGED <<upstream, reported, stored, queue, fate>>,
         code # "kOk" \/ op \notin {"send", "batch", "receive", "peek"}
  PROVE  QueueIInv'
<1> DEFINE r == [op |-> op, asked |-> asked, code |-> code, value |-> value]
<1>1. call' = [call EXCEPT ![c] = Idle] /\ result' = [result EXCEPT ![c] = r] BY DEF Return
<1>2. SuccessMeansStored(r, stored) /\ ReceivedIntact(r, stored) BY ToldNothing
<1> HIDE DEF r
<1> QED BY <1>1, <1>2, CarriedFacts, IdleFacts, QuietCall

\* A call that is checked is refused, or waits for the broker.
LEMMA CheckedIInv ==
  ASSUME QueueConstants, QueueIInv, NEW c \in Callers, call[c] = Idle, NEW op, NEW asked, NEW valid, NEW request,
         NEW deadline \in Int, Checked(c, op, asked, valid, request, deadline),
         UNCHANGED <<upstream, reported, stored, queue, fate>>,
         op \in {"send", "batch", "receive", "peek", "ackall"},
         valid => LET k == [op |-> op, asked |-> asked, request |-> request, deadline |-> deadline,
                            at |-> "broker", answer |-> <<>>]
                  IN  SendInv(k, stored) /\ ReceiveInv(k, stored)
  PROVE  QueueIInv'
<1> DEFINE k == [op |-> op, asked |-> asked, request |-> request, deadline |-> deadline,
                 at |-> "broker", answer |-> <<>>]
<1>1. CASE \E code : code # "kOk" /\ Return(c, op, <<>>, code, <<>>)
  BY <1>1, RefusedIInv
<1>2. CASE /\ valid /\ call' = [call EXCEPT ![c] = k] /\ result' = [result EXCEPT ![c] = NoResult]
  <2>1. IsCall(k) /\ Carried(k) = {} BY DEF IsCall, Carried
  <2>2. SendInv(k, stored) /\ ReceiveInv(k, stored) BY <1>2
  <2>3. SuccessMeansStored(NoResult, stored) /\ ReceivedIntact(NoResult, stored)
    BY DEF NoResult, SuccessMeansStored, ReceivedIntact
  <2> HIDE DEF k
  <2> QED BY <1>2, <2>1, <2>2, <2>3, CarriedFacts, QuietCall
<1>3. QED
  <2>1. CASE clientClosed
    BY <1>1, <2>1 DEF Checked
  <2>2. CASE ~clientClosed /\ ~valid
    BY <1>1, <2>2 DEF Checked
  <2>3. CASE ~clientClosed /\ valid
    <3>1. Invoke(c, op, asked, request, deadline) BY <2>3 DEF Checked
    <3> QED BY <1>1, <1>2, <2>3, <3>1 DEF Invoke
  <2> QED BY <2>1, <2>2, <2>3

\* A batch of proper messages that pass the checks waits for the broker.
LEMMA BatchIInv ==
  ASSUME QueueConstants, QueueIInv, NEW c \in Callers, call[c] = Idle, NEW batch \in Seq(HeldMessages),
         \A i \in DOMAIN batch : Proper(batch[i]), NEW op \in {"send", "batch"},
         op = "send" => Len(batch) = 1, NEW valid, valid => \A i \in DOMAIN batch : Sendable(batch[i]),
         Checked(c, op, batch, valid, [i \in DOMAIN batch |-> ToSend(batch[i])], kDefaultSendTimeout),
         UNCHANGED <<upstream, reported, stored, queue, fate>>
  PROVE  QueueIInv'
<1> DEFINE request == [i \in DOMAIN batch |-> ToSend(batch[i])]
           k == [op |-> op, asked |-> batch, request |-> request, deadline |-> kDefaultSendTimeout,
                 at |-> "broker", answer |-> <<>>]
<1>1. ASSUME valid PROVE SendInv(k, stored) /\ ReceiveInv(k, stored)
  <2>1. \A i \in DOMAIN batch : Whole(ToSend(batch[i])) BY <1>1, WholeMessage
  <2> QED BY <2>1 DEF SendInv, ReceiveInv
<1>2. kDefaultSendTimeout \in Int BY DEF kDefaultSendTimeout
<1> HIDE DEF request
<1> QED BY <1>1, <1>2, CheckedIInv DEF request

\* SendQueueMessage.
LEMMA SendIInv ==
  ASSUME QueueConstants, QueueIInv, NEW c \in Callers, NEW m, Proper(m), SendQueueMessage(c, m)
  PROVE  QueueIInv'
<1>1. /\ call[c] = Idle /\ UNCHANGED <<upstream, reported, stored, queue, fate>>
      /\ Checked(c, "send", <<m>>, Sendable(m), <<ToSend(m)>>, kDefaultSendTimeout)
  BY DEF SendQueueMessage, Begin, brokerVars, upstreamVars
<1> DEFINE batch == <<m>>
<1>2. /\ batch \in Seq(HeldMessages) /\ Len(batch) = 1
      /\ \A i \in DOMAIN batch : Proper(batch[i])
      /\ Sendable(m) => \A i \in DOMAIN batch : Sendable(batch[i])
  BY DEF Proper
<1>3. [i \in DOMAIN batch |-> ToSend(batch[i])] = <<ToSend(m)>> OBVIOUS
<1> HIDE DEF batch
<1>4. Checked(c, "send", batch, Sendable(m), [i \in DOMAIN batch |-> ToSend(batch[i])], kDefaultSendTimeout)
  BY <1>1, <1>3 DEF batch
<1> QED BY <1>1, <1>2, <1>4, BatchIInv

\* SendQueueMessageSimple builds its message first.
LEMMA SimpleIInv ==
  ASSUME QueueConstants, QueueIInv, NEW c \in Callers, NEW channel \in Channels, NEW body \in Texts,
         SendQueueMessageSimple(c, channel, body, 0, 3)
  PROVE  QueueIInv'
<1> DEFINE b == [NewQueueMessage EXCEPT !.channel = channel, !.body = body,
                                        !.expirationSeconds = 0, !.delaySeconds = 3]
           built == QueueMessageBuild(b, "uuid")
<1>1. IF built.status = "kOk" THEN SendQueueMessage(c, built.message)
      ELSE /\ Begin(c)
           /\ Return(c, "simple", [channel |-> channel, body |-> body], built.status, <<>>)
           /\ UNCHANGED <<clientClosed, brokerVars, upstreamVars>>
  BY DEF SendQueueMessageSimple
<1>2. b \in HeldMessages
  <2>1. channel \in Words /\ body \in Words /\ 0 \in Int /\ 3 \in Int BY DEF Words
  <2> QED BY <2>1, SetMessage, Zenon
<1> HIDE DEF b
<1>3. built.status = "kOk" => Proper(built.message) BY <1>2, BuiltMessage
<1> HIDE DEF built
<1>4. CASE built.status = "kOk" BY <1>1, <1>3, <1>4, SendIInv
<1>5. CASE built.status # "kOk"
  <2>1. /\ call[c] = Idle /\ UNCHANGED <<upstream, reported, stored, queue, fate>>
        /\ Return(c, "simple", [channel |-> channel, body |-> body], built.status, <<>>)
    BY <1>1, <1>5 DEF Begin, brokerVars, upstreamVars
  <2> QED BY <1>5, <2>1, RefusedIInv
<1> QED BY <1>4, <1>5

\* The batches an application can send.
LEMMA BatchOf ==
  ASSUME QueueConstants, NEW n \in Nat, NEW batch \in BoundedSeq(Outgoing, n)
  PROVE  batch \in Seq(HeldMessages) /\ \A i \in DOMAIN batch : Proper(batch[i])
<1>1. PICK m \in 0..n : batch \in [1..m -> Outgoing] BY DEF BoundedSeq, SeqOf
<1>2. \A i \in 1..m : Proper(batch[i]) /\ batch[i] \in HeldMessages
  BY <1>1, HeldMessage DEF Proper
<1>3. batch \in [1..m -> HeldMessages] BY <1>1, <1>2
<1> QED BY <1>1, <1>2, <1>3

\* SendQueueMessages.
LEMMA SendsIInv == ASSUME QueueConstants, QueueIInv, NEW c \in Callers, Sends(c) PROVE QueueIInv'
<1>1. CASE \E m \in Outgoing : SendQueueMessage(c, m) BY <1>1, HeldMessage, SendIInv
<1>2. ASSUME NEW batch \in Batches, SendQueueMessages(c, batch) PROVE QueueIInv'
  <2>1. batch \in Seq(HeldMessages) /\ \A i \in DOMAIN batch : Proper(batch[i])
    BY BatchOf DEF Batches, QueueConstants
  <2> DEFINE valid == batch # <<>> /\ \A i \in DOMAIN batch : Sendable(batch[i])
  <2>2. /\ call[c] = Idle /\ UNCHANGED <<upstream, reported, stored, queue, fate>>
        /\ Checked(c, "batch", batch, valid, [i \in DOMAIN batch |-> ToSend(batch[i])], kDefaultSendTimeout)
    BY <1>2 DEF SendQueueMessages, SendQueueMessagesBatch, Begin, brokerVars, upstreamVars
  <2>3. valid => \A i \in DOMAIN batch : Sendable(batch[i]) OBVIOUS
  <2> HIDE DEF valid
  <2> QED BY <2>1, <2>2, <2>3, BatchIInv
<1>3. CASE \E channel \in Channels, body \in Texts : SendQueueMessageSimple(c, channel, body, 0, 3)
  BY <1>3, SimpleIInv
<1> QED BY <1>1, <1>2, <1>3 DEF Sends

\* ReceiveQueueMessages and AckAllQueueMessages.
LEMMA ConsumesIInv == ASSUME QueueConstants, QueueIInv, NEW c \in Callers, Consumes(c) PROVE QueueIInv'
<1>0. PICK channel \in Channels, wait \in Waits :
        \/ \E count \in Counts, peek \in BOOLEAN : ReceiveQueueMessages(c, channel, count, wait, peek)
        \/ AckAllQueueMessages(c, channel, wait)
  BY DEF Consumes
<1>1. /\ FirstNonEmpty(channel, DefaultChannel) \in Words /\ wait \in Int
      /\ ReceiveDeadline(wait) \in Int
  <2>1. wait \in Int /\ Int32Half \in Nat \ {0} BY DEF QueueConstants
  <2>2. wait + 5 \in Int /\ 2 * Int32Half \in Nat \ {0} BY <2>1
  <2>3. (wait + 5 + Int32Half) % (2 * Int32Half) \in Int BY <2>1, <2>2
  <2>4. ToInt32(wait + 5) \in Int BY <2>1, <2>3 DEF ToInt32
  <2> QED BY <2>1, <2>4 DEF ReceiveDeadline, FirstNonEmpty, Words
<1>2. ASSUME NEW count \in Counts, NEW peek \in BOOLEAN, ReceiveQueueMessages(c, channel, count, wait, peek)
      PROVE  QueueIInv'
  <2> DEFINE op == IF peek THEN "peek" ELSE "receive"
             request == ReceiveRequest(channel, count, wait, peek)
             valid == ValidateChannel(FirstNonEmpty(channel, DefaultChannel))
             k == [op |-> op, asked |-> <<wait>>, request |-> request, deadline |-> ReceiveDeadline(wait),
                   at |-> "broker", answer |-> <<>>]
  <2>1. /\ call[c] = Idle /\ UNCHANGED <<upstream, reported, stored, queue, fate>>
        /\ Checked(c, op, <<wait>>, valid, request, ReceiveDeadline(wait))
    BY <1>2 DEF ReceiveQueueMessages, Begin, brokerVars, upstreamVars
  <2>2. op \in {"receive", "peek"} /\ peek = (op = "peek") OBVIOUS
  <2>3. request \in ReceiveRequests /\ request.IsPeek = peek
    BY <1>1 DEF ReceiveRequest, ReceiveRequests, QueueConstants
  <2> HIDE DEF op, request, valid
  <2>4. SendInv(k, stored) /\ ReceiveInv(k, stored)
    BY <2>2, <2>3 DEF SendInv, ReceiveInv
  <2> QED BY <1>1, <2>1, <2>2, <2>4, CheckedIInv
<1>3. ASSUME AckAllQueueMessages(c, channel, wait) PROVE QueueIInv'
  <2> DEFINE request == [Channel |-> FirstNonEmpty(channel, DefaultChannel), Wait |-> wait]
             valid == ValidateChannel(FirstNonEmpty(channel, DefaultChannel))
             k == [op |-> "ackall", asked |-> <<wait>>, request |-> request,
                   deadline |-> ReceiveDeadline(wait), at |-> "broker", answer |-> <<>>]
  <2>1. /\ call[c] = Idle /\ UNCHANGED <<upstream, reported, stored, queue, fate>>
        /\ Checked(c, "ackall", <<wait>>, valid, request, ReceiveDeadline(wait))
    BY <1>3 DEF AckAllQueueMessages, Begin, brokerVars, upstreamVars
  <2> HIDE DEF request, valid
  <2>2. SendInv(k, stored) /\ ReceiveInv(k, stored)
    BY DEF SendInv, ReceiveInv
  <2> QED BY <1>1, <2>1, <2>2, CheckedIInv
<1> QED BY <1>0, <1>2, <1>3

\* The results of a batch that the broker has stored.
LEMMA BatchStored ==
  ASSUME NEW batch \in Seq(HeldMessages), NEW s \in Seq(Protos), NEW n \in DOMAIN s, NEW i \in DOMAIN batch,
         s[n] = Numbered(ToSend(batch[i]), n)
  PROVE  IsStored(batch[i], s)
<1>1. batch[i] \in HeldMessages OBVIOUS
<1> DEFINE p == ToSend(batch[i])
<1>2. /\ p \in Protos /\ p.MessageID = batch[i].id /\ p.Body = batch[i].body
      /\ p.Channel = FirstNonEmpty(batch[i].channel, DefaultChannel)
      /\ p.Policy.expirationSeconds = batch[i].expirationSeconds
      /\ p.Policy.delaySeconds = batch[i].delaySeconds
  BY <1>1, ProtoOfMessage
<1>3. s[n] = Numbered(p, n) OBVIOUS
<1> HIDE DEF p
<1>4. /\ Numbered(p, n).MessageID = p.MessageID /\ Numbered(p, n).Body = p.Body
      /\ Numbered(p, n).Channel = p.Channel /\ Numbered(p, n).Policy = p.Policy
  BY <1>2 DEF Numbered, Protos
<1> QED BY <1>2, <1>3, <1>4 DEF IsStored

\* a is call k with its answer.
IsAnswered(a, k, answer) ==
  IsCall(a) /\ a.op = k.op /\ a.asked = k.asked /\ a.at = "answered" /\ a.answer = answer

\* An answer leaves the rest of a call alone.
LEMMA AnsweredCall ==
  ASSUME NEW k, IsCall(k), NEW answer \in Answers
  PROVE  IsAnswered(Answered(k, answer), k, answer)
<1> DEFINE a == Answered(k, answer)
<1>1. a = [op |-> k.op, asked |-> k.asked, request |-> k.request, deadline |-> k.deadline,
           at |-> "answered", answer |-> answer]
  BY DEF Answered
<1> HIDE DEF a
<1>2. IsCall(a) BY <1>1 DEF IsCall
<1> QED BY <1>1, <1>2 DEF a, IsAnswered

\* A batch at the broker.
LEMMA PutIInv == ASSUME QueueConstants, QueueIInv, NEW c \in Callers, Put(c) PROVE QueueIInv'
<1>0. QueueTypeOK /\ StoredInv /\ Accounted /\ CarriedInv BY DEF QueueIInv
<1> DEFINE k == call[c]
           batch == k.asked
           request == [i \in DOMAIN batch |-> ToSend(batch[i])]
<1>1. k.at = "broker" /\ k.op \in {"send", "batch"} BY DEF Put
<1>2. IsCall(k) BY <1>0, <1>1 DEF QueueTypeOK, Idle
<1>3. SendInv(k, stored) BY DEF QueueIInv, CallInv
<1>4. /\ batch \in Seq(HeldMessages) /\ (k.op = "send" => Len(batch) = 1)
      /\ k.request = request /\ \A i \in DOMAIN batch : Whole(ToSend(batch[i]))
  BY <1>1, <1>3 DEF SendInv
<1>5. PICK ok \in Storable(request) :
        Store(request, ok) /\ Answer(c, FALSE, Results(request, ok), <<>>, 0)
  BY <1>4 DEF Put
<1>6. UNCHANGED <<result, upstream, reported>> BY DEF Put, upstreamVars
<1> HIDE DEF k, batch
<1>7. /\ request \in Seq(Protos) /\ DOMAIN request = DOMAIN batch /\ Len(request) = Len(batch)
      /\ DOMAIN batch = 1..Len(batch) /\ Len(batch) \in Nat
      /\ \A i \in DOMAIN batch : request[i] = ToSend(batch[i]) /\ request[i].MessageID = batch[i].id
  BY <1>4, ProtoOfMessage
<1> DEFINE results == Results(request, ok)
           answer == [error |-> FALSE, results |-> results, messages |-> <<>>, affected |-> 0]
           a == Answered(k, answer)
<1>8. \A i \in DOMAIN request : request[i].Channel # NoText => Whole(request[i])
  BY <1>4, <1>7
<1> HIDE DEF request
<1>9. /\ stored' \in Seq(Protos) /\ Grows(stored, stored') /\ StoredInv'
      /\ queue' \subseteq DOMAIN stored' /\ Len(fate') = Len(stored')
      /\ fate' \in Seq(SUBSET {"taken", "received", "lost", "acked"})
      /\ \A n \in DOMAIN stored : (n \in queue' <=> n \in queue) /\ fate'[n] = fate[n]
      /\ \A n \in DOMAIN stored' : n \in DOMAIN stored \/ (n \in queue' /\ fate'[n] = {})
      /\ \A i \in DOMAIN request : ok[i] => \E n \in DOMAIN stored' : stored'[n] = Numbered(request[i], n)
  BY <1>0, <1>5, <1>7, <1>8, StoreGrows
<1>10. /\ Len(results) = Len(batch)
       /\ results \in Seq([MessageID : Words, IsError : BOOLEAN, Error : {NoText}])
       /\ \A i \in DOMAIN batch : results[i].MessageID = batch[i].id /\ (~results[i].IsError => ok[i])
  <2>1. \A i \in DOMAIN request : request[i].MessageID \in Words /\ ok[i] \in BOOLEAN
    <3>1. \A i \in DOMAIN request : request[i] \in Protos BY <1>7
    <3>2. ok \in [DOMAIN request -> BOOLEAN] BY DEF Storable
    <3> QED BY <3>1, <3>2 DEF Protos
  <2>2. results = [i \in DOMAIN request |-> [MessageID |-> request[i].MessageID, IsError |-> ~ok[i],
                                             Error |-> NoText]]
    BY DEF Results
  <2> DEFINE R == [MessageID : Words, IsError : BOOLEAN, Error : {NoText}]
  <2>3. \A i \in DOMAIN request : [MessageID |-> request[i].MessageID, IsError |-> ~ok[i],
                                   Error |-> NoText] \in R
    BY <2>1
  <2> HIDE DEF results, R
  <2>4. results \in [1..Len(batch) -> R] BY <1>7, <2>2, <2>3
  <2>5. \A i \in DOMAIN batch : results[i].MessageID = batch[i].id /\ (~results[i].IsError => ok[i])
    BY <1>7, <2>1, <2>2
  <2>6. results \in Seq(R) /\ Len(results) = Len(batch) BY <1>7, <2>4
  <2> QED BY <2>5, <2>6 DEF R
<1> HIDE DEF results
<1>11. answer \in Answers BY <1>10 DEF Answers
<1>12. /\ IsCall(a) /\ a.op = k.op /\ a.asked = k.asked /\ a.at = "answered"
       /\ a.answer.error = FALSE /\ a.answer.results = results
  <2> HIDE DEF answer
  <2>1. IsAnswered(a, k, answer) BY <1>2, <1>11, AnsweredCall
  <2> QED BY <2>1 DEF IsAnswered, answer
<1>13. call' = [call EXCEPT ![c] = a] BY <1>5 DEF Answer, k, results, answer
<1> HIDE DEF a
<1>14. SendInv(a, stored') /\ ReceiveInv(a, stored')
  <2>1. \A i \in DOMAIN batch : ~results[i].IsError => IsStored(batch[i], stored')
    <3> SUFFICES ASSUME NEW i \in DOMAIN batch, ~results[i].IsError PROVE IsStored(batch[i], stored')
      OBVIOUS
    <3>1. PICK n \in DOMAIN stored' : stored'[n] = Numbered(ToSend(batch[i]), n)
      BY <1>7, <1>9, <1>10
    <3> QED BY <1>4, <1>9, <3>1, BatchStored
  <2> QED BY <1>1, <1>4, <1>10, <1>12, <2>1 DEF SendInv, ReceiveInv, batch
<1>15. Carried(a) = {} /\ Carried(call[c]) = {} /\ \A d \in Callers : Carried(call[d]) \subseteq DOMAIN stored
  BY <1>1, <1>12, CarriedFacts DEF k
<1>16. DOMAIN stored \subseteq DOMAIN stored' BY <1>0, <1>9 DEF QueueTypeOK, Grows
<1>17. Accounted' /\ CarriedInv' BY <1>0, <1>9, <1>13, <1>15, <1>16, AccountsQuiet
<1>18. /\ result' = [result EXCEPT ![c] = result[c]]
       /\ SuccessMeansStored(result[c], stored') /\ ReceivedIntact(result[c], stored')
  <2>1. SuccessMeansStored(result[c], stored) /\ ReceivedIntact(result[c], stored)
    BY DEF QueueIInv, ResultsAreTrue
  <2>2. stored \in Seq(Protos) BY <1>0 DEF QueueTypeOK
  <2> QED BY <1>0, <1>6, <1>9, <2>1, <2>2, GrowthKeeps DEF QueueTypeOK
<1> QED BY <1>6, <1>9, <1>12, <1>13, <1>14, <1>17, <1>18, CallerStep

\* A step that changes no result and nothing that was stored.
LEMMA BrokerStep ==
  ASSUME QueueIInv, NEW c \in Callers, NEW a, call' = [call EXCEPT ![c] = a],
         UNCHANGED <<result, upstream, reported, stored>>, IsCall(a),
         queue' \subseteq queue, Len(fate') = Len(fate),
         fate' \in Seq(SUBSET {"taken", "received", "lost", "acked"}),
         Accounted', CarriedInv', SendInv(a, stored), ReceiveInv(a, stored)
  PROVE  QueueIInv'
<1>0. QueueTypeOK /\ StoredInv BY DEF QueueIInv
<1>1. /\ stored' \in Seq(Protos) /\ Grows(stored, stored') /\ stored' = stored
      /\ queue' \subseteq DOMAIN stored' /\ Len(fate') = Len(stored')
  BY <1>0 DEF QueueTypeOK, Grows
<1>2. StoredInv' BY <1>0, <1>1 DEF StoredInv
<1>3. result' = [result EXCEPT ![c] = result[c]] BY <1>0 DEF QueueTypeOK
<1>4. SuccessMeansStored(result[c], stored) /\ ReceivedIntact(result[c], stored)
  BY DEF QueueIInv, ResultsAreTrue
<1>5. /\ SendInv(a, stored') /\ ReceiveInv(a, stored')
      /\ SuccessMeansStored(result[c], stored') /\ ReceivedIntact(result[c], stored')
  BY <1>1, <1>4
<1>6. UNCHANGED <<upstream, reported>> OBVIOUS
<1> QED BY <1>1, <1>2, <1>3, <1>5, <1>6, CallerStep

\* An error of the broker, as an answer.
LEMMA ErrorIInv ==
  ASSUME QueueIInv, NEW c \in Callers, call[c].at = "broker", call[c].op \in {"receive", "peek", "ackall"},
         Answer(c, TRUE, <<>>, <<>>, 0),
         UNCHANGED <<result, upstream, reported, stored, queue, fate>>
  PROVE  QueueIInv'
<1>0. QueueTypeOK /\ StoredInv /\ Accounted /\ CarriedInv BY DEF QueueIInv
<1> DEFINE k == call[c]
           answer == [error |-> TRUE, results |-> <<>>, messages |-> <<>>, affected |-> 0]
           a == Answered(k, answer)
<1>1. IsCall(k) BY <1>0 DEF QueueTypeOK, Idle
<1>2. answer \in Answers BY DEF Answers
<1>3. call' = [call EXCEPT ![c] = a] BY DEF Answer
<1> HIDE DEF k, answer
<1>4. IsAnswered(a, k, answer) BY <1>1, <1>2, AnsweredCall
<1> HIDE DEF a
<1>5. /\ IsCall(a) /\ a.op = k.op /\ a.at = "answered" /\ a.answer.messages = <<>>
  BY <1>4 DEF IsAnswered, answer
<1>6. SendInv(a, stored) /\ ReceiveInv(a, stored)
  BY <1>5 DEF SendInv, ReceiveInv, k
<1>7. Carried(a) = {} /\ Carried(call[c]) = {} BY <1>5 DEF Carried
<1>8. /\ result' = [result EXCEPT ![c] = result[c]]
      /\ SuccessMeansStored(result[c], stored) /\ ReceivedIntact(result[c], stored)
  BY <1>0 DEF QueueTypeOK, QueueIInv, ResultsAreTrue
<1> QED BY <1>3, <1>5, <1>6, <1>7, <1>8, QuietCall

\* A receive or a peek at the broker.
LEMMA TakeIInv == ASSUME QueueConstants, QueueIInv, NEW c \in Callers, Take(c) PROVE QueueIInv'
<1>0. QueueTypeOK /\ StoredInv /\ Accounted /\ CarriedInv BY DEF QueueIInv
<1> DEFINE k == call[c]
           some == First(k.request.Max, On(k.request.Channel))
<1>1. /\ k.at = "broker" /\ k.op \in {"receive", "peek"} /\ UNCHANGED <<result, upstream, reported>>
      /\ \/ Answer(c, TRUE, <<>>, <<>>, 0) /\ UNCHANGED brokerVars
         \/ /\ \E numbers \in Ascending(some) :
                 Answer(c, FALSE, <<>>, [i \in DOMAIN numbers |-> stored[numbers[i]]], 0)
            /\ IF k.request.IsPeek THEN UNCHANGED brokerVars ELSE Leave(some, "taken")
  BY DEF Take, upstreamVars
<1>2. some \subseteq queue /\ some \subseteq 1..Len(stored) /\ Len(stored) \in Nat /\ DOMAIN stored = 1..Len(stored)
      /\ stored \in Seq(Protos)
  BY <1>0 DEF First, On, QueueTypeOK
<1>3. IsCall(k) /\ k.request.IsPeek = (k.op = "peek")
  BY <1>0, <1>1 DEF QueueTypeOK, Idle, QueueIInv, CallInv, ReceiveInv
<1> HIDE DEF some
<1>4. CASE Answer(c, TRUE, <<>>, <<>>, 0) /\ UNCHANGED brokerVars
  BY <1>1, <1>4, ErrorIInv DEF brokerVars
<1>5. ASSUME NEW s \in Ascending(some), Answer(c, FALSE, <<>>, [i \in DOMAIN s |-> stored[s[i]]], 0),
             IF k.request.IsPeek THEN UNCHANGED brokerVars ELSE Leave(some, "taken")
      PROVE  QueueIInv'
  <2> DEFINE messages == [i \in DOMAIN s |-> stored[s[i]]]
             answer == [error |-> FALSE, results |-> <<>>, messages |-> messages, affected |-> 0]
             a == Answered(k, answer)
  <2>1. call' = [call EXCEPT ![c] = a] BY <1>5 DEF Answer
  <2>2. Enumerates(s, some) BY <1>2, Enumerated, Zenon
  <2>3. /\ DOMAIN s = 1..Len(s) /\ Len(s) \in Nat /\ \A i \in 1..Len(s) : s[i] \in some
        /\ \A n \in some : \E i \in 1..Len(s) : s[i] = n
    BY <2>2 DEF Enumerates
  <2>4. /\ messages \in Seq(Protos) /\ DOMAIN messages = DOMAIN s
        /\ \A i \in DOMAIN s : messages[i] = stored[s[i]] /\ messages[i].Attributes = s[i]
    <3>1. \A i \in DOMAIN s : stored[s[i]] \in Protos /\ stored[s[i]].Attributes = s[i]
      <4>1. \A n \in 1..Len(stored) : stored[n] \in Protos /\ stored[n].Attributes = n
        BY <1>0, <1>2 DEF StoredInv
      <4>2. \A i \in DOMAIN s : s[i] \in 1..Len(stored) BY <1>2, <2>3
      <4> QED BY <4>1, <4>2
    <3> QED BY <2>3, <3>1
  <2> HIDE DEF messages
  <2>5. answer \in Answers BY <2>4 DEF Answers
  <2> HIDE DEF k, answer
  <2>6. IsAnswered(a, k, answer) BY <1>3, <2>5, AnsweredCall
  <2> HIDE DEF a
  <2>7. IsCall(a) /\ a.op = k.op /\ a.at = "answered" /\ a.answer.messages = messages /\ ~a.answer.error
    BY <2>6 DEF IsAnswered, answer
  <2>8. SendInv(a, stored) BY <1>1, <2>7 DEF SendInv, k
  <2>9. ReceiveInv(a, stored)
    <3>1. \A i \in DOMAIN messages : messages[i].Attributes \in DOMAIN stored
                                     /\ messages[i] = stored[messages[i].Attributes]
      BY <1>2, <2>3, <2>4
    <3> QED BY <2>7, <3>1 DEF ReceiveInv
  <2>10. Carried(call[c]) = {} BY <1>1 DEF Carried, k
  <2>11. /\ result' = [result EXCEPT ![c] = result[c]]
         /\ SuccessMeansStored(result[c], stored) /\ ReceivedIntact(result[c], stored)
    BY <1>0, <1>1 DEF QueueTypeOK, QueueIInv, ResultsAreTrue
  <2>12. CASE k.op = "peek"
    <3>1. UNCHANGED <<stored, queue, fate>> BY <1>3, <1>5, <2>12 DEF brokerVars, k
    <3>2. Carried(a) = {} BY <2>7, <2>12 DEF Carried
    <3> QED BY <1>1, <2>1, <2>7, <2>8, <2>9, <2>10, <2>11, <3>1, <3>2, QuietCall
  <2>13. CASE k.op = "receive"
    <3>1. queue' = queue \ some /\ fate' = Marked(some, "taken") /\ UNCHANGED stored
      BY <1>3, <1>5, <2>13 DEF Leave, k
    <3>2. Carried(a) = {messages[i].Attributes : i \in DOMAIN messages}
      BY <2>7, <2>13 DEF Carried
    <3>3. Carried(a) = some
      <4>1. \A n : n \in Carried(a) <=> n \in some BY <2>3, <2>4, <3>2
      <4> QED BY <4>1
    <3>4. Accounted' /\ CarriedInv'
      <4> DEFINE how == "taken"
      <4>1. (how = "taken" /\ Carried(a) = some) \/ (how = "acked" /\ Carried(a) = {})
        BY <3>3
      <4>2. fate' = Marked(some, how) BY <3>1
      <4> HIDE DEF how
      <4> QED BY <1>0, <1>2, <2>1, <2>10, <3>1, <4>1, <4>2, AccountsLeft
    <3>5. fate' \in Seq(SUBSET {"taken", "received", "lost", "acked"}) /\ Len(fate') = Len(fate)
      BY <1>0, <3>1, MarkedFates
    <3> QED BY <1>1, <2>1, <2>7, <2>8, <2>9, <3>1, <3>4, <3>5, BrokerStep
  <2> QED BY <1>1, <2>12, <2>13 DEF k
<1> QED BY <1>1, <1>4, <1>5

\* An ack-all at the broker.
LEMMA PurgeIInv == ASSUME QueueConstants, QueueIInv, NEW c \in Callers, Purge(c) PROVE QueueIInv'
<1>0. QueueTypeOK /\ StoredInv /\ Accounted /\ CarriedInv BY DEF QueueIInv
<1> DEFINE k == call[c]
           all == On(k.request.Channel)
<1>1. /\ k.at = "broker" /\ k.op = "ackall" /\ UNCHANGED <<result, upstream, reported>>
      /\ \/ Answer(c, TRUE, <<>>, <<>>, 0) /\ UNCHANGED brokerVars
         \/ Answer(c, FALSE, <<>>, <<>>, Cardinality(all)) /\ Leave(all, "acked")
  BY DEF Purge, upstreamVars
<1>2. all \subseteq queue /\ all \subseteq 1..Len(stored) /\ Len(stored) \in Nat
  BY <1>0 DEF On, QueueTypeOK
<1>3. IsCall(k) BY <1>0, <1>1 DEF QueueTypeOK, Idle
<1> HIDE DEF all
<1>4. CASE Answer(c, TRUE, <<>>, <<>>, 0) /\ UNCHANGED brokerVars
  BY <1>1, <1>4, ErrorIInv DEF brokerVars
<1>5. CASE Answer(c, FALSE, <<>>, <<>>, Cardinality(all)) /\ Leave(all, "acked")
  <2> DEFINE answer == [error |-> FALSE, results |-> <<>>, messages |-> <<>>, affected |-> Cardinality(all)]
             a == Answered(k, answer)
  <2>1. call' = [call EXCEPT ![c] = a] BY <1>5 DEF Answer
  <2>2. Cardinality(all) \in Nat
    <3>1. IsFiniteSet(1..Len(stored)) BY <1>2, FS_Interval
    <3>2. IsFiniteSet(all) BY <1>2, <3>1, FS_Subset
    <3> QED BY <3>2, FS_CardinalityType
  <2>3. answer \in Answers BY <2>2 DEF Answers
  <2> HIDE DEF k, answer
  <2>4. IsAnswered(a, k, answer) BY <1>3, <2>3, AnsweredCall
  <2> HIDE DEF a
  <2>5. IsCall(a) /\ a.op = "ackall" BY <1>1, <2>4 DEF IsAnswered
  <2>6. SendInv(a, stored) /\ ReceiveInv(a, stored) /\ Carried(a) = {}
    BY <2>5 DEF SendInv, ReceiveInv, Carried
  <2>7. Carried(call[c]) = {} BY <1>1 DEF Carried, k
  <2>8. queue' = queue \ all /\ fate' = Marked(all, "acked") /\ UNCHANGED stored
    BY <1>5 DEF Leave
  <2>9. Accounted' /\ CarriedInv' BY <1>0, <1>2, <2>1, <2>6, <2>7, <2>8, AccountsLeft
  <2>10. fate' \in Seq(SUBSET {"taken", "received", "lost", "acked"}) /\ Len(fate') = Len(fate)
    BY <1>0, <2>8, MarkedFates
  <2> QED BY <1>1, <2>1, <2>5, <2>6, <2>8, <2>9, <2>10, BrokerStep
<1> QED BY <1>1, <1>4, <1>5

\* A call ends; what it held is marked.
LEMMA ReturnIInv ==
  ASSUME QueueIInv, NEW c \in Callers, NEW op, NEW asked, NEW code, NEW value,
         Return(c, op, asked, code, value), UNCHANGED <<upstream, reported, stored, queue>>,
         NEW how \in {"received", "lost"}, fate' = Marked(Carried(call[c]), how),
         LET r == [op |-> op, asked |-> asked, code |-> code, value |-> value]
         IN  SuccessMeansStored(r, stored) /\ ReceivedIntact(r, stored)
  PROVE  QueueIInv'
<1>0. QueueTypeOK /\ StoredInv /\ Accounted /\ CarriedInv BY DEF QueueIInv
<1> DEFINE r == [op |-> op, asked |-> asked, code |-> code, value |-> value]
<1>1. call' = [call EXCEPT ![c] = Idle] /\ result' = [result EXCEPT ![c] = r] BY DEF Return
<1>2. stored' = stored /\ SuccessMeansStored(r, stored') /\ ReceivedIntact(r, stored') OBVIOUS
<1> HIDE DEF r
<1>3. Accounted' /\ CarriedInv' BY <1>0, <1>1, CarriedFacts, AccountsReturned
<1>4. fate' \in Seq(SUBSET {"taken", "received", "lost", "acked"}) /\ Len(fate') = Len(fate)
  BY <1>0, MarkedFates
<1>5. StoredInv' BY <1>0 DEF StoredInv
<1>6. /\ stored' \in Seq(Protos) /\ Grows(stored, stored')
      /\ queue' \subseteq DOMAIN stored' /\ Len(fate') = Len(stored')
  BY <1>0, <1>4 DEF QueueTypeOK, Grows
<1>7. SendInv(Idle, stored') /\ ReceiveInv(Idle, stored') BY IdleFacts
<1> QED BY <1>1, <1>2, <1>3, <1>4, <1>5, <1>6, <1>7, CallerStep

\* Marking nothing changes nothing.
LEMMA MarkedNone == ASSUME QueueTypeOK, NEW how PROVE Marked({}, how) = fate
<1>1. fate \in Seq(SUBSET {"taken", "received", "lost", "acked"}) BY DEF QueueTypeOK
<1>2. Marked({}, how) = [n \in DOMAIN fate |-> fate[n]] BY DEF Marked
<1>3. fate = [n \in DOMAIN fate |-> fate[n]]
  <2> DEFINE F == SUBSET {"taken", "received", "lost", "acked"}
  <2>1. fate \in Seq(F) BY <1>1
  <2> HIDE DEF F
  <2> QED BY <2>1
<1> QED BY <1>2, <1>3

\* The results of a send or of a batch.
LEMMA SentIsTrue ==
  ASSUME NEW k, IsCall(k), k.at = "answered", k.op \in {"send", "batch"}, NEW s, SendInv(k, s)
  PROVE  LET o == Outcome(k.op, k.answer)
             r == [op |-> k.op, asked |-> IF k.answer.error THEN <<>> ELSE k.asked,
                   code |-> o.code, value |-> o.value]
         IN  SuccessMeansStored(r, s) /\ ReceivedIntact(r, s)
<1> DEFINE results == k.answer.results
           value == [i \in DOMAIN results |-> QueueSendResultFromProto(results[i])]
           o == Outcome(k.op, k.answer)
           r == [op |-> k.op, asked |-> k.asked, code |-> o.code, value |-> value]
<1>1. /\ k.asked \in Seq(HeldMessages) /\ (k.op = "send" => Len(k.asked) = 1) /\ ~k.answer.error
      /\ Len(results) = Len(k.asked)
      /\ \A i \in DOMAIN k.asked : /\ results[i].MessageID = k.asked[i].id
                                   /\ ~results[i].IsError => IsStored(k.asked[i], s)
  BY DEF SendInv
<1>2. results \in Seq([MessageID : Words, IsError : BOOLEAN, Error : {NoText}])
  BY DEF IsCall, Answers
<1>3. DOMAIN k.asked = 1..Len(k.asked) /\ Len(k.asked) \in Nat /\ DOMAIN results = 1..Len(k.asked)
  BY <1>1, <1>2
<1>4. /\ o.value = value /\ BatchResult(k.answer).value = value
      /\ k.op = "send" => o.code = SendResult(value[1])
  BY DEF Outcome, BatchResult
<1>5. /\ DOMAIN value = 1..Len(k.asked)
      /\ \A i \in DOMAIN k.asked : value[i].messageId = results[i].MessageID /\ value[i].isError = results[i].IsError
  BY <1>3 DEF QueueSendResultFromProto
<1>6. Len(value) = Len(k.asked) BY <1>3, <1>5
<1> HIDE DEF value, results, o
<1>7. ASSUME k.op = "send", o.code = "kOk", NEW i \in DOMAIN k.asked PROVE ~value[i].isError
  <2>1. i = 1 BY <1>1, <1>3, <1>7
  <2> QED BY <1>4, <1>7, <2>1 DEF SendResult
<1>8. SuccessMeansStored(r, s)
  BY <1>1, <1>5, <1>6, <1>7 DEF SuccessMeansStored
<1>9. ReceivedIntact(r, s) BY DEF ReceivedIntact
<1> QED BY <1>1, <1>4, <1>8, <1>9 DEF o

\* The messages of a receive or of a peek.
LEMMA ReceivedIsTrue ==
  ASSUME NEW k, IsCall(k), k.at = "answered", k.op \in {"receive", "peek"}, ReceiveInv(k, stored),
         StoredInv
  PROVE  LET o == Outcome(k.op, k.answer)
             r == [op |-> k.op, asked |-> IF k.answer.error THEN <<>> ELSE k.asked,
                   code |-> o.code, value |-> o.value]
         IN  /\ SuccessMeansStored(r, stored) /\ ReceivedIntact(r, stored)
             /\ o.code # "kOk" => Carried(k) = {}
             /\ k.op = "receive" /\ o.code = "kOk" =>
                  {o.value[i].sequence : i \in DOMAIN o.value} = Carried(k)
<1> DEFINE messages == k.answer.messages
           o == Outcome(k.op, k.answer)
           r == [op |-> k.op, asked |-> IF k.answer.error THEN <<>> ELSE k.asked,
                 code |-> o.code, value |-> o.value]
<1>1. o = ReceiveResult(k.answer) BY DEF Outcome
<1>2. SuccessMeansStored(r, stored) BY DEF SuccessMeansStored
<1>3. CASE k.answer.error
  <2>1. o.code = "kFatal" BY <1>1, <1>3 DEF ReceiveResult
  <2>2. messages = <<>> BY <1>3 DEF ReceiveInv
  <2>3. Carried(k) = {} BY <2>2 DEF Carried
  <2>4. ReceivedIntact(r, stored) BY <2>1 DEF ReceivedIntact
  <2> QED BY <1>2, <2>1, <2>3, <2>4
<1>4. CASE ~k.answer.error
  <2> DEFINE value == [i \in DOMAIN messages |-> QueueMessageFromProto(messages[i], "other")]
  <2>1. o.code = "kOk" /\ o.value = value BY <1>1, <1>4 DEF ReceiveResult
  <2>2. \A i \in DOMAIN messages : /\ messages[i].Attributes \in DOMAIN stored
                                   /\ messages[i] = stored[messages[i].Attributes]
    BY DEF ReceiveInv
  <2> HIDE DEF messages, o
  <2>3. \A i \in DOMAIN messages : Whole(messages[i]) BY <2>2 DEF StoredInv
  <2>4. \A i \in DOMAIN messages :
          /\ value[i].sequence = messages[i].Attributes /\ value[i].message.id = messages[i].MessageID
          /\ value[i].message.body = messages[i].Body /\ value[i].message.channel = messages[i].Channel
    BY <2>3, Rebuilt
  <2>5. DOMAIN value = DOMAIN messages OBVIOUS
  <2> HIDE DEF value
  <2>6. ReceivedIntact(r, stored)
    BY <2>1, <2>2, <2>4, <2>5 DEF ReceivedIntact
  <2>7. ASSUME k.op = "receive" PROVE {o.value[i].sequence : i \in DOMAIN o.value} = Carried(k)
    <3>1. Carried(k) = {messages[i].Attributes : i \in DOMAIN messages}
      BY <2>7 DEF Carried, messages
    <3> QED BY <2>1, <2>4, <2>5, <3>1
  <2> QED BY <1>2, <2>1, <2>6, <2>7 DEF o
<1> QED BY <1>3, <1>4

\* The response arrives.
LEMMA ResponseIInv == ASSUME QueueConstants, QueueIInv, NEW c \in Callers, ReceiveResponse(c) PROVE QueueIInv'
<1>0. QueueTypeOK /\ StoredInv /\ Accounted /\ CarriedInv BY DEF QueueIInv
<1> DEFINE k == call[c]
           o == Outcome(k.op, k.answer)
           asked == IF k.answer.error THEN <<>> ELSE k.asked
           r == [op |-> k.op, asked |-> asked, code |-> o.code, value |-> o.value]
<1>1. /\ k.at = "answered" /\ Return(c, k.op, asked, o.code, o.value)
      /\ fate' = IF k.op = "receive" /\ o.code = "kOk"
                 THEN Marked({o.value[i].sequence : i \in DOMAIN o.value}, "received") ELSE fate
      /\ UNCHANGED <<upstream, reported, stored, queue>>
  BY DEF ReceiveResponse, upstreamVars
<1>2. IsCall(k) BY <1>0, <1>1 DEF QueueTypeOK, Idle
<1>3. SendInv(k, stored) /\ ReceiveInv(k, stored) BY DEF QueueIInv, CallInv
<1> HIDE DEF k
<1>4. SuccessMeansStored(r, stored) /\ ReceivedIntact(r, stored)
  <2>1. CASE k.op \in {"send", "batch"} BY <1>1, <1>2, <1>3, <2>1, SentIsTrue
  <2>2. CASE k.op \in {"receive", "peek"} BY <1>0, <1>1, <1>2, <1>3, <2>2, ReceivedIsTrue
  <2>3. CASE k.op = "ackall" BY <2>3 DEF SuccessMeansStored, ReceivedIntact
  <2> QED BY <1>2, <2>1, <2>2, <2>3 DEF IsCall
<1>5. fate' = Marked(Carried(k), "received")
  <2>1. CASE k.op = "receive" /\ o.code = "kOk"
    <3>1. {o.value[i].sequence : i \in DOMAIN o.value} = Carried(k)
      BY <1>0, <1>1, <1>2, <1>3, <2>1, ReceivedIsTrue
    <3> HIDE DEF o
    <3> QED BY <1>1, <2>1, <3>1
  <2>2. CASE ~(k.op = "receive" /\ o.code = "kOk")
    <3>1. Carried(k) = {}
      <4>1. CASE k.op = "receive" BY <1>0, <1>1, <1>2, <1>3, <2>2, <4>1, ReceivedIsTrue
      <4>2. CASE k.op # "receive" BY <4>2 DEF Carried
      <4> QED BY <4>1, <4>2
    <3> HIDE DEF o
    <3>2. fate' = fate BY <1>1, <2>2
    <3> QED BY <1>0, <3>1, <3>2, MarkedNone
  <2> QED BY <2>1, <2>2
<1> HIDE DEF o, asked
<1> QED BY <1>1, <1>4, <1>5, ReturnIInv DEF k

\* The response is lost.
LEMMA DeadlineIInv == ASSUME QueueConstants, QueueIInv, NEW c \in Callers, Deadline(c) PROVE QueueIInv'
<1> DEFINE code == MapGrpcCode("DEADLINE_EXCEEDED")
<1>1. /\ Return(c, "failed", <<>>, code, <<>>) /\ fate' = Marked(Carried(call[c]), "lost")
      /\ UNCHANGED <<upstream, reported, stored, queue>>
  BY DEF Deadline, Fail, upstreamVars
<1> HIDE DEF code
<1>2. LET r == [op |-> "failed", asked |-> <<>>, code |-> code, value |-> <<>>]
      IN  SuccessMeansStored(r, stored) /\ ReceivedIntact(r, stored)
  BY ToldNothing
<1> QED BY <1>1, <1>2, ReturnIInv

\* QueueUpstream.
LEMMA OpenIInv == ASSUME QueueConstants, QueueIInv, NEW c \in Callers, QueueUpstream(c) PROVE QueueIInv'
<1>1. PICK code : Return(c, "upstream", <<>>, code, <<>>) BY DEF QueueUpstream
<1>2. call[c] = Idle /\ UNCHANGED <<upstream, reported, stored, queue, fate>>
  BY DEF QueueUpstream, Begin, brokerVars
<1> QED BY <1>1, <1>2, RefusedIInv

\* A step of the stream that stores nothing.
LEMMA StreamStep ==
  ASSUME QueueIInv, UNCHANGED <<call, result, stored, queue, fate>>,
         upstream' \in Seq([RequestID : Words, Messages : Seq(Protos)]), UpstreamInv',
         \A r \in reported' : r \in reported \/ ReportIsTrue(r, stored)
  PROVE  QueueIInv'
<1>1. QueueTypeOK' BY DEF QueueIInv, QueueTypeOK
<1>2. StoredInv' /\ CallInv' /\ CarriedInv' /\ Accounted'
  <2>1. StoredInv /\ CallInv /\ CarriedInv /\ Accounted BY DEF QueueIInv
  <2>2. StoredInv' BY <2>1 DEF StoredInv
  <2>3. CallInv' BY <2>1 DEF CallInv
  <2>4. CarriedInv' BY <2>1 DEF CarriedInv
  <2>5. Accounted' BY <2>1 DEF Accounted
  <2> QED BY <2>2, <2>3, <2>4, <2>5
<1>3. ResultsAreTrue' BY DEF QueueIInv, ResultsAreTrue
<1> QED BY <1>1, <1>2, <1>3 DEF QueueIInv

\* QueueUpstreamHandle::Send.
LEMMA UpstreamSendIInv ==
  ASSUME QueueConstants, QueueIInv, NEW id \in RequestIds, NEW batch \in UpstreamBatches, UpstreamSend(id, batch)
  PROVE  QueueIInv'
<1> DEFINE q == QueueUpstreamRequestToProto(id, batch)
<1>1. upstream' = Append(upstream, q) /\ UNCHANGED <<call, result, stored, queue, fate, reported>>
  BY DEF UpstreamSend, brokerVars
<1>2. batch \in Seq(HeldMessages) /\ \A i \in DOMAIN batch : Proper(batch[i])
  <2>1. 1 \in Nat OBVIOUS
  <2> QED BY <2>1, BatchOf DEF UpstreamBatches
<1>3. /\ q.RequestID \in Words /\ q.Messages \in Seq(Protos)
      /\ \A j \in DOMAIN q.Messages : q.Messages[j].Channel # NoText => Whole(q.Messages[j])
  <2>1. q.Messages = [i \in DOMAIN batch |-> QueueMessageToProto(batch[i], ClientId)]
        /\ q.RequestID = FirstNonEmpty(id, "uuid")
    BY DEF QueueUpstreamRequestToProto
  <2>2. \A i \in DOMAIN batch : /\ QueueMessageToProto(batch[i], ClientId) \in Protos
                                /\ LET p == QueueMessageToProto(batch[i], ClientId)
                                   IN  p.Channel # NoText => Whole(p)
    BY <1>2, ProtoOfMessage, WholeMessage
  <2>3. q.RequestID \in Words BY <2>1 DEF FirstNonEmpty, Words
  <2> HIDE DEF q
  <2> QED BY <1>2, <2>1, <2>2, <2>3
<1>4. q \in [RequestID : Words, Messages : Seq(Protos)]
  BY <1>3 DEF QueueUpstreamRequestToProto
<1>5. upstream \in Seq([RequestID : Words, Messages : Seq(Protos)]) /\ UpstreamInv
  BY DEF QueueIInv, QueueTypeOK
<1> DEFINE R == [RequestID : Words, Messages : Seq(Protos)]
<1> HIDE DEF q, R
<1>6. upstream \in Seq(R) /\ q \in R BY <1>4, <1>5 DEF R
<1>7. upstream' \in Seq(R) BY <1>1, <1>6
<1>8. UpstreamInv'
  <2> SUFFICES ASSUME NEW i \in DOMAIN upstream', NEW j \in DOMAIN upstream'[i].Messages,
                      upstream'[i].Messages[j].Channel # NoText
               PROVE  Whole(upstream'[i].Messages[j])
    BY DEF UpstreamInv
  <2>1. upstream'[i] = q \/ (i \in DOMAIN upstream /\ upstream'[i] = upstream[i]) BY <1>1, <1>6
  <2> QED BY <1>3, <1>5, <2>1 DEF UpstreamInv
<1> QED BY <1>1, <1>7, <1>8, StreamStep DEF R

\* The requests that are left on the stream.
LEMMA UpstreamRest ==
  ASSUME QueueIInv, upstream # <<>>
  PROVE  LET q == Head(upstream)
             rest == Tail(upstream)
         IN  /\ q.Messages \in Seq(Protos)
             /\ \A j \in DOMAIN q.Messages : q.Messages[j].Channel # NoText => Whole(q.Messages[j])
             /\ rest \in Seq([RequestID : Words, Messages : Seq(Protos)])
             /\ \A i \in DOMAIN rest : \A j \in DOMAIN rest[i].Messages :
                  rest[i].Messages[j].Channel # NoText => Whole(rest[i].Messages[j])
<1> DEFINE R == [RequestID : Words, Messages : Seq(Protos)]
<1>1. upstream \in Seq(R) /\ UpstreamInv BY DEF QueueIInv, QueueTypeOK
<1>2. \A q \in R : q.Messages \in Seq(Protos) OBVIOUS
<1> HIDE DEF R
<1>3. /\ Head(upstream) = upstream[1] /\ 1 \in DOMAIN upstream /\ upstream[1] \in R
      /\ Tail(upstream) \in Seq(R)
      /\ \A i \in DOMAIN Tail(upstream) : i + 1 \in DOMAIN upstream /\ Tail(upstream)[i] = upstream[i + 1]
  BY <1>1
<1> QED BY <1>1, <1>2, <1>3 DEF UpstreamInv, R

\* The accepted messages of the batch are in s.
AcceptedIn(batch, ok, s) ==
  \A i \in DOMAIN batch : ok[i] => \E n \in DOMAIN s : s[n] = Numbered(batch[i], n)

\* What on_result is told of a batch that the broker has stored.
LEMMA ReportOfBatch ==
  ASSUME NEW q, q.Messages \in Seq(Protos), NEW ok, ok \in Storable(q.Messages), NEW s,
         AcceptedIn(q.Messages, ok, s)
  PROVE  ReportIsTrue(Report(q, FALSE, Results(q.Messages, ok)), s)
<1> DEFINE results == Results(q.Messages, ok)
           told == [i \in DOMAIN results |-> QueueSendResultFromProto(results[i])]
           r == [request |-> q, given |-> [ref |-> q.RequestID, isError |-> FALSE, results |-> told]]
<1>1. QueueUpstreamResponseFromProto([RefRequestID |-> q.RequestID, IsError |-> FALSE, Results |-> results])
        = [ref |-> q.RequestID, isError |-> FALSE, results |-> told]
  BY DEF QueueUpstreamResponseFromProto
<1>2. ok \in [DOMAIN q.Messages -> BOOLEAN] BY DEF Storable
<1>3. /\ DOMAIN told = DOMAIN q.Messages
      /\ \A i \in DOMAIN told : told[i].isError = ~ok[i] /\ told[i].messageId = q.Messages[i].MessageID
  BY <1>2 DEF Results, QueueSendResultFromProto
<1>4. DOMAIN q.Messages = 1..Len(q.Messages) /\ Len(q.Messages) \in Nat OBVIOUS
<1>5. Len(told) = Len(q.Messages) BY <1>3, <1>4
<1> HIDE DEF told, results
<1>6. ASSUME NEW i \in DOMAIN told, ~told[i].isError
      PROVE  \E n \in DOMAIN s : s[n].MessageID = told[i].messageId /\ s[n].Channel = q.Messages[i].Channel
  <2>1. ok[i] BY <1>2, <1>3, <1>6
  <2>2. PICK n \in DOMAIN s : s[n] = Numbered(q.Messages[i], n) BY <1>3, <2>1 DEF AcceptedIn
  <2>3. q.Messages[i] \in Protos BY <1>3
  <2>4. /\ Numbered(q.Messages[i], n).MessageID = q.Messages[i].MessageID
        /\ Numbered(q.Messages[i], n).Channel = q.Messages[i].Channel
    BY <2>3 DEF Numbered, Protos
  <2> QED BY <1>3, <2>2, <2>4
<1>7. ReportIsTrue(r, s) BY <1>5, <1>6 DEF ReportIsTrue
<1> QED BY <1>1, <1>7 DEF results, Report

\* The request is executed.
LEMMA UpstreamResultIInv == ASSUME QueueConstants, QueueIInv, UpstreamResult PROVE QueueIInv'
<1>0. QueueTypeOK /\ StoredInv /\ Accounted /\ CarriedInv /\ CallInv /\ ResultsAreTrue
  BY DEF QueueIInv
<1> DEFINE q == Head(upstream)
<1>1. /\ upstream # <<>> /\ upstream' = Tail(upstream) /\ UNCHANGED <<call, result>>
      /\ \/ reported' = reported \cup {Report(q, TRUE, <<>>)} /\ UNCHANGED brokerVars
         \/ \E ok \in Storable(q.Messages) :
              /\ Store(q.Messages, ok)
              /\ reported' = reported \cup {Report(q, FALSE, Results(q.Messages, ok))}
  BY DEF UpstreamResult
<1>2. /\ q.Messages \in Seq(Protos)
      /\ \A j \in DOMAIN q.Messages : q.Messages[j].Channel # NoText => Whole(q.Messages[j])
      /\ upstream' \in Seq([RequestID : Words, Messages : Seq(Protos)]) /\ UpstreamInv'
  BY <1>1, UpstreamRest DEF UpstreamInv
<1> HIDE DEF q
<1>3. CASE reported' = reported \cup {Report(q, TRUE, <<>>)} /\ UNCHANGED brokerVars
  <2>1. ReportIsTrue(Report(q, TRUE, <<>>), stored)
    BY DEF Report, ReportIsTrue, QueueUpstreamResponseFromProto
  <2> QED BY <1>1, <1>2, <1>3, <2>1, StreamStep DEF brokerVars
<1>4. ASSUME NEW ok \in Storable(q.Messages), Store(q.Messages, ok),
             reported' = reported \cup {Report(q, FALSE, Results(q.Messages, ok))}
      PROVE  QueueIInv'
  <2>1. /\ stored' \in Seq(Protos) /\ Grows(stored, stored') /\ StoredInv'
        /\ queue' \subseteq DOMAIN stored' /\ Len(fate') = Len(stored')
        /\ fate' \in Seq(SUBSET {"taken", "received", "lost", "acked"})
        /\ \A n \in DOMAIN stored : (n \in queue' <=> n \in queue) /\ fate'[n] = fate[n]
        /\ \A n \in DOMAIN stored' : n \in DOMAIN stored \/ (n \in queue' /\ fate'[n] = {})
        /\ \A i \in DOMAIN q.Messages : ok[i] =>
             \E n \in DOMAIN stored' : stored'[n] = Numbered(q.Messages[i], n)
    BY <1>0, <1>2, <1>4, StoreGrows
  <2>2. ReportIsTrue(Report(q, FALSE, Results(q.Messages, ok)), stored')
    <3>1. q.Messages \in Seq(Protos) /\ ok \in Storable(q.Messages) BY <1>2
    <3>2. AcceptedIn(q.Messages, ok, stored') BY <2>1 DEF AcceptedIn
    <3> QED BY <3>1, <3>2, ReportOfBatch, Zenon
  <2>3. stored \in Seq(Protos) BY <1>0 DEF QueueTypeOK
  <2>4. QueueTypeOK' BY <1>0, <1>1, <1>2, <2>1 DEF QueueTypeOK
  <2>5. CallInv' BY <1>0, <1>1, <2>1, <2>3, GrowthKeeps DEF CallInv
  <2>6. CarriedInv' BY <1>0, <1>1 DEF CarriedInv
  <2>7. Accounted'
    <3>1. \A n : (\E d \in Callers : n \in Carried(call'[d])) <=> (\E d \in Callers : n \in Carried(call[d]))
      BY <1>1
    <3>2. \A n : (\E d \in Callers : n \in Carried(call[d])) => n \in DOMAIN stored
      BY CarriedFacts
    <3>3. ASSUME NEW n \in DOMAIN stored'
          PROVE  LET onItsWay == \E d \in Callers : n \in Carried(call'[d])
                 IN  IF n \in queue' THEN fate'[n] = {} /\ ~onItsWay
                     ELSE IF onItsWay THEN fate'[n] = {"taken"}
                     ELSE fate'[n] \in {{"acked"}, {"taken", "received"}, {"taken", "lost"}}
      <4>1. CASE n \in DOMAIN stored BY <1>0, <2>1, <3>1, <4>1 DEF Accounted
      <4>2. CASE n \notin DOMAIN stored BY <2>1, <3>1, <3>2, <4>2
      <4> QED BY <4>1, <4>2
    <3> QED BY <3>3 DEF Accounted
  <2>8. ResultsAreTrue'
    BY <1>0, <1>1, <1>4, <2>1, <2>2, <2>3, GrowthKeeps DEF ResultsAreTrue
  <2> QED BY <1>2, <2>1, <2>4, <2>5, <2>6, <2>7, <2>8 DEF QueueIInv
<1> QED BY <1>1, <1>3, <1>4

\* Every step keeps the invariant.
LEMMA QueueSteps == ASSUME QueueConstants, QueueIInv, [QueueNext]_simpleVars PROVE QueueIInv'
<1>1. ASSUME NEW c \in Callers,
             Sends(c) \/ QueueUpstream(c) \/ Consumes(c) \/ ReceiveResponse(c) \/ Deadline(c)
               \/ Put(c) \/ Take(c) \/ Purge(c)
      PROVE  QueueIInv'
  BY <1>1, SendsIInv, OpenIInv, ConsumesIInv, ResponseIInv, DeadlineIInv, PutIInv, TakeIInv, PurgeIInv
<1>2. ASSUME UNCHANGED <<call, result, stored, queue, fate, reported>>, upstream' = upstream \/ upstream' = <<>>
      PROVE  QueueIInv'
  <2>1. upstream \in Seq([RequestID : Words, Messages : Seq(Protos)]) /\ UpstreamInv
    BY DEF QueueIInv, QueueTypeOK
  <2> DEFINE R == [RequestID : Words, Messages : Seq(Protos)]
  <2> HIDE DEF R
  <2>2. upstream' \in Seq(R) /\ UpstreamInv'
    <3>1. CASE upstream' = upstream BY <2>1, <3>1 DEF UpstreamInv, R
    <3>2. CASE upstream' = <<>>
      <4>1. upstream' \in Seq(R) BY <3>2
      <4>2. DOMAIN upstream' = {} BY <3>2
      <4> QED BY <4>1, <4>2 DEF UpstreamInv
    <3> QED BY <1>2, <3>1, <3>2
  <2> QED BY <1>2, <2>2, StreamStep DEF R
<1>3. CASE UpstreamBreaks \/ CloseClient \/ UNCHANGED simpleVars
  BY <1>2, <1>3 DEF UpstreamBreaks, CloseClient, simpleVars, brokerVars, upstreamVars
<1> QED BY <1>1, <1>3, UpstreamSendIInv, UpstreamResultIInv DEF QueueNext

\* The invariant holds in every behaviour of the callers, the stream and the broker.
THEOREM QueueInvariant == QueueSpec => []QueueIInv
<1>1. QueueInit => QueueIInv BY QueueBegins, SimpleQueueAssumption
<1>2. QueueIInv /\ [QueueNext]_simpleVars => QueueIInv' BY QueueSteps, SimpleQueueAssumption
<1> QED BY <1>1, <1>2, PTL DEF QueueSpec

\* Every message is in exactly one place, whatever responses are lost.
THEOREM AccountedAlways == QueueSpec => []Accounted
<1>1. QueueIInv => Accounted BY DEF QueueIInv
<1> QED BY <1>1, QueueInvariant, PTL

\* What callers and on_result are told is true.
THEOREM ResultsAreTrueAlways == QueueSpec => []ResultsAreTrue
<1>1. QueueIInv => ResultsAreTrue BY DEF QueueIInv
<1> QED BY <1>1, QueueInvariant, PTL

\* The call k outlives the wait it asked for.
Outlives(k) == k.op \in {"receive", "peek", "ackall"} => k.deadline > k.asked[1]

\* Every wait fits in 32 bits, and so do five seconds more.
WaitsFit == \A wait \in Waits : wait + 5 < Int32Half

\* Five seconds more than the wait, when that fits in 32 bits.
LEMMA LongerThanWait ==
  ASSUME QueueConstants, NEW wait \in Waits, wait + 5 < Int32Half
  PROVE  ReceiveDeadline(wait) > wait
<1>1. wait \in Int /\ Int32Half \in Nat \ {0} BY DEF QueueConstants
<1>2. CASE wait > 0
  <2> DEFINE a == wait + 5 + Int32Half
             b == 2 * Int32Half
  <2>1. a \in Nat /\ b \in Nat \ {0} /\ a < b BY <1>1, <1>2
  <2>2. ReceiveDeadline(wait) = (a % b) - Int32Half
    BY <1>1, <1>2 DEF ReceiveDeadline, ToInt32
  <2>3. a - Int32Half = wait + 5 BY <1>1
  <2> HIDE DEF a, b
  <2>4. a % b = a BY <2>1
  <2> QED BY <1>1, <2>2, <2>3, <2>4
<1>3. CASE ~(wait > 0) BY <1>1, <1>3 DEF ReceiveDeadline
<1> QED BY <1>2, <1>3

\* A step that gives one caller a call which outlives its wait, or none.
LEMMA OutlivesStep ==
  ASSUME QueueTypeOK, DeadlineOutlivesWait, NEW c \in Callers, NEW k, call' = [call EXCEPT ![c] = k], Outlives(k)
  PROVE  DeadlineOutlivesWait'
<1>1. call'[c] = k /\ \A d \in Callers : d # c => call'[d] = call[d] BY CarriedStep
<1> QED BY <1>1 DEF DeadlineOutlivesWait, Outlives

\* The deadline is set when a call goes to the transport; a call that ends leaves none.
LEMMA CheckedOutlives ==
  ASSUME QueueTypeOK, DeadlineOutlivesWait, NEW c \in Callers, NEW op, NEW asked, NEW valid, NEW request,
         NEW deadline, Checked(c, op, asked, valid, request, deadline),
         op \in {"receive", "peek", "ackall"} => deadline > asked[1]
  PROVE  DeadlineOutlivesWait'
<1> DEFINE k == [op |-> op, asked |-> asked, request |-> request, deadline |-> deadline,
                 at |-> "broker", answer |-> <<>>]
<1>1. Outlives(k) /\ Outlives(Idle) BY DEF Outlives, Idle
<1>2. call' = [call EXCEPT ![c] = k] \/ call' = [call EXCEPT ![c] = Idle]
  BY DEF Checked, Invoke, Return
<1> HIDE DEF k
<1> QED BY <1>1, <1>2, OutlivesStep

\* The answer leaves the deadline and the wait as they are.
LEMMA AnsweredOutlives ==
  ASSUME QueueTypeOK, DeadlineOutlivesWait, NEW c \in Callers, NEW answer,
         call' = [call EXCEPT ![c] = Answered(@, answer)]
  PROVE  DeadlineOutlivesWait'
<1>1. Outlives(call[c]) BY DEF DeadlineOutlivesWait, Outlives
<1>2. Outlives(Answered(call[c], answer)) BY <1>1 DEF Outlives, Answered
<1> DEFINE k == Answered(call[c], answer)
<1>3. call' = [call EXCEPT ![c] = k] OBVIOUS
<1> HIDE DEF k
<1> QED BY <1>2, <1>3, OutlivesStep DEF k

\* The same for every step of a caller and of the broker for it.
LEMMA CallerOutlives ==
  ASSUME QueueConstants, WaitsFit, QueueTypeOK, DeadlineOutlivesWait,
         NEW c \in Callers,
         Sends(c) \/ QueueUpstream(c) \/ Consumes(c) \/ ReceiveResponse(c) \/ Deadline(c)
           \/ Put(c) \/ Take(c) \/ Purge(c)
  PROVE  DeadlineOutlivesWait'
<1>1. ASSUME NEW op, NEW asked, NEW code, NEW value, Return(c, op, asked, code, value)
      PROVE  DeadlineOutlivesWait'
  <2>1. call' = [call EXCEPT ![c] = Idle] /\ Outlives(Idle)
    BY <1>1 DEF Return, Outlives, Idle
  <2> QED BY <2>1, OutlivesStep
<1>2. ASSUME NEW m, SendQueueMessage(c, m) PROVE DeadlineOutlivesWait'
  BY <1>2, CheckedOutlives DEF SendQueueMessage
<1>3. CASE Sends(c)
  <2>1. CASE \E m \in Outgoing : SendQueueMessage(c, m) BY <1>2, <2>1
  <2>2. CASE \E batch \in Batches : SendQueueMessages(c, batch)
    BY <2>2, CheckedOutlives DEF SendQueueMessages, SendQueueMessagesBatch
  <2>3. ASSUME NEW channel \in Channels, NEW body \in Texts, SendQueueMessageSimple(c, channel, body, 0, 3)
        PROVE  DeadlineOutlivesWait'
    BY <1>1, <1>2, <2>3 DEF SendQueueMessageSimple
  <2> QED BY <1>3, <2>1, <2>2, <2>3 DEF Sends
<1>4. CASE Consumes(c)
  <2>1. PICK channel \in Channels, wait \in Waits :
          \/ \E count \in Counts, peek \in BOOLEAN : ReceiveQueueMessages(c, channel, count, wait, peek)
          \/ AckAllQueueMessages(c, channel, wait)
    BY <1>4 DEF Consumes
  <2>2. ReceiveDeadline(wait) > wait /\ <<wait>>[1] = wait BY LongerThanWait DEF WaitsFit
  <2> QED BY <2>1, <2>2, CheckedOutlives DEF ReceiveQueueMessages, AckAllQueueMessages
<1>5. CASE ReceiveResponse(c) \/ Deadline(c) \/ QueueUpstream(c)
  BY <1>1, <1>5 DEF ReceiveResponse, Deadline, Fail, QueueUpstream
<1>6. CASE Put(c) \/ Take(c) \/ Purge(c)
  <2>1. \E answer : call' = [call EXCEPT ![c] = Answered(@, answer)]
    BY <1>6 DEF Put, Take, Purge, Answer
  <2> QED BY <2>1, AnsweredOutlives
<1> QED BY <1>3, <1>4, <1>5, <1>6

\* The RPC of a receive or an ack-all outlives the wait, when every wait and the five
\* seconds more fit in 32 bits.
THEOREM DeadlineOutlivesWaitAlways ==
  ASSUME WaitsFit
  PROVE  QueueSpec => []DeadlineOutlivesWait
<1>1. QueueInit => DeadlineOutlivesWait
  BY DEF QueueInit, DeadlineOutlivesWait, Idle
<1>2. QueueIInv /\ DeadlineOutlivesWait /\ [QueueNext]_simpleVars => DeadlineOutlivesWait'
  <2> SUFFICES ASSUME QueueTypeOK, DeadlineOutlivesWait, [QueueNext]_simpleVars PROVE DeadlineOutlivesWait'
    BY DEF QueueIInv
  <2>1. ASSUME NEW c \in Callers,
               Sends(c) \/ QueueUpstream(c) \/ Consumes(c) \/ ReceiveResponse(c) \/ Deadline(c)
                 \/ Put(c) \/ Take(c) \/ Purge(c)
        PROVE  DeadlineOutlivesWait'
    BY <2>1, CallerOutlives, SimpleQueueAssumption
  <2>2. CASE UNCHANGED call BY <2>2 DEF DeadlineOutlivesWait
  <2> QED
    BY <2>1, <2>2 DEF QueueNext, UpstreamSend, UpstreamResult, UpstreamBreaks, CloseClient, simpleVars
<1> QED BY <1>1, <1>2, QueueInvariant, PTL DEF QueueSpec

=============================================================================
