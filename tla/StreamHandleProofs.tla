------------------------- MODULE StreamHandleProofs -------------------------
(***************************************************************************)
(* Theorems about StreamHandle, for any set of application threads and any *)
(* number of messages.                                                     *)
(***************************************************************************)
EXTENDS StreamHandle, TLAPS

\* The initial state satisfies the inductive invariant.
LEMMA InitIInv == Init => IInv
<1> SUFFICES ASSUME Init PROVE IInv
  OBVIOUS
<1> USE StreamHandleAssumption DEF Init, Threads
<1>1. TypeOK
  BY DEF TypeOK, ReaderStates, CallStates
<1>2. WriteInv
  BY DEF WriteInv, Writing
<1>3. LateInv
  BY DEF LateInv
<1>4. FlushInv
  BY DEF FlushInv
<1>5. CloserInv
  BY DEF CloserInv
<1> QED
  BY <1>1, <1>2, <1>3, <1>4, <1>5 DEF IInv

\* Every step keeps every variable in its type.
LEMMA NextTypeOK == TypeOK /\ [Next]_vars => TypeOK'
<1> SUFFICES ASSUME TypeOK, [Next]_vars PROVE TypeOK'
  OBVIOUS
<1> USE StreamHandleAssumption DEF TypeOK, Threads, ReaderStates,
      CallStates, counters
<1>1. ASSUME NEW t \in Threads,
             Send(t) \/ Close(t) \/ Wait(t) \/ SetOnResult(t) \/ Destroy(t)
      PROVE TypeOK'
  <2>1. CASE Send(t)
    BY <2>1 DEF Send, MayCall, Enter
  <2>2. CASE Close(t)
    BY <2>2 DEF Close, MayCall, Enter
  <2>3. CASE Wait(t)
    BY <2>3 DEF Wait, MayCall, Enter
  <2>4. CASE SetOnResult(t)
    BY <2>4 DEF SetOnResult, MayCall, Enter
  <2>5. CASE Destroy(t)
    BY <2>5 DEF Destroy
  <2> QED
    BY <1>1, <2>1, <2>2, <2>3, <2>4, <2>5
<1>2. ASSUME NEW t \in Threads, CallStep(t)
      PROVE TypeOK'
  <2>1. CASE SendLocked(t)
    BY <2>1 DEF SendLocked
  <2>2. CASE Write(t)
    BY <2>2 DEF Write
  <2>3. CASE CloseLocked(t)
    <3>1. CASE done
      BY <2>3, <3>1 DEF CloseLocked, Returned
    <3>2. CASE ~done
      <4>1. /\ done' = TRUE
            /\ writeMu' = t
            /\ call' = [call EXCEPT ![t] = "writesDone"]
            /\ UNCHANGED <<handle, callbackMu, once, rpc, stream, writesDone,
                           sent, acked, delivered, errored, late>>
            /\ closer' = t
        BY <2>3, <3>2 DEF CloseLocked
      <4> QED
        BY <4>1
    <3> QED
      BY <3>1, <3>2
  <2>4. CASE WritesDone(t)
    BY <2>4 DEF WritesDone
  <2>5. CASE EnterOnce(t)
    BY <2>5 DEF EnterOnce, Returned
  <2>6. CASE JoinReader(t)
    BY <2>6 DEF JoinReader, Returned
  <2>7. CASE SetCallback(t)
    BY <2>7 DEF SetCallback
  <2>8. CASE Free(t)
    <3>1. CASE once = "set"
      BY <2>8, <3>1 DEF Free
    <3>2. CASE once # "set"
      BY <2>8, <3>2 DEF Free
    <3> QED
      BY <3>1, <3>2
  <2> QED
    BY <1>2, <2>1, <2>2, <2>3, <2>4, <2>5, <2>6, <2>7, <2>8 DEF CallStep
<1>3. CASE ReaderStep
  <2>1. CASE ReadResult
    BY <2>1 DEF ReadResult
  <2>2. CASE OnResult
    BY <2>2 DEF OnResult
  <2>3. CASE OnResultReturns
    BY <2>3 DEF OnResultReturns
  <2>4. CASE ResultDone
    BY <2>4 DEF ResultDone
  <2>5. CASE ReadFails
    BY <2>5 DEF ReadFails
  <2>6. CASE SetDone
    BY <2>6 DEF SetDone
  <2>7. CASE Finish
    BY <2>7 DEF Finish
  <2>8. CASE Report
    BY <2>8 DEF Report
  <2>9. CASE SelfJoin
    BY <2>9 DEF SelfJoin
  <2> QED
    BY <1>3, <2>1, <2>2, <2>3, <2>4, <2>5, <2>6, <2>7, <2>8, <2>9 DEF ReaderStep
<1>4. CASE BrokerAcks \/ BrokerFinishes \/ StreamBreaks
  <2>1. CASE BrokerAcks
    BY <2>1 DEF BrokerAcks
  <2>2. CASE BrokerFinishes
    BY <2>2 DEF BrokerFinishes
  <2>3. CASE StreamBreaks
    BY <2>3 DEF StreamBreaks
  <2> QED
    BY <1>4, <2>1, <2>2, <2>3
<1>5. CASE UNCHANGED vars
  BY <1>5 DEF vars
<1> QED
  BY <1>1, <1>2, <1>3, <1>4, <1>5 DEF Next

\* Every step preserves WriteInv.
LEMMA NextWriteInv == IInv /\ [Next]_vars => WriteInv'
<1> SUFFICES ASSUME IInv, [Next]_vars PROVE WriteInv'
  OBVIOUS
<1> USE StreamHandleAssumption DEF IInv, TypeOK, WriteInv,
      FlushInv, Writing, Threads, counters
<1>1. ASSUME NEW t \in Threads,
             Send(t) \/ Close(t) \/ Wait(t) \/ SetOnResult(t) \/ Destroy(t)
      PROVE WriteInv'
  <2>1. CASE Send(t)
    BY <2>1 DEF Send, MayCall, Enter
  <2>2. CASE Close(t)
    BY <2>2 DEF Close, MayCall, Enter
  <2>3. CASE Wait(t)
    BY <2>3 DEF Wait, MayCall, Enter
  <2>4. CASE SetOnResult(t)
    BY <2>4 DEF SetOnResult, MayCall, Enter
  <2>5. CASE Destroy(t)
    BY <2>5 DEF Destroy
  <2> QED
    BY <1>1, <2>1, <2>2, <2>3, <2>4, <2>5
<1>2. ASSUME NEW t \in Threads, CallStep(t)
      PROVE WriteInv'
  <2>1. CASE SendLocked(t)
    BY <2>1 DEF SendLocked
  <2>2. CASE Write(t)
    BY <2>2 DEF Write
  <2>3. CASE CloseLocked(t)
    <3>1. CASE done
      BY <2>3, <3>1 DEF CloseLocked, Returned
    <3>2. CASE ~done
      BY <2>3, <3>2 DEF CloseLocked, Returned
    <3> QED
      BY <3>1, <3>2
  <2>4. CASE WritesDone(t)
    BY <2>4 DEF WritesDone
  <2>5. CASE EnterOnce(t)
    BY <2>5 DEF EnterOnce, Returned
  <2>6. CASE JoinReader(t)
    BY <2>6 DEF JoinReader, Returned
  <2>7. CASE SetCallback(t)
    BY <2>7 DEF SetCallback
  <2>8. CASE Free(t)
    <3>1. CASE once = "set"
      BY <2>8, <3>1 DEF Free
    <3>2. CASE once # "set"
      BY <2>8, <3>2 DEF Free
    <3> QED
      BY <3>1, <3>2
  <2> QED
    BY <1>2, <2>1, <2>2, <2>3, <2>4, <2>5, <2>6, <2>7, <2>8 DEF CallStep
<1>3. CASE ReaderStep
  <2>1. CASE ReadResult
    BY <2>1 DEF ReadResult
  <2>2. CASE OnResult
    BY <2>2 DEF OnResult
  <2>3. CASE OnResultReturns
    BY <2>3 DEF OnResultReturns
  <2>4. CASE ResultDone
    BY <2>4 DEF ResultDone
  <2>5. CASE ReadFails
    BY <2>5 DEF ReadFails
  <2>6. CASE SetDone
    BY <2>6 DEF SetDone
  <2>7. CASE Finish
    BY <2>7 DEF Finish
  <2>8. CASE Report
    BY <2>8 DEF Report
  <2>9. CASE SelfJoin
    BY <2>9 DEF SelfJoin
  <2> QED
    BY <1>3, <2>1, <2>2, <2>3, <2>4, <2>5, <2>6, <2>7, <2>8, <2>9 DEF ReaderStep
<1>4. CASE BrokerAcks \/ BrokerFinishes \/ StreamBreaks
  <2>1. CASE BrokerAcks
    BY <2>1 DEF BrokerAcks
  <2>2. CASE BrokerFinishes
    BY <2>2 DEF BrokerFinishes
  <2>3. CASE StreamBreaks
    BY <2>3 DEF StreamBreaks
  <2> QED
    BY <1>4, <2>1, <2>2, <2>3
<1>5. CASE UNCHANGED vars
  BY <1>5 DEF vars
<1> QED
  BY <1>1, <1>2, <1>3, <1>4, <1>5 DEF Next

\* Every step preserves LateInv.
LEMMA NextLateInv == IInv /\ [Next]_vars => LateInv'
<1> SUFFICES ASSUME IInv, [Next]_vars PROVE LateInv'
  OBVIOUS
<1> USE StreamHandleAssumption DEF IInv, TypeOK, WriteInv,
      LateInv, Writing, Threads, counters
<1>1. ASSUME NEW t \in Threads,
             Send(t) \/ Close(t) \/ Wait(t) \/ SetOnResult(t) \/ Destroy(t)
      PROVE LateInv'
  <2>1. CASE Send(t)
    BY <2>1 DEF Send, MayCall, Enter
  <2>2. CASE Close(t)
    BY <2>2 DEF Close, MayCall, Enter
  <2>3. CASE Wait(t)
    BY <2>3 DEF Wait, MayCall, Enter
  <2>4. CASE SetOnResult(t)
    BY <2>4 DEF SetOnResult, MayCall, Enter
  <2>5. CASE Destroy(t)
    BY <2>5 DEF Destroy
  <2> QED
    BY <1>1, <2>1, <2>2, <2>3, <2>4, <2>5
<1>2. ASSUME NEW t \in Threads, CallStep(t)
      PROVE LateInv'
  <2>1. CASE SendLocked(t)
    BY <2>1 DEF SendLocked
  <2>2. CASE Write(t)
    BY <2>2 DEF Write
  <2>3. CASE CloseLocked(t)
    <3>1. CASE done
      BY <2>3, <3>1 DEF CloseLocked, Returned
    <3>2. CASE ~done
      BY <2>3, <3>2 DEF CloseLocked, Returned
    <3> QED
      BY <3>1, <3>2
  <2>4. CASE WritesDone(t)
    BY <2>4 DEF WritesDone
  <2>5. CASE EnterOnce(t)
    BY <2>5 DEF EnterOnce, Returned
  <2>6. CASE JoinReader(t)
    BY <2>6 DEF JoinReader, Returned
  <2>7. CASE SetCallback(t)
    BY <2>7 DEF SetCallback
  <2>8. CASE Free(t)
    <3>1. CASE once = "set"
      BY <2>8, <3>1 DEF Free
    <3>2. CASE once # "set"
      BY <2>8, <3>2 DEF Free
    <3> QED
      BY <3>1, <3>2
  <2> QED
    BY <1>2, <2>1, <2>2, <2>3, <2>4, <2>5, <2>6, <2>7, <2>8 DEF CallStep
<1>3. CASE ReaderStep
  <2>1. CASE ReadResult
    BY <2>1 DEF ReadResult
  <2>2. CASE OnResult
    BY <2>2 DEF OnResult
  <2>3. CASE OnResultReturns
    BY <2>3 DEF OnResultReturns
  <2>4. CASE ResultDone
    BY <2>4 DEF ResultDone
  <2>5. CASE ReadFails
    BY <2>5 DEF ReadFails
  <2>6. CASE SetDone
    BY <2>6 DEF SetDone
  <2>7. CASE Finish
    BY <2>7 DEF Finish
  <2>8. CASE Report
    BY <2>8 DEF Report
  <2>9. CASE SelfJoin
    BY <2>9 DEF SelfJoin
  <2> QED
    BY <1>3, <2>1, <2>2, <2>3, <2>4, <2>5, <2>6, <2>7, <2>8, <2>9 DEF ReaderStep
<1>4. CASE BrokerAcks \/ BrokerFinishes \/ StreamBreaks
  <2>1. CASE BrokerAcks
    BY <2>1 DEF BrokerAcks
  <2>2. CASE BrokerFinishes
    BY <2>2 DEF BrokerFinishes
  <2>3. CASE StreamBreaks
    BY <2>3 DEF StreamBreaks
  <2> QED
    BY <1>4, <2>1, <2>2, <2>3
<1>5. CASE UNCHANGED vars
  BY <1>5 DEF vars
<1> QED
  BY <1>1, <1>2, <1>3, <1>4, <1>5 DEF Next

\* Every step preserves FlushInv.
LEMMA NextFlushInv == IInv /\ [Next]_vars => FlushInv'
<1> SUFFICES ASSUME IInv, [Next]_vars PROVE FlushInv'
  OBVIOUS
<1> USE StreamHandleAssumption DEF IInv, TypeOK, WriteInv,
      FlushInv, Writing, Threads, counters
<1>1. ASSUME NEW t \in Threads,
             Send(t) \/ Close(t) \/ Wait(t) \/ SetOnResult(t) \/ Destroy(t)
      PROVE FlushInv'
  <2>1. CASE Send(t)
    BY <2>1 DEF Send, MayCall, Enter
  <2>2. CASE Close(t)
    BY <2>2 DEF Close, MayCall, Enter
  <2>3. CASE Wait(t)
    BY <2>3 DEF Wait, MayCall, Enter
  <2>4. CASE SetOnResult(t)
    BY <2>4 DEF SetOnResult, MayCall, Enter
  <2>5. CASE Destroy(t)
    BY <2>5 DEF Destroy
  <2> QED
    BY <1>1, <2>1, <2>2, <2>3, <2>4, <2>5
<1>2. ASSUME NEW t \in Threads, CallStep(t)
      PROVE FlushInv'
  <2>1. CASE SendLocked(t)
    BY <2>1 DEF SendLocked
  <2>2. CASE Write(t)
    BY <2>2 DEF Write
  <2>3. CASE CloseLocked(t)
    <3>1. CASE done
      BY <2>3, <3>1 DEF CloseLocked, Returned
    <3>2. CASE ~done
      BY <2>3, <3>2 DEF CloseLocked, Returned
    <3> QED
      BY <3>1, <3>2
  <2>4. CASE WritesDone(t)
    BY <2>4 DEF WritesDone
  <2>5. CASE EnterOnce(t)
    BY <2>5 DEF EnterOnce, Returned
  <2>6. CASE JoinReader(t)
    BY <2>6 DEF JoinReader, Returned
  <2>7. CASE SetCallback(t)
    BY <2>7 DEF SetCallback
  <2>8. CASE Free(t)
    <3>1. CASE once = "set"
      BY <2>8, <3>1 DEF Free
    <3>2. CASE once # "set"
      BY <2>8, <3>2 DEF Free
    <3> QED
      BY <3>1, <3>2
  <2> QED
    BY <1>2, <2>1, <2>2, <2>3, <2>4, <2>5, <2>6, <2>7, <2>8 DEF CallStep
<1>3. CASE ReaderStep
  <2>1. CASE ReadResult
    BY <2>1 DEF ReadResult
  <2>2. CASE OnResult
    BY <2>2 DEF OnResult
  <2>3. CASE OnResultReturns
    BY <2>3 DEF OnResultReturns
  <2>4. CASE ResultDone
    BY <2>4 DEF ResultDone
  <2>5. CASE ReadFails
    BY <2>5 DEF ReadFails
  <2>6. CASE SetDone
    BY <2>6 DEF SetDone
  <2>7. CASE Finish
    BY <2>7 DEF Finish
  <2>8. CASE Report
    BY <2>8 DEF Report
  <2>9. CASE SelfJoin
    BY <2>9 DEF SelfJoin
  <2> QED
    BY <1>3, <2>1, <2>2, <2>3, <2>4, <2>5, <2>6, <2>7, <2>8, <2>9 DEF ReaderStep
<1>4. CASE BrokerAcks \/ BrokerFinishes \/ StreamBreaks
  <2>1. CASE BrokerAcks
    BY <2>1 DEF BrokerAcks
  <2>2. CASE BrokerFinishes
    BY <2>2 DEF BrokerFinishes
  <2>3. CASE StreamBreaks
    BY <2>3 DEF StreamBreaks
  <2> QED
    BY <1>4, <2>1, <2>2, <2>3
<1>5. CASE UNCHANGED vars
  BY <1>5 DEF vars
<1> QED
  BY <1>1, <1>2, <1>3, <1>4, <1>5 DEF Next

\* Every step preserves CloserInv.
LEMMA NextCloserInv == IInv /\ [Next]_vars => CloserInv'
<1> SUFFICES ASSUME IInv, [Next]_vars PROVE CloserInv'
  OBVIOUS
<1> USE StreamHandleAssumption DEF IInv, TypeOK, WriteInv,
      FlushInv, CloserInv, Writing, Threads, counters
<1>1. ASSUME NEW t \in Threads,
             Send(t) \/ Close(t) \/ Wait(t) \/ SetOnResult(t) \/ Destroy(t)
      PROVE CloserInv'
  <2>1. CASE Send(t)
    BY <2>1 DEF Send, MayCall, Enter
  <2>2. CASE Close(t)
    BY <2>2 DEF Close, MayCall, Enter
  <2>3. CASE Wait(t)
    BY <2>3 DEF Wait, MayCall, Enter
  <2>4. CASE SetOnResult(t)
    BY <2>4 DEF SetOnResult, MayCall, Enter
  <2>5. CASE Destroy(t)
    BY <2>5 DEF Destroy
  <2> QED
    BY <1>1, <2>1, <2>2, <2>3, <2>4, <2>5
<1>2. ASSUME NEW t \in Threads, CallStep(t)
      PROVE CloserInv'
  <2>1. CASE SendLocked(t)
    BY <2>1 DEF SendLocked
  <2>2. CASE Write(t)
    BY <2>2 DEF Write
  <2>3. CASE CloseLocked(t)
    <3>1. CASE done
      BY <2>3, <3>1 DEF CloseLocked, Returned
    <3>2. CASE ~done
      BY <2>3, <3>2 DEF CloseLocked, Returned
    <3> QED
      BY <3>1, <3>2
  <2>4. CASE WritesDone(t)
    BY <2>4 DEF WritesDone
  <2>5. CASE EnterOnce(t)
    BY <2>5 DEF EnterOnce, Returned
  <2>6. CASE JoinReader(t)
    BY <2>6 DEF JoinReader, Returned
  <2>7. CASE SetCallback(t)
    BY <2>7 DEF SetCallback
  <2>8. CASE Free(t)
    <3>1. CASE once = "set"
      BY <2>8, <3>1 DEF Free
    <3>2. CASE once # "set"
      <4>1. closer = Reader
        BY <2>8, <3>2 DEF Free
      <4> QED
        BY <2>8, <3>2, <4>1 DEF Free
    <3> QED
      BY <3>1, <3>2
  <2> QED
    BY <1>2, <2>1, <2>2, <2>3, <2>4, <2>5, <2>6, <2>7, <2>8 DEF CallStep
<1>3. CASE ReaderStep
  <2>1. CASE ReadResult
    BY <2>1 DEF ReadResult
  <2>2. CASE OnResult
    BY <2>2 DEF OnResult
  <2>3. CASE OnResultReturns
    BY <2>3 DEF OnResultReturns
  <2>4. CASE ResultDone
    BY <2>4 DEF ResultDone
  <2>5. CASE ReadFails
    BY <2>5 DEF ReadFails
  <2>6. CASE SetDone
    BY <2>6 DEF SetDone
  <2>7. CASE Finish
    BY <2>7 DEF Finish
  <2>8. CASE Report
    BY <2>8 DEF Report
  <2>9. CASE SelfJoin
    BY <2>9 DEF SelfJoin
  <2> QED
    BY <1>3, <2>1, <2>2, <2>3, <2>4, <2>5, <2>6, <2>7, <2>8, <2>9 DEF ReaderStep
<1>4. CASE BrokerAcks \/ BrokerFinishes \/ StreamBreaks
  <2>1. CASE BrokerAcks
    BY <2>1 DEF BrokerAcks
  <2>2. CASE BrokerFinishes
    BY <2>2 DEF BrokerFinishes
  <2>3. CASE StreamBreaks
    BY <2>3 DEF StreamBreaks
  <2> QED
    BY <1>4, <2>1, <2>2, <2>3
<1>5. CASE UNCHANGED vars
  BY <1>5 DEF vars
<1> QED
  BY <1>1, <1>2, <1>3, <1>4, <1>5 DEF Next

-----------------------------------------------------------------------------
\* The inductive invariant holds in every reachable state.
THEOREM Inductive == Spec => []IInv
<1>1. IInv /\ [Next]_vars => IInv'
  BY NextTypeOK, NextWriteInv, NextLateInv, NextFlushInv, NextCloserInv DEF IInv
<1> QED
  BY InitIInv, <1>1, PTL DEF Spec

\* Type correctness of the stream handle.
THEOREM TypeCorrect == Spec => []TypeOK
<1>1. IInv => TypeOK
  BY DEF IInv
<1> QED
  BY Inductive, <1>1, PTL

\* One Write at a time and none after WritesDone, whatever the threads do.
THEOREM WritesInOrder == Spec => []WriteDiscipline
<1>1. IInv => WriteDiscipline
  BY DEF IInv, WriteInv, Writing, WriteDiscipline
<1> QED
  BY Inductive, <1>1, PTL

\* No message is accepted after a Close of any thread has returned.
THEOREM ClosedIsClosed == Spec => []NoSendAfterClose
<1>1. IInv => NoSendAfterClose
  BY DEF IInv, LateInv, NoSendAfterClose
<1> QED
  BY Inductive, <1>1, PTL

\* A Close that the broker answered has delivered every result.
THEOREM Flushed == Spec => []CloseFlushes
<1>1. IInv => CloseFlushes
  BY DEF IInv, FlushInv, CloseFlushes
<1> QED
  BY Inductive, <1>1, PTL

\* Only a stream that was not closed by an application thread first can end
\* the process when its handle is destroyed.
THEOREM TerminatesOnly == Spec => []TerminatesOnlyIfReaderFirst
<1>1. IInv => TerminatesOnlyIfReaderFirst
  BY DEF IInv, CloserInv, TerminatesOnlyIfReaderFirst
<1> QED
  BY Inductive, <1>1, PTL
=============================================================================
