------------------------- MODULE SubscriptionProofs -------------------------
(***************************************************************************)
(* Theorems about Subscription, for any set of application threads and any *)
(* number of re-subscriptions.                                             *)
(***************************************************************************)
EXTENDS Subscription, TLAPS

\* The initial state satisfies the inductive invariant.
LEMMA InitIInv == Init => IInv
<1> SUFFICES ASSUME Init PROVE IInv
  OBVIOUS
<1> USE SubscriptionAssumption DEF Init
<1>1. TypeOK
  <2>1. 0 \in 0..MaxStreams /\ 1 \in 1..MaxBackoff
    OBVIOUS
  <2>2. /\ call \in [Threads -> CallStates]
        /\ seen \in [Threads -> 0..MaxStreams]
    BY <2>1 DEF CallStates
  <2> QED
    BY <2>1, <2>2 DEF TypeOK, ReaderStates
<1>2. ReaderInv
  BY DEF ReaderInv, Threads
<1>3. CancelInv
  BY DEF CancelInv, InRead, Threads
<1>4. JoinInv
  BY DEF JoinInv, Threads
<1> QED
  BY <1>1, <1>2, <1>3, <1>4 DEF IInv

\* Every step keeps every variable in its type.
LEMMA NextTypeOK == TypeOK /\ [Next]_vars => TypeOK'
<1> SUFFICES ASSUME TypeOK, [Next]_vars PROVE TypeOK'
  OBVIOUS
<1> USE SubscriptionAssumption DEF TypeOK, Threads, Streams, ReaderStates,
      CallStates, readerVars, streamVars, callVars, flagVars
<1>1. CASE SubscribeToEvents
  BY <1>1 DEF SubscribeToEvents
<1>2. CASE CloseClient
  BY <1>2 DEF CloseClient
<1>3. ASSUME NEW t \in Threads, Cancel(t) \/ Wait(t) \/ Destroy(t)
      PROVE TypeOK'
  <2>1. CASE Cancel(t)
    <3>1. done' \in BOOLEAN /\ unflushed' \in SUBSET Users /\ overtaken' \in BOOLEAN
      BY <2>1 DEF Cancel, StoreDone
    <3> QED
      BY <2>1, <3>1 DEF Cancel
  <2>2. CASE Wait(t)
    BY <2>2 DEF Wait
  <2>3. CASE Destroy(t)
    BY <2>3 DEF Destroy, StoreDone
  <2> QED
    BY <1>3, <2>1, <2>2, <2>3
<1>4. ASSUME NEW t \in Threads, CallStep(t)
      PROVE TypeOK'
  <2>1. CASE LoadCtx(t)
    BY <2>1 DEF LoadCtx
  <2>2. CASE TryCancel(t)
    <3>1. cancelled' \in SUBSET 0..MaxStreams /\ call' \in [Threads -> CallStates]
      BY <2>2 DEF TryCancel
    <3> QED
      BY <2>2, <3>1 DEF TryCancel
  <2>3. CASE EnterOnce(t)
    <3>1. once' \in {"unset", "running", "set"} /\ call' \in [Threads -> CallStates]
      BY <2>3 DEF EnterOnce, Joined
    <3> QED
      BY <2>3, <3>1 DEF EnterOnce
  <2>4. CASE JoinReader(t)
    BY <2>4 DEF JoinReader, Joined
  <2>5. CASE Free(t)
    BY <2>5 DEF Free
  <2> QED
    BY <1>4, <2>1, <2>2, <2>3, <2>4, <2>5 DEF CallStep
<1>5. CASE ReaderStep
  <2>1. CASE OuterLoop
    BY <2>1 DEF OuterLoop, Goto
  <2>2. CASE ReadMessage
    BY <2>2 DEF ReadMessage, Goto
  <2>3. CASE ReadFails
    BY <2>3 DEF ReadFails, Goto
  <2>4. CASE CallbackReturns
    BY <2>4 DEF CallbackReturns, Goto
  <2>5. CASE Finish
    BY <2>5 DEF Finish, Goto
  <2>6. CASE RetryLoop
    BY <2>6 DEF RetryLoop, Goto
  <2>7. CASE Wake
    BY <2>7 DEF Wake, Goto
  <2>8. CASE ResubscribeFails
    BY <2>8 DEF ResubscribeFails, Goto, Min2
  <2>9. CASE ResubscribeOk
    BY <2>9 DEF ResubscribeOk
  <2>10. CASE PublishCtx
    BY <2>10 DEF PublishCtx
  <2>11. CASE ReaderExit
    BY <2>11 DEF ReaderExit
  <2>12. CASE SelfJoin
    BY <2>12 DEF SelfJoin
  <2> QED
    BY <1>5, <2>1, <2>2, <2>3, <2>4, <2>5, <2>6, <2>7, <2>8, <2>9, <2>10, <2>11, <2>12 DEF ReaderStep
<1>6. ASSUME NEW s \in Streams, StreamBreaks(s)
      PROVE TypeOK'
  BY <1>6 DEF StreamBreaks
<1>7. CASE UNCHANGED vars
  BY <1>7 DEF vars
<1>8. ASSUME NEW t \in Users, FlushDone(t)
      PROVE TypeOK'
  BY <1>8 DEF FlushDone
<1>9. CASE FlushCtx
  BY <1>9 DEF FlushCtx
<1> QED
  BY <1>1, <1>2, <1>3, <1>4, <1>5, <1>6, <1>7, <1>8, <1>9 DEF Next

\* Every step preserves ReaderInv.
LEMMA NextReaderInv == IInv /\ [Next]_vars => ReaderInv'
<1> SUFFICES ASSUME IInv, [Next]_vars PROVE ReaderInv'
  OBVIOUS
<1> USE SubscriptionAssumption DEF IInv, TypeOK, ReaderInv, CancelInv,
      Threads, readerVars, streamVars, callVars, flagVars
<1>1. CASE SubscribeToEvents
  BY <1>1 DEF SubscribeToEvents
<1>2. CASE CloseClient
  BY <1>2 DEF CloseClient
<1>3. ASSUME NEW t \in Threads, Cancel(t) \/ Wait(t) \/ Destroy(t) \/ CallStep(t)
      PROVE ReaderInv'
  <2>1. CASE Cancel(t)
    BY <2>1 DEF Cancel, StoreDone, MayCall
  <2>2. CASE Wait(t)
    BY <2>2 DEF Wait, MayCall
  <2>3. CASE Destroy(t)
    BY <2>3 DEF Destroy, StoreDone
  <2>4. CASE LoadCtx(t)
    BY <2>4 DEF LoadCtx
  <2>5. CASE TryCancel(t)
    BY <2>5 DEF TryCancel
  <2>6. CASE EnterOnce(t)
    BY <2>6 DEF EnterOnce, Joined
  <2>7. CASE JoinReader(t)
    BY <2>7 DEF JoinReader, Joined
  <2>8. CASE Free(t)
    BY <2>8 DEF Free, JoinInv
  <2> QED
    BY <1>3, <2>1, <2>2, <2>3, <2>4, <2>5, <2>6, <2>7, <2>8 DEF CallStep
<1>4. CASE ReaderStep
  <2>1. CASE OuterLoop
    BY <2>1 DEF OuterLoop, Goto
  <2>2. CASE ReadMessage
    BY <2>2 DEF ReadMessage, Goto
  <2>3. CASE ReadFails
    BY <2>3 DEF ReadFails, Goto
  <2>4. CASE CallbackReturns
    BY <2>4 DEF CallbackReturns, Goto
  <2>5. CASE Finish
    BY <2>5 DEF Finish, Goto
  <2>6. CASE RetryLoop
    BY <2>6 DEF RetryLoop, Goto
  <2>7. CASE Wake
    BY <2>7 DEF Wake, Goto
  <2>8. CASE ResubscribeFails
    BY <2>8 DEF ResubscribeFails, Goto
  <2>9. CASE ResubscribeOk
    BY <2>9 DEF ResubscribeOk
  <2>10. CASE PublishCtx
    BY <2>10 DEF PublishCtx
  <2>11. CASE ReaderExit
    BY <2>11 DEF ReaderExit
  <2>12. CASE SelfJoin
    BY <2>12 DEF SelfJoin
  <2> QED
    BY <1>4, <2>1, <2>2, <2>3, <2>4, <2>5, <2>6, <2>7, <2>8, <2>9, <2>10, <2>11, <2>12 DEF ReaderStep
<1>5. ASSUME NEW s \in Streams, StreamBreaks(s)
      PROVE ReaderInv'
  BY <1>5 DEF StreamBreaks
<1>6. CASE UNCHANGED vars
  BY <1>6 DEF vars
<1>7. ASSUME NEW t \in Users, FlushDone(t)
      PROVE ReaderInv'
  BY <1>7 DEF FlushDone
<1>8. CASE FlushCtx
  BY <1>8 DEF FlushCtx
<1> QED
  BY <1>1, <1>2, <1>3, <1>4, <1>5, <1>6, <1>7, <1>8 DEF Next

\* Every step preserves CancelInv: OuterLoop enters Read only while done is
\* unset, so a Cancel that has loaded another context is one whose store of
\* done is not visible yet, the race that overtaken records.
LEMMA NextCancelInv == IInv /\ [Next]_vars => CancelInv'
<1> SUFFICES ASSUME IInv, [Next]_vars PROVE CancelInv'
  OBVIOUS
<1> USE SubscriptionAssumption DEF IInv, TypeOK, ReaderInv, CancelInv,
      InRead, Threads, readerVars, streamVars, callVars, flagVars
<1>1. CASE SubscribeToEvents
  BY <1>1 DEF SubscribeToEvents
<1>2. CASE CloseClient
  BY <1>2 DEF CloseClient
<1>3. ASSUME NEW t \in Threads, Cancel(t) \/ Wait(t) \/ Destroy(t) \/ CallStep(t)
      PROVE CancelInv'
  <2>1. CASE Cancel(t)
    BY <2>1 DEF Cancel, StoreDone, MayCall
  <2>2. CASE Wait(t)
    BY <2>2 DEF Wait, MayCall
  <2>3. CASE Destroy(t)
    BY <2>3 DEF Destroy, StoreDone
  <2>4. CASE LoadCtx(t)
    BY <2>4 DEF LoadCtx
  <2>5. CASE TryCancel(t)
    BY <2>5 DEF TryCancel
  <2>6. CASE EnterOnce(t)
    BY <2>6 DEF EnterOnce, Joined
  <2>7. CASE JoinReader(t)
    BY <2>7 DEF JoinReader, Joined
  <2>8. CASE Free(t)
    BY <2>8 DEF Free
  <2> QED
    BY <1>3, <2>1, <2>2, <2>3, <2>4, <2>5, <2>6, <2>7, <2>8 DEF CallStep
<1>4. CASE ReaderStep
  <2>1. CASE OuterLoop
    BY <2>1 DEF OuterLoop, Goto
  <2>2. CASE ReadMessage
    BY <2>2 DEF ReadMessage, Goto
  <2>3. CASE ReadFails
    BY <2>3 DEF ReadFails, Goto
  <2>4. CASE CallbackReturns
    BY <2>4 DEF CallbackReturns, Goto
  <2>5. CASE Finish
    BY <2>5 DEF Finish, Goto
  <2>6. CASE RetryLoop
    BY <2>6 DEF RetryLoop, Goto
  <2>7. CASE Wake
    BY <2>7 DEF Wake, Goto
  <2>8. CASE ResubscribeFails
    BY <2>8 DEF ResubscribeFails, Goto
  <2>9. CASE ResubscribeOk
    BY <2>9 DEF ResubscribeOk
  <2>10. CASE PublishCtx
    BY <2>10 DEF PublishCtx
  <2>11. CASE ReaderExit
    BY <2>11 DEF ReaderExit
  <2>12. CASE SelfJoin
    BY <2>12 DEF SelfJoin
  <2> QED
    BY <1>4, <2>1, <2>2, <2>3, <2>4, <2>5, <2>6, <2>7, <2>8, <2>9, <2>10, <2>11, <2>12 DEF ReaderStep
<1>5. ASSUME NEW s \in Streams, StreamBreaks(s)
      PROVE CancelInv'
  BY <1>5 DEF StreamBreaks
<1>6. CASE UNCHANGED vars
  BY <1>6 DEF vars
<1>7. ASSUME NEW t \in Users, FlushDone(t)
      PROVE CancelInv'
  BY <1>7 DEF FlushDone
<1>8. CASE FlushCtx
  BY <1>8 DEF FlushCtx
<1> QED
  BY <1>1, <1>2, <1>3, <1>4, <1>5, <1>6, <1>7, <1>8 DEF Next

\* Every step preserves JoinInv.
LEMMA NextJoinInv == IInv /\ [Next]_vars => JoinInv'
<1> SUFFICES ASSUME IInv, [Next]_vars PROVE JoinInv'
  OBVIOUS
<1> USE SubscriptionAssumption DEF IInv, TypeOK, ReaderInv, JoinInv,
      Threads, readerVars, streamVars, callVars, flagVars
<1>1. CASE SubscribeToEvents
  BY <1>1 DEF SubscribeToEvents
<1>2. CASE CloseClient
  BY <1>2 DEF CloseClient
<1>3. ASSUME NEW t \in Threads, Cancel(t) \/ Wait(t) \/ Destroy(t) \/ CallStep(t)
      PROVE JoinInv'
  <2>1. CASE Cancel(t)
    BY <2>1 DEF Cancel, StoreDone, MayCall
  <2>2. CASE Wait(t)
    BY <2>2 DEF Wait, MayCall
  <2>3. CASE Destroy(t)
    BY <2>3 DEF Destroy, StoreDone
  <2>4. CASE LoadCtx(t)
    BY <2>4 DEF LoadCtx
  <2>5. CASE TryCancel(t)
    BY <2>5 DEF TryCancel
  <2>6. CASE EnterOnce(t)
    BY <2>6 DEF EnterOnce, Joined
  <2>7. CASE JoinReader(t)
    BY <2>7 DEF JoinReader, Joined
  <2>8. CASE Free(t)
    BY <2>8 DEF Free
  <2> QED
    BY <1>3, <2>1, <2>2, <2>3, <2>4, <2>5, <2>6, <2>7, <2>8 DEF CallStep
<1>4. CASE ReaderStep
  <2>1. CASE OuterLoop
    BY <2>1 DEF OuterLoop, Goto
  <2>2. CASE ReadMessage
    BY <2>2 DEF ReadMessage, Goto
  <2>3. CASE ReadFails
    BY <2>3 DEF ReadFails, Goto
  <2>4. CASE CallbackReturns
    BY <2>4 DEF CallbackReturns, Goto
  <2>5. CASE Finish
    BY <2>5 DEF Finish, Goto
  <2>6. CASE RetryLoop
    BY <2>6 DEF RetryLoop, Goto
  <2>7. CASE Wake
    BY <2>7 DEF Wake, Goto
  <2>8. CASE ResubscribeFails
    BY <2>8 DEF ResubscribeFails, Goto
  <2>9. CASE ResubscribeOk
    BY <2>9 DEF ResubscribeOk
  <2>10. CASE PublishCtx
    BY <2>10 DEF PublishCtx
  <2>11. CASE ReaderExit
    BY <2>11 DEF ReaderExit
  <2>12. CASE SelfJoin
    BY <2>12 DEF SelfJoin
  <2> QED
    BY <1>4, <2>1, <2>2, <2>3, <2>4, <2>5, <2>6, <2>7, <2>8, <2>9, <2>10, <2>11, <2>12 DEF ReaderStep
<1>5. ASSUME NEW s \in Streams, StreamBreaks(s)
      PROVE JoinInv'
  BY <1>5 DEF StreamBreaks
<1>6. CASE UNCHANGED vars
  BY <1>6 DEF vars
<1>7. ASSUME NEW t \in Users, FlushDone(t)
      PROVE JoinInv'
  BY <1>7 DEF FlushDone
<1>8. CASE FlushCtx
  BY <1>8 DEF FlushCtx
<1> QED
  BY <1>1, <1>2, <1>3, <1>4, <1>5, <1>6, <1>7, <1>8 DEF Next

-----------------------------------------------------------------------------
\* The inductive invariant holds in every reachable state.
THEOREM Inductive == Spec => []IInv
<1>1. IInv /\ [Next]_vars => IInv'
  BY NextTypeOK, NextReaderInv, NextCancelInv, NextJoinInv DEF IInv
<1> QED
  BY InitIInv, <1>1, PTL DEF Spec

\* Type correctness of the subscription handle and its reader thread.
THEOREM TypeCorrect == Spec => []TypeOK
<1>1. IInv => TypeOK
  BY DEF IInv
<1> QED
  BY Inductive, <1>1, PTL

\* Cancel reaches the stream the reader is blocked on, however many threads
\* cancel and however often the stream broke and was re-opened, unless both
\* sides loaded before the other's store was visible.
THEOREM CancelReaches == Spec => []CancelReachesReader
<1>1. IInv => CancelReachesReader
  BY DEF IInv, ReaderInv, CancelInv, CancelReachesReader, InRead
<1> QED
  BY Inductive, <1>1, PTL

\* ~Subscription releases Impl only after the reader thread has ended.
THEOREM SafeRelease == Spec => []FreedAfterReader
<1>1. IInv => FreedAfterReader
  BY SubscriptionAssumption
  DEF IInv, TypeOK, ReaderInv, JoinInv, FreedAfterReader, Threads, CallStates
<1> QED
  BY Inductive, <1>1, PTL

\* reader_thread is joined by one thread, once, and nothing runs after it.
THEOREM SingleJoin == Spec => []JoinedOnce
<1>1. IInv => JoinedOnce
  BY DEF IInv, JoinInv, JoinedOnce
<1> QED
  BY Inductive, <1>1, PTL

\* The reader thread ends only after a Cancel or ~Subscription.
THEOREM Recovery == Spec => EndsOnlyWhenCancelled
<1>1. IInv /\ [Next]_vars => [rpc' = "exited" /\ rpc # "exited" => done]_vars
  <2> SUFFICES ASSUME IInv, [Next]_vars, rpc' = "exited", rpc # "exited"
               PROVE done
    OBVIOUS
  <2>1. ReaderExit
    BY DEF Next, vars, SubscribeToEvents, CloseClient, Cancel, Wait, Destroy,
       CallStep, LoadCtx, TryCancel, EnterOnce, JoinReader, Free, ReaderStep,
       Goto, OuterLoop, ReadMessage, ReadFails, CallbackReturns, Finish,
       RetryLoop, Wake, ResubscribeFails, ResubscribeOk, PublishCtx, SelfJoin,
       StreamBreaks, FlushDone, FlushCtx, readerVars
  <2> QED
    BY <2>1 DEF ReaderExit, IInv, ReaderInv
<1> QED
  BY Inductive, <1>1, PTL DEF Spec, EndsOnlyWhenCancelled

\* Every step of the handle and its reader thread is a step of the abstract
\* subscription or leaves it unchanged.
LEMMA StepSimulation ==
  IInv /\ [Next]_vars => [Lifecycle!LifecycleNext]_(Lifecycle!lifecycleVars)
<1> SUFFICES ASSUME IInv, [Next]_vars
             PROVE [Lifecycle!LifecycleNext]_(Lifecycle!lifecycleVars)
  OBVIOUS
<1> USE SubscriptionAssumption DEF IInv, TypeOK, ReaderInv, CancelInv, JoinInv,
      Phase, Threads, CallStates, ReaderStates, readerVars, streamVars, callVars, flagVars,
      Lifecycle!LifecycleNext, Lifecycle!lifecycleVars
<1>1. CASE SubscribeToEvents
  BY <1>1 DEF SubscribeToEvents, Lifecycle!Start
<1>2. CASE CloseClient
  BY <1>2 DEF CloseClient
<1>3. ASSUME NEW t \in Threads, Cancel(t) \/ Wait(t) \/ Destroy(t) \/ CallStep(t)
      PROVE [Lifecycle!LifecycleNext]_(Lifecycle!lifecycleVars)
  <2>1. CASE Cancel(t)
    BY <2>1 DEF Cancel, StoreDone, MayCall, Lifecycle!RequestEnd
  <2>2. CASE Wait(t)
    BY <2>2 DEF Wait
  <2>3. CASE Destroy(t)
    BY <2>3 DEF Destroy, StoreDone, Lifecycle!RequestEnd
  <2>4. CASE LoadCtx(t)
    BY <2>4 DEF LoadCtx
  <2>5. CASE TryCancel(t)
    BY <2>5 DEF TryCancel
  <2>6. CASE EnterOnce(t)
    BY <2>6 DEF EnterOnce
  <2>7. CASE JoinReader(t)
    BY <2>7 DEF JoinReader
  <2>8. CASE Free(t)
    BY <2>8 DEF Free, Lifecycle!Release
  <2> QED
    BY <1>3, <2>1, <2>2, <2>3, <2>4, <2>5, <2>6, <2>7, <2>8 DEF CallStep
<1>4. CASE ReaderStep
  <2>1. CASE OuterLoop
    BY <2>1 DEF OuterLoop, Goto
  <2>2. CASE ReadMessage
    BY <2>2 DEF ReadMessage, Goto, Lifecycle!BeginDelivery
  <2>3. CASE ReadFails
    BY <2>3 DEF ReadFails, Goto
  <2>4. CASE CallbackReturns
    BY <2>4 DEF CallbackReturns, Goto, Lifecycle!EndDelivery
  <2>5. CASE Finish
    BY <2>5 DEF Finish, Goto
  <2>6. CASE RetryLoop
    BY <2>6 DEF RetryLoop, Goto
  <2>7. CASE Wake
    BY <2>7 DEF Wake, Goto
  <2>8. CASE ResubscribeFails
    BY <2>8 DEF ResubscribeFails, Goto
  <2>9. CASE ResubscribeOk
    BY <2>9 DEF ResubscribeOk
  <2>10. CASE PublishCtx
    BY <2>10 DEF PublishCtx
  <2>11. CASE ReaderExit
    BY <2>11 DEF ReaderExit, Lifecycle!Stop
  <2>12. CASE SelfJoin
    BY <2>12 DEF SelfJoin, Lifecycle!EndDelivery
  <2> QED
    BY <1>4, <2>1, <2>2, <2>3, <2>4, <2>5, <2>6, <2>7, <2>8, <2>9, <2>10, <2>11, <2>12 DEF ReaderStep
<1>5. ASSUME NEW s \in Streams, StreamBreaks(s)
      PROVE [Lifecycle!LifecycleNext]_(Lifecycle!lifecycleVars)
  BY <1>5 DEF StreamBreaks
<1>6. CASE UNCHANGED vars
  BY <1>6 DEF vars
<1>7. ASSUME NEW t \in Users, FlushDone(t)
      PROVE [Lifecycle!LifecycleNext]_(Lifecycle!lifecycleVars)
  BY <1>7 DEF FlushDone, Lifecycle!RequestEnd
<1>8. CASE FlushCtx
  BY <1>8 DEF FlushCtx
<1> QED
  BY <1>1, <1>2, <1>3, <1>4, <1>5, <1>6, <1>7, <1>8 DEF Next

\* The detailed subscription implements SubscriptionLifecycle.
THEOREM Refinement == Spec => ImplementsLifecycle
<1>1. Init => Lifecycle!LifecycleInit
  BY DEF Init, Lifecycle!LifecycleInit, Phase
<1> QED
  BY <1>1, Inductive, StepSimulation, PTL
  DEF Spec, ImplementsLifecycle, Lifecycle!LifecycleSpec

=============================================================================
