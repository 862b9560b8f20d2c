---------------------------- MODULE Subscription ----------------------------
(***************************************************************************)
(* The Subscription handle of kubemq-cpp and the reader thread behind it   *)
(* (Client::SubscribeToEvents; the events-store, command and query readers *)
(* have the same control flow).                                            *)
(*                                                                         *)
(* User threads call Cancel, Wait and the destructor while the reader      *)
(* thread reads the current gRPC stream, runs on_event and, when the       *)
(* stream breaks, sleeps and re-subscribes with a fresh ClientContext.     *)
(* Every step is one access to what the threads share: the flag done, the  *)
(* pointer ctx, the once flag of JoinReader, the stream, the transport.    *)
(*                                                                         *)
(* done is stored with release and loaded with acquire, ctx is a plain     *)
(* pointer. Nothing orders a thread's store of the one with its next load  *)
(* of the other, so a store becomes visible to the other threads in a step *)
(* of its own (FlushDone, FlushCtx), before or after that load.            *)
(*                                                                         *)
(* A stream and its ClientContext are one number: the n-th one opened.     *)
(***************************************************************************)
EXTENDS Naturals

CONSTANTS
  Users,          \* threads of the application
  MaxStreams,     \* bound: streams the server ever grants this subscription
  MaxBackoff,     \* bound: the cap of the back-off, in seconds (30 in the code)
  CallbackCalls   \* what on_event may call on its own subscription

Reader == "reader"
Threads == Users \cup {Reader}
Streams == 1..MaxStreams

ASSUME SubscriptionAssumption ==
  /\ Reader \notin Users
  /\ MaxStreams \in Nat \ {0}
  /\ MaxBackoff \in Nat \ {0}
  /\ CallbackCalls \subseteq {"Cancel", "Wait"}

VARIABLES
  handle,     \* "none", "live", "destroying" (in ~Subscription), "destroyed"
  done,       \* Impl::done, as the reader thread loads it
  unflushed,  \* users whose store of done the reader cannot see yet
  ctx,        \* Impl::ctx, as the users load it (0: none yet)
  once,       \* Impl::join_once: "unset", "running", "set"
  rpc,        \* control state of the reader thread
  reader,     \* the stream it reads, the one whose context it stored in ctx
  backoff,    \* its local back-off
  call,       \* where each thread is inside a call on the handle
  seen,       \* the ctx that a thread inside Cancel has loaded
  opened,     \* streams opened so far
  ended,      \* streams ended by the server or the network
  cancelled,  \* streams whose ClientContext got TryCancel
  closed,     \* Client::Close has run
  onError,    \* kinds of on_error invocation so far
  torn,       \* history: some call of TryCancel has returned
  overtaken   \* history: the reader took up a stream with a done it loaded too
              \* early for a Cancel that loaded its ctx too early

vars == <<handle, done, unflushed, ctx, once, rpc, reader, backoff, call, seen,
          opened, ended, cancelled, closed, onError, torn, overtaken>>

flagVars   == <<done, unflushed, overtaken>>
streamVars == <<opened, ended, cancelled, torn>>
readerVars == <<rpc, reader, backoff>>
callVars   == <<call, seen, once, handle>>

Min2(a, b) == IF a <= b THEN a ELSE b

InRead == rpc \in {"read", "callback"}

Init ==
  /\ handle = "none"
  /\ done = FALSE
  /\ unflushed = {}
  /\ ctx = 0
  /\ once = "unset"
  /\ rpc = "none"
  /\ reader = 0
  /\ backoff = 1
  /\ call = [t \in Threads |-> "none"]
  /\ seen = [t \in Threads |-> 0]
  /\ opened = 0
  /\ ended = {}
  /\ cancelled = {}
  /\ closed = FALSE
  /\ onError = {}
  /\ torn = FALSE
  /\ overtaken = FALSE

-----------------------------------------------------------------------------
(***************************************************************************)
(* The client                                                              *)
(***************************************************************************)

\* The successful path of SubscribeToEvents; its early returns (client or
\* transport closed, invalid channel, stream refused) leave no handle behind.
SubscribeToEvents ==
  /\ handle = "none"
  /\ ~closed
  /\ handle' = "live"
  /\ opened' = 1
  /\ ctx' = 1
  /\ reader' = 1
  /\ rpc' = "outer"
  /\ UNCHANGED <<once, backoff, call, seen, ended, cancelled, closed, onError,
                 torn>>
  /\ UNCHANGED flagVars

\* Client::Close: DrainAll walks active_contexts, which TrackContext alone
\* fills and nobody calls TrackContext, so no ClientContext is cancelled.
CloseClient ==
  /\ ~closed
  /\ closed' = TRUE
  /\ UNCHANGED <<ctx, onError>>
  /\ UNCHANGED <<flagVars, readerVars, callVars, streamVars>>

-----------------------------------------------------------------------------
(***************************************************************************)
(* Calls on the handle                                                     *)
(***************************************************************************)

\* A thread may enter a call: a user while nobody destroys the handle (the
\* lifetime rule of every C++ object), the reader from inside on_event.
MayCall(t, method) ==
  /\ call[t] = "none"
  /\ IF t = Reader THEN rpc = "callback" /\ method \in CallbackCalls
                   ELSE handle = "live"

\* done.store(true, release) by thread t: the reader thread sees its own store
\* at once, that of another thread when FlushDone lets it out.
StoreDone(t) ==
  /\ IF t = Reader
     THEN done' = TRUE /\ UNCHANGED unflushed
     ELSE unflushed' = unflushed \cup {t} /\ UNCHANGED done
  /\ UNCHANGED overtaken

\* The store of done by user t becomes visible to the reader thread.
FlushDone(t) ==
  /\ t \in unflushed
  /\ done' = TRUE
  /\ unflushed' = unflushed \ {t}
  /\ UNCHANGED <<overtaken, ctx, closed, onError>>
  /\ UNCHANGED <<readerVars, callVars, streamVars>>

\* Impl::Cancel, first statement.
Cancel(t) ==
  /\ MayCall(t, "Cancel")
  /\ StoreDone(t)
  /\ call' = [call EXCEPT ![t] = "cancel"]
  /\ UNCHANGED <<seen, once, handle, ctx, closed, onError>>
  /\ UNCHANGED <<readerVars, streamVars>>

\* if (ctx) ctx-> : the plain load of a shared_ptr the reader also writes. A
\* user may still load the context before the one the reader stored.
LoadCtx(t) ==
  /\ call[t] = "cancel"
  /\ LET loaded == IF t = Reader THEN reader ELSE ctx
     IN  /\ seen' = [seen EXCEPT ![t] = loaded]
         /\ overtaken' = (overtaken \/ (InRead /\ loaded # reader))
  /\ call' = [call EXCEPT ![t] = "tryCancel"]
  /\ UNCHANGED <<once, handle, done, unflushed, ctx, closed, onError>>
  /\ UNCHANGED <<readerVars, streamVars>>

\* Variant: ~Subscription that only calls Cancel().
TryCancelThenFree(t) ==
  /\ call[t] = "tryCancel"
  /\ t \notin unflushed
  /\ cancelled' = cancelled \cup {seen[t]}
  /\ torn' = TRUE
  /\ call' = [call EXCEPT ![t] =
                IF t # Reader /\ handle = "destroying" THEN "free" ELSE "none"]
  /\ UNCHANGED <<seen, once, handle, ctx, closed, onError, opened, ended>>
  /\ UNCHANGED <<flagVars, readerVars>>

\* TryCancel on the context loaded; ~Subscription goes on to JoinReader. The
\* locks of gRPC order it: the store of done is visible by the time it returns.
TryCancel(t) ==
  /\ call[t] = "tryCancel"
  /\ t \notin unflushed
  /\ cancelled' = cancelled \cup {seen[t]}
  /\ torn' = TRUE
  /\ call' = [call EXCEPT ![t] =
                IF t # Reader /\ handle = "destroying" THEN "join" ELSE "none"]
  /\ UNCHANGED <<seen, once, handle, ctx, closed, onError, opened, ended>>
  /\ UNCHANGED <<flagVars, readerVars>>

\* Wait is JoinReader.
Wait(t) ==
  /\ MayCall(t, "Wait")
  /\ call' = [call EXCEPT ![t] = "join"]
  /\ UNCHANGED <<seen, once, handle, ctx, closed, onError>>
  /\ UNCHANGED <<flagVars, readerVars, streamVars>>

\* ~Subscription starts with Cancel; no other user is inside a call.
Destroy(t) ==
  /\ t \in Users
  /\ handle = "live"
  /\ \A u \in Users : call[u] = "none"
  /\ handle' = "destroying"
  /\ StoreDone(t)
  /\ call' = [call EXCEPT ![t] = "cancel"]
  /\ UNCHANGED <<seen, once, ctx, closed, onError>>
  /\ UNCHANGED <<readerVars, streamVars>>

\* Where a thread goes when JoinReader returns.
Joined == IF handle = "destroying" THEN "free" ELSE "none"

\* Variant: join() without call_once.
EnterUnguarded(t) ==
  /\ t \in Users
  /\ call[t] = "join"
  /\ once' = "running"
  /\ call' = [call EXCEPT ![t] = "joining"]
  /\ UNCHANGED <<seen, handle, ctx, closed, onError>>
  /\ UNCHANGED <<flagVars, readerVars, streamVars>>

\* JoinReader, entry of call_once: the first thread runs the join, later ones
\* find the flag set; a thread that finds it running stays blocked here.
EnterOnce(t) ==
  /\ t \in Users
  /\ call[t] = "join"
  /\ \/ /\ once = "unset"
        /\ once' = "running"
        /\ call' = [call EXCEPT ![t] = "joining"]
     \/ /\ once = "set"
        /\ once' = once
        /\ call' = [call EXCEPT ![t] = Joined]
  /\ UNCHANGED <<seen, handle, ctx, closed, onError>>
  /\ UNCHANGED <<flagVars, readerVars, streamVars>>

\* reader_thread.join() returns once the thread has ended.
JoinReader(t) ==
  /\ call[t] = "joining"
  /\ rpc = "exited"
  /\ once' = "set"
  /\ call' = [call EXCEPT ![t] = Joined]
  /\ UNCHANGED <<seen, handle, ctx, closed, onError>>
  /\ UNCHANGED <<flagVars, readerVars, streamVars>>

\* join() of the calling thread throws inside call_once: the flag stays unset
\* and the exception leaves on_event.
SelfJoin ==
  /\ call[Reader] = "join"
  /\ once = "unset"
  /\ call' = [call EXCEPT ![Reader] = "none"]
  /\ onError' = onError \cup {"callback"}
  /\ rpc' = "read"
  /\ UNCHANGED <<seen, once, handle, ctx, closed, reader, backoff>>
  /\ UNCHANGED <<flagVars, streamVars>>

\* The end of ~Subscription releases Impl.
Free(t) ==
  /\ call[t] = "free"
  /\ handle' = "destroyed"
  /\ call' = [call EXCEPT ![t] = "none"]
  /\ UNCHANGED <<seen, once, ctx, closed, onError>>
  /\ UNCHANGED <<flagVars, readerVars, streamVars>>

-----------------------------------------------------------------------------
(***************************************************************************)
(* The reader thread                                                       *)
(***************************************************************************)

\* The reader moves between control states and leaves everything else alone.
Goto(from, to) ==
  /\ rpc = from
  /\ rpc' = to
  /\ UNCHANGED <<done, unflushed, ctx, closed, call, seen, once, handle>>
  /\ UNCHANGED streamVars

\* Variant: for (;;) around the read loop.
OuterLoopForever ==
  /\ Goto("outer", "read")
  /\ UNCHANGED <<overtaken, reader, backoff, onError>>

\* while (!done): the load may come before the store of a Cancel is visible
\* that has already loaded another context.
OuterLoop ==
  /\ Goto("outer", IF done THEN "exit" ELSE "read")
  /\ overtaken' = (overtaken \/ (~done /\ \E t \in unflushed :
                      call[t] = "tryCancel" /\ seen[t] # reader))
  /\ UNCHANGED <<reader, backoff, onError>>

\* Read returns a message; a stream that broke or was cancelled may still hold
\* buffered ones.
ReadMessage ==
  /\ Goto("read", "callback")
  /\ UNCHANGED <<overtaken, reader, backoff, onError>>

\* Read returns false.
ReadFails ==
  /\ reader \in ended \cup cancelled
  /\ Goto("read", "finish")
  /\ UNCHANGED <<overtaken, reader, backoff, onError>>

\* SafeInvoke(on_event): it returns, or throws and on_error is told.
CallbackReturns ==
  /\ call[Reader] = "none"
  /\ Goto("callback", "read")
  /\ onError' \in {onError, onError \cup {"callback"}}
  /\ UNCHANGED <<overtaken, reader, backoff>>

\* Finish, then the check for an intentional close.
Finish ==
  /\ Goto("finish", IF done THEN "exit" ELSE "retry")
  /\ backoff' = 1
  /\ UNCHANGED <<overtaken, reader, onError>>

\* The condition of the re-subscribe loop.
RetryLoop ==
  /\ Goto("retry", IF done THEN "exit" ELSE "sleep")
  /\ UNCHANGED <<overtaken, reader, backoff, onError>>

\* sleep_for(backoff) is over; the check that follows it.
Wake ==
  /\ Goto("sleep", IF done THEN "exit" ELSE "subscribe")
  /\ UNCHANGED <<overtaken, reader, backoff, onError>>

\* transport->SubscribeToEvents fails: transport closed, no token, no reader.
ResubscribeFails ==
  /\ Goto("subscribe", "retry")
  /\ backoff' = Min2(2 * backoff, MaxBackoff)
  /\ UNCHANGED <<overtaken, reader, onError>>

\* transport->SubscribeToEvents opens a stream on a fresh ClientContext.
ResubscribeOk ==
  /\ rpc = "subscribe"
  /\ ~closed
  /\ opened < MaxStreams
  /\ opened' = opened + 1
  /\ rpc' = "publish"
  /\ UNCHANGED <<ctx, closed, reader, backoff, onError, ended, cancelled, torn>>
  /\ UNCHANGED <<flagVars, callVars>>

\* Variant: reading goes on at once after a re-subscription.
PublishAndRead ==
  /\ rpc = "publish"
  /\ ctx = reader
  /\ reader' = opened
  /\ rpc' = "read"
  /\ UNCHANGED <<ctx, closed, backoff, onError>>
  /\ UNCHANGED <<flagVars, callVars, streamVars>>

\* sub_impl->ctx = new_ctx, which frees the previous context; reader = result.
\* The store of a re-subscription is visible before that of the next one.
PublishCtx ==
  /\ rpc = "publish"
  /\ ctx = reader
  /\ reader' = opened
  /\ rpc' = "outer"
  /\ UNCHANGED <<ctx, closed, backoff, onError>>
  /\ UNCHANGED <<flagVars, callVars, streamVars>>

\* The context the reader stored becomes visible to the users.
FlushCtx ==
  /\ ctx # reader
  /\ ctx' = reader
  /\ UNCHANGED <<closed, onError>>
  /\ UNCHANGED <<flagVars, readerVars, callVars, streamVars>>

\* The end of the thread: on_error only for an unexpected termination.
ReaderExit ==
  /\ rpc = "exit"
  /\ rpc' = "exited"
  /\ done' = TRUE
  /\ onError' = IF done THEN onError ELSE onError \cup {"stream"}
  /\ UNCHANGED <<unflushed, overtaken, ctx, closed, reader, backoff>>
  /\ UNCHANGED <<callVars, streamVars>>

-----------------------------------------------------------------------------
\* The server or the network ends an open stream.
StreamBreaks(s) ==
  /\ s \in 1..opened
  /\ s \notin ended
  /\ ended' = ended \cup {s}
  /\ UNCHANGED <<ctx, closed, onError, opened, cancelled, torn>>
  /\ UNCHANGED <<flagVars, readerVars, callVars>>

ReaderStep ==
  \/ OuterLoop \/ ReadMessage \/ ReadFails \/ CallbackReturns \/ Finish
  \/ RetryLoop \/ Wake \/ ResubscribeFails \/ ResubscribeOk \/ PublishCtx
  \/ ReaderExit \/ SelfJoin

\* The steps a thread takes inside a call it has entered.
CallStep(t) ==
  LoadCtx(t) \/ TryCancel(t) \/ EnterOnce(t) \/ JoinReader(t) \/ Free(t)

Next ==
  \/ SubscribeToEvents
  \/ CloseClient
  \/ \E t \in Threads : Cancel(t) \/ Wait(t) \/ Destroy(t) \/ CallStep(t)
  \/ ReaderStep
  \/ FlushCtx
  \/ \E t \in Users : FlushDone(t)
  \/ \E s \in Streams : StreamBreaks(s)

Spec == Init /\ [][Next]_vars

(***************************************************************************)
(* Fairness: every thread is scheduled, a store becomes visible in the end *)
(* (the C++ standard asks for it), sleep_for ends, on_event returns        *)
(* however often it calls Cancel (strong fairness of CallbackReturns), and *)
(* a stream that stays cancelled or broken runs out of buffered messages   *)
(* (strong fairness of ReadFails). Nothing makes a stream break, a message *)
(* arrive or a user call a method.                                         *)
(***************************************************************************)
Fairness ==
  /\ \A t \in Threads : WF_vars(CallStep(t))
  /\ \A t \in Users : WF_vars(FlushDone(t))
  /\ WF_vars(FlushCtx)
  /\ WF_vars(ReaderStep /\ rpc # "read")
  /\ SF_vars(CallbackReturns)
  /\ SF_vars(ReadFails)

FairSpec == Spec /\ Fairness

-----------------------------------------------------------------------------
(***************************************************************************)
(* Properties                                                              *)
(***************************************************************************)

ReaderStates == {"none", "outer", "read", "callback", "finish", "retry",
                 "sleep", "subscribe", "publish", "exit", "exited"}
CallStates == {"none", "cancel", "tryCancel", "join", "joining", "free"}

\* Every variable has its type.
TypeOK ==
  /\ handle \in {"none", "live", "destroying", "destroyed"}
  /\ done \in BOOLEAN
  /\ unflushed \in SUBSET Users
  /\ ctx \in 0..MaxStreams
  /\ once \in {"unset", "running", "set"}
  /\ rpc \in ReaderStates
  /\ reader \in 0..MaxStreams
  /\ backoff \in 1..MaxBackoff
  /\ call \in [Threads -> CallStates]
  /\ seen \in [Threads -> 0..MaxStreams]
  /\ opened \in 0..MaxStreams
  /\ ended \in SUBSET Streams
  /\ cancelled \in SUBSET (0..MaxStreams)
  /\ closed \in BOOLEAN
  /\ onError \in SUBSET {"callback", "stream"}
  /\ torn \in BOOLEAN
  /\ overtaken \in BOOLEAN

\* Once any Cancel() has come back from TryCancel, a reader that is (or will
\* be, after on_event) blocked in Read is blocked on a cancelled stream: the
\* only re-subscription that escapes Cancel is the one for which both sides
\* load before the other's store is visible (the store of done and the load of
\* ctx in Impl::Cancel, the store of ctx and the load of done in the reader).
CancelReachesReader == torn /\ InRead => reader \in cancelled \/ overtaken

\* When ~Subscription has freed Impl, the reader thread, which keeps a raw
\* pointer to it, has ended and no thread is inside a call on the handle.
FreedAfterReader ==
  handle = "destroyed" => rpc = "exited" /\ \A t \in Threads : call[t] = "none"

\* reader_thread.join() is entered by one thread, at most once, and once it is
\* over on_event never runs again (JoinReader under call_once).
JoinedOnce ==
  /\ \A t, u \in Threads : call[t] = "joining" /\ call[u] = "joining" => t = u
  /\ \A t \in Threads : call[t] = "joining" => once = "running"
  /\ once = "set" => rpc = "exited"

\* The reader thread ends only because done was set by Cancel or ~Subscription:
\* a broken stream, a refused re-subscription or a throwing callback never
\* ends a subscription (the auto-recovery of the reader loops).
EndsOnlyWhenCancelled ==
  [][rpc' = "exited" /\ rpc # "exited" => done]_vars

\* on_event has called Wait on its own subscription: blocked for good if
\* another thread is joining the reader at that moment.
WaitsOnItself == call[Reader] = "join"

\* Cancel, and so ~Subscription, ends the reader thread wherever in its loops
\* it is, unless on_event waits for its own subscription or the stream was
\* taken up in that very race.
CancelEndsReader ==
  done \/ unflushed # {} ~> rpc = "exited" \/ WaitsOnItself \/ overtaken

\* What subscription.h says of Cancel and of ~Subscription: they tear down the
\* stream, so the reader ends. (Not true of the stores and loads of the code.)
CancelTearsDown == done ~> rpc = "exited" \/ WaitsOnItself

-----------------------------------------------------------------------------
(***************************************************************************)
(* The inductive invariant behind the safety properties                    *)
(***************************************************************************)

\* The reader exists from the moment the handle does; on_event is the only
\* place from which it calls its own handle.
ReaderInv ==
  /\ handle = "none" <=> rpc = "none"
  /\ call[Reader] # "none" => rpc = "callback"
  /\ call[Reader] \notin {"joining", "free"}
  /\ rpc \in {"exit", "exited"} => done

\* A thread inside Cancel has stored done, visibly or not, and TryCancel ends
\* with done visible; a reader that reads has loaded done unset after it stored
\* its context: what Cancel loaded is what it reads, save for the race.
CancelInv ==
  /\ torn => done
  /\ \A t \in unflushed : call[t] \in {"cancel", "tryCancel"}
  /\ \A t \in Threads :
       call[t] \in {"cancel", "tryCancel"} => done \/ t \in unflushed
  /\ \A t \in Threads :
       call[t] = "tryCancel" /\ InRead => seen[t] = reader \/ overtaken
  /\ torn /\ InRead => reader \in cancelled \/ overtaken

\* The once flag and the destructor.
JoinInv ==
  /\ once = "set" => rpc = "exited"
  /\ \A t \in Threads : call[t] = "joining" => once = "running"
  /\ \A t, u \in Threads : call[t] = "joining" /\ call[u] = "joining" => t = u
  /\ \A t \in Threads : call[t] = "free" => rpc = "exited" /\ handle = "destroying"
  /\ \A t \in Users : call[t] # "none" => handle \in {"live", "destroying"}
  /\ handle = "destroying" =>
       \A t, u \in Users : call[t] # "none" /\ call[u] # "none" => t = u
  /\ handle = "destroyed" => rpc = "exited"

\* The conjunction that every step preserves.
IInv == TypeOK /\ ReaderInv /\ CancelInv /\ JoinInv

-----------------------------------------------------------------------------
\* The phase of the abstract subscription.
Phase ==
  CASE handle = "destroyed" -> "freed"
    [] rpc = "exited" /\ handle # "destroyed" -> "stopped"
    [] rpc = "none" -> "none"
    [] OTHER -> "running"

Lifecycle == INSTANCE SubscriptionLifecycle
               WITH phase <- Phase, cancelled <- done,
                    delivering <- (rpc = "callback")

\* The handle and its reader thread implement the abstract subscription.
ImplementsLifecycle == Lifecycle!LifecycleSpec

=============================================================================
