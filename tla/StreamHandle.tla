---------------------------- MODULE StreamHandle ----------------------------
(***************************************************************************)
(* A streaming publisher of kubemq-cpp: EventStoreStreamHandle (the event  *)
(* stream and the queue upstream handles have the same control flow).      *)
(*                                                                         *)
(* Application threads Send, Close, Wait and destroy; the reader thread    *)
(* reads the broker's results and runs on_result and on_error under        *)
(* callback_mu, and may itself call the handle from inside on_result.      *)
(* write_mu orders Send and Close; the reader sets done without it.        *)
(***************************************************************************)
EXTENDS Naturals, FiniteSets

CONSTANTS
  Users,         \* threads of the application
  MaxSends,      \* bound: messages written to the stream
  CallbackCalls  \* what on_result may call on its own handle

Reader == "reader"
Nobody == "nobody"
Threads == Users \cup {Reader}

ASSUME StreamHandleAssumption ==
  /\ Reader \notin Users
  /\ Nobody \notin Threads
  /\ MaxSends \in Nat
  /\ CallbackCalls \subseteq {"Send", "Close", "SetOnResult"}

VARIABLES
  handle,     \* "live", "destroying", "destroyed", "terminated" (std::terminate)
  done,       \* Impl::done
  writeMu,    \* holder of Impl::write_mu
  callbackMu, \* holder of Impl::callback_mu
  once,       \* Impl::join_once: "unset", "running", "set"
  rpc,        \* control state of the reader thread
  call,       \* where each thread is inside a call on the handle
  stream,     \* "open", "graceful" or "early" end by the broker, "error"
  writesDone, \* WritesDone was called
  sent,       \* messages written to the open stream
  acked,      \* results the broker has sent back
  delivered,  \* results handed to on_result
  errored,    \* on_error was told of the failed stream
  late,       \* history: a message was accepted after some Close returned
  closer      \* history: the thread that set done first

vars == <<handle, done, writeMu, callbackMu, once, rpc, call, stream,
          writesDone, sent, acked, delivered, errored, late, closer>>

counters == <<sent, acked, delivered, errored>>

\* A freshly opened handle: SendEventStoreStream has started the reader.
Init ==
  /\ handle = "live"
  /\ done = FALSE
  /\ writeMu = Nobody
  /\ callbackMu = Nobody
  /\ once = "unset"
  /\ rpc = "read"
  /\ call = [t \in Threads |-> "none"]
  /\ stream = "open"
  /\ writesDone = FALSE
  /\ sent = 0
  /\ acked = 0
  /\ delivered = 0
  /\ errored = FALSE
  /\ late = "noClose"
  /\ closer = Nobody

-----------------------------------------------------------------------------
(***************************************************************************)
(* Calls on the handle                                                     *)
(***************************************************************************)

\* A user calls while nobody destroys the handle; the reader from on_result.
MayCall(t, method) ==
  /\ call[t] = "none"
  /\ IF t = Reader THEN rpc = "onResult" /\ method \in CallbackCalls
                   ELSE handle = "live"

Enter(t, at) ==
  /\ call' = [call EXCEPT ![t] = at]
  /\ UNCHANGED <<handle, done, writeMu, callbackMu, once, rpc, stream,
                 writesDone, counters, late, closer>>

\* The bound MaxSends counts the messages on their way too.
Send(t) ==
  /\ MayCall(t, "Send")
  /\ sent + Cardinality({u \in Threads : call[u] \in {"send", "write"}}) < MaxSends
  /\ Enter(t, "send")

Close(t) == MayCall(t, "Close") /\ Enter(t, "close")
Wait(t) == t \in Users /\ MayCall(t, "Wait") /\ Enter(t, "join")
SetOnResult(t) == MayCall(t, "SetOnResult") /\ Enter(t, "setCallback")

\* Variant: done is tested before write_mu is taken.
SendLockedUnchecked(t) ==
  /\ call[t] = "send"
  /\ writeMu = Nobody
  /\ writeMu' = t
  /\ call' = [call EXCEPT ![t] = "write"]
  /\ UNCHANGED <<handle, done, callbackMu, once, rpc, stream, writesDone,
                 counters, late, closer>>

\* Send, write_mu taken: a finished stream is refused, else Write starts.
SendLocked(t) ==
  /\ call[t] = "send"
  /\ writeMu = Nobody
  /\ \/ /\ done
        /\ call' = [call EXCEPT ![t] = "none"]
        /\ UNCHANGED writeMu
     \/ /\ ~done
        /\ call' = [call EXCEPT ![t] = "write"]
        /\ writeMu' = t
  /\ UNCHANGED <<handle, done, callbackMu, once, rpc, stream, writesDone,
                 counters, late, closer>>

\* Write returns: true on an open stream, false once it has ended; write_mu
\* is released on the way out of Send.
Write(t) ==
  /\ call[t] = "write"
  /\ \/ /\ stream = "open"
        /\ sent' = sent + 1
        /\ late' = IF late = "noClose" THEN late ELSE "sentAfterClose"
     \/ /\ stream # "open"
        /\ UNCHANGED <<sent, late>>
  /\ writeMu' = Nobody
  /\ call' = [call EXCEPT ![t] = "none"]
  /\ UNCHANGED <<handle, done, callbackMu, once, rpc, stream, writesDone,
                 acked, delivered, errored, closer>>

\* Where a thread goes when Close, or JoinReader, returns.
Returned(t) ==
  IF t # Reader /\ handle = "destroying" THEN "free" ELSE "none"

\* Close, write_mu taken: done.exchange(true) tells who tears the stream down;
\* everyone else returns at once.
CloseLocked(t) ==
  /\ call[t] = "close"
  /\ writeMu = Nobody
  /\ \/ /\ done
        /\ call' = [call EXCEPT ![t] = Returned(t)]
        /\ late' = IF late = "noClose" THEN "closed" ELSE late
        /\ UNCHANGED <<writeMu, done, closer>>
     \/ /\ ~done
        /\ done' = TRUE
        /\ closer' = t
        /\ writeMu' = t
        /\ call' = [call EXCEPT ![t] = "writesDone"]
        /\ UNCHANGED late
  /\ UNCHANGED <<handle, callbackMu, once, rpc, stream, writesDone, counters>>

\* Variant: Close only sets done and joins.
CloseWithoutHalfClose(t) ==
  /\ call[t] = "writesDone"
  /\ writeMu' = Nobody
  /\ call' = [call EXCEPT ![t] = "join"]
  /\ UNCHANGED <<handle, done, callbackMu, once, rpc, stream, counters, late,
                 writesDone, closer>>

\* Variant: Close does not go on to JoinReader.
WritesDoneNoJoin(t) ==
  /\ call[t] = "writesDone"
  /\ writesDone' = TRUE
  /\ writeMu' = Nobody
  /\ call' = [call EXCEPT ![t] = Returned(t)]
  /\ UNCHANGED <<handle, done, callbackMu, once, rpc, stream, counters, late,
                 closer>>

\* WritesDone, then the end of the scope of write_mu.
WritesDone(t) ==
  /\ call[t] = "writesDone"
  /\ writesDone' = TRUE
  /\ writeMu' = Nobody
  /\ call' = [call EXCEPT ![t] = "join"]
  /\ UNCHANGED <<handle, done, callbackMu, once, rpc, stream, counters, late, closer>>

\* JoinReader, entry of call_once, by an application thread.
EnterOnce(t) ==
  /\ t \in Users
  /\ call[t] = "join"
  /\ \/ /\ once = "unset"
        /\ once' = "running"
        /\ call' = [call EXCEPT ![t] = "joining"]
     \/ /\ once = "set"
        /\ call' = [call EXCEPT ![t] = Returned(t)]
        /\ UNCHANGED once
  /\ UNCHANGED <<handle, done, writeMu, callbackMu, rpc, stream, writesDone,
                 counters, late, closer>>

\* Variant: Close does not wait for the reader thread.
JoinReaderDetached(t) ==
  /\ call[t] = "joining"
  /\ once' = "set"
  /\ call' = [call EXCEPT ![t] = Returned(t)]
  /\ late' = IF late = "noClose" /\ writesDone THEN "closed" ELSE late
  /\ UNCHANGED <<handle, done, writeMu, callbackMu, rpc, stream, writesDone,
                 counters, closer>>

\* reader_thread.join() returns.
JoinReader(t) ==
  /\ call[t] = "joining"
  /\ rpc = "exited"
  /\ once' = "set"
  /\ call' = [call EXCEPT ![t] = Returned(t)]
  /\ late' = IF late = "noClose" /\ writesDone THEN "closed" ELSE late
  /\ UNCHANGED <<handle, done, writeMu, callbackMu, rpc, stream, writesDone,
                 counters, closer>>

\* Close called by on_result joins its own thread: join() throws, the flag
\* stays unset and SafeInvoke swallows the exception of the callback.
SelfJoin ==
  /\ call[Reader] = "join"
  /\ once = "unset"
  /\ call' = [call EXCEPT ![Reader] = "none"]
  /\ rpc' = "resultDone"
  /\ UNCHANGED <<handle, done, writeMu, callbackMu, once, stream, writesDone,
                 counters, late, closer>>

\* SetOnResult and SetOnError replace a callback under callback_mu.
SetCallback(t) ==
  /\ call[t] = "setCallback"
  /\ callbackMu = Nobody
  /\ call' = [call EXCEPT ![t] = "none"]
  /\ UNCHANGED <<handle, done, writeMu, callbackMu, once, rpc, stream,
                 writesDone, counters, late, closer>>

\* The destructor is Close; no other user is inside a call.
Destroy(t) ==
  /\ t \in Users
  /\ handle = "live"
  /\ \A u \in Users : call[u] = "none"
  /\ handle' = "destroying"
  /\ call' = [call EXCEPT ![t] = "close"]
  /\ UNCHANGED <<done, writeMu, callbackMu, once, rpc, stream, writesDone,
                 counters, late, closer>>

\* The members of Impl are destroyed: ~thread of a thread nobody joined calls
\* std::terminate, which kills every thread.
Free(t) ==
  /\ call[t] = "free"
  /\ \/ /\ once = "set"
        /\ handle' = "destroyed"
        /\ call' = [call EXCEPT ![t] = "none"]
        /\ UNCHANGED rpc
     \/ /\ once # "set"
        /\ handle' = "terminated"
        /\ call' = [u \in Threads |-> "none"]
        /\ rpc' = "killed"
  /\ UNCHANGED <<done, writeMu, callbackMu, once, stream, writesDone, counters,
                 late, closer>>

-----------------------------------------------------------------------------
(***************************************************************************)
(* The reader thread                                                       *)
(***************************************************************************)

\* Read returns a result.
ReadResult ==
  /\ rpc = "read"
  /\ delivered < acked
  /\ rpc' = "lockResult"
  /\ UNCHANGED <<handle, done, writeMu, callbackMu, once, call, stream,
                 writesDone, counters, late, closer>>

\* callback_mu is taken and on_result starts.
OnResult ==
  /\ rpc = "lockResult"
  /\ callbackMu = Nobody
  /\ callbackMu' = Reader
  /\ rpc' = "onResult"
  /\ delivered' = delivered + 1
  /\ UNCHANGED <<handle, done, writeMu, once, call, stream, writesDone, sent,
                 acked, errored, late, closer>>

\* on_result returns or throws; SafeInvoke tells on_error of an exception.
OnResultReturns ==
  /\ rpc = "onResult" /\ call[Reader] = "none"
  /\ rpc' = "resultDone"
  /\ UNCHANGED <<handle, done, writeMu, callbackMu, once, call, stream,
                 writesDone, counters, late, closer>>

\* callback_mu is released at the end of the loop body.
ResultDone ==
  /\ rpc = "resultDone"
  /\ callbackMu' = Nobody
  /\ rpc' = "read"
  /\ UNCHANGED <<handle, done, writeMu, once, call, stream, writesDone,
                 counters, late, closer>>

\* Read returns false: after the last result of a stream the broker ended, or
\* at any time on a failed one.
ReadFails ==
  /\ rpc = "read"
  /\ \/ stream \in {"graceful", "early"} /\ delivered = acked
     \/ stream = "error"
  /\ rpc' = "setDone"
  /\ UNCHANGED <<handle, done, writeMu, callbackMu, once, call, stream,
                 writesDone, counters, late, closer>>

\* done.store(true)
SetDone ==
  /\ rpc = "setDone"
  /\ done' = TRUE
  /\ closer' = IF done THEN closer ELSE Reader
  /\ rpc' = "finish"
  /\ UNCHANGED <<handle, writeMu, callbackMu, once, call, stream, writesDone,
                 counters, late>>

\* Finish: the thread ends, or goes on to report the status.
Finish ==
  /\ rpc = "finish"
  /\ rpc' = IF stream = "error" THEN "report" ELSE "exited"
  /\ UNCHANGED <<handle, done, writeMu, callbackMu, once, call, stream,
                 writesDone, counters, late, closer>>

\* on_error under callback_mu, and the end of the thread.
Report ==
  /\ rpc = "report"
  /\ callbackMu = Nobody
  /\ errored' = TRUE
  /\ rpc' = "exited"
  /\ UNCHANGED <<handle, done, writeMu, callbackMu, once, call, stream,
                 writesDone, sent, acked, delivered, late, closer>>

-----------------------------------------------------------------------------
(***************************************************************************)
(* The broker and the network                                              *)
(***************************************************************************)

BrokerAcks ==
  /\ stream = "open"
  /\ acked < sent
  /\ acked' = acked + 1
  /\ UNCHANGED <<handle, done, writeMu, callbackMu, once, rpc, call, stream,
                 writesDone, sent, delivered, errored, late, closer>>

\* The broker ends the stream after it has answered everything it got.
BrokerFinishes ==
  /\ stream = "open"
  /\ writesDone /\ acked = sent
  /\ stream' = "graceful"
  /\ UNCHANGED <<handle, done, writeMu, callbackMu, once, rpc, call,
                 writesDone, counters, late, closer>>

\* The broker ends the stream on its own, or the connection fails.
StreamBreaks ==
  /\ stream = "open"
  /\ stream' \in {"early", "error"}
  /\ UNCHANGED <<handle, done, writeMu, callbackMu, once, rpc, call,
                 writesDone, counters, late, closer>>

ReaderStep ==
  \/ ReadResult \/ OnResult \/ OnResultReturns \/ ResultDone \/ ReadFails
  \/ SetDone \/ Finish \/ Report \/ SelfJoin

CallStep(t) ==
  \/ SendLocked(t) \/ Write(t) \/ CloseLocked(t) \/ WritesDone(t)
  \/ EnterOnce(t) \/ JoinReader(t) \/ SetCallback(t) \/ Free(t)

Next ==
  \/ \E t \in Threads :
       Send(t) \/ Close(t) \/ Wait(t) \/ SetOnResult(t) \/ Destroy(t)
         \/ CallStep(t)
  \/ ReaderStep
  \/ BrokerAcks \/ BrokerFinishes \/ StreamBreaks

Spec == Init /\ [][Next]_vars

(***************************************************************************)
(* Fairness: threads are scheduled and get a mutex that keeps becoming     *)
(* free, on_result returns however often it calls the handle, and a broker *)
(* that has seen the half-close answers what it got and ends the stream.   *)
(***************************************************************************)
Fairness ==
  /\ \A t \in Threads : SF_vars(CallStep(t))
  /\ SF_vars(ReaderStep)
  /\ SF_vars(OnResultReturns)
  /\ WF_vars(BrokerAcks)
  /\ WF_vars(BrokerFinishes)

FairSpec == Spec /\ Fairness

-----------------------------------------------------------------------------
(***************************************************************************)
(* Properties                                                              *)
(***************************************************************************)

ReaderStates == {"read", "lockResult", "onResult", "resultDone", "setDone",
                 "finish", "report", "exited", "killed"}
CallStates == {"none", "send", "write", "close", "writesDone", "join",
               "joining", "setCallback", "free"}

\* Every variable has its type.
TypeOK ==
  /\ handle \in {"live", "destroying", "destroyed", "terminated"}
  /\ done \in BOOLEAN
  /\ writeMu \in Threads \cup {Nobody}
  /\ callbackMu \in {Reader, Nobody}
  /\ once \in {"unset", "running", "set"}
  /\ rpc \in ReaderStates
  /\ call \in [Threads -> CallStates]
  /\ stream \in {"open", "graceful", "early", "error"}
  /\ writesDone \in BOOLEAN
  /\ sent \in Nat
  /\ acked \in Nat
  /\ delivered \in Nat
  /\ errored \in BOOLEAN
  /\ late \in {"noClose", "closed", "sentAfterClose"}
  /\ closer \in Threads \cup {Nobody}

\* gRPC allows one Write at a time and none after WritesDone: no two threads
\* are inside Write or WritesDone, and nobody is inside Write once the half of
\* the stream is closed (write_mu with done tested under it).
WriteDiscipline ==
  /\ \A t, u \in Threads :
       /\ call[t] \in {"write", "writesDone"}
       /\ call[u] \in {"write", "writesDone"}
       => t = u
  /\ \A t \in Threads : call[t] = "write" => ~writesDone

\* A message is never accepted after any Close() of any thread has returned.
NoSendAfterClose == late # "sentAfterClose"

\* When the reader has been joined after a Close the broker answered, every
\* message that Send accepted has had its result delivered: Close flushes.
CloseFlushes ==
  once = "set" /\ stream = "graceful" /\ handle # "terminated"
    => delivered = sent

\* The destruction of a handle whose stream an application thread closed, by
\* Close or by the destructor itself, finds its reader thread joined, whoever
\* else closes or waits at the time: only a stream that the broker, the network
\* or on_result ended first can end the process (the early return of Close).
TerminatesOnlyIfReaderFirst == handle = "terminated" => closer = Reader

\* What stream_handle.h says of the destructor: it closes the stream if it is
\* still open, and so the handle of a stream that has ended just goes away.
\* (Not true of the code: Close skips the join when it finds done set.)
DestructorCleansUp == handle # "terminated"

\* on_result has called Close, and then joins its own thread, or a setter,
\* whose mutex it holds.
WaitsOnItself == call[Reader] \in {"join", "setCallback"}

\* Close and the destructor come back, unless on_result blocks on its own
\* handle.
CloseReturns ==
  \A t \in Users :
    call[t] = "close" ~> call[t] \in {"none", "free"} \/ WaitsOnItself

-----------------------------------------------------------------------------
(***************************************************************************)
(* The inductive invariant behind the safety properties                    *)
(***************************************************************************)

Writing(t) == call[t] \in {"write", "writesDone"}

\* write_mu is held exactly by the thread inside Write or WritesDone (until the
\* process is gone), and the stream is half-closed only after done was set.
WriteInv ==
  /\ handle # "terminated" => \A t \in Threads : Writing(t) <=> writeMu = t
  /\ handle = "terminated" => \A t \in Threads : call[t] = "none"
  /\ writesDone => done
  /\ \A t \in Threads : call[t] = "writesDone" => done
  /\ \A t \in Threads : call[t] = "write" => ~writesDone

\* After a Close has returned, nobody is inside Write and done keeps it so.
LateInv ==
  /\ late # "sentAfterClose"
  /\ late = "closed" => done /\ \A t \in Threads : call[t] # "write"

\* Results are counted in order: written, answered, delivered; and a reader
\* past its loop on a stream the broker ended has delivered all of them.
FlushInv ==
  /\ delivered <= acked /\ acked <= sent
  /\ rpc = "lockResult" => delivered < acked
  /\ stream = "graceful" => writesDone /\ acked = sent
  /\ stream = "graceful" /\ rpc \in {"setDone", "finish", "report", "exited"}
       => delivered = acked
  /\ once = "set" => rpc \in {"exited", "killed"}
  /\ stream = "open" => rpc \notin {"setDone", "finish", "report", "exited"}
  /\ handle = "terminated" <=> rpc = "killed"

\* The application thread that closed the stream has joined the reader or is on
\* its way to it, and the thread that destroys the handle is alone in it.
CloserInv ==
  /\ closer = Nobody <=> ~done
  /\ closer \in Users =>
       once = "set" \/ call[closer] \in {"writesDone", "join", "joining"}
  /\ \A t \in Threads : call[t] = "free" => t \in Users /\ handle = "destroying"
  /\ handle = "destroying" =>
       /\ \A t, u \in Users : call[t] # "none" /\ call[u] # "none" => t = u
       /\ \A t \in Users : call[t] # "none" => call[t] = "close" \/ done
  /\ handle = "terminated" => closer = Reader

\* The conjunction that every step preserves.
IInv == TypeOK /\ WriteInv /\ LateInv /\ FlushInv /\ CloserInv

=============================================================================
