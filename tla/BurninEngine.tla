---------------------------- MODULE BurninEngine ----------------------------
(***************************************************************************)
(* The burn-in application of kubemq-cpp: the Engine that runs soak tests, *)
(* the pattern workers of a run, and main.                                 *)
(*                                                                         *)
(* HTTP threads call StartRun and StopRun, which test the engine's state   *)
(* under mu_ and do the rest without it; the run thread (RunLoop) creates, *)
(* starts and stops the workers and builds the report; every worker has a  *)
(* producer and a consumer thread that count what they do; main shuts all  *)
(* of it down.  Start requests come from one client at a time.             *)
(*                                                                         *)
(* A queue_stream worker counts the results of its upstream on a thread of *)
(* the client library. Stop does not wait for that one: it hands the       *)
(* upstream to a detached thread, and what comes in until the stream has   *)
(* ended is still counted, by then into whatever the counters hold (the    *)
(* freed worker it goes through is taken to be intact).                    *)
(***************************************************************************)
EXTENDS Naturals, FiniteSets

CONSTANTS
  Handlers,  \* threads of the HTTP server
  Starter,   \* the one that gets the start requests
  Workers,   \* the workers of a run, one for each channel of each pattern
  Streaming, \* those of the pattern queue_stream
  MaxRuns,   \* bound: runs started
  MaxCounts  \* bound: messages and errors counted in a run

ASSUME BurninAssumption ==
  /\ Starter \in Handlers
  /\ Streaming \subseteq Workers
  /\ MaxRuns \in Nat
  /\ MaxCounts \in Nat

Loops == {"producer", "consumer"}
WorkerThreads == Workers \X Loops

VARIABLES
  state,         \* Engine::state_
  stopRequested, \* Engine::stop_requested_
  runId,         \* Engine::run_id_: the number of the run
  report,        \* last_report_: the run and what it counted
  hasReport,     \* Engine::has_report_
  run,           \* where the run thread is; "none": not joinable
  phase,         \* phase[w]: "none", "created", "running" (running_), "stopping"
  thread,        \* where each thread of a worker is
  counts,        \* AggregateMetrics: all counters added up
  upstreams,     \* open upstreams: the worker and the run it was created for
  late,          \* history: counts of detached upstreams since the last reset
  counted,       \* history: the run the counters were last reset for
  madeFor,       \* history: the run the workers were created for
  pc,            \* where each HTTP thread is inside a request
  asked,         \* history: a stop was accepted in state running, for this run
  app            \* how far main has come

engineVars == <<state, stopRequested, runId, report, hasReport, run, asked>>
workerVars == <<phase, thread, counts, upstreams, late, counted, madeFor>>
vars == <<engineVars, workerVars, pc, app>>

Init ==
  /\ state = "idle"
  /\ stopRequested = FALSE
  /\ runId = 0
  /\ report = [run |-> 0, counts |-> 0]
  /\ hasReport = FALSE
  /\ run = "none"
  /\ phase = [w \in Workers |-> "none"]
  /\ thread = [x \in WorkerThreads |-> "none"]
  /\ counts = 0
  /\ upstreams = {}
  /\ late = 0
  /\ counted = 0
  /\ madeFor = 0
  /\ pc = [h \in Handlers |-> "none"]
  /\ asked = FALSE
  /\ app = "up"

Goto(h, at) == pc' = [pc EXCEPT ![h] = at]
Serving == app \in {"up", "checking", "stopRun", "setStop"}

-----------------------------------------------------------------------------
(***************************************************************************)
(* StartRun and StopRun                                                    *)
(***************************************************************************)

\* The state is tested under mu_; a run under way refuses the request.
StartRun(h) ==
  /\ Serving /\ h = Starter /\ pc[h] = "none"
  /\ state \in {"idle", "stopped", "error"}
  /\ runId < MaxRuns
  /\ Goto(h, "setStarting")
  /\ UNCHANGED <<engineVars, workerVars, app>>

\* mu_ again.
SetStarting(h) ==
  /\ pc[h] = "setStarting"
  /\ state' = "starting"
  /\ asked' = FALSE
  /\ Goto(h, "configure")
  /\ UNCHANGED <<stopRequested, runId, report, hasReport, run, workerVars, app>>

\* config_, run_id_, the error, the stop flag and the report, without mu_.
Configure(h) ==
  /\ pc[h] = "configure"
  /\ runId' = runId + 1
  /\ stopRequested' = FALSE
  /\ hasReport' = FALSE
  /\ Goto(h, "join")
  /\ UNCHANGED <<state, report, run, asked, workerVars, app>>

\* The thread of the last run is joined and the next one started.
Spawn(h) ==
  /\ pc[h] = "join"
  /\ run \in {"none", "finished"}
  /\ run' = "clear"
  /\ Goto(h, "none")
  /\ UNCHANGED <<state, stopRequested, runId, report, hasReport, asked, workerVars, app>>

\* StopRun, under mu_.
AcceptStop ==
  /\ state \in {"running", "starting"}
  /\ state' = "stopping"
  /\ asked' = (asked \/ state = "running")
  /\ UNCHANGED <<stopRequested, runId, report, hasReport, run, workerVars>>

StopRun(h) ==
  /\ Serving /\ pc[h] = "none"
  /\ AcceptStop
  /\ Goto(h, "setStop")
  /\ UNCHANGED app

\* The flag is set after mu_ has been released.
SetStop(h) ==
  /\ pc[h] = "setStop"
  /\ stopRequested' = TRUE
  /\ Goto(h, "none")
  /\ UNCHANGED <<state, runId, report, hasReport, run, asked, workerVars, app>>

-----------------------------------------------------------------------------
(***************************************************************************)
(* RunLoop                                                                 *)
(***************************************************************************)

\* A step of the run thread that changes nothing but where it is.
RunGoto(to) ==
  /\ run' = to
  /\ UNCHANGED <<state, stopRequested, runId, report, hasReport, asked, pc, app>>

\* Variant: workers_ is not cleared first.
CreateWorkersOver ==
  /\ run = "clear"
  /\ phase' = [w \in Workers |-> "created"]
  /\ madeFor' = runId
  /\ UNCHANGED <<thread, counts, upstreams, late, counted>>
  /\ RunGoto("reset")

\* workers_.clear() has destroyed what a failed run left; the new ones are made.
CreateWorkers ==
  /\ run = "clear"
  /\ \A w \in Workers : phase[w] = "none"
  /\ phase' = [w \in Workers |-> "created"]
  /\ madeFor' = runId
  /\ UNCHANGED <<thread, counts, upstreams, late, counted>>
  /\ RunGoto("reset")

ResetMetrics ==
  /\ run = "reset"
  /\ counts' = 0
  /\ late' = 0
  /\ counted' = runId
  /\ UNCHANGED <<phase, thread, upstreams, madeFor>>
  /\ RunGoto("setRunning")

\* Whatever the state was: also after a StopRun in between.
SetRunning ==
  /\ run = "setRunning"
  /\ state' = "running"
  /\ run' = "startWorkers"
  /\ UNCHANGED <<stopRequested, runId, report, hasReport, asked, workerVars, pc, app>>

\* Worker::Start: running_ is set and the two threads are created, one worker
\* after the other.
Started(w) == phase[w] = "running" /\ \A l \in Loops : thread[<<w, l>>] # "none"

StartWorker(w) ==
  /\ run = "startWorkers"
  /\ phase[w] = "created"
  /\ \A v \in Workers : phase[v] = "running" => Started(v)
  /\ phase' = [phase EXCEPT ![w] = "running"]
  /\ UNCHANGED <<thread, counts, upstreams, late, counted, madeFor>>
  /\ RunGoto("startWorkers")

StartThread(x) ==
  /\ run = "startWorkers"
  /\ phase[x[1]] = "running" /\ thread[x] = "none"
  /\ thread' = [thread EXCEPT ![x] = "connect"]
  /\ UNCHANGED <<phase, counts, upstreams, late, counted, madeFor>>
  /\ RunGoto("startWorkers")

\* std::thread throws; the catch clause stops no worker.
StartFails ==
  /\ run = "startWorkers"
  /\ \E x \in WorkerThreads : phase[x[1]] = "running" /\ thread[x] = "none"
  /\ UNCHANGED workerVars
  /\ RunGoto("setError")

\* Variant: stop_requested_ is cleared before the wait begins.
AllStartedClears ==
  /\ run = "startWorkers" /\ run' = "wait"
  /\ \A w \in Workers : Started(w)
  /\ stopRequested' = FALSE
  /\ UNCHANGED <<workerVars, state, runId, report, hasReport, asked, pc, app>>

AllStarted ==
  /\ run = "startWorkers"
  /\ \A w \in Workers : Started(w)
  /\ UNCHANGED workerVars
  /\ RunGoto("wait")

\* The wait ends at the stop flag, or when the duration is over.
WaitEnds ==
  /\ run = "wait"
  /\ stopRequested
  /\ UNCHANGED workerVars
  /\ RunGoto("stopWorkers")

DurationReached ==
  /\ run = "wait"
  /\ UNCHANGED workerVars
  /\ RunGoto("stopWorkers")

\* StopWorkers returned.
WorkersStopped ==
  /\ run = "stopWorkers"
  /\ \A w \in Workers : phase[w] = "none"
  /\ UNCHANGED workerVars
  /\ RunGoto("report")

BuildReport ==
  /\ run = "report"
  /\ report' = [run |-> runId, counts |-> counts]
  /\ hasReport' = TRUE
  /\ run' = "setStopped"
  /\ UNCHANGED <<state, stopRequested, runId, asked, workerVars, pc, app>>

SetStopped ==
  /\ run = "setStopped"
  /\ state' = "stopped"
  /\ run' = "ending"
  /\ UNCHANGED <<stopRequested, runId, report, hasReport, asked, workerVars, pc, app>>

SetError ==
  /\ run = "setError"
  /\ state' = "error"
  /\ run' = "ending"
  /\ UNCHANGED <<stopRequested, runId, report, hasReport, asked, workerVars, pc, app>>

RunEnds ==
  /\ run = "ending"
  /\ UNCHANGED workerVars
  /\ RunGoto("finished")

-----------------------------------------------------------------------------
(***************************************************************************)
(* Workers                                                                 *)
(***************************************************************************)

\* Who is destroying or stopping workers: CreateWorkers, StopWorkers, or the
\* destructor of the engine.
Stopping == run \in {"clear", "stopWorkers"} \/ app = "freeWorkers"

\* Worker::Stop (also called by the destructors), one worker at a time.
BeginStop(w) ==
  /\ Stopping
  /\ phase[w] \in {"created", "running"}
  /\ \A v \in Workers : phase[v] # "stopping"
  /\ phase' = [phase EXCEPT ![w] = "stopping"]
  /\ UNCHANGED <<thread, counts, upstreams, late, counted, madeFor, engineVars, pc, app>>

\* Variant: Stop does not join the consumer.
FinishStopNoJoin(w) ==
  /\ phase[w] = "stopping"
  /\ thread[<<w, "producer">>] \in {"none", "ended"}
  /\ thread' = [x \in WorkerThreads |-> IF x = <<w, "producer">> THEN "none" ELSE thread[x]]
  /\ phase' = [phase EXCEPT ![w] = "none"]
  /\ UNCHANGED <<counts, upstreams, late, counted, madeFor, engineVars, pc, app>>

\* Both threads are joined, the clients are closed; an open upstream goes, with
\* its client, to a detached thread.
FinishStop(w) ==
  /\ phase[w] = "stopping"
  /\ \A l \in Loops : thread[<<w, l>>] \in {"none", "ended"}
  /\ thread' = [x \in WorkerThreads |-> IF x[1] = w THEN "none" ELSE thread[x]]
  /\ phase' = [phase EXCEPT ![w] = "none"]
  /\ UNCHANGED <<counts, upstreams, late, counted, madeFor, engineVars, pc, app>>

ThreadGoto(x, to) ==
  /\ thread' = [thread EXCEPT ![x] = to]
  /\ UNCHANGED <<phase, counted, madeFor, engineVars, pc, app>>

\* The bound MaxCounts counts the operations under way too.
MayCount ==
  counts + Cardinality({x \in WorkerThreads : thread[x] \in {"connect", "busy"}}) < MaxCounts

\* The client is created and the subscription or the stream opened.
Connect(x) ==
  /\ thread[x] = "connect"
  /\ upstreams' = IF x[2] = "producer" /\ x[1] \in Streaming
                  THEN upstreams \cup {<<x[1], madeFor>>} ELSE upstreams
  /\ UNCHANGED <<counts, late>>
  /\ ThreadGoto(x, "loop")

\* Client::Create or the subscription fails: the error is counted and the loop
\* never entered.
ConnectFails(x) ==
  /\ thread[x] = "connect"
  /\ counts < MaxCounts
  /\ counts' = counts + 1
  /\ UNCHANGED <<upstreams, late>>
  /\ ThreadGoto(x, "ended")

\* running_ is tested and an operation starts; a subscription delivers until the
\* consumer cancels it.
Iterate(x) ==
  /\ thread[x] = "loop"
  /\ phase[x[1]] = "running" \/ x[2] = "consumer"
  /\ MayCount
  /\ UNCHANGED <<counts, upstreams, late>>
  /\ ThreadGoto(x, "busy")

\* What it did is counted; an empty poll is nothing, nor is an error after
\* running_ was cleared.
Count(x) ==
  /\ thread[x] = "busy"
  /\ counts' \in {counts, counts + 1}
  /\ UNCHANGED <<upstreams, late>>
  /\ ThreadGoto(x, "loop")

\* The loop has seen running_ cleared; a consumer cancels its subscription.
LoopEnds(x) ==
  /\ thread[x] = "loop"
  /\ phase[x[1]] # "running"
  /\ UNCHANGED <<counts, upstreams, late>>
  /\ ThreadGoto(x, "ended")

\* The worker of the upstream has been stopped.
Detached(u) == u[2] # madeFor \/ phase[u[1]] = "none"

\* on_result and on_error of an upstream, held by its worker or detached.
UpstreamCounts(u) ==
  /\ u \in upstreams
  /\ app # "down"
  /\ MayCount
  /\ counts' = counts + 1
  /\ late' = IF Detached(u) THEN late + 1 ELSE late
  /\ UNCHANGED <<phase, thread, upstreams, counted, madeFor, engineVars, pc, app>>

\* The detached thread: ~QueueUpstreamHandle has closed the stream.
UpstreamEnds(u) ==
  /\ u \in upstreams
  /\ Detached(u)
  /\ upstreams' = upstreams \ {u}
  /\ UNCHANGED <<phase, thread, counts, late, counted, madeFor, engineVars, pc, app>>

-----------------------------------------------------------------------------
(***************************************************************************)
(* main and ~Engine                                                        *)
(***************************************************************************)

AppGoto(to) == app' = to /\ UNCHANGED pc

\* A signal: main reads the state and calls StopRun if a run is under way.
Shutdown ==
  /\ app = "up"
  /\ AppGoto("checking")
  /\ UNCHANGED <<engineVars, workerVars>>

CheckState ==
  /\ app = "checking"
  /\ AppGoto(IF state \in {"running", "starting"} THEN "stopRun" ELSE "httpStop")
  /\ UNCHANGED <<engineVars, workerVars>>

\* StopRun tests the state again.
MainStopRun ==
  /\ app = "stopRun"
  /\ \/ AcceptStop /\ AppGoto("setStop")
     \/ /\ state \notin {"running", "starting"}
        /\ AppGoto("httpStop")
        /\ UNCHANGED <<engineVars, workerVars>>

MainSetStop ==
  /\ app = "setStop"
  /\ stopRequested' = TRUE
  /\ AppGoto("httpStop")
  /\ UNCHANGED <<state, runId, report, hasReport, run, asked, workerVars>>

\* The server stops when the requests it serves are answered.
HttpStop ==
  /\ app = "httpStop"
  /\ \A h \in Handlers : pc[h] = "none"
  /\ AppGoto("destroy")
  /\ UNCHANGED <<engineVars, workerVars>>

\* Variant: ~Engine joins without setting the flag.
DestroyEngineJoins ==
  /\ app = "destroy"
  /\ AppGoto(IF run = "none" THEN "freeMetrics" ELSE "join")
  /\ UNCHANGED <<engineVars, workerVars>>

\* ~Engine: a joinable run thread is told to stop.
DestroyEngine ==
  /\ app = "destroy"
  /\ stopRequested' = (stopRequested \/ run # "none")
  /\ AppGoto(IF run = "none" THEN "freeMetrics" ELSE "join")
  /\ UNCHANGED <<state, runId, report, hasReport, run, asked, workerVars>>

JoinRun ==
  /\ app = "join"
  /\ run = "finished"
  /\ run' = "none"
  /\ AppGoto("freeMetrics")
  /\ UNCHANGED <<state, stopRequested, runId, report, hasReport, asked, workerVars>>

\* Members are destroyed in the reverse order: metrics_, then workers_.
FreeMetrics ==
  /\ app = "freeMetrics"
  /\ AppGoto("freeWorkers")
  /\ UNCHANGED <<engineVars, workerVars>>

Exit ==
  /\ app = "freeWorkers"
  /\ \A w \in Workers : phase[w] = "none"
  /\ AppGoto("down")
  /\ UNCHANGED <<engineVars, workerVars>>

-----------------------------------------------------------------------------
RequestStep(h) == SetStarting(h) \/ Configure(h) \/ Spawn(h) \/ SetStop(h)

\* Every step of the run thread but the end of its duration.
RunStep ==
  \/ CreateWorkers \/ ResetMetrics \/ SetRunning
  \/ (\E w \in Workers : StartWorker(w))
  \/ (\E x \in WorkerThreads : StartThread(x))
  \/ AllStarted \/ WaitEnds \/ WorkersStopped \/ BuildReport
  \/ SetStopped \/ SetError \/ RunEnds

StopStep == \E w \in Workers : BeginStop(w) \/ FinishStop(w)

WorkerStep(x) == Connect(x) \/ Count(x) \/ LoopEnds(x)

MainStep ==
  \/ CheckState \/ MainStopRun \/ MainSetStop \/ HttpStop \/ DestroyEngine
  \/ JoinRun \/ FreeMetrics \/ Exit

Next ==
  \/ \E h \in Handlers : StartRun(h) \/ StopRun(h) \/ RequestStep(h)
  \/ RunStep \/ StartFails \/ DurationReached
  \/ StopStep
  \/ \E x \in WorkerThreads : WorkerStep(x) \/ ConnectFails(x) \/ Iterate(x)
  \/ \E u \in upstreams : UpstreamCounts(u) \/ UpstreamEnds(u)
  \/ Shutdown \/ MainStep

Spec == Init /\ [][Next]_vars

(***************************************************************************)
(* Fairness: every thread is scheduled and every operation of the client   *)
(* library returns (its deadlines).  Nothing makes the duration end, a     *)
(* request or a signal arrive, or a detached upstream end.                 *)
(***************************************************************************)
Fairness ==
  /\ \A h \in Handlers : WF_vars(RequestStep(h))
  /\ WF_vars(RunStep)
  /\ WF_vars(StopStep)
  /\ \A x \in WorkerThreads : WF_vars(Connect(x) \/ Count(x)) /\ SF_vars(LoopEnds(x))
  /\ WF_vars(MainStep)

FairSpec == Spec /\ Fairness

-----------------------------------------------------------------------------
(***************************************************************************)
(* Properties                                                              *)
(***************************************************************************)

RunStates == {"none", "clear", "reset", "setRunning", "startWorkers", "wait",
              "stopWorkers", "report", "setStopped", "setError", "ending", "finished"}
AppStates == {"up", "checking", "stopRun", "setStop", "httpStop", "destroy",
              "join", "freeMetrics", "freeWorkers", "down"}

\* Every variable has its type.
TypeOK ==
  /\ state \in {"idle", "starting", "running", "stopping", "stopped", "error"}
  /\ stopRequested \in BOOLEAN
  /\ runId \in Nat
  /\ report \in [run : Nat, counts : Nat]
  /\ hasReport \in BOOLEAN
  /\ run \in RunStates
  /\ phase \in [Workers -> {"none", "created", "running", "stopping"}]
  /\ thread \in [WorkerThreads -> {"none", "connect", "loop", "busy", "ended"}]
  /\ counts \in Nat
  /\ upstreams \subseteq Streaming \X Nat
  /\ late \in Nat
  /\ counted \in Nat
  /\ madeFor \in Nat
  /\ pc \in [Handlers -> {"none", "setStarting", "configure", "join", "setStop"}]
  /\ asked \in BOOLEAN
  /\ app \in AppStates

Quiet == \A x \in WorkerThreads : thread[x] = "none"

\* A report that can be fetched (GET /run/report) is that of the run whose id
\* the engine shows, no thread of a worker is left that could still count, and
\* its numbers are those of the counters but for what detached upstreams
\* counted: the upstreams of queue_stream workers are all that can make the
\* counters differ from the report.
ReportFinal ==
  hasReport => /\ report.run = runId
               /\ Quiet
               /\ report.counts <= counts /\ counts <= report.counts + late

\* The counters hold what the workers of one run did, and what the detached
\* upstreams of earlier ones added (late): no thread of a worker, and no
\* upstream that a worker still holds, counts into counters that were reset for
\* another run, also after a run that failed and left its workers running.
CountsOwnRun ==
  /\ Quiet \/ madeFor = counted
  /\ \A u \in upstreams : Detached(u) \/ u[2] = counted

\* StartRun and the destructor never find a run thread they did not wait for:
\* while one run thread works no second one is started, and while StartRun
\* prepares a run the last run thread is past its last write.
OneRun ==
  \A h \in Handlers : pc[h] \in {"setStarting", "configure", "join"}
    => run \in {"none", "ending", "finished"}

\* The counters are freed before the workers: what still counts then are the
\* detached upstreams and, of a run that failed to start, its threads.
OnlyDetachedLeft ==
  app \in {"freeWorkers", "down"} /\ state # "error"
    => Quiet /\ \A u \in upstreams : Detached(u)

\* A stop that was accepted while the run was running, and whose StopRun has
\* returned, is still there when the run looks for it: nothing between the start
\* of the run thread and the end of the run takes the flag back, and neither the
\* next StartRun nor main finds it lost.  (A stop accepted in state starting may
\* be lost: Configure clears the flag after the state was set.)
StopPending == app = "setStop" \/ \E h \in Handlers : pc[h] = "setStop"
StopNotLost == asked /\ ~StopPending => stopRequested

\* main ends after a signal, whatever the HTTP threads and the run do.
ShutdownCompletes == app = "checking" ~> app = "down"

-----------------------------------------------------------------------------
(***************************************************************************)
(* The inductive invariant behind the safety properties                    *)
(***************************************************************************)

Preparing(h) == pc[h] \in {"setStarting", "configure", "join"}
Idle == run \in {"none", "ending", "finished"}
NoWorkers == \A w \in Workers : phase[w] = "none"

\* A thread belongs to a worker that was started and not yet joined.
ThreadInv ==
  \A x \in WorkerThreads : thread[x] # "none" => phase[x[1]] \in {"running", "stopping"}

\* The state, the request being served and where the run thread is.
StateInv ==
  /\ \A h \in Handlers : Preparing(h) => h = Starter /\ Idle
  /\ \A h \in Handlers : pc[h] \in {"configure", "join"}
       => state \in {"starting", "stopping"}
  /\ \A h \in Handlers : pc[h] = "setStarting" => state \in {"idle", "stopped", "error"}
  /\ ~Idle => state \in {"starting", "running", "stopping"}
  /\ app \in {"destroy", "join", "freeMetrics", "freeWorkers", "down"}
       => \A h \in Handlers : pc[h] = "none"
  /\ app \in {"freeMetrics", "freeWorkers", "down"} => run = "none"

\* The workers at each point of RunLoop; only a failed run leaves some behind.
WorkerInv ==
  /\ run \in {"reset", "setRunning"} => \A w \in Workers : phase[w] = "created"
  /\ run \in {"report", "setStopped"} => NoWorkers
  /\ Idle /\ state # "error" /\ (\A h \in Handlers : pc[h] \notin {"configure", "join"})
       => NoWorkers
  /\ run = "reset" => madeFor = runId
  /\ run \in {"setRunning", "startWorkers"} => madeFor = counted
  /\ Quiet \/ madeFor = counted

\* Upstreams are older than the next run's workers, whose counters are reset
\* before they open theirs.
UpstreamInv ==
  /\ madeFor <= runId
  /\ run = "clear" => madeFor < runId
  /\ \A h \in Handlers : pc[h] = "join" => madeFor < runId
  /\ \A u \in upstreams : u[2] <= madeFor
  /\ run = "reset" => \A u \in upstreams : u[2] # madeFor
  /\ \A u \in upstreams : Detached(u) \/ madeFor = counted

\* The report, from BuildReport to the next StartRun.
ReportInv ==
  /\ hasReport => /\ report.run = runId
                  /\ report.counts <= counts /\ counts <= report.counts + late
                  /\ NoWorkers
                  /\ run \in {"none", "setStopped", "ending", "finished"}
  /\ \A h \in Handlers : pc[h] = "join" => ~hasReport

\* While StartRun is about to clear the flag no stop of its run was accepted in
\* state running.
StopInv ==
  /\ StopNotLost
  /\ \A h \in Handlers : pc[h] = "configure" => ~asked

\* The conjunction that every step preserves.
IInv == TypeOK /\ ThreadInv /\ StateInv /\ WorkerInv /\ UpstreamInv /\ ReportInv
          /\ StopInv

=============================================================================
