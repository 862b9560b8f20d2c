------------------------- MODULE BurninEngineProofs -------------------------
(***************************************************************************)
(* Theorems about BurninEngine, for any number of HTTP threads, workers    *)
(* and runs.                                                               *)
(***************************************************************************)
EXTENDS BurninEngine, TLAPS

\* The initial state satisfies the inductive invariant.
LEMMA InitIInv == Init => IInv
<1> SUFFICES ASSUME Init PROVE IInv
  OBVIOUS
<1> USE BurninAssumption DEF Init
<1>1. TypeOK
  BY DEF TypeOK, RunStates, AppStates
<1>2. ThreadInv
  BY DEF ThreadInv
<1>3. StateInv
  BY DEF StateInv, Preparing, Idle
<1>4. WorkerInv
  BY DEF WorkerInv, Idle, NoWorkers, Quiet
<1>5. ReportInv
  BY DEF ReportInv
<1>6. StopInv
  BY DEF StopInv, StopNotLost
<1>7. UpstreamInv
  BY DEF UpstreamInv
<1> QED
  BY <1>1, <1>2, <1>3, <1>4, <1>5, <1>6, <1>7 DEF IInv

\* Every step keeps every variable in its type.
LEMMA NextTypeOK == IInv /\ [Next]_vars => TypeOK'
<1> SUFFICES ASSUME IInv, [Next]_vars PROVE TypeOK'
  OBVIOUS
<1> USE BurninAssumption DEF IInv, TypeOK, RunStates, AppStates, engineVars, workerVars
<1>1. ASSUME NEW h \in Handlers, StartRun(h)
      PROVE TypeOK'
  BY <1>1 DEF StartRun, Goto, Serving
<1>2. ASSUME NEW h \in Handlers, StopRun(h)
      PROVE TypeOK'
  BY <1>2 DEF StopRun, AcceptStop, Goto, Serving
<1>3. ASSUME NEW h \in Handlers, RequestStep(h)
      PROVE TypeOK'
  <2>1. CASE SetStarting(h)
    BY <2>1 DEF SetStarting, Goto
  <2>2. CASE Configure(h)
    <3>1. runId' \in Nat
      BY <2>2 DEF Configure
    <3>2. /\ pc' \in [Handlers -> {"none", "setStarting", "configure", "join", "setStop"}]
           /\ stopRequested' \in BOOLEAN /\ hasReport' \in BOOLEAN
      BY <2>2 DEF Configure, Goto
    <3> QED
      BY <2>2, <3>1, <3>2 DEF Configure
  <2>3. CASE Spawn(h)
    BY <2>3 DEF Spawn, Goto
  <2>4. CASE SetStop(h)
    BY <2>4 DEF SetStop, Goto
  <2> QED
    BY <1>3, <2>1, <2>2, <2>3, <2>4 DEF RequestStep
<1>4. CASE RunStep
  <2>1. CASE CreateWorkers
    BY <2>1 DEF CreateWorkers, RunGoto
  <2>2. CASE ResetMetrics
    BY <2>2 DEF ResetMetrics, RunGoto
  <2>3. CASE SetRunning
    BY <2>3 DEF SetRunning
  <2>4. ASSUME NEW w \in Workers, StartWorker(w)
        PROVE TypeOK'
    BY <2>4 DEF StartWorker, RunGoto
  <2>5. ASSUME NEW x \in WorkerThreads, StartThread(x)
        PROVE TypeOK'
    BY <2>5 DEF StartThread, RunGoto
  <2>6. CASE AllStarted
    BY <2>6 DEF AllStarted, Started, RunGoto
  <2>7. CASE WaitEnds
    BY <2>7 DEF WaitEnds, RunGoto
  <2>8. CASE WorkersStopped
    BY <2>8 DEF WorkersStopped, RunGoto
  <2>9. CASE BuildReport
    BY <2>9 DEF BuildReport
  <2>10. CASE SetStopped
    BY <2>10 DEF SetStopped
  <2>11. CASE SetError
    BY <2>11 DEF SetError
  <2>12. CASE RunEnds
    BY <2>12 DEF RunEnds, RunGoto
  <2> QED
    BY <1>4, <2>1, <2>2, <2>3, <2>4, <2>5, <2>6,
       <2>7, <2>8, <2>9, <2>10, <2>11, <2>12 DEF RunStep
<1>5. CASE StartFails
  BY <1>5 DEF StartFails, RunGoto
<1>6. CASE DurationReached
  BY <1>6 DEF DurationReached, RunGoto
<1>7. ASSUME NEW w \in Workers, BeginStop(w)
      PROVE TypeOK'
  BY <1>7 DEF BeginStop, Stopping
<1>8. ASSUME NEW w \in Workers, FinishStop(w)
      PROVE TypeOK'
  BY <1>8 DEF FinishStop
<1>9. ASSUME NEW x \in WorkerThreads, WorkerStep(x) \/ ConnectFails(x) \/ Iterate(x)
      PROVE TypeOK'
  <2>1. CASE Connect(x)
    BY <2>1 DEF Connect, ThreadGoto
  <2>2. CASE Count(x)
    BY <2>2 DEF Count, ThreadGoto
  <2>3. CASE LoopEnds(x)
    BY <2>3 DEF LoopEnds, ThreadGoto
  <2>4. CASE ConnectFails(x)
    BY <2>4 DEF ConnectFails, ThreadGoto
  <2>5. CASE Iterate(x)
    BY <2>5 DEF Iterate, ThreadGoto
  <2> QED
    BY <1>9, <2>1, <2>2, <2>3, <2>4, <2>5 DEF WorkerStep
<1>10. CASE Shutdown
  BY <1>10 DEF Shutdown, AppGoto
<1>11. CASE MainStep
  <2>1. CASE CheckState
    BY <2>1 DEF CheckState, AppGoto
  <2>2. CASE MainStopRun
    <3>1. CASE AcceptStop /\ AppGoto("setStop")
      BY <3>1 DEF AcceptStop, AppGoto
    <3>2. CASE AppGoto("httpStop") /\ UNCHANGED <<engineVars, workerVars>>
      BY <3>2 DEF AppGoto
    <3> QED
      BY <2>2, <3>1, <3>2 DEF MainStopRun
  <2>3. CASE MainSetStop
    BY <2>3 DEF MainSetStop, AppGoto
  <2>4. CASE HttpStop
    BY <2>4 DEF HttpStop, AppGoto
  <2>5. CASE DestroyEngine
    BY <2>5 DEF DestroyEngine, AppGoto
  <2>6. CASE JoinRun
    BY <2>6 DEF JoinRun, AppGoto
  <2>7. CASE FreeMetrics
    BY <2>7 DEF FreeMetrics, AppGoto
  <2>8. CASE Exit
    BY <2>8 DEF Exit, AppGoto
  <2> QED
    BY <1>11, <2>1, <2>2, <2>3, <2>4, <2>5, <2>6, <2>7, <2>8 DEF MainStep
<1>12. CASE UNCHANGED vars
  BY <1>12 DEF vars
<1>13. ASSUME NEW u \in upstreams, UpstreamCounts(u)
      PROVE TypeOK'
  BY <1>13 DEF UpstreamCounts, Detached
<1>14. ASSUME NEW u \in upstreams, UpstreamEnds(u)
      PROVE TypeOK'
  BY <1>14 DEF UpstreamEnds
<1> QED
  BY <1>1, <1>2, <1>3, <1>4, <1>5, <1>6, <1>7,
     <1>8, <1>9, <1>10, <1>11, <1>12,
     <1>13, <1>14 DEF Next, StopStep

\* Every step preserves ThreadInv.
LEMMA NextThreadInv == IInv /\ [Next]_vars => ThreadInv'
<1> SUFFICES ASSUME IInv, [Next]_vars PROVE ThreadInv'
  OBVIOUS
<1> USE BurninAssumption DEF IInv, TypeOK, ThreadInv, WorkerThreads, engineVars, workerVars
<1>1. ASSUME NEW h \in Handlers, StartRun(h)
      PROVE ThreadInv'
  BY <1>1 DEF StartRun, Goto, Serving
<1>2. ASSUME NEW h \in Handlers, StopRun(h)
      PROVE ThreadInv'
  BY <1>2 DEF StopRun, AcceptStop, Goto, Serving
<1>3. ASSUME NEW h \in Handlers, RequestStep(h)
      PROVE ThreadInv'
  <2>1. CASE SetStarting(h)
    BY <2>1 DEF SetStarting, Goto
  <2>2. CASE Configure(h)
    BY <2>2 DEF Configure, Goto
  <2>3. CASE Spawn(h)
    BY <2>3 DEF Spawn, Goto
  <2>4. CASE SetStop(h)
    BY <2>4 DEF SetStop, Goto
  <2> QED
    BY <1>3, <2>1, <2>2, <2>3, <2>4 DEF RequestStep
<1>4. CASE RunStep
  <2>1. CASE CreateWorkers
    BY <2>1 DEF CreateWorkers, RunGoto
  <2>2. CASE ResetMetrics
    BY <2>2 DEF ResetMetrics, RunGoto
  <2>3. CASE SetRunning
    BY <2>3 DEF SetRunning
  <2>4. ASSUME NEW w \in Workers, StartWorker(w)
        PROVE ThreadInv'
    BY <2>4 DEF StartWorker, RunGoto
  <2>5. ASSUME NEW x \in WorkerThreads, StartThread(x)
        PROVE ThreadInv'
    BY <2>5 DEF StartThread, RunGoto
  <2>6. CASE AllStarted
    BY <2>6 DEF AllStarted, Started, RunGoto
  <2>7. CASE WaitEnds
    BY <2>7 DEF WaitEnds, RunGoto
  <2>8. CASE WorkersStopped
    BY <2>8 DEF WorkersStopped, RunGoto
  <2>9. CASE BuildReport
    BY <2>9 DEF BuildReport
  <2>10. CASE SetStopped
    BY <2>10 DEF SetStopped
  <2>11. CASE SetError
    BY <2>11 DEF SetError
  <2>12. CASE RunEnds
    BY <2>12 DEF RunEnds, RunGoto
  <2> QED
    BY <1>4, <2>1, <2>2, <2>3, <2>4, <2>5, <2>6,
       <2>7, <2>8, <2>9, <2>10, <2>11, <2>12 DEF RunStep
<1>5. CASE StartFails
  BY <1>5 DEF StartFails, RunGoto
<1>6. CASE DurationReached
  BY <1>6 DEF DurationReached, RunGoto
<1>7. ASSUME NEW w \in Workers, BeginStop(w)
      PROVE ThreadInv'
  BY <1>7 DEF BeginStop, Stopping
<1>8. ASSUME NEW w \in Workers, FinishStop(w)
      PROVE ThreadInv'
  BY <1>8 DEF FinishStop
<1>9. ASSUME NEW x \in WorkerThreads, WorkerStep(x) \/ ConnectFails(x) \/ Iterate(x)
      PROVE ThreadInv'
  <2>1. CASE Connect(x)
    BY <2>1 DEF Connect, ThreadGoto
  <2>2. CASE Count(x)
    BY <2>2 DEF Count, ThreadGoto
  <2>3. CASE LoopEnds(x)
    BY <2>3 DEF LoopEnds, ThreadGoto
  <2>4. CASE ConnectFails(x)
    BY <2>4 DEF ConnectFails, ThreadGoto
  <2>5. CASE Iterate(x)
    BY <2>5 DEF Iterate, ThreadGoto
  <2> QED
    BY <1>9, <2>1, <2>2, <2>3, <2>4, <2>5 DEF WorkerStep
<1>10. CASE Shutdown
  BY <1>10 DEF Shutdown, AppGoto
<1>11. CASE MainStep
  <2>1. CASE CheckState
    BY <2>1 DEF CheckState, AppGoto
  <2>2. CASE MainStopRun
    BY <2>2 DEF MainStopRun, AcceptStop, AppGoto
  <2>3. CASE MainSetStop
    BY <2>3 DEF MainSetStop, AppGoto
  <2>4. CASE HttpStop
    BY <2>4 DEF HttpStop, AppGoto
  <2>5. CASE DestroyEngine
    BY <2>5 DEF DestroyEngine, AppGoto
  <2>6. CASE JoinRun
    BY <2>6 DEF JoinRun, AppGoto
  <2>7. CASE FreeMetrics
    BY <2>7 DEF FreeMetrics, AppGoto
  <2>8. CASE Exit
    BY <2>8 DEF Exit, AppGoto
  <2> QED
    BY <1>11, <2>1, <2>2, <2>3, <2>4, <2>5, <2>6, <2>7, <2>8 DEF MainStep
<1>12. CASE UNCHANGED vars
  BY <1>12 DEF vars
<1>13. ASSUME NEW u \in upstreams, UpstreamCounts(u)
      PROVE ThreadInv'
  BY <1>13 DEF UpstreamCounts, Detached
<1>14. ASSUME NEW u \in upstreams, UpstreamEnds(u)
      PROVE ThreadInv'
  BY <1>14 DEF UpstreamEnds
<1> QED
  BY <1>1, <1>2, <1>3, <1>4, <1>5, <1>6, <1>7,
     <1>8, <1>9, <1>10, <1>11, <1>12,
     <1>13, <1>14 DEF Next, StopStep

\* Every step preserves StateInv.
LEMMA NextStateInv == IInv /\ [Next]_vars => StateInv'
<1> SUFFICES ASSUME IInv, [Next]_vars PROVE StateInv'
  OBVIOUS
<1> USE BurninAssumption DEF IInv, TypeOK, StateInv, Preparing, Idle, engineVars, workerVars
<1>1. ASSUME NEW h \in Handlers, StartRun(h)
      PROVE StateInv'
  BY <1>1 DEF StartRun, Goto, Serving
<1>2. ASSUME NEW h \in Handlers, StopRun(h)
      PROVE StateInv'
  BY <1>2 DEF StopRun, AcceptStop, Goto, Serving
<1>3. ASSUME NEW h \in Handlers, RequestStep(h)
      PROVE StateInv'
  <2>1. CASE SetStarting(h)
    BY <2>1 DEF SetStarting, Goto
  <2>2. CASE Configure(h)
    BY <2>2 DEF Configure, Goto
  <2>3. CASE Spawn(h)
    BY <2>3 DEF Spawn, Goto
  <2>4. CASE SetStop(h)
    BY <2>4 DEF SetStop, Goto
  <2> QED
    BY <1>3, <2>1, <2>2, <2>3, <2>4 DEF RequestStep
<1>4. CASE RunStep
  <2>1. CASE CreateWorkers
    BY <2>1 DEF CreateWorkers, RunGoto
  <2>2. CASE ResetMetrics
    BY <2>2 DEF ResetMetrics, RunGoto
  <2>3. CASE SetRunning
    BY <2>3 DEF SetRunning
  <2>4. ASSUME NEW w \in Workers, StartWorker(w)
        PROVE StateInv'
    BY <2>4 DEF StartWorker, RunGoto
  <2>5. ASSUME NEW x \in WorkerThreads, StartThread(x)
        PROVE StateInv'
    BY <2>5 DEF StartThread, RunGoto
  <2>6. CASE AllStarted
    BY <2>6 DEF AllStarted, Started, RunGoto
  <2>7. CASE WaitEnds
    BY <2>7 DEF WaitEnds, RunGoto
  <2>8. CASE WorkersStopped
    BY <2>8 DEF WorkersStopped, RunGoto
  <2>9. CASE BuildReport
    BY <2>9 DEF BuildReport
  <2>10. CASE SetStopped
    BY <2>10 DEF SetStopped
  <2>11. CASE SetError
    BY <2>11 DEF SetError
  <2>12. CASE RunEnds
    BY <2>12 DEF RunEnds, RunGoto
  <2> QED
    BY <1>4, <2>1, <2>2, <2>3, <2>4, <2>5, <2>6,
       <2>7, <2>8, <2>9, <2>10, <2>11, <2>12 DEF RunStep
<1>5. CASE StartFails
  BY <1>5 DEF StartFails, RunGoto
<1>6. CASE DurationReached
  BY <1>6 DEF DurationReached, RunGoto
<1>7. ASSUME NEW w \in Workers, BeginStop(w)
      PROVE StateInv'
  BY <1>7 DEF BeginStop, Stopping
<1>8. ASSUME NEW w \in Workers, FinishStop(w)
      PROVE StateInv'
  BY <1>8 DEF FinishStop
<1>9. ASSUME NEW x \in WorkerThreads, WorkerStep(x) \/ ConnectFails(x) \/ Iterate(x)
      PROVE StateInv'
  <2>1. CASE Connect(x)
    BY <2>1 DEF Connect, ThreadGoto
  <2>2. CASE Count(x)
    BY <2>2 DEF Count, ThreadGoto
  <2>3. CASE LoopEnds(x)
    BY <2>3 DEF LoopEnds, ThreadGoto
  <2>4. CASE ConnectFails(x)
    BY <2>4 DEF ConnectFails, ThreadGoto
  <2>5. CASE Iterate(x)
    BY <2>5 DEF Iterate, ThreadGoto
  <2> QED
    BY <1>9, <2>1, <2>2, <2>3, <2>4, <2>5 DEF WorkerStep
<1>10. CASE Shutdown
  BY <1>10 DEF Shutdown, AppGoto
<1>11. CASE MainStep
  <2>1. CASE CheckState
    BY <2>1 DEF CheckState, AppGoto
  <2>2. CASE MainStopRun
    BY <2>2 DEF MainStopRun, AcceptStop, AppGoto
  <2>3. CASE MainSetStop
    BY <2>3 DEF MainSetStop, AppGoto
  <2>4. CASE HttpStop
    BY <2>4 DEF HttpStop, AppGoto
  <2>5. CASE DestroyEngine
    BY <2>5 DEF DestroyEngine, AppGoto
  <2>6. CASE JoinRun
    BY <2>6 DEF JoinRun, AppGoto
  <2>7. CASE FreeMetrics
    BY <2>7 DEF FreeMetrics, AppGoto
  <2>8. CASE Exit
    BY <2>8 DEF Exit, AppGoto
  <2> QED
    BY <1>11, <2>1, <2>2, <2>3, <2>4, <2>5, <2>6, <2>7, <2>8 DEF MainStep
<1>12. CASE UNCHANGED vars
  BY <1>12 DEF vars
<1>13. ASSUME NEW u \in upstreams, UpstreamCounts(u)
      PROVE StateInv'
  BY <1>13 DEF UpstreamCounts, Detached
<1>14. ASSUME NEW u \in upstreams, UpstreamEnds(u)
      PROVE StateInv'
  BY <1>14 DEF UpstreamEnds
<1> QED
  BY <1>1, <1>2, <1>3, <1>4, <1>5, <1>6, <1>7,
     <1>8, <1>9, <1>10, <1>11, <1>12,
     <1>13, <1>14 DEF Next, StopStep

\* Every step preserves WorkerInv.
LEMMA NextWorkerInv == IInv /\ [Next]_vars => WorkerInv'
<1> SUFFICES ASSUME IInv, [Next]_vars PROVE WorkerInv'
  OBVIOUS
<1> USE BurninAssumption DEF IInv, TypeOK, ThreadInv, StateInv, WorkerInv, Preparing,
      Idle, NoWorkers, Quiet, WorkerThreads, engineVars, workerVars
<1>1. ASSUME NEW h \in Handlers, StartRun(h)
      PROVE WorkerInv'
  BY <1>1 DEF StartRun, Goto, Serving
<1>2. ASSUME NEW h \in Handlers, StopRun(h)
      PROVE WorkerInv'
  BY <1>2 DEF StopRun, AcceptStop, Goto, Serving
<1>3. ASSUME NEW h \in Handlers, RequestStep(h)
      PROVE WorkerInv'
  <2>1. CASE SetStarting(h)
    BY <2>1 DEF SetStarting, Goto
  <2>2. CASE Configure(h)
    BY <2>2 DEF Configure, Goto
  <2>3. CASE Spawn(h)
    BY <2>3 DEF Spawn, Goto
  <2>4. CASE SetStop(h)
    BY <2>4 DEF SetStop, Goto
  <2> QED
    BY <1>3, <2>1, <2>2, <2>3, <2>4 DEF RequestStep
<1>4. CASE RunStep
  <2>1. CASE CreateWorkers
    BY <2>1 DEF CreateWorkers, RunGoto
  <2>2. CASE ResetMetrics
    BY <2>2 DEF ResetMetrics, RunGoto
  <2>3. CASE SetRunning
    BY <2>3 DEF SetRunning
  <2>4. ASSUME NEW w \in Workers, StartWorker(w)
        PROVE WorkerInv'
    BY <2>4 DEF StartWorker, RunGoto
  <2>5. ASSUME NEW x \in WorkerThreads, StartThread(x)
        PROVE WorkerInv'
    BY <2>5 DEF StartThread, RunGoto
  <2>6. CASE AllStarted
    BY <2>6 DEF AllStarted, Started, RunGoto
  <2>7. CASE WaitEnds
    BY <2>7 DEF WaitEnds, RunGoto
  <2>8. CASE WorkersStopped
    BY <2>8 DEF WorkersStopped, RunGoto
  <2>9. CASE BuildReport
    BY <2>9 DEF BuildReport
  <2>10. CASE SetStopped
    BY <2>10 DEF SetStopped
  <2>11. CASE SetError
    BY <2>11 DEF SetError
  <2>12. CASE RunEnds
    BY <2>12 DEF RunEnds, RunGoto
  <2> QED
    BY <1>4, <2>1, <2>2, <2>3, <2>4, <2>5, <2>6,
       <2>7, <2>8, <2>9, <2>10, <2>11, <2>12 DEF RunStep
<1>5. CASE StartFails
  BY <1>5 DEF StartFails, RunGoto
<1>6. CASE DurationReached
  BY <1>6 DEF DurationReached, RunGoto
<1>7. ASSUME NEW w \in Workers, BeginStop(w)
      PROVE WorkerInv'
  BY <1>7 DEF BeginStop, Stopping
<1>8. ASSUME NEW w \in Workers, FinishStop(w)
      PROVE WorkerInv'
  BY <1>8 DEF FinishStop
<1>9. ASSUME NEW x \in WorkerThreads, WorkerStep(x) \/ ConnectFails(x) \/ Iterate(x)
      PROVE WorkerInv'
  <2>1. CASE Connect(x)
    BY <2>1 DEF Connect, ThreadGoto
  <2>2. CASE Count(x)
    BY <2>2 DEF Count, ThreadGoto
  <2>3. CASE LoopEnds(x)
    BY <2>3 DEF LoopEnds, ThreadGoto
  <2>4. CASE ConnectFails(x)
    BY <2>4 DEF ConnectFails, ThreadGoto
  <2>5. CASE Iterate(x)
    BY <2>5 DEF Iterate, ThreadGoto
  <2> QED
    BY <1>9, <2>1, <2>2, <2>3, <2>4, <2>5 DEF WorkerStep
<1>10. CASE Shutdown
  BY <1>10 DEF Shutdown, AppGoto
<1>11. CASE MainStep
  <2>1. CASE CheckState
    BY <2>1 DEF CheckState, AppGoto
  <2>2. CASE MainStopRun
    BY <2>2 DEF MainStopRun, AcceptStop, AppGoto
  <2>3. CASE MainSetStop
    BY <2>3 DEF MainSetStop, AppGoto
  <2>4. CASE HttpStop
    BY <2>4 DEF HttpStop, AppGoto
  <2>5. CASE DestroyEngine
    BY <2>5 DEF DestroyEngine, AppGoto
  <2>6. CASE JoinRun
    BY <2>6 DEF JoinRun, AppGoto
  <2>7. CASE FreeMetrics
    BY <2>7 DEF FreeMetrics, AppGoto
  <2>8. CASE Exit
    BY <2>8 DEF Exit, AppGoto
  <2> QED
    BY <1>11, <2>1, <2>2, <2>3, <2>4, <2>5, <2>6, <2>7, <2>8 DEF MainStep
<1>12. CASE UNCHANGED vars
  BY <1>12 DEF vars
<1>13. ASSUME NEW u \in upstreams, UpstreamCounts(u)
      PROVE WorkerInv'
  BY <1>13 DEF UpstreamCounts, Detached
<1>14. ASSUME NEW u \in upstreams, UpstreamEnds(u)
      PROVE WorkerInv'
  BY <1>14 DEF UpstreamEnds
<1> QED
  BY <1>1, <1>2, <1>3, <1>4, <1>5, <1>6, <1>7,
     <1>8, <1>9, <1>10, <1>11, <1>12,
     <1>13, <1>14 DEF Next, StopStep

\* Every step preserves UpstreamInv.
LEMMA NextUpstreamInv == IInv /\ [Next]_vars => UpstreamInv'
<1> SUFFICES ASSUME IInv, [Next]_vars PROVE UpstreamInv'
  OBVIOUS
<1> USE BurninAssumption DEF IInv, TypeOK, ThreadInv, StateInv, WorkerInv, UpstreamInv, Detached, Preparing,
      Idle, NoWorkers, Quiet, WorkerThreads, engineVars, workerVars
<1>1. ASSUME NEW h \in Handlers, StartRun(h)
      PROVE UpstreamInv'
  BY <1>1 DEF StartRun, Goto, Serving
<1>2. ASSUME NEW h \in Handlers, StopRun(h)
      PROVE UpstreamInv'
  BY <1>2 DEF StopRun, AcceptStop, Goto, Serving
<1>3. ASSUME NEW h \in Handlers, RequestStep(h)
      PROVE UpstreamInv'
  <2>1. CASE SetStarting(h)
    BY <2>1 DEF SetStarting, Goto
  <2>2. CASE Configure(h)
    BY <2>2 DEF Configure, Goto
  <2>3. CASE Spawn(h)
    BY <2>3 DEF Spawn, Goto
  <2>4. CASE SetStop(h)
    BY <2>4 DEF SetStop, Goto
  <2> QED
    BY <1>3, <2>1, <2>2, <2>3, <2>4 DEF RequestStep
<1>4. CASE RunStep
  <2>1. CASE CreateWorkers
    BY <2>1 DEF CreateWorkers, RunGoto
  <2>2. CASE ResetMetrics
    BY <2>2 DEF ResetMetrics, RunGoto
  <2>3. CASE SetRunning
    BY <2>3 DEF SetRunning
  <2>4. ASSUME NEW w \in Workers, StartWorker(w)
        PROVE UpstreamInv'
    BY <2>4 DEF StartWorker, RunGoto
  <2>5. ASSUME NEW x \in WorkerThreads, StartThread(x)
        PROVE UpstreamInv'
    BY <2>5 DEF StartThread, RunGoto
  <2>6. CASE AllStarted
    BY <2>6 DEF AllStarted, Started, RunGoto
  <2>7. CASE WaitEnds
    BY <2>7 DEF WaitEnds, RunGoto
  <2>8. CASE WorkersStopped
    BY <2>8 DEF WorkersStopped, RunGoto
  <2>9. CASE BuildReport
    BY <2>9 DEF BuildReport
  <2>10. CASE SetStopped
    BY <2>10 DEF SetStopped
  <2>11. CASE SetError
    BY <2>11 DEF SetError
  <2>12. CASE RunEnds
    BY <2>12 DEF RunEnds, RunGoto
  <2> QED
    BY <1>4, <2>1, <2>2, <2>3, <2>4, <2>5, <2>6,
       <2>7, <2>8, <2>9, <2>10, <2>11, <2>12 DEF RunStep
<1>5. CASE StartFails
  BY <1>5 DEF StartFails, RunGoto
<1>6. CASE DurationReached
  BY <1>6 DEF DurationReached, RunGoto
<1>7. ASSUME NEW w \in Workers, BeginStop(w)
      PROVE UpstreamInv'
  BY <1>7 DEF BeginStop, Stopping
<1>8. ASSUME NEW w \in Workers, FinishStop(w)
      PROVE UpstreamInv'
  BY <1>8 DEF FinishStop
<1>9. ASSUME NEW x \in WorkerThreads, WorkerStep(x) \/ ConnectFails(x) \/ Iterate(x)
      PROVE UpstreamInv'
  <2>1. CASE Connect(x)
    BY <2>1 DEF Connect, ThreadGoto
  <2>2. CASE Count(x)
    BY <2>2 DEF Count, ThreadGoto
  <2>3. CASE LoopEnds(x)
    BY <2>3 DEF LoopEnds, ThreadGoto
  <2>4. CASE ConnectFails(x)
    BY <2>4 DEF ConnectFails, ThreadGoto
  <2>5. CASE Iterate(x)
    BY <2>5 DEF Iterate, ThreadGoto
  <2> QED
    BY <1>9, <2>1, <2>2, <2>3, <2>4, <2>5 DEF WorkerStep
<1>10. CASE Shutdown
  BY <1>10 DEF Shutdown, AppGoto
<1>11. CASE MainStep
  <2>1. CASE CheckState
    BY <2>1 DEF CheckState, AppGoto
  <2>2. CASE MainStopRun
    BY <2>2 DEF MainStopRun, AcceptStop, AppGoto
  <2>3. CASE MainSetStop
    BY <2>3 DEF MainSetStop, AppGoto
  <2>4. CASE HttpStop
    BY <2>4 DEF HttpStop, AppGoto
  <2>5. CASE DestroyEngine
    BY <2>5 DEF DestroyEngine, AppGoto
  <2>6. CASE JoinRun
    BY <2>6 DEF JoinRun, AppGoto
  <2>7. CASE FreeMetrics
    BY <2>7 DEF FreeMetrics, AppGoto
  <2>8. CASE Exit
    BY <2>8 DEF Exit, AppGoto
  <2> QED
    BY <1>11, <2>1, <2>2, <2>3, <2>4, <2>5, <2>6, <2>7, <2>8 DEF MainStep
<1>12. CASE UNCHANGED vars
  BY <1>12 DEF vars
<1>13. ASSUME NEW u \in upstreams, UpstreamCounts(u)
      PROVE UpstreamInv'
  BY <1>13 DEF UpstreamCounts, Detached
<1>14. ASSUME NEW u \in upstreams, UpstreamEnds(u)
      PROVE UpstreamInv'
  BY <1>14 DEF UpstreamEnds
<1> QED
  BY <1>1, <1>2, <1>3, <1>4, <1>5, <1>6, <1>7,
     <1>8, <1>9, <1>10, <1>11, <1>12,
     <1>13, <1>14 DEF Next, StopStep

\* Every step preserves ReportInv.
LEMMA NextReportInv == IInv /\ [Next]_vars => ReportInv'
<1> SUFFICES ASSUME IInv, [Next]_vars PROVE ReportInv'
  OBVIOUS
<1> USE BurninAssumption DEF IInv, TypeOK, ThreadInv, StateInv, WorkerInv, ReportInv,
      Preparing, Idle, NoWorkers, WorkerThreads, engineVars, workerVars
<1>1. ASSUME NEW h \in Handlers, StartRun(h)
      PROVE ReportInv'
  BY <1>1 DEF StartRun, Goto, Serving
<1>2. ASSUME NEW h \in Handlers, StopRun(h)
      PROVE ReportInv'
  BY <1>2 DEF StopRun, AcceptStop, Goto, Serving
<1>3. ASSUME NEW h \in Handlers, RequestStep(h)
      PROVE ReportInv'
  <2>1. CASE SetStarting(h)
    BY <2>1 DEF SetStarting, Goto
  <2>2. CASE Configure(h)
    BY <2>2 DEF Configure, Goto
  <2>3. CASE Spawn(h)
    BY <2>3 DEF Spawn, Goto
  <2>4. CASE SetStop(h)
    BY <2>4 DEF SetStop, Goto
  <2> QED
    BY <1>3, <2>1, <2>2, <2>3, <2>4 DEF RequestStep
<1>4. CASE RunStep
  <2>1. CASE CreateWorkers
    BY <2>1 DEF CreateWorkers, RunGoto
  <2>2. CASE ResetMetrics
    BY <2>2 DEF ResetMetrics, RunGoto
  <2>3. CASE SetRunning
    BY <2>3 DEF SetRunning
  <2>4. ASSUME NEW w \in Workers, StartWorker(w)
        PROVE ReportInv'
    BY <2>4 DEF StartWorker, RunGoto
  <2>5. ASSUME NEW x \in WorkerThreads, StartThread(x)
        PROVE ReportInv'
    BY <2>5 DEF StartThread, RunGoto
  <2>6. CASE AllStarted
    BY <2>6 DEF AllStarted, Started, RunGoto
  <2>7. CASE WaitEnds
    BY <2>7 DEF WaitEnds, RunGoto
  <2>8. CASE WorkersStopped
    BY <2>8 DEF WorkersStopped, RunGoto
  <2>9. CASE BuildReport
    BY <2>9 DEF BuildReport
  <2>10. CASE SetStopped
    BY <2>10 DEF SetStopped
  <2>11. CASE SetError
    BY <2>11 DEF SetError
  <2>12. CASE RunEnds
    BY <2>12 DEF RunEnds, RunGoto
  <2> QED
    BY <1>4, <2>1, <2>2, <2>3, <2>4, <2>5, <2>6,
       <2>7, <2>8, <2>9, <2>10, <2>11, <2>12 DEF RunStep
<1>5. CASE StartFails
  BY <1>5 DEF StartFails, RunGoto
<1>6. CASE DurationReached
  BY <1>6 DEF DurationReached, RunGoto
<1>7. ASSUME NEW w \in Workers, BeginStop(w)
      PROVE ReportInv'
  BY <1>7 DEF BeginStop, Stopping
<1>8. ASSUME NEW w \in Workers, FinishStop(w)
      PROVE ReportInv'
  BY <1>8 DEF FinishStop
<1>9. ASSUME NEW x \in WorkerThreads, WorkerStep(x) \/ ConnectFails(x) \/ Iterate(x)
      PROVE ReportInv'
  <2>1. CASE Connect(x)
    BY <2>1 DEF Connect, ThreadGoto
  <2>2. CASE Count(x)
    BY <2>2 DEF Count, ThreadGoto
  <2>3. CASE LoopEnds(x)
    BY <2>3 DEF LoopEnds, ThreadGoto
  <2>4. CASE ConnectFails(x)
    BY <2>4 DEF ConnectFails, ThreadGoto
  <2>5. CASE Iterate(x)
    BY <2>5 DEF Iterate, ThreadGoto
  <2> QED
    BY <1>9, <2>1, <2>2, <2>3, <2>4, <2>5 DEF WorkerStep
<1>10. CASE Shutdown
  BY <1>10 DEF Shutdown, AppGoto
<1>11. CASE MainStep
  <2>1. CASE CheckState
    BY <2>1 DEF CheckState, AppGoto
  <2>2. CASE MainStopRun
    BY <2>2 DEF MainStopRun, AcceptStop, AppGoto
  <2>3. CASE MainSetStop
    BY <2>3 DEF MainSetStop, AppGoto
  <2>4. CASE HttpStop
    BY <2>4 DEF HttpStop, AppGoto
  <2>5. CASE DestroyEngine
    BY <2>5 DEF DestroyEngine, AppGoto
  <2>6. CASE JoinRun
    BY <2>6 DEF JoinRun, AppGoto
  <2>7. CASE FreeMetrics
    BY <2>7 DEF FreeMetrics, AppGoto
  <2>8. CASE Exit
    BY <2>8 DEF Exit, AppGoto
  <2> QED
    BY <1>11, <2>1, <2>2, <2>3, <2>4, <2>5, <2>6, <2>7, <2>8 DEF MainStep
<1>12. CASE UNCHANGED vars
  BY <1>12 DEF vars
<1>13. ASSUME NEW u \in upstreams, UpstreamCounts(u)
      PROVE ReportInv'
  BY <1>13 DEF UpstreamCounts, Detached
<1>14. ASSUME NEW u \in upstreams, UpstreamEnds(u)
      PROVE ReportInv'
  BY <1>14 DEF UpstreamEnds
<1> QED
  BY <1>1, <1>2, <1>3, <1>4, <1>5, <1>6, <1>7,
     <1>8, <1>9, <1>10, <1>11, <1>12,
     <1>13, <1>14 DEF Next, StopStep

\* Every step preserves StopInv.
LEMMA NextStopInv == IInv /\ [Next]_vars => StopInv'
<1> SUFFICES ASSUME IInv, [Next]_vars PROVE StopInv'
  OBVIOUS
<1> USE BurninAssumption DEF IInv, TypeOK, StateInv, StopInv, StopNotLost, StopPending, engineVars, workerVars
<1>1. ASSUME NEW h \in Handlers, StartRun(h)
      PROVE StopInv'
  BY <1>1 DEF StartRun, Goto, Serving
<1>2. ASSUME NEW h \in Handlers, StopRun(h)
      PROVE StopInv'
  BY <1>2 DEF StopRun, AcceptStop, Goto, Serving
<1>3. ASSUME NEW h \in Handlers, RequestStep(h)
      PROVE StopInv'
  <2>1. CASE SetStarting(h)
    BY <2>1 DEF SetStarting, Goto
  <2>2. CASE Configure(h)
    BY <2>2 DEF Configure, Goto
  <2>3. CASE Spawn(h)
    BY <2>3 DEF Spawn, Goto
  <2>4. CASE SetStop(h)
    BY <2>4 DEF SetStop, Goto
  <2> QED
    BY <1>3, <2>1, <2>2, <2>3, <2>4 DEF RequestStep
<1>4. CASE RunStep
  <2>1. CASE CreateWorkers
    BY <2>1 DEF CreateWorkers, RunGoto
  <2>2. CASE ResetMetrics
    BY <2>2 DEF ResetMetrics, RunGoto
  <2>3. CASE SetRunning
    BY <2>3 DEF SetRunning
  <2>4. ASSUME NEW w \in Workers, StartWorker(w)
        PROVE StopInv'
    BY <2>4 DEF StartWorker, RunGoto
  <2>5. ASSUME NEW x \in WorkerThreads, StartThread(x)
        PROVE StopInv'
    BY <2>5 DEF StartThread, RunGoto
  <2>6. CASE AllStarted
    BY <2>6 DEF AllStarted, Started, RunGoto
  <2>7. CASE WaitEnds
    BY <2>7 DEF WaitEnds, RunGoto
  <2>8. CASE WorkersStopped
    BY <2>8 DEF WorkersStopped, RunGoto
  <2>9. CASE BuildReport
    BY <2>9 DEF BuildReport
  <2>10. CASE SetStopped
    BY <2>10 DEF SetStopped
  <2>11. CASE SetError
    BY <2>11 DEF SetError
  <2>12. CASE RunEnds
    BY <2>12 DEF RunEnds, RunGoto
  <2> QED
    BY <1>4, <2>1, <2>2, <2>3, <2>4, <2>5, <2>6,
       <2>7, <2>8, <2>9, <2>10, <2>11, <2>12 DEF RunStep
<1>5. CASE StartFails
  BY <1>5 DEF StartFails, RunGoto
<1>6. CASE DurationReached
  BY <1>6 DEF DurationReached, RunGoto
<1>7. ASSUME NEW w \in Workers, BeginStop(w)
      PROVE StopInv'
  BY <1>7 DEF BeginStop, Stopping
<1>8. ASSUME NEW w \in Workers, FinishStop(w)
      PROVE StopInv'
  BY <1>8 DEF FinishStop
<1>9. ASSUME NEW x \in WorkerThreads, WorkerStep(x) \/ ConnectFails(x) \/ Iterate(x)
      PROVE StopInv'
  <2>1. CASE Connect(x)
    BY <2>1 DEF Connect, ThreadGoto
  <2>2. CASE Count(x)
    BY <2>2 DEF Count, ThreadGoto
  <2>3. CASE LoopEnds(x)
    BY <2>3 DEF LoopEnds, ThreadGoto
  <2>4. CASE ConnectFails(x)
    BY <2>4 DEF ConnectFails, ThreadGoto
  <2>5. CASE Iterate(x)
    BY <2>5 DEF Iterate, ThreadGoto
  <2> QED
    BY <1>9, <2>1, <2>2, <2>3, <2>4, <2>5 DEF WorkerStep
<1>10. CASE Shutdown
  BY <1>10 DEF Shutdown, AppGoto
<1>11. CASE MainStep
  <2>1. CASE CheckState
    BY <2>1 DEF CheckState, AppGoto
  <2>2. CASE MainStopRun
    BY <2>2 DEF MainStopRun, AcceptStop, AppGoto
  <2>3. CASE MainSetStop
    BY <2>3 DEF MainSetStop, AppGoto
  <2>4. CASE HttpStop
    BY <2>4 DEF HttpStop, AppGoto
  <2>5. CASE DestroyEngine
    BY <2>5 DEF DestroyEngine, AppGoto
  <2>6. CASE JoinRun
    BY <2>6 DEF JoinRun, AppGoto
  <2>7. CASE FreeMetrics
    BY <2>7 DEF FreeMetrics, AppGoto
  <2>8. CASE Exit
    BY <2>8 DEF Exit, AppGoto
  <2> QED
    BY <1>11, <2>1, <2>2, <2>3, <2>4, <2>5, <2>6, <2>7, <2>8 DEF MainStep
<1>12. CASE UNCHANGED vars
  BY <1>12 DEF vars
<1>13. ASSUME NEW u \in upstreams, UpstreamCounts(u)
      PROVE StopInv'
  BY <1>13 DEF UpstreamCounts, Detached
<1>14. ASSUME NEW u \in upstreams, UpstreamEnds(u)
      PROVE StopInv'
  BY <1>14 DEF UpstreamEnds
<1> QED
  BY <1>1, <1>2, <1>3, <1>4, <1>5, <1>6, <1>7,
     <1>8, <1>9, <1>10, <1>11, <1>12,
     <1>13, <1>14 DEF Next, StopStep

-----------------------------------------------------------------------------
\* The inductive invariant holds in every reachable state.
THEOREM Inductive == Spec => []IInv
<1>1. IInv /\ [Next]_vars => IInv'
  BY NextTypeOK, NextThreadInv, NextStateInv, NextWorkerInv,
     NextUpstreamInv, NextReportInv, NextStopInv DEF IInv
<1> QED
  BY InitIInv, <1>1, PTL DEF Spec

\* Type correctness of the engine, its workers and main.
THEOREM TypeCorrect == Spec => []TypeOK
<1>1. IInv => TypeOK
  BY DEF IInv
<1> QED
  BY Inductive, <1>1, PTL

\* A report that can be fetched is that of the run the engine shows, and only
\* detached upstreams make the counters differ from it.
THEOREM ReportIsFinal == Spec => []ReportFinal
<1>1. IInv => ReportFinal
  BY DEF IInv, TypeOK, ThreadInv, ReportInv, ReportFinal, NoWorkers, Quiet, WorkerThreads
<1> QED
  BY Inductive, <1>1, PTL

\* The counters hold what the workers of one run did, detached upstreams apart.
THEOREM OwnCounts == Spec => []CountsOwnRun
<1>1. IInv => CountsOwnRun
  BY DEF IInv, WorkerInv, UpstreamInv, Detached, CountsOwnRun
<1> QED
  BY Inductive, <1>1, PTL

\* A run is prepared only when the last one has ended.
THEOREM SingleRun == Spec => []OneRun
<1>1. IInv => OneRun
  BY DEF IInv, StateInv, Preparing, Idle, OneRun
<1> QED
  BY Inductive, <1>1, PTL

\* At the end only detached upstreams and the threads of a failed run use the
\* freed counters.
THEOREM OnlyDetachedUseFreed == Spec => []OnlyDetachedLeft
<1>1. IInv => OnlyDetachedLeft
  <2> SUFFICES ASSUME IInv, app \in {"freeWorkers", "down"}, state # "error"
               PROVE Quiet /\ \A u \in upstreams : Detached(u)
    BY DEF OnlyDetachedLeft
  <2>1. NoWorkers
    BY DEF IInv, StateInv, WorkerInv, Idle
  <2>2. Quiet
    BY <2>1 DEF IInv, TypeOK, ThreadInv, NoWorkers, Quiet, WorkerThreads
  <2>3. \A u \in upstreams : u[1] \in Workers
    BY BurninAssumption DEF IInv, TypeOK
  <2> QED
    BY <2>1, <2>2, <2>3 DEF NoWorkers, Detached
<1> QED
  BY Inductive, <1>1, PTL

\* A stop that was accepted while the run was running is not lost.
THEOREM StopKept == Spec => []StopNotLost
<1>1. IInv => StopNotLost
  BY DEF IInv, StopInv
<1> QED
  BY Inductive, <1>1, PTL
=============================================================================
