\* Two HTTP threads, one queue_stream worker with its two threads and its upstream, two runs.
CONSTANTS
  Handlers = {h1, h2}
  Starter = h1
  Workers = {w1}
  Streaming = {w1}
  MaxRuns = 2
  MaxCounts = 2
SPECIFICATION FairSpec
CHECK_DEADLOCK FALSE
INVARIANTS ReportFinal CountsOwnRun StopNotLost
PROPERTIES ShutdownCompletes
