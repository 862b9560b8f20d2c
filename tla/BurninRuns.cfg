\* A worker of every class with three messages and two errors of the receiving
\* side; two runs with any of the bodies, two counts in each.
CONSTANTS
  Classes = {"events", "events_store", "queue_stream", "queue_simple", "commands", "queries"}
  MaxMessages = 3
  MaxErrors = 2
  Bodies <- SomeBodies
  Startups <- SomeStartups
  MaxRuns = 2
  MaxCounts = 2
SPECIFICATION RunsSpec
CHECK_DEADLOCK FALSE
INVARIANTS CountersAreTrue ViewsAreTrue ReportIsOfThisRun
PROPERTIES QuietAfterStop
