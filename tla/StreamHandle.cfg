\* Two application threads, two messages; on_result may call everything.
CONSTANTS
  Users = {u1, u2}
  MaxSends = 2
  CallbackCalls = {"Send", "Close", "SetOnResult"}
SPECIFICATION FairSpec
CHECK_DEADLOCK FALSE
INVARIANTS WriteDiscipline CloseFlushes TerminatesOnlyIfReaderFirst
PROPERTIES CloseReturns
