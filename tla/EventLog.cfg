\* A subscription of either kind, two messages, two broken streams.
CONSTANTS
  Spaced = {"b c"}
  Dotted = {}
  Wild = {}
  Int32Half = 20000
  Readers = {r1, r2}
  StoreReaders = {r1}
  Options <- AllOptions
  Bodies = {"", "x"}
  Channels = {"", "a"}
  MaxEvents = 2
  MaxBreaks = 2
  MaxTime = 1
  MaxSubscribed = 1
  ClientId = "client"
  DefaultChannel = "a"
  AuthToken = ""
  ProviderAnswers = {"kOk"}
SPECIFICATION LogFairSpec
CHECK_DEADLOCK FALSE
INVARIANTS ReplayIsExact ConfirmedIsStored
PROPERTIES ReplayIsComplete
