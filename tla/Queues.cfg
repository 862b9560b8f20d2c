\* Two threads, two messages, two Gets, one settlement on its way; two callers,
\* three operations, two messages: a batch of two is received by one caller,
\* peeked at or purged by the other.
CONSTANTS
  Users = {u1, u2}
  Msgs = {m1, m2}
  MaxPolls = 2
  MaxSettles = 1
  Spaced = {"b c"}
  Dotted = {}
  Wild = {}
  Int32Half = 20000
  Callers = {c1, c2}
  Texts = {"", "x"}
  Channels = {"", "a", "b c"}
  Counts = {1}
  Waits = {0, 5}
  RequestIds = {""}
  MaxCalls = 3
  MaxStored = 2
  MaxBatch = 2
  ClientId = "client"
  DefaultChannel = "a"
  AuthToken = ""
  ProviderAnswers = {"kOk", "kAuthentication"}
SPECIFICATION QueuesSpec
CHECK_DEADLOCK FALSE
INVARIANTS OwnAnswer SettledWereDelivered ResultsAreTrue Accounted DeadlineOutlivesWait
PROPERTIES CallsReturn
