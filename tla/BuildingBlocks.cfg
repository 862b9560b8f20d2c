\* The parts that work alone.  Every builder class, each text empty or not, each number zero or not.
CONSTANTS
  Spaced = {"a b"}
  Dotted = {"a."}
  Wild = {"a.*"}
  Int32Half = 8
  Kinds = {"Event", "EventStore", "Command", "CommandReply", "Query", "QueryReply", "QueueMessage"}
  Texts = {"", "x"}
  Numbers = {0, 1}
  ClientId = "client"
\* A buffer of three slots that wraps twice; a limit of attempts and none.
  CapacityAsked = 3
  MaxPushes = 7
  AttemptLimits = {0, 2}
  InitialDelay = 2
  MaxDelay = 5
  Multiplier = 2
  JitterMode = "kEqual"
  MaxBackoffs = 2
  MaxStarts = 3
  RetryLimits = {0, 1, 2}
\* One options object for two clients; the last port and the first that is none.
  Addresses <- MCAddresses
  Ports = {65535, 65536}
  ClientIds = {"", "id"}
  Limits = {"connection_timeout"}
  LimitValues = {0, 1}
  MaxRetryValues = {10, 11}
  Paths = {"", "file"}
  Pems = {"", "pem"}
  FileContents = {"missing", "", "text"}
  MaxCreates = 2
SPECIFICATION Spec
CHECK_DEADLOCK FALSE
INVARIANTS NothingCarriedOver RoundTrip AttemptsAsAsked RetryPolicyKept CreatedAsAsked
PROPERTIES ImplementsQueue ControlReturns
