\* Two senders, one subscription of each kind, two calls in all, two answers.
CONSTANTS
  Spaced = {"b c"}
  Dotted = {}
  Wild = {"a.*"}
  Int32Half = 20000
  Senders = {s1, s2}
  Administrators = {s1, s2}
  Readers = {r1, r2}
  CommandReaders = {r1}
  ReplyChannels = {"rc1", "rc2"}
  Channels = {"", "a", "b c"}
  Bodies = {"", "x"}
  Timeouts = {0, 500, 20100}
  Ids = {"dup"}
  CacheKeys = {"k"}
  Ttls = {1500}
  ChannelNames = {"", "a"}
  ClientId = "client"
  DefaultChannel = "a"
  DefaultCacheTtl = 0
  AuthToken = ""
  ProviderAnswers = {"kOk", "kAuthentication"}
  MaxReplies = 2
SPECIFICATION Spec
SYMMETRY SenderSymmetry
CHECK_DEADLOCK FALSE
INVARIANTS AnswerIsHandlers HandlersSeeValidRequests DeadlineIsAsked ManagementTookEffect
