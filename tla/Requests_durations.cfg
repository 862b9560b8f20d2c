\* The instance of Requests.cfg, for the timeout a handler is told.
CONSTANTS
  Spaced = {"b c"}
  Dotted = {}
  Wild = {"a.*"}
  Int32Half = 20000
  Senders = {s1, s2}
  Administrators = {s2}
  Readers = {r1, r2}
  CommandReaders = {r1}
  ReplyChannels = {"rc1", "rc2"}
  Channels = {"", "a", "b c"}
  Bodies = {"", "x"}
  Timeouts = {0, 500}
  Ids = {"dup"}
  CacheKeys = {"k"}
  Ttls = {1500}
  ChannelNames = {"", "a"}
  ClientId = "client"
  DefaultChannel = "a"
  DefaultCacheTtl = 0
  AuthToken = ""
  ProviderAnswers = {"kOk", "kAuthentication"}
  MaxReplies = 3
SPECIFICATION Spec
CHECK_DEADLOCK FALSE
INVARIANTS DurationsTravel
