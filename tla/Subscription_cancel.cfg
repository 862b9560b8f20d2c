\* One application thread, one re-subscription.
CONSTANTS
  Users = {u1}
  MaxStreams = 2
  MaxBackoff = 2
  CallbackCalls = {}
SPECIFICATION FairSpec
CHECK_DEADLOCK FALSE
PROPERTIES CancelTearsDown
