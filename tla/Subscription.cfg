\* Two application threads, one re-subscription; on_event may cancel and wait.
CONSTANTS
  Users = {u1, u2}
  MaxStreams = 2
  MaxBackoff = 2
  CallbackCalls = {"Cancel", "Wait"}
SPECIFICATION FairSpec
CHECK_DEADLOCK FALSE
INVARIANTS CancelReachesReader FreedAfterReader JoinedOnce
PROPERTIES ImplementsLifecycle CancelEndsReader
