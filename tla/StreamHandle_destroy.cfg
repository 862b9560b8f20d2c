\* One application thread, no message; on_result calls nothing.
CONSTANTS
  Users = {u1}
  MaxSends = 0
  CallbackCalls = {}
SPECIFICATION Spec
CHECK_DEADLOCK FALSE
INVARIANTS DestructorCleansUp
