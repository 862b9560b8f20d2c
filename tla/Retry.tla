-------------------------------- MODULE Retry --------------------------------
(***************************************************************************)
(* RetryUnary of retry.cc: an operation is called until it succeeds, fails *)
(* with a code that is not retried, or has been retried max_retries times. *)
(***************************************************************************)
EXTENDS Messages

CONSTANT RetryLimits \* values of policy.max_retries

ASSUME RetryAssumption == RetryLimits \subseteq Int

VARIABLES
  maxRetries, isIdempotent, \* the arguments of RetryUnary
  executions, \* calls of the operation so far
  outcomes,   \* the codes it returned, in order
  returned    \* what RetryUnary returned, or "none"

retryVars == <<maxRetries, isIdempotent, executions, outcomes, returned>>

RetryInit ==
  /\ maxRetries \in RetryLimits /\ isIdempotent \in BOOLEAN
  /\ executions = 0 /\ outcomes = <<>> /\ returned = "none"

\* Variant: a timeout is retried whether or not the operation is idempotent.
ShouldRetryTimeouts(code) == IsRetryable(code)

ShouldRetry(code) == IsRetryable(code) /\ (isIdempotent \/ code # "kTimeout")

\* The operation is called once; attempt is the number of calls before.
\* (Between two calls the thread sleeps.)
Attempt ==
  /\ returned = "none"
  /\ \E code \in ErrorCode :
       /\ outcomes' = Append(outcomes, code)
       /\ executions' = executions + 1
       /\ returned' = IF code # "kOk" /\ executions < maxRetries /\ ShouldRetry(code)
                      THEN "none" ELSE code
  /\ UNCHANGED <<maxRetries, isIdempotent>>

RetryNext == Attempt

-----------------------------------------------------------------------------
(***************************************************************************)
(* An operation that is not idempotent is never executed again after a     *)
(* timeout, when it may have taken effect; nothing is executed again after *)
(* a success or a permanent error.                                         *)
(***************************************************************************)
NoUnsafeRepeat ==
  \A i \in 1..Len(outcomes) - 1 :
    /\ outcomes[i] \in {"kTransient", "kTimeout", "kThrottling"}
    /\ ~isIdempotent => outcomes[i] # "kTimeout"

(***************************************************************************)
(* What is returned is the last outcome, and a retryable failure is only   *)
(* returned when the retries are used up.                                  *)
(***************************************************************************)
RetriesAreUsed ==
  returned # "none" =>
    /\ returned = outcomes[Len(outcomes)]
    /\ Len(outcomes) <= 1 + (IF maxRetries > 0 THEN maxRetries ELSE 0)
    /\ returned \in {"kTransient", "kThrottling"} /\ maxRetries > 0 => Len(outcomes) = 1 + maxRetries

(* RetryUnary repeats what is safe to repeat, and does not give up early. *)
RetryPolicyKept == NoUnsafeRepeat /\ RetriesAreUsed

-----------------------------------------------------------------------------
(***************************************************************************)
(* Why RetryPolicyKept holds: until RetryUnary returns, every outcome is   *)
(* one that may be repeated, and there are no more of them than retries.   *)
(***************************************************************************)
RetryTypeOK ==
  /\ maxRetries \in RetryLimits /\ isIdempotent \in BOOLEAN
  /\ outcomes \in Seq(ErrorCode) /\ executions = Len(outcomes)
  /\ returned \in ErrorCode \cup {"none"}

PendingInv ==
  returned = "none" =>
    /\ \A i \in 1..Len(outcomes) : outcomes[i] # "kOk" /\ ShouldRetry(outcomes[i])
    /\ outcomes # <<>> => Len(outcomes) <= maxRetries

RetryInv == RetryTypeOK /\ PendingInv /\ RetryPolicyKept

=============================================================================
