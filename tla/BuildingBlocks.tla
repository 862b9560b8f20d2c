--------------------------- MODULE BuildingBlocks ---------------------------
(***************************************************************************)
(* The parts of the library that work alone, each driven through every     *)
(* sequence of its calls: a builder, the message buffer, the reconnection  *)
(* loop with its thread, a retried call, and the options of a client.      *)
(* They share no state; a behaviour exercises one of them.                 *)
(***************************************************************************)
EXTENDS Builders, MessageBuffer, ReconnectLoop, Retry, ClientOptions

VARIABLE subject \* the part this behaviour exercises

vars == <<subject, builderVars, bufferVars, loopVars, retryVars, optionVars>>

\* The parts a behaviour does not exercise have one initial state each.
Init ==
  /\ subject \in {"builder", "buffer", "loop", "retry", "options"}
  /\ BuilderInit /\ BufferInit /\ LoopInit /\ RetryInit /\ OptionsInit
  /\ subject # "builder" => kind = CHOOSE k \in Kinds : TRUE
  /\ subject # "loop" => maxAttempts = CHOOSE n \in AttemptLimits : TRUE
  /\ subject # "retry" => ~isIdempotent /\ maxRetries = CHOOSE n \in RetryLimits : TRUE

UseBuilder ==
  subject = "builder" /\ BuilderNext /\ UNCHANGED <<subject, bufferVars, loopVars, retryVars, optionVars>>
UseBuffer ==
  subject = "buffer" /\ BufferNext /\ UNCHANGED <<subject, builderVars, loopVars, retryVars, optionVars>>
UseLoop ==
  subject = "loop" /\ LoopNext /\ UNCHANGED <<subject, builderVars, bufferVars, retryVars, optionVars>>
UseRetry ==
  subject = "retry" /\ RetryNext /\ UNCHANGED <<subject, builderVars, bufferVars, loopVars, optionVars>>
UseOptions ==
  subject = "options" /\ OptionsNext /\ UNCHANGED <<subject, builderVars, bufferVars, loopVars, retryVars>>

Next == UseBuilder \/ UseBuffer \/ UseLoop \/ UseRetry \/ UseOptions

\* The application may leave any part alone; the loop's own thread runs on.
Spec == Init /\ [][Next]_vars /\ LoopFairness

=============================================================================
