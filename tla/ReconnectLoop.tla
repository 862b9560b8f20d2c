---------------------------- MODULE ReconnectLoop ----------------------------
(***************************************************************************)
(* The background reconnection of reconnect.cc: Start and Stop called by a *)
(* controlling thread, and the thread that tries to connect, waits for the *)
(* back-off on a condition variable, and ends by itself when it succeeds   *)
(* or runs out of attempts.  A step is one critical section of mu_, one    *)
(* atomic load outside it, or one call of connect_fn.                      *)
(***************************************************************************)
EXTENDS Integers

CONSTANTS
  AttemptLimits, \* values of policy_.max_attempts, 0 for no limit
  InitialDelay, MaxDelay, Multiplier, JitterMode, \* the rest of the policy
  MaxBackoffs,   \* bound on the attempts that are counted
  MaxStarts      \* bound on the calls of Start

ASSUME ReconnectLoopAssumption ==
  /\ AttemptLimits \subseteq Nat /\ InitialDelay \in Nat /\ MaxDelay \in Nat /\ Multiplier \in Nat
  /\ JitterMode \in {"kNone", "kFull", "kEqual"} /\ MaxBackoffs \in Nat /\ MaxStarts \in Nat

VARIABLES
  maxAttempts, \* policy_.max_attempts of this object
  running, stopRequested, \* the atomics
  joinable,  \* thread_ holds a thread
  worker,    \* where that thread is: "none", "test", "connect", "wait", "leave", "ended"
  attempt,   \* its local counter
  delay,     \* the back-off it waits for
  control,   \* where the controlling thread is: "idle", "joinStart", "joinStop", "destroyed"
  starts,    \* calls of Start
  tries,     \* calls of connect_fn by the present thread
  stopped    \* Stop has returned and Start was not called since

loopVars == <<maxAttempts, running, stopRequested, joinable, worker, attempt, delay, control, starts,
              tries, stopped>>

LoopInit ==
  /\ maxAttempts \in AttemptLimits
  /\ running = FALSE /\ stopRequested = FALSE /\ joinable = FALSE
  /\ worker = "none" /\ attempt = 0 /\ delay = 0
  /\ control = "idle" /\ starts = 0 /\ tries = 0 /\ stopped = FALSE

-----------------------------------------------------------------------------
(* The controlling thread. *)

Spawn ==
  /\ running' = TRUE /\ joinable' = TRUE
  /\ worker' = "test" /\ attempt' = 0 /\ tries' = 0

\* mu_ is held through the join, too: the thread that is left over has
\* released it for the last time.
Start ==
  /\ control = "idle" /\ starts < MaxStarts
  /\ starts' = starts + 1
  /\ IF running THEN UNCHANGED <<running, stopRequested, joinable, worker, attempt, tries, control, stopped>>
     ELSE /\ stopRequested' = FALSE /\ stopped' = FALSE
          /\ IF joinable
             THEN control' = "joinStart" /\ UNCHANGED <<running, joinable, worker, attempt, tries>>
             ELSE Spawn /\ UNCHANGED control
  /\ UNCHANGED delay

JoinedInStart ==
  /\ control = "joinStart" /\ worker = "ended"
  /\ control' = "idle" /\ Spawn
  /\ UNCHANGED <<stopRequested, delay, starts, stopped>>

\* Variant: the thread is told to stop and not waited for.
StopNoJoin ==
  /\ control = "idle"
  /\ stopRequested' = (running \/ stopRequested) /\ stopped' = TRUE
  /\ UNCHANGED <<running, joinable, worker, attempt, delay, control, starts, tries>>

Stop ==
  /\ control = "idle"
  /\ IF ~running THEN stopped' = TRUE /\ UNCHANGED <<stopRequested, control>>
     ELSE stopRequested' = TRUE /\ control' = "joinStop" /\ UNCHANGED stopped
  /\ UNCHANGED <<running, joinable, worker, attempt, delay, starts, tries>>

JoinedInStop ==
  /\ control = "joinStop" /\ worker = "ended"
  /\ joinable' = FALSE /\ worker' = "none"
  /\ control' = "idle" /\ stopped' = TRUE
  /\ UNCHANGED <<running, stopRequested, attempt, delay, starts, tries>>

\* The destructor: Stop, then the members.
Destroy ==
  /\ control = "idle" /\ ~running
  /\ control' = "destroyed"
  /\ UNCHANGED <<running, stopRequested, joinable, worker, attempt, delay, starts, tries, stopped>>

-----------------------------------------------------------------------------
(* The thread. *)

\* jitter.cc: what a delay may become.
ApplyJitter(d) ==
  CASE JitterMode = "kFull" /\ d > 0 -> 0..d - 1
    [] JitterMode = "kEqual" /\ d > 1 -> d \div 2 .. 2 * (d \div 2) - 1
    [] OTHER -> {d}

CalculateBackoff(n) ==
  LET computed == InitialDelay * Multiplier ^ n
  IN  ApplyJitter(IF computed < MaxDelay THEN computed ELSE MaxDelay)

\* Variant: only the attempts are looked at, not stop_requested_.
RunTestNoStop ==
  /\ worker = "test"
  /\ worker' = IF maxAttempts > 0 /\ attempt >= maxAttempts THEN "leave" ELSE "connect"
  /\ UNCHANGED <<running, stopRequested, joinable, attempt, delay, control, starts, tries, stopped>>

\* The condition of the loop and the test of max_attempts.
RunTest ==
  /\ worker = "test"
  /\ worker' = IF stopRequested \/ (maxAttempts > 0 /\ attempt >= maxAttempts) THEN "leave"
               ELSE "connect"
  /\ UNCHANGED <<running, stopRequested, joinable, attempt, delay, control, starts, tries, stopped>>

Connect ==
  /\ worker = "connect"
  /\ tries' = IF tries <= MaxBackoffs THEN tries + 1 ELSE tries
  /\ \/ worker' = "leave" /\ UNCHANGED <<attempt, delay>>
     \/ /\ delay' \in CalculateBackoff(attempt)
        /\ attempt' = IF attempt < MaxBackoffs THEN attempt + 1 ELSE attempt
        /\ worker' = "wait"
  /\ UNCHANGED <<running, stopRequested, joinable, control, starts, stopped>>

\* wait_for ends by the time or by stop_requested_; both look at it next.
Waited ==
  /\ worker = "wait" /\ worker' = "test"
  /\ UNCHANGED <<running, stopRequested, joinable, attempt, delay, control, starts, tries, stopped>>

Leave ==
  /\ worker = "leave" /\ worker' = "ended"
  /\ running' = FALSE
  /\ UNCHANGED <<stopRequested, joinable, attempt, delay, control, starts, tries, stopped>>

Run == RunTest \/ Connect \/ Waited \/ Leave

Fixed == UNCHANGED maxAttempts

LoopNext ==
  /\ Start \/ JoinedInStart \/ Stop \/ JoinedInStop \/ Destroy \/ Run
  /\ Fixed

\* connect_fn returns, waits end, and a thread that is joined is run.
LoopFairness ==
  /\ WF_loopVars(Run /\ Fixed)
  /\ WF_loopVars(JoinedInStop /\ Fixed) /\ WF_loopVars(JoinedInStart /\ Fixed)

-----------------------------------------------------------------------------
(***************************************************************************)
(* Once Stop has returned, connect_fn is not running and will not be       *)
(* called until the next Start, also when the loop ended at that moment.   *)
(***************************************************************************)
StopIsFinal == stopped => worker \in {"none", "ended"}

(* At most max_attempts attempts are made by one Start, when it is set. *)
AttemptsBounded == maxAttempts > 0 => tries <= maxAttempts

(***************************************************************************)
(* connect_fn is called as often and as long as was asked: not after Stop, *)
(* not more than max_attempts times.                                       *)
(***************************************************************************)
AttemptsAsAsked == StopIsFinal /\ AttemptsBounded

(***************************************************************************)
(* Why AttemptsAsAsked holds.  running says whether the thread is in its   *)
(* loop, a Start that waits for an old thread has withdrawn the Stop       *)
(* before it, and the thread's own counter is the number of its calls, as  *)
(* far as both are counted, and below the limit when it connects.          *)
(***************************************************************************)
LoopTypeOK ==
  /\ maxAttempts \in AttemptLimits
  /\ running \in BOOLEAN /\ stopRequested \in BOOLEAN
  /\ joinable \in BOOLEAN /\ stopped \in BOOLEAN
  /\ worker \in {"none", "test", "connect", "wait", "leave", "ended"}
  /\ control \in {"idle", "joinStart", "joinStop", "destroyed"}
  /\ attempt \in 0..MaxBackoffs /\ tries \in 0..MaxBackoffs + 1 /\ starts \in 0..MaxStarts

ThreadInv ==
  /\ running <=> worker \notin {"none", "ended"}
  /\ joinable <=> worker # "none"
  /\ control = "joinStart" => joinable /\ ~running /\ ~stopped
  /\ control = "joinStop" => joinable
  /\ stopped => ~running

CounterInv ==
  /\ worker \in {"test", "connect", "wait"} => tries = attempt \/ attempt = MaxBackoffs
  /\ worker = "connect" => maxAttempts = 0 \/ attempt < maxAttempts
  /\ AttemptsBounded

LoopInv == LoopTypeOK /\ ThreadInv /\ CounterInv

(* Stop returns, and so does a Start that waits for an earlier thread. *)
ControlReturns == control \in {"joinStart", "joinStop"} ~> control = "idle"

=============================================================================
