--------------------------- MODULE ClientContract ---------------------------
(***************************************************************************)
(* What Client promises to the threads that share it, with no flag, once   *)
(* flag or mutex in sight.  Closing happens at one instant.  A call of     *)
(* State, or of an operation that wants to use the connection, is answered *)
(* by what was true at some instant between its start and its end: "Ready" *)
(* (go ahead) or "Closed".  on_closed runs once, after that instant, and   *)
(* Close returns to a thread only after on_closed has run.                 *)
(***************************************************************************)
EXTENDS Naturals

CONSTANTS Threads, Announces  \* Announces: an on_closed callback is set

VARIABLES
  open,      \* the client has not been closed
  asked,     \* asked[t]: the answers t's pending call may still get
  answer,    \* answer[t]: the last answer t got
  announced, \* how often on_closed has been called
  returned   \* some call of Close has returned

contractVars == <<open, asked, answer, announced, returned>>

ContractInit ==
  /\ open = TRUE
  /\ asked = [t \in Threads |-> {}]
  /\ answer = [t \in Threads |-> "none"]
  /\ announced = 0
  /\ returned = FALSE

Ask(t) ==
  /\ asked[t] = {}
  /\ asked' = [asked EXCEPT ![t] = {IF open THEN "Ready" ELSE "Closed"}]
  /\ UNCHANGED <<open, answer, announced, returned>>

Answer(t) ==
  /\ \E a \in asked[t] : answer' = [answer EXCEPT ![t] = a]
  /\ asked' = [asked EXCEPT ![t] = {}]
  /\ UNCHANGED <<open, announced, returned>>

\* A call of State by the on_closed callback itself.
AskInCallback(t) ==
  /\ announced > 0
  /\ answer' = [answer EXCEPT ![t] = "Closed"]
  /\ UNCHANGED <<open, asked, announced, returned>>

\* The instant of closing: calls that are under way may see either side of it.
Shut ==
  /\ open
  /\ open' = FALSE
  /\ asked' = [t \in Threads |-> IF asked[t] = {} THEN {}
                                 ELSE asked[t] \cup {"Closed"}]
  /\ UNCHANGED <<answer, announced, returned>>

Announce ==
  /\ ~open /\ announced = 0
  /\ announced' = 1
  /\ UNCHANGED <<open, asked, answer, returned>>

CloseReturned ==
  /\ ~open
  /\ Announces => announced = 1
  /\ returned' = TRUE
  /\ UNCHANGED <<open, asked, answer, announced>>

ContractNext ==
  \/ \E t \in Threads : Ask(t) \/ Answer(t) \/ AskInCallback(t)
  \/ Shut \/ Announce \/ CloseReturned

ContractSpec == ContractInit /\ [][ContractNext]_contractVars
=============================================================================
