------------------------------ MODULE MCQueues ------------------------------
(***************************************************************************)
(* The two ways to use queues, for TLC: the consumer with transactions and *)
(* the simple operations.  They share no state of the client; a behaviour  *)
(* exercises one of them.                                                  *)
(***************************************************************************)
EXTENDS QueueDownstream, SimpleQueue

VARIABLE subject

QueuesInit == subject \in {"stream", "simple"} /\ Init /\ QueueInit

UseStream == subject = "stream" /\ Next /\ UNCHANGED <<subject, simpleVars>>
UseSimple == subject = "simple" /\ QueueNext /\ UNCHANGED <<subject, vars>>

\* The fairness of the consumer asks for nothing while it is not used.
QueuesSpec ==
  QueuesInit /\ [][UseStream \/ UseSimple]_<<subject, vars, simpleVars>> /\ Fairness
=============================================================================
