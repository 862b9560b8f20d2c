-------------------------- MODULE DropOldestQueue --------------------------
(***************************************************************************)
(* What MessageBuffer promises: a bounded queue of numbered messages.      *)
(* Adding to a full one drops the oldest; messages leave from the front or *)
(* all together are thrown away, and what is dropped is counted.           *)
(***************************************************************************)
EXTENDS Naturals, Sequences

CONSTANT Capacity
VARIABLES
  queue,  \* the messages held, oldest first
  given,  \* the messages given to senders, in order
  last,   \* number of the message added last
  dropped \* how many messages were reported as dropped

Init == queue = <<>> /\ given = <<>> /\ last = 0 /\ dropped = 0

Add ==
  LET room == Len(queue) < Capacity
  IN  /\ last' = last + 1
      /\ queue' = Append(IF room THEN queue ELSE Tail(queue), last + 1)
      /\ dropped' = IF room THEN dropped ELSE dropped + 1
      /\ UNCHANGED given

Give ==
  /\ \E n \in 1..Len(queue) :
       /\ given' = given \o SubSeq(queue, 1, n)
       /\ queue' = SubSeq(queue, n + 1, Len(queue))
  /\ UNCHANGED <<last, dropped>>

Clear == queue' = <<>> /\ dropped' = dropped + Len(queue) /\ UNCHANGED <<given, last>>

Next == Add \/ Give \/ Clear

Spec == Init /\ [][Next]_<<queue, given, last, dropped>>

=============================================================================
