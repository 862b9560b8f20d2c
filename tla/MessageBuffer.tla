---------------------------- MODULE MessageBuffer ----------------------------
(***************************************************************************)
(* The ring buffer of message_buffer.cc.  A message is the number of its   *)
(* Push; 0 is a cleared slot.  Every operation holds the mutex from        *)
(* beginning to end, so each is one step; Drain calls a sender that        *)
(* accepts a number of messages and may then ask to stop.                  *)
(***************************************************************************)
EXTENDS Integers, Sequences

CONSTANTS
  CapacityAsked, \* the argument of the constructor
  MaxPushes      \* bound on the number of messages

ASSUME MessageBufferAssumption == CapacityAsked \in Int /\ MaxPushes \in Nat

capacity == IF CapacityAsked > 0 THEN CapacityAsked ELSE 1

VARIABLES
  buffer, head, tail, count, \* the members of the class
  pushed,    \* number of messages pushed
  handed,    \* messages given to senders, in order
  discarded, \* number of messages discarded
  evicted    \* number of messages Push reported as evicted

bufferVars == <<buffer, head, tail, count, pushed, handed, discarded, evicted>>

BufferInit ==
  /\ buffer = [i \in 0..capacity - 1 |-> 0]
  /\ head = 0 /\ tail = 0 /\ count = 0
  /\ pushed = 0 /\ handed = <<>> /\ discarded = 0 /\ evicted = 0

Push ==
  /\ pushed < MaxPushes
  /\ pushed' = pushed + 1
  /\ \/ /\ count = capacity
        /\ head' = (head + 1) % capacity
        /\ evicted' = evicted + 1
        /\ UNCHANGED count
     \/ /\ count # capacity
        /\ count' = count + 1
        /\ UNCHANGED <<head, evicted>>
  /\ buffer' = [buffer EXCEPT ![tail] = pushed + 1]
  /\ tail' = (tail + 1) % capacity
  /\ UNCHANGED <<handed, discarded>>

\* The i-th message from the head.
Slot(i) == (head + i - 1) % capacity

\* Variant: the newest messages are given first.
DrainNewestFirst(n) ==
  /\ n <= count /\ (n = 0 => count = 0)
  /\ handed' = handed \o [i \in 1..n |-> buffer[Slot(count + 1 - i)]]
  /\ buffer' = [j \in DOMAIN buffer |-> IF \E i \in 1..n : Slot(i) = j THEN 0 ELSE buffer[j]]
  /\ head' = (head + n) % capacity
  /\ count' = count - n
  /\ UNCHANGED <<tail, pushed, discarded, evicted>>

\* n messages are given to the sender: all there are, or up to the one for
\* which it returns false.  That one is gone like the others.
Drain(n) ==
  /\ n <= count /\ (n = 0 => count = 0)
  /\ handed' = handed \o [i \in 1..n |-> buffer[Slot(i)]]
  /\ buffer' = [j \in DOMAIN buffer |-> IF \E i \in 1..n : Slot(i) = j THEN 0 ELSE buffer[j]]
  /\ head' = (head + n) % capacity
  /\ count' = count - n
  /\ UNCHANGED <<tail, pushed, discarded, evicted>>

Discard ==
  /\ buffer' = [j \in DOMAIN buffer |-> IF \E i \in 1..count : Slot(i) = j THEN 0 ELSE buffer[j]]
  /\ discarded' = discarded + count
  /\ head' = 0 /\ tail' = 0 /\ count' = 0
  /\ UNCHANGED <<pushed, handed, evicted>>

BufferNext ==
  \/ Push \/ Discard
  \/ \E n \in 0..capacity : Drain(n)

-----------------------------------------------------------------------------
\* The messages held, oldest first.
Contents == [i \in 1..count |-> buffer[Slot(i)]]

(***************************************************************************)
(* The ring of slots is a queue that drops its oldest message: senders are *)
(* given the messages in the order of the Pushes, each at most once,       *)
(* however pushes, drains that stop half way and discards follow, and      *)
(* every one that is lost is in what Push and Discard return.              *)
(***************************************************************************)
Queue == INSTANCE DropOldestQueue
           WITH Capacity <- capacity, queue <- Contents, given <- handed, last <- pushed,
                dropped <- evicted + discarded
ImplementsQueue == Queue!Spec

-----------------------------------------------------------------------------
(***************************************************************************)
(* Why the ring is a queue: the next free slot follows the messages held.  *)
(***************************************************************************)
BufferInv ==
  /\ buffer \in [0..capacity - 1 -> Nat]
  /\ head \in 0..capacity - 1 /\ count \in 0..capacity
  /\ tail = (head + count) % capacity
  /\ pushed \in Nat /\ handed \in Seq(Nat) /\ discarded \in Nat /\ evicted \in Nat

=============================================================================
