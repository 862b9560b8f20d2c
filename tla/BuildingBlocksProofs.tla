------------------------ MODULE BuildingBlocksProofs ------------------------
(***************************************************************************)
(* Proofs about the parts that work alone, for every policy, capacity,     *)
(* limit and set of values.  Each part has an invariant of its own, which  *)
(* its steps preserve and the steps of the other parts do not touch.       *)
(***************************************************************************)
EXTENDS BuildingBlocks, SequenceTheorems, TLAPS

-----------------------------------------------------------------------------
(* The reconnection loop. *)

\* A step of Run of the thread, or of the controlling thread, keeps the types.
LEMMA LoopStepTypeOK == LoopInv /\ LoopNext => LoopTypeOK'
<1> SUFFICES ASSUME LoopInv, LoopNext PROVE LoopTypeOK'
  OBVIOUS
<1> USE ReconnectLoopAssumption DEF LoopInv, LoopTypeOK, Fixed
<1>0. Fixed
  BY DEF LoopNext
<1>1. CASE Start
  <2>1. starts' \in 0..MaxStarts /\ attempt' \in 0..MaxBackoffs /\ tries' \in 0..MaxBackoffs + 1
    BY <1>1 DEF Start, Spawn
  <2>2. CASE running
    BY <1>0, <1>1, <2>1, <2>2 DEF Start
  <2>3. CASE ~running
    BY <1>0, <1>1, <2>1, <2>3 DEF Start, Spawn
  <2> QED
    BY <2>2, <2>3
<1>2. CASE JoinedInStart
  BY <1>0, <1>2 DEF JoinedInStart, Spawn
<1>3. CASE Stop
  BY <1>0, <1>3 DEF Stop
<1>4. CASE JoinedInStop
  BY <1>0, <1>4 DEF JoinedInStop
<1>5. CASE Destroy
  BY <1>0, <1>5 DEF Destroy
<1>6. CASE RunTest
  BY <1>0, <1>6 DEF RunTest
<1>7. CASE Connect
  BY <1>0, <1>7 DEF Connect
<1>8. CASE Waited
  BY <1>0, <1>8 DEF Waited
<1>9. CASE Leave
  BY <1>0, <1>9 DEF Leave
<1> QED
  BY <1>1, <1>2, <1>3, <1>4, <1>5, <1>6, <1>7, <1>8, <1>9 DEF LoopNext, Run

\* Every step keeps running, joinable and the place of the thread together.
LEMMA LoopStepThreadInv == LoopInv /\ LoopNext => ThreadInv'
<1> SUFFICES ASSUME LoopInv, LoopNext PROVE ThreadInv'
  OBVIOUS
<1> USE DEF LoopInv, LoopTypeOK, ThreadInv
<1>1. CASE Start
  BY <1>1 DEF Start, Spawn
<1>2. CASE JoinedInStart
  BY <1>2 DEF JoinedInStart, Spawn
<1>3. CASE Stop
  BY <1>3 DEF Stop
<1>4. CASE JoinedInStop
  BY <1>4 DEF JoinedInStop
<1>5. CASE Destroy
  BY <1>5 DEF Destroy
<1>6. CASE RunTest
  BY <1>6 DEF RunTest
<1>7. CASE Connect
  BY <1>7 DEF Connect
<1>8. CASE Waited
  BY <1>8 DEF Waited
<1>9. CASE Leave
  BY <1>9 DEF Leave
<1> QED
  BY <1>1, <1>2, <1>3, <1>4, <1>5, <1>6, <1>7, <1>8, <1>9 DEF LoopNext, Run

\* Every step keeps the calls of connect_fn within the thread's own counter.
LEMMA LoopStepCounterInv == LoopInv /\ LoopNext => CounterInv'
<1> SUFFICES ASSUME LoopInv, LoopNext PROVE CounterInv'
  OBVIOUS
<1> USE ReconnectLoopAssumption DEF LoopInv, LoopTypeOK, ThreadInv, CounterInv, AttemptsBounded, Fixed
<1>0. Fixed
  BY DEF LoopNext
<1>1. CASE Start
  BY <1>0, <1>1 DEF Start, Spawn
<1>2. CASE JoinedInStart
  BY <1>0, <1>2 DEF JoinedInStart, Spawn
<1>3. CASE Stop
  BY <1>0, <1>3 DEF Stop
<1>4. CASE JoinedInStop
  BY <1>0, <1>4 DEF JoinedInStop
<1>5. CASE Destroy
  BY <1>0, <1>5 DEF Destroy
<1>6. CASE RunTest
  BY <1>0, <1>6 DEF RunTest
<1>7. CASE Connect
  BY <1>0, <1>7 DEF Connect
<1>8. CASE Waited
  BY <1>0, <1>8 DEF Waited
<1>9. CASE Leave
  BY <1>0, <1>9 DEF Leave
<1> QED
  BY <1>1, <1>2, <1>3, <1>4, <1>5, <1>6, <1>7, <1>8, <1>9 DEF LoopNext, Run

\* LoopInv holds in every state: running, the thread and Stop agree, and the
\* calls of connect_fn are counted.
THEOREM LoopInvariant == Spec => []LoopInv
<1>1. Init => LoopInv
  <2> SUFFICES ASSUME LoopInit PROVE LoopInv
    BY DEF Init
  <2>1. LoopTypeOK
    <3>1. attempt \in 0..MaxBackoffs /\ tries \in 0..MaxBackoffs + 1 /\ starts \in 0..MaxStarts
      BY ReconnectLoopAssumption DEF LoopInit
    <3> QED
      BY <3>1, Zenon DEF LoopInit, LoopTypeOK
  <2>2. ThreadInv
    BY DEF LoopInit, ThreadInv
  <2>3. CounterInv
    <3>1. maxAttempts \in Nat /\ tries = 0 /\ worker = "none"
      BY ReconnectLoopAssumption DEF LoopInit
    <3> QED
      BY <3>1 DEF CounterInv, AttemptsBounded
  <2> QED
    BY <2>1, <2>2, <2>3 DEF LoopInv
<1>2. LoopInv /\ [Next]_vars => LoopInv'
  <2> SUFFICES ASSUME LoopInv, [Next]_vars PROVE LoopInv'
    OBVIOUS
  <2>1. CASE LoopNext
    BY <2>1, LoopStepTypeOK, LoopStepThreadInv, LoopStepCounterInv DEF LoopInv
  <2>2. CASE UNCHANGED loopVars
    BY <2>2 DEF loopVars, LoopInv, LoopTypeOK, ThreadInv, CounterInv, AttemptsBounded
  <2> QED
    BY <2>1, <2>2 DEF Next, vars, UseBuilder, UseBuffer, UseLoop, UseRetry, UseOptions
<1> QED
  BY <1>1, <1>2, PTL DEF Spec

\* Once Stop has returned connect_fn is not called any more, and one Start calls
\* it at most max_attempts times, for every policy and every interleaving of
\* Start, Stop and the thread.
THEOREM AttemptsAsAskedAlways == Spec => []AttemptsAsAsked
<1>1. LoopInv => AttemptsAsAsked
  BY DEF LoopInv, LoopTypeOK, ThreadInv, CounterInv, AttemptsAsAsked, StopIsFinal
<1> QED
  BY <1>1, LoopInvariant, PTL

-----------------------------------------------------------------------------
(* The retried call. *)

\* A call of the operation preserves RetryInv.
LEMMA RetryStep == RetryInv /\ RetryNext => RetryInv'
<1> SUFFICES ASSUME RetryInv, Attempt PROVE RetryInv'
  BY DEF RetryNext
<1> USE RetryAssumption DEF RetryInv, RetryTypeOK
<1>1. PICK code \in ErrorCode :
        /\ outcomes' = Append(outcomes, code)
        /\ executions' = executions + 1
        /\ returned' = IF code # "kOk" /\ executions < maxRetries /\ ShouldRetry(code)
                       THEN "none" ELSE code
  BY DEF Attempt
<1>2. returned = "none" /\ maxRetries' = maxRetries /\ isIdempotent' = isIdempotent
  BY DEF Attempt
<1>3. /\ outcomes' \in Seq(ErrorCode) /\ Len(outcomes') = Len(outcomes) + 1
      /\ outcomes'[Len(outcomes) + 1] = code
      /\ \A i \in 1..Len(outcomes) : outcomes'[i] = outcomes[i]
  BY <1>1
<1>4. RetryTypeOK'
  BY <1>1, <1>2, <1>3
<1>5. Len(outcomes) \in Nat /\ maxRetries \in Int
  OBVIOUS
<1>6. outcomes = <<>> \/ Len(outcomes) <= maxRetries
  BY <1>2 DEF PendingInv
<1>7. PendingInv'
  <2> SUFFICES ASSUME returned' = "none" PROVE PendingInv'
    BY DEF PendingInv
  <2>1. code # "kOk" /\ Len(outcomes) < maxRetries /\ ShouldRetry(code)
    BY <1>1 DEF ErrorCode
  <2>2. \A i \in 1..Len(outcomes) : outcomes[i] # "kOk" /\ ShouldRetry(outcomes[i])
    BY <1>2 DEF PendingInv
  <2>3. ASSUME NEW i \in 1..Len(outcomes')
        PROVE outcomes'[i] # "kOk" /\ ShouldRetry(outcomes'[i])
    <3>1. CASE i = Len(outcomes) + 1
      BY <1>3, <2>1, <3>1
    <3>2. CASE i # Len(outcomes) + 1
      BY <1>3, <1>5, <2>2, <3>2
    <3> QED
      BY <3>1, <3>2
  <2>4. \A i \in 1..Len(outcomes') : outcomes'[i] # "kOk" /\ ShouldRetry(outcomes[i])'
    BY <1>2, <2>3 DEF ShouldRetry
  <2>5. Len(outcomes') <= maxRetries'
    BY <1>2, <1>3, <1>5, <2>1
  <2> QED
    BY <2>4, <2>5 DEF PendingInv
<1>8. NoUnsafeRepeat'
  <2>1. \A i \in 1..Len(outcomes) : ShouldRetry(outcomes[i])
    BY <1>2 DEF PendingInv
  <2>2. \A i \in 1..Len(outcomes)' - 1 : outcomes'[i] = outcomes[i] /\ i \in 1..Len(outcomes)
    BY <1>3, <1>5
  <2> QED
    BY <1>2, <2>1, <2>2 DEF NoUnsafeRepeat, ShouldRetry, IsRetryable
<1>9. RetriesAreUsed'
  <2> SUFFICES ASSUME returned' # "none" PROVE RetriesAreUsed'
    BY DEF RetriesAreUsed
  <2>1. returned' = code /\ (code = "kOk" \/ Len(outcomes) >= maxRetries \/ ~ShouldRetry(code))
    BY <1>1, <1>5
  <2>2. returned' = outcomes'[Len(outcomes')]
    BY <1>3, <2>1
  <2>3. Len(outcomes') <= 1 + (IF maxRetries > 0 THEN maxRetries ELSE 0)
    <3>1. outcomes = <<>> => Len(outcomes) = 0
      OBVIOUS
    <3> QED
      BY <1>3, <1>5, <1>6, <3>1
  <2>4. code \in {"kTransient", "kThrottling"} /\ maxRetries > 0 => Len(outcomes') = 1 + maxRetries
    <3> SUFFICES ASSUME code \in {"kTransient", "kThrottling"}, maxRetries > 0
                 PROVE Len(outcomes') = 1 + maxRetries
      OBVIOUS
    <3>1. Len(outcomes) >= maxRetries
      BY <2>1 DEF ShouldRetry, IsRetryable
    <3>2. Len(outcomes) <= maxRetries
      BY <1>5, <1>6, <3>1
    <3> QED
      BY <1>3, <1>5, <3>1, <3>2
  <2> QED
    BY <1>2, <2>1, <2>2, <2>3, <2>4 DEF RetriesAreUsed
<1> QED
  BY <1>4, <1>7, <1>8, <1>9 DEF RetryPolicyKept

\* RetryInv holds in every state.
THEOREM RetryInvariant == Spec => []RetryInv
<1>1. Init => RetryInv
  <2> SUFFICES ASSUME RetryInit PROVE RetryInv
    BY DEF Init
  <2>1. RetryTypeOK
    BY DEF RetryInit, RetryTypeOK
  <2>2. PendingInv /\ RetryPolicyKept
    BY DEF RetryInit, PendingInv, RetryPolicyKept, NoUnsafeRepeat, RetriesAreUsed
  <2> QED
    BY <2>1, <2>2 DEF RetryInv
<1>2. RetryInv /\ [Next]_vars => RetryInv'
  <2> SUFFICES ASSUME RetryInv, [Next]_vars PROVE RetryInv'
    OBVIOUS
  <2>1. CASE RetryNext
    BY <2>1, RetryStep
  <2>2. CASE UNCHANGED retryVars
    BY <2>2 DEF retryVars, RetryInv, RetryTypeOK, PendingInv, RetryPolicyKept, NoUnsafeRepeat,
                RetriesAreUsed, ShouldRetry
  <2> QED
    BY <2>1, <2>2 DEF Next, vars, UseBuilder, UseBuffer, UseLoop, UseRetry, UseOptions
<1> QED
  BY <1>1, <1>2, PTL DEF Spec

\* RetryUnary never repeats an operation that may have taken effect unless it is
\* idempotent, nor anything that succeeded or failed for good, and gives up on a
\* transient failure only when max_retries is used up: for every limit.
THEOREM RetryPolicyKeptAlways == Spec => []RetryPolicyKept
<1>1. RetryInv => RetryPolicyKept
  BY DEF RetryInv
<1> QED
  BY <1>1, RetryInvariant, PTL

-----------------------------------------------------------------------------
(* The message buffer. *)

\* The constructor gives a buffer at least one slot.
LEMMA CapacityPositive == capacity \in Nat \ {0}
  BY MessageBufferAssumption DEF capacity

\* An index that went once around the ring.
LEMMA Wrap ==
  ASSUME NEW c \in Nat \ {0}, NEW x \in Nat, x < 2 * c
  PROVE  x % c = IF x < c THEN x ELSE x - c
<1>1. CASE x < c
  BY <1>1
<1>2. CASE ~(x < c)
  BY <1>2
<1> QED
  BY <1>1, <1>2

\* The slot after a slot, and the slot a whole ring further.
LEMMA WrapSlot ==
  ASSUME NEW c \in Nat \ {0}, NEW h \in 0..c - 1
  PROVE  (h + 1) % c = (IF h + 1 < c THEN h + 1 ELSE 0) /\ (h + c) % c = h
<1>1. \A x \in Nat : x < 2 * c => x % c = IF x < c THEN x ELSE x - c
  BY Wrap
<1>2. h + 1 \in Nat /\ h + 1 < 2 * c /\ h + c \in Nat /\ h + c < 2 * c
  OBVIOUS
<1>3. (h + 1) % c = IF h + 1 < c THEN h + 1 ELSE h + 1 - c
  BY <1>1, <1>2
<1>4. (h + c) % c = IF h + c < c THEN h + c ELSE h + c - c
  BY <1>1, <1>2
<1> QED
  BY <1>3, <1>4

\* Where the i-th message from the head is.
LEMMA SlotIs ==
  ASSUME BufferInv, NEW i \in 1..capacity
  PROVE  /\ Slot(i) = IF head + i - 1 < capacity THEN head + i - 1 ELSE head + i - 1 - capacity
         /\ Slot(i) \in 0..capacity - 1
<1>1. head \in Nat /\ head < capacity /\ capacity \in Nat \ {0}
  BY CapacityPositive DEF BufferInv
<1> DEFINE x == head + i - 1
<1>2. x \in Nat /\ x < 2 * capacity /\ Slot(i) = x % capacity
  BY <1>1 DEF Slot
<1> HIDE DEF x
<1>3. Slot(i) = IF x < capacity THEN x ELSE x - capacity
  BY ONLY <1>1, <1>2, Wrap
<1> USE DEF x
<1> QED
  BY <1>1, <1>2, <1>3

\* Two of the messages held are in two slots.
LEMMA SlotsDiffer ==
  ASSUME BufferInv, NEW i \in 1..capacity, NEW j \in 1..capacity, Slot(i) = Slot(j)
  PROVE  i = j
<1>1. head \in Nat /\ head < capacity /\ capacity \in Nat \ {0}
  BY CapacityPositive DEF BufferInv
<1> QED
  BY <1>1, SlotIs

\* The next free slot is the one after the last message, or that of the first.
LEMMA TailIs ==
  ASSUME BufferInv
  PROVE  /\ count = capacity => tail = head
         /\ count # capacity => tail = Slot(count + 1)
         /\ tail \in 0..capacity - 1
<1>1. head \in Nat /\ head < capacity /\ capacity \in Nat \ {0} /\ count \in 0..capacity
  BY CapacityPositive DEF BufferInv
<1>2. tail = IF head + count < capacity THEN head + count ELSE head + count - capacity
  <2> DEFINE x == head + count
  <2>1. x \in Nat /\ x < 2 * capacity /\ tail = x % capacity
    BY <1>1 DEF BufferInv
  <2> HIDE DEF x
  <2>2. tail = IF x < capacity THEN x ELSE x - capacity
    BY ONLY <1>1, <2>1, Wrap
  <2> USE DEF x
  <2> QED
    BY <1>1, <2>2
<1>3. count # capacity => tail = Slot(count + 1)
  BY <1>1, <1>2, SlotIs
<1> QED
  BY <1>1, <1>2, <1>3

\* The messages of n slots from slot h on, as a sequence.
LEMMA RingIsSequence ==
  ASSUME NEW c \in Nat \ {0}, NEW buf \in [0..c - 1 -> Nat], NEW h \in 0..c - 1, NEW n \in 0..c
  PROVE  LET s == [i \in 1..n |-> buf[(h + i - 1) % c]]
         IN  s \in Seq(Nat) /\ Len(s) = n /\ \A i \in 1..n : s[i] = buf[(h + i - 1) % c]
<1> DEFINE s == [i \in 1..n |-> buf[(h + i - 1) % c]]
<1>1. ASSUME NEW i \in 1..n PROVE (h + i - 1) % c \in 0..c - 1
  <2>1. h + i - 1 \in Nat /\ h + i - 1 < 2 * c
    OBVIOUS
  <2> QED
    BY <2>1, Wrap
<1>2. s \in [1..n -> Nat]
  BY <1>1
<1>3. s \in Seq(Nat) /\ Len(s) = n
  BY <1>2
<1> QED
  BY <1>3

\* Contents is a sequence of the numbers of messages.
LEMMA ContentsIsSequence ==
  ASSUME BufferInv
  PROVE  Contents \in Seq(Nat) /\ Len(Contents) = count /\ \A i \in 1..count : Contents[i] = buffer[Slot(i)]
<1>1. /\ capacity \in Nat \ {0} /\ buffer \in [0..capacity - 1 -> Nat]
      /\ head \in 0..capacity - 1 /\ count \in 0..capacity
  BY CapacityPositive DEF BufferInv
<1> QED
  BY <1>1, RingIsSequence DEF Contents, Slot

\* A Push keeps the ring in order, and is an Add to the queue.
LEMMA PushAdds == BufferInv /\ Push => BufferInv' /\ Queue!Add
<1> SUFFICES ASSUME BufferInv, Push PROVE BufferInv' /\ Queue!Add
  OBVIOUS
<1> DEFINE c == capacity
           new == pushed + 1
<1>1. /\ c \in Nat \ {0} /\ buffer \in [0..c - 1 -> Nat] /\ head \in 0..c - 1 /\ count \in 0..c
      /\ pushed \in Nat /\ handed \in Seq(Nat) /\ discarded \in Nat /\ evicted \in Nat
  BY CapacityPositive DEF BufferInv
<1>2. /\ pushed' = new /\ buffer' = [buffer EXCEPT ![tail] = new] /\ tail' = (tail + 1) % c
      /\ handed' = handed /\ discarded' = discarded
  BY DEF Push
<1>3. tail \in 0..c - 1
  BY TailIs
<1>4. buffer' \in [0..c - 1 -> Nat] /\ pushed' \in Nat
  BY <1>1, <1>2, <1>3
<1>5. tail' = IF tail + 1 < c THEN tail + 1 ELSE 0
  BY <1>1, <1>2, <1>3, WrapSlot
<1>6. /\ Contents \in Seq(Nat) /\ Len(Contents) = count
      /\ \A i \in 1..count : Contents[i] = buffer[Slot(i)]
  BY ContentsIsSequence
<1> HIDE DEF c
<1>7. CASE count # c
  <2>1. count' = count + 1 /\ head' = head /\ evicted' = evicted /\ count' \in 0..c
    BY <1>1, <1>7 DEF Push, c
  <2>2. tail = Slot(count + 1)
    BY <1>7, TailIs DEF c
  <2>3. BufferInv'
    <3>1. tail' = (head' + count') % c
      <4>1. tail = (head + count) % c
        BY DEF BufferInv, c
      <4> DEFINE x == head + count
                 y == head + count + 1
      <4>2. x \in Nat /\ x < 2 * c /\ y \in Nat /\ y < 2 * c /\ y = x + 1
        BY <1>1, <1>7
      <4>3. head' + count' = y
        BY <1>1, <2>1
      <4> HIDE DEF x, y
      <4>4. x % c = IF x < c THEN x ELSE x - c
        BY ONLY <1>1, <4>2, Wrap
      <4>5. y % c = IF y < c THEN y ELSE y - c
        BY ONLY <1>1, <4>2, Wrap
      <4>6. tail = x % c
        BY <4>1 DEF x
      <4>7. tail = IF x < c THEN x ELSE x - c
        BY ONLY <4>4, <4>6
      <4>8. tail' = IF y < c THEN y ELSE y - c
        BY ONLY <1>1, <1>5, <4>2, <4>7
      <4> QED
        BY ONLY <4>3, <4>5, <4>8
    <3> QED
      BY <1>1, <1>2, <1>4, <2>1, <3>1 DEF BufferInv, c
  <2>4. /\ Contents' \in Seq(Nat) /\ Len(Contents') = count + 1
        /\ \A i \in 1..count + 1 : Contents'[i] = buffer'[Slot(i)]
    <3>1. Contents' = [i \in 1..count + 1 |-> buffer'[(head + i - 1) % c]]
      BY <2>1 DEF Contents, Slot, c
    <3>2. count + 1 \in 0..c
      BY <2>1
    <3> QED
      BY <1>1, <1>4, <3>1, <3>2, RingIsSequence DEF Slot, c
  <2>5. \A i \in 1..count : buffer'[Slot(i)] = buffer[Slot(i)]
    <3> TAKE i \in 1..count
    <3>1. i \in 1..c /\ count + 1 \in 1..c /\ i # count + 1
      BY <1>1, <1>7
    <3>2. Slot(i) # tail /\ Slot(i) \in 0..c - 1
      BY <2>2, <3>1, SlotsDiffer, SlotIs DEF c
    <3> QED
      BY <1>1, <1>2, <3>2
  <2>6. buffer'[Slot(count + 1)] = new
    BY <1>1, <1>2, <1>3, <2>2
  <2>7. Contents' = Append(Contents, new)
    <3> DEFINE a == Append(Contents, new)
    <3>1. /\ a \in Seq(Nat) /\ Len(a) = count + 1 /\ a[count + 1] = new
          /\ \A i \in 1..count : a[i] = Contents[i]
      BY <1>1, <1>6
    <3>2. \A i \in 1..count + 1 : Contents'[i] = a[i]
      <4> TAKE i \in 1..count + 1
      <4>1. CASE i = count + 1
        BY <1>1, <2>4, <2>6, <3>1, <4>1
      <4>2. CASE i # count + 1
        <5>1. i \in 1..count
          BY <1>1, <4>2
        <5> QED
          BY <5>1, <1>6, <2>4, <2>5, <3>1
      <4> QED
        BY <4>1, <4>2
    <3> HIDE DEF a
    <3>3. Contents' = a
      BY <2>4, <3>1, <3>2, SeqEqual
    <3> QED
      BY <3>3 DEF a
  <2>8. Len(Contents) < capacity
    BY <1>1, <1>6, <1>7 DEF c
  <2> QED
    BY <1>2, <2>1, <2>3, <2>7, <2>8 DEF Queue!Add
<1>8. CASE count = c
  <2>1. count' = count /\ head' = (head + 1) % c /\ evicted' = evicted + 1
    BY <1>1, <1>8 DEF Push, c
  <2>2. tail = head
    BY <1>8, TailIs DEF c
  <2>3. head' = tail' /\ head' \in 0..c - 1
    BY <1>1, <1>2, <1>3, <1>5, <2>1, <2>2
  <2>4. BufferInv'
    <3>1. tail' = (head' + count') % c
      BY <1>1, <1>8, <2>1, <2>3, WrapSlot
    <3>2. evicted' \in Nat /\ count' \in 0..c
      BY <1>1, <2>1
    <3> QED
      BY <1>1, <1>2, <1>4, <2>3, <3>1, <3>2 DEF BufferInv, c
  <2>5. /\ Contents' \in Seq(Nat) /\ Len(Contents') = c
        /\ \A i \in 1..c : Contents'[i] = buffer'[(head' + i - 1) % c]
    <3> DEFINE h == head'
               n == count'
               buf == buffer'
    <3>1. Contents' = [i \in 1..n |-> buf[(h + i - 1) % c]]
      BY DEF Contents, Slot, c
    <3>2. n \in 0..c /\ h \in 0..c - 1 /\ buf \in [0..c - 1 -> Nat] /\ c \in Nat \ {0}
      BY <1>1, <1>4, <1>8, <2>1, <2>3
    <3> HIDE DEF h, n, buf
    <3>3. /\ Contents' \in Seq(Nat) /\ Len(Contents') = n
          /\ \A i \in 1..n : Contents'[i] = buf[(h + i - 1) % c]
      BY <3>1, <3>2, RingIsSequence
    <3> USE DEF h, n, buf
    <3> QED
      BY <1>8, <2>1, <3>3
  <2>6. ASSUME NEW i \in 1..c
        PROVE /\ i < c => (head' + i - 1) % c = Slot(i + 1)
              /\ i = c => (head' + i - 1) % c = tail
    <3> DEFINE x == head' + i - 1
    <3>1. x \in Nat /\ x < 2 * c
      BY <1>1, <2>3
    <3> HIDE DEF x
    <3>2. x % c = IF x < c THEN x ELSE x - c
      BY ONLY <1>1, <3>1, Wrap
    <3>3. i < c => Slot(i + 1) = IF head + i < c THEN head + i ELSE head + i - c
      <4> SUFFICES ASSUME i < c PROVE Slot(i + 1) = IF head + i < c THEN head + i ELSE head + i - c
        OBVIOUS
      <4>1. i + 1 \in 1..capacity /\ head + (i + 1) - 1 = head + i
        BY <1>1 DEF c
      <4> QED
        BY <4>1, SlotIs DEF c
    <3>4. head' = IF head + 1 < c THEN head + 1 ELSE 0
      BY <1>5, <2>2, <2>3
    <3> USE DEF x
    <3> QED
      BY <1>1, <2>2, <3>2, <3>3, <3>4
  <2>7. \A i \in 1..c - 1 : buffer'[Slot(i + 1)] = Contents[i + 1]
    <3> TAKE i \in 1..c - 1
    <3>1. i + 1 \in 1..c /\ 1 \in 1..c /\ i + 1 # 1 /\ i + 1 \in 1..count
      BY <1>1, <1>8
    <3>2. Slot(1) = head
      BY <1>1, <3>1, SlotIs DEF c
    <3>3. Slot(i + 1) # tail /\ Slot(i + 1) \in 0..c - 1
      BY <2>2, <3>1, <3>2, SlotsDiffer, SlotIs DEF c
    <3> QED
      BY <1>1, <1>2, <1>6, <3>1, <3>3
  <2>8. Contents' = Append(Tail(Contents), new)
    <3> DEFINE a == Append(Tail(Contents), new)
    <3>1. Contents # <<>>
      BY <1>1, <1>6, <1>8
    <3>2. /\ Tail(Contents) \in Seq(Nat) /\ Len(Tail(Contents)) = c - 1
          /\ \A i \in 1..c - 1 : Tail(Contents)[i] = Contents[i + 1]
      BY <1>6, <1>8, <3>1, HeadTailProperties
    <3>3. /\ a \in Seq(Nat) /\ Len(a) = c /\ a[c] = new
          /\ \A i \in 1..c - 1 : a[i] = Tail(Contents)[i]
      BY <1>1, <3>2
    <3>4. \A i \in 1..c : Contents'[i] = a[i]
      <4> TAKE i \in 1..c
      <4>1. CASE i = c
        BY <1>1, <1>2, <1>3, <2>5, <2>6, <3>3, <4>1
      <4>2. CASE i # c
        <5>1. i \in 1..c - 1 /\ i < c
          BY <1>1, <4>2
        <5> QED
          BY <2>5, <2>6, <2>7, <3>2, <3>3, <5>1
      <4> QED
        BY <4>1, <4>2
    <3> HIDE DEF a
    <3>5. Contents' = a
      BY <2>5, <3>3, <3>4, SeqEqual
    <3> QED
      BY <3>5 DEF a
  <2>9. ~(Len(Contents) < capacity)
    BY <1>1, <1>6, <1>8 DEF c
  <2>10. evicted' + discarded' = evicted + discarded + 1
    BY <1>1, <1>2, <2>1
  <2> QED
    BY <1>2, <2>4, <2>8, <2>9, <2>10 DEF Queue!Add
<1> QED
  BY <1>7, <1>8

\* A Drain keeps the ring in order, and gives the front of the queue to the
\* sender, or does nothing when it is empty.
LEMMA DrainGives ==
  ASSUME BufferInv, NEW n \in 0..capacity, Drain(n)
  PROVE  /\ BufferInv'
         /\ Queue!Give \/ UNCHANGED <<Contents, handed, pushed, evicted, discarded>>
<1> DEFINE c == capacity
<1>1. /\ c \in Nat \ {0} /\ buffer \in [0..c - 1 -> Nat] /\ head \in 0..c - 1 /\ count \in 0..c
      /\ pushed \in Nat /\ handed \in Seq(Nat) /\ discarded \in Nat /\ evicted \in Nat
      /\ n \in 0..c
  BY CapacityPositive DEF BufferInv
<1>2. /\ n <= count /\ (n = 0 => count = 0)
      /\ handed' = handed \o [i \in 1..n |-> buffer[Slot(i)]]
      /\ buffer' = [j \in DOMAIN buffer |-> IF \E i \in 1..n : Slot(i) = j THEN 0 ELSE buffer[j]]
      /\ count' = count - n
      /\ UNCHANGED <<tail, pushed, discarded, evicted>>
  BY DEF Drain
<1>3. /\ Contents \in Seq(Nat) /\ Len(Contents) = count
      /\ \A i \in 1..count : Contents[i] = buffer[Slot(i)]
  BY ContentsIsSequence
<1>4. \A i \in 1..c : \A j \in 1..c : Slot(i) = Slot(j) => i = j
  BY SlotsDiffer
<1>5. \A i \in 1..c : /\ Slot(i) \in 0..c - 1
                      /\ Slot(i) = IF head + i - 1 < c THEN head + i - 1 ELSE head + i - 1 - c
  BY SlotIs
<1> HIDE DEF c
<1>6. head' = (IF head + n < c THEN head + n ELSE head + n - c) /\ head' \in 0..c - 1 /\ head' \in Int
  <2> DEFINE x == head + n
  <2>1. x \in Nat /\ x < 2 * c /\ head' = x % c
    BY <1>1 DEF Drain, c
  <2> HIDE DEF x
  <2>2. head' = IF x < c THEN x ELSE x - c
    BY ONLY <1>1, <2>1, Wrap
  <2>3. x = head + n
    BY DEF x
  <2> QED
    BY ONLY <1>1, <2>2, <2>3
<1>7. buffer' \in [0..c - 1 -> Nat]
  BY <1>1, <1>2
<1>8. count' \in 0..c /\ count' = count - n
  BY <1>1, <1>2
<1> DEFINE front == [i \in 1..n |-> buffer[Slot(i)]]
<1>9. front \in Seq(Nat) /\ Len(front) = n /\ \A i \in 1..n : front[i] = buffer[Slot(i)]
  <2>1. front = [i \in 1..n |-> buffer[(head + i - 1) % c]]
    BY DEF Slot, c
  <2> HIDE DEF front
  <2>2. /\ front \in Seq(Nat) /\ Len(front) = n
        /\ \A i \in 1..n : front[i] = buffer[(head + i - 1) % c]
    BY <1>1, <2>1, RingIsSequence
  <2> QED
    BY <2>2 DEF Slot, c
<1>10. handed' = handed \o front /\ handed' \in Seq(Nat)
  <2>1. handed' = handed \o front
    BY <1>2
  <2> HIDE DEF front
  <2> QED
    BY <1>1, <1>9, <2>1, ConcatProperties
<1>11. BufferInv'
  <2>1. tail' = (head' + count') % c
    <3> DEFINE x == head' + count'
               y == head + count
    <3>1. x \in Nat /\ x < 2 * c /\ y \in Nat /\ y < 2 * c
      BY ONLY <1>1, <1>6, <1>8
    <3> HIDE DEF x, y
    <3>2. x % c = (IF x < c THEN x ELSE x - c) /\ y % c = IF y < c THEN y ELSE y - c
      BY ONLY <1>1, <3>1, Wrap
    <3>3. x = head' + count' /\ y = head + count /\ tail' = y % c
      BY <1>2 DEF x, y, BufferInv, c
    <3>4. (IF x < c THEN x ELSE x - c) = IF y < c THEN y ELSE y - c
      <4>1. x = head' + count' /\ y = head + count
        BY <3>3
      <4> QED
        BY ONLY <1>1, <1>2, <1>6, <1>8, <4>1
    <3> QED
      BY <3>2, <3>3, <3>4
  <2> QED
    BY <1>1, <1>2, <1>6, <1>7, <1>8, <1>10, <2>1 DEF BufferInv, c
<1>12. /\ Contents' \in Seq(Nat) /\ Len(Contents') = count'
       /\ \A i \in 1..count' : Contents'[i] = buffer'[(head' + i - 1) % c]
  <2> DEFINE h == head'
             m == count'
             buf == buffer'
  <2>1. Contents' = [i \in 1..m |-> buf[(h + i - 1) % c]]
    BY DEF Contents, Slot, c
  <2>2. m \in 0..c /\ h \in 0..c - 1 /\ buf \in [0..c - 1 -> Nat] /\ c \in Nat \ {0}
    BY <1>1, <1>6, <1>7, <1>8
  <2> HIDE DEF h, m, buf
  <2>3. /\ Contents' \in Seq(Nat) /\ Len(Contents') = m
        /\ \A i \in 1..m : Contents'[i] = buf[(h + i - 1) % c]
    BY <2>1, <2>2, RingIsSequence
  <2> USE DEF h, m, buf
  <2> QED
    BY <2>3
<1>13. CASE n = 0
  <2>1. count = 0 /\ count' = 0
    BY <1>1, <1>2, <1>13
  <2>2. Contents' = <<>> /\ Contents = <<>>
    BY <1>3, <1>12, <2>1
  <2>3. front = <<>>
    <3> HIDE DEF front
    <3> QED
      BY <1>9, <1>13
  <2>4. handed' = handed
    <3> HIDE DEF front
    <3> QED
      BY <1>1, <1>10, <2>3, ConcatEmptySeq
  <2> QED
    BY <1>2, <1>11, <2>2, <2>4
<1>14. CASE n # 0
  <2>1. n \in 1..Len(Contents)
    BY <1>1, <1>2, <1>3, <1>14
  <2>2. SubSeq(Contents, 1, n) = front
    <3> DEFINE s == SubSeq(Contents, 1, n)
    <3>1. \A i \in 1..n : Contents[i] \in Nat
      <4>1. \A i \in 1..n : i \in 1..Len(Contents)
        BY <1>1, <1>2, <1>3
      <4> QED
        BY <1>3, <4>1, ElementOfSeq
    <3>2. s \in Seq(Nat) /\ Len(s) = n /\ \A i \in 1..n : s[i] = Contents[1 + i - 1]
      <4>1. 1 \in Int /\ n \in Int /\ 1 <= n /\ n - 1 + 1 = n
        BY <1>1, <1>14
      <4> QED
        BY <3>1, <4>1, SubSeqProperties
    <3> HIDE DEF s, front
    <3>3. \A i \in 1..n : s[i] = front[i]
      <4> TAKE i \in 1..n
      <4>1. 1 + i - 1 = i /\ i \in 1..count
        BY <1>1, <1>2
      <4> QED
        BY <1>3, <1>9, <3>2, <4>1
    <3>4. s = front
      BY <1>9, <3>2, <3>3, SeqEqual
    <3> QED
      BY <3>4 DEF s
  <2>3. SubSeq(Contents, n + 1, Len(Contents)) = Contents'
    <3> DEFINE s == SubSeq(Contents, n + 1, count)
    <3>1. \A i \in n + 1..count : Contents[i] \in Nat
      <4>1. \A i \in n + 1..count : i \in 1..Len(Contents)
        BY <1>1, <1>2, <1>3
      <4> QED
        BY <1>3, <4>1, ElementOfSeq
    <3>2. s \in Seq(Nat) /\ Len(s) = count' /\ \A i \in 1..count' : s[i] = Contents[n + i]
      <4>1. n + 1 \in Int /\ count \in Int
        BY <1>1
      <4>2. /\ s \in Seq(Nat) /\ Len(s) = IF n + 1 <= count THEN count - (n + 1) + 1 ELSE 0
            /\ \A i \in 1..count - (n + 1) + 1 : s[i] = Contents[n + 1 + i - 1]
        BY <3>1, <4>1, SubSeqProperties
      <4>3. count - (n + 1) + 1 = count' /\ (~(n + 1 <= count) => count' = 0)
        BY <1>1, <1>2
      <4> HIDE DEF s
      <4>4. \A i \in 1..count' : s[i] = Contents[n + i]
        <5> TAKE i \in 1..count'
        <5>1. n + 1 + i - 1 = n + i
          BY <1>1, <1>8
        <5> QED
          BY <4>2, <4>3, <5>1
      <4> QED
        BY <4>2, <4>3, <4>4
    <3> HIDE DEF s
    <3>3. \A i \in 1..count' : s[i] = Contents'[i]
      <4> TAKE i \in 1..count'
      <4>1. n + i \in 1..count /\ n + i \in 1..c /\ \A k \in 1..n : k \in 1..c /\ k # n + i
        BY <1>1, <1>2, <1>8
      <4>2. (head' + i - 1) % c = Slot(n + i)
        <5> DEFINE x == head' + i - 1
        <5>1. x \in Nat /\ x < 2 * c
          BY <1>1, <1>6, <1>8
        <5> HIDE DEF x
        <5>2. x % c = IF x < c THEN x ELSE x - c
          BY ONLY <1>1, <5>1, Wrap
        <5>3. /\ Slot(n + i) = IF head + (n + i) - 1 < c THEN head + (n + i) - 1 ELSE head + (n + i) - 1 - c
              /\ Slot(n + i) \in 0..c - 1
          BY ONLY <1>5, <4>1
        <5>4. x = head' + i - 1
          BY DEF x
        <5>5. (IF x < c THEN x ELSE x - c) =
                IF head + (n + i) - 1 < c THEN head + (n + i) - 1 ELSE head + (n + i) - 1 - c
          <6>1. i \in Nat /\ i > 0 /\ n + i <= c
            BY <1>8, <4>1, <1>1
          <6> QED
            BY ONLY <1>1, <1>6, <5>4, <6>1
        <5> QED
          BY <5>2, <5>3, <5>4, <5>5
      <4>3. ~ \E k \in 1..n : Slot(k) = Slot(n + i)
        BY <1>4, <4>1
      <4>4. Slot(n + i) \in 0..c - 1
        BY <1>5, <4>1
      <4>5. buffer'[Slot(n + i)] = buffer[Slot(n + i)]
        BY <1>1, <1>2, <4>3, <4>4
      <4> QED
        BY <1>3, <1>12, <3>2, <4>1, <4>2, <4>5
    <3>4. s = Contents'
      BY <1>12, <3>2, <3>3, SeqEqual
    <3> QED
      BY <1>3, <3>4 DEF s
  <2>4. Queue!Give
    <3>1. handed' = handed \o SubSeq(Contents, 1, n)
      BY <1>10, <2>2
    <3>2. UNCHANGED <<pushed, evicted + discarded>>
      BY <1>2
    <3> QED
      BY <2>1, <2>3, <3>1, <3>2 DEF Queue!Give
  <2> QED
    BY <1>11, <2>4
<1> QED
  BY <1>13, <1>14

\* Discard empties the queue and counts what it drops.
LEMMA DiscardClears == BufferInv /\ Discard => BufferInv' /\ Queue!Clear
<1> SUFFICES ASSUME BufferInv, Discard PROVE BufferInv' /\ Queue!Clear
  OBVIOUS
<1>1. /\ capacity \in Nat \ {0} /\ buffer \in [0..capacity - 1 -> Nat] /\ count \in 0..capacity
      /\ pushed \in Nat /\ handed \in Seq(Nat) /\ discarded \in Nat /\ evicted \in Nat
  BY CapacityPositive DEF BufferInv
<1>2. /\ head' = 0 /\ tail' = 0 /\ count' = 0 /\ discarded' = discarded + count
      /\ UNCHANGED <<pushed, handed, evicted>>
  BY DEF Discard
<1>3. buffer' \in [0..capacity - 1 -> Nat]
  BY <1>1 DEF Discard
<1>4. tail' = (head' + count') % capacity
  BY <1>1, <1>2
<1>5. BufferInv'
  BY <1>1, <1>2, <1>3, <1>4 DEF BufferInv
<1>6. Contents' = <<>>
  BY <1>2 DEF Contents
<1>7. Len(Contents) = count
  BY ContentsIsSequence
<1>8. evicted' + discarded' = evicted + discarded + Len(Contents)
  BY <1>1, <1>2, <1>7
<1> QED
  BY <1>2, <1>5, <1>6, <1>8 DEF Queue!Clear

\* BufferInv holds in every state: the indices of the ring stay in order.
THEOREM BufferInvariant == Spec => []BufferInv
<1>1. Init => BufferInv
  <2> SUFFICES ASSUME BufferInit PROVE BufferInv
    BY DEF Init
  <2>1. (0 + 0) % capacity = 0
    BY CapacityPositive
  <2> QED
    BY <2>1, CapacityPositive DEF BufferInit, BufferInv
<1>2. BufferInv /\ [Next]_vars => BufferInv'
  <2> SUFFICES ASSUME BufferInv, [Next]_vars PROVE BufferInv'
    OBVIOUS
  <2>1. CASE BufferNext
    BY <2>1, PushAdds, DrainGives, DiscardClears DEF BufferNext
  <2>2. CASE UNCHANGED bufferVars
    BY <2>2 DEF bufferVars, BufferInv
  <2> QED
    BY <2>1, <2>2 DEF Next, vars, UseBuilder, UseBuffer, UseLoop, UseRetry, UseOptions
<1> QED
  BY <1>1, <1>2, PTL DEF Spec

\* MessageBuffer implements the queue that drops its oldest message, for every
\* capacity: the ring's wrap-around, its evictions and drains that stop half
\* way never lose, repeat or reorder a message that is not counted as dropped.
THEOREM ImplementsQueueAlways == Spec => ImplementsQueue
<1>1. Init => Queue!Init
  <2> SUFFICES ASSUME BufferInit PROVE Queue!Init
    BY DEF Init
  <2>1. Contents = <<>>
    BY DEF BufferInit, Contents
  <2> QED
    BY <2>1 DEF BufferInit, Queue!Init
<1>2. BufferInv /\ [Next]_vars =>
        [Queue!Next]_<<Contents, handed, pushed, evicted + discarded>>
  <2> SUFFICES ASSUME BufferInv, [Next]_vars
               PROVE [Queue!Next]_<<Contents, handed, pushed, evicted + discarded>>
    OBVIOUS
  <2>1. CASE Push
    BY <2>1, PushAdds DEF Queue!Next
  <2>2. CASE Discard
    BY <2>2, DiscardClears DEF Queue!Next
  <2>3. ASSUME NEW n \in 0..capacity, Drain(n)
        PROVE [Queue!Next]_<<Contents, handed, pushed, evicted + discarded>>
    BY <2>3, DrainGives DEF Queue!Next
  <2>4. CASE UNCHANGED bufferVars
    BY <2>4 DEF bufferVars, Contents, Slot
  <2> QED
    BY <2>1, <2>2, <2>3, <2>4
       DEF Next, vars, BufferNext, UseBuilder, UseBuffer, UseLoop, UseRetry, UseOptions
<1> QED
  BY <1>1, <1>2, BufferInvariant, PTL DEF Spec, ImplementsQueue, Queue!Spec

-----------------------------------------------------------------------------
(* The options of a client. *)

\* No factory of TlsConfig gives the roots or the key both as a text and as a file.
LEMMA TlsConfigsShape ==
  ASSUME NEW conf \in TlsConfigs
  PROVE  conf \in TlsRecords /\ (conf.caPem # NoText => conf.ca = NoText) /\ (conf.keyPem # NoText => conf.key = NoText)
<1> USE ClientOptionsAssumption DEF TlsRecords, NewTlsConfig
<1>1. CASE conf = NewTlsConfig
  BY <1>1
<1>2. ASSUME NEW p \in Paths, conf = FromCertFile(p)
      PROVE  conf \in TlsRecords /\ (conf.caPem # NoText => conf.ca = NoText) /\ (conf.keyPem # NoText => conf.key = NoText)
  BY <1>2 DEF FromCertFile
<1>3. ASSUME NEW p \in Pems, conf = FromPem(p)
      PROVE  conf \in TlsRecords /\ (conf.caPem # NoText => conf.ca = NoText) /\ (conf.keyPem # NoText => conf.key = NoText)
  BY <1>3 DEF FromPem
<1>4. ASSUME NEW c \in Paths, NEW k \in Paths, NEW p \in Paths, conf = FromMTLS(c, k, p)
      PROVE  conf \in TlsRecords /\ (conf.caPem # NoText => conf.ca = NoText) /\ (conf.keyPem # NoText => conf.key = NoText)
  BY <1>4 DEF FromMTLS
<1>5. ASSUME NEW c \in Pems, NEW k \in Pems, NEW p \in Pems, conf = FromMTLSPem(c, k, p)
      PROVE  conf \in TlsRecords /\ (conf.caPem # NoText => conf.ca = NoText) /\ (conf.keyPem # NoText => conf.key = NoText)
  BY <1>5 DEF FromMTLSPem
<1>6. \/ conf = NewTlsConfig
      \/ \E p \in Paths : conf = FromCertFile(p)
      \/ \E p \in Pems : conf = FromPem(p)
      \/ conf \in {FromMTLS(c, k, p) : c, k, p \in Paths}
      \/ conf \in {FromMTLSPem(c, k, p) : c, k, p \in Pems}
  BY DEF TlsConfigs
<1>7. CASE conf \in {FromMTLS(c, k, p) : c, k, p \in Paths}
  <2>1. PICK c \in Paths, k \in Paths, p \in Paths : conf = FromMTLS(c, k, p)
    BY ONLY <1>7
  <2> QED
    BY <1>4, <2>1
<1>8. CASE conf \in {FromMTLSPem(c, k, p) : c, k, p \in Pems}
  <2>1. PICK c \in Pems, k \in Pems, p \in Pems : conf = FromMTLSPem(c, k, p)
    BY ONLY <1>8
  <2> QED
    BY <1>5, <2>1
<1> QED
  BY <1>1, <1>2, <1>3, <1>6, <1>7, <1>8

\* What BuildChannelCredentials accepts has every part that was asked for.
LEMMA CredentialsKept ==
  ASSUME NEW t \in TlsRecords, t.caPem # NoText => t.ca = NoText, t.keyPem # NoText => t.key = NoText, t.enabled,
         BuildChannelCredentials(t).status = "kOk"
  PROVE  LET channel == BuildChannelCredentials(t).channel
         IN  /\ channel.kind = "ssl" /\ ~t.skipVerify
             /\ t.caPem # NoText => channel.roots = t.caPem
             /\ t.ca # NoText => Readable(t.ca) /\ channel.roots = files[t.ca]
             /\ t.mtls /\ t.key # NoText => channel.key = files[t.key] /\ Readable(t.key)
<1> DEFINE roots == Part(t.caPem, t.ca)
           none == [ok |-> TRUE, text |-> NoText]
           cert == IF t.mtls THEN Part(t.certPem, t.cert) ELSE none
           key == IF t.mtls THEN Part(t.keyPem, t.key) ELSE none
           made == [kind |-> "ssl", roots |-> roots.text, cert |-> cert.text, key |-> key.text]
<1>1. BuildChannelCredentials(t) =
        IF t.skipVerify \/ ~(roots.ok /\ cert.ok /\ key.ok)
        THEN [status |-> "kValidation", channel |-> Insecure]
        ELSE [status |-> "kOk", channel |-> made]
  BY DEF BuildChannelCredentials
<1> HIDE DEF roots, cert, key, made
<1>2. ~t.skipVerify /\ roots.ok /\ key.ok /\ BuildChannelCredentials(t).channel = made
  <2>1. CASE t.skipVerify \/ ~(roots.ok /\ cert.ok /\ key.ok)
    <3>1. BuildChannelCredentials(t) = [status |-> "kValidation", channel |-> Insecure]
      BY <1>1, <2>1
    <3>2. BuildChannelCredentials(t).status = "kValidation"
      BY ONLY <3>1
    <3> QED
      BY <3>2
  <2>2. CASE ~(t.skipVerify \/ ~(roots.ok /\ cert.ok /\ key.ok))
    <3>1. BuildChannelCredentials(t) = [status |-> "kOk", channel |-> made]
      BY <1>1, <2>2
    <3>2. BuildChannelCredentials(t).channel = made
      BY ONLY <3>1
    <3> QED
      BY <2>2, <3>2
  <2> QED
    BY <2>1, <2>2
<1>3. made.kind = "ssl" /\ made.roots = roots.text /\ made.key = key.text
  BY DEF made
<1>4. t.caPem # NoText => roots.text = t.caPem
  BY DEF roots, Part
<1>5. t.ca # NoText => Readable(t.ca) /\ roots.text = files[t.ca]
  BY <1>2 DEF roots, Part
<1>6. t.mtls /\ t.key # NoText => Readable(t.key) /\ key.text = files[t.key]
  BY <1>2 DEF key, Part
<1> QED
  BY <1>2, <1>3, <1>4, <1>5, <1>6

\* A setter forgets the client that was created before, which is all that
\* TargetIsAsked and TlsIsKept are about.
LEMMA NoClientIsFine ==
  ASSUME created' = NoClient
  PROVE  TargetIsAsked' /\ TlsIsKept'
<1>1. created'.status = "none"
  BY DEF NoClient
<1>2. TargetIsAsked'
  BY <1>1 DEF TargetIsAsked
<1>3. TlsIsKept'
  BY <1>1 DEF TlsIsKept
<1> QED
  BY <1>2, <1>3

\* Both forms of set_address leave the address that was asked for, or port 0.
LEMMA SetAddressStep ==
  ASSUME OptionsInv, NEW host \in Hosts, NEW port \in Int,
         SetTo([options EXCEPT !.host = host, !.port = port]),
         asked' = <<host, port>> \/ (asked' = <<>> /\ port = 0)
  PROVE  OptionsInv'
<1> USE DEF OptionsInv, SetTo
<1>1. OptionsTypeOK'
  BY DEF OptionsTypeOK
<1>2. options'.host = host /\ options'.port = port /\ options'.tls = options.tls
  BY DEF OptionsTypeOK
<1>3. AskedInv'
  BY <1>2 DEF AskedInv, Target
<1>4. TlsInv'
  BY <1>2 DEF TlsInv
<1>5. NamesInv'
  BY DEF NamesInv
<1> QED
  BY <1>1, <1>3, <1>4, <1>5, NoClientIsFine

\* The other setters leave the address alone, and set the TLS configuration as
\* a whole.
LEMMA SetOptionStep == OptionsInv /\ SetOption => OptionsInv'
<1> SUFFICES ASSUME OptionsInv, SetOption PROVE OptionsInv'
  OBVIOUS
<1> USE DEF OptionsInv
<1>0. asked' = asked
  BY DEF SetOption
<1>1. ASSUME NEW o, SetTo(o), o.host = options.host, o.port = options.port,
             o.tls \in TlsRecords, (o.tls.caPem # NoText => o.tls.ca = NoText),
             (o.tls.keyPem # NoText => o.tls.key = NoText),
             o \in [host : Hosts, port : Int, tls : TlsRecords,
                    clientId : {<<>>} \cup {<<"given", id>> : id \in ClientIds},
                    limits : [Limits -> Int], maxRetries : Int]
      PROVE  OptionsInv'
  <2>1. OptionsTypeOK'
    BY <1>1 DEF OptionsTypeOK, SetTo
  <2>2. AskedInv'
    BY <1>0, <1>1 DEF AskedInv, Target, SetTo
  <2>3. TlsInv'
    BY <1>1 DEF TlsInv, SetTo
  <2>4. NamesInv'
    BY <1>1 DEF NamesInv, SetTo
  <2>5. TargetIsAsked' /\ TlsIsKept'
    BY <1>1, NoClientIsFine DEF SetTo
  <2> QED
    BY <2>1, <2>2, <2>3, <2>4, <2>5
<1>2. /\ options \in [host : Hosts, port : Int, tls : TlsRecords,
                      clientId : {<<>>} \cup {<<"given", id>> : id \in ClientIds},
                      limits : [Limits -> Int], maxRetries : Int]
      /\ options.tls.caPem # NoText => options.tls.ca = NoText
      /\ options.tls.keyPem # NoText => options.tls.key = NoText
  BY DEF OptionsTypeOK, TlsInv
<1>3. ASSUME NEW id \in ClientIds,
             SetTo([options EXCEPT !.clientId = IF id = NoText THEN <<>> ELSE <<"given", id>>])
      PROVE  OptionsInv'
  <2> DEFINE o == [options EXCEPT !.clientId = IF id = NoText THEN <<>> ELSE <<"given", id>>]
  <2>1. /\ o.host = options.host /\ o.port = options.port /\ o.tls = options.tls
        /\ o \in [host : Hosts, port : Int, tls : TlsRecords,
                  clientId : {<<>>} \cup {<<"given", i>> : i \in ClientIds},
                  limits : [Limits -> Int], maxRetries : Int]
    BY ONLY <1>2, id \in ClientIds
  <2> HIDE DEF o
  <2> QED
    BY <1>1, <1>2, <1>3, <2>1 DEF o
<1>4. ASSUME NEW n \in Limits, NEW v \in LimitValues, SetTo([options EXCEPT !.limits[n] = v])
      PROVE  OptionsInv'
  <2> DEFINE o == [options EXCEPT !.limits[n] = v]
  <2>0. v \in Int
    BY ClientOptionsAssumption
  <2>1. /\ o.host = options.host /\ o.port = options.port /\ o.tls = options.tls
        /\ o \in [host : Hosts, port : Int, tls : TlsRecords,
                  clientId : {<<>>} \cup {<<"given", i>> : i \in ClientIds},
                  limits : [Limits -> Int], maxRetries : Int]
    BY ONLY <1>2, <2>0, n \in Limits
  <2> HIDE DEF o
  <2> QED
    BY <1>1, <1>2, <1>4, <2>1 DEF o
<1>5. ASSUME NEW v \in MaxRetryValues, SetTo([options EXCEPT !.maxRetries = v])
      PROVE  OptionsInv'
  <2> DEFINE o == [options EXCEPT !.maxRetries = v]
  <2>0. v \in Int
    BY ClientOptionsAssumption
  <2>1. /\ o.host = options.host /\ o.port = options.port /\ o.tls = options.tls
        /\ o \in [host : Hosts, port : Int, tls : TlsRecords,
                  clientId : {<<>>} \cup {<<"given", i>> : i \in ClientIds},
                  limits : [Limits -> Int], maxRetries : Int]
    BY ONLY <1>2, <2>0
  <2> HIDE DEF o
  <2> QED
    BY <1>1, <1>2, <1>5, <2>1 DEF o
<1>6. ASSUME NEW t \in TlsConfigs, NEW skip \in BOOLEAN,
             SetTo([options EXCEPT !.tls = [t EXCEPT !.skipVerify = skip]])
      PROVE  OptionsInv'
  <2> DEFINE u == [t EXCEPT !.skipVerify = skip]
             o == [options EXCEPT !.tls = u]
  <2>1. t \in TlsRecords /\ (t.caPem # NoText => t.ca = NoText) /\ (t.keyPem # NoText => t.key = NoText)
    BY TlsConfigsShape
  <2>2. u \in TlsRecords /\ (u.caPem # NoText => u.ca = NoText) /\ (u.keyPem # NoText => u.key = NoText)
    BY ONLY <2>1, skip \in BOOLEAN DEF TlsRecords
  <2> HIDE DEF u
  <2>3. /\ o.host = options.host /\ o.port = options.port /\ o.tls = u
        /\ o \in [host : Hosts, port : Int, tls : TlsRecords,
                  clientId : {<<>>} \cup {<<"given", i>> : i \in ClientIds},
                  limits : [Limits -> Int], maxRetries : Int]
    BY ONLY <1>2, <2>2
  <2>4. SetTo(o)
    BY <1>6 DEF u
  <2> HIDE DEF o
  <2> QED
    BY <1>1, <2>2, <2>3, <2>4
<1> QED
  BY <1>3, <1>4, <1>5, <1>6 DEF SetOption

\* A file that changes changes no client.
LEMMA FileChangesStep ==
  ASSUME OptionsInv, NEW path \in DOMAIN files, NEW content \in FileContents,
         FileChanges(path, content)
  PROVE  OptionsInv'
<1> USE DEF OptionsInv, FileChanges
<1>1. OptionsTypeOK'
  BY DEF OptionsTypeOK
<1>2. AskedInv' /\ TlsInv' /\ NamesInv'
  BY DEF AskedInv, Target, TlsInv, NamesInv
<1> QED
  BY <1>1, <1>2, NoClientIsFine

\* Client::Create gives the client what the options hold, and a new uuid if
\* they hold no client id.
LEMMA CreateStep == OptionsInv /\ Create => OptionsInv'
<1> SUFFICES ASSUME OptionsInv, Create PROVE OptionsInv'
  OBVIOUS
<1> USE DEF OptionsInv
<1> DEFINE id == IF options.clientId = <<>> THEN GenerateUUID ELSE options.clientId
           creds == BuildChannelCredentials(options.tls)
           status == IF Validate(options) # "kOk" THEN Validate(options) ELSE creds.status
<1>1. /\ \/ /\ status = "kOk"
            /\ created' = [status |-> "kOk", target |-> Target(options), channel |-> creds.channel]
            /\ names' = Append(names, id)
         \/ /\ created' = [NoClient EXCEPT !.status = IF status = "kOk" THEN "kTimeout" ELSE status]
            /\ UNCHANGED names
      /\ UNCHANGED <<options, files, asked>>
  BY DEF Create
<1> HIDE DEF id, creds, status
<1>2. AskedInv' /\ TlsInv'
  BY <1>1 DEF AskedInv, TlsInv, Target
<1>3. options' = options /\ files' = files /\ asked' = asked
  BY <1>1
<1>4. CASE /\ status = "kOk"
           /\ created' = [status |-> "kOk", target |-> Target(options), channel |-> creds.channel]
           /\ names' = Append(names, id)
  <2>1. Validate(options) = "kOk" /\ creds.status = "kOk"
    BY <1>4 DEF status
  <2>2. created'.target = Target(options) /\ created'.channel = creds.channel
    BY ONLY <1>4
  <2>3. TargetIsAsked'
    <3>1. options.port \in 1..MaxPort
      BY ONLY <2>1 DEF Validate
    <3>2. options.port # 0
      <4>1. MaxPort \in Int
        BY DEF MaxPort
      <4> QED
        BY ONLY <3>1, <4>1
    <3>3. asked = Target(options)
      BY <3>2 DEF AskedInv
    <3> QED
      BY <1>3, <2>2, <3>3 DEF TargetIsAsked
  <2>4. TlsIsKept'
    <3> DEFINE t == options.tls
    <3>1. /\ t \in TlsRecords
          /\ t.caPem # NoText => t.ca = NoText
          /\ t.keyPem # NoText => t.key = NoText
      BY DEF OptionsTypeOK, TlsInv
    <3>2. BuildChannelCredentials(t).status = "kOk" /\ created'.channel = BuildChannelCredentials(t).channel
      BY <2>1, <2>2 DEF creds
    <3>3. options'.tls = t /\ files' = files
      BY <1>3
    <3> HIDE DEF t
    <3>4. t.enabled =>
            /\ created'.channel.kind = "ssl" /\ ~t.skipVerify
            /\ t.caPem # NoText => created'.channel.roots = t.caPem
            /\ t.ca # NoText => Readable(t.ca) /\ created'.channel.roots = files[t.ca]
            /\ t.mtls /\ t.key # NoText => created'.channel.key = files[t.key] /\ Readable(t.key)
      BY ONLY <3>1, <3>2, CredentialsKept
    <3> QED
      BY <3>3, <3>4 DEF TlsIsKept, Readable
  <2>5. /\ id \in ({"uuid"} \X Nat) \cup ({"given"} \X ClientIds)
        /\ id = <<"uuid", Len(names) + 1>> \/ id[1] = "given"
        /\ names \in Seq(({"uuid"} \X Nat) \cup ({"given"} \X ClientIds))
    <3>1. Len(names) + 1 \in Nat
      BY DEF OptionsTypeOK
    <3>2. options.clientId \in {<<>>} \cup {<<"given", i>> : i \in ClientIds}
      BY DEF OptionsTypeOK
    <3>3. CASE options.clientId = <<>>
      BY <3>1, <3>3 DEF id, GenerateUUID, OptionsTypeOK
    <3>4. CASE options.clientId # <<>>
      <4>1. PICK i \in ClientIds : options.clientId = <<"given", i>>
        BY <3>2, <3>4
      <4> QED
        BY <3>4, <4>1 DEF id, OptionsTypeOK
    <3> QED
      BY <3>3, <3>4
  <2>6. OptionsTypeOK'
    BY <1>3, <1>4, <2>5 DEF OptionsTypeOK
  <2>7. NamesInv'
    <3> DEFINE T == ({"uuid"} \X Nat) \cup ({"given"} \X ClientIds)
    <3>1. id \in T /\ names \in Seq(T) /\ names' = Append(names, id)
      BY <1>4, <2>5
    <3>2. \A i \in 1..Len(names) : names[i] = <<"uuid", i>> \/ names[i][1] = "given"
      BY <3>1 DEF NamesInv
    <3> HIDE DEF T
    <3>3. /\ DOMAIN names' = 1..Len(names) + 1 /\ names'[Len(names) + 1] = id
          /\ \A i \in 1..Len(names) : names'[i] = names[i]
      BY ONLY <3>1
    <3>4. ASSUME NEW i \in DOMAIN names'
          PROVE  names'[i] = <<"uuid", i>> \/ names'[i][1] = "given"
      <4>1. CASE i = Len(names) + 1
        BY <2>5, <3>3, <4>1
      <4>2. CASE i # Len(names) + 1
        <5>1. i \in 1..Len(names)
          BY ONLY <3>1, <3>3, <4>2, i \in DOMAIN names'
        <5> QED
          BY <3>2, <3>3, <5>1
      <4> QED
        BY <4>1, <4>2
    <3> QED
      BY <3>4 DEF NamesInv
  <2> QED
    BY <1>2, <2>3, <2>4, <2>6, <2>7
<1>5. CASE /\ created' = [NoClient EXCEPT !.status = IF status = "kOk" THEN "kTimeout" ELSE status]
           /\ UNCHANGED names
  <2>1. created'.status # "kOk"
    BY ONLY <1>5 DEF NoClient
  <2>2. TargetIsAsked' /\ TlsIsKept'
    BY <2>1 DEF TargetIsAsked, TlsIsKept
  <2>3. OptionsTypeOK' /\ NamesInv'
    BY <1>3, <1>5 DEF OptionsTypeOK, NamesInv
  <2> QED
    BY <1>2, <2>2, <2>3
<1> QED
  BY <1>1, <1>4, <1>5

\* OptionsInv holds in every state.
THEOREM OptionsInvariant == Spec => []OptionsInv
<1>1. Init => OptionsInv
  <2> SUFFICES ASSUME OptionsInit PROVE OptionsInv
    BY DEF Init
  <2>1. NewTlsConfig \in TlsRecords
    BY ClientOptionsAssumption DEF NewTlsConfig, TlsRecords
  <2>2. OptionsTypeOK
    <3>1. names \in Seq(({"uuid"} \X Nat) \cup ({"given"} \X ClientIds))
      BY DEF OptionsInit
    <3>2. files \in [Paths \ {NoText} -> FileContents \cup {"missing"}]
      BY DEF OptionsInit
    <3>3. options \in [host : Hosts, port : Int, tls : TlsRecords,
                       clientId : {<<>>} \cup {<<"given", id>> : id \in ClientIds},
                       limits : [Limits -> Int], maxRetries : Int]
      <4>1. DefaultPort \in Int /\ "localhost" \in Hosts
        BY DEF DefaultPort, Hosts
      <4>2. options = [host |-> "localhost", port |-> DefaultPort, clientId |-> <<>>, tls |-> NewTlsConfig,
                       limits |-> [n \in Limits |-> 1], maxRetries |-> 3]
        BY DEF OptionsInit
      <4> QED
        BY ONLY <2>1, <4>1, <4>2
    <3> QED
      BY <3>1, <3>2, <3>3 DEF OptionsTypeOK
  <2>3. AskedInv
    BY DEF OptionsInit, AskedInv, Target
  <2>4. TlsInv
    BY DEF OptionsInit, TlsInv, NewTlsConfig
  <2>5. NamesInv
    BY DEF OptionsInit, NamesInv
  <2>6. TargetIsAsked /\ TlsIsKept
    BY DEF OptionsInit, NoClient, TargetIsAsked, TlsIsKept
  <2> QED
    BY <2>2, <2>3, <2>4, <2>5, <2>6 DEF OptionsInv
<1>2. OptionsInv /\ [Next]_vars => OptionsInv'
  <2> SUFFICES ASSUME OptionsInv, [Next]_vars PROVE OptionsInv'
    OBVIOUS
  <2>1. ASSUME NEW a \in Addresses, SetAddress(a) PROVE OptionsInv'
    <3>1. a.text \in Hosts /\ a.host \in Hosts /\ a.port \in Int
      BY ClientOptionsAssumption DEF Hosts
    <3>2. CASE a.given /\ a.number
      <4>1. /\ SetTo([options EXCEPT !.host = a.host, !.port = a.port])
            /\ asked' = <<a.host, a.port>>
        BY <2>1, <3>2 DEF SetAddress
      <4> QED
        BY <3>1, <4>1, SetAddressStep
    <3>3. CASE a.given /\ ~a.number
      <4> DEFINE zero == 0
      <4>1. SetTo([options EXCEPT !.host = a.host, !.port = zero]) /\ asked' = <<>>
        BY <2>1, <3>3 DEF SetAddress
      <4>2. zero \in Int /\ zero = 0
        OBVIOUS
      <4> HIDE DEF zero
      <4> QED
        BY <3>1, <4>1, <4>2, SetAddressStep
    <3>4. CASE ~a.given
      <4> DEFINE zero == 0
      <4>1. SetTo([options EXCEPT !.host = a.text, !.port = zero]) /\ asked' = <<>>
        BY <2>1, <3>4 DEF SetAddress
      <4>2. zero \in Int /\ zero = 0
        OBVIOUS
      <4> HIDE DEF zero
      <4> QED
        BY <3>1, <4>1, <4>2, SetAddressStep
    <3> QED
      BY <3>2, <3>3, <3>4
  <2>2. ASSUME NEW port \in Ports, SetHostPort("host", port) PROVE OptionsInv'
    <3>1. port \in Int
      BY ClientOptionsAssumption
    <3>2. /\ SetTo([options EXCEPT !.host = "host", !.port = port])
          /\ asked' = <<"host", port>>
      BY <2>2 DEF SetHostPort
    <3>3. "host" \in Hosts
      BY DEF Hosts
    <3> QED
      BY <3>1, <3>2, <3>3, SetAddressStep
  <2>3. CASE SetOption
    BY <2>3, SetOptionStep
  <2>4. ASSUME NEW path \in DOMAIN files, NEW content \in FileContents, FileChanges(path, content)
        PROVE  OptionsInv'
    BY <2>4, FileChangesStep
  <2>5. CASE Create
    BY <2>5, CreateStep
  <2>6. CASE UNCHANGED optionVars
    <3>1. OptionsTypeOK' /\ AskedInv' /\ TlsInv' /\ NamesInv'
      BY <2>6 DEF optionVars, OptionsInv, OptionsTypeOK, AskedInv, TlsInv, NamesInv, Target
    <3>2. TargetIsAsked' /\ TlsIsKept'
      BY <2>6 DEF optionVars, OptionsInv, TargetIsAsked, TlsIsKept, Readable
    <3> QED
      BY <3>1, <3>2 DEF OptionsInv
  <2>7. CASE OptionsNext
    BY <2>1, <2>2, <2>3, <2>4, <2>5, <2>7 DEF OptionsNext
  <2> QED
    BY <2>6, <2>7 DEF Next, vars, UseBuilder, UseBuffer, UseLoop, UseRetry, UseOptions
<1> QED
  BY <1>1, <1>2, PTL DEF Spec

\* A client has the address that was given last, the TLS that was asked for with
\* the files as they are when it is created, and an id of its own unless the
\* application chose it: for every sequence of setters, changes of files and
\* Creates on one options object.
THEOREM CreatedAsAskedAlways == Spec => []CreatedAsAsked
<1>1. OptionsInv => CreatedAsAsked
  <2> SUFFICES ASSUME OptionsInv PROVE NamesAreDistinct
    BY DEF OptionsInv, CreatedAsAsked
  <2> SUFFICES ASSUME NEW i \in DOMAIN names, NEW j \in DOMAIN names, i # j, names[i] = names[j]
               PROVE  names[i][1] = "given"
    BY DEF NamesAreDistinct
  <2>1. names[i] = <<"uuid", i>> \/ names[i][1] = "given"
    BY DEF OptionsInv, NamesInv
  <2>2. names[j] = <<"uuid", j>> \/ names[j][1] = "given"
    BY DEF OptionsInv, NamesInv
  <2>3. <<"uuid", i>> # <<"uuid", j>>
    BY Zenon
  <2> QED
    BY <2>1, <2>2, <2>3
<1> QED
  BY <1>1, OptionsInvariant, PTL

-----------------------------------------------------------------------------
(* The builders. *)

\* What a refused and a successful Build return.
LEMMA BuildReturns ==
  ASSUME NEW x, NEW m, NEW fresh, NEW kept
  PROVE  /\ Refused(x).status = "kValidation" /\ Refused(x).builder = x
         /\ Produced(x, m, fresh, kept).status = "kOk"
         /\ Produced(x, m, fresh, kept).message = m
         /\ DOMAIN Produced(x, m, fresh, kept).builder = DOMAIN x
         /\ \A f \in DOMAIN x :
              Produced(x, m, fresh, kept).builder[f] = IF f \in kept THEN x[f] ELSE fresh[f]
  BY DEF Refused, Produced

\* WithId changes the id and nothing else, and leaves no message without one.
LEMMA WithIdFacts ==
  ASSUME NEW x, NEW u, "id" \in DOMAIN x
  PROVE  /\ DOMAIN WithId(x, u) = DOMAIN x
         /\ \A f \in DOMAIN x \ {"id"} : WithId(x, u)[f] = x[f]
         /\ u # NoText => WithId(x, u).id # NoText
  BY DEF WithId, FirstNonEmpty

\* What Build does to a builder x of class k: a success gives a message with the
\* builder's texts and leaves the builder without them, a refusal leaves it alone.
Moves(k, x, r) ==
  /\ r.status = "kOk" =>
       /\ DOMAIN r.builder = DOMAIN x /\ DOMAIN r.message = DOMAIN x
       /\ \A f \in Setters(k).text \ {"id"} : r.message[f] = x[f] /\ r.builder[f] = Fresh(k)[f]
  /\ r.status # "kOk" => r.builder = x

\* Enough for Moves: the message is the builder but for the id, and no text but
\* the id is kept.
LEMMA MovesIf ==
  ASSUME NEW k, NEW x, NEW r, NEW m, NEW kept,
         r = Refused(x) \/ r = Produced(x, m, Fresh(k), kept),
         DOMAIN m = DOMAIN x, \A f \in DOMAIN x \ {"id"} : m[f] = x[f],
         \A f \in Setters(k).text \ {"id"} : f \in DOMAIN x /\ f \notin kept
  PROVE  Moves(k, x, r)
<1>1. CASE r = Refused(x)
  <2>1. r.status = "kValidation" /\ r.builder = x
    BY <1>1, BuildReturns
  <2> QED
    BY <2>1 DEF Moves
<1>2. CASE r = Produced(x, m, Fresh(k), kept)
  <2>1. /\ r.status = "kOk" /\ r.message = m /\ DOMAIN r.builder = DOMAIN x
        /\ \A f \in DOMAIN x : r.builder[f] = IF f \in kept THEN x[f] ELSE Fresh(k)[f]
    BY <1>2, BuildReturns
  <2> QED
    BY <2>1 DEF Moves
<1> QED
  BY <1>1, <1>2

\* Build of every class moves the texts, for every content of the builder.
LEMMA BuildMoves ==
  ASSUME NEW k \in Classes, NEW x, DOMAIN x = DOMAIN Fresh(k), NEW u
  PROVE  Moves(k, x, BuildOf(k, x, u))
<1>1. CASE k = "Event"
  <2>1. Fresh(k) = NewEvent /\ Setters(k) = EventSetters
    BY <1>1 DEF Fresh, Setters
  <2>2. \/ BuildOf(k, x, u) = Refused(x)
        \/ BuildOf(k, x, u) = Produced(x, WithId(x, u), NewEvent, {"id"})
    BY <1>1 DEF BuildOf, EventBuild
  <2>3. \A f \in EventSetters.text \ {"id"} : f \in DOMAIN x /\ f \notin {"id"}
    BY <2>1 DEF NewEvent, EventSetters
  <2>4. "id" \in DOMAIN x
    BY <2>1 DEF NewEvent
  <2> QED
    BY <2>1, <2>2, <2>3, <2>4, WithIdFacts, MovesIf
<1>2. CASE k = "EventStore"
  <2>1. Fresh(k) = NewEventStore /\ Setters(k) = EventStoreSetters
    BY <1>2 DEF Fresh, Setters
  <2>2. \/ BuildOf(k, x, u) = Refused(x)
        \/ BuildOf(k, x, u) = Produced(x, WithId(x, u), NewEventStore, {"id"})
    BY <1>2 DEF BuildOf, EventStoreBuild
  <2>3. \A f \in EventStoreSetters.text \ {"id"} : f \in DOMAIN x /\ f \notin {"id"}
    BY <2>1 DEF NewEventStore, NewEvent, EventStoreSetters, EventSetters
  <2>4. "id" \in DOMAIN x
    BY <2>1 DEF NewEventStore, NewEvent
  <2> QED
    BY <2>1, <2>2, <2>3, <2>4, WithIdFacts, MovesIf
<1>3. CASE k = "Command"
  <2>1. Fresh(k) = NewCommand /\ Setters(k) = CommandSetters
    BY <1>3 DEF Fresh, Setters
  <2>2. \/ BuildOf(k, x, u) = Refused(x)
        \/ BuildOf(k, x, u) = Produced(x, WithId(x, u), NewCommand, {"id", "timeout"})
    BY <1>3 DEF BuildOf, CommandBuild
  <2>3. \A f \in CommandSetters.text \ {"id"} : f \in DOMAIN x /\ f \notin {"id", "timeout"}
    BY <2>1 DEF NewCommand, CommandSetters, EventSetters
  <2>4. "id" \in DOMAIN x
    BY <2>1 DEF NewCommand
  <2> QED
    BY <2>1, <2>2, <2>3, <2>4, WithIdFacts, MovesIf
<1>4. CASE k = "CommandReply"
  <2>1. Fresh(k) = NewCommandReply /\ Setters(k) = CommandReplySetters
    BY <1>4 DEF Fresh, Setters
  <2>2. \/ BuildOf(k, x, u) = Refused(x)
        \/ BuildOf(k, x, u) = Produced(x, x, NewCommandReply, {"executedAt", "executed"})
    BY <1>4 DEF BuildOf, CommandReplyBuild
  <2>3. \A f \in CommandReplySetters.text \ {"id"} : f \in DOMAIN x /\ f \notin {"executedAt", "executed"}
    BY <2>1 DEF NewCommandReply, CommandReplySetters, ReplyText
  <2> QED
    BY <2>1, <2>2, <2>3, MovesIf
<1>5. CASE k = "Query"
  <2>1. Fresh(k) = NewQuery /\ Setters(k) = QuerySetters
    BY <1>5 DEF Fresh, Setters
  <2>2. \/ BuildOf(k, x, u) = Refused(x)
        \/ BuildOf(k, x, u) = Produced(x, WithId(x, u), NewQuery, {"id", "timeout", "cacheTtl"})
    BY <1>5 DEF BuildOf, QueryBuild
  <2>3. \A f \in QuerySetters.text \ {"id"} : f \in DOMAIN x /\ f \notin {"id", "timeout", "cacheTtl"}
    BY <2>1 DEF NewQuery, QuerySetters, EventSetters
  <2>4. "id" \in DOMAIN x
    BY <2>1 DEF NewQuery
  <2> QED
    BY <2>1, <2>2, <2>3, <2>4, WithIdFacts, MovesIf
<1>6. CASE k = "QueryReply"
  <2>1. Fresh(k) = NewQueryReply /\ Setters(k) = QueryReplySetters
    BY <1>6 DEF Fresh, Setters
  <2>2. \/ BuildOf(k, x, u) = Refused(x)
        \/ BuildOf(k, x, u) = Produced(x, x, NewQueryReply, {"executedAt", "cacheHit", "executed"})
    BY <1>6 DEF BuildOf, QueryReplyBuild
  <2>3. \A f \in QueryReplySetters.text \ {"id"} : f \in DOMAIN x /\ f \notin {"executedAt", "cacheHit", "executed"}
    BY <2>1 DEF NewQueryReply, QueryReplySetters, ReplyText
  <2> QED
    BY <2>1, <2>2, <2>3, MovesIf
<1>7. CASE k = "QueueMessage"
  <2>1. Fresh(k) = NewQueueMessage /\ Setters(k) = QueueMessageSetters
    BY <1>7 DEF Fresh, Setters
  <2>2. \/ BuildOf(k, x, u) = Refused(x)
        \/ BuildOf(k, x, u) = Produced(x, WithId(x, u), NewQueueMessage, {"id", "expirationSeconds", "delaySeconds", "maxReceiveCount"})
    BY <1>7 DEF BuildOf, QueueMessageBuild
  <2>3. \A f \in QueueMessageSetters.text \ {"id"} : f \in DOMAIN x /\ f \notin {"id", "expirationSeconds", "delaySeconds", "maxReceiveCount"}
    BY <2>1 DEF NewQueueMessage, QueueMessageSetters, EventSetters
  <2>4. "id" \in DOMAIN x
    BY <2>1 DEF NewQueueMessage
  <2> QED
    BY <2>1, <2>2, <2>3, <2>4, WithIdFacts, MovesIf
<1> QED
  BY <1>1, <1>2, <1>3, <1>4, <1>5, <1>6, <1>7 DEF Classes

\* The conversions of every class but the queue message keep what the receiver
\* is told, whatever the message holds.
LEMMA ConversionsKeep ==
  ASSUME NEW k \in Classes \ {"QueueMessage"}, NEW m, DOMAIN m = DOMAIN Fresh(k)
  PROVE  Survives(k, m)
<1>1. CASE k = "Event"
  <2> DEFINE r == [id |-> m.id, channel |-> m.channel, metadata |-> m.metadata, body |-> m.body,
              timestamp |-> 1, sequence |-> 0, tags |-> m.tags]
  <2>1. Received(k, m) = r
    BY <1>1 DEF Received, EventReceiveFromProto, Broadcast, EventToProto
  <2>2. DOMAIN m = DOMAIN NewEvent
    BY <1>1 DEF Fresh
  <2>3. \A f \in DOMAIN m \ NotTold(k) :
          /\ NameAt(k, f) \in DOMAIN r
          /\ r[NameAt(k, f)] = IF f = "clientId" /\ k \notin Replies THEN FirstNonEmpty(m[f], ClientId) ELSE m[f]
    BY ONLY <1>1, <2>2 DEF NotTold, NameAt, Replies, NewEvent
  <2> QED
    BY ONLY <2>1, <2>3 DEF Survives
<1>2. CASE k = "EventStore"
  <2> DEFINE r == [id |-> m.id, channel |-> m.channel, metadata |-> m.metadata, body |-> m.body,
              timestamp |-> 1, sequence |-> 1, tags |-> m.tags]
  <2>1. Received(k, m) = r
    BY <1>2 DEF Received, EventStoreReceiveFromProto, Broadcast, EventStoreToProto
  <2>2. DOMAIN m = DOMAIN NewEventStore
    BY <1>2 DEF Fresh
  <2>3. \A f \in DOMAIN m \ NotTold(k) :
          /\ NameAt(k, f) \in DOMAIN r
          /\ r[NameAt(k, f)] = IF f = "clientId" /\ k \notin Replies THEN FirstNonEmpty(m[f], ClientId) ELSE m[f]
    BY ONLY <1>2, <2>2 DEF NotTold, NameAt, Replies, NewEventStore, NewEvent
  <2> QED
    BY ONLY <2>1, <2>3 DEF Survives
<1>3. CASE k = "Command"
  <2> DEFINE r == [id |-> m.id, clientId |-> FirstNonEmpty(m.clientId, ClientId), channel |-> m.channel,
              metadata |-> m.metadata, body |-> m.body, responseTo |-> NoText,
              timeout |-> 1000 * ToInt32(m.timeout), tags |-> m.tags]
  <2>1. Received(k, m) = r
    BY <1>3 DEF Received, CommandReceiveFromProto, CommandToProto
  <2>2. DOMAIN m = DOMAIN NewCommand
    BY <1>3 DEF Fresh
  <2>3. \A f \in DOMAIN m \ NotTold(k) :
          /\ NameAt(k, f) \in DOMAIN r
          /\ r[NameAt(k, f)] = IF f = "clientId" /\ k \notin Replies THEN FirstNonEmpty(m[f], ClientId) ELSE m[f]
    BY ONLY <1>3, <2>2 DEF NotTold, NameAt, Replies, NewCommand
  <2> QED
    BY ONLY <2>1, <2>3 DEF Survives
<1>4. CASE k = "CommandReply"
  <2> DEFINE r == [commandId |-> m.requestId, responseClientId |-> m.clientId, replyChannel |-> m.responseTo,
              executed |-> m.executed, executedAt |-> m.executedAt, error |-> m.error, tags |-> m.tags]
  <2>1. Received(k, m) = r
    BY <1>4 DEF Received, CommandResponseFromProto, CommandReplyToProto
  <2>2. DOMAIN m = DOMAIN NewCommandReply
    BY <1>4 DEF Fresh
  <2>3. \A f \in DOMAIN m \ NotTold(k) :
          /\ NameAt(k, f) \in DOMAIN r
          /\ r[NameAt(k, f)] = IF f = "clientId" /\ k \notin Replies THEN FirstNonEmpty(m[f], ClientId) ELSE m[f]
    BY ONLY <1>4, <2>2 DEF NotTold, NameAt, Replies, NewCommandReply
  <2> QED
    BY ONLY <2>1, <2>3 DEF Survives
<1>5. CASE k = "Query"
  <2> DEFINE r == [id |-> m.id, clientId |-> FirstNonEmpty(m.clientId, ClientId), channel |-> m.channel,
              metadata |-> m.metadata, body |-> m.body, responseTo |-> NoText,
              timeout |-> 1000 * ToInt32(m.timeout), cacheKey |-> m.cacheKey,
              cacheTtl |-> 1000 * ToInt32(m.cacheTtl \div 1000), tags |-> m.tags]
  <2>1. Received(k, m) = r
    BY <1>5 DEF Received, QueryReceiveFromProto, QueryToProto
  <2>2. DOMAIN m = DOMAIN NewQuery
    BY <1>5 DEF Fresh
  <2>3. \A f \in DOMAIN m \ NotTold(k) :
          /\ NameAt(k, f) \in DOMAIN r
          /\ r[NameAt(k, f)] = IF f = "clientId" /\ k \notin Replies THEN FirstNonEmpty(m[f], ClientId) ELSE m[f]
    BY ONLY <1>5, <2>2 DEF NotTold, NameAt, Replies, NewQuery
  <2> QED
    BY ONLY <2>1, <2>3 DEF Survives
<1>6. CASE k = "QueryReply"
  <2> DEFINE r == [queryId |-> m.requestId, responseClientId |-> m.clientId, replyChannel |-> m.responseTo,
              executed |-> m.executed, executedAt |-> m.executedAt, metadata |-> m.metadata,
              body |-> m.body, cacheHit |-> m.cacheHit, error |-> m.error, tags |-> m.tags]
  <2>1. Received(k, m) = r
    BY <1>6 DEF Received, QueryResponseFromProto, QueryReplyToProto
  <2>2. DOMAIN m = DOMAIN NewQueryReply
    BY <1>6 DEF Fresh
  <2>3. \A f \in DOMAIN m \ NotTold(k) :
          /\ NameAt(k, f) \in DOMAIN r
          /\ r[NameAt(k, f)] = IF f = "clientId" /\ k \notin Replies THEN FirstNonEmpty(m[f], ClientId) ELSE m[f]
    BY ONLY <1>6, <2>2 DEF NotTold, NameAt, Replies, NewQueryReply
  <2> QED
    BY ONLY <2>1, <2>3 DEF Survives
<1> QED
  BY <1>1, <1>2, <1>3, <1>4, <1>5, <1>6 DEF Classes

\* The receiver of a queue message builds it again: the Build succeeds and
\* changes nothing, because the sender's Build accepted it and gave it an id.
LEMMA QueueMessageRebuilt ==
  ASSUME NEW m, DOMAIN m = DOMAIN NewQueueMessage, m.channel # NoText,
         m.body # NoText \/ m.metadata # NoText, m.id # NoText
  PROVE  Survives("QueueMessage", m)
<1> DEFINE p == QueueMessageToProto(m, ClientId)
           q == [f \in DOMAIN NewQueueMessage |->
                   CASE f = "id" -> p.MessageID
                     [] f = "channel" -> p.Channel
                     [] f = "metadata" -> p.Metadata
                     [] f = "body" -> p.Body
                     [] f = "clientId" -> p.ClientID
                     [] f = "tags" -> p.Tags
                     [] OTHER -> p.Policy[f]]
           built == QueueMessageBuild(q, "other")
<1>1. DOMAIN q = DOMAIN NewQueueMessage
  OBVIOUS
<1>2. /\ q["id"] = m.id /\ q["channel"] = m.channel /\ q["metadata"] = m.metadata
      /\ q["body"] = m.body /\ q["clientId"] = FirstNonEmpty(m.clientId, ClientId)
      /\ q["tags"] = m.tags
  BY DEF QueueMessageToProto, NewQueueMessage
<1>3. \A f \in DOMAIN QueuePolicy : q[f] = m[f]
  BY DEF QueueMessageToProto, NewQueueMessage, QueuePolicy
<1>4. QueueMessageFromProto(p, "other") =
        IF built.status = "kOk" THEN [message |-> built.message, sequence |-> p.Attributes]
        ELSE [message |-> NewQueueMessage, sequence |-> 0]
  BY DEF QueueMessageFromProto
<1>5. Received("QueueMessage", m) = QueueMessageFromProto(p, "other").message
  BY DEF Received
<1> HIDE DEF q, p
<1>6. built = Produced(q, WithId(q, "other"), NewQueueMessage,
                       {"id", "expirationSeconds", "delaySeconds", "maxReceiveCount"})
  BY <1>2 DEF QueueMessageBuild
<1>7. built.status = "kOk" /\ built.message = WithId(q, "other")
  BY <1>6, BuildReturns
<1> HIDE DEF built
<1>8. Received("QueueMessage", m) = WithId(q, "other")
  BY <1>4, <1>5, <1>7
<1>9. WithId(q, "other") = [q EXCEPT !["id"] = q["id"]]
  BY <1>2 DEF WithId, FirstNonEmpty
<1>10. Received("QueueMessage", m) = [q EXCEPT !["id"] = q["id"]]
  BY <1>8, <1>9
<1>11. \A f \in DOMAIN q : Received("QueueMessage", m)[f] = q[f]
  BY ONLY <1>10
<1>12. DOMAIN Received("QueueMessage", m) = DOMAIN q
  BY ONLY <1>10
<1>13. \A f \in DOMAIN q :
         q[f] = IF f = "clientId" THEN FirstNonEmpty(m[f], ClientId) ELSE m[f]
  BY ONLY <1>1, <1>2, <1>3 DEF NewQueueMessage, QueuePolicy
<1>14. \A f : NameAt("QueueMessage", f) = f
  BY DEF NameAt, Replies
<1>15. "QueueMessage" \notin Replies
  BY DEF Replies
<1>16. DOMAIN q = DOMAIN m
  BY <1>1
<1> QED
  BY ONLY <1>11, <1>12, <1>13, <1>14, <1>15, <1>16 DEF Survives

\* A setter sets one field of the builder, as it was given.
LEMMA SetStep ==
  ASSUME BuilderInv, NEW f, NEW v, Set(f, v)
  PROVE  BuilderInv'
<1>1. /\ b' = [b EXCEPT ![f] = v] /\ given' = [given EXCEPT ![f] = v]
      /\ outcome' = NoOutcome /\ kind' = kind
  BY DEF Set
<1>2. /\ kind \in Classes /\ DOMAIN b = DOMAIN Fresh(kind) /\ DOMAIN given = DOMAIN Fresh(kind)
      /\ \A g \in Setters(kind).text \ {"id"} : b[g] = given[g]
  BY DEF BuilderInv, GivenInv
<1>3. \A g \in Setters(kind).text : g \in DOMAIN Fresh(kind)
  <2> DEFINE In(k) == \A g \in Setters(k).text : g \in DOMAIN Fresh(k)
  <2>1. In("Event")
    BY DEF Setters, Fresh, EventSetters, NewEvent
  <2>2. In("EventStore")
    BY DEF Setters, Fresh, EventSetters, NewEvent, EventStoreSetters, NewEventStore
  <2>3. In("Command")
    BY DEF Setters, Fresh, EventSetters, CommandSetters, NewCommand
  <2>4. In("CommandReply")
    BY DEF Setters, Fresh, ReplyText, CommandReplySetters, NewCommandReply
  <2>5. In("Query")
    BY DEF Setters, Fresh, EventSetters, QuerySetters, NewQuery
  <2>6. In("QueryReply")
    BY DEF Setters, Fresh, ReplyText, QueryReplySetters, NewQueryReply
  <2>7. In("QueueMessage")
    BY DEF Setters, Fresh, EventSetters, QueueMessageSetters, NewQueueMessage
  <2> HIDE DEF In
  <2>8. In(kind)
    BY <1>2, <2>1, <2>2, <2>3, <2>4, <2>5, <2>6, <2>7 DEF Classes
  <2> QED
    BY <2>8 DEF In
<1>4. GivenInv'
  <2>1. DOMAIN b' = DOMAIN b /\ DOMAIN given' = DOMAIN given
    BY ONLY <1>1
  <2>2. ASSUME NEW g \in Setters(kind).text \ {"id"} PROVE b'[g] = given'[g]
    <3>1. g \in DOMAIN b /\ g \in DOMAIN given /\ b[g] = given[g]
      BY <1>2, <1>3
    <3> QED
      BY ONLY <1>1, <3>1
  <2> QED
    BY <1>1, <1>2, <2>1, <2>2 DEF GivenInv
<1>5. outcome'.status # "kOk"
  BY <1>1 DEF NoOutcome
<1> QED
  BY <1>4, <1>5 DEF BuilderInv, NothingCarriedOver, RoundTrip

\* Build gives what was given since the last message, and only that.
LEMMA BuildStep == BuilderInv /\ Build => BuilderInv'
<1> SUFFICES ASSUME BuilderInv, Build PROVE BuilderInv'
  OBVIOUS
<1> DEFINE r == BuildOf(kind, b, "uuid")
<1>1. /\ b' = r.builder /\ kind' = kind
      /\ outcome' = [status |-> r.status, message |-> r.message, given |-> given]
      /\ given' = IF r.status = "kOk" THEN Fresh(kind) ELSE given
  BY DEF Build
<1>2. /\ kind \in Classes /\ DOMAIN b = DOMAIN Fresh(kind) /\ DOMAIN given = DOMAIN Fresh(kind)
      /\ \A f \in Setters(kind).text \ {"id"} : b[f] = given[f]
  BY DEF BuilderInv, GivenInv
<1>3. Moves(kind, b, r)
  BY <1>2, BuildMoves
<1> HIDE DEF r
<1>4. outcome'.status = r.status /\ outcome'.message = r.message /\ outcome'.given = given
  BY ONLY <1>1
<1>5. GivenInv'
  BY <1>1, <1>2, <1>3 DEF Moves, GivenInv
<1>6. NothingCarriedOver'
  BY <1>1, <1>2, <1>3, <1>4 DEF Moves, NothingCarriedOver
<1>7. RoundTrip'
  <2> SUFFICES ASSUME r.status = "kOk" PROVE Survives(kind, r.message)
    <3>1. CASE r.status = "kOk"
      BY <1>1, <1>4, <3>1 DEF RoundTrip, Survives, Received
    <3>2. CASE r.status # "kOk"
      BY <1>4, <3>2 DEF RoundTrip
    <3> QED
      BY <3>1, <3>2
  <2>1. DOMAIN r.message = DOMAIN Fresh(kind)
    BY <1>2, <1>3 DEF Moves
  <2>2. CASE kind # "QueueMessage"
    BY <1>2, <2>1, <2>2, ConversionsKeep
  <2>3. CASE kind = "QueueMessage"
    <3>1. r = QueueMessageBuild(b, "uuid") /\ DOMAIN Fresh(kind) = DOMAIN NewQueueMessage
      BY <2>3 DEF r, BuildOf, Fresh
    <3>2. r # Refused(b)
      BY BuildReturns
    <3>3. /\ b.channel # NoText /\ (b.body # NoText \/ b.metadata # NoText)
          /\ r = Produced(b, WithId(b, "uuid"), NewQueueMessage,
                          {"id", "expirationSeconds", "delaySeconds", "maxReceiveCount"})
      BY <3>1, <3>2 DEF QueueMessageBuild
    <3>4. r.message = WithId(b, "uuid")
      BY <3>3, BuildReturns
    <3>5. "uuid" # NoText
      BY Zenon DEF NoText
    <3>6. {"id", "channel", "body", "metadata"} \subseteq DOMAIN b
      BY <1>2, <3>1 DEF NewQueueMessage
    <3>7. /\ r.message.id # NoText /\ r.message.channel = b.channel
          /\ r.message.body = b.body /\ r.message.metadata = b.metadata
      BY <3>4, <3>5, <3>6, WithIdFacts
    <3> QED
      BY <2>1, <2>3, <3>1, <3>3, <3>7, QueueMessageRebuilt
  <2> QED
    BY <2>2, <2>3
<1> QED
  BY <1>5, <1>6, <1>7 DEF BuilderInv

\* BuilderInv holds in every state.
THEOREM BuilderInvariant == Spec => []BuilderInv
<1>1. Init => BuilderInv
  <2> SUFFICES ASSUME BuilderInit PROVE BuilderInv
    BY DEF Init
  <2>1. GivenInv
    BY BuildersAssumption DEF BuilderInit, GivenInv
  <2>2. outcome.status # "kOk"
    BY DEF BuilderInit, NoOutcome
  <2> QED
    BY <2>1, <2>2 DEF BuilderInv, NothingCarriedOver, RoundTrip
<1>2. BuilderInv /\ [Next]_vars => BuilderInv'
  <2> SUFFICES ASSUME BuilderInv, [Next]_vars PROVE BuilderInv'
    OBVIOUS
  <2>1. CASE BuilderNext
    BY <2>1, SetStep, BuildStep DEF BuilderNext, SetText, SetNumber
  <2>2. CASE UNCHANGED builderVars
    BY <2>2 DEF builderVars, BuilderInv, GivenInv, NothingCarriedOver, RoundTrip
  <2> QED
    BY <2>1, <2>2 DEF Next, vars, UseBuilder, UseBuffer, UseLoop, UseRetry, UseOptions
<1> QED
  BY <1>1, <1>2, PTL DEF Spec

\* No text but the id goes from one message of a builder to the next, for every
\* class and every sequence of setters and Builds, refused ones among them.
THEOREM NothingCarriedOverAlways == Spec => []NothingCarriedOver
<1>1. BuilderInv => NothingCarriedOver
  BY DEF BuilderInv
<1> QED
  BY <1>1, BuilderInvariant, PTL

\* Every message that a Build accepts arrives with the values it was sent with,
\* under the names the receiver has for them and but for what NotTold lists, for
\* every class and every content.
THEOREM RoundTripAlways == Spec => []RoundTrip
<1>1. BuilderInv => RoundTrip
  BY DEF BuilderInv
<1> QED
  BY <1>1, BuilderInvariant, PTL

=============================================================================
