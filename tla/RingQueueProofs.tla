---------------------------- MODULE RingQueueProofs ----------------------------
(***************************************************************************)
(* The ring is a first-in first-out queue for every capacity from 1 to 64. *)
(***************************************************************************)
EXTENDS RingQueue, SequenceTheorems, TLAPS

IInv == TypeOK /\ KeysAreTheActiveSlots

Contents == IF head < Capacity THEN Items ELSE Broken

\* Enqueueing lengthens the items by one at the end.
LEMMA PushStep ==
  ASSUME IInv, NEW v \in Values, push(v)
  PROVE  IInv' /\ Queue!Enqueue(v)
<1>1. /\ Capacity \in 1..64 /\ length \in 0..(Capacity - 1) /\ head \in 0..(Capacity - 1)
      /\ length' = length + 1 /\ head' = head
      /\ DOMAIN slots = Active /\ validState /\ validState'
  BY CapacityAssumption DEF push, canPush, IInv, TypeOK, KeysAreTheActiveSlots, validState
<1> DEFINE tail == physicalIndex(length)
<1>2. tail \in 0..(Capacity - 1) /\ \A o \in 0..(length - 1) : physicalIndex(o) # tail
  BY <1>1 DEF physicalIndex
<1>3. tail \notin DOMAIN slots
  BY <1>1, <1>2 DEF Active
<1>4. \A o : physicalIndex(o)' = physicalIndex(o)
  BY <1>1 DEF physicalIndex
<1>5. Active' = Active \cup {tail}
  <2>1. 0..length = 0..(length - 1) \cup {length}
    BY <1>1
  <2> QED
    BY <1>1, <1>4, <2>1 DEF Active
<1>6. /\ DOMAIN slots' = Active'
      /\ slots'[tail] = v
      /\ \A i \in DOMAIN slots : slots'[i] = slots[i] /\ i # tail
  BY <1>1, <1>3, <1>5 DEF push, Put
<1>7. TypeOK'
  BY <1>1, <1>2, <1>3, <1>5, <1>6 DEF IInv, TypeOK
<1>8. KeysAreTheActiveSlots'
  BY <1>1, <1>6 DEF KeysAreTheActiveSlots, validState, IInv
<1>9. Len(Items) = length /\ Items \in Seq(Values) /\ Items # Broken
  <2>1. \A i \in 1..length : slots[physicalIndex(i - 1)] \in Values
    BY <1>1 DEF Active, IInv, TypeOK
  <2> QED
    BY <1>1, <2>1, BrokenAssumption DEF Items
<1>10. Items' = Append(Items, v)
  <2>1. Items' = [i \in 1..(length + 1) |-> slots'[physicalIndex(i - 1)]]
    BY <1>1, <1>4 DEF Items
  <2>2. \A i \in 1..length : slots'[physicalIndex(i - 1)] = Items[i]
    BY <1>1, <1>6 DEF Active, Items
  <2>3. slots'[physicalIndex(length + 1 - 1)] = v
    BY <1>1, <1>6
  <2>4. Items' \in Seq(Values) /\ Len(Items') = length + 1
    <3>1. \A i \in 1..(length + 1) : slots'[physicalIndex(i - 1)] \in Values
      <4> TAKE i \in 1..(length + 1)
      <4>1. CASE i = length + 1
        BY <1>1, <2>3, <4>1
      <4>2. CASE i # length + 1
        <5>1. i \in 1..length
          BY <1>1, <4>2
        <5>2. Items[i] \in Values
          BY <1>1, <1>9, <5>1, ElementOfSeq
        <5> QED
          BY <2>2, <5>1, <5>2
      <4> QED
        BY <4>1, <4>2
    <3> QED
      BY <1>1, <2>1, <3>1
  <2>5. \A i \in 1..(length + 1) : Items'[i] = Append(Items, v)[i]
    <3> TAKE i \in 1..(length + 1)
    <3>1. i = length + 1 \/ i \in 1..length
      BY <1>1
    <3> QED
      BY <1>1, <1>9, <2>1, <2>2, <2>3, <3>1, AppendProperties
  <2> QED
    BY <1>1, <1>9, <2>4, <2>5, AppendProperties, SeqEqual
<1> QED
  BY <1>1, <1>7, <1>8, <1>9, <1>10 DEF IInv, Queue!Enqueue

\* Dequeueing drops the first item, also when the head wraps and when the ring empties.
LEMMA PopStep ==
  ASSUME IInv, pop
  PROVE  IInv' /\ Queue!Dequeue
<1>1. /\ Capacity \in 1..64 /\ length \in 1..Capacity /\ head \in 0..(Capacity - 1)
      /\ length' = length - 1
      /\ head' = IF length = 1 THEN 0 ELSE nextHead(head)
      /\ DOMAIN slots = Active /\ validState
  BY CapacityAssumption DEF pop, offsetInRange, IInv, TypeOK, KeysAreTheActiveSlots, validState
<1> DEFINE front == physicalIndex(0)
<1>2. \A o \in 0..(length - 2) : physicalIndex(o)' = physicalIndex(o + 1)
  BY <1>1 DEF physicalIndex, nextHead
<1>3. \A o \in 1..(length - 1) : physicalIndex(o) # front
  BY <1>1 DEF physicalIndex
<1>4. Active' = Active \ {front}
  <2>1. Active' = {physicalIndex(o)' : o \in 0..(length - 2)}
    BY <1>1 DEF Active
  <2>2. Active' = {physicalIndex(o + 1) : o \in 0..(length - 2)}
    BY <1>2, <2>1
  <2>3. \A x : (\E o \in 0..(length - 2) : x = physicalIndex(o + 1))
                 <=> (\E o \in 0..(length - 1) : x = physicalIndex(o)) /\ x # front
    <3> TAKE x
    <3>1. ASSUME NEW o \in 0..(length - 2), x = physicalIndex(o + 1)
          PROVE  (\E p \in 0..(length - 1) : x = physicalIndex(p)) /\ x # front
      <4>1. o + 1 \in 1..(length - 1) /\ o + 1 \in 0..(length - 1)
        BY <1>1
      <4> QED
        BY <1>3, <3>1, <4>1
    <3>2. ASSUME NEW o \in 0..(length - 1), x = physicalIndex(o), x # front
          PROVE  \E p \in 0..(length - 2) : x = physicalIndex(p + 1)
      <4>1. o - 1 \in 0..(length - 2) /\ (o - 1) + 1 = o
        BY <1>1, <3>2
      <4> QED
        BY <3>2, <4>1
    <3> QED
      BY <3>1, <3>2
  <2> QED
    BY <2>2, <2>3 DEF Active
<1>5. /\ DOMAIN slots' = Active'
      /\ \A i \in DOMAIN slots' : slots'[i] = slots[i] /\ i \in DOMAIN slots
  BY <1>1, <1>4 DEF pop, RemoveFront, Remove
<1>6. head' \in 0..(Capacity - 1) /\ (length = 1 => head' = 0)
  BY <1>1 DEF nextHead
<1>7. TypeOK'
  BY <1>1, <1>5, <1>6 DEF IInv, TypeOK
<1>8. KeysAreTheActiveSlots' /\ validState'
  BY <1>1, <1>5, <1>6 DEF KeysAreTheActiveSlots, validState
<1>9. Len(Items) = length /\ Items \in Seq(Values) /\ Items # Broken
  <2>1. \A i \in 1..length : slots[physicalIndex(i - 1)] \in Values
    BY <1>1 DEF Active, IInv, TypeOK
  <2> QED
    BY <1>1, <2>1, BrokenAssumption DEF Items
<1>10. Items' = Tail(Items)
  <2>1. Items' = [i \in 1..(length - 1) |-> slots'[physicalIndex(i - 1)']]
    BY <1>1 DEF Items
  <2>2. \A i \in 1..(length - 1) : slots'[physicalIndex(i - 1)'] = Items[i + 1]
    <3> TAKE i \in 1..(length - 1)
    <3>1. i - 1 \in 0..(length - 2) /\ i \in 0..(length - 1) /\ i + 1 \in 1..length /\ (i - 1) + 1 = i
      BY <1>1
    <3>2. physicalIndex(i - 1)' = physicalIndex(i)
      BY <1>2, <3>1
    <3>3. physicalIndex(i) \in DOMAIN slots'
      BY <1>2, <1>1, <1>5, <3>1, <3>2 DEF Active
    <3>4. Items[i + 1] = slots[physicalIndex(i)]
      BY <1>1, <3>1 DEF Items
    <3> QED
      BY <1>5, <3>2, <3>3, <3>4
  <2>3. Items' \in Seq(Values) /\ Len(Items') = length - 1
    <3>1. \A i \in 1..(length - 1) : slots'[physicalIndex(i - 1)'] \in Values
      BY <1>1, <1>9, <2>2
    <3> QED
      BY <1>1, <2>1, <3>1
  <2>4. Items # <<>>
    BY <1>1, <1>9
  <2>5. \A i \in 1..(length - 1) : Items'[i] = Tail(Items)[i]
    BY <1>1, <1>9, <2>1, <2>2, <2>4, HeadTailProperties
  <2> QED
    BY <1>1, <1>9, <2>3, <2>4, <2>5, HeadTailProperties, SeqEqual
<1>11. Items # <<>>
  BY <1>1, <1>9
<1> QED
  BY <1>1, <1>6, <1>7, <1>8, <1>9, <1>10, <1>11 DEF IInv, Queue!Dequeue

\* The fixture breaks the queue; in a broken queue it is the only step, and changes nothing.
LEMMA MalformStep ==
  ASSUME IInv, malform
  PROVE  IInv' /\ Queue!Break
<1>1. Capacity \in 1..64 /\ head' = Capacity /\ length' = 1 /\ slots' = slots
  BY CapacityAssumption DEF malform
<1>2. ~validState'
  BY <1>1 DEF validState
<1>3. IInv'
  BY <1>1, <1>2 DEF IInv, TypeOK, KeysAreTheActiveSlots
<1> QED
  BY <1>1, <1>3 DEF Queue!Break

\* Metadata outside the ring stop every call.
LEMMA BrokenStep == IInv /\ Next /\ ~validState => UNCHANGED vars
<1>1. ASSUME IInv, ~validState, malform PROVE UNCHANGED vars
  BY <1>1 DEF malform, IInv, KeysAreTheActiveSlots, vars
<1> QED
  BY <1>1 DEF Next, push, pop, canPush, offsetInRange

-----------------------------------------------------------------------------
LEMMA InitialInvariant == Init => IInv /\ Queue!FifoInit
<1> SUFFICES ASSUME Init PROVE IInv /\ Queue!FifoInit
  OBVIOUS
<1>1. DOMAIN slots = {} /\ length = 0 /\ head = 0
  BY DEF Init
<1>2. TypeOK
  BY <1>1, CapacityAssumption DEF TypeOK
<1>3. Active = {}
  BY <1>1 DEF Active
<1>4. KeysAreTheActiveSlots /\ validState
  BY <1>1, <1>3, CapacityAssumption DEF KeysAreTheActiveSlots, validState
<1>5. Items = <<>>
  BY <1>1 DEF Items
<1> QED
  BY <1>1, <1>2, <1>4, <1>5, CapacityAssumption DEF IInv, Queue!FifoInit

LEMMA Step == IInv /\ Next => IInv' /\ Queue!FifoNext
  BY PushStep, PopStep, MalformStep DEF Next, Queue!FifoNext

LEMMA Stutter == UNCHANGED vars => UNCHANGED Contents
  BY DEF vars, Contents, Items, validState, physicalIndex

LEMMA InductiveInvariant == Spec => []IInv
<1>1. IInv /\ UNCHANGED vars => IInv'
  BY DEF IInv, TypeOK, KeysAreTheActiveSlots, validState, Active, physicalIndex, vars
<1> QED
  BY <1>1, InitialInvariant, Step, PTL DEF Spec

\* The head, the length and every stored index stay in range (push, pop).
THEOREM TypeCorrect == Spec => []TypeOK
<1>1. IInv => TypeOK
  BY DEF IInv
<1> QED
  BY <1>1, InductiveInvariant, PTL

\* However often the ring turns over, the stored keys are exactly the active slots.
THEOREM KeysHold == Spec => []KeysAreTheActiveSlots
<1>1. IInv => KeysAreTheActiveSlots
  BY DEF IInv
<1> QED
  BY <1>1, InductiveInvariant, PTL

\* The ring implements a first-in first-out queue of the same capacity.
THEOREM FifoImplemented == Spec => ImplementsFifo
<1>1. IInv /\ [Next]_vars => [Queue!FifoNext]_Contents
  BY Step, Stutter
<1> QED
  BY <1>1, InitialInvariant, InductiveInvariant, PTL DEF Spec, ImplementsFifo, Queue!FifoSpec, Contents

\* Metadata outside the ring stops every call, whatever was called before (canPush, canPop).
THEOREM MalformedHolds == Spec => MalformedFailsClosed
<1>1. IInv /\ [Next]_vars => [~validState => UNCHANGED vars]_vars
  BY BrokenStep
<1> QED
  BY <1>1, InductiveInvariant, PTL DEF Spec, MalformedFailsClosed
==============================================================================
