------------------------------- MODULE RingQueue -------------------------------
(***************************************************************************)
(* The persistent queue DirectQueue64 and its contract NearQueue: a ring   *)
(* of storage keys, one per physical slot, and head and length in the      *)
(* contract's state.  A call that ends in an error is rolled back, so it   *)
(* is no step.                                                             *)
(***************************************************************************)
EXTENDS Naturals, Sequences

CONSTANTS
  Capacity,
  Values,
  Broken     \* what a queue with malformed metadata stands for

ASSUME CapacityAssumption == Capacity \in 1..64

ASSUME BrokenAssumption == Broken \notin Seq(Values)

VARIABLES head, length, slots   \* slots: the stored keys, a partial function

vars == <<head, length, slots>>

Put(map, index, value) ==
  [i \in DOMAIN map \cup {index} |-> IF i = index THEN value ELSE map[i]]

Remove(map, index) == [i \in DOMAIN map \ {index} |-> map[i]]

validState == length <= Capacity /\ IF length = 0 THEN head = 0 ELSE head < Capacity

canPushUnvalidated == length < Capacity

canPushAtCapacity == validState /\ length <= Capacity

canPush == validState /\ length < Capacity

offsetInRange(offset) == validState /\ offset < length

physicalIndexUnwrapped(offset) == head + offset

physicalIndex(offset) ==
  IF head + offset < Capacity THEN head + offset ELSE head + offset - Capacity

nextHead(h) == IF h + 1 < Capacity THEN h + 1 ELSE 0

-----------------------------------------------------------------------------
Init == head = 0 /\ length = 0 /\ slots = [i \in {} |-> 0]

push(value) ==
  /\ canPush
  /\ slots' = Put(slots, physicalIndex(length), value)
  /\ length' = length + 1
  /\ UNCHANGED head

RemoveFrontKept == UNCHANGED slots

RemoveFront == slots' = Remove(slots, physicalIndex(0))

pop ==
  /\ offsetInRange(0)
  /\ RemoveFront
  /\ length' = length - 1
  /\ head' = IF length = 1 THEN 0 ELSE nextHead(head)

\* The fixture that installs metadata no operation produces.
malform ==
  /\ head' = Capacity
  /\ length' = 1
  /\ UNCHANGED slots

Next == pop \/ malform \/ \E v \in Values : push(v)

Spec == Init /\ [][Next]_vars

-----------------------------------------------------------------------------
(***************************************************************************)
(* Properties.                                                             *)
(***************************************************************************)
TypeOK ==
  /\ head \in 0..Capacity
  /\ length \in 0..Capacity
  /\ DOMAIN slots \subseteq 0..(Capacity - 1)
  /\ \A i \in DOMAIN slots : slots[i] \in Values

Active == {physicalIndex(offset) : offset \in 0..(length - 1)}

\* The stored keys are the active slots: none is leaked when the ring turns over, none that a
\* read will reach is missing; and the only metadata outside the ring are the fixture's.
KeysAreTheActiveSlots ==
  IF validState THEN DOMAIN slots = Active ELSE head = Capacity /\ length = 1

Items == [i \in 1..length |-> slots[physicalIndex(i - 1)]]

Queue == INSTANCE Fifo WITH items <- IF head < Capacity THEN Items ELSE Broken

\* The ring is a first-in first-out queue, over any number of turns, until it is broken.
ImplementsFifo == Queue!FifoSpec

\* Metadata that is not a valid ring fails closed: no later call touches a key or the
\* metadata (getAt, hasAt and peek answer their fallback before reading a key).
MalformedFailsClosed == [][~validState => UNCHANGED vars]_vars
==============================================================================
