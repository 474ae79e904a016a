------------------------------ MODULE IterableMap ------------------------------
(***************************************************************************)
(* DirectIterableMap64 and the contract NearIterable: a map kept as a      *)
(* vector of its keys and a lookup from each key to its value and its      *)
(* place in the vector, one storage key per entry of either.  Removal      *)
(* moves the last key into the gap.  A call that ends in an error is       *)
(* rolled back, so it is no step.  The set DirectIterableSet64 is the map  *)
(* whose records have no value: its entries are these with one value.      *)
(***************************************************************************)
EXTENDS Naturals

CONSTANTS
  Capacity, Keys, Values,
  CorruptKey, CorruptValue   \* of the fixture

ASSUME CapacityAssumption == Capacity \in 1..64

ASSUME CorruptAssumption == CorruptKey \in Keys /\ CorruptValue \in Values

VARIABLES
  length,   \* mapLength, in the contract's state
  vector,   \* P || v: index -> key, a partial function
  lookup    \* P || m: key -> [value, index], a partial function

vars == <<length, vector, lookup>>

Write(map, key, value) ==
  [k \in DOMAIN map \cup {key} |-> IF k = key THEN value ELSE map[k]]

Remove(map, key) == [k \in DOMAIN map \ {key} |-> map[k]]

lookupValue(value, index) == [value |-> value, index |-> index]

SoundIfPresent(key) == key \in DOMAIN lookup

\* The record is there and points into the vector.
Sound(key) ==
  /\ key \in DOMAIN lookup
  /\ lookup[key].index < Capacity
  /\ lookup[key].index < length

-----------------------------------------------------------------------------
Init ==
  /\ length = 0
  /\ vector = [i \in {} |-> 0]
  /\ lookup = [k \in {} |-> 0]

canInsertAtCapacity == length <= Capacity

canInsert == length < Capacity

PutNew(key, value) ==
  /\ key \notin DOMAIN lookup
  /\ canInsert
  /\ vector' = Write(vector, length, key)
  /\ lookup' = Write(lookup, key, lookupValue(value, length))
  /\ length' = length + 1

PutOver(key, value) ==
  /\ Sound(key)
  /\ lookup' = Write(lookup, key, lookupValue(value, lookup[key].index))
  /\ UNCHANGED <<length, vector>>

mapPut(key, value) ==
  /\ length <= Capacity
  /\ PutNew(key, value) \/ PutOver(key, value)

Last == length - 1

ForgetLastVectorKept(key) == lookup' = Remove(lookup, key) /\ UNCHANGED vector

ForgetLast(key) == lookup' = Remove(lookup, key) /\ vector' = Remove(vector, Last)

RemoveLast(key) == lookup[key].index = Last /\ ForgetLast(key)

MovableUnchecked(moved) == moved \in DOMAIN lookup

\* The moved key must be stored, and its own record must say it is the last.
Movable(moved) == moved \in DOMAIN lookup /\ lookup[moved].index = Last

MovedFromStaleBuffer(key, moved) == lookupValue(lookup[key].value, lookup[key].index)

\* The moved key's record, in the place of the removed one.
Moved(key, moved) == lookupValue(lookup[moved].value, lookup[key].index)

RemoveBySwap(key) ==
  /\ lookup[key].index # Last
  /\ Last \in DOMAIN vector
  /\ LET moved == vector[Last] IN
     /\ Movable(moved)
     /\ lookup' = Write(Remove(lookup, key), moved, Moved(key, moved))
     /\ vector' = Remove(Write(vector, lookup[key].index, moved), Last)

mapRemove(key) ==
  /\ length <= Capacity
  /\ Sound(key)
  /\ RemoveLast(key) \/ RemoveBySwap(key)
  /\ length' = Last

\* The fixture that gives its key a record outside the vector, over any record it has.
corruptMap ==
  /\ lookup' = Write(lookup, CorruptKey, lookupValue(CorruptValue, Capacity))
  /\ UNCHANGED <<length, vector>>

Next ==
  \/ \E key \in Keys : mapRemove(key) \/ \E value \in Values : mapPut(key, value)
  \/ corruptMap

Spec == Init /\ [][Next]_vars

-----------------------------------------------------------------------------
(***************************************************************************)
(* Properties.                                                             *)
(***************************************************************************)
TypeOK ==
  /\ length \in 0..Capacity
  /\ DOMAIN vector \subseteq 0..(Capacity - 1)
  /\ \A i \in DOMAIN vector : vector[i] \in Keys
  /\ DOMAIN lookup \subseteq Keys
  /\ \A k \in DOMAIN lookup : lookup[k] \in [value : Values, index : 0..Capacity]

\* The vector has an entry for every index below the length and no other.
VectorIsDense == DOMAIN vector = 0..(length - 1)

\* A record that points outside the vector.
Corrupt(k) == k \in DOMAIN lookup /\ lookup[k].index = Capacity

\* The two structures point at each other, but for a corrupt record: every listed key has a
\* record, that names its place if it is not corrupt, and every other record's key is listed
\* where the record says.  Nothing is left behind when the last key moves into a gap, no key is
\* listed twice, and a corrupt record breaks no other.
CorruptionIsContained ==
  /\ \A i \in DOMAIN vector :
       vector[i] \in DOMAIN lookup /\ (Corrupt(vector[i]) \/ lookup[vector[i]].index = i)
  /\ \A k \in DOMAIN lookup :
       Corrupt(k) \/ (lookup[k].index \in DOMAIN vector /\ vector[lookup[k].index] = k)

\* No call repairs, overwrites or removes a corrupt record: the keys it may still be listed under
\* would otherwise be stored twice.
CorruptRecordStays ==
  [][\A k \in Keys : Corrupt(k) => k \in DOMAIN lookup' /\ lookup'[k] = lookup[k]]_vars

\* Seen through its sound records, the structure is a bounded map; corrupting one deletes its key.
Map == INSTANCE BoundedMap WITH
         contents <- [k \in {j \in DOMAIN lookup : ~Corrupt(j)} |-> lookup[k].value]

ImplementsMap == Map!MapSpec
==============================================================================
