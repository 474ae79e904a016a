--------------------------- MODULE IterableMapProofs ---------------------------
(***************************************************************************)
(* The iterable map is a bounded map, for any capacity, keys and values.   *)
(* The inductive invariant is the three invariants together: the record of *)
(* a removed key names the gap, the record of the last key names the end,  *)
(* and only their agreement with the vector makes one move enough.  A      *)
(* corrupt record stays out of every move, so it disturbs none of this.    *)
(***************************************************************************)
EXTENDS IterableMap, FiniteSetTheorems, TLAPS

IInv == TypeOK /\ VectorIsDense /\ CorruptionIsContained

Stored == {j \in DOMAIN lookup : ~Corrupt(j)}

Contents == [k \in Stored |-> lookup[k].value]

LEMMA SameCardinality == \A S : Map!Cardinality(S) = Cardinality(S)
  BY DEF Map!Cardinality, Cardinality

\* What the invariant says of the key of a sound record, and of the record of a listed key.
LEMMA StoredKeys ==
  ASSUME IInv
  PROVE  /\ length \in 0..Capacity /\ Capacity \in Nat \ {0}
         /\ \A j \in Stored : /\ j \in DOMAIN lookup /\ lookup[j].index # Capacity
                              /\ lookup[j].index \in 0..(length - 1)
                              /\ vector[lookup[j].index] = j
         /\ \A i \in 0..(length - 1) : /\ i \in DOMAIN vector /\ vector[i] \in DOMAIN lookup
                                       /\ vector[i] \in Stored => lookup[vector[i]].index = i
                                       /\ lookup[vector[i]].index \in {i, Capacity}
<1>1. length \in 0..Capacity /\ Capacity \in Nat \ {0}
  BY CapacityAssumption DEF IInv, TypeOK
<1>2. \A j \in Stored : /\ j \in DOMAIN lookup /\ lookup[j].index # Capacity
                        /\ lookup[j].index \in 0..(length - 1)
                        /\ vector[lookup[j].index] = j
  BY DEF Stored, Corrupt, IInv, VectorIsDense, CorruptionIsContained
<1>3. \A i \in 0..(length - 1) : /\ i \in DOMAIN vector /\ vector[i] \in DOMAIN lookup
                                 /\ vector[i] \in Stored => lookup[vector[i]].index = i
                                 /\ lookup[vector[i]].index \in {i, Capacity}
  BY DEF Stored, Corrupt, IInv, VectorIsDense, CorruptionIsContained
<1> QED
  BY <1>1, <1>2, <1>3

\* No more keys are stored than the length says, so a map with room may take a new key.
LEMMA StoredKeysFit ==
  ASSUME IInv
  PROVE  Cardinality(Stored) \in Nat /\ Cardinality(Stored) <= length
<1> DEFINE places == {lookup[j].index : j \in Stored}
           f == [i \in places |-> vector[i]]
<1>1. length \in Nat
  BY StoredKeys
<1>2. places \subseteq 0..(length - 1)
  BY StoredKeys
<1>3. f \in [places -> Stored]
  BY StoredKeys
<1>4. \A j \in Stored : \E i \in places : f[i] = j
  BY StoredKeys
<1>5. f \in Surjection(places, Stored)
  BY <1>3, <1>4 DEF Surjection
<1>6. IsFiniteSet(0..(length - 1)) /\ Cardinality(0..(length - 1)) = length
  BY <1>1, FS_Interval
<1>7. IsFiniteSet(places) /\ Cardinality(places) <= length
  BY <1>2, <1>6, FS_Subset
<1>8. IsFiniteSet(Stored) /\ Cardinality(Stored) <= Cardinality(places)
  BY <1>5, <1>7, FS_Surjection
<1> QED
  BY <1>1, <1>7, <1>8, FS_CardinalityType

\* Records have the two fields they are built with.
LEMMA RecordFields ==
  \A v, i : lookupValue(v, i).value = v /\ lookupValue(v, i).index = i
  BY DEF lookupValue

LEMMA PutNewStep ==
  ASSUME IInv, NEW k \in Keys, NEW v \in Values, PutNew(k, v)
  PROVE  IInv' /\ Map!Put(k, v)
<1>1. length \in 0..(Capacity - 1) /\ Capacity \in Nat /\ length' = length + 1
  BY CapacityAssumption DEF IInv, TypeOK, PutNew, canInsert
<1>2. /\ DOMAIN vector' = 0..length
      /\ vector'[length] = k
      /\ \A i \in DOMAIN vector : vector'[i] = vector[i] /\ i # length
  BY <1>1 DEF PutNew, Write, IInv, VectorIsDense
<1>3. /\ DOMAIN lookup' = DOMAIN lookup \cup {k}
      /\ lookup'[k] = lookupValue(v, length)
      /\ \A j \in DOMAIN lookup : lookup'[j] = lookup[j] /\ j # k
  BY DEF PutNew, Write
<1>4. TypeOK'
  <2>1. lookupValue(v, length) \in [value : Values, index : 0..Capacity]
    BY <1>1 DEF lookupValue
  <2>2. \A i \in DOMAIN vector' : vector'[i] \in Keys
    BY <1>1, <1>2 DEF IInv, TypeOK, VectorIsDense
  <2>3. \A j \in DOMAIN lookup' : j \in Keys /\ lookup'[j] \in [value : Values, index : 0..Capacity]
    BY <1>3, <2>1 DEF IInv, TypeOK
  <2> QED
    BY <1>1, <1>2, <2>2, <2>3 DEF TypeOK
<1>5. VectorIsDense'
  BY <1>1, <1>2 DEF VectorIsDense
<1>6. CorruptionIsContained'
  <2>1. \A i \in DOMAIN vector' : vector'[i] \in DOMAIN lookup'
                                 /\ (lookup'[vector'[i]].index \in {i, Capacity})
    BY <1>1, <1>2, <1>3, RecordFields, StoredKeys
  <2>2. \A j \in DOMAIN lookup' :
          \/ lookup'[j].index = Capacity
          \/ lookup'[j].index \in DOMAIN vector' /\ vector'[lookup'[j].index] = j
    BY <1>1, <1>2, <1>3, RecordFields DEF IInv, VectorIsDense, CorruptionIsContained, Corrupt
  <2> QED
    BY <2>1, <2>2 DEF CorruptionIsContained, Corrupt
<1>7. Stored' = Stored \cup {k}
  BY <1>1, <1>3, RecordFields DEF Stored, Corrupt
<1>8. Map!Cardinality(DOMAIN Contents) < Capacity
  BY <1>1, StoredKeysFit, SameCardinality DEF Contents
<1>9. Contents' = [j \in DOMAIN Contents \cup {k} |-> IF j = k THEN v ELSE Contents[j]]
  BY <1>3, <1>7, RecordFields DEF Contents, Stored
<1> QED
  BY <1>4, <1>5, <1>6, <1>8, <1>9 DEF IInv, Contents, Stored, Map!Put

LEMMA PutOverStep ==
  ASSUME IInv, NEW k \in Keys, NEW v \in Values, PutOver(k, v)
  PROVE  IInv' /\ Map!Put(k, v)
<1>1. k \in DOMAIN lookup /\ lookup[k].index # Capacity
  BY StoredKeys DEF PutOver, Sound, IInv, TypeOK
<1>2. /\ DOMAIN lookup' = DOMAIN lookup
      /\ lookup'[k] = lookupValue(v, lookup[k].index)
      /\ \A j \in DOMAIN lookup : j # k => lookup'[j] = lookup[j]
  BY <1>1 DEF PutOver, Write
<1>3. \A j \in DOMAIN lookup : lookup'[j].index = lookup[j].index
  BY <1>2, RecordFields
<1>4. lookup'[k] \in [value : Values, index : 0..Capacity]
  BY <1>1, <1>2 DEF lookupValue, IInv, TypeOK
<1>5. TypeOK'
  BY <1>2, <1>4 DEF PutOver, IInv, TypeOK
<1>6. VectorIsDense' /\ CorruptionIsContained'
  BY <1>2, <1>3 DEF PutOver, IInv, VectorIsDense, CorruptionIsContained, Corrupt
<1>7. Stored' = Stored /\ k \in Stored
  BY <1>1, <1>2, <1>3 DEF Stored, Corrupt
<1>8. Contents' = [j \in DOMAIN Contents \cup {k} |-> IF j = k THEN v ELSE Contents[j]]
  BY <1>1, <1>2, <1>7, RecordFields DEF Contents, Stored
<1> QED
  BY <1>5, <1>6, <1>7, <1>8 DEF IInv, Contents, Stored, Map!Put

LEMMA RemoveLastStep ==
  ASSUME IInv, NEW k \in Keys, Sound(k), RemoveLast(k), length' = Last
  PROVE  IInv' /\ Map!Delete(k)
<1>1. k \in Stored /\ lookup[k].index = Last /\ Last = length - 1
  BY StoredKeys DEF Sound, RemoveLast, Stored, Corrupt, Last, IInv, TypeOK
<1>2. length \in 1..Capacity /\ Capacity \in Nat /\ Last \in 0..(length - 1)
  BY <1>1, StoredKeys
<1>3. /\ DOMAIN vector' = 0..(Last - 1)
      /\ \A i \in DOMAIN vector' : vector'[i] = vector[i] /\ i \in DOMAIN vector
  BY <1>1, <1>2 DEF RemoveLast, ForgetLast, Remove, IInv, VectorIsDense
<1>4. /\ DOMAIN lookup' = DOMAIN lookup \ {k}
      /\ \A j \in DOMAIN lookup' : lookup'[j] = lookup[j]
  BY DEF RemoveLast, ForgetLast, Remove
<1>5. vector[Last] = k
  BY <1>1, StoredKeys
<1>6. TypeOK'
  BY <1>2, <1>3, <1>4 DEF IInv, TypeOK
<1>7. VectorIsDense'
  BY <1>1, <1>2, <1>3 DEF VectorIsDense
<1>8. \A i \in DOMAIN vector' : vector'[i] \in DOMAIN lookup' /\ lookup'[vector'[i]].index \in {i, Capacity}
  <2> TAKE i \in DOMAIN vector'
  <2>1. vector[i] \in DOMAIN lookup /\ lookup[vector[i]].index \in {i, Capacity} /\ i # Last
    BY <1>1, <1>2, <1>3, StoredKeys
  <2>2. vector[i] # k
    BY <1>1, <1>2, <2>1
  <2> QED
    BY <1>3, <1>4, <2>1, <2>2
<1>9. \A j \in DOMAIN lookup' :
        \/ lookup'[j].index = Capacity
        \/ lookup'[j].index \in DOMAIN vector' /\ vector'[lookup'[j].index] = j
  <2> SUFFICES ASSUME NEW j \in DOMAIN lookup', lookup[j].index # Capacity
               PROVE  lookup[j].index \in DOMAIN vector' /\ vector'[lookup[j].index] = j
    BY <1>4
  <2>1. lookup[j].index \in 0..(length - 1) /\ vector[lookup[j].index] = j /\ j # k
    BY <1>4, StoredKeys DEF Stored, Corrupt
  <2>2. lookup[j].index # Last
    BY <1>5, <2>1
  <2> QED
    BY <1>1, <1>2, <1>3, <2>1, <2>2
<1>10. Stored' = Stored \ {k}
  BY <1>4 DEF Stored, Corrupt
<1>11. Contents' = [j \in DOMAIN Contents \ {k} |-> Contents[j]]
  BY <1>4, <1>10 DEF Contents, Stored
<1>12. CorruptionIsContained'
  BY <1>8, <1>9 DEF CorruptionIsContained, Corrupt
<1> QED
  BY <1>1, <1>6, <1>7, <1>11, <1>12 DEF IInv, Contents, Stored, Map!Delete

LEMMA RemoveBySwapStep ==
  ASSUME IInv, NEW k \in Keys, Sound(k), RemoveBySwap(k), length' = Last
  PROVE  IInv' /\ Map!Delete(k)
<1> DEFINE gap == lookup[k].index
           moved == vector[Last]
<1>1. /\ k \in Stored /\ gap # Last /\ gap \in 0..(length - 1) /\ vector[gap] = k
      /\ Last = length - 1 /\ length \in 1..Capacity /\ Capacity \in Nat
  BY StoredKeys DEF Sound, RemoveBySwap, Stored, Corrupt, Last, IInv, TypeOK
<1>2. /\ moved \in DOMAIN lookup /\ lookup[moved].index = Last
      /\ moved \in Stored /\ k # moved
  BY <1>1 DEF RemoveBySwap, Movable, Stored, Corrupt
<1>3. gap \in 0..(Last - 1)
  BY <1>1
<1>4. /\ DOMAIN vector' = 0..(Last - 1)
      /\ \A i \in DOMAIN vector' : i \in DOMAIN vector
                                   /\ vector'[i] = IF i = gap THEN moved ELSE vector[i]
  BY <1>1, <1>3 DEF RemoveBySwap, Write, Remove, IInv, VectorIsDense
<1>5. /\ DOMAIN lookup' = DOMAIN lookup \ {k}
      /\ lookup'[moved] = lookupValue(lookup[moved].value, gap)
      /\ \A j \in DOMAIN lookup' : j # moved => lookup'[j] = lookup[j]
  BY <1>2 DEF RemoveBySwap, Write, Remove, Moved
<1>6. TypeOK'
  <2>1. lookup'[moved] \in [value : Values, index : 0..Capacity]
    BY <1>1, <1>2, <1>5 DEF lookupValue, IInv, TypeOK
  <2>2. \A i \in DOMAIN vector' : vector'[i] \in Keys
    BY <1>2, <1>4 DEF IInv, TypeOK
  <2>3. \A j \in DOMAIN lookup' : j \in Keys /\ lookup'[j] \in [value : Values, index : 0..Capacity]
    BY <1>5, <2>1 DEF IInv, TypeOK
  <2> QED
    BY <1>1, <1>4, <2>2, <2>3 DEF TypeOK
<1>7. VectorIsDense'
  BY <1>1, <1>4 DEF VectorIsDense
<1>8. \A i \in DOMAIN vector' : vector'[i] \in DOMAIN lookup' /\ lookup'[vector'[i]].index \in {i, Capacity}
  <2> TAKE i \in DOMAIN vector'
  <2>1. CASE i = gap
    BY <1>2, <1>4, <1>5, <2>1, RecordFields
  <2>2. CASE i # gap
    <3>1. /\ vector'[i] = vector[i] /\ vector[i] \in DOMAIN lookup
          /\ lookup[vector[i]].index \in {i, Capacity} /\ i # Last /\ i < Capacity
      BY <1>1, <1>4, <2>2, StoredKeys
    <3>2. vector[i] # k /\ vector[i] # moved
      BY <1>1, <1>2, <2>2, <3>1
    <3> QED
      BY <1>5, <3>1, <3>2
  <2> QED
    BY <2>1, <2>2
<1>9. \A j \in DOMAIN lookup' :
        \/ lookup'[j].index = Capacity
        \/ lookup'[j].index \in DOMAIN vector' /\ vector'[lookup'[j].index] = j
  <2> TAKE j \in DOMAIN lookup'
  <2>1. CASE j = moved
    BY <1>2, <1>3, <1>4, <1>5, <2>1, RecordFields
  <2>2. CASE j # moved /\ lookup[j].index # Capacity
    <3>1. /\ lookup'[j] = lookup[j] /\ j # k
          /\ lookup[j].index \in 0..(length - 1) /\ vector[lookup[j].index] = j
      BY <1>5, <2>2, StoredKeys DEF Stored, Corrupt
    <3>2. lookup[j].index # Last /\ lookup[j].index # gap
      BY <1>1, <2>2, <3>1
    <3> QED
      BY <1>1, <1>4, <3>1, <3>2
  <2> QED
    BY <1>5, <2>1, <2>2
<1>10. Stored' = Stored \ {k}
  BY <1>1, <1>2, <1>3, <1>5, RecordFields DEF Stored, Corrupt
<1>11. Contents' = [j \in DOMAIN Contents \ {k} |-> Contents[j]]
  BY <1>5, <1>10, RecordFields DEF Contents, Stored
<1>12. CorruptionIsContained'
  BY <1>8, <1>9 DEF CorruptionIsContained, Corrupt
<1> QED
  BY <1>1, <1>6, <1>7, <1>11, <1>12 DEF IInv, Contents, Stored, Map!Delete

\* The fixture takes its key out of the abstract map, or leaves the map as it is.
LEMMA CorruptStep ==
  ASSUME IInv, corruptMap
  PROVE  IInv' /\ (Map!Delete(CorruptKey) \/ Contents' = Contents)
<1>1. /\ DOMAIN lookup' = DOMAIN lookup \cup {CorruptKey}
      /\ lookup'[CorruptKey] = lookupValue(CorruptValue, Capacity)
      /\ \A j \in DOMAIN lookup : j # CorruptKey => lookup'[j] = lookup[j]
      /\ vector' = vector /\ length' = length
  BY DEF corruptMap, Write
<1>2. lookup'[CorruptKey] \in [value : Values, index : 0..Capacity]
  BY <1>1, CorruptAssumption, StoredKeys DEF lookupValue
<1>3. TypeOK'
  BY <1>1, <1>2, CorruptAssumption DEF IInv, TypeOK
<1>4. VectorIsDense' /\ CorruptionIsContained'
  BY <1>1, RecordFields DEF IInv, VectorIsDense, CorruptionIsContained, Corrupt
<1>5. Stored' = Stored \ {CorruptKey}
  BY <1>1, RecordFields DEF Stored, Corrupt
<1>6. Contents' = [j \in DOMAIN Contents \ {CorruptKey} |-> Contents[j]]
  BY <1>1, <1>5 DEF Contents, Stored
<1>7. CASE CorruptKey \in Stored
  BY <1>3, <1>4, <1>6, <1>7 DEF IInv, Contents, Stored, Map!Delete
<1>8. CASE CorruptKey \notin Stored
  BY <1>1, <1>3, <1>4, <1>5, <1>8 DEF IInv, Contents, Stored
<1> QED
  BY <1>7, <1>8

-----------------------------------------------------------------------------
LEMMA InitialInvariant == Init => IInv /\ Map!MapInit
<1> SUFFICES ASSUME Init PROVE IInv /\ Map!MapInit
  OBVIOUS
<1>e. DOMAIN vector = {} /\ DOMAIN lookup = {} /\ length = 0
  BY DEF Init
<1>1. TypeOK
  BY <1>e, CapacityAssumption DEF TypeOK
<1>2. VectorIsDense /\ CorruptionIsContained
  BY <1>e DEF VectorIsDense, CorruptionIsContained
<1>3. Map!MapInit
  BY <1>e DEF Map!MapInit
<1> QED
  BY <1>1, <1>2, <1>3 DEF IInv

LEMMA Step == IInv /\ Next => IInv' /\ (Map!MapNext \/ Contents' = Contents)
<1> SUFFICES ASSUME IInv, Next PROVE IInv' /\ (Map!MapNext \/ Contents' = Contents)
  OBVIOUS
<1>1. ASSUME NEW k \in Keys, mapRemove(k) PROVE IInv' /\ Map!MapNext
  <2>1. IInv' /\ Map!Delete(k)
    BY <1>1, RemoveLastStep, RemoveBySwapStep DEF mapRemove
  <2> QED
    BY <2>1 DEF Map!MapNext
<1>2. ASSUME NEW k \in Keys, NEW v \in Values, mapPut(k, v) PROVE IInv' /\ Map!MapNext
  <2>1. IInv' /\ Map!Put(k, v)
    BY <1>2, PutNewStep, PutOverStep DEF mapPut
  <2> QED
    BY <2>1 DEF Map!MapNext
<1>3. CASE corruptMap
  BY <1>3, CorruptStep, CorruptAssumption DEF Map!MapNext
<1> QED
  BY <1>1, <1>2, <1>3 DEF Next

LEMMA InductiveInvariant == Spec => []IInv
<1>1. IInv /\ UNCHANGED vars => IInv'
  BY DEF IInv, TypeOK, VectorIsDense, CorruptionIsContained, Corrupt, vars
<1> QED
  BY <1>1, InitialInvariant, Step, PTL DEF Spec

\* Every index, key and record is in range for any capacity (mapPut, mapRemove).
THEOREM TypeCorrect == Spec => []TypeOK
<1>1. IInv => TypeOK
  BY DEF IInv
<1> QED
  BY <1>1, InductiveInvariant, PTL

\* The vector has an entry for every index below the length, whatever was put, moved, removed
\* or corrupted (mapPut, mapRemove, corruptMap7).
THEOREM VectorStaysDense == Spec => []VectorIsDense
<1>1. IInv => VectorIsDense
  BY DEF IInv
<1> QED
  BY <1>1, InductiveInvariant, PTL

\* After any sequence of puts, removals and corruptions the vector and the lookup point at each
\* other, but for the corrupt record (the swap-removal of mapRemove).
THEOREM ContainmentHolds == Spec => []CorruptionIsContained
<1>1. IInv => CorruptionIsContained
  BY DEF IInv
<1> QED
  BY <1>1, InductiveInvariant, PTL

\* The corrupt record is the fixture's.
Fixture == \A k \in DOMAIN lookup : Corrupt(k) => /\ k = CorruptKey
                                                /\ lookup[k] = lookupValue(CorruptValue, Capacity)

\* A call never touches a corrupt record, and leaves no other.
LEMMA CorruptStays ==
  ASSUME IInv, Fixture, Next
  PROVE  /\ Fixture'
         /\ \A j \in Keys : Corrupt(j) => j \in DOMAIN lookup' /\ lookup'[j] = lookup[j]
<1>. USE DEF Write, Remove, Corrupt, Fixture
<1>1. length \in 0..Capacity /\ Capacity \in Nat \ {0}
  BY StoredKeys
<1>2. ASSUME NEW k \in Keys, NEW v \in Values, PutNew(k, v)
      PROVE  /\ Fixture'
             /\ \A j \in Keys : Corrupt(j) => j \in DOMAIN lookup' /\ lookup'[j] = lookup[j]
  <2>1. lookupValue(v, length).index # Capacity
    BY <1>1, <1>2, RecordFields DEF PutNew, canInsert
  <2> QED
    BY <1>2, <2>1 DEF PutNew
<1>3. ASSUME NEW k \in Keys, NEW v \in Values, PutOver(k, v)
      PROVE  /\ Fixture'
             /\ \A j \in Keys : Corrupt(j) => j \in DOMAIN lookup' /\ lookup'[j] = lookup[j]
  <2>1. lookupValue(v, lookup[k].index).index # Capacity /\ ~Corrupt(k)
    BY <1>1, <1>3, RecordFields DEF PutOver, Sound, IInv, TypeOK
  <2> QED
    BY <1>3, <2>1 DEF PutOver
<1>4. ASSUME NEW k \in Keys, Sound(k), RemoveLast(k)
      PROVE  /\ Fixture'
             /\ \A j \in Keys : Corrupt(j) => j \in DOMAIN lookup' /\ lookup'[j] = lookup[j]
  <2>1. ~Corrupt(k)
    BY <1>1, <1>4 DEF Sound, IInv, TypeOK
  <2> QED
    BY <1>4, <2>1 DEF RemoveLast, ForgetLast
<1>5. ASSUME NEW k \in Keys, Sound(k), RemoveBySwap(k)
      PROVE  /\ Fixture'
             /\ \A j \in Keys : Corrupt(j) => j \in DOMAIN lookup' /\ lookup'[j] = lookup[j]
  <2> DEFINE moved == vector[Last]
  <2>1. ~Corrupt(k)
    BY <1>1, <1>5 DEF Sound, IInv, TypeOK
  <2>2. ~Corrupt(moved)
    BY <1>1, <1>5 DEF RemoveBySwap, Movable, Last
  <2>3. Moved(k, moved).index # Capacity
    BY <2>1, <1>5, RecordFields DEF Moved, Sound
  <2>4. /\ DOMAIN lookup' = (DOMAIN lookup \ {k}) \cup {moved}
        /\ lookup'[moved] = Moved(k, moved)
        /\ \A j \in DOMAIN lookup \ {k, moved} : lookup'[j] = lookup[j]
    BY <1>5 DEF RemoveBySwap
  <2> QED
    BY <2>1, <2>2, <2>3, <2>4
<1>6. ASSUME corruptMap
      PROVE  /\ Fixture'
             /\ \A j \in Keys : Corrupt(j) => j \in DOMAIN lookup' /\ lookup'[j] = lookup[j]
  BY <1>6, RecordFields DEF corruptMap
<1> QED
  BY <1>2, <1>3, <1>4, <1>5, <1>6 DEF Next, mapPut, mapRemove

\* A corrupt record is never moved, overwritten or removed: mapPut and mapRemove refuse its key,
\* and a removal that would have to move it is refused as well.
THEOREM CorruptRecordHolds == Spec => CorruptRecordStays
<1>1. Init => Fixture
  BY DEF Init, Fixture
<1>2. IInv /\ Fixture /\ [Next]_vars => Fixture'
  BY CorruptStays DEF Fixture, Corrupt, vars
<1>3. IInv /\ Fixture /\ [Next]_vars
        => [\A k \in Keys : Corrupt(k) => k \in DOMAIN lookup' /\ lookup'[k] = lookup[k]]_vars
  BY CorruptStays
<1> QED
  BY <1>1, <1>2, <1>3, InductiveInvariant, PTL DEF Spec, CorruptRecordStays

\* The contract's map is a bounded map of the sound records: it takes a new key only while it
\* has room.
THEOREM MapImplemented == Spec => ImplementsMap
<1>1. IInv /\ [Next]_vars => [Map!MapNext]_Contents
  BY Step DEF vars, Contents, Stored, Corrupt
<1>2. Contents = [k \in {j \in DOMAIN lookup : ~Corrupt(j)} |-> lookup[k].value]
  BY DEF Contents, Stored
<1> QED
  BY <1>1, InitialInvariant, InductiveInvariant, PTL DEF Spec, ImplementsMap, Map!MapSpec, Contents, Stored
==============================================================================
