-------------------------- MODULE CollectionGatesProofs --------------------------
(***************************************************************************)
(* What the contracts of four gates keep for every call: the sorted map    *)
(* its structure, the vector its dense keys, the two-word numbers their    *)
(* arithmetic and the arena its buffers, whatever the capacities, the      *)
(* width of a word, the pages and the length of a call.                    *)
(***************************************************************************)
EXTENDS CollectionGates, WellFoundedInduction, TLAPS

-----------------------------------------------------------------------------
(***************************************************************************)
(* NearTreeMap: the sorted map keeps its structure under every call.       *)
(***************************************************************************)

\* The fields of the contract's state.
TreeKeys == {Tree!Field("marker"), Tree!Field("length"), Tree!Field("pendingKey")}

\* What a call relies on besides the structure: the map's keys are numbers, and a length that fits.
TreeTyped(s) ==
  /\ TreeKeys \subseteq DOMAIN s
  /\ Tree!length(s) \in 0..TreeCapacity
  /\ Tree!pendingKey(s) \in Nat
  /\ \A i \in Tree!Indices(s) : Tree!keyAt(s, i) \in Nat

TreeInv(s) == TreeTyped(s) /\ Tree!Sorted(s)

-----------------------------------------------------------------------------
(***************************************************************************)
(* Storage: what the state's own write leaves, and the parts of the map.   *)
(***************************************************************************)

\* r is s with the three fields of the state written, and nothing else.
StateLeft(s, r, n, pending) ==
  /\ DOMAIN r = DOMAIN s \cup TreeKeys
  /\ Tree!length(r) = n
  /\ Tree!pendingKey(r) = pending
  /\ \A k \in DOMAIN s : k \notin TreeKeys => r[k] = s[k]

LEMMA StateEffect ==
  \A s, marker, n, pending : StateLeft(s, Tree!State(s, marker, n, pending), n, pending)
<1> SUFFICES ASSUME NEW s, NEW marker, NEW n, NEW pending
             PROVE  StateLeft(s, Tree!State(s, marker, n, pending), n, pending)
  OBVIOUS
<1> DEFINE u == Tree!write(s, Tree!Field("marker"), marker)
           v == Tree!write(u, Tree!Field("length"), n)
           t == Tree!write(v, Tree!Field("pendingKey"), pending)
<1>1. Tree!Field("length") # Tree!Field("pendingKey")
  BY DEF Tree!Field
<1>2. /\ DOMAIN u = DOMAIN s \cup {Tree!Field("marker")}
      /\ \A k \in DOMAIN s : k # Tree!Field("marker") => u[k] = s[k]
  BY DEF Tree!write
<1>3. /\ DOMAIN v = DOMAIN u \cup {Tree!Field("length")}
      /\ v[Tree!Field("length")] = n
      /\ \A k \in DOMAIN u : k # Tree!Field("length") => v[k] = u[k]
  BY DEF Tree!write
<1>4. /\ DOMAIN t = DOMAIN v \cup {Tree!Field("pendingKey")}
      /\ t[Tree!Field("pendingKey")] = pending
      /\ \A k \in DOMAIN v : k # Tree!Field("pendingKey") => t[k] = v[k]
  BY DEF Tree!write
<1> HIDE DEF u, v, t
<1>5. t[Tree!Field("length")] = n
  BY <1>1, <1>3, <1>4
<1>6. DOMAIN t = DOMAIN s \cup TreeKeys
  BY <1>2, <1>3, <1>4 DEF TreeKeys
<1>7. \A k \in DOMAIN s : k \notin TreeKeys => t[k] = s[k]
  BY <1>2, <1>3, <1>4 DEF TreeKeys
<1>8. t = Tree!State(s, marker, n, pending)
  BY DEF Tree!State, t, v, u
<1> QED
  BY <1>4, <1>5, <1>6, <1>7, <1>8 DEF StateLeft, Tree!length, Tree!pendingKey

\* No two of the map's keys, of the fields and the elements and the lookups, are the same.
LEMMA TreeKeysDiffer ==
  /\ \A i, j : Tree!elementKey(i) = Tree!elementKey(j) => i = j
  /\ \A j, k : Tree!lookupKey(j) = Tree!lookupKey(k) => j = k
  /\ \A i, k : Tree!elementKey(i) # Tree!lookupKey(k)
  /\ \A i : /\ Tree!elementKey(i)[1] = "TRMv" /\ Tree!elementKey(i)[1] # "TRMm"
            /\ Tree!elementKey(i) \notin TreeKeys
  /\ \A k : /\ Tree!lookupKey(k)[1] = "TRMm" /\ Tree!lookupKey(k)[1] # "TRMv"
            /\ Tree!lookupKey(k) \notin TreeKeys
  /\ \A k \in TreeKeys : k[1] # "TRMv" /\ k[1] # "TRMm"
BY DEF Tree!elementKey, Tree!lookupKey, TreeKeys, Tree!Field

\* The structure, by its parts.
LEMMA SortedParts ==
  ASSUME NEW s
  PROVE  Tree!Sorted(s) <=>
         /\ \A i \in Tree!Indices(s) :
              Tree!elementKey(i) \in DOMAIN s /\ Tree!lookupKey(Tree!keyAt(s, i)) \in DOMAIN s
         /\ \A k \in DOMAIN s : k[1] = "TRMv" => \E i \in Tree!Indices(s) : k = Tree!elementKey(i)
         /\ \A k \in DOMAIN s : k[1] = "TRMm" => \E i \in Tree!Indices(s) : k = Tree!lookupKey(Tree!keyAt(s, i))
         /\ \A i, j \in Tree!Indices(s) : i < j => Tree!keyAt(s, i) < Tree!keyAt(s, j)
         /\ \A i \in Tree!Indices(s) : s[Tree!lookupKey(Tree!keyAt(s, i))].index = i
BY TreeKeysDiffer DEF Tree!Sorted

-----------------------------------------------------------------------------
(***************************************************************************)
(* The calls.                                                              *)
(***************************************************************************)

\* A change of the marker or of the pending key is no change of the structure.
LEMMA SameStructure ==
  ASSUME NEW s, NEW t, TreeInv(s),
         DOMAIN t = DOMAIN s, Tree!length(t) = Tree!length(s), Tree!pendingKey(t) \in Nat,
         \A k \in DOMAIN s : k \notin TreeKeys => t[k] = s[k]
  PROVE  TreeInv(t)
<1>1. Tree!Indices(t) = Tree!Indices(s)
  BY DEF Tree!Indices
<1>2. \A i \in Tree!Indices(s) :
        /\ Tree!elementKey(i) \in DOMAIN s /\ Tree!keyAt(t, i) = Tree!keyAt(s, i)
        /\ t[Tree!lookupKey(Tree!keyAt(s, i))] = s[Tree!lookupKey(Tree!keyAt(s, i))]
  BY SortedParts, TreeKeysDiffer DEF TreeInv, Tree!keyAt
<1>3. TreeTyped(t)
  BY <1>1, <1>2 DEF TreeInv, TreeTyped
<1>4. Tree!Sorted(t)
  BY <1>1, <1>2, SortedParts, TreeKeysDiffer DEF TreeInv
<1> QED
  BY <1>3, <1>4 DEF TreeInv

\* A write of either of the two fields that the structure does not mention keeps it.
LEMMA FieldWrite ==
  ASSUME NEW s, TreeInv(s), NEW name \in {"marker", "pendingKey"}, NEW value \in Nat
  PROVE  TreeInv(Tree!write(s, Tree!Field(name), value))
<1> DEFINE t == Tree!write(s, Tree!Field(name), value)
<1>1. /\ DOMAIN t = DOMAIN s \cup {Tree!Field(name)}
      /\ t[Tree!Field(name)] = value
      /\ \A k \in DOMAIN s : k # Tree!Field(name) => t[k] = s[k]
  BY DEF Tree!write
<1>2. /\ Tree!Field(name) # Tree!Field("length") /\ Tree!Field(name) \in TreeKeys
      /\ Tree!Field("length") \in TreeKeys /\ Tree!Field("pendingKey") \in TreeKeys
      /\ name = "pendingKey" \/ Tree!Field(name) # Tree!Field("pendingKey")
  BY DEF Tree!Field, TreeKeys
<1>3. TreeKeys \subseteq DOMAIN s
  BY DEF TreeInv, TreeTyped
<1> HIDE DEF t
<1>4. Tree!length(t) = Tree!length(s)
  BY <1>1, <1>2, <1>3 DEF Tree!length
<1>5. Tree!pendingKey(t) \in Nat
  BY <1>1, <1>2, <1>3 DEF Tree!pendingKey, TreeInv, TreeTyped
<1>6. TreeInv(t)
  BY <1>1, <1>2, <1>3, <1>4, <1>5, SameStructure
<1> QED
  BY <1>6 DEF t

\* putValue appends the pending key.
LEMMA Appends ==
  ASSUME TreeCapacity \in Nat,
         NEW s, NEW t, TreeInv(s), NEW key \in Nat, Tree!CanAppend(s, key),
         NEW value,
         DOMAIN t = DOMAIN s \cup {Tree!elementKey(Tree!length(s)), Tree!lookupKey(key)},
         t[Tree!elementKey(Tree!length(s))] = key,
         t[Tree!lookupKey(key)] = Tree!lookupValue(value, Tree!length(s)),
         Tree!length(t) = Tree!length(s) + 1, Tree!pendingKey(t) \in Nat,
         \A k \in DOMAIN s :
           k \notin TreeKeys \cup {Tree!elementKey(Tree!length(s)), Tree!lookupKey(key)} => t[k] = s[k]
  PROVE  TreeInv(t)
<1> DEFINE n == Tree!length(s)
<1>1. n \in Nat /\ n < TreeCapacity /\ Tree!Indices(s) = 0..(n - 1) /\ Tree!Indices(t) = 0..n
  BY DEF TreeInv, TreeTyped, Tree!CanAppend, Tree!Indices
<1>2. /\ \A i \in 0..(n - 1) :
           /\ Tree!elementKey(i) \in DOMAIN s /\ Tree!lookupKey(Tree!keyAt(s, i)) \in DOMAIN s
           /\ Tree!keyAt(s, i) \in Nat /\ Tree!keyAt(s, i) # key
      /\ Tree!elementKey(n) \notin DOMAIN s
  BY <1>1, SortedParts, TreeKeysDiffer DEF TreeInv, TreeTyped, Tree!CanAppend
<1>3. /\ \A i \in 0..(n - 1) :
           /\ Tree!keyAt(t, i) = Tree!keyAt(s, i)
           /\ t[Tree!lookupKey(Tree!keyAt(s, i))] = s[Tree!lookupKey(Tree!keyAt(s, i))]
      /\ Tree!keyAt(t, n) = key
  BY <1>1, <1>2, TreeKeysDiffer DEF Tree!keyAt
<1>4. \A i \in 0..(n - 1) : Tree!keyAt(s, i) < key
  <2>1. CASE n = 0
    BY <2>1
  <2>2. CASE n # 0
    <3>1. Tree!keyAt(s, n - 1) < key
      BY <1>1, <2>2 DEF Tree!CanAppend, Tree!AboveTail, Tree!keyAt
    <3>2. \A i \in 0..(n - 1) : i = n - 1 \/ Tree!keyAt(s, i) < Tree!keyAt(s, n - 1)
      BY <1>1, <2>2, SortedParts DEF TreeInv
    <3> QED
      BY <1>1, <1>2, <2>2, <3>1, <3>2
  <2> QED
    BY <2>1, <2>2
<1>5. TreeKeys \subseteq DOMAIN t
  BY DEF TreeInv, TreeTyped
<1>6. TreeTyped(t)
  BY <1>1, <1>2, <1>3, <1>5 DEF TreeTyped
<1>7. \A i \in 0..n : Tree!elementKey(i) \in DOMAIN t /\ Tree!lookupKey(Tree!keyAt(t, i)) \in DOMAIN t
  BY <1>1, <1>2, <1>3
<1>8. \A k \in DOMAIN t : k[1] = "TRMv" => \E i \in 0..n : k = Tree!elementKey(i)
  BY <1>1, SortedParts, TreeKeysDiffer DEF TreeInv
<1>9. \A k \in DOMAIN t : k[1] = "TRMm" => \E i \in 0..n : k = Tree!lookupKey(Tree!keyAt(t, i))
  BY <1>1, <1>3, SortedParts, TreeKeysDiffer DEF TreeInv
<1>10. \A i, j \in 0..n : i < j => Tree!keyAt(t, i) < Tree!keyAt(t, j)
  <2>1. \A i, j \in 0..(n - 1) : i < j => Tree!keyAt(s, i) < Tree!keyAt(s, j)
    BY <1>1, SortedParts DEF TreeInv
  <2>2. \A i, j \in 0..n : i < j => i \in 0..(n - 1) /\ (j = n \/ j \in 0..(n - 1))
    BY <1>1
  <2> HIDE DEF n
  <2> QED
    BY <1>3, <1>4, <2>1, <2>2
<1>11. \A i \in 0..n : t[Tree!lookupKey(Tree!keyAt(t, i))].index = i
  <2>1. \A i \in 0..(n - 1) : s[Tree!lookupKey(Tree!keyAt(s, i))].index = i
    BY <1>1, SortedParts DEF TreeInv
  <2>2. t[Tree!lookupKey(Tree!keyAt(t, n))].index = n
    BY <1>3 DEF Tree!lookupValue
  <2>3. \A i \in 0..n : i = n \/ i \in 0..(n - 1)
    BY <1>1
  <2> HIDE DEF n
  <2> QED
    BY <1>3, <2>1, <2>2, <2>3
<1> QED
  BY <1>1, <1>6, <1>7, <1>8, <1>9, <1>10, <1>11, SortedParts DEF TreeInv

\* removeTail takes the last key away.
LEMMA RemovesTail ==
  ASSUME TreeCapacity \in Nat,
         NEW s, NEW t, TreeInv(s), NEW key, Tree!lookupKey(key) \in DOMAIN s, Tree!IsTail(s, key),
         DOMAIN t = DOMAIN s \ {Tree!elementKey(Tree!length(s) - 1), Tree!lookupKey(key)},
         Tree!length(t) = Tree!length(s) - 1, Tree!pendingKey(t) \in Nat,
         \A k \in DOMAIN s :
           k \notin TreeKeys \cup {Tree!elementKey(Tree!length(s) - 1), Tree!lookupKey(key)} => t[k] = s[k]
  PROVE  TreeInv(t)
<1> DEFINE n == Tree!length(s) - 1
<1>1. n \in Nat /\ n < TreeCapacity /\ Tree!Indices(s) = 0..n /\ Tree!keyAt(s, n) = key
  <2>1. PICK i \in Tree!Indices(s) : Tree!lookupKey(key) = Tree!lookupKey(Tree!keyAt(s, i))
    BY SortedParts, TreeKeysDiffer DEF TreeInv
  <2>2. key = Tree!keyAt(s, i) /\ s[Tree!lookupKey(key)].index = i
    BY <2>1, SortedParts, TreeKeysDiffer DEF TreeInv
  <2>3. Tree!length(s) \in 0..TreeCapacity /\ Tree!Indices(s) = 0..(Tree!length(s) - 1)
    BY DEF TreeInv, TreeTyped, Tree!Indices
  <2> QED
    BY <2>1, <2>2, <2>3 DEF Tree!IsTail
<1>2. Tree!Indices(t) = 0..(n - 1)
  BY <1>1 DEF Tree!Indices
<1>3. \A i, j \in 0..n : i # j => Tree!keyAt(s, i) \in Nat /\ Tree!keyAt(s, i) # Tree!keyAt(s, j)
  BY <1>1, SortedParts DEF TreeInv, TreeTyped
<1>4. \A i \in 0..(n - 1) :
        /\ Tree!elementKey(i) \in DOMAIN t /\ Tree!lookupKey(Tree!keyAt(s, i)) \in DOMAIN t
        /\ Tree!keyAt(t, i) = Tree!keyAt(s, i) /\ Tree!keyAt(s, i) \in Nat
        /\ t[Tree!lookupKey(Tree!keyAt(s, i))] = s[Tree!lookupKey(Tree!keyAt(s, i))]
  <2> SUFFICES ASSUME NEW i \in 0..(n - 1)
               PROVE  /\ Tree!elementKey(i) \in DOMAIN t
                      /\ Tree!lookupKey(Tree!keyAt(s, i)) \in DOMAIN t
                      /\ Tree!keyAt(t, i) = Tree!keyAt(s, i) /\ Tree!keyAt(s, i) \in Nat
                      /\ t[Tree!lookupKey(Tree!keyAt(s, i))] = s[Tree!lookupKey(Tree!keyAt(s, i))]
    OBVIOUS
  <2>1. i \in 0..n /\ n \in 0..n /\ i # n
    BY <1>1
  <2>2. Tree!keyAt(s, i) \in Nat /\ Tree!keyAt(s, i) # key
    BY <1>1, <1>3, <2>1
  <2>3. Tree!elementKey(i) \in DOMAIN s /\ Tree!lookupKey(Tree!keyAt(s, i)) \in DOMAIN s
    BY <1>1, <2>1, SortedParts DEF TreeInv
  <2>4. /\ Tree!elementKey(i) \notin TreeKeys \cup {Tree!elementKey(n), Tree!lookupKey(key)}
        /\ Tree!lookupKey(Tree!keyAt(s, i)) \notin TreeKeys \cup {Tree!elementKey(n), Tree!lookupKey(key)}
    BY <2>1, <2>2, TreeKeysDiffer
  <2> QED
    BY <2>2, <2>3, <2>4 DEF Tree!keyAt
<1>5. TreeKeys \subseteq DOMAIN t
  BY TreeKeysDiffer DEF TreeInv, TreeTyped
<1>6. TreeTyped(t)
  BY <1>1, <1>2, <1>4, <1>5 DEF TreeTyped
<1>7. \A k \in DOMAIN t : k[1] = "TRMv" => \E i \in 0..(n - 1) : k = Tree!elementKey(i)
  BY <1>1, SortedParts, TreeKeysDiffer DEF TreeInv
<1>8. \A k \in DOMAIN t : k[1] = "TRMm" => \E i \in 0..(n - 1) : k = Tree!lookupKey(Tree!keyAt(t, i))
  <2> SUFFICES ASSUME NEW k \in DOMAIN t, k[1] = "TRMm"
               PROVE  \E i \in 0..(n - 1) : k = Tree!lookupKey(Tree!keyAt(t, i))
    OBVIOUS
  <2>1. PICK i \in 0..n : k = Tree!lookupKey(Tree!keyAt(s, i))
    BY <1>1, SortedParts DEF TreeInv
  <2>2. i # n
    BY <1>1, <2>1
  <2>3. i \in 0..(n - 1)
    BY <1>1, <2>2
  <2> QED
    BY <1>4, <2>1, <2>3
<1>9. /\ \A i, j \in 0..(n - 1) : i < j => Tree!keyAt(t, i) < Tree!keyAt(t, j)
      /\ \A i \in 0..(n - 1) : t[Tree!lookupKey(Tree!keyAt(t, i))].index = i
  <2>1. /\ \A i, j \in 0..n : i < j => Tree!keyAt(s, i) < Tree!keyAt(s, j)
        /\ \A i \in 0..n : s[Tree!lookupKey(Tree!keyAt(s, i))].index = i
    BY <1>1, SortedParts DEF TreeInv
  <2>2. \A i \in 0..(n - 1) : i \in 0..n
    BY <1>1
  <2> HIDE DEF n
  <2> QED
    BY <1>4, <2>1, <2>2
<1> QED
  BY <1>2, <1>4, <1>6, <1>7, <1>8, <1>9, SortedParts DEF TreeInv

-----------------------------------------------------------------------------
(***************************************************************************)
(* The contract.                                                           *)
(***************************************************************************)

\* A freshly initialised map (NearTreeMap.init) is sorted.
THEOREM InitializedSorted ==
  ASSUME TreeCapacity \in Nat, NEW marker
  PROVE  TreeInv(Tree!Run(Tree!Empty, "initialize", marker).storage)
<1> DEFINE t == Tree!Run(Tree!Empty, "initialize", marker).storage
<1>1. DOMAIN Tree!Empty = {}
  BY DEF Tree!Empty
<1>2. /\ DOMAIN t = TreeKeys \cup {Tree!Field("STATE")}
      /\ Tree!length(t) = 0 /\ Tree!pendingKey(t) = 0
  BY <1>1 DEF Tree!Run, Tree!initialize, Tree!When, Tree!Returns, TreeKeys, Tree!Field,
     Tree!length, Tree!pendingKey
<1> HIDE DEF t
<1>3. Tree!Indices(t) = {}
  BY <1>2 DEF Tree!Indices
<1>4. \A k \in DOMAIN t : k[1] # "TRMv" /\ k[1] # "TRMm"
  BY <1>2, TreeKeysDiffer DEF Tree!Field
<1>5. Tree!Sorted(t)
  BY <1>3, <1>4, SortedParts
<1>6. TreeTyped(t)
  BY <1>2, <1>3 DEF TreeTyped
<1> QED
  BY <1>5, <1>6 DEF TreeInv, t

\* putKey only changes the pending key.
LEMMA PutKeySorted ==
  ASSUME NEW s, TreeInv(s), NEW key \in Nat
  PROVE  TreeInv(Tree!putKey(s, key).storage)
<1>1. TreeInv(Tree!write(s, Tree!Field("pendingKey"), key))
  BY FieldWrite
<1> QED
  BY <1>1 DEF Tree!putKey, Tree!When, Tree!Returns, Tree!Trap

\* putValue: a key at the end of the order is appended, any other is refused.
LEMMA PutValueSorted ==
  ASSUME TreeCapacity \in Nat, NEW s, TreeInv(s), NEW value
  PROVE  TreeInv(Tree!putValue(s, value).storage)
<1> DEFINE key == Tree!pendingKey(s)
           n == Tree!length(s)
           u == Tree!write(s, Tree!elementKey(n), key)
           v == Tree!write(u, Tree!lookupKey(key), Tree!lookupValue(value, n))
           t == Tree!State(v, n, n + 1, 0)
<1>1. Tree!putValue(s, value).storage = IF Tree!CanAppend(s, key) THEN t ELSE s
  BY DEF Tree!putValue, Tree!When, Tree!Returns, Tree!Trap
<1>2. /\ DOMAIN u = DOMAIN s \cup {Tree!elementKey(n)}
      /\ u[Tree!elementKey(n)] = key
      /\ \A k \in DOMAIN s : k # Tree!elementKey(n) => u[k] = s[k]
  BY DEF Tree!write
<1>3. /\ DOMAIN v = DOMAIN u \cup {Tree!lookupKey(key)}
      /\ v[Tree!lookupKey(key)] = Tree!lookupValue(value, n)
      /\ \A k \in DOMAIN u : k # Tree!lookupKey(key) => v[k] = u[k]
  BY DEF Tree!write
<1> HIDE DEF key, n, u, v, t
<1>4. /\ DOMAIN t = DOMAIN v \cup TreeKeys
      /\ Tree!length(t) = n + 1 /\ Tree!pendingKey(t) = 0
      /\ \A k \in DOMAIN v : k \notin TreeKeys => t[k] = v[k]
  <2> DEFINE m == n + 1
  <2>1. t = Tree!State(v, n, m, 0)
    BY DEF t
  <2> HIDE DEF m
  <2>2. StateLeft(v, t, m, 0)
    BY <2>1, StateEffect
  <2> QED
    BY <2>2 DEF m, StateLeft
<1>5. key \in Nat /\ TreeKeys \subseteq DOMAIN s
  BY DEF TreeInv, TreeTyped, key
<1>6. /\ DOMAIN t = DOMAIN s \cup {Tree!elementKey(n), Tree!lookupKey(key)}
      /\ t[Tree!elementKey(n)] = key /\ t[Tree!lookupKey(key)] = Tree!lookupValue(value, n)
      /\ \A k \in DOMAIN s :
           k \notin TreeKeys \cup {Tree!elementKey(n), Tree!lookupKey(key)} => t[k] = s[k]
  BY <1>2, <1>3, <1>4, <1>5, TreeKeysDiffer
<1>7. CASE Tree!CanAppend(s, key)
  <2>1. TreeInv(t)
    BY <1>4, <1>5, <1>6, <1>7, Appends DEF n
  <2> QED
    BY <1>1, <1>7, <2>1
<1>8. CASE ~Tree!CanAppend(s, key)
  BY <1>1, <1>8
<1> QED
  BY <1>7, <1>8

\* removeTail: the last key goes, a missing key leaves the map, any other traps.
LEMMA RemoveTailSorted ==
  ASSUME TreeCapacity \in Nat, NEW s, TreeInv(s), NEW key
  PROVE  TreeInv(Tree!removeTail(s, key).storage)
<1> DEFINE n == Tree!length(s) - 1
           u == Tree!remove(s, Tree!lookupKey(key))
           v == Tree!remove(u, Tree!elementKey(n))
           t == Tree!State(v, n, n, 0)
<1>1. Tree!removeTail(s, key).storage =
        IF Tree!lookupKey(key) \notin DOMAIN s THEN Tree!write(s, Tree!Field("marker"), 0)
        ELSE IF Tree!IsTail(s, key) THEN t ELSE s
  BY DEF Tree!removeTail, Tree!When, Tree!Returns, Tree!Trap, Tree!Marked
<1>2. /\ DOMAIN u = DOMAIN s \ {Tree!lookupKey(key)}
      /\ \A k \in DOMAIN u : u[k] = s[k]
  BY DEF Tree!remove
<1>3. /\ DOMAIN v = DOMAIN u \ {Tree!elementKey(n)}
      /\ \A k \in DOMAIN v : v[k] = u[k]
  BY DEF Tree!remove
<1> HIDE DEF n, u, v, t
<1>4. /\ DOMAIN t = DOMAIN v \cup TreeKeys
      /\ Tree!length(t) = n /\ Tree!pendingKey(t) = 0
      /\ \A k \in DOMAIN v : k \notin TreeKeys => t[k] = v[k]
  <2>1. t = Tree!State(v, n, n, 0)
    BY DEF t
  <2>2. StateLeft(v, t, n, 0)
    BY <2>1, StateEffect
  <2> QED
    BY <2>2 DEF StateLeft
<1>5. TreeKeys \subseteq DOMAIN s
  BY DEF TreeInv, TreeTyped
<1>6. /\ DOMAIN t = DOMAIN s \ {Tree!elementKey(n), Tree!lookupKey(key)}
      /\ \A k \in DOMAIN s :
           k \notin TreeKeys \cup {Tree!elementKey(n), Tree!lookupKey(key)} => t[k] = s[k]
  BY <1>2, <1>3, <1>4, <1>5, TreeKeysDiffer
<1>7. CASE Tree!lookupKey(key) \in DOMAIN s /\ Tree!IsTail(s, key)
  BY <1>1, <1>4, <1>6, <1>7, RemovesTail DEF n
<1>8. CASE Tree!lookupKey(key) \notin DOMAIN s
  BY <1>1, <1>8, FieldWrite
<1>9. CASE Tree!lookupKey(key) \in DOMAIN s /\ ~Tree!IsTail(s, key)
  BY <1>1, <1>9
<1> QED
  BY <1>7, <1>8, <1>9

\* Whatever putKey, putValue and removeTail are given, in whatever order, and whether they trap or
\* not, the map of NearTreeMap stays sorted, dense and the inverse of its lookup.
THEOREM RunKeepsSorted ==
  ASSUME TreeCapacity \in Nat, NEW s, TreeInv(s),
         NEW method \in {"putKey", "putValue", "removeTail"}, NEW arg \in Nat
  PROVE  TreeInv(Tree!Run(s, method, arg).storage)
<1>1. CASE method = "putKey"
  BY <1>1, PutKeySorted DEF Tree!Run
<1>2. CASE method = "putValue"
  BY <1>2, PutValueSorted DEF Tree!Run
<1>3. CASE method = "removeTail"
  BY <1>3, RemoveTailSorted DEF Tree!Run
<1> QED
  BY <1>1, <1>2, <1>3

-----------------------------------------------------------------------------
(***************************************************************************)
(* NearVector: the elements are under the indices below the length, and a  *)
(* pop takes back exactly what a push stored.                              *)
(***************************************************************************)

\* The fields of the contract's state.
VectorKeys == {Vector!Field("length"), Vector!Field("marker")}

VectorInv(s) ==
  /\ VectorKeys \subseteq DOMAIN s
  /\ Vector!length(s) \in 0..VectorCapacity
  /\ Vector!Dense(s)

\* Outside the keys K the two storages have the same values.
Agree(r, s, K) == \A k \in DOMAIN s : k \notin K => r[k] = s[k]

\* No two keys of the contract are the same.
LEMMA VectorKeysDiffer ==
  /\ \A i, j : Vector!elementKey(i) = Vector!elementKey(j) => i = j
  /\ \A i : Vector!elementKey(i)[1] = "VEC1" /\ Vector!elementKey(i) \notin VectorKeys
  /\ \A k \in VectorKeys : k[1] # "VEC1"
  /\ Vector!Field("length") # Vector!Field("marker")
BY DEF Vector!elementKey, VectorKeys, Vector!Field

\* Density, by its two directions.
LEMMA DenseParts ==
  ASSUME NEW s
  PROVE  Vector!Dense(s) <=>
         /\ \A i \in 0..(Vector!length(s) - 1) : Vector!elementKey(i) \in DOMAIN s
         /\ \A k \in DOMAIN s : k[1] = "VEC1" => \E i \in 0..(Vector!length(s) - 1) : k = Vector!elementKey(i)
BY VectorKeysDiffer DEF Vector!Dense

\* push and pop end with the same two writes.
LEMMA ResizedEffect ==
  ASSUME NEW s, NEW n
  PROVE  LET r == Vector!Resized(s, n).storage IN
         /\ DOMAIN r = DOMAIN s \cup VectorKeys
         /\ Vector!length(r) = n
         /\ \A k \in DOMAIN s : k \notin VectorKeys => r[k] = s[k]
<1> DEFINE u == Vector!write(s, Vector!Field("length"), n)
           r == Vector!Resized(s, n).storage
<1>1. /\ DOMAIN u = DOMAIN s \cup {Vector!Field("length")} /\ u[Vector!Field("length")] = n
      /\ \A k \in DOMAIN s : k # Vector!Field("length") => u[k] = s[k]
  BY DEF Vector!write
<1>2. r = Vector!write(u, Vector!Field("marker"), n)
  BY DEF Vector!Resized, Vector!Returns
<1> HIDE DEF u, r
<1>3. /\ DOMAIN r = DOMAIN u \cup {Vector!Field("marker")}
      /\ \A k \in DOMAIN u : k # Vector!Field("marker") => r[k] = u[k]
  BY <1>2 DEF Vector!write
<1> QED
  BY <1>1, <1>3, VectorKeysDiffer DEF Vector!length, VectorKeys, r

\* What an accepted push leaves.
LEMMA PushEffect ==
  ASSUME NEW s, NEW value, Vector!canPush(s), NEW r, r = Vector!push(s, value).storage
  PROVE  /\ DOMAIN r = DOMAIN s \cup {Vector!elementKey(Vector!length(s))} \cup VectorKeys
         /\ Vector!length(r) = Vector!length(s) + 1
         /\ r[Vector!elementKey(Vector!length(s))] = value
         /\ Agree(r, s, VectorKeys \cup {Vector!elementKey(Vector!length(s))})
<1> DEFINE u == Vector!write(s, Vector!elementKey(Vector!length(s)), value)
<1>1. /\ DOMAIN u = DOMAIN s \cup {Vector!elementKey(Vector!length(s))}
      /\ u[Vector!elementKey(Vector!length(s))] = value
      /\ \A k \in DOMAIN s : k # Vector!elementKey(Vector!length(s)) => u[k] = s[k]
  BY DEF Vector!write
<1> DEFINE n == Vector!length(s) + 1
<1>2. r = Vector!Resized(u, n).storage
  BY DEF Vector!push, Vector!When
<1> HIDE DEF u, n
<1>3. /\ DOMAIN r = DOMAIN u \cup VectorKeys /\ Vector!length(r) = n
      /\ \A k \in DOMAIN u : k \notin VectorKeys => r[k] = u[k]
  BY <1>2, ResizedEffect
<1> QED
  BY <1>1, <1>3, VectorKeysDiffer DEF n, Agree

\* What an accepted pop leaves.
LEMMA PopEffect ==
  ASSUME NEW s, Vector!length(s) # 0, Vector!length(s) <= VectorCapacity, NEW r, r = Vector!pop(s).storage
  PROVE  /\ DOMAIN r = (DOMAIN s \ {Vector!elementKey(Vector!length(s) - 1)}) \cup VectorKeys
         /\ Vector!length(r) = Vector!length(s) - 1
         /\ Agree(r, s, VectorKeys \cup {Vector!elementKey(Vector!length(s) - 1)})
<1> DEFINE u == Vector!remove(s, Vector!elementKey(Vector!length(s) - 1))
<1>1. DOMAIN u = DOMAIN s \ {Vector!elementKey(Vector!length(s) - 1)} /\ \A k \in DOMAIN u : u[k] = s[k]
  BY DEF Vector!remove
<1> DEFINE n == Vector!length(s) - 1
<1>2. r = Vector!Resized(u, n).storage
  BY DEF Vector!pop, Vector!When, Vector!Popped
<1> HIDE DEF u, n
<1>3. /\ DOMAIN r = DOMAIN u \cup VectorKeys /\ Vector!length(r) = n
      /\ \A k \in DOMAIN u : k \notin VectorKeys => r[k] = u[k]
  BY <1>2, ResizedEffect
<1> QED
  BY <1>1, <1>3 DEF n, Agree

\* push: a full vector refuses, otherwise the index at the end gets an element.
LEMMA PushDense ==
  ASSUME VectorCapacity \in Nat, NEW s, VectorInv(s), NEW value
  PROVE  VectorInv(Vector!push(s, value).storage)
<1> DEFINE r == Vector!push(s, value).storage
<1>1. CASE ~Vector!canPush(s)
  BY <1>1 DEF Vector!push, Vector!When, Vector!Trap
<1>2. CASE Vector!canPush(s)
  <2>1. /\ DOMAIN r = DOMAIN s \cup {Vector!elementKey(Vector!length(s))} \cup VectorKeys
        /\ Vector!length(r) = Vector!length(s) + 1
    BY <1>2, PushEffect
  <2>2. Vector!length(s) \in Nat /\ Vector!length(s) < VectorCapacity
    BY <1>2 DEF VectorInv, Vector!canPush
  <2> HIDE DEF r
  <2>3. Vector!Dense(r)
    BY <2>1, <2>2, DenseParts, VectorKeysDiffer DEF VectorInv
  <2> QED
    BY <2>1, <2>2, <2>3 DEF VectorInv, r
<1> QED
  BY <1>1, <1>2

\* pop: an empty vector refuses, otherwise the last index loses its element.
LEMMA PopDense ==
  ASSUME VectorCapacity \in Nat, NEW s, VectorInv(s)
  PROVE  VectorInv(Vector!pop(s).storage)
<1> DEFINE r == Vector!pop(s).storage
<1>1. CASE Vector!length(s) = 0
  BY <1>1 DEF Vector!pop, Vector!When, Vector!Trap
<1>2. CASE Vector!length(s) # 0
  <2>1. /\ DOMAIN r = (DOMAIN s \ {Vector!elementKey(Vector!length(s) - 1)}) \cup VectorKeys
        /\ Vector!length(r) = Vector!length(s) - 1
    <3>1. Vector!length(s) <= VectorCapacity /\ r = Vector!pop(s).storage
      BY DEF VectorInv
    <3> HIDE DEF r
    <3> QED
      BY <1>2, <3>1, PopEffect
  <2>2. Vector!length(s) \in Nat /\ Vector!length(s) <= VectorCapacity /\ Vector!length(s) > 0
    BY <1>2 DEF VectorInv
  <2> HIDE DEF r
  <2>3. Vector!Dense(r)
    <3>1. \A i \in 0..(Vector!length(r) - 1) : Vector!elementKey(i) \in DOMAIN r
      BY <2>1, <2>2, DenseParts, VectorKeysDiffer DEF VectorInv
    <3>2. \A k \in DOMAIN r : k[1] = "VEC1" => \E i \in 0..(Vector!length(r) - 1) : k = Vector!elementKey(i)
      BY <2>1, <2>2, DenseParts, VectorKeysDiffer DEF VectorInv
    <3> QED
      BY <3>1, <3>2, DenseParts
  <2> QED
    BY <2>1, <2>2, <2>3 DEF VectorInv, r
<1> QED
  BY <1>1, <1>2

\* setFirst replaces an element or traps.
LEMMA SetFirstDense ==
  ASSUME VectorCapacity \in Nat, NEW s, VectorInv(s), NEW value
  PROVE  VectorInv(Vector!setFirst(s, value).storage)
<1> DEFINE u == Vector!write(s, Vector!elementKey(0), value)
           r == Vector!write(u, Vector!Field("marker"), value)
<1>1. Vector!setFirst(s, value).storage = IF Vector!contains(s, 0) THEN r ELSE s
  BY DEF Vector!setFirst, Vector!When, Vector!Trap, Vector!Marked, Vector!Returns
<1>2. CASE Vector!contains(s, 0)
  <2>1. /\ DOMAIN u = DOMAIN s \cup {Vector!elementKey(0)}
        /\ \A k \in DOMAIN s : k # Vector!elementKey(0) => u[k] = s[k]
    BY DEF Vector!write
  <2>2. Vector!length(s) \in 1..VectorCapacity /\ Vector!elementKey(0) \in DOMAIN s
    BY <1>2, DenseParts DEF Vector!contains, VectorInv
  <2> HIDE DEF u
  <2>3. /\ DOMAIN r = DOMAIN u \cup {Vector!Field("marker")}
        /\ \A k \in DOMAIN u : k # Vector!Field("marker") => r[k] = u[k]
    BY DEF Vector!write
  <2> HIDE DEF r
  <2>4. DOMAIN r = DOMAIN s /\ Vector!length(r) = Vector!length(s)
    BY <2>1, <2>2, <2>3, VectorKeysDiffer DEF VectorInv, VectorKeys, Vector!length
  <2>5. VectorInv(r)
    BY <2>4 DEF VectorInv, Vector!Dense
  <2> QED
    BY <1>1, <1>2, <2>5
<1> QED
  BY <1>1, <1>2

\* A freshly initialised vector (NearVector.init) is empty and dense.
THEOREM InitializedDense ==
  ASSUME VectorCapacity \in Nat, NEW arg
  PROVE  VectorInv(Vector!Run(Vector!Empty, "initialize", arg).storage)
<1> DEFINE t == Vector!Run(Vector!Empty, "initialize", arg).storage
<1>1. DOMAIN t = VectorKeys \cup {Vector!Field("STATE")} /\ Vector!length(t) = 0
  BY DEF Vector!Run, Vector!initialize, Vector!When, Vector!Returns, VectorKeys, Vector!Field,
     Vector!length, Vector!Empty
<1> HIDE DEF t
<1>2. \A k \in DOMAIN t : k[1] # "VEC1"
  BY <1>1, VectorKeysDiffer DEF Vector!Field
<1>3. Vector!Dense(t)
  BY <1>1, <1>2, DenseParts
<1> QED
  BY <1>1, <1>3 DEF VectorInv, t

\* Whatever push, setFirst and pop are given, and whether they trap or not, NearVector has an
\* element under every index below its length and under no other.
THEOREM RunKeepsDense ==
  ASSUME VectorCapacity \in Nat, NEW s, VectorInv(s), NEW method \in {"push", "setFirst", "pop"}, NEW arg
  PROVE  VectorInv(Vector!Run(s, method, arg).storage)
<1>1. CASE method = "push"
  BY <1>1, PushDense DEF Vector!Run
<1>2. CASE method = "setFirst"
  BY <1>2, SetFirstDense DEF Vector!Run
<1>3. CASE method = "pop"
  BY <1>3, PopDense DEF Vector!Run
<1> QED
  BY <1>1, <1>2, <1>3

\* A pop takes back what a push stored: the same keys, the same length and the same elements.
THEOREM PopUndoesPush ==
  ASSUME VectorCapacity \in Nat, NEW s, VectorInv(s), Vector!canPush(s), NEW value,
         NEW p, p = Vector!push(s, value).storage,
         NEW r, r = Vector!pop(p).storage
  PROVE  /\ DOMAIN r = DOMAIN s
         /\ \A k \in DOMAIN s : k # Vector!Field("marker") => r[k] = s[k]
<1> DEFINE n == Vector!length(s)
<1>1. n \in Nat /\ n < VectorCapacity /\ Vector!elementKey(n) \notin DOMAIN s
  <2>1. n \in Nat /\ n < VectorCapacity
    BY DEF VectorInv, Vector!canPush
  <2> QED
    BY <2>1, DenseParts, VectorKeysDiffer DEF VectorInv
<1>2. /\ DOMAIN p = DOMAIN s \cup {Vector!elementKey(n)} \cup VectorKeys
      /\ Vector!length(p) = n + 1
      /\ Agree(p, s, VectorKeys \cup {Vector!elementKey(n)})
  BY PushEffect
<1>3. Vector!length(p) # 0 /\ Vector!length(p) <= VectorCapacity /\ Vector!length(p) - 1 = n
  BY <1>1, <1>2
<1>4. /\ DOMAIN r = (DOMAIN p \ {Vector!elementKey(Vector!length(p) - 1)}) \cup VectorKeys
      /\ Vector!length(r) = Vector!length(p) - 1
      /\ Agree(r, p, VectorKeys \cup {Vector!elementKey(Vector!length(p) - 1)})
  BY <1>3, PopEffect
<1>5. DOMAIN r = DOMAIN s
  <2>1. VectorKeys \subseteq DOMAIN s
    BY DEF VectorInv
  <2>2. DOMAIN r = (DOMAIN p \ {Vector!elementKey(n)}) \cup VectorKeys
    BY <1>3, <1>4
  <2> HIDE DEF n
  <2> QED
    BY <1>1, <1>2, <2>1, <2>2
<1>6. \A k \in DOMAIN s : k \notin VectorKeys => r[k] = s[k]
  BY <1>1, <1>2, <1>3, <1>4 DEF Agree
<1> QED
  BY <1>3, <1>4, <1>5, <1>6 DEF Vector!length, VectorKeys

-----------------------------------------------------------------------------
(***************************************************************************)
(* NearToken: the carries and the half-word products compute what the      *)
(* numbers say, for every even Half.                                       *)
(***************************************************************************)

LEMMA QuotientRemainder ==
  ASSUME NEW n \in Nat, NEW d \in Nat \ {0}
  PROVE  /\ n \div d \in Nat /\ n % d \in 0..(d - 1)
         /\ n = d * (n \div d) + (n % d)
OBVIOUS

LEMMA ProductMonotone ==
  ASSUME NEW a \in Nat, NEW b \in Nat, NEW c \in Nat, a <= b
  PROVE  a * c <= b * c /\ c * a <= c * b
OBVIOUS

LEMMA QuotientUnique ==
  ASSUME NEW d \in Nat \ {0}, NEW q \in Nat, NEW r \in 0..(d - 1)
  PROVE  (d * q + r) \div d = q /\ (d * q + r) % d = r
OBVIOUS

LEMMA WordType ==
  /\ Token!Word \in Nat /\ Token!Word > 3 /\ Token!MaxWord \in Nat
  /\ Token!MaxWord = Token!Word - 1
BY HalfAssumption DEF Token!Word, Token!MaxWord

LEMMA AddWords ==
  ASSUME NEW x \in 0..Token!MaxWord, NEW y \in 0..Token!MaxWord
  PROVE  /\ x + y < Token!Word => Token!add64(x, y) = x + y
         /\ x + y >= Token!Word => Token!add64(x, y) = x + y - Token!Word
         /\ Token!add64(x, y) \in 0..Token!MaxWord
BY WordType DEF Token!add64

LEMMA SubWords ==
  ASSUME NEW x \in 0..Token!MaxWord, NEW y \in 0..Token!MaxWord
  PROVE  /\ x >= y => Token!sub64(x, y) = x - y
         /\ x < y => Token!sub64(x, y) = x - y + Token!Word
         /\ Token!sub64(x, y) \in 0..Token!MaxWord
BY WordType DEF Token!sub64

LEMMA TokenParts ==
  ASSUME NEW t \in Token!NearToken
  PROVE  t.w0 \in 0..Token!MaxWord /\ t.w1 \in 0..Token!MaxWord /\ t = Token!ofLimbs(t.w0, t.w1)
BY DEF Token!NearToken, Token!ofLimbs

LEMMA NumberOfLimbs ==
  ASSUME NEW w0 \in 0..Token!MaxWord, NEW w1 \in 0..Token!MaxWord
  PROVE  /\ Token!Number(Token!ofLimbs(w0, w1)) = w0 + Token!Word * w1
         /\ Token!Number(Token!ofLimbs(w0, w1)) \in 0..(Token!Word * Token!Word - 1)
<1>1. Token!Number(Token!ofLimbs(w0, w1)) = w0 + Token!Word * w1
  BY DEF Token!Number, Token!ofLimbs
<1>2. w1 + 1 \in Nat /\ w1 + 1 <= Token!Word
  BY WordType
<1>3. Token!Word * (w1 + 1) <= Token!Word * Token!Word
  BY <1>2, WordType, ProductMonotone
<1>4. /\ Token!Word * (w1 + 1) = Token!Word * w1 + Token!Word /\ Token!Word * w1 \in Nat
      /\ Token!Word * Token!Word \in Nat
  BY WordType
<1> QED
  BY <1>1, <1>3, <1>4, WordType

LEMMA HigherWordWins ==
  ASSUME NEW x \in 0..Token!MaxWord, NEW y \in 0..Token!MaxWord, x < y
  PROVE  /\ Token!Word * x + Token!Word <= Token!Word * y /\ Token!Word * x \in Nat
         /\ Token!Word * y \in Nat
<1>1. x + 1 \in Nat /\ x + 1 <= y /\ y \in Nat
  BY WordType
<1>2. Token!Word * (x + 1) <= Token!Word * y
  BY <1>1, WordType, ProductMonotone
<1> QED
  BY <1>2, WordType

\* NearToken le and lt: the higher words decide, and the lower ones where they are equal.
THEOREM Compares == Token!ComparesNumbers
<1> SUFFICES ASSUME NEW l \in Token!NearToken, NEW r \in Token!NearToken
             PROVE  /\ Token!le(l, r) <=> Token!Number(l) <= Token!Number(r)
                    /\ Token!lt(l, r) <=> Token!Number(l) < Token!Number(r)
  BY DEF Token!ComparesNumbers
<1>1. /\ l.w0 \in 0..Token!MaxWord /\ l.w1 \in 0..Token!MaxWord /\ l = Token!ofLimbs(l.w0, l.w1)
      /\ r.w0 \in 0..Token!MaxWord /\ r.w1 \in 0..Token!MaxWord /\ r = Token!ofLimbs(r.w0, r.w1)
  BY TokenParts
<1>2. l = r <=> l.w0 = r.w0 /\ l.w1 = r.w1
  BY <1>1 DEF Token!ofLimbs
<1>3. Token!Number(l) = l.w0 + Token!Word * l.w1 /\ Token!Number(r) = r.w0 + Token!Word * r.w1
  BY DEF Token!Number
<1>4. CASE l.w1 < r.w1
  <2>1. /\ Token!Word * l.w1 + Token!Word <= Token!Word * r.w1 /\ Token!Word * l.w1 \in Nat
        /\ Token!Word * r.w1 \in Nat
    BY <1>1, <1>4, HigherWordWins
  <2> QED
    BY <1>1, <1>2, <1>3, <1>4, <2>1, WordType DEF Token!le, Token!lt
<1>5. CASE l.w1 > r.w1
  <2>1. /\ Token!Word * r.w1 + Token!Word <= Token!Word * l.w1 /\ Token!Word * l.w1 \in Nat
        /\ Token!Word * r.w1 \in Nat
    BY <1>1, <1>5, HigherWordWins
  <2> QED
    BY <1>1, <1>2, <1>3, <1>5, <2>1, WordType DEF Token!le, Token!lt
<1>6. CASE l.w1 = r.w1
  <2>1. Token!Word * l.w1 \in Nat
    BY <1>1, WordType
  <2> QED
    BY <1>1, <1>2, <1>3, <1>6, <2>1, WordType DEF Token!le, Token!lt
<1> QED
  BY <1>1, <1>4, <1>5, <1>6, WordType

LEMMA WordRange ==
  ASSUME NEW x \in 0..Token!MaxWord
  PROVE  x \in Nat /\ x < Token!Word
BY WordType

\* An addition of words loses a whole word, and is less than either part, if there is a carry.
LEMMA AddCarries ==
  ASSUME NEW x \in 0..Token!MaxWord, NEW y \in 0..Token!MaxWord
  PROVE  /\ Token!add64(x, y) \in 0..Token!MaxWord
         /\ \/ /\ x + y < Token!Word /\ Token!add64(x, y) = x + y
               /\ Token!add64(x, y) >= x
            \/ /\ x + y >= Token!Word /\ Token!add64(x, y) = x + y - Token!Word
               /\ Token!add64(x, y) < x
<1>1. x \in Nat /\ x < Token!Word /\ y \in Nat /\ y < Token!Word
  BY WordRange
<1>2. /\ x + y < Token!Word => Token!add64(x, y) = x + y
      /\ x + y >= Token!Word => Token!add64(x, y) = x + y - Token!Word
      /\ Token!add64(x, y) \in 0..Token!MaxWord
  BY AddWords
<1> QED
  BY <1>1, <1>2, WordType

\* NearToken add? and addWithFit: the carry into the higher word is seen, and so is the one out of it.
THEOREM Adds == Token!AddsNumbers
<1> SUFFICES ASSUME NEW l \in Token!NearToken, NEW r \in Token!NearToken
             PROVE  /\ Token!canAdd(l, r) <=> Token!Number(l) + Token!Number(r) < Token!Word * Token!Word
                    /\ Token!Number(Token!add(l, r))
                         = (Token!Number(l) + Token!Number(r)) % (Token!Word * Token!Word)
  BY DEF Token!AddsNumbers
<1> DEFINE c == Token!carry(l, r)
           base == Token!add64(l.w1, r.w1)
           low == Token!add64(l.w0, r.w0)
           high == Token!add64(base, c)
<1>1. /\ l.w0 \in 0..Token!MaxWord /\ l.w1 \in 0..Token!MaxWord
      /\ r.w0 \in 0..Token!MaxWord /\ r.w1 \in 0..Token!MaxWord
  BY TokenParts
<1>2. /\ l.w0 \in Nat /\ l.w1 \in Nat /\ r.w0 \in Nat /\ r.w1 \in Nat
      /\ l.w0 < Token!Word /\ l.w1 < Token!Word /\ r.w0 < Token!Word /\ r.w1 < Token!Word
  BY <1>1, WordRange
<1>3. /\ low \in 0..Token!MaxWord
      /\ \/ low = l.w0 + r.w0 /\ low >= l.w0
         \/ low = l.w0 + r.w0 - Token!Word /\ low < l.w0
  BY <1>1, AddCarries
<1>4. c = IF low < l.w0 THEN 1 ELSE 0
  BY DEF Token!carry, Token!Bit
<1>5. c \in 0..1 /\ c \in 0..Token!MaxWord /\ low = l.w0 + r.w0 - Token!Word * c
  BY <1>2, <1>3, <1>4, WordType
<1>6. PICK b \in 0..1 :
        base \in 0..Token!MaxWord /\ base = l.w1 + r.w1 - Token!Word * b /\ (base >= l.w1 <=> b = 0)
  <2>1. /\ base \in 0..Token!MaxWord
        /\ \/ base = l.w1 + r.w1 /\ base >= l.w1
           \/ base = l.w1 + r.w1 - Token!Word /\ base < l.w1
    BY <1>1, AddCarries
  <2> QED
    BY <1>2, <2>1, WordType
<1>7. PICK h \in 0..1 :
        high \in 0..Token!MaxWord /\ high = base + c - Token!Word * h /\ (high >= base <=> h = 0)
  <2>1. /\ high \in 0..Token!MaxWord
        /\ \/ high = base + c /\ high >= base
           \/ high = base + c - Token!Word /\ high < base
    BY <1>5, <1>6, AddCarries
  <2>2. base \in Nat
    BY <1>6, WordRange
  <2> QED
    BY <1>5, <2>1, <2>2, WordType
<1> DEFINE total == Token!Number(Token!add(l, r))
           over == b + h
<1>8. total = low + Token!Word * high /\ total \in 0..(Token!Word * Token!Word - 1)
  BY <1>3, <1>7, NumberOfLimbs DEF Token!add
<1>9. /\ Token!Number(l) = l.w0 + Token!Word * l.w1 /\ Token!Number(r) = r.w0 + Token!Word * r.w1
      /\ Token!Number(l) \in Nat /\ Token!Number(r) \in Nat
  BY <1>2, WordType DEF Token!Number
<1>10. Token!canAdd(l, r) <=> over = 0
  BY <1>6, <1>7 DEF Token!canAdd
<1>11. over \in Nat /\ Token!Word * Token!Word \in Nat \ {0} /\ low \in Nat /\ high \in Nat
  BY <1>3, <1>7, WordType, WordRange
<1>12. high = l.w1 + r.w1 + c - Token!Word * over
  BY <1>2, <1>5, <1>6, <1>7, WordType
<1> HIDE DEF c, base, low, high, total, over
<1>13. Token!Number(l) + Token!Number(r) = (Token!Word * Token!Word) * over + total
  <2>1. Token!Word * high
          = Token!Word * l.w1 + Token!Word * r.w1 + Token!Word * c - (Token!Word * Token!Word) * over
    BY <1>2, <1>5, <1>11, <1>12, WordType
  <2>2. /\ Token!Word * c \in Int /\ Token!Word * l.w1 \in Int /\ Token!Word * r.w1 \in Int
        /\ (Token!Word * Token!Word) * over \in Int
    BY <1>2, <1>5, <1>11, WordType
  <2>3. low + Token!Word * high
          = l.w0 + Token!Word * l.w1 + r.w0 + Token!Word * r.w1 - (Token!Word * Token!Word) * over
    BY <1>2, <1>5, <2>1, <2>2
  <2> QED
    BY <1>2, <1>8, <1>9, <2>2, <2>3
<1>14. (Token!Number(l) + Token!Number(r)) % (Token!Word * Token!Word) = total
  BY <1>8, <1>11, <1>13, QuotientUnique
<1>15. Token!Number(l) + Token!Number(r) < Token!Word * Token!Word <=> over = 0
  <2>1. CASE over = 0
    BY <1>8, <1>11, <1>13, <2>1
  <2>2. CASE over # 0
    <3>1. (Token!Word * Token!Word) * 1 <= (Token!Word * Token!Word) * over
      BY <1>11, <2>2, ProductMonotone
    <3> QED
      BY <1>8, <1>9, <1>11, <1>13, <2>2, <3>1
  <2> QED
    BY <2>1, <2>2
<1> QED
  BY <1>10, <1>14, <1>15 DEF total

LEMMA SubBorrows ==
  ASSUME NEW x \in 0..Token!MaxWord, NEW y \in 0..Token!MaxWord
  PROVE  /\ Token!sub64(x, y) \in 0..Token!MaxWord
         /\ \/ x >= y /\ Token!sub64(x, y) = x - y
            \/ x < y /\ Token!sub64(x, y) = x - y + Token!Word
<1>1. x \in Nat /\ y \in Nat
  BY WordRange
<1>2. /\ x >= y => Token!sub64(x, y) = x - y
      /\ x < y => Token!sub64(x, y) = x - y + Token!Word
      /\ Token!sub64(x, y) \in 0..Token!MaxWord
  BY SubWords
<1> QED
  BY <1>1, <1>2

\* NearToken sub? and subWithFit: the borrow of the higher word is seen, and none is given below zero.
THEOREM Subtracts == Token!SubtractsNumbers
<1> SUFFICES ASSUME NEW l \in Token!NearToken, NEW r \in Token!NearToken
             PROVE  /\ Token!canSub(l, r) <=> Token!Number(l) >= Token!Number(r)
                    /\ Token!Number(Token!sub(l, r))
                         = (Token!Number(l) + Token!Word * Token!Word - Token!Number(r))
                             % (Token!Word * Token!Word)
  BY DEF Token!SubtractsNumbers
<1> DEFINE c == Token!borrow(l, r)
           base == Token!sub64(l.w1, r.w1)
           low == Token!sub64(l.w0, r.w0)
           high == Token!sub64(base, c)
<1>1. /\ l.w0 \in 0..Token!MaxWord /\ l.w1 \in 0..Token!MaxWord
      /\ r.w0 \in 0..Token!MaxWord /\ r.w1 \in 0..Token!MaxWord
  BY TokenParts
<1>2. /\ l.w0 \in Nat /\ l.w1 \in Nat /\ r.w0 \in Nat /\ r.w1 \in Nat
      /\ l.w0 < Token!Word /\ l.w1 < Token!Word /\ r.w0 < Token!Word /\ r.w1 < Token!Word
  BY <1>1, WordRange
<1>3. c = IF l.w0 < r.w0 THEN 1 ELSE 0
  BY DEF Token!borrow, Token!Bit
<1>4. /\ c \in 0..1 /\ c \in 0..Token!MaxWord /\ low \in 0..Token!MaxWord
      /\ low = l.w0 - r.w0 + Token!Word * c
  <2>1. /\ low \in 0..Token!MaxWord
        /\ \/ l.w0 >= r.w0 /\ low = l.w0 - r.w0
           \/ l.w0 < r.w0 /\ low = l.w0 - r.w0 + Token!Word
    BY <1>1, SubBorrows
  <2> QED
    BY <1>2, <1>3, <2>1, WordType
<1>5. PICK b \in 0..1 : base \in 0..Token!MaxWord /\ base = l.w1 - r.w1 + Token!Word * b
  <2>1. /\ base \in 0..Token!MaxWord
        /\ \/ base = l.w1 - r.w1
           \/ base = l.w1 - r.w1 + Token!Word
    BY <1>1, SubBorrows
  <2> QED
    BY <1>2, <2>1, WordType
<1>6. PICK h \in 0..1 : high \in 0..Token!MaxWord /\ high = base - c + Token!Word * h
  <2>1. /\ high \in 0..Token!MaxWord
        /\ \/ high = base - c
           \/ high = base - c + Token!Word
    BY <1>4, <1>5, SubBorrows
  <2>2. base \in Nat /\ c \in Nat
    BY <1>4, <1>5, WordRange
  <2> QED
    BY <2>1, <2>2, WordType
<1> DEFINE total == Token!Number(Token!sub(l, r))
           under == b + h
<1>7. total = low + Token!Word * high /\ total \in 0..(Token!Word * Token!Word - 1)
  BY <1>4, <1>6, NumberOfLimbs DEF Token!sub
<1>8. /\ Token!Number(l) = l.w0 + Token!Word * l.w1 /\ Token!Number(r) = r.w0 + Token!Word * r.w1
      /\ Token!Number(l) \in 0..(Token!Word * Token!Word - 1)
      /\ Token!Number(r) \in 0..(Token!Word * Token!Word - 1)
  BY <1>1, TokenParts, NumberOfLimbs
<1>9. Token!canSub(l, r) <=> Token!Number(l) >= Token!Number(r)
  <2>1. Token!canSub(l, r) <=> Token!le(r, l)
    BY <1>2 DEF Token!canSub, Token!le
  <2> QED
    BY <2>1, <1>8, Compares DEF Token!ComparesNumbers
<1>10. under \in Nat /\ Token!Word * Token!Word \in Nat \ {0} /\ low \in Nat /\ high \in Nat
  BY <1>4, <1>6, WordType, WordRange
<1>11. high = l.w1 - r.w1 - c + Token!Word * under
  <2>1. /\ Token!Word * under = Token!Word * b + Token!Word * h /\ Token!Word * b \in Int
        /\ Token!Word * h \in Int
    BY WordType
  <2>2. base \in Int /\ c \in Int
    BY <1>4, <1>5, WordRange
  <2> QED
    BY <1>2, <1>5, <1>6, <2>1, <2>2
<1> HIDE DEF c, base, low, high, total, under
<1>12. total = Token!Number(l) - Token!Number(r) + (Token!Word * Token!Word) * under
  <2>1. Token!Word * high
          = Token!Word * l.w1 - Token!Word * r.w1 - Token!Word * c + (Token!Word * Token!Word) * under
    BY <1>2, <1>4, <1>10, <1>11, WordType
  <2>2. /\ Token!Word * c \in Int /\ Token!Word * l.w1 \in Int /\ Token!Word * r.w1 \in Int
        /\ (Token!Word * Token!Word) * under \in Int
    BY <1>2, <1>4, <1>10, WordType
  <2>3. low + Token!Word * high
          = l.w0 + Token!Word * l.w1 - (r.w0 + Token!Word * r.w1) + (Token!Word * Token!Word) * under
    BY <1>2, <1>4, <2>1, <2>2
  <2> QED
    BY <1>2, <1>7, <1>8, <2>2, <2>3
<1>13. under \in 0..1
  <2>1. CASE under >= 2
    <3>1. (Token!Word * Token!Word) * 2 <= (Token!Word * Token!Word) * under
      BY <1>10, <2>1, ProductMonotone
    <3> QED
      BY <1>7, <1>8, <1>10, <1>12, <2>1, <3>1
  <2> QED
    BY <1>10, <2>1
<1> DEFINE D == Token!Word * Token!Word
<1>14. D \in Nat \ {0} /\ total \in 0..(D - 1) /\ Token!Number(l) \in Nat /\ Token!Number(r) \in Nat
  BY <1>7, <1>8, <1>10
<1>15. Token!Number(l) + D - Token!Number(r) = D * (1 - under) + total
  BY <1>10, <1>12, <1>14
<1>16. 1 - under \in Nat
  BY <1>13
<1> HIDE DEF D
<1>17. (Token!Number(l) + D - Token!Number(r)) % D = total
  BY <1>14, <1>15, <1>16, QuotientUnique
<1> QED
  BY <1>9, <1>17 DEF total, D

-----------------------------------------------------------------------------
HalfWord == 0..(Half - 1)

LEMMA Halves ==
  ASSUME NEW x \in 0..Token!MaxWord
  PROVE  /\ Token!hi(x) \in HalfWord /\ Token!lo(x) \in HalfWord
         /\ x = Half * Token!hi(x) + Token!lo(x)
<1>1. Half \in Nat \ {0} /\ x \in Nat /\ x < Token!Word /\ Token!Word = Half * Half
  BY HalfAssumption, WordRange DEF Token!Word
<1>2. /\ Token!hi(x) \in Nat /\ Token!lo(x) \in HalfWord
      /\ x = Half * Token!hi(x) + Token!lo(x)
  BY <1>1, QuotientRemainder DEF Token!hi, Token!lo, HalfWord
<1>3. CASE Token!hi(x) >= Half
  <2>1. Half * Half <= Half * Token!hi(x)
    BY <1>1, <1>2, <1>3, ProductMonotone
  <2>2. Half * Token!hi(x) \in Nat /\ Token!lo(x) \in Nat
    BY <1>1, <1>2 DEF HalfWord
  <2> QED
    BY <1>1, <1>2, <2>1, <2>2
<1> QED
  BY <1>1, <1>2, <1>3 DEF HalfWord

\* A product of half words leaves room for another half word.
LEMMA HalfProduct ==
  ASSUME NEW x \in HalfWord, NEW y \in HalfWord, NEW z \in HalfWord
  PROVE  x * y + z \in 0..Token!MaxWord /\ x * y \in 0..Token!MaxWord /\ x * y + Half <= Token!Word
<1>1. /\ Half \in Nat \ {0} /\ x \in Nat /\ y \in Nat /\ z \in Nat
      /\ x <= Half - 1 /\ y <= Half - 1 /\ z <= Half - 1 /\ Half - 1 \in Nat
  BY HalfAssumption DEF HalfWord
<1>2. x * y <= (Half - 1) * y /\ (Half - 1) * y <= (Half - 1) * Half
  BY <1>1, ProductMonotone
<1>3. (Half - 1) * Half = Token!Word - Half
  BY <1>1 DEF Token!Word
<1>4. x * y \in Nat /\ (Half - 1) * y \in Nat
  BY <1>1
<1> QED
  BY <1>1, <1>2, <1>3, <1>4, WordType

LEMMA JoinHalves ==
  ASSUME NEW x \in HalfWord, NEW y \in HalfWord
  PROVE  x * Half + y \in 0..Token!MaxWord /\ x * Half \in 0..Token!MaxWord
<1>1. Half \in Nat \ {0} /\ x \in Nat /\ y \in Nat /\ x + 1 <= Half /\ y < Half /\ x + 1 \in Nat
  BY HalfAssumption DEF HalfWord
<1>2. (x + 1) * Half <= Half * Half
  BY <1>1, ProductMonotone
<1>3. (x + 1) * Half = x * Half + Half /\ x * Half \in Nat
  BY <1>1
<1> QED
  BY <1>1, <1>2, <1>3, WordType DEF Token!Word

\* The product of two numbers of two digits, put together from the products of the digits.
LEMMA DigitProducts ==
  ASSUME NEW base \in Nat,
         NEW a0 \in Nat, NEW a1 \in Nat, NEW b0 \in Nat, NEW b1 \in Nat,
         NEW p0 \in Nat, NEW p1 \in Nat, NEW x0 \in Nat, NEW x1 \in Nat, NEW m0 \in Nat, NEW m1 \in Nat,
         a0 * b0 = base * p1 + p0,
         a1 * b0 + p1 = base * x1 + x0,
         a0 * b1 + x0 = base * m1 + m0
  PROVE  (base * a1 + a0) * (base * b1 + b0) = (base * base) * (a1 * b1 + x1 + m1) + (m0 * base + p0)
<1>1. (base * a1 + a0) * (base * b1 + b0)
        = (base * base) * (a1 * b1) + base * (a1 * b0) + base * (a0 * b1) + a0 * b0
  OBVIOUS
<1>2. base * (a1 * b0) = (base * base) * x1 + base * x0 - base * p1
  <2>1. base * (a1 * b0) = base * (base * x1 + x0 - p1)
    OBVIOUS
  <2> QED
    BY <2>1
<1>3. base * (a0 * b1) = (base * base) * m1 + base * m0 - base * x0
  <2>1. base * (a0 * b1) = base * (base * m1 + m0 - x0)
    OBVIOUS
  <2> QED
    BY <2>1
<1>4. (base * base) * (a1 * b1 + x1 + m1)
        = (base * base) * (a1 * b1) + (base * base) * x1 + (base * base) * m1
  OBVIOUS
<1>5. base * m0 = m0 * base
  OBVIOUS
<1> QED
  BY <1>1, <1>2, <1>3, <1>4, <1>5

\* The product of two words is the word mul64_hi above the word mul64_lo.
LEMMA MultiplyWords ==
  ASSUME NEW a \in 0..Token!MaxWord, NEW b \in 0..Token!MaxWord
  PROVE  /\ Token!mul64_lo(a, b) \in 0..Token!MaxWord /\ Token!mul64_hi(a, b) \in 0..Token!MaxWord
         /\ a * b = Token!Word * Token!mul64_hi(a, b) + Token!mul64_lo(a, b)
<1> DEFINE a0 == Token!lo(a)  a1 == Token!hi(a)  b0 == Token!lo(b)  b1 == Token!hi(b)
           p0 == Token!lo(a0 * b0)  p1 == Token!hi(a0 * b0)
           x == Token!cross(a, b)  x0 == Token!lo(x)  x1 == Token!hi(x)
           m == Token!add64(x0, a0 * b1)  m0 == Token!lo(m)  m1 == Token!hi(m)
           top == Token!add64(a1 * b1, x1)
<1>1. /\ a0 \in HalfWord /\ a1 \in HalfWord /\ a = Half * a1 + a0
      /\ b0 \in HalfWord /\ b1 \in HalfWord /\ b = Half * b1 + b0
  BY Halves
<1>2. /\ a0 * b0 \in 0..Token!MaxWord /\ a1 * b0 \in 0..Token!MaxWord
      /\ a0 * b1 \in 0..Token!MaxWord /\ a1 * b1 \in 0..Token!MaxWord
  BY <1>1, HalfProduct
<1>3. p0 \in HalfWord /\ p1 \in HalfWord /\ a0 * b0 = Half * p1 + p0
  BY <1>2, Halves
<1>4. x = a1 * b0 + p1 /\ x \in 0..Token!MaxWord
  <2>1. a1 * b0 + p1 \in 0..Token!MaxWord /\ p1 \in 0..Token!MaxWord
    BY <1>1, <1>3, HalfProduct, JoinHalves, WordType, HalfAssumption DEF HalfWord, Token!Word
  <2> QED
    BY <1>2, <2>1, AddWords, WordRange DEF Token!cross
<1>5. x0 \in HalfWord /\ x1 \in HalfWord /\ x = Half * x1 + x0
  BY <1>4, Halves
<1>6. m = a0 * b1 + x0 /\ m \in 0..Token!MaxWord
  <2>1. a0 * b1 + x0 \in 0..Token!MaxWord /\ x0 \in 0..Token!MaxWord
    BY <1>1, <1>5, HalfProduct, JoinHalves, WordType, HalfAssumption DEF HalfWord, Token!Word
  <2>2. a0 * b1 + x0 = x0 + a0 * b1
    BY <1>2, <2>1, WordRange
  <2> QED
    BY <1>2, <2>1, <2>2, AddWords, WordRange
<1>7. m0 \in HalfWord /\ m1 \in HalfWord /\ m = Half * m1 + m0
  BY <1>6, Halves
<1>8. Token!mul64_lo(a, b) = m0 * Half + p0 /\ Token!mul64_lo(a, b) \in 0..Token!MaxWord
  <2>1. /\ m0 * Half + p0 \in 0..Token!MaxWord /\ m0 * Half \in 0..Token!MaxWord
        /\ p0 \in 0..Token!MaxWord
    BY <1>3, <1>7, JoinHalves, HalfAssumption, WordType DEF HalfWord, Token!Word
  <2>2. Token!mul64_lo(a, b) = Token!add64(m0 * Half, p0)
    BY DEF Token!mul64_lo
  <2> QED
    BY <2>1, <2>2, AddWords, WordRange
<1> DEFINE high == a1 * b1 + x1 + m1
<1>9. a * b = Token!Word * high + (m0 * Half + p0)
  <2>1. /\ a0 \in Nat /\ a1 \in Nat /\ b0 \in Nat /\ b1 \in Nat /\ p0 \in Nat /\ p1 \in Nat
        /\ x0 \in Nat /\ x1 \in Nat /\ m0 \in Nat /\ m1 \in Nat /\ Half \in Nat
    BY <1>1, <1>3, <1>5, <1>7, HalfAssumption DEF HalfWord
  <2> HIDE DEF a0, a1, b0, b1, p0, p1, x, x0, x1, m, m0, m1
  <2> QED
    BY <1>1, <1>3, <1>4, <1>5, <1>6, <1>7, <2>1, DigitProducts DEF Token!Word
<1>10. high \in Nat /\ high < Token!Word
  <2>1. a1 * b1 \in Nat /\ x1 \in Nat /\ m1 \in Nat
    BY <1>2, <1>5, <1>7, WordRange DEF HalfWord
  <2>2. a * b < Token!Word * Token!Word
    <3>1. /\ a \in Nat /\ b \in Nat /\ a <= Token!Word - 1 /\ b <= Token!Word - 1
          /\ Token!Word - 1 \in Nat
      BY WordRange, WordType
    <3>2. /\ a * b <= (Token!Word - 1) * b
          /\ (Token!Word - 1) * b <= (Token!Word - 1) * (Token!Word - 1)
      BY <3>1, ProductMonotone
    <3>3. /\ (Token!Word - 1) * (Token!Word - 1) = Token!Word * Token!Word - 2 * Token!Word + 1
          /\ (Token!Word - 1) * b \in Nat /\ a * b \in Nat
      BY <3>1, WordType
    <3> QED
      BY <3>2, <3>3, WordType
  <2>3. m0 * Half + p0 \in Nat
    BY <1>8, WordRange
  <2> HIDE DEF a0, a1, b0, b1, p0, p1, x, x0, x1, m, m0, m1
  <2>4. high \in Nat
    BY <2>1
  <2> HIDE DEF high
  <2>5. CASE high >= Token!Word
    <3>1. Token!Word * Token!Word <= Token!Word * high
      BY <2>4, <2>5, WordType, ProductMonotone
    <3>2. Token!Word * Token!Word \in Nat /\ Token!Word * high \in Nat
      BY <2>4, WordType
    <3> QED
      BY <1>9, <2>2, <2>3, <3>1, <3>2
  <2> QED
    BY <2>4, <2>5, WordType
<1>11. Token!mul64_hi(a, b) = high /\ Token!mul64_hi(a, b) \in 0..Token!MaxWord
  <2>1. /\ a1 * b1 \in Nat /\ x1 \in Nat /\ m1 \in Nat /\ a1 * b1 + x1 + m1 = high
        /\ x1 \in 0..Token!MaxWord /\ m1 \in 0..Token!MaxWord
    BY <1>2, <1>5, <1>7, WordRange, HalfAssumption, WordType DEF HalfWord, Token!Word
  <2>2. a1 * b1 + x1 < Token!Word
    BY <1>10, <2>1, WordType
  <2>3. top = a1 * b1 + x1 /\ top \in 0..Token!MaxWord
    BY <1>2, <2>1, <2>2, AddWords
  <2>4. Token!add64(top, m1) = high /\ Token!add64(top, m1) \in 0..Token!MaxWord
    BY <1>10, <2>1, <2>3, AddWords
  <2> QED
    BY <2>4 DEF Token!mul64_hi
<1> QED
  BY <1>8, <1>9, <1>11

\* NearToken mulU64?: four products of half words, each kept within a word, are the product.
THEOREM Multiplies == Token!MultipliesNumbers
<1> SUFFICES ASSUME NEW value \in Token!NearToken, NEW factor \in 0..Token!MaxWord
             PROVE  /\ Token!canMulUInt64(value, factor) <=> Token!Number(value) * factor < Token!Word * Token!Word
                    /\ Token!canMulUInt64(value, factor) =>
                         Token!Number(Token!mulUInt64(value, factor)) = Token!Number(value) * factor
  BY DEF Token!MultipliesNumbers
<1> DEFINE l0 == Token!mul64_lo(value.w0, factor)  h0 == Token!mul64_hi(value.w0, factor)
           l1 == Token!mul64_lo(value.w1, factor)  h1 == Token!mul64_hi(value.w1, factor)
           w1 == Token!add64(h0, l1)
           product == Token!Number(value) * factor
<1>1. /\ value.w0 \in 0..Token!MaxWord /\ value.w1 \in 0..Token!MaxWord
      /\ value.w0 \in Nat /\ value.w1 \in Nat /\ factor \in Nat
  BY TokenParts, WordRange
<1>2. /\ l0 \in 0..Token!MaxWord /\ h0 \in 0..Token!MaxWord
      /\ value.w0 * factor = Token!Word * h0 + l0
      /\ l1 \in 0..Token!MaxWord /\ h1 \in 0..Token!MaxWord
      /\ value.w1 * factor = Token!Word * h1 + l1
  BY <1>1, MultiplyWords
<1>3. l0 \in Nat /\ h0 \in Nat /\ l1 \in Nat /\ h1 \in Nat /\ Token!Word \in Nat
  BY <1>2, WordRange, WordType
<1>4. /\ w1 \in 0..Token!MaxWord
      /\ \/ h0 + l1 < Token!Word /\ w1 = h0 + l1 /\ w1 >= h0
         \/ h0 + l1 >= Token!Word /\ w1 < h0
  BY <1>2, AddCarries
<1>5. /\ Token!canMulUInt64(value, factor) <=> h1 = 0 /\ w1 >= h0
      /\ Token!mulUInt64(value, factor) = Token!ofLimbs(l0, w1)
  BY DEF Token!canMulUInt64, Token!mulUInt64, Token!ofLimbs
<1>6. /\ Token!Number(Token!ofLimbs(l0, w1)) = l0 + Token!Word * w1
      /\ Token!Number(Token!ofLimbs(l0, w1)) \in 0..(Token!Word * Token!Word - 1)
  BY <1>2, <1>4, NumberOfLimbs
<1>7. product = (Token!Word * Token!Word) * h1 + Token!Word * (h0 + l1) + l0
  <2>1. product = value.w0 * factor + Token!Word * (value.w1 * factor)
    BY <1>1, WordType DEF Token!Number
  <2> HIDE DEF product, l0, h0, l1, h1
  <2>2. Token!Word * (value.w1 * factor) = (Token!Word * Token!Word) * h1 + Token!Word * l1
    BY <1>2, <1>3
  <2>3. /\ Token!Word * (h0 + l1) = Token!Word * h0 + Token!Word * l1
        /\ Token!Word * h0 \in Nat /\ Token!Word * l1 \in Nat
        /\ (Token!Word * Token!Word) * h1 \in Nat
    BY <1>3
  <2> QED
    BY <1>2, <1>3, <2>1, <2>2, <2>3
<1> HIDE DEF product, l0, h0, l1, h1, w1
<1>8. /\ Token!Word * Token!Word \in Nat /\ (Token!Word * Token!Word) * h1 \in Nat
      /\ Token!Word * (h0 + l1) \in Nat
  BY <1>3
<1>9. CASE h1 = 0 /\ h0 + l1 < Token!Word
  <2>1. w1 = h0 + l1 /\ w1 >= h0
    BY <1>3, <1>4, <1>9
  <2>2. product = l0 + Token!Word * w1
    BY <1>3, <1>7, <1>8, <1>9, <2>1
  <2> QED
    BY <1>5, <1>6, <1>8, <1>9, <2>1, <2>2 DEF product
<1>10. CASE h1 # 0
  <2>1. (Token!Word * Token!Word) * 1 <= (Token!Word * Token!Word) * h1
    BY <1>3, <1>8, <1>10, ProductMonotone
  <2>2. product >= Token!Word * Token!Word
    BY <1>3, <1>7, <1>8, <2>1
  <2> QED
    BY <1>3, <1>5, <1>7, <1>8, <1>10, <2>2 DEF product
<1>11. CASE h0 + l1 >= Token!Word
  <2>1. Token!Word * Token!Word <= Token!Word * (h0 + l1)
    BY <1>3, <1>11, ProductMonotone
  <2>2. product >= Token!Word * Token!Word
    BY <1>3, <1>7, <1>8, <2>1
  <2>3. ~ (w1 >= h0)
    BY <1>3, <1>4, <1>11, WordRange
  <2> QED
    BY <1>3, <1>5, <1>7, <1>8, <2>2, <2>3 DEF product
<1> QED
  BY <1>3, <1>9, <1>10, <1>11

\* A number has one pair of words.
LEMMA SameWords ==
  ASSUME NEW t \in Token!NearToken, NEW w0 \in 0..Token!MaxWord, NEW w1 \in 0..Token!MaxWord,
         Token!Number(t) = w0 + Token!Word * w1
  PROVE  t.w0 = w0 /\ t.w1 = w1
<1>1. /\ Token!Word \in Nat \ {0} /\ t.w0 \in 0..(Token!Word - 1) /\ w0 \in 0..(Token!Word - 1)
      /\ t.w1 \in Nat /\ w1 \in Nat
  BY WordType, TokenParts
<1>2. Token!Number(t) = Token!Word * t.w1 + t.w0 /\ Token!Number(t) = Token!Word * w1 + w0
  BY <1>1 DEF Token!Number
<1>3. /\ Token!Number(t) \div Token!Word = t.w1 /\ Token!Number(t) % Token!Word = t.w0
  BY <1>1, <1>2, QuotientUnique
<1>4. /\ Token!Number(t) \div Token!Word = w1 /\ Token!Number(t) % Token!Word = w0
  BY <1>1, <1>2, QuotientUnique
<1> QED
  BY <1>3, <1>4

\* The three parts of a result.
Answered3(parts, ok, w0, w1) == parts.Ok = ok /\ parts.W0 = w0 /\ parts.W1 = w1

\* A sum that fits in two words, as the contract answers it.
LEMMA SumIs ==
  ASSUME NEW l \in Token!NearToken, NEW r \in Token!NearToken,
         NEW w0 \in 0..Token!MaxWord, NEW w1 \in 0..Token!MaxWord,
         Token!Number(l) + Token!Number(r) = w0 + Token!Word * w1
  PROVE  Answered3(Token!Sum(l, r), 1, w0, w1)
<1> DEFINE W2 == Token!Word * Token!Word
           n == w0 + Token!Word * w1
           t == Token!add(l, r)
<1>1. n \in 0..(W2 - 1)
  BY NumberOfLimbs
<1>2. W2 \in Nat \ {0}
  BY WordType
<1>3. /\ Token!canAdd(l, r) <=> Token!Number(l) + Token!Number(r) < W2
      /\ Token!Number(t) = (Token!Number(l) + Token!Number(r)) % W2
  BY Adds DEF Token!AddsNumbers
<1>4. t \in Token!NearToken
  <2>1. /\ l.w0 \in 0..Token!MaxWord /\ l.w1 \in 0..Token!MaxWord
        /\ r.w0 \in 0..Token!MaxWord /\ r.w1 \in 0..Token!MaxWord
    BY TokenParts
  <2>2. Token!carry(l, r) \in 0..Token!MaxWord
    BY WordType DEF Token!carry, Token!Bit
  <2>3. Token!add64(l.w0, r.w0) \in 0..Token!MaxWord /\ Token!add64(l.w1, r.w1) \in 0..Token!MaxWord
    BY <2>1, AddWords
  <2>4. Token!add64(Token!add64(l.w1, r.w1), Token!carry(l, r)) \in 0..Token!MaxWord
    BY <2>2, <2>3, AddWords
  <2> QED
    BY <2>3, <2>4 DEF Token!add, Token!ofLimbs, Token!NearToken
<1> HIDE DEF W2, t
<1>5. n % W2 = n
  BY <1>1, <1>2
<1>6. t.w0 = w0 /\ t.w1 = w1
  BY <1>3, <1>4, <1>5, SameWords
<1>7. Token!canAdd(l, r)
  BY <1>1, <1>2, <1>3
<1> QED
  BY <1>6, <1>7 DEF Answered3, Token!Sum, Token!Parts, Token!Bit, t

\* A difference, as the contract answers it.
LEMMA DifferenceIs ==
  ASSUME NEW l \in Token!NearToken, NEW r \in Token!NearToken,
         NEW w0 \in 0..Token!MaxWord, NEW w1 \in 0..Token!MaxWord,
         Token!Number(l) = Token!Number(r) + (w0 + Token!Word * w1)
  PROVE  Answered3(Token!Difference(l, r), 1, w0, w1)
<1> DEFINE W2 == Token!Word * Token!Word
           n == w0 + Token!Word * w1
           t == Token!sub(l, r)
<1>1. n \in 0..(W2 - 1)
  BY NumberOfLimbs
<1>2. W2 \in Nat \ {0}
  BY WordType
<1>3. /\ Token!canSub(l, r) <=> Token!Number(l) >= Token!Number(r)
      /\ Token!Number(t) = (Token!Number(l) + W2 - Token!Number(r)) % W2
  BY Subtracts DEF Token!SubtractsNumbers
<1>4. t \in Token!NearToken
  <2>1. /\ l.w0 \in 0..Token!MaxWord /\ l.w1 \in 0..Token!MaxWord
        /\ r.w0 \in 0..Token!MaxWord /\ r.w1 \in 0..Token!MaxWord
    BY TokenParts
  <2>2. Token!borrow(l, r) \in 0..Token!MaxWord
    BY WordType DEF Token!borrow, Token!Bit
  <2>3. Token!sub64(l.w0, r.w0) \in 0..Token!MaxWord /\ Token!sub64(l.w1, r.w1) \in 0..Token!MaxWord
    BY <2>1, SubWords
  <2>4. Token!sub64(Token!sub64(l.w1, r.w1), Token!borrow(l, r)) \in 0..Token!MaxWord
    BY <2>2, <2>3, SubWords
  <2> QED
    BY <2>3, <2>4 DEF Token!sub, Token!ofLimbs, Token!NearToken
<1>5. Token!Number(l) \in Nat /\ Token!Number(r) \in Nat
  BY TokenParts, NumberOfLimbs
<1> HIDE DEF W2, t, n
<1>6. Token!Number(l) = Token!Number(r) + n
  BY DEF n
<1>7. Token!Number(l) + W2 - Token!Number(r) = W2 * 1 + n
  BY <1>1, <1>2, <1>5, <1>6
<1>8. (W2 * 1 + n) % W2 = n
  BY <1>1, <1>2, QuotientUnique
<1>9. t.w0 = w0 /\ t.w1 = w1
  BY <1>3, <1>4, <1>7, <1>8, SameWords DEF n
<1>10. Token!canSub(l, r)
  BY <1>1, <1>2, <1>3, <1>5, <1>6
<1> QED
  BY <1>9, <1>10 DEF Answered3, Token!Difference, Token!Parts, Token!Bit, t

\* A product that fits in two words, as the contract answers it.
LEMMA ProductIs ==
  ASSUME NEW v \in Token!NearToken, NEW factor \in 0..Token!MaxWord,
         NEW w0 \in 0..Token!MaxWord, NEW w1 \in 0..Token!MaxWord,
         Token!Number(v) * factor = w0 + Token!Word * w1
  PROVE  Answered3(Token!Product(v, factor), 1, w0, w1)
<1> DEFINE W2 == Token!Word * Token!Word
           n == w0 + Token!Word * w1
           t == Token!mulUInt64(v, factor)
<1>1. n \in 0..(W2 - 1)
  BY NumberOfLimbs
<1>2. W2 \in Nat \ {0}
  BY WordType
<1>3. /\ Token!canMulUInt64(v, factor) <=> Token!Number(v) * factor < W2
      /\ Token!canMulUInt64(v, factor) => Token!Number(t) = Token!Number(v) * factor
  BY Multiplies DEF Token!MultipliesNumbers
<1>4. t \in Token!NearToken
  <2>1. v.w0 \in 0..Token!MaxWord /\ v.w1 \in 0..Token!MaxWord
    BY TokenParts
  <2>2. /\ Token!mul64_lo(v.w0, factor) \in 0..Token!MaxWord /\ Token!mul64_hi(v.w0, factor) \in 0..Token!MaxWord
        /\ Token!mul64_lo(v.w1, factor) \in 0..Token!MaxWord
    BY <2>1, MultiplyWords
  <2>3. Token!add64(Token!mul64_hi(v.w0, factor), Token!mul64_lo(v.w1, factor)) \in 0..Token!MaxWord
    BY <2>2, AddWords
  <2> QED
    BY <2>2, <2>3 DEF Token!mulUInt64, Token!ofLimbs, Token!NearToken
<1> HIDE DEF W2, t, n
<1>5. Token!canMulUInt64(v, factor)
  BY <1>1, <1>2, <1>3 DEF n
<1>6. t.w0 = w0 /\ t.w1 = w1
  BY <1>3, <1>4, <1>5, SameWords DEF n
<1> QED
  BY <1>5, <1>6 DEF Answered3, Token!Product, Token!Parts, Token!Bit, t

\* A product that does not.
LEMMA ProductTooLarge ==
  ASSUME NEW v \in Token!NearToken, NEW factor \in 0..Token!MaxWord,
         Token!Number(v) * factor >= Token!Word * Token!Word
  PROVE  Token!Product(v, factor).Ok = 0
<1> DEFINE W2 == Token!Word * Token!Word
           n == Token!Number(v) * factor
<1>1. Token!canMulUInt64(v, factor) <=> n < W2
  BY Multiplies DEF Token!MultipliesNumbers
<1>2. W2 \in Nat /\ n \in Nat
  <2>1. Token!Number(v) \in Nat
    BY TokenParts, NumberOfLimbs
  <2> QED
    BY <2>1, WordType
<1> HIDE DEF W2, n
<1>3. ~Token!canMulUInt64(v, factor)
  BY <1>1, <1>2 DEF W2, n
<1> QED
  BY <1>3 DEF Token!Product, Token!Parts, Token!Bit

\* NearTokenArithmetic: what each entry answers, for every width of a word.
LEMMA AdditionsAnswer ==
  /\ Answered3(Token!Result("addCarry"), 1, 0, 1)
  /\ Answered3(Token!Result("addOverflow"), 0, 0, 0)
  /\ Answered3(Token!Result("addHigh"), 1, 1, Token!MaxWord - 1)
<1> DEFINE W == Token!Word
           M == Token!MaxWord
           T == Token!TopBit
<1>1. /\ W \in Nat /\ W > 3 /\ M = W - 1 /\ {0, 1, M, M - 1} \subseteq 0..M
      /\ T \in 2..M /\ W = 2 * T
  <2>1. W % 2 = 0
    <3>1. PICK h \in Nat : Half = 2 * h
      BY HalfAssumption
    <3>2. Half * Half = 2 * (h * Half)
      BY <3>1, HalfAssumption
    <3> QED
      BY <3>1, <3>2, HalfAssumption DEF Token!Word
  <2> QED
    BY <2>1, WordType DEF Token!TopBit
<1>2. \A a, b \in 0..M : /\ Token!ofLimbs(a, b) \in Token!NearToken
                         /\ Token!Number(Token!ofLimbs(a, b)) = a + W * b
  BY NumberOfLimbs DEF Token!ofLimbs, Token!NearToken
<1>3. /\ T - 2 \in 0..M
      /\ (0 + W * T) + (1 + W * (T - 2)) = 1 + W * (M - 1)
  BY <1>1
<1>4. (M + W * 0) + (1 + W * 0) = 0 + W * 1
  BY <1>1
<1> HIDE DEF W, M, T
<1>5. Answered3(Token!Sum(Token!ofLimbs(M, 0), Token!ofLimbs(1, 0)), 1, 0, 1)
  BY <1>1, <1>2, <1>4, SumIs DEF W, M
<1>6. Answered3(Token!Sum(Token!ofLimbs(0, T), Token!ofLimbs(1, T - 2)), 1, 1, M - 1)
  <2>1. 1 \in 0..M /\ 0 \in 0..M /\ M - 1 \in 0..M /\ T \in 0..M
    BY <1>1
  <2> QED
    BY <2>1, <1>2, <1>3, SumIs DEF W, M
<1>7. Answered3(Token!Sum(Token!ofLimbs(M, M), Token!ofLimbs(1, 0)), 0, 0, 0)
  <2> DEFINE l == Token!ofLimbs(M, M)
             r == Token!ofLimbs(1, 0)
  <2>1. l.w0 = M /\ l.w1 = M /\ r.w0 = 1 /\ r.w1 = 0
    BY DEF Token!ofLimbs
  <2>2. Token!add64(M, 1) = 0 /\ Token!add64(M, 0) = M
    BY <1>1, AddWords DEF W, M
  <2> HIDE DEF l, r
  <2>3. Token!carry(l, r) = 1
    BY <1>1, <2>1, <2>2 DEF Token!carry, Token!Bit
  <2>4. ~Token!canAdd(l, r)
    BY <1>1, <2>1, <2>2, <2>3 DEF Token!canAdd
  <2>5. Token!add(l, r) = Token!ofLimbs(0, 0)
    BY <2>1, <2>2, <2>3 DEF Token!add
  <2> QED
    BY <2>4, <2>5 DEF Answered3, Token!Sum, Token!Parts, Token!Bit, Token!ofLimbs, l, r
<1> QED
  BY <1>5, <1>6, <1>7 DEF Token!Result, W, M, T

\* The entries that subtract.
LEMMA SubtractionsAnswer ==
  /\ Answered3(Token!Result("subBorrow"), 1, Token!MaxWord, 0)
  /\ Answered3(Token!Result("subUnderflow"), 0, Token!MaxWord, Token!MaxWord)
  /\ Answered3(Token!Result("subHigh"), 1, 0, 1)
<1> DEFINE W == Token!Word
           M == Token!MaxWord
           T == Token!TopBit
<1>1. /\ W \in Nat /\ W > 3 /\ M = W - 1 /\ 0 \in 0..M /\ 1 \in 0..M /\ M \in 0..M
      /\ T \in 0..M /\ T - 1 \in 0..M
  BY WordType DEF Token!TopBit
<1>2. \A a, b \in 0..M : /\ Token!ofLimbs(a, b) \in Token!NearToken
                         /\ Token!Number(Token!ofLimbs(a, b)) = a + W * b
  BY NumberOfLimbs DEF Token!ofLimbs, Token!NearToken
<1>3. 0 + W * 1 = (1 + W * 0) + (M + W * 0)
  BY <1>1
<1>4. 0 + W * T = (0 + W * (T - 1)) + (0 + W * 1)
  BY <1>1
<1> HIDE DEF W, M, T
<1>5. Answered3(Token!Difference(Token!ofLimbs(0, 1), Token!ofLimbs(1, 0)), 1, M, 0)
  BY <1>1, <1>2, <1>3, DifferenceIs DEF W, M
<1>6. Answered3(Token!Difference(Token!ofLimbs(0, T), Token!ofLimbs(0, T - 1)), 1, 0, 1)
  BY <1>1, <1>2, <1>4, DifferenceIs DEF W, M
<1>7. Answered3(Token!Difference(Token!ofLimbs(0, 0), Token!ofLimbs(1, 0)), 0, M, M)
  <2> DEFINE l == Token!ofLimbs(0, 0)
             r == Token!ofLimbs(1, 0)
  <2>1. l.w0 = 0 /\ l.w1 = 0 /\ r.w0 = 1 /\ r.w1 = 0
    BY DEF Token!ofLimbs
  <2>2. Token!sub64(0, 1) = M /\ Token!sub64(0, 0) = 0
    BY <1>1, SubWords DEF W, M
  <2> HIDE DEF l, r
  <2>3. Token!borrow(l, r) = 1
    BY <2>1 DEF Token!borrow, Token!Bit
  <2>4. ~Token!canSub(l, r)
    BY <2>1 DEF Token!canSub
  <2>5. Token!sub(l, r) = Token!ofLimbs(M, M)
    BY <2>1, <2>2, <2>3 DEF Token!sub
  <2> QED
    BY <2>4, <2>5 DEF Answered3, Token!Difference, Token!Parts, Token!Bit, Token!ofLimbs, l, r
<1> QED
  BY <1>5, <1>6, <1>7 DEF Token!Result, W, M, T

\* The entries that multiply.
LEMMA ProductsAnswer ==
  /\ Answered3(Token!Result("mulFactorZero"), 1, 0, 0)
  /\ Answered3(Token!Result("mulTokenZero"), 1, 0, 0)
  /\ Answered3(Token!Result("mulMixed"), 1, 2, 2)
  /\ Answered3(Token!Result("mulU64Square"), 1, 1, Token!MaxWord - 1)
  /\ Answered3(Token!Result("mulMaxOne"), 1, Token!MaxWord, Token!MaxWord)
  /\ Token!Result("mulMaxTwo").Ok = 0
  /\ Answered3(Token!Result("mulHighFit"), 1, 0, Token!MaxWord)
  /\ Answered3(Token!Result("mulExactMax"), 1, Token!MaxWord, Token!MaxWord)
  /\ Token!Result("mulCarryOverflow").Ok = 0
  /\ Answered3(Token!Result("mulCarryBoundary"), 1, (Half - 1) * Half, Token!MaxWord)
<1> DEFINE W == Token!Word
           M == Token!MaxWord
<1>1. /\ W \in Nat /\ W >= 16 /\ W = Half * Half /\ M = W - 1 /\ Half \in 4..M /\ (Half - 1) * Half \in 0..M
  <2>1. Half \in Nat /\ Half >= 4 /\ W = Half * Half
    BY HalfAssumption DEF Token!Word
  <2>2. W = 4 * Half + (Half - 4) * Half /\ (Half - 4) * Half \in Nat /\ (Half - 1) * Half \in Nat
    BY <2>1
  <2>3. (Half - 1) * Half = W - Half
    BY <2>1
  <2> QED
    BY <2>1, <2>2, <2>3, WordType
<1>2. \A a, b \in 0..M : /\ Token!ofLimbs(a, b) \in Token!NearToken
                         /\ Token!Number(Token!ofLimbs(a, b)) = a + W * b
  BY NumberOfLimbs DEF Token!ofLimbs, Token!NearToken
<1>3. \A a, b, factor, w0, w1 \in 0..M :
        (a + W * b) * factor = w0 + W * w1 =>
          Answered3(Token!Product(Token!ofLimbs(a, b), factor), 1, w0, w1)
  BY <1>2, ProductIs
<1>4. \A a, b, factor \in 0..M :
        (a + W * b) * factor >= W * W => Token!Product(Token!ofLimbs(a, b), factor).Ok = 0
  BY <1>2, ProductTooLarge
<1>5. {0, 1, 2, 7, 9, M, M - 1, Half, Half - 1, (Half - 1) * Half} \subseteq 0..M
  BY <1>1
<1>6. /\ (7 + W * 9) * 0 = 0 + W * 0
      /\ (0 + W * 0) * M = 0 + W * 0
      /\ (1 + W * 1) * 2 = 2 + W * 2
      /\ (M + W * 0) * M = 1 + W * (M - 1)
      /\ (M + W * M) * 1 = M + W * M
      /\ (0 + W * 1) * M = 0 + W * M
      /\ (1 + W * 1) * M = M + W * M
  BY <1>1
<1>7. (M + W * M) * 2 >= W * W
  BY <1>1
<1>8. (M + W * 1) * M >= W * W
  <2>1. (M + W * 1) * M = W * W + (W - 3) * W + 1
    BY <1>1
  <2>2. (W - 3) * W \in Nat /\ W * W \in Nat
    BY <1>1
  <2> QED
    BY <2>1, <2>2
<1>9. (M + W * (Half - 1)) * Half = (Half - 1) * Half + W * M
  <2>1. (M + W * (Half - 1)) * Half = W * Half - Half + W * (Half * Half) - W * Half
    BY <1>1
  <2>2. (Half - 1) * Half = W - Half
    BY <1>1
  <2> QED
    BY <1>1, <2>1, <2>2
<1> HIDE DEF W, M
<1>10. /\ Answered3(Token!Product(Token!ofLimbs(7, 9), 0), 1, 0, 0)
       /\ Answered3(Token!Product(Token!ofLimbs(0, 0), M), 1, 0, 0)
       /\ Answered3(Token!Product(Token!ofLimbs(1, 1), 2), 1, 2, 2)
  BY <1>3, <1>5, <1>6
<1>11. /\ Answered3(Token!Product(Token!ofLimbs(M, 0), M), 1, 1, M - 1)
       /\ Answered3(Token!Product(Token!ofLimbs(M, M), 1), 1, M, M)
  BY <1>3, <1>5, <1>6
<1>12. /\ Answered3(Token!Product(Token!ofLimbs(0, 1), M), 1, 0, M)
       /\ Answered3(Token!Product(Token!ofLimbs(1, 1), M), 1, M, M)
  BY <1>3, <1>5, <1>6
<1>13. /\ Token!Product(Token!ofLimbs(M, M), 2).Ok = 0
       /\ Token!Product(Token!ofLimbs(M, 1), M).Ok = 0
  BY <1>4, <1>5, <1>7, <1>8
<1>14. Answered3(Token!Product(Token!ofLimbs(M, Half - 1), Half), 1, (Half - 1) * Half, M)
  BY <1>3, <1>5, <1>9
<1> QED
  BY <1>10, <1>11, <1>12, <1>13, <1>14 DEF Token!Result, M

(***************************************************************************)
(* NearMemory: an arena of the guest's pages, and the buffer that is       *)
(* active in it.                                                           *)
(***************************************************************************)

\* What a cell holds: leftovers of an earlier call, or a number.
Held == {Anything} \cup Nat

Arenas ==
  [cursor : Nat, ptr : Nat, capacity : Nat, active : BOOLEAN,
   memory : [Memory!Cells -> Held], got : Held, trapped : BOOLEAN]

\* The active buffer lies in the pages the host grants.
Fits(a) == a.active => a.capacity \in 1..MaxCapacity /\ a.ptr + a.capacity <= PageCells * MaxPages

\* The arena trapped, or its active buffer is what the operations so far mean.
Own(a, means) == a.trapped \/ (Fits(a) /\ Memory!Contents(a) = means)

\* Pages that the host grants hold every cell up to the buffer's end.
LEMMA PagesCover ==
  ASSUME NEW cells \in Nat, Memory!Pages(cells) <= MaxPages
  PROVE  cells <= PageCells * MaxPages
<1> DEFINE x == cells + PageCells - 1
           q == x \div PageCells
<1>1. PageCells \in Nat \ {0} /\ MaxPages \in Nat /\ x \in Nat
  BY ArenaAssumption
<1>2. q \in Nat /\ q <= MaxPages
  BY <1>1, QuotientRemainder DEF Memory!Pages
<1>3. x % PageCells \in 0..(PageCells - 1) /\ x = PageCells * q + (x % PageCells)
  BY <1>1, QuotientRemainder
<1>4. PageCells * q <= PageCells * MaxPages /\ PageCells * q \in Nat /\ PageCells * MaxPages \in Nat
  BY <1>1, <1>2, ProductMonotone
<1> QED
  BY <1>1, <1>3, <1>4

\* A call starts with no buffer.
LEMMA ResetOwn == Memory!reset \in Arenas /\ ~Memory!reset.trapped /\ Own(Memory!reset, Memory!NoBuffer)
<1>1. Memory!reset \in Arenas
  BY ArenaAssumption DEF Memory!reset, Arenas, Held
<1>2. Memory!Contents(Memory!reset) = Memory!NoBuffer
  BY DEF Memory!reset, Memory!Contents, Memory!NoBuffer
<1> QED
  BY <1>1, <1>2 DEF Own, Fits, Memory!reset

LEMMA TrapTyped ==
  ASSUME NEW a \in Arenas
  PROVE  [a EXCEPT !.trapped = TRUE] \in Arenas /\ [a EXCEPT !.trapped = TRUE].trapped
BY DEF Arenas

\* A buffer begins with zeros in it, whatever its cells held.
LEMMA BeginOwn ==
  ASSUME NEW a \in Arenas, NEW c \in 1..MaxCapacity
  PROVE  Memory!begin(a, c) \in Arenas /\ Own(Memory!begin(a, c), [i \in 0..(c - 1) |-> 0])
<1> DEFINE b == Memory!begin(a, c)
           n == [Memory!Claimed(a, c) EXCEPT
                   !.memory = [k \in Memory!Cells |-> IF k \in a.cursor..(a.cursor + c - 1) THEN 0 ELSE @[k]]]
<1>1. MaxCapacity \in Nat /\ c \in Nat /\ a.cursor \in Nat /\ a.memory \in [Memory!Cells -> Held]
  BY ArenaAssumption DEF Arenas
<1>2. CASE ~(~a.trapped /\ Memory!CanBegin(a, c))
  <2>1. b = [a EXCEPT !.trapped = TRUE]
    BY <1>2 DEF Memory!begin, Memory!Unless
  <2> HIDE DEF b
  <2> QED
    BY <2>1, TrapTyped DEF Own, b
<1>3. CASE ~a.trapped /\ Memory!CanBegin(a, c)
  <2>1. b = n
    BY <1>3 DEF Memory!begin, Memory!Unless, Memory!Claimed
  <2>2. /\ n \in Arenas /\ n.active /\ n.capacity = c /\ n.ptr = a.cursor
        /\ n.memory = [k \in Memory!Cells |-> IF k \in a.cursor..(a.cursor + c - 1) THEN 0 ELSE a.memory[k]]
    <3> DEFINE m == Memory!Claimed(a, c)
               memory == [k \in Memory!Cells |-> IF k \in a.cursor..(a.cursor + c - 1) THEN 0 ELSE m.memory[k]]
    <3>1. m \in Arenas /\ m.active /\ m.capacity = c /\ m.ptr = a.cursor /\ m.memory = a.memory
      <4>1. a.cursor + c \in Nat
        BY <1>1
      <4>2. m = [a EXCEPT !.cursor = a.cursor + c, !.ptr = a.cursor, !.capacity = c, !.active = TRUE]
        BY DEF Memory!Claimed
      <4> HIDE DEF m
      <4>3. m \in Arenas
        BY <1>1, <4>1, <4>2 DEF Arenas
      <4>4. m.active = TRUE
        BY <4>2 DEF Arenas
      <4>5. m.capacity = c /\ m.ptr = a.cursor /\ m.memory = a.memory
        BY <4>2 DEF Arenas
      <4> QED
        BY <4>3, <4>4, <4>5
    <3> HIDE DEF m
    <3>2. memory \in [Memory!Cells -> Held]
      BY <3>1 DEF Arenas, Held
    <3>3. n = [m EXCEPT !.memory = memory]
      BY DEF m
    <3> HIDE DEF memory, n
    <3>4. n \in Arenas /\ n.active = m.active /\ n.capacity = m.capacity /\ n.ptr = m.ptr /\ n.memory = memory
      BY <3>1, <3>2, <3>3 DEF Arenas
    <3> QED
      BY <3>1, <3>4 DEF memory
  <2> HIDE DEF n, b
  <2>3. a.cursor + c <= PageCells * MaxPages
    BY <1>1, <1>3, PagesCover DEF Memory!CanBegin
  <2>4. \A i \in 0..(c - 1) : n.memory[n.ptr + i] = 0
    <3>1. PageCells * MaxPages \in Nat
      BY ArenaAssumption
    <3>2. \A i \in 0..(c - 1) : a.cursor + i \in Memory!Cells /\ a.cursor + i \in a.cursor..(a.cursor + c - 1)
      BY <1>1, <2>3, <3>1 DEF Memory!Cells
    <3> QED
      BY <2>2, <3>2
  <2>5. Memory!Contents(n) = [i \in 0..(c - 1) |-> 0]
    BY <2>2, <2>4 DEF Memory!Contents
  <2>6. Own(n, [i \in 0..(c - 1) |-> 0])
    BY <2>2, <2>3, <2>5 DEF Own, Fits
  <2> QED
    BY <2>1, <2>2, <2>6 DEF b
<1> QED
  BY <1>2, <1>3

\* A finished buffer is gone.
LEMMA FinishOwn ==
  ASSUME NEW a \in Arenas, NEW c
  PROVE  Memory!finish(a, c) \in Arenas /\ Own(Memory!finish(a, c), Memory!NoBuffer)
<1>1. CASE ~(~a.trapped /\ Memory!Live(a, c))
  BY <1>1, TrapTyped DEF Own, Memory!finish, Memory!Unless
<1>2. CASE ~a.trapped /\ Memory!Live(a, c)
  <2> DEFINE n == [a EXCEPT !.ptr = 0, !.capacity = 0, !.active = FALSE]
  <2>1. Memory!finish(a, c) = n
    BY <1>2 DEF Memory!finish, Memory!Unless
  <2>2. n \in Arenas /\ n.active = FALSE
    BY DEF Arenas
  <2> HIDE DEF n
  <2>3. Memory!Contents(n) = Memory!NoBuffer
    BY <2>2 DEF Memory!Contents, Memory!NoBuffer
  <2> QED
    BY <2>1, <2>2, <2>3 DEF Own, Fits
<1> QED
  BY <1>1, <1>2

\* set writes one place of the buffer and no other.
LEMMA SetOwn ==
  ASSUME NEW a \in Arenas, NEW means, Own(a, means), NEW index \in Nat, NEW value \in Nat
  PROVE  LET b == Memory!set(a, a.capacity, index, value) IN
         b \in Arenas /\ Own(b, [means EXCEPT ![index] = value])
<1> DEFINE b == Memory!set(a, a.capacity, index, value)
           n == [a EXCEPT !.memory[a.ptr + index] = value]
           kept == [means EXCEPT ![index] = value]
<1>1. CASE ~(~a.trapped /\ Memory!Live(a, a.capacity) /\ index < a.capacity)
  BY <1>1, TrapTyped DEF Own, Memory!set, Memory!Unless
<1>2. CASE ~a.trapped /\ Memory!Live(a, a.capacity) /\ index < a.capacity
  <2>1. b = n
    BY <1>2 DEF Memory!set, Memory!Unless
  <2>2. /\ a.active /\ a.capacity \in 1..MaxCapacity /\ a.ptr + a.capacity <= PageCells * MaxPages
        /\ Memory!Contents(a) = means
    BY <1>2 DEF Own, Fits, Memory!Live
  <2>3. /\ a.ptr \in Nat /\ a.capacity \in Nat /\ MaxCapacity \in Nat /\ PageCells * MaxPages \in Nat
        /\ a.memory \in [Memory!Cells -> Held]
    BY ArenaAssumption DEF Arenas
  <2>4. \A i \in 0..(a.capacity - 1) : a.ptr + i \in Memory!Cells
    BY <2>2, <2>3 DEF Memory!Cells
  <2>5. /\ n \in Arenas /\ n.trapped = a.trapped /\ n.active = a.active /\ n.capacity = a.capacity /\ n.ptr = a.ptr
        /\ n.memory = [a.memory EXCEPT ![a.ptr + index] = value]
    BY <2>3 DEF Arenas, Held
  <2> HIDE DEF n, b
  <2>6. means = [i \in 0..(a.capacity - 1) |-> a.memory[a.ptr + i]]
    BY <2>2 DEF Memory!Contents
  <2>7. Memory!Contents(n) = [i \in 0..(a.capacity - 1) |-> n.memory[n.ptr + i]]
    BY <2>2, <2>5 DEF Memory!Contents
  <2>8. \A i \in 0..(a.capacity - 1) :
          n.memory[n.ptr + i] = IF i = index THEN value ELSE a.memory[a.ptr + i]
    <3> DEFINE m == a.memory  p == a.ptr
    <3>1. m \in [Memory!Cells -> Held] /\ p \in Nat /\ n.ptr = p /\ n.memory = [m EXCEPT ![p + index] = value]
      BY <2>3, <2>5
    <3>2. \A i \in 0..(a.capacity - 1) : p + i \in Memory!Cells /\ (p + i = p + index <=> i = index)
      BY <2>3, <2>4
    <3> HIDE DEF m, p
    <3>3. \A i \in 0..(a.capacity - 1) : [m EXCEPT ![p + index] = value][p + i] = IF i = index THEN value ELSE m[p + i]
      BY <3>1, <3>2
    <3> QED
      BY <3>1, <3>3 DEF m, p
  <2>9. kept = [i \in 0..(a.capacity - 1) |-> IF i = index THEN value ELSE a.memory[a.ptr + i]]
    BY <2>6
  <2> HIDE DEF kept
  <2>10. Memory!Contents(n) = kept
    BY <2>7, <2>8, <2>9
  <2>11. Fits(n)
    BY <2>2, <2>5 DEF Fits
  <2>12. Own(n, kept)
    BY <2>10, <2>11 DEF Own
  <2> QED
    BY <2>1, <2>5, <2>12 DEF b, kept
<1> QED
  BY <1>1, <1>2

RunOwn(run) == run.arena \in Arenas /\ Own(run.arena, run.means)

\* One operation of a call.
LEMMA PerformsOwn ==
  ASSUME NEW run, RunOwn(run), NEW op \in Memory!Ops, NEW number \in Nat
  PROVE  RunOwn(Memory!Performs(run, op, number))
<1> DEFINE a == run.arena
           b == Memory!Does(a, op, number)
           means == Memory!Means(run.means, op, number)
<1>1. a \in Arenas /\ Own(a, run.means)
  BY DEF RunOwn
<1>2. /\ Memory!Performs(run, op, number).arena = b
      /\ Memory!Performs(run, op, number).means = means
  BY DEF Memory!Performs
<1>3. b \in Arenas /\ Own(b, means)
  <2> HIDE DEF a
  <2>1. CASE op[1] = "begin" /\ op[2] \in 1..MaxCapacity
    <3>1. b = Memory!begin(a, op[2]) /\ means = [i \in 0..(op[2] - 1) |-> 0]
      BY <2>1 DEF Memory!Does, Memory!Means
    <3> HIDE DEF b, means
    <3> QED
      BY <1>1, <2>1, <3>1, BeginOwn
  <2>2. CASE op[1] = "finish"
    <3>1. b = Memory!finish(a, op[2]) /\ means = Memory!NoBuffer
      BY <2>2 DEF Memory!Does, Memory!Means
    <3> HIDE DEF b, means
    <3> QED
      BY <1>1, <3>1, FinishOwn
  <2>3. CASE op[1] = "set" /\ op[2] \in Nat
    <3>1. b = Memory!set(a, a.capacity, op[2], number) /\ means = [run.means EXCEPT ![op[2]] = number]
      BY <2>3 DEF Memory!Does, Memory!Means
    <3> HIDE DEF b, means
    <3> QED
      BY <1>1, <2>3, <3>1, SetOwn
  <2>4. \/ op[1] = "begin" /\ op[2] \in 1..MaxCapacity
        \/ op[1] = "finish"
        \/ op[1] = "set" /\ op[2] \in Nat
    BY ArenaAssumption DEF Memory!Ops
  <2> QED
    BY <2>1, <2>2, <2>3, <2>4
<1> HIDE DEF a, b, means
<1> QED
  BY <1>2, <1>3 DEF RunOwn

LEMMA LeastElement ==
  ASSUME NEW T \in SUBSET Nat, T # {}
  PROVE  \E m \in T : \A k \in T : m <= k
<1>1. PICK m \in T : \A k \in T : ~ (<<k, m>> \in OpToRel(<, Nat))
  BY NatLessThanWellFounded, WFMin
<1>2. \A k \in T : ~ (k < m)
  BY <1>1 DEF OpToRel
<1> QED
  BY <1>2

\* What holds of 0 and passes on holds up to n.
LEMMA PassesOn ==
  ASSUME NEW n \in Nat, NEW P \in SUBSET (0..n), 0 \in P, \A k \in 1..n : k - 1 \in P => k \in P
  PROVE  n \in P
<1> DEFINE T == (0..n) \ P
<1>1. T = {}
  <2> SUFFICES ASSUME T # {} PROVE FALSE
    OBVIOUS
  <2>1. PICK m \in T : \A k \in T : m <= k
    <3>1. T \in SUBSET Nat
      OBVIOUS
    <3> HIDE DEF T
    <3> QED
      BY <3>1, LeastElement
  <2>2. m \in 1..n /\ m - 1 \in 0..n
    BY <2>1
  <2>3. m - 1 \in P
    BY <2>1, <2>2
  <2> QED
    BY <2>1, <2>2, <2>3
<1> QED
  BY <1>1

\* Buffer64: every call, whatever its operations, traps or reads what it set itself.
THEOREM ReadsOwn == Memory!ReadsItsOwn
<1> SUFFICES ASSUME NEW program \in [1..ProgramLength -> Memory!Ops]
             PROVE  RunOwn(Memory!Runs(program))
  BY DEF Memory!ReadsItsOwn, RunOwn, Own
<1> DEFINE N == ProgramLength
           start == [arena |-> Memory!reset, means |-> Memory!NoBuffer]
           next(run, k) == Memory!Performs(run, program[k], k)
           Body(g) == [k \in 0..N |-> IF k = 0 THEN start ELSE next(g[k - 1], k)]
           Traced(g, m) == /\ DOMAIN g = 0..m /\ g[0] = start
                           /\ \A k \in 1..m : g[k] = next(g[k - 1], k)
           P == {m \in 0..N : \E g : Traced(g, m)}
<1>1. N \in Nat
  BY ArenaAssumption
<1> HIDE DEF start, next, N
<1>2. 0 \in P
  <2>1. Traced([k \in 0..0 |-> start], 0)
    OBVIOUS
  <2> HIDE DEF Traced
  <2> QED
    BY <1>1, <2>1
<1>3. ASSUME NEW m \in 1..N, m - 1 \in P
      PROVE  m \in P
  <2>1. PICK g : Traced(g, m - 1)
    BY <1>3
  <2> DEFINE h == [k \in 0..m |-> IF k = m THEN next(g[m - 1], m) ELSE g[k]]
  <2>2. m \in Nat /\ m # 0 /\ m \in 0..N
    BY <1>1
  <2>3. ASSUME NEW k \in 1..m
        PROVE  h[k] = next(h[k - 1], k)
    <3>1. k - 1 \in 0..m /\ k - 1 # m /\ k \in 0..m
      BY <2>2
    <3>2. h[k - 1] = g[k - 1]
      BY <3>1
    <3>3. CASE k = m
      BY <3>1, <3>2, <3>3
    <3>4. CASE k # m
      BY <2>1, <2>2, <3>1, <3>2, <3>4
    <3> QED
      BY <3>3, <3>4
  <2>4. Traced(h, m)
    <3>1. DOMAIN h = 0..m /\ h[0] = start
      BY <2>1, <2>2
    <3> HIDE DEF h
    <3> QED
      BY <2>3, <3>1
  <2> HIDE DEF Traced
  <2> QED
    BY <2>2, <2>4
<1>4. PICK g : Traced(g, N)
  <2>1. P \in SUBSET (0..N)
    OBVIOUS
  <2> HIDE DEF P
  <2>2. N \in P
    BY <1>1, <1>2, <1>3, <2>1, PassesOn
  <2> QED
    BY <2>2 DEF P
<1>5. \E f : f = Body(f)
  <2> DEFINE f == [k \in 0..N |-> g[k]]
  <2>1. f = Body(f)
    BY <1>1, <1>4
  <2> HIDE DEF f, Body
  <2> QED
    BY <2>1
<1> DEFINE after == CHOOSE f : f = Body(f)
<1>6. after = Body(after)
  <2> HIDE DEF Body
  <2> QED
    BY <1>5
<1>7. Memory!Runs(program) = after[N]
  BY DEF Memory!Runs, start, next, N
<1> HIDE DEF after
<1> DEFINE Q == {k \in 0..N : RunOwn(after[k])}
<1>8. 0 \in Q
  <2>1. after[0] = start
    BY <1>1, <1>6
  <2> QED
    BY <1>1, <2>1, ResetOwn DEF RunOwn, start
<1>9. ASSUME NEW k \in 1..N, k - 1 \in Q
      PROVE  k \in Q
  <2>1. after[k] = next(after[k - 1], k) /\ k \in 0..N /\ k \in Nat
    BY <1>1, <1>6
  <2>2. program[k] \in Memory!Ops
    BY DEF N
  <2> QED
    BY <1>9, <2>1, <2>2, PerformsOwn DEF next
<1>10. N \in Q
  <2>1. Q \in SUBSET (0..N)
    OBVIOUS
  <2> HIDE DEF Q
  <2> QED
    BY <1>1, <1>8, <1>9, <2>1, PassesOn
<1> QED
  BY <1>7, <1>10

\* A call's buffer of c values, that hold what they are meant to.
Opened(a, c, means) == a \in Arenas /\ ~a.trapped /\ Memory!Live(a, c) /\ Own(a, means)

\* A buffer that nothing was set in.
Zeros(c) == [i \in 0..(c - 1) |-> 0]

\* Cells within the pages are on pages that the host grants.
LEMMA PagesEnough ==
  ASSUME NEW cells \in Nat, cells <= PageCells * MaxPages
  PROVE  Memory!Pages(cells) <= MaxPages
<1> DEFINE x == cells + PageCells - 1
           q == x \div PageCells
<1>1. PageCells \in Nat \ {0} /\ MaxPages \in Nat /\ x \in Nat /\ q = Memory!Pages(cells)
  BY ArenaAssumption DEF Memory!Pages
<1>2. q \in Nat /\ x % PageCells \in 0..(PageCells - 1) /\ x = PageCells * q + (x % PageCells)
  BY <1>1, QuotientRemainder
<1> HIDE DEF q
<1>3. CASE q > MaxPages
  <2>1. PageCells * (MaxPages + 1) <= PageCells * q
    BY <1>1, <1>2, <1>3, ProductMonotone
  <2>2. PageCells * (MaxPages + 1) = PageCells * MaxPages + PageCells
    BY <1>1
  <2>3. PageCells * q \in Nat /\ PageCells * MaxPages \in Nat
    BY <1>1, <1>2
  <2> QED
    BY <1>1, <1>2, <2>1, <2>2, <2>3
<1> QED
  BY <1>1, <1>2, <1>3

\* begin, where there is room and no buffer is active.
LEMMA BeginOpens ==
  ASSUME NEW a \in Arenas, ~a.trapped, ~a.active, NEW c \in 1..MaxCapacity,
         a.cursor + c <= PageCells * MaxPages
  PROVE  Opened(Memory!begin(a, c), c, Zeros(c)) /\ Memory!begin(a, c).cursor = a.cursor + c
<1> DEFINE b == Memory!begin(a, c)
           m == Memory!Claimed(a, c)
<1>1. a.cursor \in Nat /\ a.cursor + c \in Nat /\ MaxCapacity \in Nat
  BY ArenaAssumption DEF Arenas
<1>2. ~a.trapped /\ Memory!CanBegin(a, c)
  BY <1>1, PagesEnough DEF Memory!CanBegin
<1>3. m.trapped = a.trapped /\ m.active = TRUE /\ m.capacity = c /\ m.cursor = a.cursor + c /\ m = [m EXCEPT !.ptr = @]
  BY DEF Memory!Claimed, Arenas
<1> DEFINE cells == [k \in Memory!Cells |-> IF k \in a.cursor..(a.cursor + c - 1) THEN 0 ELSE m.memory[k]]
<1>4. b = [m EXCEPT !.memory = cells]
  BY <1>2 DEF Memory!begin, Memory!Unless
<1>5. b.trapped = m.trapped /\ b.active = m.active /\ b.capacity = m.capacity /\ b.cursor = m.cursor
  BY <1>4 DEF Memory!Claimed, Arenas
<1>6. b \in Arenas /\ Own(b, Zeros(c))
  BY BeginOwn DEF Zeros
<1> HIDE DEF b, m, cells
<1>7. Opened(b, c, Zeros(c)) /\ b.cursor = a.cursor + c
  BY <1>2, <1>3, <1>5, <1>6 DEF Opened, Memory!Live
<1> QED
  BY <1>7 DEF b

\* set, within the buffer.
LEMMA SetOpens ==
  ASSUME NEW a, NEW c \in Nat, NEW means, Opened(a, c, means), NEW index \in Nat, index < c, NEW value \in Nat
  PROVE  Opened(Memory!set(a, c, index, value), c, [means EXCEPT ![index] = value])
<1> DEFINE b == Memory!set(a, c, index, value)
           n == [a EXCEPT !.memory[a.ptr + index] = value]
<1>1. a \in Arenas /\ ~a.trapped /\ Memory!Live(a, c) /\ Own(a, means) /\ a.active /\ a.capacity = c
  BY DEF Opened, Memory!Live
<1>2. b = n
  BY <1>1 DEF Memory!set, Memory!Unless
<1>3. n.trapped = a.trapped /\ n.active = a.active /\ n.capacity = a.capacity
  BY <1>1 DEF Arenas
<1>4. b \in Arenas /\ Own(b, [means EXCEPT ![index] = value])
  BY <1>1, SetOwn
<1> HIDE DEF b, n
<1>5. Opened(b, c, [means EXCEPT ![index] = value])
  BY <1>1, <1>2, <1>3, <1>4 DEF Opened, Memory!Live
<1> QED
  BY <1>5 DEF b

\* get, within the buffer.
LEMMA GetReads ==
  ASSUME NEW a, NEW c \in Nat, NEW means, Opened(a, c, means), NEW index \in Nat, index < c
  PROVE  LET b == Memory!get(a, c, index) IN ~b.trapped /\ b.got = means[index]
<1> DEFINE b == Memory!get(a, c, index)
<1>1. a \in Arenas /\ ~a.trapped /\ Memory!Live(a, c) /\ Own(a, means) /\ a.active /\ a.capacity = c
  BY DEF Opened, Memory!Live
<1>2. b = [a EXCEPT !.got = a.memory[a.ptr + index]]
  BY <1>1 DEF Memory!get, Memory!Unless
<1>3. b.trapped = a.trapped /\ b.got = a.memory[a.ptr + index]
  BY <1>1, <1>2 DEF Arenas
<1>4. means = [i \in 0..(c - 1) |-> a.memory[a.ptr + i]]
  BY <1>1 DEF Own, Memory!Contents
<1>5. index \in 0..(c - 1)
  OBVIOUS
<1> HIDE DEF b
<1>6. means[index] = a.memory[a.ptr + index]
  BY <1>4, <1>5
<1> QED
  BY <1>1, <1>3, <1>6 DEF b

\* finish, of the buffer that is active.
LEMMA FinishCloses ==
  ASSUME NEW a, NEW c, NEW means, Opened(a, c, means)
  PROVE  LET b == Memory!finish(a, c) IN b \in Arenas /\ ~b.trapped /\ ~b.active /\ b.cursor = a.cursor
<1> DEFINE b == Memory!finish(a, c)
<1>1. a \in Arenas /\ ~a.trapped /\ Memory!Live(a, c)
  BY DEF Opened
<1>2. b = [a EXCEPT !.ptr = 0, !.capacity = 0, !.active = FALSE]
  BY <1>1 DEF Memory!finish, Memory!Unless
<1>3. b.trapped = a.trapped /\ b.active = FALSE /\ b.cursor = a.cursor
  BY <1>1, <1>2 DEF Arenas
<1>4. b \in Arenas
  BY <1>1, FinishOwn
<1> HIDE DEF b
<1> QED
  BY <1>1, <1>3, <1>4 DEF b

\* get beyond the buffer, of one of another capacity, or of none; begin while one is active.
LEMMA GuardsTrap ==
  ASSUME NEW a \in Arenas, NEW c \in Nat
  PROVE  /\ \A index \in Nat : ~Memory!Live(a, c) \/ index >= c => Memory!get(a, c, index).trapped
         /\ a.active => Memory!begin(a, c).trapped
<1>1. ASSUME NEW index \in Nat, ~Memory!Live(a, c) \/ index >= c
      PROVE  Memory!get(a, c, index).trapped
  <2>1. ~(index < c /\ index >= c)
    OBVIOUS
  <2>2. Memory!get(a, c, index) = [a EXCEPT !.trapped = TRUE]
    BY <1>1, <2>1 DEF Memory!get, Memory!Unless
  <2> QED
    BY <2>2, TrapTyped
<1>2. ASSUME a.active PROVE Memory!begin(a, c).trapped
  <2>1. Memory!begin(a, c) = [a EXCEPT !.trapped = TRUE]
    BY <1>2 DEF Memory!begin, Memory!Unless, Memory!CanBegin
  <2> QED
    BY <2>1, TrapTyped
<1> QED
  BY <1>1, <1>2

\* Room for two of the largest buffers, and for the places the contract writes.
ArenaRoomy == MaxCapacity >= 4 /\ ArenaBase + 2 * MaxCapacity <= PageCells * MaxPages

\* The first buffer of a call.
LEMMA FirstOpens ==
  ASSUME ArenaRoomy, NEW c \in 1..MaxCapacity
  PROVE  /\ Opened(Memory!begin(Memory!reset, c), c, Zeros(c))
         /\ Memory!begin(Memory!reset, c).cursor = ArenaBase + c
<1>1. Memory!reset \in Arenas /\ ~Memory!reset.trapped
  BY ResetOwn
<1>2. ~Memory!reset.active /\ Memory!reset.cursor = ArenaBase
  BY DEF Memory!reset
<1>3. ArenaBase \in Nat /\ MaxCapacity \in Nat /\ PageCells * MaxPages \in Nat
  BY ArenaAssumption
<1>4. Memory!reset.cursor + c <= PageCells * MaxPages
  BY <1>2, <1>3 DEF ArenaRoomy
<1> QED
  BY <1>1, <1>2, <1>4, BeginOpens

\* NearMemory's views: what is set is read back, and the rest is zero.
LEMMA MemoryAnswers ==
  ASSUME ArenaRoomy, NEW value \in Nat
  PROVE  /\ Memory!Verdict("roundTrip", value) = "ok" /\ Memory!View("roundTrip", value) = value
         /\ Memory!Verdict("startsZero", value) = "ok" /\ Memory!View("startsZero", value) = 0
         /\ Memory!Verdict("growAndReuse", value) = "ok" /\ Memory!View("growAndReuse", value) = value
<1>1. MaxCapacity \in Nat /\ 4 \in 1..MaxCapacity /\ MaxCapacity \in 1..MaxCapacity /\ MaxCapacity - 1 \in Nat
  BY ArenaAssumption DEF ArenaRoomy
<1>2. ArenaBase \in Nat /\ PageCells * MaxPages \in Nat
  BY ArenaAssumption
<1> DEFINE a == Memory!begin(Memory!reset, 4)
           b == Memory!set(a, 4, 2, value)
           c == Memory!get(b, 4, 2)
           d == Memory!get(a, 4, 3)
           four == [Zeros(4) EXCEPT ![2] = value]
<1>3. Opened(a, 4, Zeros(4))
  BY <1>1, FirstOpens
<1>4. c = Memory!Ends("roundTrip", value) /\ d = Memory!Ends("startsZero", value)
  BY DEF Memory!Ends
<1>5. Zeros(4)[3] = 0 /\ four[2] = value
  BY DEF Zeros
<1> HIDE DEF a
<1>6. ~d.trapped /\ d.got = 0
  BY <1>3, <1>5, GetReads
<1>7. Opened(b, 4, four)
  BY <1>3, SetOpens
<1> HIDE DEF b, four
<1>8. ~c.trapped /\ c.got = value
  BY <1>5, <1>7, GetReads
<1> HIDE DEF c, d
<1> DEFINE m == MaxCapacity
           e == Memory!begin(Memory!reset, m)
           f == Memory!finish(e, m)
           g == Memory!begin(f, m)
           h == Memory!set(g, m, m - 1, value)
           i == Memory!get(h, m, m - 1)
           full == [Zeros(m) EXCEPT ![m - 1] = value]
<1>9. i = Memory!Ends("growAndReuse", value)
  BY DEF Memory!Ends, Memory!Full
<1>10. Opened(e, m, Zeros(m)) /\ e.cursor = ArenaBase + m
  BY <1>1, FirstOpens
<1> HIDE DEF e
<1>11. f \in Arenas /\ ~f.trapped /\ ~f.active /\ f.cursor = ArenaBase + m
  BY <1>10, FinishCloses
<1> HIDE DEF f
<1>12. f.cursor + m <= PageCells * MaxPages
  BY <1>1, <1>2, <1>11 DEF ArenaRoomy
<1>13. Opened(g, m, Zeros(m))
  BY <1>1, <1>11, <1>12, BeginOpens
<1> HIDE DEF g
<1>14. full[m - 1] = value
  BY <1>1 DEF Zeros
<1>15. m - 1 \in Nat /\ m - 1 < m /\ m \in Nat
  BY <1>1
<1>16. Opened(h, m, full)
  BY <1>13, <1>15, SetOpens
<1> HIDE DEF h, full, m
<1>17. ~i.trapped /\ i.got = value
  BY <1>14, <1>15, <1>16, GetReads
<1> HIDE DEF i
<1> QED
  BY <1>4, <1>6, <1>8, <1>9, <1>17 DEF Memory!Verdict, Memory!View

\* The uses of a buffer that the gate expects to fail.
LEMMA MemoryTraps ==
  ASSUME ArenaRoomy, NEW method \in {"outOfBounds", "staleHandle", "wrongCapacity", "doubleBegin"}
  PROVE  Memory!Verdict(method, 0) = "trap"
<1> DEFINE a == Memory!begin(Memory!reset, 2)
           b == Memory!finish(a, 2)
<1>1. 2 \in 1..MaxCapacity
  BY ArenaAssumption DEF ArenaRoomy
<1>2. Opened(a, 2, Zeros(2))
  BY <1>1, FirstOpens
<1>3. /\ Memory!Ends("outOfBounds", 0) = Memory!get(a, 2, 2)
      /\ Memory!Ends("staleHandle", 0) = Memory!get(b, 2, 0)
      /\ Memory!Ends("wrongCapacity", 0) = Memory!get(a, 1, 0)
      /\ Memory!Ends("doubleBegin", 0) = Memory!begin(a, 1)
  BY DEF Memory!Ends
<1> HIDE DEF a
<1>4. a \in Arenas /\ a.active /\ a.capacity = 2
  BY <1>2 DEF Opened, Memory!Live
<1>5. b \in Arenas /\ ~b.active
  BY <1>2, FinishCloses
<1> HIDE DEF b
<1>6. ~Memory!Live(b, 2) /\ ~Memory!Live(a, 1)
  BY <1>4, <1>5 DEF Memory!Live
<1>7. /\ Memory!get(a, 2, 2).trapped /\ Memory!get(b, 2, 0).trapped
      /\ Memory!get(a, 1, 0).trapped /\ Memory!begin(a, 1).trapped
  BY <1>4, <1>5, <1>6, GuardsTrap
<1> QED
  BY <1>3, <1>7 DEF Memory!Verdict
=============================================================================
