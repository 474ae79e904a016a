------------------------------ MODULE NearTreeMap ------------------------------
(***************************************************************************)
(* The contract NearTreeMap: a sorted vector of keys under TRM1 || v and a *)
(* lookup from each key to its value and its index under TRM1 || m.  A put *)
(* takes two calls: putKey leaves the key in the contract's state, putValue *)
(* appends it.  Only the last, largest key can be removed.                 *)
(***************************************************************************)
EXTENDS FlatStorage

CONSTANT Capacity

length(s) == s[Field("length")]

pendingKey(s) == s[Field("pendingKey")]

elementKey(index) == <<"TRMv", index>>

lookupKey(key) == <<"TRMm", key>>

lookupValue(value, index) == [value |-> value, index |-> index]

State(s, marker, n, pending) ==
  write(write(write(s, Field("marker"), marker), Field("length"), n), Field("pendingKey"), pending)

putKey(s, key) == When(key # 0, s, Returns(write(s, Field("pendingKey"), key), key))

AboveTailUnchecked(s, key) == TRUE

\* The key sorts after the last one.
AboveTail(s, key) ==
  \/ length(s) = 0
  \/ elementKey(length(s) - 1) \in DOMAIN s /\ s[elementKey(length(s) - 1)] < key

CanAppend(s, key) ==
  /\ key # 0
  /\ lookupKey(key) \notin DOMAIN s
  /\ length(s) < Capacity
  /\ AboveTail(s, key)

putValue(s, value) ==
  LET key == pendingKey(s)
      n == length(s)
  IN  When(CanAppend(s, key), s,
           Returns(State(write(write(s, elementKey(n), key), lookupKey(key), lookupValue(value, n)),
                         n, n + 1, 0), n))

IsTail(s, key) == s[lookupKey(key)].index + 1 = length(s)

\* An absent key is no error: only the marker is written.
removeTail(s, key) ==
  IF lookupKey(key) \notin DOMAIN s THEN Marked(s, 0)
  ELSE LET n == length(s) - 1 IN
       When(IsTail(s, key), s,
            Returns(State(remove(remove(s, lookupKey(key)), elementKey(n)), n, n, 0), n))

Run(s, method, arg) ==
  CASE method = "initialize" ->
         initialize(s, [key \in {Field("marker"), Field("length"), Field("pendingKey")} |->
                          IF key = Field("marker") THEN arg ELSE 0])
    [] method = "putKey" -> putKey(s, arg)
    [] method = "putValue" -> putValue(s, arg)
    [] method = "removeTail" -> removeTail(s, arg)

View(s, method, arg) ==
  CASE method = "get" -> length(s)
    [] method = "has" -> status(s, lookupKey(arg))
    [] method = "getValue" -> IF lookupKey(arg) \in DOMAIN s THEN s[lookupKey(arg)].value ELSE 0
    [] method = "keyAt" -> IF arg < length(s) THEN read(s, elementKey(arg), 0) ELSE 0

-----------------------------------------------------------------------------
Indices(s) == 0..(length(s) - 1)

keyAt(s, index) == s[elementKey(index)]

\* The vector has a key for every index below the length and no other, its keys ascend, and the
\* lookup is its inverse.
Sorted(s) ==
  /\ {k \in DOMAIN s : k[1] = "TRMv"} = {elementKey(i) : i \in Indices(s)}
  /\ \A i, j \in Indices(s) : i < j => keyAt(s, i) < keyAt(s, j)
  /\ {k \in DOMAIN s : k[1] = "TRMm"} = {lookupKey(keyAt(s, i)) : i \in Indices(s)}
  /\ \A i \in Indices(s) : s[lookupKey(keyAt(s, i))].index = i
==============================================================================
