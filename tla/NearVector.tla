------------------------------- MODULE NearVector -------------------------------
(***************************************************************************)
(* DirectVector64 and the contract NearVector: the elements under          *)
(* VEC1 || index, the length in the contract's state.                      *)
(***************************************************************************)
EXTENDS FlatStorage

CONSTANT Capacity

length(s) == s[Field("length")]

elementKey(index) == <<"VEC1", index>>

contains(s, index) == length(s) <= Capacity /\ index < length(s)

canPush(s) == length(s) < Capacity

getD(s, index, fallback) ==
  IF contains(s, index) THEN read(s, elementKey(index), fallback) ELSE fallback

Resized(s, n) == Returns(write(write(s, Field("length"), n), Field("marker"), n), n)

push(s, value) ==
  When(canPush(s), s, Resized(write(s, elementKey(length(s)), value), length(s) + 1))

setFirst(s, value) == When(contains(s, 0), s, Marked(write(s, elementKey(0), value), value))

PoppedKept(s) == s

Popped(s) == remove(s, elementKey(length(s) - 1))

\* length - 1 wraps when the vector is empty, and is then no index.
pop(s) == When(length(s) # 0 /\ length(s) <= Capacity, s, Resized(Popped(s), length(s) - 1))

Run(s, method, arg) ==
  CASE method = "initialize" ->
         initialize(s, [key \in {Field("length"), Field("marker")} |-> 0])
    [] method = "push" -> push(s, arg)
    [] method = "setFirst" -> setFirst(s, arg)
    [] method = "pop" -> pop(s)

View(s, method, arg) ==
  CASE method = "get" -> length(s)
    [] method = "getAt" -> getD(s, arg, 0)

-----------------------------------------------------------------------------
\* The keys of the elements are those of the indices below the length.
Dense(s) == {k \in DOMAIN s : k[1] = "VEC1"} = {elementKey(i) : i \in 0..(length(s) - 1)}
==============================================================================
