----------------------------- MODULE MCIterableMap -----------------------------
(***************************************************************************)
(* The capacity of NearIterable, a key more than fits, and two values.     *)
(***************************************************************************)
EXTENDS IterableMap

MCKeys == {1, 5, 7, 9}

MCValues == {100, 200}
==============================================================================
