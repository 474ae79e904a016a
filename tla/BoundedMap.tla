------------------------------- MODULE BoundedMap -------------------------------
(***************************************************************************)
(* What an iterable map promises: a map of at most Capacity keys.          *)
(***************************************************************************)
EXTENDS Naturals, FiniteSets

CONSTANTS Keys, Values, Capacity

VARIABLE contents

MapInit == contents = [k \in {} |-> 0]

Put(k, v) ==
  /\ k \in DOMAIN contents \/ Cardinality(DOMAIN contents) < Capacity
  /\ contents' = [j \in DOMAIN contents \cup {k} |-> IF j = k THEN v ELSE contents[j]]

Delete(k) ==
  /\ k \in DOMAIN contents
  /\ contents' = [j \in DOMAIN contents \ {k} |-> contents[j]]

MapNext == \E k \in Keys : Delete(k) \/ \E v \in Values : Put(k, v)

MapSpec == MapInit /\ [][MapNext]_contents
==============================================================================
