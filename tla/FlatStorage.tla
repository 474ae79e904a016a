------------------------------ MODULE FlatStorage ------------------------------
(***************************************************************************)
(* The storage of one account, as the contracts see it through a result    *)
(* buffer: a partial function from keys <<prefix, suffix>> to values.  A   *)
(* field of the contract's state is the key <<field, 0>>.  A call answers  *)
(* with a verdict, the storage it leaves and a value; one that traps       *)
(* leaves the storage it found.                                            *)
(***************************************************************************)
EXTENDS Naturals

Field(name) == <<name, 0>>

Empty == [key \in {} |-> 0]

\* The status of read, write, remove and has_key: 1 if the key was there.
status(s, key) == IF key \in DOMAIN s THEN 1 ELSE 0

read(s, key, fallback) == IF key \in DOMAIN s THEN s[key] ELSE fallback

write(s, key, value) == [k \in DOMAIN s \cup {key} |-> IF k = key THEN value ELSE s[k]]

remove(s, key) == [k \in DOMAIN s \ {key} |-> s[k]]

Returns(s, value) == [verdict |-> "ok", storage |-> s, value |-> value]

Trap(s) == [verdict |-> "trap", storage |-> s, value |-> 0]

\* The call ends with the outcome if the guard holds, in an error otherwise.
When(guard, s, outcome) == IF guard THEN outcome ELSE Trap(s)

\* The state field that holds what the last call returned.
Marked(s, value) == Returns(write(s, Field("marker"), value), value)

\* The wrapper of `initialize`: it refuses when the STATE key or a field is there.
initialize(s, fields) ==
  When(\A key \in {Field("STATE")} \cup DOMAIN fields : key \notin DOMAIN s, s,
       Returns([k \in DOMAIN fields \cup {Field("STATE")} |->
                  IF k \in DOMAIN fields THEN fields[k] ELSE 1], 0))
==============================================================================
