------------------------------- MODULE NearStorage -------------------------------
(***************************************************************************)
(* ResultBuffer and the contract NearStorage: byte strings under three     *)
(* keys, and a host register that a call copies into its buffer only when  *)
(* the value fits.                                                         *)
(***************************************************************************)
EXTENDS FlatStorage, Sequences

binaryKey == <<"binary", 0>>
missingKey == <<"missing", 0>>
emptyKey == <<"", 0>>
maximumIdentityKey == <<"PFID", 64>>

\* What the register holds after a storage call that found the value, or none.
Hit(s, key) == [status |-> status(s, key), bytes |-> read(s, key, <<>>)]

fits(register, capacity) == Len(register.bytes) <= capacity

\* A lane of the buffer: zero after a miss, beyond the value, or when the value did not fit.
byte(register, capacity, index) ==
  IF fits(register, capacity) /\ index < Len(register.bytes)
  THEN register.bytes[index + 1] ELSE 0

Bounded(bytes) == Len(bytes) <= 8

put(s, key, bytes) ==
  When(Bounded(bytes), s, Marked(write(s, key, bytes), status(s, key)))

\* The evicted value is what the register holds after a write or a removal.
putOldFirst(s, key, bytes) ==
  When(Bounded(bytes), s, Marked(write(s, key, bytes), byte(Hit(s, key), 8, 0)))

Run(s, method, arg) ==
  CASE method = "initialize" -> initialize(s, [key \in {Field("marker")} |-> 0])
    [] method = "put" -> put(s, binaryKey, arg)
    [] method = "putOldFirst" -> putOldFirst(s, binaryKey, arg)
    [] method = "putEmptyKey" -> put(s, emptyKey, arg)
    [] method = "putMaximumKey" -> put(s, maximumIdentityKey, arg)
    [] method = "remove" -> Marked(remove(s, binaryKey), status(s, binaryKey))
    [] method = "removeOldFirst" -> Marked(remove(s, binaryKey), byte(Hit(s, binaryKey), 8, 0))
    [] method = "removeMaximumKey" ->
         Marked(remove(s, maximumIdentityKey), status(s, maximumIdentityKey))

Flag(b) == IF b THEN 1 ELSE 0

View(s, method, arg) ==
  CASE method = "has" -> status(s, binaryKey)
    [] method = "hasEmptyKey" -> status(s, emptyKey)
    [] method = "hasMaximumKey" -> status(s, maximumIdentityKey)
    [] method \in {"readStatus", "readSmallStatus"} -> Hit(s, binaryKey).status
    [] method \in {"readLength", "readSmallLength"} -> Len(Hit(s, binaryKey).bytes)
    [] method = "readByte" -> byte(Hit(s, binaryKey), 8, arg)
    [] method = "readMaximumKeyByte" -> byte(Hit(s, maximumIdentityKey), 8, arg)
    [] method = "staleByteAfterMiss" -> byte(Hit(s, missingKey), 8, 0)
    [] method = "readSmallFits" -> Flag(fits(Hit(s, binaryKey), 4))
    [] method = "readSmallByte" -> byte(Hit(s, binaryKey), 4, arg)
==============================================================================
