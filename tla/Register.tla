-------------------------------- MODULE Register --------------------------------
(***************************************************************************)
(* What a deployed counter promises whatever code is deployed over it: a   *)
(* number that is set once and afterwards only grows by additions that fit *)
(* in 64 bits.                                                             *)
(***************************************************************************)
EXTENDS Naturals

CONSTANTS Ceiling, Unset

VARIABLE number

RegisterInit == number = Unset

SetOnce(n) == number = Unset /\ number' = n

Add(n) ==
  /\ number # Unset
  /\ number + n <= Ceiling
  /\ number' = number + n

RegisterNext == \E n \in 0..Ceiling : SetOnce(n) \/ Add(n)

RegisterSpec == RegisterInit /\ [][RegisterNext]_number
==============================================================================
