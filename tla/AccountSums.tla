----------------------------- MODULE AccountSums -----------------------------
(***************************************************************************)
(* Sums of an integer-valued function over the finite set of accounts.     *)
(* The sum runs along one fixed enumeration of the accounts, so that it is *)
(* a recursive function over an interval: that is what the proofs in       *)
(* FungibleLedgerProofs need, and its value does not depend on the         *)
(* enumeration (SumUpdate there).                                          *)
(***************************************************************************)
EXTENDS Integers, FiniteSets

CONSTANT Accounts    \* the account ids that ever touch the contract

ASSUME AccountsFinite == IsFiniteSet(Accounts)

AccountCount == Cardinality(Accounts)

\* A listing of the accounts without repetition.
Listing ==
  CHOOSE e \in [1..AccountCount -> Accounts] :
    /\ \A a \in Accounts : \E i \in 1..AccountCount : e[i] = a
    /\ \A i, j \in 1..AccountCount : e[i] = e[j] => i = j

\* The partial sums of f along the listing.
PartialSums(f) ==
  LET s[i \in 0..AccountCount] == IF i = 0 THEN 0 ELSE s[i - 1] + f[Listing[i]]
  IN  s

SumOver(f) == PartialSums(f)[AccountCount]
==============================================================================
