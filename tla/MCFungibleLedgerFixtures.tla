----------------------- MODULE MCFungibleLedgerFixtures -----------------------
(***************************************************************************)
(* A small instance of FungibleLedgerFixtures.                             *)
(***************************************************************************)
EXTENDS FungibleLedgerFixtures, TLC

CONSTANTS alice, bob, ledger, c1

\* Every entry costs one yocto.
MCStorageCost == [a \in Accounts |-> 1]

\* The two users are interchangeable.
MCSymmetry == Permutations({alice, bob})
==============================================================================
