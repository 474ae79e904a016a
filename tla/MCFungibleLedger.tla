--------------------------- MODULE MCFungibleLedger ---------------------------
(***************************************************************************)
(* A small instance of FungibleLedger, and its refinement of TokenLedger.  *)
(***************************************************************************)
EXTENDS FungibleLedgerRefinement, TLC

CONSTANTS alice, bob, ledger, c1, c2

\* Every entry costs one yocto.
MCStorageCost == [a \in Accounts |-> 1]

\* Call ids and the two users are interchangeable.
MCSymmetry == Permutations({alice, bob}) \cup Permutations(Calls)
==============================================================================
