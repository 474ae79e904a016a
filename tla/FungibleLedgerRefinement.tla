----------------------- MODULE FungibleLedgerRefinement -----------------------
(***************************************************************************)
(* The token contract implements TokenLedger: an unregistered account and  *)
(* a present zero both hold nothing, the entries of the storage map are    *)
(* the accounts, the supply counter and the storage deposits disappear,    *)
(* and a transfer call in flight is a claim.                               *)
(***************************************************************************)
EXTENDS FungibleLedger

Abstract == INSTANCE TokenLedger
  WITH Ceiling <- U128Max, NoClaim <- NoCall, Unanswered <- Pending, Unreadable <- Invalid,
       holding <- Holding, accounts <- DOMAIN balances, claims <- calls

\* Every receipt is a step of the abstract ledger or invisible to it: in particular a transfer
\* call is settled once, for exactly what the receiver left unused as far as it still holds it.
\* A receiver that fails or answers no quoted u128 has used nothing, whatever other receipts did
\* before its callback; what is given back is destroyed only if the sender has unregistered
\* (ft_transfer_call, ft_on_transfer and ft_resolve_transfer).
ImplementsTokenLedger == Abstract!TokenSpec
==============================================================================
