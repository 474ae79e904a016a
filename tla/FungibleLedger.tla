---------------------------- MODULE FungibleLedger ----------------------------
(***************************************************************************)
(* The NEP-141/145 token contract Examples/Near/NearFungibleLedger.lean    *)
(* as one state machine.  A step is one receipt: it runs to its end, and a *)
(* handler that reaches ".error" panics, so that NEAR rolls the receipt    *)
(* back; only successful receipts are steps, except the private callback,  *)
(* whose panic still consumes the transfer call it belongs to.  Between    *)
(* the receipts of one ft_transfer_call any other receipt may run.         *)
(***************************************************************************)
EXTENDS AccountSums

CONSTANTS
  Self,            \* the contract's own account
  U128Max,         \* the largest token amount, 2^128 - 1 in the contract
  TransferAmounts, \* the amounts callers ask to transfer
  FixtureAmounts,  \* the amounts of the mint, burn and transfer entries: 1, 2^64, 2^128 - 1
  Deposits,        \* the deposits callers attach to storage_deposit
  StorageCost,     \* the price of an account's entry, (length + 64) * 1 yocto
  Funding,         \* the NEAR the contract was deployed with
  MaxEscrow,       \* bound of the runs on the storage deposits retained
  Calls,           \* ids of transfer calls in flight (bound of the runs)
  NoCall,          \* the call id is free
  Pending,         \* the receiver has not answered yet
  Invalid,         \* the receiver failed, or its answer is not a quoted u128
  Malformed        \* a stored value that is not 16 bytes

Amount == 0..U128Max

Results == Amount \cup {Invalid}

ASSUME ConstantsAssumption ==
  /\ Self \in Accounts
  /\ U128Max \in Nat \ {0}
  /\ TransferAmounts \subseteq Amount
  /\ FixtureAmounts \subseteq Amount
  /\ Deposits \subseteq Nat
  /\ StorageCost \in [Accounts -> Nat \ {0}]
  /\ Funding \in Nat
  /\ MaxEscrow \in Nat

ASSUME SentinelsAssumption ==
  /\ Malformed \notin Int
  /\ Pending \notin Results
  /\ Invalid \notin Int

VARIABLES
  supply,    \* supplyW0/supplyW1: the total supply
  balances,  \* the storage map BAL2, a partial function: a missing entry is an unregistered account
  escrow,    \* NEAR retained for storage less refunds; the security yoctos are not counted
  calls      \* transfer calls whose resolver callback has not run

vars == <<supply, balances, escrow, calls>>

\* A transfer to oneself is refused, so the parties of a call differ.
CallRecord ==
  {call \in [sender: Accounts, receiver: Accounts, amount: Amount, result: Results \cup {Pending}] :
     call.sender # call.receiver}

ASSUME NoCallAssumption == NoCall \notin CallRecord

-----------------------------------------------------------------------------
(***************************************************************************)
(* The snapshot helpers of Sdk/Fungible and the checked NearToken tests.   *)
(***************************************************************************)
ReadWasValidPresent(a) == a \in DOMAIN balances /\ balances[a] # Malformed

ReadWasMissing(a) == a \notin DOMAIN balances

LoadedValid(a) == ReadWasMissing(a) \/ ReadWasValidPresent(a)

Loaded(a) == IF a \in DOMAIN balances THEN balances[a] ELSE 0

CanAdd(x, y) == x + y <= U128Max

CanSub(x, y) == y <= x

Put(map, a, value) ==
  [x \in DOMAIN map \cup {a} |-> IF x = a THEN value ELSE map[x]]

Remove(map, a) == [x \in DOMAIN map \ {a} |-> map[x]]

\* A detached transfer is staged only if the contract's NEAR balance covers it.
CanPay(attached, refund) == escrow + Funding + attached >= refund

Settle(attached, refund) ==
  /\ CanPay(attached, refund)
  /\ escrow' = escrow + attached - refund

-----------------------------------------------------------------------------
(***************************************************************************)
(* Storage registration (NEP-145).                                         *)
(***************************************************************************)

\* What goes back to the caller: the excess over the entry's cost, or, for an
\* account registered already, everything.
DepositRefund(account, deposit) ==
  IF ReadWasMissing(account) THEN deposit - StorageCost[account] ELSE deposit

storage_depositOverMalformed(account, deposit) ==
  /\ ReadWasValidPresent(account) \/ deposit >= StorageCost[account]
  /\ balances' = IF ReadWasValidPresent(account) THEN balances ELSE Put(balances, account, 0)
  /\ Settle(deposit, DepositRefund(account, deposit))
  /\ UNCHANGED <<supply, calls>>

storage_deposit(account, deposit) ==
  /\ LoadedValid(account)
  /\ ReadWasMissing(account) =>
       /\ deposit >= StorageCost[account]
       /\ escrow + StorageCost[account] <= MaxEscrow   \* bound of the runs
  /\ balances' = IF ReadWasMissing(account) THEN Put(balances, account, 0) ELSE balances
  /\ Settle(deposit, DepositRefund(account, deposit))
  /\ UNCHANGED <<supply, calls>>

\* Removes the caller's entry; the attached yocto comes back with the cost.
storage_unregister(caller, force) ==
  /\ ReadWasValidPresent(caller)
  /\ balances[caller] = 0 \/ force
  /\ CanSub(supply, balances[caller])
  /\ supply' = supply - balances[caller]
  /\ balances' = Remove(balances, caller)
  /\ Settle(1, StorageCost[caller] + 1)
  /\ UNCHANGED calls

-----------------------------------------------------------------------------
(***************************************************************************)
(* Transfers (NEP-141).                                                    *)
(***************************************************************************)
DistinctPartiesSkipped(sender, receiver) == sender \in Accounts /\ receiver \in Accounts

DistinctParties(sender, receiver) == sender # receiver

MayReceiveUnregistered(receiver) == LoadedValid(receiver)

MayReceive(receiver) == ReadWasValidPresent(receiver)

TransferOk(sender, receiver, amount) ==
  /\ DistinctParties(sender, receiver)
  /\ amount # 0
  /\ ReadWasValidPresent(sender)
  /\ CanSub(balances[sender], amount)
  /\ MayReceive(receiver)
  /\ CanAdd(Loaded(receiver), amount)

\* Both balances are read before either is written; the sender's is written first.
Moved(sender, receiver, amount) ==
  Put(Put(balances, sender, balances[sender] - amount),
      receiver, Loaded(receiver) + amount)

ft_transfer(sender, receiver, amount) ==
  /\ TransferOk(sender, receiver, amount)
  /\ balances' = Moved(sender, receiver, amount)
  /\ UNCHANGED <<supply, escrow, calls>>

\* The transfer, and the receipts ft_on_transfer -> ft_resolve_transfer it schedules.
ft_transfer_call(c, sender, receiver, amount) ==
  /\ calls[c] = NoCall
  /\ TransferOk(sender, receiver, amount)
  /\ balances' = Moved(sender, receiver, amount)
  /\ calls' = [calls EXCEPT ![c] =
       [sender |-> sender, receiver |-> receiver, amount |-> amount, result |-> Pending]]
  /\ UNCHANGED <<supply, escrow>>

\* The receiver's answer, or that of the child promise it returned.  The ledger itself
\* exports no ft_on_transfer.
ft_on_transfer(c, result) ==
  /\ calls[c] # NoCall
  /\ calls[c].result = Pending
  /\ calls[c].receiver = Self => result = Invalid
  /\ calls' = [calls EXCEPT ![c].result = result]
  /\ UNCHANGED <<supply, balances, escrow>>

-----------------------------------------------------------------------------
(***************************************************************************)
(* The private callback ft_resolve_transfer.                               *)
(***************************************************************************)

\* The callback runs after the receiver's success and after its failure.
Delivered(c) == calls[c] # NoCall /\ calls[c].result # Pending

Lesser(x, y) == IF x <= y THEN x ELSE y

UnusedOnlyIfAnswered(call) ==
  IF call.result = Invalid THEN 0 ELSE Lesser(call.result, call.amount)

UnusedUnclamped(call) ==
  IF call.result = Invalid THEN call.amount ELSE call.result

\* The unused amount the receiver reports, at most what was transferred.
Unused(call) ==
  IF call.result = Invalid THEN call.amount ELSE Lesser(call.result, call.amount)

RefundIgnoringBalance(call) == Unused(call)

\* What the receiver can still give back of it.
Refund(call) == Lesser(Unused(call), Loaded(call.receiver))

ResolveOkSupplyUnchecked(call) ==
  /\ LoadedValid(call.receiver)
  /\ Refund(call) > 0 /\ ~ ReadWasMissing(call.sender) =>
       /\ ReadWasValidPresent(call.sender)
       /\ CanAdd(balances[call.sender], Refund(call))

\* The checks of the callback: a failing one panics.
ResolveOk(call) ==
  /\ LoadedValid(call.receiver)
  /\ Refund(call) > 0 =>
       \/ /\ ReadWasValidPresent(call.sender)
          /\ CanAdd(balances[call.sender], Refund(call))
       \/ /\ ReadWasMissing(call.sender)
          /\ CanSub(supply, Refund(call))

\* Both balances are read before either is written; the receiver's is written first.
Refunded(call) ==
  Put(Put(balances, call.receiver, balances[call.receiver] - Refund(call)),
      call.sender, balances[call.sender] + Refund(call))

Burned(call) == Put(balances, call.receiver, balances[call.receiver] - Refund(call))

ResolveToSender(call) ==
  /\ Refund(call) > 0
  /\ ReadWasValidPresent(call.sender)
  /\ balances' = Refunded(call)
  /\ UNCHANGED supply

ResolveByBurningSupplyKept(call) ==
  /\ Refund(call) > 0
  /\ ReadWasMissing(call.sender)
  /\ balances' = Burned(call)
  /\ UNCHANGED supply

\* The sender has unregistered meanwhile: the refund is burned.
ResolveByBurning(call) ==
  /\ Refund(call) > 0
  /\ ReadWasMissing(call.sender)
  /\ balances' = Burned(call)
  /\ supply' = supply - Refund(call)

ResolveNothing(call) ==
  /\ Refund(call) = 0
  /\ UNCHANGED <<supply, balances>>

ft_resolve_transfer(c) ==
  /\ Delivered(c)
  /\ ResolveOk(calls[c])
  /\ \/ ResolveToSender(calls[c])
     \/ ResolveByBurning(calls[c])
     \/ ResolveNothing(calls[c])
  /\ calls' = [calls EXCEPT ![c] = NoCall]
  /\ UNCHANGED escrow

\* A panicking callback is rolled back and never retried.
ResolverPanics(c) ==
  /\ Delivered(c)
  /\ ~ ResolveOk(calls[c])
  /\ calls' = [calls EXCEPT ![c] = NoCall]
  /\ UNCHANGED <<supply, balances, escrow>>

-----------------------------------------------------------------------------
(***************************************************************************)
(* The entries that bring tokens in and out without NEP-141: mintCaller*   *)
(* and mintSelf*, burnSelf*, transferCallerToSelf*.  They take no deposit, *)
(* accept a missing entry as zero and remove an entry that reaches zero.   *)
(***************************************************************************)
MintFitsBalanceOnly(owner, amount) == CanAdd(Loaded(owner), amount)

MintFits(owner, amount) ==
  /\ CanAdd(Loaded(owner), amount)
  /\ CanAdd(supply, amount)

mint(owner, amount) ==
  /\ LoadedValid(owner)
  /\ amount # 0
  /\ MintFits(owner, amount)
  /\ balances' = Put(balances, owner, Loaded(owner) + amount)
  /\ supply' = supply + amount
  /\ UNCHANGED <<escrow, calls>>

\* The entry less amount; an entry that reaches zero is removed.
Debited(owner, amount) ==
  IF Loaded(owner) = amount
  THEN Remove(balances, owner)
  ELSE Put(balances, owner, Loaded(owner) - amount)

burn(owner, amount) ==
  /\ LoadedValid(owner)
  /\ amount # 0
  /\ CanSub(Loaded(owner), amount)
  /\ CanSub(supply, amount)
  /\ balances' = Debited(owner, amount)
  /\ supply' = supply - amount
  /\ UNCHANGED <<escrow, calls>>

transfer(source, destination, amount) ==
  /\ source # destination
  /\ amount # 0
  /\ LoadedValid(source)
  /\ CanSub(Loaded(source), amount)
  /\ LoadedValid(destination)
  /\ CanAdd(Loaded(destination), amount)
  /\ balances' = Put(Debited(source, amount), destination, Loaded(destination) + amount)
  /\ UNCHANGED <<supply, escrow, calls>>

-----------------------------------------------------------------------------
\* The init entry: an empty map, no supply.
Init ==
  /\ supply = 0
  /\ balances = [a \in {} |-> 0]
  /\ escrow = 0
  /\ calls = [c \in Calls |-> NoCall]

StorageStep ==
  \/ \E account \in Accounts, deposit \in Deposits : storage_deposit(account, deposit)
  \/ \E caller \in Accounts, force \in BOOLEAN : storage_unregister(caller, force)

TransferStep ==
  \E sender, receiver \in Accounts, amount \in TransferAmounts :
    \/ ft_transfer(sender, receiver, amount)
    \/ \E c \in Calls : ft_transfer_call(c, sender, receiver, amount)

\* The receipts NEAR delivers on its own once a transfer call is scheduled.
Answer(c) == \E result \in Results : ft_on_transfer(c, result)

Resolve(c) == ft_resolve_transfer(c) \/ ResolverPanics(c)

MintStep ==
  \E amount \in FixtureAmounts :
    \/ \E owner \in Accounts : mint(owner, amount)
    \/ burn(Self, amount)
    \/ \E source \in Accounts : transfer(source, Self, amount)

Next ==
  \/ StorageStep
  \/ TransferStep
  \/ \E c \in Calls : Answer(c) \/ Resolve(c)
  \/ MintStep

Spec == Init /\ [][Next]_vars

-----------------------------------------------------------------------------
(***************************************************************************)
(* Properties.                                                             *)
(***************************************************************************)

\* Every stored value is a u128 and every call in flight is well formed: no
\* handler writes a negative or oversized balance.
TypeOK ==
  /\ supply \in Amount
  /\ DOMAIN balances \subseteq Accounts
  /\ \A a \in DOMAIN balances : balances[a] \in Amount
  /\ escrow \in Int
  /\ calls \in [Calls -> CallRecord \cup {NoCall}]

Holding == [a \in Accounts |-> Loaded(a)]

\* The total supply the contract reports is the sum of the balances it stores, in
\* whatever order transfers, refunds, removals and mints interleave.
Conservation == supply = SumOver(Holding)

\* When the receiver has answered, no check of the callback can fail: neither the
\* refund addition nor the supply subtraction can overflow, so no refund is lost.
ResolverNeverPanics == \A c \in Calls : Delivered(c) => ResolveOk(calls[c])

\* The cost of the stored entries that no deposit has paid.
Uncovered ==
  SumOver([a \in Accounts |-> IF a \in DOMAIN balances THEN StorageCost[a] ELSE 0]) - escrow

\* Every handler but the mint, burn and transfer entries keeps storage paid for: an entry
\* appears only with its cost retained and disappears only with its cost refunded; a
\* refund or a transfer never brings an unregistered account back.
StoragePaidExactly == [][MintStep \/ Uncovered' = Uncovered]_vars

\* A removal refunds what a registration retained: the contract never pays storage
\* refunds out of its own funds.
RefundsOnlyRetained == escrow >= 0
==============================================================================
