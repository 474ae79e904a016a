------------------------ MODULE NearStorageRegistration ------------------------
(***************************************************************************)
(* The contract NearStorageRegistration: an account is registered by a     *)
(* balance under BAL2 || account, pays for the bytes of that entry at the  *)
(* price the contract was initialised with, and gets them back when it     *)
(* unregisters.  An amount is two words of base Limb.  A call ends in      *)
(* success, with at most one transfer to its caller and one log, or in an  *)
(* error that leaves everything as it was.                                 *)
(***************************************************************************)
EXTENDS FlatStorage

CONSTANTS
  Limb,         \* 2^64
  AccountLength \* the bytes of an account's name

U128Max == Limb * Limb - 1

Done(s, value, transfer, logs) ==
  [verdict |-> "ok", storage |-> s, value |-> value, transfer |-> transfer, logs |-> logs]

Error(s) == [verdict |-> "trap", storage |-> s, value |-> 0, transfer |-> <<>>, logs |-> <<>>]

Checked(guard, s, outcome) == IF guard THEN outcome ELSE Error(s)

entry(account) == <<"BAL2", account>>

Token(amount) == [length |-> 16, amount |-> amount]

MalformedToken == [length |-> 8, amount |-> 0]

\* Prefix, length, name, value and nearcore's 40 bytes: also what storage_usage moves by.
variableAccountEntryBytes(account) == AccountLength[account] + 64

minimumAccountEntryBytes == 66

maximumAccountEntryBytes == 128

readWasMissing(s, account) == entry(account) \notin DOMAIN s

readWasValidPresent(s, account) == entry(account) \in DOMAIN s /\ s[entry(account)].length = 16

price(s) == s[Field("perByteCost")]

supply(s) == s[Field("totalSupply")]

\* The price is trusted, and that many bytes at that price are an amount.
CanPrice(s, bytes) == price(s) # 0 /\ price(s) * bytes <= U128Max

costWithoutRecord(s, account) == price(s) * (AccountLength[account] + 24)

cost(s, account) == price(s) * variableAccountEntryBytes(account)

\* The top bit of the low word is repeated in the high word.
init(s, costProfile) ==
  initialize(s, [key \in {Field(f) : f \in {"perByteCost", "lastDelta", "lastCost", "totalSupply", "lastCode"}} |->
    IF key # Field("perByteCost") THEN 0
    ELSE costProfile + IF costProfile >= Limb \div 2 THEN (Limb - 1) * Limb ELSE 0])

Coded(s, code) == write(s, Field("lastCode"), code)

\* What the last registration or removal measured.
Measured(s, delta, amount, code) ==
  Coded(write(write(s, Field("lastDelta"), delta), Field("lastCost"), amount), code)

Refunds(caller, amount) == IF amount = 0 THEN <<>> ELSE <<caller, amount>>

-----------------------------------------------------------------------------
Inserts(s, account, deposit) ==
  /\ CanPrice(s, variableAccountEntryBytes(account))
  /\ readWasMissing(s, account)
  /\ deposit >= cost(s, account)

Inserted(s, account) ==
  LET delta == variableAccountEntryBytes(account) IN
  Measured(write(s, entry(account), Token(0)), delta, cost(s, account), delta)

\* The excess goes to the caller, whichever account is registered; a duplicate gets everything back.
storage_deposit(s, caller, account, deposit) ==
  LET total == cost(s, account) IN
  IF readWasMissing(s, account)
  THEN Checked(Inserts(s, account, deposit), s,
               Done(Inserted(s, account), total, Refunds(caller, deposit - total), <<>>))
  ELSE Checked(readWasValidPresent(s, account) /\ CanPrice(s, variableAccountEntryBytes(account)), s,
               Done(s, total, Refunds(caller, deposit), <<>>))

registerCaller(s, caller, deposit) ==
  IF readWasMissing(s, caller)
  THEN Checked(Inserts(s, caller, deposit), s,
               Done(Inserted(s, caller), variableAccountEntryBytes(caller),
                    Refunds(caller, deposit - cost(s, caller)), <<>>))
  ELSE Checked(price(s) # 0 /\ readWasValidPresent(s, caller), s,
               Done(s, s[Field("lastCode")], Refunds(caller, deposit), <<>>))

storage_withdraw(s, caller, amount, deposit) ==
  Checked(/\ deposit = 1
          /\ readWasValidPresent(s, caller)
          /\ amount = 0
          /\ CanPrice(s, variableAccountEntryBytes(caller)),
          s, Done(s, cost(s, caller), <<>>, <<>>))

-----------------------------------------------------------------------------
\* The balance that is removed is burned, and must not be more than the supply.
Removes(s, caller, force) ==
  LET balance == s[entry(caller)].amount IN
  /\ readWasValidPresent(s, caller)
  /\ balance = 0 \/ force
  /\ balance <= supply(s)
  /\ CanPrice(s, variableAccountEntryBytes(caller))
  /\ cost(s, caller) + 1 <= U128Max

Removed(s, caller) ==
  Measured(write(remove(s, entry(caller)), Field("totalSupply"), supply(s) - s[entry(caller)].amount),
           variableAccountEntryBytes(caller), cost(s, caller), 1)

\* A missing account costs the caller its yocto, and is no error.
Unregisters(s, caller, force, deposit, logs) ==
  IF deposit # 1 \/ price(s) = 0 THEN Error(s)
  ELSE IF readWasMissing(s, caller) THEN Done(Coded(s, 0), 0, <<>>, logs)
  ELSE Checked(Removes(s, caller, force), s,
               Done(Removed(s, caller), 1, Refunds(caller, cost(s, caller) + 1), <<>>))

unregisterCaller(s, caller, deposit) == Unregisters(s, caller, FALSE, deposit, <<>>)

forceUnregisterCaller(s, caller, force, deposit) ==
  Checked(force <= 1, s, Unregisters(s, caller, force = 1, deposit, <<>>))

storage_unregister(s, caller, force, deposit) ==
  Unregisters(s, caller, force = 1, deposit, <<"not registered">>)

-----------------------------------------------------------------------------
\* The probes are not payable; a malformed balance reads as zero.
Probed(s, deposit, value) == Checked(deposit = 0, s, Done(Coded(s, value), value, <<>>, <<>>))

balanceD(s, account) == IF readWasValidPresent(s, account) THEN s[entry(account)].amount ELSE 0

\* The fixtures that write the caller's balance, with or without a supply to match.
Seeded(s, caller, token) ==
  Done(Coded(write(s, entry(caller), token), status(s, entry(caller))), status(s, entry(caller)), <<>>, <<>>)

SeededSupply(s, caller, amount) == Seeded(write(s, Field("totalSupply"), amount), caller, Token(amount))

Repriced(s, perByte) == Done(Measured(write(s, Field("perByteCost"), perByte), 0, 0, 1), 1, <<>>, <<>>)

fixtureRemoveCaller(s, caller) ==
  Done(Measured(remove(s, entry(caller)), 0, 0, status(s, entry(caller))), status(s, entry(caller)), <<>>, <<>>)

\* (2^128 - 1) / 85: the cost of 85 bytes is then the largest amount.
AddOverflow == U128Max \div 85

Run(s, caller, method, args) ==
  IF ~args.readable THEN Error(s) ELSE
  CASE method = "storage_deposit" -> storage_deposit(s, caller, args.account, args.deposit)
    [] method = "storage_withdraw" -> storage_withdraw(s, caller, args.amount, args.deposit)
    [] method = "storage_unregister" -> storage_unregister(s, caller, args.amount, args.deposit)
    [] method = "registerCaller" -> registerCaller(s, caller, args.deposit)
    [] method = "unregisterCaller" -> unregisterCaller(s, caller, args.deposit)
    [] method = "forceUnregisterCaller" -> forceUnregisterCaller(s, caller, args.amount, args.deposit)
    [] method = "probeCaller" -> Probed(s, args.deposit, status(s, entry(caller)))
    [] method = "probeCallerBalanceW0" -> Probed(s, args.deposit, balanceD(s, caller) % Limb)
    [] method = "probeCallerBalanceW1" -> Probed(s, args.deposit, balanceD(s, caller) \div Limb)
    [] method = "seedCallerMalformed8" -> Seeded(s, caller, MalformedToken)
    [] method = "seedCallerZero" -> Seeded(s, caller, Token(0))
    [] method = "seedCallerOne" -> Seeded(s, caller, Token(1))
    [] method = "fixtureSeedCallerMixedSupply" -> SeededSupply(s, caller, Limb + 1)
    [] method = "fixtureSeedCallerMaxSupply" -> SeededSupply(s, caller, U128Max)
    [] method = "fixtureSetCostMax" -> Repriced(s, U128Max)
    [] method = "fixtureSetCostAddOverflow" -> Repriced(s, AddOverflow)
    [] method = "fixtureRemoveCaller" -> fixtureRemoveCaller(s, caller)

-----------------------------------------------------------------------------
\* A missing account has no storage balance; one that cannot be priced panics.
storage_balance_of(s, account) ==
  IF readWasMissing(s, account) THEN Done(s, 0, <<>>, <<>>)
  ELSE Checked(readWasValidPresent(s, account) /\ CanPrice(s, variableAccountEntryBytes(account)),
               s, Done(s, cost(s, account), <<>>, <<>>))

storage_balance_bounds(s) ==
  Checked(CanPrice(s, maximumAccountEntryBytes), s,
          Done(s, <<minimumAccountEntryBytes * price(s), maximumAccountEntryBytes * price(s)>>, <<>>, <<>>))

State(s, field) == Done(s, s[Field(field)], <<>>, <<>>)

View(s, method, arg) ==
  CASE method = "storage_balance_of" -> storage_balance_of(s, arg)
    [] method = "storage_balance_bounds" -> storage_balance_bounds(s)
    [] method = "get" -> State(s, "lastCode")
    [] method = "lastDelta" -> State(s, "lastDelta")
    [] method = "lastCostW0" -> Done(s, s[Field("lastCost")] % Limb, <<>>, <<>>)
    [] method = "lastCostW1" -> Done(s, s[Field("lastCost")] \div Limb, <<>>, <<>>)
    [] method = "totalSupplyW0" -> Done(s, supply(s) % Limb, <<>>, <<>>)
    [] method = "totalSupplyW1" -> Done(s, supply(s) \div Limb, <<>>, <<>>)
==============================================================================
