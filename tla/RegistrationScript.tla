--------------------------- MODULE RegistrationScript ---------------------------
(***************************************************************************)
(* The gate of the storage registration: eight contracts on accounts of    *)
(* their own, called by accounts whose names have different lengths.  It   *)
(* asks for the price per_byte, which is 10^19; the deposits it makes are  *)
(* larger than every cost.                                                 *)
(***************************************************************************)
EXTENDS ScriptSteps

CONSTANTS
  PerByte, \* per_byte
  Limb     \* 2^64

ASSUME LimbAssumption == Limb \in Nat /\ Limb > 1

ASSUME PerByteAssumption == PerByte \in Nat \ {0}

\* 2^128 - 1 is a multiple of 85, the bytes of the entry of add_overflow: at the price the gate sets,
\* that entry costs the largest amount.
ASSUME LargestCostAssumption == (Limb * Limb - 1) % 85 = 0

AccountLength ==
  [short |-> 11, long |-> 64, malformed |-> 13, nonzero |-> 13, forced |-> 15, add_overflow |-> 21,
   missing |-> 26]

Contracts ==
  <<"contract", "deposit_contract", "unregister_contract", "withdraw_contract", "withdraw_overflow",
    "overflow", "zero_cost">>

Delta(account) == AccountLength[account] + 64

Total(account) == Delta(account) * PerByte

\* 10^24 and 10^22.
generous == 30000
excess == 1000

\* amount is the flag of a forced removal too.
Request(account, amount, deposit) ==
  [account |-> account, amount |-> amount, deposit |-> deposit, readable |-> TRUE]

Requests(contract, caller, method, request, returns) ==
  SignedBy(caller, On(contract, Sends(method, request, returns)))

Refused(s) == [s EXCEPT !.expects = "failure", !.returns = Anything]

FailsUnchanged(s) == << On(s.account, Remembers), Refused(s), On(s.account, Unchanged) >>

\* A fixture entry, called by the account it is about.
Prepares(contract, caller, method) == Requests(contract, caller, method, Request(caller, 0, 0), Anything)

Installed(contract, price) ==
  << Requests(contract, contract, "deploy", Request(contract, 0, 0), Anything),
     Requests(contract, contract, "initialize", Request(contract, price, 0), Anything) >>

-----------------------------------------------------------------------------
RegistrationKey(account) == <<"BAL2", account>>

Zero(contract, account) ==
  On(contract, Stores([k \in {RegistrationKey(account)} |-> [length |-> 16, amount |-> 0]]))

Missing(contract, account) == On(contract, Lacks({RegistrationKey(account)}))

LooksUnchanged(contract, view) == << On(contract, Remembers), On(contract, view), On(contract, Unchanged) >>

LooksFailing(contract, view) ==
  << On(contract, Remembers) >> \o Try(<< On(contract, view) >>) \o << On(contract, Unchanged) >>

_expect_storage_balance(contract, account, total) ==
  LooksUnchanged(contract, Views("storage_balance_of", account, total))

_expect_storage_balance_failure(contract, account) ==
  LooksFailing(contract, Views("storage_balance_of", account, Anything))

_expect_storage_bounds(contract, perByte, wire) ==
  LooksUnchanged(contract, Views("storage_balance_bounds", wire, <<66 * perByte, 128 * perByte>>))

_expect_storage_bounds_failure(contract, wire) ==
  LooksFailing(contract, Views("storage_balance_bounds", wire, Anything))

_storage_deposit(contract, caller, account, deposit, total) ==
  Requests(contract, caller, "storage_deposit", Request(account, 0, deposit), total)

_register(contract, caller, deposit, delta) ==
  Requests(contract, caller, "registerCaller", Request(caller, 0, deposit), delta)

_unregister(contract, caller, deposit, done) ==
  Requests(contract, caller, "unregisterCaller", Request(caller, 0, deposit), done)

_force_unregister(contract, caller, force, deposit, done) ==
  Requests(contract, caller, "forceUnregisterCaller", Request(caller, force, deposit), done)

\* _assert_json_boolean: 1 is true, 0 is false.
_storage_unregister(contract, caller, force, deposit, boolean) ==
  Requests(contract, caller, "storage_unregister", Request(caller, force, deposit), boolean)

_storage_withdraw(contract, caller, amount, deposit, total) ==
  Requests(contract, caller, "storage_withdraw", Request(caller, amount, deposit), total)

_outcome_logs(lines) == Step("logs", "", lines, "ok", Anything)

Unregistered == <<"not registered">>

\* _assert_transfer_receipt and _assert_no_transfer_action.
Transferred(receiver, amount) == Step("receipts", "EXPERIMENTAL_receipt", <<receiver, amount>>, "ok", Anything)

NotTransferred == Step("receipts", "EXPERIMENTAL_receipt", <<>>, "ok", Anything)

Supplies(contract, amount) ==
  << On(contract, Views("totalSupplyW0", "", amount % Limb)), On(contract, Views("totalSupplyW1", "", amount \div Limb)) >>

Reclaimed(contract, caller) ==
  << On(contract, Views("lastDelta", "", Delta(caller))), Transferred(caller, Total(caller) + 1), Missing(contract, caller) >>

_assert_exact_reclaim(contract, caller) ==
  << Zero(contract, caller), _unregister(contract, caller, 1, 1) >> \o Reclaimed(contract, caller)

_assert_force_reclaim(contract, caller) ==
  << _force_unregister(contract, caller, 1, 1, 1) >> \o Reclaimed(contract, caller)

Costs(contract, account) ==
  << On(contract, Views("lastCostW0", "", Total(account) % Limb)),
     On(contract, Views("lastCostW1", "", Total(account) \div Limb)) >>

-----------------------------------------------------------------------------
_run_storage_deposit_scenes ==
  LET c == "deposit_contract" IN
  Installed(c, PerByte)
    \o FailsUnchanged(_storage_deposit(c, "short", "short", Total("short") - 1, Anything))
    \o << _storage_deposit(c, "short", "short", Total("short"), Total("short")), Zero(c, "short"),
          On(c, Views("lastDelta", "", Delta("short"))), On(c, Views("get", "", Delta("short"))) >>
    \o Costs(c, "short") \o _expect_storage_balance(c, "short", Total("short"))
    \o << _storage_deposit(c, "short", "short", excess, Total("short")), Transferred("short", excess),
          _storage_deposit(c, "short", "long", Total("long") + excess, Total("long")),
          Transferred("short", excess), Zero(c, "long") >>
    \o _expect_storage_balance(c, "long", Total("long"))
    \o << Prepares(c, "malformed", "seedCallerMalformed8") >>
    \o FailsUnchanged(_storage_deposit(c, "short", "malformed", generous, Anything))

RemovedWithoutLog(c, force) ==
  << _storage_unregister(c, "short", force, 1, 1), _outcome_logs(<<>>),
     Transferred("short", Total("short") + 1), Missing(c, "short") >>

NotRegistered(c, caller, force) ==
  << _storage_unregister(c, caller, force, 1, 0), _outcome_logs(Unregistered), Missing(c, caller) >>

RejectedWithoutLog(s) ==
  << On(s.account, Remembers), Refused(s), _outcome_logs(<<>>), On(s.account, Unchanged) >>

_run_public_storage_unregister_scenes ==
  LET c == "unregister_contract"
      registered == << _register(c, "short", generous, Delta("short")) >>
      forced == _storage_unregister(c, "short", 1, 1, Anything)
  IN  Installed(c, PerByte)
        \o NotRegistered(c, "short", 0) \o NotRegistered(c, "short", 1) \o NotRegistered(c, "long", 0)
        \o RejectedWithoutLog(_storage_unregister(c, "short", 1, 0, Anything))
        \o RejectedWithoutLog(_storage_unregister(c, "short", 1, 2, Anything))
        \o registered \o Supplies(c, 0) \o RemovedWithoutLog(c, 0) \o Supplies(c, 0)
        \o registered \o RemovedWithoutLog(c, 1)
        \o registered \o << Prepares(c, "short", "fixtureSeedCallerMixedSupply") >>
        \o FailsUnchanged(_storage_unregister(c, "short", 0, 1, Anything))
        \o RemovedWithoutLog(c, 1) \o Supplies(c, 0)
        \o FailsUnchanged([forced EXCEPT !.arg.readable = FALSE])
        \o NotRegistered(c, "short", 0)
        \o << Prepares(c, "short", "seedCallerOne") >> \o FailsUnchanged(forced)
        \o << Prepares(c, "short", "fixtureRemoveCaller"), Prepares(c, "malformed", "seedCallerMalformed8") >>
        \o FailsUnchanged(_storage_unregister(c, "malformed", 1, 1, Anything))
        \o << Prepares(c, c, "fixtureSetCostMax"), Prepares(c, "short", "seedCallerZero") >>
        \o FailsUnchanged(forced)

\* The three wires are no amount, null and zero.
Withdrawn(c, account) ==
  FlattenSeq([i \in 1..3 |->
    << On(c, Remembers), _storage_withdraw(c, account, 0, 1, Total(account)), _outcome_logs(<<>>),
       NotTransferred, On(c, Unchanged) >> \o Supplies(c, 0)])

_run_storage_withdraw_scenes ==
  LET c == "withdraw_contract"
      over == "withdraw_overflow"
  IN  Installed(c, PerByte)
        \o << _register(c, "short", generous, Anything) >> \o Withdrawn(c, "short")
        \o << _register(c, "long", generous, Anything) >> \o Withdrawn(c, "long")
        \o FailsUnchanged(_storage_withdraw(c, "short", 0, 0, Anything))
        \o FailsUnchanged(_storage_withdraw(c, "short", 0, 2, Anything))
        \o FailsUnchanged(_storage_withdraw(c, "short", 1, 1, Anything))
        \o FailsUnchanged(_storage_withdraw(c, "short", Limb, 1, Anything))
        \o FailsUnchanged(_storage_withdraw(c, "short", Limb * Limb - 1, 1, Anything))
        \o FailsUnchanged(_storage_withdraw(c, "missing", 0, 1, Anything))
        \o << Prepares(c, "malformed", "seedCallerMalformed8") >>
        \o FailsUnchanged(_storage_withdraw(c, "malformed", 0, 1, Anything))
        \o Installed(over, 1)
        \o << Prepares(over, "short", "seedCallerZero"), Prepares(over, over, "fixtureSetCostMax") >>
        \o FailsUnchanged(_storage_withdraw(over, "short", 0, 1, Anything))

-----------------------------------------------------------------------------
\* The rest of main: the contract the gate deployed first.
Registering ==
  LET c == "contract"
      refused(s) == << Refused(s), On(c, Unchanged) >>
  IN  FlattenSeq([i \in 1..4 |-> _expect_storage_bounds(c, PerByte, <<"", "{}", "not-json", "4096 bytes">>[i])])
        \o _expect_storage_balance(c, "short", 0)
        \o refused(_register(c, "short", 0, Anything)) \o refused(_register(c, "short", 1, Anything))
        \o << _register(c, "short", generous, Delta("short")) >> \o Costs(c, "short")
        \o << Zero(c, "short") >> \o _expect_storage_balance(c, "short", Total("short"))
        \o _expect_storage_balance(c, "short", Total("short"))
        \o << _register(c, "short", excess, Delta("short")), _register(c, "short", 0, Anything),
              _register(c, "long", generous, Delta("long")), Zero(c, "long") >>
        \o _expect_storage_balance(c, "long", Total("long"))

Unregistering ==
  LET c == "contract" IN
  FlattenSeq([i \in 1..4 |-> FailsUnchanged(_unregister(c, <<"short", "short", "long", "long">>[i],
                                                        <<0, 2, 0, 2>>[i], Anything))])
    \o _assert_exact_reclaim(c, "long") \o _assert_exact_reclaim(c, "short")
    \o _expect_storage_bounds(c, PerByte, "") \o _expect_storage_balance(c, "short", 0)
    \o << On(c, Remembers), _unregister(c, "short", 1, 0), Missing(c, "short"), On(c, SameKeys) >>

Forcing ==
  LET c == "contract"
      registered == << _register(c, "forced", generous, Delta("forced")) >>
      seeded(fixture) == << Prepares(c, "forced", fixture) >>
  IN  FailsUnchanged(_force_unregister(c, "forced", 1, 0, Anything))
        \o FailsUnchanged(_force_unregister(c, "forced", 1, 2, Anything))
        \o FailsUnchanged(_force_unregister(c, "forced", 2, 1, Anything))
        \o registered \o seeded("fixtureSeedCallerMixedSupply")
        \o FailsUnchanged(_force_unregister(c, "forced", 0, 1, Anything))
        \o _assert_force_reclaim(c, "forced") \o Supplies(c, 0)
        \o registered \o seeded("fixtureSeedCallerMaxSupply")
        \o _assert_force_reclaim(c, "forced") \o Supplies(c, 0)
        \o registered \o _assert_force_reclaim(c, "forced") \o Supplies(c, 0)
        \o << On(c, Remembers), _force_unregister(c, "forced", 1, 1, 0), On(c, SameKeys) >>
        \o seeded("seedCallerOne") \o FailsUnchanged(_force_unregister(c, "forced", 1, 1, Anything))
        \o << Prepares(c, "malformed", "seedCallerMalformed8") >>
        \o _expect_storage_balance_failure(c, "malformed")
        \o FailsUnchanged(_force_unregister(c, "malformed", 1, 1, Anything))
        \o << Prepares(c, "nonzero", "seedCallerOne") >>
        \o FailsUnchanged(_unregister(c, "nonzero", 1, Anything))

\* Prices at which a cost, or the refund of a cost and a yocto, is no amount; and no price.
Overflowing ==
  LET c == "overflow"
      add == "add_overflow"
      zero == "zero_cost"
  IN  Installed(c, Limb - 1)
        \o << Prepares(c, c, "fixtureSetCostMax"), Prepares(c, "short", "seedCallerZero") >>
        \o _expect_storage_bounds_failure(c, "") \o _expect_storage_balance_failure(c, "short")
        \o FailsUnchanged(_storage_deposit(c, "short", "malformed", 0, Anything)) \o << Missing(c, "malformed") >>
        \o FailsUnchanged(_force_unregister(c, "short", 1, 1, Anything)) \o << Zero(c, "short") >>
        \o Installed(add, 1)
        \o << Prepares(add, add, "fixtureSetCostAddOverflow"), Prepares(add, add, "seedCallerZero") >>
        \o FailsUnchanged(_force_unregister(add, add, 1, 1, Anything))
        \o FailsUnchanged(_storage_unregister(add, add, 1, 1, Anything))
        \o Installed(zero, 0) \o _expect_storage_bounds_failure(zero, "")
        \o FailsUnchanged(_storage_deposit(zero, "short", "malformed", 0, Anything))
        \o FailsUnchanged(_register(zero, "short", 0, Anything))

\* create_subaccount_with_key, for every account.
Subaccounts == Contracts \o <<"short", "long", "malformed", "nonzero", "forced", "add_overflow", "missing">>

StorageRegistrationScript ==
  [i \in 1..Len(Subaccounts) |-> On(Subaccounts[i], Sends("create", Request(Subaccounts[i], 0, 0), Anything))]
    \o Installed("contract", PerByte) \o _run_storage_deposit_scenes
    \o _run_public_storage_unregister_scenes \o _run_storage_withdraw_scenes
    \o Registering \o Unregistering \o Forcing \o Overflowing
==============================================================================
