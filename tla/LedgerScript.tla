------------------------------ MODULE LedgerScript ------------------------------
(***************************************************************************)
(* The gate of the fungible token: every call it signs, every view, and    *)
(* what it asserts of the keys, the logs and the refund receipts.  The     *)
(* amounts stand for the gate's: 2^64 is Two64, 2^128 - 1 is Max128.       *)
(***************************************************************************)
EXTENDS ScriptSteps

CONSTANTS Two64, Max128, Absent, Malformed, Invalid

Self == "test.near"

\* amount is also the flag of storage_unregister's force; message is the length of msg.
Args(to, amount, deposit) ==
  [to |-> to, amount |-> amount, deposit |-> deposit, readable |-> TRUE, message |-> 0]

Garbled(args) == [args EXCEPT !.readable = FALSE]

_call(method) == Sends(method, Args(Self, 0, 0), Anything)

_mint(signer, amount) == SignedBy(signer, Sends("mint", Args(signer, amount, 0), Anything))

Burns(amount) == Sends("burn", Args(Self, amount, 0), Anything)

ToSelf(signer, amount) ==
  SignedBy(signer, Sends("transferCallerToSelf", Args(Self, amount, 0), Anything))

\* fixturePut*NoSupply, seedSelfMalformed8, seedSelfMalformed20.
Seeds(account, value) == Sends("fixturePutNoSupply", Args(account, value, 0), Anything)

Resets(signer) == SignedBy(signer, Sends("fixtureReset", Args(signer, 0, 0), Anything))

-----------------------------------------------------------------------------
(***************************************************************************)
(* What the gate looks at.                                                 *)
(***************************************************************************)
_key(account) == <<"BAL2", account>>

_balance(account, value) == Stores([k \in {_key(account)} |-> value])

NoBalance(accounts) == Lacks({_key(a) : a \in accounts})

_supply(value) == << Views("supplyW0", "", value % Two64), Views("supplyW1", "", value \div Two64) >>

_json_balance(account, value) == Views("ft_balance_of", account, value)

\* A view that must fail, whatever it fails for.
_json_balance_fails(account) == Try(<< Views("ft_balance_of", account, Anything) >>)

_json_supply(wire, value) == Views("ft_total_supply", wire, value)

\* 0 stands for null.
_storage_balance(account, total) == Views("storage_balance_of", account, total)

_receipt_logs(events) == Step("logs", "", events, "ok", Anything)

\* EXPERIMENTAL_receipt, for the receipts of the last transaction.
_assert_transfer_receipt(receiver, amount) ==
  Step("receipts", "EXPERIMENTAL_receipt", <<receiver, amount>>, "ok", Anything)

_assert_no_transfer_receipt == Step("receipts", "EXPERIMENTAL_receipt", <<>>, "ok", Anything)

_transfer_event(sender, receiver, amount) == <<"ft_transfer", sender, receiver, amount>>

\* The owner's tokens go back to the sender, or are burned.
_resolver_event(kind, owner, sender, amount) == <<kind, owner, sender, amount>>

-----------------------------------------------------------------------------
Failing(s) == << Remembers, s, Unchanged >>

_fail_unchanged(s) == Failing([s EXCEPT !.expects = "failure"])

_ft_transfer(signer, receiver, amount) ==
  << SignedBy(signer, Sends("ft_transfer", Args(receiver, amount, 1), 0)),
     _receipt_logs(<<_transfer_event(signer, receiver, amount)>>) >>

LoggedFailure(s) == << Remembers, s, _receipt_logs(<<>>), Unchanged >>

_ft_transfer_fails(signer, args) == LoggedFailure(SignedBy(signer, Rejects("ft_transfer", args)))

\* A child that fails makes the transaction a failure, although its callback answers.
_ft_transfer_call(receiver, amount, message, used, returned, childFailure) ==
  << [Sends("ft_transfer_call", [Args(receiver, amount, 1) EXCEPT !.message = message], used)
        EXCEPT !.expects = IF childFailure THEN "failure" ELSE "ok"],
     _receipt_logs(<<_transfer_event(Self, receiver, amount)>> \o
       IF returned = 0 THEN <<>> ELSE <<_resolver_event("ft_transfer", receiver, Self, returned)>>) >>

_ft_transfer_call_fails(signer, args) ==
  LoggedFailure(SignedBy(signer, Rejects("ft_transfer_call", args)))

_resolve(method, args, used, events, childFailure) ==
  << Remembers,
     [Sends(method, args, used) EXCEPT !.expects = IF childFailure THEN "failure" ELSE "ok"],
     _receipt_logs(events) >>

_resolve_fails(method, args) == LoggedFailure(Rejects(method, args))

-----------------------------------------------------------------------------
Account(name) == << On(name, Sends("create", 0, Anything)), SignedBy(name, On(name, Sends("deploy", 0, Anything))) >>

SetUp ==
  << Sends("deploy", 0, Anything), Sends("initialize", 0, Anything) >>
    \o Account("resolver") \o << SignedBy("resolver", On("resolver", Sends("initialize", 0, Anything))) >>
    \o Account("partial") \o Account("full") \o Account("malformed") \o Account("failed")
    \o Account("json-result")

\* The wires a view ignores.
Ignored(method, wires, value) == [i \in 1..Len(wires) |-> Views(method, wires[i], value)]

EmptyLedger ==
  << Views("balanceSelfHas", "", 0), NoBalance({Self}), _json_balance("missing", 0),
     _json_supply("", 0), Remembers >>
    \o Ignored("ft_metadata", <<"", "{}", "unused", "not-json", "{}">>, "metadata") \o << Unchanged >>
    \o Ignored("storage_balance_bounds", <<"", "{}", "not-json", "4096 bytes">>, <<66, 128>>)
    \o << _storage_balance("aa", 0) >>
    \o Ignored("ft_total_supply", <<"{}", "not-json", "4096 bytes">>, 0)
    \o Try(<< Views("balanceSelfHas", "{}", Anything) >>)
    \o _fail_unchanged(Burns(1))
    \o << Remembers, _mint(Self, 0), Views("balanceSelfHas", "", 0) >> \o _supply(0)
    \o << NoBalance({Self}) >>

\* 73 is the cost of the contract's own entry, 66 that of "aa".
Deposit(account, deposit) == Args(account, 0, deposit)

Withdraw(amount, deposit) == Args(Self, amount, deposit)

Unregister(force, deposit) == Args(Self, force, deposit)

Registration ==
  Failing(Rejects("storage_deposit", Deposit(Self, 1))) \o << NoBalance({Self}) >>
    \o << Sends("storage_deposit", Deposit(Self, 100), 73), _assert_transfer_receipt(Self, 27),
          _storage_balance(Self, 73) >>
    \o FlattenSeq([i \in 1..3 |-> << Remembers, Sends("storage_withdraw", Withdraw(0, 1), 73), Unchanged,
                                     _assert_no_transfer_receipt >>])
    \o Failing(Rejects("storage_withdraw", Withdraw(1, 1)))
    \o Failing(Rejects("storage_withdraw", Withdraw(0, 0)))
    \o Failing(Rejects("storage_withdraw", Withdraw(0, 2)))
    \o << Sends("storage_deposit", Deposit(Self, 7), Anything), _assert_transfer_receipt(Self, 7),
          _mint(Self, 1) >>
    \o Failing(Rejects("storage_unregister", Unregister(0, 1)))

Removed(force) ==
  << Sends("storage_unregister", Unregister(force, 1), 1), _receipt_logs(<<>>),
     _assert_transfer_receipt(Self, 74), NoBalance({Self}) >> \o _supply(0)

Unregistration ==
  Removed(1)
    \o LoggedFailure(Rejects("storage_unregister", Unregister(0, 0)))
    \o LoggedFailure(Rejects("storage_unregister", Unregister(0, 2)))
    \o LoggedFailure(Rejects("storage_unregister", Garbled(Unregister(1, 1))))
    \o << Sends("storage_unregister", Unregister(0, 1), 0), _receipt_logs(<<"not registered">>),
          _assert_no_transfer_receipt, Sends("storage_deposit", Deposit(Self, 100), Anything) >>
    \o Removed(0) \o << Seeds(Self, Malformed) >>
    \o Failing(Rejects("storage_unregister", Unregister(1, 1))) \o << Resets(Self) >>
    \o Failing(Rejects("storage_deposit", Garbled(Deposit(Self, 100))))
    \o << Resets(Self), _storage_balance(Self, 0) >>
    \o Failing(Rejects("storage_withdraw", Withdraw(0, 1)))
    \o << Sends("storage_deposit", Deposit("aa", 100), 66), _assert_transfer_receipt(Self, 34),
          _storage_balance("aa", 66), _call("fixtureRemoveViewAccounts") >>

-----------------------------------------------------------------------------
MalformedBalance(rejected) ==
  << Seeds(Self, Malformed), _balance(Self, Malformed) >>
    \o _json_balance_fails(Self)
    \o Try(<< Views("storage_balance_of", Self, Anything) >>)
    \o _fail_unchanged(rejected) \o << _balance(Self, Malformed), Resets(Self) >>

StoredBalances ==
  << Seeds(Self, 0), _storage_balance(Self, 73), _balance(Self, 0), Views("balanceSelfHas", "", 1),
     _json_balance(Self, 0), Resets(Self),
     Seeds("aa", Two64 + 3), _json_balance("aa", Two64 + 3), _storage_balance("aa", 66),
     Seeds("max", Max128), _json_balance("max", Max128), _storage_balance("max", 128),
     _json_balance("max", Max128), _call("fixtureRemoveViewAccounts"), NoBalance({"aa", "max"}) >>
    \o MalformedBalance(_mint(Self, 1)) \o MalformedBalance(Burns(0)) \o << _json_balance(Self, 0) >>

Overflows ==
  << Seeds(Self, Max128) >> \o _fail_unchanged(_mint(Self, 1))
    \o << Resets(Self), _call("fixtureSetSupplyMax") >> \o _fail_unchanged(_mint(Self, 1))
    \o << Resets(Self), Seeds(Self, 1) >> \o _fail_unchanged(Burns(1)) \o << Resets(Self) >>

Mixed == Two64 + 1

TwoLimbs ==
  << _mint(Self, Two64), _json_supply("", Two64), _mint(Self, 1), _balance(Self, Mixed) >> \o _supply(Mixed)
    \o << _json_supply("", Mixed), _json_balance(Self, Mixed), _json_balance(Self, Mixed),
          Burns(0), _balance(Self, Mixed) >> \o _supply(Mixed)
    \o << ToSelf(Self, 1), _balance(Self, Mixed) >> \o _supply(Mixed)

-----------------------------------------------------------------------------
CreatesOnly(name) == << On(name, Sends("create", 0, Anything)) >>

TransferGuards ==
  CreatesOnly("caller") \o CreatesOnly("unregistered") \o << Seeds(Self, 0) >>
    \o _ft_transfer_fails("unregistered", Args(Self, 1, 1)) \o << _mint("caller", 1) >>
    \o _ft_transfer_fails("caller", Args("absent", 1, 1))
    \o _ft_transfer_fails("caller", Args("caller", 1, 1))
    \o _ft_transfer_fails("caller", Args(Self, 0, 1))
    \o _ft_transfer_fails("caller", Args(Self, 1, 0))
    \o _ft_transfer_fails("caller", Args(Self, 1, 2))
    \o _ft_transfer_fails("caller", Args(Self, Max128, 1))
    \o _ft_transfer_fails("caller", Garbled(Args(Self, 1, 1))) \o << Seeds(Self, Malformed) >>
    \o _ft_transfer_fails("caller", Args(Self, 1, 1))
    \o << Resets(Self), Resets("caller"), Seeds(Self, Malformed), _mint("caller", 1) >>
    \o _ft_transfer_fails(Self, Args("caller", 1, 1))
    \o << Resets(Self), Resets("caller"), Seeds(Self, Max128), _mint("caller", 1) >>
    \o _ft_transfer_fails("caller", Args(Self, 1, 1)) \o << Resets(Self), Resets("caller") >>

Transfers ==
  << Seeds(Self, 0), _mint("caller", Two64) >> \o _supply(Two64)
    \o _ft_transfer("caller", Self, Two64)
    \o << _balance("caller", 0), _balance(Self, Two64) >> \o _supply(Two64)
    \o << Resets(Self), Resets("caller"), Seeds(Self, 0) >>
    \o [i \in 1..5 |-> _mint("caller", 1)] \o _supply(5)
    \o FlattenSeq([i \in 1..5 |-> _ft_transfer("caller", Self, 1)])
    \o << _balance("caller", 0), _balance(Self, 5) >> \o _supply(5)

ConservationScenes ==
  << Resets(Self), Resets("caller"), _mint("caller", Two64), _mint("caller", 1),
     _json_balance("caller", Mixed) >> \o _supply(Mixed)
    \o << ToSelf("caller", 1) >> \o _supply(Mixed) \o << ToSelf("caller", Two64), NoBalance({"caller"}),
          _balance(Self, Mixed) >> \o _supply(Mixed)
    \o _fail_unchanged(ToSelf("caller", 1))
    \o << Resets(Self), _mint(Self, Max128), _balance(Self, Max128) >> \o _supply(Max128)
    \o << _json_balance(Self, Max128), _json_supply("", Max128), Burns(Max128), NoBalance({Self}) >>
    \o _supply(0) \o << _json_supply("", 0), _mint("caller", 1), Seeds(Self, Max128) >>
    \o _fail_unchanged(ToSelf("caller", 1)) \o << _balance("caller", 1), _balance(Self, Max128) >> \o _supply(1)

-----------------------------------------------------------------------------
Seeded == << _call("fixtureTransferCall") >>

TransferCallGuards ==
  Seeded
    \o _ft_transfer_call_fails(Self, Args(Self, 1, 1))
    \o _ft_transfer_call_fails(Self, Args("partial", 0, 1))
    \o _ft_transfer_call_fails(Self, Args("partial", 1, 0))
    \o _ft_transfer_call_fails(Self, Args("partial", 1, 2))
    \o _ft_transfer_call_fails(Self, Args("absent", 1, 1))
    \o _ft_transfer_call_fails(Self, Args("partial", Max128, 1))
    \o _ft_transfer_call_fails("unregistered", Args("partial", 1, 1))
    \o Seeded \o << Seeds(Self, Malformed) >> \o _ft_transfer_call_fails(Self, Args("partial", 1, 1))
    \o Seeded \o << _mint("caller", 1), Seeds(Self, Malformed) >>
    \o _ft_transfer_call_fails("caller", Args(Self, 1, 1))
    \o Seeded \o << _mint("caller", 1), Seeds(Self, Max128) >>
    \o _ft_transfer_call_fails("caller", Args(Self, 1, 1))

\* Of a supply of Mixed tokens the receiver keeps what it used.
TransferCallScene(receiver, amount, message, used, childFailure) ==
  Seeded \o _ft_transfer_call(receiver, amount, message, used, amount - used, childFailure)
    \o << _balance(Self, Mixed - used), _balance(receiver, used) >> \o _supply(Mixed)

TransferCalls ==
  TransferCallGuards
    \o TransferCallScene("partial", 10, 8, 7, FALSE)
    \o TransferCallScene("partial", Two64, 9, Two64 - 3, FALSE)
    \o TransferCallScene("full", 10, 64, 0, FALSE)
    \o TransferCallScene("malformed", 10, 10, 0, FALSE)
    \o TransferCallScene("failed", 10, 4, 0, TRUE)

\* A child and the callback without the transfer they pretend to resolve; a balance after it may be
\* Absent.
ChainScene(seed, receiver, used, after, supplyAfter, event, childFailure) ==
  << Sends("fixtureResolver", <<Self, receiver, seed>>, Anything) >>
    \o _resolve("chain", Args(receiver, 10, 0), used, <<event>>, childFailure)
    \o << IF after[1] = Absent THEN NoBalance({Self}) ELSE _balance(Self, after[1]),
          _balance(receiver, after[2]) >> \o _supply(supplyAfter)

Chains ==
  ChainScene(<<2, 7, 9>>, "partial", 7, <<5, 4>>, 9, _resolver_event("ft_transfer", "partial", Self, 3), FALSE)
    \o ChainScene(<<Absent, 7, 7>>, "full", 10, <<Absent, 0>>, 0,
                  _resolver_event("ft_burn", "full", Self, 7), FALSE)
    \o ChainScene(<<2, 7, 9>>, "malformed", 3, <<9, 0>>, 9,
                  _resolver_event("ft_transfer", "malformed", Self, 7), FALSE)
    \o ChainScene(<<2, 7, 9>>, "failed", 3, <<9, 0>>, 9,
                  _resolver_event("ft_transfer", "failed", Self, 7), TRUE)

-----------------------------------------------------------------------------
\* fixtureResolver*: the balances of "aa" and "bb" and the supply.
Resolver(sender, receiver, total) ==
  << Sends("fixtureResolver", <<"aa", "bb", <<sender, receiver, total>>>>, Anything) >>

Present == Resolver(2, 7, 9)

\* resolveUnused*, and the children that answer nothing: the callback is told of 10 tokens.
Resolves(result) == Args("bb", result, 0)

BackToSender(amount) == <<_resolver_event("ft_transfer", "bb", "aa", amount)>>

Balances(pairs) == Stores([k \in {_key(a) : a \in DOMAIN pairs} |-> pairs[k[2]]])

Refunds ==
  Resolver(Absent, Absent, 0) \o Present
    \o _resolve("resolve", Resolves(3), 7, BackToSender(3), FALSE)
    \o << Balances([aa |-> 5, bb |-> 4]) >> \o _supply(9)
    \o Present \o _resolve("resolve", Resolves(20), 3, BackToSender(7), FALSE)
    \o << Balances([aa |-> 9, bb |-> 0]) >> \o _supply(9)
    \o Present \o _resolve("resolve", Resolves(Invalid), 3, BackToSender(7), FALSE)
    \o Present \o _resolve("resolve", Resolves(Invalid), 3, BackToSender(7), FALSE)
    \o Present \o _resolve("resolveFailed", Resolves(Invalid), 3, BackToSender(7), TRUE)
    \o Present \o _resolve("resolve", Resolves(0), 10, <<>>, FALSE) \o << Unchanged >>
    \o Resolver(2, Absent, 2) \o _resolve("resolve", Resolves(3), 10, <<>>, FALSE)
    \o << Unchanged, NoBalance({"bb"}) >>
    \o Resolver(2, 0, 2) \o _resolve("resolve", Resolves(3), 10, <<>>, FALSE)
    \o << Unchanged, _balance("bb", 0) >>
    \o Resolver(Absent, 7, 7)
    \o _resolve("resolve", Resolves(3), 10, <<_resolver_event("ft_burn", "bb", "aa", 3)>>, FALSE)
    \o << NoBalance({"aa"}), _balance("bb", 4) >> \o _supply(4)

RefundFailures ==
  Resolver(2, Malformed, 2) \o _resolve_fails("resolve", Resolves(3))
    \o Resolver(Malformed, 1, 1) \o _resolve_fails("resolve", Resolves(3))
    \o Resolver(Max128, 1, Max128) \o _resolve_fails("resolve", Resolves(3))
    \o Resolver(Absent, 1, 0) \o _resolve_fails("resolve", Resolves(3))
    \o Present \o _resolve_fails("resolveCountZero", Resolves(0))
    \o Present \o _resolve_fails("resolvePaidCallback", Resolves(0))
    \o Failing(Rejects("ft_resolve_transfer", Resolves(0)))

\* The receiver that chooses by the length of the message, and counts its calls.
DualScene(count, message, used, childFailure) ==
  TransferCallScene("partial", 10, message, used, childFailure)
    \o << On("partial", Views("get", "", count)), On("partial", Views("lastMsgLength", "", message)) >>

DualReceiver ==
  << SignedBy("partial", On("partial", Sends("deploy", 0, Anything))),
     SignedBy("partial", On("partial", Sends("initialize", 0, Anything))) >>
    \o DualScene(1, 0, 0, FALSE) \o DualScene(2, 1, 10, FALSE) \o DualScene(3, 2, 7, FALSE)
    \o DualScene(4, 3, 7, FALSE) \o DualScene(5, 4, 0, TRUE) \o DualScene(6, 5, 0, FALSE)
    \o << On("partial", Views("get", "", 6)),
          On("partial", Rejects("ft_on_transfer", Args(Self, 10, 1))),
          On("partial", Rejects("ft_on_transfer", Garbled(Args(Self, 10, 0)))),
          On("partial", Views("get", "", 6)), On("partial", Sends("fixtureSetCallsMax", 0, Anything)) >>
    \o TransferCallScene("partial", 10, 1, 0, TRUE)
    \o << On("partial", Views("get", "", Two64 - 1)), On("partial", Views("lastMsgLength", "", 63)) >>

FungibleLedgerScript ==
  SetUp \o EmptyLedger \o Registration \o Unregistration \o StoredBalances \o Overflows \o TwoLimbs
    \o TransferGuards \o Transfers \o ConservationScenes \o TransferCalls \o Chains \o Refunds
    \o RefundFailures \o DualReceiver
==============================================================================
