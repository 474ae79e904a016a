# A TLA+ verification of ProofForgeNear

ProofForgeNear compiles ordinary Lean 4 definitions to NEAR Protocol Wasm contracts. The repository holds
the compiler (extraction, Core IR, control-flow graph, WAT emission, assembly, the `pf` command), the SDK
the contracts are written with (tokens, storage, collections, promises), about fifty example contracts, and
the near-sandbox tests that run the compiled contracts. Source paths below are relative to `src/`.

This directory models the parts whose correctness depends on order, interleaving, failure or the limits of a
bounded structure, checks them with TLC on small instances, and proves the main results with TLAPS for every
value of the constants.

## The system

### Inventory

| component | source | state | operations | what is hard |
|---|---|---|---|---|
| token ledger (NEP-141/145) | `Examples/Near/NearFungibleLedger.lean`, `ProofForge/Wasm/Near/Sdk/Fungible/`, `Sdk/Store/AccountTokenLookup.lean` | total supply (two u64 limbs), storage map `BAL2` account -> u128, receipts in flight | `storage_deposit`, `storage_withdraw`, `storage_unregister`, `ft_transfer`, `ft_transfer_call`, `ft_resolve_transfer`, mint/burn/transfer entries, fixtures | `ft_transfer_call` spans three receipts, anything runs between them; checked u128 arithmetic; failing receipts; malformed stored values |
| storage registration contract | `Examples/Near/NearStorageRegistration.lean` | per-byte cost, measured deltas, total supply | register, unregister, forced unregister, probes | cost is measured after the write, refunds are detached receipts |
| promise SDK | `ProofForge/Wasm/Near/Sdk/Promise.lean`, `Examples/Near/NearPromise*.lean`, `NearYield.lean` | DAG of receipts, result buffer | call, then, and-joins, yield and resume | joins wait for all inputs, callbacks run after failures, result order, depth and fan-in ceilings |
| collections | `Sdk/Store/{Vector,Lookup,Iterable,Queue,TreeMap,Lazy}.lean` and their example contracts | several storage keys that must agree (a vector and a lookup, a ring and its head and length) | put, get, remove, push, pop, takes | one operation writes many keys; swap-removal; wrap-around; malformed entries fail closed |
| raw storage buffer | `Sdk/Storage.lean`, `Sdk/Store/Codec.lean` | one active result buffer | read, write, remove, decode | every operation replaces the result of the one before |
| entry wrapper | `ProofForge/Wasm/Near/Emit.lean` (`renderFn` and the guards) | `STATE` envelope, one key per slot | init, migrate, view, change entries; private and deposit guards | redeployment with another schema, partial initialisation, order of guards, slots and marker |
| guest arena | `ProofForge/Wasm/Near/Memory.lean`, arena helpers of `Emit.lean` | bump pointer, buffers in use | alloc, reset, begin/set/finish of output buffers | page growth, alignment and 32-bit overflow |
| u128 arithmetic | `ProofForge/Wasm/Near/Sdk.lean`, `Runtime.lean`, `Core/Math.lean` | none | checked add/sub/mul on two limbs | carries, borrows, the top of the range |
| control-flow graph | `ProofForge/Core/CFG.lean` | blocks and edges | lower, lowerInit, validate, localCSE, shareBlocks | loops, dead code, stale common subexpressions, merging blocks |
| IR and layout | `ProofForge/Core/`, `ProofForge/Wasm/IR.lean`, `ProofForge/Wasm/Near/IR.lean` | schema, slots, digest | projection, validation | layout agreement |
| extraction | `ProofForge/Extract*`, `Profile.lean`, `Attr.lean` | none between runs | decode Lean expressions | size of the language accepted |
| WAT emission | `ProofForge/Wasm/Emit.lean`, rest of `ProofForge/Wasm/Near/Emit.lean`, `Ops.lean`, `Codec.lean` | none | text generation | JSON and Borsh parsers in generated code |
| assembly and `pf build` | `ProofForge/Wasm/Near/Assemble.lean`, `Cli.lean`, `Near/Registry.lean` | files of the output directory | resolve, extract, check digests, write, assemble | partial failure: stale outputs |
| sandbox harness | `runtime-tests/near/*.py`, `*.sh` | nonce of each signer, transactions at the node, what the gate expects next | sign and send, view, poll, read the keys, compare | a call is three exchanges and none is retried; a transaction may run after its client gave up |
| repository checks, hashes, other examples | `scripts/`, `ProofForge/Crypto/`, `Examples/*.lean` | none | - | pure or trivial |

### How the components interact

A Lean entry is extracted to Core operations, lowered to a control-flow graph, and emitted as a Wasm
function inside an entry wrapper that checks guards, loads the slots of the contract's state, runs the body
and persists the slots. The body reaches storage, promises and the arena through the SDK. At run time one
call is one receipt: it runs alone and, if it panics, is rolled back as a whole. Receipts scheduled by
promises run later, in between anything may run, and a callback reads the results of the receipts it waited
for from one result buffer. So concurrency in this system is the interleaving of receipts, and failure is
the panic of one of them; both are what the models are about.

The contracts are exercised by the sandbox gates: each is one Python process that deploys a contract, sends
it transactions through a JSON-RPC client, and compares answers, stored keys, logs and transfers with what
it expects. Between the client and the node requests and answers get lost, so a third kind of failure meets
the first two there.

## Modules

| module | role |
|---|---|
| `AccountSums` | the sum of a function over the accounts, by a recursive function over a listing of them |
| `FungibleLedger` | the token contract: state, one action per entry, specification, properties |
| `TokenLedger` | what it promises: holdings, accounts, and claims that are settled exactly; no storage costs, no callbacks |
| `FungibleLedgerRefinement` | the mapping from the contract to `TokenLedger` |
| `FungibleLedgerFixtures` | the contract plus its fixture entries, which build inconsistent states |
| `EntryLifecycle` | the wrapper around every entry, over deployments, upgrades and migrations |
| `Register` | what it promises: a number set once and then only added to |
| `RingQueue` | the persistent ring queue and its contract |
| `Fifo` | what it promises: a bounded first-in first-out queue, until it breaks |
| `IterableMap` | the map kept as a vector of keys and a lookup, its contract and the fixture that corrupts a record |
| `BoundedMap` | what it promises: a map of at most `Capacity` keys |
| `PromiseJoins` | the promise operations, the receipts the host runs for them, the callbacks and their result buffer |
| `ScatterGather` | what they promise: children asked at once or not at all, answers gathered in the order of the asking |
| `FlatStorage` | the storage of one account as a partial function, and how a call ends |
| `NearVector`, `NearLazy`, `NearTreeMap`, `NearLookup`, `NearStorage`, `NearValues` | contracts whose whole state is that storage: an operator `Run` for their calls and `View` for their views |
| `NearStorageRegistration` | the storage registration contract, with the transfer and the log of a call |
| `NearTokenArithmetic` | the two-word arithmetic of `NearToken`, as it is emitted |
| `NearMemory` | the arena and `Buffer64` over cells of 8 bytes |
| `ScriptSteps` | the steps a gate's script is made of |
| `CollectionScripts`, `LedgerScript`, `RegistrationScript` | the scripts of the sixteen gates |
| `SandboxClient` | the client that runs a script, the node it talks to, and what gets lost in between |
| `CollectionGates`, `LedgerGate`, `RegistrationGate` | what a transaction of a script does to the contract it was sent to, and what the gate sees of it |
| `SandboxGates` | client, node, contracts and later callers composed |
| `FungibleLedgerProofs`, `FungibleLedgerFixturesProofs`, `EntryLifecycleProofs`, `RingQueueProofs`, `IterableMapProofs`, `PromiseJoinsProofs`, `CollectionGatesProofs`, `SandboxGatesProofs` | theorems |
| `MCFungibleLedger`, `MCFungibleLedgerFixtures`, `MCEntryLifecycle`, `MCIterableMap`, `MCPromiseJoins`, `MCSandboxGates` | instances for TLC; `RingQueue` is run as it is |

An operator that is named like another with a suffix and that nothing uses (`wordOfAnyLength` beside `word`,
`PoppedKept` beside `Popped`) is that operator with a plausible bug. Put in the other's place it must break
the property `PROJECT.json` pairs it with.

### FungibleLedger

`supply` is the pair `supplyW0/supplyW1`, a number up to `U128Max`. `balances` is the map `BAL2` as a
partial function: an account outside its domain is unregistered, one with value 0 is registered and empty;
the contract distinguishes the two. `escrow` is the NEAR received for storage less the NEAR refunded; it is
not a variable of the contract but its account balance, which the contract changes by taking deposits and
staging transfers. `calls` are the transfer calls in flight: the amount, parties and the answer of the
receiver once there is one.

Each entry is an action with the name it has in the code. A branch of the code that ends in `.error
.overflow` panics and NEAR rolls the receipt back, so it is no step; a branch that succeeds without a change
of storage (a zero amount, an unregister of a missing account, `storage_withdraw`, the views) is a
stuttering step. The exception is `ft_resolve_transfer`: its panic consumes the callback, so
`ResolverPanics` is an action. `ft_on_transfer` is the answer of the receiver: any u128, or `Invalid` for a
panic, an exhausted gas allowance, or a value that is not a quoted u128. If the receiver is the contract
itself the answer is `Invalid`, since it exports no `ft_on_transfer`.

Left out: views, return values, events and memos, the marker (a copy of the last storage status), gas, the
byte layout of keys, and the security yocto of `ft_transfer` and `ft_transfer_call`, which the contract
keeps and never accounts for.

### FungibleLedgerFixtures

The repository's tests reach error paths with fixture entries that write malformed values, reset the supply,
seed balances, or schedule the callback without the transfer (`chain*`, `resolve*`). The module adds them as
actions. The exact seeds (2, 7, 10, 2^64 + 1, 2^64 + 3, 2^128 - 1) become constants scaled to `U128Max`.
`resolvePaidCallback` and `resolveCountZero` schedule a callback that always panics, with no effect on any
variable, and are left out.

### EntryLifecycle

An account on which several codes are deployed one after another. `envelope` is the `STATE` key: absent,
`Foreign` (a value that is not a 16-byte envelope with our magic), or the digest of a slot schema. `slots`
are the slot keys as a partial function; a stored value is a u64 or `Malformed`, of another length than 8.
`last` is the latest call with its outcome and answer.

An action is one call. The order of `renderFn` is kept: private guard, deposit guard, then the lifecycle
guard (an initializer refuses if the envelope or any slot of its own exists, a migration wants the schema it
migrates from, every other entry wants its own schema), then the loads of the slots, then the body. A guard
that fails is a panic: the outcome is recorded, and nothing else changes. A body stores the slots and then
the envelope. `migrate` reads its key without testing it: a missing value reads as zero, and one that is not
8 bytes as any number (`Legacy`), which the envelope the migration has just accepted rules out. `deploy`
replaces the code and keeps storage. The contract's state is a number in a main slot and constants in the
other slots: Counter and NearMigration are of this shape.

Digests of different schemas are taken to be different. Left out: argument decoding, allowances of the
entry's host calls, and the Counter's other changes (decrement, scale, divide, modulo), which persist as
`increment` does.

### RingQueue

`head` and `length` are the contract's slots `queueHead` and `queueLength`, `slots` the storage keys of the
ring. `push`, `pop` and the fixture `malform`, which installs metadata outside the ring, are the entries of
`NearQueue`; the helpers have the names they have in `Sdk/Store/Queue.lean`. An error is rolled back, so it
is no step. The refinement mapping to `Fifo` takes the items from the front, or `Broken` when the head is
where the fixture puts it.

### IterableMap

`vector` is the key family of `DirectIterableMap64` that lists the keys, `lookup` the family that maps a key
to its value and its index in the vector. `mapPut` adds or overwrites (`PutNew`, `PutOver`), `mapRemove`
removes the last key (`RemoveLast`) or moves the last key into the gap (`RemoveBySwap`), with every presence
and index test of `NearIterable`. `corruptMap` is the fixture `corruptMap7`, which stores a record whose
index is the capacity, for a key that may or may not be in the map, at any moment.

The library promises no repair, only that nothing is made worse: `CorruptionIsContained` says that every
listed key has a record, which names its place unless it is corrupt, and that every other sound record's key
is listed where the record says; `CorruptRecordStays` that no call moves, overwrites or removes a corrupt
record. The sound records are the refinement mapping to `BoundedMap`, whose map shrinks when a record is
corrupted.

The set `DirectIterableSet64` has the same entries with records that hold no value. `CollectionGates`
instantiates this module a second time for it, with 0 for every value. Values of a wrong length cannot be
stored by the contract and are left out.

### PromiseJoins

`graph[c]` is the list of promises a call sent, each with its kind and the promises it depends on;
`result[c]` is what came of each, with the host's statuses (0 not ready, 1 successful, 2 failed).
`returned[c]` is the promise handed to `promise_return`, and `state` the three slots of `NearPromise`.
`entry` is the call that is running on the contract, if any, and `staged` the promises it has created so
far.

An entry runs in steps. It `Begin`s with the graph it is going to stage, built with the `stage*` operators,
which follow the emitter's helpers of the same names; `stage` is one host call that creates the next promise
of it; `okState` stores the slots and returns, and only then is what was staged sent. An entry that ends in
an error (`sendThenFail`) panics with its promises staged (`errorOverflow`), and the host may stop any entry
between two of its steps (`Traps`: its gas runs out, or it refuses a promise as in `sendTooMuch`): both drop
what was staged and store nothing. Children run while an entry does; a callback does not, since an account
runs one receipt at a time. The entries of `NearPromise` that differ only in the method they call are one
action, since the host decides what comes of the child: `sendMissing` is `send` with a child that fails,
`sendThenMissing` is `sendThen` with one, and `sendAnd` with `n` children stands for the join entries.
`child` is the host running a receipt of the receiver: it fails, returns nothing, or returns a value of some
length. `callbackThen` and `callbackJoined` are the callbacks; they read their inputs one after another into
one buffer (`promiseResultRead`) and decode each with `borshUInt64D`. A callback that panics is
`callbackFails`. How the host orders receipts, what it drops with a failed one, and that a callback of a
join sees the results in the join's order, is external and modelled from how the contract uses it. The
fallbacks of the callbacks (0 and 999) are one constant.

Left out: the batch actions other than a call and `create_account`, the quoted-u128 decoder, the four-byte
buffer of `callbackOversized` (the model has lengths over the capacity instead), yield and resume,
`PromiseHandle`, gas and deposits, and entries that only store their argument.

### The contracts over FlatStorage

A contract that keeps no call in flight needs no variables of its own: a call takes the storage of the
account, as a function from `<<prefix, suffix>>` to a value, and answers with a verdict, the storage it
leaves and a value. A trap leaves the storage it found, which is how NEAR rolls a receipt back. A field of
the contract's state is the key `<<field, 0>>`; `initialize` is the wrapper's guard of `EntryLifecycle` in
short. Calls that the code writes as one `put` or `pop` inside several storage operations are one operator
that keeps the order of tests and writes.

`NearTreeMap` takes a put in two calls, `putKey` then `putValue`, and its `pendingKey` is shared by all
callers. `putValue` fails when the key is there already or does not sort after the last one. (The docstring
of its gate, `runtime-tests/near/treemap.py:8`, speaks of a put that replaces the value in place; the code
and the gate itself, lines 77-86, have it fail.) `NearLookup` and `NearValues` keep a token as 16 bytes, so
a stored value carries its length: one of another length reads as the fallback in both words. `NearStorage`
has a host register and a buffer of 8 bytes, and a value that does not fit is not copied.

`NearStorageRegistration` computes prices in two words of base `Limb`. The name of an account is its length,
and the measured `storage_usage` is what an entry of that length occupies. A call ends with at most one
transfer and one log, which the gate compares.

### NearTokenArithmetic

The other modules take a u128 as a number, while the code keeps two words and emits carries, borrows and a
64-by-64 product put together from products of half words. The module has these as emitted
(`ProofForge/Wasm/Near/Emit.lean:618-654` and `6387-6412`), on words of `Half * Half` values, and
`LimbsAreNumbers` compares them with the integers for all operands: the order, sum and difference of two
numbers, the product of a number and a word, and whether the result can be represented. `Half` is 4 in the
run, so a number has 256 values; every carry out of either word, every carry between partial products and
every way to overflow happens there, and no constant of the emitted code depends on the width. That is a
finite check; for every width, 2^32 halves included, the theorems of `CollectionGatesProofs` say the same.

### NearMemory

The arena is a cursor over cells of 8 bytes and one active `Buffer64`. What a call finds in the memory is
`Stale`, something no number equals, because an instance keeps its memory between calls and only the cursor
is reset. `begin` claims cells, grows the memory by whole pages or traps, and zeroes; `set`, `get` and
`finish` trap without an active buffer, with another handle or out of range. `BuffersAreOwn` runs every
program of `ProgramLength` operations and compares what its buffer holds in the end with an array the
program filled itself. The capacities are 4 cells for the code's 4096, a page is 8 cells, and the host
grants two pages; `ReadsOwn` proves it for any. Alignment below a cell, and the output buffers, are not
modelled.

### SandboxClient and SandboxGates

`SandboxClient` is `NearClient` of `runtime-tests/near/near_rpc.py`. A call is three exchanges: `access_key`
reads the signer's nonce, `broadcast_tx_commit` submits the signed transaction, `answer` reads the outcome,
which the node gives once every receipt of the transaction has run. Views and reads of the stored keys are
one exchange, and a poll (the yield gate's) repeats a view at most `Polls` times, 3 for the code's 60.
`phase` says which exchange comes next, `pc` which step of the script.

The fault model is what the code handles or fails to handle. A request may be refused or answered with an
error of the node (`rpc_call_raises`), which becomes `NearRpcError`; its answer may not come in time
(`answer_not_read`), which raises an error no gate catches. The transaction submitted before either stays in
`pool`: the node may run it later (`Included`, if its nonce is still new) or drop it (`dropped`). The client
retries nothing. A gate that waits for a contract to trap catches `NearRpcError` without asking what it was
raised for, so it can take a lost request for the trap: `mistaken` records that. It really happens, and is
stated as a hazard without a property.

A gate is a sequence of steps in the module of its scripts: what it sends, with which signer, what it
expects of the outcome and of the value, and what it then compares (stored keys, the same keys as before,
logs, transfers). `Script` names them: vector, lazy, treemap, lookup, storage, queue, iterable, counter,
yield, ledger, registration, arithmetic, memory, tokens, economics, boolean. The names are those of the
files, but for registration (`storage_registration.py`), arithmetic (`token_arithmetic.py`), tokens
(`token_storage.py`), economics (`storage_economics.py`) and boolean (`json_boolean_mutation.py`). The
scripts are translated from the Python of the gates and the contracts from their Lean source, so
`OnlyTransportFails` compares the two along every step: no gate fails unless something was lost.

When a transaction runs, `CollectionRuns`, `LedgerRuns` or `RegistrationRuns` applies the step of the
contract's module. The queue, the map and the set, the Counter and the token are the modules above,
instantiated with the gate's constants: the same actions that the other runs explore freely are here driven
by the tests of the repository. A transfer call of the token gate leaves the receiver's receipt and the
callback to run (`receiver_answers`, `resolver_runs`), and the answer of a yielded call waits for
`yield_times_out`. After a gate has passed, `visit` and `visit_registry` let others call the tree map, the
vector and the registry in any order; that is where `TreeIsSorted`, `VectorKeysAreDense` and
`RegistryKeepsItsCosts` meet states the gates do not reach.

Literals are scaled so that they keep their order and their sums: `Two64` = 40 stands for 2^64 and `Max128`
= 99 for 2^128 - 1 in the token gate; in the registration gate `Limb` = 256 stands for 2^64 and `PerByte`
for the price, 100 with a clear top bit and 139 with a set one. The capacities are 4 for `NearVector` and 3
for the tree map and the rings, as in the contracts.

Left out: balances of NEAR accounts, which several gates compare before and after; events the gate does not
read; the hash of a transaction; snapshots of `observe_view`.

## Runs

| run | checks | shows |
|---|---|---|
| `ledger_safety` | `TypeOK`, `Conservation`, `ResolverNeverPanics`, `StoragePaidExactly`, `ImplementsTokenLedger` | three accounts (two users and the contract), amounts up to 2, two transfer calls in flight |
| `ledger_refunds` | `RefundsOnlyRetained`, violated | mint to an unregistered account, then a forced unregister, pays a storage refund nobody deposited |
| `ledger_fixtures` | `SeededTypeOK`, `SupplyMovesWithBalances`, `MalformedFailsClosed` | every handler from every seeded state |
| `lifecycle` | `TypeOK`, `EnvelopeVouchesForSlots`, `KeepsTheNumber`, `ViewsReportTheNumber` | five codes over three schemas, deployed in any order over five kinds of leftover storage |
| `lifecycle_initialized` | `InitializedTells`, violated | the view `initialized` never answers 0 |
| `queue` | `TypeOK`, `KeysAreTheActiveSlots`, `ImplementsFifo`, `MalformedFailsClosed` | a ring of three slots over any number of turns, broken at any moment |
| `iterable_map` | `TypeOK`, `VectorIsDense`, `CorruptionIsContained`, `CorruptRecordStays`, `ImplementsMap` | three places, four keys, two values, the record of one key corrupted at any moment |
| `promise_joins` | `TypeOK`, `ImplementsScatterGather` | two calls of any kind, staged promise by promise and perhaps failed or stopped half way, callbacks of one child and joins of two, answers of 7, 8 and 9 bytes, any order of receipts |
| `promise_detached` | `FailedDetachedLeavesState`, violated | the caller's state is committed before its detached receipt fails |
| `gates` | `TypeOK`, `OnlyTransportFails`, `PassedRanEachOnce`, `TreeIsSorted`, `VectorKeysAreDense`, `LimbsAreNumbers`, `BuffersAreOwn`, `RegistryKeepsItsCosts`, `ScriptEnds` | sixteen gates, with any request, answer or transaction lost or late, and later callers of three contracts |
| `gates_registration` | `OnlyTransportFails`, violated | at the price the registration gate asks for, its first deposit is rejected though nothing was lost |

Bounds. Three accounts are the contract, a sender and a receiver, so every handler meets every pattern of
equal and different parties. `U128Max = 2` gives a balance that is empty, one that can be partly used, and
one at the top, where one more token overflows. Two calls in flight allow both directions between the same
accounts and two calls of the same sender; more add repetition only. `MaxEscrow` bounds the deposits
retained; `Funding` is the NEAR the contract owns besides. In `lifecycle`, the three schemas are the
Counter's, NearMigration's, and one that adds a slot and keeps the old name (so that two schemas share a
slot); the codes include one that goes back to the old schema. `U64Max = 3` leaves room for additions that
fit and additions that do not. A ring of three slots (the capacity of `NearQueue`) has an empty, a full and
a wrapped state in every position of the head; four values tell the items of a full ring and one more apart.
The map has one key more than places, so it meets a full map, a new key at the limit, and removals of the
last key, the only key and any other; the corrupt key is one of the four, and may be listed first, in the
middle, last or nowhere. A join of two children has a first and a last position, which tells a reversed or
swapped order from the right one; the code stages joins of 2 to 8 by the same steps, and a join of three or
more, with a middle position, is not run. Lengths of 7, 8 and 9 bytes are one less, equal and one more than
both the word and the buffer. The system of `PromiseJoins` ends when every call is over and every receipt
has run, so its runs do not check for deadlock. The gates run explores each script in full with a loss at
any exchange; a gate ends, so it does not check for deadlock either, and `ScriptEnds` says that it always
gets there.

Fairness. Only the gates state a liveness property. There the client is fair: its process keeps running, and
each of its requests is answered or runs into the client's own timeout. Neither the node nor any receipt is
fair, so `ScriptEnds` holds with a node that never runs anything. That a scheduled receipt is run at all, so
that a transfer call is resolved and a callback called, is the host's promise and no property of the
contracts; what they owe is that the callback, whenever it runs, cannot fail a check (`ResolverNeverPanics`)
and gives back exactly what it should (`ImplementsTokenLedger`).

### Findings

`storage_unregister` refunds the storage cost of the entry it removes. The mint entries and the
`transferCallerToSelf*` entries create entries without a deposit, so a mint followed by a forced unregister
pays out a cost that was never retained. `StoragePaidExactly` is the positive side: every other handler
keeps entries and retained cost in step.

NearMigration documents its view `initialized` as the answer to whether the `STATE` envelope exists. Its
wrapper runs the lifecycle guard first, as for every other view, and that guard panics when there is no
envelope; the answer 0 cannot be observed.

`batchCreateAccount` commits its marker and its receipt fails afterwards. The test at
`runtime-tests/near/promise.py:594-596` expects the value from two calls earlier to be still there and calls
anything else a change of the contract's state by the failed receipt; the test before it (`batchDeleteKey`,
lines 586-588) asserts the opposite for the same kind of call.

NearStorageRegistration repeats the top bit of its price in the high word
(`Examples/Near/NearStorageRegistration.lean:33`). Its gate asks for 10^19
(`runtime-tests/near/storage_registration.py:549`), which is above 2^63: the price becomes almost 2^128, no
entry can be priced, and the first `storage_deposit`, which the gate expects to succeed, is rejected. With a
price whose top bit is clear the whole gate passes (run `gates`).

## Theorems

`FungibleLedgerProofs` proves, for any finite set of accounts, any set of calls, any `U128Max`, any storage
costs and deposits:

- `TypeCorrect`: `Spec => []TypeOK`;
- `ConservationHolds`: `Spec => []Conservation`;
- `ResolverNeverPanicsHolds`: `Spec => []ResolverNeverPanics`;
- `StoragePaidHolds`: `Spec => StoragePaidExactly`.

The inductive invariant is `IInv == TypeOK /\ Conservation`. Type correctness is not inductive alone: a
transfer's sum fits in a u128 because both balances are parts of a supply that does. The argument needs
`AccountSums`: an update at one account changes the sum by the difference (`SumUpdate`), a sum of naturals
dominates any two of its terms (`SumDominatesPairs`). Both go by induction along the listing of the
accounts, which is derived from the well-foundedness of the naturals by minimal counterexample.
`ResolverNeverPanics` follows from the invariant, since a refund is a part of the receiver's balance.
`StoragePaidExactly` is proved by action: at most one account enters or leaves the map in a receipt, and the
deposit or the refund is that account's cost.

The same module proves `TokenLedgerImplemented` (`Spec => ImplementsTokenLedger`) from that invariant. There
is one lemma per receipt: a storage deposit is `Register`; an unregistration destroys what the account held;
a transfer is `Move` and a transfer call `MoveWithClaim`; the receiver's answer is `Answer` and the callback
`SettleClaim`, which gives back the whole amount for an unreadable answer; mint and burn are `Issue` and
`Destroy`. That the callback never panics, since a claim would then be closed with nothing given back, is
`ResolverNeverPanics`.

`FungibleLedgerFixturesProofs` is about the same handlers from the states the fixture entries build, in
which supply and balances need not agree and a balance may be malformed. It proves `SeededTypeCorrect`
(`FixtureSpec => []SeededTypeOK`), `SupplyMovesHolds` (`FixtureSpec => SupplyMovesWithBalances`) and
`MalformedFailsClosedHolds` (`FixtureSpec => MalformedFailsClosed`). Conservation is not available here, so
each handler is shown to be a sound move by its own checks: what it takes from one entry it gives to another
or to the supply, whatever the callback was told, and it writes no entry it could not decode. The invariant
`Seeds` is `SeededTypeOK` and the type of the calls in flight.

`EntryLifecycleProofs` proves, for any set of codes, any schemas, any constants and any leftovers, `Spec =>
[]TypeOK` (`TypeCorrect`), `Spec => []EnvelopeVouchesForSlots` (`EnvelopeVouchesHolds`), `Spec =>
KeepsTheNumber` (the wrapper implements `Register`, `KeepsTheNumberHolds`) and `Spec =>
ViewsReportTheNumber` (`ViewsReportHolds`). The inductive invariant is `TypeOK /\ EnvelopeVouchesForSlots`:
a migration reads its key without testing it, and only the invariant says that the envelope it has just
accepted vouches for that key. One lemma per action shows that the step keeps the invariant and is a step of
the register; the theorems combine them.

`RingQueueProofs` proves, for every capacity from 1 to 64 and any values, `TypeCorrect`, `KeysHold` (`Spec
=> []KeysAreTheActiveSlots`), `FifoImplemented` (`Spec => ImplementsFifo`) and `MalformedHolds` (`Spec =>
MalformedFailsClosed`). The inductive invariant joins type and keys: that a pop leaves the tail of the items
needs that every active slot is stored, and that a push leaves the other items alone needs that the physical
indices of different offsets differ.

`IterableMapProofs` proves, for every capacity from 1 to 64, any keys and values and any corrupt key,
`TypeCorrect`, `VectorStaysDense` (`Spec => []VectorIsDense`), `ContainmentHolds` (`Spec =>
[]CorruptionIsContained`), `CorruptRecordHolds` (`Spec => CorruptRecordStays`) and `MapImplemented` (`Spec
=> ImplementsMap`). The inductive invariant is type, density and containment together. That the bounded map
has room whenever the vector has needs that the sound keys are different entries of the vector, and that no
key is lost in a swap needs that the last entry's own record is sound before it moves.

`PromiseJoinsProofs` proves, for any set of calls, any fan-ins from 1 to 8, any answers and any lengths,
`SpecTypeOK` (`Spec => []TypeOK`) and `RefinesScatterGather` (`Spec => ImplementsScatterGather`). The
inductive invariant says of every call that its graph is one that an entry stages: one child, a child and
its callback, or children, a join of all of them in order and the callback of the join; that what the
running entry has staged is the beginning of such a graph; and that each promise has a result of its kind.
From it follows that the words a callback reads are the children's answers in the order of the asking.
Beginning an entry and staging a promise are stutters, `okState` is `Ask`, an entry that panics or is
stopped `Refuse`, the receipt of a child `Answer`, and the callback's `Gather`.

`CollectionGatesProofs` is about contracts without variables, for every capacity from 1 to 64, every even
`Half` from 4 and every arena. An invariant of the storage holds after `initialize` (`InitializedSorted`,
`InitializedDense`) and `Run` keeps it whatever the method, the argument and the outcome (`RunKeepsSorted`,
`RunKeepsDense`). `Sorted` says that the tree map's vector is dense and ascending and its lookup the
inverse, and `Dense` that the vector has an element under every index below its length and under no other.
`PopUndoesPush` says that a pop after a push leaves the storage as it was but for the marker. `Compares`,
`Adds`, `Subtracts` and `Multiplies` say that the emitted comparisons, carries, borrows and half-word
products compute the numbers, and that the tests for overflow tell exactly when there is no result; the
product of two words is put together from the products of their digits (`DigitProducts`), each of which
leaves room for a carry (`HalfProduct`). With `Half` = 2^32 that is the code's own width. `ReadsOwn` says of
the arena that a call of any length reads in its buffer what it set there; its invariant is that the active
buffer lies in the pages granted and holds what the operations so far mean (`Own`), and `BeginOwn`, `SetOwn`
and `FinishOwn` keep it.

`SandboxGatesProofs` is about the composition: the client, the node, what is lost in between and the
contracts. `ClientInvariant` is `Spec => []ClientInv`, where `ClientInv` has four parts: the gate is at a
step of its script and waits only at a call (`PlaceOK`); what is at the node and what ran are calls of the
script, in order when they are not caught (`TransactionsOK`, `InTurn`); no step is submitted twice and none
after the gate's place (`SentOnce`). `GatesTypeOK`, `PassedRanEachOnceHolds`, `TreeIsSortedHolds` and
`VectorKeysAreDenseHolds` follow (`Spec => []TypeOK` and so on). For the last two, the steps that touch the
gate's contract are shown to be calls that the lemmas of `CollectionGatesProofs` cover: that a transaction
that runs late still asks for a method and an argument of the script is `ClientInv`. `LimbsAreNumbersHolds`
and `BuffersAreOwnHolds` state the arithmetic and the arena there.

`RegistryKeepsItsCostsHolds` (`Spec => RegistryKeepsItsCosts`) is proved in three steps. `RegistryCallSettles`
is the law for one call of a registry: from a storage with a price, for any accounts of the gate, any amount
and deposit, a call either changes nothing and transfers nothing, or adds one account and keeps its cost, or
removes the caller and gives its cost and the yocto back, or changes no registration and keeps at most a
yocto. `RegistriesPriced` (`Spec => []RegistryInv`) says that every call meets such a storage: each registry
is uninitialised or has the price its script gave it (`GoodPrice`), and one that a transaction which ran has
initialised is not uninitialised. It needs the order of the script: `RegistrationLeads` goes through the
gate's scenes and shows that each call fits what the calls before it have made sure of, that is, calls an
initialised registry with accounts and amounts the law covers; `CallsRan`, from `ClientInv`, that the calls
before the gate's place did run. The price must also be one of those the script asks for, since the entries
that cost more than an amount can hold are refused, and the entries of the overflow scenes are written by
fixtures of the contract. `CostsTotal` then turns the law into the sum over all the names of the gate.

`SingleValueGatesPass` is `OnlyTransportFails` for five of the sixteen gates: arithmetic, memory, tokens,
economics and boolean. The argument separates the protocol from the data. A line of a script (`Follows`)
names the places the gate goes through, what the contract's storage is before each, and the keys the gate
remembers there. `FollowingGatesPass` says of any gate over a flat storage that, if its script has a line,
the gate fails only when something was lost: the invariant `LineInv` says that the gate is at a place of the
line, and the storage is the one before that place, or the one after it once the transaction has run and
before its answer arrived. What remains is to give each script its line. `Carries` says that a part of a
script leads from one storage to another; parts are joined by `CarriesJoins`, and a `try` by `TryCarries`.
The storages need not be written down: `TokenPuts` and `RecordWrites` say what every call of a kind leaves.
For the arithmetic gate the answers are computed for every `Half` (`AdditionsAnswer`, `SubtractionsAnswer`,
`ProductsAnswer`), so also at 2^32, which no run can reach. For the memory gate the arena is any with room
for two of the largest buffers, of 4 cells at least (`ArenaRoomy`): without that room `growAndReuse` traps.

Assumptions. The ledger's constants are what the comments of `FungibleLedger` say (`ConstantsAssumption`,
`SentinelsAssumption`, `NoCallAssumption`), the accounts are finite (`AccountsFinite`), and the seeds are
amounts that leave room for their sum, their receivers other accounts than the contract (`SeedsAssumption`).
The lifecycle has `VersionsAssumption` and `LeftoversAssumption` (what the constants are; a migration
migrates from another schema than its own). The collections have `CapacityAssumption` (1 to 64, the profile
the SDK accepts), `BrokenAssumption` (`Broken` is no list of items) and `CorruptAssumption` (the corrupt
record is one of the map's). The promises have `PromiseAssumption` (fan-ins from 1 to 8, and what tells an
answer from none). The gates have `HalfAssumption`, `ArenaAssumption` and `LimbAssumption` (what the
constants are), `PollsAssumption`, and `ScriptsAssumption`: every `except` of a script jumps within it and
over nothing but the rest of its `try`. The scripts are constants, so TLC evaluates that for each of them.
Nothing is assumed about digests but that the schemas have their own.

Model-checked only. `ScriptEnds` is liveness under fairness, beyond the prover. `OnlyTransportFails` is
model-checked for the sixteen gates and proved for five. Of the others, vector, tree map, lazy, lookup and
storage are gates that `FollowingGatesPass` covers once their scripts have a line, which is an execution of
some fifty calls each, as TLC does it. The yield gate is outside that theorem, since its answer comes from a
later receipt, and so are the queue, iterable, counter, ledger and registration gates, whose contracts are
not functions of one storage and one argument. The queue, the iterable map and the ledger run the actions of
their own modules, and whether a call is rejected there is `ENABLED` of an action, which the prover cannot
reason about.

## Not modelled

- Control-flow graph passes (`ProofForge/Core/CFG.lean`). They are pure functions over a syntax tree. To say
  that lowering or the removal of common subexpressions keeps a program's meaning takes an interpreter of
  the source operations as long as the passes, and TLC would try only the small programs it enumerates.
- Core IR, layout and projection; extraction of Lean definitions. Translations between data types, covered
  by the compiler's decoding tests. What `Near/IR.lean` demands of a program (a migration's schemas, the
  initializer) is an assumption of `EntryLifecycle`.
- Text emission and the JSON and Borsh codecs. What the emitted text does at run time is what the models of
  the wrapper, the collections, the promises, the arena and the arithmetic are about; the byte forms of
  inputs and answers are not modelled, and an input of a gate is readable or not.
- Assembly and `pf build`. One process that writes files in a fixed order; what a failed build leaves is the
  file system's.
- The gates of codecs, cryptography, context and chain values, which compare the bytes of single calls;
  `promise.py`, whose expectation of 94 the code contradicts (run `promise_detached`) and whose contract is
  `PromiseJoins`; `observation_v1.py`.
- Of the promises: the batch actions other than a call and `create_account`, the quoted-u128 decoder, joins
  through promise handles (their depth and fan-in are fixed when the contract is compiled), and a yielded
  receipt that is resumed: the gate calls `resumeYield` with an id that is rejected, so the receipt of the
  model always times out.
- The tree map's `put` and `remove` of the library, which no contract of the repository calls.
- Balances of accounts, gas, prices of execution, and the layout of keys and values in bytes.
- Hashes, the repository's checking scripts, and the examples that use no operation the modelled ones lack.

## What is left

Joins of three and more children in a run (the theorem covers them); the output buffers of the arena; lines
for the scripts of the other flat gates, which `FollowingGatesPass` would turn into theorems.
