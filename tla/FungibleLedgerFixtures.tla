------------------------ MODULE FungibleLedgerFixtures ------------------------
(***************************************************************************)
(* The contract with its fixture entries, which put the ledger into states *)
(* the NEP-141/145 entries never reach: malformed values, a supply that    *)
(* does not match the balances, and resolver callbacks without the         *)
(* transfer they pretend to resolve.  The handlers have to fail closed.    *)
(***************************************************************************)
EXTENDS FungibleLedger

CONSTANTS
  SenderSeed,       \* the balance the seeds give a sender (2)
  ReceiverSeed,     \* the balance the seeds give a receiver (7)
  CallerSeed,       \* the balance fixtureTransferCall gives its caller (2^64 + 1)
  ShortSeed,        \* the balance fixturePutShortNoSupply gives its account (2^64 + 3)
  Receivers,        \* the accounts it registers
  ScheduledAmount,  \* the amount the scheduled callbacks claim was transferred (10)
  Absent            \* a seed removes the entry

ASSUME SeedsAssumption ==
  /\ {SenderSeed, ReceiverSeed, SenderSeed + ReceiverSeed} \subseteq Amount
  /\ {CallerSeed, ShortSeed, ScheduledAmount} \subseteq Amount
  /\ Receivers \subseteq Accounts \ {Self}
  /\ Absent \notin Amount

Seeded(map, a, value) == IF value = Absent THEN Remove(map, a) ELSE Put(map, a, value)

Others == Accounts \ {Self}

\* seedSelfMalformed8/20, fixturePutSelf*NoSupply; fixturePutShort/MaxAccountNoSupply.
PutSeeds == ({Self} \X {0, 1, U128Max, Malformed}) \cup (Others \X {ShortSeed, U128Max})

\* One entry is written, the supply stays.
fixturePutNoSupply(a, value) ==
  /\ balances' = Put(balances, a, value)
  /\ UNCHANGED <<supply, escrow, calls>>

fixtureRemoveViewAccounts(short, maximum) ==
  /\ balances' = Remove(Remove(balances, short), maximum)
  /\ UNCHANGED <<supply, escrow, calls>>

fixtureSetSupplyMax ==
  /\ supply' = U128Max
  /\ UNCHANGED <<balances, escrow, calls>>

\* fixtureResetSelf, fixtureResetCaller.
fixtureReset(a) ==
  /\ balances' = Remove(balances, a)
  /\ supply' = 0
  /\ UNCHANGED <<escrow, calls>>

\* The pairs the fixtureResolver* and fixtureChain* entries write, with the supply.
ResolverSeeds ==
  { <<SenderSeed, ReceiverSeed, SenderSeed + ReceiverSeed>>,  \* Present
    <<Absent, ReceiverSeed, ReceiverSeed>>,                   \* MissingSender
    <<SenderSeed, Absent, SenderSeed>>,                       \* MissingReceiver
    <<SenderSeed, 0, SenderSeed>>,                            \* ReceiverZero
    <<U128Max, 1, U128Max>>,                                  \* SenderMax
    <<Absent, 1, 0>>,                                         \* SupplyUnderflow
    <<SenderSeed, Malformed, SenderSeed>>,                    \* MalformedReceiver
    <<Malformed, 1, 1>>,                                      \* MalformedSender
    <<Absent, Absent, 0>> }                                   \* ResetResolver

fixtureResolver(sender, receiver, seed) ==
  /\ balances' = Seeded(Seeded(balances, sender, seed[1]), receiver, seed[2])
  /\ supply' = seed[3]
  /\ UNCHANGED <<escrow, calls>>

\* A caller with tokens and receivers with present zeroes.
fixtureTransferCall(caller) ==
  /\ balances' = [a \in DOMAIN balances \cup Receivers \cup {caller} |->
       IF a \in Receivers THEN 0 ELSE IF a = caller THEN CallerSeed ELSE balances[a]]
  /\ supply' = CallerSeed
  /\ UNCHANGED <<escrow, calls>>

\* resolveUnused*, resolveMalformed/Oversized/Failed: a child with a fixed answer, then the callback.
scheduleResolver(c, sender, receiver, result) ==
  /\ calls[c] = NoCall
  /\ calls' = [calls EXCEPT ![c] =
       [sender |-> sender, receiver |-> receiver, amount |-> ScheduledAmount, result |-> result]]
  /\ UNCHANGED <<supply, balances, escrow>>

\* chainPartial/Full/Malformed/Failed: ft_on_transfer and the callback, no transfer.
chain(c, sender, receiver) == scheduleResolver(c, sender, receiver, Pending)

SeedStep ==
  \/ \E seed \in PutSeeds : fixturePutNoSupply(seed[1], seed[2])
  \/ fixtureSetSupplyMax
  \/ \E a \in Accounts : fixtureReset(a) \/ fixtureTransferCall(a)
  \/ \E one, other \in Others :
       /\ one # other
       /\ \/ fixtureRemoveViewAccounts(one, other)
          \/ \E seed \in ResolverSeeds : fixtureResolver(one, other, seed)

ScheduleStep ==
  \E c \in Calls, sender \in Accounts, receiver \in Others :
    /\ sender # receiver
    /\ \/ \E result \in Results : scheduleResolver(c, sender, receiver, result)
       \/ chain(c, sender, receiver)

FixtureNext == Next \/ SeedStep \/ ScheduleStep

FixtureSpec == Init /\ [][FixtureNext]_vars

-----------------------------------------------------------------------------
\* From any seeded state, every handler leaves values a u128 can hold: none wraps.
SeededTypeOK ==
  /\ supply \in Amount
  /\ \A a \in DOMAIN balances : balances[a] \in Amount \cup {Malformed}
  /\ \A c \in Calls : calls[c] \in CallRecord \cup {NoCall}

\* A malformed entry counts as nothing.
SoundHolding == [a \in Accounts |-> IF ReadWasValidPresent(a) THEN balances[a] ELSE 0]

\* From any seeded state, even an inconsistent one, a handler changes the supply by exactly
\* what it changes the balances: callbacks without a transfer included.
SupplyMovesWithBalances ==
  [][SeedStep \/ supply' - supply = SumOver(SoundHolding') - SumOver(SoundHolding)]_vars

\* A malformed entry is never overwritten nor removed by a handler; only the seeds touch it.
MalformedFailsClosed ==
  [][SeedStep \/ \A a \in DOMAIN balances :
       balances[a] = Malformed => a \in DOMAIN balances' /\ balances'[a] = Malformed]_vars
==============================================================================
