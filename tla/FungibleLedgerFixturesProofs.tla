---------------------- MODULE FungibleLedgerFixturesProofs ----------------------
(***************************************************************************)
(* From any state the fixture entries seed, every handler keeps every      *)
(* value within a u128, moves the supply with the balances, and leaves     *)
(* malformed entries alone: here no sum bounds the balances, so each step  *)
(* rests on the checks of its handler.                                     *)
(***************************************************************************)
EXTENDS FungibleLedgerFixtures, FungibleLedgerProofs

\* A seeded storage map, and what its accounts hold.
IsSeeded(m) ==
  /\ DOMAIN m \subseteq Accounts
  /\ \A a \in DOMAIN m : m[a] \in Amount \cup {Malformed}

Sound(m) == [a \in Accounts |-> IF a \in DOMAIN m /\ m[a] # Malformed THEN m[a] ELSE 0]

IsMalformed(m, a) == a \in DOMAIN m /\ m[a] = Malformed

\* No malformed entry is written.
KeepsMalformed(m, n) == \A a \in DOMAIN m : m[a] = Malformed => a \in DOMAIN n /\ n[a] = Malformed

LEMMA MalformedIsNoAmount == Malformed \notin Amount /\ Malformed \notin Int
BY SentinelsAssumption, AmountIsNat

LEMMA SoundHoldingIsSound == SoundHolding = Sound(balances)
BY DEF SoundHolding, Sound, ReadWasValidPresent

LEMMA SoundType ==
  ASSUME NEW m, IsSeeded(m)
  PROVE  /\ Sound(m) \in [Accounts -> Nat]
         /\ \A a \in Accounts : Sound(m)[a] \in Amount
         /\ SumOver(Sound(m)) \in Int
<1>1. \A a \in Accounts : Sound(m)[a] \in Amount
  BY AmountIsNat DEF IsSeeded, Sound
<1>2. Sound(m) \in [Accounts -> Nat] /\ Sound(m) \in [Accounts -> Int]
  BY <1>1, AmountIsNat DEF Sound
<1>3. Self \in Accounts
  BY ConstantsAssumption
<1> QED
  BY <1>1, <1>2, <1>3, 0 \in Int, SumUpdate

\* Writing an amount over a missing or a sound entry.
LEMMA PutSound ==
  ASSUME NEW m, IsSeeded(m), NEW a \in Accounts, ~ IsMalformed(m, a), NEW v \in Amount
  PROVE  /\ IsSeeded(Put(m, a, v))
         /\ KeepsMalformed(m, Put(m, a, v))
         /\ \A b : IsMalformed(Put(m, a, v), b) => IsMalformed(m, b)
         /\ Sound(Put(m, a, v)) = [Sound(m) EXCEPT ![a] = v]
         /\ SumOver(Sound(Put(m, a, v))) = SumOver(Sound(m)) - Sound(m)[a] + v
<1>1. IsSeeded(Put(m, a, v)) /\ KeepsMalformed(m, Put(m, a, v))
  BY DEF IsSeeded, Put, KeepsMalformed, IsMalformed
<1>2. Sound(Put(m, a, v)) = [Sound(m) EXCEPT ![a] = v]
  BY MalformedIsNoAmount DEF IsSeeded, Put, Sound
<1>3. Sound(m) \in [Accounts -> Int] /\ v \in Int
  BY SoundType, AmountIsNat
<1>4. \A b : IsMalformed(Put(m, a, v), b) => IsMalformed(m, b)
  BY MalformedIsNoAmount DEF IsMalformed, Put
<1> QED
  BY <1>1, <1>2, <1>3, <1>4, SumUpdate

LEMMA RemoveSound ==
  ASSUME NEW m, IsSeeded(m), NEW a \in Accounts, ~ IsMalformed(m, a)
  PROVE  /\ IsSeeded(Remove(m, a))
         /\ KeepsMalformed(m, Remove(m, a))
         /\ \A b : IsMalformed(Remove(m, a), b) => IsMalformed(m, b)
         /\ Sound(Remove(m, a)) = [Sound(m) EXCEPT ![a] = 0]
         /\ SumOver(Sound(Remove(m, a))) = SumOver(Sound(m)) - Sound(m)[a]
<1>1. IsSeeded(Remove(m, a)) /\ KeepsMalformed(m, Remove(m, a))
  BY DEF IsSeeded, Remove, KeepsMalformed, IsMalformed
<1>2. Sound(Remove(m, a)) = [Sound(m) EXCEPT ![a] = 0]
  BY DEF IsSeeded, Remove, Sound
<1>3. Sound(m) \in [Accounts -> Int] /\ 0 \in Int /\ Sound(m)[a] \in Int /\ SumOver(Sound(m)) \in Int
  BY SoundType
<1>4. SumOver([Sound(m) EXCEPT ![a] = 0]) = SumOver(Sound(m)) - Sound(m)[a] + 0
  BY <1>3, SumUpdate
<1>5. \A b : IsMalformed(Remove(m, a), b) => IsMalformed(m, b)
  BY DEF IsMalformed, Remove
<1> QED
  BY <1>1, <1>2, <1>3, <1>4, <1>5

\* Two writes over sound entries: the sum moves by the two differences.
LEMMA PutTwiceSound ==
  ASSUME NEW m, IsSeeded(m), NEW a \in Accounts, NEW b \in Accounts, a # b,
         ~ IsMalformed(m, a), ~ IsMalformed(m, b), NEW x \in Amount, NEW y \in Amount
  PROVE  /\ IsSeeded(Put(Put(m, a, x), b, y))
         /\ KeepsMalformed(m, Put(Put(m, a, x), b, y))
         /\ SumOver(Sound(Put(Put(m, a, x), b, y)))
              = SumOver(Sound(m)) - Sound(m)[a] + x - Sound(m)[b] + y
<1> DEFINE p == Put(m, a, x)
<1>1. /\ IsSeeded(p) /\ KeepsMalformed(m, p) /\ ~ IsMalformed(p, b)
      /\ Sound(p) = [Sound(m) EXCEPT ![a] = x]
      /\ SumOver(Sound(p)) = SumOver(Sound(m)) - Sound(m)[a] + x
  BY PutSound
<1>2. Sound(p)[b] = Sound(m)[b]
  BY <1>1 DEF Sound
<1>3. /\ SumOver(Sound(m)) \in Int /\ Sound(m)[a] \in Int /\ Sound(m)[b] \in Int
      /\ x \in Int /\ y \in Int
  BY SoundType, AmountIsNat
<1> HIDE DEF p
<1>4. /\ IsSeeded(Put(p, b, y)) /\ KeepsMalformed(p, Put(p, b, y))
      /\ SumOver(Sound(Put(p, b, y))) = SumOver(Sound(p)) - Sound(p)[b] + y
  <2>1. IsSeeded(p) /\ ~ IsMalformed(p, b)
    BY <1>1
  <2> QED
    BY ONLY <2>1, PutSound, b \in Accounts, y \in Amount
<1>5. KeepsMalformed(m, Put(p, b, y))
  BY <1>1, <1>4 DEF KeepsMalformed
<1>6. SumOver(Sound(Put(p, b, y))) = SumOver(Sound(m)) - Sound(m)[a] + x - Sound(m)[b] + y
  BY <1>1, <1>2, <1>3, <1>4
<1> QED
  BY <1>4, <1>5, <1>6 DEF p

-----------------------------------------------------------------------------
\* The type invariant, with the domains the step lemmas need.
Seeds ==
  /\ IsSeeded(balances)
  /\ supply \in Amount
  /\ calls \in [Calls -> CallRecord \cup {NoCall}]

\* What a handler may do to the ledger.
SoundMove ==
  /\ IsSeeded(balances')
  /\ supply' \in Amount
  /\ supply' - supply = SumOver(Sound(balances')) - SumOver(Sound(balances))
  /\ KeepsMalformed(balances, balances')

\* What the checks of a handler say of an entry: LoadedValid and ReadWasValidPresent.
LEMMA LoadedFacts ==
  ASSUME Seeds, NEW a \in Accounts
  PROVE  /\ LoadedValid(a) <=> ~ IsMalformed(balances, a)
         /\ ReadWasValidPresent(a) => LoadedValid(a) /\ balances[a] = Loaded(a)
         /\ LoadedValid(a) => Loaded(a) = Sound(balances)[a] /\ Loaded(a) \in Amount
<1>1. Sound(balances)[a] = IF a \in DOMAIN balances /\ balances[a] # Malformed THEN balances[a] ELSE 0
  BY DEF Sound
<1>2. a \in DOMAIN balances => balances[a] \in Amount \cup {Malformed}
  BY DEF Seeds, IsSeeded
<1>3. 0 \in Amount
  BY AmountIsNat
<1> QED
  BY <1>1, <1>2, <1>3 DEF LoadedValid, IsMalformed, ReadWasValidPresent, ReadWasMissing, Loaded

LEMMA Idle ==
  ASSUME Seeds, balances' = balances, supply' = supply
  PROVE  SoundMove
<1>1. supply \in Nat /\ SumOver(Sound(balances)) \in Int
  BY SoundType, AmountIsNat DEF Seeds
<1> QED
  BY <1>1 DEF Seeds, SoundMove, KeepsMalformed

LEMMA StorageDepositSound ==
  ASSUME Seeds, NEW account \in Accounts, NEW deposit, storage_deposit(account, deposit)
  PROVE  SoundMove
<1>1. supply' = supply /\ LoadedValid(account)
  BY DEF storage_deposit
<1>2. CASE ReadWasMissing(account)
  <2>1. balances' = Put(balances, account, 0) /\ Loaded(account) = 0 /\ 0 \in Amount
    BY <1>2, AmountIsNat DEF storage_deposit, ReadWasMissing, Loaded
  <2>2. ~ IsMalformed(balances, account) /\ Sound(balances)[account] = 0
    BY <1>1, <2>1, LoadedFacts
  <2>3. /\ IsSeeded(balances') /\ KeepsMalformed(balances, balances')
        /\ SumOver(Sound(balances')) = SumOver(Sound(balances)) - Sound(balances)[account] + 0
    BY <2>1, <2>2, PutSound DEF Seeds
  <2>4. SumOver(Sound(balances)) \in Int /\ supply \in Amount /\ supply \in Nat
    BY SoundType, AmountIsNat DEF Seeds
  <2> QED
    BY <1>1, <2>2, <2>3, <2>4 DEF SoundMove
<1>3. CASE ~ ReadWasMissing(account)
  BY <1>1, <1>3, Idle DEF storage_deposit
<1> QED
  BY <1>2, <1>3

LEMMA StorageUnregisterSound ==
  ASSUME Seeds, NEW caller \in Accounts, NEW force, storage_unregister(caller, force)
  PROVE  SoundMove
<1>1. /\ ReadWasValidPresent(caller) /\ balances[caller] <= supply
      /\ supply' = supply - balances[caller] /\ balances' = Remove(balances, caller)
  BY DEF storage_unregister, CanSub
<1>2. /\ ~ IsMalformed(balances, caller) /\ balances[caller] = Sound(balances)[caller]
      /\ balances[caller] \in Amount
  BY <1>1, LoadedFacts
<1>3. /\ IsSeeded(balances') /\ KeepsMalformed(balances, balances')
      /\ SumOver(Sound(balances')) = SumOver(Sound(balances)) - Sound(balances)[caller]
  BY <1>1, <1>2, RemoveSound DEF Seeds
<1>4. /\ SumOver(Sound(balances)) \in Int /\ supply \in Nat /\ supply <= U128Max
      /\ balances[caller] \in Nat /\ U128Max \in Nat
  BY <1>2, SoundType, AmountIsNat DEF Seeds
<1>5. supply' \in Amount
  BY <1>1, <1>4, AmountIsNat
<1> QED
  BY <1>1, <1>2, <1>3, <1>4, <1>5 DEF SoundMove

\* What one entry loses and another gains moves no sum.
LEMMA ExchangeSound ==
  ASSUME Seeds, NEW a \in Accounts, NEW b \in Accounts, a # b, NEW n \in Amount,
         LoadedValid(a), LoadedValid(b), n <= Loaded(a), Loaded(b) + n <= U128Max,
         balances' = Put(Put(balances, a, Loaded(a) - n), b, Loaded(b) + n), supply' = supply
  PROVE  SoundMove
<1> DEFINE x == Loaded(a) - n
           y == Loaded(b) + n
<1>1. /\ ~ IsMalformed(balances, a) /\ ~ IsMalformed(balances, b)
      /\ Loaded(a) = Sound(balances)[a] /\ Loaded(b) = Sound(balances)[b]
      /\ Loaded(a) \in Amount /\ Loaded(b) \in Amount
  BY LoadedFacts
<1>2. Loaded(a) \in Nat /\ Loaded(b) \in Nat /\ n \in Nat /\ Loaded(a) <= U128Max /\ U128Max \in Nat
  BY <1>1, AmountIsNat
<1>3. x \in Nat /\ y \in Nat /\ x <= U128Max /\ y <= U128Max
  BY <1>2
<1>4. x \in Amount /\ y \in Amount
  BY <1>3, AmountIsNat
<1>5. balances' = Put(Put(balances, a, x), b, y)
  OBVIOUS
<1>6. /\ IsSeeded(balances') /\ KeepsMalformed(balances, balances')
      /\ SumOver(Sound(balances'))
           = SumOver(Sound(balances)) - Sound(balances)[a] + x - Sound(balances)[b] + y
  <2> HIDE DEF x, y
  <2> QED
    BY <1>1, <1>4, <1>5, PutTwiceSound DEF Seeds
<1>7. SumOver(Sound(balances)) \in Int /\ supply \in Nat /\ supply \in Amount
  BY SoundType, AmountIsNat DEF Seeds
<1>8. SumOver(Sound(balances')) = SumOver(Sound(balances))
  BY <1>1, <1>2, <1>6, <1>7
<1> QED
  BY <1>6, <1>7, <1>8 DEF SoundMove

LEMMA MovedSound ==
  ASSUME Seeds, NEW sender \in Accounts, NEW receiver \in Accounts, NEW amount \in TransferAmounts,
         TransferOk(sender, receiver, amount), balances' = Moved(sender, receiver, amount),
         supply' = supply
  PROVE  SoundMove
<1>1. /\ amount \in Amount /\ sender # receiver
      /\ ReadWasValidPresent(sender) /\ ReadWasValidPresent(receiver)
      /\ amount <= balances[sender] /\ Loaded(receiver) + amount <= U128Max
  BY ConstantsAssumption DEF TransferOk, DistinctParties, MayReceive, CanSub, CanAdd
<1>2. LoadedValid(sender) /\ LoadedValid(receiver) /\ balances[sender] = Loaded(sender)
  BY <1>1, LoadedFacts
<1>3. balances' = Put(Put(balances, sender, Loaded(sender) - amount),
                      receiver, Loaded(receiver) + amount)
  BY <1>2 DEF Moved
<1> QED
  BY <1>1, <1>2, <1>3, ExchangeSound

\* The refund is at most what the receiver holds, whatever claims the callback was given.
LEMMA SeededRefund ==
  ASSUME Seeds, NEW call \in CallRecord, call.result # Pending, LoadedValid(call.receiver)
  PROVE  /\ Refund(call) \in Amount
         /\ Refund(call) <= Loaded(call.receiver)
         /\ Refund(call) > 0 => balances[call.receiver] = Loaded(call.receiver)
<1>1. /\ call.amount \in Nat /\ call.amount <= U128Max /\ call.receiver \in Accounts
      /\ call.result = Invalid \/ call.result \in Nat
  BY AmountIsNat DEF CallRecord, Results
<1>2. Unused(call) \in Nat /\ Unused(call) <= call.amount
  BY <1>1 DEF Unused, Lesser
<1>3. Loaded(call.receiver) \in Nat
  BY <1>1, LoadedFacts, AmountIsNat
<1>4. /\ Refund(call) \in Nat /\ Refund(call) <= call.amount
      /\ Refund(call) <= Loaded(call.receiver)
  BY <1>2, <1>3, <1>1 DEF Refund, Lesser
<1>5. Loaded(call.receiver) > 0 => balances[call.receiver] = Loaded(call.receiver)
  BY DEF Loaded
<1> QED
  BY <1>1, <1>3, <1>4, <1>5, AmountIsNat

LEMMA ResolveToSenderSound ==
  ASSUME Seeds, NEW call \in CallRecord, call.result # Pending,
         ResolveOk(call), ResolveToSender(call)
  PROVE  SoundMove
<1>1. /\ call.sender \in Accounts /\ call.receiver \in Accounts /\ call.sender # call.receiver
      /\ LoadedValid(call.receiver) /\ ReadWasValidPresent(call.sender) /\ Refund(call) > 0
  BY DEF CallRecord, ResolveOk, ResolveToSender
<1>2. /\ Refund(call) \in Amount /\ Refund(call) <= Loaded(call.receiver)
      /\ balances[call.receiver] = Loaded(call.receiver)
      /\ LoadedValid(call.sender) /\ balances[call.sender] = Loaded(call.sender)
  BY <1>1, SeededRefund, LoadedFacts
<1>3. Loaded(call.sender) + Refund(call) <= U128Max
  BY <1>1, <1>2 DEF ResolveOk, ReadWasMissing, ReadWasValidPresent, CanAdd
<1>4. /\ balances' = Put(Put(balances, call.receiver, Loaded(call.receiver) - Refund(call)),
                      call.sender, Loaded(call.sender) + Refund(call))
      /\ supply' = supply
  BY <1>2 DEF ResolveToSender, Refunded
<1> DEFINE r == Refund(call)
           a == call.receiver
           b == call.sender
<1>5. /\ a \in Accounts /\ b \in Accounts /\ a # b /\ r \in Amount
      /\ LoadedValid(a) /\ LoadedValid(b) /\ r <= Loaded(a) /\ Loaded(b) + r <= U128Max
      /\ balances' = Put(Put(balances, a, Loaded(a) - r), b, Loaded(b) + r) /\ supply' = supply
  BY <1>1, <1>2, <1>3, <1>4
<1> HIDE DEF r, a, b
<1> QED
  BY <1>5, ExchangeSound

LEMMA ResolveByBurningSound ==
  ASSUME Seeds, NEW call \in CallRecord, call.result # Pending,
         ResolveOk(call), ResolveByBurning(call)
  PROVE  SoundMove
<1> DEFINE r == Refund(call)
           a == call.receiver
           v == Loaded(a) - r
<1>1. a \in Accounts /\ LoadedValid(a) /\ r > 0 /\ ReadWasMissing(call.sender)
  BY DEF CallRecord, ResolveOk, ResolveByBurning
<1>2. r \in Amount /\ r <= Loaded(a) /\ balances[a] = Loaded(a)
  BY <1>1, SeededRefund
<1>3. r <= supply
  BY <1>1 DEF ResolveOk, CanSub, ReadWasMissing, ReadWasValidPresent
<1>4. balances' = Put(balances, a, v) /\ supply' = supply - r
  BY <1>2 DEF ResolveByBurning, Burned
<1>5. ~ IsMalformed(balances, a) /\ Loaded(a) = Sound(balances)[a] /\ Loaded(a) \in Amount
  BY <1>1, LoadedFacts
<1>6. /\ Loaded(a) \in Nat /\ Loaded(a) <= U128Max /\ r \in Nat /\ U128Max \in Nat
      /\ supply \in Nat /\ supply <= U128Max /\ SumOver(Sound(balances)) \in Int
  BY <1>2, <1>5, AmountIsNat, SoundType DEF Seeds
<1>7. v \in Nat /\ v <= U128Max /\ supply' \in Nat /\ supply' <= U128Max
  <2> HIDE DEF r, a
  <2> QED
    BY <1>2, <1>3, <1>4, <1>6
<1>8. v \in Amount /\ supply' \in Amount
  BY <1>7, AmountIsNat
<1>9. /\ IsSeeded(balances') /\ KeepsMalformed(balances, balances')
      /\ SumOver(Sound(balances')) = SumOver(Sound(balances)) - Sound(balances)[a] + v
  <2> HIDE DEF r, a, v
  <2> QED
    BY <1>1, <1>4, <1>5, <1>8, PutSound DEF Seeds
<1> HIDE DEF r, a
<1>10. supply' - supply = SumOver(Sound(balances')) - SumOver(Sound(balances))
  BY <1>4, <1>5, <1>6, <1>9
<1> QED
  BY <1>8, <1>9, <1>10 DEF SoundMove

LEMMA MintSound ==
  ASSUME Seeds, NEW owner \in Accounts, NEW amount \in FixtureAmounts, mint(owner, amount)
  PROVE  SoundMove
<1> DEFINE v == Loaded(owner) + amount
<1>1. /\ LoadedValid(owner) /\ v <= U128Max /\ supply + amount <= U128Max
      /\ balances' = Put(balances, owner, v) /\ supply' = supply + amount
  BY DEF mint, MintFits, CanAdd
<1>2. ~ IsMalformed(balances, owner) /\ Loaded(owner) = Sound(balances)[owner] /\ Loaded(owner) \in Amount
  BY <1>1, LoadedFacts
<1>3. /\ Loaded(owner) \in Nat /\ amount \in Nat /\ supply \in Nat
      /\ SumOver(Sound(balances)) \in Int /\ U128Max \in Nat
  BY <1>2, AmountIsNat, SoundType, ConstantsAssumption DEF Seeds
<1>4. v \in Amount /\ supply' \in Amount
  BY <1>1, <1>3, AmountIsNat
<1>5. /\ IsSeeded(balances') /\ KeepsMalformed(balances, balances')
      /\ SumOver(Sound(balances')) = SumOver(Sound(balances)) - Sound(balances)[owner] + v
  <2> HIDE DEF v
  <2> QED
    BY <1>1, <1>2, <1>4, PutSound DEF Seeds
<1>6. supply' - supply = SumOver(Sound(balances')) - SumOver(Sound(balances))
  BY <1>1, <1>2, <1>3, <1>5
<1> QED
  BY <1>4, <1>5, <1>6 DEF SoundMove

\* Taking amount from a sound entry, removing it at zero.
LEMMA DebitedSound ==
  ASSUME Seeds, NEW owner \in Accounts, LoadedValid(owner), NEW amount \in Amount,
         amount <= Loaded(owner)
  PROVE  /\ IsSeeded(Debited(owner, amount))
         /\ KeepsMalformed(balances, Debited(owner, amount))
         /\ \A b : IsMalformed(Debited(owner, amount), b) => IsMalformed(balances, b)
         /\ \A b \in Accounts \ {owner} : Sound(Debited(owner, amount))[b] = Sound(balances)[b]
         /\ SumOver(Sound(Debited(owner, amount))) = SumOver(Sound(balances)) - amount
<1> DEFINE v == Loaded(owner) - amount
           d == Debited(owner, amount)
<1>1. /\ IsSeeded(balances) /\ ~ IsMalformed(balances, owner)
      /\ Loaded(owner) = Sound(balances)[owner] /\ Loaded(owner) \in Amount
  BY LoadedFacts DEF Seeds
<1>2. /\ Loaded(owner) \in Nat /\ Loaded(owner) <= U128Max /\ amount \in Nat
      /\ SumOver(Sound(balances)) \in Int /\ U128Max \in Nat
      /\ Sound(balances) \in [Accounts -> Nat]
  BY <1>1, AmountIsNat, SoundType
<1>3. v \in Amount
  BY <1>2, AmountIsNat
<1>4. CASE Loaded(owner) = amount
  <2>1. d = Remove(balances, owner)
    BY <1>4 DEF Debited
  <2>2. /\ IsSeeded(d) /\ KeepsMalformed(balances, d)
        /\ \A b : IsMalformed(d, b) => IsMalformed(balances, b)
        /\ Sound(d) = [Sound(balances) EXCEPT ![owner] = 0]
        /\ SumOver(Sound(d)) = SumOver(Sound(balances)) - Sound(balances)[owner]
    BY <1>1, <2>1, RemoveSound
  <2>3. \A b \in Accounts \ {owner} : Sound(d)[b] = Sound(balances)[b]
    BY <1>2, <2>2
  <2> QED
    BY <1>1, <1>4, <2>2, <2>3
<1>5. CASE Loaded(owner) # amount
  <2>1. d = Put(balances, owner, v)
    BY <1>5 DEF Debited
  <2>2. /\ IsSeeded(d) /\ KeepsMalformed(balances, d)
        /\ \A b : IsMalformed(d, b) => IsMalformed(balances, b)
        /\ Sound(d) = [Sound(balances) EXCEPT ![owner] = v]
        /\ SumOver(Sound(d)) = SumOver(Sound(balances)) - Sound(balances)[owner] + v
    <3> HIDE DEF v, d
    <3> QED
      BY <1>1, <1>3, <2>1, PutSound
  <2>3. \A b \in Accounts \ {owner} : Sound(d)[b] = Sound(balances)[b]
    <3> HIDE DEF v, d
    <3> QED
      BY <1>2, <2>2
  <2>4. SumOver(Sound(d)) = SumOver(Sound(balances)) - amount
    <3> HIDE DEF d
    <3> QED
      BY <1>1, <1>2, <2>2
  <2> QED
    BY <2>2, <2>3, <2>4
<1> QED
  BY <1>4, <1>5

LEMMA BurnSound ==
  ASSUME Seeds, NEW owner \in Accounts, NEW amount \in FixtureAmounts, burn(owner, amount)
  PROVE  SoundMove
<1>1. /\ LoadedValid(owner) /\ amount \in Amount /\ amount <= Loaded(owner) /\ amount <= supply
      /\ balances' = Debited(owner, amount) /\ supply' = supply - amount
  BY ConstantsAssumption DEF burn, CanSub
<1>2. /\ IsSeeded(balances') /\ KeepsMalformed(balances, balances')
      /\ SumOver(Sound(balances')) = SumOver(Sound(balances)) - amount
  BY <1>1, DebitedSound
<1>3. /\ amount \in Nat /\ supply \in Nat /\ supply <= U128Max /\ U128Max \in Nat
      /\ SumOver(Sound(balances)) \in Int
  BY <1>1, AmountIsNat, SoundType DEF Seeds
<1>4. supply' \in Amount
  BY <1>1, <1>3, AmountIsNat
<1> QED
  BY <1>1, <1>2, <1>3, <1>4 DEF SoundMove

LEMMA TransferSound ==
  ASSUME Seeds, NEW source \in Accounts, NEW destination \in Accounts,
         NEW amount \in FixtureAmounts, transfer(source, destination, amount)
  PROVE  SoundMove
<1> DEFINE d == Debited(source, amount)
           v == Loaded(destination) + amount
<1>1. /\ amount \in Amount /\ amount <= Loaded(source) /\ source # destination
      /\ LoadedValid(source) /\ LoadedValid(destination) /\ v <= U128Max
      /\ balances' = Put(d, destination, v) /\ supply' = supply
  BY ConstantsAssumption DEF transfer, CanSub, CanAdd
<1>2. /\ IsSeeded(d) /\ KeepsMalformed(balances, d)
      /\ \A b : IsMalformed(d, b) => IsMalformed(balances, b)
      /\ Sound(d)[destination] = Sound(balances)[destination]
      /\ SumOver(Sound(d)) = SumOver(Sound(balances)) - amount
  BY <1>1, DebitedSound
<1>3. /\ ~ IsMalformed(balances, destination) /\ Loaded(destination) = Sound(balances)[destination]
      /\ Loaded(destination) \in Amount
  BY <1>1, LoadedFacts
<1>4. /\ Loaded(destination) \in Nat /\ amount \in Nat /\ U128Max \in Nat
      /\ SumOver(Sound(balances)) \in Int /\ supply \in Amount /\ supply \in Nat
  BY <1>1, <1>3, AmountIsNat, SoundType DEF Seeds
<1>5. v \in Amount
  BY <1>1, <1>4, AmountIsNat
<1>6. /\ IsSeeded(balances') /\ KeepsMalformed(d, balances')
      /\ SumOver(Sound(balances')) = SumOver(Sound(d)) - Sound(d)[destination] + v
  <2> HIDE DEF d, v
  <2> QED
    BY <1>1, <1>2, <1>3, <1>5, PutSound
<1>7. KeepsMalformed(balances, balances')
  <2> HIDE DEF d
  <2> QED
    BY <1>2, <1>6 DEF KeepsMalformed
<1>8. SumOver(Sound(balances')) = SumOver(Sound(balances))
  <2> HIDE DEF d
  <2> QED
    BY <1>2, <1>3, <1>4, <1>6
<1> QED
  BY <1>1, <1>4, <1>6, <1>7, <1>8 DEF SoundMove

LEMMA HandlersSound ==
  ASSUME Seeds, Next
  PROVE  SoundMove
<1>1. CASE StorageStep
  BY <1>1, StorageDepositSound, StorageUnregisterSound DEF StorageStep
<1>2. CASE TransferStep
  BY <1>2, MovedSound DEF TransferStep, ft_transfer, ft_transfer_call
<1>3. ASSUME NEW c \in Calls, Answer(c) \/ Resolve(c)
      PROVE  SoundMove
  <2>1. CASE Answer(c) \/ ResolverPanics(c)
    BY <2>1, Idle DEF Answer, ft_on_transfer, ResolverPanics
  <2>2. CASE ft_resolve_transfer(c)
    <3>1. calls[c] \in CallRecord /\ calls[c].result # Pending /\ ResolveOk(calls[c])
      BY <2>2 DEF Seeds, ft_resolve_transfer, Delivered
    <3>2. CASE ResolveToSender(calls[c])
      BY <3>1, <3>2, ResolveToSenderSound
    <3>3. CASE ResolveByBurning(calls[c])
      BY <3>1, <3>3, ResolveByBurningSound
    <3>4. CASE ResolveNothing(calls[c])
      BY <3>4, Idle DEF ResolveNothing
    <3> QED
      BY <2>2, <3>2, <3>3, <3>4 DEF ft_resolve_transfer
  <2> QED
    BY <1>3, <2>1, <2>2 DEF Resolve
<1>4. CASE MintStep
  BY <1>4, MintSound, BurnSound, TransferSound, ConstantsAssumption DEF MintStep
<1> QED
  BY <1>1, <1>2, <1>3, <1>4 DEF Next

\* Every call a handler opens or answers is well formed.
LEMMA HandlersKeepCalls ==
  ASSUME Seeds, Next
  PROVE  calls' \in [Calls -> CallRecord \cup {NoCall}]
<1>1. calls \in [Calls -> CallRecord \cup {NoCall}]
  BY DEF Seeds
<1>2. CASE UNCHANGED calls
  BY <1>1, <1>2
<1>3. ASSUME NEW c \in Calls, NEW call \in CallRecord \cup {NoCall}, calls' = [calls EXCEPT ![c] = call]
      PROVE  calls' \in [Calls -> CallRecord \cup {NoCall}]
  BY <1>1, <1>3
<1>4. ASSUME NEW c \in Calls, NEW sender \in Accounts, NEW receiver \in Accounts,
             NEW amount \in TransferAmounts, ft_transfer_call(c, sender, receiver, amount)
      PROVE  calls' \in [Calls -> CallRecord \cup {NoCall}]
  <2>1. [sender |-> sender, receiver |-> receiver, amount |-> amount, result |-> Pending] \in CallRecord
    BY <1>4, ConstantsAssumption DEF ft_transfer_call, TransferOk, DistinctParties, CallRecord
  <2> QED
    BY <1>3, <1>4, <2>1 DEF ft_transfer_call
<1>5. ASSUME NEW c \in Calls, NEW result \in Results, ft_on_transfer(c, result)
      PROVE  calls' \in [Calls -> CallRecord \cup {NoCall}]
  <2>1. calls[c] \in CallRecord
    BY <1>1, <1>5 DEF ft_on_transfer
  <2>2. [calls[c] EXCEPT !.result = result] \in CallRecord
    BY <2>1 DEF CallRecord
  <2> QED
    BY <1>3, <1>5, <2>2 DEF ft_on_transfer
<1>6. ASSUME NEW c \in Calls, Resolve(c)
      PROVE  calls' \in [Calls -> CallRecord \cup {NoCall}]
  BY <1>3, <1>6 DEF Resolve, ft_resolve_transfer, ResolverPanics
<1>7. CASE StorageStep \/ MintStep
  BY <1>2, <1>7 DEF StorageStep, storage_deposit, storage_unregister, MintStep, mint, burn, transfer
<1>8. CASE TransferStep
  BY <1>2, <1>4, <1>8 DEF TransferStep, ft_transfer
<1>9. CASE \E c \in Calls : Answer(c) \/ Resolve(c)
  BY <1>5, <1>6, <1>9 DEF Answer
<1> QED
  BY <1>7, <1>8, <1>9 DEF Next

-----------------------------------------------------------------------------
\* What a seed may write.
LEMMA SeedWrites ==
  ASSUME NEW m, IsSeeded(m), NEW a \in Accounts, NEW value \in Amount \cup {Malformed, Absent}
  PROVE  /\ IsSeeded(Seeded(m, a, value))
         /\ value # Absent => IsSeeded(Put(m, a, value))
         /\ IsSeeded(Remove(m, a))
BY DEF IsSeeded, Seeded, Put, Remove

LEMMA SeedStepKeeps ==
  ASSUME Seeds, SeedStep
  PROVE  IsSeeded(balances') /\ supply' \in Amount /\ calls' = calls
<1>1. /\ Self \in Accounts /\ Others \subseteq Accounts /\ Receivers \subseteq Accounts
      /\ 0 \in Amount /\ 1 \in Amount /\ U128Max \in Amount /\ Absent \notin Amount
      /\ SenderSeed \in Amount /\ ReceiverSeed \in Amount /\ CallerSeed \in Amount
      /\ SenderSeed + ReceiverSeed \in Amount /\ ShortSeed \in Amount
  BY ConstantsAssumption, SeedsAssumption, AmountIsNat DEF Others
<1>2. IsSeeded(balances) /\ supply \in Amount
  BY DEF Seeds
<1>3. ASSUME NEW seed \in PutSeeds, fixturePutNoSupply(seed[1], seed[2])
      PROVE  IsSeeded(balances') /\ supply' \in Amount /\ calls' = calls
  <2>1. seed[1] \in Accounts /\ seed[2] \in Amount \cup {Malformed}
    BY <1>1 DEF PutSeeds
  <2>2. IsSeeded(Put(balances, seed[1], seed[2]))
    BY <1>2, <2>1 DEF IsSeeded, Put
  <2> QED
    BY <1>2, <1>3, <2>2 DEF fixturePutNoSupply
<1>4. CASE fixtureSetSupplyMax
  BY <1>1, <1>2, <1>4 DEF fixtureSetSupplyMax
<1>5. ASSUME NEW a \in Accounts, fixtureReset(a)
      PROVE  IsSeeded(balances') /\ supply' \in Amount /\ calls' = calls
  BY <1>1, <1>2, <1>5, SeedWrites DEF fixtureReset
<1>6. ASSUME NEW a \in Accounts, fixtureTransferCall(a)
      PROVE  IsSeeded(balances') /\ supply' \in Amount /\ calls' = calls
  BY <1>1, <1>2, <1>6 DEF fixtureTransferCall, IsSeeded
<1>7. ASSUME NEW one \in Others, NEW other \in Others, fixtureRemoveViewAccounts(one, other)
      PROVE  IsSeeded(balances') /\ supply' \in Amount /\ calls' = calls
  <2>1. IsSeeded(Remove(Remove(balances, one), other))
    BY <1>1, <1>2 DEF IsSeeded, Remove
  <2> QED
    BY <1>2, <1>7, <2>1 DEF fixtureRemoveViewAccounts
<1>8. ASSUME NEW one \in Others, NEW other \in Others, NEW seed \in ResolverSeeds,
             fixtureResolver(one, other, seed)
      PROVE  IsSeeded(balances') /\ supply' \in Amount /\ calls' = calls
  <2>1. /\ seed[1] \in Amount \cup {Malformed, Absent} /\ seed[2] \in Amount \cup {Malformed, Absent}
        /\ seed[3] \in Amount
    BY <1>1 DEF ResolverSeeds
  <2>2. IsSeeded(Seeded(balances, one, seed[1]))
    BY <1>1, <1>2, <2>1, SeedWrites
  <2>3. IsSeeded(Seeded(Seeded(balances, one, seed[1]), other, seed[2]))
    BY <1>1, <2>1, <2>2, SeedWrites
  <2> QED
    BY <1>8, <2>1, <2>3 DEF fixtureResolver
<1> QED
  BY <1>3, <1>4, <1>5, <1>6, <1>7, <1>8 DEF SeedStep

\* A scheduled callback opens a call and touches no balance.
LEMMA ScheduleStepKeeps ==
  ASSUME Seeds, ScheduleStep
  PROVE  SoundMove /\ calls' \in [Calls -> CallRecord \cup {NoCall}]
<1>1. ASSUME NEW c \in Calls, NEW sender \in Accounts, NEW receiver \in Others,
             NEW result \in Results \cup {Pending}, sender # receiver,
             scheduleResolver(c, sender, receiver, result)
      PROVE  SoundMove /\ calls' \in [Calls -> CallRecord \cup {NoCall}]
  <2>1. [sender |-> sender, receiver |-> receiver, amount |-> ScheduledAmount, result |-> result]
          \in CallRecord
    BY <1>1, SeedsAssumption DEF CallRecord, Others
  <2>2. calls' \in [Calls -> CallRecord \cup {NoCall}]
    BY <1>1, <2>1 DEF scheduleResolver, Seeds
  <2>3. SoundMove
    BY <1>1, Idle DEF scheduleResolver
  <2> QED
    BY <2>2, <2>3
<1> QED
  BY <1>1 DEF ScheduleStep, chain

LEMMA InitSeeds == Init => Seeds
BY ConstantsAssumption, AmountIsNat DEF Init, Seeds, IsSeeded

\* Every step that is no seed is a sound move.
LEMMA StepIsSound ==
  ASSUME Seeds, [FixtureNext]_vars
  PROVE  Seeds' /\ (SeedStep \/ SoundMove)
<1>1. CASE Next
  BY <1>1, HandlersSound, HandlersKeepCalls DEF Seeds, SoundMove
<1>2. CASE SeedStep
  BY <1>2, SeedStepKeeps DEF Seeds
<1>3. CASE ScheduleStep
  BY <1>3, ScheduleStepKeeps DEF Seeds, SoundMove
<1>4. CASE UNCHANGED vars
  BY <1>4, Idle DEF vars, Seeds
<1> QED
  BY <1>1, <1>2, <1>3, <1>4 DEF FixtureNext

LEMMA SpecSeeds == FixtureSpec => []Seeds
<1>1. Seeds /\ [FixtureNext]_vars => Seeds'
  BY StepIsSound
<1> QED
  BY <1>1, InitSeeds, PTL DEF FixtureSpec

\* Whatever the fixture entries seeded, no handler writes a value that is not a u128.
THEOREM SeededTypeCorrect == FixtureSpec => []SeededTypeOK
<1>1. Seeds => SeededTypeOK
  BY DEF Seeds, IsSeeded, SeededTypeOK
<1> QED
  BY <1>1, SpecSeeds, PTL

\* Even from an inconsistent ledger, every handler moves the supply by what it moves the balances:
\* the amounts a callback was given are never trusted beyond the entries it reads.
THEOREM SupplyMovesHolds == FixtureSpec => SupplyMovesWithBalances
<1>1. ASSUME Seeds, [FixtureNext]_vars
      PROVE  [SeedStep \/ supply' - supply = SumOver(SoundHolding') - SumOver(SoundHolding)]_vars
  <2>1. SoundHolding' = Sound(balances')
    BY DEF SoundHolding, Sound, ReadWasValidPresent
  <2> QED
    BY <1>1, <2>1, StepIsSound, SoundHoldingIsSound DEF SoundMove
<1> QED
  BY <1>1, SpecSeeds, PTL DEF FixtureSpec, SupplyMovesWithBalances

\* No handler, and no scheduled callback, overwrites or removes an entry it could not decode.
THEOREM MalformedFailsClosedHolds == FixtureSpec => MalformedFailsClosed
<1>1. ASSUME Seeds, [FixtureNext]_vars
      PROVE  [SeedStep \/ \A a \in DOMAIN balances :
                balances[a] = Malformed => a \in DOMAIN balances' /\ balances'[a] = Malformed]_vars
  BY <1>1, StepIsSound DEF SoundMove, KeepsMalformed
<1> QED
  BY <1>1, SpecSeeds, PTL DEF FixtureSpec, MalformedFailsClosed
==============================================================================
