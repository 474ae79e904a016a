-------------------------- MODULE FungibleLedgerProofs --------------------------
(***************************************************************************)
(* TypeOK, Conservation, ResolverNeverPanics and StoragePaidExactly hold   *)
(* in every behaviour of FungibleLedger, and the contract implements       *)
(* TokenLedger, for every finite set of accounts, every u128 ceiling and   *)
(* any number of transfer calls in flight.                                 *)
(***************************************************************************)
EXTENDS FungibleLedgerRefinement, FiniteSetTheorems, WellFoundedInduction, TLAPS

-----------------------------------------------------------------------------
(***************************************************************************)
(* Facts about SumOver for every finite set of accounts.  Induction along  *)
(* the listing is done by minimal counterexample.                          *)
(***************************************************************************)

\* Every non-empty set of naturals has a least element.
LEMMA LeastElement ==
  ASSUME NEW T \in SUBSET Nat, T # {}
  PROVE  \E m \in T : \A k \in T : m <= k
<1>1. PICK m \in T : \A k \in T : ~ (<<k, m>> \in OpToRel(<, Nat))
  BY NatLessThanWellFounded, WFMin
<1>2. \A k \in T : ~ (k < m)
  BY <1>1 DEF OpToRel
<1> QED
  BY <1>2

\* A property of 0..n given as a set is all of 0..n once it holds of 0 and passes on.
LEMMA IntervalInduction ==
  ASSUME NEW n \in Nat, NEW P \in SUBSET Nat,
         0 \in P,
         \A i \in 1..n : i - 1 \in P => i \in P
  PROVE  0..n \subseteq P
<1> DEFINE T == (0..n) \ P
<1> SUFFICES ASSUME T # {} PROVE FALSE
  OBVIOUS
<1>0. T \in SUBSET Nat
  OBVIOUS
<1>1. PICK m \in T : \A k \in T : m <= k
  <2> HIDE DEF T
  <2> QED
    BY <1>0, LeastElement
<1>2. m \in 1..n /\ m - 1 \in 0..n
  BY <1>1
<1>3. m - 1 \in P
  BY <1>1, <1>2
<1> QED
  BY <1>1, <1>2, <1>3

\* The listing enumerates the accounts, each once.
LEMMA ListingIsBijection ==
  /\ AccountCount \in Nat
  /\ Listing \in [1..AccountCount -> Accounts]
  /\ \A a \in Accounts : \E i \in 1..AccountCount : Listing[i] = a
  /\ \A i, j \in 1..AccountCount : Listing[i] = Listing[j] => i = j
<1>1. AccountCount \in Nat
  BY AccountsFinite, FS_CardinalityType DEF AccountCount
<1>2. ExistsBijection(1..AccountCount, Accounts)
  BY AccountsFinite, FS_CardinalityType DEF AccountCount
<1>3. PICK e \in Bijection(1..AccountCount, Accounts) : TRUE
  BY <1>2 DEF ExistsBijection
<1>4. /\ e \in [1..AccountCount -> Accounts]
      /\ \A a \in Accounts : \E i \in 1..AccountCount : e[i] = a
      /\ \A i, j \in 1..AccountCount : e[i] = e[j] => i = j
  BY <1>3 DEF Bijection, Injection, Surjection, IsInjective
<1> QED
  BY <1>1, <1>4 DEF Listing

\* The recursive definition of the partial sums denotes the function it describes.
LEMMA PartialSumsDef ==
  ASSUME NEW f \in [Accounts -> Int]
  PROVE  /\ PartialSums(f) \in [0..AccountCount -> Int]
         /\ PartialSums(f)[0] = 0
         /\ \A i \in 1..AccountCount :
              PartialSums(f)[i] = PartialSums(f)[i - 1] + f[Listing[i]]
<1> DEFINE n == AccountCount
           Body(s) == [i \in 0..n |-> IF i = 0 THEN 0 ELSE s[i - 1] + f[Listing[i]]]
           Sums(s, k) == /\ s \in [0..k -> Int]
                         /\ s[0] = 0
                         /\ \A i \in 1..k : s[i] = s[i - 1] + f[Listing[i]]
           P == {k \in 0..n : \E s : Sums(s, k)}
<1>1. n \in Nat /\ \A i \in 1..n : f[Listing[i]] \in Int
  BY ListingIsBijection
<1>2. 0 \in P
  <2>1. Sums([i \in 0..0 |-> 0], 0)
    OBVIOUS
  <2>2. 0 \in 0..n
    BY <1>1
  <2> HIDE DEF Sums, n
  <2> QED
    BY <2>1, <2>2
<1>3. ASSUME NEW k \in 1..n, k - 1 \in P
      PROVE  k \in P
  <2>1. PICK s : Sums(s, k - 1)
    BY <1>3
  <2> DEFINE t == [i \in 0..k |-> IF i = k THEN s[k - 1] + f[Listing[k]] ELSE s[i]]
  <2>2. k \in Nat /\ k - 1 \in 0..(k - 1) /\ k - 1 # k /\ 0 # k
    BY <1>1
  <2>3. s[k - 1] + f[Listing[k]] \in Int
    BY <2>1, <2>2, <1>1
  <2>4. t \in [0..k -> Int] /\ t[0] = 0
    BY <2>1, <2>2, <2>3
  <2>5. ASSUME NEW i \in 1..k
        PROVE  t[i] = t[i - 1] + f[Listing[i]]
    <3>1. CASE i = k
      BY <3>1, <2>2
    <3>2. CASE i # k
      <4>1. i \in 1..(k - 1) /\ i - 1 # k /\ i - 1 \in 0..k
        BY <3>2, <2>2
      <4>2. t[i] = s[i] /\ t[i - 1] = s[i - 1]
        BY <4>1, <3>2
      <4> QED
        BY <4>1, <4>2, <2>1
    <3> QED
      BY <3>1, <3>2
  <2>6. Sums(t, k)
    BY <2>4, <2>5
  <2>7. k \in 0..n
    BY <1>1
  <2> HIDE DEF Sums, n, t
  <2> QED
    BY <2>6, <2>7
<1>4. PICK s : Sums(s, n)
  <2>1. P \in SUBSET Nat
    BY <1>1
  <2>2. 0..n \subseteq P
    <3> HIDE DEF P, n
    <3> QED
      BY <1>1, <1>2, <1>3, <2>1, IntervalInduction
  <2>3. n \in P
    <3>1. n \in 0..n
      BY <1>1
    <3> HIDE DEF P, n
    <3> QED
      BY <2>2, <3>1
  <2> HIDE DEF Sums, n
  <2> QED
    BY <2>3
<1>5. s = Body(s)
  BY <1>4, <1>1
<1>6. PartialSums(f) = CHOOSE g : g = Body(g)
  BY DEF PartialSums
<1>7. PartialSums(f) = Body(PartialSums(f))
  <2> HIDE DEF Body
  <2> QED
    BY <1>5, <1>6
<1>8. ASSUME NEW g, g = Body(g)
      PROVE  g = s
  <2> DEFINE Q == {i \in 0..n : g[i] = s[i]}
  <2>1. 0 \in Q
    BY <1>8, <1>4, <1>1
  <2>2. ASSUME NEW i \in 1..n, i - 1 \in Q
        PROVE  i \in Q
    <3>1. g[i] = g[i - 1] + f[Listing[i]]
      BY <1>8, <1>1
    <3>2. s[i] = s[i - 1] + f[Listing[i]]
      BY <1>4, <1>1
    <3> QED
      BY <2>2, <3>1, <3>2, <1>1
  <2>3. 0..n \subseteq Q
    <3>1. Q \in SUBSET Nat
      BY <1>1
    <3> HIDE DEF Q, n
    <3> QED
      BY <3>1, <2>1, <2>2, <1>1, IntervalInduction
  <2>4. g = [i \in 0..n |-> g[i]]
    BY <1>8
  <2> QED
    BY <2>3, <2>4, <1>4
<1>9. PartialSums(f) = s
  <2> HIDE DEF Body, Sums
  <2> QED
    BY <1>7, <1>8
<1> QED
  BY <1>4, <1>9

\* Changing one account changes the sum by the difference.
LEMMA SumUpdate ==
  ASSUME NEW f \in [Accounts -> Int], NEW a \in Accounts, NEW v \in Int
  PROVE  /\ SumOver(f) \in Int
         /\ SumOver([f EXCEPT ![a] = v]) = SumOver(f) - f[a] + v
<1> DEFINE n == AccountCount
           g == [f EXCEPT ![a] = v]
           F == PartialSums(f)
           G == PartialSums(g)
<1>1. PICK k \in 1..n : Listing[k] = a
  BY ListingIsBijection
<1>2. n \in Nat /\ \A i \in 1..n : Listing[i] \in Accounts
  BY ListingIsBijection
<1>3. \A i \in 1..n : i # k => g[Listing[i]] = f[Listing[i]]
  BY <1>1, <1>2, ListingIsBijection
<1>4. g[Listing[k]] = v /\ f[Listing[k]] = f[a] /\ f[a] \in Int
  BY <1>1
<1>5. /\ F \in [0..n -> Int] /\ F[0] = 0
      /\ \A i \in 1..n : F[i] = F[i - 1] + f[Listing[i]]
  BY PartialSumsDef
<1>6. /\ G \in [0..n -> Int] /\ G[0] = 0
      /\ \A i \in 1..n : G[i] = G[i - 1] + g[Listing[i]]
  <2>1. g \in [Accounts -> Int]
    OBVIOUS
  <2> HIDE DEF g
  <2> QED
    BY <2>1, PartialSumsDef
<1> DEFINE P == {i \in 0..n : G[i] = F[i] + (IF i < k THEN 0 ELSE v - f[a])}
<1> HIDE DEF g, F, G, n
<1>7. 0 \in P
  BY <1>2, <1>5, <1>6, <1>1
<1>8. ASSUME NEW i \in 1..n, i - 1 \in P
      PROVE  i \in P
  <2>1. F[i] = F[i - 1] + f[Listing[i]] /\ F[i] \in Int /\ F[i - 1] \in Int
    BY <1>5, <1>2
  <2>2. G[i] = G[i - 1] + g[Listing[i]] /\ G[i - 1] = F[i - 1] + (IF i - 1 < k THEN 0 ELSE v - f[a])
    BY <1>6, <1>2, <1>8
  <2>3. f[Listing[i]] \in Int
    BY <1>2
  <2>4. CASE i = k
    BY <2>1, <2>2, <2>4, <1>4, <1>2
  <2>5. CASE i # k
    BY <2>1, <2>2, <2>3, <2>5, <1>3, <1>2, <1>1, <1>4
  <2> QED
    BY <2>4, <2>5
<1>9. 0..n \subseteq P
  <2>1. P \in SUBSET Nat
    BY <1>2
  <2> HIDE DEF P
  <2> QED
    BY <2>1, <1>2, <1>7, <1>8, IntervalInduction
<1>10. n \in P
  BY <1>9, <1>2
<1>11. SumOver(f) = F[n] /\ SumOver(g) = G[n]
  BY DEF SumOver, F, G, n
<1> QED
  BY <1>10, <1>11, <1>1, <1>2, <1>4, <1>5 DEF g

\* A sum of non-negative summands is non-negative, and the sum of zeros is zero.
LEMMA SumSigns ==
  ASSUME NEW f \in [Accounts -> Int]
  PROVE  /\ (\A a \in Accounts : f[a] >= 0) => SumOver(f) >= 0
         /\ (\A a \in Accounts : f[a] = 0) => SumOver(f) = 0
<1> DEFINE n == AccountCount
           F == PartialSums(f)
           P == {i \in 0..n : /\ (\A a \in Accounts : f[a] >= 0) => F[i] >= 0
                              /\ (\A a \in Accounts : f[a] = 0) => F[i] = 0}
<1>1. n \in Nat /\ \A i \in 1..n : Listing[i] \in Accounts
  BY ListingIsBijection
<1>2. /\ F \in [0..n -> Int] /\ F[0] = 0
      /\ \A i \in 1..n : F[i] = F[i - 1] + f[Listing[i]]
  BY PartialSumsDef
<1> HIDE DEF F, n
<1>3. 0 \in P
  BY <1>1, <1>2
<1>4. ASSUME NEW i \in 1..n, i - 1 \in P
      PROVE  i \in P
  <2>1. F[i] = F[i - 1] + f[Listing[i]] /\ F[i - 1] \in Int /\ Listing[i] \in Accounts
    BY <1>1, <1>2
  <2>2. f[Listing[i]] \in Int
    BY <2>1
  <2> QED
    BY <2>1, <2>2, <1>4, <1>1
<1>5. n \in P
  <2>1. P \in SUBSET Nat /\ n \in 0..n
    BY <1>1
  <2>2. 0..n \subseteq P
    <3> HIDE DEF P
    <3> QED
      BY <2>1, <1>1, <1>3, <1>4, IntervalInduction
  <2> QED
    BY <2>1, <2>2
<1> QED
  BY <1>5 DEF SumOver, F, n

\* Two different accounts hold at most the whole sum of a non-negative function.
LEMMA SumDominatesPairs ==
  ASSUME NEW f \in [Accounts -> Nat], NEW a \in Accounts, NEW b \in Accounts
  PROVE  /\ f[a] <= SumOver(f)
         /\ a # b => f[a] + f[b] <= SumOver(f)
<1> DEFINE g == [f EXCEPT ![a] = 0]
           h == [g EXCEPT ![b] = 0]
<1>1. f \in [Accounts -> Int] /\ g \in [Accounts -> Int] /\ h \in [Accounts -> Int]
  OBVIOUS
<1>2. \A x \in Accounts : g[x] >= 0 /\ h[x] >= 0
  OBVIOUS
<1>3. f[a] \in Nat /\ f[b] \in Nat /\ (a # b => g[b] = f[b]) /\ g[b] \in Int
  OBVIOUS
<1>4. SumOver(f) \in Int /\ SumOver(g) = SumOver(f) - f[a] + 0
  BY <1>1, SumUpdate
<1>5. SumOver(g) \in Int /\ SumOver(h) = SumOver(g) - g[b] + 0
  <2> HIDE DEF g
  <2>1. 0 \in Int
    OBVIOUS
  <2> QED
    BY <1>1, <2>1, SumUpdate DEF h
<1>6. SumOver(g) >= 0 /\ SumOver(h) >= 0
  <2> HIDE DEF g, h
  <2> QED
    BY <1>1, <1>2, SumSigns
<1> HIDE DEF g, h
<1> QED
  BY <1>3, <1>4, <1>5, <1>6

-----------------------------------------------------------------------------
(***************************************************************************)
(* The type invariant and the conservation of tokens.                      *)
(***************************************************************************)

\* The storage map of a well-typed ledger, and what its accounts hold.
IsMap(m) ==
  /\ DOMAIN m \subseteq Accounts
  /\ \A a \in DOMAIN m : m[a] \in Amount

Hold(m) == [a \in Accounts |-> IF a \in DOMAIN m THEN m[a] ELSE 0]

LEMMA AmountIsNat == U128Max \in Nat /\ \A x : x \in Amount <=> x \in Nat /\ x <= U128Max
BY ConstantsAssumption DEF Amount

LEMMA HoldingIsHold == Holding = Hold(balances)
BY DEF Holding, Hold, Loaded

LEMMA HoldType ==
  ASSUME NEW m, IsMap(m)
  PROVE  /\ Hold(m) \in [Accounts -> Nat]
         /\ \A a \in Accounts : Hold(m)[a] \in Amount
         /\ SumOver(Hold(m)) \in Int
         /\ SumOver(Hold(m)) >= 0
<1>1. \A a \in Accounts : Hold(m)[a] \in Amount
  BY AmountIsNat DEF IsMap, Hold
<1>2. Hold(m) \in [Accounts -> Nat]
  BY <1>1, AmountIsNat DEF Hold
<1>3. Hold(m) \in [Accounts -> Int] /\ \A a \in Accounts : Hold(m)[a] >= 0
  BY <1>2
<1>4. SumOver(Hold(m)) >= 0
  BY <1>3, SumSigns
<1>5. SumOver(Hold(m)) \in Int
  <2>1. CASE Accounts = {}
    BY <2>1, ConstantsAssumption
  <2>2. CASE Accounts # {}
    <3>1. PICK a : a \in Accounts
      BY <2>2
    <3> QED
      BY <1>3, <3>1, 0 \in Int, SumUpdate
  <2> QED
    BY <2>1, <2>2
<1> QED
  BY <1>1, <1>2, <1>4, <1>5

\* Writing an entry changes what that account holds and nothing else.
LEMMA PutEffect ==
  ASSUME NEW m, IsMap(m), NEW a \in Accounts, NEW v \in Amount
  PROVE  /\ IsMap(Put(m, a, v))
         /\ Hold(Put(m, a, v)) = [Hold(m) EXCEPT ![a] = v]
         /\ SumOver(Hold(Put(m, a, v))) = SumOver(Hold(m)) - Hold(m)[a] + v
<1>1. IsMap(Put(m, a, v))
  BY DEF IsMap, Put
<1>2. Hold(Put(m, a, v)) = [Hold(m) EXCEPT ![a] = v]
  BY DEF IsMap, Put, Hold
<1>3. Hold(m) \in [Accounts -> Int] /\ v \in Int
  BY HoldType, AmountIsNat
<1> QED
  BY <1>1, <1>2, <1>3, SumUpdate

LEMMA RemoveEffect ==
  ASSUME NEW m, IsMap(m), NEW a \in Accounts
  PROVE  /\ IsMap(Remove(m, a))
         /\ SumOver(Hold(Remove(m, a))) = SumOver(Hold(m)) - Hold(m)[a]
<1>1. IsMap(Remove(m, a))
  BY DEF IsMap, Remove
<1>2. Hold(Remove(m, a)) = [Hold(m) EXCEPT ![a] = 0]
  BY DEF IsMap, Remove, Hold
<1>3. Hold(m) \in [Accounts -> Int] /\ 0 \in Int /\ Hold(m)[a] \in Int /\ SumOver(Hold(m)) \in Int
  BY HoldType
<1>4. SumOver([Hold(m) EXCEPT ![a] = 0]) = SumOver(Hold(m)) - Hold(m)[a] + 0
  BY <1>3, SumUpdate
<1> QED
  BY <1>1, <1>2, <1>3, <1>4

\* Two writes that take n from one account and give it to another keep the sum.
LEMMA ExchangeEffect ==
  ASSUME NEW m, IsMap(m), NEW a \in Accounts, NEW b \in Accounts, a # b, NEW n \in Amount,
         n <= Hold(m)[a], Hold(m)[b] + n <= U128Max
  PROVE  LET r == Put(Put(m, a, Hold(m)[a] - n), b, Hold(m)[b] + n)
         IN  IsMap(r) /\ SumOver(Hold(r)) = SumOver(Hold(m))
<1> DEFINE x == Hold(m)[a] - n
           y == Hold(m)[b] + n
           p == Put(m, a, x)
<1>1. x \in Amount /\ y \in Amount /\ SumOver(Hold(m)) \in Int
  BY HoldType, AmountIsNat
<1>2. /\ IsMap(p) /\ Hold(p) = [Hold(m) EXCEPT ![a] = x]
      /\ SumOver(Hold(p)) = SumOver(Hold(m)) - Hold(m)[a] + x
  <2> HIDE DEF x
  <2> QED
    BY <1>1, PutEffect
<1>3. Hold(p)[b] = Hold(m)[b] /\ Hold(m)[a] \in Nat /\ Hold(m)[b] \in Nat
  BY <1>2, HoldType
<1>4. IsMap(Put(p, b, y)) /\ SumOver(Hold(Put(p, b, y))) = SumOver(Hold(p)) - Hold(p)[b] + y
  <2>1. IsMap(p) /\ y \in Amount
    BY <1>1, <1>2
  <2> HIDE DEF p, y
  <2> QED
    BY <2>1, PutEffect
<1> QED
  BY <1>1, <1>2, <1>3, <1>4, AmountIsNat

-----------------------------------------------------------------------------
\* The inductive invariant: the sum argument needs the values to be numbers, and the
\* bounds on the values need the sum.
IInv == TypeOK /\ Conservation

LEMMA InitIInv == Init => IInv
<1> SUFFICES ASSUME Init PROVE IInv
  OBVIOUS
<1>1. TypeOK
  BY ConstantsAssumption, AmountIsNat DEF Init, TypeOK
<1>2. Holding \in [Accounts -> Int] /\ \A a \in Accounts : Holding[a] = 0
  BY DEF Init, Holding, Loaded
<1>3. SumOver(Holding) = 0
  BY <1>2, SumSigns
<1> QED
  BY <1>1, <1>3 DEF IInv, Conservation, Init

\* What the invariant says, in the form the step lemmas use.
LEMMA IInvFacts ==
  ASSUME IInv
  PROVE  /\ IsMap(balances)
         /\ supply \in Amount
         /\ supply = SumOver(Hold(balances))
         /\ \A a \in Accounts : Loaded(a) = Hold(balances)[a] /\ Loaded(a) \in Amount
         /\ \A a \in Accounts : Loaded(a) <= supply
         /\ \A a, b \in Accounts : a # b => Loaded(a) + Loaded(b) <= supply
         /\ \A a \in DOMAIN balances : Loaded(a) = balances[a]
<1>1. IsMap(balances) /\ supply \in Amount /\ supply = SumOver(Hold(balances))
  BY HoldingIsHold DEF IInv, TypeOK, Conservation, IsMap
<1>2. \A a \in Accounts : Loaded(a) = Hold(balances)[a]
  BY DEF Loaded, Hold
<1>3. \A a \in Accounts : Loaded(a) \in Amount
  BY <1>1, <1>2, HoldType
<1>4. \A a, b \in Accounts : Loaded(a) <= supply /\ (a # b => Loaded(a) + Loaded(b) <= supply)
  BY <1>1, <1>2, HoldType, SumDominatesPairs
<1> QED
  BY <1>1, <1>2, <1>3, <1>4 DEF Loaded

\* Rebuilding the invariant from the parts a step determines.
LEMMA IInvRebuild ==
  ASSUME IsMap(balances'), supply' \in Amount, supply' = SumOver(Hold(balances'))
  PROVE  (escrow' \in Int /\ calls' \in [Calls -> CallRecord \cup {NoCall}]) => IInv'
<1>1. Holding' = Hold(balances')
  BY DEF Holding, Hold, Loaded
<1> QED
  BY <1>1 DEF IInv, TypeOK, Conservation, IsMap

LEMMA StorageDepositIInv ==
  ASSUME IInv, NEW account \in Accounts, NEW deposit \in Deposits,
         storage_deposit(account, deposit)
  PROVE  IInv'
<1>1. escrow' \in Int /\ calls' \in [Calls -> CallRecord \cup {NoCall}]
  BY ConstantsAssumption DEF IInv, TypeOK, storage_deposit, Settle, DepositRefund
<1>2. CASE ReadWasMissing(account)
  <2>1. balances' = Put(balances, account, 0) /\ Loaded(account) = 0
    BY <1>2 DEF storage_deposit, ReadWasMissing, Loaded
  <2>2. 0 \in Amount
    BY AmountIsNat
  <2>3. IsMap(balances') /\ SumOver(Hold(balances')) = SumOver(Hold(balances)) - Loaded(account) + 0
    BY <2>1, <2>2, IInvFacts, PutEffect
  <2>4. supply' = supply /\ supply \in Nat
    BY IInvFacts, AmountIsNat DEF storage_deposit
  <2> QED
    BY <1>1, <2>1, <2>3, <2>4, IInvFacts, IInvRebuild
<1>3. CASE ~ ReadWasMissing(account)
  BY <1>1, <1>3, IInvFacts, IInvRebuild DEF storage_deposit
<1> QED
  BY <1>2, <1>3

LEMMA StorageUnregisterIInv ==
  ASSUME IInv, NEW caller \in Accounts, NEW force \in BOOLEAN,
         storage_unregister(caller, force)
  PROVE  IInv'
<1>1. escrow' \in Int /\ calls' \in [Calls -> CallRecord \cup {NoCall}]
  BY ConstantsAssumption DEF IInv, TypeOK, storage_unregister, Settle
<1>2. supply' = supply - Loaded(caller) /\ balances' = Remove(balances, caller)
  BY DEF storage_unregister, ReadWasValidPresent, Loaded
<1>3. IsMap(balances') /\ SumOver(Hold(balances')) = SumOver(Hold(balances)) - Loaded(caller)
  BY <1>2, IInvFacts, RemoveEffect
<1>4. supply' \in Amount
  BY <1>2, IInvFacts, AmountIsNat
<1> QED
  BY <1>1, <1>2, <1>3, <1>4, IInvFacts, IInvRebuild

\* ft_transfer and ft_transfer_call write the same balances.
LEMMA MovedKeepsSum ==
  ASSUME IInv, NEW sender \in Accounts, NEW receiver \in Accounts, NEW amount \in TransferAmounts,
         TransferOk(sender, receiver, amount), balances' = Moved(sender, receiver, amount),
         supply' = supply
  PROVE  IsMap(balances') /\ supply' \in Amount /\ supply' = SumOver(Hold(balances'))
<1>1. amount \in Amount /\ sender # receiver
  BY ConstantsAssumption DEF TransferOk, DistinctParties
<1>2. balances[sender] = Loaded(sender) /\ amount <= Loaded(sender) /\ Loaded(receiver) + amount <= U128Max
  BY DEF TransferOk, ReadWasValidPresent, CanSub, CanAdd, Loaded
<1>3. balances' = Put(Put(balances, sender, Hold(balances)[sender] - amount),
                      receiver, Hold(balances)[receiver] + amount)
  BY <1>2, IInvFacts DEF Moved
<1> QED
  BY <1>1, <1>2, <1>3, IInvFacts, ExchangeEffect

LEMMA FtTransferIInv ==
  ASSUME IInv, NEW sender \in Accounts, NEW receiver \in Accounts, NEW amount \in TransferAmounts,
         ft_transfer(sender, receiver, amount)
  PROVE  IInv'
<1>1. escrow' \in Int /\ calls' \in [Calls -> CallRecord \cup {NoCall}]
  BY DEF IInv, TypeOK, ft_transfer
<1> QED
  BY <1>1, MovedKeepsSum, IInvRebuild DEF ft_transfer

LEMMA FtTransferCallIInv ==
  ASSUME IInv, NEW c \in Calls, NEW sender \in Accounts, NEW receiver \in Accounts,
         NEW amount \in TransferAmounts, ft_transfer_call(c, sender, receiver, amount)
  PROVE  IInv'
<1>1. amount \in Amount
  BY ConstantsAssumption
<1>2. escrow' \in Int /\ calls' \in [Calls -> CallRecord \cup {NoCall}]
  BY <1>1 DEF IInv, TypeOK, ft_transfer_call, CallRecord, TransferOk, DistinctParties
<1> QED
  BY <1>2, MovedKeepsSum, IInvRebuild DEF ft_transfer_call

LEMMA FtOnTransferIInv ==
  ASSUME IInv, NEW c \in Calls, NEW result \in Results, ft_on_transfer(c, result)
  PROVE  IInv'
<1>1. calls[c] \in CallRecord
  BY DEF IInv, TypeOK, ft_on_transfer
<1>2. [calls[c] EXCEPT !.result = result] \in CallRecord
  BY <1>1 DEF CallRecord
<1>3. calls' = [calls EXCEPT ![c] = [calls[c] EXCEPT !.result = result]]
  BY DEF ft_on_transfer
<1>4. escrow' \in Int /\ calls' \in [Calls -> CallRecord \cup {NoCall}]
  BY <1>2, <1>3 DEF IInv, TypeOK, ft_on_transfer
<1> QED
  BY <1>4, IInvFacts, IInvRebuild DEF ft_on_transfer

-----------------------------------------------------------------------------
\* The refund never exceeds what the receiver holds, so the callback's writes stay in range.
LEMMA RefundFacts ==
  ASSUME IInv, NEW call \in CallRecord, call.result # Pending
  PROVE  /\ Refund(call) \in Amount
         /\ Refund(call) <= call.amount
         /\ Refund(call) <= Loaded(call.receiver)
         /\ Refund(call) > 0 => call.receiver \in DOMAIN balances
<1>1. /\ call.amount \in Nat /\ call.amount <= U128Max /\ call.receiver \in Accounts
      /\ call.result = Invalid \/ call.result \in Nat
  BY AmountIsNat DEF CallRecord, Results
<1>2. Unused(call) \in Nat /\ Unused(call) <= call.amount
  BY <1>1 DEF Unused, Lesser
<1>3. Loaded(call.receiver) \in Nat
  BY <1>1, IInvFacts, AmountIsNat
<1>4. /\ Refund(call) \in Nat /\ Refund(call) <= call.amount
      /\ Refund(call) <= Loaded(call.receiver)
  BY <1>2, <1>3, <1>1 DEF Refund, Lesser
<1>5. Loaded(call.receiver) > 0 => call.receiver \in DOMAIN balances
  BY DEF Loaded
<1> QED
  BY <1>1, <1>3, <1>4, <1>5, AmountIsNat

LEMMA ResolveToSenderKeepsSum ==
  ASSUME IInv, NEW call \in CallRecord, call.result # Pending,
         ResolveOk(call), ResolveToSender(call)
  PROVE  IsMap(balances') /\ supply' \in Amount /\ supply' = SumOver(Hold(balances'))
<1>1. call.sender \in Accounts /\ call.receiver \in Accounts /\ call.sender # call.receiver
  BY DEF CallRecord
<1>2. Refund(call) \in Amount /\ Refund(call) <= Loaded(call.receiver)
  BY RefundFacts
<1>3. balances[call.sender] = Loaded(call.sender) /\ balances[call.receiver] = Loaded(call.receiver)
  BY RefundFacts, IInvFacts DEF ResolveToSender, ReadWasValidPresent
<1>4. Loaded(call.sender) + Refund(call) <= U128Max
  BY <1>3 DEF ResolveToSender, ResolveOk, ReadWasMissing, ReadWasValidPresent, CanAdd
<1>5. balances' = Put(Put(balances, call.receiver, Hold(balances)[call.receiver] - Refund(call)),
                      call.sender, Hold(balances)[call.sender] + Refund(call))
  BY <1>1, <1>3, IInvFacts DEF ResolveToSender, Refunded
<1>6. supply' = supply
  BY DEF ResolveToSender
<1>7. IsMap(balances') /\ SumOver(Hold(balances')) = SumOver(Hold(balances))
  <2> DEFINE r == Refund(call)
             a == call.receiver
             b == call.sender
  <2>1. /\ IsMap(balances) /\ a \in Accounts /\ b \in Accounts /\ a # b /\ r \in Amount
        /\ r <= Hold(balances)[a] /\ Hold(balances)[b] + r <= U128Max
        /\ balances' = Put(Put(balances, a, Hold(balances)[a] - r), b, Hold(balances)[b] + r)
    BY <1>1, <1>2, <1>4, <1>5, IInvFacts
  <2> HIDE DEF r, a, b
  <2> QED
    BY <2>1, ExchangeEffect
<1> QED
  BY <1>6, <1>7, IInvFacts

LEMMA ResolveByBurningKeepsSum ==
  ASSUME IInv, NEW call \in CallRecord, call.result # Pending,
         ResolveOk(call), ResolveByBurning(call)
  PROVE  IsMap(balances') /\ supply' \in Amount /\ supply' = SumOver(Hold(balances'))
<1> DEFINE r == Refund(call)
           a == call.receiver
<1>1. a \in Accounts /\ r \in Nat /\ r <= Loaded(a) /\ a \in DOMAIN balances
  BY RefundFacts, AmountIsNat DEF CallRecord, ResolveByBurning
<1>2. Loaded(a) = Hold(balances)[a] /\ balances[a] = Loaded(a) /\ Loaded(a) \in Nat
      /\ Loaded(a) <= supply /\ supply \in Nat /\ supply <= U128Max /\ Loaded(a) <= U128Max
  BY <1>1, IInvFacts, AmountIsNat
<1>3. balances' = Put(balances, a, Loaded(a) - r) /\ supply' = supply - r
  BY <1>2 DEF ResolveByBurning, Burned
<1> DEFINE v == Loaded(a) - r
<1>4. v \in Amount /\ supply' \in Amount /\ IsMap(balances)
  BY <1>1, <1>2, <1>3, IInvFacts, AmountIsNat
<1>5. /\ IsMap(balances')
      /\ SumOver(Hold(balances')) = SumOver(Hold(balances)) - Hold(balances)[a] + v
  <2>1. balances' = Put(balances, a, v)
    BY <1>3
  <2> HIDE DEF r, a, v
  <2> QED
    BY <1>1, <1>4, <2>1, PutEffect
<1> HIDE DEF r, a
<1> QED
  BY <1>1, <1>2, <1>3, <1>4, <1>5, IInvFacts

LEMMA FtResolveTransferIInv ==
  ASSUME IInv, NEW c \in Calls, ft_resolve_transfer(c)
  PROVE  IInv'
<1>1. calls[c] \in CallRecord /\ calls[c].result # Pending /\ ResolveOk(calls[c])
  BY DEF IInv, TypeOK, ft_resolve_transfer, Delivered
<1>2. escrow' \in Int /\ calls' \in [Calls -> CallRecord \cup {NoCall}]
  BY DEF IInv, TypeOK, ft_resolve_transfer
<1>3. CASE ResolveToSender(calls[c])
  BY <1>1, <1>2, <1>3, ResolveToSenderKeepsSum, IInvRebuild
<1>4. CASE ResolveByBurning(calls[c])
  BY <1>1, <1>2, <1>4, ResolveByBurningKeepsSum, IInvRebuild
<1>5. CASE ResolveNothing(calls[c])
  BY <1>2, <1>5, IInvFacts, IInvRebuild DEF ResolveNothing
<1> QED
  BY <1>3, <1>4, <1>5 DEF ft_resolve_transfer

LEMMA ResolverPanicsIInv ==
  ASSUME IInv, NEW c \in Calls, ResolverPanics(c)
  PROVE  IInv'
<1>1. escrow' \in Int /\ calls' \in [Calls -> CallRecord \cup {NoCall}]
  BY DEF IInv, TypeOK, ResolverPanics
<1> QED
  BY <1>1, IInvFacts, IInvRebuild DEF ResolverPanics

LEMMA MintIInv ==
  ASSUME IInv, NEW owner \in Accounts, NEW amount \in FixtureAmounts, mint(owner, amount)
  PROVE  IInv'
<1> DEFINE v == Loaded(owner) + amount
<1>1. amount \in Nat /\ v \in Amount /\ supply' \in Amount /\ supply' = supply + amount
  BY ConstantsAssumption, IInvFacts, AmountIsNat DEF mint, MintFits, CanAdd
<1>2. balances' = Put(balances, owner, v) /\ IsMap(balances) /\ v = Hold(balances)[owner] + amount
  BY IInvFacts DEF mint
<1>3. /\ IsMap(balances')
      /\ SumOver(Hold(balances')) = SumOver(Hold(balances)) - Hold(balances)[owner] + v
  <2> HIDE DEF v
  <2> QED
    BY <1>1, <1>2, PutEffect
<1>4. Hold(balances)[owner] \in Nat /\ SumOver(Hold(balances)) \in Int /\ supply = SumOver(Hold(balances))
  BY <1>2, HoldType, IInvFacts
<1>5. escrow' \in Int /\ calls' \in [Calls -> CallRecord \cup {NoCall}]
  BY DEF IInv, TypeOK, mint
<1> QED
  BY <1>1, <1>2, <1>3, <1>4, <1>5, IInvRebuild

\* Taking amount from an entry, removing it at zero.
LEMMA DebitedEffect ==
  ASSUME IInv, NEW owner \in Accounts, NEW amount \in Amount, amount <= Loaded(owner)
  PROVE  /\ IsMap(Debited(owner, amount))
         /\ SumOver(Hold(Debited(owner, amount))) = SumOver(Hold(balances)) - amount
         /\ \A b \in Accounts \ {owner} : Hold(Debited(owner, amount))[b] = Hold(balances)[b]
<1> DEFINE v == Loaded(owner) - amount
<1>1. /\ IsMap(balances) /\ v \in Amount /\ SumOver(Hold(balances)) \in Int
      /\ Loaded(owner) = Hold(balances)[owner] /\ Loaded(owner) \in Nat /\ amount \in Nat
  BY IInvFacts, HoldType, AmountIsNat
<1>2. CASE Loaded(owner) = amount
  <2>1. Debited(owner, amount) = Remove(balances, owner)
    BY <1>2 DEF Debited
  <2>2. \A b \in Accounts \ {owner} : Hold(Remove(balances, owner))[b] = Hold(balances)[b]
    BY DEF Hold, Remove
  <2> QED
    BY <1>1, <1>2, <2>1, <2>2, RemoveEffect
<1>3. CASE Loaded(owner) # amount
  <2>1. Debited(owner, amount) = Put(balances, owner, v)
    BY <1>3 DEF Debited
  <2>2. /\ IsMap(Put(balances, owner, v))
        /\ Hold(Put(balances, owner, v)) = [Hold(balances) EXCEPT ![owner] = v]
        /\ SumOver(Hold(Put(balances, owner, v))) = SumOver(Hold(balances)) - Hold(balances)[owner] + v
    <3> HIDE DEF v
    <3> QED
      BY <1>1, PutEffect
  <2>3. \A b \in Accounts \ {owner} : [Hold(balances) EXCEPT ![owner] = v][b] = Hold(balances)[b]
    BY DEF Hold
  <2>4. Hold(balances)[owner] \in Int /\ v = Hold(balances)[owner] - amount
    BY <1>1
  <2>5. SumOver(Hold(Put(balances, owner, v))) = SumOver(Hold(balances)) - amount
    <3> HIDE DEF v
    <3> QED
      BY <1>1, <2>2, <2>4
  <2>6. \A b \in Accounts \ {owner} : Hold(Put(balances, owner, v))[b] = Hold(balances)[b]
    BY <2>2, <2>3
  <2> QED
    BY <2>1, <2>2, <2>5, <2>6
<1> QED
  BY <1>2, <1>3

LEMMA BurnIInv ==
  ASSUME IInv, NEW owner \in Accounts, NEW amount \in FixtureAmounts, burn(owner, amount)
  PROVE  IInv'
<1>1. amount \in Amount /\ amount <= Loaded(owner) /\ amount <= supply
  BY ConstantsAssumption DEF burn, CanSub
<1>2. /\ balances' = Debited(owner, amount) /\ supply' = supply - amount
      /\ supply = SumOver(Hold(balances)) /\ supply' \in Amount
  BY <1>1, IInvFacts, AmountIsNat DEF burn
<1>3. escrow' \in Int /\ calls' \in [Calls -> CallRecord \cup {NoCall}]
  BY DEF IInv, TypeOK, burn
<1> QED
  BY <1>1, <1>2, <1>3, DebitedEffect, IInvRebuild

LEMMA TransferIInv ==
  ASSUME IInv, NEW source \in Accounts, NEW destination \in Accounts,
         NEW amount \in FixtureAmounts, transfer(source, destination, amount)
  PROVE  IInv'
<1> DEFINE d == Debited(source, amount)
           v == Loaded(destination) + amount
<1>1. /\ amount \in Amount /\ amount <= Loaded(source) /\ source # destination
      /\ v \in Amount /\ balances' = Put(d, destination, v) /\ supply' = supply
  BY ConstantsAssumption, IInvFacts, AmountIsNat DEF transfer, CanSub, CanAdd
<1>2. /\ IsMap(d) /\ SumOver(Hold(d)) = SumOver(Hold(balances)) - amount
      /\ Hold(d)[destination] = Hold(balances)[destination]
  BY <1>1, DebitedEffect
<1>3. /\ IsMap(balances')
      /\ SumOver(Hold(balances')) = SumOver(Hold(d)) - Hold(d)[destination] + v
  <2> HIDE DEF d, v
  <2> QED
    BY <1>1, <1>2, PutEffect
<1>4. /\ Hold(balances)[destination] = Loaded(destination) /\ Loaded(destination) \in Nat
      /\ amount \in Nat /\ supply = SumOver(Hold(balances)) /\ supply \in Amount /\ supply \in Nat
  BY <1>1, IInvFacts, AmountIsNat
<1>5. SumOver(Hold(balances')) = supply
  <2> HIDE DEF d
  <2> QED
    BY <1>2, <1>3, <1>4
<1>6. escrow' \in Int /\ calls' \in [Calls -> CallRecord \cup {NoCall}]
  BY DEF IInv, TypeOK, transfer
<1> QED
  BY <1>1, <1>3, <1>4, <1>5, <1>6, IInvRebuild

-----------------------------------------------------------------------------
LEMMA NextIInv == IInv /\ [Next]_vars => IInv'
<1> SUFFICES ASSUME IInv, [Next]_vars PROVE IInv'
  OBVIOUS
<1>1. CASE StorageStep
  BY <1>1, StorageDepositIInv, StorageUnregisterIInv DEF StorageStep
<1>2. CASE TransferStep
  BY <1>2, FtTransferIInv, FtTransferCallIInv DEF TransferStep
<1>3. CASE \E c \in Calls : Answer(c) \/ Resolve(c)
  BY <1>3, FtOnTransferIInv, FtResolveTransferIInv, ResolverPanicsIInv DEF Answer, Resolve
<1>4. CASE MintStep
  BY <1>4, MintIInv, BurnIInv, TransferIInv, ConstantsAssumption DEF MintStep
<1>5. CASE UNCHANGED vars
  BY <1>5, IInvFacts, IInvRebuild DEF vars, IInv, TypeOK
<1> QED
  BY <1>1, <1>2, <1>3, <1>4, <1>5 DEF Next

LEMMA SpecIInv == Spec => []IInv
BY InitIInv, NextIInv, PTL DEF Spec

\* Every stored balance and the supply stay within a u128, and every call in flight is well formed.
THEOREM TypeCorrect == Spec => []TypeOK
<1>1. IInv => TypeOK
  BY DEF IInv
<1> QED
  BY <1>1, SpecIInv, PTL

\* The supply the contract reports is the sum of all balances in every reachable state.
THEOREM ConservationHolds == Spec => []Conservation
<1>1. IInv => Conservation
  BY DEF IInv
<1> QED
  BY <1>1, SpecIInv, PTL

LEMMA ResolverSafe == IInv => ResolverNeverPanics
<1>1. ASSUME IInv, NEW c \in Calls, Delivered(c)
      PROVE  ResolveOk(calls[c])
  <2> DEFINE call == calls[c]
             r == Refund(call)
             a == call.receiver
             b == call.sender
  <2>1. call \in CallRecord /\ call.result # Pending
    BY <1>1 DEF IInv, TypeOK, Delivered
  <2>2. a \in Accounts /\ b \in Accounts /\ a # b
    BY <2>1 DEF CallRecord
  <2>3. \A x \in Accounts : x \in DOMAIN balances => balances[x] \in Nat /\ balances[x] = Loaded(x)
    BY <1>1, IInvFacts, AmountIsNat
  <2>4. \A x \in Accounts : LoadedValid(x) /\ (ReadWasValidPresent(x) \/ ReadWasMissing(x))
    BY <2>3, SentinelsAssumption DEF LoadedValid, ReadWasValidPresent, ReadWasMissing
  <2>5. r \in Nat /\ r <= Loaded(a)
    BY <1>1, <2>1, RefundFacts, AmountIsNat
  <2>6. /\ Loaded(a) \in Nat /\ Loaded(b) \in Nat /\ Loaded(a) + Loaded(b) <= supply
        /\ Loaded(a) <= supply /\ supply \in Nat /\ supply <= U128Max /\ U128Max \in Nat
    BY <1>1, <2>2, IInvFacts, AmountIsNat
  <2>7. ReadWasValidPresent(b) => CanAdd(balances[b], r)
    <3> HIDE DEF r, a, b
    <3> QED
      BY <2>2, <2>3, <2>5, <2>6 DEF CanAdd, ReadWasValidPresent
  <2>8. CanSub(supply, r)
    <3> HIDE DEF r, a, b
    <3> QED
      BY <2>5, <2>6 DEF CanSub
  <2> QED
    BY <2>2, <2>4, <2>7, <2>8 DEF ResolveOk
<1> QED
  BY <1>1 DEF ResolverNeverPanics

\* No check of the callback can fail: conservation bounds two balances by the supply, and
\* the supply fits a u128.
THEOREM ResolverNeverPanicsHolds == Spec => []ResolverNeverPanics
BY ResolverSafe, SpecIInv, PTL

-----------------------------------------------------------------------------
(***************************************************************************)
(* Storage is paid for exactly.                                            *)
(***************************************************************************)

\* What the entries of the storage map cost.
Cost(m) == [a \in Accounts |-> IF a \in DOMAIN m THEN StorageCost[a] ELSE 0]

LEMMA UncoveredIsCost == Uncovered = SumOver(Cost(balances)) - escrow
BY DEF Uncovered, Cost

LEMMA CostType ==
  ASSUME NEW m
  PROVE  /\ Cost(m) \in [Accounts -> Int]
         /\ SumOver(Cost(m)) \in Int
<1>1. Cost(m) \in [Accounts -> Int]
  BY ConstantsAssumption DEF Cost
<1>2. Self \in Accounts
  BY ConstantsAssumption
<1> QED
  BY <1>1, <1>2, 0 \in Int, SumUpdate

\* Overwriting an entry costs nothing, a new one costs its price.
LEMMA PutCost ==
  ASSUME NEW m, NEW a \in Accounts, NEW v
  PROVE  /\ a \in DOMAIN m => Cost(Put(m, a, v)) = Cost(m)
         /\ a \notin DOMAIN m =>
              SumOver(Cost(Put(m, a, v))) = SumOver(Cost(m)) + StorageCost[a]
<1>1. a \in DOMAIN m => Cost(Put(m, a, v)) = Cost(m)
  BY DEF Cost, Put
<1>2. ASSUME a \notin DOMAIN m
      PROVE  SumOver(Cost(Put(m, a, v))) = SumOver(Cost(m)) + StorageCost[a]
  <2>1. Cost(Put(m, a, v)) = [Cost(m) EXCEPT ![a] = StorageCost[a]] /\ Cost(m)[a] = 0
    BY <1>2 DEF Cost, Put
  <2>2. StorageCost[a] \in Int
    BY ConstantsAssumption
  <2>3. SumOver([Cost(m) EXCEPT ![a] = StorageCost[a]]) = SumOver(Cost(m)) - Cost(m)[a] + StorageCost[a]
    BY <2>2, CostType, SumUpdate
  <2> QED
    BY <2>1, <2>2, <2>3, CostType
<1> QED
  BY <1>1, <1>2

\* A removed entry no longer costs its price.
LEMMA RemoveCost ==
  ASSUME NEW m, NEW a \in Accounts, a \in DOMAIN m
  PROVE  SumOver(Cost(Remove(m, a))) = SumOver(Cost(m)) - StorageCost[a]
<1>1. Cost(Remove(m, a)) = [Cost(m) EXCEPT ![a] = 0] /\ Cost(m)[a] = StorageCost[a]
  BY DEF Cost, Remove
<1>2. SumOver([Cost(m) EXCEPT ![a] = 0]) = SumOver(Cost(m)) - Cost(m)[a] + 0
  BY 0 \in Int, CostType, SumUpdate
<1> QED
  BY <1>1, <1>2, CostType, ConstantsAssumption

\* A step that leaves the entries and the escrow alone leaves nothing to pay.
LEMMA SameCost ==
  ASSUME DOMAIN balances' = DOMAIN balances, escrow' = escrow
  PROVE  Uncovered' = Uncovered
BY DEF Uncovered

LEMMA StorageDepositPaid ==
  ASSUME IInv, NEW account \in Accounts, NEW deposit \in Deposits,
         storage_deposit(account, deposit)
  PROVE  Uncovered' = Uncovered
<1>1. /\ deposit \in Int /\ StorageCost[account] \in Int /\ escrow \in Int
      /\ escrow' = escrow + deposit - DepositRefund(account, deposit)
  BY ConstantsAssumption DEF IInv, TypeOK, storage_deposit, Settle
<1>2. Uncovered' = SumOver(Cost(balances')) - escrow'
  BY DEF Uncovered, Cost
<1>3. CASE ReadWasMissing(account)
  <2>1. balances' = Put(balances, account, 0) /\ account \notin DOMAIN balances
    BY <1>3 DEF storage_deposit, ReadWasMissing
  <2>2. escrow' = escrow + StorageCost[account]
    BY <1>1, <1>3 DEF DepositRefund
  <2>3. SumOver(Cost(balances')) = SumOver(Cost(balances)) + StorageCost[account]
    BY <2>1, PutCost
  <2> QED
    BY <1>1, <1>2, <2>2, <2>3, CostType, UncoveredIsCost
<1>4. CASE ~ReadWasMissing(account)
  <2>1. balances' = balances /\ escrow' = escrow
    BY <1>1, <1>4 DEF storage_deposit, DepositRefund
  <2> QED
    BY <2>1, SameCost
<1> QED
  BY <1>3, <1>4

LEMMA StorageUnregisterPaid ==
  ASSUME IInv, NEW caller \in Accounts, NEW force \in BOOLEAN, storage_unregister(caller, force)
  PROVE  Uncovered' = Uncovered
<1>1. /\ StorageCost[caller] \in Int /\ escrow \in Int
      /\ escrow' = escrow + 1 - (StorageCost[caller] + 1)
  BY ConstantsAssumption DEF IInv, TypeOK, storage_unregister, Settle
<1>2. Uncovered' = SumOver(Cost(balances')) - escrow'
  BY DEF Uncovered, Cost
<1>3. SumOver(Cost(balances')) = SumOver(Cost(balances)) - StorageCost[caller]
  BY RemoveCost DEF storage_unregister, ReadWasValidPresent
<1> QED
  BY <1>1, <1>2, <1>3, CostType, UncoveredIsCost

\* A transfer writes two entries that are both there.
LEMMA MovedPaid ==
  ASSUME NEW sender \in Accounts, NEW receiver \in Accounts, NEW amount,
         TransferOk(sender, receiver, amount), balances' = Moved(sender, receiver, amount),
         escrow' = escrow
  PROVE  Uncovered' = Uncovered
<1>1. DOMAIN balances' = DOMAIN balances
  BY DEF TransferOk, MayReceive, ReadWasValidPresent, Moved, Put
<1> QED
  BY <1>1, SameCost

\* So does a callback: the receiver's entry is there when something is refunded from it.
LEMMA FtResolveTransferPaid ==
  ASSUME IInv, NEW c \in Calls, ft_resolve_transfer(c)
  PROVE  Uncovered' = Uncovered
<1> DEFINE call == calls[c]
<1>1. call \in CallRecord /\ call.result # Pending
  BY DEF IInv, TypeOK, ft_resolve_transfer, Delivered
<1>2. Refund(call) > 0 => call.receiver \in DOMAIN balances
  BY <1>1, RefundFacts
<1>3. escrow' = escrow
  BY DEF ft_resolve_transfer
<1>4. CASE ResolveToSender(call)
  <2>1. /\ call.receiver \in DOMAIN balances /\ call.sender \in DOMAIN balances
        /\ balances' = Refunded(call)
    BY <1>2, <1>4 DEF ResolveToSender, ReadWasValidPresent
  <2>2. DOMAIN balances' = DOMAIN balances
    BY <2>1 DEF Refunded, Put
  <2> QED
    BY <1>3, <2>2, SameCost
<1>5. CASE ResolveByBurning(call)
  <2>1. call.receiver \in DOMAIN balances /\ balances' = Burned(call)
    BY <1>2, <1>5 DEF ResolveByBurning
  <2>2. DOMAIN balances' = DOMAIN balances
    BY <2>1 DEF Burned, Put
  <2> QED
    BY <1>3, <2>2, SameCost
<1>6. CASE ResolveNothing(call)
  BY <1>3, <1>6, SameCost DEF ResolveNothing
<1> QED
  BY <1>4, <1>5, <1>6 DEF ft_resolve_transfer

\* Whatever receipts interleave, an entry appears only with its cost retained and disappears only
\* with its cost refunded; only the mint, burn and transfer entries do otherwise.
THEOREM StoragePaidHolds == Spec => StoragePaidExactly
<1>1. ASSUME IInv, [Next]_vars
      PROVE  [MintStep \/ Uncovered' = Uncovered]_vars
  <2>1. CASE StorageStep
    BY <1>1, <2>1, StorageDepositPaid, StorageUnregisterPaid DEF StorageStep
  <2>2. CASE TransferStep
    BY <2>2, MovedPaid DEF TransferStep, ft_transfer, ft_transfer_call
  <2>3. CASE \E c \in Calls : Answer(c) \/ Resolve(c)
    <3>1. ASSUME NEW c \in Calls, NEW result \in Results,
                 ft_on_transfer(c, result) \/ ResolverPanics(c)
          PROVE  Uncovered' = Uncovered
      BY <3>1, SameCost DEF ft_on_transfer, ResolverPanics
    <3> QED
      BY <1>1, <2>3, <3>1, FtResolveTransferPaid DEF Answer, Resolve, Results
  <2>4. CASE MintStep
    BY <2>4
  <2>5. CASE UNCHANGED vars
    BY <2>5
  <2> QED
    BY <1>1, <2>1, <2>2, <2>3, <2>4, <2>5 DEF Next
<1> QED
  BY <1>1, SpecIInv, PTL DEF Spec, StoragePaidExactly

-----------------------------------------------------------------------------
(***************************************************************************)
(* The refinement: every receipt is one step of the abstract ledger or     *)
(* none.                                                                   *)
(***************************************************************************)

AbstractStep == [Abstract!TokenNext]_(Abstract!tokenVars)

-----------------------------------------------------------------------------
(***************************************************************************)
(* What the storage map holds after its writes.                            *)
(***************************************************************************)

\* Removing an entry leaves its account with nothing.
LEMMA RemoveHolds ==
  ASSUME NEW m, IsMap(m), NEW a \in Accounts
  PROVE  Hold(Remove(m, a)) = [Hold(m) EXCEPT ![a] = 0]
BY DEF IsMap, Remove, Hold

\* Two writes that take n from one account and give it to another do just that.
LEMMA ExchangeHolds ==
  ASSUME NEW m, IsMap(m), NEW a \in Accounts, NEW b \in Accounts, a # b, NEW n \in Amount,
         n <= Hold(m)[a], Hold(m)[b] + n <= U128Max
  PROVE  Hold(Put(Put(m, a, Hold(m)[a] - n), b, Hold(m)[b] + n)) =
           [Hold(m) EXCEPT ![a] = @ - n, ![b] = @ + n]
<1> DEFINE x == Hold(m)[a] - n
           y == Hold(m)[b] + n
           p == Put(m, a, x)
<1>1. x \in Amount /\ y \in Amount /\ Hold(m) \in [Accounts -> Nat]
  BY HoldType, AmountIsNat
<1>2. IsMap(p) /\ Hold(p) = [Hold(m) EXCEPT ![a] = x]
  <2> HIDE DEF x
  <2> QED
    BY <1>1, PutEffect
<1>3. Hold(Put(p, b, y)) = [Hold(p) EXCEPT ![b] = y]
  <2> HIDE DEF p, y
  <2> QED
    BY <1>1, <1>2, PutEffect
<1> QED
  BY <1>1, <1>2, <1>3

\* Debiting an account takes the amount from what it holds, whether the entry stays or goes.
LEMMA DebitedHolds ==
  ASSUME IInv, NEW owner \in Accounts, NEW amount \in Amount, amount <= Loaded(owner)
  PROVE  Hold(Debited(owner, amount)) = [Hold(balances) EXCEPT ![owner] = @ - amount]
<1> DEFINE v == Loaded(owner) - amount
<1>1. /\ IsMap(balances) /\ v \in Amount /\ Hold(balances) \in [Accounts -> Nat]
      /\ Loaded(owner) = Hold(balances)[owner] /\ Loaded(owner) \in Nat /\ amount \in Nat
  BY IInvFacts, HoldType, AmountIsNat
<1>2. CASE Loaded(owner) = amount
  BY <1>1, <1>2, RemoveHolds DEF Debited
<1>3. CASE Loaded(owner) # amount
  <2>1. Hold(Put(balances, owner, v)) = [Hold(balances) EXCEPT ![owner] = v]
    <3> HIDE DEF v
    <3> QED
      BY <1>1, PutEffect
  <2> QED
    BY <1>1, <1>3, <2>1 DEF Debited
<1> QED
  BY <1>2, <1>3

\* The holdings of the abstract ledger before and after a step.
LEMMA Holdings ==
  ASSUME IInv
  PROVE  /\ Holding = Hold(balances) /\ Holding' = Hold(balances')
         /\ Holding \in [Accounts -> Nat]
         /\ supply = SumOver(Holding)
BY HoldType, IInvFacts DEF Holding, Hold, Loaded

\* The abstract ledger sums as the contract does.
LEMMA SameSum == \A f : Abstract!SumOver(f) = SumOver(f)
BY DEF Abstract!SumOver, SumOver, Abstract!PartialSums, PartialSums,
       Abstract!Listing, Listing, Abstract!AccountCount, AccountCount,
       Abstract!Cardinality, Cardinality

-----------------------------------------------------------------------------
(***************************************************************************)
(* The steps of the abstract ledger, in terms of Holding and calls.        *)
(***************************************************************************)

\* Who has no entry holds nothing.
LEMMA EntriesHold == Abstract!OnlyAccountsHold'
BY DEF Abstract!OnlyAccountsHold, Holding, Loaded

\* At most an entry that holds nothing comes or goes.
LEMMA Registers ==
  ASSUME UNCHANGED Holding, UNCHANGED calls
  PROVE  AbstractStep
<1>1. Abstract!Register
  BY DEF Abstract!Register
<1> QED
  BY <1>1, EntriesHold DEF AbstractStep, Abstract!TokenNext, Abstract!Transact

LEMMA Issues ==
  ASSUME NEW a \in Accounts, NEW n \in 1..U128Max, SumOver(Holding) + n <= U128Max,
         Holding' = [Holding EXCEPT ![a] = @ + n], UNCHANGED calls
  PROVE  AbstractStep
<1>1. Abstract!Issue(a, n)
  BY SameSum DEF Abstract!Issue
<1> QED
  BY <1>1, EntriesHold DEF AbstractStep, Abstract!TokenNext, Abstract!Transact

LEMMA Destroys ==
  ASSUME NEW a \in Accounts, NEW n \in 1..U128Max, n <= Holding[a],
         Holding' = [Holding EXCEPT ![a] = @ - n], UNCHANGED calls
  PROVE  AbstractStep
<1>1. Abstract!Destroy(a, n)
  BY DEF Abstract!Destroy
<1> QED
  BY <1>1, EntriesHold DEF AbstractStep, Abstract!TokenNext, Abstract!Transact

LEMMA Moves ==
  ASSUME NEW a \in Accounts, NEW b \in Accounts, a # b, NEW n \in 1..U128Max, n <= Holding[a],
         Holding' = [Holding EXCEPT ![a] = @ - n, ![b] = @ + n], UNCHANGED calls
  PROVE  AbstractStep
<1>1. Abstract!Move(a, b, n)
  BY DEF Abstract!Move, Abstract!Give
<1> QED
  BY <1>1, EntriesHold DEF AbstractStep, Abstract!TokenNext, Abstract!Transact

LEMMA MovesWithClaim ==
  ASSUME NEW c \in Calls, NEW a \in Accounts, NEW b \in Accounts, a # b, NEW n \in 1..U128Max,
         n <= Holding[a], Holding' = [Holding EXCEPT ![a] = @ - n, ![b] = @ + n],
         calls[c] = NoCall,
         calls' = [calls EXCEPT ![c] =
           [sender |-> a, receiver |-> b, amount |-> n, result |-> Pending]]
  PROVE  AbstractStep
<1>1. Abstract!MoveWithClaim(c, a, b, n)
  BY DEF Abstract!MoveWithClaim, Abstract!Give
<1> QED
  BY <1>1, EntriesHold DEF AbstractStep, Abstract!TokenNext, Abstract!Transact

LEMMA Answers ==
  ASSUME NEW c \in Calls, NEW result \in Results, calls[c] # NoCall, calls[c].result = Pending,
         calls' = [calls EXCEPT ![c].result = result], UNCHANGED Holding, UNCHANGED balances
  PROVE  AbstractStep
<1>1. Abstract!Answer(c, result) /\ result \in 0..U128Max \cup {Invalid}
  BY DEF Abstract!Answer, Results, Amount
<1> QED
  BY <1>1 DEF AbstractStep, Abstract!TokenNext

\* A claim is settled for what the contract takes to be the refund, and goes where it sends it.
LEMMA Settles ==
  ASSUME NEW c \in Calls, NEW m, NEW a, NEW b, calls[c] # NoCall, calls[c].result # Pending,
         calls[c].receiver = a, calls[c].sender = b, m = Lesser(Unused(calls[c]), Holding[a]),
         IF b \in DOMAIN balances THEN Holding' = [Holding EXCEPT ![a] = @ - m, ![b] = @ + m]
         ELSE Holding' = [Holding EXCEPT ![a] = @ - m],
         calls' = [calls EXCEPT ![c] = NoCall], DOMAIN balances' = DOMAIN balances
  PROVE  AbstractStep
<1>1. m = Abstract!Least(Abstract!Unspent(calls[c]), Holding[a])
  BY DEF Abstract!Least, Abstract!Unspent, Lesser, Unused
<1>2. Abstract!SettleClaim(c)
  BY <1>1 DEF Abstract!SettleClaim, Abstract!Give
<1> QED
  BY <1>2 DEF AbstractStep, Abstract!TokenNext

-----------------------------------------------------------------------------
(***************************************************************************)
(* The receipts.                                                           *)
(***************************************************************************)

\* A registration is invisible: a present zero holds as little as a missing entry.
LEMMA StorageDepositStep ==
  ASSUME IInv, NEW account \in Accounts, NEW deposit \in Deposits,
         storage_deposit(account, deposit)
  PROVE  AbstractStep
<1>1. Hold(balances') = Hold(balances)
  BY DEF storage_deposit, ReadWasMissing, Put, Hold
<1>2. UNCHANGED calls
  BY DEF storage_deposit
<1> QED
  BY <1>1, <1>2, Holdings, Registers

\* Unregistering destroys what the account held, if anything.
LEMMA StorageUnregisterStep ==
  ASSUME IInv, NEW caller \in Accounts, NEW force \in BOOLEAN, storage_unregister(caller, force)
  PROVE  AbstractStep
<1> DEFINE n == Holding[caller]
<1>1. UNCHANGED calls /\ balances' = Remove(balances, caller)
  BY DEF storage_unregister
<1>2. Holding' = [Holding EXCEPT ![caller] = 0] /\ n \in Nat /\ n <= U128Max
      /\ Holding \in [Accounts -> Nat]
  BY <1>1, Holdings, RemoveHolds, IInvFacts, HoldType, AmountIsNat
<1>3. CASE n = 0
  BY <1>1, <1>2, <1>3, Registers
<1>4. CASE n # 0
  <2>1. Holding' = [Holding EXCEPT ![caller] = @ - n] /\ n \in 1..U128Max /\ n <= Holding[caller]
    <3>1. Holding[caller] - n = 0 /\ n \in 1..U128Max /\ n <= Holding[caller]
      BY <1>2, <1>4, AmountIsNat
    <3> QED
      BY <1>2, <3>1
  <2> HIDE DEF n
  <2> QED
    BY <1>1, <2>1, Destroys
<1> QED
  BY <1>3, <1>4

\* An accepted transfer gives the amount from the sender to the receiver.
LEMMA MovedGives ==
  ASSUME IInv, NEW sender \in Accounts, NEW receiver \in Accounts, NEW amount \in TransferAmounts,
         TransferOk(sender, receiver, amount), balances' = Moved(sender, receiver, amount)
  PROVE  /\ sender # receiver
         /\ amount \in 1..U128Max
         /\ amount <= Holding[sender]
         /\ Holding' = [Holding EXCEPT ![sender] = @ - amount, ![receiver] = @ + amount]
<1>1. amount \in Amount /\ amount \in 1..U128Max /\ sender # receiver
  BY ConstantsAssumption, AmountIsNat DEF TransferOk, DistinctParties
<1>2. balances[sender] = Loaded(sender) /\ amount <= Loaded(sender) /\ Loaded(receiver) + amount <= U128Max
  BY DEF TransferOk, ReadWasValidPresent, CanSub, CanAdd, Loaded
<1>3. /\ amount <= Hold(balances)[sender] /\ Hold(balances)[receiver] + amount <= U128Max
      /\ balances' = Put(Put(balances, sender, Hold(balances)[sender] - amount),
                         receiver, Hold(balances)[receiver] + amount)
  BY <1>2, IInvFacts DEF Moved
<1>4. Hold(balances') = [Hold(balances) EXCEPT ![sender] = @ - amount, ![receiver] = @ + amount]
  BY <1>1, <1>3, IInvFacts, ExchangeHolds
<1> QED
  BY <1>1, <1>3, <1>4, Holdings

LEMMA FtTransferStep ==
  ASSUME IInv, NEW sender \in Accounts, NEW receiver \in Accounts, NEW amount \in TransferAmounts,
         ft_transfer(sender, receiver, amount)
  PROVE  AbstractStep
<1>1. UNCHANGED calls
  BY DEF ft_transfer
<1> QED
  BY <1>1, MovedGives, Moves DEF ft_transfer

\* A transfer call moves the amount and opens the claim of it.
LEMMA FtTransferCallStep ==
  ASSUME IInv, NEW c \in Calls, NEW sender \in Accounts, NEW receiver \in Accounts,
         NEW amount \in TransferAmounts, ft_transfer_call(c, sender, receiver, amount)
  PROVE  AbstractStep
<1>1. /\ sender # receiver /\ amount \in 1..U128Max /\ amount <= Holding[sender]
      /\ Holding' = [Holding EXCEPT ![sender] = @ - amount, ![receiver] = @ + amount]
  BY MovedGives DEF ft_transfer_call
<1> QED
  BY <1>1, MovesWithClaim DEF ft_transfer_call

\* The receiver's answer is that of the claim.
LEMMA FtOnTransferStep ==
  ASSUME IInv, NEW c \in Calls, NEW result \in Results, ft_on_transfer(c, result)
  PROVE  AbstractStep
<1>1. Holding' = Holding
  BY Holdings DEF ft_on_transfer
<1> QED
  BY <1>1, Answers DEF ft_on_transfer

\* The callback takes what was not used from the receiver, as far as it holds it, and gives it to
\* the sender if it still has an entry.
LEMMA FtResolveTransferStep ==
  ASSUME IInv, NEW c \in Calls, ft_resolve_transfer(c)
  PROVE  AbstractStep
<1> DEFINE call == calls[c]
           r == Refund(call)
           a == call.receiver
           b == call.sender
<1>1. call \in CallRecord /\ call.result # Pending /\ ResolveOk(call) /\ call # NoCall
  BY NoCallAssumption DEF IInv, TypeOK, ft_resolve_transfer, Delivered
<1>2. a \in Accounts /\ b \in Accounts /\ a # b
  BY <1>1 DEF CallRecord
<1>3. /\ r \in Amount /\ r \in 0..U128Max /\ r <= Loaded(a)
      /\ r > 0 => a \in DOMAIN balances
  BY <1>1, RefundFacts DEF Amount
<1>4. /\ IsMap(balances) /\ Holding \in [Accounts -> Nat] /\ Loaded(a) = Holding[a]
      /\ Holding = Hold(balances) /\ Holding' = Hold(balances')
      /\ a \in DOMAIN balances => balances[a] = Holding[a]
  BY <1>2, Holdings, IInvFacts
<1>5. /\ call.receiver = a /\ call.sender = b /\ r = Lesser(Unused(call), Holding[a])
      /\ calls' = [calls EXCEPT ![c] = NoCall]
  BY <1>4 DEF Refund, ft_resolve_transfer
<1>6. CASE ResolveToSender(call)
  <2>1. /\ balances[b] = Holding[b] /\ balances[b] + r <= U128Max /\ r > 0
        /\ a \in DOMAIN balances /\ b \in DOMAIN balances
    BY <1>1, <1>2, <1>3, <1>6, IInvFacts, Holdings
       DEF ResolveToSender, ResolveOk, ReadWasMissing, ReadWasValidPresent, CanAdd
  <2>2. balances' = Put(Put(balances, a, Hold(balances)[a] - r), b, Hold(balances)[b] + r)
    BY <1>3, <1>4, <1>6, <2>1 DEF ResolveToSender, Refunded
  <2>3. DOMAIN balances' = DOMAIN balances
    BY <2>1, <2>2 DEF Put
  <2> HIDE DEF r, a, b, call
  <2>4. Holding' = [Holding EXCEPT ![a] = @ - r, ![b] = @ + r]
    <3>1. /\ IsMap(balances) /\ r \in Amount
          /\ Hold(balances)[b] + r <= U128Max /\ r <= Hold(balances)[a]
      BY <1>3, <1>4, <2>1
    <3>2. Hold(Put(Put(balances, a, Hold(balances)[a] - r), b, Hold(balances)[b] + r)) =
            [Hold(balances) EXCEPT ![a] = @ - r, ![b] = @ + r]
      BY <1>2, <3>1, ExchangeHolds
    <3> QED
      BY <1>4, <2>2, <3>2
  <2> QED
    BY <1>1, <1>5, <2>1, <2>3, <2>4, Settles DEF call
<1>7. CASE ResolveByBurning(call)
  <2> DEFINE v == Holding[a] - r
  <2>1. balances' = Put(balances, a, v) /\ a \in DOMAIN balances /\ b \notin DOMAIN balances
    BY <1>3, <1>4, <1>7 DEF ResolveByBurning, Burned, ReadWasMissing
  <2>2. v \in Amount
    BY <1>2, <1>3, <1>4, IInvFacts, AmountIsNat
  <2>3. DOMAIN balances' = DOMAIN balances
    BY <2>1 DEF Put
  <2> HIDE DEF v, r, a, b, call
  <2>4. Hold(balances') = [Hold(balances) EXCEPT ![a] = v]
    BY <1>2, <1>4, <2>1, <2>2, PutEffect
  <2>5. Holding' = [Holding EXCEPT ![a] = @ - r]
    BY <1>4, <2>4 DEF v
  <2> QED
    BY <1>1, <1>5, <2>1, <2>3, <2>5, Settles DEF call
<1>8. CASE ResolveNothing(call)
  <2>1. r = 0 /\ Holding' = Holding /\ DOMAIN balances' = DOMAIN balances
    BY <1>4, <1>8 DEF ResolveNothing
  <2> HIDE DEF r, a, b, call
  <2>2. /\ Holding' = [Holding EXCEPT ![a] = @ - r]
        /\ Holding' = [Holding EXCEPT ![a] = @ - r, ![b] = @ + r]
    BY <1>2, <1>4, <2>1
  <2>3. IF b \in DOMAIN balances THEN Holding' = [Holding EXCEPT ![a] = @ - r, ![b] = @ + r]
        ELSE Holding' = [Holding EXCEPT ![a] = @ - r]
    BY <2>2
  <2>4. calls[c] # NoCall /\ calls[c].result # Pending /\ calls[c].receiver = a
        /\ calls[c].sender = b /\ r = Lesser(Unused(calls[c]), Holding[a])
    BY <1>1, <1>5 DEF call
  <2> QED
    BY <1>5, <2>1, <2>3, <2>4, Settles
<1> QED
  BY <1>6, <1>7, <1>8 DEF ft_resolve_transfer

\* A callback never panics: its claim would be closed with nothing given back.
LEMMA ResolverPanicsNot ==
  ASSUME IInv, NEW c \in Calls
  PROVE  ~ ResolverPanics(c)
BY ResolverSafe DEF ResolverPanics, ResolverNeverPanics

\* Minting issues, burning destroys, and the transfer entry moves.
LEMMA MintEntryStep ==
  ASSUME IInv, NEW owner \in Accounts, NEW amount \in FixtureAmounts, mint(owner, amount)
  PROVE  AbstractStep
<1> DEFINE v == Loaded(owner) + amount
<1>1. /\ amount \in 1..U128Max /\ v \in Amount /\ balances' = Put(balances, owner, v)
      /\ supply + amount <= U128Max /\ UNCHANGED calls
  BY ConstantsAssumption, IInvFacts, AmountIsNat DEF mint, MintFits, CanAdd
<1>2. IsMap(balances) /\ v = Holding[owner] + amount
  BY IInvFacts, Holdings
<1>3. Hold(balances') = [Hold(balances) EXCEPT ![owner] = v]
  <2> HIDE DEF v
  <2> QED
    BY <1>1, <1>2, PutEffect
<1>4. Holding' = [Holding EXCEPT ![owner] = @ + amount]
  <2> HIDE DEF v
  <2> QED
    BY <1>2, <1>3, Holdings
<1> QED
  BY <1>1, <1>4, Holdings, Issues

LEMMA BurnEntryStep ==
  ASSUME IInv, NEW owner \in Accounts, NEW amount \in FixtureAmounts, burn(owner, amount)
  PROVE  AbstractStep
<1>1. /\ amount \in Amount /\ amount \in 1..U128Max /\ amount <= Loaded(owner)
      /\ balances' = Debited(owner, amount) /\ UNCHANGED calls
  BY ConstantsAssumption, AmountIsNat DEF burn, CanSub
<1>2. Holding' = [Holding EXCEPT ![owner] = @ - amount] /\ amount <= Holding[owner]
  BY <1>1, DebitedHolds, Holdings, IInvFacts
<1> QED
  BY <1>1, <1>2, Destroys

LEMMA TransferEntryStep ==
  ASSUME IInv, NEW source \in Accounts, NEW destination \in Accounts,
         NEW amount \in FixtureAmounts, transfer(source, destination, amount)
  PROVE  AbstractStep
<1> DEFINE d == Debited(source, amount)
           v == Loaded(destination) + amount
<1>1. /\ amount \in Amount /\ amount \in 1..U128Max /\ amount <= Loaded(source)
      /\ source # destination /\ v \in Amount /\ balances' = Put(d, destination, v)
      /\ UNCHANGED calls
  BY ConstantsAssumption, IInvFacts, AmountIsNat DEF transfer, CanSub, CanAdd
<1>2. /\ IsMap(d) /\ Hold(d) = [Hold(balances) EXCEPT ![source] = @ - amount]
      /\ v = Holding[destination] + amount /\ amount <= Holding[source]
      /\ Holding = Hold(balances) /\ Holding' = Hold(balances') /\ Holding \in [Accounts -> Nat]
  BY <1>1, DebitedEffect, DebitedHolds, Holdings, IInvFacts
<1> HIDE DEF d, v
<1>3. Hold(balances') = [Hold(d) EXCEPT ![destination] = v]
  <2>1. Hold(Put(d, destination, v)) = [Hold(d) EXCEPT ![destination] = v]
    <3>1. IsMap(d) /\ v \in Amount
      BY <1>1, <1>2
    <3> QED
      BY <3>1, PutEffect
  <2> QED
    BY <1>1, <2>1
<1>4. Holding' = [Holding EXCEPT ![source] = @ - amount, ![destination] = @ + amount]
  BY <1>1, <1>2, <1>3
<1> QED
  BY <1>1, <1>2, <1>4, Moves

-----------------------------------------------------------------------------
LEMMA NextStep == IInv /\ [Next]_vars => AbstractStep
<1> SUFFICES ASSUME IInv, [Next]_vars PROVE AbstractStep
  OBVIOUS
<1>1. CASE StorageStep
  BY <1>1, StorageDepositStep, StorageUnregisterStep DEF StorageStep
<1>2. CASE TransferStep
  BY <1>2, FtTransferStep, FtTransferCallStep DEF TransferStep
<1>3. CASE \E c \in Calls : Answer(c) \/ Resolve(c)
  BY <1>3, FtOnTransferStep, FtResolveTransferStep, ResolverPanicsNot DEF Answer, Resolve
<1>4. CASE MintStep
  BY <1>4, MintEntryStep, BurnEntryStep, TransferEntryStep, ConstantsAssumption DEF MintStep
<1>5. CASE UNCHANGED vars
  BY <1>5, Holdings, Registers DEF vars
<1> QED
  BY <1>1, <1>2, <1>3, <1>4, <1>5 DEF Next

\* Every behaviour of the token contract is one of TokenLedger: a transfer call is settled once, for
\* exactly what the receiver did not use as far as it still holds it, whatever runs between; a
\* receiver that failed used nothing, and only a sender without an entry loses what is given back.
THEOREM TokenLedgerImplemented == Spec => ImplementsTokenLedger
<1>1. Init => Abstract!TokenInit
  BY DEF Init, Abstract!TokenInit, Holding, Loaded
<1>2. IInv /\ [Next]_vars => [Abstract!TokenNext]_(Abstract!tokenVars)
  BY NextStep DEF AbstractStep
<1> QED
  BY <1>1, <1>2, SpecIInv, PTL DEF Spec, ImplementsTokenLedger, Abstract!TokenSpec
==============================================================================
