CONSTANTS
  alice = alice
  bob = bob
  ledger = ledger
  c1 = c1
  c2 = c2
  Accounts = {alice, bob, ledger}
  Self = ledger
  U128Max = 2
  TransferAmounts = {0, 1, 2}
  FixtureAmounts = {1, 2}
  Deposits = {0, 1, 2}
  StorageCost <- MCStorageCost
  Funding = 1
  MaxEscrow = 3
  Calls = {c1, c2}
  NoCall = NoCall
  Pending = Pending
  Invalid = Invalid
  Malformed = Malformed
SYMMETRY MCSymmetry
SPECIFICATION Spec
INVARIANTS TypeOK Conservation ResolverNeverPanics
PROPERTIES StoragePaidExactly ImplementsTokenLedger
