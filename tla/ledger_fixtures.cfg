CONSTANTS
  alice = alice
  bob = bob
  ledger = ledger
  c1 = c1
  Accounts = {alice, bob, ledger}
  Self = ledger
  U128Max = 2
  TransferAmounts = {1, 2}
  FixtureAmounts = {1, 2}
  Deposits = {0, 1}
  StorageCost <- MCStorageCost
  Funding = 0
  MaxEscrow = 1
  Calls = {c1}
  SenderSeed = 1
  ReceiverSeed = 1
  CallerSeed = 2
  ShortSeed = 1
  Receivers = {alice, bob}
  ScheduledAmount = 2
  Absent = Absent
  NoCall = NoCall
  Pending = Pending
  Invalid = Invalid
  Malformed = Malformed
SYMMETRY MCSymmetry
SPECIFICATION FixtureSpec
INVARIANT SeededTypeOK
PROPERTIES SupplyMovesWithBalances MalformedFailsClosed
