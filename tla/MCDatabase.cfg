\* Two reservations of two users, every reply, corrections in between; in memory two of one
\* user, with costs within and beyond the hold; four instances, two channels with keys.
SPECIFICATION DatabaseSpec
CONSTANTS
  old1 = old1
  old2 = old2
  new = new
  edited = edited
  NoUser = NoUser
  NoChannel = NoChannel
  Users = {u1, u2}
  Ids = {r1, r2}
  Channels = {c1, c2}
  Openings = {3}
  Amounts = {2}
  Costs = {0, 1, 3}
  Deltas <- MCDeltas
  MaxVersion = 2
  MemoryUsers = {u3}
  MemoryOpenings = {4}
  MemoryDeltas <- MCMemoryDeltas
  MaxCorrections = 1
  Instances = {old1, old2, new, edited}
  Knows <- MCKnows
  AutoMigrate = {old1, new, edited}
  AllowPlain = {old1, old2}
  NoOne = noone
  MaxCrashes = 1
SYMMETRY Symmetric
INVARIANTS TypesOK Reconciled AuditChain MoneyConserved RecoverComplete SchemaKept
PROPERTIES ConsumptionIsFinal ImplementsWallet MemoryImplementsWallet
\* Instances may all be in service, or refused for good.
CHECK_DEADLOCK FALSE
