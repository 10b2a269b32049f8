\* Two requests of one user, two channels, clients that hang up; the database answers.
\* Prices that round, limits of one to three tokens, small largest integers.
SPECIFICATION MCSpec
CONSTANTS
  u1 = u1
  q1 = q1
  q2 = q2
  c1 = c1
  c2 = c2
  NoUser = NoUser
  NoChannel = NoChannel
  Users = {u1}
  Requests = {q1, q2}
  Channels = {c1, c2}
  Openings = {3}
  Amounts = {2}
  Costs = {1}
  FailureThreshold = 1
  HalfOpenMaxProbes = 1
  Recorders = 1
  MaxCrashes = 0
  Faults = {"cancel"}
  Unit = 2
  MaxInt = 14
  MaxCount = 3
  Prices = {0, 1, 3}
  Limits = {1, 3}
  DefaultReserve = 2
  Tokens = {0, 1, 2}
SYMMETRY PermuteBoth
INVARIANTS GivesBack ExactSettles ChargeSound CountsExact
\* A request that is settled is at its end.
CHECK_DEADLOCK FALSE
