\* Two requests share one channel; the code of an attempt may panic.
SPECIFICATION Spec
CONSTANTS
  u1 = u1
  q1 = q1
  q2 = q2
  q3 = q3
  c1 = c1
  c2 = c2
  NoUser = NoUser
  NoChannel = NoChannel
  Users = {u1}
  Requests = {q1, q2}
  Channels = {c1}
  Openings = {4}
  Amounts = {2}
  Costs = {1}
  FailureThreshold = 1
  HalfOpenMaxProbes = 1
  Recorders = 1
  MaxCrashes = 0
  Faults = {"panic"}
SYMMETRY PermuteRequests
INVARIANTS PermitsPaired
