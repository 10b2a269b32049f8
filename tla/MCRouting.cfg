\* Three concurrent attempts, two probe slots, two trips and recoveries; one channel that comes
\* and goes, two handlers and the timer, two requests at a time; up to three channels in order,
\* weights of zero, one and above; two channels under two configurations, one restart.
SPECIFICATION RoutingSpec
CONSTANTS
  FailureThreshold = 2
  HalfOpenMaxProbes = 2
  Callers = {c1, c2, c3}
  MaxGeneration = 5
  Admins = {a1, a2}
  MaxWrites = 2
  Channels = {ch1}
  Timer = timer
  Requests = {r1, r2}
  MaxFailures = 1
  MaxTicks = 0
  MaxTrips = 1
  Offered = {ch1, ch2, ch3}
  Priorities = {0, 1}
  Weights = {0, 1, 3}
  Administered = {ch1, ch2}
  Targets = {t1, t2}
  Models = {m1, m2}
  Configs <- MCConfigs
  MaxRestarts = 1
INVARIANTS TypesOK BreakersKept OfferedInOrder
PROPERTIES ImplementsCircuit KeepsServing RoutesFollow
\* Breakers, orders and bounded writes come to an end.
CHECK_DEADLOCK FALSE
