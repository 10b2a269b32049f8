\* One request, two channels, every fault, one crash; two instances, one request and one
\* consumption left from before, one signal and one crash; under fairness.
SPECIFICATION MCSpec
CONSTANTS
  i1 = i1
  i2 = i2
  NoUser = NoUser
  NoChannel = NoChannel
  NoInstance = NoInstance
  Users = {u1}
  Requests = {q1}
  Channels = {c1, c2}
  Openings = {3}
  Amounts = {2}
  Costs = {1, 3}
  FailureThreshold = 1
  HalfOpenMaxProbes = 1
  Recorders = 2
  MaxCrashes = 1
  Faults = {"database", "cancel", "panic", "stall"}
  Instances = {i1, i2}
  Holds = {h1, h2}
  Backlog = {h2}
  User = u1
  Channel = c1
  MaxStops = 1
  MaxDeaths = 1
INVARIANTS TypesOK NoFreeGeneration OneGeneration ChargedForService HonestAnswers InstancesSound
PROPERTIES Concluded StartsAndStops
