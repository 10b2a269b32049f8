\* Two clients, an account's bucket and a key's, a minute of three ticks; two devices and
\* three tokens, one name to register, and one key of two users.
SPECIFICATION AccessSpec
CONSTANTS
  Account = a1
  Keys = {k1}
  Clients = {c1, c2}
  Minute = 3
  PerMin <- MCPerMin
  MaxTime = 8
  MaxGrants = 4
  Passwords = {p1, p2}
  MaxVersion = 1
  Accounts = {a1}
  Tokens = {t1, t2, t3}
  MaxSessions = 2
  Ttls = {1, 2}
  MaxClock = 2
  Names = {boot}
  BootName = boot
  BcryptSlots = 1
  Balances = {0, 5}
  Users = {p1, p2}
  Secrets = {t1, t2, t3}
  NoOne = noone
  MaxKeys = 1
  GateSize = 1
SYMMETRY Symmetric
INVARIANTS TypesOK SessionsTrue LimitsHonest
PROPERTIES AnswersCurrent AccountsSound KeysSound
\* The bounds on time and grants end the behaviours of the limits.
CHECK_DEADLOCK FALSE
