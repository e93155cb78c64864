\* Two requests under way and three in all; a minute of two seconds, in which
\* the address may come twice and an identity once.
CONSTANTS
  Slots = {r1, r2}
  Ip = Ip
  Buckets = {b, c}
  People = {"p", "q"}
  Login <- MCLogin
  Suffixed <- MCSuffixed
  Key <- MCKey
  Limiters <- MCLimiters
  Burst <- MCBurst
  Minute = 2
  MaxAge = 2
  TokenLife = 1
  None = None
  MaxTime = 3
  MaxRequests = 3
  Text <- MCText
  Skew = 1
  MaxTTL = 2
  Day = 3
  Second = 4
  Limit = 32
SPECIFICATION Spec
SYMMETRY Symmetry
CHECK_DEADLOCK FALSE
INVARIANTS
  TypeOK
  GrantsBounded
  RetryAfterHonest
  VerdictIsRight
