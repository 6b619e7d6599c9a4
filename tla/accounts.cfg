SPECIFICATION MCSpec
CONSTANTS
  t1 = t1
  t2 = t2
  t3 = t3
  r1 = r1
  b1 = b1
  b2 = b2
  c1 = c1
  c2 = c2
  u1 = u1
  u2 = u2
  u3 = u3
  e1 = e1
  e2 = e2
  a1 = a1
  a2 = a2
  s1 = s1
  s2 = s2
  k1 = k1
  k2 = k2
  d1 = d1
  d2 = d2
  d3 = d3
  NoToken = NoToken
  Nobody = Nobody
  NoSecret = NoSecret
  Tokens <- MCTokens
  ResetTokens <- MCResetTokens
  Browsers <- MCBrowsers
  SessionCalls <- MCCalls
  MaxPasswords = 1
  MaxSessionFaults = 1
  Users <- MCUsers
  Emails <- MCEmails
  Identities <- MCIdentities
  IdentityCalls <- MCCalls
  MaxMoves = 1
  MaxIdentityFaults = 1
  Secrets <- MCSecrets
  Codes <- MCCodes
  FactorCalls <- MCCalls
  MaxFactorFaults = 1
  Addresses <- MCAddresses
  NoAddress = NoAddress
  BookCalls <- MCCalls
  MaxBookEdits = 6
  MaxBookFaults = 1
  Clients <- MCBrowsers
  Burst = 2
  Rate = 1
  Ttl = 3
  Skew = 1
  MaxTicks = 6
  MaxLimiterFaults = 1
  Staff <- MCStaff
  Devices <- MCBrowsers
  AccessTtl = 2
  RequestTime = 1
  MaxMinutes = 4
  MaxRoleChanges = 1
  MaxActs = 1
  MaxAccessFaults = 1
SYMMETRY MCSymmetry
INVARIANTS
  AccountsTypeOK
  OneSessionPerLogin
  SessionsEndForAReason
  PasswordChangeEndsOldSessions
  NoFalseAlarm
  AccountsStand
  FactorHolds
  OneDefaultAddress
  ForgettingIsHarmless
  AuditMissesNothing
PROPERTY
  DemotionTakesHold
CHECK_DEADLOCK FALSE
