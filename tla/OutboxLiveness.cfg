\* One message, ordinary mail or a notification; two fair dispatchers that may die
\* before the last of three instants.
SPECIFICATION NotificationSpec
CONSTANTS
  Message = {m1}
  Worker = {w1, w2}
  Token = {t1, t2}
  NoMessage = NoMessage
  NoToken = NoToken
  Priority <- OneRank
  MaxAttempts = 2
  BatchLimit = 1
  LeaseTime = 1
  BackoffBase = 1
  BackoffCap = 1
  QuotaDelay = 1
  Lifetime = 1
  SendAfter = 0
  Horizon = 2
  BridgeLimit = 1
INVARIANTS PagesTellTruth
PROPERTIES EventuallyTold
