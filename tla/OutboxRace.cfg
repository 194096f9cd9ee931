\* One message, two dispatchers that may stall, crash and overlap.
SPECIFICATION WatchSpec
CONSTANTS
  Message = {m1}
  Worker = {w1, w2}
  Token = {t1, t2, t3}
  NoMessage = NoMessage
  NoToken = NoToken
  Priority <- OneRank
  MaxAttempts = 2
  BatchLimit = 1
  LeaseTime = 1
  BackoffBase = 1
  BackoffCap = 2
  QuotaDelay = 2
  Lifetime = 2
  SendAfter = 1
  Horizon = 4
SYMMETRY SymWorkersTokens
INVARIANTS TypeOK DeliveredWasAccepted DuplicateHasCause
PROPERTIES StaleWorkerRecordsNothing LateSendWasOvertaken ImplementsLifecycle
