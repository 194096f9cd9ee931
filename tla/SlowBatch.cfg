\* The shipped timings in ticks of ten seconds: a call lasts one tick at most,
\* a lease six, the first backoff three, and each process runs every thirty.
\* Seven messages of the 25 a run takes.  The clock stops at LastTick.
SPECIFICATION PromptSpec
CONSTANTS
  m1 = m1
  m2 = m2
  m3 = m3
  m4 = m4
  m5 = m5
  m6 = m6
  m7 = m7
  w1 = w1
  w2 = w2
  Message <- Seven
  Worker = {w1, w2}
  Token = {t1, t2, t3}
  NoMessage = NoMessage
  NoToken = NoToken
  Priority <- RankById
  MaxAttempts = 5
  BatchLimit = 25
  LeaseTime = 6
  BackoffBase = 3
  BackoffCap = 360
  QuotaDelay = 8640
  Lifetime = 8640
  SendAfter = 0
  Horizon = 9000
  LastTick = 30
  Interval = 30
  FirstTick <- AMinuteApart
  SendTimeout = 1
SYMMETRY SymTokens
INVARIANTS SecondSendNeedsStall
CHECK_DEADLOCK FALSE
