\* Two threads that execute and repeat, with faults, a crash and the passing of time.
SPECIFICATION MCFairSpec
CONSTANTS
  usd = usd
  eur = eur
  kes = kes
  q1 = q1
  q2 = q2
  q3 = q3
  Usd = usd
  Quotes = {q1, q2, q3}
  From <- TheFrom
  To <- TheTo
  Amount <- TheAmount
  Listed <- TheListed
  NoKey = NoKey
  NoOne = NoOne
  Workers = {w1, w2}
  Keys = {k1}
  Ttl = 0
  MaxTime = 1
  MaxExecutions = 3
  MaxCrashes = 1
INVARIANTS
  ExerciseTypeOK
  FlagMeansSettled
  OneTransactionPerKey
  AnswersAreKept
  DatedInTime
  AgainOnlyIfOverlapping
PROPERTIES
  EveryCallEnds
CHECK_DEADLOCK FALSE
