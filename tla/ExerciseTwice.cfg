\* Two executions of one quote.
SPECIFICATION MCSpec
CONSTANTS
  usd = usd
  eur = eur
  kes = kes
  q1 = q1
  q2 = q2
  q3 = q3
  Usd = usd
  Quotes = {q1, q2, q3}
  From <- TheFrom
  To <- TheTo
  Amount <- TheAmount
  Listed <- TheListed
  NoKey = NoKey
  NoOne = NoOne
  Workers = {w1, w2}
  Keys = {k1}
  Ttl = 1
  MaxTime = 1
  MaxExecutions = 2
  MaxCrashes = 0
INVARIANTS
  SettledOnce
CHECK_DEADLOCK FALSE
