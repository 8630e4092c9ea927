\* Two threads, one waiting for the lock the other holds.
SPECIFICATION Spec
CONSTANTS
  usd = usd
  kes = kes
  q1 = q1
  q2 = q2
  q3 = q3
  NoOne = NoOne
  NoQuote = NoQuote
  NoKey = NoKey
  Keys = {k1, k2}
  Requests = {r1, r2}
  Accounts <- TheAccounts
  Quotes <- TheQuotes
  From <- TheFrom
  To <- TheTo
  SourceAmount <- TheSource
  DestinationAmount <- TheDestination
  InitialBalance <- TheInitialBalance
  Ttl = 2
  TicksPerSecond = 2
  MaxTime = 0
  MaxAttempts = 1
  MaxCrashes = 0
PROPERTIES
  WaitersAreToldTheOutcome
CHECK_DEADLOCK FALSE
