\* Two threads, any mix of quotes and keys, repeats, a crash, time.
SPECIFICATION Spec
CONSTANTS
  usd = usd
  kes = kes
  q1 = q1
  q2 = q2
  q3 = q3
  NoOne = NoOne
  NoQuote = NoQuote
  NoKey = NoKey
  Keys = {k1, k2}
  Requests = {r1, r2}
  Accounts <- TheAccounts
  Quotes <- TheQuotes
  From <- TheFrom
  To <- TheTo
  SourceAmount <- TheSource
  DestinationAmount <- TheDestination
  InitialBalance <- TheInitialBalance
  Ttl = 2
  TicksPerSecond = 2
  MaxTime = 3
  MaxAttempts = 2
  MaxCrashes = 1
SYMMETRY Interchangeable
INVARIANTS
  TypeOK
  IInv
  AllOrNothing
  AnsweredTruthfully
  OneCreation
  RefusedForAnotherKey
  NoUniqueViolation
  BooksBalance
PROPERTIES
  ExpiredStaysUnsettled
  ImplementsSettlement
CHECK_DEADLOCK FALSE
