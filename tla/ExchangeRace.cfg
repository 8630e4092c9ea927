\* An execution and two deposits on the same two accounts, with a crash.
SPECIFICATION MCFairSpec
CONSTANTS
  usd = usd
  kes = kes
  q1 = q1
  NoOne = NoOne
  NoQuote = NoQuote
  NoKey = NoKey
  NoAccount = NoAccount
  Keys = {k1}
  Requests = {r1}
  Tellers = {t1, t2}
  Accounts <- TheAccounts
  Quotes = {q1}
  From <- TheFrom
  To <- TheTo
  SourceAmount <- TheSource
  DestinationAmount <- TheDestination
  InitialBalance <- TheInitialBalance
  DepositAmounts = {0, 2}
  MaxDeposits = 1
  Ttl = 2
  TicksPerSecond = 2
  MaxTime = 0
  MaxAttempts = 2
  MaxCrashes = 1
INVARIANTS
  ExchangeTypeOK
  OnlyStaleDepositsLoseUpdates
PROPERTIES
  ExecutionsLoseNothing
  EverybodyIsAnswered
CHECK_DEADLOCK FALSE
