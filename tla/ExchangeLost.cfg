\* An execution and a deposit into one account.
SPECIFICATION MCSpec
CONSTANTS
  usd = usd
  kes = kes
  q1 = q1
  NoOne = NoOne
  NoQuote = NoQuote
  NoKey = NoKey
  NoAccount = NoAccount
  Keys = {k1}
  Requests = {r1}
  Tellers = {t1}
  Accounts <- TheAccounts
  Quotes = {q1}
  From <- TheFrom
  To <- TheTo
  SourceAmount <- TheSource
  DestinationAmount <- TheDestination
  InitialBalance <- TheInitialBalance
  DepositAmounts = {0, 2}
  MaxDeposits = 2
  Ttl = 2
  TicksPerSecond = 2
  MaxTime = 0
  MaxAttempts = 1
  MaxCrashes = 0
INVARIANTS
  NoLostUpdates
CHECK_DEADLOCK FALSE
