\* A call and the refreshes around it, to beyond the age at which rates block.
SPECIFICATION MCSpec
CONSTANTS
  kes = kes
  xxx = xxx
  nan = nan
  NotANumber = nan
  Usd = Usd
  Eur = Eur
  NonUsd = {kes, Eur}
  Feeds <- TheFeeds
  Providers = 1
  Refreshers = {loop}
  Scheduler = loop
  MaxTime = 6
  RateScale = 100
  AmountScale = 10
  SpreadScale = 200
  Askers = {a1}
  Calls <- AllCalls
  BuySpread <- TheBuySpread
  SellSpread <- TheSellSpread
  TicksPerSecond = 2
  StaleWarn = 0
  StaleBlock = 1
INVARIANTS
  QuotingTypeOK
  AsFreshAsDeclared
  PricedAsAsked
  OnlyUnreachableAmountsAreRefused
  FilledCacheIsDirect
  HealthTellsQuotability
