\* An amount to receive over a rate above one.
SPECIFICATION MCSpec
CONSTANTS
  kes = kes
  xxx = xxx
  nan = nan
  NotANumber = nan
  Usd = Usd
  Eur = Eur
  NonUsd = {kes, Eur}
  Feeds <- TheFeeds
  Providers = 1
  Refreshers = {loop}
  Scheduler = loop
  MaxTime = 2
  RateScale = 100
  AmountScale = 10
  SpreadScale = 200
  Askers = {a1}
  Calls <- Served
  BuySpread <- TheBuySpread
  SellSpread <- TheSellSpread
  TicksPerSecond = 2
  StaleWarn = 1
  StaleBlock = 2
INVARIANTS
  DestinationIsHonoured
