\* A refresh whose first answer could not be stored.
SPECIFICATION MCSpec
CONSTANTS
  kes = kes
  Usd = Usd
  NonUsd = {kes}
  Feeds <- TheFeeds
  Providers = 2
  Refreshers = {loop, manual}
  Scheduler = loop
  MaxTime = 3
  Viewers = {}
  RateScale = 100
  AmountScale = 10
  SpreadScale = 200
PROPERTIES
  AnswersAreUsed
