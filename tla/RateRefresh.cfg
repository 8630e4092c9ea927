\* The loop and a manual refresh that keep running, three fetches in all.
SPECIFICATION MCFairSpec
CONSTANTS
  kes = kes
  Usd = Usd
  NonUsd = {kes}
  Feeds <- TheFeeds
  Providers = 2
  Refreshers = {loop, manual}
  Scheduler = loop
  MaxTime = 3
  Viewers = {v1}
  RateScale = 100
  AmountScale = 10
  SpreadScale = 200
INVARIANTS
  CacheTypeOK
  OneGeneration
  GenuineUnlessOverlapped
  ReportIsOneGeneration
PROPERTIES
  SchedulerGoesOn
