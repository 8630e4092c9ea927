\* Two registrations or reads, and two changes of one spread, with a crash.
SPECIFICATION MCFairSpec
CONSTANTS
  NoOne = NoOne
  NoSpread = NoSpread
  Clerks = {c1, c2}
  Emails = {e1, e2}
  Currencies = {usd, kes}
  Skips = {1}
  Limit = 1
  MaxServed = 3
  Managers = {m1, m2}
  DirectPairs = {usdkes}
  OtherPair = other
  SpreadValues = {5, 7}
  DefaultSpread = 5
  MaxUpdates = 2
  MaxCalls = 3
  MaxCrashes = 1
INVARIANTS
  OfficeTypeOK
  CustomersAreWhole
  OneCustomerPerEmail
  DuplicatesAreReal
  PageCoversTotal
  SidesBelongTogether
PROPERTIES
  OnlyUpdatesChangeSpreads
  OfficeAnswers
CHECK_DEADLOCK FALSE
