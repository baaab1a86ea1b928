SPECIFICATION Spec
CONSTANTS
  Blank = Blank
  None = None
  t1 = t1
  s1 = s1
  news = news
  ads = ads
  email = email
  sms = sms
  web = web
  proofdoc = proofdoc
  ann = ann
  dan = dan
  w1 = w1
  w2 = w2
  Fold <- MCFold
  Id = {1, 2, 3}
  Tenant = {t1}
  Subject = {s1}
  Purpose = {news, ads}
  Channel = {email}
  Text = {web, proofdoc}
  Offset = {0}
  Thread = {w1, w2}
  TenantOf <- MCTenantOf
  SeedSuppressions <- NoSeed
  Market <- MCMarket
  Adapters = {"firestore"}
  SeedRecords <- BothGranted
  SeedPreferences <- OptedOut
  SeedCaps <- NoSeed
  Principal = {ann}
  RecordBodies <- NewsWithdrawal
  PreferenceBodies <- OptIn
  SuppressionBodies <- NoBodies
  CapBodies <- NoBodies
  SendBodies <- NoBodies
  Questions <- NewsQuestion
  AsOfs <- JustNow
  MaxTime = 1
  MaxCalls = 3
INVARIANT
  AllowedWasPermitted
CHECK_DEADLOCK FALSE
