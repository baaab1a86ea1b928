SPECIFICATION Spec
CONSTANTS
  Blank = Blank
  None = None
  t1 = t1
  s1 = s1
  news = news
  ads = ads
  email = email
  sms = sms
  web = web
  proofdoc = proofdoc
  ann = ann
  dan = dan
  w1 = w1
  w2 = w2
  Fold <- MCFold
  Id = {1, 2, 3}
  Tenant = {t1}
  Subject = {s1}
  Purpose = {news, ads}
  Channel = {email, sms}
  Text = {web, proofdoc}
  Offset = {0}
  Thread = {w1, w2}
  TenantOf <- MCTenantOf
  SeedSuppressions <- NoSeed
  Market <- MCMarket
  Adapters = {"local", "firestore"}
  SeedRecords <- BothGranted
  SeedPreferences <- OptedIn
  SeedCaps <- OneEach
  Principal = {ann, dan}
  RecordBodies <- MCRecords
  PreferenceBodies <- MCPreferences
  SuppressionBodies <- MCSuppressions
  CapBodies <- MCCaps
  SendBodies <- MCSends
  Questions <- NewsQuestion
  AsOfs <- UnitLater
  MaxTime = 0
  MaxCalls = 4
VIEW MCView
SYMMETRY MCSymmetry
INVARIANTS
  DecisionTypeOK
  LocalAllowedWasPermitted
  EachFactWasOnFile
CHECK_DEADLOCK FALSE
