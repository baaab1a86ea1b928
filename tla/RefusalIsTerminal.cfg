SPECIFICATION WriteSpec
CONSTANTS
  Blank = Blank
  None = None
  t1 = t1
  t2 = t2
  s1 = s1
  news = news
  email = email
  web = web
  proofdoc = proofdoc
  ann = ann
  ben = ben
  cat = cat
  dan = dan
  w1 = w1
  w2 = w2
  Fold <- MCFold
  Id = {1, 2}
  Tenant = {t1, t2}
  Subject = {s1}
  Purpose = {news}
  Channel = {email}
  Text = {web, proofdoc}
  Offset = {0, 1}
  SeedRecords <- SeededPending
  SeedPreferences <- NoSeed
  SeedSuppressions <- NoSeed
  SeedCaps <- NoSeed
  Thread = {w1, w2}
  Principal = {ann}
  TenantOf <- MCTenantOf
  RecordBodies <- PendingRecords
  PreferenceBodies <- NoBodies
  SuppressionBodies <- NoBodies
  CapBodies <- NoBodies
  SendBodies <- NoBodies
  MaxTime = 1
  MaxCalls = 2
PROPERTY
  RefusalIsTerminal
CHECK_DEADLOCK FALSE
