SPECIFICATION Spec
CONSTANTS
  Blank = Blank
  None = None
  t1 = t1
  t2 = t2
  s1 = s1
  s2 = s2
  news = news
  News = News
  ads = ads
  email = email
  sms = sms
  web = web
  proofdoc = proofdoc
  Fold <- MCFold
  Id = {1, 2, 3}
  Tenant = {t1, t2}
  Subject = {s1, s2}
  Purpose = {news, News, ads}
  Channel = {email, sms}
  Text = {web, proofdoc}
  Offset = {0, 1}
  SeedRecords <- NoSeed
  SeedPreferences <- NoSeed
  SeedSuppressions <- NoSeed
  SeedCaps <- NoSeed
  Records <- MCRecords
  Preferences <- MCPreferences
  Suppressions <- MCSuppressions
  Caps <- MCCaps
  Sends <- MCSends
  Questions <- MCQuestions
  RuleSets <- MCRuleSets
  AsOfs <- MCAsOfs
  MaxRows = 4
INVARIANTS
  StoreTypeOK
  AllowedMatchesReference
  RuleForAskedPurposeIsRedundant
PROPERTIES
  NarrowingWritesOnlyNarrow
CHECK_DEADLOCK FALSE
