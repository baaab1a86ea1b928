SPECIFICATION FairSpec
CONSTANTS
  Blank = Blank
  None = None
  NoDate = NoDate
  NoRequirement = NoRequirement
  NoEvidence = NoEvidence
  t1 = t1
  t2 = t2
  s1 = s1
  news = news
  sg = sg
  jp = jp
  promo = promo
  plain = plain
  neutral = neutral
  recyclable = recyclable
  inventory = inventory
  offset = offset
  ann = ann
  cat = cat
  dan = dan
  w1 = w1
  w2 = w2
  guaranteed = guaranteed
  terms = terms
  carbonNeutral = carbonNeutral
  canRecycle = canRecycle
  apr = apr
  form = form
  Malformed = Malformed
  Falsy = Falsy
  Absent = Absent
  Fold <- MCFold
  Id = {1}
  Tenant = {t1, t2}
  Subject = {s1}
  Purpose = {news}
  Channel = {}
  Text = {form}
  Offset = {0}
  SeedRecords <- MCSeedRecords
  SeedPreferences <- NoSeed
  SeedSuppressions <- NoSeed
  SeedCaps <- NoSeed
  Category = {neutral, recyclable}
  Thread = {w1, w2}
  Principal = {ann, cat, dan}
  TenantOf <- MCTenantOf
  Requests <- MCRequests
  Checkers = {cat}
  RuleBook <- MCRuleBook
  Pack <- MCPack
  Place = {sg, jp}
  MarketOf <- MCMarketOf
  VerticalOf <- MCVerticalOf
  EvidenceKind = {inventory, offset}
  Routers = {"local"}
  EvidenceId = {1, 2}
  SeedEvidence <- MCSeedEvidence
  RecordWrites <- MCRecordWrites
  EvidenceWrites <- MCEvidence
  MaxTime = 1
  MaxCalls = 1
INVARIANTS
  GreenClaimsGetFourEyes
CHECK_DEADLOCK FALSE
