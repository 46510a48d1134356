SPECIFICATION MCSpec
CONSTANTS
  Version = {1, 2}  Part = {1, 2}  Floor = 1  SweepPage = 2  Size <- MCSize  MaxLimit = 2
  MaxSweepFaults = 1
  Node <- MCNode  MaxHops = 3  Manifests <- MCManifests  Globs <- MCGlobs  MaxResults = 3
  MaxFiles = 2  MaxBytes = 3  MaxFileBytes = 2
  MaxVersion = 3  Bad = {1}  MaxSyncFaults = 1
  Ttl = 2  Budget = 8
  Pairs = 5  Batches <- MCBatches  MaxTokens = 3  MaxModelAttempts = 2  MaxModelFaults = 3
  Texts <- MCTexts  MaxCandidates = 2  MaxOccurrences = 4  MaxComparisons = 3  MaxQuote = 1
  Corpus = {1, 2}  First = 1  Knobs = {0, 1}  Plain = 0  Slot = {1, 2}  MaxEdits = 2
  MaxBuildFaults = 1
  Turns = {1, 2}  DailyBudget = 2  MaxCost = 1  MaxAsks = 2  MaxLosses = 1
  Url <- MCUrl  Seed = 1  InScope <- MCUrl  Base <- MCBase  Answers <- MCAnswers
  Robots <- MCRobots  Sitemaps <- MCSitemaps  Limits = {2, 4}  MaxRedirects = 3
  Groups <- MCGroups  Runs = {1, 2}  ScanPage = 2  Lease = 2  Lifetime = 1  MaxKills = 1
  Page <- MCPage  Docs = 3  PagesOf <- MCPagesOf  Workers = 2  MaxNewPages = 1
  MaxOcrAttempts = 2  MaxOcrFaults = 2
  None = None
INVARIANTS
  ActiveIsWhole
  ListingIsOneVersion
  PathIsShortest
  SearchIsHonest
  CallsShareOneBudget
  DisabledIsCutOff
  BudgetHolds
  DiscoveryIsComplete
  SpendIsBounded
  ReplyShips
  CrawlIsComplete
PROPERTIES
  ObsoleteIsCollected
  TreesAreOneVersion
  LatestIsServed
  PairsAreJudged
  CorpusIsPublished
  HubFollowsScope
  EveryGroupIsVisited
  PagesArePaidOnce
CHECK_DEADLOCK FALSE
