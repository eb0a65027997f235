CONSTANTS
  Account = {"ann", "bob"}
  None = None
  MaxCalls = 2
  Unset = Unset
  Feeds <- MCFeeds
  Topologies <- MCTopologies
  NoId = NoId
  MOCK_TOPOLOGY <- MCMockTopology
  VERDICT_POOL <- MCVerdictPool
  INITIAL_VERDICTS <- MCFirstVerdicts
  OverviewRows = 2
  FeedRows = 3
  Nothing = Nothing
  VerdictPool <- MCVerdictPool
  FirstVerdicts <- MCFirstVerdicts
  Steps = {1, 2}
  Day = 4
  Roster <- MCRoster
  PageSize = 2
  AuditLog <- MCAuditLog
  Services = {"cognito", "kms"}
  K_ANON = 2
  Bucket = 2
  NoTime = NoTime
  Node <- MCNode
  Nearest <- MCNearest
  Order <- MCOrder
  user1 = "u1"
  user2 = "u2"
  WaveGap = 360
  IntraGap = 40
  EdgeHold = 260
  StoryActs = 4
  Stages = 4
  Slides = 4
  Scale = 4
SPECIFICATION MCSpec
INVARIANTS TypeOK CodeGoesToItsChallenge CleanUnlessLate  ChipTellsFeedSource KillswitchOutlivesSession PseudonymsHideInCrowd OperatorKeepsRoute ScreenFollowsSession MeshFollowsScroll ViewsShowTheirData
PROPERTIES EveryAttemptEnds
