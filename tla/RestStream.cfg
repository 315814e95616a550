CONSTANTS
  home = home
  login = login
  foreign = foreign
  plain = plain
  Urls <- MCUrls
  SafeUrls <- MCSafeUrls
  OriginOf <- MCOriginOf
  MaxRedirects = 2
  MaxRetries = 1
  RetryPost = FALSE
  MaxChunks = 2
  Rotations = 2
  NoUrl = NoUrl
  MaxUniqueKeys = 3
  MaxTempKeys = 2
  CommitInterval = 3
  Invalid = Invalid
  Values <- MCValues
  Null <- MCNull
  Missing = Missing
  Registers = {1, 2}
  RegisterOf <- MCRegisterOf
  RankOf <- MCRankOf
  Threshold = 1
  Feeds <- MCFeeds
SPECIFICATION FairSpec
CHECK_DEADLOCK FALSE
INVARIANTS TypeOK FirstOccurrenceWins NoFileLeftBehind SpillIsBounded CredentialsStayHome PostActsOnce SendsAreBounded RotationTakesEffect CardinalityCoversAll ProfileForetellsDedup
PROPERTIES DrawsEnd
