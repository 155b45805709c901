SPECIFICATION FairSystem
CONSTANTS
  s1 = s1
  s2 = s2
  Connects = {}
  Starts = {t1}
  MaxPollFailures = 1
  Reentrant = TRUE
  NoCall = NoCall
  NoWindow = NoWindow
  DownloadCap = 3
  MaxDecodedBytes = 8
  MaxMetadataBytes = 2
  MaxMetadataKeys = 1
  MaxInt64 = 7
  Sessions = {s1, s2}
  Expiring = {s1}
  Picks <- TwoAndOne
  Bodies <- SmallBodies
  PageSize = 1
  NoSession = NoSession
  NoReply = NoReply
INVARIANTS SystemTypeOK DoneIsImported NotFoundMeansLost WholeAndBounded
PROPERTIES StartsSettle PicksWin
