SPECIFICATION FairSpec
CONSTANTS
  Connects = {k1}
  Starts = {t1, t2}
  MaxPollFailures = 1
  Reentrant = FALSE
  NoCall = NoCall
  NoWindow = NoWindow
INVARIANTS TypeOK PhaseMatches DoneIsCurrent ExpiredIsError
PROPERTIES CallsSettle StaleLeavesShown
