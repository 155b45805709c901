SPECIFICATION Spec
CONSTANTS
  Connects = {}
  Starts = {t1, t2}
  MaxPollFailures = 1
  Reentrant = FALSE
  NoCall = NoCall
  NoWindow = NoWindow
PROPERTIES StaleLeavesPopup
