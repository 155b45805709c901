SPECIFICATION FairSpec
CONSTANTS
  Jobs = {j1, j2}
  Workers = {w1, w2}
  Pollers = {}
  Sessions = {s1}
  Picks <- OnePick
  Faults = {"shutdown"}
  MaxAnswers = 0
  NoJob = NoJob
  NoSession = NoSession
PROPERTIES JobsFinish ShutdownEnds
