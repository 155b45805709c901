SPECIFICATION Spec
CONSTANTS
  Jobs = {j1}
  Workers = {w1}
  Pollers = {p1}
  Sessions = {s1}
  Picks <- OnePick
  Faults = {"timeout"}
  MaxAnswers = 1
  NoJob = NoJob
  NoSession = NoSession
PROPERTIES ProcessEndsTerminal
