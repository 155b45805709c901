SPECIFICATION Spec
CONSTANTS
  Jobs = {j1, j2, j3}
  Workers = {w1, w2}
  Pollers = {}
  Sessions = {s1}
  Picks <- OnePick
  Faults = {"timeout", "shutdown", "crash"}
  MaxAnswers = 1
  NoJob = NoJob
  NoSession = NoSession
SYMMETRY Permuted
INVARIANTS SingleOwner ExactAccounting InTurn
PROPERTIES SessionKept StrandedOnlyByCut
