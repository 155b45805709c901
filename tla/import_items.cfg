SPECIFICATION Spec
CONSTANTS
  Jobs = {j1}
  Workers = {w1, w2}
  Pollers = {p1, p2}
  Sessions = {s1}
  Picks <- ThreePicks
  Faults = {"db", "timeout", "shutdown", "crash"}
  MaxAnswers = 2
  NoJob = NoJob
  NoSession = NoSession
SYMMETRY Permuted
INVARIANTS TypeOK SinkOnce SavedFaithful FailedUntouched
PROPERTIES ImplementsLifecycle
