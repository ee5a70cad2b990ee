SPECIFICATION Spec
CONSTANTS
  j1 = j1
  j2 = j2
  w1 = w1
  w2 = w2
  w3 = w3
  Jobs = {j1, j2}
  Workers = {w1, w2}
  NoOne = NoOne
  MaxAttempts <- MCBudget
  BatchSize = 2
  ReapEvery = 2
  Pollers = {j1}
  Unhandled = {}
  Redactors = {j2}
SYMMETRY WorkerSymmetry
INVARIANT TypeOK NeverStranded ColumnsAgree ClaimIdentity
PROPERTY OwnAttemptOnly FinishedIsFinal ImplementsLeasedQueue
