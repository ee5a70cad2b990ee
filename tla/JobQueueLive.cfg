SPECIFICATION FairSpec
CONSTANTS
  j1 = j1
  j2 = j2
  w1 = w1
  w2 = w2
  w3 = w3
  Jobs = {j1, j2}
  Workers = {w1, w2}
  NoOne = NoOne
  MaxAttempts <- MCBudget
  BatchSize = 1
  ReapEvery = 1
  Pollers = {j1}
  Unhandled = {j2}
  Redactors = {}
PROPERTY NoStarvation AttemptsEnd EverythingSettles
