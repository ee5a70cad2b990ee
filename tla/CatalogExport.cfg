SPECIFICATION FairSpec
CONSTANTS
  e1 = e1  p1 = p1  w1 = w1  w2 = w2  o1 = o1  o2 = o2
  Exports = {e1}
  Requesters = {p1}
  Workers = {w1, w2}
  Operations = {o1, o2}
  Nothing = Nothing
  MaxAttempts = 2
INVARIANTS ReportIsReal ResumesPolling DeadIsEarned
PROPERTIES ExportEnds ImplementsLeasedQueue
CHECK_DEADLOCK FALSE
