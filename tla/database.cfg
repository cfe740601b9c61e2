CONSTANTS
  Thread = {t1, t2}
  Writer = {w1}
  Val <- Comments
  MaxId = 3
  CommitFails = TRUE
  NoRow = NoRow
  None = None
  Queries <- PagedQueries
  PerPage = {0, 1, 2}
  Second = t2
CHECK_DEADLOCK FALSE
SPECIFICATION MCSpec
INVARIANTS IdsFresh NoneLeftOpen WalkComplete
PROPERTY RollbackRestores
