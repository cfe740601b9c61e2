CONSTANTS
  Requests = {r1, r2, r3}
  Routes <- TestRoutes
  Inputs <- TestInputs
  Global <- TestGlobal
  Budget = 1
  Window = 2
  MaxTime = 3
  Worker = {w1, w2}
  CacheKey = {"x", "y"}
  Tag = {"a", "b"}
  MaxPuts = 3
SYMMETRY Symmetry
CHECK_DEADLOCK FALSE
SPECIFICATION MCSpec
INVARIANTS RoutedRight OutermostFirst RefusalEarned BudgetKept
PROPERTY FlushForgets
