CONSTANTS
  Ticker = {k1}
  Tasks <- Registered
  Interval <- Beat
  Clock <- Times
  Throwing = {"beat"}
  DayLen = 4
  Persist = TRUE
  MaxTime = 13
  MaxRestarts = 1
  MaxRefusals = 2
  Count = 3
  Parts <- TableCounts
  QueueTables = 3
  MaxCalls = 5
CHECK_DEADLOCK FALSE
SPECIFICATION ArtisanSpec
INVARIANT MigrationsAgree
PROPERTY CadenceKept
