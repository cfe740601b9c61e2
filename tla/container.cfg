CONSTANTS
  Thread = {m, w}
  Main = m
  None = None
  Connection = Connection
  Repository = Repository
  Controller = Controller
  Logger = Logger
  FileLogger = FileLogger
  NullLogger = NullLogger
  Scope = Scope
  Nobody = Nobody
  loggers = loggers
  Key <- Keys
  Tag = {loggers}
  Provider <- Providers
  MaxAsks = 3
  MaxThrows = 1
  MaxForgets = 1
CHECK_DEADLOCK FALSE
SPECIFICATION Spec
INVARIANTS SharedOnce ContextHonoured BootFindsBindings
