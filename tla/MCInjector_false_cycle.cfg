SPECIFICATION Spec
CONSTANTS
  main = main  worker = worker  root = root  child = child
  HEADLESS = FALSE  VKDEBUG = TRUE
  Self = "Injector"
  NoThread = NoThread  NoInjector = NoInjector  NoRule = NoRule
  NoEntry = NoEntry  Null = Null
  Threads = {main, worker}
  Injectors = {root, child}
  Types <- AllTypes
  Parent <- Upstream
  Abstract = {"ILogger", "IWindow", "IClock", "IGraphicsBackend"}
  DefaultInit <- DefaultTypes
  Throwing = {}
  Rules <- Family
  Late <- LateRules
  Wanted <- BothAsk
  Serves <- Served
  Ready <- Whenever
INVARIANT CyclesAreReal
\* Both injectors are destroyed in the end.
CHECK_DEADLOCK FALSE
