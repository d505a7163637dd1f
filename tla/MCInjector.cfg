SPECIFICATION Spec
CONSTANTS
  main = main  worker = worker  root = root  child = child
  HEADLESS = FALSE  VKDEBUG = TRUE
  Self = "Injector"
  NoThread = NoThread  NoInjector = NoInjector  NoRule = NoRule
  NoEntry = NoEntry  Null = Null
  Threads = {main, worker}
  Injectors = {root, child}
  Types <- AllTypes
  Parent <- Upstream
  Abstract = {"ILogger", "IWindow", "IClock", "IGraphicsBackend"}
  DefaultInit <- DefaultTypes
  Throwing = {"Context", "SystemWindow", "VkbDevice", "Pipeline", "Fence", "Interpreter"}
  Rules <- Family
  Late <- LateRules
  Wanted <- Asks
  Serves <- Served
  Ready <- Earlier
INVARIANTS InjectorTypeOK DependenciesOutliveDependents ReferencesAreAlive NoEndlessRecursion
PROPERTIES EveryCallEnds EveryDestructorEnds
\* Both injectors are destroyed in the end.
CHECK_DEADLOCK FALSE
