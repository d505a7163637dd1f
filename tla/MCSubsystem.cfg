SPECIFICATION FairSubsystemSpec
CONSTANTS
  worker = worker  owner = owner  sender = sender  box = box
  POKE = "POKE"
  NoThread = NoThread
  NoMailbox = NoMailbox
  Threads = {worker, owner, sender}
  Mailboxes = {box}
  Inbox <- Wired
  TopTargets <- Tops
  CallbackTargets <- Nowhere
  Behaviors <- Blocking
  Throwers = {worker}
  SealedPushers = {}
  CallbackTypes = {"POKE", "A"}
  MsgTypes = {"POKE", "A"}
  MSG_NULL = "MSG_NULL"
  OverMax = {}
  Payloads = {}
  ManagedTypes = {}
  TrivialTypes = {"POKE", "A"}
  MaxStorages = 3
  MaxBatch = 1
INVARIANTS SubsystemTypeOK NoMessageBeforeConstruction NothingAfterJoin
PROPERTY DestructorReturns
\* The process may exit, and the owner is done once the thread is joined.
CHECK_DEADLOCK FALSE
