SPECIFICATION Spec
CONSTANTS
  main = main  gfx = gfx  interp = interp
  App = App  Gfx = Gfx  Interp = Interp
  NoThread = NoThread
  NoMailbox = NoMailbox
  Threads = {main, gfx, interp}
  Mailboxes = {App, Gfx, Interp}
  Inbox <- WiredInbox
  TopTargets <- WiredTop
  CallbackTargets <- WiredCallback
  Behaviors <- WiredBehaviors
  Rank <- WiredRank
  Throwers = {}
  MsgTypes = {"A"}
  MSG_NULL = "MSG_NULL"
  OverMax = {}
  Payloads = {}
  SealedPushers = {}
  CallbackTypes = {"A"}
  ManagedTypes = {}
  TrivialTypes = {"A"}
  MaxStorages = 2
  MaxBatch = 1
INVARIANTS LockOrder NoLockCycle
