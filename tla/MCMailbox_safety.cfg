SPECIFICATION Spec
CONSTANTS
  s1 = s1  s2 = s2  r1 = r1  box = box  p1 = p1  p2 = p2
  NoThread = NoThread
  NoMailbox = NoMailbox
  Threads = {s1, s2, r1}
  Mailboxes = {box}
  Inbox <- Inboxes
  TopTargets <- Tops
  CallbackTargets <- Replies
  Behaviors <- BothBehaviors
  Throwers = {r1}
  MsgTypes = {"MSG_NULL", "A"}
  MSG_NULL = "MSG_NULL"
  OverMax = {}
  Payloads = {p1, p2}
  SealedPushers = {}
  CallbackTypes = {"A"}
  NoMessage = NoMessage
  ManagedTypes = {"A"}
  TrivialTypes = {"MSG_NULL"}
  MaxStorages = 2
  MaxBatch = 2
SYMMETRY Symmetric
INVARIANTS TypeOK NoStorageAliased NoStorageLeaked PayloadsOwnedOnce NoUndefinedFront NoLostWakeup
