SPECIFICATION FairSpec
CONSTANTS
  s1 = s1  s2 = s2  r1 = r1  box = box  p1 = p1  p2 = p2
  NoThread = NoThread
  NoMailbox = NoMailbox
  Threads = {s1, s2, r1}
  Mailboxes = {box}
  Inbox <- Inboxes
  TopTargets <- Tops
  CallbackTargets <- Replies
  Behaviors <- BothBehaviors
  Throwers = {}
  MsgTypes = {"A"}
  MSG_NULL = "MSG_NULL"
  OverMax = {}
  Payloads = {}
  SealedPushers = {}
  CallbackTypes = {"A"}
  NoMessage = NoMessage
  ManagedTypes = {}
  TrivialTypes = {"A"}
  MaxStorages = 2
  MaxBatch = 1
PROPERTIES EveryQueueIsPumped EverySendReturns
