---- MODULE MailboxEndpoint_proofs ----
(***************************************************************************)
(* Theorems about MailboxEndpoint, for any threads, mailboxes and bounds:   *)
(* the types and the mutexes; where the storages are, each in one place;    *)
(* and the managed payloads, each owned by one message until it is deleted, *)
(* and deleted once.                                                        *)
(***************************************************************************)
EXTENDS MailboxEndpoint, SequenceTheorems, FiniteSetTheorems, TLAPS

\* What the program counters of recv() and send() imply about the mutexes and
\* about the MessageQueues in use: who is in pump_msgs holds the mutex of its
\* mailbox, and conversely, and has a MessageQueue to pump.
InRecvLock(t) == recvAt[t] \in {"pump", "callback", "undefined"}

ControlInv ==
  /\ \A t \in Threads : recvAt[t] # "idle" => Inbox[t] \in Mailboxes
  /\ \A t \in Threads : InRecvLock(t) => mtx_[Inbox[t]] = t
  /\ \A mb \in Mailboxes : mtx_[mb] # NoThread =>
       InRecvLock(mtx_[mb]) /\ Inbox[mtx_[mb]] = mb
  /\ \A t \in Threads :
       recvAt[t] \in {"pump", "callback"} => queue_[Inbox[t]] # <<>>
  /\ \A t \in Threads : sendAt[t] # "idle" =>
       /\ dest[t] \in Mailboxes
       /\ recvAt[t] \in {"idle", "callback"}
       /\ mq[t].valid
       /\ mq[t].sealed

TypedControl == TypeOK /\ ControlInv

LEMMA TargetsAreMailboxes ==
  \A t \in Threads : Targets(t) \subseteq Mailboxes
  BY WiringAssumption DEF Targets

LEMMA FreedIsMessage ==
  \A msg \in Message : Freed(msg) \in Message
  BY DEF Message, Freed

LEMMA SealedIsHandle ==
  \A h \in Handle(Storage) : Seal(h) \in Handle(Storage)
  BY DEF Handle, Seal

LEMMA InvalidIsHandle ==
  \A h \in Handle(Storage) : MarkInvalid(h) \in Handle(Storage)
  BY DEF Handle, MarkInvalid

\* The parts of an action that MessageQueueFactory defines keep its types.
LEMMA GetTypeOK ==
  ASSUME FactoryTypeOK, NEW s \in Storage, Get(s)
  PROVE  FactoryTypeOK'
  <1>1. cQueue' \in [Storage -> Nat]
    <2>1. cQueue[s] \in Nat
      BY DEF FactoryTypeOK
    <2>2. CASE cQueue[s] > 0 /\ cQueue' = [cQueue EXCEPT ![s] = @ - 1]
      <3>1. cQueue[s] - 1 \in Nat
        BY <2>1, <2>2
      <3> QED
        BY <2>2, <3>1 DEF FactoryTypeOK
    <2>3. CASE UNCHANGED cQueue
      BY <2>3 DEF FactoryTypeOK
    <2> QED
      BY <2>2, <2>3 DEF Get
  <1>2. numActiveQueues_' \in 0..MaxStorages
    BY MaxStoragesAssumption DEF FactoryTypeOK, Get, Storage
  <1> QED
    BY <1>1, <1>2 DEF FactoryTypeOK, Get

LEMMA SubmitTypeOK ==
  ASSUME FactoryTypeOK, NEW S, NEW P, Submit(S, P)
  PROVE  FactoryTypeOK'
  BY MaxStoragesAssumption DEF FactoryTypeOK, Submit, Storage

LEMMA PushToTypeOK ==
  ASSUME FactoryTypeOK, NEW s \in Storage, NEW msg \in Message, PushTo(s, msg)
  PROVE  FactoryTypeOK'
  <1>1. heap' \in [Storage -> Seq(Message)]
    BY DEF FactoryTypeOK, PushTo
  <1>2. live' \subseteq Payloads
    BY DEF FactoryTypeOK, PushTo, OwnsPayload, Message
  <1> QED
    BY <1>1, <1>2 DEF FactoryTypeOK, PushTo

LEMMA FreeAtTypeOK ==
  ASSUME FactoryTypeOK, NEW s \in Storage, NEW i \in Nat, FreeAt(s, i)
  PROVE  FactoryTypeOK'
  <1>1. heap' \in [Storage -> Seq(Message)]
    <2>1. CASE i \in DOMAIN heap[s]
      <3>1. heap[s] \in Seq(Message) /\ heap[s][i] \in Message
        BY <2>1 DEF FactoryTypeOK
      <3> DEFINE new == IF heap[s][i].managed THEN Freed(heap[s][i]) ELSE heap[s][i]
      <3>2. new \in Message
        BY <3>1, FreedIsMessage
      <3>3. [heap[s] EXCEPT ![i] = new] \in Seq(Message)
        BY <2>1, <3>1, <3>2, ExceptSeq
      <3>4. heap' = [heap EXCEPT ![s] = [heap[s] EXCEPT ![i] = new]]
        BY DEF FreeAt
      <3> HIDE DEF new
      <3> QED
        BY <3>3, <3>4 DEF FactoryTypeOK
    <2>2. CASE i \notin DOMAIN heap[s]
      <3>1. heap[s] \in Seq(Message)
        BY DEF FactoryTypeOK
      <3>2. heap' = heap
        BY <2>2, <3>1 DEF FreeAt, FactoryTypeOK
      <3> QED
        BY <3>2 DEF FactoryTypeOK
    <2> QED
      BY <2>1, <2>2
  <1>2. live' \subseteq Payloads
    BY DEF FactoryTypeOK, FreeAt
  <1> QED
    BY <1>1, <1>2 DEF FactoryTypeOK, FreeAt

LEMMA PushedMessagesAreMessages ==
  /\ \A type \in TrivialTypes : TrivialMessage(type) \in Message
  /\ \A type \in ManagedTypes, p \in Payloads : ManagedMessage(type, p) \in Message
  BY MsgTypesAssumption DEF TrivialMessage, ManagedMessage, Message

-----------------------------------------------------------------------------
(* The steps of client code and of send(). *)

LEMMA ClientTyped ==
  ASSUME TypedControl, NEW t \in Threads, ClientStep(t)
  PROVE  TypedControl'
  <1> USE DEF TypedControl
  <1>1. ASSUME GetMQ(t) PROVE TypedControl'
    <2>1. PICK s \in Storage : Get(s) /\ mq' = [mq EXCEPT ![t] = NewHandle(s)]
      BY <1>1 DEF GetMQ
    <2>2. FactoryTypeOK'
      BY <2>1, GetTypeOK DEF TypeOK
    <2>3. NewHandle(s) \in Handle(Storage)
      BY DEF NewHandle, Handle
    <2>4. TypeOK'
      BY <1>1, <2>1, <2>2, <2>3
      DEF GetMQ, TypeOK, endpointVars, recvVars, sendVars
    <2>5. ControlInv'
      BY <1>1, <2>1
      DEF GetMQ, InClientCode, TypeOK, ControlInv, InRecvLock, endpointVars,
          recvVars, sendVars
    <2> QED
      BY <2>4, <2>5
  <1>2. ASSUME NEW msg \in Message, Push(t, msg) PROVE TypedControl'
    <2>1. mq[t].storage \in Storage
      BY DEF TypeOK, Handle
    <2>2. FactoryTypeOK'
      BY <1>2, <2>1, PushToTypeOK DEF TypeOK, Push
    <2>3. UNCHANGED <<mq, endpointVars, recvVars, sendVars>>
      BY <1>2 DEF Push
    <2>4. TypeOK'
      BY <2>2, <2>3 DEF TypeOK, endpointVars, recvVars, sendVars
    <2>5. ControlInv'
      BY <2>3 DEF ControlInv, InRecvLock, endpointVars, recvVars, sendVars
    <2> QED
      BY <2>4, <2>5
  <1>3. ASSUME SealMQ(t) PROVE TypedControl'
    <2>1. Seal(mq[t]) \in Handle(Storage)
      BY SealedIsHandle DEF TypeOK
    <2>2. TypeOK'
      BY <1>3, <2>1
      DEF SealMQ, TypeOK, FactoryTypeOK, factoryVars, endpointVars, recvVars,
          sendVars
    <2>3. ControlInv'
      BY <1>3
      DEF SealMQ, InClientCode, TypeOK, ControlInv, InRecvLock, endpointVars,
          recvVars, sendVars
    <2> QED
      BY <2>2, <2>3
  <1>4. ASSUME AbandonMQ(t) PROVE TypedControl'
    <2>1. MarkInvalid(Seal(mq[t])) \in Handle(Storage)
      <3>1. mq[t] \in Handle(Storage)
        BY DEF TypeOK
      <3> QED
        BY <3>1, SealedIsHandle, InvalidIsHandle
    <2>2. FactoryTypeOK'
      BY <1>4, SubmitTypeOK DEF AbandonMQ, TypeOK
    <2>3. TypeOK'
      BY <1>4, <2>1, <2>2
      DEF AbandonMQ, TypeOK, endpointVars, recvVars, sendVars
    <2>4. ControlInv'
      BY <1>4
      DEF AbandonMQ, InClientCode, TypeOK, ControlInv, InRecvLock,
          endpointVars, recvVars, sendVars
    <2> QED
      BY <2>3, <2>4
  <1>5. ASSUME PushTrivial(t) PROVE TypedControl'
    BY <1>2, <1>5, PushedMessagesAreMessages DEF PushTrivial
  <1>6. ASSUME PushManaged(t) PROVE TypedControl'
    BY <1>2, <1>6, PushedMessagesAreMessages DEF PushManaged
  <1>7. ASSUME PushManagedSealed(t) PROVE TypedControl'
    <2>1. TypeOK'
      BY <1>7
      DEF PushManagedSealed, TypeOK, FactoryTypeOK, endpointVars, recvVars,
          sendVars
    <2>2. ControlInv'
      BY <1>7
      DEF PushManagedSealed, ControlInv, InRecvLock, endpointVars, recvVars,
          sendVars
    <2> QED
      BY <2>1, <2>2
  <1> QED
    BY <1>1, <1>3, <1>4, <1>5, <1>6, <1>7 DEF ClientStep

LEMMA SendTyped ==
  ASSUME TypedControl, NEW t \in Threads, SendStep(t)
  PROVE  TypedControl'
  <1> USE DEF TypedControl
  <1>1. ASSUME SendSeal(t) PROVE TypedControl'
    <2>1. PICK mb \in Targets(t) : dest' = [dest EXCEPT ![t] = mb]
      BY <1>1 DEF SendSeal
    <2>2. mb \in Mailboxes
      BY TargetsAreMailboxes
    <2>3. Seal(mq[t]) \in Handle(Storage)
      BY SealedIsHandle DEF TypeOK
    <2>4. TypeOK'
      BY <1>1, <2>1, <2>2, <2>3
      DEF SendSeal, TypeOK, FactoryTypeOK, factoryVars, endpointVars, recvVars
    <2>5. mq'[t].valid /\ mq'[t].sealed
      BY <1>1 DEF SendSeal, TypeOK, Handle, Seal, Writable
    <2>6. ControlInv'
      BY <1>1, <2>1, <2>2, <2>5
      DEF SendSeal, InClientCode, TypeOK, ControlInv, InRecvLock, endpointVars,
          recvVars
    <2> QED
      BY <2>4, <2>6
  <1>2. ASSUME SendPush(t) PROVE TypedControl'
    <2> DEFINE mb == dest[t]
    <2>1. mb \in Mailboxes
      BY <1>2 DEF SendPush, ControlInv
    <2>2. queue_[mb] \in Seq(Handle(Storage)) /\ mq[t] \in Handle(Storage)
      BY <2>1 DEF TypeOK
    <2>3. /\ Append(queue_[mb], mq[t]) \in Seq(Handle(Storage))
          /\ Append(queue_[mb], mq[t]) # <<>>
      BY <2>2
    <2>4. queue_' = [queue_ EXCEPT ![mb] = Append(queue_[mb], mq[t])]
      BY <1>2 DEF SendPush
    <2> HIDE DEF mb
    <2>5. \A u \in Threads :
            /\ recvAt'[u] \in {recvAt[u], "wait"}
            /\ recvAt'[u] = "wait" => recvAt[u] \in {"wait", "asleep"}
      BY <1>2 DEF SendPush, Awake
    <2>6. recvAt' \in [Threads -> {"idle", "wait", "asleep", "check", "lock",
                                   "pump", "callback", "undefined"}]
      BY <1>2 DEF SendPush, Awake, TypeOK
    <2>7. queue_' \in [Mailboxes -> Seq(Handle(Storage))]
      BY <2>3, <2>4 DEF TypeOK
    <2>8. TypeOK'
      BY <1>2, <2>6, <2>7 DEF SendPush, TypeOK, FactoryTypeOK, factoryVars
    <2>9. \A nb \in Mailboxes : queue_[nb] # <<>> => queue_'[nb] # <<>>
      BY <2>3, <2>4 DEF TypeOK
    <2>10. \A u \in Threads : InRecvLock(u)' <=> InRecvLock(u)
      BY <2>5 DEF InRecvLock
    <2>11. UNCHANGED <<mtx_, mq, dest>>
      BY <1>2 DEF SendPush
    <2>12. \A u \in Threads : sendAt'[u] # "idle" => sendAt[u] # "idle"
      BY <1>2 DEF SendPush, TypeOK
    <2>13. ControlInv'
      <3>1. (\A nb \in Mailboxes : mtx_[nb] # NoThread =>
              InRecvLock(mtx_[nb]) /\ Inbox[mtx_[nb]] = nb)'
        BY <2>10, <2>11 DEF ControlInv, TypeOK
      <3>2. \A u \in Threads : sendAt'[u] # "idle" =>
              /\ dest'[u] \in Mailboxes
              /\ recvAt'[u] \in {"idle", "callback"}
              /\ mq'[u].valid
              /\ mq'[u].sealed
        BY <2>5, <2>11, <2>12 DEF ControlInv
      <3>3. \A u \in Threads : recvAt'[u] # "idle" => Inbox[u] \in Mailboxes
        BY <2>5 DEF ControlInv
      <3>4. \A u \in Threads : InRecvLock(u)' => mtx_'[Inbox[u]] = u
        BY <2>10, <2>11 DEF ControlInv
      <3>5. \A u \in Threads :
              recvAt'[u] \in {"pump", "callback"} => queue_'[Inbox[u]] # <<>>
        BY <2>5, <2>9 DEF ControlInv
      <3> QED
        BY <3>1, <3>2, <3>3, <3>4, <3>5 DEF ControlInv
    <2> QED
      BY <2>8, <2>13
  <1>3. ASSUME SendInvalidate(t) PROVE TypedControl'
    <2>1. MarkInvalid(mq[t]) \in Handle(Storage)
      BY InvalidIsHandle DEF TypeOK
    <2>2. TypeOK'
      BY <1>3, <2>1
      DEF SendInvalidate, TypeOK, FactoryTypeOK, factoryVars, endpointVars,
          recvVars
    <2>3. ControlInv'
      BY <1>3
      DEF SendInvalidate, TypeOK, ControlInv, InRecvLock, endpointVars, recvVars
    <2> QED
      BY <2>2, <2>3
  <1> QED
    BY <1>1, <1>2, <1>3 DEF SendStep

-----------------------------------------------------------------------------
(* The steps of recv(). *)

\* Those by which a thread neither takes nor releases the mutex.
LEMMA MoveOutsideLockTyped ==
  ASSUME TypedControl, NEW t \in Threads,
         NEW to \in {"idle", "wait", "asleep", "check", "lock"},
         Inbox[t] \in Mailboxes,
         ~InRecvLock(t),
         sendAt[t] = "idle",
         Moved(t, to),
         readEmpty' \in [Threads -> BOOLEAN],
         UNCHANGED <<factoryVars, mq, endpointVars, pos, sendVars>>
  PROVE  TypedControl'
  <1> USE DEF TypedControl
  <1>1. TypeOK'
    BY DEF TypeOK, FactoryTypeOK, Moved, factoryVars, endpointVars, sendVars
  <1>2. ControlInv'
    BY DEF TypeOK, ControlInv, InRecvLock, Moved, endpointVars, sendVars
  <1> QED
    BY <1>1, <1>2

\* Those by which a thread that holds the mutex goes on holding it.
LEMMA MoveInsideLockTyped ==
  ASSUME TypedControl, NEW t \in Threads,
         NEW to \in {"pump", "callback"},
         recvAt[t] \in {"pump", "callback"},
         sendAt[t] = "idle",
         FactoryTypeOK',
         Moved(t, to),
         pos' = pos \/ Advance(t),
         UNCHANGED <<mq, endpointVars, readEmpty, sendVars>>
  PROVE  TypedControl'
  <1> USE DEF TypedControl
  <1>1. pos' \in [Threads -> Nat \ {0}]
    BY DEF TypeOK, Advance
  <1>2. TypeOK'
    BY <1>1 DEF TypeOK, Moved, endpointVars, sendVars
  <1>3. ControlInv'
    BY DEF TypeOK, ControlInv, InRecvLock, Moved, endpointVars, sendVars
  <1> QED
    BY <1>2, <1>3

\* The thread that pumps reads the messages of a queue that is there.
LEMMA CurrentMQTyped ==
  ASSUME TypedControl, NEW t \in Threads, recvAt[t] \in {"pump", "callback"}
  PROVE  CurrentMQ(t) \in Handle(Storage) /\ CurrentMQ(t).storage \in Storage
  <1>1. Inbox[t] \in Mailboxes /\ queue_[Inbox[t]] # <<>>
    BY DEF TypedControl, ControlInv
  <1>2. queue_[Inbox[t]] \in Seq(Handle(Storage))
    BY <1>1 DEF TypedControl, TypeOK
  <1>3. Head(queue_[Inbox[t]]) \in Handle(Storage)
    BY <1>1, <1>2
  <1> QED
    BY <1>3 DEF CurrentMQ, Handle

LEMMA PumpTyped ==
  ASSUME TypedControl, NEW t \in Threads,
         PumpSkip(t) \/ PumpDrop(t) \/ PumpCall(t) \/ CallbackReturn(t)
  PROVE  TypedControl'
  <1>1. recvAt[t] \in {"pump", "callback"}
    BY DEF PumpSkip, PumpDrop, PumpCall, CallbackReturn, Pumping
  <1>2. sendAt[t] = "idle"
    BY DEF PumpSkip, PumpDrop, PumpCall, CallbackReturn, Pumping, TypedControl,
           TypeOK, ControlInv
  <1>3. CurrentMQ(t).storage \in Storage /\ pos[t] \in Nat
    BY <1>1, CurrentMQTyped DEF TypedControl, TypeOK
  <1>4. FactoryTypeOK /\ FreeAt(CurrentMQ(t).storage, pos[t]) => FactoryTypeOK'
    BY <1>3, FreeAtTypeOK
  <1>5. FactoryTypeOK'
    <2>1. CASE UNCHANGED factoryVars
      BY <2>1 DEF TypedControl, TypeOK, FactoryTypeOK, factoryVars
    <2>2. CASE FreeAt(CurrentMQ(t).storage, pos[t])
      BY <1>4, <2>2 DEF TypedControl, TypeOK
    <2> QED
      BY <2>1, <2>2 DEF PumpSkip, PumpDrop, PumpCall, CallbackReturn
  <1>6. Moved(t, "pump") \/ Moved(t, "callback")
    BY DEF PumpSkip, PumpDrop, PumpCall, CallbackReturn, Pumping, Moved,
           TypedControl, TypeOK
  <1>7. pos' = pos \/ Advance(t)
    BY DEF PumpSkip, PumpDrop, PumpCall, CallbackReturn
  <1>8. UNCHANGED <<mq, endpointVars, readEmpty, sendVars>>
    BY DEF PumpSkip, PumpDrop, PumpCall, CallbackReturn
  <1> QED
    BY <1>1, <1>2, <1>5, <1>6, <1>7, <1>8, MoveInsideLockTyped

LEMMA RecvLockTyped ==
  ASSUME TypedControl, NEW t \in Threads, RecvLock(t)
  PROVE  TypedControl'
  <1> DEFINE mb == Inbox[t]
  <1> USE DEF TypedControl
  <1>1. mb \in Mailboxes /\ sendAt[t] = "idle"
    BY DEF RecvLock, ControlInv, TypeOK
  <1>2. mtx_[mb] = NoThread /\ mtx_' = [mtx_ EXCEPT ![mb] = t]
    BY DEF RecvLock, Free
  <1>3. queue_[mb] \in Seq(Handle(Storage))
    BY <1>1 DEF TypeOK
  <1>4. /\ pos' \in [Threads -> Nat \ {0}]
        /\ \/ recvAt' = [recvAt EXCEPT ![t] = "undefined"]
           \/ recvAt' = [recvAt EXCEPT ![t] = "pump"] /\ queue_[mb] # <<>>
    <2>1. CASE queue_[mb] = <<>>
      BY <2>1 DEF RecvLock, Moved, TypeOK
    <2>2. CASE queue_[mb] # <<>>
      <3>1. Head(queue_[mb]) \in Handle(Storage)
        BY <1>3, <2>2
      <3>2. heap[Head(queue_[mb]).storage] \in Seq(Message)
        BY <3>1 DEF TypeOK, FactoryTypeOK, Handle
      <3>3. Len(heap[Head(queue_[mb]).storage]) + 1 \in Nat \ {0}
        BY <3>2
      <3> QED
        BY <2>2, <3>3 DEF RecvLock, Moved, TypeOK
    <2> QED
      BY <2>1, <2>2
  <1>5. UNCHANGED <<factoryVars, mq, queue_, callbacks_, claimed_, readEmpty,
                    sendVars>>
    BY DEF RecvLock
  <1>6. TypeOK'
    BY <1>1, <1>2, <1>4, <1>5 DEF TypeOK, FactoryTypeOK, factoryVars, sendVars
  <1>7. \A u \in Threads : InRecvLock(u) => Inbox[u] # mb
    BY <1>2, ThreadsAssumption DEF ControlInv
  <1> HIDE DEF mb
  <1>8. /\ \A u \in Threads \ {t} : recvAt'[u] = recvAt[u]
        /\ recvAt'[t] \in {"undefined", "pump"}
        /\ recvAt'[t] = "pump" => queue_[mb] # <<>>
        /\ \A nb \in Mailboxes \ {mb} : mtx_'[nb] = mtx_[nb]
        /\ mtx_'[mb] = t
    BY <1>1, <1>2, <1>4 DEF TypeOK
  <1>9. ControlInv'
    <2>1. \A u \in Threads : recvAt'[u] # "idle" => Inbox[u] \in Mailboxes
      BY <1>1, <1>8 DEF mb, ControlInv
    <2>2. \A u \in Threads : InRecvLock(u)' => mtx_'[Inbox[u]] = u
      BY <1>1, <1>7, <1>8 DEF mb, ControlInv, InRecvLock
    <2>3. (\A nb \in Mailboxes : mtx_[nb] # NoThread =>
             InRecvLock(mtx_[nb]) /\ Inbox[mtx_[nb]] = nb)'
      <3> SUFFICES ASSUME NEW nb \in Mailboxes, mtx_'[nb] # NoThread
                   PROVE  (InRecvLock(mtx_[nb]) /\ Inbox[mtx_[nb]] = nb)'
        OBVIOUS
      <3>1. CASE nb = mb
        BY <1>8, <3>1 DEF mb, InRecvLock
      <3>2. CASE nb # mb
        <4>1. mtx_'[nb] = mtx_[nb] /\ mtx_[nb] \in Threads \ {t}
          BY <1>1, <1>8, <3>2, ThreadsAssumption DEF mb, ControlInv, TypeOK
        <4> QED
          BY <1>8, <4>1, ThreadsAssumption DEF ControlInv, InRecvLock
      <3> QED
        BY <3>1, <3>2
    <2>4. \A u \in Threads :
            recvAt'[u] \in {"pump", "callback"} => queue_'[Inbox[u]] # <<>>
      BY <1>5, <1>8 DEF mb, ControlInv
    <2>5. \A u \in Threads : sendAt'[u] # "idle" =>
            /\ dest'[u] \in Mailboxes
            /\ recvAt'[u] \in {"idle", "callback"}
            /\ mq'[u].valid
            /\ mq'[u].sealed
      BY <1>1, <1>5, <1>8 DEF ControlInv, sendVars
    <2> QED
      BY <2>1, <2>2, <2>3, <2>4, <2>5 DEF ControlInv
  <1> QED
    BY <1>6, <1>9

\* The steps that release the mutex: PumpDone, which also pops the queue, and
\* CallbackThrow, which does not.
LEMMA ReleaseTyped ==
  ASSUME TypedControl, NEW t \in Threads, PumpDone(t) \/ CallbackThrow(t)
  PROVE  TypedControl'
  <1> DEFINE mb == Inbox[t]
  <1> USE DEF TypedControl
  <1>1. /\ mb \in Mailboxes
        /\ recvAt[t] \in {"pump", "callback"}
        /\ sendAt[t] = "idle"
        /\ mtx_[mb] = t
        /\ queue_[mb] # <<>>
    BY DEF PumpDone, CallbackThrow, ControlInv, InRecvLock, TypeOK
  <1>2. queue_[mb] \in Seq(Handle(Storage))
    BY <1>1 DEF TypeOK
  <1>3. Tail(queue_[mb]) \in Seq(Handle(Storage)) /\ Len(queue_[mb]) \in Nat
    BY <1>1, <1>2
  <1>4. /\ recvAt' = [recvAt EXCEPT ![t] = "check"]
           \/ recvAt' = [recvAt EXCEPT ![t] = "idle"]
        /\ mtx_' = [mtx_ EXCEPT ![mb] = NoThread]
        /\ UNCHANGED <<mq, callbacks_, claimed_, sendVars>>
    BY DEF PumpDone, CallbackThrow, Moved
  <1>5. /\ queue_' \in [Mailboxes -> Seq(Handle(Storage))]
        /\ \A nb \in Mailboxes \ {mb} : queue_'[nb] = queue_[nb]
    <2>1. CASE PumpDone(t)
      <3>1. queue_' = [queue_ EXCEPT ![mb] = Tail(queue_[mb])]
        BY <2>1 DEF PumpDone
      <3> HIDE DEF mb
      <3> QED
        BY <1>1, <1>3, <3>1 DEF TypeOK
    <2>2. CASE CallbackThrow(t)
      BY <2>2 DEF CallbackThrow, TypeOK
    <2> QED
      BY <2>1, <2>2
  <1>6. FactoryTypeOK'
    <2>1. ASSUME NEW S, Submit(S, {}) PROVE FactoryTypeOK'
      BY <2>1, SubmitTypeOK DEF TypeOK
    <2>2. UNCHANGED factoryVars => FactoryTypeOK'
      BY DEF TypeOK, FactoryTypeOK, factoryVars
    <2> QED
      BY <2>1, <2>2 DEF PumpDone, CallbackThrow
  <1>7. pos' \in [Threads -> Nat \ {0}] /\ readEmpty' \in [Threads -> BOOLEAN]
    <2>1. CASE PumpDone(t)
      <3> DEFINE last == Len(queue_[mb]) = 1
      <3>1. /\ pos' = [pos EXCEPT ![t] = 1]
            /\ readEmpty' = [readEmpty EXCEPT ![t] = last]
        BY <2>1 DEF PumpDone
      <3>2. last \in BOOLEAN
        OBVIOUS
      <3> HIDE DEF last
      <3>3. pos' \in [Threads -> Nat \ {0}]
        BY <3>1 DEF TypeOK
      <3>4. readEmpty' \in [Threads -> BOOLEAN]
        BY <3>1, <3>2, Zenon DEF TypeOK
      <3> QED
        BY <3>3, <3>4
    <2>2. CASE CallbackThrow(t)
      BY <2>2 DEF CallbackThrow, TypeOK
    <2> QED
      BY <2>1, <2>2
  <1>8. TypeOK'
    BY <1>4, <1>5, <1>6, <1>7 DEF TypeOK, sendVars
  <1>9. \A u \in Threads \ {t} : InRecvLock(u) => Inbox[u] # mb
    BY <1>1 DEF ControlInv
  <1> HIDE DEF mb
  <1>10. /\ \A u \in Threads \ {t} : recvAt'[u] = recvAt[u]
         /\ recvAt'[t] \in {"check", "idle"}
         /\ \A nb \in Mailboxes \ {mb} : mtx_'[nb] = mtx_[nb]
         /\ mtx_'[mb] = NoThread
    BY <1>1, <1>4 DEF TypeOK
  <1>11. ControlInv'
    <2>1. \A u \in Threads : recvAt'[u] # "idle" => Inbox[u] \in Mailboxes
      BY <1>1, <1>10 DEF mb, ControlInv
    <2>2. \A u \in Threads : InRecvLock(u)' =>
            /\ u # t
            /\ InRecvLock(u)
            /\ Inbox[u] \in Mailboxes \ {mb}
      BY <1>9, <1>10 DEF ControlInv, InRecvLock
    <2>3. \A u \in Threads : InRecvLock(u)' => mtx_'[Inbox[u]] = u
      BY <1>10, <2>2 DEF ControlInv
    <2>4. (\A nb \in Mailboxes : mtx_[nb] # NoThread =>
             InRecvLock(mtx_[nb]) /\ Inbox[mtx_[nb]] = nb)'
      <3> SUFFICES ASSUME NEW nb \in Mailboxes, mtx_'[nb] # NoThread
                   PROVE  (InRecvLock(mtx_[nb]) /\ Inbox[mtx_[nb]] = nb)'
        OBVIOUS
      <3>1. nb # mb /\ mtx_'[nb] = mtx_[nb]
        BY <1>10
      <3>2. mtx_[nb] \in Threads \ {t}
        BY <1>1, <3>1, ThreadsAssumption DEF mb, ControlInv, TypeOK
      <3> QED
        BY <1>10, <3>1, <3>2, ThreadsAssumption DEF ControlInv, InRecvLock
    <2>5. \A u \in Threads :
            recvAt'[u] \in {"pump", "callback"} => queue_'[Inbox[u]] # <<>>
      BY <1>5, <1>10, <2>2 DEF ControlInv, InRecvLock
    <2>6. \A u \in Threads : sendAt'[u] # "idle" =>
            /\ dest'[u] \in Mailboxes
            /\ recvAt'[u] \in {"idle", "callback"}
            /\ mq'[u].valid
            /\ mq'[u].sealed
      BY <1>1, <1>4, <1>10 DEF ControlInv, sendVars
    <2> QED
      BY <2>1, <2>3, <2>4, <2>5, <2>6 DEF ControlInv
  <1> QED
    BY <1>8, <1>11

LEMMA RecvTyped ==
  ASSUME TypedControl, NEW t \in Threads, RecvStep(t)
  PROVE  TypedControl'
  <1>1. ASSUME \/ RecvCall(t) \/ RecvWait(t) \/ SpuriousWakeup(t)
               \/ RecvEmpty(t) \/ RecvNonEmpty(t)
        PROVE  TypedControl'
    <2>1. Inbox[t] \in Mailboxes
      BY <1>1, WiringAssumption
      DEF RecvCall, RecvWait, SpuriousWakeup, RecvEmpty, RecvNonEmpty,
          TypedControl, ControlInv
    <2>2. ~InRecvLock(t) /\ sendAt[t] = "idle"
      BY <1>1
      DEF RecvCall, RecvWait, SpuriousWakeup, RecvEmpty, RecvNonEmpty,
          TypedControl, ControlInv, InRecvLock
    <2>3. PICK to \in {"idle", "wait", "asleep", "check", "lock"} : Moved(t, to)
      BY <1>1 DEF RecvCall, RecvWait, SpuriousWakeup, RecvEmpty, RecvNonEmpty
    <2>4. readEmpty' \in [Threads -> BOOLEAN]
      <3>1. CASE RecvWait(t)
        <4> DEFINE empty == queue_[Inbox[t]] = <<>>
        <4>1. readEmpty' = [readEmpty EXCEPT ![t] = empty]
          BY <3>1 DEF RecvWait
        <4>2. empty \in BOOLEAN
          OBVIOUS
        <4> HIDE DEF empty
        <4> QED
          BY <4>1, <4>2, Zenon DEF TypedControl, TypeOK
      <3>2. CASE UNCHANGED readEmpty
        BY <3>2 DEF TypedControl, TypeOK
      <3> QED
        BY <1>1, <3>1, <3>2
        DEF RecvCall, SpuriousWakeup, RecvEmpty, RecvNonEmpty
    <2>5. UNCHANGED <<factoryVars, mq, endpointVars, pos, sendVars>>
      BY <1>1 DEF RecvCall, RecvWait, SpuriousWakeup, RecvEmpty, RecvNonEmpty
    <2> QED
      BY <2>1, <2>2, <2>3, <2>4, <2>5, MoveOutsideLockTyped
  <1>2. ASSUME RecvLock(t) PROVE TypedControl'
    BY <1>2, RecvLockTyped
  <1>3. ASSUME PumpStep(t) \/ CallbackReturn(t) \/ CallbackThrow(t)
        PROVE  TypedControl'
    BY <1>3, PumpTyped, ReleaseTyped DEF PumpStep
  <1> QED
    BY <1>1, <1>2, <1>3 DEF RecvStep

-----------------------------------------------------------------------------
(* The calls of the owner. *)

LEMMA OwnerTyped ==
  ASSUME TypedControl, NEW mb \in Mailboxes, OwnerStep(mb)
  PROVE  TypedControl'
  <1> USE DEF TypedControl
  <1>1. ASSUME Claim(mb) PROVE TypedControl'
    <2>1. TypeOK'
      BY <1>1 DEF Claim, TypeOK, FactoryTypeOK, factoryVars, recvVars, sendVars
    <2>2. ControlInv'
      BY <1>1 DEF Claim, ControlInv, InRecvLock, recvVars, sendVars
    <2> QED
      BY <2>1, <2>2
  <1>2. ASSUME NEW type \in CallbackTypes, On(mb, type) \/ Off(mb, type)
        PROVE  TypedControl'
    <2>1. callbacks_' \in [Mailboxes -> SUBSET MsgTypes]
      <3>1. type \in MsgTypes
        BY WiringAssumption
      <3>2. /\ callbacks_[mb] \union {type} \in SUBSET MsgTypes
            /\ callbacks_[mb] \ {type} \in SUBSET MsgTypes
        BY <3>1 DEF TypeOK
      <3>3. \/ callbacks_' = [callbacks_ EXCEPT ![mb] = callbacks_[mb] \union {type}]
            \/ callbacks_' = [callbacks_ EXCEPT ![mb] = callbacks_[mb] \ {type}]
        BY <1>2 DEF On, Off
      <3> QED
        BY <3>2, <3>3 DEF TypeOK
    <2>2. UNCHANGED <<factoryVars, mq, queue_, claimed_, mtx_, recvVars, sendVars>>
      BY <1>2 DEF On, Off
    <2>3. TypeOK'
      BY <2>1, <2>2 DEF TypeOK, FactoryTypeOK, factoryVars, recvVars, sendVars
    <2>4. ControlInv'
      BY <2>2 DEF ControlInv, InRecvLock, recvVars, sendVars
    <2> QED
      BY <2>3, <2>4
  <1>3. ASSUME Recreate(mb) PROVE TypedControl'
    <2>1. FactoryTypeOK'
      BY <1>3, SubmitTypeOK DEF Recreate, TypeOK
    <2>2. queue_' \in [Mailboxes -> Seq(Handle(Storage))]
      BY <1>3 DEF Recreate, TypeOK
    <2>3. readEmpty' \in [Threads -> BOOLEAN]
      <3>1. \A t \in Threads : (readEmpty[t] \/ Inbox[t] = mb) \in BOOLEAN
        OBVIOUS
      <3> QED
        BY <1>3, <3>1, Zenon DEF Recreate
    <2>4. /\ callbacks_' \in [Mailboxes -> SUBSET MsgTypes]
          /\ claimed_' \in [Mailboxes -> BOOLEAN]
          /\ UNCHANGED <<mq, mtx_, recvAt, pos, sendVars>>
      BY <1>3 DEF Recreate, TypeOK
    <2>5. TypeOK'
      BY <2>1, <2>2, <2>3, <2>4 DEF TypeOK, sendVars
    <2>6. \A t \in Threads : recvAt[t] # "idle" => Inbox[t] # mb
      BY <1>3 DEF Recreate
    <2>7. \A nb \in Mailboxes \ {mb} : queue_'[nb] = queue_[nb]
      BY <1>3 DEF Recreate, TypeOK
    <2>8. ControlInv'
      BY <2>4, <2>6, <2>7 DEF ControlInv, InRecvLock, sendVars
    <2> QED
      BY <2>5, <2>8
  <1> QED
    BY <1>1, <1>2, <1>3 DEF OwnerStep

-----------------------------------------------------------------------------
LEMMA InitTyped == Init => TypedControl
  <1> SUFFICES ASSUME Init PROVE TypedControl
    OBVIOUS
  <1>1. FactoryTypeOK
    BY MaxStoragesAssumption DEF Init, FactoryInit, FactoryTypeOK
  <1>2. MarkInvalid(NewHandle(1)) \in Handle(Storage)
    <2>1. 1 \in Storage
      BY MaxStoragesAssumption DEF Storage
    <2> QED
      BY <2>1 DEF MarkInvalid, NewHandle, Handle
  <1>3. TypeOK
    BY <1>1, <1>2 DEF Init, TypeOK
  <1>4. ControlInv
    BY DEF Init, ControlInv, InRecvLock
  <1> QED
    BY <1>3, <1>4 DEF TypedControl

LEMMA StepTyped == TypedControl /\ [Next]_vars => TypedControl'
  <1> SUFFICES ASSUME TypedControl, [Next]_vars PROVE TypedControl'
    OBVIOUS
  <1>1. CASE Next
    BY <1>1, ClientTyped, SendTyped, RecvTyped, OwnerTyped DEF Next
  <1>2. CASE UNCHANGED vars
    BY <1>2
    DEF vars, TypedControl, TypeOK, FactoryTypeOK, ControlInv, InRecvLock,
        factoryVars, endpointVars, recvVars, sendVars
  <1> QED
    BY <1>1, <1>2

LEMMA Typed == Spec => []TypedControl
  BY InitTyped, StepTyped, PTL DEF Spec

\* Every variable of the mailboxes stays in its type, and an index into a queue
\* or a storage is never taken out of an empty one.
THEOREM TypeCorrect == Spec => []TypeOK
  <1>1. TypedControl => TypeOK
    BY DEF TypedControl
  <1> QED
    BY <1>1, Typed, PTL

-----------------------------------------------------------------------------
(* Where the storages are.  NoStorageAliased and NoStorageLeaked are not     *)
(* inductive without two facts more: what is queued was sealed and is still  *)
(* valid, so that it goes back to the pool, and a storage that has not been  *)
(* allocated is nowhere, so that a fresh one is nobody else's.               *)

NowhereYet ==
  \A s \in Storage : s > numActiveQueues_ =>
    /\ cQueue[s] = 0
    /\ \A t \in Threads : ~Holds(t, s)
    /\ ~Queued(s)

QueuedReady ==
  \A mb \in Mailboxes : \A i \in 1..Len(queue_[mb]) : Readable(queue_[mb][i])

StorageInv ==
  /\ NoStorageAliased
  /\ NoStorageLeaked
  /\ NowhereYet
  /\ QueuedReady

LEMMA StorageUnaffected ==
  ASSUME StorageInv,
         UNCHANGED <<numActiveQueues_, cQueue, queue_>>,
         \A t \in Threads, s \in Storage : Holds(t, s)' <=> Holds(t, s)
  PROVE  StorageInv'
  <1>1. \A mb, i, s : QueuedAt(mb, i, s)' <=> QueuedAt(mb, i, s)
    BY DEF QueuedAt
  <1>2. NoStorageAliased'
    BY <1>1 DEF StorageInv, NoStorageAliased
  <1>3. NowhereYet'
    BY <1>1 DEF StorageInv, NowhereYet, Queued
  <1>4. QueuedReady'
    BY DEF StorageInv, QueuedReady, Readable
  <1>5. NoStorageLeaked'
    BY <1>1 DEF StorageInv, NoStorageLeaked, Queued
  <1> QED
    BY <1>2, <1>3, <1>4, <1>5 DEF StorageInv

LEMMA ClientKeepsStorage ==
  ASSUME TypedControl, StorageInv, NEW t \in Threads, ClientStep(t)
  PROVE  StorageInv'
  <1> USE DEF TypedControl
  <1>1. ASSUME GetMQ(t) PROVE StorageInv'
    <2>1. PICK s \in Storage : Get(s) /\ mq' = [mq EXCEPT ![t] = NewHandle(s)]
      BY <1>1 DEF GetMQ
    <2>2. ~mq[t].valid /\ sendAt[t] = "idle" /\ UNCHANGED <<queue_, sendAt>>
      BY <1>1 DEF GetMQ, InClientCode, endpointVars, sendVars
    <2>3. \A u \in Threads, r \in Storage : Holds(u, r)' <=>
            IF u = t THEN r = s ELSE Holds(u, r)
      BY <2>1, <2>2 DEF Holds, NewHandle, TypeOK
    <2>4. \A r \in Storage : ~Holds(t, r)
      BY <2>2 DEF Holds
    <2>5. \A mb, i, r : QueuedAt(mb, i, r)' <=> QueuedAt(mb, i, r)
      BY <2>2 DEF QueuedAt
    <2>6. /\ cQueue[s] \in {0, 1} /\ cQueue'[s] = 0
          /\ \A r \in Storage \ {s} : cQueue'[r] = cQueue[r]
          /\ \A u \in Threads : ~Holds(u, s)
          /\ \A mb \in Mailboxes : \A i \in 1..Len(queue_[mb]) : ~QueuedAt(mb, i, s)
          /\ numActiveQueues_ \in Nat /\ numActiveQueues_' \in Nat
          /\ numActiveQueues_' >= numActiveQueues_
          /\ s <= numActiveQueues_'
          /\ numActiveQueues_' > numActiveQueues_ => s = numActiveQueues_'
                                                   /\ s = numActiveQueues_ + 1
      <3>1. cQueue[s] \in {0, 1}
        BY DEF StorageInv, NoStorageAliased
      <3>2. /\ numActiveQueues_ \in Nat
            /\ s \in Nat
            /\ cQueue \in [Storage -> Nat]
        BY DEF TypeOK, FactoryTypeOK, Storage
      <3>3. CASE cQueue[s] > 0
        <4>1. s <= numActiveQueues_
          BY <3>2, <3>3 DEF StorageInv, NowhereYet
        <4>2. cQueue' = [cQueue EXCEPT ![s] = @ - 1]
              /\ numActiveQueues_' = numActiveQueues_
          BY <2>1, <3>2, <4>1 DEF Get
        <4>3. cQueue'[s] = 0 /\ \A r \in Storage \ {s} : cQueue'[r] = cQueue[r]
          BY <3>1, <3>2, <3>3, <4>2
        <4>4. \A u \in Threads : ~Holds(u, s)
          BY <3>2, <3>3 DEF StorageInv, NoStorageAliased
        <4>5. \A mb \in Mailboxes : \A i \in 1..Len(queue_[mb]) : ~QueuedAt(mb, i, s)
          BY <3>2, <3>3 DEF StorageInv, NoStorageAliased
        <4> QED
          BY <3>1, <3>2, <4>1, <4>2, <4>3, <4>4, <4>5
      <3>4. CASE ~(cQueue[s] > 0)
        <4>1. /\ s = numActiveQueues_ + 1
              /\ numActiveQueues_' = s
              /\ cQueue' = cQueue
          BY <2>1, <3>4 DEF Get
        <4>2. s > numActiveQueues_
          BY <3>2, <4>1
        <4>3. cQueue[s] = 0 /\ \A u \in Threads : ~Holds(u, s)
          BY <4>2 DEF StorageInv, NowhereYet
        <4>4. \A mb \in Mailboxes : \A i \in 1..Len(queue_[mb]) : ~QueuedAt(mb, i, s)
          BY <4>2 DEF StorageInv, NowhereYet, Queued
        <4> QED
          BY <3>1, <3>2, <4>1, <4>3, <4>4
      <3> QED
        BY <3>3, <3>4
    <2>7. NoStorageAliased'
      BY <2>2, <2>3, <2>4, <2>5, <2>6 DEF StorageInv, NoStorageAliased
    <2>8. NoStorageLeaked'
      BY <2>2, <2>3, <2>4, <2>5, <2>6
      DEF StorageInv, NoStorageLeaked, Queued, Storage
    <2>9. NowhereYet'
      BY <2>2, <2>3, <2>4, <2>5, <2>6 DEF StorageInv, NowhereYet, Queued, Storage
    <2>10. QueuedReady'
      BY <2>2 DEF StorageInv, QueuedReady, Readable
    <2> QED
      BY <2>7, <2>8, <2>9, <2>10 DEF StorageInv
  <1>2. ASSUME SealMQ(t) PROVE StorageInv'
    <2>1. \A u \in Threads, s \in Storage : Holds(u, s)' <=> Holds(u, s)
      BY <1>2 DEF SealMQ, Seal, Holds, TypeOK, Handle, sendVars
    <2> QED
      BY <1>2, <2>1, StorageUnaffected DEF SealMQ, factoryVars, endpointVars
  <1>3. ASSUME NEW msg, Push(t, msg) PROVE StorageInv'
    <2>1. \A u \in Threads, s \in Storage : Holds(u, s)' <=> Holds(u, s)
      BY <1>3 DEF Push, Holds, sendVars
    <2> QED
      BY <1>3, <2>1, StorageUnaffected DEF Push, PushTo, endpointVars
  <1>4. ASSUME AbandonMQ(t) PROVE StorageInv'
    <2> DEFINE s == mq[t].storage
    <2>1. /\ s \in Storage
          /\ Holds(t, s)
          /\ UNCHANGED <<queue_, sendAt, numActiveQueues_>>
      BY <1>4
      DEF AbandonMQ, InClientCode, Holds, Submit, TypeOK, Handle, endpointVars,
          sendVars
    <2>2. \A u \in Threads, r \in Storage :
            Holds(u, r)' <=> u # t /\ Holds(u, r)
      BY <1>4, <2>1 DEF AbandonMQ, Holds, MarkInvalid, Seal, TypeOK, Handle
    <2>3. \A mb, i, r : QueuedAt(mb, i, r)' <=> QueuedAt(mb, i, r)
      BY <2>1 DEF QueuedAt
    <2>4. /\ cQueue[s] = 0
          /\ \A u \in Threads \ {t} : ~Holds(u, s)
          /\ \A mb \in Mailboxes : \A i \in 1..Len(queue_[mb]) : ~QueuedAt(mb, i, s)
      BY <2>1 DEF StorageInv, NoStorageAliased
    <2>5. /\ cQueue'[s] = 1
          /\ \A r \in Storage \ {s} : cQueue'[r] = cQueue[r]
      BY <1>4, <2>1, <2>4 DEF AbandonMQ, Submit
    <2>6. \A r \in Storage \ {s} : ~Holds(t, r)
      BY DEF Holds
    <2> HIDE DEF s
    <2>7. NoStorageAliased'
      BY <2>1, <2>2, <2>3, <2>4, <2>5, <2>6 DEF StorageInv, NoStorageAliased
    <2>8. NoStorageLeaked'
      BY <2>1, <2>2, <2>3, <2>4, <2>5, <2>6 DEF StorageInv, NoStorageLeaked, Queued
    <2>9. s <= numActiveQueues_
      BY <2>1 DEF StorageInv, NowhereYet, TypeOK, FactoryTypeOK, Storage
    <2>10. NowhereYet'
      BY <2>1, <2>2, <2>3, <2>5, <2>9
      DEF StorageInv, NowhereYet, Queued, TypeOK, FactoryTypeOK, Storage
    <2>11. QueuedReady'
      BY <2>1 DEF StorageInv, QueuedReady, Readable
    <2> QED
      BY <2>7, <2>8, <2>10, <2>11 DEF StorageInv
  <1>5. ASSUME PushManagedSealed(t) PROVE StorageInv'
    <2>1. \A u \in Threads, s \in Storage : Holds(u, s)' <=> Holds(u, s)
      BY <1>5 DEF PushManagedSealed, Holds, sendVars
    <2> QED
      BY <1>5, <2>1, StorageUnaffected DEF PushManagedSealed, endpointVars
  <1> QED
    BY <1>1, <1>2, <1>3, <1>4, <1>5 DEF ClientStep, PushTrivial, PushManaged

LEMMA SendKeepsStorage ==
  ASSUME TypedControl, StorageInv, NEW t \in Threads, SendStep(t)
  PROVE  StorageInv'
  <1> USE DEF TypedControl
  <1>1. ASSUME SendSeal(t) PROVE StorageInv'
    <2>1. \A u \in Threads, s \in Storage : Holds(u, s)' <=> Holds(u, s)
      BY <1>1 DEF SendSeal, InClientCode, Seal, Holds, TypeOK, Handle
    <2> QED
      BY <1>1, <2>1, StorageUnaffected DEF SendSeal, factoryVars, endpointVars
  <1>2. ASSUME SendPush(t) PROVE StorageInv'
    <2> DEFINE mb == dest[t]
               s == mq[t].storage
               n == Len(queue_[mb]) + 1
    <2>1. /\ mb \in Mailboxes
          /\ mq[t].valid /\ mq[t].sealed
          /\ sendAt[t] = "sealed"
          /\ queue_[mb] \in Seq(Handle(Storage))
          /\ mq[t] \in Handle(Storage)
          /\ s \in Storage
      <3>1. sendAt[t] = "sealed" /\ mq[t] \in Handle(Storage)
        BY <1>2 DEF SendPush, TypeOK
      <3>2. mb \in Mailboxes /\ mq[t].valid /\ mq[t].sealed
        BY <3>1 DEF ControlInv
      <3>3. queue_[mb] \in Seq(Handle(Storage))
        BY <3>2 DEF TypeOK
      <3> QED
        BY <3>1, <3>2, <3>3 DEF Handle
    <2>2. Holds(t, s)
      BY <2>1 DEF Holds
    <2>3. UNCHANGED <<numActiveQueues_, cQueue, mq>>
      BY <1>2 DEF SendPush, factoryVars
    <2>4. queue_' = [queue_ EXCEPT ![mb] = Append(queue_[mb], mq[t])]
      BY <1>2 DEF SendPush
    <2>5. /\ \A nb \in Mailboxes \ {mb} : queue_'[nb] = queue_[nb]
          /\ Len(queue_'[mb]) = n
          /\ \A i \in 1..Len(queue_[mb]) : queue_'[mb][i] = queue_[mb][i]
          /\ queue_'[mb][n] = mq[t]
          /\ Len(queue_[mb]) \in Nat
      BY <2>1, <2>4 DEF TypeOK
    <2>6. \A u \in Threads, r \in Storage :
            Holds(u, r)' <=> u # t /\ Holds(u, r)
      BY <1>2, <2>3 DEF SendPush, Holds, TypeOK
    <2>7. \A nb \in Mailboxes : \A i, r :
            QueuedAt(nb, i, r)' <=>
              QueuedAt(nb, i, r) \/ (nb = mb /\ i = n /\ r = s)
      <3> SUFFICES ASSUME NEW nb \in Mailboxes, NEW i, NEW r
                   PROVE  QueuedAt(nb, i, r)' <=>
                            QueuedAt(nb, i, r) \/ (nb = mb /\ i = n /\ r = s)
        OBVIOUS
      <3> HIDE DEF mb
      <3>1. CASE nb # mb
        BY <2>5, <3>1 DEF QueuedAt
      <3>2. CASE nb = mb
        BY <2>5, <3>2 DEF QueuedAt
      <3> QED
        BY <3>1, <3>2
    <2>8. /\ cQueue[s] = 0
          /\ \A u \in Threads \ {t} : ~Holds(u, s)
          /\ \A nb \in Mailboxes : \A i \in 1..Len(queue_[nb]) : ~QueuedAt(nb, i, s)
      BY <2>1, <2>2 DEF StorageInv, NoStorageAliased
    <2>9. \A r \in Storage \ {s} : ~Holds(t, r)
      BY DEF Holds
    <2>10. s <= numActiveQueues_
      BY <2>1, <2>2 DEF StorageInv, NowhereYet, TypeOK, FactoryTypeOK, Storage
    <2>11. \A nb, i, r : QueuedAt(nb, i, r) => i \in 1..Len(queue_[nb])
      BY DEF QueuedAt
    <2>12. \A nb, i, r : QueuedAt(nb, i, r)' => i \in 1..Len(queue_'[nb])
      BY DEF QueuedAt
    <2> HIDE DEF s, mb, n
    <2>13. QueuedReady'
      <3> SUFFICES ASSUME NEW nb \in Mailboxes, NEW i \in 1..Len(queue_'[nb])
                   PROVE  Readable(queue_'[nb][i])
        BY DEF QueuedReady, Readable
      <3>1. CASE nb # mb
        BY <2>5, <3>1 DEF StorageInv, QueuedReady
      <3>2. CASE nb = mb /\ i = n
        BY <2>1, <2>5, <3>2 DEF Readable
      <3>3. CASE nb = mb /\ i # n
        <4>1. i \in 1..Len(queue_[mb])
          BY <2>5, <3>3 DEF n
        <4> QED
          BY <2>1, <2>5, <3>3, <4>1 DEF StorageInv, QueuedReady
      <3> QED
        BY <3>1, <3>2, <3>3
    <2>14. \A r \in Storage : Queued(r)' <=> Queued(r) \/ r = s
      <3>1. n \in 1..Len(queue_'[mb])
        BY <2>5 DEF n
      <3> QED
        BY <2>1, <2>7, <2>11, <2>12, <3>1 DEF Queued
    <2>15. NoStorageAliased'
      BY <2>1, <2>3, <2>6, <2>7, <2>8, <2>9, <2>11, <2>12
      DEF StorageInv, NoStorageAliased
    <2>16. NoStorageLeaked'
      BY <2>3, <2>6, <2>9, <2>14 DEF StorageInv, NoStorageLeaked
    <2>17. NowhereYet'
      BY <2>3, <2>6, <2>10, <2>14
      DEF StorageInv, NowhereYet, TypeOK, FactoryTypeOK, Storage
    <2> QED
      BY <2>13, <2>15, <2>16, <2>17 DEF StorageInv
  <1>3. ASSUME SendInvalidate(t) PROVE StorageInv'
    <2>1. \A u \in Threads, s \in Storage : Holds(u, s)' <=> Holds(u, s)
      BY <1>3 DEF SendInvalidate, MarkInvalid, Holds, TypeOK, Handle
    <2> QED
      BY <1>3, <2>1, StorageUnaffected
      DEF SendInvalidate, factoryVars, endpointVars
  <1> QED
    BY <1>1, <1>2, <1>3 DEF SendStep

LEMMA RecvKeepsStorage ==
  ASSUME TypedControl, StorageInv, NEW t \in Threads, RecvStep(t)
  PROVE  StorageInv'
  <1> USE DEF TypedControl
  <1>1. ASSUME UNCHANGED <<numActiveQueues_, cQueue, queue_, mq, sendAt>>
        PROVE  StorageInv'
    <2>1. \A u \in Threads, s \in Storage : Holds(u, s)' <=> Holds(u, s)
      BY <1>1 DEF Holds
    <2> QED
      BY <1>1, <2>1, StorageUnaffected
  <1>2. ASSUME PumpDone(t) PROVE StorageInv'
    <2> DEFINE mb == Inbox[t]
               s == Head(queue_[mb]).storage
    <2>1. /\ mb \in Mailboxes
          /\ queue_[mb] \in Seq(Handle(Storage))
          /\ queue_[mb] # <<>>
      BY <1>2 DEF PumpDone, ControlInv, TypeOK
    <2>2. /\ 1 \in 1..Len(queue_[mb])
          /\ Head(queue_[mb]) = queue_[mb][1]
          /\ Head(queue_[mb]) \in Handle(Storage)
      BY <2>1
    <2>3. s \in Storage /\ QueuedAt(mb, 1, s)
      BY <2>2 DEF QueuedAt, Handle
    <2>4. Head(queue_[mb]).valid
      BY <2>1, <2>2 DEF StorageInv, QueuedReady, Readable
    <2>5. /\ Submit({s}, {})
          /\ queue_' = [queue_ EXCEPT ![mb] = Tail(queue_[mb])]
          /\ UNCHANGED <<mq, sendAt>>
      BY <1>2, <2>4 DEF PumpDone, CurrentMQ, sendVars
    <2>6. /\ \A nb \in Mailboxes \ {mb} : queue_'[nb] = queue_[nb]
          /\ Len(queue_'[mb]) = Len(queue_[mb]) - 1
          /\ \A i \in 1..Len(queue_'[mb]) : queue_'[mb][i] = queue_[mb][i + 1]
          /\ Len(queue_[mb]) \in Nat
      BY <2>1, <2>5 DEF TypeOK
    <2>7. \A u \in Threads, r \in Storage : Holds(u, r)' <=> Holds(u, r)
      BY <2>5 DEF Holds
    <2>8. /\ cQueue[s] = 0
          /\ \A u \in Threads : ~Holds(u, s)
          /\ \A nb \in Mailboxes : \A i \in 1..Len(queue_[nb]) :
               QueuedAt(nb, i, s) => nb = mb /\ i = 1
      BY <2>1, <2>2, <2>3 DEF StorageInv, NoStorageAliased
    <2>9. /\ cQueue'[s] = 1
          /\ \A r \in Storage \ {s} : cQueue'[r] = cQueue[r]
          /\ numActiveQueues_' = numActiveQueues_
      BY <2>3, <2>5, <2>8 DEF Submit
    <2>10. s <= numActiveQueues_
      BY <2>1, <2>2, <2>3
      DEF StorageInv, NowhereYet, Queued, TypeOK, FactoryTypeOK, Storage
    <2> HIDE DEF s
    <2>11. QueuedReady'
      <3> SUFFICES ASSUME NEW nb \in Mailboxes, NEW i \in 1..Len(queue_'[nb])
                   PROVE  Readable(queue_'[nb][i])
        BY DEF QueuedReady, Readable
      <3> HIDE DEF mb
      <3>1. CASE nb # mb
        BY <2>6, <3>1 DEF StorageInv, QueuedReady
      <3>2. CASE nb = mb
        <4>1. i + 1 \in 1..Len(queue_[mb])
          BY <2>6, <3>2
        <4> QED
          BY <2>1, <2>6, <3>2, <4>1 DEF StorageInv, QueuedReady
      <3> QED
        BY <3>1, <3>2
    <2>12. \A nb \in Mailboxes : \A i, r :
             QueuedAt(nb, i, r)' =>
               IF nb = mb
               THEN /\ i \in 1..(Len(queue_[mb]) - 1)
                    /\ i + 1 \in 2..Len(queue_[mb])
                    /\ QueuedAt(mb, i + 1, r)
               ELSE QueuedAt(nb, i, r)
      <3> SUFFICES ASSUME NEW nb \in Mailboxes, NEW i, NEW r, QueuedAt(nb, i, r)'
                   PROVE  IF nb = mb
                          THEN /\ i \in 1..(Len(queue_[mb]) - 1)
                               /\ i + 1 \in 2..Len(queue_[mb])
                               /\ QueuedAt(mb, i + 1, r)
                          ELSE QueuedAt(nb, i, r)
        OBVIOUS
      <3> HIDE DEF mb
      <3>1. CASE nb # mb
        BY <2>6, <3>1 DEF QueuedAt
      <3>2. CASE nb = mb
        BY <2>6, <3>2 DEF QueuedAt
      <3> QED
        BY <3>1, <3>2
    <2>13. \A nb \in Mailboxes : \A i, r :
             QueuedAt(nb, i, r) /\ (nb # mb \/ i # 1) =>
               Queued(r)'
      <3> SUFFICES ASSUME NEW nb \in Mailboxes, NEW i, NEW r,
                          QueuedAt(nb, i, r), nb # mb \/ i # 1
                   PROVE  Queued(r)'
        OBVIOUS
      <3> HIDE DEF mb
      <3>1. CASE nb # mb
        <4>1. QueuedAt(nb, i, r)' /\ i \in 1..Len(queue_'[nb])
          BY <2>6, <3>1 DEF QueuedAt
        <4> QED
          BY <4>1 DEF Queued
      <3>2. CASE nb = mb
        <4>1. i - 1 \in 1..Len(queue_'[mb]) /\ i = (i - 1) + 1
          BY <2>6, <3>2 DEF QueuedAt
        <4>2. QueuedAt(mb, i - 1, r)'
          BY <2>6, <3>2, <4>1 DEF QueuedAt
        <4> QED
          BY <2>1, <4>1, <4>2 DEF Queued
      <3> QED
        BY <3>1, <3>2
    <2>14. \A nb, i, r : QueuedAt(nb, i, r) => i \in 1..Len(queue_[nb])
      BY DEF QueuedAt
    <2>15. \A r : QueuedAt(mb, 1, r) => r = s
      BY DEF QueuedAt, s
    <2> HIDE DEF mb
    <2>16. \A r \in Storage : Queued(r)' => Queued(r)
      BY <2>1, <2>12, <2>14 DEF Queued
    <2>17. \A r \in Storage \ {s} : Queued(r) => Queued(r)'
      BY <2>13, <2>15 DEF Queued
    <2>18. \A nb \in Mailboxes : \A i, r : QueuedAt(nb, i, r)' => r # s
      <3> SUFFICES ASSUME NEW nb \in Mailboxes, NEW i, NEW r,
                          QueuedAt(nb, i, r)', r = s
                   PROVE  FALSE
        OBVIOUS
      <3>1. CASE nb # mb
        BY <2>8, <2>12, <2>14, <3>1
      <3>2. CASE nb = mb
        <4>1. i \in 1..(Len(queue_[mb]) - 1) /\ QueuedAt(mb, i + 1, s)
          BY <2>12, <3>2
        <4>2. i + 1 \in 1..Len(queue_[mb])
          BY <2>14, <4>1
        <4> QED
          BY <2>1, <2>8, <4>1, <4>2
      <3> QED
        BY <3>1, <3>2
    <2>19. NoStorageAliased'
      <3> SUFFICES ASSUME NEW r \in Storage
                   PROVE  /\ cQueue'[r] \in {0, 1}
                          /\ \A u \in Threads : Holds(u, r)' =>
                               /\ cQueue'[r] = 0
                               /\ \A v \in Threads : Holds(v, r)' => v = u
                          /\ \A nb \in Mailboxes : \A i \in 1..Len(queue_'[nb]) :
                               QueuedAt(nb, i, r)' =>
                               /\ cQueue'[r] = 0
                               /\ \A u \in Threads : ~Holds(u, r)'
                               /\ \A ob \in Mailboxes : \A j \in 1..Len(queue_'[ob]) :
                                    QueuedAt(ob, j, r)' => ob = nb /\ j = i
        BY DEF NoStorageAliased
      <3>1. CASE r = s
        BY <2>7, <2>8, <2>9, <2>18, <3>1
      <3>2. CASE r # s
        <4>1. cQueue'[r] = cQueue[r]
          BY <2>9, <3>2
        <4>2. \A nb, ob \in Mailboxes : \A i, j :
                QueuedAt(nb, i, r)' /\ QueuedAt(ob, j, r)' => ob = nb /\ j = i
          <5>1. \A nb, ob \in Mailboxes : \A i, j :
                  QueuedAt(nb, i, r) /\ QueuedAt(ob, j, r) => ob = nb /\ j = i
            BY <2>14 DEF StorageInv, NoStorageAliased
          <5> SUFFICES ASSUME NEW nb \in Mailboxes, NEW i,
                              NEW ob \in Mailboxes, NEW j,
                              QueuedAt(nb, i, r)', QueuedAt(ob, j, r)'
                       PROVE  ob = nb /\ j = i
            OBVIOUS
          <5>2. CASE nb = mb /\ ob = mb
            <6>1. QueuedAt(mb, i + 1, r) /\ QueuedAt(mb, j + 1, r)
              BY <2>12, <5>2
            <6>2. i \in 1..(Len(queue_[mb]) - 1) /\ j \in 1..(Len(queue_[mb]) - 1)
              BY <2>12, <5>2
            <6>3. j + 1 = i + 1
              BY <2>1, <5>1, <6>1
            <6> QED
              BY <2>6, <5>2, <6>2, <6>3
          <5>3. CASE nb # mb /\ ob # mb
            BY <2>12, <5>1, <5>3
          <5>4. CASE nb = mb /\ ob # mb
            BY <2>1, <2>12, <5>1, <5>4
          <5>5. CASE nb # mb /\ ob = mb
            BY <2>1, <2>12, <5>1, <5>5
          <5> QED
            BY <5>2, <5>3, <5>4, <5>5
        <4>3. \A nb \in Mailboxes : \A i : QueuedAt(nb, i, r)' =>
                cQueue[r] = 0 /\ \A u \in Threads : ~Holds(u, r)
          BY <2>1, <2>12, <2>14 DEF StorageInv, NoStorageAliased
        <4> QED
          BY <2>7, <4>1, <4>2, <4>3 DEF StorageInv, NoStorageAliased
      <3> QED
        BY <3>1, <3>2
    <2>20. NoStorageLeaked'
      BY <2>7, <2>9, <2>17 DEF StorageInv, NoStorageLeaked
    <2>21. NowhereYet'
      BY <2>3, <2>7, <2>9, <2>10, <2>16
      DEF StorageInv, NowhereYet, TypeOK, FactoryTypeOK, Storage
    <2> QED
      BY <2>11, <2>19, <2>20, <2>21 DEF StorageInv
  <1>3. ASSUME RecvStep(t), ~PumpDone(t)
        PROVE  UNCHANGED <<numActiveQueues_, cQueue, queue_, mq, sendAt>>
    BY <1>3
    DEF RecvStep, RecvCall, RecvWait, SpuriousWakeup, RecvEmpty, RecvNonEmpty,
        RecvLock, PumpStep, PumpSkip, PumpDrop, PumpCall, CallbackReturn,
        CallbackThrow, FreeAt, factoryVars, endpointVars, sendVars
  <1> QED
    BY <1>1, <1>2, <1>3

LEMMA OwnerKeepsStorage ==
  ASSUME TypedControl, StorageInv, NEW mb \in Mailboxes, OwnerStep(mb)
  PROVE  StorageInv'
  <1> USE DEF TypedControl
  <1>1. ASSUME Claim(mb) \/ \E type \in CallbackTypes : On(mb, type) \/ Off(mb, type)
        PROVE  StorageInv'
    <2>1. UNCHANGED <<numActiveQueues_, cQueue, queue_, mq, sendAt>>
      BY <1>1 DEF Claim, On, Off, factoryVars, sendVars
    <2>2. \A u \in Threads, s \in Storage : Holds(u, s)' <=> Holds(u, s)
      BY <2>1 DEF Holds
    <2> QED
      BY <2>1, <2>2, StorageUnaffected
  <1>2. ASSUME Recreate(mb) PROVE StorageInv'
    <2>1. /\ \A nb \in Mailboxes \ {mb} : queue_'[nb] = queue_[nb]
          /\ queue_'[mb] = <<>>
          /\ UNCHANGED <<numActiveQueues_, mq, sendAt>>
      BY <1>2 DEF Recreate, Submit, TypeOK, sendVars
    <2>2. \A r \in Storage :
            cQueue'[r] = IF r \in Pending(mb) THEN cQueue[r] + 1 ELSE cQueue[r]
      BY <1>2 DEF Recreate, Submit
    <2>3. \A r : r \in Pending(mb) <=>
            \E i \in 1..Len(queue_[mb]) : QueuedAt(mb, i, r)
      BY DEF Pending, QueuedAt
    <2>4. \A r \in Pending(mb) \cap Storage :
            /\ cQueue[r] = 0
            /\ \A u \in Threads : ~Holds(u, r)
            /\ \A nb \in Mailboxes \ {mb} : \A i \in 1..Len(queue_[nb]) :
                 ~QueuedAt(nb, i, r)
      BY <2>3 DEF StorageInv, NoStorageAliased
    <2>5. \A u \in Threads, r \in Storage : Holds(u, r)' <=> Holds(u, r)
      BY <2>1 DEF Holds
    <2>6. \A nb \in Mailboxes : \A i, r :
            QueuedAt(nb, i, r)' <=> nb # mb /\ QueuedAt(nb, i, r)
      BY <2>1 DEF QueuedAt
    <2>7. \A nb, i, r : QueuedAt(nb, i, r) => i \in 1..Len(queue_[nb])
      BY DEF QueuedAt
    <2>8. \A nb \in Mailboxes : \A i, r :
            QueuedAt(nb, i, r)' => i \in 1..Len(queue_'[nb])
      BY DEF QueuedAt
    <2>9. NoStorageAliased'
      <3> SUFFICES ASSUME NEW r \in Storage
                   PROVE  /\ cQueue'[r] \in {0, 1}
                          /\ \A u \in Threads : Holds(u, r)' =>
                               /\ cQueue'[r] = 0
                               /\ \A v \in Threads : Holds(v, r)' => v = u
                          /\ \A nb \in Mailboxes : \A i \in 1..Len(queue_'[nb]) :
                               QueuedAt(nb, i, r)' =>
                               /\ cQueue'[r] = 0
                               /\ \A u \in Threads : ~Holds(u, r)'
                               /\ \A ob \in Mailboxes : \A j \in 1..Len(queue_'[ob]) :
                                    QueuedAt(ob, j, r)' => ob = nb /\ j = i
        BY DEF NoStorageAliased
      <3>1. CASE r \in Pending(mb)
        BY <2>2, <2>4, <2>5, <2>6, <2>7, <3>1
      <3>2. CASE r \notin Pending(mb)
        BY <2>2, <2>5, <2>6, <2>7, <3>2 DEF StorageInv, NoStorageAliased
      <3> QED
        BY <3>1, <3>2
    <2>10. \A r \in Storage :
             Queued(r)' <=> \E nb \in Mailboxes \ {mb} :
                              \E i \in 1..Len(queue_[nb]) : QueuedAt(nb, i, r)
      BY <2>1, <2>6, <2>7, <2>8 DEF Queued
    <2>11. NoStorageLeaked'
      <3> SUFFICES ASSUME NEW r \in Storage, r <= numActiveQueues_
                   PROVE  cQueue'[r] > 0 \/ (\E u \in Threads : Holds(u, r)') \/ Queued(r)'
        BY <2>1 DEF NoStorageLeaked
      <3>1. CASE r \in Pending(mb)
        BY <2>2, <2>4, <3>1
      <3>2. CASE r \notin Pending(mb)
        BY <2>2, <2>3, <2>5, <2>10, <3>2 DEF StorageInv, NoStorageLeaked, Queued
      <3> QED
        BY <3>1, <3>2
    <2>12. NowhereYet'
      BY <2>1, <2>2, <2>3, <2>5, <2>10 DEF StorageInv, NowhereYet, Queued
    <2>13. QueuedReady'
      BY <2>1 DEF StorageInv, QueuedReady, Readable
    <2> QED
      BY <2>9, <2>11, <2>12, <2>13 DEF StorageInv
  <1> QED
    BY <1>1, <1>2 DEF OwnerStep

LEMMA StorageInvariant == Spec => []StorageInv
  <1>1. Init => StorageInv
    <2> SUFFICES ASSUME Init PROVE StorageInv
      OBVIOUS
    <2>1. /\ \A s \in Storage : cQueue[s] = 0
          /\ numActiveQueues_ = 0
          /\ \A mb \in Mailboxes : queue_[mb] = <<>>
      BY DEF Init, FactoryInit
    <2>2. \A t \in Threads, s \in Storage : ~Holds(t, s)
      BY DEF Init, Holds, MarkInvalid, NewHandle
    <2>3. \A mb \in Mailboxes : 1..Len(queue_[mb]) = {}
      BY <2>1
    <2>4. \A s \in Storage : s \in Nat \ {0}
      BY MaxStoragesAssumption DEF Storage
    <2> QED
      BY <2>1, <2>2, <2>3, <2>4
      DEF StorageInv, NoStorageAliased, NoStorageLeaked, NowhereYet, QueuedReady,
          Queued
  <1>2. TypedControl /\ StorageInv /\ [Next]_vars => StorageInv'
    <2> SUFFICES ASSUME TypedControl, StorageInv, [Next]_vars PROVE StorageInv'
      OBVIOUS
    <2>1. CASE Next
      BY <2>1, ClientKeepsStorage, SendKeepsStorage, RecvKeepsStorage,
         OwnerKeepsStorage
      DEF Next
    <2>2. CASE UNCHANGED vars
      <3>1. UNCHANGED <<numActiveQueues_, cQueue, queue_, mq, sendAt>>
        BY <2>2 DEF vars, factoryVars, endpointVars, sendVars
      <3>2. \A u \in Threads, s \in Storage : Holds(u, s)' <=> Holds(u, s)
        BY <3>1 DEF Holds
      <3> QED
        BY <3>1, <3>2, StorageUnaffected
    <2> QED
      BY <2>1, <2>2
  <1> QED
    BY <1>1, <1>2, Typed, PTL DEF Spec

\* However many threads fetch, send, pump and abandon MessageQueues, and whatever
\* mailboxes are destroyed in between, no storage is in two places.
THEOREM StorageIsNotAliased == Spec => []NoStorageAliased
  <1>1. StorageInv => NoStorageAliased
    BY DEF StorageInv
  <1> QED
    BY <1>1, StorageInvariant, PTL

\* Nor does the factory ever lose one.
THEOREM StorageIsNotLeaked == Spec => []NoStorageLeaked
  <1>1. StorageInv => NoStorageLeaked
    BY DEF StorageInv
  <1> QED
    BY <1>1, StorageInvariant, PTL

-----------------------------------------------------------------------------
(* Managed payloads.  A MessageQueue that is pumped is half done: what        *)
(* it has before pos is deleted already, and the rest is not.                 *)

Owner(p, s, i) == i \in 1..Len(heap[s]) /\ OwnsPayload(heap[s][i]) /\ heap[s][i].payload = p

IsPumped(t) == recvAt[t] \in {"pump", "callback"}

\* The i-th message of s is behind the place that t has reached in it.
Behind(t, s, i) == IsPumped(t) /\ CurrentMQ(t).storage = s /\ i < pos[t]

\* Who wrote them: push() and push_managed_payload(), and MaxBatch of them.
MessagesFit ==
  \A s \in Storage :
    /\ Len(heap[s]) <= MaxBatch
    /\ \A i \in 1..Len(heap[s]) :
         IF heap[s][i].managed THEN heap[s][i].type \in ManagedTypes
         ELSE heap[s][i].payload = 0

OwnersMatch ==
  /\ \A s \in Storage, i \in Nat, p \in Payloads : Owner(p, s, i) => p \in live
  /\ \A p \in live : \E s \in Storage, i \in Nat : Owner(p, s, i)
  /\ \A p \in live, r, s \in Storage, i, j \in Nat :
       Owner(p, r, i) /\ Owner(p, s, j) => r = s /\ i = j

PumpedBehind ==
  \A t \in Threads :
    /\ \A s \in Storage, i \in Nat, p \in Payloads : Behind(t, s, i) => ~Owner(p, s, i)
    /\ recvAt[t] = "callback" => pos[t] <= Len(heap[CurrentMQ(t).storage])

PayloadInv ==
  /\ MessagesFit
  /\ OwnersMatch
  /\ PumpedBehind

\* Where no callback throws, a message without its payload is behind the thread
\* that deleted it.
EmptiedBehind ==
  \A s \in Storage : \A i \in 1..Len(heap[s]) :
    heap[s][i].managed /\ heap[s][i].payload = 0 => \E t \in Threads : Behind(t, s, i)
-----------------------------------------------------------------------------
(* The storages and the payloads. *)

LEMMA MessagesTyped ==
  ASSUME TypeOK, NEW s \in Storage
  PROVE  /\ heap[s] \in Seq(Message) /\ Len(heap[s]) \in Nat
         /\ DOMAIN heap[s] = 1..Len(heap[s])
         /\ \A i \in 1..Len(heap[s]) : heap[s][i] \in Message
         /\ \A p, i : Owner(p, s, i) => p \in Payloads /\ i \in Nat
  <1>1. heap[s] \in Seq(Message)
    BY DEF TypeOK, FactoryTypeOK
  <1>2. Len(heap[s]) \in Nat /\ DOMAIN heap[s] = 1..Len(heap[s])
    BY <1>1
  <1>3. \A i \in 1..Len(heap[s]) : heap[s][i] \in Message
    BY <1>1
  <1> QED
    BY <1>1, <1>2, <1>3 DEF Owner, OwnsPayload, Message

LEMMA PushChangesOwners ==
  ASSUME TypeOK, NEW s \in Storage, NEW msg \in Message, PushTo(s, msg)
  PROVE  /\ Len(heap'[s]) = Len(heap[s]) + 1 /\ Len(heap[s]) \in Nat
         /\ \A i \in 1..Len(heap[s]) : heap'[s][i] = heap[s][i]
         /\ heap'[s][Len(heap[s]) + 1] = msg
         /\ \A r \in Storage \ {s} : heap'[r] = heap[r]
         /\ \A p, i : \A r \in Storage :
              Owner(p, r, i)' <=>
                \/ Owner(p, r, i)
                \/ r = s /\ i = Len(heap[s]) + 1 /\ OwnsPayload(msg) /\ p = msg.payload
  <1>1. heap[s] \in Seq(Message)
    BY DEF TypeOK, FactoryTypeOK
  <1>2. heap'[s] = Append(heap[s], msg) /\ \A r \in Storage \ {s} : heap'[r] = heap[r]
    BY DEF PushTo, TypeOK, FactoryTypeOK
  <1>3. /\ Len(heap'[s]) = Len(heap[s]) + 1 /\ Len(heap[s]) \in Nat
        /\ \A i \in 1..Len(heap[s]) : heap'[s][i] = heap[s][i]
        /\ heap'[s][Len(heap[s]) + 1] = msg
    BY <1>1, <1>2
  <1>4. ASSUME NEW p, NEW i, NEW r \in Storage
        PROVE  Owner(p, r, i)' <=>
                 \/ Owner(p, r, i)
                 \/ r = s /\ i = Len(heap[s]) + 1 /\ OwnsPayload(msg) /\ p = msg.payload
    <2>1. CASE r # s
      BY <1>2, <2>1 DEF Owner, OwnsPayload
    <2>2. CASE r = s
      <3>1. i \in 1..Len(heap'[s]) <=> i \in 1..Len(heap[s]) \/ i = Len(heap[s]) + 1
        BY <1>3
      <3>2. i \in 1..Len(heap[s]) => i # Len(heap[s]) + 1
        BY <1>3
      <3> QED
        BY <1>3, <2>2, <3>1, <3>2 DEF Owner, OwnsPayload
    <2> QED
      BY <2>1, <2>2
  <1> QED
    BY <1>2, <1>3, <1>4

\* A fresh container gets one owner, and a trivial message is none.
LEMMA PushKeepsOwners ==
  ASSUME TypeOK, MessagesFit, OwnersMatch,
         NEW s \in Storage, NEW msg \in Message, PushTo(s, msg),
         Len(heap[s]) < MaxBatch,
         IF msg.managed THEN msg.type \in ManagedTypes /\ msg.payload \in Payloads \ live
         ELSE msg.payload = 0
  PROVE  MessagesFit' /\ OwnersMatch'
  <1> DEFINE n == Len(heap[s]) + 1
  <1>1. /\ Len(heap'[s]) = n /\ Len(heap[s]) \in Nat
        /\ \A i \in 1..Len(heap[s]) : heap'[s][i] = heap[s][i]
        /\ heap'[s][n] = msg
        /\ \A r \in Storage \ {s} : heap'[r] = heap[r]
    BY PushChangesOwners
  <1>2. \A p, i : \A r \in Storage :
          Owner(p, r, i)' <=>
            Owner(p, r, i) \/ (r = s /\ i = n /\ OwnsPayload(msg) /\ p = msg.payload)
    BY PushChangesOwners
  <1>3. live' = IF OwnsPayload(msg) THEN live \union {msg.payload} ELSE live
    BY DEF PushTo
  <1>4. n \in Nat /\ n <= MaxBatch /\ \A i \in 1..n : i \in 1..Len(heap[s]) \/ i = n
    BY <1>1, WiringAssumption
  <1> HIDE DEF n
  <1>5. MessagesFit'
    <2> SUFFICES ASSUME NEW r \in Storage
                 PROVE  /\ Len(heap'[r]) <= MaxBatch
                        /\ \A i \in 1..Len(heap'[r]) :
                             IF heap'[r][i].managed THEN heap'[r][i].type \in ManagedTypes
                             ELSE heap'[r][i].payload = 0
      BY DEF MessagesFit
    <2>1. CASE r # s
      BY <1>1, <2>1 DEF MessagesFit
    <2>2. CASE r = s
      BY <1>1, <1>4, <2>2 DEF MessagesFit
    <2> QED
      BY <2>1, <2>2
  <1>6. OwnersMatch'
    <2>1. OwnsPayload(msg) => msg.payload \in Payloads \ live
      BY DEF OwnsPayload
    <2>2. \A r \in Storage, i \in Nat : OwnsPayload(msg) => ~Owner(msg.payload, r, i)
      BY <2>1 DEF OwnersMatch
    <2>3. \A r \in Storage, i \in Nat, p \in Payloads : Owner(p, r, i)' => p \in live'
      BY <1>2, <1>3 DEF OwnersMatch
    <2>4. \A p \in live' : \E r \in Storage, i \in Nat : Owner(p, r, i)'
      BY <1>2, <1>3, <1>4 DEF OwnersMatch
    <2>5. \A p \in live', q, r \in Storage, i, j \in Nat :
            Owner(p, q, i)' /\ Owner(p, r, j)' => q = r /\ i = j
      BY <1>2, <1>3, <2>2 DEF OwnersMatch
    <2> QED
      BY <2>3, <2>4, <2>5 DEF OwnersMatch
  <1> QED
    BY <1>5, <1>6

LEMMA FreeChangesOwners ==
  ASSUME TypeOK, MessagesFit, NEW s \in Storage, NEW n \in 1..Len(heap[s]), FreeAt(s, n)
  PROVE  /\ Len(heap'[s]) = Len(heap[s])
         /\ \A i \in 1..Len(heap[s]) : i # n => heap'[s][i] = heap[s][i]
         /\ heap'[s][n].managed = heap[s][n].managed
         /\ heap'[s][n].type = heap[s][n].type
         /\ heap'[s][n].payload = 0
         /\ \A r \in Storage \ {s} : heap'[r] = heap[r]
         /\ \A p, i : \A r \in Storage :
              Owner(p, r, i)' <=> Owner(p, r, i) /\ ~(r = s /\ i = n)
  <1>1. heap[s] \in Seq(Message) /\ heap[s][n] \in Message /\ Len(heap[s]) \in Nat
        /\ DOMAIN heap[s] = 1..Len(heap[s])
    BY MessagesTyped
  <1> DEFINE new == IF heap[s][n].managed THEN Freed(heap[s][n]) ELSE heap[s][n]
  <1>2. /\ new.managed = heap[s][n].managed
        /\ new.type = heap[s][n].type
        /\ new.payload = 0
    BY <1>1 DEF Freed, Message, MessagesFit
  <1>3. /\ heap'[s] = [heap[s] EXCEPT ![n] = new]
        /\ \A r \in Storage \ {s} : heap'[r] = heap[r]
    BY DEF FreeAt, TypeOK, FactoryTypeOK
  <1> HIDE DEF new
  <1>4. /\ Len(heap'[s]) = Len(heap[s])
        /\ \A i \in 1..Len(heap[s]) : i # n => heap'[s][i] = heap[s][i]
        /\ heap'[s][n] = new
    BY <1>1, <1>3
  <1>5. ASSUME NEW p, NEW i, NEW r \in Storage
        PROVE  Owner(p, r, i)' <=> Owner(p, r, i) /\ ~(r = s /\ i = n)
    <2>1. CASE r # s
      BY <1>3, <2>1 DEF Owner, OwnsPayload
    <2>2. CASE r = s /\ i # n
      BY <1>4, <2>2 DEF Owner, OwnsPayload
    <2>3. CASE r = s /\ i = n
      BY <1>2, <1>4, <2>3 DEF Owner, OwnsPayload
    <2> QED
      BY <2>1, <2>2, <2>3
  <1> QED
    BY <1>2, <1>3, <1>4, <1>5

\* A container that is deleted loses its owner, and no other does.
LEMMA FreeKeepsOwners ==
  ASSUME TypeOK, MessagesFit, OwnersMatch,
         NEW s \in Storage, NEW n \in 1..Len(heap[s]), FreeAt(s, n)
  PROVE  MessagesFit' /\ OwnersMatch'
  <1>1. \A p, i : \A r \in Storage :
          Owner(p, r, i)' <=> Owner(p, r, i) /\ ~(r = s /\ i = n)
    BY FreeChangesOwners
  <1>2. MessagesFit'
    <2> SUFFICES ASSUME NEW r \in Storage
                 PROVE  /\ Len(heap'[r]) <= MaxBatch
                        /\ \A i \in 1..Len(heap'[r]) :
                             IF heap'[r][i].managed THEN heap'[r][i].type \in ManagedTypes
                             ELSE heap'[r][i].payload = 0
      BY DEF MessagesFit
    <2>1. CASE r # s
      BY <2>1, FreeChangesOwners DEF MessagesFit
    <2>2. CASE r = s
      BY <2>2, FreeChangesOwners DEF MessagesFit
    <2> QED
      BY <2>1, <2>2
  <1>3. live' = live \ {heap[s][n].payload} /\ n \in Nat
    BY MessagesTyped DEF FreeAt
  <1>4. heap[s][n].payload # 0 => Owner(heap[s][n].payload, s, n)
    BY DEF MessagesFit, Owner, OwnsPayload
  <1>5. \A p : Owner(p, s, n) => p = heap[s][n].payload
    BY DEF Owner
  <1>6. live \subseteq Payloads
    BY DEF TypeOK, FactoryTypeOK
  <1>7. ASSUME NEW r \in Storage, NEW i \in Nat, NEW p \in Payloads, Owner(p, r, i)'
        PROVE  p \in live'
    <2>1. Owner(p, r, i) /\ ~(r = s /\ i = n) /\ p \in live
      BY <1>1, <1>7 DEF OwnersMatch
    <2>2. ~Owner(p, s, n)
      BY <1>3, <2>1 DEF OwnersMatch
    <2> QED
      BY <1>3, <1>4, <2>1, <2>2, NullPayloadAssumption
  <1>8. \A p \in live' : \E r \in Storage, i \in Nat : Owner(p, r, i)'
    BY <1>1, <1>3, <1>5 DEF OwnersMatch
  <1>9. \A p \in live', q, r \in Storage, i, j \in Nat :
          Owner(p, q, i)' /\ Owner(p, r, j)' => q = r /\ i = j
    BY <1>1, <1>3 DEF OwnersMatch
  <1> QED
    BY <1>2, <1>7, <1>8, <1>9 DEF OwnersMatch

\* The containers that go with the storages S.
LEMMA SubmitKeepsOwners ==
  ASSUME TypeOK, MessagesFit, OwnersMatch, NEW S \in SUBSET Storage, NEW P, Submit(S, P),
         \A p \in Payloads : p \in P <=> \E s \in S, i \in Nat : Owner(p, s, i)
  PROVE  /\ MessagesFit' /\ OwnersMatch'
         /\ \A r \in Storage \ S : heap'[r] = heap[r]
         /\ \A r \in S : heap'[r] = <<>>
  <1>1. /\ \A r \in Storage \ S : heap'[r] = heap[r]
        /\ \A r \in S : heap'[r] = <<>>
        /\ live' = live \ P
    BY DEF Submit
  <1>2. \A r \in S : Len(heap'[r]) = 0 /\ 1..Len(heap'[r]) = {}
    BY <1>1
  <1>3. \A p, i : \A r \in Storage : Owner(p, r, i)' <=> r \notin S /\ Owner(p, r, i)
    BY <1>1, <1>2 DEF Owner, OwnsPayload
  <1>4. MessagesFit'
    <2>1. 0 <= MaxBatch
      BY WiringAssumption
    <2> QED
      BY <1>1, <1>2, <2>1 DEF MessagesFit
  <1>5. live \subseteq Payloads
    BY DEF TypeOK, FactoryTypeOK
  <1>6. ASSUME NEW r \in Storage, NEW i \in Nat, NEW p \in Payloads, Owner(p, r, i)'
        PROVE  p \in live'
    <2>1. r \notin S /\ Owner(p, r, i) /\ p \in live
      BY <1>3, <1>6 DEF OwnersMatch
    <2>2. p \notin P
      BY <2>1 DEF OwnersMatch
    <2> QED
      BY <1>1, <2>1, <2>2
  <1>7. \A p \in live' : \E r \in Storage, i \in Nat : Owner(p, r, i)'
    BY <1>1, <1>3, <1>5 DEF OwnersMatch
  <1>8. \A p \in live', q, r \in Storage, i, j \in Nat :
          Owner(p, q, i)' /\ Owner(p, r, j)' => q = r /\ i = j
    BY <1>1, <1>3 DEF OwnersMatch
  <1> QED
    BY <1>1, <1>4, <1>6, <1>7, <1>8 DEF OwnersMatch

-----------------------------------------------------------------------------
(* The threads that pump: each has a MessageQueue of its own, which no other   *)
(* thread touches.                                                            *)

LEMMA PumpedIsQueued ==
  ASSUME TypedControl, NEW t \in Threads, IsPumped(t)
  PROVE  /\ Inbox[t] \in Mailboxes /\ mtx_[Inbox[t]] = t
         /\ queue_[Inbox[t]] \in Seq(Handle(Storage)) /\ queue_[Inbox[t]] # <<>>
         /\ 1 \in 1..Len(queue_[Inbox[t]])
         /\ QueuedAt(Inbox[t], 1, CurrentMQ(t).storage)
         /\ CurrentMQ(t).storage \in Storage
  <1>1. /\ Inbox[t] \in Mailboxes /\ mtx_[Inbox[t]] = t
        /\ queue_[Inbox[t]] # <<>>
    BY DEF TypedControl, ControlInv, IsPumped, InRecvLock
  <1>2. queue_[Inbox[t]] \in Seq(Handle(Storage))
    BY <1>1 DEF TypedControl, TypeOK
  <1>3. 1 \in 1..Len(queue_[Inbox[t]]) /\ Head(queue_[Inbox[t]]) = queue_[Inbox[t]][1]
    BY <1>1, <1>2
  <1> QED
    BY <1>1, <1>2, <1>3, CurrentMQTyped DEF QueuedAt, CurrentMQ, IsPumped

LEMMA PumpersApart ==
  ASSUME TypedControl, StorageInv, NEW t \in Threads, NEW u \in Threads, t # u,
         IsPumped(t), IsPumped(u)
  PROVE  Inbox[t] # Inbox[u] /\ CurrentMQ(t).storage # CurrentMQ(u).storage
  BY PumpedIsQueued DEF StorageInv, NoStorageAliased

LEMMA HeldIsNotPumped ==
  ASSUME TypedControl, StorageInv, NEW t \in Threads, NEW s \in Storage, Holds(t, s),
         NEW u \in Threads, IsPumped(u)
  PROVE  CurrentMQ(u).storage # s
  BY PumpedIsQueued DEF StorageInv, NoStorageAliased

\* A step of another thread leaves u, if it pumps, where it is.
Undisturbed(u) ==
  /\ IsPumped(u)' <=> IsPumped(u)
  /\ IsPumped(u) => /\ recvAt'[u] = recvAt[u]
                    /\ pos'[u] = pos[u]
                    /\ CurrentMQ(u)'.storage = CurrentMQ(u).storage

LEMMA SameQueueUndisturbed ==
  ASSUME NEW u, recvAt'[u] = recvAt[u], pos'[u] = pos[u],
         IsPumped(u) => queue_'[Inbox[u]] = queue_[Inbox[u]]
  PROVE  Undisturbed(u)
  BY DEF Undisturbed, IsPumped, CurrentMQ

LEMMA ClientDisturbsNobody ==
  ASSUME NEW t \in Threads, ClientStep(t), NEW u \in Threads
  PROVE  Undisturbed(u)
  BY SameQueueUndisturbed
  DEF ClientStep, GetMQ, PushTrivial, PushManaged, Push, SealMQ, PushManagedSealed, AbandonMQ,
      endpointVars, recvVars

LEMMA SendDisturbsNobody ==
  ASSUME TypedControl, NEW t \in Threads, SendStep(t), NEW u \in Threads
  PROVE  Undisturbed(u)
  <1>1. CASE SendSeal(t) \/ SendInvalidate(t)
    BY <1>1, SameQueueUndisturbed DEF SendSeal, SendInvalidate, endpointVars, recvVars
  <1>2. CASE SendPush(t)
    <2>1. recvAt'[u] = recvAt[u] \/ (recvAt[u] = "asleep" /\ recvAt'[u] = "wait")
      BY <1>2 DEF SendPush, Awake
    <2>2. IsPumped(u)' <=> IsPumped(u)
      BY <2>1 DEF IsPumped
    <2>3. SUFFICES ASSUME IsPumped(u)
                   PROVE  recvAt'[u] = recvAt[u] /\ pos'[u] = pos[u]
                          /\ CurrentMQ(u)'.storage = CurrentMQ(u).storage
      BY <2>2 DEF Undisturbed
    <2>4. recvAt'[u] = recvAt[u] /\ pos'[u] = pos[u]
      BY <1>2, <2>1, <2>3 DEF IsPumped, SendPush
    <2>5. queue_' = [queue_ EXCEPT ![dest[t]] = Append(queue_[dest[t]], mq[t])]
          /\ mq[t] \in Handle(Storage)
      BY <1>2 DEF SendPush, TypedControl, TypeOK
    <2>6. Inbox[u] \in Mailboxes /\ queue_[Inbox[u]] \in Seq(Handle(Storage))
          /\ queue_[Inbox[u]] # <<>>
      BY <2>3, PumpedIsQueued
    <2>7. queue_'[Inbox[u]] = queue_[Inbox[u]]
          \/ queue_'[Inbox[u]] = Append(queue_[Inbox[u]], mq[t])
      BY <2>5, <2>6 DEF TypedControl, TypeOK
    <2>8. Head(queue_'[Inbox[u]]) = Head(queue_[Inbox[u]])
      BY <2>5, <2>6, <2>7
    <2> QED
      BY <2>4, <2>8 DEF CurrentMQ
  <1> QED
    BY <1>1, <1>2 DEF SendStep

LEMMA RecvDisturbsNobodyElse ==
  ASSUME TypedControl, StorageInv, NEW t \in Threads, RecvStep(t), NEW u \in Threads \ {t}
  PROVE  Undisturbed(u)
  <1>1. CASE PumpDone(t)
    <2>1. recvAt'[u] = recvAt[u] /\ pos'[u] = pos[u]
      BY <1>1 DEF PumpDone, Moved, TypedControl, TypeOK
    <2>2. IsPumped(t)
      BY <1>1 DEF PumpDone, IsPumped
    <2>3. IsPumped(u) => Inbox[u] # Inbox[t] /\ Inbox[u] \in Mailboxes
      BY <2>2, PumpersApart, PumpedIsQueued
    <2>4. IsPumped(u) => queue_'[Inbox[u]] = queue_[Inbox[u]]
      BY <1>1, <2>3 DEF PumpDone, TypedControl, TypeOK
    <2> QED
      BY <2>1, <2>4, SameQueueUndisturbed
  <1>2. CASE ~PumpDone(t)
    <2>1. queue_' = queue_
      BY <1>2
      DEF RecvStep, RecvCall, RecvWait, SpuriousWakeup, RecvEmpty, RecvNonEmpty,
          RecvLock, PumpStep, PumpSkip, PumpDrop, PumpCall, CallbackReturn, CallbackThrow,
          endpointVars
    <2>2. recvAt'[u] = recvAt[u] /\ pos'[u] = pos[u]
      BY <1>2
      DEF RecvStep, RecvCall, RecvWait, SpuriousWakeup, RecvEmpty, RecvNonEmpty,
          RecvLock, PumpStep, PumpSkip, PumpDrop, PumpCall, CallbackReturn, CallbackThrow,
          Moved, Advance, TypedControl, TypeOK
    <2> QED
      BY <2>1, <2>2, SameQueueUndisturbed
  <1> QED
    BY <1>1, <1>2

LEMMA OwnerDisturbsNobody ==
  ASSUME TypedControl, NEW mb \in Mailboxes, OwnerStep(mb), NEW u \in Threads
  PROVE  Undisturbed(u)
  <1>1. CASE Recreate(mb)
    <2>1. recvAt'[u] = recvAt[u] /\ pos'[u] = pos[u]
      BY <1>1 DEF Recreate
    <2>2. IsPumped(u) => Inbox[u] # mb /\ Inbox[u] \in Mailboxes
      BY <1>1, PumpedIsQueued DEF Recreate, IsPumped
    <2>3. IsPumped(u) => queue_'[Inbox[u]] = queue_[Inbox[u]]
      BY <1>1, <2>2 DEF Recreate, TypedControl, TypeOK
    <2> QED
      BY <2>1, <2>3, SameQueueUndisturbed
  <1>2. CASE ~Recreate(mb)
    BY <1>2, SameQueueUndisturbed DEF OwnerStep, Claim, On, Off, recvVars
  <1> QED
    BY <1>1, <1>2

\* Threads that nobody disturbs keep what is behind them without owners, as long
\* as nobody writes in their MessageQueues.
LEMMA UndisturbedBehind ==
  ASSUME PumpedBehind, NEW u \in Threads, Undisturbed(u),
         IsPumped(u) => heap'[CurrentMQ(u).storage] = heap[CurrentMQ(u).storage]
  PROVE  /\ \A s \in Storage, i \in Nat, p \in Payloads : Behind(u, s, i)' => ~Owner(p, s, i)'
         /\ recvAt'[u] = "callback" => pos'[u] <= Len(heap'[CurrentMQ(u)'.storage])
  <1>1. ASSUME NEW s \in Storage, NEW i \in Nat, NEW p \in Payloads, Behind(u, s, i)'
        PROVE  ~Owner(p, s, i)'
    <2>1. Behind(u, s, i) /\ heap'[s] = heap[s]
      BY <1>1 DEF Undisturbed, Behind
    <2> QED
      BY <2>1 DEF PumpedBehind, Owner, OwnsPayload
  <1>2. recvAt'[u] = "callback" => pos'[u] <= Len(heap'[CurrentMQ(u)'.storage])
    BY DEF Undisturbed, IsPumped, PumpedBehind
  <1> QED
    BY <1>1, <1>2

-----------------------------------------------------------------------------
(* Every step keeps PayloadInv, if no thread pushes a managed payload to what  *)
(* it has sealed, and if what has a managed payload is not skipped.            *)

ManagedIsTaken ==
  /\ SealedPushers = {}
  /\ \A type \in ManagedTypes : type # MSG_NULL /\ type \notin OverMax

LEMMA HeapUnaffected ==
  ASSUME MessagesFit, OwnersMatch, UNCHANGED <<heap, live>>
  PROVE  MessagesFit' /\ OwnersMatch'
  BY DEF MessagesFit, OwnersMatch, Owner, OwnsPayload

LEMMA ClientKeepsPayloads ==
  ASSUME TypedControl, StorageInv, PayloadInv, ManagedIsTaken,
         NEW t \in Threads, ClientStep(t)
  PROVE  PayloadInv'
  <1> USE DEF PayloadInv, TypedControl
  <1>1. \A u \in Threads : Undisturbed(u)
    BY ClientDisturbsNobody
  <1>2. CASE GetMQ(t) \/ SealMQ(t)
    <2>1. UNCHANGED <<heap, live>>
      BY <1>2 DEF GetMQ, Get, SealMQ, factoryVars
    <2> QED
      BY <1>1, <2>1, HeapUnaffected, UndisturbedBehind DEF PumpedBehind
  <1>3. ASSUME NEW msg \in Message, Push(t, msg),
               IF msg.managed THEN msg.type \in ManagedTypes /\ msg.payload \in Payloads \ live
               ELSE msg.payload = 0
        PROVE  PayloadInv'
    <2> DEFINE s == mq[t].storage
    <2>1. s \in Storage /\ Holds(t, s) /\ PushTo(s, msg) /\ Len(heap[s]) < MaxBatch
      BY <1>3 DEF Push, InClientCode, Writable, Holds, TypeOK, Handle
    <2>2. \A r \in Storage \ {s} : heap'[r] = heap[r]
      BY <2>1, PushChangesOwners
    <2>3. \A u \in Threads : IsPumped(u) => CurrentMQ(u).storage \in Storage \ {s}
      BY <2>1, HeldIsNotPumped, PumpedIsQueued
    <2> HIDE DEF s
    <2>4. MessagesFit' /\ OwnersMatch'
      BY <1>3, <2>1, PushKeepsOwners
    <2> QED
      BY <1>1, <2>2, <2>3, <2>4, UndisturbedBehind DEF PumpedBehind
  <1>4. CASE PushTrivial(t)
    <2>1. PICK type \in TrivialTypes : Push(t, TrivialMessage(type))
      BY <1>4 DEF PushTrivial
    <2>2. TrivialMessage(type) \in Message
      BY PushedMessagesAreMessages
    <2> QED
      BY <1>3, <2>1, <2>2 DEF TrivialMessage
  <1>5. CASE PushManaged(t)
    <2>1. PICK type \in ManagedTypes, p \in Payloads \ live : Push(t, ManagedMessage(type, p))
      BY <1>5 DEF PushManaged
    <2>2. ManagedMessage(type, p) \in Message
      BY PushedMessagesAreMessages
    <2> QED
      BY <1>3, <2>1, <2>2 DEF ManagedMessage
  <1>6. CASE AbandonMQ(t)
    <2> DEFINE s == mq[t].storage
    <2>1. s \in Storage /\ Holds(t, s) /\ Submit({s}, PayloadsOf(heap[s]))
      BY <1>6 DEF AbandonMQ, InClientCode, Holds, TypeOK, Handle
    <2>2. \A u \in Threads : IsPumped(u) => CurrentMQ(u).storage \in Storage \ {s}
      BY <2>1, HeldIsNotPumped, PumpedIsQueued
    <2>3. \A p \in Payloads : p \in PayloadsOf(heap[s]) <=> \E i \in Nat : Owner(p, s, i)
      BY <2>1, MessagesTyped DEF PayloadsOf, Owner
    <2> HIDE DEF s
    <2>4. \A p \in Payloads :
            p \in PayloadsOf(heap[s]) <=> \E r \in {s}, i \in Nat : Owner(p, r, i)
      BY <2>3
    <2>5. /\ MessagesFit' /\ OwnersMatch'
          /\ \A r \in Storage \ {s} : heap'[r] = heap[r]
      BY <2>1, <2>4, SubmitKeepsOwners
    <2> QED
      BY <1>1, <2>2, <2>5, UndisturbedBehind DEF PumpedBehind
  <1>7. ~PushManagedSealed(t)
    BY DEF PushManagedSealed, ManagedIsTaken
  <1> QED
    BY <1>2, <1>4, <1>5, <1>6, <1>7 DEF ClientStep

LEMMA SendKeepsPayloads ==
  ASSUME TypedControl, PayloadInv, NEW t \in Threads, SendStep(t)
  PROVE  PayloadInv'
  <1>1. UNCHANGED <<heap, live>>
    BY DEF SendStep, SendSeal, SendPush, SendInvalidate, factoryVars
  <1>2. \A u \in Threads : Undisturbed(u)
    BY SendDisturbsNobody
  <1> QED
    BY <1>1, <1>2, HeapUnaffected, UndisturbedBehind DEF PayloadInv, PumpedBehind

LEMMA OwnerKeepsPayloads ==
  ASSUME TypedControl, StorageInv, PayloadInv, NEW mb \in Mailboxes, OwnerStep(mb)
  PROVE  PayloadInv'
  <1> USE DEF PayloadInv, TypedControl
  <1>1. \A u \in Threads : Undisturbed(u)
    BY OwnerDisturbsNobody
  <1>2. CASE Recreate(mb)
    <2> DEFINE P == UNION {PayloadsOf(heap[s]) : s \in Pending(mb)}
    <2>1. Submit(Pending(mb), P)
      BY <1>2 DEF Recreate
    <2>2. Pending(mb) \in SUBSET Storage
      <3>1. queue_[mb] \in Seq(Handle(Storage))
        BY DEF TypeOK
      <3>2. \A i \in 1..Len(queue_[mb]) : queue_[mb][i] \in Handle(Storage)
        BY <3>1
      <3> QED
        BY <3>2 DEF Pending, Handle
    <2>3. \A s \in Storage : \A p \in Payloads :
            p \in PayloadsOf(heap[s]) <=> \E i \in Nat : Owner(p, s, i)
      BY MessagesTyped DEF PayloadsOf, Owner
    <2>4. \A p \in Payloads : p \in P <=> \E s \in Pending(mb), i \in Nat : Owner(p, s, i)
      BY <2>2, <2>3
    <2> HIDE DEF P
    <2>5. /\ MessagesFit' /\ OwnersMatch'
          /\ \A r \in Storage \ Pending(mb) : heap'[r] = heap[r]
      BY <2>1, <2>2, <2>4, SubmitKeepsOwners
    <2>6. ASSUME NEW u \in Threads, IsPumped(u)
          PROVE  CurrentMQ(u).storage \in Storage \ Pending(mb)
      <3>1. Inbox[u] # mb
        BY <1>2, <2>6 DEF Recreate, IsPumped
      <3>2. \A s \in Pending(mb) : \E i \in 1..Len(queue_[mb]) : QueuedAt(mb, i, s)
        BY DEF Pending, QueuedAt
      <3> QED
        BY <2>6, <3>1, <3>2, PumpedIsQueued DEF StorageInv, NoStorageAliased
    <2> QED
      BY <1>1, <2>5, <2>6, UndisturbedBehind DEF PumpedBehind
  <1>3. CASE ~Recreate(mb)
    <2>1. UNCHANGED <<heap, live>>
      BY <1>3 DEF OwnerStep, Claim, On, Off, factoryVars
    <2> QED
      BY <1>1, <2>1, HeapUnaffected, UndisturbedBehind DEF PumpedBehind
  <1> QED
    BY <1>2, <1>3

\* What is left to show of a step of recv(): the heap, and the thread itself.
LEMMA RecvPumped ==
  ASSUME TypedControl, StorageInv, PayloadInv, NEW t \in Threads, RecvStep(t),
         MessagesFit', OwnersMatch',
         \A r \in Storage :
           heap'[r] = heap[r] \/ (IsPumped(t) /\ r = CurrentMQ(t).storage),
         \A s \in Storage, i \in Nat, p \in Payloads : Behind(t, s, i)' => ~Owner(p, s, i)',
         recvAt'[t] = "callback" => pos'[t] <= Len(heap'[CurrentMQ(t)'.storage])
  PROVE  PayloadInv'
  <1>1. ASSUME NEW u \in Threads \ {t}
        PROVE  /\ \A s \in Storage, i \in Nat, p \in Payloads :
                    Behind(u, s, i)' => ~Owner(p, s, i)'
               /\ recvAt'[u] = "callback" => pos'[u] <= Len(heap'[CurrentMQ(u)'.storage])
    <2>1. Undisturbed(u)
      BY RecvDisturbsNobodyElse
    <2>2. IsPumped(u) => heap'[CurrentMQ(u).storage] = heap[CurrentMQ(u).storage]
      BY PumpersApart, PumpedIsQueued
    <2> QED
      BY <2>1, <2>2, UndisturbedBehind DEF PayloadInv
  <1> QED
    BY <1>1 DEF PayloadInv, PumpedBehind

\* The message at pos, and what advancing over it adds to what is behind.
LEMMA AdvanceBehind ==
  ASSUME TypedControl, PayloadInv, NEW t \in Threads, IsPumped(t),
         NEW s, s = CurrentMQ(t).storage,
         UNCHANGED queue_, pos' = [pos EXCEPT ![t] = @ + 1],
         \A p \in Payloads : \A i \in Nat : Owner(p, s, i)' => Owner(p, s, i) /\ i # pos[t]
  PROVE  \A r \in Storage, i \in Nat, p \in Payloads : Behind(t, r, i)' => ~Owner(p, r, i)'
  <1> SUFFICES ASSUME NEW r \in Storage, NEW i \in Nat, NEW p \in Payloads, Behind(t, r, i)',
                      Owner(p, r, i)'
               PROVE  FALSE
    OBVIOUS
  <1>1. r = s /\ i < pos'[t]
    BY DEF Behind, CurrentMQ
  <1>2. pos[t] \in Nat /\ pos'[t] = pos[t] + 1
    BY DEF TypedControl, TypeOK
  <1>3. i < pos[t] /\ Owner(p, r, i)
    BY <1>1, <1>2
  <1>4. Behind(t, r, i)
    BY <1>1, <1>3 DEF Behind
  <1> QED
    BY <1>3, <1>4 DEF PayloadInv, PumpedBehind

LEMMA CurrentIsThere ==
  ASSUME TypedControl, PayloadInv, NEW t \in Threads, Pumping(t) \/ recvAt[t] = "callback"
  PROVE  /\ IsPumped(t) /\ CurrentMQ(t).storage \in Storage
         /\ pos[t] \in 1..Len(heap[CurrentMQ(t).storage])
  <1>1. IsPumped(t) /\ pos[t] <= Len(heap[CurrentMQ(t).storage])
    BY DEF Pumping, IsPumped, PayloadInv, PumpedBehind
  <1>2. CurrentMQ(t).storage \in Storage /\ pos[t] \in Nat \ {0}
    BY <1>1, PumpedIsQueued DEF TypedControl, TypeOK
  <1>3. Len(heap[CurrentMQ(t).storage]) \in Nat
    BY <1>2, MessagesTyped DEF TypedControl
  <1> QED
    BY <1>1, <1>2, <1>3

LEMMA RecvKeepsPayloads ==
  ASSUME TypedControl, StorageInv, PayloadInv, ManagedIsTaken,
         NEW t \in Threads, RecvStep(t)
  PROVE  PayloadInv'
  <1> USE DEF TypedControl
  <1>1. CASE RecvCall(t) \/ RecvWait(t) \/ SpuriousWakeup(t) \/ RecvEmpty(t) \/ RecvNonEmpty(t)
             \/ CallbackThrow(t)
    <2>1. UNCHANGED <<heap, live>>
      BY <1>1
      DEF RecvCall, RecvWait, SpuriousWakeup, RecvEmpty, RecvNonEmpty, CallbackThrow,
          factoryVars
    <2>2. recvAt'[t] \in {"wait", "check", "asleep", "idle", "lock"}
      BY <1>1
      DEF RecvCall, RecvWait, SpuriousWakeup, RecvEmpty, RecvNonEmpty, CallbackThrow, Moved,
          TypeOK
    <2> QED
      BY <2>1, <2>2, HeapUnaffected, RecvPumped DEF PayloadInv, Behind, IsPumped
  <1>2. CASE RecvLock(t)
    <2>1. UNCHANGED <<heap, live, queue_>>
      BY <1>2 DEF RecvLock, factoryVars
    <2>2. CASE queue_[Inbox[t]] = <<>>
      <3>1. recvAt'[t] = "undefined"
        BY <1>2, <2>2 DEF RecvLock, Moved, TypeOK
      <3> QED
        BY <2>1, <3>1, HeapUnaffected, RecvPumped DEF PayloadInv, Behind, IsPumped
    <2>3. CASE queue_[Inbox[t]] # <<>>
      <3>1. Inbox[t] \in Mailboxes
        BY <1>2 DEF RecvLock, ControlInv
      <3>2. queue_[Inbox[t]] \in Seq(Handle(Storage))
        BY <3>1 DEF TypeOK
      <3>3. 1 \in 1..Len(queue_[Inbox[t]]) /\ Head(queue_[Inbox[t]]) = queue_[Inbox[t]][1]
        BY <2>3, <3>2
      <3>4. Readable(Head(queue_[Inbox[t]]))
        BY <3>1, <3>3 DEF StorageInv, QueuedReady
      <3>5. recvAt'[t] = "pump" /\ pos'[t] = 1
        BY <1>2, <2>3, <3>4 DEF RecvLock, Moved, TypeOK
      <3>6. \A s \in Storage, i \in Nat, p \in Payloads : Behind(t, s, i)' => ~Owner(p, s, i)'
        BY <3>5 DEF Behind, Owner
      <3> QED
        BY <2>1, <3>5, <3>6, HeapUnaffected, RecvPumped DEF PayloadInv
    <2> QED
      BY <2>2, <2>3
  <1>3. CASE PumpSkip(t)
    <2>1. /\ Pumping(t) /\ Skipped(Current(t))
          /\ UNCHANGED <<heap, live, queue_, recvAt>>
          /\ pos' = [pos EXCEPT ![t] = @ + 1]
      BY <1>3 DEF PumpSkip, Advance, factoryVars, endpointVars
    <2>2. PICK s \in Storage : /\ s = CurrentMQ(t).storage
                              /\ IsPumped(t) /\ pos[t] \in 1..Len(heap[s])
      BY <2>1, CurrentIsThere
    <2>3. recvAt'[t] # "callback"
      BY <2>1 DEF Pumping
    <2>4. ~Current(t).managed
      BY <2>1, <2>2 DEF Current, PayloadInv, MessagesFit, ManagedIsTaken, Skipped
    <2>5. \A p \in Payloads : \A i \in Nat : Owner(p, s, i)' => Owner(p, s, i) /\ i # pos[t]
      BY <2>1, <2>2, <2>4 DEF Owner, OwnsPayload, Current
    <2>6. \A r \in Storage, i \in Nat, p \in Payloads : Behind(t, r, i)' => ~Owner(p, r, i)'
      BY <2>1, <2>2, <2>5, AdvanceBehind
    <2> QED
      BY <2>1, <2>3, <2>6, HeapUnaffected, RecvPumped DEF PayloadInv
  <1>4. CASE PumpCall(t)
    <2>1. /\ Pumping(t)
          /\ UNCHANGED <<heap, live, queue_, pos>>
      BY <1>4 DEF PumpCall, factoryVars, endpointVars
    <2>2. IsPumped(t) /\ CurrentMQ(t).storage \in Storage
          /\ pos[t] \in 1..Len(heap[CurrentMQ(t).storage])
      BY <2>1, CurrentIsThere
    <2>3. CurrentMQ(t)' = CurrentMQ(t)
      BY <2>1 DEF CurrentMQ
    <2>4. pos'[t] <= Len(heap'[CurrentMQ(t)'.storage])
      BY <2>1, <2>2, <2>3
    <2>5. \A r \in Storage, i \in Nat, p \in Payloads : Behind(t, r, i)' => ~Owner(p, r, i)'
      BY <2>1, <2>2, <2>3 DEF Behind, Owner, OwnsPayload, PayloadInv, PumpedBehind
    <2> QED
      BY <2>1, <2>4, <2>5, HeapUnaffected, RecvPumped DEF PayloadInv
  <1>5. CASE PumpDrop(t) \/ CallbackReturn(t)
    <2>1. /\ Pumping(t) \/ recvAt[t] = "callback"
          /\ FreeAt(CurrentMQ(t).storage, pos[t])
          /\ UNCHANGED queue_
          /\ pos' = [pos EXCEPT ![t] = @ + 1]
      BY <1>5 DEF PumpDrop, CallbackReturn, Advance, endpointVars
    <2>2. PICK s \in Storage : /\ s = CurrentMQ(t).storage
                              /\ IsPumped(t) /\ pos[t] \in 1..Len(heap[s])
      BY <2>1, CurrentIsThere
    <2>3. recvAt'[t] # "callback"
      BY <1>5 DEF PumpDrop, Pumping, CallbackReturn, Moved, TypeOK
    <2>4. MessagesFit' /\ OwnersMatch' /\ \A r \in Storage \ {s} : heap'[r] = heap[r]
      BY <2>1, <2>2, FreeKeepsOwners, FreeChangesOwners DEF PayloadInv
    <2>5. \A p \in Payloads : \A i \in Nat : Owner(p, s, i)' => Owner(p, s, i) /\ i # pos[t]
      BY <2>1, <2>2, FreeChangesOwners DEF PayloadInv
    <2>6. \A r \in Storage, i \in Nat, p \in Payloads : Behind(t, r, i)' => ~Owner(p, r, i)'
      BY <2>1, <2>2, <2>5, AdvanceBehind
    <2>7. \A r \in Storage : heap'[r] = heap[r] \/ (IsPumped(t) /\ r = CurrentMQ(t).storage)
      BY <2>2, <2>4
    <2> QED
      BY <2>3, <2>4, <2>6, <2>7, RecvPumped
  <1>6. CASE PumpDone(t)
    <2>1. IsPumped(t) /\ recvAt'[t] = "check"
      BY <1>6 DEF PumpDone, IsPumped, Moved, TypeOK
    <2>2. PICK s \in Storage : /\ s = CurrentMQ(t).storage
                              /\ pos[t] > Len(heap[s])
                              /\ Submit({s}, {})
      <3>1. /\ Inbox[t] \in Mailboxes
            /\ queue_[Inbox[t]] \in Seq(Handle(Storage)) /\ queue_[Inbox[t]] # <<>>
            /\ 1 \in 1..Len(queue_[Inbox[t]])
        BY <2>1, PumpedIsQueued
      <3>2. CurrentMQ(t) = queue_[Inbox[t]][1]
        BY <3>1 DEF CurrentMQ
      <3>3. CurrentMQ(t).storage \in Storage /\ CurrentMQ(t).valid
        BY <2>1, <3>1, <3>2, PumpedIsQueued DEF StorageInv, QueuedReady, Readable
      <3> QED
        BY <1>6, <3>3 DEF PumpDone
    <2>3. \A i \in Nat, p \in Payloads : ~Owner(p, s, i)
      <3> SUFFICES ASSUME NEW i \in Nat, NEW p \in Payloads, Owner(p, s, i) PROVE FALSE
        OBVIOUS
      <3>1. i <= Len(heap[s]) /\ Len(heap[s]) \in Nat
        BY <2>2, MessagesTyped DEF Owner
      <3>2. pos[t] \in Nat
        BY DEF TypeOK
      <3>3. Behind(t, s, i)
        BY <2>1, <2>2, <3>1, <3>2 DEF Behind
      <3> QED
        BY <2>2, <3>3 DEF PayloadInv, PumpedBehind
    <2>4. MessagesFit' /\ OwnersMatch' /\ \A r \in Storage \ {s} : heap'[r] = heap[r]
      <3>1. PICK P : /\ Submit({s}, P)
                     /\ \A p \in Payloads : p \in P <=> \E r \in {s}, i \in Nat : Owner(p, r, i)
        BY <2>2, <2>3
      <3> QED
        BY <2>2, <3>1, SubmitKeepsOwners DEF PayloadInv
    <2>5. \A r \in Storage : heap'[r] = heap[r] \/ (IsPumped(t) /\ r = CurrentMQ(t).storage)
      BY <2>1, <2>2, <2>4
    <2> QED
      BY <2>1, <2>4, <2>5, RecvPumped DEF Behind, IsPumped
  <1> QED
    BY <1>1, <1>2, <1>3, <1>4, <1>5, <1>6 DEF RecvStep, PumpStep

LEMMA PayloadInvariant ==
  ASSUME ManagedIsTaken
  PROVE  Spec => []PayloadInv
  <1>1. Init => PayloadInv
    <2> SUFFICES ASSUME Init PROVE PayloadInv
      OBVIOUS
    <2>1. /\ \A s \in Storage : Len(heap[s]) = 0 /\ 1..Len(heap[s]) = {}
          /\ live = {}
          /\ \A t \in Threads : recvAt[t] = "idle"
      BY DEF Init, FactoryInit
    <2>2. 0 <= MaxBatch
      BY WiringAssumption
    <2> QED
      BY <2>1, <2>2
      DEF PayloadInv, MessagesFit, OwnersMatch, PumpedBehind, Owner, Behind, IsPumped
  <1>2. TypedControl /\ StorageInv /\ PayloadInv /\ [Next]_vars => PayloadInv'
    <2> SUFFICES ASSUME TypedControl, StorageInv, PayloadInv, [Next]_vars PROVE PayloadInv'
      OBVIOUS
    <2>1. CASE Next
      BY <2>1, ClientKeepsPayloads, SendKeepsPayloads, RecvKeepsPayloads, OwnerKeepsPayloads
      DEF Next
    <2>2. CASE UNCHANGED vars
      <3>1. UNCHANGED <<heap, live, recvAt, pos, queue_>>
        BY <2>2 DEF vars, factoryVars, endpointVars, recvVars
      <3>2. \A u \in Threads : Undisturbed(u)
        BY <3>1 DEF Undisturbed, IsPumped, CurrentMQ
      <3> QED
        BY <3>1, <3>2, HeapUnaffected, UndisturbedBehind DEF PayloadInv, PumpedBehind
    <2> QED
      BY <2>1, <2>2
  <1> QED
    BY <1>1, <1>2, Typed, StorageInvariant, PTL DEF Spec

\* Whatever the threads push, send, pump, throw and destroy, each managed payload
\* is owned by one message until it is deleted: none is deleted twice, and none
\* is left behind.  The code is so as long as nobody pushes to a MessageQueue
\* that was sent (MessageQueue.hpp:136) and every type with a managed payload is
\* one that pump_msgs() takes (MailboxEndpoint.cpp:68-100).
THEOREM PayloadsHaveOneOwner ==
  ASSUME ManagedIsTaken
  PROVE  Spec => []PayloadsOwnedOnce
  <1>1. TypedControl /\ PayloadInv => PayloadsOwnedOnce
    <2> SUFFICES ASSUME TypedControl, PayloadInv, NEW p \in Payloads
                 PROVE  Cardinality(OwnersOf(p)) = IF p \in live THEN 1 ELSE 0
      BY DEF PayloadsOwnedOnce
    <2>1. \A s \in Storage, i \in Nat : Owner(p, s, i) => i \in 1..MaxBatch /\ i <= Len(heap[s])
      <3> SUFFICES ASSUME NEW s \in Storage, NEW i \in Nat, Owner(p, s, i)
                   PROVE  i \in 1..MaxBatch /\ i <= Len(heap[s])
        OBVIOUS
      <3>1. Len(heap[s]) \in Nat /\ Len(heap[s]) <= MaxBatch /\ i \in 1..Len(heap[s])
        BY MessagesTyped DEF TypedControl, PayloadInv, MessagesFit, Owner
      <3> QED
        BY <3>1, WiringAssumption
    <2>2. \A s \in Storage, i \in 1..MaxBatch :
            <<s, i>> \in OwnersOf(p) <=> i \in Nat /\ Owner(p, s, i)
      <3> SUFFICES ASSUME NEW s \in Storage, NEW i \in 1..MaxBatch
                   PROVE  <<s, i>> \in OwnersOf(p) <=> i \in Nat /\ Owner(p, s, i)
        OBVIOUS
      <3>1. Len(heap[s]) \in Nat /\ i \in Nat /\ (i <= Len(heap[s]) <=> i \in 1..Len(heap[s]))
        BY MessagesTyped, WiringAssumption DEF TypedControl
      <3> QED
        BY <3>1 DEF OwnersOf, Owner
    <2>3. \A at \in OwnersOf(p) : \E s \in Storage, i \in 1..MaxBatch : at = <<s, i>>
      BY DEF OwnersOf
    <2>4. CASE p \in live
      <3>1. PICK s \in Storage, i \in Nat : Owner(p, s, i)
        BY <2>4 DEF PayloadInv, OwnersMatch
      <3>2. <<s, i>> \in OwnersOf(p)
        BY <2>1, <2>2, <3>1
      <3>3. \A at \in OwnersOf(p) : at = <<s, i>>
        BY <2>2, <2>3, <2>4, <3>1 DEF PayloadInv, OwnersMatch
      <3>4. OwnersOf(p) = {<<s, i>>}
        BY <3>2, <3>3
      <3> QED
        BY <2>4, <3>4, FS_Singleton
    <2>5. CASE p \notin live
      <3>1. OwnersOf(p) = {}
        BY <2>2, <2>3, <2>5 DEF PayloadInv, OwnersMatch
      <3> QED
        BY <2>5, <3>1, FS_EmptySet
    <2> QED
      BY <2>4, <2>5
  <1> QED
    BY <1>1, Typed, PayloadInvariant, PTL

-----------------------------------------------------------------------------
(* What a callback is given. *)

Emptied(s, i) == heap[s][i].managed /\ heap[s][i].payload = 0

\* Nothing new is emptied, and what was is still behind somebody.
LEMMA EmptiedUnaffected ==
  ASSUME EmptiedBehind,
         \A s \in Storage : \A i \in 1..Len(heap'[s]) : Emptied(s, i)' =>
           /\ i \in 1..Len(heap[s]) /\ Emptied(s, i)
           /\ \A u \in Threads : Behind(u, s, i) => Behind(u, s, i)'
  PROVE  EmptiedBehind'
  BY DEF EmptiedBehind, Emptied

LEMMA UndisturbedStaysBehind ==
  ASSUME NEW u, Undisturbed(u), NEW s, NEW i, Behind(u, s, i)
  PROVE  Behind(u, s, i)'
  BY DEF Undisturbed, Behind

LEMMA ClientKeepsEmptied ==
  ASSUME TypedControl, StorageInv, PayloadInv, EmptiedBehind, NEW t \in Threads, ClientStep(t)
  PROVE  EmptiedBehind'
  <1> USE DEF TypedControl
  <1>1. \A u \in Threads : \A s, i : Behind(u, s, i) => Behind(u, s, i)'
    BY ClientDisturbsNobody, UndisturbedStaysBehind
  <1>2. CASE GetMQ(t) \/ SealMQ(t) \/ PushManagedSealed(t)
    BY <1>1, <1>2, EmptiedUnaffected
    DEF GetMQ, Get, SealMQ, PushManagedSealed, factoryVars, Emptied
  <1>3. ASSUME NEW msg \in Message, Push(t, msg), msg.managed => msg.payload # 0
        PROVE  EmptiedBehind'
    <2>1. PICK s \in Storage : PushTo(s, msg)
      BY <1>3 DEF Push, TypeOK, Handle
    <2>2. /\ Len(heap'[s]) = Len(heap[s]) + 1 /\ Len(heap[s]) \in Nat
          /\ \A i \in 1..Len(heap[s]) : heap'[s][i] = heap[s][i]
          /\ heap'[s][Len(heap[s]) + 1] = msg
          /\ \A r \in Storage \ {s} : heap'[r] = heap[r]
      BY <2>1, PushChangesOwners
    <2>3. ASSUME NEW r \in Storage, NEW i \in 1..Len(heap'[r]), Emptied(r, i)'
          PROVE  i \in 1..Len(heap[r]) /\ Emptied(r, i)
      <3>1. CASE r # s
        BY <2>2, <2>3, <3>1 DEF Emptied
      <3>2. CASE r = s
        <4>1. i # Len(heap[s]) + 1
          BY <1>3, <2>2, <2>3, <3>2 DEF Emptied
        <4>2. i \in 1..Len(heap[s])
          BY <2>2, <3>2, <4>1
        <4> QED
          BY <2>2, <2>3, <3>2, <4>2 DEF Emptied
      <3> QED
        BY <3>1, <3>2
    <2> QED
      BY <1>1, <2>3, EmptiedUnaffected
  <1>4. CASE PushTrivial(t)
    <2>1. PICK type \in TrivialTypes : Push(t, TrivialMessage(type))
      BY <1>4 DEF PushTrivial
    <2>2. TrivialMessage(type) \in Message
      BY PushedMessagesAreMessages
    <2> QED
      BY <1>3, <2>1, <2>2 DEF TrivialMessage
  <1>5. CASE PushManaged(t)
    <2>1. PICK type \in ManagedTypes, p \in Payloads \ live : Push(t, ManagedMessage(type, p))
      BY <1>5 DEF PushManaged
    <2>2. ManagedMessage(type, p) \in Message
      BY PushedMessagesAreMessages
    <2> QED
      BY <1>3, <2>1, <2>2, NullPayloadAssumption DEF ManagedMessage
  <1>6. CASE AbandonMQ(t)
    <2>1. \A r \in Storage : heap'[r] = heap[r] \/ heap'[r] = <<>>
      BY <1>6 DEF AbandonMQ, Submit
    <2>2. \A r \in Storage : \A i \in 1..Len(heap'[r]) : heap'[r] = heap[r]
      BY <2>1
    <2> QED
      BY <1>1, <2>2, EmptiedUnaffected DEF Emptied
  <1> QED
    BY <1>2, <1>4, <1>5, <1>6 DEF ClientStep

LEMMA SendKeepsEmptied ==
  ASSUME TypedControl, EmptiedBehind, NEW t \in Threads, SendStep(t)
  PROVE  EmptiedBehind'
  <1>1. \A u \in Threads : \A s, i : Behind(u, s, i) => Behind(u, s, i)'
    BY SendDisturbsNobody, UndisturbedStaysBehind
  <1>2. UNCHANGED heap
    BY DEF SendStep, SendSeal, SendPush, SendInvalidate, factoryVars
  <1> QED
    BY <1>1, <1>2, EmptiedUnaffected DEF Emptied

LEMMA OwnerKeepsEmptied ==
  ASSUME TypedControl, EmptiedBehind, NEW mb \in Mailboxes, OwnerStep(mb)
  PROVE  EmptiedBehind'
  <1>1. \A u \in Threads : \A s, i : Behind(u, s, i) => Behind(u, s, i)'
    BY OwnerDisturbsNobody, UndisturbedStaysBehind
  <1>2. \A r \in Storage : heap'[r] = heap[r] \/ heap'[r] = <<>>
    BY DEF OwnerStep, Claim, On, Off, Recreate, Submit, factoryVars
  <1>3. \A r \in Storage : \A i \in 1..Len(heap'[r]) : heap'[r] = heap[r]
    BY <1>2
  <1> QED
    BY <1>1, <1>3, EmptiedUnaffected DEF Emptied

LEMMA RecvKeepsEmptied ==
  ASSUME TypedControl, StorageInv, PayloadInv, EmptiedBehind, Throwers = {},
         NEW t \in Threads, RecvStep(t)
  PROVE  EmptiedBehind'
  <1> USE DEF TypedControl
  <1>1. \A u \in Threads \ {t} : \A s, i : Behind(u, s, i) => Behind(u, s, i)'
    BY RecvDisturbsNobodyElse, UndisturbedStaysBehind
  <1>2. CASE ~IsPumped(t)
    <2>1. RecvCall(t) \/ RecvWait(t) \/ SpuriousWakeup(t) \/ RecvEmpty(t) \/ RecvNonEmpty(t)
          \/ RecvLock(t)
      BY <1>2
      DEF RecvStep, PumpStep, PumpSkip, PumpDrop, PumpCall, PumpDone, CallbackReturn,
          CallbackThrow, Pumping, IsPumped
    <2>2. UNCHANGED heap
      BY <2>1
      DEF RecvCall, RecvWait, SpuriousWakeup, RecvEmpty, RecvNonEmpty, RecvLock, factoryVars
    <2>3. \A s, i : ~Behind(t, s, i)
      BY <1>2 DEF Behind
    <2> QED
      BY <1>1, <2>2, <2>3, EmptiedUnaffected DEF Emptied
  <1>3. CASE PumpSkip(t) \/ PumpCall(t)
    <2>1. UNCHANGED <<heap, queue_>> /\ pos'[t] \in {pos[t], pos[t] + 1} /\ IsPumped(t)'
      BY <1>3
      DEF PumpSkip, PumpCall, Pumping, Advance, Moved, IsPumped, TypeOK, factoryVars,
          endpointVars
    <2>2. ASSUME NEW s, NEW i \in Nat, Behind(t, s, i) PROVE Behind(t, s, i)'
      <3>1. pos[t] \in Nat
        BY DEF TypeOK
      <3>2. i < pos'[t]
        BY <2>1, <2>2, <3>1 DEF Behind
      <3> QED
        BY <2>1, <2>2, <3>2 DEF Behind, CurrentMQ
    <2> QED
      BY <1>1, <2>1, <2>2, EmptiedUnaffected, MessagesTyped DEF Emptied
  <1>4. CASE PumpDrop(t) \/ CallbackReturn(t)
    <2>1. /\ Pumping(t) \/ recvAt[t] = "callback"
          /\ FreeAt(CurrentMQ(t).storage, pos[t])
          /\ UNCHANGED queue_
          /\ pos'[t] = pos[t] + 1 /\ IsPumped(t)'
      BY <1>4
      DEF PumpDrop, CallbackReturn, Advance, Moved, Pumping, IsPumped, TypeOK, endpointVars
    <2>2. PICK s \in Storage : /\ s = CurrentMQ(t).storage
                              /\ IsPumped(t) /\ pos[t] \in 1..Len(heap[s])
      BY <2>1, CurrentIsThere
    <2>3. /\ Len(heap'[s]) = Len(heap[s])
          /\ \A i \in 1..Len(heap[s]) : i # pos[t] => heap'[s][i] = heap[s][i]
          /\ \A r \in Storage \ {s} : heap'[r] = heap[r]
      BY <2>1, <2>2, FreeChangesOwners DEF PayloadInv
    <2>4. ASSUME NEW r, NEW i \in Nat, Behind(t, r, i) \/ (r = s /\ i = pos[t])
          PROVE  Behind(t, r, i)'
      <3>1. pos[t] \in Nat
        BY DEF TypeOK
      <3>2. i < pos'[t] /\ r = s
        BY <2>1, <2>2, <2>4, <3>1 DEF Behind
      <3> QED
        BY <2>1, <2>2, <3>2 DEF Behind, CurrentMQ
    <2> SUFFICES ASSUME NEW r \in Storage, NEW i \in 1..Len(heap'[r]), Emptied(r, i)'
                 PROVE  \E u \in Threads : Behind(u, r, i)'
      BY DEF EmptiedBehind, Emptied
    <2>5. CASE r = s /\ i = pos[t]
      BY <2>4, <2>5
    <2>6. CASE ~(r = s /\ i = pos[t])
      <3>1. i \in 1..Len(heap[r]) /\ Emptied(r, i)
        BY <2>3, <2>6 DEF Emptied
      <3>2. PICK u \in Threads : Behind(u, r, i)
        BY <3>1 DEF EmptiedBehind, Emptied
      <3> QED
        BY <1>1, <2>4, <3>1, <3>2
    <2> QED
      BY <2>5, <2>6
  <1>5. CASE PumpDone(t)
    <2>1. IsPumped(t) /\ CurrentMQ(t).storage \in Storage
      BY <1>5, PumpedIsQueued DEF PumpDone, IsPumped
    <2>2. CurrentMQ(t).valid
      <3>1. /\ Inbox[t] \in Mailboxes
            /\ queue_[Inbox[t]] \in Seq(Handle(Storage)) /\ queue_[Inbox[t]] # <<>>
            /\ 1 \in 1..Len(queue_[Inbox[t]])
        BY <2>1, PumpedIsQueued
      <3>2. CurrentMQ(t) = queue_[Inbox[t]][1]
        BY <3>1 DEF CurrentMQ
      <3> QED
        BY <3>1, <3>2 DEF StorageInv, QueuedReady, Readable
    <2>3. /\ heap'[CurrentMQ(t).storage] = <<>>
          /\ \A r \in Storage : r # CurrentMQ(t).storage => heap'[r] = heap[r]
      BY <1>5, <2>1, <2>2 DEF PumpDone, Submit
    <2>4. ASSUME NEW r \in Storage, NEW i \in 1..Len(heap'[r])
          PROVE  heap'[r] = heap[r] /\ ~Behind(t, r, i)
      <3>1. r # CurrentMQ(t).storage
        BY <2>3, <2>4
      <3> QED
        BY <2>3, <3>1 DEF Behind
    <2> QED
      BY <1>1, <2>4, EmptiedUnaffected DEF Emptied
  <1> QED
    BY <1>2, <1>3, <1>4, <1>5
    DEF RecvStep, PumpStep, CallbackThrow, IsPumped, RecvCall, RecvWait, SpuriousWakeup,
        RecvEmpty, RecvNonEmpty, RecvLock

LEMMA EmptiedInvariant ==
  ASSUME ManagedIsTaken, Throwers = {}
  PROVE  Spec => []EmptiedBehind
  <1>1. Init => EmptiedBehind
    BY DEF Init, FactoryInit, EmptiedBehind
  <1>2. TypedControl /\ StorageInv /\ PayloadInv /\ EmptiedBehind /\ [Next]_vars
          => EmptiedBehind'
    <2> SUFFICES ASSUME TypedControl, StorageInv, PayloadInv, EmptiedBehind, [Next]_vars
                 PROVE  EmptiedBehind'
      OBVIOUS
    <2>1. CASE Next
      BY <2>1, ClientKeepsEmptied, SendKeepsEmptied, RecvKeepsEmptied, OwnerKeepsEmptied
      DEF Next
    <2>2. CASE UNCHANGED vars
      <3>1. UNCHANGED <<heap, recvAt, pos, queue_>>
        BY <2>2 DEF vars, factoryVars, endpointVars, recvVars
      <3> QED
        BY <3>1 DEF EmptiedBehind, Behind, IsPumped, CurrentMQ
    <2> QED
      BY <2>1, <2>2
  <1> QED
    BY <1>1, <1>2, Typed, StorageInvariant, PayloadInvariant, PTL DEF Spec

\* As long as no callback throws, a callback that is given a managed message finds
\* its payload, whatever else is sent, pumped and abandoned meanwhile: the
\* assertions of Message::get_managed_payload hold.  A callback that throws leaves
\* the messages before its own to be pumped again without their payloads.
THEOREM CallbacksFindPayloads ==
  ASSUME ManagedIsTaken, Throwers = {}
  PROVE  Spec => []CallbackHasPayload
  <1>1. TypedControl /\ StorageInv /\ PayloadInv /\ EmptiedBehind => CallbackHasPayload
    <2> SUFFICES ASSUME TypedControl, StorageInv, PayloadInv, EmptiedBehind,
                        NEW t \in Threads, recvAt[t] = "callback", Current(t).managed
                 PROVE  Current(t).payload \in live
      BY DEF CallbackHasPayload
    <2>1. PICK s \in Storage : s = CurrentMQ(t).storage /\ IsPumped(t)
                              /\ pos[t] \in 1..Len(heap[s])
      BY CurrentIsThere
    <2>2. pos[t] \in Nat /\ Current(t) = heap[s][pos[t]] /\ heap[s][pos[t]] \in Message
      BY <2>1, MessagesTyped DEF TypedControl, TypeOK, Current
    <2>3. Current(t).payload # 0
      <3> SUFFICES ASSUME Current(t).payload = 0 PROVE FALSE
        OBVIOUS
      <3>1. PICK u \in Threads : Behind(u, s, pos[t])
        BY <2>1, <2>2 DEF EmptiedBehind
      <3>2. u = t
        BY <2>1, <3>1, PumpersApart DEF Behind
      <3> QED
        BY <2>2, <3>1, <3>2 DEF Behind
    <2>4. Owner(Current(t).payload, s, pos[t]) /\ Current(t).payload \in Payloads
      BY <2>1, <2>2, <2>3 DEF Owner, OwnsPayload, Message
    <2> QED
      BY <2>1, <2>2, <2>4 DEF PayloadInv, OwnersMatch
  <1> QED
    BY <1>1, Typed, StorageInvariant, PayloadInvariant, EmptiedInvariant, PTL

=============================================================================
