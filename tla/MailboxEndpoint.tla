---- MODULE MailboxEndpoint ----
(***************************************************************************)
(* omulator::msg::MailboxEndpoint, used by several threads at once.         *)
(*                                                                         *)
(* A thread runs client code, in which it fetches a MessageQueue, pushes    *)
(* messages and sends it.  A thread with an inbox also calls recv(), which  *)
(* runs client code again, inside a callback and with the mutex of the      *)
(* inbox held.  send() and recv() are split where another thread can run in  *)
(* between; what they do inside the mutex without blocking is one step.     *)
(***************************************************************************)
EXTENDS MessageQueueFactory, FiniteSets

CONSTANTS
  Threads,
  Mailboxes,
  NoThread,
  NoMailbox,
  Inbox,           \* the mailbox whose MailboxReceiver a thread calls, if any
  TopTargets,      \* the mailboxes a thread sends to outside callbacks
  CallbackTargets, \* the mailboxes a thread's callbacks send to
  Behaviors,       \* the RecvBehavior a thread passes to recv()
  Throwers,        \* the threads whose callbacks may throw
  CallbackTypes,   \* the types owners register callbacks for
  SealedPushers,   \* the threads that push to a MessageQueue they have sealed
  MaxBatch         \* bound: messages in one storage

ASSUME ThreadsAssumption ==
  /\ NoThread \notin Threads
  /\ NoMailbox \notin Mailboxes

ASSUME WiringAssumption ==
  /\ Inbox \in [Threads -> Mailboxes \union {NoMailbox}]
  /\ TopTargets \in [Threads -> SUBSET Mailboxes]
  /\ CallbackTargets \in [Threads -> SUBSET Mailboxes]
  /\ Behaviors \in [Threads -> SUBSET {"BLOCK", "NONBLOCK"}]
  /\ Throwers \subseteq Threads
  /\ CallbackTypes \subseteq MsgTypes
  /\ SealedPushers \subseteq Threads
  /\ MaxBatch \in Nat

VARIABLES
  mq,         \* the MessageQueue each thread's client code holds
  queue_,     \* the pending MessageQueues of each mailbox
  callbacks_, \* the types each mailbox has a callback for
  claimed_,   \* whether each mailbox has been claimed
  mtx_,       \* the holder of each mailbox's mutex
  recvAt,     \* where in recv() each thread is
  pos,        \* the message of queue_.front() that pump_msgs has reached
  readEmpty,  \* whether an unlocked queue_.empty() may still return true
  sendAt,     \* where in send() each thread is
  dest        \* the mailbox each thread is sending to

endpointVars == <<queue_, callbacks_, claimed_, mtx_>>
recvVars == <<recvAt, pos, readEmpty>>
sendVars == <<sendAt, dest>>
vars == <<factoryVars, mq, endpointVars, recvVars, sendVars>>

TypeOK ==
  /\ FactoryTypeOK
  /\ mq \in [Threads -> Handle(Storage)]
  /\ queue_ \in [Mailboxes -> Seq(Handle(Storage))]
  /\ callbacks_ \in [Mailboxes -> SUBSET MsgTypes]
  /\ claimed_ \in [Mailboxes -> BOOLEAN]
  /\ mtx_ \in [Mailboxes -> Threads \union {NoThread}]
  /\ recvAt \in [Threads -> {"idle", "wait", "asleep", "check", "lock",
                             "pump", "callback", "undefined"}]
  /\ pos \in [Threads -> Nat \ {0}]
  /\ readEmpty \in [Threads -> BOOLEAN]
  /\ sendAt \in [Threads -> {"idle", "sealed", "pushed"}]
  /\ dest \in [Threads -> Mailboxes \union {NoMailbox}]

\* A thread starts without a MessageQueue: its handle is an invalid one.
Init ==
  /\ FactoryInit
  /\ mq = [t \in Threads |-> MarkInvalid(NewHandle(1))]
  /\ queue_ = [mb \in Mailboxes |-> <<>>]
  /\ callbacks_ = [mb \in Mailboxes |-> {}]
  /\ claimed_ = [mb \in Mailboxes |-> FALSE]
  /\ mtx_ = [mb \in Mailboxes |-> NoThread]
  /\ recvAt = [t \in Threads |-> "idle"]
  /\ pos = [t \in Threads |-> 1]
  /\ readEmpty = [t \in Threads |-> TRUE]
  /\ sendAt = [t \in Threads |-> "idle"]
  /\ dest = [t \in Threads |-> NoMailbox]

InClientCode(t) == recvAt[t] \in {"idle", "callback"} /\ sendAt[t] = "idle"

\* Mutation: the wiring lets a callback answer to the mailbox it runs for.
TargetsWithSelf(t) ==
  IF recvAt[t] = "callback" THEN CallbackTargets[t] \union {Inbox[t]}
  ELSE TopTargets[t]

Targets(t) ==
  IF recvAt[t] = "callback" THEN CallbackTargets[t] ELSE TopTargets[t]

Free(mb) == mtx_[mb] = NoThread

-----------------------------------------------------------------------------
(* What client code does with its MessageQueue.  A call that the code       *)
(* rejects with an error message changes nothing, so it is no step, with one *)
(* exception, PushManagedSealed.                                            *)

\* get_mq(), once the last MessageQueue has been handed over.
GetMQ(t) ==
  /\ InClientCode(t)
  /\ ~mq[t].valid
  /\ Targets(t) # {}
  /\ \E s \in Storage : Get(s) /\ mq' = [mq EXCEPT ![t] = NewHandle(s)]
  /\ UNCHANGED <<endpointVars, recvVars, sendVars>>

Push(t, msg) ==
  /\ InClientCode(t)
  /\ Writable(mq[t])
  /\ Len(heap[mq[t].storage]) < MaxBatch
  /\ PushTo(mq[t].storage, msg)
  /\ UNCHANGED <<mq, endpointVars, recvVars, sendVars>>

PushTrivial(t) == \E type \in TrivialTypes : Push(t, TrivialMessage(type))

PushManaged(t) ==
  \E type \in ManagedTypes, p \in Payloads \ live :
    Push(t, ManagedMessage(type, p))

\* seal() called by the client, after which send() refuses the MessageQueue.
SealMQ(t) ==
  /\ InClientCode(t)
  /\ Writable(mq[t])
  /\ mq' = [mq EXCEPT ![t] = Seal(@)]
  /\ UNCHANGED <<factoryVars, endpointVars, recvVars, sendVars>>

\* push_managed_payload() on a sealed MessageQueue: the container is allocated,
\* and then push() refuses the message that would have owned it.
PushManagedSealed(t) ==
  /\ t \in SealedPushers
  /\ InClientCode(t)
  /\ Readable(mq[t])
  /\ ManagedTypes # {}
  /\ \E p \in Payloads \ live : live' = live \union {p}
  /\ UNCHANGED <<heap, numActiveQueues_, cQueue, mq, endpointVars, recvVars,
                 sendVars>>

\* clear() and MessageQueueFactory::submit(): how a MessageQueue that will not
\* be sent goes back to the pool.
AbandonMQ(t) ==
  /\ InClientCode(t)
  /\ mq[t].valid
  /\ Submit({mq[t].storage}, PayloadsOf(heap[mq[t].storage]))
  /\ mq' = [mq EXCEPT ![t] = MarkInvalid(Seal(@))]
  /\ UNCHANGED <<endpointVars, recvVars, sendVars>>

-----------------------------------------------------------------------------
(* send(): up to the mutex, inside it, and after it. *)

SendSeal(t) ==
  /\ InClientCode(t)
  /\ Writable(mq[t])
  /\ \E mb \in Targets(t) : dest' = [dest EXCEPT ![t] = mb]
  /\ mq' = [mq EXCEPT ![t] = Seal(@)]
  /\ sendAt' = [sendAt EXCEPT ![t] = "sealed"]
  /\ UNCHANGED <<factoryVars, endpointVars, recvVars>>

\* notify_all() makes every thread asleep on the mailbox compete for the mutex.
Awake(mb) ==
  [t \in Threads |->
     IF recvAt[t] = "asleep" /\ Inbox[t] = mb THEN "wait" ELSE recvAt[t]]

\* Mutation: send() does not notify the condition variable.
SendPushSilently(t) ==
  /\ sendAt[t] = "sealed"
  /\ Free(dest[t])
  /\ queue_' = [queue_ EXCEPT ![dest[t]] = Append(@, mq[t])]
  /\ sendAt' = [sendAt EXCEPT ![t] = "pushed"]
  /\ UNCHANGED <<factoryVars, mq, callbacks_, claimed_, mtx_, recvVars, dest>>

SendPush(t) ==
  LET mb == dest[t]
  IN /\ sendAt[t] = "sealed"
     /\ Free(mb)
     /\ queue_' = [queue_ EXCEPT ![mb] = Append(@, mq[t])]
     /\ recvAt' = Awake(mb)
     /\ sendAt' = [sendAt EXCEPT ![t] = "pushed"]
     /\ UNCHANGED <<factoryVars, mq, callbacks_, claimed_, mtx_, pos,
                    readEmpty, dest>>

\* Mutation: send() leaves the copied-from handle valid.
SendKeepsHandle(t) ==
  /\ sendAt[t] = "pushed"
  /\ sendAt' = [sendAt EXCEPT ![t] = "idle"]
  /\ dest' = [dest EXCEPT ![t] = NoMailbox]
  /\ UNCHANGED <<factoryVars, mq, endpointVars, recvVars>>

SendInvalidate(t) ==
  /\ sendAt[t] = "pushed"
  /\ mq' = [mq EXCEPT ![t] = MarkInvalid(@)]
  /\ sendAt' = [sendAt EXCEPT ![t] = "idle"]
  /\ dest' = [dest EXCEPT ![t] = NoMailbox]
  /\ UNCHANGED <<factoryVars, endpointVars, recvVars>>

-----------------------------------------------------------------------------
(* recv() *)

Moved(t, to) == recvAt' = [recvAt EXCEPT ![t] = to]

RecvCall(t) ==
  /\ recvAt[t] = "idle"
  /\ sendAt[t] = "idle"
  /\ Inbox[t] # NoMailbox
  /\ claimed_[Inbox[t]]
  /\ \/ "BLOCK" \in Behaviors[t] /\ Moved(t, "wait")
     \/ "NONBLOCK" \in Behaviors[t] /\ Moved(t, "check")
  /\ UNCHANGED <<factoryVars, mq, endpointVars, pos, readEmpty, sendVars>>

\* Mutation: cv_.wait without a predicate sleeps although messages are pending.
RecvWaitBlindly(t) ==
  /\ recvAt[t] = "wait"
  /\ Free(Inbox[t])
  /\ Moved(t, "asleep")
  /\ UNCHANGED <<factoryVars, mq, endpointVars, pos, readEmpty, sendVars>>

\* cv_.wait: with the mutex, evaluate the predicate, then leave or sleep.
RecvWait(t) ==
  LET empty == queue_[Inbox[t]] = <<>>
  IN /\ recvAt[t] = "wait"
     /\ Free(Inbox[t])
     /\ Moved(t, IF empty THEN "asleep" ELSE "check")
     /\ readEmpty' = [readEmpty EXCEPT ![t] = empty]
     /\ UNCHANGED <<factoryVars, mq, endpointVars, pos, sendVars>>

\* A condition variable may also wake up for no reason.
SpuriousWakeup(t) ==
  /\ recvAt[t] = "asleep"
  /\ Moved(t, "wait")
  /\ UNCHANGED <<factoryVars, mq, endpointVars, pos, readEmpty, sendVars>>

\* queue_.empty() without the mutex.  It races with queue_.push() in send():
\* the thread may read the queue as it is now or, until it has synchronized
\* with the sender, as it was when the thread last had the mutex.
RecvEmpty(t) ==
  /\ recvAt[t] = "check"
  /\ queue_[Inbox[t]] = <<>> \/ readEmpty[t]
  /\ Moved(t, "idle")
  /\ UNCHANGED <<factoryVars, mq, endpointVars, pos, readEmpty, sendVars>>

\* Mutation: the first iteration of recv()'s loop takes the front unchecked.
RecvUnchecked(t) ==
  /\ recvAt[t] = "check"
  /\ Moved(t, "lock")
  /\ UNCHANGED <<factoryVars, mq, endpointVars, pos, readEmpty, sendVars>>

RecvNonEmpty(t) ==
  /\ recvAt[t] = "check"
  /\ queue_[Inbox[t]] # <<>>
  /\ Moved(t, "lock")
  /\ UNCHANGED <<factoryVars, mq, endpointVars, pos, readEmpty, sendVars>>

\* The mutex, and queue_.front(), which is undefined on an empty queue.  A
\* MessageQueue that pump_msgs rejects is one it reaches no message of.
RecvLock(t) ==
  LET q == queue_[Inbox[t]]
  IN /\ recvAt[t] = "lock"
     /\ Free(Inbox[t])
     /\ mtx_' = [mtx_ EXCEPT ![Inbox[t]] = t]
     /\ IF q = <<>>
        THEN Moved(t, "undefined") /\ UNCHANGED pos
        ELSE /\ Moved(t, "pump")
             /\ pos' = [pos EXCEPT ![t] =
                          IF Readable(Head(q)) THEN 1
                          ELSE Len(heap[Head(q).storage]) + 1]
     /\ UNCHANGED <<factoryVars, mq, queue_, callbacks_, claimed_, readEmpty,
                    sendVars>>

CurrentMQ(t) == Head(queue_[Inbox[t]])
Current(t)   == heap[CurrentMQ(t).storage][pos[t]]
Pumping(t)   == recvAt[t] = "pump" /\ pos[t] <= Len(heap[CurrentMQ(t).storage])
Advance(t)   == pos' = [pos EXCEPT ![t] = @ + 1]

\* MSG_NULL, or a type that exceeds MSG_MAX.
PumpSkip(t) ==
  /\ Pumping(t)
  /\ Skipped(Current(t))
  /\ Advance(t)
  /\ UNCHANGED <<factoryVars, mq, endpointVars, recvAt, readEmpty, sendVars>>

\* Mutation: a message that no callback takes keeps its payload.
PumpDropOnly(t) ==
  /\ Pumping(t)
  /\ ~Skipped(Current(t))
  /\ Current(t).type \notin callbacks_[Inbox[t]]
  /\ Advance(t)
  /\ UNCHANGED <<factoryVars, mq, endpointVars, recvAt, readEmpty, sendVars>>

\* No callback is registered: the message is dropped, and its payload freed.
PumpDrop(t) ==
  /\ Pumping(t)
  /\ ~Skipped(Current(t))
  /\ Current(t).type \notin callbacks_[Inbox[t]]
  /\ FreeAt(CurrentMQ(t).storage, pos[t])
  /\ Advance(t)
  /\ UNCHANGED <<mq, endpointVars, recvAt, readEmpty, sendVars>>

\* Mutation: the payload is freed before the callback is called.
PumpFreeCall(t) ==
  /\ Pumping(t)
  /\ ~Skipped(Current(t))
  /\ Current(t).type \in callbacks_[Inbox[t]]
  /\ FreeAt(CurrentMQ(t).storage, pos[t])
  /\ Moved(t, "callback")
  /\ UNCHANGED <<mq, endpointVars, pos, readEmpty, sendVars>>

PumpCall(t) ==
  /\ Pumping(t)
  /\ ~Skipped(Current(t))
  /\ Current(t).type \in callbacks_[Inbox[t]]
  /\ Moved(t, "callback")
  /\ UNCHANGED <<factoryVars, mq, endpointVars, pos, readEmpty, sendVars>>

CallbackReturn(t) ==
  /\ recvAt[t] = "callback"
  /\ sendAt[t] = "idle"
  /\ FreeAt(CurrentMQ(t).storage, pos[t])
  /\ Moved(t, "pump")
  /\ Advance(t)
  /\ UNCHANGED <<mq, endpointVars, readEmpty, sendVars>>

\* An exception unwinds pump_msgs and recv: the mutex is released, and the
\* MessageQueue stays at the front with the messages already handled in it.
CallbackThrow(t) ==
  /\ t \in Throwers
  /\ recvAt[t] = "callback"
  /\ sendAt[t] = "idle"
  /\ mtx_' = [mtx_ EXCEPT ![Inbox[t]] = NoThread]
  /\ Moved(t, "idle")
  /\ readEmpty' = [readEmpty EXCEPT ![t] = FALSE]
  /\ UNCHANGED <<factoryVars, mq, queue_, callbacks_, claimed_, pos, sendVars>>

\* Mutations: pop without submit; the mutex held beyond the iteration; and an
\* iteration that leaves the index before the first message.
PumpFinish(t, submitted, holder, index) ==
  LET mb == Inbox[t]
  IN /\ recvAt[t] = "pump"
     /\ pos[t] > Len(heap[CurrentMQ(t).storage])
     /\ Submit(submitted, {})
     /\ queue_' = [queue_ EXCEPT ![mb] = Tail(@)]
     /\ mtx_' = [mtx_ EXCEPT ![mb] = holder]
     /\ readEmpty' = [readEmpty EXCEPT ![t] = Len(queue_[mb]) = 1]
     /\ pos' = [pos EXCEPT ![t] = index]
     /\ Moved(t, "check")
     /\ UNCHANGED <<mq, callbacks_, claimed_, sendVars>>

PumpDoneUnsubmitted(t) == PumpFinish(t, {}, NoThread, 1)
PumpDoneLocked(t)      == PumpFinish(t, {CurrentMQ(t).storage}, t, 1)
PumpDoneAtZero(t)      == PumpFinish(t, {CurrentMQ(t).storage}, NoThread, 0)

\* submit, pop, and the end of the scope that holds the mutex.
PumpDone(t) ==
  LET mb == Inbox[t]
  IN /\ recvAt[t] = "pump"
     /\ pos[t] > Len(heap[CurrentMQ(t).storage])
     /\ Submit(IF CurrentMQ(t).valid THEN {CurrentMQ(t).storage} ELSE {}, {})
     /\ queue_' = [queue_ EXCEPT ![mb] = Tail(@)]
     /\ mtx_' = [mtx_ EXCEPT ![mb] = NoThread]
     /\ readEmpty' = [readEmpty EXCEPT ![t] = Len(queue_[mb]) = 1]
     /\ pos' = [pos EXCEPT ![t] = 1]
     /\ Moved(t, "check")
     /\ UNCHANGED <<mq, callbacks_, claimed_, sendVars>>

-----------------------------------------------------------------------------
(* The calls of the owner of a mailbox. *)

\* MailboxRouter::claim_mailbox(), whose exception on a second claim is no step.
Claim(mb) ==
  /\ ~claimed_[mb]
  /\ claimed_' = [claimed_ EXCEPT ![mb] = TRUE]
  /\ UNCHANGED <<factoryVars, mq, queue_, callbacks_, mtx_, recvVars, sendVars>>

On(mb, type) ==
  /\ claimed_[mb]
  /\ Free(mb)
  /\ type \notin callbacks_[mb]
  /\ callbacks_' = [callbacks_ EXCEPT ![mb] = @ \union {type}]
  /\ UNCHANGED <<factoryVars, mq, queue_, claimed_, mtx_, recvVars, sendVars>>

Off(mb, type) ==
  /\ Free(mb)
  /\ type \in callbacks_[mb]
  /\ callbacks_' = [callbacks_ EXCEPT ![mb] = @ \ {type}]
  /\ UNCHANGED <<factoryVars, mq, queue_, claimed_, mtx_, recvVars, sendVars>>

\* ~MailboxEndpoint() once no thread is using the mailbox, and the constructor
\* of a new one in its place.
Pending(mb) == {queue_[mb][i].storage : i \in 1..Len(queue_[mb])}

Recreate(mb) ==
  /\ claimed_[mb]
  /\ \A t \in Threads :
       /\ Inbox[t] = mb => recvAt[t] = "idle"
       /\ dest[t] # mb
  /\ Submit(Pending(mb), UNION {PayloadsOf(heap[s]) : s \in Pending(mb)})
  /\ queue_' = [queue_ EXCEPT ![mb] = <<>>]
  /\ callbacks_' = [callbacks_ EXCEPT ![mb] = {}]
  /\ claimed_' = [claimed_ EXCEPT ![mb] = FALSE]
  /\ readEmpty' = [t \in Threads |-> readEmpty[t] \/ Inbox[t] = mb]
  /\ UNCHANGED <<mq, mtx_, recvAt, pos, sendVars>>

-----------------------------------------------------------------------------
ClientStep(t) ==
  \/ GetMQ(t)
  \/ PushTrivial(t)
  \/ PushManaged(t)
  \/ SealMQ(t)
  \/ PushManagedSealed(t)
  \/ AbandonMQ(t)

SendStep(t) ==
  \/ SendSeal(t)
  \/ SendPush(t)
  \/ SendInvalidate(t)

PumpStep(t) ==
  \/ PumpSkip(t)
  \/ PumpDrop(t)
  \/ PumpCall(t)
  \/ PumpDone(t)

RecvStep(t) ==
  \/ RecvCall(t)
  \/ RecvWait(t)
  \/ SpuriousWakeup(t)
  \/ RecvEmpty(t)
  \/ RecvNonEmpty(t)
  \/ RecvLock(t)
  \/ PumpStep(t)
  \/ CallbackReturn(t)
  \/ CallbackThrow(t)

OwnerStep(mb) ==
  \/ Claim(mb)
  \/ \E type \in CallbackTypes : On(mb, type) \/ Off(mb, type)
  \/ Recreate(mb)

Next ==
  \/ \E t \in Threads : ClientStep(t) \/ SendStep(t) \/ RecvStep(t)
  \/ \E mb \in Mailboxes : OwnerStep(mb)

Spec == Init /\ [][Next]_vars

\* What a thread does inside send() and recv() outside its callbacks.  At most
\* one kind of these steps is enabled at a time.
Progress(t) ==
  \/ SendPush(t)
  \/ SendInvalidate(t)
  \/ RecvWait(t)
  \/ RecvEmpty(t)
  \/ RecvNonEmpty(t)
  \/ RecvLock(t)
  \/ PumpStep(t)

\* A thread inside send() or recv() keeps running, a mailbox is claimed by its
\* owner, which keeps calling recv(), and a callback that can return does so in
\* the end.  Fairness is strong because a thread competes for mutexes (std::mutex
\* does not promise this; the schedulers of the platforms provide it), because
\* client code sends between two calls of recv() and within a callback, and
\* because an unlocked empty() sees the store of another thread in the end.
Fairness ==
  /\ \A t \in Threads : SF_vars(Progress(t))
  /\ \A t \in {u \in Threads : Inbox[u] # NoMailbox} :
       /\ SF_vars(RecvCall(t))
       /\ SF_vars(RecvNonEmpty(t))
       /\ SF_vars(CallbackReturn(t))
  /\ \A mb \in Mailboxes : WF_vars(Claim(mb))

FairSpec == Spec /\ Fairness

-----------------------------------------------------------------------------
(* Where a storage can be. *)

\* t's client code, or its send() up to the push, may use the storage s.
Holds(t, s) ==
  /\ mq[t].valid
  /\ mq[t].storage = s
  /\ sendAt[t] # "pushed"

QueuedAt(mb, i, s) == i \in 1..Len(queue_[mb]) /\ queue_[mb][i].storage = s

Queued(s) ==
  \E mb \in Mailboxes : \E i \in 1..Len(queue_[mb]) : QueuedAt(mb, i, s)

\* A storage has at most one owner: it is in the pool once, or one thread holds
\* it, or it is at one place of one mailbox.  MessageQueue.hpp:54-59 warns what
\* happens otherwise: a copied-from handle that is used, or submitted, again.
NoStorageAliased ==
  \A s \in Storage :
    /\ cQueue[s] \in {0, 1}
    /\ \A t \in Threads : Holds(t, s) =>
         /\ cQueue[s] = 0
         /\ \A u \in Threads : Holds(u, s) => u = t
    /\ \A mb \in Mailboxes : \A i \in 1..Len(queue_[mb]) : QueuedAt(mb, i, s) =>
         /\ cQueue[s] = 0
         /\ \A t \in Threads : ~Holds(t, s)
         /\ \A nb \in Mailboxes : \A j \in 1..Len(queue_[nb]) :
              QueuedAt(nb, j, s) => nb = mb /\ j = i

\* Every storage that was allocated still has an owner, so that the factory's
\* destructor finds numActiveQueues_ storages in the pool once every thread
\* has given back what it holds and every mailbox is gone.
NoStorageLeaked ==
  \A s \in Storage : s <= numActiveQueues_ =>
    cQueue[s] > 0 \/ (\E t \in Threads : Holds(t, s)) \/ Queued(s)

\* The places of the messages that own the container p.
OwnersOf(p) ==
  {at \in Storage \X (1..MaxBatch) :
     /\ at[2] <= Len(heap[at[1]])
     /\ OwnsPayload(heap[at[1]][at[2]])
     /\ heap[at[1]][at[2]].payload = p}

\* A managed payload is deleted exactly once: a container that is alive is owned
\* by one message, and no message owns a container that has been deleted.
PayloadsOwnedOnce ==
  \A p \in Payloads : Cardinality(OwnersOf(p)) = IF p \in live THEN 1 ELSE 0

\* recv() never takes the front of an empty queue (MailboxEndpoint.cpp:64-71).
NoUndefinedFront == \A t \in Threads : recvAt[t] # "undefined"

\* No lost wakeup: a receiver asleep on the condition variable has an empty
\* mailbox (MailboxEndpoint.cpp:58-61, 108-111).
NoLostWakeup ==
  \A t \in Threads : recvAt[t] = "asleep" => queue_[Inbox[t]] = <<>>

\* A callback given a managed message can read its payload: the assertions of
\* Message::get_managed_payload hold.
CallbackHasPayload ==
  \A t \in Threads :
    recvAt[t] = "callback" /\ Current(t).managed => Current(t).payload \in live

\* A MessageQueue that was sent is processed in the end, whatever else the
\* senders and the other mailboxes do.
EveryQueueIsPumped ==
  \A s \in Storage, mb \in Mailboxes :
    s \in Pending(mb) ~> s \notin Pending(mb)

\* Every send() returns: no sender waits forever for a mutex that a thread in
\* a callback holds while it waits itself.
EverySendReturns ==
  \A t \in Threads : sendAt[t] = "sealed" ~> sendAt[t] = "idle"
=============================================================================
