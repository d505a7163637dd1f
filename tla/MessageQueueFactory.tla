---- MODULE MessageQueueFactory ----
(***************************************************************************)
(* omulator::msg::MessageQueueFactory: the pool of storage vectors behind   *)
(* the MessageQueue handles, and the heap of managed payloads the messages  *)
(* in them point to.                                                        *)
(*                                                                         *)
(* The pool is a moodycamel::ConcurrentQueue.  It is linearizable but keeps *)
(* no order between elements of different producers, so it is a bag, and a  *)
(* dequeue may take any element of it.  It is a bag and not a set because    *)
(* nothing in submit() itself stops a storage from being enqueued twice.    *)
(*                                                                         *)
(* This module has no next-state relation of its own: its operators are the *)
(* parts of the actions of the threads that call get() and submit().        *)
(***************************************************************************)
EXTENDS MessageQueue

CONSTANTS MaxStorages  \* bound: storages the factory may allocate

ASSUME MaxStoragesAssumption == MaxStorages \in Nat \ {0}

VARIABLES
  heap,              \* Storage_t::storage of every storage
  numActiveQueues_,  \* storages 1..numActiveQueues_ have been allocated
  cQueue,            \* the pool: how often each storage is in it
  live               \* the TypeContainers that have not been deleted

factoryVars == <<heap, numActiveQueues_, cQueue, live>>

Storage == 1..MaxStorages

FactoryTypeOK ==
  /\ heap \in [Storage -> Seq(Message)]
  /\ numActiveQueues_ \in 0..MaxStorages
  /\ cQueue \in [Storage -> Nat]
  /\ live \subseteq Payloads

FactoryInit ==
  /\ heap = [s \in Storage |-> <<>>]
  /\ numActiveQueues_ = 0
  /\ cQueue = [s \in Storage |-> 0]
  /\ live = {}

\* get(): s is an element of the pool or, when try_dequeue fails, a freshly
\* allocated storage.  try_dequeue may fail on a pool that is not empty, when
\* what another thread has enqueued is not visible yet.
Get(s) ==
  /\ \/ /\ cQueue[s] > 0
        /\ cQueue' = [cQueue EXCEPT ![s] = @ - 1]
        /\ UNCHANGED numActiveQueues_
     \/ /\ s = numActiveQueues_ + 1
        /\ numActiveQueues_' = s
        /\ UNCHANGED cQueue
  /\ UNCHANGED <<heap, live>>

\* Mutation: submit() enqueues the storage with the old messages in it.
SubmitUncleared(S, P) ==
  /\ cQueue' = [s \in Storage |-> IF s \in S THEN cQueue[s] + 1 ELSE cQueue[s]]
  /\ live' = live \ P
  /\ UNCHANGED <<heap, numActiveQueues_>>

\* submit() of the valid handles on the storages S, after the payloads P have
\* been freed: release(), storage.clear(), enqueue.  submit() of an invalid
\* handle only logs, so callers pass the storages of valid handles.
Submit(S, P) ==
  /\ heap' = [s \in Storage |-> IF s \in S THEN <<>> ELSE heap[s]]
  /\ cQueue' = [s \in Storage |-> IF s \in S THEN cQueue[s] + 1 ELSE cQueue[s]]
  /\ live' = live \ P
  /\ UNCHANGED numActiveQueues_

\* push(type, mflags, payload) through a handle on s, and the allocation of the
\* container when it comes from push_managed_payload().
PushTo(s, msg) ==
  /\ heap' = [heap EXCEPT ![s] = Append(@, msg)]
  /\ live' = IF OwnsPayload(msg) THEN live \union {msg.payload} ELSE live
  /\ UNCHANGED <<numActiveQueues_, cQueue>>

\* free_managed_payload_ on the i-th message of s, when it has one.
FreeAt(s, i) ==
  /\ heap' = [heap EXCEPT ![s][i] = IF @.managed THEN Freed(@) ELSE @]
  /\ live' = live \ {heap[s][i].payload}
  /\ UNCHANGED <<numActiveQueues_, cQueue>>
=============================================================================
