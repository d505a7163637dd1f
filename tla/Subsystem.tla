---- MODULE Subsystem ----
(***************************************************************************)
(* omulator::Subsystem: a thread that serves a mailbox, from construction   *)
(* to the join in the destructor.  The owner constructs the Subsystem, and  *)
(* with it the derived class, starts it, and destroys it; other threads     *)
(* send to the mailbox all the while.  The mailbox is a MailboxEndpoint in   *)
(* full: recv() and the sending of the final POKE interleave with the rest. *)
(***************************************************************************)
EXTENDS MailboxEndpoint

CONSTANTS
  worker,  \* thrd_
  owner,   \* the thread that constructs and destroys the Subsystem
  box,     \* its mailbox
  POKE     \* MessageType::POKE

ASSUME SubsystemAssumption ==
  /\ worker \in Threads /\ owner \in Threads /\ worker # owner
  /\ Inbox[worker] = box
  /\ \A t \in Threads \ {worker} : Inbox[t] = NoMailbox
  /\ TopTargets[owner] = {box}
  /\ Behaviors[worker] = {"BLOCK"}
  /\ POKE \in TrivialTypes

VARIABLES
  ownerAt,        \* where in the life of the Subsystem its owner is
  workerAt,       \* where in thrd_proc_ the thread is
  startSignal_,
  stopRequested,  \* the stop state of thrd_
  derived,        \* the derived class's part of the object
  exited          \* exception_handler has called std::exit

lifeVars == <<ownerAt, workerAt, startSignal_, stopRequested, derived, exited>>
subsystemVars == <<vars, lifeVars>>

SubsystemTypeOK ==
  /\ TypeOK
  /\ ownerAt \in {"none", "base", "built", "stop", "start", "poke", "join",
                  "gone"}
  /\ workerAt \in {"none", "parked", "onStart", "loop", "onEnd", "done"}
  /\ startSignal_ \in BOOLEAN
  /\ stopRequested \in BOOLEAN
  /\ derived \in {"none", "alive", "destroyed"}
  /\ exited \in BOOLEAN

SubsystemInit ==
  /\ Init
  /\ ownerAt = "none"
  /\ workerAt = "none"
  /\ startSignal_ = FALSE
  /\ stopRequested = FALSE
  /\ derived = "none"
  /\ exited = FALSE

\* Nothing happens after std::exit.
Alive == ~exited /\ UNCHANGED exited

SameLife ==
  /\ Alive
  /\ UNCHANGED <<ownerAt, workerAt, startSignal_, stopRequested, derived>>

-----------------------------------------------------------------------------
(* The owner. *)

\* The members of the base class up to thrd_, which starts running.
Construct ==
  /\ ownerAt = "none"
  /\ Claim(box)
  /\ ownerAt' = "base"
  /\ workerAt' = "parked"
  /\ Alive
  /\ UNCHANGED <<startSignal_, stopRequested, derived>>

\* receiver_.on(): POKE in the base class, the rest in the derived class.
Register(type) ==
  /\ ownerAt = "base"
  /\ type # POKE => POKE \in callbacks_[box]
  /\ On(box, type)
  /\ SameLife

\* The constructor of the derived class returns.  Its last statement may have
\* been start(), as in Subsystem_test.cpp, and between that and the return
\* nothing of the object changes.
Complete ==
  /\ ownerAt = "base"
  /\ POKE \in callbacks_[box]
  /\ ownerAt' = "built"
  /\ derived' = "alive"
  /\ startSignal_' \in BOOLEAN
  /\ Alive
  /\ UNCHANGED <<vars, workerAt, stopRequested>>

\* An object whose constructor throws is destroyed as far as it was built, that
\* is, the base class only.

DerivedThrows ==
  /\ ownerAt = "base"
  /\ POKE \in callbacks_[box]
  /\ ownerAt' = "stop"
  /\ Alive
  /\ UNCHANGED <<vars, workerAt, startSignal_, stopRequested, derived>>

\* start() and stop(), called from outside once the object is constructed.
Start ==
  /\ ownerAt = "built"
  /\ startSignal_' = TRUE
  /\ Alive
  /\ UNCHANGED <<vars, ownerAt, workerAt, stopRequested, derived>>

Stop ==
  /\ ownerAt = "built"
  /\ stopRequested' = TRUE
  /\ Alive
  /\ UNCHANGED <<vars, ownerAt, workerAt, startSignal_, derived>>

\* The destructor of the derived class runs before the one of Subsystem.
Destroy ==
  /\ ownerAt = "built"
  /\ ownerAt' = "stop"
  /\ derived' = "destroyed"
  /\ Alive
  /\ UNCHANGED <<vars, workerAt, startSignal_, stopRequested>>

\* Mutation: the destructor does not stop() before it releases the thread.
DtorNoStop ==
  /\ ownerAt = "stop"
  /\ ownerAt' = "start"
  /\ Alive
  /\ UNCHANGED <<vars, workerAt, startSignal_, stopRequested, derived>>

\* ~Subsystem: stop(), start(), the POKE, and the join of the member thrd_.
DtorStop ==
  /\ ownerAt = "stop"
  /\ stopRequested' = TRUE
  /\ ownerAt' = "start"
  /\ Alive
  /\ UNCHANGED <<vars, workerAt, startSignal_, derived>>

DtorStart ==
  /\ ownerAt = "start"
  /\ startSignal_' = TRUE
  /\ ownerAt' = "poke"
  /\ Alive
  /\ UNCHANGED <<vars, workerAt, stopRequested, derived>>

\* Mutation: the destructor does not wake the thread.
DtorNoPoke ==
  /\ ownerAt = "poke"
  /\ ownerAt' = "join"
  /\ Alive
  /\ UNCHANGED <<vars, workerAt, startSignal_, stopRequested, derived>>

\* send_single_message(POKE).
DtorPoke ==
  /\ ownerAt = "poke"
  /\ \/ GetMQ(owner) /\ UNCHANGED ownerAt
     \/ /\ heap[mq[owner].storage] = <<>>
        /\ Push(owner, TrivialMessage(POKE))
        /\ UNCHANGED ownerAt
     \/ /\ heap[mq[owner].storage] # <<>>
        /\ SendSeal(owner)
        /\ UNCHANGED ownerAt
     \/ SendPush(owner) /\ UNCHANGED ownerAt
     \/ SendInvalidate(owner) /\ ownerAt' = "join"
  /\ Alive
  /\ UNCHANGED <<workerAt, startSignal_, stopRequested, derived>>

\* Mutation: the thread is detached, not joined.
Detach ==
  /\ ownerAt = "join"
  /\ ownerAt' = "gone"
  /\ Alive
  /\ UNCHANGED <<vars, workerAt, startSignal_, stopRequested, derived>>

Join ==
  /\ ownerAt = "join"
  /\ workerAt = "done"
  /\ ownerAt' = "gone"
  /\ Alive
  /\ UNCHANGED <<vars, workerAt, startSignal_, stopRequested, derived>>

-----------------------------------------------------------------------------
(* thrd_proc_. *)

WorkerMoves(from, to) ==
  /\ workerAt = from
  /\ workerAt' = to
  /\ Alive
  /\ UNCHANGED <<vars, ownerAt, startSignal_, stopRequested, derived>>

AwaitStart == startSignal_ /\ WorkerMoves("parked", "onStart")
OnStart    == WorkerMoves("onStart", "loop")
LeaveLoop  == recvAt[worker] = "idle" /\ stopRequested /\ WorkerMoves("loop", "onEnd")
OnEnd      == WorkerMoves("onEnd", "done")

\* An iteration of the loop, up to the end of its recv().
LoopRecv ==
  /\ workerAt = "loop"
  /\ ~stopRequested
  /\ RecvCall(worker)
  /\ SameLife

InRecv ==
  /\ \/ RecvWait(worker)
     \/ SpuriousWakeup(worker)
     \/ RecvEmpty(worker)
     \/ RecvNonEmpty(worker)
     \/ RecvLock(worker)
     \/ PumpStep(worker)
     \/ CallbackReturn(worker)
  /\ SameLife

\* An exception in a callback ends the process: std::exit in the catch block.
Exit ==
  /\ CallbackThrow(worker)
  /\ ~exited
  /\ exited' = TRUE
  /\ UNCHANGED <<ownerAt, workerAt, startSignal_, stopRequested, derived>>

-----------------------------------------------------------------------------
OwnerDtor == DtorStop \/ DtorStart \/ DtorPoke \/ Join

OwnerNext ==
  \/ Construct
  \/ \E type \in CallbackTypes : Register(type)
  \/ Complete
  \/ DerivedThrows
  \/ Start
  \/ Stop
  \/ Destroy
  \/ OwnerDtor

WorkerNext ==
  \/ AwaitStart
  \/ OnStart
  \/ LoopRecv
  \/ InRecv
  \/ LeaveLoop
  \/ OnEnd

\* get() never blocks.  For MaxStorages not to make it, a sender does not take
\* the last storage, which the destructor may need.
Available == {s \in Storage : cQueue[s] > 0 \/ s > numActiveQueues_}

SenderClient(t) ==
  /\ ~mq[t].valid => Cardinality(Available) > 1
  /\ ClientStep(t)
  /\ SameLife

SenderSend(t) == SendStep(t) /\ SameLife

SenderNext(t) == SenderClient(t) \/ SenderSend(t)

SubsystemNext ==
  \/ OwnerNext
  \/ WorkerNext
  \/ Exit
  \/ \E t \in Threads \ {owner, worker} : SenderNext(t)

\* A destructor that has begun goes on, and so does the worker.  Both compete
\* with the senders for the mutex, and a sender in send() finishes it.
SubsystemFairness ==
  /\ SF_subsystemVars(OwnerDtor)
  /\ SF_subsystemVars(WorkerNext)
  /\ \A t \in Threads \ {owner, worker} : SF_subsystemVars(SenderSend(t))

SubsystemSpec == SubsystemInit /\ [][SubsystemNext]_subsystemVars
FairSubsystemSpec == SubsystemSpec /\ SubsystemFairness

-----------------------------------------------------------------------------
\* The callbacks of the derived class run on a message other than POKE.
InDerivedCallback ==
  recvAt[worker] = "callback" /\ Current(worker).type # POKE

\* The thread does not receive messages until the derived class is fully
\* constructed, Subsystem.hpp:28-32, even when its constructor throws and
\* ~Subsystem releases the thread: this is why it calls stop() before start().
NoMessageBeforeConstruction == InDerivedCallback => derived # "none"

\* Subsystem.hpp:28-32 also says that the thread does not start running until
\* then, but on that path it runs onStart, which is the derived class's.
NoRunBeforeConstruction == workerAt \in {"onStart", "loop"} => derived # "none"

\* Once the destructor has joined the thread, the thread is out of its mailbox:
\* it does not hold the mutex, and notify_all() of a later send() has no
\* destroyed waiter to wake.
NothingAfterJoin ==
  ownerAt = "gone" => recvAt[worker] = "idle" /\ mtx_[box] # worker

\* The destructor returns: stop(), start() and the POKE wake the thread wherever
\* it is, parked, about to sleep in recv(), asleep or in a callback.  It takes
\* senders that fall silent in the end: recv() returns only when it finds the
\* mailbox empty (MailboxEndpoint.cpp:63-66), so a sender that always has the
\* next MessageQueue there first keeps the thread from ever seeing the stop.
Silent == \A t \in Threads \ {owner, worker} : sendAt[t] = "idle"

DestructorReturns ==
  <>[]Silent => (ownerAt = "stop" ~> (ownerAt = "gone" \/ exited))
=============================================================================
