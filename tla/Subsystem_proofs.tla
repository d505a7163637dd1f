---- MODULE Subsystem_proofs ----
(***************************************************************************)
(* Theorems about Subsystem, for any senders and any number of messages.     *)
(***************************************************************************)
EXTENDS Subsystem, MailboxEndpoint_proofs

LEMMA Wired ==
  /\ worker \in Threads /\ owner \in Threads /\ worker # owner
  /\ box \in Mailboxes /\ Inbox[worker] = box
  /\ \A t \in Threads : Inbox[t] = box => t = worker
  BY SubsystemAssumption, WiringAssumption, ThreadsAssumption

-----------------------------------------------------------------------------
(* A Subsystem uses its mailbox as any client does: what holds of the mailbox   *)
(* for every client holds here.                                               *)

LEMMA LifeStepIsStep ==
  ASSUME SubsystemNext
  PROVE  Next \/ UNCHANGED vars
  <1> USE Wired
  <1>1. ASSUME NEW t \in Threads, ClientStep(t) \/ SendStep(t) \/ RecvStep(t)
        PROVE  Next
    BY <1>1 DEF Next
  <1>2. CASE OwnerNext
    <2>1. CASE Construct
      BY <2>1 DEF Construct, Next, OwnerStep
    <2>2. CASE \E type \in CallbackTypes : Register(type)
      BY <2>2 DEF Register, Next, OwnerStep
    <2>3. CASE DtorPoke
      <3>1. Push(owner, TrivialMessage(POKE)) => PushTrivial(owner)
        BY SubsystemAssumption DEF PushTrivial
      <3> QED
        BY <1>1, <2>3, <3>1 DEF DtorPoke, ClientStep, SendStep
    <2>4. CASE \/ Complete \/ DerivedThrows \/ Start \/ Stop \/ Destroy
               \/ DtorStop \/ DtorStart \/ Join
      BY <2>4 DEF Complete, DerivedThrows, Start, Stop, Destroy, DtorStop, DtorStart, Join
    <2> QED
      BY <1>2, <2>1, <2>2, <2>3, <2>4 DEF OwnerNext, OwnerDtor
  <1>3. CASE WorkerNext
    BY <1>1, <1>3
    DEF WorkerNext, AwaitStart, OnStart, LoopRecv, InRecv, LeaveLoop, OnEnd, WorkerMoves, RecvStep
  <1>4. CASE Exit
    BY <1>1, <1>4 DEF Exit, RecvStep
  <1>5. CASE \E t \in Threads \ {owner, worker} : SenderNext(t)
    BY <1>1, <1>5 DEF SenderNext, SenderClient, SenderSend
  <1> QED
    BY <1>2, <1>3, <1>4, <1>5 DEF SubsystemNext

\* A Subsystem, its owner and the threads that send to it are clients of one
\* MailboxEndpoint: every theorem about Spec is one about SubsystemSpec.
THEOREM SubsystemIsClient == SubsystemSpec => Spec
  <1>1. SubsystemInit => Init
    BY DEF SubsystemInit
  <1>2. [SubsystemNext]_subsystemVars => [Next]_vars
    BY LifeStepIsStep DEF subsystemVars
  <1> QED
    BY <1>1, <1>2, PTL DEF SubsystemSpec, Spec

-----------------------------------------------------------------------------
(* The inductive invariant: what the owner's and the worker's program counters  *)
(* say about each other.                                                       *)

LifeTypes ==
  /\ ownerAt \in {"none", "base", "built", "stop", "start", "poke", "join", "gone"}
  /\ workerAt \in {"none", "parked", "onStart", "loop", "onEnd", "done"}
  /\ startSignal_ \in BOOLEAN
  /\ stopRequested \in BOOLEAN
  /\ derived \in {"none", "alive", "destroyed"}
  /\ exited \in BOOLEAN

\* The thread receives in its loop only, which it has left when it is joined.
LoopInv ==
  /\ recvAt[worker] # "idle" => workerAt = "loop"
  /\ ownerAt = "none" => workerAt = "none"
  /\ ownerAt = "gone" => workerAt = "done"

\* Without a derived class there is no start signal before the stop request, and
\* the thread, which waits for the one, never passes the test for the other.
ConstructionInv ==
  /\ ownerAt = "built" => derived # "none"
  /\ ownerAt \in {"start", "poke", "join", "gone"} => stopRequested
  /\ derived = "none" =>
       /\ recvAt[worker] = "idle"
       /\ startSignal_ => stopRequested
       /\ workerAt \notin {"none", "parked"} => startSignal_

LifeInv ==
  /\ LifeTypes
  /\ LoopInv
  /\ ConstructionInv

\* What the others do to the thread: at most they wake it.
LEMMA OthersOnlyWake ==
  ASSUME TypeOK, NEW t \in Threads \ {worker}, ClientStep(t) \/ SendStep(t)
  PROVE  recvAt'[worker] = recvAt[worker]
         \/ (recvAt[worker] = "asleep" /\ recvAt'[worker] = "wait")
  BY Wired
  DEF ClientStep, GetMQ, PushTrivial, PushManaged, Push, SealMQ, PushManagedSealed, AbandonMQ,
      SendStep, SendSeal, SendPush, SendInvalidate, Awake, recvVars

LEMMA OwnerKeepsLife ==
  ASSUME TypeOK, LifeInv, OwnerNext
  PROVE  LifeInv'
  <1> USE Wired DEF LifeInv, LifeTypes, LoopInv, ConstructionInv, Alive
  <1>1. CASE Construct
    BY <1>1 DEF Construct, Claim, recvVars
  <1>2. ASSUME NEW type, Register(type) PROVE LifeInv'
    BY <1>2 DEF Register, On, SameLife, recvVars
  <1>3. CASE \/ Complete \/ DerivedThrows \/ Start \/ Stop \/ Destroy
             \/ DtorStop \/ DtorStart \/ Join
    <2>1. UNCHANGED <<recvAt, exited>>
      BY <1>3
      DEF Complete, DerivedThrows, Start, Stop, Destroy, DtorStop, DtorStart, Join, vars,
          recvVars
    <2>2. CASE Complete
      BY <2>1, <2>2 DEF Complete
    <2>3. CASE DerivedThrows
      BY <2>1, <2>3 DEF DerivedThrows
    <2>4. CASE Start \/ Stop
      BY <2>1, <2>4 DEF Start, Stop
    <2>5. CASE Destroy
      BY <2>1, <2>5 DEF Destroy
    <2>6. CASE DtorStop \/ DtorStart
      BY <2>1, <2>6 DEF DtorStop, DtorStart
    <2>7. CASE Join
      BY <2>1, <2>7 DEF Join
    <2> QED
      BY <1>3, <2>2, <2>3, <2>4, <2>5, <2>6, <2>7
  <1>4. CASE DtorPoke
    <2>1. ClientStep(owner) \/ SendStep(owner)
      BY <1>4, SubsystemAssumption DEF DtorPoke, ClientStep, PushTrivial, SendStep
    <2>2. /\ UNCHANGED <<workerAt, startSignal_, stopRequested, derived, exited>>
          /\ ownerAt = "poke" /\ ownerAt' \in {"poke", "join"}
      BY <1>4 DEF DtorPoke
    <2> QED
      BY <2>1, <2>2, OthersOnlyWake
  <1> QED
    BY <1>1, <1>2, <1>3, <1>4 DEF OwnerNext, OwnerDtor

LEMMA WorkerKeepsLife ==
  ASSUME TypeOK, LifeInv, WorkerNext
  PROVE  LifeInv'
  <1> USE Wired DEF LifeInv, LifeTypes, LoopInv, ConstructionInv, Alive
  <1>1. CASE AwaitStart \/ OnStart \/ LeaveLoop \/ OnEnd
    <2>1. UNCHANGED <<recvAt, exited>>
      BY <1>1 DEF AwaitStart, OnStart, LeaveLoop, OnEnd, WorkerMoves, vars, recvVars
    <2> QED
      BY <1>1, <2>1 DEF AwaitStart, OnStart, LeaveLoop, OnEnd, WorkerMoves
  <1>2. CASE LoopRecv
    <2>1. /\ workerAt = "loop" /\ ~stopRequested
          /\ UNCHANGED <<ownerAt, workerAt, startSignal_, stopRequested, derived, exited>>
      BY <1>2 DEF LoopRecv, SameLife
    <2>2. derived # "none"
      BY <2>1
    <2> QED
      BY <2>1, <2>2
  <1>3. CASE InRecv
    <2>1. recvAt[worker] # "idle"
      BY <1>3
      DEF InRecv, RecvWait, SpuriousWakeup, RecvEmpty, RecvNonEmpty, RecvLock, PumpStep,
          PumpSkip, PumpDrop, PumpCall, PumpDone, Pumping, CallbackReturn
    <2>2. UNCHANGED <<ownerAt, workerAt, startSignal_, stopRequested, derived, exited>>
      BY <1>3 DEF InRecv, SameLife
    <2> QED
      BY <2>1, <2>2
  <1> QED
    BY <1>1, <1>2, <1>3 DEF WorkerNext

LEMMA LifeStep ==
  ASSUME TypeOK, LifeInv, SubsystemNext \/ UNCHANGED subsystemVars
  PROVE  LifeInv'
  <1> USE Wired DEF LifeInv, LifeTypes, LoopInv, ConstructionInv
  <1>1. CASE Exit
    <2>1. recvAt'[worker] = "idle"
      BY <1>1 DEF Exit, CallbackThrow, Moved, TypeOK
    <2> QED
      BY <1>1, <2>1 DEF Exit
  <1>2. ASSUME NEW t \in Threads \ {owner, worker}, SenderNext(t) PROVE LifeInv'
    <2>1. ClientStep(t) \/ SendStep(t)
      BY <1>2 DEF SenderNext, SenderClient, SenderSend
    <2>2. UNCHANGED <<ownerAt, workerAt, startSignal_, stopRequested, derived, exited>>
      BY <1>2 DEF SenderNext, SenderClient, SenderSend, SameLife, Alive
    <2> QED
      BY <2>1, <2>2, OthersOnlyWake
  <1>3. CASE UNCHANGED subsystemVars
    BY <1>3 DEF subsystemVars, lifeVars, vars, recvVars
  <1> QED
    BY <1>1, <1>2, <1>3, OwnerKeepsLife, WorkerKeepsLife DEF SubsystemNext

LEMMA LifeInvariant == SubsystemSpec => [](TypedControl /\ LifeInv)
  <1>1. SubsystemInit => LifeInv
    BY Wired
    DEF SubsystemInit, Init, LifeInv, LifeTypes, LoopInv, ConstructionInv
  <1>2. TypedControl /\ LifeInv /\ [SubsystemNext]_subsystemVars => LifeInv'
    BY LifeStep DEF TypedControl
  <1>3. SubsystemSpec => []TypedControl
    BY SubsystemIsClient, Typed, PTL
  <1> QED
    BY <1>1, <1>2, <1>3, PTL DEF SubsystemSpec

\* Whatever is sent to it, a Subsystem and its mailbox keep to their types.
THEOREM SubsystemTypeCorrect == SubsystemSpec => []SubsystemTypeOK
  <1>1. TypedControl /\ LifeInv => SubsystemTypeOK
    BY DEF TypedControl, LifeInv, LifeTypes, SubsystemTypeOK
  <1> QED
    BY <1>1, LifeInvariant, PTL

\* No callback of the derived class runs unless its constructor has returned,
\* not even when it throws and ~Subsystem lets the thread go
\* (Subsystem.hpp:28-32, Subsystem.cpp:29-36).
THEOREM MessagesAwaitConstruction == SubsystemSpec => []NoMessageBeforeConstruction
  <1>1. LifeInv => NoMessageBeforeConstruction
    BY DEF LifeInv, ConstructionInv, NoMessageBeforeConstruction, InDerivedCallback
  <1> QED
    BY <1>1, LifeInvariant, PTL

\* After the join the thread is out of recv(), and the mutex is not its own
\* (Subsystem.hpp:86-88).
THEOREM JoinIsFinal == SubsystemSpec => []NothingAfterJoin
  <1>1. TypedControl /\ LifeInv => NothingAfterJoin
    <2> SUFFICES ASSUME TypedControl, LifeInv, ownerAt = "gone"
                 PROVE  recvAt[worker] = "idle" /\ mtx_[box] # worker
      BY DEF NothingAfterJoin
    <2>1. recvAt[worker] = "idle"
      BY DEF LifeInv, LoopInv
    <2>2. mtx_[box] = worker => InRecvLock(worker)
      BY Wired, ThreadsAssumption DEF TypedControl, ControlInv
    <2> QED
      BY <2>1, <2>2 DEF InRecvLock
  <1> QED
    BY <1>1, LifeInvariant, PTL
=============================================================================
