---- MODULE MailboxWiring_proofs ----
(***************************************************************************)
(* Theorems about mailboxes that have one receiver each and that Rank        *)
(* orders.                                                                  *)
(***************************************************************************)
EXTENDS MailboxWiring, MailboxEndpoint_proofs, WellFoundedInduction

-----------------------------------------------------------------------------
(* What a thread waits for: the front of the queue it is about to take is   *)
(* there, the queue it sleeps on is empty, and the mutex it wants from       *)
(* within a callback is one that the wiring allows.                         *)

WaitInv ==
  /\ \A t \in Threads : recvAt[t] # "undefined"
  /\ \A t \in Threads : recvAt[t] = "lock" => queue_[Inbox[t]] # <<>>
  /\ \A t \in Threads : recvAt[t] = "asleep" => queue_[Inbox[t]] = <<>>
  /\ \A t \in Threads :
       sendAt[t] # "idle" /\ recvAt[t] = "callback" => dest[t] \in CallbackTargets[t]

LEMMA WaitUnaffected ==
  ASSUME WaitInv, UNCHANGED <<recvAt, queue_, sendAt, dest>>
  PROVE  WaitInv'
  BY DEF WaitInv

LEMMA SendKeepsWait ==
  ASSUME TypedControl, WaitInv, NEW t \in Threads, SendStep(t)
  PROVE  WaitInv'
  <1>1. ASSUME SendSeal(t) PROVE WaitInv'
    <2>1. PICK mb \in Targets(t) : dest' = [dest EXCEPT ![t] = mb]
      BY <1>1 DEF SendSeal
    <2>2. /\ sendAt' = [sendAt EXCEPT ![t] = "sealed"]
          /\ UNCHANGED <<recvAt, queue_>>
      BY <1>1 DEF SendSeal, recvVars, endpointVars
    <2> QED
      BY <2>1, <2>2 DEF WaitInv, Targets, TypedControl, TypeOK
  <1>2. ASSUME SendPush(t) PROVE WaitInv'
    <2> DEFINE mb == dest[t]
    <2>1. mb \in Mailboxes /\ sendAt[t] = "sealed"
      BY <1>2 DEF SendPush, TypedControl, ControlInv
    <2>2. /\ queue_' = [queue_ EXCEPT ![mb] = Append(queue_[mb], mq[t])]
          /\ sendAt' = [sendAt EXCEPT ![t] = "pushed"]
          /\ UNCHANGED dest
      BY <1>2 DEF SendPush
    <2>3. queue_'[mb] # <<>>
      <3>1. queue_[mb] \in Seq(Handle(Storage)) /\ mq[t] \in Handle(Storage)
        BY <2>1 DEF TypedControl, TypeOK
      <3>2. Append(queue_[mb], mq[t]) # <<>>
        BY <3>1
      <3> HIDE DEF mb
      <3> QED
        BY <2>1, <2>2, <3>2 DEF TypedControl, TypeOK
    <2>4. \A nb \in Mailboxes \ {mb} : queue_'[nb] = queue_[nb]
      BY <2>2 DEF TypedControl, TypeOK
    <2>5. \A u \in Threads :
            \/ recvAt'[u] = recvAt[u] /\ (recvAt[u] = "asleep" => Inbox[u] # mb)
            \/ recvAt'[u] = "wait"
      BY <1>2 DEF SendPush, Awake
    <2>6. \A u \in Threads : recvAt[u] # "idle" => Inbox[u] \in Mailboxes
      BY DEF TypedControl, ControlInv
    <2>7. \A u \in Threads : sendAt'[u] # "idle" => sendAt[u] # "idle"
      BY <2>1, <2>2 DEF TypedControl, TypeOK
    <2> HIDE DEF mb
    <2>8. \A u \in Threads : recvAt'[u] # "undefined"
      BY <2>5 DEF WaitInv
    <2>9. \A u \in Threads : recvAt'[u] = "lock" => queue_'[Inbox[u]] # <<>>
      BY <2>3, <2>4, <2>5, <2>6 DEF WaitInv
    <2>10. \A u \in Threads : recvAt'[u] = "asleep" => queue_'[Inbox[u]] = <<>>
      BY <2>4, <2>5, <2>6 DEF WaitInv
    <2>11. \A u \in Threads :
             sendAt'[u] # "idle" /\ recvAt'[u] = "callback" =>
               dest'[u] \in CallbackTargets[u]
      BY <2>2, <2>5, <2>7 DEF WaitInv
    <2> QED
      BY <2>8, <2>9, <2>10, <2>11 DEF WaitInv
  <1>3. ASSUME SendInvalidate(t) PROVE WaitInv'
    BY <1>3
    DEF SendInvalidate, WaitInv, TypedControl, TypeOK, recvVars, endpointVars
  <1> QED
    BY <1>1, <1>2, <1>3 DEF SendStep

LEMMA RecvKeepsWait ==
  ASSUME TypedControl, WaitInv, NEW t \in Threads, RecvStep(t)
  PROVE  WaitInv'
  <1> USE DEF TypedControl
  <1>1. sendAt[t] = "idle"
    BY DEF RecvStep, RecvCall, RecvWait, SpuriousWakeup, RecvEmpty,
           RecvNonEmpty, RecvLock, PumpStep, PumpSkip, PumpDrop, PumpCall,
           PumpDone, Pumping, CallbackReturn, CallbackThrow, ControlInv, TypeOK
  <1>2. ASSUME NEW to \in {"idle", "wait", "check", "pump", "callback"},
               Moved(t, to), UNCHANGED <<queue_, sendVars>>
        PROVE  WaitInv'
    BY <1>1, <1>2 DEF Moved, WaitInv, TypeOK, sendVars
  <1>3. ASSUME RecvCall(t) \/ SpuriousWakeup(t) \/ RecvEmpty(t)
               \/ PumpCall(t) \/ CallbackReturn(t) \/ CallbackThrow(t)
        PROVE  WaitInv'
    <2>1. \E to \in {"idle", "wait", "check", "pump", "callback"} : Moved(t, to)
      BY <1>3
      DEF RecvCall, SpuriousWakeup, RecvEmpty, PumpCall, CallbackReturn,
          CallbackThrow
    <2>2. UNCHANGED <<queue_, sendVars>>
      BY <1>3
      DEF RecvCall, SpuriousWakeup, RecvEmpty, PumpCall, CallbackReturn,
          CallbackThrow, endpointVars
    <2> QED
      BY <1>2, <2>1, <2>2
  <1>4. ASSUME PumpSkip(t) \/ PumpDrop(t) PROVE WaitInv'
    BY <1>4, WaitUnaffected DEF PumpSkip, PumpDrop, endpointVars, sendVars
  <1>5. ASSUME RecvWait(t) PROVE WaitInv'
    BY <1>1, <1>5
    DEF RecvWait, Moved, WaitInv, TypeOK, endpointVars, sendVars
  <1>6. ASSUME RecvNonEmpty(t) PROVE WaitInv'
    BY <1>1, <1>6
    DEF RecvNonEmpty, Moved, WaitInv, TypeOK, endpointVars, sendVars
  <1>7. ASSUME RecvLock(t) PROVE WaitInv'
    <2>1. queue_[Inbox[t]] # <<>>
      BY <1>7 DEF RecvLock, WaitInv
    <2> QED
      BY <1>2, <1>7, <2>1 DEF RecvLock
  <1>8. ASSUME PumpDone(t) PROVE WaitInv'
    <2> DEFINE mb == Inbox[t]
    <2>1. mb \in Mailboxes /\ mtx_[mb] = t /\ queue_[mb] # <<>>
      BY <1>8 DEF PumpDone, ControlInv, InRecvLock
    <2>2. /\ queue_' = [queue_ EXCEPT ![mb] = Tail(queue_[mb])]
          /\ recvAt' = [recvAt EXCEPT ![t] = "check"]
          /\ UNCHANGED sendVars
      BY <1>8 DEF PumpDone, Moved
    <2>3. \A u \in Threads \ {t} : Inbox[u] # mb
      BY <2>1, SingleReceiverAssumption
    <2>4. \A nb \in Mailboxes \ {mb} : queue_'[nb] = queue_[nb]
      BY <2>2 DEF TypeOK
    <2>5. \A u \in Threads : recvAt[u] # "idle" => Inbox[u] \in Mailboxes
      BY DEF ControlInv
    <2> HIDE DEF mb
    <2>6. \A u \in Threads : recvAt'[u] \in {"lock", "asleep"} =>
            recvAt'[u] = recvAt[u] /\ queue_'[Inbox[u]] = queue_[Inbox[u]]
      BY <2>2, <2>3, <2>4, <2>5 DEF TypeOK
    <2>7. \A u \in Threads : recvAt'[u] # "undefined"
      BY <2>2 DEF WaitInv, TypeOK
    <2>8. \A u \in Threads : recvAt'[u] = "lock" => queue_'[Inbox[u]] # <<>>
      BY <2>6 DEF WaitInv
    <2>9. \A u \in Threads : recvAt'[u] = "asleep" => queue_'[Inbox[u]] = <<>>
      BY <2>6 DEF WaitInv
    <2>10. \A u \in Threads : sendAt'[u] # "idle" /\ recvAt'[u] = "callback"
             => dest'[u] \in CallbackTargets[u]
      BY <2>2 DEF WaitInv, TypeOK, sendVars
    <2> QED
      BY <2>7, <2>8, <2>9, <2>10 DEF WaitInv
  <1> QED
    BY <1>3, <1>4, <1>5, <1>6, <1>7, <1>8 DEF RecvStep, PumpStep

LEMMA OwnerKeepsWait ==
  ASSUME TypedControl, WaitInv, NEW mb \in Mailboxes, OwnerStep(mb)
  PROVE  WaitInv'
  <1>1. ASSUME UNCHANGED <<queue_, recvVars, sendVars>> PROVE WaitInv'
    BY <1>1, WaitUnaffected DEF recvVars, sendVars
  <1>2. ASSUME Recreate(mb) PROVE WaitInv'
    <2>1. \A t \in Threads : recvAt[t] # "idle" => Inbox[t] # mb
      BY <1>2 DEF Recreate
    <2>2. \A nb \in Mailboxes \ {mb} : queue_'[nb] = queue_[nb]
      BY <1>2 DEF Recreate, TypedControl, TypeOK
    <2>3. UNCHANGED <<recvAt, sendAt, dest>>
      BY <1>2 DEF Recreate, sendVars
    <2> QED
      BY <2>1, <2>2, <2>3 DEF WaitInv, TypedControl, ControlInv
  <1> QED
    BY <1>1, <1>2 DEF OwnerStep, Claim, On, Off

LEMMA Waits == Spec => []WaitInv
  <1>1. Init => WaitInv
    BY DEF Init, WaitInv
  <1>2. TypedControl /\ WaitInv /\ [Next]_vars => WaitInv'
    <2> SUFFICES ASSUME TypedControl, WaitInv, [Next]_vars PROVE WaitInv'
      OBVIOUS
    <2>1. ASSUME NEW t \in Threads, ClientStep(t) PROVE WaitInv'
      BY <2>1, WaitUnaffected
      DEF ClientStep, GetMQ, PushTrivial, PushManaged, Push, SealMQ,
          PushManagedSealed, AbandonMQ, endpointVars, recvVars, sendVars
    <2>2. CASE Next
      BY <2>1, <2>2, SendKeepsWait, RecvKeepsWait, OwnerKeepsWait DEF Next
    <2>3. CASE UNCHANGED vars
      BY <2>3, WaitUnaffected DEF vars, endpointVars, recvVars, sendVars
    <2> QED
      BY <2>2, <2>3
  <1> QED
    BY <1>1, <1>2, Typed, PTL DEF Spec

\* With one receiver per mailbox, recv() never takes the front of an empty
\* queue, although it tests for emptiness before it takes the mutex.
THEOREM FrontIsDefined == Spec => []NoUndefinedFront
  <1>1. WaitInv => NoUndefinedFront
    BY DEF WaitInv, NoUndefinedFront
  <1> QED
    BY <1>1, Waits, PTL

\* No send() leaves a receiver asleep.
THEOREM WakeupsAreNotLost == Spec => []NoLostWakeup
  <1>1. WaitInv => NoLostWakeup
    BY DEF WaitInv, NoLostWakeup
  <1> QED
    BY <1>1, Waits, PTL

\* Whatever the threads and their mailboxes, a wiring that Rank orders takes
\* the mutexes in that order.
THEOREM LocksAreOrdered == Spec => []LockOrder
  <1>1. TypedControl /\ WaitInv => LockOrder
    <2> SUFFICES ASSUME TypedControl, WaitInv,
                        NEW t \in Threads, NEW held \in Mailboxes,
                        mtx_[held] = t, NEW mb \in Wanted(t)
                 PROVE  Rank[mb] < Rank[held]
      BY DEF LockOrder
    <2>1. InRecvLock(t) /\ Inbox[t] = held
      BY ThreadsAssumption DEF TypedControl, ControlInv
    <2>2. sendAt[t] = "sealed" /\ mb = dest[t]
      BY <2>1 DEF Wanted, InRecvLock
    <2>3. recvAt[t] = "callback"
      BY <2>1, <2>2 DEF TypedControl, ControlInv, InRecvLock
    <2>4. mb \in CallbackTargets[t]
      BY <2>2, <2>3 DEF WaitInv
    <2> QED
      BY <2>1, <2>4, RankAssumption
  <1> QED
    BY <1>1, Typed, Waits, PTL

LEMMA SmallestExists ==
  ASSUME NEW S \in SUBSET Nat, S # {}
  PROVE  \E n \in S : \A m \in S : n <= m
  <1> DEFINE R == OpToRel(<, Nat)
  <1>1. IsWellFoundedOn(R, Nat)
    BY NatLessThanWellFounded
  <1>2. \A m, n \in Nat : m < n => <<m, n>> \in R
    BY DEF OpToRel
  <1> HIDE DEF R
  <1>3. PICK n \in S : \A m \in S : <<m, n>> \notin R
    BY <1>1, WFMin
  <1>4. \A m \in S : n \in Nat /\ m \in Nat /\ ~(m < n)
    BY <1>2, <1>3
  <1>5. \A m \in Nat, k \in Nat : ~(m < k) => k <= m
    OBVIOUS
  <1> QED
    BY <1>4, <1>5

\* However many threads there are and however they wait, one of any of them waits
\* for none of the others: in an infinite chain or a cycle the ranks of the
\* mailboxes would descend forever (MailboxEndpoint.cpp:68-84).
THEOREM LocksNeverCycle == Spec => []NoLockCycle
  <1>1. TypedControl /\ LockOrder => NoLockCycle
    <2> SUFFICES ASSUME TypedControl, LockOrder, NEW C \in (SUBSET Threads) \ {{}},
                        \A t \in C : \E u \in C : WaitsFor(t, u)
                 PROVE  FALSE
      BY DEF NoLockCycle
    <2> DEFINE Ranks == {Rank[mb] : mb \in UNION {Wanted(t) : t \in C}}
    <2>1. \A t \in C : Wanted(t) \subseteq Mailboxes
      BY DEF Wanted, TypedControl, ControlInv
    <2>2. Ranks \in SUBSET Nat
      BY <2>1, RankAssumption
    <2>3. Ranks # {}
      <3>1. PICK t \in C : \E mb \in Wanted(t) : TRUE
        BY DEF WaitsFor
      <3>2. PICK mb \in Wanted(t) : Rank[mb] \in Ranks
        BY <3>1
      <3> QED
        BY <3>2
    <2>4. PICK n \in Ranks : \A m \in Ranks : n <= m
      <3> HIDE DEF Ranks
      <3> QED
        BY <2>2, <2>3, SmallestExists
    <2>5. PICK t \in C : \E mb \in Wanted(t) : Rank[mb] = n
      OBVIOUS
    <2>6. PICK mb \in Wanted(t) : Rank[mb] = n
      BY <2>5
    <2>7. PICK u \in C : WaitsFor(t, u)
      OBVIOUS
    <2>8. mtx_[mb] = u /\ mb \in Mailboxes
      BY <2>1, <2>6, <2>7 DEF WaitsFor, Wanted
    <2>9. PICK nb \in Wanted(u) : nb \in Mailboxes
      BY <2>1 DEF WaitsFor
    <2>10. Rank[nb] < Rank[mb]
      BY <2>8, <2>9 DEF LockOrder
    <2>11. Rank[nb] \in Ranks
      BY <2>9
    <2> QED
      <3>1. Rank[nb] \in Nat /\ Rank[mb] \in Nat /\ n <= Rank[nb]
        BY <2>4, <2>8, <2>9, <2>11, RankAssumption
      <3> QED
        BY <2>6, <2>10, <3>1
  <1> QED
    BY <1>1, Typed, LocksAreOrdered, PTL

=============================================================================
