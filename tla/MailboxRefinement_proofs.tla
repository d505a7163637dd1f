---- MODULE MailboxRefinement_proofs ----
(***************************************************************************)
(* That MailboxEndpoint implements MailboxChannel: each of its steps is one *)
(* of the abstract mailboxes, or one they do not see.                       *)
(***************************************************************************)
EXTENDS MailboxEndpoint_proofs, MailboxRefinement

-----------------------------------------------------------------------------
(* Sequences and functions.                                                  *)

\* A function that changes at one place.
LEMMA OneChanged ==
  ASSUME NEW S, NEW f, NEW g, f = [x \in S |-> f[x]], g = [x \in S |-> g[x]],
         NEW a \in S, \A x \in S \ {a} : g[x] = f[x]
  PROVE  g = [f EXCEPT ![a] = g[a]]
  <1>1. [f EXCEPT ![a] = g[a]] = [x \in S |-> IF x = a THEN g[a] ELSE f[x]]
    OBVIOUS
  <1> QED
    BY <1>1

LEMMA FunctionIsSeq ==
  ASSUME NEW S, NEW n \in Nat, NEW f \in [1..n -> S]
  PROVE  f \in Seq(S) /\ Len(f) = n
  OBVIOUS

LEMMA AppendedTo ==
  ASSUME NEW S, NEW n \in Nat, NEW f \in [1..n -> S], NEW x \in S,
         NEW g, g = [i \in 1..n + 1 |-> IF i = n + 1 THEN x ELSE f[i]]
  PROVE  g = Append(f, x)
  <1>1. Len(f) = n /\ f \in Seq(S)
    BY FunctionIsSeq
  <1>2. g \in [1..n + 1 -> S]
    OBVIOUS
  <1>3. Len(g) = n + 1 /\ g \in Seq(S)
    BY <1>2, FunctionIsSeq
  <1>4. /\ Append(f, x) \in Seq(S) /\ Len(Append(f, x)) = n + 1
        /\ \A i \in 1..n + 1 : Append(f, x)[i] = IF i = n + 1 THEN x ELSE f[i]
    BY <1>1, AppendProperties
  <1> QED
    BY <1>3, <1>4, SeqEqual

LEMMA TailShifts ==
  ASSUME NEW S, NEW q \in Seq(S), q # <<>>
  PROVE  /\ Len(Tail(q)) = Len(q) - 1 /\ Len(q) \in Nat
         /\ \A j \in 1..Len(Tail(q)) : Tail(q)[j] = q[j + 1]
  OBVIOUS

LEMMA ShiftedIsTail ==
  ASSUME NEW S, NEW f \in Seq(S), f # <<>>,
         NEW g, g = [i \in 1..Len(f) - 1 |-> f[i + 1]]
  PROVE  g = Tail(f)
  <1>1. /\ Len(f) \in Nat \ {0} /\ Tail(f) \in Seq(S) /\ Len(Tail(f)) = Len(f) - 1
        /\ \A i \in 1..Len(f) - 1 : Tail(f)[i] = f[i + 1]
    BY EmptySeq, TailShifts, HeadTailProperties
  <1>2. Len(f) - 1 \in Nat /\ g \in [1..Len(f) - 1 -> S]
    BY <1>1, ElementOfSeq
  <1>3. g \in Seq(S) /\ Len(g) = Len(f) - 1
    BY <1>2, FunctionIsSeq
  <1> QED
    BY <1>1, <1>3, SeqEqual

\* Equal from the k-th element on.
LEMMA SubSeqSame ==
  ASSUME NEW S, NEW f \in Seq(S), NEW g \in Seq(S), Len(f) = Len(g), NEW k \in Nat \ {0},
         \A j \in 1..Len(f) : j >= k => f[j] = g[j]
  PROVE  SubSeq(f, k, Len(f)) = SubSeq(g, k, Len(g))
  <1>1. /\ \A i \in k..Len(f) : f[i] \in S
        /\ \A i \in k..Len(g) : g[i] \in S
        /\ Len(f) \in Int /\ k \in Int
    BY ElementOfSeq
  <1>2. /\ SubSeq(f, k, Len(f)) \in Seq(S) /\ SubSeq(g, k, Len(g)) \in Seq(S)
        /\ Len(SubSeq(f, k, Len(f))) = Len(SubSeq(g, k, Len(g)))
    BY <1>1, SubSeqProperties
  <1>3. /\ Len(SubSeq(f, k, Len(f))) = IF k <= Len(f) THEN Len(f) - k + 1 ELSE 0
        /\ \A i \in 1..Len(f) - k + 1 : SubSeq(f, k, Len(f))[i] = f[k + i - 1]
        /\ \A i \in 1..Len(f) - k + 1 : SubSeq(g, k, Len(g))[i] = g[k + i - 1]
    BY <1>1, SubSeqProperties
  <1>4. \A i \in 1..Len(f) - k + 1 : k + i - 1 \in 1..Len(f) /\ k + i - 1 >= k
    BY <1>1
  <1>5. \A i \in 1..Len(SubSeq(f, k, Len(f))) :
          SubSeq(f, k, Len(f))[i] = SubSeq(g, k, Len(g))[i]
    BY <1>1, <1>3, <1>4
  <1> QED
    BY <1>2, <1>5, SeqEqual

-----------------------------------------------------------------------------
(* The inductive invariant.                                                  *)

\* What the refinement needs besides: a storage that nobody uses and that is
\* not queued has been cleared, and a callback runs on a message.
UnusedIsEmpty ==
  \A s \in Storage : (\A t \in Threads : ~Holds(t, s)) /\ ~Queued(s) => heap[s] = <<>>

CallbackHasMessage ==
  \A t \in Threads :
    recvAt[t] = "callback" => pos[t] <= Len(heap[CurrentMQ(t).storage])

DeliveryInv == UnusedIsEmpty /\ CallbackHasMessage

\* What submit() and the deletion of one payload leave in the storages.
LEMMA SubmittedIsEmpty ==
  ASSUME NEW S, NEW P, Submit(S, P)
  PROVE  \A s \in Storage : IF s \in S THEN heap'[s] = <<>> ELSE heap'[s] = heap[s]
  BY DEF Submit

LEMMA FreedLength ==
  ASSUME TypeOK, NEW s \in Storage, NEW i, FreeAt(s, i)
  PROVE  /\ \A r \in Storage : Len(heap'[r]) = Len(heap[r])
         /\ \A r \in Storage \ {s} : heap'[r] = heap[r]
         /\ \A j \in 1..Len(heap[s]) : j # i => heap'[s][j] = heap[s][j]
         /\ heap[s] = <<>> => heap'[s] = <<>>
  <1>1. heap \in [Storage -> Seq(Message)] /\ heap[s] \in Seq(Message)
    BY DEF TypeOK, FactoryTypeOK
  <1> DEFINE new == IF heap[s][i].managed THEN Freed(heap[s][i]) ELSE heap[s][i]
  <1>2. /\ heap'[s] = [heap[s] EXCEPT ![i] = new]
        /\ \A r \in Storage \ {s} : heap'[r] = heap[r]
    BY <1>1 DEF FreeAt
  <1> HIDE DEF new
  <1>3. Len([heap[s] EXCEPT ![i] = new]) = Len(heap[s])
    BY <1>1
  <1>4. heap[s] = <<>> => [heap[s] EXCEPT ![i] = new] = <<>>
    BY <1>1
  <1>5. \A j \in 1..Len(heap[s]) : j # i => [heap[s] EXCEPT ![i] = new][j] = heap[s][j]
    BY <1>1
  <1> QED
    BY <1>2, <1>3, <1>4, <1>5

LEMMA ClientKeepsDelivery ==
  ASSUME TypedControl, StorageInv, DeliveryInv, NEW t \in Threads, ClientStep(t)
  PROVE  DeliveryInv'
  <1> USE DEF TypedControl
  <1> DEFINE s == mq[t].storage
  <1>1. s \in Storage
    BY DEF TypeOK, Handle
  <1>2. UNCHANGED <<queue_, recvAt, pos, sendAt>>
    BY DEF ClientStep, GetMQ, PushTrivial, PushManaged, Push, SealMQ, PushManagedSealed,
       AbandonMQ, endpointVars, recvVars, sendVars
  <1>3. \A r \in Storage : Queued(r)' <=> Queued(r)
    BY <1>2 DEF Queued, QueuedAt
  <1>4. \A u \in Threads \ {t} : \A r \in Storage : Holds(u, r)' <=> Holds(u, r)
    BY <1>2
    DEF ClientStep, GetMQ, PushTrivial, PushManaged, Push, SealMQ, PushManagedSealed,
        AbandonMQ, Holds, TypeOK
  <1>5. CASE GetMQ(t) \/ SealMQ(t) \/ PushManagedSealed(t)
    <2>1. heap' = heap
      BY <1>5 DEF GetMQ, Get, SealMQ, PushManagedSealed, factoryVars
    <2>2. \A r \in Storage : Holds(t, r) => Holds(t, r)'
      BY <1>2, <1>5 DEF GetMQ, SealMQ, PushManagedSealed, Seal, Holds, TypeOK, Handle
    <2>3. UnusedIsEmpty'
      BY <1>3, <1>4, <2>1, <2>2 DEF DeliveryInv, UnusedIsEmpty
    <2>4. CallbackHasMessage'
      BY <1>2, <2>1 DEF DeliveryInv, CallbackHasMessage, CurrentMQ
    <2> QED
      BY <2>3, <2>4 DEF DeliveryInv
  <1>6. ASSUME NEW msg, Push(t, msg) PROVE DeliveryInv'
    <2>1. Holds(t, s) /\ Holds(t, s)' /\ mq' = mq
      BY <1>2, <1>6 DEF Push, InClientCode, Writable, Holds
    <2>2. \A r \in Storage \ {s} : heap'[r] = heap[r]
      BY <1>6 DEF Push, PushTo, TypeOK, FactoryTypeOK
    <2>3. UnusedIsEmpty'
      BY <1>2, <1>3, <2>1, <2>2 DEF DeliveryInv, UnusedIsEmpty, Holds
    <2>4. \A u \in Threads : recvAt[u] = "callback" => CurrentMQ(u).storage \in Storage \ {s}
      BY <1>1, <2>1, HeldIsNotPumped, PumpedIsQueued DEF IsPumped
    <2>5. CallbackHasMessage'
      BY <1>2, <2>2, <2>4 DEF DeliveryInv, CallbackHasMessage, CurrentMQ
    <2> QED
      BY <2>3, <2>5 DEF DeliveryInv
  <1>7. CASE AbandonMQ(t)
    <2>1. Holds(t, s)
      BY <1>7 DEF AbandonMQ, InClientCode, Holds
    <2>2. \A r \in Storage : IF r = s THEN heap'[r] = <<>> ELSE heap'[r] = heap[r]
      BY <1>7, SubmittedIsEmpty DEF AbandonMQ
    <2>3. \A r \in Storage : r # s => ~Holds(t, r)
      BY DEF Holds
    <2>4. UnusedIsEmpty'
      BY <1>3, <1>4, <2>2, <2>3 DEF DeliveryInv, UnusedIsEmpty
    <2>5. \A u \in Threads : recvAt[u] = "callback" => CurrentMQ(u).storage \in Storage \ {s}
      BY <1>1, <2>1, HeldIsNotPumped, PumpedIsQueued DEF IsPumped
    <2>6. CallbackHasMessage'
      BY <1>2, <2>2, <2>5 DEF DeliveryInv, CallbackHasMessage, CurrentMQ
    <2> QED
      BY <2>4, <2>6 DEF DeliveryInv
  <1> QED
    BY <1>5, <1>6, <1>7 DEF ClientStep, PushTrivial, PushManaged

LEMMA SendKeepsDelivery ==
  ASSUME TypedControl, StorageInv, DeliveryInv, NEW t \in Threads, SendStep(t)
  PROVE  DeliveryInv'
  <1> USE DEF TypedControl
  <1>1. heap' = heap
    BY DEF SendStep, SendSeal, SendPush, SendInvalidate, factoryVars
  <1>2. CallbackHasMessage'
    BY <1>1, SendDisturbsNobody
    DEF DeliveryInv, CallbackHasMessage, Undisturbed, IsPumped
  <1>3. CASE SendSeal(t) \/ SendInvalidate(t)
    <2>1. queue_' = queue_
      BY <1>3 DEF SendSeal, SendInvalidate, endpointVars
    <2>2. \A u \in Threads, r \in Storage : Holds(u, r)' <=> Holds(u, r)
      <3>1. \A u \in Threads \ {t} : mq'[u] = mq[u] /\ sendAt'[u] = sendAt[u]
        BY <1>3 DEF SendSeal, SendInvalidate, TypeOK
      <3>2. CASE SendSeal(t)
        <4>1. /\ mq'[t].valid = mq[t].valid /\ mq'[t].storage = mq[t].storage
              /\ sendAt[t] = "idle" /\ sendAt'[t] = "sealed"
          BY <3>2 DEF SendSeal, InClientCode, Seal, TypeOK, Handle
        <4> QED
          BY <3>1, <4>1 DEF Holds
      <3>3. CASE SendInvalidate(t)
        <4>1. ~mq'[t].valid /\ sendAt[t] = "pushed"
          BY <3>3 DEF SendInvalidate, MarkInvalid, TypeOK, Handle
        <4> QED
          BY <3>1, <4>1 DEF Holds
      <3> QED
        BY <1>3, <3>2, <3>3
    <2> QED
      BY <1>1, <1>2, <2>1, <2>2 DEF DeliveryInv, UnusedIsEmpty, Queued, QueuedAt
  <1>4. CASE SendPush(t)
    <2> DEFINE mb == dest[t]
    <2>1. mb \in Mailboxes /\ queue_[mb] \in Seq(Handle(Storage)) /\ mq[t] \in Handle(Storage)
      BY <1>4 DEF SendPush, ControlInv, TypeOK
    <2>2. /\ queue_'[mb] = Append(queue_[mb], mq[t]) /\ mq' = mq
          /\ \A nb \in Mailboxes \ {mb} : queue_'[nb] = queue_[nb]
          /\ \A u \in Threads \ {t} : sendAt'[u] = sendAt[u]
      BY <1>4, <2>1 DEF SendPush, TypeOK
    <2>3. /\ Len(queue_[mb]) + 1 \in 1..Len(queue_'[mb])
          /\ queue_'[mb][Len(queue_[mb]) + 1] = mq[t]
          /\ \A i \in 1..Len(queue_[mb]) :
               i \in 1..Len(queue_'[mb]) /\ queue_'[mb][i] = queue_[mb][i]
      BY <2>1, <2>2
    <2> HIDE DEF mb
    <2>4. ASSUME NEW r \in Storage, Holds(t, r) PROVE Queued(r)'
      BY <2>1, <2>3, <2>4 DEF Holds, Queued, QueuedAt
    <2>5. ASSUME NEW r \in Storage, Queued(r) PROVE Queued(r)'
      <3>0. PICK nb \in Mailboxes : \E i \in 1..Len(queue_[nb]) : queue_[nb][i].storage = r
        BY <2>5 DEF Queued, QueuedAt
      <3>1. PICK i \in 1..Len(queue_[nb]) : queue_[nb][i].storage = r
        BY <3>0
      <3>2. i \in 1..Len(queue_'[nb]) /\ queue_'[nb][i].storage = r
        BY <2>2, <2>3, <3>1
      <3> QED
        BY <3>2 DEF Queued, QueuedAt
    <2>6. \A u \in Threads \ {t} : \A r \in Storage : Holds(u, r)' <=> Holds(u, r)
      BY <2>2 DEF Holds
    <2>7. UnusedIsEmpty'
      BY <1>1, <2>4, <2>5, <2>6 DEF DeliveryInv, UnusedIsEmpty
    <2> QED
      BY <1>2, <2>7 DEF DeliveryInv
  <1> QED
    BY <1>3, <1>4 DEF SendStep

LEMMA RecvKeepsDelivery ==
  ASSUME TypedControl, StorageInv, DeliveryInv, NEW t \in Threads, RecvStep(t)
  PROVE  DeliveryInv'
  <1> USE DEF TypedControl
  <1> DEFINE s == CurrentMQ(t).storage
  <1>1. \A u \in Threads, r \in Storage : Holds(u, r)' <=> Holds(u, r)
    <2>1. UNCHANGED <<mq, sendAt>>
      BY DEF RecvStep, RecvCall, RecvWait, SpuriousWakeup, RecvEmpty, RecvNonEmpty,
         RecvLock, PumpStep, PumpSkip, PumpDrop, PumpCall, PumpDone, CallbackReturn,
         CallbackThrow, sendVars
    <2> QED
      BY <2>1 DEF Holds
  <1>2. ASSUME \A r \in Storage : heap'[r] = heap[r] \/ (IsPumped(t) /\ r = s)
        PROVE  \A u \in Threads \ {t} :
                 recvAt'[u] = "callback" => pos'[u] <= Len(heap'[CurrentMQ(u)'.storage])
    BY <1>2, RecvDisturbsNobodyElse, PumpersApart, PumpedIsQueued
    DEF DeliveryInv, CallbackHasMessage, Undisturbed, IsPumped
  <1>3. CASE PumpDone(t)
    <2>1. IsPumped(t) /\ Inbox[t] \in Mailboxes /\ s \in Storage
      BY <1>3, PumpedIsQueued DEF PumpDone, IsPumped
    <2>2. queue_[Inbox[t]] \in Seq(Handle(Storage)) /\ queue_[Inbox[t]] # <<>>
          /\ CurrentMQ(t) = queue_[Inbox[t]][1] /\ 1 \in 1..Len(queue_[Inbox[t]])
      BY <2>1, PumpedIsQueued DEF CurrentMQ
    <2>3. CurrentMQ(t).valid
      BY <2>1, <2>2 DEF StorageInv, QueuedReady, Readable
    <2>4. \A r \in Storage : IF r = s THEN heap'[r] = <<>> ELSE heap'[r] = heap[r]
      BY <1>3, <2>3, SubmittedIsEmpty DEF PumpDone
    <2>5. /\ queue_'[Inbox[t]] = Tail(queue_[Inbox[t]])
          /\ \A nb \in Mailboxes \ {Inbox[t]} : queue_'[nb] = queue_[nb]
      BY <1>3, <2>1 DEF PumpDone, TypeOK
    <2> HIDE DEF s
    <2>6. ASSUME NEW r \in Storage, Queued(r) PROVE Queued(r)' \/ r = s
      <3>0. PICK nb \in Mailboxes : \E i \in 1..Len(queue_[nb]) : queue_[nb][i].storage = r
        BY <2>6 DEF Queued, QueuedAt
      <3>1. PICK i \in 1..Len(queue_[nb]) : queue_[nb][i].storage = r
        BY <3>0
      <3>2. CASE nb = Inbox[t] /\ i # 1
        <4>1. /\ Len(queue_'[nb]) = Len(queue_[nb]) - 1 /\ Len(queue_[nb]) \in Nat
              /\ \A j \in 1..Len(queue_'[nb]) : queue_'[nb][j] = queue_[nb][j + 1]
          <5>1. Tail(queue_[nb]) = queue_'[nb]
            BY <2>5, <3>2
          <5>2. queue_[nb] \in Seq(Handle(Storage)) /\ queue_[nb] # <<>>
            BY <2>2, <3>2
          <5> QED
            BY <5>1, <5>2, TailShifts
        <4>2. i - 1 \in 1..Len(queue_'[nb]) /\ queue_'[nb][i - 1] = queue_[nb][i]
          BY <3>1, <3>2, <4>1
        <4> QED
          BY <3>1, <4>2 DEF Queued, QueuedAt
      <3>3. CASE nb = Inbox[t] /\ i = 1
        BY <2>2, <3>1, <3>3 DEF s
      <3>4. CASE nb # Inbox[t]
        BY <2>5, <3>1, <3>4 DEF Queued, QueuedAt
      <3> QED
        BY <3>2, <3>3, <3>4
    <2>7. UnusedIsEmpty'
      BY <1>1, <2>4, <2>6 DEF DeliveryInv, UnusedIsEmpty
    <2>8. recvAt'[t] # "callback"
      BY <1>3 DEF PumpDone, Moved, TypeOK
    <2>9. CallbackHasMessage'
      BY <1>2, <2>1, <2>4, <2>8 DEF CallbackHasMessage, s
    <2> QED
      BY <2>7, <2>9 DEF DeliveryInv
  <1>4. CASE PumpDrop(t) \/ CallbackReturn(t)
    <2>1. IsPumped(t) /\ s \in Storage /\ queue_' = queue_
      BY <1>4, PumpedIsQueued DEF PumpDrop, CallbackReturn, Pumping, IsPumped, endpointVars
    <2>2. FreeAt(s, pos[t])
      BY <1>4 DEF PumpDrop, CallbackReturn
    <2>3. recvAt'[t] # "callback"
      BY <1>4 DEF PumpDrop, CallbackReturn, Pumping, Moved, TypeOK
    <2> HIDE DEF s
    <2>4. /\ \A r \in Storage \ {s} : heap'[r] = heap[r]
          /\ \A r \in Storage : heap[r] = <<>> => heap'[r] = <<>>
      BY <2>1, <2>2, FreedLength
    <2>5. CallbackHasMessage'
      BY <1>2, <2>1, <2>3, <2>4 DEF CallbackHasMessage, s
    <2>6. UnusedIsEmpty'
      BY <1>1, <2>1, <2>4 DEF DeliveryInv, UnusedIsEmpty, Queued, QueuedAt
    <2> QED
      BY <2>5, <2>6 DEF DeliveryInv
  <1>5. CASE ~PumpDone(t) /\ ~PumpDrop(t) /\ ~CallbackReturn(t)
    <2>1. UNCHANGED <<heap, queue_>>
      BY <1>5
      DEF RecvStep, RecvCall, RecvWait, SpuriousWakeup, RecvEmpty, RecvNonEmpty,
          RecvLock, PumpStep, PumpSkip, PumpCall, CallbackThrow, factoryVars, endpointVars
    <2>2. UnusedIsEmpty'
      BY <1>1, <2>1 DEF DeliveryInv, UnusedIsEmpty, Queued, QueuedAt
    <2>3. recvAt'[t] = "callback" => PumpCall(t)
      BY <1>5
      DEF RecvStep, RecvCall, RecvWait, SpuriousWakeup, RecvEmpty, RecvNonEmpty,
          RecvLock, PumpStep, PumpSkip, PumpCall, Pumping, CallbackThrow, Moved, TypeOK
    <2>4. PumpCall(t) => pos'[t] <= Len(heap'[CurrentMQ(t)'.storage])
      BY <2>1 DEF PumpCall, Pumping, CurrentMQ
    <2>5. CallbackHasMessage'
      BY <1>2, <2>1, <2>3, <2>4 DEF CallbackHasMessage
    <2> QED
      BY <2>2, <2>5 DEF DeliveryInv
  <1> QED
    BY <1>3, <1>4, <1>5

LEMMA OwnerKeepsDelivery ==
  ASSUME TypedControl, StorageInv, DeliveryInv, NEW mb \in Mailboxes, OwnerStep(mb)
  PROVE  DeliveryInv'
  <1>1. \A u \in Threads, r \in Storage : Holds(u, r)' <=> Holds(u, r)
    BY DEF OwnerStep, Claim, On, Off, Recreate, sendVars, Holds
  <1>2. CASE Recreate(mb)
    <2>1. \A r \in Storage : IF r \in Pending(mb) THEN heap'[r] = <<>> ELSE heap'[r] = heap[r]
      BY <1>2, SubmittedIsEmpty DEF Recreate
    <2>2. \A r : r \in Pending(mb) <=> \E i \in 1..Len(queue_[mb]) : QueuedAt(mb, i, r)
      BY DEF Pending, QueuedAt
    <2>3. \A nb \in Mailboxes \ {mb} : queue_'[nb] = queue_[nb]
      BY <1>2 DEF Recreate, TypedControl, TypeOK
    <2>4. \A r \in Storage : Queued(r) => Queued(r)' \/ r \in Pending(mb)
      BY <2>2, <2>3 DEF Queued, QueuedAt
    <2>5. UnusedIsEmpty'
      BY <1>1, <2>1, <2>4 DEF DeliveryInv, UnusedIsEmpty
    <2>6. ASSUME NEW u \in Threads, recvAt'[u] = "callback"
          PROVE  pos'[u] <= Len(heap'[CurrentMQ(u)'.storage])
      <3>1. Undisturbed(u) /\ IsPumped(u) /\ recvAt[u] = "callback"
        BY <2>6, OwnerDisturbsNobody DEF Undisturbed, IsPumped
      <3>2. Inbox[u] # mb
        BY <1>2, <3>1 DEF Recreate
      <3>3. CurrentMQ(u).storage \notin Pending(mb) /\ CurrentMQ(u).storage \in Storage
        BY <2>2, <3>1, <3>2, PumpedIsQueued DEF StorageInv, NoStorageAliased
      <3> QED
        BY <2>1, <3>1, <3>3 DEF DeliveryInv, CallbackHasMessage, Undisturbed
    <2> QED
      BY <2>5, <2>6 DEF DeliveryInv, CallbackHasMessage
  <1>3. CASE ~Recreate(mb)
    <2>1. UNCHANGED <<heap, queue_, recvAt, pos>>
      BY <1>3 DEF OwnerStep, Claim, On, Off, factoryVars, recvVars
    <2> QED
      BY <1>1, <2>1
      DEF DeliveryInv, UnusedIsEmpty, CallbackHasMessage, Queued, QueuedAt, CurrentMQ
  <1> QED
    BY <1>2, <1>3

LEMMA DeliveryInvariant == Spec => []DeliveryInv
  <1>1. Init => DeliveryInv
    BY DEF Init, FactoryInit, DeliveryInv, UnusedIsEmpty, CallbackHasMessage
  <1>2. TypedControl /\ StorageInv /\ DeliveryInv /\ [Next]_vars => DeliveryInv'
    <2> SUFFICES ASSUME TypedControl, StorageInv, DeliveryInv, [Next]_vars PROVE DeliveryInv'
      OBVIOUS
    <2>1. CASE Next
      BY <2>1, ClientKeepsDelivery, SendKeepsDelivery, RecvKeepsDelivery, OwnerKeepsDelivery
      DEF Next
    <2>2. CASE UNCHANGED vars
      <3>1. UNCHANGED <<heap, queue_, recvAt, pos, mq, sendAt>>
        BY <2>2 DEF vars, factoryVars, endpointVars, recvVars, sendVars
      <3> QED
        BY <3>1
        DEF DeliveryInv, UnusedIsEmpty, CallbackHasMessage, Queued, QueuedAt, CurrentMQ, Holds
    <2> QED
      BY <2>1, <2>2
  <1> QED
    BY <1>1, <1>2, Typed, StorageInvariant, PTL DEF Spec
-----------------------------------------------------------------------------
(* What the abstract mailboxes see of a step.                                *)

LEMMA AbstractIsMap ==
  /\ Outboxes = [t \in Threads |-> Outboxes[t]]
  /\ Batches = [mb \in Mailboxes |-> Batches[mb]]
  /\ Handlings = [mb \in Mailboxes |-> Handlings[mb]]
  /\ Outboxes' = [t \in Threads |-> Outboxes'[t]]
  /\ Batches' = [mb \in Mailboxes |-> Batches'[mb]]
  /\ Handlings' = [mb \in Mailboxes |-> Handlings'[mb]]
  BY DEF Outboxes, Batches, Handlings

LEMMA OutboxStays ==
  ASSUME TypeOK, TypeOK', NEW u \in Threads,
         \A s \in Storage : Holds(u, s)' <=> Holds(u, s),
         \A s \in Storage : Holds(u, s) => heap'[s] = heap[s]
  PROVE  Outboxes'[u] = Outboxes[u]
  <1>1. mq[u].storage \in Storage /\ mq'[u].storage \in Storage
    BY DEF TypeOK, Handle
  <1>2. CASE Holds(u, mq[u].storage)
    BY <1>1, <1>2 DEF Outboxes, Outbox, Holds
  <1>3. CASE ~Holds(u, mq[u].storage)
    BY <1>1, <1>3 DEF Outboxes, Outbox, Holds
  <1> QED
    BY <1>2, <1>3

LEMMA BatchesStay ==
  ASSUME NEW mb \in Mailboxes,
         Len(queue_'[mb]) = Len(queue_[mb]),
         \A i \in 1..Len(queue_[mb]) : Batch(mb, i)' = Batch(mb, i)
  PROVE  Batches'[mb] = Batches[mb]
  BY DEF Batches

\* A mailbox that a step does not touch, nor its holder, nor what is queued in it.
MailboxUntouched(mb) ==
  /\ queue_'[mb] = queue_[mb]
  /\ mtx_'[mb] = mtx_[mb]
  /\ mtx_[mb] # NoThread =>
       recvAt'[mtx_[mb]] = recvAt[mtx_[mb]] /\ pos'[mtx_[mb]] = pos[mtx_[mb]]
  /\ \A s \in Storage : (\E i \in 1..Len(queue_[mb]) : QueuedAt(mb, i, s)) =>
       heap'[s] = heap[s]

LEMMA HolderIsThere ==
  ASSUME TypedControl, NEW mb \in Mailboxes, mtx_[mb] # NoThread
  PROVE  mtx_[mb] \in Threads /\ Inbox[mtx_[mb]] = mb /\ InRecvLock(mtx_[mb])
  BY DEF TypedControl, TypeOK, ControlInv

LEMMA UntouchedStays ==
  ASSUME TypedControl, NEW mb \in Mailboxes, MailboxUntouched(mb)
  PROVE  Batches'[mb] = Batches[mb] /\ Handlings'[mb] = Handlings[mb]
  <1>1. \A i \in 1..Len(queue_[mb]) :
          queue_[mb][i].storage \in Storage /\ QueuedAt(mb, i, queue_[mb][i].storage)
    <2>1. queue_[mb] \in Seq(Handle(Storage))
      BY DEF TypedControl, TypeOK
    <2>2. \A i \in 1..Len(queue_[mb]) : queue_[mb][i] \in Handle(Storage)
      BY <2>1, ElementOfSeq
    <2> QED
      BY <2>2 DEF Handle, QueuedAt
  <1>2. \A i \in 1..Len(queue_[mb]) : Batch(mb, i)' = Batch(mb, i)
    BY <1>1 DEF MailboxUntouched, Batch, Taken
  <1>3. Handling(mb)' = Handling(mb)
    <2>1. CASE mtx_[mb] = NoThread
      BY <2>1 DEF MailboxUntouched, Handling
    <2>2. CASE mtx_[mb] # NoThread /\ recvAt[mtx_[mb]] # "callback"
      BY <2>2 DEF MailboxUntouched, Handling
    <2>3. CASE mtx_[mb] # NoThread /\ recvAt[mtx_[mb]] = "callback"
      <3>1. PICK h \in Threads : h = mtx_[mb] /\ Inbox[h] = mb /\ IsPumped(h)
        BY <2>3, HolderIsThere DEF IsPumped
      <3>2. CurrentMQ(h).storage \in Storage /\ 1 \in 1..Len(queue_[mb])
            /\ QueuedAt(mb, 1, CurrentMQ(h).storage)
        BY <3>1, PumpedIsQueued
      <3>3. heap'[CurrentMQ(h).storage] = heap[CurrentMQ(h).storage]
        BY <3>2 DEF MailboxUntouched
      <3>4. pos'[h] = pos[h] /\ queue_'[Inbox[h]] = queue_[Inbox[h]]
        BY <2>3, <3>1 DEF MailboxUntouched
      <3>5. Current(h)' = Current(h)
        BY <3>3, <3>4 DEF Current, CurrentMQ
      <3> QED
        BY <2>3, <3>1, <3>5 DEF MailboxUntouched, Handling
    <2> QED
      BY <2>1, <2>2, <2>3
  <1> QED
    BY <1>2, <1>3, BatchesStay DEF MailboxUntouched, Handlings

\* Client code and send(), up to the mutex and after it, touch no mailbox.
LEMMA ClientTouchesNoMailbox ==
  ASSUME TypedControl, StorageInv, UNCHANGED <<queue_, mtx_, recvAt, pos, callbacks_>>,
         \A s \in Storage : heap'[s] = heap[s] \/ (\E t \in Threads : Holds(t, s))
  PROVE  Batches' = Batches /\ Handlings' = Handlings /\ callbacks_' = callbacks_
  <1>1. \A mb \in Mailboxes : MailboxUntouched(mb)
    BY DEF MailboxUntouched, StorageInv, NoStorageAliased
  <1>2. \A mb \in Mailboxes : Batches'[mb] = Batches[mb] /\ Handlings'[mb] = Handlings[mb]
    BY <1>1, UntouchedStays
  <1> QED
    BY <1>2, AbstractIsMap

\* A step of recv() touches one mailbox and no outbox.
LEMMA RecvTouchesInbox ==
  ASSUME TypedControl, TypeOK', StorageInv, NEW t \in Threads, RecvStep(t)
  PROVE  /\ Outboxes' = Outboxes
         /\ callbacks_' = callbacks_
         /\ \A mb \in Mailboxes \ {Inbox[t]} :
              Batches'[mb] = Batches[mb] /\ Handlings'[mb] = Handlings[mb]
  <1> USE DEF TypedControl
  <1>1. UNCHANGED <<mq, sendAt, callbacks_>>
    BY DEF RecvStep, RecvCall, RecvWait, SpuriousWakeup, RecvEmpty, RecvNonEmpty,
       RecvLock, PumpStep, PumpSkip, PumpDrop, PumpCall, PumpDone, CallbackReturn,
       CallbackThrow, sendVars, endpointVars
  <1>2. \A r \in Storage : heap'[r] = heap[r] \/ (IsPumped(t) /\ r = CurrentMQ(t).storage)
    <2>1. CASE PumpDone(t)
      BY <2>1, SubmittedIsEmpty DEF PumpDone, IsPumped
    <2>2. CASE PumpDrop(t) \/ CallbackReturn(t)
      <3>1. IsPumped(t) /\ FreeAt(CurrentMQ(t).storage, pos[t])
        BY <2>2 DEF PumpDrop, CallbackReturn, Pumping, IsPumped
      <3> QED
        BY <3>1, PumpedIsQueued, FreedLength
    <2>3. CASE ~PumpDone(t) /\ ~PumpDrop(t) /\ ~CallbackReturn(t)
      BY <2>3
      DEF RecvStep, RecvCall, RecvWait, SpuriousWakeup, RecvEmpty, RecvNonEmpty,
          RecvLock, PumpStep, PumpSkip, PumpCall, CallbackThrow, factoryVars
    <2> QED
      BY <2>1, <2>2, <2>3
  <1>3. Outboxes' = Outboxes
    <2>1. \A u \in Threads, s \in Storage : Holds(u, s)' <=> Holds(u, s)
      BY <1>1 DEF Holds
    <2>2. \A u \in Threads, s \in Storage : Holds(u, s) => heap'[s] = heap[s]
      BY <1>2, HeldIsNotPumped
    <2>3. \A u \in Threads : Outboxes'[u] = Outboxes[u]
      BY <2>1, <2>2, OutboxStays
    <2> QED
      BY <2>3, AbstractIsMap
  <1>4. ASSUME NEW mb \in Mailboxes \ {Inbox[t]}
        PROVE  MailboxUntouched(mb)
    <2>1. /\ queue_'[mb] = queue_[mb] /\ mtx_'[mb] = mtx_[mb]
          /\ \A u \in Threads \ {t} : recvAt'[u] = recvAt[u] /\ pos'[u] = pos[u]
      BY DEF RecvStep, RecvCall, RecvWait, SpuriousWakeup, RecvEmpty, RecvNonEmpty,
         RecvLock, PumpStep, PumpSkip, PumpDrop, PumpCall, PumpDone, CallbackReturn,
         CallbackThrow, endpointVars, Moved, Advance, TypeOK
    <2>2. mtx_[mb] # NoThread => mtx_[mb] \in Threads \ {t}
      BY HolderIsThere
    <2>3. ASSUME NEW s \in Storage, NEW i \in 1..Len(queue_[mb]), QueuedAt(mb, i, s)
          PROVE  heap'[s] = heap[s]
      <3>1. IsPumped(t) => s # CurrentMQ(t).storage
        BY <2>3, PumpedIsQueued DEF StorageInv, NoStorageAliased
      <3> QED
        BY <1>2, <3>1
    <2> QED
      BY <2>1, <2>2, <2>3 DEF MailboxUntouched
  <1> QED
    BY <1>1, <1>3, <1>4, UntouchedStays

-----------------------------------------------------------------------------
(* Each step, seen from outside.                                             *)

Simulated ==
  Abstract!Next \/ UNCHANGED <<Outboxes, Batches, Handlings, callbacks_>>

\* A thread that writes in its own MessageQueue changes no other outbox.
LEMMA ClientTouchesOutbox ==
  ASSUME TypedControl, TypeOK', StorageInv, NEW t \in Threads,
         \A u \in Threads \ {t} : mq'[u] = mq[u] /\ sendAt'[u] = sendAt[u],
         \A s \in Storage : heap'[s] = heap[s] \/ Holds(t, s)
  PROVE  /\ Outboxes' = [Outboxes EXCEPT ![t] = Outboxes'[t]]
         /\ Outboxes'[t] = Outboxes[t] => Outboxes' = Outboxes
  <1>1. \A u \in Threads \ {t} : \A s \in Storage : Holds(u, s)' <=> Holds(u, s)
    BY DEF Holds
  <1>2. \A u \in Threads \ {t} : \A s \in Storage : Holds(u, s) => heap'[s] = heap[s]
    BY DEF StorageInv, NoStorageAliased
  <1>3. \A u \in Threads \ {t} : Outboxes'[u] = Outboxes[u]
    BY <1>1, <1>2, OutboxStays DEF TypedControl
  <1>4. Outboxes' = [Outboxes EXCEPT ![t] = Outboxes'[t]]
    BY <1>3, AbstractIsMap, OneChanged
  <1>5. Outboxes'[t] = Outboxes[t] => Outboxes' = Outboxes
    BY <1>3, AbstractIsMap
  <1> QED
    BY <1>4, <1>5

LEMMA ClientSimulated ==
  ASSUME TypedControl, TypeOK', StorageInv, DeliveryInv, NEW t \in Threads, ClientStep(t)
  PROVE  Simulated
  <1> USE DEF TypedControl
  <1> DEFINE s == mq[t].storage
  <1>1. s \in Storage /\ heap[s] \in Seq(Message)
    BY DEF TypeOK, FactoryTypeOK, Handle
  <1>2. UNCHANGED <<queue_, mtx_, callbacks_, recvAt, pos, sendAt>>
    BY DEF ClientStep, GetMQ, PushTrivial, PushManaged, Push, SealMQ, PushManagedSealed,
       AbandonMQ, endpointVars, recvVars, sendVars
  <1>3. sendAt[t] = "idle" /\ \A u \in Threads \ {t} : mq'[u] = mq[u]
    BY DEF ClientStep, GetMQ, PushTrivial, PushManaged, Push, SealMQ, PushManagedSealed,
       AbandonMQ, InClientCode, TypeOK
  <1>4. Outboxes[t] = IF mq[t].valid THEN heap[s] ELSE <<>>
    BY <1>3 DEF Outboxes, Outbox
  <1>5. Outboxes'[t] = IF mq'[t].valid THEN heap'[mq'[t].storage] ELSE <<>>
    BY <1>2, <1>3 DEF Outboxes, Outbox
  <1>6. ASSUME \A r \in Storage : heap'[r] = heap[r] \/ Holds(t, r)
        PROVE  /\ Batches' = Batches /\ Handlings' = Handlings
               /\ Outboxes' = [Outboxes EXCEPT ![t] = Outboxes'[t]]
               /\ Outboxes'[t] = Outboxes[t] => Outboxes' = Outboxes
    BY <1>2, <1>3, <1>6, ClientTouchesNoMailbox, ClientTouchesOutbox
  <1>7. CASE GetMQ(t)
    <2>1. PICK r \in Storage : Get(r) /\ mq' = [mq EXCEPT ![t] = NewHandle(r)]
      BY <1>7 DEF GetMQ
    <2>2. heap' = heap /\ (cQueue[r] > 0 \/ r = numActiveQueues_ + 1)
      BY <2>1 DEF Get
    <2>3. (\A u \in Threads : ~Holds(u, r)) /\ ~Queued(r)
      <3>1. CASE cQueue[r] > 0
        BY <3>1 DEF StorageInv, NoStorageAliased, Queued
      <3>2. CASE r = numActiveQueues_ + 1
        <4>1. r > numActiveQueues_
          BY <3>2, MaxStoragesAssumption DEF TypeOK, FactoryTypeOK
        <4> QED
          BY <4>1 DEF StorageInv, NowhereYet
      <3> QED
        BY <2>2, <3>1, <3>2
    <2>4. heap[r] = <<>>
      BY <2>3 DEF DeliveryInv, UnusedIsEmpty
    <2>5. ~mq[t].valid /\ mq'[t] = NewHandle(r)
      BY <1>7, <2>1 DEF GetMQ, TypeOK
    <2>6. Outboxes'[t] = Outboxes[t]
      BY <1>4, <1>5, <2>2, <2>4, <2>5 DEF NewHandle
    <2> QED
      BY <1>2, <1>6, <2>2, <2>6 DEF Simulated
  <1>8. ASSUME NEW msg \in Message, Push(t, msg) PROVE Simulated
    <2>1. mq[t].valid /\ mq' = mq /\ Holds(t, s)
      BY <1>3, <1>8 DEF Push, Writable, Holds
    <2>2. /\ heap'[s] = Append(heap[s], msg)
          /\ \A r \in Storage : heap'[r] = heap[r] \/ r = s
      BY <1>1, <1>8 DEF Push, PushTo, TypeOK, FactoryTypeOK
    <2>3. Outboxes'[t] = Append(Outboxes[t], msg)
      BY <1>4, <1>5, <2>1, <2>2
    <2>4. Outboxes' = [Outboxes EXCEPT ![t] = Append(Outboxes[t], msg)]
          /\ Batches' = Batches /\ Handlings' = Handlings
      BY <1>6, <2>1, <2>2, <2>3
    <2>5. /\ msg.type \in MsgTypes /\ msg.managed \in BOOLEAN
          /\ msg.payload \in Payloads \union {0}
          /\ msg = [type |-> msg.type, managed |-> msg.managed, payload |-> msg.payload]
      BY DEF Message
    <2>6. Abstract!Write(t)
      BY <1>2, <2>4, <2>5 DEF Abstract!Write
    <2> QED
      BY <2>6 DEF Simulated, Abstract!Next
  <1>9. CASE SealMQ(t)
    <2>1. heap' = heap /\ mq'[t].valid = mq[t].valid /\ mq'[t].storage = s
      BY <1>9 DEF SealMQ, factoryVars, Seal, TypeOK, Handle
    <2> QED
      BY <1>2, <1>4, <1>5, <1>6, <2>1 DEF Simulated
  <1>10. CASE PushManagedSealed(t)
    <2>1. UNCHANGED <<heap, mq>>
      BY <1>10 DEF PushManagedSealed
    <2> QED
      BY <1>2, <1>4, <1>5, <1>6, <2>1 DEF Simulated
  <1>11. CASE AbandonMQ(t)
    <2>1. mq[t].valid /\ Holds(t, s)
      BY <1>3, <1>11 DEF AbandonMQ, Holds
    <2>2. \A r \in Storage : heap'[r] = heap[r] \/ r = s
      BY <1>11, SubmittedIsEmpty DEF AbandonMQ
    <2>3. ~mq'[t].valid
      BY <1>11 DEF AbandonMQ, MarkInvalid, Seal, TypeOK, Handle
    <2>4. Outboxes' = [Outboxes EXCEPT ![t] = <<>>]
          /\ Batches' = Batches /\ Handlings' = Handlings
      BY <1>5, <1>6, <2>1, <2>2, <2>3
    <2>5. Abstract!Abandon(t)
      BY <1>2, <2>4 DEF Abstract!Abandon
    <2> QED
      BY <2>5 DEF Simulated, Abstract!Next
  <1> QED
    BY <1>7, <1>8, <1>9, <1>10, <1>11, PushedMessagesAreMessages
    DEF ClientStep, PushTrivial, PushManaged

LEMMA SendSimulated ==
  ASSUME TypedControl, TypeOK', StorageInv, NEW t \in Threads, SendStep(t)
  PROVE  Simulated
  <1> USE DEF TypedControl
  <1>1. heap' = heap /\ callbacks_' = callbacks_ /\ mtx_' = mtx_ /\ pos' = pos
        /\ \A u \in Threads \ {t} : mq'[u] = mq[u] /\ sendAt'[u] = sendAt[u]
    BY DEF SendStep, SendSeal, SendPush, SendInvalidate, factoryVars, endpointVars, recvVars,
       TypeOK
  <1>2. CASE SendSeal(t) \/ SendInvalidate(t)
    <2>1. Outboxes'[t] = Outboxes[t]
      <3>1. CASE SendSeal(t)
        BY <1>1, <3>1
        DEF SendSeal, InClientCode, Seal, TypeOK, Handle, Outboxes, Outbox
      <3>2. CASE SendInvalidate(t)
        BY <1>1, <3>2
        DEF SendInvalidate, MarkInvalid, TypeOK, Handle, Outboxes, Outbox
      <3> QED
        BY <1>2, <3>1, <3>2
    <2>2. UNCHANGED <<queue_, recvAt>>
      BY <1>2 DEF SendSeal, SendInvalidate, endpointVars, recvVars
    <2> QED
      BY <1>1, <2>1, <2>2, ClientTouchesNoMailbox, ClientTouchesOutbox DEF Simulated
  <1>3. CASE SendPush(t)
    <2> DEFINE mb == dest[t]
    <2>1. mb \in Mailboxes /\ queue_[mb] \in Seq(Handle(Storage)) /\ mq[t] \in Handle(Storage)
          /\ mq[t].valid
      BY <1>3 DEF SendPush, ControlInv, TypeOK
    <2>2. /\ queue_'[mb] = Append(queue_[mb], mq[t]) /\ mtx_[mb] = NoThread
          /\ \A nb \in Mailboxes \ {mb} : queue_'[nb] = queue_[nb]
          /\ sendAt[t] = "sealed" /\ sendAt'[t] = "pushed"
      BY <1>3, <2>1 DEF SendPush, Free, TypeOK
    <2> HIDE DEF mb
    <2>3. Outboxes'[t] = <<>> /\ Outboxes[t] = heap[mq[t].storage]
      BY <2>1, <2>2 DEF Outboxes, Outbox
    <2>4. Outboxes' = [Outboxes EXCEPT ![t] = <<>>]
      BY <1>1, <2>3, ClientTouchesOutbox
    <2>5. \A nb \in Mailboxes \ {mb} : MailboxUntouched(nb)
      <3>1. \A u \in Threads : InRecvLock(u) => recvAt'[u] = recvAt[u]
        BY <1>3 DEF SendPush, Awake, InRecvLock
      <3> QED
        BY <1>1, <2>2, <3>1, HolderIsThere DEF MailboxUntouched
    <2>6. \A nb \in Mailboxes \ {mb} :
            Batches'[nb] = Batches[nb] /\ Handlings'[nb] = Handlings[nb]
      BY <2>5, UntouchedStays
    <2>7. Handlings' = Handlings
      <3>1. Handlings'[mb] = Handlings[mb]
        BY <1>1, <2>1, <2>2 DEF Handlings, Handling
      <3> QED
        BY <2>6, <3>1, AbstractIsMap
    <2>8. Batches'[mb] = Append(Batches[mb], Outboxes[t])
      <3>1. /\ Len(queue_[mb]) \in Nat /\ Len(queue_'[mb]) = Len(queue_[mb]) + 1
            /\ queue_'[mb][Len(queue_[mb]) + 1] = mq[t]
            /\ \A i \in 1..Len(queue_[mb]) : queue_'[mb][i] = queue_[mb][i]
        BY <2>1, <2>2
      <3>2. /\ Batches[mb] = [i \in 1..Len(queue_[mb]) |-> heap[queue_[mb][i].storage]]
            /\ Batches'[mb] = [i \in 1..Len(queue_[mb]) + 1 |-> heap[queue_'[mb][i].storage]]
        BY <1>1, <2>1, <2>2, <3>1 DEF Batches, Batch
      <3>3. Batches'[mb] = [i \in 1..Len(queue_[mb]) + 1 |->
                              IF i = Len(queue_[mb]) + 1 THEN Outboxes[t] ELSE Batches[mb][i]]
        BY <2>3, <3>1, <3>2
      <3>4. \A i \in 1..Len(queue_[mb]) : heap[queue_[mb][i].storage] \in Seq(Message)
        <4>1. \A i \in 1..Len(queue_[mb]) : queue_[mb][i] \in Handle(Storage)
          BY <2>1, ElementOfSeq
        <4> QED
          BY <4>1 DEF Handle, TypeOK, FactoryTypeOK
      <3>5. Batches[mb] \in [1..Len(queue_[mb]) -> Seq(Message)]
        BY <3>2, <3>4
      <3> QED
        <4>1. Outboxes[t] \in Seq(Message)
          BY <2>1, <2>3 DEF Handle, TypeOK, FactoryTypeOK
        <4>2. PICK n \in Nat : n = Len(queue_[mb])
          BY <3>1
        <4>3. /\ Batches[mb] \in [1..n -> Seq(Message)]
              /\ Batches'[mb] = [i \in 1..n + 1 |-> IF i = n + 1 THEN Outboxes[t]
                                                  ELSE Batches[mb][i]]
          BY <3>3, <3>5, <4>2
        <4> QED
          BY <4>1, <4>3, AppendedTo
    <2>9. Batches' = [Batches EXCEPT ![mb] = Append(Batches[mb], Outboxes[t])]
      BY <2>1, <2>6, <2>8, AbstractIsMap, OneChanged
    <2>10. Abstract!Send(t, mb)
      BY <1>1, <2>4, <2>7, <2>9 DEF Abstract!Send
    <2> QED
      BY <2>1, <2>10 DEF Simulated, Abstract!Next
  <1> QED
    BY <1>2, <1>3 DEF SendStep

\* The mailbox of a thread that pumps, and the batch at its front.
LEMMA PumpedMailbox ==
  ASSUME TypedControl, NEW t \in Threads, IsPumped(t)
  PROVE  LET mb == Inbox[t]
             s == CurrentMQ(t).storage
         IN /\ mb \in Mailboxes /\ mtx_[mb] = t /\ t # NoThread
            /\ s \in Storage /\ heap[s] \in Seq(Message)
            /\ pos[t] \in Nat \ {0} /\ Taken(t) \in Nat
            /\ queue_[mb] \in Seq(Handle(Storage)) /\ queue_[mb] # <<>>
            /\ queue_[mb][1].storage = s
            /\ 1 \in 1..Len(queue_[mb]) /\ Len(queue_[mb]) \in Nat
            /\ \A i \in 1..Len(queue_[mb]) : queue_[mb][i].storage \in Storage
  <1> DEFINE mb == Inbox[t]
  <1> DEFINE s == CurrentMQ(t).storage
  <1>1. /\ mb \in Mailboxes /\ mtx_[mb] = t /\ t # NoThread
        /\ s \in Storage /\ heap[s] \in Seq(Message) /\ pos[t] \in Nat \ {0}
        /\ queue_[mb] \in Seq(Handle(Storage)) /\ queue_[mb] # <<>>
        /\ 1 \in 1..Len(queue_[mb])
    BY PumpedIsQueued, ThreadsAssumption DEF TypedControl, TypeOK, FactoryTypeOK
  <1>2. queue_[mb][1].storage = s
    BY <1>1 DEF CurrentMQ
  <1>3. \A i \in 1..Len(queue_[mb]) : queue_[mb][i].storage \in Storage
    <2>1. \A i \in 1..Len(queue_[mb]) : queue_[mb][i] \in Handle(Storage)
      BY <1>1, ElementOfSeq
    <2> QED
      BY <2>1 DEF Handle
  <1>4. Taken(t) \in Nat
    BY <1>1 DEF Taken
  <1> QED
    BY <1>1, <1>2, <1>3, <1>4

\* The same mailbox seen from outside: what t has taken is gone from its front.
LEMMA PumpedBatches ==
  ASSUME TypedControl, NEW t \in Threads, IsPumped(t)
  PROVE  LET mb == Inbox[t]
             s == CurrentMQ(t).storage
         IN /\ Batches[mb] = [i \in 1..Len(queue_[mb]) |-> Batch(mb, i)]
            /\ Batches[mb] \in Seq(Seq(Message)) /\ Len(Batches[mb]) = Len(queue_[mb])
            /\ Batches[mb] # <<>> /\ Head(Batches[mb]) = Batches[mb][1]
            /\ Batches[mb][1] = SubSeq(heap[s], Taken(t) + 1, Len(heap[s]))
            /\ Handlings[mb] = IF recvAt[t] = "callback" THEN Current(t) ELSE NoMessage
  <1> DEFINE mb == Inbox[t]
  <1> DEFINE s == CurrentMQ(t).storage
  <1>1. /\ mb \in Mailboxes /\ mtx_[mb] = t /\ t # NoThread
        /\ heap[s] \in Seq(Message) /\ Taken(t) \in Nat
        /\ queue_[mb][1].storage = s /\ 1 \in 1..Len(queue_[mb]) /\ Len(queue_[mb]) \in Nat
        /\ \A i \in 1..Len(queue_[mb]) : queue_[mb][i].storage \in Storage
    BY PumpedMailbox
  <1>2. Batches[mb] = [i \in 1..Len(queue_[mb]) |-> Batch(mb, i)]
    BY <1>1 DEF Batches
  <1>3. Batch(mb, 1) = SubSeq(heap[s], Taken(t) + 1, Len(heap[s]))
    BY <1>1 DEF Batch
  <1>4. SubSeq(heap[s], Taken(t) + 1, Len(heap[s])) \in Seq(Message)
    <2>1. /\ Taken(t) + 1 \in Int /\ Len(heap[s]) \in Int
          /\ \A i \in Taken(t) + 1..Len(heap[s]) : heap[s][i] \in Message
      BY <1>1, ElementOfSeq
    <2> QED
      BY <2>1, SubSeqProperties
  <1>5. \A i \in 1..Len(queue_[mb]) : Batch(mb, i) \in Seq(Message)
    BY <1>1, <1>3, <1>4 DEF Batch, TypedControl, TypeOK, FactoryTypeOK
  <1>6. Batches[mb] \in [1..Len(queue_[mb]) -> Seq(Message)]
    BY <1>2, <1>5
  <1>7. Batches[mb] \in Seq(Seq(Message)) /\ Len(Batches[mb]) = Len(queue_[mb])
    BY <1>1, <1>6, FunctionIsSeq
  <1>8. Batches[mb] # <<>> /\ Head(Batches[mb]) = Batches[mb][1]
    BY <1>1, <1>7
  <1>9. Handlings[mb] = IF recvAt[t] = "callback" THEN Current(t) ELSE NoMessage
    BY <1>1 DEF Handlings, Handling
  <1> QED
    BY <1>1, <1>2, <1>3, <1>7, <1>8, <1>9

\* No other pending batch is in the storage that is being pumped.
LEMMA OtherBatches ==
  ASSUME TypedControl, StorageInv, NEW t \in Threads, IsPumped(t),
         NEW i \in 1..Len(queue_[Inbox[t]]), i # 1
  PROVE  queue_[Inbox[t]][i].storage \in Storage \ {CurrentMQ(t).storage}
  <1>1. /\ QueuedAt(Inbox[t], 1, CurrentMQ(t).storage) /\ Inbox[t] \in Mailboxes
        /\ 1 \in 1..Len(queue_[Inbox[t]])
    BY PumpedIsQueued
  <1>2. queue_[Inbox[t]][i].storage \in Storage
    BY PumpedMailbox
  <1>3. QueuedAt(Inbox[t], i, queue_[Inbox[t]][i].storage)
    BY DEF QueuedAt
  <1> QED
    BY <1>1, <1>2, <1>3 DEF StorageInv, NoStorageAliased

\* The thread goes over the message at pos, with or without a callback.
LEMMA MessageTaken ==
  ASSUME TypedControl, TypeOK', StorageInv, NEW t \in Threads, Pumping(t),
         UNCHANGED <<queue_, mtx_>>, Taken(t)' = pos[t],
         LET s == CurrentMQ(t).storage
         IN /\ \A r \in Storage \ {s} : heap'[r] = heap[r]
            /\ Len(heap'[s]) = Len(heap[s])
            /\ \A j \in 1..Len(heap[s]) : j # pos[t] => heap'[s][j] = heap[s][j]
  PROVE  LET mb == Inbox[t]
         IN /\ Batches[mb] # <<>> /\ Handlings[mb] = NoMessage
            /\ Head(Batches[mb]) # <<>>
            /\ Head(Head(Batches[mb])) = Current(t)
            /\ Batches'[mb] = [Batches[mb] EXCEPT ![1] = Tail(Batches[mb][1])]
  <1> DEFINE mb == Inbox[t]
  <1> DEFINE s == CurrentMQ(t).storage
  <1> DEFINE n == pos[t]
  <1>1. recvAt[t] = "pump" /\ IsPumped(t) /\ Taken(t) + 1 = n
    <2>1. recvAt[t] = "pump" /\ pos[t] \in Nat
      BY DEF Pumping, TypedControl, TypeOK
    <2> QED
      BY <2>1 DEF Taken, IsPumped
  <1>2. n \in 1..Len(heap[s]) /\ Len(heap[s]) \in n..Len(heap[s]) /\ heap[s] \in Seq(Message)
        /\ heap'[s] \in Seq(Message) /\ s \in Storage
    <2>1. s \in Storage /\ heap[s] \in Seq(Message) /\ n \in Nat \ {0}
      BY <1>1, PumpedMailbox
    <2>2. Len(heap[s]) \in Nat /\ n <= Len(heap[s])
      BY <2>1 DEF Pumping
    <2>3. heap'[s] \in Seq(Message)
      BY <2>1 DEF TypeOK, FactoryTypeOK
    <2> QED
      BY <2>1, <2>2, <2>3
  <1>3. Batches[mb] # <<>> /\ Handlings[mb] = NoMessage /\ Head(Batches[mb]) = Batches[mb][1]
        /\ Batches[mb][1] = SubSeq(heap[s], n, Len(heap[s]))
        /\ Batches[mb] = [i \in 1..Len(queue_[mb]) |-> Batch(mb, i)]
    BY <1>1, PumpedBatches
  <1>4. /\ Head(SubSeq(heap[s], n, Len(heap[s]))) = heap[s][n]
        /\ Tail(SubSeq(heap[s], n, Len(heap[s]))) = SubSeq(heap[s], n + 1, Len(heap[s]))
    BY <1>2, HeadTailOfSubSeq
  <1>5. SubSeq(heap[s], n, Len(heap[s])) # <<>>
    <2>1. /\ n \in Int /\ Len(heap[s]) \in Int
          /\ \A i \in n..Len(heap[s]) : heap[s][i] \in Message
      BY <1>2, ElementOfSeq
    <2>2. Len(SubSeq(heap[s], n, Len(heap[s]))) = Len(heap[s]) - n + 1
      BY <1>2, <2>1, SubSeqProperties
    <2> HIDE DEF n, s
    <2>3. Len(SubSeq(heap[s], n, Len(heap[s]))) # 0
      BY <1>2, <2>2
    <2> QED
      BY <2>3, EmptySeq
  <1>6. Batch(mb, 1)' = SubSeq(heap[s], n + 1, Len(heap[s]))
    <2>1. queue_'[mb][1].storage = s /\ mtx_'[mb] = t /\ t # NoThread
      BY <1>1, PumpedMailbox
    <2>2. Batch(mb, 1)' = SubSeq(heap'[s], n + 1, Len(heap'[s]))
      BY <2>1 DEF Batch
    <2>3. n + 1 \in Nat \ {0} /\ \A j \in 1..Len(heap[s]) : j >= n + 1 => heap'[s][j] = heap[s][j]
      BY <1>2
    <2> QED
      BY <1>2, <2>2, <2>3, SubSeqSame
  <1>7. ASSUME NEW i \in 1..Len(queue_[mb]), i # 1
        PROVE  Batch(mb, i)' = Batches[mb][i]
    <2>1. queue_[mb][i].storage \in Storage \ {s}
      BY <1>1, <1>7, OtherBatches
    <2>2. Batches[mb][i] = Batch(mb, i)
      BY <1>3
    <2> QED
      BY <1>7, <2>1, <2>2 DEF Batch
  <1>8. Batches'[mb] = [i \in 1..Len(queue_[mb]) |-> Batch(mb, i)']
    BY <1>1, PumpedMailbox DEF Batches
  <1>9. Batch(mb, 1)' = Tail(Batches[mb][1])
    BY <1>3, <1>4, <1>6
  <1>10. Batches'[mb] = [Batches[mb] EXCEPT ![1] = Tail(Batches[mb][1])]
    <2> DEFINE B == Batches[mb]
    <2>1. /\ Batches'[mb] = [i \in 1..Len(queue_[mb]) |-> IF i = 1 THEN Tail(B[1]) ELSE B[i]]
          /\ DOMAIN B = 1..Len(queue_[mb])
      <3>1. \A i \in 1..Len(queue_[mb]) :
              Batch(mb, i)' = IF i = 1 THEN Tail(B[1]) ELSE B[i]
        BY <1>7, <1>9
      <3>2. DOMAIN B = 1..Len(queue_[mb])
        BY <1>3
      <3> HIDE DEF B, mb
      <3> QED
        BY <1>8, <3>1, <3>2
    <2>2. B = [i \in 1..Len(queue_[mb]) |-> B[i]]
      BY <1>3
    <2> HIDE DEF B
    <2> QED
      BY <2>1, <2>2 DEF B
  <1> QED
    BY <1>3, <1>4, <1>5, <1>10 DEF Current

LEMMA SameSkipped == \A msg : Abstract!Skipped(msg) <=> Skipped(msg)
  BY DEF Abstract!Skipped, Skipped

\* pump_msgs: skipping, dropping, calling, and going on to the next MessageQueue.
LEMMA PumpSimulated ==
  ASSUME TypedControl, TypeOK', StorageInv, NEW t \in Threads, PumpStep(t)
  PROVE  Simulated
  <1> DEFINE mb == Inbox[t]
  <1> DEFINE s == CurrentMQ(t).storage
  <1>1. recvAt[t] = "pump" /\ IsPumped(t)
    BY DEF PumpStep, PumpSkip, PumpDrop, PumpCall, PumpDone, Pumping, IsPumped
  <1>2. /\ mb \in Mailboxes /\ mtx_[mb] = t /\ s \in Storage
        /\ heap[s] \in Seq(Message) /\ pos[t] \in Nat \ {0}
    BY <1>1, PumpedMailbox
  <1>3. /\ Outboxes' = Outboxes
        /\ callbacks_' = callbacks_
        /\ \A nb \in Mailboxes \ {mb} :
             Batches'[nb] = Batches[nb] /\ Handlings'[nb] = Handlings[nb]
    BY RecvTouchesInbox DEF RecvStep
  <1>4. /\ Batches' = [Batches EXCEPT ![mb] = Batches'[mb]]
        /\ Handlings' = [Handlings EXCEPT ![mb] = Handlings'[mb]]
        /\ Handlings'[mb] = Handlings[mb] => Handlings' = Handlings
    BY <1>2, <1>3, AbstractIsMap, OneChanged
  <1>5. recvAt'[t] # "callback" => Handlings'[mb] = NoMessage
    <2>1. mtx_'[mb] \in {t, NoThread}
      BY <1>2 DEF PumpStep, PumpSkip, PumpDrop, PumpCall, PumpDone, endpointVars,
         TypedControl, TypeOK
    <2> QED
      BY <1>2, <2>1 DEF Handlings, Handling
  <1>6. CASE PumpSkip(t) \/ PumpDrop(t) \/ PumpCall(t)
    <2>1. Pumping(t) /\ UNCHANGED <<queue_, mtx_>>
      BY <1>6 DEF PumpSkip, PumpDrop, PumpCall, endpointVars
    <2>2. Taken(t)' = pos[t]
      <3>1. CASE PumpSkip(t) \/ PumpDrop(t)
        <4>1. recvAt'[t] = "pump" /\ pos'[t] = pos[t] + 1
          BY <1>1, <3>1 DEF PumpSkip, PumpDrop, Advance, TypedControl, TypeOK
        <4> QED
          BY <1>2, <4>1 DEF Taken
      <3>2. CASE PumpCall(t)
        BY <3>2 DEF PumpCall, Moved, Taken, TypedControl, TypeOK
      <3> QED
        BY <1>6, <3>1, <3>2
    <2>3. /\ \A r \in Storage \ {s} : heap'[r] = heap[r]
          /\ Len(heap'[s]) = Len(heap[s])
          /\ \A j \in 1..Len(heap[s]) : j # pos[t] => heap'[s][j] = heap[s][j]
      <3>1. CASE PumpDrop(t)
        BY <1>2, <3>1, FreedLength DEF PumpDrop, TypedControl
      <3>2. CASE PumpSkip(t) \/ PumpCall(t)
        BY <3>2 DEF PumpSkip, PumpCall, factoryVars
      <3> QED
        BY <1>6, <3>1, <3>2
    <2>4. /\ Batches[mb] # <<>> /\ Handlings[mb] = NoMessage
          /\ Head(Batches[mb]) # <<>>
          /\ Head(Head(Batches[mb])) = Current(t)
          /\ Batches'[mb] = [Batches[mb] EXCEPT ![1] = Tail(Batches[mb][1])]
      BY <2>1, <2>2, <2>3, MessageTaken
    <2>5. Batches' = [Batches EXCEPT ![mb][1] = Tail(Batches[mb][1])]
      BY <1>4, <2>4
    <2>6. Abstract!Take(mb)
      BY <1>3, <2>4, <2>5 DEF Abstract!Take
    <2>7. Abstract!First(mb) = Current(t)
      BY <2>4 DEF Abstract!First
    <2>8. CASE PumpSkip(t) \/ PumpDrop(t)
      <3>1. recvAt'[t] # "callback"
        BY <1>1, <2>8 DEF PumpSkip, PumpDrop
      <3>2. Handlings' = Handlings
        BY <1>4, <1>5, <2>4, <3>1
      <3>3. Skipped(Current(t)) \/ Current(t).type \notin callbacks_[mb]
        BY <2>8 DEF PumpSkip, PumpDrop
      <3>4. Abstract!Drop(mb)
        BY <2>6, <2>7, <3>2, <3>3, SameSkipped DEF Abstract!Drop
      <3> QED
        BY <1>2, <3>4 DEF Simulated, Abstract!Next
    <2>9. CASE PumpCall(t)
      <3>1. recvAt'[t] = "callback" /\ UNCHANGED <<heap, pos, queue_, mtx_>>
        BY <2>9 DEF PumpCall, Moved, factoryVars, endpointVars, TypedControl, TypeOK
      <3>2. Handlings'[mb] = Current(t)
        BY <1>2, <3>1, ThreadsAssumption DEF Handlings, Handling, Current, CurrentMQ
      <3>3. ~Skipped(Current(t)) /\ Current(t).type \in callbacks_[mb]
        BY <2>9 DEF PumpCall
      <3>4. Abstract!Deliver(mb)
        BY <1>4, <2>6, <2>7, <3>2, <3>3, SameSkipped DEF Abstract!Deliver
      <3> QED
        BY <1>2, <3>4 DEF Simulated, Abstract!Next
    <2> QED
      BY <1>6, <2>8, <2>9
  <1>7. CASE PumpDone(t)
    <2>1. Batches[mb] # <<>> /\ Handlings[mb] = NoMessage /\ Head(Batches[mb]) = <<>>
      <3>1. Batches[mb] # <<>> /\ Handlings[mb] = NoMessage
            /\ Head(Batches[mb]) = SubSeq(heap[s], Taken(t) + 1, Len(heap[s]))
        BY <1>1, PumpedBatches
      <3>2. Taken(t) + 1 \in Int /\ Len(heap[s]) \in Int /\ Len(heap[s]) < Taken(t) + 1
        BY <1>1, <1>2, <1>7 DEF PumpDone, Taken
      <3> QED
        BY <3>1, <3>2, SubSeqEmpty
    <2>2. Handlings' = Handlings
      <3>1. recvAt'[t] # "callback"
        BY <1>7 DEF PumpDone, Moved, TypedControl, TypeOK
      <3> QED
        BY <1>4, <1>5, <2>1, <3>1
    <2>3. Batches'[mb] = Tail(Batches[mb])
      <3>1. /\ queue_[mb] \in Seq(Handle(Storage)) /\ queue_[mb] # <<>>
            /\ Len(queue_[mb]) \in Nat
        BY <1>1, PumpedMailbox
      <3>2. queue_'[mb] = Tail(queue_[mb]) /\ mtx_'[mb] = NoThread
        BY <1>2, <1>7 DEF PumpDone, TypedControl, TypeOK
      <3>3. /\ Len(queue_'[mb]) = Len(queue_[mb]) - 1
            /\ \A i \in 1..Len(queue_'[mb]) : queue_'[mb][i] = queue_[mb][i + 1]
        BY <3>1, <3>2, TailShifts
      <3>4. \A r \in Storage \ {s} : heap'[r] = heap[r]
        BY <1>7, SubmittedIsEmpty DEF PumpDone
      <3>5. /\ Batches[mb] = [i \in 1..Len(queue_[mb]) |-> Batch(mb, i)]
            /\ Batches[mb] \in Seq(Seq(Message)) /\ Len(Batches[mb]) = Len(queue_[mb])
        BY <1>1, PumpedBatches
      <3>6. Batches'[mb] = [i \in 1..Len(queue_'[mb]) |-> Batch(mb, i)']
        BY <1>2 DEF Batches
      <3>7. ASSUME NEW i \in 1..Len(queue_'[mb])
            PROVE  Batch(mb, i)' = Batches[mb][i + 1]
        <4>1. i + 1 \in 1..Len(queue_[mb]) /\ i + 1 # 1
          BY <3>1, <3>3
        <4>2. queue_[mb][i + 1].storage \in Storage \ {s}
          BY <1>1, <4>1, OtherBatches
        <4>3. Batch(mb, i)' = heap[queue_[mb][i + 1].storage]
          BY <3>2, <3>3, <3>4, <4>2 DEF Batch
        <4>4. Batches[mb][i + 1] = heap[queue_[mb][i + 1].storage]
          BY <3>5, <4>1 DEF Batch
        <4> QED
          BY <4>3, <4>4
      <3>8. Batches'[mb] = [i \in 1..Len(Batches[mb]) - 1 |-> Batches[mb][i + 1]]
        BY <3>3, <3>5, <3>6, <3>7
      <3> QED
        BY <2>1, <3>5, <3>8, ShiftedIsTail
    <2>4. Abstract!EndBatch(mb)
      BY <1>3, <1>4, <2>1, <2>2, <2>3 DEF Abstract!EndBatch
    <2> QED
      BY <1>2, <2>4 DEF Simulated, Abstract!Next
  <1> QED
    BY <1>6, <1>7 DEF PumpStep

\* The callback returns: the message it was given, now freed, is behind it.
LEMMA ReturnSimulated ==
  ASSUME TypedControl, TypeOK', StorageInv, DeliveryInv, NEW t \in Threads, CallbackReturn(t)
  PROVE  Simulated
  <1> DEFINE mb == Inbox[t]
  <1> DEFINE s == CurrentMQ(t).storage
  <1>1. recvAt[t] = "callback" /\ IsPumped(t) /\ recvAt'[t] = "pump"
        /\ UNCHANGED <<queue_, mtx_>>
    BY DEF CallbackReturn, IsPumped, Moved, endpointVars, TypedControl, TypeOK
  <1>2. /\ mb \in Mailboxes /\ mtx_[mb] = t /\ t # NoThread /\ s \in Storage
        /\ heap[s] \in Seq(Message) /\ pos[t] \in Nat \ {0} /\ queue_[mb][1].storage = s
    BY <1>1, PumpedMailbox
  <1>3. /\ Outboxes' = Outboxes
        /\ callbacks_' = callbacks_
        /\ \A nb \in Mailboxes \ {mb} :
             Batches'[nb] = Batches[nb] /\ Handlings'[nb] = Handlings[nb]
    BY RecvTouchesInbox DEF RecvStep
  <1>4. pos[t] \in 1..Len(heap[s]) /\ Current(t) \in Message
    <2>1. pos[t] <= Len(heap[s])
      BY <1>1 DEF DeliveryInv, CallbackHasMessage
    <2> QED
      BY <1>2, <2>1, ElementOfSeq DEF Current
  <1>5. Handlings[mb] = Current(t) /\ Handlings[mb] # NoMessage
    <2>1. Handlings[mb] = Current(t)
      BY <1>1, PumpedBatches
    <2> QED
      BY <1>4, <2>1, NoMessageAssumption
  <1>6. Handlings' = [Handlings EXCEPT ![mb] = NoMessage]
    <2>1. Handlings'[mb] = NoMessage
      BY <1>1, <1>2 DEF Handlings, Handling
    <2> QED
      BY <1>2, <1>3, <2>1, AbstractIsMap, OneChanged
  <1>7. Batches' = Batches
    <2>1. Taken(t) = pos[t] /\ Taken(t)' = pos[t]
      <3>1. pos'[t] = pos[t] + 1
        BY DEF CallbackReturn, Advance, TypedControl, TypeOK
      <3> QED
        BY <1>1, <1>2, <3>1 DEF Taken
    <2>2. /\ \A r \in Storage \ {s} : heap'[r] = heap[r]
          /\ Len(heap'[s]) = Len(heap[s])
          /\ \A j \in 1..Len(heap[s]) : j # pos[t] => heap'[s][j] = heap[s][j]
      BY <1>2, FreedLength DEF CallbackReturn, TypedControl
    <2>3. Batch(mb, 1)' = Batch(mb, 1)
      <3>1. /\ Batch(mb, 1) = SubSeq(heap[s], pos[t] + 1, Len(heap[s]))
            /\ Batch(mb, 1)' = SubSeq(heap'[s], pos[t] + 1, Len(heap'[s]))
        BY <1>1, <1>2, <2>1 DEF Batch
      <3>2. pos[t] + 1 \in Nat \ {0} /\ heap'[s] \in Seq(Message)
            /\ \A j \in 1..Len(heap[s]) : j >= pos[t] + 1 => heap'[s][j] = heap[s][j]
        BY <1>2, <2>2 DEF TypeOK, FactoryTypeOK
      <3> QED
        BY <1>2, <2>2, <3>1, <3>2, SubSeqSame
    <2>4. ASSUME NEW i \in 1..Len(queue_[mb]), i # 1
          PROVE  Batch(mb, i)' = Batch(mb, i)
      <3>1. queue_[mb][i].storage \in Storage \ {s}
        BY <1>1, <2>4, OtherBatches
      <3> QED
        BY <1>1, <2>2, <2>4, <3>1 DEF Batch
    <2>5. \A i \in 1..Len(queue_[mb]) : Batch(mb, i)' = Batch(mb, i)
      BY <2>3, <2>4
    <2>6. Batches'[mb] = Batches[mb]
      BY <1>1, <1>2, <2>5, BatchesStay
    <2> QED
      BY <1>3, <2>6, AbstractIsMap
  <1>8. Abstract!Finish(mb)
    BY <1>3, <1>5, <1>6, <1>7 DEF Abstract!Finish
  <1> QED
    BY <1>2, <1>8 DEF Simulated, Abstract!Next

\* Who takes the mutex begins with the first message of the front.
LEMMA LockSimulated ==
  ASSUME TypedControl, TypeOK', StorageInv, NEW t \in Threads, RecvLock(t)
  PROVE  Simulated
  <1> DEFINE mb == Inbox[t]
  <1>1. /\ mb \in Mailboxes /\ mtx_[mb] = NoThread /\ t # NoThread
        /\ UNCHANGED <<heap, queue_>> /\ mtx_'[mb] = t
        /\ queue_[mb] \in Seq(Handle(Storage))
    BY ThreadsAssumption
    DEF RecvLock, Free, factoryVars, TypedControl, ControlInv, TypeOK
  <1>2. /\ Outboxes' = Outboxes
        /\ callbacks_' = callbacks_
        /\ \A nb \in Mailboxes \ {mb} :
             Batches'[nb] = Batches[nb] /\ Handlings'[nb] = Handlings[nb]
    BY RecvTouchesInbox DEF RecvStep
  <1>3. recvAt'[t] # "callback"
    BY DEF RecvLock, Moved, TypedControl, TypeOK
  <1>4. Handlings'[mb] = Handlings[mb]
    BY <1>1, <1>3 DEF Handlings, Handling
  <1>5. ASSUME NEW i \in 1..Len(queue_[mb])
        PROVE  Batch(mb, i)' = Batch(mb, i)
    <2>1. CASE i # 1
      BY <1>1, <2>1 DEF Batch
    <2>2. CASE i = 1
      <3>1. queue_[mb] # <<>> /\ Head(queue_[mb]) = queue_[mb][1]
            /\ queue_[mb][1] \in Handle(Storage)
        BY <1>1, <2>2
      <3>2. Readable(queue_[mb][1])
        BY <1>1, <2>2 DEF StorageInv, QueuedReady
      <3>3. pos'[t] = 1
        BY <3>1, <3>2 DEF RecvLock, TypedControl, TypeOK
      <3>4. Taken(t)' = 0
        BY <1>3, <3>3 DEF Taken
      <3>5. heap[queue_[mb][1].storage] \in Seq(Message)
        BY <3>1 DEF Handle, TypedControl, TypeOK, FactoryTypeOK
      <3>6. Batch(mb, 1)' = SubSeq(heap[queue_[mb][1].storage], 1,
                                   Len(heap[queue_[mb][1].storage]))
        BY <1>1, <3>4 DEF Batch
      <3>7. Batch(mb, 1) = heap[queue_[mb][1].storage]
        BY <1>1 DEF Batch
      <3> QED
        BY <2>2, <3>5, <3>6, <3>7, SubSeqFull
    <2> QED
      BY <2>1, <2>2
  <1>6. Batches'[mb] = Batches[mb]
    BY <1>1, <1>5, BatchesStay
  <1>7. Batches' = Batches /\ Handlings' = Handlings
    BY <1>2, <1>4, <1>6, AbstractIsMap
  <1> QED
    BY <1>2, <1>7 DEF Simulated

LEMMA RecvSimulated ==
  ASSUME TypedControl, TypeOK', StorageInv, DeliveryInv, Throwers = {},
         NEW t \in Threads, RecvStep(t)
  PROVE  Simulated
  <1>1. CASE PumpStep(t) \/ CallbackReturn(t) \/ RecvLock(t)
    BY <1>1, PumpSimulated, ReturnSimulated, LockSimulated
  <1>2. CASE RecvCall(t) \/ RecvWait(t) \/ SpuriousWakeup(t) \/ RecvEmpty(t) \/ RecvNonEmpty(t)
    <2>1. UNCHANGED <<heap, queue_, mtx_, callbacks_, pos>> /\ ~InRecvLock(t)
          /\ \A u \in Threads \ {t} : recvAt'[u] = recvAt[u]
      BY <1>2
      DEF RecvCall, RecvWait, SpuriousWakeup, RecvEmpty, RecvNonEmpty, Moved, InRecvLock,
          factoryVars, endpointVars, TypedControl, TypeOK
    <2>2. \A mb \in Mailboxes : MailboxUntouched(mb)
      BY <2>1, HolderIsThere DEF MailboxUntouched
    <2>3. \A mb \in Mailboxes : Batches'[mb] = Batches[mb] /\ Handlings'[mb] = Handlings[mb]
      BY <2>2, UntouchedStays
    <2>4. Batches' = Batches /\ Handlings' = Handlings
      BY <2>3, AbstractIsMap
    <2> QED
      BY <2>1, <2>4, RecvTouchesInbox DEF Simulated
  <1> QED
    BY <1>1, <1>2 DEF RecvStep, CallbackThrow

LEMMA OwnerSimulated ==
  ASSUME TypedControl, TypeOK', StorageInv, NEW mb \in Mailboxes, OwnerStep(mb)
  PROVE  Simulated
  <1> USE DEF TypedControl
  <1>1. UNCHANGED <<mq, sendAt, mtx_, recvAt, pos>>
    BY DEF OwnerStep, Claim, On, Off, Recreate, recvVars, sendVars
  <1>2. Free(mb) => Handlings[mb] = NoMessage
    BY DEF Free, Handlings, Handling
  <1>3. CASE ~Recreate(mb)
    <2>1. UNCHANGED <<heap, queue_>>
      BY <1>3 DEF OwnerStep, Claim, On, Off, factoryVars
    <2>2. Outboxes' = Outboxes /\ Batches' = Batches /\ Handlings' = Handlings
      BY <1>1, <2>1
      DEF Outboxes, Outbox, Batches, Batch, Taken, Handlings, Handling, Current, CurrentMQ
    <2>3. CASE Claim(mb)
      BY <2>2, <2>3 DEF Claim, Simulated
    <2>4. ASSUME NEW type \in CallbackTypes, On(mb, type) \/ Off(mb, type)
          PROVE  Simulated
      <3>1. PICK types \in SUBSET MsgTypes : callbacks_' = [callbacks_ EXCEPT ![mb] = types]
        <4>1. callbacks_[mb] \in SUBSET MsgTypes /\ type \in MsgTypes
          BY WiringAssumption DEF TypeOK
        <4>2. callbacks_[mb] \union {type} \in SUBSET MsgTypes
              /\ callbacks_[mb] \ {type} \in SUBSET MsgTypes
          BY <4>1
        <4> QED
          BY <2>4, <4>2 DEF On, Off
      <3>2. Abstract!Register(mb)
        BY <1>2, <2>2, <2>4, <3>1 DEF On, Off, Abstract!Register
      <3> QED
        BY <3>2 DEF Simulated, Abstract!Next
    <2> QED
      BY <1>3, <2>3, <2>4 DEF OwnerStep
  <1>4. CASE Recreate(mb)
    <2>1. /\ queue_'[mb] = <<>>
          /\ \A nb \in Mailboxes \ {mb} : queue_'[nb] = queue_[nb]
          /\ callbacks_' = [callbacks_ EXCEPT ![mb] = {}]
      BY <1>4 DEF Recreate, TypeOK
    <2>2. \A r \in Storage : heap'[r] = heap[r] \/ r \in Pending(mb)
      BY <1>4, SubmittedIsEmpty DEF Recreate
    <2>3. \A r \in Pending(mb) : \E i \in 1..Len(queue_[mb]) : QueuedAt(mb, i, r)
      BY DEF Pending, QueuedAt
    <2>4. Outboxes' = Outboxes
      <3>1. \A u \in Threads, r \in Storage : Holds(u, r) => heap'[r] = heap[r]
        BY <2>2, <2>3 DEF StorageInv, NoStorageAliased
      <3>2. \A u \in Threads : Outboxes'[u] = Outboxes[u]
        BY <1>1, <3>1, OutboxStays DEF Holds
      <3> QED
        BY <3>2, AbstractIsMap
    <2>5. \A nb \in Mailboxes \ {mb} : MailboxUntouched(nb)
      BY <1>1, <2>1, <2>2, <2>3 DEF MailboxUntouched, StorageInv, NoStorageAliased
    <2>6. \A nb \in Mailboxes \ {mb} :
            Batches'[nb] = Batches[nb] /\ Handlings'[nb] = Handlings[nb]
      BY <2>5, UntouchedStays
    <2>7. Free(mb)
      BY <1>4, HolderIsThere DEF Recreate, Free, InRecvLock
    <2>8. Handlings' = Handlings
      <3>1. Handlings'[mb] = Handlings[mb]
        BY <1>1, <2>7 DEF Free, Handlings, Handling
      <3> QED
        BY <2>6, <3>1, AbstractIsMap
    <2>9. Batches' = [Batches EXCEPT ![mb] = <<>>]
      <3>1. Batches'[mb] = [i \in 1..0 |-> Batch(mb, i)']
        BY <2>1 DEF Batches
      <3>2. Batches'[mb] = <<>>
        BY <3>1
      <3> QED
        BY <2>6, <3>2, AbstractIsMap, OneChanged
    <2>10. Abstract!Destroy(mb)
      BY <1>2, <2>1, <2>4, <2>7, <2>8, <2>9 DEF Abstract!Destroy
    <2> QED
      BY <2>10 DEF Simulated, Abstract!Next
  <1> QED
    BY <1>3, <1>4

\* Seen from outside, a mailbox is a channel of batches: what a thread pushes and
\* sends arrives whole and in order, and each message is given to its callback once
\* or dropped, whatever the other threads send, pump, register and destroy meanwhile
\* (MessageQueue.hpp:22, MailboxEndpoint.hpp:72-77).  It is so where no callback
\* throws: after an exception recv() starts the same MessageQueue over.
THEOREM MailboxesAreChannels ==
  ASSUME Throwers = {}
  PROVE  Spec => ImplementsChannel
  <1>1. Init => Abstract!Init
    <2> SUFFICES ASSUME Init PROVE Abstract!Init
      OBVIOUS
    <2>1. Outboxes = [t \in Threads |-> <<>>]
      BY DEF Init, Outboxes, Outbox, MarkInvalid, NewHandle
    <2>2. Batches = [mb \in Mailboxes |-> <<>>]
      <3>1. \A mb \in Mailboxes : Batches[mb] = [i \in 1..0 |-> Batch(mb, i)]
        BY DEF Init, Batches
      <3>2. \A mb \in Mailboxes : Batches[mb] = <<>>
        BY <3>1
      <3> QED
        BY <3>2, AbstractIsMap
    <2>3. Handlings = [mb \in Mailboxes |-> NoMessage]
      BY DEF Init, Handlings, Handling
    <2> QED
      BY <2>1, <2>2, <2>3 DEF Init, Abstract!Init
  <1>2. TypedControl /\ TypeOK' /\ StorageInv /\ DeliveryInv /\ [Next]_vars
          => [Abstract!Next]_<<Outboxes, Batches, Handlings, callbacks_>>
    <2> SUFFICES ASSUME TypedControl, TypeOK', StorageInv, DeliveryInv, [Next]_vars
                 PROVE  Simulated
      BY DEF Simulated
    <2>1. CASE Next
      BY <2>1, ClientSimulated, SendSimulated, RecvSimulated, OwnerSimulated DEF Next
    <2>2. CASE UNCHANGED vars
      <3>1. UNCHANGED <<heap, queue_, mtx_, callbacks_, mq, sendAt, recvAt, pos>>
        BY <2>2 DEF vars, factoryVars, endpointVars, recvVars, sendVars
      <3>2. Outboxes' = Outboxes /\ Batches' = Batches /\ Handlings' = Handlings
        BY <3>1
        DEF Outboxes, Outbox, Batches, Batch, Taken, Handlings, Handling, Current, CurrentMQ
      <3> QED
        BY <3>1, <3>2 DEF Simulated
    <2> QED
      BY <2>1, <2>2
  <1>3. TypedControl => TypeOK
    BY DEF TypedControl
  <1> QED
    BY <1>1, <1>2, <1>3, Typed, StorageInvariant, DeliveryInvariant, PTL
    DEF Spec, ImplementsChannel, Abstract!Spec, Abstract!channelVars
=============================================================================
