---- MODULE MailboxWiring ----
(***************************************************************************)
(* Mailboxes whose callbacks send to other mailboxes.  recv() keeps the     *)
(* mutex of its mailbox while a callback runs (MailboxEndpoint.cpp:68-84),  *)
(* and send() takes the mutex of another: two mailboxes whose callbacks     *)
(* send to each other, or one that sends to itself, can block for good.     *)
(* The application avoids that by its wiring, which Rank states: a callback *)
(* sends only to mailboxes of a lower rank than its own.                    *)
(***************************************************************************)
EXTENDS MailboxEndpoint

CONSTANT Rank

ASSUME RankAssumption ==
  /\ Rank \in [Mailboxes -> Nat]
  /\ \A t \in Threads : Inbox[t] \in Mailboxes =>
       \A mb \in CallbackTargets[t] : Rank[mb] < Rank[Inbox[t]]

\* A mailbox is claimed once, and the MailboxReceiver that claim_mailbox returns
\* stays with one thread.
ASSUME SingleReceiverAssumption ==
  \A t, u \in Threads : Inbox[t] \in Mailboxes /\ Inbox[u] = Inbox[t] => u = t

\* The mailboxes whose mutex the thread is about to take.
Wanted(t) ==
  IF sendAt[t] = "sealed" THEN {dest[t]}
  ELSE IF recvAt[t] \in {"wait", "lock"} THEN {Inbox[t]}
  ELSE {}

WaitsFor(t, u) == \E mb \in Wanted(t) : mtx_[mb] = u

\* No set of threads in which each waits for a mutex that another of them, or
\* it itself, holds: what send() inside a callback could bring about.
NoLockCycle ==
  \A C \in (SUBSET Threads) \ {{}} : \E t \in C : \A u \in C : ~WaitsFor(t, u)

\* Mutexes are taken in the order of descending rank: a thread that holds one
\* wants only a mutex of a lower rank.
LockOrder ==
  \A t \in Threads, held \in Mailboxes :
    mtx_[held] = t => \A mb \in Wanted(t) : Rank[mb] < Rank[held]
=============================================================================
