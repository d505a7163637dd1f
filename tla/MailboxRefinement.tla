---- MODULE MailboxRefinement ----
(***************************************************************************)
(* MailboxEndpoint implements MailboxChannel: the batches of a mailbox are  *)
(* its pending MessageQueues, the first one without the messages that       *)
(* pump_msgs is already past.                                               *)
(***************************************************************************)
EXTENDS MailboxEndpoint

CONSTANTS NoMessage

ASSUME NoMessageAssumption == NoMessage \notin Message

Outbox(t) ==
  IF mq[t].valid /\ sendAt[t] # "pushed" THEN heap[mq[t].storage] ELSE <<>>

\* How many messages of the front the thread t, which holds the mutex, took.
Taken(t) == IF recvAt[t] = "callback" THEN pos[t] ELSE pos[t] - 1

Batch(mb, i) ==
  LET msgs == heap[queue_[mb][i].storage]
  IN IF i = 1 /\ mtx_[mb] # NoThread
     THEN SubSeq(msgs, Taken(mtx_[mb]) + 1, Len(msgs)) ELSE msgs

Handling(mb) ==
  IF mtx_[mb] # NoThread /\ recvAt[mtx_[mb]] = "callback"
  THEN Current(mtx_[mb]) ELSE NoMessage

Outboxes  == [t \in Threads |-> Outbox(t)]
Batches   == [mb \in Mailboxes |-> [i \in 1..Len(queue_[mb]) |-> Batch(mb, i)]]
Handlings == [mb \in Mailboxes |-> Handling(mb)]

Abstract == INSTANCE MailboxChannel WITH
  outbox <- Outboxes,
  channel <- Batches,
  handling <- Handlings,
  registered <- callbacks_

\* Messages sent to a mailbox reach its callbacks in the order in which they
\* were pushed, the ones of one MessageQueue together, each once and one at a
\* time, however send(), recv() and on() interleave: MessageQueue.hpp:22,
\* MailboxEndpoint.hpp:72-77.
ImplementsChannel == Abstract!Spec
=============================================================================
