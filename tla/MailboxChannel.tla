---- MODULE MailboxChannel ----
(***************************************************************************)
(* What a MailboxEndpoint promises: a mailbox is a FIFO channel of batches  *)
(* of messages.  The messages a thread pushes arrive together and in order; *)
(* each is given to its callback once, one at a time, or dropped when       *)
(* nothing may handle it; and the next batch begins when one is used up.    *)
(***************************************************************************)
EXTENDS MessageQueue

CONSTANTS Threads, Mailboxes, NoMessage

VARIABLES
  outbox,     \* what each thread has pushed since it last sent
  channel,    \* the batches sent to each mailbox, without what has been taken
  handling,   \* the message each mailbox's callback is running on, if any
  registered  \* the types each mailbox has a callback for

channelVars == <<outbox, channel, handling, registered>>

Init ==
  /\ outbox = [t \in Threads |-> <<>>]
  /\ channel = [mb \in Mailboxes |-> <<>>]
  /\ handling = [mb \in Mailboxes |-> NoMessage]
  /\ registered = [mb \in Mailboxes |-> {}]

Write(t) ==
  /\ \E type \in MsgTypes, managed \in BOOLEAN, p \in Payloads \union {0} :
       outbox' = [outbox EXCEPT ![t] =
         Append(@, [type |-> type, managed |-> managed, payload |-> p])]
  /\ UNCHANGED <<channel, handling, registered>>

Abandon(t) ==
  /\ outbox' = [outbox EXCEPT ![t] = <<>>]
  /\ UNCHANGED <<channel, handling, registered>>

Send(t, mb) ==
  /\ channel' = [channel EXCEPT ![mb] = Append(@, outbox[t])]
  /\ outbox' = [outbox EXCEPT ![t] = <<>>]
  /\ UNCHANGED <<handling, registered>>

First(mb) == Head(Head(channel[mb]))

Take(mb) ==
  /\ handling[mb] = NoMessage
  /\ channel[mb] # <<>>
  /\ Head(channel[mb]) # <<>>
  /\ channel' = [channel EXCEPT ![mb][1] = Tail(@)]
  /\ UNCHANGED <<outbox, registered>>

Deliver(mb) ==
  /\ Take(mb)
  /\ ~Skipped(First(mb))
  /\ First(mb).type \in registered[mb]
  /\ handling' = [handling EXCEPT ![mb] = First(mb)]

Drop(mb) ==
  /\ Take(mb)
  /\ Skipped(First(mb)) \/ First(mb).type \notin registered[mb]
  /\ UNCHANGED handling

EndBatch(mb) ==
  /\ handling[mb] = NoMessage
  /\ channel[mb] # <<>>
  /\ Head(channel[mb]) = <<>>
  /\ channel' = [channel EXCEPT ![mb] = Tail(@)]
  /\ UNCHANGED <<outbox, handling, registered>>

Finish(mb) ==
  /\ handling[mb] # NoMessage
  /\ handling' = [handling EXCEPT ![mb] = NoMessage]
  /\ UNCHANGED <<outbox, channel, registered>>

Register(mb) ==
  /\ handling[mb] = NoMessage
  /\ \E types \in SUBSET MsgTypes :
       registered' = [registered EXCEPT ![mb] = types]
  /\ UNCHANGED <<outbox, channel, handling>>

\* The mailbox is destroyed, and what is pending in it is dropped.
Destroy(mb) ==
  /\ handling[mb] = NoMessage
  /\ channel' = [channel EXCEPT ![mb] = <<>>]
  /\ registered' = [registered EXCEPT ![mb] = {}]
  /\ UNCHANGED <<outbox, handling>>

Next ==
  \/ \E t \in Threads : Write(t) \/ Abandon(t)
  \/ \E t \in Threads, mb \in Mailboxes : Send(t, mb)
  \/ \E mb \in Mailboxes :
       \/ Deliver(mb) \/ Drop(mb) \/ Finish(mb) \/ EndBatch(mb)
       \/ Register(mb) \/ Destroy(mb)

Spec == Init /\ [][Next]_channelVars
=============================================================================
