---- MODULE MessageQueue ----
(***************************************************************************)
(* omulator::msg::Message and omulator::msg::MessageQueue: the messages,    *)
(* and the lightweight handle through which client code reaches a vector   *)
(* of them.  The handle does not own the vector, so copying it yields two   *)
(* handles on one storage; the two flags are what keeps that safe.          *)
(*                                                                         *)
(* A storage is a number (the n-th one the factory allocated).  Of a        *)
(* message we keep what the messaging code branches on: its type, the       *)
(* MANAGED_PTR flag, and, when the flag is set, which heap container        *)
(* `payload' points to.  A trivial payload is never looked at: it is 0.     *)
(***************************************************************************)
EXTENDS Naturals, Sequences

CONSTANTS
  MsgTypes,     \* the message types clients push
  MSG_NULL,     \* MessageType::MSG_NULL
  OverMax,      \* the pushed types whose value exceeds MSG_MAX
  Payloads,     \* addresses `new TypeContainer<T>' may return
  ManagedTypes, \* the types clients push with push_managed_payload
  TrivialTypes  \* the types clients push with push

ASSUME MsgTypesAssumption ==
  /\ OverMax \subseteq MsgTypes
  /\ ManagedTypes \subseteq MsgTypes
  /\ TrivialTypes \subseteq MsgTypes

ASSUME NullPayloadAssumption == 0 \notin Payloads

Message == [type: MsgTypes, managed: BOOLEAN, payload: Payloads \union {0}]

\* What push_impl_ appends for push() and for push_managed_payload().
TrivialMessage(type)    == [type |-> type, managed |-> FALSE, payload |-> 0]
ManagedMessage(type, p) == [type |-> type, managed |-> TRUE, payload |-> p]

\* pump_msgs hands these to no callback, and does not free their payload.
Skipped(msg) == msg.type = MSG_NULL \/ msg.type \in OverMax

\* has_managed_payload() && payload != 0: what clear() frees.
OwnsPayload(msg) == msg.managed /\ msg.payload # 0

\* free_managed_payload_ leaves the message in place with a null payload.
Freed(msg) == [msg EXCEPT !.payload = 0]

\* The containers that the messages of a storage vector own.
PayloadsOf(msgs) ==
  {msgs[i].payload : i \in {j \in 1..Len(msgs) : OwnsPayload(msgs[j])}}

-----------------------------------------------------------------------------
(* Handles. *)

Handle(Storage) == [storage: Storage, sealed: BOOLEAN, valid: BOOLEAN]

NewHandle(s)   == [storage |-> s, sealed |-> FALSE, valid |-> TRUE]
Seal(h)        == [h EXCEPT !.sealed = TRUE]
MarkInvalid(h) == [h EXCEPT !.valid = FALSE]

\* push_impl_ appends, and send() accepts, only through such a handle.
Writable(h) == h.valid /\ ~h.sealed

\* pump_msgs looks at the messages only through such a handle.
Readable(h) == h.valid /\ h.sealed
=============================================================================
