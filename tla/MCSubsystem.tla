---- MODULE MCSubsystem ----
(* A Subsystem with one thread that sends to it. *)
EXTENDS Subsystem, TLC

CONSTANTS sender

Wired == (worker :> box) @@ (owner :> NoMailbox) @@ (sender :> NoMailbox)
Tops == (worker :> {}) @@ (owner :> {box}) @@ (sender :> {box})
Nowhere == [t \in Threads |-> {}]
Blocking == (worker :> {"BLOCK"}) @@ (owner :> {}) @@ (sender :> {})
=============================================================================
