---- MODULE MCMailboxEndpoint ----
(* Instances of MailboxEndpoint for TLC. *)
EXTENDS MailboxRefinement, TLC

CONSTANTS s1, s2, r1, box, p1, p2

\* One mailbox, two threads that only send and one that may receive.
OneInbox == (s1 :> NoMailbox) @@ (s2 :> NoMailbox) @@ (r1 :> box)
OneTop == (s1 :> {box}) @@ (s2 :> {box}) @@ (r1 :> {})
NoTargets == (s1 :> {}) @@ (s2 :> {}) @@ (r1 :> {})
BothBehaviors == [t \in Threads |-> {"BLOCK", "NONBLOCK"}]

\* The configured threads' share of the above.
Inboxes == [t \in Threads |-> OneInbox[t]]
Tops == [t \in Threads |-> OneTop[t]]
Replies == [t \in Threads |-> NoTargets[t]]

Symmetric == Permutations({s1, s2}) \union Permutations({p1, p2})
=============================================================================
