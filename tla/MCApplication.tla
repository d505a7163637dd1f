---- MODULE MCApplication ----
(* A session of a few lines, with every combination of the switches. *)
EXTENDS Application
=============================================================================
