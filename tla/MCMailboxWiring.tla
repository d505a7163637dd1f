---- MODULE MCMailboxWiring ----
(***************************************************************************)
(* The mailboxes of the application: which thread receives from which, and  *)
(* which ones its callbacks send to.                                        *)
(***************************************************************************)
EXTENDS MailboxWiring, TLC

CONSTANTS main, gfx, interp, App, Gfx, Interp

\* main.cpp:61; CoreGraphicsEngine.cpp:10; Interpreter.cpp:39.
WiredInbox == (main :> App) @@ (gfx :> Gfx) @@ (interp :> Interp)

\* main sends RENDER_FRAME, main.cpp:75, and here, for the CLI thread, what the
\* user types, CLIInput.cpp:50-53.
WiredTop == (main :> {Gfx, Interp}) @@ (gfx :> {}) @@ (interp :> {})

\* The Lua functions set_vertex_shader and shutdown, Interpreter.cpp:61-76.
WiredCallback == (main :> {}) @@ (gfx :> {}) @@ (interp :> {App, Gfx})

WiredRank == (App :> 0) @@ (Gfx :> 0) @@ (Interp :> 1)

WiredBehaviors ==
  (main :> {"NONBLOCK"}) @@ (gfx :> {"BLOCK"}) @@ (interp :> {"BLOCK"})
=============================================================================
