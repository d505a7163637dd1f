---- MODULE MCPropertyMap ----
(* main, which uses references, and the Interpreter, which uses variants. *)
EXTENDS PropertyMap, TLC

CONSTANTS main, interp, HEADLESS, custom

\* CLIParser.cpp:54, before the first thread starts.
Parsed == HEADLESS :> Number("bool", 0)

\* injector_rules.cpp:51; custom is a string of main's, like RESOURCE_DIR in
\* main.cpp:43, which a script may have created as something else.
Accesses ==
  (main :> {<<HEADLESS, "bool">>, <<custom, "string">>}) @@ (interp :> {})

Settings ==
  (main :> {Word("text"), Number("bool", 2)}) @@
  (interp :> {Text(9), Number("S64", -2), Number("double", 9)})
=============================================================================
