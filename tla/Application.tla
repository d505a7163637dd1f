---- MODULE Application ----
(***************************************************************************)
(* omulator::oml_main and the threads of an interactive session: main, the   *)
(* thread of CLIInput, which waits for a line and then for the Interpreter,   *)
(* and the thread of the Interpreter, which runs the line.  Mailboxes are     *)
(* what MailboxChannel promises; RENDER_FRAME and HANDLE_RESIZE are in        *)
(* VulkanBackend, and so is the thread that gets them.                        *)
(***************************************************************************)
EXTENDS Naturals, Sequences

CONSTANTS
  Scripts,  \* the lines that do not end the application
  MaxLines  \* bounds the lines that are typed

ASSUME ApplicationAssumption ==
  /\ MaxLines \in Nat
  /\ Scripts \cap {"shutdown", "SIMPLE_FENCE", "POKE", "nothing"} = {}

VARIABLES
  headless, interactive,  \* the properties that the command line sets
  mainAt,                 \* what main does next
  app,                    \* an APP_QUIT is in the mailbox of App
  done,
  stopRequested, startSignal_,  \* the Interpreter's, as a Subsystem
  lua,                    \* whether impl_, the interpreter's state, is there
  interpreterAt,          \* where the Interpreter's thread is
  inbox,                  \* the MessageQueues in its mailbox
  handling,               \* what is left of the one it handles
  inputAt,                \* where the thread of CLIInput is
  str, fence,             \* the variables of input_loop()
  lines,                  \* how many lines were typed
  exited                  \* the process has ended before main did

mainVars == <<headless, interactive, mainAt, done>>
subsystemVars == <<stopRequested, startSignal_, lua, interpreterAt, handling>>
inputVars == <<inputAt, str, fence, lines>>
vars == <<mainVars, app, subsystemVars, inbox, inputVars, exited>>

Lines == Scripts \cup {"shutdown"}
MessageQueues == {<<"POKE">>} \cup {<<l, "SIMPLE_FENCE">> : l \in Lines}

Constructing == {"parse", "window", "engine", "input", "interpreter", "start", "claim"}
Looping == {"recv", "pump"}
Destroying == {"dtorImpl", "dtorStop", "dtorStart", "dtorPoke", "dtorJoin", "dtorKill",
               "dtorJoinInput", "dtorEngine"}

\* The mailbox never has more than a line and the POKE in it.
ApplicationTypeOK ==
  /\ {headless, interactive, app, done, stopRequested, startSignal_, lua, fence, exited}
       \subseteq BOOLEAN
  /\ mainAt \in Constructing \cup Looping \cup Destroying \cup {"over"}
  /\ interpreterAt \in {"none", "parked", "onStart", "loop", "recv", "handle", "get", "notify",
                        "lost", "done"}
  /\ inbox \in Seq(MessageQueues) /\ Len(inbox) <= 2
  /\ handling \in Seq(Lines \cup {"SIMPLE_FENCE", "POKE"}) /\ Len(handling) <= 2
  /\ inputAt \in {"none", "begin", "readline", "send", "wait", "asleep", "gone"}
  /\ str \in Lines \cup {"nothing"}
  /\ lines \in 0..MaxLines

Init ==
  /\ headless \in BOOLEAN /\ interactive \in BOOLEAN
  /\ mainAt = "parse" /\ app = FALSE /\ done = FALSE
  /\ stopRequested = FALSE /\ startSignal_ = FALSE /\ lua = FALSE
  /\ interpreterAt = "none" /\ inbox = <<>> /\ handling = <<>>
  /\ inputAt = "none" /\ str = "nothing" /\ fence = FALSE /\ lines = 0
  /\ exited = FALSE

Running == ~exited /\ mainAt # "over"

\* main is in TypeMap::erase(), which has the mutex that get() needs until the destructor
\* of the Interpreter, with its join, has returned.
ErasesInterpreter == mainAt \in {"dtorStop", "dtorStart", "dtorPoke", "dtorJoin"}

\* recv() has the mutex of the mailbox while a callback runs.
InCallback ==
  interpreterAt \in {"handle", "get", "notify"} \/ (interpreterAt = "lost" /\ handling # <<>>)

-----------------------------------------------------------------------------
(* main, up to its loop. *)

MainGoesOn(from, to) ==
  /\ Running
  /\ mainAt = from /\ mainAt' = to
  /\ UNCHANGED <<headless, interactive>>

\* An exception unwinds the stack, which destroys the injector and all that it
\* has, before the handler ends the process.
MainThrows(from) == MainGoesOn(from, "dtorImpl") /\ UNCHANGED done

\* docopt ends the process if it is asked for help or does not know a switch.
ParseArgs ==
  /\ \/ MainGoesOn("parse", "window") /\ UNCHANGED exited
     \/ MainGoesOn("parse", "parse") /\ exited' = TRUE
  /\ UNCHANGED <<app, done, subsystemVars, inbox, inputVars>>

\* IWindow, a NullWindow if there is none to be, and show().
ShowWindow ==
  /\ \/ MainGoesOn("window", "engine") /\ UNCHANGED done
     \/ ~headless /\ MainThrows("window")
  /\ UNCHANGED <<app, subsystemVars, inbox, inputVars, exited>>

CreateGraphicsEngine ==
  /\ \/ MainGoesOn("engine", IF interactive THEN "input" ELSE "claim") /\ UNCHANGED done
     \/ MainThrows("engine")
  /\ UNCHANGED <<app, subsystemVars, inbox, inputVars, exited>>

\* The thread runs before the constructor returns, and before there is an
\* Interpreter.
CreateCLIInput ==
  /\ MainGoesOn("input", "interpreter")
  /\ inputAt' = "begin"
  /\ UNCHANGED <<app, done, subsystemVars, inbox, str, fence, lines, exited>>

CreateInterpreter ==
  /\ MainGoesOn("interpreter", "start")
  /\ interpreterAt' = "parked" /\ lua' = TRUE
  /\ UNCHANGED <<app, done, stopRequested, startSignal_, handling, inbox, inputVars, exited>>

StartInterpreter ==
  /\ MainGoesOn("start", "claim")
  /\ startSignal_' = TRUE
  /\ UNCHANGED <<app, done, stopRequested, lua, interpreterAt, handling, inbox, inputVars,
                 exited>>

\* claim_mailbox<App>() and on(APP_QUIT): what was sent before is still there.
ClaimMailbox ==
  /\ MainGoesOn("claim", "recv")
  /\ UNCHANGED <<app, done, subsystemVars, inbox, inputVars, exited>>

-----------------------------------------------------------------------------
(* The loop. *)

\* recv(NONBLOCK), and the callback of APP_QUIT.
RecvMessages ==
  /\ MainGoesOn("recv", "pump")
  /\ done' = (done \/ app)
  /\ app' = FALSE
  /\ UNCHANGED <<subsystemVars, inbox, inputVars, exited>>

\* pump_msgs() to the end of the iteration.  A window may be closed, and Escape
\* typed in it.
PumpMsgs ==
  /\ MainGoesOn("pump", IF done THEN "dtorImpl" ELSE "recv")
  /\ \/ UNCHANGED app
     \/ ~headless /\ app' = TRUE
  /\ UNCHANGED <<done, subsystemVars, inbox, inputVars, exited>>

-----------------------------------------------------------------------------
(* The destructors, in the reverse order of the constructors. *)

\* Mutation: main gets the Interpreter before CLIInput, which then goes first.
DestroyInputFirst ==
  /\ MainGoesOn("dtorImpl", "dtorKill")
  /\ lua' = FALSE
  /\ UNCHANGED <<app, done, stopRequested, startSignal_, interpreterAt, handling, inbox,
                 inputVars, exited>>

\* ~Interpreter, whose member goes before the thread that uses it is joined.
DestroyImpl ==
  /\ MainGoesOn("dtorImpl", IF interpreterAt = "none" THEN "dtorKill" ELSE "dtorStop")
  /\ lua' = FALSE
  /\ UNCHANGED <<app, done, stopRequested, startSignal_, interpreterAt, handling, inbox,
                 inputVars, exited>>

DestroyStop ==
  /\ MainGoesOn("dtorStop", "dtorStart")
  /\ stopRequested' = TRUE
  /\ UNCHANGED <<app, done, startSignal_, lua, interpreterAt, handling, inbox, inputVars, exited>>

DestroyStart ==
  /\ MainGoesOn("dtorStart", "dtorPoke")
  /\ startSignal_' = TRUE
  /\ UNCHANGED <<app, done, stopRequested, lua, interpreterAt, handling, inbox, inputVars, exited>>

\* send() waits for the mutex that recv() holds.
DestroyPoke ==
  /\ MainGoesOn("dtorPoke", "dtorJoin")
  /\ ~InCallback
  /\ inbox' = Append(inbox, <<"POKE">>)
  /\ UNCHANGED <<app, done, subsystemVars, inputVars, exited>>

DestroyJoin ==
  /\ MainGoesOn("dtorJoin", "dtorKill")
  /\ interpreterAt = "done"
  /\ UNCHANGED <<app, done, subsystemVars, inbox, inputVars, exited>>

\* Mutation: the thread is joined, and not killed first.
DestroyInputJoinOnly ==
  /\ MainGoesOn("dtorKill", IF inputAt = "none" THEN "dtorEngine" ELSE "dtorJoinInput")
  /\ UNCHANGED <<app, done, subsystemVars, inbox, inputVars, exited>>

\* ~KillableThread.  Until the thread has installed its handler, the signal kills
\* the process.  The handler calls pthread_exit(), which ends the thread where it
\* waits for a line; elsewhere it may unwind into code that must not throw, which
\* ends the process.
DestroyInput ==
  /\ \/ /\ inputAt = "none"
        /\ MainGoesOn("dtorKill", "dtorEngine")
        /\ UNCHANGED <<inputAt, exited>>
     \/ /\ inputAt \notin {"none", "begin"}
        /\ MainGoesOn("dtorKill", "dtorJoinInput")
        /\ inputAt' = "gone"
        /\ UNCHANGED exited
     \/ /\ inputAt \notin {"none", "readline"}
        /\ MainGoesOn("dtorKill", "dtorKill")
        /\ exited' = TRUE
        /\ UNCHANGED inputAt
  /\ UNCHANGED <<app, done, subsystemVars, inbox, str, fence, lines>>

\* The join of the member thrd_, once ~KillableThread has run.
DestroyJoinInput ==
  /\ MainGoesOn("dtorJoinInput", "dtorEngine")
  /\ inputAt = "gone"
  /\ UNCHANGED <<app, done, subsystemVars, inbox, inputVars, exited>>

\* Everything older than CLIInput, the mailboxes last.
DestroyRest ==
  /\ MainGoesOn("dtorEngine", "over")
  /\ inbox' = <<>>
  /\ UNCHANGED <<app, done, subsystemVars, inputVars, exited>>

-----------------------------------------------------------------------------
(* The thread of CLIInput. *)

InputGoesOn(from, to) == Running /\ inputAt = from /\ inputAt' = to

InstallHandler ==
  /\ InputGoesOn("begin", "readline")
  /\ UNCHANGED <<mainVars, app, subsystemVars, inbox, str, fence, lines, exited>>

\* readline() and trim_string_(): a line, or nothing that is left of one.  At the
\* end of the input there is no string to be copied, and the process crashes.
ReadLine ==
  /\ Running /\ inputAt = "readline"
  /\ lines < MaxLines
  /\ \/ /\ inputAt' = "send"
        /\ str' \in Lines
        /\ fence' = FALSE
        /\ UNCHANGED exited
     \/ UNCHANGED <<inputAt, str, fence, exited>>
     \/ exited' = TRUE /\ UNCHANGED <<inputAt, str, fence>>
  /\ lines' = lines + 1
  /\ UNCHANGED <<mainVars, app, subsystemVars, inbox>>

\* Mutation: the fence is pushed before the line.
SendFenceFirst ==
  /\ InputGoesOn("send", "wait")
  /\ ~InCallback
  /\ inbox' = Append(inbox, <<"SIMPLE_FENCE", str>>)
  /\ str' = "nothing"
  /\ UNCHANGED <<mainVars, app, subsystemVars, fence, lines, exited>>

\* Mutation: the loop does not wait for the fence.
SendAndReadOn ==
  /\ InputGoesOn("send", "readline")
  /\ ~InCallback
  /\ inbox' = Append(inbox, <<str, "SIMPLE_FENCE">>)
  /\ str' = "nothing"
  /\ UNCHANGED <<mainVars, app, subsystemVars, fence, lines, exited>>

\* One MessageQueue with both messages; the string is moved into the payload.
SendLine ==
  /\ InputGoesOn("send", "wait")
  /\ ~InCallback
  /\ inbox' = Append(inbox, <<str, "SIMPLE_FENCE">>)
  /\ str' = "nothing"
  /\ UNCHANGED <<mainVars, app, subsystemVars, fence, lines, exited>>

\* fence.wait(false) looks at the value before it sleeps and after it woke up.
WaitForFence ==
  /\ InputGoesOn("wait", IF fence THEN "readline" ELSE "asleep")
  /\ UNCHANGED <<mainVars, app, subsystemVars, inbox, str, fence, lines, exited>>

-----------------------------------------------------------------------------
(* The thread of the Interpreter. *)

InterpreterGoesOn(from, to) == Running /\ interpreterAt = from /\ interpreterAt' = to

AwaitStart ==
  /\ InterpreterGoesOn("parked", "onStart")
  /\ startSignal_
  /\ UNCHANGED <<mainVars, app, stopRequested, startSignal_, lua, handling, inbox, inputVars,
                 exited>>

\* What uses impl_ after it is destroyed may work or not: it may also end the process, or
\* never return.
UseLua(from, to) ==
  \/ InterpreterGoesOn(from, to) /\ UNCHANGED exited
  \/ ~lua /\ InterpreterGoesOn(from, "lost") /\ UNCHANGED exited
  \/ ~lua /\ InterpreterGoesOn(from, from) /\ exited' = TRUE

OnStart ==
  /\ UseLua("onStart", "loop")
  /\ UNCHANGED <<mainVars, app, stopRequested, startSignal_, lua, handling, inbox, inputVars>>

Loop ==
  /\ InterpreterGoesOn("loop", IF stopRequested THEN "done" ELSE "recv")
  /\ UNCHANGED <<mainVars, app, stopRequested, startSignal_, lua, handling, inbox, inputVars,
                 exited>>

Recv ==
  /\ InterpreterGoesOn("recv", "handle")
  /\ inbox # <<>>
  /\ handling' = Head(inbox)
  /\ inbox' = Tail(inbox)
  /\ UNCHANGED <<mainVars, app, stopRequested, startSignal_, lua, inputVars, exited>>

\* recv() goes on while there is a MessageQueue.
EndOfQueue ==
  /\ handling = <<>>
  /\ InterpreterGoesOn("handle", IF inbox = <<>> THEN "loop" ELSE "recv")
  /\ UNCHANGED <<mainVars, app, stopRequested, startSignal_, lua, handling, inbox, inputVars,
                 exited>>

\* exec().  A script calls the Lua functions that ask the injector for something, as all
\* but log() do, or calls none of them; errors are logged.
Exec ==
  /\ handling # <<>> /\ Head(handling) \in Lines
  /\ \/ UseLua("handle", "get") /\ UNCHANGED handling
     \/ /\ Head(handling) # "shutdown"
        /\ UseLua("handle", "handle")
        /\ handling' = IF interpreterAt' = "handle" THEN Tail(handling) ELSE handling
  /\ UNCHANGED <<mainVars, app, stopRequested, startSignal_, lua, inbox, inputVars>>

\* injector_.get() in a Lua function, with the mutex of the TypeMap; or set_vertex_shader()
\* that waits to send to a graphics thread which waits for that mutex itself (Swapchain.cpp:144).
\* Of what these functions do, shutdown() alone is about this module.  It need not be
\* the last of its line.
GetInstance ==
  /\ InterpreterGoesOn("get", "handle")
  /\ ~ErasesInterpreter
  /\ app' = (app \/ Head(handling) = "shutdown")
  /\ \/ handling' = Tail(handling)
     \/ Head(handling) = "shutdown" /\ \E s \in Scripts : handling' = [handling EXCEPT ![1] = s]
  /\ UNCHANGED <<mainVars, stopRequested, startSignal_, lua, inbox, inputVars, exited>>

\* The callback of SIMPLE_FENCE: store() ...
StoreFence ==
  /\ InterpreterGoesOn("handle", "notify")
  /\ handling # <<>> /\ Head(handling) = "SIMPLE_FENCE"
  /\ fence' = TRUE
  /\ handling' = Tail(handling)
  /\ UNCHANGED <<mainVars, app, stopRequested, startSignal_, lua, inbox, inputAt, str, lines,
                 exited>>

\* Mutation: the fence is set, and nobody is told.
NotifyNobody ==
  /\ InterpreterGoesOn("notify", "handle")
  /\ UNCHANGED <<mainVars, app, stopRequested, startSignal_, lua, handling, inbox, inputVars,
                 exited>>

\* ... and notify_all(), which may find the thread past its wait.
NotifyFence ==
  /\ InterpreterGoesOn("notify", "handle")
  /\ inputAt' = IF inputAt = "asleep" THEN "wait" ELSE inputAt
  /\ UNCHANGED <<mainVars, app, stopRequested, startSignal_, lua, handling, inbox, str, fence,
                 lines, exited>>

\* POKE has a callback that does nothing.
Poked ==
  /\ InterpreterGoesOn("handle", "handle")
  /\ handling # <<>> /\ Head(handling) = "POKE"
  /\ handling' = Tail(handling)
  /\ UNCHANGED <<mainVars, app, stopRequested, startSignal_, lua, inbox, inputVars, exited>>

-----------------------------------------------------------------------------
Construct ==
  \/ ParseArgs
  \/ ShowWindow
  \/ CreateGraphicsEngine
  \/ CreateCLIInput
  \/ CreateInterpreter
  \/ StartInterpreter
  \/ ClaimMailbox

Destroy ==
  \/ DestroyImpl
  \/ DestroyStop
  \/ DestroyStart
  \/ DestroyPoke
  \/ DestroyJoin
  \/ DestroyInput
  \/ DestroyJoinInput
  \/ DestroyRest

MainNext == Construct \/ RecvMessages \/ PumpMsgs \/ Destroy

InputNext == InstallHandler \/ SendLine \/ WaitForFence

InterpreterNext ==
  \/ AwaitStart
  \/ OnStart
  \/ Loop
  \/ Recv
  \/ EndOfQueue
  \/ Exec
  \/ GetInstance
  \/ StoreFence
  \/ NotifyFence
  \/ Poked

Next == MainNext \/ InputNext \/ ReadLine \/ InterpreterNext

\* Every thread runs; scripts end; nobody has to type.
Fairness ==
  /\ WF_vars(MainNext)
  /\ SF_vars(InputNext)
  /\ WF_vars(InterpreterNext)

Spec == Init /\ [][Next]_vars /\ Fairness

-----------------------------------------------------------------------------
\* "The CLI prompt only displays after the Interpreter has printed its own
\* output" (CLIInput.cpp:55-58): no line is on its way while there is a prompt.
PromptAfterOutput ==
  inputAt = "readline" =>
    /\ \A n \in DOMAIN inbox : inbox[n] = <<"POKE">>
    /\ \A n \in DOMAIN handling : handling[n] = "POKE"

\* The fence is a variable of input_loop() (CLIInput.cpp:49): when the
\* Interpreter sets it, it is there, and it is the one of the line just run; the
\* order of the destructors has the Interpreter joined before CLIInput is killed.
FenceIsAlive ==
  interpreterAt = "handle" /\ handling # <<>> /\ Head(handling) = "SIMPLE_FENCE" =>
    inputAt \in {"wait", "asleep"} /\ ~fence

\* Every line that is sent, even before there is an Interpreter to receive it, is
\* answered with a prompt, or the application ends (CLIInput.cpp:59).
LineIsAnswered ==
  inputAt \in {"wait", "asleep"} ~> inputAt = "readline" \/ mainAt \in Destroying \/ ~Running

\* Once there is an APP_QUIT, whoever sent it and whatever the other threads wait for,
\* main ends (main.cpp:69-95): nobody is left to be joined for ever but an Interpreter in
\* the middle of a line, which asks the injector for something while main has the
\* mutex and waits for it (TypeMap.hpp:198), or whose Lua state is gone.
JoinsInVain == mainAt \in {"dtorPoke", "dtorJoin"} /\ interpreterAt \in {"get", "lost"}
ShutdownEnds == app ~> ~Running \/ JoinsInVain
=============================================================================
