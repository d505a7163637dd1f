---- MODULE Application_proofs ----
(***************************************************************************)
(* Theorems about Application, for any scripts and any number of lines.      *)
(***************************************************************************)
EXTENDS Application, TLAPS

-----------------------------------------------------------------------------
(* The inductive invariant: at most one line is under way, from SendLine to   *)
(* StoreFence, and all that time the thread of CLIInput waits for it.          *)

LineQueued == \E n \in DOMAIN inbox : inbox[n] # <<"POKE">>
LineHandled == handling \notin {<<>>, <<"POKE">>}

InboxFits ==
  \A m, n \in DOMAIN inbox : (inbox[m] = <<"POKE">> <=> inbox[n] = <<"POKE">>) => m = n

HandlingFits ==
  /\ \/ handling = <<>>
     \/ /\ interpreterAt \in {"handle", "get", "lost"}
        /\ \/ handling = <<"POKE">>
           \/ handling = <<"SIMPLE_FENCE">>
           \/ \E l \in Lines : handling = <<l, "SIMPLE_FENCE">>
  /\ interpreterAt = "get" => \E l \in Lines : handling = <<l, "SIMPLE_FENCE">>

OneLine ==
  LineQueued \/ LineHandled =>
    /\ ~(LineQueued /\ LineHandled)
    /\ inputAt = "gone" \/ (inputAt \in {"wait", "asleep"} /\ ~fence)

\* The destructor of the Interpreter sends the one POKE.
OnePoke ==
  (\E n \in DOMAIN inbox : inbox[n] = <<"POKE">>) \/ handling = <<"POKE">> =>
    mainAt \in {"dtorJoin", "dtorKill", "dtorJoinInput", "dtorEngine", "over"}

\* The Interpreter is joined before the thread of CLIInput is killed.
JoinedFirst ==
  /\ mainAt \in {"parse", "window", "engine", "input"} => inputAt = "none"
  /\ mainAt \in {"parse", "window", "engine", "input", "interpreter"} =>
       interpreterAt = "none"
  /\ mainAt \in {"dtorKill", "dtorJoinInput", "dtorEngine", "over"} =>
       interpreterAt \in {"none", "done"}
  /\ inputAt = "gone" => mainAt \in {"dtorJoinInput", "dtorEngine", "over"}
  /\ inputAt = "send" => str \in Lines /\ ~fence

ApplicationInv ==
  /\ ApplicationTypeOK
  /\ InboxFits
  /\ HandlingFits
  /\ OneLine
  /\ OnePoke
  /\ JoinedFirst

-----------------------------------------------------------------------------
LEMMA LinesAreNotMessages ==
  /\ "SIMPLE_FENCE" \notin Lines /\ "POKE" \notin Lines
  /\ \A l \in Lines : <<l, "SIMPLE_FENCE">> \in MessageQueues
                      /\ <<l, "SIMPLE_FENCE">> # <<"POKE">>
  /\ <<"POKE">> \in MessageQueues
  BY ApplicationAssumption DEF Lines, MessageQueues

\* The shapes of what is handled, and of what is left of it after a message.
LEMMA HandlingShapes ==
  ASSUME HandlingFits, handling # <<>>
  PROVE  /\ \/ handling = <<"POKE">> /\ Tail(handling) = <<>>
            \/ handling = <<"SIMPLE_FENCE">> /\ Tail(handling) = <<>>
            \/ \E l \in Lines : handling = <<l, "SIMPLE_FENCE">>
                               /\ Tail(handling) = <<"SIMPLE_FENCE">>
         /\ handling \in Seq(Lines \cup {"SIMPLE_FENCE", "POKE"}) /\ Len(handling) <= 2
  <1>1. CASE handling = <<"POKE">>
    BY <1>1
  <1>2. CASE handling = <<"SIMPLE_FENCE">>
    BY <1>2
  <1>3. ASSUME NEW l \in Lines, handling = <<l, "SIMPLE_FENCE">>
        PROVE  /\ Tail(handling) = <<"SIMPLE_FENCE">>
               /\ handling \in Seq(Lines \cup {"SIMPLE_FENCE", "POKE"}) /\ Len(handling) <= 2
    BY <1>3
  <1> QED
    BY <1>1, <1>2, <1>3 DEF HandlingFits

LEMMA LineShape ==
  ASSUME HandlingFits, handling # <<>>, Head(handling) \in Lines
  PROVE  /\ LineHandled
         /\ \E l \in Lines : handling = <<l, "SIMPLE_FENCE">> /\ Tail(handling) = <<"SIMPLE_FENCE">>
  <1>1. CASE handling = <<"POKE">>
    BY <1>1, LinesAreNotMessages
  <1>2. CASE handling = <<"SIMPLE_FENCE">>
    BY <1>2, LinesAreNotMessages
  <1>3. ASSUME NEW l \in Lines, handling = <<l, "SIMPLE_FENCE">>
        PROVE  Tail(handling) = <<"SIMPLE_FENCE">> /\ handling # <<"POKE">>
    BY <1>3
  <1> QED
    BY <1>1, <1>2, <1>3 DEF HandlingFits, LineHandled

\* What is left of a MessageQueue, whatever the thread does.
LEMMA HandlingStep ==
  ASSUME ApplicationInv, Next
  PROVE  HandlingFits'
  <1> USE DEF ApplicationInv, HandlingFits
  <1>1. CASE UNCHANGED <<interpreterAt, handling>>
    BY <1>1
  <1>2. CASE CreateInterpreter
    BY <1>2 DEF CreateInterpreter, MainGoesOn, JoinedFirst, ApplicationTypeOK
  <1>3. CASE AwaitStart \/ OnStart \/ Loop \/ EndOfQueue \/ NotifyFence
    BY <1>3 DEF AwaitStart, OnStart, UseLua, Loop, EndOfQueue, NotifyFence, InterpreterGoesOn
  <1>4. CASE Recv
    <2>1. Head(inbox) \in MessageQueues /\ handling' = Head(inbox) /\ interpreterAt' = "handle"
      BY <1>4 DEF Recv, InterpreterGoesOn, ApplicationTypeOK
    <2> QED
      BY <2>1 DEF MessageQueues
  <1>5. CASE Exec
    <2>1. /\ handling # <<>> /\ Head(handling) \in Lines /\ interpreterAt = "handle"
          /\ interpreterAt' \in {"handle", "get", "lost"}
          /\ handling' = handling \/ (handling' = Tail(handling) /\ interpreterAt' = "handle")
      BY <1>5 DEF Exec, UseLua, InterpreterGoesOn
    <2>2. PICK l \in Lines : handling = <<l, "SIMPLE_FENCE">> /\ Tail(handling) = <<"SIMPLE_FENCE">>
      BY <2>1, LineShape
    <2> QED
      BY <2>1, <2>2
  <1>6. CASE GetInstance
    <2>1. interpreterAt' = "handle" /\ handling' \in {Tail(handling)} \cup
            {[handling EXCEPT ![1] = s] : s \in Scripts}
      BY <1>6 DEF GetInstance, InterpreterGoesOn
    <2>2. PICK l \in Lines : handling = <<l, "SIMPLE_FENCE">>
      BY <1>6 DEF GetInstance, InterpreterGoesOn
    <2>3. Tail(handling) = <<"SIMPLE_FENCE">>
      BY <2>2
    <2>4. ASSUME NEW s \in Scripts
          PROVE  [handling EXCEPT ![1] = s] = <<s, "SIMPLE_FENCE">> /\ s \in Lines
      BY <2>2 DEF Lines
    <2> QED
      BY <2>1, <2>3, <2>4
  <1>7. CASE StoreFence \/ Poked
    <2>1. handling # <<>> /\ Head(handling) \notin Lines /\ handling' = Tail(handling)
          /\ interpreterAt' \in {"handle", "notify"}
      BY <1>7, LinesAreNotMessages DEF StoreFence, Poked, InterpreterGoesOn
    <2>2. handling' = <<>>
      BY <2>1, HandlingShapes
    <2> QED
      BY <2>1, <2>2
  <1> QED
    BY <1>1, <1>2, <1>3, <1>4, <1>5, <1>6, <1>7
    DEF Next, MainNext, Construct, ParseArgs, ShowWindow, CreateGraphicsEngine, CreateCLIInput,
        StartInterpreter, ClaimMailbox, RecvMessages, PumpMsgs, Destroy, DestroyImpl,
        DestroyStop, DestroyStart, DestroyPoke, DestroyJoin, DestroyInput, DestroyJoinInput,
        DestroyRest, InputNext, InstallHandler, SendLine, WaitForFence, ReadLine,
        InterpreterNext, subsystemVars

\* Where the threads are, relative to each other.
LEMMA JoinedStep ==
  ASSUME ApplicationInv, Next
  PROVE  JoinedFirst'
  <1> USE DEF ApplicationInv, JoinedFirst, ApplicationTypeOK
  <1>1. CASE Construct
    BY <1>1
    DEF Construct, ParseArgs, ShowWindow, CreateGraphicsEngine, CreateCLIInput,
        CreateInterpreter, StartInterpreter, ClaimMailbox, MainGoesOn, MainThrows, inputVars,
        subsystemVars
  <1>2. CASE RecvMessages \/ PumpMsgs
    BY <1>2 DEF RecvMessages, PumpMsgs, MainGoesOn, inputVars, subsystemVars
  <1>3. CASE Destroy
    BY <1>3
    DEF Destroy, DestroyImpl, DestroyStop, DestroyStart, DestroyPoke, DestroyJoin,
        DestroyInput, DestroyJoinInput, DestroyRest, MainGoesOn, inputVars, subsystemVars
  <1>4. CASE InputNext \/ ReadLine
    BY <1>4
    DEF InputNext, InstallHandler, SendLine, WaitForFence, ReadLine, InputGoesOn, mainVars,
        subsystemVars
  <1>5. CASE StoreFence
    <2>1. LineHandled
      BY <1>5 DEF StoreFence, LineHandled
    <2>2. inputAt # "send"
      BY <2>1 DEF OneLine
    <2> QED
      BY <1>5, <2>2 DEF StoreFence, InterpreterGoesOn, mainVars
  <1>6. CASE InterpreterNext /\ UNCHANGED fence
    BY <1>6
    DEF InterpreterNext, AwaitStart, OnStart, UseLua, Loop, Recv, EndOfQueue, Exec, GetInstance,
        StoreFence, NotifyFence, Poked, InterpreterGoesOn, mainVars, inputVars
  <1> QED
    BY <1>1, <1>2, <1>3, <1>4, <1>5, <1>6
    DEF Next, MainNext, InterpreterNext, AwaitStart, OnStart, Loop, Recv, EndOfQueue, Exec,
        GetInstance, NotifyFence, Poked, inputVars

\* What every step does to the mailbox.
LEMMA InboxSteps ==
  ASSUME Next
  PROVE  \/ UNCHANGED inbox
         \/ SendLine
         \/ DestroyPoke
         \/ Recv
         \/ DestroyRest
  BY DEF Next, MainNext, Construct, ParseArgs, ShowWindow, CreateGraphicsEngine,
         CreateCLIInput, CreateInterpreter, StartInterpreter, ClaimMailbox, RecvMessages,
         PumpMsgs, Destroy, DestroyImpl, DestroyStop, DestroyStart, DestroyJoin, DestroyInput,
         DestroyJoinInput, InputNext, InstallHandler, WaitForFence, ReadLine, InterpreterNext,
         AwaitStart, OnStart, Loop, EndOfQueue, Exec, GetInstance, StoreFence, NotifyFence, Poked

LEMMA Appended ==
  ASSUME ApplicationInv, NEW mq, inbox' = Append(inbox, mq)
  PROVE  /\ Len(inbox) \in Nat /\ DOMAIN inbox = 1..Len(inbox)
         /\ DOMAIN inbox' = 1..(Len(inbox) + 1)
         /\ \A n \in DOMAIN inbox : inbox'[n] = inbox[n]
         /\ inbox'[Len(inbox) + 1] = mq
  BY DEF ApplicationInv, ApplicationTypeOK

LEMMA Taken ==
  ASSUME ApplicationInv, inbox # <<>>, inbox' = Tail(inbox)
  PROVE  /\ Len(inbox) \in Nat \ {0} /\ DOMAIN inbox = 1..Len(inbox)
         /\ DOMAIN inbox' = 1..(Len(inbox) - 1)
         /\ \A n \in DOMAIN inbox' : n + 1 \in DOMAIN inbox /\ inbox'[n] = inbox[n + 1]
         /\ Head(inbox) = inbox[1] /\ 1 \in DOMAIN inbox
  BY DEF ApplicationInv, ApplicationTypeOK

LEMMA InboxStep ==
  ASSUME ApplicationInv, Next
  PROVE  InboxFits'
  <1> USE DEF InboxFits
  <1>1. CASE UNCHANGED inbox
    BY <1>1 DEF ApplicationInv
  <1>2. CASE SendLine
    <2>1. inputAt = "send" /\ inbox' = Append(inbox, <<str, "SIMPLE_FENCE">>) /\ str \in Lines
      BY <1>2 DEF SendLine, InputGoesOn, ApplicationInv, JoinedFirst
    <2>2. \A n \in DOMAIN inbox : inbox[n] = <<"POKE">>
      BY <2>1 DEF ApplicationInv, OneLine, LineQueued
    <2> QED
      BY <2>1, <2>2, Appended, LinesAreNotMessages DEF ApplicationInv
  <1>3. CASE DestroyPoke
    <2>1. mainAt = "dtorPoke" /\ inbox' = Append(inbox, <<"POKE">>)
      BY <1>3 DEF DestroyPoke, MainGoesOn
    <2>2. \A n \in DOMAIN inbox : inbox[n] # <<"POKE">>
      BY <2>1 DEF ApplicationInv, OnePoke
    <2> QED
      BY <2>1, <2>2, Appended DEF ApplicationInv
  <1>4. CASE Recv
    <2>1. inbox # <<>> /\ inbox' = Tail(inbox)
      BY <1>4 DEF Recv
    <2>2. \A n \in DOMAIN inbox' : n \in Nat
      BY <2>1, Taken
    <2> QED
      BY <2>1, <2>2, Taken DEF ApplicationInv
  <1>5. CASE DestroyRest
    BY <1>5 DEF DestroyRest
  <1> QED
    BY <1>1, <1>2, <1>3, <1>4, <1>5, InboxSteps

\* What every step does to the MessageQueue that is handled.
LEMMA HandlingSteps ==
  ASSUME Next
  PROVE  \/ UNCHANGED handling
         \/ Recv
         \/ Exec
         \/ GetInstance
         \/ StoreFence
         \/ Poked
  BY DEF Next, MainNext, Construct, ParseArgs, ShowWindow, CreateGraphicsEngine,
         CreateCLIInput, CreateInterpreter, StartInterpreter, ClaimMailbox, RecvMessages,
         PumpMsgs, Destroy, DestroyImpl, DestroyStop, DestroyStart, DestroyPoke, DestroyJoin,
         DestroyInput, DestroyJoinInput, DestroyRest, InputNext, InstallHandler, SendLine,
         WaitForFence, ReadLine, InterpreterNext, AwaitStart, OnStart, Loop, EndOfQueue,
         NotifyFence, subsystemVars

LEMMA PokeStep ==
  ASSUME ApplicationInv, Next
  PROVE  OnePoke'
  <1> DEFINE After == {"dtorJoin", "dtorKill", "dtorJoinInput", "dtorEngine", "over"}
  <1>1. mainAt \in After => mainAt' \in After
    BY DEF Next, MainNext, Construct, ParseArgs, ShowWindow, CreateGraphicsEngine,
         CreateCLIInput, CreateInterpreter, StartInterpreter, ClaimMailbox, RecvMessages,
         PumpMsgs, Destroy, DestroyImpl, DestroyStop, DestroyStart, DestroyPoke, DestroyJoin,
         DestroyInput, DestroyJoinInput, DestroyRest, InputNext, InstallHandler, SendLine,
         WaitForFence, ReadLine, InterpreterNext, AwaitStart, OnStart, Loop, Recv, EndOfQueue,
         Exec, GetInstance, StoreFence, NotifyFence, Poked, MainGoesOn, MainThrows, mainVars
  <1>2. SUFFICES ASSUME \/ \E n \in DOMAIN inbox' : inbox'[n] = <<"POKE">>
                        \/ handling' = <<"POKE">>
                 PROVE  mainAt \in After \/ mainAt' \in After
    BY <1>1 DEF OnePoke
  <1> USE DEF ApplicationInv, OnePoke
  <1>3. CASE \E n \in DOMAIN inbox' : inbox'[n] = <<"POKE">>
    <2>1. CASE UNCHANGED inbox
      BY <1>3, <2>1
    <2>2. CASE SendLine
      <3>1. inbox' = Append(inbox, <<str, "SIMPLE_FENCE">>) /\ str \in Lines
        BY <2>2 DEF SendLine, InputGoesOn, JoinedFirst
      <3> QED
        BY <1>3, <3>1, Appended, LinesAreNotMessages
    <2>3. CASE DestroyPoke
      BY <2>3 DEF DestroyPoke, MainGoesOn
    <2>4. CASE Recv
      BY <1>3, <2>4, Taken DEF Recv
    <2>5. CASE DestroyRest
      BY <2>5 DEF DestroyRest, MainGoesOn
    <2> QED
      BY <2>1, <2>2, <2>3, <2>4, <2>5, InboxSteps
  <1>4. CASE handling' = <<"POKE">>
    <2>1. CASE UNCHANGED handling
      BY <1>4, <2>1
    <2>2. CASE Recv
      BY <1>4, <2>2, Taken DEF Recv
    <2>3. CASE Exec \/ GetInstance \/ StoreFence \/ Poked
      <3>1. \/ handling' = handling
            \/ handling # <<>> /\ handling' = Tail(handling)
            \/ \E s \in Scripts : handling' = <<s, "SIMPLE_FENCE">>
        <4>1. CASE GetInstance
          <5>1. PICK l \in Lines : handling = <<l, "SIMPLE_FENCE">>
            BY <4>1 DEF GetInstance, InterpreterGoesOn, HandlingFits
          <5>2. /\ handling # <<>>
                /\ \A s : [handling EXCEPT ![1] = s] = <<s, "SIMPLE_FENCE">>
            BY <5>1
          <5> QED
            BY <4>1, <5>2 DEF GetInstance
        <4>2. CASE Exec \/ StoreFence \/ Poked
          BY <4>2 DEF Exec, StoreFence, Poked
        <4> QED
          BY <2>3, <4>1, <4>2
      <3>2. CASE handling # <<>> /\ handling' = Tail(handling)
        BY <1>4, <3>2, HandlingShapes
      <3>3. \A s \in Scripts : <<s, "SIMPLE_FENCE">> # <<"POKE">>
        OBVIOUS
      <3> QED
        BY <1>4, <3>1, <3>2, <3>3
    <2> QED
      BY <2>1, <2>2, <2>3, HandlingSteps
  <1> QED
    BY <1>2, <1>3, <1>4

LEMMA LineStep ==
  ASSUME ApplicationInv, Next
  PROVE  OneLine'
  <1> USE DEF ApplicationInv, OneLine
  <1>1. CASE SendLine
    <2>1. /\ inputAt = "send" /\ inputAt' = "wait" /\ ~fence /\ UNCHANGED <<handling, fence>>
      BY <1>1 DEF SendLine, InputGoesOn, JoinedFirst, subsystemVars
    <2>2. ~LineHandled
      BY <2>1
    <2> QED
      BY <2>1, <2>2 DEF LineHandled
  <1>2. CASE DestroyPoke
    <2>1. inbox' = Append(inbox, <<"POKE">>) /\ UNCHANGED <<handling, inputAt, fence>>
      BY <1>2 DEF DestroyPoke, subsystemVars, inputVars
    <2>2. LineQueued' => LineQueued
      BY <2>1, Appended DEF LineQueued
    <2>3. LineHandled' <=> LineHandled
      BY <2>1 DEF LineHandled
    <2> QED
      BY <2>1, <2>2, <2>3
  <1>3. CASE Recv
    <2>1. /\ inbox # <<>> /\ inbox' = Tail(inbox) /\ handling' = Head(inbox)
          /\ UNCHANGED <<inputAt, fence>>
      BY <1>3 DEF Recv, inputVars
    <2>2. ~LineHandled
      BY <1>3 DEF Recv, InterpreterGoesOn, HandlingFits, LineHandled
    <2>3. LineQueued' => LineQueued
      BY <2>1, Taken DEF LineQueued
    <2>4. LineHandled' => LineQueued
      BY <2>1, Taken DEF LineHandled, LineQueued
    <2>5. LineQueued' => ~LineHandled'
      <3> SUFFICES ASSUME NEW n \in DOMAIN inbox', inbox'[n] # <<"POKE">>,
                          Head(inbox) # <<"POKE">>
                   PROVE  FALSE
        BY <2>1 DEF LineQueued, LineHandled
      <3>1. n + 1 \in DOMAIN inbox /\ inbox[n + 1] # <<"POKE">> /\ inbox[1] # <<"POKE">>
        BY <2>1, Taken
      <3>2. n + 1 = 1
        BY <2>1, <3>1, Taken DEF InboxFits
      <3> QED
        BY <2>1, <3>2, Taken
    <2> QED
      BY <2>1, <2>2, <2>3, <2>4, <2>5
  <1>4. CASE Exec \/ GetInstance \/ Poked
    <2>1. UNCHANGED <<inbox, inputAt, fence>>
      BY <1>4 DEF Exec, GetInstance, Poked, inputVars
    <2>2. LineQueued' <=> LineQueued
      BY <2>1 DEF LineQueued
    <2>3. ASSUME Exec \/ GetInstance PROVE LineHandled
      <3>1. CASE Exec
        BY <3>1, LineShape DEF Exec
      <3>2. CASE GetInstance
        <4>1. PICK l \in Lines : handling = <<l, "SIMPLE_FENCE">>
          BY <3>2 DEF GetInstance, InterpreterGoesOn, HandlingFits
        <4> QED
          BY <4>1 DEF LineHandled
      <3> QED
        BY <2>3, <3>1, <3>2
    <2>4. LineHandled' => LineHandled
      <3>1. CASE Poked
        <4>1. handling # <<>> /\ handling' = Tail(handling)
          BY <3>1 DEF Poked
        <4>2. CASE handling = <<"POKE">>
          BY <4>1, <4>2 DEF LineHandled
        <4> QED
          BY <4>1, <4>2 DEF LineHandled
      <3> QED
        BY <1>4, <2>3, <3>1 DEF LineHandled
    <2> QED
      BY <2>1, <2>2, <2>4
  <1>5. CASE StoreFence
    <2>1. handling # <<>> /\ Head(handling) = "SIMPLE_FENCE" /\ handling' = Tail(handling)
          /\ UNCHANGED inbox
      BY <1>5 DEF StoreFence
    <2>2. LineHandled /\ ~LineHandled'
      <3>1. handling # <<"POKE">>
        BY <2>1
      <3>2. ASSUME NEW l \in Lines, handling = <<l, "SIMPLE_FENCE">> PROVE FALSE
        BY <2>1, <3>2, LinesAreNotMessages
      <3>3. handling' = <<>>
        BY <2>1, <3>1, <3>2, HandlingShapes
      <3> QED
        BY <2>1, <3>1, <3>3 DEF LineHandled
    <2>3. ~LineQueued'
      BY <2>1, <2>2 DEF LineQueued
    <2> QED
      BY <2>2, <2>3
  <1>6. CASE DestroyRest
    BY <1>6 DEF DestroyRest, LineQueued, LineHandled, subsystemVars, inputVars
  <1>7. CASE UNCHANGED <<inbox, handling>> /\ Next
    <2>1. (LineQueued' <=> LineQueued) /\ (LineHandled' <=> LineHandled)
      BY <1>7 DEF LineQueued, LineHandled
    <2>2. SUFFICES ASSUME LineQueued \/ LineHandled
                   PROVE  inputAt' = "gone" \/ (inputAt' \in {"wait", "asleep"} /\ ~fence')
      BY <2>1
    <2>3. inputAt = "gone" \/ (inputAt \in {"wait", "asleep"} /\ ~fence)
      BY <2>2
    <2>4. CASE InterpreterNext /\ UNCHANGED fence
      BY <2>3, <2>4
      DEF InterpreterNext, AwaitStart, OnStart, Loop, Recv, EndOfQueue, Exec,
          GetInstance, StoreFence,
          NotifyFence, Poked, inputVars
    <2>5. ~StoreFence
      <3> SUFFICES ASSUME StoreFence PROVE FALSE
        OBVIOUS
      <3>1. handling # <<>> /\ handling' = Tail(handling) /\ handling' = handling
        BY <1>7 DEF StoreFence
      <3> QED
        BY <3>1, HandlingShapes
    <2>6. CASE InterpreterNext
      BY <2>4, <2>5, <2>6
      DEF InterpreterNext, AwaitStart, OnStart, Loop, Recv, EndOfQueue, Exec,
          GetInstance, NotifyFence, Poked,
          inputVars
    <2>7. CASE InputNext \/ ReadLine
      BY <2>3, <2>7 DEF InputNext, InstallHandler, SendLine, WaitForFence, ReadLine, InputGoesOn
    <2>8. CASE MainNext
      BY <2>3, <2>8
      DEF MainNext, Construct, ParseArgs, ShowWindow, CreateGraphicsEngine,
          CreateCLIInput, CreateInterpreter, StartInterpreter, ClaimMailbox, RecvMessages,
          PumpMsgs, Destroy, DestroyImpl, DestroyStop, DestroyStart, DestroyPoke, DestroyJoin,
          DestroyInput, DestroyJoinInput, DestroyRest, MainGoesOn, JoinedFirst, inputVars
    <2> QED
      BY <1>7, <2>6, <2>7, <2>8 DEF Next
  <1> QED
    BY <1>1, <1>2, <1>3, <1>4, <1>5, <1>6, <1>7, InboxSteps, HandlingSteps

\* The mailbox never has more than a line and the POKE, which are different.
LEMMA InboxIsShort ==
  ASSUME NEW s \in Seq(MessageQueues),
         \A m, n \in DOMAIN s : (s[m] = <<"POKE">> <=> s[n] = <<"POKE">>) => m = n
  PROVE  Len(s) <= 2
  <1> SUFFICES ASSUME Len(s) > 2 PROVE FALSE
    OBVIOUS
  <1>1. {1, 2, 3} \subseteq DOMAIN s
    OBVIOUS
  <1> QED
    BY <1>1

LEMMA TypeStep ==
  ASSUME ApplicationInv, Next, InboxFits', HandlingFits'
  PROVE  ApplicationTypeOK'
  <1> USE DEF ApplicationInv, ApplicationTypeOK
  <1>1. inbox' \in Seq(MessageQueues)
    <2>1. CASE SendLine
      BY <2>1 DEF SendLine, InputGoesOn, JoinedFirst, MessageQueues
    <2>2. CASE DestroyPoke
      BY <2>2, LinesAreNotMessages DEF DestroyPoke
    <2>3. CASE Recv
      BY <2>3 DEF Recv
    <2>4. CASE DestroyRest
      BY <2>4 DEF DestroyRest
    <2> QED
      BY <2>1, <2>2, <2>3, <2>4, InboxSteps
  <1>2. Len(inbox') <= 2
    BY <1>1, InboxIsShort DEF InboxFits
  <1>3. handling' \in Seq(Lines \cup {"SIMPLE_FENCE", "POKE"}) /\ Len(handling') <= 2
    <2>1. CASE handling' = <<>>
      BY <2>1
    <2>2. CASE handling' = <<"POKE">> \/ handling' = <<"SIMPLE_FENCE">>
      <3>1. CASE handling' = <<"POKE">>
        BY <3>1
      <3>2. CASE handling' = <<"SIMPLE_FENCE">>
        BY <3>2
      <3> QED
        BY <2>2, <3>1, <3>2
    <2>3. ASSUME NEW l \in Lines, handling' = <<l, "SIMPLE_FENCE">>
          PROVE  handling' \in Seq(Lines \cup {"SIMPLE_FENCE", "POKE"}) /\ Len(handling') <= 2
      BY <2>3
    <2> QED
      BY <2>1, <2>2, <2>3 DEF HandlingFits
  <1>4. /\ {headless, interactive, app, done, stopRequested, startSignal_, lua, fence, exited}'
             \subseteq BOOLEAN
        /\ mainAt' \in Constructing \cup Looping \cup Destroying \cup {"over"}
        /\ interpreterAt' \in {"none", "parked", "onStart", "loop", "recv", "handle", "get",
                               "notify", "lost", "done"}
        /\ inputAt' \in {"none", "begin", "readline", "send", "wait", "asleep", "gone"}
        /\ str' \in Lines \cup {"nothing"}
        /\ lines' \in 0..MaxLines
    <2> USE DEF Constructing, Looping, Destroying, MainGoesOn, MainThrows, InputGoesOn,
            InterpreterGoesOn, UseLua, mainVars, subsystemVars, inputVars
    <2>1. CASE Construct
      BY <2>1
      DEF Construct, ParseArgs, ShowWindow, CreateGraphicsEngine, CreateCLIInput,
          CreateInterpreter, StartInterpreter, ClaimMailbox
    <2>2. CASE RecvMessages \/ PumpMsgs
      BY <2>2 DEF RecvMessages, PumpMsgs
    <2>3. CASE Destroy
      BY <2>3
      DEF Destroy, DestroyImpl, DestroyStop, DestroyStart, DestroyPoke, DestroyJoin,
          DestroyInput, DestroyJoinInput, DestroyRest
    <2>4. CASE InputNext
      BY <2>4 DEF InputNext, InstallHandler, SendLine, WaitForFence
    <2>5. CASE ReadLine
      <3>1. lines' \in 0..MaxLines
        BY <2>5, ApplicationAssumption DEF ReadLine
      <3>2. {headless, interactive, app, done, stopRequested, startSignal_, lua, fence, exited}'
              \subseteq BOOLEAN
        BY <2>5 DEF ReadLine
      <3> QED
        BY <2>5, <3>1, <3>2 DEF ReadLine
    <2>6. CASE InterpreterNext
      BY <2>6
      DEF InterpreterNext, AwaitStart, OnStart, Loop, Recv, EndOfQueue, Exec,
          GetInstance, StoreFence,
          NotifyFence, Poked
    <2> QED
      BY <2>1, <2>2, <2>3, <2>4, <2>5, <2>6 DEF Next, MainNext
  <1> QED
    BY <1>1, <1>2, <1>3, <1>4

LEMMA InitFits == Init => ApplicationInv
  <1> SUFFICES ASSUME Init PROVE ApplicationInv
    OBVIOUS
  <1>1. ApplicationTypeOK
    <2>1. 0 \in 0..MaxLines
      BY ApplicationAssumption
    <2>2. <<>> \in Seq(MessageQueues) /\ <<>> \in Seq(Lines \cup {"SIMPLE_FENCE", "POKE"})
          /\ Len(<<>>) <= 2
      OBVIOUS
    <2>3. inbox \in Seq(MessageQueues) /\ handling \in Seq(Lines \cup {"SIMPLE_FENCE", "POKE"})
          /\ Len(inbox) <= 2 /\ Len(handling) <= 2
      BY <2>2 DEF Init
    <2>4. {headless, interactive, app, done, stopRequested, startSignal_, lua, fence, exited}
            \subseteq BOOLEAN
      BY DEF Init
    <2> QED
      BY <2>1, <2>3, <2>4 DEF Init, ApplicationTypeOK, Constructing
  <1>2. InboxFits /\ HandlingFits /\ OneLine /\ OnePoke
    BY DEF Init, InboxFits, HandlingFits, OneLine, OnePoke, LineQueued, LineHandled
  <1>3. JoinedFirst
    BY DEF Init, JoinedFirst
  <1> QED
    BY <1>1, <1>2, <1>3 DEF ApplicationInv

LEMMA StepFits == ApplicationInv /\ [Next]_vars => ApplicationInv'
  <1>1. CASE ApplicationInv /\ Next
    BY <1>1, InboxStep, HandlingStep, LineStep, PokeStep, JoinedStep, TypeStep
    DEF ApplicationInv
  <1>2. CASE ApplicationInv /\ UNCHANGED vars
    BY <1>2
    DEF vars, mainVars, subsystemVars, inputVars, ApplicationInv, ApplicationTypeOK, InboxFits,
        HandlingFits, OneLine, OnePoke, JoinedFirst, LineQueued, LineHandled
  <1> QED
    BY <1>1, <1>2

\* The inductive invariant.
THEOREM InvariantHolds == Spec => []ApplicationInv
  BY InitFits, StepFits, PTL DEF Spec

-----------------------------------------------------------------------------
\* Every variable keeps to its type, and the mailbox of the Interpreter never
\* has more than one line and the POKE of its destructor in it.
THEOREM MailboxStaysShort == Spec => []ApplicationTypeOK
  <1>1. ApplicationInv => ApplicationTypeOK
    BY DEF ApplicationInv
  <1> QED
    BY <1>1, InvariantHolds, PTL

\* Whatever the scripts are and however many lines are typed, the prompt is only
\* there when no line is on its way (CLIInput.cpp:55-58).
THEOREM PromptComesLast == Spec => []PromptAfterOutput
  <1>1. ApplicationInv => PromptAfterOutput
    <2> SUFFICES ASSUME ApplicationInv, inputAt = "readline"
                 PROVE  /\ \A n \in DOMAIN inbox : inbox[n] = <<"POKE">>
                        /\ \A n \in DOMAIN handling : handling[n] = "POKE"
      BY DEF PromptAfterOutput
    <2>1. ~LineQueued /\ ~LineHandled
      BY DEF ApplicationInv, OneLine
    <2> QED
      BY <2>1 DEF LineQueued, LineHandled
  <1> QED
    BY <1>1, InvariantHolds, PTL

\* The Interpreter never sets a fence that is gone, or one that was set before
\* (CLIInput.cpp:49, Interpreter.cpp).
THEOREM FenceOutlivesCallback == Spec => []FenceIsAlive
  <1>1. ApplicationInv => FenceIsAlive
    <2> SUFFICES ASSUME ApplicationInv, interpreterAt = "handle", handling # <<>>,
                        Head(handling) = "SIMPLE_FENCE"
                 PROVE  inputAt \in {"wait", "asleep"} /\ ~fence
      BY DEF FenceIsAlive
    <2>1. LineHandled
      BY DEF LineHandled
    <2>2. inputAt # "gone"
      BY DEF ApplicationInv, JoinedFirst
    <2> QED
      BY <2>1, <2>2 DEF ApplicationInv, OneLine
  <1> QED
    BY <1>1, InvariantHolds, PTL

=============================================================================
