---- MODULE MCInjector ----
(* The root injector has the rules of the application, and a child injector   *)
(* has types with a cycle, a late recipe and creat(); the thread of the        *)
(* Interpreter asks for instances that exist.                                 *)
EXTENDS Injector_proofs, ApplicationRules, TLC

CONSTANTS worker, root, child

RuleFor(rules) == [T \in Types |-> IF T \in DOMAIN rules THEN rules[T] ELSE NoRule]

AppRules == installMinimalRules @@ installDefaultRules @@ install_vk_initializer_rules
TestRules ==
  [Base   |-> bindImpl("SpdlogLogger"),
   CycleA |-> addRecipe(<<Get("PropertyMap"), Get("CycleB")>>),
   CycleB |-> addRecipe(<<Creat("CycleA")>>),
   Test   |-> addRecipe(<<Get("PropertyMap"), Creat("Context"), Creat("InputHandler")>>)]

AppTypes == DOMAIN AppRules
            \cup {"Injector", "SpdlogLogger", "Clock", "NullWindow", "Context"}
AllTypes == AppTypes \cup DOMAIN TestRules
DefaultTypes == {"SpdlogLogger", "Clock", "NullWindow", "Context"}

Family == (root :> RuleFor(AppRules)) @@ (child :> RuleFor(TestRules))
Upstream == (root :> NoInjector) @@ (child :> root)
LateRules == (root :> {"IWindow"}) @@ (child :> {"Base"})
Served == [T \in Types |-> IF T = "Interpreter" THEN worker ELSE NoThread]

\* main creates everything, and the child when it has; the worker asks for what
\* the Lua functions get_prop and set_prop use.
Asks ==
  (main   :> ((root :> {Get(oml_main[n]) : n \in DOMAIN oml_main}) @@
              (child :> {Get("CycleA"), Get("Test"), Creat("Base")}))) @@
  (worker :> ((root :> {Get("PropertyMap")}) @@ (child :> {})))
Earlier ==
  [T \in Types |->
     IF T \in DOMAIN TestRules THEN {"CLIInput"}
     ELSE {oml_main[m] : m \in {m \in DOMAIN oml_main :
             \E n \in DOMAIN oml_main : oml_main[n] = T /\ m < n}}]

\* What the theorems take for granted holds of these rules.
ASSUME RulesAreAsProved == Wanted = Asks => Hypotheses

\* Both threads create.
BothAsk ==
  [t \in Threads |-> (root :> {Get("PropertyMap"), Get("Interpreter")}) @@ (child :> {})]
Whenever == [T \in Types |-> {}]
=============================================================================
