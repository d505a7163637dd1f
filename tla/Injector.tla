---- MODULE Injector ----
(***************************************************************************)
(* omulator::di::Injector with its TypeMap: threads that get() and creat()   *)
(* instances, the recursion through recipes, child injectors, exceptions,    *)
(* and the destructor, which joins the threads of the Subsystems it owns.    *)
(* A call is a stack of frames, one per nested get() or creat(); a step is   *)
(* an access to state that other threads use, with what follows from it.     *)
(***************************************************************************)
EXTENDS Naturals, Sequences

CONSTANTS
  Threads,      \* the threads that use an injector ...
  main,         \* ... of which this one also creates and destroys them
  Injectors,
  Parent,       \* pUpstream_ of each injector
  Types,
  Self,         \* the type di::Injector
  Abstract,     \* std::is_abstract_v
  DefaultInit,  \* std::default_initializable
  Throwing,     \* types whose constructor may throw
  Rules,        \* Rules[i][T]: the recipe for T that is added to i, if any
  Late,         \* Late[i]: the types whose recipe is added after the first get()
  Wanted,       \* Wanted[t][i]: what t asks injector i for
  Serves,       \* Serves[T]: the thread that the Subsystem T owns
  Ready,        \* Ready[T]: what main asks for before it asks for T
  NoThread, NoInjector, NoRule, NoEntry, Null

\* What a constructor takes: a reference or pointer ("get"), or a value.
Dependency == [type : Types, how : {"REFERENCE", "NEW_VALUE"}]

\* addCtorRecipe() and addRecipe() construct a T; bindImpl() has T stand for
\* its only dependency.
Recipe == [binds : BOOLEAN, deps : Seq(Dependency)]

ASSUME InjectorAssumption ==
  /\ main \in Threads
  /\ Self \in Types
  /\ Abstract \subseteq Types
  /\ DefaultInit \subseteq Types \ Abstract
  /\ Throwing \subseteq Types
  /\ Parent \in [Injectors -> Injectors \cup {NoInjector}]
  /\ Rules \in [Injectors -> [Types -> Recipe \cup {NoRule}]]
  /\ \A i \in Injectors : Late[i] \subseteq {T \in Types : Rules[i][T] # NoRule}
  /\ Wanted \in [Threads -> [Injectors -> SUBSET Dependency]]
  /\ Serves \in [Types -> (Threads \ {main}) \cup {NoThread}]
  /\ Serves[Self] = NoThread
  /\ Ready \in [Types -> SUBSET Types]
  /\ NoThread \notin Threads /\ NoInjector \notin Injectors
  /\ NoRule \notin Recipe
  /\ {NoEntry, Null} \cap (Injectors \X Types) = {} /\ NoEntry # Null

\* An injector and the one that get() asks when it has no instance itself.
Lineage(i) == {i} \cup ({Parent[i]} \ {NoInjector})

\* The instance of T that injector i manages, if there is one.
Instance == Injectors \X Types

VARIABLES
  typeMap_,         \* what each entry of each injector's map points to
  mtx_,             \* whether main holds the mutex of this map, in erase()
  recipeMap_,       \* the types that each injector has a recipe for
  invocationList_,  \* the types in the order in which they were created
  typeHashStack_,   \* the types that are being injected
  isInCycleCheck_,
  injectionMtx_,    \* who holds it
  calls,            \* each thread's stack of calls, innermost first
  alive,            \* the instances that exist
  refs,             \* the instances that each instance refers to
  holds,            \* what a thread other than main got last
  thread,           \* the life of the threads that Subsystems own
  phase,            \* the life of each injector
  left              \* the entries of invocationList_ still to be destroyed

cycleVars == <<typeHashStack_, isInCycleCheck_, injectionMtx_>>
instanceVars == <<typeMap_, alive, refs>>
lifeVars == <<thread, phase, left, mtx_>>
vars == <<instanceVars, recipeMap_, invocationList_, cycleVars, calls, holds,
          lifeVars>>

Frame ==
  [inj    : Injectors,                   \* this
   type   : Types,
   dep    : {"REFERENCE", "NEW_VALUE"},  \* get() or creat()
   at     : {"has", "upstream", "make", "lock", "find", "recipe", "emplace",
             "emplaceDefault", "insert", "create", "release", "record", "ref",
             "value"},
   nested : BOOLEAN,                     \* isInCycleCheck_ was set on entry
   home   : Injectors,                   \* the injector with the recipe
   next   : Nat,                         \* the dependency whose turn it is
   args   : SUBSET (Instance \cup {Null})]  \* what the dependencies refer to

Call(i, T, dep) ==
  [inj |-> i, type |-> T, dep |-> dep,
   at |-> IF dep = "REFERENCE" THEN "has" ELSE "make",
   nested |-> FALSE, home |-> i, next |-> 1, args |-> {}]

\* One type invariant: what the variables hold; that a lock is held by a thread
\* that is in a call (injectionMtx_ is a std::scoped_lock's); and that a type is
\* created once, so its place in invocationList_ is unique and comes after the
\* places of what its recipe asked for.
InjectorTypeOK ==
  /\ typeMap_ \in [Injectors -> [Types -> Instance \cup {Null, NoEntry}]]
  /\ recipeMap_ \in [Injectors -> SUBSET Types]
  /\ invocationList_ \in [Injectors -> Seq(Types)]
  /\ \A i \in Injectors : \A m, n \in DOMAIN invocationList_[i] :
       invocationList_[i][m] = invocationList_[i][n] => m = n
  /\ typeHashStack_ \in [Injectors -> SUBSET Types]
  /\ isInCycleCheck_ \in [Injectors -> BOOLEAN]
  /\ injectionMtx_ \in [Injectors -> Threads \cup {NoThread}]
  /\ calls \in [Threads -> Seq(Frame)]
  /\ alive \subseteq Instance
  /\ refs \in [Instance -> SUBSET Instance]
  /\ holds \in [Threads -> SUBSET (Instance \cup {Null})]
  /\ thread \in [Threads -> {"none", "running", "stopping", "done"}]
  /\ phase \in [Injectors -> {"alive", "destroying", "gone"}]
  /\ left \in [Injectors -> Nat]
  /\ mtx_ \in [Injectors -> BOOLEAN]
  /\ \A i \in Injectors : left[i] <= Len(invocationList_[i])
  /\ \A i \in Injectors :
       injectionMtx_[i] # NoThread => calls[injectionMtx_[i]] # <<>>

Init ==
  /\ typeMap_ = [i \in Injectors |->
                   [T \in Types |-> IF T = Self THEN <<i, Self>> ELSE NoEntry]]
  /\ recipeMap_ = [i \in Injectors |->
                     {T \in Types : Rules[i][T] # NoRule} \ Late[i]]
  /\ invocationList_ = [i \in Injectors |-> <<>>]
  /\ typeHashStack_ = [i \in Injectors |-> {}]
  /\ isInCycleCheck_ = [i \in Injectors |-> FALSE]
  /\ injectionMtx_ = [i \in Injectors |-> NoThread]
  /\ calls = [t \in Threads |-> <<>>]
  /\ alive = Injectors \X {Self}
  /\ refs = [x \in Instance |-> {}]
  /\ holds = [t \in Threads |-> {}]
  /\ thread = [t \in Threads |-> IF t = main THEN "running" ELSE "none"]
  /\ phase = [i \in Injectors |-> "alive"]
  /\ left = [i \in Injectors |-> 0]
  /\ mtx_ = [i \in Injectors |-> FALSE]

-----------------------------------------------------------------------------
(* The TypeMap: each of its operations is one access under its mutex, but    *)
(* erase(), which runs the destructor of the instance with the mutex held.   *)
(* The emplace functions leave an entry that exists alone.                   *)

HasKey(i, T) == typeMap_[i][T] # NoEntry

Emplace(i, T, x) ==
  typeMap_' = IF HasKey(i, T) THEN typeMap_
              ELSE [typeMap_ EXCEPT ![i][T] = x]

\* The entry owns what it points to, as opposed to setref().
Owns(i, T) == T # Self /\ typeMap_[i][T] = <<i, T>>

-----------------------------------------------------------------------------
(* The stack of calls. *)

Idle(t) == calls[t] = <<>>
At(t, step) == ~Idle(t) /\ Head(calls[t]).at = step
Top(t) == Head(calls[t])
Goto(t, frame) == calls' = [calls EXCEPT ![t] = <<frame>> \o Tail(@)]
Proceed(t, step) == Goto(t, [Top(t) EXCEPT !.at = step])

\* The mutex of the TypeMap that the thread looks into next can be had.
MapIsFree(t) ==
  LET f == Top(t)
  IN  ~mtx_[IF f.at = "upstream" THEN Parent[f.inj]
            ELSE IF f.at = "recipe" THEN f.home ELSE f.inj]

\* The call returns: what it returned becomes an argument of the recipe that
\* made it.
Return(t, result) ==
  IF Len(calls[t]) = 1
  THEN /\ calls' = [calls EXCEPT ![t] = <<>>]
       /\ holds' = IF t = main THEN holds ELSE [holds EXCEPT ![t] = result]
  ELSE LET caller == calls[t][2]
       IN  /\ calls' = [calls EXCEPT ![t] =
                          <<[caller EXCEPT !.next = @ + 1,
                                           !.args = @ \cup result]>>
                          \o SubSeq(@, 3, Len(@))]
           /\ UNCHANGED holds

\* Mutation: the lock is taken and released by hand.
ThrowLocked(t) ==
  /\ calls' = [calls EXCEPT ![t] = <<>>]
  /\ UNCHANGED <<holds, cycleVars>>

\* An exception unwinds every call of the thread, up to the code that called
\* the injector.  The locks are released; nothing else is put back.
Throw(t) ==
  /\ calls' = [calls EXCEPT ![t] = <<>>]
  /\ injectionMtx_' = [i \in Injectors |-> IF injectionMtx_[i] = t THEN NoThread
                                           ELSE injectionMtx_[i]]
  /\ UNCHANGED <<holds, typeHashStack_, isInCycleCheck_>>

-----------------------------------------------------------------------------
(* Calls from outside. *)

\* main is neither in a call nor in a destructor.
MainFree == Idle(main) /\ \A i \in Injectors : phase[i] # "destroying"

\* addRecipe(), bindImpl() and addCtorRecipe(), between two calls.
AddRecipe(i, T) ==
  /\ MainFree
  /\ phase[i] = "alive"
  /\ T \in Late[i] \ recipeMap_[i]
  /\ recipeMap_' = [recipeMap_ EXCEPT ![i] = @ \cup {T}]
  /\ UNCHANGED <<instanceVars, invocationList_, cycleVars, calls, holds, lifeVars>>

\* get() and creat(); creat() does not compile for an abstract type.  What the
\* thread of a Subsystem gets while it runs is no dependency of the Subsystem:
\* main, which creates it before, sees to it that it is destroyed after.  A thread
\* that is told to stop finishes what it does, and may ask again.
Request(t, i, want) ==
  /\ Idle(t)
  /\ thread[t] \in {"running", "stopping"}
  /\ t = main => /\ MainFree
                 /\ phase[i] = "alive"
                 /\ \A U \in Ready[want.type] : \E j \in Lineage(i) : HasKey(j, U)
  /\ want \in Wanted[t][i]
  /\ want.how = "NEW_VALUE" => want.type \notin Abstract
  /\ calls' = [calls EXCEPT ![t] = <<Call(i, want.type, want.how)>>]
  /\ UNCHANGED <<instanceVars, recipeMap_, invocationList_, cycleVars, holds,
                 lifeVars>>

\* main starts a Subsystem that it has created.
Start(i, T) ==
  /\ MainFree
  /\ phase[i] = "alive"
  /\ Serves[T] # NoThread
  /\ thread[Serves[T]] = "none"
  /\ <<i, T>> \in alive
  /\ thread' = [thread EXCEPT ![Serves[T]] = "running"]
  /\ UNCHANGED <<instanceVars, recipeMap_, invocationList_, cycleVars, calls,
                 holds, phase, left, mtx_>>

-----------------------------------------------------------------------------
(* get(). *)

HasInstance(t) ==
  /\ At(t, "has") /\ MapIsFree(t)
  /\ LET f == Top(t) IN
     Proceed(t, IF HasKey(f.inj, f.type) THEN "ref"
                ELSE IF Parent[f.inj] = NoInjector THEN "make" ELSE "upstream")
  /\ UNCHANGED <<instanceVars, recipeMap_, invocationList_, cycleVars, holds,
                 lifeVars>>

\* pUpstream_->get() is a tail call.
AskUpstream(t) ==
  /\ At(t, "upstream") /\ MapIsFree(t)
  /\ LET f == Top(t) IN
     IF HasKey(Parent[f.inj], f.type)
     THEN Goto(t, Call(Parent[f.inj], f.type, "REFERENCE"))
     ELSE Proceed(t, "make")
  /\ UNCHANGED <<instanceVars, recipeMap_, invocationList_, cycleVars, holds,
                 lifeVars>>

\* map_.at() throws std::out_of_range when there is no entry.
Ref(t) ==
  /\ At(t, "ref") /\ MapIsFree(t)
  /\ LET f == Top(t) IN
     IF HasKey(f.inj, f.type)
     THEN Return(t, {typeMap_[f.inj][f.type]}) /\ UNCHANGED cycleVars
     ELSE Throw(t)
  /\ UNCHANGED <<instanceVars, recipeMap_, invocationList_, lifeVars>>

-----------------------------------------------------------------------------
(* makeDependency_().  isInCycleCheck_ is read without the lock. *)

CycleDetected(t) ==
  /\ At(t, "make")
  /\ isInCycleCheck_[Top(t).inj]
  /\ Top(t).type \in typeHashStack_[Top(t).inj]
  /\ Throw(t)
  /\ UNCHANGED <<instanceVars, recipeMap_, invocationList_, lifeVars>>

\* Mutation: a nested call does not add its type to the stack.
MakeNestedUntracked(t) ==
  /\ At(t, "make")
  /\ isInCycleCheck_[Top(t).inj]
  /\ Top(t).type \notin typeHashStack_[Top(t).inj]
  /\ Goto(t, [Top(t) EXCEPT !.at = "find", !.nested = TRUE])
  /\ UNCHANGED <<instanceVars, recipeMap_, invocationList_, cycleVars, holds,
                 lifeVars>>

MakeNested(t) ==
  /\ At(t, "make")
  /\ isInCycleCheck_[Top(t).inj]
  /\ Top(t).type \notin typeHashStack_[Top(t).inj]
  /\ typeHashStack_' = [typeHashStack_ EXCEPT ![Top(t).inj] = @ \cup {Top(t).type}]
  /\ Goto(t, [Top(t) EXCEPT !.at = "find", !.nested = TRUE])
  /\ UNCHANGED <<instanceVars, recipeMap_, invocationList_, isInCycleCheck_,
                 injectionMtx_, holds, lifeVars>>

MakeTopLevel(t) ==
  /\ At(t, "make")
  /\ ~isInCycleCheck_[Top(t).inj]
  /\ Proceed(t, "lock")
  /\ UNCHANGED <<instanceVars, recipeMap_, invocationList_, cycleVars, holds,
                 lifeVars>>

\* Mutation: the flag is not set before the recipe runs.
LockUnflagged(t) ==
  /\ At(t, "lock")
  /\ LET i == Top(t).inj IN
     /\ injectionMtx_[i] = NoThread
     /\ injectionMtx_' = [injectionMtx_ EXCEPT ![i] = t]
     /\ typeHashStack_' = [typeHashStack_ EXCEPT ![i] = @ \cup {Top(t).type}]
  /\ Proceed(t, "find")
  /\ UNCHANGED <<instanceVars, recipeMap_, invocationList_, isInCycleCheck_,
                 holds, lifeVars>>

Lock(t) ==
  /\ At(t, "lock")
  /\ LET i == Top(t).inj IN
     /\ injectionMtx_[i] = NoThread
     /\ injectionMtx_' = [injectionMtx_ EXCEPT ![i] = t]
     /\ isInCycleCheck_' = [isInCycleCheck_ EXCEPT ![i] = TRUE]
     /\ typeHashStack_' = [typeHashStack_ EXCEPT ![i] = @ \cup {Top(t).type}]
  /\ Proceed(t, "find")
  /\ UNCHANGED <<instanceVars, recipeMap_, invocationList_, holds, lifeVars>>

\* The end of the block that holds the lock; a nested call has none.
Release(t) ==
  /\ At(t, "release")
  /\ LET i == Top(t).inj IN
     IF Top(t).nested THEN UNCHANGED <<isInCycleCheck_, injectionMtx_>>
     ELSE /\ isInCycleCheck_' = [isInCycleCheck_ EXCEPT ![i] = FALSE]
          /\ injectionMtx_' = [injectionMtx_ EXCEPT ![i] = NoThread]
  /\ Proceed(t, "record")
  /\ UNCHANGED <<instanceVars, recipeMap_, invocationList_, typeHashStack_, holds,
                 lifeVars>>

\* After the block, without the lock.
Record(t) ==
  /\ At(t, "record")
  /\ LET f == Top(t) IN
     /\ typeHashStack_' = [typeHashStack_ EXCEPT ![f.inj] = @ \ {f.type}]
     /\ IF f.dep = "REFERENCE"
        THEN /\ invocationList_' = [invocationList_ EXCEPT ![f.inj] = Append(@, f.type)]
             /\ Proceed(t, "ref")
        ELSE Proceed(t, "value") /\ UNCHANGED invocationList_
  /\ UNCHANGED <<instanceVars, recipeMap_, isInCycleCheck_, injectionMtx_, holds,
                 lifeVars>>

-----------------------------------------------------------------------------
(* inject_(): the recipe, its dependencies in order, and the instance.       *)

RecipeOf(t) == Rules[Top(t).home][Top(t).type]

\* find_recipe_(): from this injector upwards.
FindRecipe(t) ==
  /\ At(t, "find")
  /\ LET f == Top(t)
         found == f.type \in recipeMap_[f.home]
         last == Parent[f.home] = NoInjector
     IN  \/ /\ found
            /\ Proceed(t, "recipe")
            /\ UNCHANGED <<cycleVars, holds>>
         \/ /\ ~found /\ ~last
            /\ Goto(t, [f EXCEPT !.home = Parent[f.home]])
            /\ UNCHANGED <<cycleVars, holds>>
         \/ /\ ~found /\ last
            /\ f.type \in DefaultInit
            /\ Proceed(t, "emplaceDefault")
            /\ UNCHANGED <<cycleVars, holds>>
         \/ /\ ~found /\ last
            /\ f.type \notin DefaultInit
            /\ Throw(t)
  /\ UNCHANGED <<instanceVars, recipeMap_, invocationList_, lifeVars>>

\* The recipe asks for its next dependency, from the injector to which the
\* recipe was added: the closure of addRecipe() passes that one on, and not
\* the one that it was called with.
Depend(t) ==
  /\ At(t, "recipe")
  /\ Top(t).next <= Len(RecipeOf(t).deps)
  /\ LET dependency == RecipeOf(t).deps[Top(t).next]
     IN  calls' = [calls EXCEPT ![t] =
                     <<Call(Top(t).home, dependency.type, dependency.how)>> \o @]
  /\ UNCHANGED <<instanceVars, recipeMap_, invocationList_, cycleVars, holds,
                 lifeVars>>

\* The recipe of bindImpl() enters the implementation under the interface.
Bind(t) ==
  /\ At(t, "recipe")
  /\ RecipeOf(t).binds /\ MapIsFree(t)
  /\ Top(t).next > Len(RecipeOf(t).deps)
  /\ LET f == Top(t) IN
     /\ \E impl \in f.args : Emplace(f.home, f.type, impl)
     /\ Proceed(t, IF f.type \in Abstract \/ f.dep = "NEW_VALUE" THEN "release"
                   ELSE "emplace")
  /\ UNCHANGED <<alive, refs, recipeMap_, invocationList_, cycleVars, holds,
                 lifeVars>>

\* The constructor, which may throw.
Construct(t) ==
  /\ At(t, "recipe")
  /\ ~RecipeOf(t).binds
  /\ Top(t).next > Len(RecipeOf(t).deps)
  /\ \/ /\ Proceed(t, IF Top(t).dep = "NEW_VALUE" THEN "release" ELSE "emplace")
        /\ UNCHANGED <<cycleVars, holds>>
     \/ /\ Top(t).type \in Throwing
        /\ Throw(t)
  /\ UNCHANGED <<instanceVars, recipeMap_, invocationList_, lifeVars>>

\* has_key(), the first thing that emplace_ptr() and emplace() do.  If there is
\* an entry, the instance that the recipe returned is deleted on the spot.
CheckKey(t) ==
  /\ \/ At(t, "emplace")
     \/ At(t, "emplaceDefault") /\ Top(t).dep = "REFERENCE"
  /\ MapIsFree(t)
  /\ LET f == Top(t) IN
     Proceed(t, IF HasKey(f.inj, f.type) THEN "release"
                ELSE IF f.at = "emplace" THEN "insert" ELSE "create")
  /\ UNCHANGED <<instanceVars, recipeMap_, invocationList_, cycleVars, holds,
                 lifeVars>>

\* emplace_ptr(): what the recipe returned, which is a null pointer for a type
\* that is bound.  An entry that was made in between stays.
EmplacePtr(t) ==
  /\ At(t, "insert") /\ MapIsFree(t)
  /\ LET f == Top(t)
         x == <<f.inj, f.type>>
     IN  IF RecipeOf(t).binds
         THEN Emplace(f.inj, f.type, Null) /\ UNCHANGED <<alive, refs>>
         ELSE /\ Emplace(f.inj, f.type, x)
              /\ IF HasKey(f.inj, f.type) THEN UNCHANGED <<alive, refs>>
                 ELSE /\ alive' = alive \cup {x}
                      /\ refs' = [refs EXCEPT ![x] = f.args]
  /\ Proceed(t, "release")
  /\ UNCHANGED <<recipeMap_, invocationList_, cycleVars, holds, lifeVars>>

\* emplace(): the entry comes first, and then the instance that it is for.
EmplaceDefault(t) ==
  /\ At(t, "create") /\ MapIsFree(t)
  /\ LET f == Top(t)
         x == <<f.inj, f.type>>
     IN  \/ /\ typeMap_' = [typeMap_ EXCEPT ![f.inj][f.type] = x]
            /\ alive' = alive \cup {x}
            /\ Proceed(t, "release")
            /\ UNCHANGED <<cycleVars, holds>>
         \/ /\ f.type \in Throwing
            /\ Emplace(f.inj, f.type, Null)
            /\ Throw(t)
            /\ UNCHANGED alive
  /\ UNCHANGED <<refs, recipeMap_, invocationList_, lifeVars>>

\* A default-initialized value for creat().
CreateInstance(t) ==
  /\ At(t, "emplaceDefault")
  /\ Top(t).dep = "NEW_VALUE"
  /\ \/ Proceed(t, "release") /\ UNCHANGED <<cycleVars, holds>>
     \/ Top(t).type \in Throwing /\ Throw(t)
  /\ UNCHANGED <<instanceVars, recipeMap_, invocationList_, lifeVars>>

\* creat() throws when the recipe gave it nothing.
Value(t) ==
  /\ At(t, "value")
  /\ LET f == Top(t) IN
     IF f.next > 1 /\ RecipeOf(t).binds THEN Throw(t)
     ELSE Return(t, f.args) /\ UNCHANGED cycleVars
  /\ UNCHANGED <<instanceVars, recipeMap_, invocationList_, lifeVars>>

-----------------------------------------------------------------------------
(* ~Injector(). *)

Downstream(i) == {j \in Injectors : Parent[j] = i}

\* A child is owned by what it was created for, which goes before the parent.
Destroy(i) ==
  /\ MainFree
  /\ phase[i] = "alive"
  /\ \A j \in Downstream(i) : phase[j] = "gone"
  /\ phase' = [phase EXCEPT ![i] = "destroying"]
  /\ left' = [left EXCEPT ![i] = Len(invocationList_[i])]
  /\ UNCHANGED <<instanceVars, recipeMap_, invocationList_, cycleVars, calls,
                 holds, thread, mtx_>>

\* Mutation: the destructor goes through invocationList_ from its front.
CurrentForward(i) == invocationList_[i][Len(invocationList_[i]) + 1 - left[i]]

Current(i) == invocationList_[i][left[i]]

\* erase() takes the mutex of the TypeMap, for as long as the destructor runs.
LockTypeMap(i) ==
  /\ phase[i] = "destroying" /\ left[i] > 0
  /\ ~mtx_[i]
  /\ mtx_' = [mtx_ EXCEPT ![i] = TRUE]
  /\ UNCHANGED <<instanceVars, recipeMap_, invocationList_, cycleVars, calls,
                 holds, thread, phase, left>>

\* Mutation: nobody tells the thread to stop.
StopThreadNot(i) ==
  /\ phase[i] = "destroying" /\ left[i] > 0
  /\ UNCHANGED vars

\* ~Subsystem tells its thread to stop ...
StopThread(i) ==
  /\ phase[i] = "destroying" /\ left[i] > 0 /\ mtx_[i]
  /\ Owns(i, Current(i))
  /\ Serves[Current(i)] # NoThread
  /\ thread[Serves[Current(i)]] = "running"
  /\ thread' = [thread EXCEPT ![Serves[Current(i)]] = "stopping"]
  /\ UNCHANGED <<instanceVars, recipeMap_, invocationList_, cycleVars, calls,
                 holds, phase, left, mtx_>>

\* Mutation: the thread is detached.
JoinedAtOnce(i) == TRUE

\* ... and joins it.
Joined(i) ==
  LET t == Serves[Current(i)]
  IN  t # NoThread => thread[t] # "running" /\ Idle(t)

\* The entries of the typeMap_, the last one created first.
Erase(i) ==
  /\ phase[i] = "destroying" /\ left[i] > 0 /\ mtx_[i]
  /\ LET T == Current(i) IN
     /\ IF Owns(i, T)
        THEN /\ Joined(i)
             /\ alive' = alive \ {<<i, T>>}
             /\ refs' = [refs EXCEPT ![<<i, T>>] = {}]
             /\ thread' = [t \in Threads |-> IF t = Serves[T] THEN "done" ELSE thread[t]]
        ELSE UNCHANGED <<alive, refs, thread>>
     /\ typeMap_' = [typeMap_ EXCEPT ![i][T] = NoEntry]
  /\ left' = [left EXCEPT ![i] = @ - 1]
  /\ mtx_' = [mtx_ EXCEPT ![i] = FALSE]
  /\ UNCHANGED <<recipeMap_, invocationList_, cycleVars, calls, holds, phase>>

\* The members, and with typeMap_ the entries that nothing recorded.
Destroyed(i) ==
  /\ phase[i] = "destroying" /\ left[i] = 0
  /\ alive' = {x \in alive : x[1] # i}
  /\ refs' = [x \in Instance |-> IF x[1] = i THEN {} ELSE refs[x]]
  /\ typeMap_' = [typeMap_ EXCEPT ![i] = [T \in Types |-> NoEntry]]
  /\ phase' = [phase EXCEPT ![i] = "gone"]
  /\ UNCHANGED <<recipeMap_, invocationList_, cycleVars, calls, holds, thread, left, mtx_>>

-----------------------------------------------------------------------------
\* What a thread does within a call.
CallStep(t) ==
  \/ HasInstance(t)
  \/ AskUpstream(t)
  \/ Ref(t)
  \/ CycleDetected(t)
  \/ MakeNested(t)
  \/ MakeTopLevel(t)
  \/ Lock(t)
  \/ Release(t)
  \/ Record(t)
  \/ FindRecipe(t)
  \/ Depend(t)
  \/ Bind(t)
  \/ Construct(t)
  \/ CheckKey(t)
  \/ EmplacePtr(t)
  \/ EmplaceDefault(t)
  \/ CreateInstance(t)
  \/ Value(t)

DestructorStep(i) == LockTypeMap(i) \/ StopThread(i) \/ Erase(i) \/ Destroyed(i)

Next ==
  \/ \E t \in Threads : CallStep(t)
  \/ \E t \in Threads, i \in Injectors, want \in Dependency : Request(t, i, want)
  \/ \E i \in Injectors, T \in Types : AddRecipe(i, T) \/ Start(i, T)
  \/ \E i \in Injectors : Destroy(i) \/ DestructorStep(i)

\* Threads are scheduled, and a destructor goes on; nobody has to call.
Fairness ==
  /\ \A t \in Threads : WF_vars(CallStep(t))
  /\ \A i \in Injectors : WF_vars(DestructorStep(i))

Spec == Init /\ [][Next]_vars /\ Fairness

-----------------------------------------------------------------------------
(* Properties. *)

\* Dependencies are destroyed after what depends on them (Injector.hpp:489-492),
\* whatever was created, in which order, and whichever constructor threw.
DependenciesOutliveDependents == \A x \in alive : refs[x] \subseteq alive

\* What get() returns is an instance that exists, and goes on to exist as long
\* as a recipe in progress holds it, or the thread of a Subsystem that the
\* destructor has not joined.
ReferencesAreAlive ==
  /\ \A t \in Threads : \A n \in DOMAIN calls[t] : calls[t][n].args \subseteq alive
  /\ \A t \in Threads \ {main} :
       thread[t] \in {"running", "stopping"} => holds[t] \subseteq alive

Injecting(f) == f.at \in {"find", "recipe", "emplace", "emplaceDefault",
                         "insert", "create", "release"}

\* A cycle among recipes ends in an exception, not in a recursion without end:
\* no thread injects a type while it injects that type (Injector.hpp:81-84).
NoEndlessRecursion ==
  \A t \in Threads : \A m, n \in DOMAIN calls[t] :
    LET f == calls[t][m]
        g == calls[t][n]
    IN  m # n /\ Injecting(f) /\ Injecting(g)
          => <<f.inj, f.type>> # <<g.inj, g.type>>

\* get() and creat() throw for a dependency cycle (Injector.hpp:81-84) only if
\* the thread is in the middle of injecting the type that it asks for.
CyclesAreReal ==
  \A t \in Threads :
    At(t, "make") /\ isInCycleCheck_[Top(t).inj]
                  /\ Top(t).type \in typeHashStack_[Top(t).inj]
      => \E n \in 2..Len(calls[t]) :
           /\ Injecting(calls[t][n])
           /\ calls[t][n].inj = Top(t).inj /\ calls[t][n].type = Top(t).type

\* A thread that main joins, and that waits for the mutex which main holds meanwhile.
WaitsForJoiner(t) ==
  /\ ~Idle(t)
  /\ Top(t).at \in {"has", "upstream", "ref", "emplace", "insert", "create"}
  /\ ~MapIsFree(t)
  /\ \E i \in Injectors : mtx_[i] /\ Serves[Current(i)] = t

\* A call of get() or creat() ends: no thread waits for a lock that it holds.  The one
\* way to wait for ever is the destructor's, which joins under a mutex (TypeMap.hpp:198).
EveryCallEnds ==
  \A t \in Threads : []<>(calls[t] = <<>>) \/ <>[]WaitsForJoiner(t)

\* The destructor ends: what it waits for does happen, unless a thread that it joins is
\* in the middle of a call to this very injector.
EveryDestructorEnds ==
  \/ \A i \in Injectors : []<>(phase[i] # "destroying")
  \/ \E t \in Threads : <>[]WaitsForJoiner(t)
=============================================================================
