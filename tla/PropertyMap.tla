---- MODULE PropertyMap ----
(***************************************************************************)
(* omulator::PropertyMap: typed properties by name.  mtx_ guards the map;    *)
(* the references that get_prop() hands out are used without it, on an       *)
(* atomic for a trivial type, under a Spinlock for a string.  An access that *)
(* goes through a variant holds mtx_ all the while.                          *)
(***************************************************************************)
EXTENDS PropertyValues

CONSTANTS
  Threads,
  Keys,
  Preset,    \* the names that CLIParser has set before the threads start ...
  PresetValue,
  Typed,     \* Typed[t]: the <<name, type>> for which t calls get_prop()
  Inputs,    \* Inputs[t]: the values that t sets
  Variants,  \* the threads that also use the functions for variants
  NoThread, NoEntry, NoRef

\* A thread that creates a property of a trivial type sets it before others
\* start: only names that are set, or strings, are left to create.  No
\* caller has a string that is half assigned.
ASSUME PropertyMapAssumption ==
  /\ Preset \subseteq Keys
  /\ PresetValue \in [Preset -> UNION {Values(T) : T \in Trivial}]
  /\ Typed \in [Threads -> SUBSET (Keys \X PropTypes)]
  /\ \A t \in Threads : \A access \in Typed[t] :
       access[2] \in Trivial => access[1] \in Preset
  /\ Inputs \in [Threads -> SUBSET (AllValues \ {Word("torn")})]
  /\ Variants \subseteq Threads
  /\ NoThread \notin Threads
  /\ NoEntry \notin PropTypes /\ NoEntry \notin AllValues /\ Keys # {}

VARIABLES
  tag,        \* the type of each entry of map_
  val_,       \* the value of each entry
  written,    \* the entries that somebody has given a value
  mtx_,       \* who holds it
  spinlock_,  \* who holds the Spinlock of each entry
  op,         \* the call that each thread is in
  ref,        \* the reference that each thread got from get_prop() last
  got         \* what each thread read last

mapVars == <<tag, val_, written>>
lockVars == <<mtx_, spinlock_>>
vars == <<mapVars, lockVars, op, ref, got>>

Torn == Word("torn")
Idle == [call |-> "none", key |-> CHOOSE k \in Keys : TRUE, type |-> "bool",
         arg |-> KEY_NOT_FOUND_STR, at |-> "idle", creates |-> FALSE]

Calls == {"get_prop", "get_prop_variant", "set_prop_variant", "get", "set"}

\* One type invariant: what the variables hold, that a reference is to an entry
\* of its type, and that a lock is held by a thread that is in a call.
PropertyMapTypeOK ==
  /\ tag \in [Keys -> PropTypes \cup {NoEntry}]
  /\ \A k \in Keys : tag[k] # NoEntry => val_[k] \in AllValues /\ val_[k].type = tag[k]
  /\ written \subseteq Keys
  /\ mtx_ \in Threads \cup {NoThread}
  /\ spinlock_ \in [Keys -> Threads \cup {NoThread}]
  /\ \A t \in Threads :
       /\ op[t].at \in {"idle", "lock", "find", "emplace", "access", "spin", "copy",
                        "assign", "assigned"}
       /\ op[t].call \in Calls \cup {"none"}
       /\ got[t] \in AllValues \cup {KEY_NOT_FOUND_STR}
       /\ mtx_ = t => op[t] # Idle
       /\ \A k \in Keys : spinlock_[k] = t => op[t].key = k /\ op[t] # Idle

Init ==
  /\ tag = [k \in Keys |-> IF k \in Preset THEN PresetValue[k].type ELSE NoEntry]
  /\ val_ = [k \in Keys |-> IF k \in Preset THEN PresetValue[k] ELSE Word("empty")]
  /\ written = Preset
  /\ mtx_ = NoThread
  /\ spinlock_ = [k \in Keys |-> NoThread]
  /\ op = [t \in Threads |-> Idle]
  /\ ref = [t \in Threads |-> NoRef]
  /\ got = [t \in Threads |-> KEY_NOT_FOUND_STR]

-----------------------------------------------------------------------------
(* The calls. *)

Begin(t, call, key, type, arg, at) ==
  /\ op[t] = Idle
  /\ op' = [op EXCEPT ![t] = [call |-> call, key |-> key, type |-> type,
                              arg |-> arg, at |-> at, creates |-> FALSE]]
  /\ UNCHANGED <<mapVars, lockVars, ref, got>>

Request(t) ==
  \/ \E access \in Typed[t] :
       Begin(t, "get_prop", access[1], access[2], KEY_NOT_FOUND_STR, "lock")
  \/ /\ t \in Variants
     /\ \E k \in Keys :
          \/ Begin(t, "get_prop_variant", k, "bool", KEY_NOT_FOUND_STR, "lock")
          \/ \E value \in Inputs[t] :
               Begin(t, "set_prop_variant", k, value.type, value, "lock")
  \/ /\ ref[t] # NoRef
     /\ LET at == IF ref[t].type = "string" THEN "spin" ELSE "access"
        IN  \/ Begin(t, "get", ref[t].key, ref[t].type, KEY_NOT_FOUND_STR, at)
            \/ \E value \in Inputs[t] :
                 /\ value.type = ref[t].type
                 /\ Begin(t, "set", ref[t].key, ref[t].type, value, at)

At(t, step) == op[t].at = step
Goto(t, step) == op' = [op EXCEPT ![t].at = step]
ViaVariant(t) == op[t].call \in {"get_prop_variant", "set_prop_variant"}
Sets(t) == op[t].call \in {"set_prop_variant", "set"}

\* Mutation: the lookup is done without mtx_.
LockNot(t) ==
  /\ At(t, "lock")
  /\ Goto(t, "find")
  /\ UNCHANGED <<mapVars, lockVars, ref, got>>

\* std::scoped_lock lck{mtx_}.
Lock(t) ==
  /\ At(t, "lock")
  /\ mtx_ = NoThread
  /\ mtx_' = t
  /\ Goto(t, "find")
  /\ UNCHANGED <<mapVars, spinlock_, ref, got>>

\* The call returns or throws; the lock that it holds goes with it.
Return(t) ==
  /\ op' = [op EXCEPT ![t] = Idle]
  /\ mtx_' = IF mtx_ = t THEN NoThread ELSE mtx_

\* The first step of an access to the value.
FirstStep(type) == IF type = "string" THEN "spin" ELSE "access"

\* The value that set_prop_variant() is to store in an entry of a type.
Argument(t, type) ==
  IF op[t].call = "set_prop_variant" THEN Coerced(op[t].arg, type)
  ELSE {op[t].arg}

\* An access through a variant takes the type of the entry.
FindVariant(t) ==
  /\ At(t, "find")
  /\ ViaVariant(t)
  /\ LET T == tag[op[t].key]
     IN  /\ T # NoEntry
         /\ \E value \in Argument(t, T) :
              op' = [op EXCEPT ![t].type = T, ![t].arg = value, ![t].at = FirstStep(T)]
  /\ UNCHANGED <<mapVars, lockVars, ref, got>>

\* get_prop_(), for an entry that exists ...
FindTyped(t) ==
  /\ At(t, "find")
  /\ ~ViaVariant(t)
  /\ tag[op[t].key] = op[t].type
  /\ ref' = [ref EXCEPT ![t] = [key |-> op[t].key, type |-> op[t].type]]
  /\ Return(t)
  /\ UNCHANGED <<mapVars, spinlock_, got>>

\* Mutation: it waits for the type to become what it expects.
FindMismatchWait(t) ==
  /\ At(t, "find")
  /\ ~ViaVariant(t)
  /\ tag[op[t].key] \notin {NoEntry, op[t].type}
  /\ mtx_' = NoThread
  /\ Goto(t, "lock")
  /\ UNCHANGED <<mapVars, spinlock_, ref, got>>

\* ... and one that is interpreted as another type: std::runtime_error.
FindMismatch(t) ==
  /\ At(t, "find")
  /\ ~ViaVariant(t)
  /\ tag[op[t].key] \notin {NoEntry, op[t].type}
  /\ Return(t)
  /\ UNCHANGED <<mapVars, spinlock_, ref, got>>

FindAbsent(t) ==
  /\ At(t, "find")
  /\ tag[op[t].key] = NoEntry
  /\ IF op[t].call = "get_prop_variant"
     THEN /\ got' = [got EXCEPT ![t] = KEY_NOT_FOUND_STR]
          /\ Return(t)
     ELSE Goto(t, "emplace") /\ UNCHANGED <<got, mtx_>>
  /\ UNCHANGED <<mapVars, spinlock_, ref>>

\* map_.emplace(): an entry that is there stays.  Only a string is constructed;
\* the value of another type is what the memory holds.
Emplace(t) ==
  /\ At(t, "emplace")
  /\ LET k == op[t].key
         T == op[t].type
     IN  /\ IF tag[k] # NoEntry THEN UNCHANGED mapVars
            ELSE /\ tag' = [tag EXCEPT ![k] = T]
                 /\ \E value \in IF T = "string" THEN {Word("empty")} ELSE Values(T) :
                      val_' = [val_ EXCEPT ![k] = value]
                 /\ written' = IF T = "string" THEN written \cup {k} ELSE written
         /\ IF ViaVariant(t)
            THEN /\ op' = [op EXCEPT ![t].at = FirstStep(T), ![t].creates = TRUE]
                 /\ UNCHANGED <<mtx_, ref>>
            ELSE /\ ref' = [ref EXCEPT ![t] = [key |-> k, type |-> T]]
                 /\ Return(t)
  /\ UNCHANGED <<spinlock_, got>>

-----------------------------------------------------------------------------
(* PropertyValue::get() and set(). *)

\* A trivial type: one load, or one store.
Access(t) ==
  /\ At(t, "access")
  /\ LET k == op[t].key
     IN  IF Sets(t)
         THEN /\ val_' = [val_ EXCEPT ![k] = op[t].arg]
              /\ written' = written \cup {k}
              /\ UNCHANGED got
         ELSE got' = [got EXCEPT ![t] = val_[k]] /\ UNCHANGED <<val_, written>>
  /\ Return(t)
  /\ UNCHANGED <<tag, spinlock_, ref>>

\* Mutation: the flag is set whether or not it was set before.
TryLockAlways(t) ==
  /\ At(t, "spin")
  /\ spinlock_' = [spinlock_ EXCEPT ![op[t].key] = t]
  /\ Goto(t, IF Sets(t) THEN "assign" ELSE "copy")
  /\ UNCHANGED <<mapVars, mtx_, ref, got>>

\* Spinlock::lock(): a round of the loop that fails changes nothing.
TryLock(t) ==
  /\ At(t, "spin")
  /\ spinlock_[op[t].key] = NoThread
  /\ spinlock_' = [spinlock_ EXCEPT ![op[t].key] = t]
  /\ Goto(t, IF Sets(t) THEN "assign" ELSE "copy")
  /\ UNCHANGED <<mapVars, mtx_, ref, got>>

\* return val_, and the end of the lock.
Copy(t) ==
  /\ At(t, "copy")
  /\ got' = [got EXCEPT ![t] = val_[op[t].key]]
  /\ spinlock_' = [spinlock_ EXCEPT ![op[t].key] = NoThread]
  /\ Return(t)
  /\ UNCHANGED <<mapVars, ref>>

\* val_ = newVal, half done ...
Assign(t) ==
  /\ At(t, "assign")
  /\ val_' = [val_ EXCEPT ![op[t].key] = Torn]
  /\ written' = written \cup {op[t].key}
  /\ Goto(t, "assigned")
  /\ UNCHANGED <<tag, lockVars, ref, got>>

\* Mutation: set() returns with the Spinlock held.
AssignedLocked(t) ==
  /\ At(t, "assigned")
  /\ val_' = [val_ EXCEPT ![op[t].key] = op[t].arg]
  /\ Return(t)
  /\ UNCHANGED <<tag, written, spinlock_, ref, got>>

\* ... and done, and the end of the lock.
Assigned(t) ==
  /\ At(t, "assigned")
  /\ val_' = [val_ EXCEPT ![op[t].key] = op[t].arg]
  /\ spinlock_' = [spinlock_ EXCEPT ![op[t].key] = NoThread]
  /\ Return(t)
  /\ UNCHANGED <<tag, written, ref, got>>

-----------------------------------------------------------------------------
Step(t) ==
  \/ Lock(t)
  \/ FindVariant(t)
  \/ FindTyped(t)
  \/ FindMismatch(t)
  \/ FindAbsent(t)
  \/ Emplace(t)
  \/ Access(t)
  \/ TryLock(t)
  \/ Copy(t)
  \/ Assign(t)
  \/ Assigned(t)

Next == \E t \in Threads : Request(t) \/ Step(t)

Spec == Init /\ [][Next]_vars

\* Threads are scheduled.  Neither std::mutex nor the Spinlock is fair.
FairSpec == Spec /\ \A t \in Threads : WF_vars(Step(t))

-----------------------------------------------------------------------------
\* No thread changes a string while another uses it: std::string is not atomic,
\* and references are used without mtx_ (PropertyMap.hpp:28-31).
NoDataRace ==
  \A t, u \in Threads :
    /\ t # u
    /\ op[t].at \in {"assign", "assigned"}
    /\ op[u].at \in {"assign", "assigned", "copy"}
    => op[t].key # op[u].key

\* One name has one type for all threads, whoever creates it, through whichever
\* function: a reference is never to the wrong member of the union
\* (PropertyMap.hpp:111-114).
OneTypePerName ==
  \A t \in Threads :
    /\ ref[t] # NoRef => tag[ref[t].key] = ref[t].type
    /\ op[t].at \in {"access", "spin", "copy", "assign", "assigned"} =>
         tag[op[t].key] = op[t].type

\* A property that set_prop_variant() creates is not seen before it is set: an
\* entry of a trivial type begins as whatever the memory holds.
ReadsAreInitialized ==
  \A t \in Threads :
    op[t].at \in {"access", "copy"} /\ ~Sets(t) => op[t].key \in written

\* A call returns, also from get_prop() by an exception, once the others leave
\* the locks alone: nobody keeps a lock, or waits for one that it holds itself.
CallsReturn ==
  \A t \in Threads :
    <>[](\A u \in Threads \ {t} : op[u] = Idle) => []<>(op[t] = Idle)

\* The clients see registers.  An entry that set_prop_variant() creates appears
\* with its value, and a string changes when its assignment begins.
Creating(k) == \E t \in Threads : op[t].creates /\ op[t].key = k
Writer(k) == CHOOSE t \in Threads : At(t, "assigned") /\ op[t].key = k
SeenValue(k) ==
  IF val_[k] # Torn THEN val_[k] ELSE op[Writer(k)].arg
Seen ==
  [k \in Keys |->
     IF tag[k] = NoEntry \/ (Creating(k) /\ val_[k] # Torn) THEN NoEntry
     ELSE SeenValue(k)]

Registers == INSTANCE PropertyRegisters WITH register <- Seen
ImplementsRegisters == Registers!Spec
=============================================================================
