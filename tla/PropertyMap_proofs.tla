---- MODULE PropertyMap_proofs ----
(***************************************************************************)
(* Theorems about PropertyMap, for any threads, names, types and values.     *)
(***************************************************************************)
EXTENDS PropertyMap, TLAPS

-----------------------------------------------------------------------------
(* The conversions keep to the range of the type asked for. *)

LEMMA Ranges ==
  ASSUME NEW T \in {"S64", "U64"}
  PROVE  /\ Least(T) \in Int /\ Greatest(T) \in Int
         /\ Least(T) <= 0 /\ Greatest(T) >= 0
         /\ Greatest(T) = Least(T) + Scale - 1
         /\ Greatest(T) <= Scale - 1 /\ Least(T) >= -(Scale - 1)
  BY ValuesAssumption DEF Least, Greatest

LEMMA WrappedIsIntegral ==
  ASSUME NEW T \in {"S64", "U64"}, NEW half \in Int
  PROVE  Wrapped(T, half) \in Integral(T)
  <1>1. (half \div 2) - Least(T) \in Int
    BY Ranges
  <1>2. (((half \div 2) - Least(T)) % Scale) \in 0..(Scale - 1)
    BY <1>1, ValuesAssumption
  <1> QED
    BY <1>2, Ranges, ValuesAssumption DEF Wrapped, Integral

LEMMA TruncatedIsEven ==
  ASSUME NEW half \in Int
  PROVE  \E n \in Int : Truncated(half) = 2 * n
  BY DEF Truncated

LEMMA NumbersAreDoubles ==
  ASSUME NEW T \in Trivial
  PROVE  Numbers(T) \subseteq -MaxDouble..MaxDouble
  BY Ranges, ValuesAssumption DEF Numbers, Trivial, Integral

LEMMA Parts ==
  /\ \A T, half : Number(T, half).type = T /\ Number(T, half).half = half
  /\ \A half : Text(half).type = "string" /\ Text(half).half = half
  /\ \A w : Word(w).type = "string" /\ Word(w).half = 0
  BY DEF Number, Text, Word

LEMMA NumberIsValue ==
  ASSUME NEW T \in Trivial, NEW half \in Numbers(T)
  PROVE  Number(T, half) \in AllValues
  BY DEF AllValues, Values

LEMMA TextIsValue ==
  ASSUME NEW half \in -MaxDouble..MaxDouble
  PROVE  Text(half) \in AllValues
  BY DEF AllValues

LEMMA WordIsValue ==
  ASSUME NEW w \in Words
  PROVE  Word(w) \in AllValues
  BY DEF AllValues

LEMMA ValueFields ==
  ASSUME NEW value \in AllValues
  PROVE  /\ value.type \in PropTypes
         /\ value.half \in -MaxDouble..MaxDouble
         /\ value.type \in Trivial => value.half \in Numbers(value.type)
  <1>1. CASE value \in UNION {Values(T) : T \in Trivial}
    <2>1. PICK T \in Trivial : value \in Values(T)
      BY <1>1
    <2>2. PICK half \in Numbers(T) : value = Number(T, half)
      BY <2>1 DEF Values
    <2>3. value.type = T /\ value.half = half
      BY <2>2, Parts
    <2> QED
      BY <2>3, NumbersAreDoubles DEF PropTypes
  <1>2. CASE value \in {Text(half) : half \in -MaxDouble..MaxDouble}
    BY <1>2, Parts DEF PropTypes, Trivial
  <1>3. CASE value \in {Word(w) : w \in Words}
    BY <1>3, Parts, ValuesAssumption DEF PropTypes, Trivial
  <1> QED
    BY <1>1, <1>2, <1>3 DEF AllValues

LEMMA CastFits ==
  ASSUME NEW value \in AllValues, NEW T \in Trivial
  PROVE  Cast(value, T) \subseteq Numbers(T)
  BY ValueFields, WrappedIsIntegral DEF Cast, Numbers, Trivial

LEMMA ExtractedFits ==
  ASSUME NEW text \in AllValues, NEW T \in Trivial
  PROVE  Extracted(text, T) \in Numbers(T)
  <1>1. text.half \in -MaxDouble..MaxDouble
    BY ValueFields
  <1> DEFINE half == Truncated(text.half)
  <1>2. PICK n \in Int : half = 2 * n
    BY <1>1, TruncatedIsEven, ValuesAssumption
  <1>3. CASE T \in {"bool", "double"}
    <2>1. CASE text.word # ""
      <3>1. Extracted(text, T) = 0
        BY <2>1 DEF Extracted
      <3> QED
        BY <1>3, <3>1, ValuesAssumption DEF Numbers
    <2>2. CASE text.word = "" /\ T = "double"
      BY <1>1, <2>2 DEF Extracted, Numbers
    <2>3. CASE text.word = "" /\ T = "bool"
      BY <2>3 DEF Extracted, Numbers
    <2> QED
      BY <1>3, <2>1, <2>2, <2>3
  <1>4. CASE T = "S64"
    <2>1. Least(T) \in Int /\ Greatest(T) \in Int /\ Least(T) <= 0 /\ 0 <= Greatest(T)
      BY <1>4, Ranges
    <2>2. \A m \in Least(T)..Greatest(T) : 2 * m \in Numbers(T)
      BY <1>4 DEF Numbers, Integral
    <2>3. CASE text.word # ""
      <3>1. Extracted(text, T) = 0
        BY <2>3 DEF Extracted
      <3> QED
        BY <2>1, <2>2, <3>1
    <2>4. CASE text.word = ""
      <3>1. Extracted(text, T) =
              IF half < 2 * Least(T) THEN 2 * Least(T)
              ELSE IF half > 2 * Greatest(T) THEN 2 * Greatest(T) ELSE half
        BY <1>4, <2>4 DEF Extracted
      <3>2. CASE n < Least(T)
        BY <1>2, <2>1, <2>2, <3>1, <3>2
      <3>3. CASE n > Greatest(T)
        BY <1>2, <2>1, <2>2, <3>1, <3>3
      <3>4. CASE n \in Least(T)..Greatest(T)
        BY <1>2, <2>1, <2>2, <3>1, <3>4
      <3> QED
        BY <2>1, <3>2, <3>3, <3>4
    <2> QED
      BY <2>3, <2>4
  <1>5. CASE T = "U64"
    <2>1. Greatest(T) \in Int /\ Least(T) = 0 /\ 0 <= Greatest(T)
      BY <1>5, Ranges DEF Least
    <2>2. 0 \in Numbers(T) /\ 2 * Greatest(T) \in Numbers(T)
      BY <1>5, <2>1 DEF Numbers, Integral
    <2>3. Wrapped(T, half) \in Numbers(T)
      BY <1>2, <1>5, WrappedIsIntegral DEF Numbers
    <2>4. Extracted(text, T) \in {0, 2 * Greatest(T), Wrapped(T, half)}
      <3>1. CASE text.word # ""
        BY <3>1 DEF Extracted
      <3>2. CASE text.word = ""
        <4>1. Extracted(text, T) =
                IF half \in (-(2 * Greatest(T)))..(2 * Greatest(T)) THEN Wrapped(T, half)
                ELSE 2 * Greatest(T)
          BY <1>5, <3>2 DEF Extracted
        <4> QED
          BY <4>1
      <3> QED
        BY <3>1, <3>2
    <2> QED
      BY <2>2, <2>3, <2>4
  <1> QED
    BY <1>3, <1>4, <1>5 DEF Trivial

\* A conversion gives a value of the type asked for.
LEMMA CoercedFits ==
  ASSUME NEW value \in AllValues, NEW T \in PropTypes, NEW w \in Coerced(value, T)
  PROVE  w \in AllValues /\ w.type = T
  <1>1. CASE value.type = T
    BY <1>1 DEF Coerced
  <1>2. CASE value.type # T /\ T = "string"
    <2>1. w = Formatted(value)
      BY <1>2 DEF Coerced
    <2>2. w \in {Word("true"), Word("false"), Text(value.half)}
      BY <2>1 DEF Formatted
    <2>3. w \in AllValues
      BY <2>2, ValueFields, TextIsValue, WordIsValue DEF Words
    <2> QED
      BY <1>2, <2>2, <2>3, Parts
  <1>3. CASE value.type # T /\ T # "string"
    <2>1. T \in Trivial
      BY <1>3 DEF PropTypes
    <2>2. \E half \in Numbers(T) : w = Number(T, half)
      BY <1>3, <2>1, CastFits, ExtractedFits DEF Coerced
    <2> QED
      BY <2>1, <2>2, NumberIsValue, Parts
  <1> QED
    BY <1>1, <1>2, <1>3

-----------------------------------------------------------------------------
(* The inductive invariant. *)

Steps == {"idle", "lock", "find", "emplace", "access", "spin", "copy", "assign",
          "assigned"}
Op == [call : Calls \cup {"none"}, key : Keys, type : PropTypes,
       arg : AllValues \cup {KEY_NOT_FOUND_STR}, at : Steps, creates : BOOLEAN]
Reference == [key : Keys, type : PropTypes]

Shape ==
  /\ tag \in [Keys -> PropTypes \cup {NoEntry}]
  /\ val_ \in [Keys -> AllValues]
  /\ written \subseteq Keys
  /\ mtx_ \in Threads \cup {NoThread}
  /\ spinlock_ \in [Keys -> Threads \cup {NoThread}]
  /\ op \in [Threads -> Op]
  /\ ref \in [Threads -> Reference \cup {NoRef}]
  /\ got \in [Threads -> AllValues \cup {KEY_NOT_FOUND_STR}]

InString(t) == op[t].at \in {"copy", "assign", "assigned"}
Using(t) == op[t].at \in {"access", "spin"} \/ InString(t)
Calling(t) == op[t].at # "idle"

\* Who is in the map holds mtx_, and keeps it if it goes through a variant; who
\* is at a string holds the Spinlock of that string; and conversely.
Locked ==
  \A t \in Threads :
    /\ op[t].at \in {"find", "emplace"} \/ (Using(t) /\ ViaVariant(t)) => mtx_ = t
    /\ mtx_ = t => op[t].at \notin {"idle", "lock"}
    /\ InString(t) => spinlock_[op[t].key] = t
    /\ \A k \in Keys : spinlock_[k] = t => InString(t) /\ op[t].key = k

\* What was decided under mtx_ remains true: that a name has no entry, until the
\* thread that found so creates it, and the type of an entry, for ever.
Decided ==
  /\ OneTypePerName
  /\ \A t \in Threads :
       /\ op[t].at = "emplace" => tag[op[t].key] = NoEntry
       /\ op[t].at = "spin" \/ InString(t) => op[t].type = "string"
       /\ Calling(t) /\ Sets(t) =>
            op[t].arg \in AllValues /\ op[t].arg.type = op[t].type
       /\ op[t].at \in {"assign", "assigned"} => Sets(t)
  /\ \A k \in Keys : tag[k] # NoEntry => val_[k].type = tag[k]

\* A call of get_prop() uses no value.  One that has a reference uses a string,
\* or a name that was set before the threads started.
Referenced ==
  \A t \in Threads :
    /\ Calling(t) /\ op[t].call = "get_prop" =>
         /\ <<op[t].key, op[t].type>> \in Typed[t]
         /\ ~Using(t)
    /\ Calling(t) /\ op[t].call \in {"get", "set"} =>
         /\ op[t].type = "string" \/ op[t].key \in Preset
         /\ Using(t)
    /\ Calling(t) => op[t].call \in Calls
    /\ op[t].at = "emplace" => op[t].call # "get_prop_variant"
    /\ ref[t] # NoRef => ref[t].type = "string" \/ ref[t].key \in Preset

\* An entry has a value, or the thread that creates it is about to set one and
\* holds mtx_.
Valued ==
  /\ Preset \subseteq written
  /\ \A k \in written : tag[k] # NoEntry
  /\ \A k \in Keys : tag[k] = "string" => k \in written
  /\ \A k \in Keys \ written : tag[k] # NoEntry =>
       \E t \in Threads :
         /\ mtx_ = t
         /\ op[t].call = "set_prop_variant"
         /\ op[t].key = k
         /\ op[t].at = "access"

Inv == Shape /\ Locked /\ Decided /\ Referenced /\ Valued

LEMMA TypedIsSet ==
  ASSUME NEW t \in Threads, NEW k, NEW T \in PropTypes, <<k, T>> \in Typed[t]
  PROVE  T = "string" \/ k \in Preset
  <1>1. <<k, T>>[2] \in Trivial => <<k, T>>[1] \in Preset
    BY PropertyMapAssumption
  <1> QED
    BY <1>1 DEF PropTypes

LEMMA ArgumentFits ==
  ASSUME Inv, NEW t \in Threads, op[t].at = "find", NEW T \in PropTypes,
         NEW value \in Argument(t, T)
  PROVE  /\ value \in AllValues \cup {KEY_NOT_FOUND_STR}
         /\ Sets(t) /\ ViaVariant(t) => value \in AllValues /\ value.type = T
  BY CoercedFits DEF Inv, Shape, Op, Decided, Argument, Sets, ViaVariant, Calling

LEMMA InitInv == Init => Inv
  <1> SUFFICES ASSUME Init PROVE Inv
    OBVIOUS
  <1>1. Idle \in Op
    BY PropertyMapAssumption DEF Idle, Op, Steps, PropTypes, Trivial
  <1>2. \A k \in Preset : PresetValue[k] \in AllValues /\ PresetValue[k].type \in Trivial
    BY PropertyMapAssumption, ValueFields, Parts DEF AllValues, Values
  <1>3. Shape
    BY <1>1, <1>2, WordIsValue, PropertyMapAssumption DEF Init, Shape, PropTypes, Words
  <1>4. \A t \in Threads : op[t].at = "idle" /\ ref[t] = NoRef
    BY DEF Init, Idle
  <1>5. Locked
    BY <1>4, PropertyMapAssumption DEF Init, Locked, Using, InString
  <1>6. Decided
    BY <1>4, PropertyMapAssumption DEF Init, Decided, OneTypePerName, Calling, InString
  <1>7. Referenced
    BY <1>4 DEF Referenced, Calling
  <1>8. Valued
    BY <1>2, PropertyMapAssumption DEF Init, Valued, Trivial, PropTypes
  <1> QED
    BY <1>3, <1>5, <1>6, <1>7, <1>8 DEF Inv

\* The call that a thread begins.
Begun(t, o) ==
  \/ /\ o.call = "get_prop" /\ o.at = "lock"
     /\ <<o.key, o.type>> \in Typed[t]
  \/ o.call = "get_prop_variant" /\ o.at = "lock"
  \/ /\ o.call = "set_prop_variant" /\ o.at = "lock"
     /\ o.arg \in AllValues /\ o.arg.type = o.type
  \/ /\ o.call \in {"get", "set"}
     /\ o.at = IF o.type = "string" THEN "spin" ELSE "access"
     /\ ref[t] # NoRef /\ o.key = ref[t].key /\ o.type = ref[t].type
     /\ o.call = "set" => o.arg \in AllValues /\ o.arg.type = o.type

LEMMA RequestBegins ==
  ASSUME Inv, NEW t \in Threads, Request(t)
  PROVE  /\ op[t].at = "idle"
         /\ UNCHANGED <<tag, val_, written, mtx_, spinlock_, ref, got>>
         /\ \E o \in Op : Begun(t, o) /\ op' = [op EXCEPT ![t] = o]
  <1> DEFINE New(call, key, type, arg, at) ==
        [call |-> call, key |-> key, type |-> type, arg |-> arg, at |-> at, creates |-> FALSE]
  <1>1. PICK call \in Calls, key \in Keys, type \in PropTypes,
             arg \in AllValues \cup {KEY_NOT_FOUND_STR}, at \in Steps :
          Begin(t, call, key, type, arg, at) /\ Begun(t, New(call, key, type, arg, at))
    <2>1. CASE \E access \in Typed[t] :
                 Begin(t, "get_prop", access[1], access[2], KEY_NOT_FOUND_STR, "lock")
      BY <2>1, PropertyMapAssumption DEF Begun, Calls, Steps
    <2>2. CASE \E k \in Keys : Begin(t, "get_prop_variant", k, "bool", KEY_NOT_FOUND_STR, "lock")
      BY <2>2 DEF Begun, Calls, Steps, PropTypes, Trivial
    <2>3. CASE \E k \in Keys : \E value \in Inputs[t] :
                 Begin(t, "set_prop_variant", k, value.type, value, "lock")
      BY <2>3, ValueFields, PropertyMapAssumption DEF Begun, Calls, Steps
    <2> DEFINE at == IF ref[t].type = "string" THEN "spin" ELSE "access"
    <2>4. CASE ref[t] # NoRef /\ Begin(t, "get", ref[t].key, ref[t].type, KEY_NOT_FOUND_STR, at)
      BY <2>4 DEF Begun, Calls, Steps, Inv, Shape, Reference
    <2>5. CASE ref[t] # NoRef /\ \E value \in Inputs[t] :
                 value.type = ref[t].type /\ Begin(t, "set", ref[t].key, ref[t].type, value, at)
      BY <2>5, PropertyMapAssumption DEF Begun, Calls, Steps, Inv, Shape, Reference
    <2> QED
      BY <2>1, <2>2, <2>3, <2>4, <2>5 DEF Request
  <1>2. New(call, key, type, arg, at) \in Op
    BY DEF Op
  <1>3. /\ op[t].at = "idle"
        /\ UNCHANGED <<tag, val_, written, mtx_, spinlock_, ref, got>>
        /\ op' = [op EXCEPT ![t] = New(call, key, type, arg, at)]
    BY <1>1 DEF Begin, Idle, mapVars, lockVars
  <1> QED
    BY <1>1, <1>2, <1>3

LEMMA ShapeStep ==
  ASSUME Inv, NEW t \in Threads, Request(t) \/ Step(t)
  PROVE  Shape'
  <1> USE DEF Inv, Shape, Op, Steps, mapVars, lockVars, At, Goto
  <1>0. Idle \in Op
    BY PropertyMapAssumption DEF Idle, PropTypes, Trivial
  <1>1. CASE Request(t)
    BY <1>1, RequestBegins
  <1>2. CASE Lock(t)
    BY <1>2 DEF Lock
  <1>3. CASE FindVariant(t)
    <2>1. op[t].at = "find" /\ tag[op[t].key] \in PropTypes
      BY <1>3 DEF FindVariant
    <2>2. \A value \in Argument(t, tag[op[t].key]) : value \in AllValues \cup {KEY_NOT_FOUND_STR}
      BY <2>1, ArgumentFits
    <2> DEFINE T == tag[op[t].key]
    <2>3. PICK value \in Argument(t, T) :
            op' = [op EXCEPT ![t].type = T, ![t].arg = value, ![t].at = FirstStep(T)]
      BY <1>3 DEF FindVariant
    <2>4. op' \in [Threads -> Op]
      BY <2>1, <2>2, <2>3 DEF FirstStep
    <2> QED
      BY <1>3, <2>4 DEF FindVariant
  <1>4. CASE FindTyped(t)
    BY <1>0, <1>4 DEF FindTyped, Return, Reference
  <1>5. CASE FindMismatch(t)
    BY <1>0, <1>5 DEF FindMismatch, Return
  <1>6. CASE FindAbsent(t)
    BY <1>0, <1>6 DEF FindAbsent, Return
  <1>7. CASE Emplace(t)
    <2>1. tag' \in [Keys -> PropTypes \cup {NoEntry}] /\ written' \subseteq Keys
      BY <1>7 DEF Emplace
    <2>2. val_' \in [Keys -> AllValues]
      BY <1>7, WordIsValue, NumberIsValue DEF Emplace, Words, Values, PropTypes
    <2>3. mtx_' \in Threads \cup {NoThread} /\ ref' \in [Threads -> Reference \cup {NoRef}]
      BY <1>7 DEF Emplace, Return, Reference
    <2>4. op' \in [Threads -> Op]
      BY <1>0, <1>7 DEF Emplace, Return, FirstStep
    <2> QED
      BY <1>7, <2>1, <2>2, <2>3, <2>4 DEF Emplace
  <1>8. CASE Access(t)
    <2>1. Sets(t) => op[t].arg \in AllValues
      BY <1>8 DEF Access, Decided, Calling
    <2> QED
      BY <1>0, <1>8, <2>1 DEF Access, Return
  <1>9. CASE TryLock(t)
    BY <1>9 DEF TryLock
  <1>10. CASE Copy(t)
    BY <1>0, <1>10 DEF Copy, Return
  <1>11. CASE Assign(t)
    BY <1>11, WordIsValue DEF Assign, Torn, Words
  <1>12. CASE Assigned(t)
    <2>1. op[t].arg \in AllValues
      BY <1>12 DEF Assigned, Decided, Calling
    <2> QED
      BY <1>0, <1>12, <2>1 DEF Assigned, Return
  <1> QED
    BY <1>1, <1>2, <1>3, <1>4, <1>5, <1>6, <1>7, <1>8, <1>9, <1>10, <1>11, <1>12 DEF Step

\* Every action keeps the invariant.
LEMMA InvStep ==
  ASSUME Inv, NEW t \in Threads, Request(t) \/ Step(t)
  PROVE  Inv'
  <1>0. Shape'
    BY ShapeStep
  <1>a. NoThread \notin Threads
    BY PropertyMapAssumption
  <1>b. op[t] \in Op /\ op[t].key \in Keys
    BY DEF Inv, Shape, Op
  <1>1. CASE Request(t)
    <2>1. PICK o \in Op : Begun(t, o) /\ op' = [op EXCEPT ![t] = o]
      BY <1>1, RequestBegins
    <2>2. op'[t] = o /\ \A u \in Threads \ {t} : op'[u] = op[u]
      BY <2>1 DEF Inv, Shape
    <2>3. op[t].at = "idle" /\ UNCHANGED <<tag, val_, written, mtx_, spinlock_, ref, got>>
      BY <1>1, RequestBegins
    <2>4. Locked'
      BY <2>1, <2>2, <2>3 DEF Inv, Locked, Using, InString, ViaVariant, Begun
    <2>5. Decided'
      BY <2>1, <2>2, <2>3 DEF Inv, Decided, OneTypePerName, Calling, InString, Sets, Begun
    <2>6. Referenced'
      <3>1. o.call \in Calls /\ o.at # "emplace"
        BY <2>1 DEF Begun, Calls
      <3>2. o.call = "get_prop" => <<o.key, o.type>> \in Typed[t] /\ o.at = "lock"
        BY <2>1 DEF Begun
      <3>3. o.call \in {"get", "set"} =>
              (o.type = "string" \/ o.key \in Preset) /\ o.at \in {"spin", "access"}
        BY <2>1 DEF Begun, Inv, Referenced
      <3> QED
        BY <2>2, <2>3, <3>1, <3>2, <3>3 DEF Inv, Referenced, Using, InString, Calling
    <2>7. Valued'
      BY <2>2, <2>3 DEF Inv, Valued
    <2> QED
      BY <1>0, <2>4, <2>5, <2>6, <2>7 DEF Inv
  <1>2. CASE Lock(t)
    <2>1. /\ op[t].at = "lock"
          /\ op'[t].at = "find"
          /\ op'[t].call = op[t].call
          /\ op'[t].key = op[t].key
          /\ op'[t].type = op[t].type
          /\ op'[t].arg = op[t].arg
      BY <1>2, <1>b DEF Lock, At, Goto, Inv, Shape, Op
    <2>2. \A u \in Threads \ {t} : op'[u] = op[u]
      BY <1>2 DEF Lock, Goto, Inv, Shape
    <2>3. mtx_ = NoThread /\ mtx_' = t /\ UNCHANGED <<tag, val_, written, spinlock_, ref>>
      BY <1>2 DEF Lock, mapVars, lockVars
    <2>4. Locked'
      BY <1>a, <1>b, <2>1, <2>2, <2>3 DEF Inv, Shape, Op, Locked, Using, InString, ViaVariant
    <2>5. Decided'
      BY <1>b, <2>1, <2>2, <2>3 DEF Inv, Shape, Decided, OneTypePerName, Calling, InString, Sets
    <2>6. Referenced'
      BY <1>b, <2>1, <2>2, <2>3 DEF Inv, Referenced, Using, InString, Calling, Calls
    <2>7. Valued'
      BY <1>a, <1>b, <2>1, <2>2, <2>3 DEF Inv, Shape, Valued, Locked
    <2> QED
      BY <1>0, <2>4, <2>5, <2>6, <2>7 DEF Inv
  <1>3. CASE FindVariant(t)
    <2>1. /\ op[t].at = "find"
          /\ op'[t].at = FirstStep(tag[op[t].key])
          /\ op'[t].call = op[t].call /\ op'[t].key = op[t].key
      BY <1>3, <1>b DEF FindVariant, At, Goto, Inv, Shape, Op
    <2>2. \A u \in Threads \ {t} : op'[u] = op[u]
      BY <1>3 DEF FindVariant, Goto, Inv, Shape
    <2>3. /\ ViaVariant(t)
          /\ tag[op[t].key] # NoEntry
          /\ UNCHANGED <<tag, val_, written, mtx_, spinlock_, ref>>
      BY <1>3 DEF FindVariant, mapVars, lockVars
    <2>4. Locked'
      BY <1>a, <1>b, <2>1, <2>2, <2>3
      DEF Inv, Shape, Op, Locked, Using, InString, ViaVariant, FirstStep
    <2>5. Decided'
      <3>1. tag[op[t].key] \in PropTypes /\ op'[t].type = tag[op[t].key]
        BY <1>3, <1>b, <2>3 DEF FindVariant, Inv, Shape, Op
      <3>2. op'[t].arg \in Argument(t, tag[op[t].key])
        BY <1>3, <1>b DEF FindVariant, Inv, Shape, Op
      <3>3. Sets(t) => op'[t].arg \in AllValues /\ op'[t].arg.type = tag[op[t].key]
        BY <2>1, <2>3, <3>1, <3>2, ArgumentFits
      <3> QED
        BY <1>b, <2>1, <2>2, <2>3, <3>1, <3>3
        DEF Inv, Decided, OneTypePerName, Calling, InString, Sets, FirstStep
    <2>6. Referenced'
      <3>1. op[t].call \notin {"get_prop", "get", "set"} /\ op'[t].at # "emplace"
        BY <2>1, <2>3 DEF ViaVariant, FirstStep
      <3> QED
        BY <2>1, <2>2, <2>3, <3>1 DEF Inv, Referenced, Using, InString, Calling, FirstStep
    <2>7. Valued'
      BY <1>a, <1>b, <2>1, <2>2, <2>3 DEF Inv, Shape, Valued, Locked
    <2> QED
      BY <1>0, <2>4, <2>5, <2>6, <2>7 DEF Inv
  <1>4. CASE FindTyped(t)
    <2>1. op[t].at = "find" /\ op'[t].at = "idle"
      BY <1>4, <1>b DEF FindTyped, At, Goto, Inv, Shape, Op, Return, Idle
    <2>2. \A u \in Threads \ {t} : op'[u] = op[u]
      BY <1>4 DEF FindTyped, Goto, Inv, Shape, Return, Idle
    <2>3. /\ mtx_' = (IF mtx_ = t THEN NoThread ELSE mtx_)
          /\ UNCHANGED <<tag, val_, written, spinlock_>>
      BY <1>4 DEF FindTyped, mapVars, lockVars, Return, Idle
    <2>4. Locked'
      BY <1>a, <1>b, <2>1, <2>2, <2>3 DEF Inv, Shape, Op, Locked, Using, InString, ViaVariant
    <2>5. Decided'
      <3>1. ref' = [ref EXCEPT ![t] = [key |-> op[t].key, type |-> op[t].type]]
            /\ tag[op[t].key] = op[t].type
        BY <1>4 DEF FindTyped
      <3>2. ref'[t].key = op[t].key /\ ref'[t].type = op[t].type
        BY <3>1 DEF Inv, Shape
      <3>3. \A u \in Threads \ {t} : ref'[u] = ref[u]
        BY <3>1 DEF Inv, Shape
      <3> QED
        BY <2>1, <2>2, <2>3, <3>1, <3>2, <3>3
        DEF Inv, Decided, OneTypePerName, Calling, InString, Sets
    <2>6. Referenced'
      <3>1. op[t].call = "get_prop"
        BY <1>4, <2>1 DEF FindTyped, ViaVariant, Inv, Referenced, Calling, Calls, Using, InString
      <3>2. op[t].type = "string" \/ op[t].key \in Preset
        BY <1>b, <2>1, <3>1, TypedIsSet DEF Inv, Referenced, Calling, Op
      <3>3. ref' = [ref EXCEPT ![t] = [key |-> op[t].key, type |-> op[t].type]]
        BY <1>4 DEF FindTyped
      <3>4. ref'[t].key = op[t].key /\ ref'[t].type = op[t].type
            /\ \A u \in Threads \ {t} : ref'[u] = ref[u]
        BY <3>3 DEF Inv, Shape
      <3> QED
        BY <2>1, <2>2, <2>3, <3>2, <3>4 DEF Inv, Referenced, Using, InString, Calling
    <2>7. Valued'
      BY <1>a, <1>b, <2>1, <2>2, <2>3 DEF Inv, Shape, Valued, Locked
    <2> QED
      BY <1>0, <2>4, <2>5, <2>6, <2>7 DEF Inv
  <1>5. CASE FindMismatch(t)
    <2>1. op[t].at = "find" /\ op'[t].at = "idle"
      BY <1>5, <1>b DEF FindMismatch, At, Goto, Inv, Shape, Op, Return, Idle
    <2>2. \A u \in Threads \ {t} : op'[u] = op[u]
      BY <1>5 DEF FindMismatch, Goto, Inv, Shape, Return, Idle
    <2>3. /\ mtx_' = (IF mtx_ = t THEN NoThread ELSE mtx_)
          /\ UNCHANGED <<tag, val_, written, spinlock_, ref>>
      BY <1>5 DEF FindMismatch, mapVars, lockVars, Return, Idle
    <2>4. Locked'
      BY <1>a, <1>b, <2>1, <2>2, <2>3 DEF Inv, Shape, Op, Locked, Using, InString, ViaVariant
    <2>5. Decided'
      BY <1>b, <2>1, <2>2, <2>3 DEF Inv, Shape, Decided, OneTypePerName, Calling, InString, Sets
    <2>6. Referenced'
      BY <1>b, <2>1, <2>2, <2>3 DEF Inv, Referenced, Using, InString, Calling, Calls
    <2>7. Valued'
      BY <1>a, <1>b, <2>1, <2>2, <2>3 DEF Inv, Shape, Valued, Locked
    <2> QED
      BY <1>0, <2>4, <2>5, <2>6, <2>7 DEF Inv
  <1>6. CASE FindAbsent(t)
    <2>1. op[t].at = "find" /\ tag[op[t].key] = NoEntry
          /\ UNCHANGED <<tag, val_, written, spinlock_, ref>>
      BY <1>6 DEF FindAbsent, At, mapVars
    <2>2. \A u \in Threads \ {t} : op'[u] = op[u]
      BY <1>6 DEF FindAbsent, Goto, Return, Inv, Shape
    <2>3. \/ /\ op'[t].at = "idle"
             /\ mtx_' = (IF mtx_ = t THEN NoThread ELSE mtx_)
          \/ /\ op[t].call # "get_prop_variant"
             /\ op'[t].at = "emplace"
             /\ op'[t].call = op[t].call
             /\ op'[t].key = op[t].key
             /\ op'[t].type = op[t].type
             /\ op'[t].arg = op[t].arg
             /\ mtx_' = mtx_
      BY <1>6, <1>b DEF FindAbsent, Goto, Return, Idle, Inv, Shape, Op
    <2>4. Locked'
      BY <1>a, <1>b, <2>1, <2>2, <2>3 DEF Inv, Shape, Op, Locked, Using, InString, ViaVariant
    <2>5. Decided'
      BY <1>b, <2>1, <2>2, <2>3
      DEF Inv, Shape, Decided, OneTypePerName, Calling, InString, Sets
    <2>6. Referenced'
      BY <1>b, <2>1, <2>2, <2>3 DEF Inv, Referenced, Using, InString, Calling, Calls
    <2>7. Valued'
      BY <1>a, <1>b, <2>1, <2>2, <2>3 DEF Inv, Shape, Valued, Locked
    <2> QED
      BY <1>0, <2>4, <2>5, <2>6, <2>7 DEF Inv
  <1>7. CASE Emplace(t)
    <2> DEFINE k == op[t].key
               T == op[t].type
    <2>1. op[t].at = "emplace" /\ mtx_ = t /\ tag[k] = NoEntry /\ T \in PropTypes
      BY <1>7, <1>b DEF Emplace, At, Inv, Locked, Decided, Op
    <2>2. \A u \in Threads \ {t} : op'[u] = op[u]
      BY <1>7 DEF Emplace, Return, Inv, Shape
    <2>3. /\ tag' = [tag EXCEPT ![k] = T]
          /\ written' = IF T = "string" THEN written \cup {k} ELSE written
          /\ \E value \in AllValues : val_' = [val_ EXCEPT ![k] = value] /\ value.type = T
          /\ spinlock_' = spinlock_
      <3>1. T = "string" => Word("empty") \in AllValues /\ Word("empty").type = T
        BY WordIsValue, Parts DEF Words
      <3>2. T # "string" => \A value \in Values(T) : value \in AllValues /\ value.type = T
        BY <2>1, NumberIsValue, Parts DEF Values, PropTypes
      <3> QED
        BY <1>7, <2>1, <3>1, <3>2 DEF Emplace
    <2>4. \/ /\ op[t].call = "set_prop_variant"
             /\ op'[t].at = FirstStep(T)
             /\ op'[t].call = op[t].call
             /\ op'[t].key = k
             /\ op'[t].type = T
             /\ op'[t].arg = op[t].arg
             /\ UNCHANGED <<mtx_, ref>>
          \/ /\ op[t].call = "get_prop"
             /\ op'[t].at = "idle"
             /\ mtx_' = NoThread
             /\ ref' = [ref EXCEPT ![t] = [key |-> k, type |-> T]]
      <3>1. op[t].call \in {"get_prop", "set_prop_variant"}
        BY <2>1 DEF Inv, Referenced, Calling, Calls, Using, InString
      <3> QED
        BY <1>7, <1>b, <2>1, <3>1 DEF Emplace, Return, Idle, ViaVariant, Inv, Shape, Op
    <2>5. Locked'
      BY <1>a, <1>b, <2>1, <2>2, <2>3, <2>4
      DEF Inv, Shape, Op, Locked, Using, InString, ViaVariant, FirstStep
    <2>6. \A u \in Threads \ {t} : op[u].at # "emplace" /\ (Using(u) => op[u].key # k)
      BY <2>1, PropertyMapAssumption
      DEF Inv, Shape, Op, Locked, Decided, OneTypePerName, Using, InString
    <2>7. Decided'
      <3>1. OneTypePerName'
        <4>1. \A u \in Threads : ref'[u] # NoRef => tag'[ref'[u].key] = ref'[u].type
          <5>1. ref'[t] # ref[t] => ref'[t].key = k /\ ref'[t].type = T
            BY <2>4 DEF Inv, Shape
          <5>2. \A u \in Threads \ {t} : ref'[u] = ref[u]
            BY <2>4 DEF Inv, Shape
          <5>3. \A u \in Threads : ref[u] # NoRef => ref[u].key \in Keys /\ ref[u].type \in PropTypes
            BY DEF Inv, Shape, Reference
          <5>4. \A u \in Threads : ref[u] # NoRef => ref[u].key # k
            BY <2>1, <5>3, PropertyMapAssumption DEF Inv, Decided, OneTypePerName
          <5>5. tag'[k] = T /\ \A n \in Keys \ {k} : tag'[n] = tag[n]
            BY <1>b, <2>3 DEF Inv, Shape
          <5> QED
            BY <5>1, <5>2, <5>3, <5>4, <5>5 DEF Inv, Decided, OneTypePerName
        <4>2. \A u \in Threads :
                op'[u].at \in {"access", "spin", "copy", "assign", "assigned"} =>
                  tag'[op'[u].key] = op'[u].type
          BY <1>b, <2>1, <2>2, <2>3, <2>4, <2>6
          DEF Inv, Shape, Op, Decided, OneTypePerName, Using, InString
        <4> QED
          BY <4>1, <4>2 DEF OneTypePerName
      <3>2. \A n \in Keys : tag'[n] # NoEntry => val_'[n].type = tag'[n]
        BY <1>b, <2>3 DEF Inv, Shape, Decided
      <3> QED
        BY <1>b, <2>1, <2>2, <2>4, <2>6, <3>1, <3>2
        DEF Inv, Decided, Calling, InString, Sets, FirstStep
    <2>8. Referenced'
      <3>1. op[t].call = "get_prop" => T = "string" \/ k \in Preset
        BY <2>1, TypedIsSet DEF Inv, Referenced, Calling
      <3>2. \A u \in Threads : ref'[u] # NoRef =>
              ref'[u].type = "string" \/ ref'[u].key \in Preset
        <4>1. CASE op[t].call = "set_prop_variant"
          BY <2>4, <4>1 DEF Inv, Referenced
        <4>2. CASE op[t].call = "get_prop"
          <5>1. ref'[t].key = k /\ ref'[t].type = T
            BY <2>4, <4>2 DEF Inv, Shape
          <5>2. \A u \in Threads \ {t} : ref'[u] = ref[u]
            BY <2>4, <4>2 DEF Inv, Shape
          <5> QED
            BY <3>1, <4>2, <5>1, <5>2 DEF Inv, Referenced
        <4> QED
          BY <2>4, <4>1, <4>2
      <3> QED
        BY <2>1, <2>2, <2>4, <3>2 DEF Inv, Referenced, Using, InString, Calling, Calls, FirstStep
    <2>9. Valued'
      <3>1. k \notin written
        BY <2>1 DEF Inv, Valued
      <3>2. op[t].call = "get_prop" => T = "string"
        BY <2>1, <3>1, TypedIsSet DEF Inv, Referenced, Valued, Calling
      <3>3. k \in written' \/ (op[t].call = "set_prop_variant" /\ T # "string")
        BY <2>3, <2>4, <3>2
      <3>4. \A n \in Keys \ {k} : tag'[n] = tag[n] /\ (n \in written' <=> n \in written)
        BY <2>3 DEF Inv, Shape
      <3>5. tag'[k] = T /\ T # NoEntry
        BY <1>b, <2>1, <2>3, PropertyMapAssumption DEF Inv, Shape
      <3>6. \A n \in Keys \ written : tag[n] = NoEntry
        BY <1>a, <2>1 DEF Inv, Valued
      <3>7. T # "string" /\ op[t].call = "set_prop_variant" =>
              mtx_' = t /\ op'[t].call = "set_prop_variant" /\ op'[t].key = k /\ op'[t].at = "access"
        BY <2>1, <2>4 DEF FirstStep
      <3>8. Preset \subseteq written' /\ written' \subseteq Keys
        BY <1>b, <2>3 DEF Inv, Shape, Valued
      <3> QED
        BY <1>b, <2>3, <3>3, <3>4, <3>5, <3>6, <3>7, <3>8 DEF Inv, Valued
    <2> QED
      BY <1>0, <2>5, <2>7, <2>8, <2>9 DEF Inv
  <1>8. CASE Access(t)
    <2>1. op[t].at = "access" /\ op'[t].at = "idle"
      BY <1>8, <1>b DEF Access, At, Goto, Inv, Shape, Op, Return, Idle
    <2>2. \A u \in Threads \ {t} : op'[u] = op[u]
      BY <1>8 DEF Access, Goto, Inv, Shape, Return, Idle
    <2>3. mtx_' = (IF mtx_ = t THEN NoThread ELSE mtx_) /\ UNCHANGED <<tag, spinlock_, ref>>
      BY <1>8 DEF Access, mapVars, lockVars, Return, Idle
    <2>4. Locked'
      BY <1>a, <1>b, <2>1, <2>2, <2>3 DEF Inv, Shape, Op, Locked, Using, InString, ViaVariant
    <2>5. Decided'
      <3>1. \A k \in Keys : val_'[k] = val_[k] \/ (k = op[t].key /\ Sets(t) /\ val_'[k] = op[t].arg)
        BY <1>8 DEF Access, Inv, Shape
      <3>2. tag[op[t].key] = op[t].type /\ (Sets(t) => op[t].arg.type = op[t].type)
        BY <2>1 DEF Inv, Decided, OneTypePerName, Calling
      <3> QED
        BY <2>1, <2>2, <2>3, <3>1, <3>2 DEF Inv, Decided, OneTypePerName, Calling, InString, Sets
    <2>6. Referenced'
      BY <1>b, <2>1, <2>2, <2>3 DEF Inv, Referenced, Using, InString, Calling, Calls
    <2>7. Valued'
      <3>1. written' = IF Sets(t) THEN written \cup {op[t].key} ELSE written
        BY <1>8 DEF Access
      <3>2. tag[op[t].key] # NoEntry
        BY <2>1, <1>b, PropertyMapAssumption DEF Inv, Decided, OneTypePerName, Op
      <3>3. \A k \in Keys \ written' : tag[k] # NoEntry =>
              \E u \in Threads \ {t} :
                mtx_ = u /\ op[u].call = "set_prop_variant" /\ op[u].key = k /\ op[u].at = "access"
        BY <3>1 DEF Inv, Valued, Sets
      <3> QED
        BY <1>a, <2>2, <2>3, <3>1, <3>2, <3>3 DEF Inv, Valued
    <2> QED
      BY <1>0, <2>4, <2>5, <2>6, <2>7 DEF Inv
  <1>9. CASE TryLock(t)
    <2>1. /\ op[t].at = "spin"
          /\ op'[t].at = IF Sets(t) THEN "assign" ELSE "copy"
          /\ op'[t].call = op[t].call
          /\ op'[t].key = op[t].key
          /\ op'[t].type = op[t].type
          /\ op'[t].arg = op[t].arg
      BY <1>9, <1>b DEF TryLock, At, Goto, Inv, Shape, Op
    <2>2. \A u \in Threads \ {t} : op'[u] = op[u]
      BY <1>9 DEF TryLock, Goto, Inv, Shape
    <2>3. /\ spinlock_[op[t].key] = NoThread
          /\ spinlock_' = [spinlock_ EXCEPT ![op[t].key] = t]
          /\ UNCHANGED <<tag, val_, written, mtx_, ref>>
      BY <1>9 DEF TryLock, mapVars, lockVars
    <2>4. Locked'
      BY <1>a, <1>b, <2>1, <2>2, <2>3 DEF Inv, Shape, Op, Locked, Using, InString, ViaVariant
    <2>5. Decided'
      BY <1>b, <2>1, <2>2, <2>3 DEF Inv, Shape, Decided, OneTypePerName, Calling, InString, Sets
    <2>6. Referenced'
      BY <1>b, <2>1, <2>2, <2>3 DEF Inv, Referenced, Using, InString, Calling, Calls
    <2>7. Valued'
      BY <1>a, <1>b, <2>1, <2>2, <2>3 DEF Inv, Shape, Valued, Locked
    <2> QED
      BY <1>0, <2>4, <2>5, <2>6, <2>7 DEF Inv
  <1>10. CASE Copy(t)
    <2>1. op[t].at = "copy" /\ op'[t].at = "idle"
      BY <1>10, <1>b DEF Copy, At, Goto, Inv, Shape, Op, Return, Idle
    <2>2. \A u \in Threads \ {t} : op'[u] = op[u]
      BY <1>10 DEF Copy, Goto, Inv, Shape, Return, Idle
    <2>3. /\ mtx_' = (IF mtx_ = t THEN NoThread ELSE mtx_)
          /\ spinlock_' = [spinlock_ EXCEPT ![op[t].key] = NoThread]
          /\ UNCHANGED <<tag, val_, written, ref>>
      BY <1>10 DEF Copy, mapVars, lockVars, Return, Idle
    <2>4. Locked'
      BY <1>a, <1>b, <2>1, <2>2, <2>3 DEF Inv, Shape, Op, Locked, Using, InString, ViaVariant
    <2>5. Decided'
      BY <1>b, <2>1, <2>2, <2>3 DEF Inv, Shape, Decided, OneTypePerName, Calling, InString, Sets
    <2>6. Referenced'
      BY <1>b, <2>1, <2>2, <2>3 DEF Inv, Referenced, Using, InString, Calling, Calls
    <2>7. Valued'
      BY <1>a, <1>b, <2>1, <2>2, <2>3 DEF Inv, Shape, Valued, Locked
    <2> QED
      BY <1>0, <2>4, <2>5, <2>6, <2>7 DEF Inv
  <1>11. CASE Assign(t)
    <2>1. /\ op[t].at = "assign"
          /\ op'[t].at = "assigned"
          /\ op'[t].call = op[t].call
          /\ op'[t].key = op[t].key
          /\ op'[t].type = op[t].type
          /\ op'[t].arg = op[t].arg
      BY <1>11, <1>b DEF Assign, At, Goto, Inv, Shape, Op
    <2>2. \A u \in Threads \ {t} : op'[u] = op[u]
      BY <1>11 DEF Assign, Goto, Inv, Shape
    <2>3. UNCHANGED <<tag, mtx_, spinlock_, ref>>
      BY <1>11 DEF Assign, mapVars, lockVars
    <2>4. Locked'
      BY <1>a, <1>b, <2>1, <2>2, <2>3 DEF Inv, Shape, Op, Locked, Using, InString, ViaVariant
    <2>5. Decided'
      <3>1. val_' = [val_ EXCEPT ![op[t].key] = Torn] /\ Torn.type = "string"
        BY <1>11, Parts DEF Assign, Torn
      <3>2. tag[op[t].key] = op[t].type /\ op[t].type = "string"
        BY <2>1 DEF Inv, Decided, OneTypePerName, InString
      <3>3. \A k \in Keys : tag[k] # NoEntry => val_'[k].type = tag[k]
        BY <3>1, <3>2 DEF Inv, Shape, Decided
      <3> QED
        BY <2>1, <2>2, <2>3, <3>3 DEF Inv, Decided, OneTypePerName, Calling, InString, Sets
    <2>6. Referenced'
      BY <1>b, <2>1, <2>2, <2>3 DEF Inv, Referenced, Using, InString, Calling, Calls
    <2>7. Valued'
      <3>1. written' = written \cup {op[t].key} /\ tag[op[t].key] = "string"
        BY <1>11, <2>1 DEF Assign, Inv, Decided, OneTypePerName, InString
      <3>2. tag[op[t].key] # NoEntry
        BY <3>1, PropertyMapAssumption DEF PropTypes
      <3>3. \A u \in Threads : op[u].at = "access" => op'[u] = op[u]
        BY <2>1, <2>2
      <3> QED
        BY <2>3, <3>1, <3>2, <3>3 DEF Inv, Valued
    <2> QED
      BY <1>0, <2>4, <2>5, <2>6, <2>7 DEF Inv
  <1>12. CASE Assigned(t)
    <2>1. op[t].at = "assigned" /\ op'[t].at = "idle"
      BY <1>12, <1>b DEF Assigned, At, Goto, Inv, Shape, Op, Return, Idle
    <2>2. \A u \in Threads \ {t} : op'[u] = op[u]
      BY <1>12 DEF Assigned, Goto, Inv, Shape, Return, Idle
    <2>3. /\ mtx_' = (IF mtx_ = t THEN NoThread ELSE mtx_)
          /\ spinlock_' = [spinlock_ EXCEPT ![op[t].key] = NoThread]
          /\ UNCHANGED <<tag, written, ref>>
      BY <1>12 DEF Assigned, mapVars, lockVars, Return, Idle
    <2>4. Locked'
      BY <1>a, <1>b, <2>1, <2>2, <2>3 DEF Inv, Shape, Op, Locked, Using, InString, ViaVariant
    <2>5. Decided'
      <3>1. val_' = [val_ EXCEPT ![op[t].key] = op[t].arg]
        BY <1>12 DEF Assigned
      <3>2. tag[op[t].key] = op[t].type /\ op[t].arg.type = op[t].type
        BY <2>1 DEF Inv, Decided, OneTypePerName, InString, Calling
      <3>3. \A k \in Keys : tag[k] # NoEntry => val_'[k].type = tag[k]
        BY <3>1, <3>2 DEF Inv, Shape, Decided
      <3> QED
        BY <2>1, <2>2, <2>3, <3>3 DEF Inv, Decided, OneTypePerName, Calling, InString, Sets
    <2>6. Referenced'
      BY <1>b, <2>1, <2>2, <2>3 DEF Inv, Referenced, Using, InString, Calling, Calls
    <2>7. Valued'
      BY <1>a, <1>b, <1>12, <2>1, <2>2, <2>3 DEF Inv, Shape, Valued, Locked
    <2> QED
      BY <1>0, <2>4, <2>5, <2>6, <2>7 DEF Inv
  <1> QED
    BY <1>1, <1>2, <1>3, <1>4, <1>5, <1>6, <1>7, <1>8, <1>9, <1>10, <1>11, <1>12 DEF Step

LEMMA InvStays ==
  ASSUME Inv, UNCHANGED vars
  PROVE  Inv'
  <1> USE DEF vars, mapVars, lockVars
  <1>1. Shape' /\ Valued'
    BY DEF Inv, Shape, Valued
  <1>2. Locked'
    BY DEF Inv, Locked, Using, InString, ViaVariant
  <1>3. Decided'
    BY DEF Inv, Decided, OneTypePerName, InString, Calling, Sets
  <1>4. Referenced'
    BY DEF Inv, Referenced, Using, InString, Calling
  <1> QED
    BY <1>1, <1>2, <1>3, <1>4 DEF Inv

\* The invariant from which the others follow: get_prop() and the functions for
\* variants keep to their locks and to what they decided under them.
THEOREM InvariantHolds == Spec => []Inv
  <1>1. Inv /\ [Next]_vars => Inv'
    <2> SUFFICES ASSUME Inv, [Next]_vars PROVE Inv'
      OBVIOUS
    <2>1. CASE Next
      BY <2>1, InvStep DEF Next
    <2>2. CASE UNCHANGED vars
      BY <2>2, InvStays
    <2> QED
      BY <2>1, <2>2
  <1> QED
    BY <1>1, InitInv, PTL DEF Spec

\* Entries, references and values have the types that the calls expect, and who
\* holds a lock is in a call that releases it.
THEOREM PropertiesAreTyped == Spec => []PropertyMapTypeOK
  <1>1. Inv => PropertyMapTypeOK
    <2> SUFFICES ASSUME Inv PROVE PropertyMapTypeOK
      OBVIOUS
    <2>1. \A t \in Threads : op[t].at # "idle" => op[t] # Idle
      BY DEF Idle
    <2> QED
      BY <2>1 DEF Inv, Shape, Op, Steps, Locked, Decided, InString, PropertyMapTypeOK
  <1> QED
    BY <1>1, InvariantHolds, PTL

\* Whoever assigns a string, through a reference or through a variant, holds its
\* Spinlock: nobody else assigns or copies it (PropertyValue::get and set).
THEOREM StringsAreNotRaced == Spec => []NoDataRace
  <1>1. Inv => NoDataRace
    BY DEF Inv, Locked, InString, NoDataRace
  <1> QED
    BY <1>1, InvariantHolds, PTL

\* All threads use a name with one type, whoever creates it (get_prop_).
THEOREM NamesKeepTheirType == Spec => []OneTypePerName
  <1>1. Inv => OneTypePerName
    BY DEF Inv, Decided
  <1> QED
    BY <1>1, InvariantHolds, PTL

\* Nobody reads what set_prop_variant() has created and not yet set.
THEOREM ReadsSeeValues == Spec => []ReadsAreInitialized
  <1>1. Inv => ReadsAreInitialized
    <2> SUFFICES ASSUME Inv, NEW t \in Threads, op[t].at \in {"access", "copy"}, ~Sets(t)
                 PROVE  op[t].key \in written
      BY DEF ReadsAreInitialized
    <2>1. Using(t) /\ Calling(t) /\ op[t].key \in Keys /\ op[t].type \in PropTypes
      BY DEF Using, InString, Calling, Inv, Shape, Op
    <2>2. tag[op[t].key] = op[t].type
      BY DEF Inv, Decided, OneTypePerName
    <2>3. CASE op[t].call = "get_prop_variant"
      BY <2>1, <2>2, <2>3, PropertyMapAssumption DEF Inv, Locked, Valued, ViaVariant
    <2>4. CASE op[t].call = "get"
      BY <2>1, <2>2, <2>4 DEF Inv, Referenced, Valued
    <2> QED
      BY <2>1, <2>3, <2>4 DEF Inv, Referenced, Calls, Sets
  <1> QED
    BY <1>1, InvariantHolds, PTL

-----------------------------------------------------------------------------
(* PropertyMap implements PropertyRegisters.  The refinement mapping needs three *)
(* more facts.                                                                 *)

\* A string is half assigned while its writer is at it, and only then.
TornInv ==
  /\ \A k \in Keys : val_[k] = Torn => \E t \in Threads : At(t, "assigned") /\ op[t].key = k
  /\ \A t \in Threads : At(t, "assigned") => val_[op[t].key] = Torn
  /\ \A t \in Threads : op[t].arg # Torn /\ (At(t, "access") => op[t].type \in Trivial)

\* What set_prop_variant() creates is nobody else's until it is set: there is no
\* reference to it, and it holds mtx_.
CreatedInv ==
  \A t \in Threads : op[t].creates =>
    /\ mtx_ = t /\ op[t].call = "set_prop_variant" /\ Using(t)
    /\ \A u \in Threads : ref[u] # NoRef => ref[u].key # op[t].key
    /\ \A u \in Threads \ {t} : Using(u) => op[u].key # op[t].key

\* Who copies a string is in a call that reads it.
CopyInv == \A t \in Threads : At(t, "copy") => ~Sets(t)

MapInv == Inv /\ TornInv /\ CreatedInv /\ CopyInv

LEMMA NotTorn ==
  /\ KEY_NOT_FOUND_STR # Torn /\ Word("empty") # Torn
  /\ Torn.type = "string" /\ Torn.word = "torn"
  /\ \A value : value.type \in Trivial => value # Torn
  <1>1. Torn.type = "string" /\ Torn.word = "torn"
    BY DEF Torn, Word
  <1>2. KEY_NOT_FOUND_STR.type = "none" /\ Word("empty").word = "empty"
    BY DEF KEY_NOT_FOUND_STR, Word
  <1>3. \A value : value.type \in Trivial => value # Torn
    BY <1>1 DEF Trivial
  <1> QED
    BY <1>1, <1>2, <1>3

\* A conversion does not give what no string is.
LEMMA CoercedNotTorn ==
  ASSUME NEW value \in AllValues \ {Torn}, NEW T \in PropTypes, NEW w \in Coerced(value, T)
  PROVE  w # Torn
  <1>1. CASE value.type = T
    BY <1>1 DEF Coerced
  <1>2. CASE value.type # T /\ T = "string"
    <2>1. w = Formatted(value)
      BY <1>2 DEF Coerced
    <2>2. CASE value.type = "bool"
      <3>1. w.word \in {"true", "false"}
        BY <2>1, <2>2 DEF Formatted, Word
      <3> QED
        BY <3>1, NotTorn
    <2>3. CASE value.type # "bool"
      <3>1. w.word = ""
        BY <2>1, <2>3 DEF Formatted, Text, Number
      <3> QED
        BY <3>1, NotTorn
    <2> QED
      BY <2>2, <2>3
  <1>3. CASE value.type # T /\ T # "string"
    <2>1. w.type = T
      BY CoercedFits
    <2> QED
      BY <1>3, <2>1, NotTorn
  <1> QED
    BY <1>1, <1>2, <1>3

\* A step that leaves the values alone.
LEMMA TornStays ==
  ASSUME TornInv, NEW t \in Threads, ~At(t, "assigned"), val_' = val_,
         op'[t].at # "assigned", op'[t].arg # Torn,
         op'[t].at = "access" => op'[t].type \in Trivial,
         \A u \in Threads \ {t} : op'[u] = op[u]
  PROVE  TornInv'
  BY DEF TornInv, At

LEMMA TornStep ==
  ASSUME MapInv, NEW t \in Threads, Request(t) \/ Step(t), Inv'
  PROVE  TornInv'
  <1> USE DEF MapInv, TornInv, At
  <1>0. /\ op[t] \in Op /\ op[t].key \in Keys /\ Idle.at = "idle" /\ Idle.arg # Torn
        /\ op \in [Threads -> Op] /\ val_ \in [Keys -> AllValues]
    BY NotTorn DEF Inv, Shape, Op, Idle
  <1>1. CASE Request(t)
    <2>1. PICK o \in Op : Begun(t, o) /\ op' = [op EXCEPT ![t] = o]
      BY <1>1, RequestBegins
    <2>2. o.at # "assigned"
      BY <2>1 DEF Begun
    <2>3. op'[t].arg # Torn
      BY <1>0, <1>1, NotTorn, PropertyMapAssumption DEF Request, Begin, Torn
    <2>4. o.at = "access" => o.type \in Trivial
      BY <2>1 DEF Begun, Op, PropTypes
    <2> QED
      BY <1>0, <1>1, <2>1, <2>2, <2>3, <2>4, RequestBegins, TornStays
  <1>2. CASE Lock(t)
    BY <1>0, <1>2 DEF Lock, Goto, mapVars
  <1>3. CASE FindVariant(t)
    <2> DEFINE T == tag[op[t].key]
    <2>1. PICK value \in Argument(t, T) :
            op' = [op EXCEPT ![t].type = T, ![t].arg = value, ![t].at = FirstStep(T)]
      BY <1>3 DEF FindVariant
    <2>2. T \in PropTypes
      BY <1>0, <1>3 DEF FindVariant, Inv, Shape
    <2>3. value # Torn
      <3>1. CASE op[t].call = "set_prop_variant"
        <4>1. op[t].arg \in AllValues /\ op[t].arg # Torn
          BY <1>3, <3>1 DEF FindVariant, Inv, Decided, Calling, Sets
        <4> QED
          BY <2>1, <2>2, <3>1, <4>1, CoercedNotTorn DEF Argument
      <3>2. CASE op[t].call # "set_prop_variant"
        BY <2>1, <3>2 DEF Argument
      <3> QED
        BY <3>1, <3>2
    <2>4. op'[t].at # "assigned" /\ op'[t].arg # Torn /\ \A u \in Threads \ {t} : op'[u] = op[u]
      BY <1>0, <2>1, <2>3 DEF FirstStep, Op
    <2>5. op'[t].at = "access" => op'[t].type \in Trivial
      BY <1>0, <2>1, <2>2 DEF FirstStep, Op, PropTypes
    <2> QED
      BY <1>3, <2>4, <2>5, TornStays DEF FindVariant, mapVars
  <1>4. CASE FindTyped(t)
    BY <1>0, <1>4 DEF FindTyped, Return, mapVars
  <1>5. CASE FindMismatch(t)
    BY <1>0, <1>5 DEF FindMismatch, Return, mapVars
  <1>6. CASE FindAbsent(t)
    <2>1. /\ op'[t].at \in {"idle", "emplace"} /\ op'[t].arg # Torn
          /\ \A u \in Threads \ {t} : op'[u] = op[u]
      BY <1>0, <1>6 DEF FindAbsent, Return, Goto, Op
    <2> QED
      BY <1>6, <2>1, TornStays DEF FindAbsent, mapVars
  <1>7. CASE Emplace(t)
    <2>1. /\ op'[t].at # "assigned" /\ op'[t].arg # Torn
          /\ op'[t].at = "access" => op'[t].type \in Trivial
          /\ \A u \in Threads \ {t} : op'[u] = op[u]
      BY <1>0, <1>7 DEF Emplace, Return, FirstStep, Op, PropTypes
    <2>2. /\ tag[op[t].key] = NoEntry
          /\ \A k \in Keys \ {op[t].key} : val_'[k] = val_[k]
          /\ val_'[op[t].key] # Torn
      <3>1. tag[op[t].key] = NoEntry
        BY <1>7 DEF Emplace, Inv, Decided
      <3>2. PICK value \in IF op[t].type = "string" THEN {Word("empty")} ELSE Values(op[t].type) :
              val_' = [val_ EXCEPT ![op[t].key] = value]
        BY <1>7, <3>1 DEF Emplace
      <3>3. value # Torn
        BY <3>2, NotTorn, Parts, <1>0 DEF Values, Op, PropTypes
      <3> QED
        BY <1>0, <3>1, <3>2, <3>3
    <2>3. At(t, "emplace")
      BY <1>7 DEF Emplace
    <2>4. \A u \in Threads : At(u, "assigned") => tag[op[u].key] # NoEntry
      BY PropertyMapAssumption DEF Inv, Shape, Op, Decided, OneTypePerName
    <2>5. \A u \in Threads : At(u, "assigned") => op[u].key # op[t].key
      BY <2>2, <2>4
    <2> QED
      BY <1>0, <2>1, <2>2, <2>3, <2>5 DEF Op
  <1>8. CASE Access(t)
    <2>1. /\ op' = [op EXCEPT ![t] = Idle]
          /\ IF Sets(t) THEN val_' = [val_ EXCEPT ![op[t].key] = op[t].arg] ELSE val_' = val_
          /\ op[t].at = "access"
      BY <1>8 DEF Access, Return
    <2>2. \A u \in Threads : At(u, "assigned") => op[u].key # op[t].key
      BY <2>1, NotTorn DEF Inv, Decided, OneTypePerName, InString, Trivial
    <2>3. /\ op'[t] = Idle /\ op[t].arg # Torn
          /\ \A u \in Threads \ {t} : op'[u] = op[u]
      BY <1>0, <2>1
    <2>4. /\ val_'[op[t].key] = Torn => val_[op[t].key] = Torn
          /\ \A k \in Keys \ {op[t].key} : val_'[k] = val_[k]
      BY <1>0, <2>1, <2>3
    <2> QED
      BY <1>0, <2>1, <2>2, <2>3, <2>4 DEF Op
  <1>9. CASE TryLock(t)
    BY <1>0, <1>9 DEF TryLock, Goto, mapVars, Op
  <1>10. CASE Copy(t)
    BY <1>0, <1>10 DEF Copy, Return, mapVars
  <1>11. CASE Assign(t)
    BY <1>0, <1>11 DEF Assign, Goto, Op
  <1>12. CASE Assigned(t)
    <2>1. \A u \in Threads \ {t} : At(u, "assigned") => op[u].key # op[t].key
      BY <1>12 DEF Assigned, Inv, Locked, InString
    <2> QED
      BY <1>0, <1>12, <2>1 DEF Assigned, Return
  <1> QED
    BY <1>1, <1>2, <1>3, <1>4, <1>5, <1>6, <1>7, <1>8, <1>9, <1>10, <1>11, <1>12 DEF Step

LEMMA CreatedStep ==
  ASSUME MapInv, NEW t \in Threads, Request(t) \/ Step(t)
  PROVE  CreatedInv'
  <1> USE DEF MapInv, CreatedInv, At
  <1>0. /\ op[t] \in Op /\ op[t].key \in Keys /\ Idle.at = "idle" /\ ~Idle.creates
        /\ op \in [Threads -> Op] /\ ref \in [Threads -> Reference \cup {NoRef}]
    BY DEF Inv, Shape, Op, Idle
  <1>1. CASE Request(t)
    <2>1. PICK o \in Op : Begun(t, o) /\ op' = [op EXCEPT ![t] = o]
      BY <1>1, RequestBegins
    <2>0. ~op'[t].creates
      BY <1>0, <1>1 DEF Request, Begin
    <2>2. op'[t] = o /\ ~o.creates /\ \A u \in Threads \ {t} : op'[u] = op[u]
      BY <1>0, <2>0, <2>1
    <2>3. op[t].at = "idle" /\ UNCHANGED <<mtx_, ref>>
      BY <1>1, RequestBegins
    <2>4. Using(t)' => ref[t] # NoRef /\ o.key = ref[t].key
      BY <2>1, <2>2 DEF Begun, Using, InString
    <2> QED
      BY <2>2, <2>3, <2>4 DEF Using, InString
  <1>2. CASE Lock(t)
    <2>1. /\ op'[t].at = "find" /\ op'[t].creates = op[t].creates /\ op[t].at = "lock"
          /\ \A u \in Threads \ {t} : op'[u] = op[u]
      BY <1>0, <1>2 DEF Lock, Goto, Op
    <2>2. ~op[t].creates
      BY <2>1 DEF Using, InString
    <2> QED
      BY <1>2, <2>1, <2>2, PropertyMapAssumption DEF Lock, Using, InString
  <1>3. CASE FindVariant(t)
    <2>1. /\ op'[t].creates = op[t].creates /\ op[t].at = "find"
          /\ \A u \in Threads \ {t} : op'[u] = op[u]
      BY <1>0, <1>3 DEF FindVariant, Op
    <2>2. ~op[t].creates /\ mtx_ = t
      BY <2>1 DEF Using, InString, Inv, Locked
    <2> QED
      BY <1>3, <2>1, <2>2 DEF FindVariant, lockVars, Using, InString
  <1>4. CASE FindTyped(t)
    <2>1. mtx_ = t /\ op'[t] = Idle /\ \A u \in Threads \ {t} : op'[u] = op[u]
      BY <1>0, <1>4 DEF FindTyped, Return, Inv, Locked
    <2>2. \A u \in Threads : ~op'[u].creates
      BY <1>0, <2>1
    <2> QED
      BY <2>2
  <1>5. CASE FindMismatch(t)
    <2>1. mtx_ = t /\ op'[t] = Idle /\ \A u \in Threads \ {t} : op'[u] = op[u]
      BY <1>0, <1>5 DEF FindMismatch, Return, Inv, Locked
    <2>2. \A u \in Threads : ~op'[u].creates
      BY <1>0, <2>1
    <2> QED
      BY <2>2
  <1>6. CASE FindAbsent(t)
    <2>1. /\ mtx_ = t /\ op[t].at = "find" /\ (op'[t].creates => op[t].creates)
          /\ \A u \in Threads \ {t} : op'[u] = op[u]
      <3>1. op' = [op EXCEPT ![t] = Idle] \/ op' = [op EXCEPT ![t].at = "emplace"]
        BY <1>6 DEF FindAbsent, Return, Goto
      <3>2. (op'[t].creates => op[t].creates) /\ \A u \in Threads \ {t} : op'[u] = op[u]
        BY <1>0, <3>1 DEF Op
      <3> QED
        BY <1>6, <3>2 DEF FindAbsent, Inv, Locked
    <2>2. \A u \in Threads : ~op'[u].creates
      BY <1>0, <2>1 DEF Using, InString
    <2> QED
      BY <2>2
  <1>7. CASE Emplace(t)
    <2>1. /\ mtx_ = t /\ op[t].at = "emplace" /\ tag[op[t].key] = NoEntry
          /\ op[t].type \in PropTypes
      BY <1>0, <1>7 DEF Emplace, Inv, Locked, Decided, Op
    <2>2. \A u \in Threads \ {t} : ~op[u].creates /\ op'[u] = op[u]
      BY <1>0, <1>7, <2>1 DEF Emplace, Return
    <2>3. CASE ViaVariant(t)
      <3>1. /\ op[t].call = "set_prop_variant" /\ op'[t].call = op[t].call
            /\ op'[t].key = op[t].key /\ op'[t].at = FirstStep(op[t].type)
            /\ UNCHANGED <<mtx_, ref>>
        BY <1>0, <1>7, <2>1, <2>3 DEF Emplace, ViaVariant, Inv, Referenced, Op
      <3>2. \A u \in Threads : ref[u] # NoRef => ref[u].key # op[t].key
        BY <1>0, <2>1, PropertyMapAssumption DEF Inv, Decided, OneTypePerName, Shape, Reference
      <3>3. \A u \in Threads \ {t} : Using(u) => op[u].key # op[t].key
        BY <2>1, PropertyMapAssumption
        DEF Inv, Decided, OneTypePerName, Shape, Op, Using, InString
      <3> QED
        BY <2>1, <2>2, <3>1, <3>2, <3>3 DEF Using, InString, FirstStep
    <2>4. CASE ~ViaVariant(t)
      <3>1. op'[t] = Idle
        BY <1>0, <1>7, <2>4 DEF Emplace, Return
      <3> QED
        BY <1>0, <2>2, <3>1
    <2> QED
      BY <2>3, <2>4
  <1>8. CASE Access(t)
    BY <1>0, <1>8 DEF Access, Return, Using, InString
  <1>9. CASE TryLock(t)
    BY <1>0, <1>9 DEF TryLock, Goto, Using, InString, Op
  <1>10. CASE Copy(t)
    BY <1>0, <1>10 DEF Copy, Return, Using, InString
  <1>11. CASE Assign(t)
    BY <1>0, <1>11 DEF Assign, Goto, lockVars, Using, InString, Op
  <1>12. CASE Assigned(t)
    BY <1>0, <1>12 DEF Assigned, Return, Using, InString
  <1> QED
    BY <1>1, <1>2, <1>3, <1>4, <1>5, <1>6, <1>7, <1>8, <1>9, <1>10, <1>11, <1>12 DEF Step

LEMMA CopyStep ==
  ASSUME MapInv, NEW t \in Threads, Request(t) \/ Step(t)
  PROVE  CopyInv'
  <1>0. op[t] \in Op /\ op \in [Threads -> Op] /\ Idle.at = "idle"
    BY DEF MapInv, Inv, Shape, Op, Idle
  <1>1. \A u \in Threads \ {t} : op'[u] = op[u]
    BY <1>0
    DEF Request, Begin, Step, Lock, FindVariant, FindTyped, FindMismatch, FindAbsent, Emplace,
        Access, TryLock, Copy, Assign, Assigned, Return, Goto
  <1>2. op'[t].at = "copy" => op'[t].call \notin {"set_prop_variant", "set"}
    <2>1. CASE TryLock(t)
      BY <1>0, <2>1 DEF TryLock, Goto, Sets, Op
    <2>2. CASE Request(t)
      <3>1. PICK o \in Op : Begun(t, o) /\ op' = [op EXCEPT ![t] = o]
        BY <2>2, RequestBegins DEF MapInv
      <3> QED
        BY <1>0, <3>1 DEF Begun
    <2>3. CASE op' = [op EXCEPT ![t] = Idle]
      BY <1>0, <2>3
    <2>4. CASE \E step \in {"find", "emplace", "assigned"} : Goto(t, step)
      BY <1>0, <2>4 DEF Goto, Op
    <2>5. CASE FindVariant(t)
      BY <1>0, <2>5 DEF FindVariant, FirstStep, Op
    <2>6. CASE Emplace(t) /\ ViaVariant(t)
      BY <1>0, <2>6 DEF Emplace, FirstStep, Op
    <2> QED
      BY <2>1, <2>2, <2>3, <2>4, <2>5, <2>6
      DEF Step, Lock, FindTyped, FindMismatch, FindAbsent, Emplace, Access, Copy, Assign,
          Assigned, Return
  <1> QED
    BY <1>1, <1>2 DEF MapInv, CopyInv, At, Sets

LEMMA MapStep ==
  ASSUME MapInv, [Next]_vars
  PROVE  MapInv'
  <1>1. CASE Next
    <2>1. PICK t \in Threads : Request(t) \/ Step(t)
      BY <1>1 DEF Next
    <2> QED
      BY <2>1, InvStep, TornStep, CreatedStep, CopyStep DEF MapInv
  <1>2. CASE UNCHANGED vars
    <2>1. Inv'
      BY <1>2, InvStays DEF MapInv
    <2> QED
      BY <1>2, <2>1
      DEF vars, mapVars, lockVars, MapInv, TornInv, CreatedInv, CopyInv, At, Sets, Using, InString
  <1> QED
    BY <1>1, <1>2

LEMMA MapInit == Init => MapInv
  <1> SUFFICES ASSUME Init PROVE MapInv
    OBVIOUS
  <1>1. \A t \in Threads : op[t].at = "idle" /\ ~op[t].creates /\ op[t].arg = KEY_NOT_FOUND_STR
    BY DEF Init, Idle
  <1>2. \A k \in Preset : PresetValue[k] # Torn
    <2> TAKE k \in Preset
    <2>1. PICK T \in Trivial : PresetValue[k] \in Values(T)
      BY PropertyMapAssumption
    <2>2. PresetValue[k].type = T
      BY <2>1, Parts DEF Values
    <2> QED
      BY <2>2, NotTorn
  <1>3. \A k \in Keys : val_[k] # Torn
    BY <1>2, NotTorn DEF Init
  <1> QED
    BY <1>1, <1>3, NotTorn, InitInv DEF MapInv, TornInv, CreatedInv, CopyInv, At

-----------------------------------------------------------------------------
(* What the clients see. *)

\* Where a string is half assigned they see what it becomes.
SeenOnce ==
  \A k \in Keys :
    /\ val_[k] # Torn => SeenValue(k) = val_[k]
    /\ \A t \in Threads : At(t, "assigned") /\ op[t].key = k =>
         val_[k] = Torn /\ SeenValue(k) = op[t].arg

LEMMA SeenNow == MapInv => SeenOnce
  <1> SUFFICES ASSUME MapInv, NEW k \in Keys
               PROVE  /\ val_[k] # Torn => SeenValue(k) = val_[k]
                      /\ \A t \in Threads : At(t, "assigned") /\ op[t].key = k =>
                           val_[k] = Torn /\ SeenValue(k) = op[t].arg
    BY DEF SeenOnce
  <1>1. val_[k] # Torn => SeenValue(k) = val_[k]
    BY DEF SeenValue
  <1>2. ASSUME NEW t \in Threads, At(t, "assigned"), op[t].key = k
        PROVE  val_[k] = Torn /\ SeenValue(k) = op[t].arg
    <2>1. val_[k] = Torn
      BY <1>2 DEF MapInv, TornInv
    <2>2. Writer(k) \in Threads /\ At(Writer(k), "assigned") /\ op[Writer(k)].key = k
      BY <1>2 DEF Writer
    <2>3. Writer(k) = t
      BY <1>2, <2>2 DEF MapInv, Inv, Locked, InString, At
    <2> QED
      BY <2>1, <2>3 DEF SeenValue
  <1> QED
    BY <1>1, <1>2

LEMMA SeenNext == MapInv' => SeenOnce'
  BY SeenNow, PTL

\* A step that leaves an entry as it is, and does not reveal it.
LEMMA SeenStays ==
  ASSUME MapInv, MapInv', NEW k \in Keys, tag'[k] = tag[k], val_'[k] = val_[k],
         Creating(k)' <=> Creating(k),
         \A t \in Threads : At(t, "assigned") /\ op[t].key = k => op'[t] = op[t]
  PROVE  Seen'[k] = Seen[k]
  <1>1. SeenOnce /\ SeenOnce'
    BY SeenNow, SeenNext
  <1>2. SeenValue(k)' = SeenValue(k)
    <2>1. CASE val_[k] # Torn
      BY <1>1, <2>1 DEF SeenOnce
    <2>2. CASE val_[k] = Torn
      <3>1. PICK t \in Threads : At(t, "assigned") /\ op[t].key = k
        BY <2>2 DEF MapInv, TornInv
      <3>2. At(t, "assigned")' /\ op'[t].key = k
        BY <3>1 DEF At
      <3> QED
        BY <1>1, <3>1, <3>2 DEF SeenOnce
    <2> QED
      BY <2>1, <2>2
  <1> QED
    BY <1>2 DEF Seen

\* The others see what a thread does to an entry, and to no other.
LEMMA SeenElsewhere ==
  ASSUME MapInv, MapInv', NEW t \in Threads,
         \A u \in Threads \ {t} : op'[u] = op[u],
         op'[t].creates => op'[t].key = op[t].key,
         NEW k \in Keys \ {op[t].key}, tag'[k] = tag[k], val_'[k] = val_[k]
  PROVE  Seen'[k] = Seen[k]
  <1>1. Creating(k)' <=> Creating(k)
    BY DEF Creating
  <1> QED
    BY <1>1, SeenStays

LEMMA SeenIsMap ==
  /\ (\A k \in Keys : Seen'[k] = Seen[k]) => Seen' = Seen
  /\ \A k \in Keys : \A value :
       (\A j \in Keys \ {k} : Seen'[j] = Seen[j]) /\ Seen'[k] = value =>
         Seen' = [Seen EXCEPT ![k] = value]
  <1> DEFINE old == Seen
  <1> DEFINE new == Seen'
  <1>1. old = [k \in Keys |-> old[k]] /\ new = [k \in Keys |-> new[k]]
    BY DEF Seen
  <1> HIDE DEF old, new
  <1>2. /\ (\A k \in Keys : new[k] = old[k]) => new = old
        /\ \A k \in Keys : \A value :
             (\A j \in Keys \ {k} : new[j] = old[j]) /\ new[k] = value =>
               new = [old EXCEPT ![k] = value]
    BY <1>1
  <1> QED
    BY <1>2 DEF old, new

\* What the steps of a call have in common: at most its own entry changes.
LEMMA StepElsewhere ==
  ASSUME MapInv, MapInv', NEW t \in Threads, Step(t)
  PROVE  /\ op[t].key \in Keys
         /\ \A k \in Keys \ {op[t].key} : Seen'[k] = Seen[k]
  <1>0. /\ op[t] \in Op /\ op[t].key \in Keys /\ ~Idle.creates
        /\ op \in [Threads -> Op] /\ tag \in [Keys -> PropTypes \cup {NoEntry}]
        /\ val_ \in [Keys -> AllValues]
    BY DEF MapInv, Inv, Shape, Op, Idle
  <1>1. /\ \A u \in Threads \ {t} : op'[u] = op[u]
        /\ op'[t].creates => op'[t].key = op[t].key
    <2>1. CASE op' = [op EXCEPT ![t] = Idle]
      BY <1>0, <2>1
    <2>2. CASE \E step : Goto(t, step)
      BY <1>0, <2>2 DEF Goto, Op
    <2>3. CASE FindVariant(t)
      BY <1>0, <2>3 DEF FindVariant, Op
    <2>4. CASE Emplace(t) /\ ViaVariant(t)
      BY <1>0, <2>4 DEF Emplace, Op
    <2> QED
      BY <2>1, <2>2, <2>3, <2>4
      DEF Step, Lock, FindTyped, FindMismatch, FindAbsent, Emplace, Access, TryLock, Copy,
          Assign, Assigned, Return
  <1>2. \A k \in Keys \ {op[t].key} : tag'[k] = tag[k] /\ val_'[k] = val_[k]
    BY <1>0
    DEF Step, Lock, FindVariant, FindTyped, FindMismatch, FindAbsent, Emplace, Access,
        TryLock, Copy, Assign, Assigned, mapVars
  <1> QED
    BY <1>0, <1>1, <1>2, SeenElsewhere

\* A call that does not use the value, or has written it, shows the clients
\* nothing.
LEMMA QuietSteps ==
  ASSUME MapInv, MapInv', NEW t \in Threads,
         \/ Request(t) \/ Lock(t) \/ FindVariant(t) \/ FindTyped(t) \/ FindMismatch(t)
         \/ TryLock(t) \/ Assigned(t)
  PROVE  Seen' = Seen /\ got' = got
  <1>0. /\ op[t] \in Op /\ op[t].key \in Keys /\ ~Idle.creates /\ Idle.at = "idle"
        /\ op \in [Threads -> Op]
        /\ val_ \in [Keys -> AllValues]
    BY DEF MapInv, Inv, Shape, Op, Idle
  <1>1. CASE Request(t)
    <2>1. PICK o \in Op : op' = [op EXCEPT ![t] = o]
      BY <1>1, RequestBegins DEF MapInv
    <2>2. /\ op[t].at = "idle" /\ UNCHANGED <<tag, val_, got>>
          /\ \A u \in Threads \ {t} : op'[u] = op[u]
      BY <1>0, <1>1, <2>1, RequestBegins DEF MapInv
    <2>3. ~op[t].creates /\ ~op'[t].creates
      BY <1>0, <1>1, <2>2 DEF MapInv, CreatedInv, Using, InString, Request, Begin
    <2>4. \A k \in Keys : Seen'[k] = Seen[k]
      BY <2>2, <2>3, SeenStays DEF Creating, At
    <2> QED
      BY <2>2, <2>4, SeenIsMap
  <1>2. CASE Assigned(t)
    <2>0. PICK k \in Keys : k = op[t].key
      BY <1>0
    <2>1. /\ op[t].at = "assigned" /\ op[t].arg \in AllValues /\ op[t].arg # Torn
          /\ tag[k] # NoEntry
      BY <1>0, <1>2, <2>0, PropertyMapAssumption
      DEF Assigned, At, MapInv, TornInv, Inv, Shape, Decided, OneTypePerName, Calling, Op
    <2>2. val_'[k] = op[t].arg /\ tag'[k] = tag[k] /\ op'[t] = Idle
      BY <1>0, <1>2, <2>0 DEF Assigned, Return
    <2>3. SeenOnce /\ SeenOnce'
      BY SeenNow, SeenNext
    <2>4. Seen[k] = op[t].arg
      BY <2>0, <2>1, <2>3 DEF SeenOnce, Seen, At
    <2>5. ~Creating(k)'
      <3>1. \A u \in Threads \ {t} : op'[u] = op[u]
        BY <1>0, <1>2 DEF Assigned, Return
      <3>2. \A u \in Threads \ {t} : ~(op[u].creates /\ op[u].key = k)
        BY <2>0, <2>1 DEF MapInv, CreatedInv, Using, InString
      <3> QED
        BY <1>0, <2>2, <3>1, <3>2 DEF Creating
    <2>6. Seen'[k] = op[t].arg
      BY <2>1, <2>2, <2>3, <2>5 DEF SeenOnce, Seen
    <2> QED
      BY <1>2, <2>0, <2>4, <2>6, StepElsewhere, SeenIsMap DEF Step, Assigned
  <1>3. CASE \/ Lock(t) \/ FindVariant(t) \/ FindTyped(t) \/ FindMismatch(t) \/ TryLock(t)
    <2>1. /\ UNCHANGED <<tag, val_, got>> /\ ~At(t, "assigned")
          /\ \A u \in Threads \ {t} : op'[u] = op[u]
      BY <1>0, <1>3
      DEF Lock, FindVariant, FindTyped, FindMismatch, TryLock, Return, Goto, At, mapVars
    <2>2. CASE TryLock(t)
      <3>1. op'[t].creates = op[t].creates /\ op'[t].key = op[t].key
        BY <1>0, <2>2 DEF TryLock, Goto, Op
      <3>2. \A k \in Keys : Seen'[k] = Seen[k]
        BY <2>1, <3>1, SeenStays DEF Creating
      <3> QED
        BY <2>1, <3>2, SeenIsMap
    <2>3. CASE ~TryLock(t)
      <3>1. op[t].at \in {"lock", "find"}
        BY <1>3, <2>3 DEF Lock, FindVariant, FindTyped, FindMismatch, At
      <3>2. ~op[t].creates
        BY <3>1 DEF MapInv, CreatedInv, Using, InString
      <3>3. op'[t].creates => op[t].creates
        <4>1. CASE FindVariant(t)
          <5>1. PICK T, value :
                  op' = [op EXCEPT ![t].type = T, ![t].arg = value, ![t].at = FirstStep(T)]
            BY <4>1 DEF FindVariant
          <5> QED
            BY <1>0, <5>1 DEF Op
        <4>2. CASE Lock(t)
          BY <1>0, <4>2 DEF Lock, Goto, Op
        <4>3. CASE FindTyped(t) \/ FindMismatch(t)
          BY <1>0, <4>3 DEF FindTyped, FindMismatch, Return
        <4> QED
          BY <1>3, <2>3, <4>1, <4>2, <4>3
      <3>4. \A k \in Keys : Seen'[k] = Seen[k]
        BY <2>1, <3>2, <3>3, SeenStays DEF Creating
      <3> QED
        BY <2>1, <3>4, SeenIsMap
    <2> QED
      BY <2>2, <2>3
  <1> QED
    BY <1>1, <1>2, <1>3

\* The values of PropertyRegisters are those of PropertyMap.
LEMMA SameValues ==
  /\ Registers!Trivial = Trivial
  /\ \A T : Registers!Values(T) = Values(T)
  /\ \A w : Registers!Word(w) = Word(w)
  /\ Registers!KEY_NOT_FOUND_STR = KEY_NOT_FOUND_STR
  /\ Registers!AllValues = AllValues
  <1>1. Registers!Trivial = Trivial /\ Registers!Words = Words
    BY DEF Registers!Trivial, Trivial, Registers!Words, Words
  <1>2. \A T, half : Registers!Number(T, half) = Number(T, half)
    BY DEF Registers!Number, Number
  <1>3. \A half : Registers!Text(half) = Text(half)
    BY <1>2 DEF Registers!Text, Text
  <1>4. \A w : Registers!Word(w) = Word(w)
    BY DEF Registers!Word, Word
  <1>5. Registers!KEY_NOT_FOUND_STR = KEY_NOT_FOUND_STR
    BY DEF Registers!KEY_NOT_FOUND_STR, KEY_NOT_FOUND_STR
  <1>6. \A T : Registers!Values(T) = Values(T)
    BY <1>2
    DEF Registers!Values, Values, Registers!Numbers, Numbers, Registers!Integral, Integral,
        Registers!Least, Least, Registers!Greatest, Greatest
  <1>7. Registers!AllValues = AllValues
    BY <1>1, <1>3, <1>4, <1>6 DEF Registers!AllValues, AllValues
  <1> QED
    BY <1>1, <1>4, <1>5, <1>6, <1>7

\* A call reads or writes, or creates an entry, at one point in time.
LEMMA VisibleSteps ==
  ASSUME MapInv, MapInv', NEW t \in Threads,
         FindAbsent(t) \/ Emplace(t) \/ Access(t) \/ Copy(t) \/ Assign(t)
  PROVE  Registers!Next \/ (Seen' = Seen /\ got' = got)
  <1>0. /\ op[t] \in Op /\ ~Idle.creates /\ Idle.at = "idle"
        /\ op \in [Threads -> Op] /\ got \in [Threads -> AllValues \cup {KEY_NOT_FOUND_STR}]
        /\ tag \in [Keys -> PropTypes \cup {NoEntry}]
        /\ val_ \in [Keys -> AllValues]
    BY DEF MapInv, Inv, Shape, Op, Idle
  <1>a. PICK k \in Keys : k = op[t].key
    BY <1>0 DEF Op
  <1>b. SeenOnce /\ SeenOnce'
    BY SeenNow, SeenNext
  <1>c. \A j \in Keys \ {k} : Seen'[j] = Seen[j]
    BY <1>a, StepElsewhere DEF Step
  <1>d. \A T \in PropTypes : T # NoEntry
    BY PropertyMapAssumption
  <1>e. ASSUME Using(t)
        PROVE  /\ tag[k] = op[t].type /\ tag[k] # NoEntry
               /\ \A u \in Threads \ {t} : ~(op[u].creates /\ op[u].key = k)
    BY <1>0, <1>a, <1>d, <1>e
    DEF MapInv, CreatedInv, Inv, Decided, OneTypePerName, Using, InString, Op
  <1>f. ASSUME Sets(t), Using(t)
        PROVE  /\ op[t].arg \in AllValues \ {Torn}
               /\ op[t].arg.type = tag[k]
    BY <1>a, <1>e, <1>f DEF MapInv, TornInv, Inv, Decided, Calling, Using, InString
  <1>1. ASSUME Using(t), ~Sets(t), val_[k] # Torn, got' = [got EXCEPT ![t] = val_[k]],
               Seen' = Seen
        PROVE  Registers!Next
    <2>1. ~Creating(k)
      BY <1>e, <1>1 DEF Creating, MapInv, CreatedInv, Sets
    <2>2. Seen[k] = val_[k] /\ Seen[k] # NoEntry
      BY <1>0, <1>1, <1>b, <1>e, <2>1, PropertyMapAssumption DEF SeenOnce, Seen
    <2>3. Registers!Read(t, k)
      BY <1>1, <2>2 DEF Registers!Read
    <2> QED
      BY <2>3 DEF Registers!Next
  <1>2. ASSUME Using(t), Sets(t), Seen'[k] = op[t].arg, got' = got
        PROVE  Registers!Next
    <2>1. Seen[k] # NoEntry => op[t].arg.type = Seen[k].type
      <3>1. SUFFICES ASSUME Seen[k] # NoEntry
                     PROVE  op[t].arg.type = Seen[k].type
        OBVIOUS
      <3>2. Seen[k] = SeenValue(k)
        BY <3>1 DEF Seen
      <3>3. CASE val_[k] # Torn
        BY <1>2, <1>b, <1>e, <1>f, <3>2, <3>3 DEF SeenOnce, MapInv, Inv, Decided
      <3>4. CASE val_[k] = Torn
        <4>1. PICK u \in Threads : At(u, "assigned") /\ op[u].key = k
          BY <3>4 DEF MapInv, TornInv
        <4>2. Seen[k] = op[u].arg
          BY <1>b, <3>2, <4>1 DEF SeenOnce
        <4>3. op[u].arg.type = tag[k]
          BY <4>1 DEF MapInv, Inv, Decided, OneTypePerName, Calling, At
        <4> QED
          BY <1>2, <1>f, <4>2, <4>3
      <3> QED
        BY <3>3, <3>4
    <2>2. Seen' = [Seen EXCEPT ![k] = op[t].arg]
      BY <1>2, <1>c, SeenIsMap
    <2>3. Registers!Write(k, op[t].arg)
      BY <1>2, <2>1, <2>2 DEF Registers!Write
    <2> QED
      BY <1>2, <1>f, <2>3, SameValues DEF Registers!Next, Torn
  <1>3. CASE FindAbsent(t)
    <2>1. /\ tag[k] = NoEntry /\ UNCHANGED <<tag, val_>>
          /\ \A u \in Threads \ {t} : op'[u] = op[u]
          /\ op[t].at = "find"
      BY <1>0, <1>3, <1>a DEF FindAbsent, Return, Goto, At, mapVars
    <2>2. Seen[k] = NoEntry /\ Seen'[k] = NoEntry
      BY <2>1 DEF Seen
    <2>3. Seen' = Seen
      BY <1>c, <2>2, SeenIsMap
    <2>4. CASE op[t].call = "get_prop_variant"
      <3>1. Registers!Read(t, k)
        BY <1>3, <2>2, <2>3, <2>4, SameValues DEF FindAbsent, Registers!Read
      <3> QED
        BY <3>1 DEF Registers!Next
    <2>5. CASE op[t].call # "get_prop_variant"
      BY <1>3, <2>3, <2>5 DEF FindAbsent
    <2> QED
      BY <2>4, <2>5
  <1>4. CASE Emplace(t)
    <2>1. /\ op[t].at = "emplace" /\ tag[k] = NoEntry /\ got' = got
          /\ op[t].type \in PropTypes
      BY <1>0, <1>4, <1>a DEF Emplace, At, MapInv, Inv, Decided, Op
    <2>2. PICK value \in IF op[t].type = "string" THEN {Word("empty")}
                         ELSE Values(op[t].type) :
            val_' = [val_ EXCEPT ![k] = value] /\ tag' = [tag EXCEPT ![k] = op[t].type]
      BY <1>4, <1>a, <2>1 DEF Emplace
    <2>3. /\ val_'[k] = value /\ tag'[k] # NoEntry /\ value # Torn
          /\ value \in (UNION {Values(T) : T \in Trivial}) \cup {Word("empty")}
      <3>1. CASE op[t].type = "string"
        BY <1>0, <1>d, <2>1, <2>2, <3>1, NotTorn
      <3>2. CASE op[t].type # "string"
        <4>1. op[t].type \in Trivial /\ value \in Values(op[t].type)
          BY <2>1, <2>2, <3>2 DEF PropTypes
        <4>2. value.type = op[t].type
          BY <4>1, Parts DEF Values
        <4> QED
          BY <1>0, <1>d, <2>1, <2>2, <4>1, <4>2, NotTorn
      <3> QED
        BY <3>1, <3>2
    <2>4. Seen[k] = NoEntry
      BY <2>1 DEF Seen
    <2>5. CASE ViaVariant(t)
      <3>1. op'[t].creates /\ op'[t].key = k
        BY <1>0, <1>4, <1>a, <2>5 DEF Emplace, Op
      <3>2. Seen'[k] = NoEntry
        BY <2>3, <3>1 DEF Seen, Creating
      <3> QED
        BY <1>c, <2>1, <2>4, <3>2, SeenIsMap
    <2>6. CASE ~ViaVariant(t)
      <3>1. op'[t] = Idle /\ \A u \in Threads \ {t} : op'[u] = op[u]
        BY <1>0, <1>4, <2>6 DEF Emplace, Return
      <3>2. \A u \in Threads : ~op[u].creates
        BY <1>4, <2>1 DEF MapInv, CreatedInv, Inv, Locked, Using, InString
      <3>3. ~Creating(k)'
        BY <1>0, <3>1, <3>2 DEF Creating
      <3>4. Seen'[k] = value
        BY <1>b, <2>3, <3>3 DEF SeenOnce, Seen
      <3>5. Seen' = [Seen EXCEPT ![k] = value]
        BY <1>c, <3>4, SeenIsMap
      <3>6. Registers!Create(k)
        BY <2>1, <2>3, <2>4, <3>5, SameValues DEF Registers!Create
      <3> QED
        BY <3>6 DEF Registers!Next
    <2> QED
      BY <2>5, <2>6
  <1>5. CASE Access(t)
    <2>1. op[t].at = "access" /\ Using(t) /\ op[t].type \in Trivial /\ op'[t] = Idle
          /\ \A u \in Threads \ {t} : op'[u] = op[u]
      BY <1>0, <1>5 DEF Access, At, Using, MapInv, TornInv, Return
    <2>2. tag'[k] = tag[k]
      BY <1>5 DEF Access
    <2>3. ~Creating(k)'
      BY <1>0, <1>e, <2>1 DEF Creating
    <2>4. CASE Sets(t)
      <3>1. val_'[k] = op[t].arg /\ got' = got
        BY <1>0, <1>5, <1>a, <2>4 DEF Access
      <3>2. Seen'[k] = op[t].arg
        BY <1>b, <1>e, <1>f, <2>1, <2>2, <2>3, <2>4, <3>1 DEF SeenOnce, Seen
      <3> QED
        BY <1>2, <2>1, <2>4, <3>1, <3>2
    <2>5. CASE ~Sets(t)
      <3>1. val_' = val_ /\ got' = [got EXCEPT ![t] = val_[k]]
        BY <1>5, <1>a, <2>5 DEF Access
      <3>2. val_[k] # Torn
        BY <1>e, <2>1, NotTorn DEF MapInv, Inv, Decided
      <3>3. ~Creating(k)
        BY <1>e, <2>1, <2>5 DEF Creating, MapInv, CreatedInv, Sets
      <3>4. Seen'[k] = Seen[k]
        BY <1>b, <2>2, <2>3, <3>1, <3>2, <3>3 DEF SeenOnce, Seen
      <3>5. Seen' = Seen
        BY <1>c, <3>4, SeenIsMap
      <3> QED
        BY <1>1, <2>1, <2>5, <3>1, <3>2, <3>5
    <2> QED
      BY <2>4, <2>5
  <1>6. CASE Copy(t)
    <2>1. op[t].at = "copy" /\ Using(t) /\ ~Sets(t) /\ op'[t] = Idle
          /\ \A u \in Threads \ {t} : op'[u] = op[u]
      <3>1. op[t].at = "copy"
        BY <1>6 DEF Copy, At
      <3> QED
        BY <1>0, <1>6, <3>1 DEF Copy, Return, Using, InString, MapInv, CopyInv, At
    <2>2. UNCHANGED <<tag, val_>> /\ got' = [got EXCEPT ![t] = val_[k]]
      BY <1>6, <1>a DEF Copy, mapVars
    <2>3. \A u \in Threads : ~(At(u, "assigned") /\ op[u].key = k)
      BY <1>a, <2>1 DEF MapInv, Inv, Locked, InString, At
    <2>4. val_[k] # Torn
      BY <2>3 DEF MapInv, TornInv
    <2>5. ~Creating(k) /\ ~Creating(k)'
      BY <1>0, <1>e, <2>1 DEF Creating, MapInv, CreatedInv, Sets
    <2>6. Seen'[k] = Seen[k]
      BY <1>b, <2>2, <2>4, <2>5 DEF SeenOnce, Seen
    <2>7. Seen' = Seen
      BY <1>c, <2>6, SeenIsMap
    <2> QED
      BY <1>1, <2>1, <2>2, <2>4, <2>7
  <1>7. CASE Assign(t)
    <2>1. /\ op[t].at = "assign" /\ op'[t].at = "assigned" /\ op'[t].key = k
          /\ op'[t].arg = op[t].arg /\ got' = got /\ tag'[k] = tag[k]
          /\ val_'[k] = Torn
      BY <1>0, <1>7, <1>a DEF Assign, At, Goto, Op
    <2>2. Using(t) /\ Sets(t)
      BY <2>1 DEF Using, InString, MapInv, Inv, Decided
    <2>3. SeenValue(k)' = op[t].arg
      BY <1>b, <2>1 DEF SeenOnce, At
    <2>4. Seen'[k] = op[t].arg
      BY <1>e, <2>1, <2>2, <2>3 DEF Seen
    <2> QED
      BY <1>2, <2>1, <2>2, <2>4
  <1> QED
    BY <1>3, <1>4, <1>5, <1>6, <1>7

\* The clients of PropertyMap cannot tell it from one register per name, each of
\* one type: every call takes effect at one point in time (PropertyMap.hpp:28-32,
\* 108-112).
THEOREM PropertiesAreRegisters == Spec => ImplementsRegisters
  <1>1. Init => Registers!Init
    <2> SUFFICES ASSUME Init PROVE Registers!Init
      OBVIOUS
    <2>1. SeenOnce
      BY MapInit, SeenNow
    <2>2. ASSUME NEW k \in Keys
          PROVE  Seen[k] \in (UNION {Values(T) : T \in Trivial}) \cup {Word("empty"), NoEntry}
      <3>1. CASE k \in Preset
        <4>1. val_[k] = PresetValue[k] /\ val_[k] # Torn
          BY <3>1, MapInit DEF Init, MapInv, TornInv, Idle, At
        <4> QED
          BY <2>1, <3>1, <4>1, PropertyMapAssumption DEF Seen, SeenOnce
      <3>2. CASE k \notin Preset
        BY <3>2 DEF Init, Seen
      <3> QED
        BY <3>1, <3>2
    <2> QED
      BY <2>2, SameValues DEF Init, Registers!Init, Seen
  <1>2. MapInv /\ MapInv' /\ [Next]_vars => [Registers!Next]_<<Seen, got>>
    <2> SUFFICES ASSUME MapInv, MapInv', [Next]_vars
                 PROVE  Registers!Next \/ (Seen' = Seen /\ got' = got)
      OBVIOUS
    <2>1. CASE Next
      <3>1. PICK t \in Threads : Request(t) \/ Step(t)
        BY <2>1 DEF Next
      <3> QED
        BY <3>1, QuietSteps, VisibleSteps DEF Step
    <2>2. CASE UNCHANGED vars
      <3>1. \A k \in Keys : Seen'[k] = Seen[k]
        BY <2>2, SeenStays DEF vars, mapVars, Creating
      <3> QED
        BY <2>2, <3>1, SeenIsMap DEF vars
    <2> QED
      BY <2>1, <2>2
  <1>3. MapInv /\ [Next]_vars => MapInv'
    BY MapStep
  <1> QED
    BY <1>1, <1>2, <1>3, MapInit, PTL DEF Spec, ImplementsRegisters, Registers!Spec
=============================================================================
