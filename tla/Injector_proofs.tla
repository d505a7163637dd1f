---- MODULE Injector_proofs ----
(***************************************************************************)
(* Theorems about Injector, for any recipes, any types whose constructors    *)
(* throw, and any number of injectors and threads.                           *)
(***************************************************************************)
EXTENDS Injector, TLAPS

-----------------------------------------------------------------------------
(* What the theorems take for granted of the constants, as the application     *)
(* and MCInjector have it.                                                     *)

IsDependency(want) ==
  \E i \in Injectors, T \in Types :
    /\ Rules[i][T] # NoRule
    /\ \E n \in DOMAIN Rules[i][T].deps : Rules[i][T].deps[n] = want

Bound(T) == \E i \in Injectors : Rules[i][T] # NoRule /\ Rules[i][T].binds

\* The injectors whose parent has no parent are all there are.
TwoGenerations ==
  \A i \in Injectors : Parent[i] # NoInjector => Parent[Parent[i]] = NoInjector

\* The types that leave a null pointer behind when their constructor throws.
Fragile == DefaultInit \cap Throwing

\* The recipe for U that is added to i takes a reference to a T.
DependsOn(i, U, T) ==
  /\ Rules[i][U] # NoRule
  /\ \E n \in DOMAIN Rules[i][U].deps :
       Rules[i][U].deps[n] = [type |-> T, how |-> "REFERENCE"]

IsAsked(i, U) ==
  \/ \E t \in Threads : \E want \in Wanted[t][i] : want.type = U
  \/ \E V \in Types :
       /\ Rules[i][V] # NoRule
       /\ \E n \in DOMAIN Rules[i][V].deps : Rules[i][V].deps[n].type = U

\* get() returns a null reference to what is Fragile and has thrown before, and
\* to a concrete type that is bound in an injector with children.  For the
\* first to go into no instance, a Fragile type has only one recipe that takes a
\* reference to it, which is in a root and is for a type that no child is asked
\* for: the exception left that type in typeHashStack_, so nobody makes it again.
\* What threads ask for themselves is not Fragile, unless main asks and no
\* recipe does.
NullIsNotUsed ==
  /\ \A T \in Fragile, i \in Injectors, U \in Types : DependsOn(i, U, T) =>
       /\ Parent[i] = NoInjector
       /\ \A V \in Types : DependsOn(i, V, T) => V = U
       /\ \A j \in Injectors : IsAsked(j, U) => Parent[j] = NoInjector
  /\ \A T \in Fragile, t \in Threads, i \in Injectors :
       [type |-> T, how |-> "REFERENCE"] \in Wanted[t][i] =>
         /\ t = main
         /\ \A j \in Injectors, U \in Types : ~DependsOn(j, U, T)
  /\ \A i \in Injectors : \A T \in Types \ Abstract :
       Rules[i][T] # NoRule /\ Rules[i][T].binds => \A j \in Injectors : Parent[j] # i

\* The thread of a Subsystem asks a root injector for instances of concrete
\* types that main gets from it before the Subsystem.
MainCreates ==
  /\ \A want \in Dependency : IsDependency(want) => Serves[want.type] = NoThread
  /\ \A t \in Threads \ {main}, i \in Injectors : \A want \in Wanted[t][i] :
       /\ want.how = "REFERENCE" /\ Parent[i] = NoInjector /\ ~Bound(want.type)
       /\ \A T \in Types : Serves[T] = t =>
            /\ want.type \in Ready[T]
            /\ \A j \in Injectors : \A w \in Wanted[main][j] : w.type = T => j = i

Hypotheses == TwoGenerations /\ NullIsNotUsed /\ MainCreates

-----------------------------------------------------------------------------
(* The inductive invariant. *)

Recorded(i) == {invocationList_[i][n] : n \in DOMAIN invocationList_[i]}

\* A is created before B if i creates both.
Before(i, A, B) ==
  \A m, n \in DOMAIN invocationList_[i] :
    invocationList_[i][m] = A /\ invocationList_[i][n] = B => m < n

\* An instance that exists and has its place in the order of destruction.
Settled(x) == x \in alive /\ (x[2] = Self \/ x[2] \in Recorded(x[1]))

\* What the thread of a Subsystem asks for while it runs.
WantedBy(t) ==
  {x \in Instance : [type |-> x[2], how |-> "REFERENCE"] \in Wanted[t][x[1]]}
Fetched(T) == IF Serves[T] = NoThread THEN {} ELSE WantedBy(Serves[T])

\* What an instance must not outlive.
Uses(x) == refs[x] \cup Fetched(x[2])

Found(i, T) == \E j \in Lineage(i) : HasKey(j, T)

\* After has_instance() a frame of get() makes the instance ...
Making(f) ==
  f.at \in {"make", "lock", "find", "recipe", "emplace", "emplaceDefault", "insert",
            "create"}
\* ... which is then there, but not yet recorded.
Made(f) == f.at \in {"release", "record"}
Busy(f) == Injecting(f) \/ f.at = "record"

InProgress(x) ==
  /\ ~Idle(main)
  /\ Top(main).dep = "REFERENCE" /\ Made(Top(main))
  /\ x = <<Top(main).inj, Top(main).type>>

BindsHere(f) == Rules[f.home][f.type].binds

\* A frame by itself.
FramePlace(f) ==
  /\ phase[f.inj] = "alive"
  /\ f.home \in Lineage(f.inj) /\ f.next >= 1
  /\ f.at \in {"has", "upstream", "make", "lock"} => f.home = f.inj /\ ~f.nested
  /\ f.at \in {"has", "upstream", "make", "lock", "find", "emplaceDefault", "create"} =>
       f.args = {}
  /\ f.at = "upstream" => Parent[f.inj] # NoInjector
  /\ f.at \in {"recipe", "emplace", "insert"} => f.type \in recipeMap_[f.home]
  /\ f.at \in {"has", "upstream", "emplace", "insert", "create", "ref"} =>
       f.dep = "REFERENCE"
  /\ f.at = "value" => f.dep = "NEW_VALUE"
  /\ f.at = "insert" => ~BindsHere(f)
  /\ f.at \in {"emplaceDefault", "create"} => f.type \in DefaultInit

FrameTypes(f) ==
  /\ f.dep = "REFERENCE" /\ (f.at = "upstream" \/ Making(f)) =>
       /\ f.type # Self
       /\ (f.at = "emplace" /\ BindsHere(f)) \/ ~HasKey(f.inj, f.type)
  /\ f.dep = "REFERENCE" /\ (Making(f) \/ Made(f)) => f.type \notin Recorded(f.inj) \cup {Self}
  /\ f.dep = "REFERENCE" /\ Made(f) => Found(f.inj, f.type)
  /\ f.at = "emplace" /\ BindsHere(f) => HasKey(f.inj, f.type)

FrameUses(f) ==
  /\ \A y \in f.args : Settled(y) /\ y[1] \in Lineage(f.home)
  /\ \A y \in Fetched(f.type) : Settled(y) /\ y[1] = f.inj /\ Parent[f.inj] = NoInjector

FrameCycle(f) ==
  /\ Busy(f) => f.type \in typeHashStack_[f.inj]
  /\ Injecting(f) => isInCycleCheck_[f.inj]
  /\ f.at = "lock" => ~isInCycleCheck_[f.inj]

FrameInv(f) == FramePlace(f) /\ FrameTypes(f) /\ FrameUses(f) /\ FrameCycle(f)

\* A frame f that a frame g has made, directly or not.
PairInv(f, g) ==
  /\ g.at = "recipe"
  /\ f.inj \in Lineage(g.home)
  /\ Serves[f.type] = NoThread
  /\ Busy(f) => <<f.inj, f.type>> # <<g.inj, g.type>>
  /\ Busy(f) /\ f.inj = g.inj => f.nested

CallsInv ==
  /\ \A n \in DOMAIN calls[main] : FrameInv(calls[main][n])
  /\ \A m, n \in DOMAIN calls[main] : m < n => PairInv(calls[main][m], calls[main][n])

LockInv ==
  \A i \in Injectors : injectionMtx_[i] # NoThread =>
    /\ injectionMtx_[i] = main
    /\ \E n \in DOMAIN calls[main] :
         /\ Injecting(calls[main][n]) /\ ~calls[main][n].nested
         /\ calls[main][n].inj = i

\* The thread of a Subsystem finds what it asks for.
WorkerInv(t) ==
  /\ calls[t] # <<>> =>
       /\ thread[t] \in {"running", "stopping"}
       /\ Len(calls[t]) = 1
       /\ calls[t][1].dep = "REFERENCE" /\ calls[t][1].at \in {"has", "ref"}
       /\ calls[t][1].args = {}
       /\ <<calls[t][1].inj, calls[t][1].type>> \in WantedBy(t)
  /\ holds[t] \subseteq WantedBy(t)
  /\ thread[t] \in {"running", "stopping"} => \E x \in alive : Serves[x[2]] = t

WorkersInv == \A t \in Threads \ {main} : WorkerInv(t)

PhasesInv ==
  /\ \A i \in Injectors : phase[i] = "destroying" => calls[main] = <<>>
  /\ \A i \in Injectors :
       phase[i] # "gone" /\ Parent[i] # NoInjector => phase[Parent[i]] = "alive"
  /\ thread[main] = "running"
  /\ \A i \in Injectors : recipeMap_[i] \subseteq {T \in Types : Rules[i][T] # NoRule}

MapInv ==
  /\ \A i \in Injectors, T \in Types : typeMap_[i][T] = Null => T \in Fragile
  /\ \A i \in Injectors : phase[i] # "gone" => <<i, Self>> \in alive
  /\ \A x \in alive : typeMap_[x[1]][x[2]] = x /\ phase[x[1]] # "gone"
  /\ \A i \in Injectors, T \in Types :
       phase[i] = "alive" /\ typeMap_[i][T] \notin {NoEntry, Null} =>
         typeMap_[i][T] \in alive /\ typeMap_[i][T][1] \in Lineage(i)
  /\ \A i \in Injectors, T \in Types :
       typeMap_[i][T] \in {NoEntry, Null, <<i, T>>} \/ Bound(T)

\* Where an instance is in invocationList_, and what it uses before it.
OrderInv ==
  /\ \A i \in Injectors : Self \notin Recorded(i)
  /\ \A i \in Injectors : phase[i] = "alive" => \A T \in Recorded(i) : Found(i, T)
  /\ \A x \in alive :
       \/ x[2] = Self
       \/ InProgress(x)
       \/ \E n \in DOMAIN invocationList_[x[1]] :
            /\ invocationList_[x[1]][n] = x[2]
            /\ phase[x[1]] = "destroying" => n <= left[x[1]]
  /\ \A x \in Instance : x \notin alive \/ x[2] = Self => refs[x] = {}
  /\ \A x \in alive : \A y \in Uses(x) :
       /\ Settled(y) /\ y # x /\ y[1] \in Lineage(x[1])
       /\ y[1] = x[1] => Before(x[1], y[2], x[2])

\* A frame of a type that a Fragile type is made for is one of a root.
FrameOfRoot(f) ==
  \A i \in Injectors, T \in Fragile :
    DependsOn(i, f.type, T) => Parent[f.inj] = NoInjector

\* Whom a Fragile type is made for.
MadeFor(n) ==
  LET f == calls[main][n]
  IN  f.dep = "REFERENCE" /\ f.type \in Fragile =>
        \/ /\ n = Len(calls[main])
           /\ \A i \in Injectors, U \in Types : ~DependsOn(i, U, f.type)
        \/ \E m \in DOMAIN calls[main] :
             /\ m > n /\ calls[main][m].inj = f.inj
             /\ DependsOn(f.inj, calls[main][m].type, f.type)

\* An exception left U behind as being injected: every call for it throws now.
Clears(f, i, U) == Busy(f) /\ f.inj = i => f.nested /\ f.type # U
Abandoned(i, U) ==
  /\ U \in typeHashStack_[i] /\ isInCycleCheck_[i]
  /\ \A n \in DOMAIN calls[main] : Clears(calls[main][n], i, U)

\* Whoever would use a null pointer is out of use.
NullsInv ==
  /\ \A n \in DOMAIN calls[main] : FrameOfRoot(calls[main][n]) /\ MadeFor(n)
  /\ \A i \in Injectors, T \in Types : typeMap_[i][T] = Null =>
       \A U \in Types : DependsOn(i, U, T) => Abandoned(i, U)

InjectorInv ==
  /\ InjectorTypeOK
  /\ CallsInv
  /\ LockInv
  /\ WorkersInv
  /\ PhasesInv
  /\ MapInv
  /\ OrderInv

-----------------------------------------------------------------------------
(* The stack of calls. *)

LEMMA FramesTyped ==
  ASSUME InjectorTypeOK, NEW t \in Threads
  PROVE  /\ calls[t] \in Seq(Frame)
         /\ Len(calls[t]) \in Nat /\ DOMAIN calls[t] = 1..Len(calls[t])
         /\ \A n \in DOMAIN calls[t] : calls[t][n] \in Frame
         /\ ~Idle(t) => /\ Top(t) = calls[t][1] /\ Top(t) \in Frame
                        /\ 1 \in DOMAIN calls[t] /\ Len(calls[t]) >= 1
  <1>1. calls[t] \in Seq(Frame)
    BY DEF InjectorTypeOK
  <1> QED
    BY <1>1 DEF Idle, Top

Steps == {"has", "upstream", "make", "lock", "find", "recipe", "emplace",
          "emplaceDefault", "insert", "create", "release", "record", "ref", "value"}

\* A frame as it moves on.
LEMMA FrameMoves ==
  ASSUME NEW f \in Frame, NEW step \in Steps
  PROVE  LET g == [f EXCEPT !.at = step]
         IN  /\ g \in Frame /\ g.at = step
             /\ g.inj = f.inj /\ g.type = f.type /\ g.dep = f.dep /\ g.home = f.home
             /\ g.nested = f.nested /\ g.next = f.next /\ g.args = f.args
  BY DEF Frame, Steps

LEMMA GotoStack ==
  ASSUME InjectorTypeOK, NEW t \in Threads, ~Idle(t), NEW f \in Frame, Goto(t, f)
  PROVE  /\ calls' \in [Threads -> Seq(Frame)]
         /\ calls'[t] # <<>> /\ Len(calls'[t]) = Len(calls[t])
         /\ DOMAIN calls'[t] = DOMAIN calls[t]
         /\ Head(calls'[t]) = f /\ calls'[t][1] = f
         /\ \A n \in DOMAIN calls[t] : n > 1 => calls'[t][n] = calls[t][n]
         /\ \A u \in Threads \ {t} : calls'[u] = calls[u]
  <1> DEFINE s == calls[t]
  <1>1. s \in Seq(Frame) /\ s # <<>>
    BY FramesTyped DEF Idle
  <1>2. Tail(s) \in Seq(Frame) /\ Len(Tail(s)) = Len(s) - 1
        /\ \A n \in 1..Len(Tail(s)) : Tail(s)[n] = s[n + 1]
    BY <1>1
  <1>3. <<f>> \in Seq(Frame) /\ Len(<<f>>) = 1 /\ <<f>>[1] = f
    OBVIOUS
  <1>4. /\ <<f>> \o Tail(s) \in Seq(Frame) /\ Len(<<f>> \o Tail(s)) = Len(s)
        /\ (<<f>> \o Tail(s))[1] = f
        /\ \A n \in 2..Len(s) : (<<f>> \o Tail(s))[n] = s[n]
    BY <1>1, <1>2, <1>3
  <1>5. calls' = [calls EXCEPT ![t] = <<f>> \o Tail(s)]
    BY DEF Goto
  <1>6. calls'[t] = <<f>> \o Tail(s) /\ \A u \in Threads \ {t} : calls'[u] = calls[u]
    BY <1>5 DEF InjectorTypeOK
  <1>7. calls' \in [Threads -> Seq(Frame)]
    BY <1>4, <1>5 DEF InjectorTypeOK
  <1> HIDE DEF s
  <1>8. calls'[t] # <<>> /\ DOMAIN calls'[t] = 1..Len(s) /\ Head(calls'[t]) = calls'[t][1]
    BY <1>1, <1>4, <1>6
  <1> QED
    BY <1>1, <1>4, <1>6, <1>7, <1>8 DEF s

LEMMA PushStack ==
  ASSUME InjectorTypeOK, NEW t \in Threads, NEW f \in Frame,
         calls' = [calls EXCEPT ![t] = <<f>> \o @]
  PROVE  /\ calls' \in [Threads -> Seq(Frame)]
         /\ calls'[t] # <<>> /\ Len(calls'[t]) = Len(calls[t]) + 1
         /\ DOMAIN calls'[t] = 1..Len(calls[t]) + 1
         /\ Head(calls'[t]) = f /\ calls'[t][1] = f
         /\ \A n \in DOMAIN calls[t] : calls'[t][n + 1] = calls[t][n]
         /\ \A u \in Threads \ {t} : calls'[u] = calls[u]
  <1> DEFINE s == calls[t]
  <1>1. s \in Seq(Frame)
    BY FramesTyped
  <1>2. <<f>> \in Seq(Frame) /\ Len(<<f>>) = 1 /\ <<f>>[1] = f
    OBVIOUS
  <1>3. /\ <<f>> \o s \in Seq(Frame) /\ Len(<<f>> \o s) = Len(s) + 1
        /\ (<<f>> \o s)[1] = f
        /\ \A n \in 1..Len(s) : (<<f>> \o s)[n + 1] = s[n]
    BY <1>1, <1>2
  <1>4. calls' = [calls EXCEPT ![t] = <<f>> \o s]
    OBVIOUS
  <1>5. calls'[t] = <<f>> \o s /\ \A u \in Threads \ {t} : calls'[u] = calls[u]
    BY <1>4 DEF InjectorTypeOK
  <1>6. calls' \in [Threads -> Seq(Frame)]
    BY <1>3, <1>4 DEF InjectorTypeOK
  <1> HIDE DEF s
  <1>7. calls'[t] # <<>> /\ DOMAIN calls'[t] = 1..Len(s) + 1 /\ Head(calls'[t]) = calls'[t][1]
    BY <1>1, <1>3, <1>5
  <1> QED
    BY <1>1, <1>3, <1>5, <1>6, <1>7 DEF s

LEMMA EmptyStack ==
  ASSUME InjectorTypeOK, NEW t \in Threads, calls' = [calls EXCEPT ![t] = <<>>]
  PROVE  /\ calls' \in [Threads -> Seq(Frame)]
         /\ calls'[t] = <<>> /\ DOMAIN calls'[t] = {}
         /\ \A u \in Threads \ {t} : calls'[u] = calls[u]
  BY DEF InjectorTypeOK

\* What the caller's frame becomes when a call returns.
Resumed(caller, result) ==
  [caller EXCEPT !.next = @ + 1, !.args = @ \cup result]

LEMMA FrameResumes ==
  ASSUME NEW f \in Frame, NEW result \in SUBSET (Instance \cup {Null})
  PROVE  /\ Resumed(f, result) \in Frame
         /\ Resumed(f, result).inj = f.inj /\ Resumed(f, result).type = f.type
         /\ Resumed(f, result).dep = f.dep /\ Resumed(f, result).at = f.at
         /\ Resumed(f, result).home = f.home /\ Resumed(f, result).nested = f.nested
         /\ Resumed(f, result).next = f.next + 1
         /\ Resumed(f, result).args = f.args \cup result
  <1>1. f.args \cup result \in SUBSET (Instance \cup {Null}) /\ f.next + 1 \in Nat
    BY DEF Frame
  <1> DEFINE n == f.next + 1
             a == f.args \cup result
  <1>2. Resumed(f, result) = [f EXCEPT !.next = n, !.args = a]
    BY DEF Resumed
  <1>3. n \in Nat /\ a \in SUBSET (Instance \cup {Null})
    BY <1>1
  <1> HIDE DEF n, a
  <1>4. Resumed(f, result) \in Frame
    BY <1>2, <1>3 DEF Frame
  <1>5. /\ Resumed(f, result).inj = f.inj /\ Resumed(f, result).type = f.type
        /\ Resumed(f, result).dep = f.dep /\ Resumed(f, result).at = f.at
        /\ Resumed(f, result).home = f.home /\ Resumed(f, result).nested = f.nested
        /\ Resumed(f, result).next = n
        /\ Resumed(f, result).args = a
    BY <1>2, <1>3 DEF Frame
  <1> QED
    BY <1>4, <1>5 DEF n, a

LEMMA ReturnStack ==
  ASSUME InjectorTypeOK, NEW t \in Threads, ~Idle(t), Len(calls[t]) # 1,
         NEW result \in SUBSET (Instance \cup {Null}), Return(t, result)
  PROVE  /\ calls' \in [Threads -> Seq(Frame)]
         /\ 2 \in DOMAIN calls[t] /\ Resumed(calls[t][2], result) \in Frame
         /\ calls'[t] # <<>> /\ Len(calls'[t]) = Len(calls[t]) - 1
         /\ DOMAIN calls'[t] = 1..Len(calls[t]) - 1
         /\ calls'[t][1] = Resumed(calls[t][2], result)
         /\ Head(calls'[t]) = calls'[t][1]
         /\ \A n \in DOMAIN calls'[t] : n > 1 => calls'[t][n] = calls[t][n + 1]
         /\ \A u \in Threads \ {t} : calls'[u] = calls[u]
         /\ UNCHANGED holds
  <1> DEFINE s == calls[t]
             r == Resumed(calls[t][2], result)
  <1>1. s \in Seq(Frame) /\ s # <<>> /\ Len(s) \in Nat /\ Len(s) >= 2 /\ 2 \in DOMAIN s
    <2>1. s \in Seq(Frame) /\ Len(s) \in Nat /\ DOMAIN s = 1..Len(s) /\ Len(s) >= 1
      BY FramesTyped
    <2>2. s # <<>>
      BY DEF Idle
    <2>3. Len(s) # 1
      OBVIOUS
    <2> HIDE DEF s
    <2>4. Len(s) >= 2 /\ 2 \in 1..Len(s)
      BY <2>1, <2>3
    <2> QED
      BY <2>1, <2>2, <2>4
  <1>2. s[2] \in Frame
    BY <1>1
  <1>3. r \in Frame
    BY <1>2, FrameResumes
  <1>4. calls' = [calls EXCEPT ![t] = <<r>> \o SubSeq(s, 3, Len(s))] /\ UNCHANGED holds
    BY <1>1 DEF Return, Resumed
  <1> HIDE DEF r
  <1>5. /\ SubSeq(s, 3, Len(s)) \in Seq(Frame) /\ Len(SubSeq(s, 3, Len(s))) = Len(s) - 2
        /\ \A n \in 1..Len(s) - 2 : SubSeq(s, 3, Len(s))[n] = s[n + 2]
    BY <1>1
  <1>6. <<r>> \in Seq(Frame) /\ Len(<<r>>) = 1 /\ <<r>>[1] = r
    BY <1>3
  <1> DEFINE q == SubSeq(s, 3, Len(s))
  <1> HIDE DEF q
  <1>7. /\ <<r>> \o q \in Seq(Frame) /\ Len(<<r>> \o q) = Len(s) - 1
        /\ (<<r>> \o q)[1] = r
        /\ \A n \in 2..Len(s) - 1 : (<<r>> \o q)[n] = s[n + 1]
    <2>1. q \in Seq(Frame) /\ Len(q) = Len(s) - 2
          /\ \A n \in 1..Len(s) - 2 : q[n] = s[n + 2]
      BY <1>5 DEF q
    <2>2. <<r>> \o q \in Seq(Frame) /\ Len(<<r>> \o q) = Len(s) - 1 /\ (<<r>> \o q)[1] = r
      BY <2>1, <1>1, <1>6
    <2>3. ASSUME NEW n \in 2..Len(s) - 1 PROVE (<<r>> \o q)[n] = s[n + 1]
      <3>1. (<<r>> \o q)[n] = q[n - 1] /\ n - 1 \in 1..Len(s) - 2
        BY <2>1, <1>1, <1>6
      <3> QED
        BY <3>1, <2>1, <1>1
    <2> QED
      BY <2>2, <2>3
  <1>8. calls'[t] = <<r>> \o q /\ \A u \in Threads \ {t} : calls'[u] = calls[u]
    BY <1>4 DEF InjectorTypeOK, q
  <1>9. calls' \in [Threads -> Seq(Frame)]
    BY <1>4, <1>7 DEF InjectorTypeOK, q
  <1> HIDE DEF s
  <1>10. calls'[t] # <<>> /\ DOMAIN calls'[t] = 1..Len(s) - 1 /\ Head(calls'[t]) = calls'[t][1]
    BY <1>1, <1>7, <1>8
  <1> QED
    BY <1>1, <1>3, <1>4, <1>7, <1>8, <1>9, <1>10 DEF s, r

-----------------------------------------------------------------------------
(* The constants. *)

LEMMA ConstantsFit ==
  /\ main \in Threads /\ Self \in Types
  /\ NoThread \notin Threads /\ Serves[Self] = NoThread
  /\ NoEntry \notin Instance /\ Null \notin Instance /\ NoEntry # Null
  /\ \A x \in Instance : x = <<x[1], x[2]>> /\ x[1] \in Injectors /\ x[2] \in Types
  /\ \A i \in Injectors, T \in Types : <<i, T>> \in Instance
  /\ \A i \in Injectors : Lineage(i) \subseteq Injectors /\ i \in Lineage(i)
  /\ \A i \in Injectors : Parent[i] # NoInjector => Parent[i] \in Lineage(i)
  /\ \A i \in Injectors, T \in Types : Rules[i][T] # NoRule =>
       /\ Rules[i][T] \in Recipe /\ Rules[i][T].binds \in BOOLEAN
       /\ Rules[i][T].deps \in Seq(Dependency)
  /\ \A T \in Types : Fetched(T) \subseteq Instance
  /\ \A T \in Types : Serves[T] \in (Threads \ {main}) \cup {NoThread}
  /\ \A want \in Dependency :
       want.type \in Types /\ want.how \in {"REFERENCE", "NEW_VALUE"}
       /\ want = [type |-> want.type, how |-> want.how]
  <1> USE InjectorAssumption
  <1>1. /\ main \in Threads /\ Self \in Types
        /\ NoThread \notin Threads /\ Serves[Self] = NoThread
        /\ \A T \in Types : Serves[T] \in (Threads \ {main}) \cup {NoThread}
    OBVIOUS
  <1>2. NoEntry \notin Instance /\ Null \notin Instance /\ NoEntry # Null
    BY DEF Instance
  <1>3. /\ \A x \in Instance : x = <<x[1], x[2]>> /\ x[1] \in Injectors /\ x[2] \in Types
        /\ \A i \in Injectors, T \in Types : <<i, T>> \in Instance
    BY DEF Instance
  <1>4. /\ \A i \in Injectors : Lineage(i) \subseteq Injectors /\ i \in Lineage(i)
        /\ \A i \in Injectors : Parent[i] # NoInjector => Parent[i] \in Lineage(i)
    BY DEF Lineage
  <1>5. \A i \in Injectors, T \in Types : Rules[i][T] # NoRule =>
          /\ Rules[i][T] \in Recipe /\ Rules[i][T].binds \in BOOLEAN
          /\ Rules[i][T].deps \in Seq(Dependency)
    BY DEF Recipe
  <1>6. \A T \in Types : Fetched(T) \subseteq Instance
    BY DEF Fetched, WantedBy
  <1>7. \A want \in Dependency :
          want.type \in Types /\ want.how \in {"REFERENCE", "NEW_VALUE"}
          /\ want = [type |-> want.type, how |-> want.how]
    BY DEF Dependency
  <1> QED
    BY <1>1, <1>2, <1>3, <1>4, <1>5, <1>6, <1>7

\* With two generations an injector's parent is a root.
LEMMA Lineages ==
  ASSUME TwoGenerations, NEW i \in Injectors, NEW j \in Lineage(i)
  PROVE  /\ Lineage(j) \subseteq Lineage(i)
         /\ i \in Lineage(j) => i = j
         /\ j # i => j = Parent[i] /\ Lineage(j) = {j}
  BY InjectorAssumption DEF Lineage, TwoGenerations

-----------------------------------------------------------------------------
(* What a step changes in the stack of main, and what the invariant needs to   *)
(* know of it.                                                                 *)

LEMMA CallsGoto ==
  ASSUME InjectorTypeOK, CallsInv, ~Idle(main), NEW f \in Frame, Goto(main, f),
         FrameInv(f)',
         \A g \in Frame : FrameInv(g) /\ PairInv(Top(main), g) => FrameInv(g)',
         \A g \in Frame : FrameInv(g) /\ PairInv(Top(main), g) => PairInv(f, g)
  PROVE  CallsInv'
  <1> USE ConstantsFit
  <1>1. /\ calls'[main][1] = f /\ DOMAIN calls'[main] = DOMAIN calls[main]
        /\ \A n \in DOMAIN calls[main] : n > 1 => calls'[main][n] = calls[main][n]
        /\ DOMAIN calls[main] = 1..Len(calls[main]) /\ Len(calls[main]) \in Nat
        /\ 1 \in DOMAIN calls[main] /\ Top(main) = calls[main][1]
        /\ \A n \in DOMAIN calls[main] : calls[main][n] \in Frame
    BY GotoStack, FramesTyped
  <1>2. ASSUME NEW n \in DOMAIN calls'[main]
        PROVE  FrameInv(calls[main][n]) /\ calls'[main][n] \in Frame
    BY <1>1 DEF CallsInv
  <1>3. ASSUME NEW n \in DOMAIN calls'[main], NEW g \in Frame, g = calls'[main][n]
        PROVE  FrameInv(g)'
    <2>1. CASE n = 1
      <3>1. g = f
        BY <1>1, <1>3, <2>1
      <3> QED
        BY <3>1
    <2>2. CASE n # 1
      <3>1. n > 1 /\ n \in DOMAIN calls[main]
        BY <1>1, <2>2
      <3>2. PairInv(Top(main), calls[main][n]) /\ FrameInv(calls[main][n])
        BY <1>1, <3>1 DEF CallsInv
      <3>3. g = calls[main][n]
        BY <1>1, <1>3, <3>1
      <3> QED
        BY <3>2, <3>3
    <2> QED
      BY <2>1, <2>2
  <1>4. ASSUME NEW m \in DOMAIN calls'[main], NEW n \in DOMAIN calls'[main], m < n
        PROVE  PairInv(calls'[main][m], calls'[main][n])
    <2>1. n > 1 /\ m \in DOMAIN calls[main] /\ n \in DOMAIN calls[main] /\ m >= 1
      BY <1>1, <1>4
    <2>2. /\ calls'[main][n] = calls[main][n] /\ PairInv(Top(main), calls[main][n])
          /\ FrameInv(calls[main][n])
      BY <1>1, <2>1 DEF CallsInv
    <2>3. CASE m = 1
      BY <1>1, <2>1, <2>2, <2>3
    <2>4. CASE m # 1
      <3>1. calls'[main][m] = calls[main][m]
        BY <1>1, <2>1, <2>4
      <3> QED
        BY <3>1, <2>1, <2>2, <1>4 DEF CallsInv
    <2> QED
      BY <2>3, <2>4
  <1> QED
    BY <1>2, <1>3, <1>4 DEF CallsInv

LEMMA CallsPush ==
  ASSUME InjectorTypeOK, CallsInv, ~Idle(main), NEW f \in Frame,
         calls' = [calls EXCEPT ![main] = <<f>> \o @],
         FrameInv(f)',
         \A g \in Frame : FrameInv(g) => FrameInv(g)',
         PairInv(f, Top(main)),
         \A g \in Frame : PairInv(Top(main), g) => PairInv(f, g)
  PROVE  CallsInv'
  <1> USE ConstantsFit
  <1>1. /\ calls'[main][1] = f /\ DOMAIN calls'[main] = 1..Len(calls[main]) + 1
        /\ \A n \in DOMAIN calls[main] : calls'[main][n + 1] = calls[main][n]
        /\ DOMAIN calls[main] = 1..Len(calls[main]) /\ Len(calls[main]) \in Nat
        /\ 1 \in DOMAIN calls[main] /\ Top(main) = calls[main][1]
        /\ \A n \in DOMAIN calls[main] : calls[main][n] \in Frame
    BY PushStack, FramesTyped
  <1>2. ASSUME NEW n \in DOMAIN calls'[main], n # 1
        PROVE  /\ n - 1 \in DOMAIN calls[main] /\ calls'[main][n] = calls[main][n - 1]
               /\ FrameInv(calls[main][n - 1]) /\ PairInv(f, calls[main][n - 1])
    <2>1. n - 1 \in DOMAIN calls[main] /\ (n - 1) + 1 = n
      BY <1>1, <1>2
    <2>2. calls'[main][n] = calls[main][n - 1]
      BY <1>1, <2>1
    <2>3. FrameInv(calls[main][n - 1])
      BY <2>1 DEF CallsInv
    <2>4. CASE n - 1 = 1
      BY <1>1, <2>1, <2>2, <2>3, <2>4
    <2>5. CASE n - 1 # 1
      <3>1. 1 < n - 1
        BY <1>1, <2>1, <2>5
      <3>2. PairInv(Top(main), calls[main][n - 1])
        BY <1>1, <2>1, <3>1 DEF CallsInv
      <3> QED
        BY <1>1, <2>1, <2>2, <2>3, <3>2
    <2> QED
      BY <2>4, <2>5
  <1>3. ASSUME NEW n \in DOMAIN calls'[main], NEW g \in Frame, g = calls'[main][n]
        PROVE  FrameInv(g)'
    <2>1. CASE n = 1
      <3>1. g = f
        BY <1>1, <1>3, <2>1
      <3> QED
        BY <3>1
    <2>2. CASE n # 1
      <3>1. FrameInv(g)
        BY <1>2, <1>3, <2>2
      <3> QED
        BY <3>1
    <2> QED
      BY <2>1, <2>2
  <1>4. \A n \in DOMAIN calls'[main] : calls'[main][n] \in Frame
    BY <1>1, <1>2
  <1>5. ASSUME NEW m \in DOMAIN calls'[main], NEW n \in DOMAIN calls'[main], m < n
        PROVE  PairInv(calls'[main][m], calls'[main][n])
    <2>1. n # 1
      BY <1>1, <1>5
    <2>2. CASE m = 1
      BY <1>1, <1>2, <2>1, <2>2
    <2>3. CASE m # 1
      <3>1. m - 1 < n - 1
        BY <1>1, <1>5
      <3> QED
        BY <1>2, <2>1, <2>3, <3>1 DEF CallsInv
    <2> QED
      BY <2>2, <2>3
  <1> QED
    BY <1>3, <1>4, <1>5 DEF CallsInv

\* The last call returns, or all of them are given up.
LEMMA CallsEmpty ==
  ASSUME InjectorTypeOK, calls' = [calls EXCEPT ![main] = <<>>]
  PROVE  CallsInv'
  BY EmptyStack, ConstantsFit DEF CallsInv

LEMMA CallsReturn ==
  ASSUME InjectorTypeOK, CallsInv, ~Idle(main), Len(calls[main]) # 1,
         NEW result \in SUBSET (Instance \cup {Null}), Return(main, result),
         \A g \in Frame : FrameInv(g) => FrameInv(g)',
         FrameInv(Resumed(calls[main][2], result))
  PROVE  CallsInv'
  <1> USE ConstantsFit
  <1>1. /\ DOMAIN calls'[main] = 1..Len(calls[main]) - 1
        /\ 2 \in DOMAIN calls[main] /\ Resumed(calls[main][2], result) \in Frame
        /\ calls'[main][1] = Resumed(calls[main][2], result)
        /\ \A n \in DOMAIN calls'[main] : n > 1 => calls'[main][n] = calls[main][n + 1]
        /\ DOMAIN calls[main] = 1..Len(calls[main]) /\ Len(calls[main]) \in Nat
        /\ \A n \in DOMAIN calls[main] : calls[main][n] \in Frame
    BY ReturnStack, FramesTyped
  <1>2. ASSUME NEW n \in DOMAIN calls'[main]
        PROVE  /\ n + 1 \in DOMAIN calls[main]
               /\ n # 1 => calls'[main][n] = calls[main][n + 1]
               /\ FrameInv(calls[main][n + 1])
    BY <1>1 DEF CallsInv
  <1>3. ASSUME NEW n \in DOMAIN calls'[main], NEW g \in Frame, g = calls'[main][n]
        PROVE  FrameInv(g)'
    <2>1. FrameInv(g)
      BY <1>1, <1>2, <1>3
    <2> QED
      BY <2>1
  <1>4. \A n \in DOMAIN calls'[main] : calls'[main][n] \in Frame
    BY <1>1, <1>2
  <1>5. ASSUME NEW m \in DOMAIN calls'[main], NEW n \in DOMAIN calls'[main], m < n
        PROVE  PairInv(calls'[main][m], calls'[main][n])
    <2>1. n # 1 /\ m + 1 < n + 1
      BY <1>1, <1>5
    <2>2. PairInv(calls[main][m + 1], calls[main][n + 1])
      BY <1>2, <2>1 DEF CallsInv
    <2>3. CASE m # 1
      BY <1>2, <2>1, <2>2, <2>3
    <2>4. CASE m = 1
      <3>1. calls[main][2] \in Frame /\ calls[main][m + 1] = calls[main][2]
        BY <1>1, <2>4
      <3>2. PairInv(Resumed(calls[main][2], result), calls[main][n + 1])
        BY <2>2, <3>1, FrameResumes DEF PairInv, Busy, Injecting
      <3> QED
        BY <1>1, <1>2, <2>1, <2>4, <3>2
    <2> QED
      BY <2>3, <2>4
  <1> QED
    BY <1>3, <1>4, <1>5 DEF CallsInv

-----------------------------------------------------------------------------
(* Steps of main that change no instance. *)

StillLife == UNCHANGED <<instanceVars, recipeMap_, invocationList_, lifeVars>>

OthersIdle == \A t \in Threads \ {main} : calls'[t] = calls[t] /\ holds'[t] = holds[t]

LEMMA OrderKept ==
  ASSUME OrderInv, UNCHANGED <<typeMap_, alive, refs, invocationList_, phase, left>>,
         \A x \in alive : InProgress(x) => InProgress(x)'
  PROVE  OrderInv'
  BY DEF OrderInv, Recorded, Found, HasKey, Uses, Settled, Before

LEMMA LifeKept ==
  ASSUME InjectorInv, ~Idle(main), StillLife, OthersIdle,
         \A x \in alive : InProgress(x) => InProgress(x)'
  PROVE  WorkersInv' /\ PhasesInv' /\ MapInv' /\ OrderInv'
  <1> USE DEF StillLife, instanceVars, lifeVars
  <1>1. WorkersInv'
    BY DEF InjectorInv, WorkersInv, WorkerInv, OthersIdle
  <1>2. PhasesInv'
    BY DEF InjectorInv, PhasesInv, Idle
  <1>3. MapInv'
    BY DEF InjectorInv, MapInv, HasKey
  <1>4. OrderInv'
    BY OrderKept DEF InjectorInv
  <1> QED
    BY <1>1, <1>2, <1>3, <1>4

LEMMA TypesKept ==
  ASSUME InjectorTypeOK, StillLife, calls' \in [Threads -> Seq(Frame)],
         holds' \in [Threads -> SUBSET (Instance \cup {Null})],
         typeHashStack_' \in [Injectors -> SUBSET Types],
         isInCycleCheck_' \in [Injectors -> BOOLEAN],
         injectionMtx_' \in [Injectors -> Threads \cup {NoThread}],
         \A i \in Injectors : injectionMtx_'[i] # NoThread => calls'[injectionMtx_'[i]] # <<>>
  PROVE  InjectorTypeOK'
  BY DEF InjectorTypeOK, StillLife, instanceVars, lifeVars

\* The frame that holds a lock is still there.
LEMMA LockGoto ==
  ASSUME InjectorTypeOK, LockInv, ~Idle(main), NEW f \in Frame, Goto(main, f),
         UNCHANGED injectionMtx_,
         Injecting(Top(main)) /\ ~Top(main).nested =>
           Injecting(f) /\ ~f.nested /\ f.inj = Top(main).inj
  PROVE  /\ LockInv'
         /\ \A i \in Injectors : injectionMtx_'[i] # NoThread => calls'[injectionMtx_'[i]] # <<>>
  <1> USE ConstantsFit
  <1>1. /\ calls'[main][1] = f /\ DOMAIN calls'[main] = DOMAIN calls[main]
        /\ \A n \in DOMAIN calls[main] : n > 1 => calls'[main][n] = calls[main][n]
        /\ DOMAIN calls[main] = 1..Len(calls[main]) /\ Len(calls[main]) \in Nat
        /\ Top(main) = calls[main][1] /\ calls'[main] # <<>>
    BY GotoStack, FramesTyped
  <1>2. ASSUME NEW i \in Injectors, injectionMtx_'[i] # NoThread
        PROVE  /\ injectionMtx_'[i] = main
               /\ \E n \in DOMAIN calls'[main] :
                    /\ Injecting(calls'[main][n]) /\ ~calls'[main][n].nested
                    /\ calls'[main][n].inj = i
    <2>1. injectionMtx_[i] = main
      BY <1>2 DEF LockInv
    <2>2. PICK n \in DOMAIN calls[main] : /\ Injecting(calls[main][n]) /\ ~calls[main][n].nested
                                          /\ calls[main][n].inj = i
      BY <1>2 DEF LockInv
    <2>3. CASE n = 1
      BY <1>1, <2>1, <2>2, <2>3
    <2>4. CASE n # 1
      <3>1. calls'[main][n] = calls[main][n]
        BY <1>1, <2>4
      <3> QED
        BY <1>1, <2>1, <2>2, <3>1
    <2> QED
      BY <2>3, <2>4
  <1>3. LockInv'
    BY <1>2 DEF LockInv, Injecting
  <1> QED
    BY <1>1, <1>2, <1>3

Undisturbed == StillLife /\ UNCHANGED <<cycleVars, holds>>

LEMMA FramesUndisturbed ==
  ASSUME StillLife, UNCHANGED cycleVars, NEW f, FrameInv(f)
  PROVE  FrameInv(f)'
  BY DEF StillLife, instanceVars, lifeVars, cycleVars, FrameInv, FramePlace, FrameTypes,
         FrameUses, FrameCycle, HasKey, Recorded, Found, Settled, BindsHere

LEMMA QuietGoto ==
  ASSUME InjectorInv, ~Idle(main), NEW f \in Frame, Goto(main, f), Undisturbed,
         FrameInv(f),
         \A g \in Frame : PairInv(Top(main), g) => PairInv(f, g),
         ~Made(Top(main)),
         Injecting(Top(main)) /\ ~Top(main).nested =>
           Injecting(f) /\ ~f.nested /\ f.inj = Top(main).inj
  PROVE  InjectorInv'
  <1> USE DEF Undisturbed, cycleVars
  <1>1. OthersIdle
    BY GotoStack, ConstantsFit DEF OthersIdle, InjectorInv
  <1>2. \A x \in alive : ~InProgress(x)
    BY DEF InProgress
  <1>3. WorkersInv' /\ PhasesInv' /\ MapInv' /\ OrderInv'
    BY <1>1, <1>2, LifeKept
  <1>4. LockInv' /\ \A i \in Injectors : injectionMtx_'[i] # NoThread
                                         => calls'[injectionMtx_'[i]] # <<>>
    BY LockGoto DEF InjectorInv
  <1>5. InjectorTypeOK'
    BY <1>4, TypesKept, GotoStack, ConstantsFit DEF InjectorInv, InjectorTypeOK
  <1>6. CallsInv'
    BY CallsGoto, FramesUndisturbed DEF InjectorInv
  <1> QED
    BY <1>3, <1>4, <1>5, <1>6 DEF InjectorInv

LEMMA TopFits ==
  ASSUME InjectorInv, ~Idle(main)
  PROVE  Top(main) \in Frame /\ FrameInv(Top(main))
  <1>1. Top(main) = calls[main][1] /\ Top(main) \in Frame /\ 1 \in DOMAIN calls[main]
    BY FramesTyped, ConstantsFit DEF InjectorInv
  <1> QED
    BY <1>1 DEF InjectorInv, CallsInv

LEMMA QuietProceed ==
  ASSUME InjectorInv, ~Idle(main), NEW step \in Steps, Proceed(main, step), Undisturbed,
         FrameInv([Top(main) EXCEPT !.at = step]),
         ~Made(Top(main)), step # "record",
         step \in {"find", "recipe", "emplace", "emplaceDefault", "insert", "create", "release"}
           <=> Injecting(Top(main))
  PROVE  InjectorInv'
  <1> DEFINE f == [Top(main) EXCEPT !.at = step]
  <1>1. Top(main) \in Frame
    BY TopFits
  <1>2. /\ f \in Frame /\ f.at = step
        /\ f.inj = Top(main).inj /\ f.type = Top(main).type /\ f.nested = Top(main).nested
        /\ f.dep = Top(main).dep
    BY <1>1, FrameMoves
  <1>3. Goto(main, f) /\ FrameInv(f)
    BY DEF Proceed
  <1> HIDE DEF f
  <1>4. Injecting(f) <=> Injecting(Top(main))
    BY <1>2 DEF Injecting
  <1>5. ASSUME NEW g \in Frame, PairInv(Top(main), g)
        PROVE  PairInv(f, g)
    BY <1>2, <1>4, <1>5 DEF PairInv, Busy
  <1> QED
    BY <1>2, <1>3, <1>4, <1>5, QuietGoto

\* Each injector has itself as an instance.
LEMMA SelfIsThere ==
  ASSUME InjectorInv, NEW i \in Injectors, phase[i] # "gone"
  PROVE  HasKey(i, Self)
  <1> DEFINE x == <<i, Self>>
  <1>1. x \in alive /\ x[1] = i /\ x[2] = Self
    BY DEF InjectorInv, MapInv
  <1>2. typeMap_[i][Self] = x
    BY <1>1 DEF InjectorInv, MapInv
  <1>3. x # NoEntry
    BY ConstantsFit
  <1> QED
    BY <1>2, <1>3 DEF HasKey

LEMMA HasInstanceKeeps ==
  ASSUME InjectorInv, Hypotheses, HasInstance(main)
  PROVE  InjectorInv'
  <1> DEFINE f == Top(main)
  <1> USE ConstantsFit
  <1>1. ~Idle(main) /\ f.at = "has" /\ Undisturbed
    <2>1. ~Idle(main) /\ f.at = "has"
      BY DEF HasInstance, At, Top
    <2>2. Undisturbed
      BY DEF HasInstance, Undisturbed, StillLife
    <2> QED
      BY <2>1, <2>2
  <1>2. f \in Frame /\ FrameInv(f)
    BY <1>1, TopFits
  <1> DEFINE g(step) == [f EXCEPT !.at = step]
  <1>3. \A step \in Steps :
          /\ g(step) \in Frame /\ g(step).at = step
          /\ g(step).inj = f.inj /\ g(step).type = f.type /\ g(step).dep = f.dep
          /\ g(step).home = f.home /\ g(step).args = f.args /\ g(step).next = f.next
          /\ g(step).nested = f.nested
    BY <1>2, FrameMoves
  <1>4. f.inj \in Injectors /\ f.type \in Types
    BY <1>2 DEF Frame
  <1> HIDE DEF g
  <1>5. CASE HasKey(f.inj, f.type)
    <2>1. Proceed(main, "ref")
      BY <1>5 DEF HasInstance
    <2>2. FrameInv(g("ref"))
      BY <1>1, <1>2, <1>3
      DEF Steps, FrameInv, FramePlace, FrameTypes, FrameUses, FrameCycle, Making, Made,
          Busy, Injecting
    <2> QED
      BY <1>1, <2>1, <2>2, QuietProceed DEF Steps, Made, Injecting, g
  <1>6. CASE ~HasKey(f.inj, f.type)
    <2>1. f.type # Self
      BY <1>2, <1>4, <1>6, SelfIsThere DEF FrameInv, FramePlace
    <2>2. CASE Parent[f.inj] = NoInjector
      <3>1. Proceed(main, "make")
        BY <1>6, <2>2 DEF HasInstance
      <3>2. f.type \notin Recorded(f.inj)
        BY <1>2, <1>4, <1>6, <2>2 DEF FrameInv, FramePlace, InjectorInv, OrderInv, Found, Lineage
      <3>3. FrameInv(g("make"))
        BY <1>1, <1>2, <1>3, <1>6, <2>1, <3>2
        DEF Steps, FrameInv, FramePlace, FrameTypes, FrameUses, FrameCycle, Making, Made,
            Busy, Injecting, HasKey
      <3> QED
        BY <1>1, <3>1, <3>3, QuietProceed DEF Steps, Made, Injecting, g
    <2>3. CASE Parent[f.inj] # NoInjector
      <3>1. Proceed(main, "upstream")
        BY <1>6, <2>3 DEF HasInstance
      <3>2. FrameInv(g("upstream"))
        BY <1>1, <1>2, <1>3, <1>6, <2>1, <2>3
        DEF Steps, FrameInv, FramePlace, FrameTypes, FrameUses, FrameCycle, Making, Made,
            Busy, Injecting, HasKey
      <3> QED
        BY <1>1, <3>1, <3>2, QuietProceed DEF Steps, Made, Injecting, g
    <2> QED
      BY <2>2, <2>3
  <1> QED
    BY <1>5, <1>6

LEMMA AskUpstreamKeeps ==
  ASSUME InjectorInv, Hypotheses, AskUpstream(main)
  PROVE  InjectorInv'
  <1> DEFINE f == Top(main)
             g(step) == [f EXCEPT !.at = step]
  <1> USE ConstantsFit
  <1>1. ~Idle(main) /\ f.at = "upstream"
    BY DEF AskUpstream, At, Top
  <1>2. f \in Frame /\ FrameInv(f)
    BY <1>1, TopFits
  <1>3. \A step \in Steps :
          /\ g(step) \in Frame /\ g(step).at = step
          /\ g(step).inj = f.inj /\ g(step).type = f.type /\ g(step).dep = f.dep
          /\ g(step).home = f.home /\ g(step).args = f.args /\ g(step).next = f.next
          /\ g(step).nested = f.nested
    BY <1>2, FrameMoves
  <1>4. f.inj \in Injectors /\ f.type \in Types /\ f.home \in Injectors
    BY <1>2 DEF Frame
  <1> HIDE DEF g
  <1>5. Undisturbed
    BY DEF AskUpstream, Undisturbed, StillLife
  <1>6. /\ Parent[f.inj] # NoInjector /\ Parent[f.inj] \in Injectors
        /\ Parent[f.inj] \in Lineage(f.inj) /\ phase[f.inj] = "alive" /\ f.dep = "REFERENCE"
    BY <1>1, <1>2, <1>4, InjectorAssumption DEF FrameInv, FramePlace
  <1>7. CASE HasKey(Parent[f.inj], f.type)
    <2> DEFINE c == Call(Parent[f.inj], f.type, "REFERENCE")
    <2>1. Goto(main, c)
      BY <1>7 DEF AskUpstream
    <2>2. /\ c \in Frame /\ c.inj = Parent[f.inj] /\ c.type = f.type /\ c.dep = "REFERENCE"
          /\ c.at = "has" /\ c.home = Parent[f.inj] /\ c.args = {} /\ c.next = 1
          /\ ~c.nested
      BY <1>4, <1>6 DEF Call, Frame
    <2> HIDE DEF c
    <2>3. FrameInv(c)
      <3>1. phase[c.inj] = "alive"
        BY <1>4, <1>6, <2>2 DEF InjectorInv, PhasesInv
      <3>2. Fetched(c.type) = {}
        BY <1>1, <1>2, <1>6, <2>2 DEF FrameInv, FrameUses
      <3> QED
        BY <1>2, <1>4, <1>6, <2>2, <3>1, <3>2
        DEF FrameInv, FramePlace, FrameTypes, FrameUses, FrameCycle, Making, Made, Busy, Injecting
    <2>4. ASSUME NEW h \in Frame, PairInv(f, h)
          PROVE  PairInv(c, h)
      <3>1. h.home \in Injectors
        BY DEF Frame
      <3>2. c.inj \in Lineage(h.home)
        BY <1>6, <2>2, <2>4, <3>1, Lineages DEF Hypotheses, PairInv
      <3> QED
        BY <1>6, <2>2, <2>4, <3>2 DEF PairInv, Busy, Injecting
    <2> QED
      BY <1>1, <1>5, <2>1, <2>2, <2>3, <2>4, QuietGoto DEF Made, Injecting
  <1>8. CASE ~HasKey(Parent[f.inj], f.type)
    <2>1. Proceed(main, "make")
      BY <1>8 DEF AskUpstream
    <2>2. f.type \notin Recorded(f.inj)
      BY <1>1, <1>2, <1>4, <1>6, <1>8
      DEF FrameInv, FrameTypes, InjectorInv, OrderInv, Found, Lineage
    <2>3. FrameInv(g("make"))
      BY <1>1, <1>2, <1>3, <2>2
        DEF Steps, FrameInv, FramePlace, FrameTypes, FrameUses, FrameCycle, Making, Made,
            Busy, Injecting, HasKey, BindsHere
    <2> QED
      BY <1>1, <1>5, <2>1, <2>3, QuietProceed DEF Steps, Made, Injecting, g
  <1> QED
    BY <1>7, <1>8

LEMMA MakeTopLevelKeeps ==
  ASSUME InjectorInv, Hypotheses, MakeTopLevel(main)
  PROVE  InjectorInv'
  <1> DEFINE f == Top(main)
             g(step) == [f EXCEPT !.at = step]
  <1> USE ConstantsFit
  <1>1. ~Idle(main) /\ f.at = "make"
    BY DEF MakeTopLevel, At, Top
  <1>2. f \in Frame /\ FrameInv(f)
    BY <1>1, TopFits
  <1>3. \A step \in Steps :
          /\ g(step) \in Frame /\ g(step).at = step
          /\ g(step).inj = f.inj /\ g(step).type = f.type /\ g(step).dep = f.dep
          /\ g(step).home = f.home /\ g(step).args = f.args /\ g(step).next = f.next
          /\ g(step).nested = f.nested
    BY <1>2, FrameMoves
  <1>4. f.inj \in Injectors /\ f.type \in Types /\ f.home \in Injectors
    BY <1>2 DEF Frame
  <1> HIDE DEF g
  <1>5. Undisturbed /\ Proceed(main, "lock")
    BY DEF MakeTopLevel, Undisturbed, StillLife
  <1>6. FrameInv(g("lock"))
    BY <1>1, <1>2, <1>3
      DEF Steps, FrameInv, FramePlace, FrameTypes, FrameUses, FrameCycle, Making, Made,
          Busy, Injecting, HasKey, BindsHere, MakeTopLevel
  <1> QED
    BY <1>1, <1>5, <1>6, QuietProceed DEF Steps, Made, Injecting, g

LEMMA CheckKeyKeeps ==
  ASSUME InjectorInv, Hypotheses, CheckKey(main)
  PROVE  InjectorInv'
  <1> DEFINE f == Top(main)
             g(step) == [f EXCEPT !.at = step]
  <1> USE ConstantsFit
  <1>1. ~Idle(main) /\ f.at \in {"emplace", "emplaceDefault"} /\ f.dep = "REFERENCE"
    <2>1. ~Idle(main) /\ f.at \in {"emplace", "emplaceDefault"}
      BY DEF CheckKey, At, Top
    <2>2. f.at = "emplaceDefault" => f.dep = "REFERENCE"
      BY DEF CheckKey, At, Top
    <2> QED
      BY <2>1, <2>2, TopFits DEF FrameInv, FramePlace
  <1>2. f \in Frame /\ FrameInv(f)
    BY <1>1, TopFits
  <1>3. \A step \in Steps :
          /\ g(step) \in Frame /\ g(step).at = step
          /\ g(step).inj = f.inj /\ g(step).type = f.type /\ g(step).dep = f.dep
          /\ g(step).home = f.home /\ g(step).args = f.args /\ g(step).next = f.next
          /\ g(step).nested = f.nested
    BY <1>2, FrameMoves
  <1>4. f.inj \in Injectors /\ f.type \in Types /\ f.home \in Injectors
    BY <1>2 DEF Frame
  <1> HIDE DEF g
  <1>5. Undisturbed
    BY DEF CheckKey, Undisturbed, StillLife
  <1>6. CASE HasKey(f.inj, f.type)
    <2>1. Proceed(main, "release")
      BY <1>6 DEF CheckKey
    <2>2. Found(f.inj, f.type)
      BY <1>4, <1>6 DEF Found
    <2>3. FrameInv(g("release"))
      BY <1>1, <1>2, <1>3, <2>2
        DEF Steps, FrameInv, FramePlace, FrameTypes, FrameUses, FrameCycle, Making, Made,
            Busy, Injecting, HasKey, BindsHere
    <2> QED
      BY <1>1, <1>5, <2>1, <2>3, QuietProceed DEF Steps, Made, Injecting, g
  <1>7. CASE ~HasKey(f.inj, f.type) /\ f.at = "emplace"
    <2>1. Proceed(main, "insert")
      BY <1>7 DEF CheckKey
    <2>2. FrameInv(g("insert"))
      BY <1>1, <1>2, <1>3, <1>7
        DEF Steps, FrameInv, FramePlace, FrameTypes, FrameUses, FrameCycle, Making, Made,
            Busy, Injecting, HasKey, BindsHere
    <2> QED
      BY <1>1, <1>5, <2>1, <2>2, QuietProceed DEF Steps, Made, Injecting, g
  <1>8. CASE ~HasKey(f.inj, f.type) /\ f.at = "emplaceDefault"
    <2>1. Proceed(main, "create")
      BY <1>8 DEF CheckKey
    <2>2. FrameInv(g("create"))
      BY <1>1, <1>2, <1>3, <1>8
        DEF Steps, FrameInv, FramePlace, FrameTypes, FrameUses, FrameCycle, Making, Made,
            Busy, Injecting, HasKey, BindsHere
    <2> QED
      BY <1>1, <1>5, <2>1, <2>2, QuietProceed DEF Steps, Made, Injecting, g
  <1> QED
    BY <1>1, <1>6, <1>7, <1>8

\* The members of a family last as long as the youngest.
LEMMA LineageLives ==
  ASSUME InjectorInv, NEW i \in Injectors, NEW j \in Lineage(i), phase[i] = "alive"
  PROVE  phase[j] = "alive"
  BY DEF InjectorInv, PhasesInv, Lineage

-----------------------------------------------------------------------------
(* Exceptions and returns. *)

LEMMA ThrowKeeps ==
  ASSUME InjectorInv, ~Idle(main), Throw(main), StillLife, ~Made(Top(main))
  PROVE  InjectorInv'
  <1> USE ConstantsFit
  <1>1. calls' = [calls EXCEPT ![main] = <<>>]
    BY DEF Throw
  <1>2. OthersIdle
    BY <1>1, EmptyStack DEF OthersIdle, Throw, InjectorInv
  <1>3. \A x \in alive : ~InProgress(x)
    BY DEF InProgress
  <1>4. WorkersInv' /\ PhasesInv' /\ MapInv' /\ OrderInv'
    BY <1>2, <1>3, LifeKept
  <1>5. injectionMtx_' = [i \in Injectors |-> NoThread]
    BY DEF Throw, InjectorInv, LockInv
  <1>6. LockInv' /\ \A i \in Injectors : injectionMtx_'[i] = NoThread
    BY <1>5 DEF LockInv
  <1>7. InjectorTypeOK'
    <2>1. calls' \in [Threads -> Seq(Frame)]
      BY <1>1, EmptyStack DEF InjectorInv
    <2>2. UNCHANGED <<holds, typeHashStack_, isInCycleCheck_>>
      BY DEF Throw
    <2>3. /\ holds' \in [Threads -> SUBSET (Instance \cup {Null})]
          /\ typeHashStack_' \in [Injectors -> SUBSET Types]
          /\ isInCycleCheck_' \in [Injectors -> BOOLEAN]
      BY <2>2 DEF InjectorInv, InjectorTypeOK
    <2>4. injectionMtx_' \in [Injectors -> Threads \cup {NoThread}]
      BY <1>5
    <2> QED
      BY <1>6, <2>1, <2>3, <2>4, TypesKept DEF InjectorInv
  <1>8. CallsInv'
    BY <1>1, CallsEmpty DEF InjectorInv
  <1> QED
    BY <1>4, <1>6, <1>7, <1>8 DEF InjectorInv

LEMMA ReturnKeeps ==
  ASSUME InjectorInv, Hypotheses, ~Idle(main),
         NEW result \in SUBSET (Instance \cup {Null}),
         Return(main, result), StillLife, UNCHANGED cycleVars,
         Top(main).at \in {"ref", "value"},
         Len(calls[main]) # 1 =>
           \A y \in result : Settled(y) /\ y[1] \in Lineage(Top(main).inj)
  PROVE  InjectorInv'
  <1> USE ConstantsFit
  <1>1. \A x \in alive : ~InProgress(x)
    BY DEF InProgress, Made
  <1>2. /\ DOMAIN calls[main] = 1..Len(calls[main]) /\ Len(calls[main]) \in Nat
        /\ Top(main) = calls[main][1] /\ 1 \in DOMAIN calls[main]
        /\ \A n \in DOMAIN calls[main] : calls[main][n] \in Frame
    BY FramesTyped DEF InjectorInv
  <1>3. ~Injecting(Top(main))
    BY DEF Injecting
  <1>4. UNCHANGED <<typeHashStack_, isInCycleCheck_, injectionMtx_>>
    BY DEF cycleVars
  <1>5. CASE Len(calls[main]) = 1
    <2>1. calls' = [calls EXCEPT ![main] = <<>>] /\ UNCHANGED holds
      BY <1>5 DEF Return
    <2>2. OthersIdle /\ calls' \in [Threads -> Seq(Frame)]
      BY <2>1, EmptyStack DEF OthersIdle, InjectorInv
    <2>3. WorkersInv' /\ PhasesInv' /\ MapInv' /\ OrderInv'
      BY <1>1, <2>2, LifeKept
    <2>4. \A i \in Injectors : injectionMtx_[i] = NoThread
      BY <1>2, <1>3, <1>5 DEF InjectorInv, LockInv
    <2>5. LockInv' /\ \A i \in Injectors : injectionMtx_'[i] = NoThread
      BY <1>4, <2>4 DEF LockInv
    <2>6. InjectorTypeOK'
      BY <1>4, <2>1, <2>2, <2>5, TypesKept DEF InjectorInv, InjectorTypeOK
    <2>7. CallsInv'
      BY <2>1, CallsEmpty DEF InjectorInv
    <2> QED
      BY <2>3, <2>5, <2>6, <2>7 DEF InjectorInv
  <1>6. CASE Len(calls[main]) # 1
    <2> DEFINE g == calls[main][2]
               r == Resumed(g, result)
    <2>1. /\ calls' \in [Threads -> Seq(Frame)] /\ UNCHANGED holds
          /\ 2 \in DOMAIN calls[main] /\ r \in Frame
          /\ calls'[main] # <<>> /\ DOMAIN calls'[main] = 1..Len(calls[main]) - 1
          /\ calls'[main][1] = r
          /\ \A n \in DOMAIN calls'[main] : n > 1 => calls'[main][n] = calls[main][n + 1]
          /\ \A u \in Threads \ {main} : calls'[u] = calls[u]
      BY <1>6, ReturnStack DEF InjectorInv
    <2>2. g \in Frame
      BY <1>2, <2>1
    <2>3. /\ r.inj = g.inj /\ r.type = g.type /\ r.dep = g.dep /\ r.at = g.at
          /\ r.home = g.home /\ r.nested = g.nested /\ r.next = g.next + 1
          /\ r.args = g.args \cup result
      BY <2>2, FrameResumes
    <2>4. FrameInv(g) /\ PairInv(Top(main), g)
      BY <1>2, <2>1 DEF InjectorInv, CallsInv
    <2> HIDE DEF r, g
    <2>5. FrameInv(r)
      <3>1. g.home \in Injectors /\ g.at = "recipe" /\ Top(main).inj \in Lineage(g.home)
            /\ g.next \in Nat
        BY <2>2, <2>4 DEF Frame, PairInv
      <3>2. \A y \in result : Settled(y) /\ y[1] \in Lineage(g.home)
        BY <1>6, <3>1, Lineages DEF Hypotheses
      <3>3. FramePlace(r)
        BY <2>3, <2>4, <3>1 DEF FrameInv, FramePlace
      <3>4. FrameUses(r)
        BY <2>3, <2>4, <3>2 DEF FrameInv, FrameUses
      <3>5. FrameTypes(r) /\ FrameCycle(r)
        BY <2>3, <2>4, <3>1
        DEF FrameInv, FrameTypes, FrameCycle, Making, Made, Busy, Injecting, BindsHere
      <3> QED
        BY <3>3, <3>4, <3>5 DEF FrameInv
    <2>6. CallsInv'
      BY <1>6, <2>5, CallsReturn, FramesUndisturbed DEF InjectorInv, r, g
    <2>7. OthersIdle
      BY <2>1 DEF OthersIdle
    <2>8. WorkersInv' /\ PhasesInv' /\ MapInv' /\ OrderInv'
      BY <1>1, <2>7, LifeKept
    <2>9. ASSUME NEW i \in Injectors, injectionMtx_'[i] # NoThread
          PROVE  /\ injectionMtx_'[i] = main
                 /\ \E n \in DOMAIN calls'[main] :
                      /\ Injecting(calls'[main][n]) /\ ~calls'[main][n].nested
                      /\ calls'[main][n].inj = i
      <3>1. injectionMtx_[i] = main
        BY <1>4, <2>9 DEF InjectorInv, LockInv
      <3>2. PICK n \in DOMAIN calls[main] :
              /\ Injecting(calls[main][n]) /\ ~calls[main][n].nested
              /\ calls[main][n].inj = i
        BY <1>4, <2>9 DEF InjectorInv, LockInv
      <3>3. n # 1 /\ n - 1 \in DOMAIN calls'[main] /\ (n - 1) + 1 = n
        BY <1>2, <1>3, <2>1, <3>2
      <3>4. CASE n = 2
        <4>1. Injecting(calls'[main][1]) /\ ~calls'[main][1].nested /\ calls'[main][1].inj = i
          BY <2>1, <2>3, <3>2, <3>4 DEF g, Injecting
        <4> QED
          BY <1>4, <3>1, <3>3, <3>4, <4>1
      <3>5. CASE n # 2
        <4>1. calls'[main][n - 1] = calls[main][n]
          BY <1>2, <2>1, <3>3, <3>5
        <4> QED
          BY <1>4, <3>1, <3>2, <3>3, <4>1
      <3> QED
        BY <3>4, <3>5
    <2>10. LockInv'
      BY <2>9 DEF LockInv, Injecting
    <2>11. InjectorTypeOK'
      BY <1>4, <2>1, <2>9, TypesKept DEF InjectorInv, InjectorTypeOK
    <2> QED
      BY <2>6, <2>8, <2>10, <2>11 DEF InjectorInv
  <1> QED
    BY <1>5, <1>6

LEMMA CycleDetectedKeeps ==
  ASSUME InjectorInv, CycleDetected(main)
  PROVE  InjectorInv'
  <1>1. ~Idle(main) /\ Top(main).at = "make" /\ Throw(main) /\ StillLife
    BY DEF CycleDetected, At, Top, StillLife
  <1> QED
    BY <1>1, ThrowKeeps DEF Made

LEMMA FindRecipeKeeps ==
  ASSUME InjectorInv, Hypotheses, FindRecipe(main)
  PROVE  InjectorInv'
  <1> DEFINE f == Top(main)
             g(step) == [f EXCEPT !.at = step]
  <1> USE ConstantsFit
  <1>1. ~Idle(main) /\ f.at = "find"
    BY DEF FindRecipe, At, Top
  <1>2. f \in Frame /\ FrameInv(f)
    BY <1>1, TopFits
  <1>3. \A step \in Steps :
          /\ g(step) \in Frame /\ g(step).at = step
          /\ g(step).inj = f.inj /\ g(step).type = f.type /\ g(step).dep = f.dep
          /\ g(step).home = f.home /\ g(step).args = f.args /\ g(step).next = f.next
          /\ g(step).nested = f.nested
    BY <1>2, FrameMoves
  <1>4. f.inj \in Injectors /\ f.type \in Types /\ f.home \in Injectors
    BY <1>2 DEF Frame
  <1> HIDE DEF g
  <1>5. StillLife
    BY DEF FindRecipe, StillLife
  <1>6. CASE f.type \in recipeMap_[f.home]
    <2>1. Undisturbed /\ Proceed(main, "recipe")
      BY <1>5, <1>6 DEF FindRecipe, Undisturbed
    <2>2. FrameInv(g("recipe"))
      BY <1>1, <1>2, <1>3, <1>6
        DEF Steps, FrameInv, FramePlace, FrameTypes, FrameUses, FrameCycle, Making, Made,
            Busy, Injecting, HasKey, BindsHere
    <2> QED
      BY <1>1, <2>1, <2>2, QuietProceed DEF Steps, Made, Injecting, g
  <1>7. CASE f.type \notin recipeMap_[f.home] /\ Parent[f.home] # NoInjector
    <2> DEFINE c == [f EXCEPT !.home = Parent[f.home]]
    <2>1. Undisturbed /\ Goto(main, c)
      BY <1>5, <1>7 DEF FindRecipe, Undisturbed
    <2>2. Parent[f.home] \in Injectors /\ Parent[f.home] \in Lineage(f.home)
      BY <1>4, <1>7, InjectorAssumption
    <2>3. /\ c \in Frame /\ c.inj = f.inj /\ c.type = f.type /\ c.dep = f.dep
          /\ c.at = f.at /\ c.home = Parent[f.home] /\ c.args = f.args /\ c.next = f.next
          /\ c.nested = f.nested
      BY <1>2, <2>2 DEF Frame
    <2> HIDE DEF c
    <2>4. c.home \in Lineage(c.inj)
      BY <1>2, <1>4, <2>2, <2>3, Lineages DEF FrameInv, FramePlace, Hypotheses
    <2>5. FrameInv(c)
      BY <1>1, <1>2, <2>3, <2>4
        DEF Steps, FrameInv, FramePlace, FrameTypes, FrameUses, FrameCycle, Making, Made,
            Busy, Injecting, HasKey, BindsHere
    <2>6. ASSUME NEW h \in Frame, PairInv(f, h)
          PROVE  PairInv(c, h)
      BY <2>3, <2>6 DEF PairInv, Busy, Injecting
    <2> QED
      BY <1>1, <2>1, <2>3, <2>5, <2>6, QuietGoto DEF Made, Injecting
  <1>8. CASE /\ f.type \notin recipeMap_[f.home] /\ Parent[f.home] = NoInjector
             /\ f.type \in DefaultInit
    <2>1. Undisturbed /\ Proceed(main, "emplaceDefault")
      BY <1>5, <1>8 DEF FindRecipe, Undisturbed
    <2>2. FrameInv(g("emplaceDefault"))
      BY <1>1, <1>2, <1>3, <1>8
        DEF Steps, FrameInv, FramePlace, FrameTypes, FrameUses, FrameCycle, Making, Made,
            Busy, Injecting, HasKey, BindsHere
    <2> QED
      BY <1>1, <2>1, <2>2, QuietProceed DEF Steps, Made, Injecting, g
  <1>9. CASE /\ f.type \notin recipeMap_[f.home] /\ Parent[f.home] = NoInjector
             /\ f.type \notin DefaultInit
    <2>1. Throw(main)
      BY <1>9 DEF FindRecipe
    <2> QED
      BY <1>1, <1>5, <2>1, ThrowKeeps DEF Made
  <1> QED
    BY <1>6, <1>7, <1>8, <1>9

LEMMA ConstructKeeps ==
  ASSUME InjectorInv, Hypotheses, Construct(main)
  PROVE  InjectorInv'
  <1> DEFINE f == Top(main)
             g(step) == [f EXCEPT !.at = step]
  <1> USE ConstantsFit
  <1>1. ~Idle(main) /\ f.at = "recipe"
    BY DEF Construct, At, Top
  <1>2. f \in Frame /\ FrameInv(f)
    BY <1>1, TopFits
  <1>3. \A step \in Steps :
          /\ g(step) \in Frame /\ g(step).at = step
          /\ g(step).inj = f.inj /\ g(step).type = f.type /\ g(step).dep = f.dep
          /\ g(step).home = f.home /\ g(step).args = f.args /\ g(step).next = f.next
          /\ g(step).nested = f.nested
    BY <1>2, FrameMoves
  <1>4. f.inj \in Injectors /\ f.type \in Types /\ f.home \in Injectors
    BY <1>2 DEF Frame
  <1> HIDE DEF g
  <1>5. StillLife /\ ~BindsHere(f)
    BY DEF Construct, StillLife, BindsHere, RecipeOf
  <1>6. CASE Throw(main)
    BY <1>1, <1>5, <1>6, ThrowKeeps DEF Made
  <1>7. CASE Undisturbed /\ f.dep = "NEW_VALUE" /\ Proceed(main, "release")
    <2>1. FrameInv(g("release"))
      BY <1>1, <1>2, <1>3, <1>5, <1>7
        DEF Steps, FrameInv, FramePlace, FrameTypes, FrameUses, FrameCycle, Making, Made,
            Busy, Injecting, HasKey, BindsHere
    <2> QED
      BY <1>1, <1>7, <2>1, QuietProceed DEF Steps, Made, Injecting, g
  <1>8. CASE Undisturbed /\ f.dep # "NEW_VALUE" /\ Proceed(main, "emplace")
    <2>1. f.dep = "REFERENCE"
      BY <1>2, <1>8 DEF Frame
    <2>2. FrameInv(g("emplace"))
      BY <1>1, <1>2, <1>3, <1>5, <2>1
        DEF Steps, FrameInv, FramePlace, FrameTypes, FrameUses, FrameCycle, Making, Made,
            Busy, Injecting, HasKey, BindsHere
    <2> QED
      BY <1>1, <1>8, <2>2, QuietProceed DEF Steps, Made, Injecting, g
  <1>9. \/ Throw(main)
        \/ Undisturbed /\ Proceed(main, IF f.dep = "NEW_VALUE" THEN "release" ELSE "emplace")
    BY <1>5 DEF Construct, Undisturbed
  <1> QED
    BY <1>6, <1>7, <1>8, <1>9

LEMMA CreateInstanceKeeps ==
  ASSUME InjectorInv, Hypotheses, CreateInstance(main)
  PROVE  InjectorInv'
  <1> DEFINE f == Top(main)
             g(step) == [f EXCEPT !.at = step]
  <1> USE ConstantsFit
  <1>1. ~Idle(main) /\ f.at = "emplaceDefault"
    BY DEF CreateInstance, At, Top
  <1>2. f \in Frame /\ FrameInv(f)
    BY <1>1, TopFits
  <1>3. \A step \in Steps :
          /\ g(step) \in Frame /\ g(step).at = step
          /\ g(step).inj = f.inj /\ g(step).type = f.type /\ g(step).dep = f.dep
          /\ g(step).home = f.home /\ g(step).args = f.args /\ g(step).next = f.next
          /\ g(step).nested = f.nested
    BY <1>2, FrameMoves
  <1>4. f.inj \in Injectors /\ f.type \in Types /\ f.home \in Injectors
    BY <1>2 DEF Frame
  <1> HIDE DEF g
  <1>5. StillLife /\ f.dep = "NEW_VALUE"
    BY DEF CreateInstance, StillLife
  <1>6. CASE Throw(main)
    BY <1>1, <1>5, <1>6, ThrowKeeps DEF Made
  <1>7. CASE Undisturbed /\ Proceed(main, "release")
    <2>1. FrameInv(g("release"))
      BY <1>1, <1>2, <1>3, <1>5
        DEF Steps, FrameInv, FramePlace, FrameTypes, FrameUses, FrameCycle, Making, Made,
            Busy, Injecting, HasKey, BindsHere
    <2> QED
      BY <1>1, <1>7, <2>1, QuietProceed DEF Steps, Made, Injecting, g
  <1> QED
    BY <1>5, <1>6, <1>7 DEF CreateInstance, Undisturbed

\* A recipe comes across no null pointer.
LEMMA NullIsRefused ==
  ASSUME InjectorInv, NullsInv, Hypotheses, ~Idle(main), Len(calls[main]) # 1,
         Top(main).at = "ref"
  PROVE  typeMap_[Top(main).inj][Top(main).type] # Null
  <1> USE ConstantsFit
  <1>1. PICK f \in Frame : f = Top(main) /\ f = calls[main][1] /\ FrameInv(f)
    BY TopFits, FramesTyped DEF InjectorInv
  <1>2. f.inj \in Injectors /\ f.type \in Types /\ f.dep = "REFERENCE"
    BY <1>1 DEF Frame, FrameInv, FramePlace
  <1> SUFFICES ASSUME typeMap_[f.inj][f.type] = Null PROVE FALSE
    BY <1>1
  <1>3. f.type \in Fragile
    BY <1>2 DEF InjectorInv, MapInv
  <1>4. 1 \in DOMAIN calls[main] /\ 1 # Len(calls[main])
    BY FramesTyped DEF InjectorInv
  <1>5. PICK m \in DOMAIN calls[main] :
          /\ m > 1 /\ calls[main][m].inj = f.inj
          /\ DependsOn(f.inj, calls[main][m].type, f.type)
    BY <1>1, <1>2, <1>3, <1>4 DEF NullsInv, MadeFor
  <1>6. PICK g \in Frame : g = calls[main][m]
    BY FramesTyped DEF InjectorInv
  <1>7. g.type \in Types /\ g.inj = f.inj /\ DependsOn(f.inj, g.type, f.type)
    BY <1>5, <1>6 DEF Frame
  <1>8. Busy(g)
    <2>1. PairInv(f, g)
      BY <1>1, <1>4, <1>5, <1>6 DEF InjectorInv, CallsInv
    <2> QED
      BY <2>1 DEF PairInv, Busy, Injecting
  <1>9. Clears(g, f.inj, g.type)
    BY <1>2, <1>6, <1>7 DEF NullsInv, Abandoned
  <1> QED
    BY <1>7, <1>8, <1>9 DEF Clears

LEMMA RefKeeps ==
  ASSUME InjectorInv, NullsInv, Hypotheses, Ref(main)
  PROVE  InjectorInv'
  <1> DEFINE f == Top(main)
  <1> USE ConstantsFit
  <1>1. ~Idle(main) /\ f.at = "ref"
    BY DEF Ref, At, Top
  <1>2. f \in Frame /\ FrameInv(f)
    BY <1>1, TopFits
  <1>3. f.inj \in Injectors /\ f.type \in Types /\ phase[f.inj] = "alive"
    BY <1>2 DEF Frame, FrameInv, FramePlace
  <1>4. StillLife
    BY DEF Ref, StillLife
  <1>5. CASE HasKey(f.inj, f.type)
    <2> DEFINE y == typeMap_[f.inj][f.type]
    <2>1. Return(main, {y}) /\ UNCHANGED cycleVars
      BY <1>5 DEF Ref
    <2>2. y \in Instance \cup {Null} /\ y # NoEntry
      BY <1>3, <1>5 DEF InjectorInv, InjectorTypeOK, HasKey
    <2>3. ASSUME Len(calls[main]) # 1 PROVE Settled(y) /\ y[1] \in Lineage(f.inj)
      <3>1. 2 \in DOMAIN calls[main] /\ 1 \in DOMAIN calls[main] /\ f = calls[main][1]
        <4>1. PICK n \in Nat : n = Len(calls[main])
          BY FramesTyped DEF InjectorInv
        <4>2. DOMAIN calls[main] = 1..n /\ n >= 1 /\ f = calls[main][1]
          BY <1>1, <4>1, FramesTyped DEF InjectorInv
        <4>3. n # 1
          BY <2>3, <4>1
        <4>4. 2 \in 1..n /\ 1 \in 1..n
          BY <4>2, <4>3
        <4> QED
          BY <4>2, <4>4
      <3>2. PairInv(f, calls[main][2])
        BY <3>1 DEF InjectorInv, CallsInv
      <3>3. y # Null
        BY <1>1, <2>3, NullIsRefused
      <3>4. y \in alive /\ y[1] \in Lineage(f.inj) /\ alive \subseteq Instance
        BY <1>3, <2>2, <3>3 DEF InjectorInv, MapInv, InjectorTypeOK
      <3>5. ~InProgress(y)
        BY <1>1 DEF InProgress, Made
      <3> QED
        BY <3>4, <3>5 DEF InjectorInv, OrderInv, Settled, Recorded
    <2> HIDE DEF y
    <2> QED
      BY <1>1, <1>4, <2>1, <2>2, <2>3, ReturnKeeps
  <1>6. CASE ~HasKey(f.inj, f.type)
    <2>1. Throw(main)
      BY <1>6 DEF Ref
    <2> QED
      BY <1>1, <1>4, <2>1, ThrowKeeps DEF Made
  <1> QED
    BY <1>5, <1>6

LEMMA ValueKeeps ==
  ASSUME InjectorInv, Hypotheses, Value(main)
  PROVE  InjectorInv'
  <1> DEFINE f == Top(main)
  <1> USE ConstantsFit
  <1>1. ~Idle(main) /\ f.at = "value"
    BY DEF Value, At, Top
  <1>2. f \in Frame /\ FrameInv(f)
    BY <1>1, TopFits
  <1>3. /\ f.inj \in Injectors /\ f.home \in Lineage(f.inj)
        /\ \A y \in f.args : Settled(y) /\ y[1] \in Lineage(f.home)
    BY <1>2 DEF Frame, FrameInv, FramePlace, FrameUses
  <1>4. StillLife
    BY DEF Value, StillLife
  <1>5. CASE Return(main, f.args) /\ UNCHANGED cycleVars
    <2>1. f.args \in SUBSET Instance
      BY <1>3 DEF Settled, InjectorInv, InjectorTypeOK
    <2>2. \A y \in f.args : Settled(y) /\ y[1] \in Lineage(f.inj)
      BY <1>3, Lineages DEF Hypotheses
    <2> QED
      BY <1>1, <1>4, <1>5, <2>1, <2>2, ReturnKeeps
  <1>6. CASE Throw(main)
    BY <1>1, <1>4, <1>6, ThrowKeeps DEF Made
  <1> QED
    BY <1>5, <1>6 DEF Value

LEMMA DependKeeps ==
  ASSUME InjectorInv, Hypotheses, Depend(main)
  PROVE  InjectorInv'
  <1> DEFINE f == Top(main)
             want == Rules[f.home][f.type].deps[f.next]
             c == Call(f.home, want.type, want.how)
  <1> USE ConstantsFit
  <1>1. ~Idle(main) /\ f.at = "recipe"
    BY DEF Depend, At, Top
  <1>2. f \in Frame /\ FrameInv(f)
    BY <1>1, TopFits
  <1>3. /\ f.inj \in Injectors /\ f.type \in Types /\ f.home \in Injectors
        /\ f.home \in Lineage(f.inj) /\ f.next \in Nat /\ f.next >= 1
        /\ f.type \in recipeMap_[f.home] /\ phase[f.inj] = "alive"
    BY <1>1, <1>2 DEF Frame, FrameInv, FramePlace
  <1>4. Rules[f.home][f.type] # NoRule
    BY <1>3 DEF InjectorInv, PhasesInv
  <1>5. f.next \in DOMAIN Rules[f.home][f.type].deps /\ want \in Dependency
    <2>1. Rules[f.home][f.type].deps \in Seq(Dependency)
      BY <1>3, <1>4
    <2>2. f.next <= Len(Rules[f.home][f.type].deps)
      BY DEF Depend, RecipeOf
    <2> HIDE DEF f
    <2> QED
      BY <1>3, <2>1, <2>2
  <1>6. IsDependency(want)
    BY <1>3, <1>4, <1>5 DEF IsDependency
  <1>7. calls' = [calls EXCEPT ![main] = <<c>> \o @] /\ StillLife /\ UNCHANGED <<cycleVars, holds>>
    BY DEF Depend, RecipeOf, StillLife
  <1> DEFINE w == want
  <1>8. /\ w \in Dependency /\ w.type \in Types /\ w.how \in {"REFERENCE", "NEW_VALUE"}
        /\ w = [type |-> w.type, how |-> w.how] /\ c = Call(f.home, w.type, w.how)
    BY <1>5
  <1>9. Serves[w.type] = NoThread
    <2>1. IsDependency(w)
      BY <1>6
    <2> HIDE DEF w, want, c
    <2> QED
      BY <1>8, <2>1 DEF Hypotheses, MainCreates
  <1> HIDE DEF w, want, c
  <1>10. /\ c \in Frame /\ c.inj = f.home /\ c.type = w.type /\ c.dep = w.how
         /\ c.at = (IF w.how = "REFERENCE" THEN "has" ELSE "make")
         /\ c.home = f.home /\ c.args = {} /\ c.next = 1 /\ ~c.nested
    BY <1>3, <1>8 DEF Call, Frame
  <1>11. FrameInv(c)
    <2>1. phase[c.inj] = "alive"
      BY <1>3, <1>10, LineageLives
    <2>2. Fetched(c.type) = {}
      BY <1>9, <1>10 DEF Fetched
    <2> QED
      BY <1>3, <1>8, <1>9, <1>10, <2>1, <2>2
      DEF FrameInv, FramePlace, FrameTypes, FrameUses, FrameCycle, Making, Made, Busy, Injecting
  <1>12. PairInv(c, f)
    BY <1>1, <1>3, <1>9, <1>10 DEF PairInv, Busy, Injecting
  <1>13. ASSUME NEW h \in Frame, PairInv(f, h)
         PROVE  PairInv(c, h)
    <2>1. h.home \in Injectors /\ f.inj \in Lineage(h.home)
      BY <1>13 DEF Frame, PairInv
    <2>2. c.inj \in Lineage(h.home)
      BY <1>3, <1>10, <2>1, Lineages DEF Hypotheses
    <2> QED
      BY <1>9, <1>10, <1>13, <2>2 DEF PairInv, Busy, Injecting
  <1>14. /\ calls' \in [Threads -> Seq(Frame)] /\ calls'[main] # <<>>
         /\ DOMAIN calls'[main] = 1..Len(calls[main]) + 1
         /\ \A n \in DOMAIN calls[main] : calls'[main][n + 1] = calls[main][n]
         /\ \A u \in Threads \ {main} : calls'[u] = calls[u]
         /\ DOMAIN calls[main] = 1..Len(calls[main]) /\ Len(calls[main]) \in Nat
    BY <1>7, <1>10, PushStack, FramesTyped DEF InjectorInv
  <1>15. CallsInv'
    BY <1>1, <1>7, <1>10, <1>11, <1>12, <1>13, CallsPush, FramesUndisturbed DEF InjectorInv
  <1>16. WorkersInv' /\ PhasesInv' /\ MapInv' /\ OrderInv'
    <2>1. OthersIdle
      BY <1>7, <1>14 DEF OthersIdle
    <2>2. \A x \in alive : ~InProgress(x)
      BY <1>1 DEF InProgress, Made
    <2> QED
      BY <1>1, <1>7, <2>1, <2>2, LifeKept
  <1>17. ASSUME NEW i \in Injectors, injectionMtx_'[i] # NoThread
         PROVE  /\ injectionMtx_'[i] = main
                /\ \E n \in DOMAIN calls'[main] :
                     /\ Injecting(calls'[main][n]) /\ ~calls'[main][n].nested
                     /\ calls'[main][n].inj = i
    <2>1. injectionMtx_'[i] = injectionMtx_[i]
      BY <1>7 DEF cycleVars
    <2>2. PICK n \in DOMAIN calls[main] :
            /\ Injecting(calls[main][n]) /\ ~calls[main][n].nested
            /\ calls[main][n].inj = i
      BY <1>17, <2>1 DEF InjectorInv, LockInv
    <2>3. n + 1 \in DOMAIN calls'[main] /\ calls'[main][n + 1] = calls[main][n]
      BY <1>14, <2>2
    <2> QED
      BY <1>17, <2>1, <2>2, <2>3 DEF InjectorInv, LockInv
  <1>18. LockInv'
    BY <1>17 DEF LockInv, Injecting
  <1>19. InjectorTypeOK'
    BY <1>7, <1>14, <1>17, TypesKept DEF InjectorInv, InjectorTypeOK, cycleVars
  <1> QED
    BY <1>15, <1>16, <1>18, <1>19 DEF InjectorInv

-----------------------------------------------------------------------------
(* The cycle check: the flag, the stack of types and the lock. *)

LEMMA MakeNestedKeeps ==
  ASSUME InjectorInv, Hypotheses, MakeNested(main)
  PROVE  InjectorInv'
  <1> USE ConstantsFit
  <1>1. ~Idle(main) /\ Top(main).at = "make"
    BY DEF MakeNested, At, Top
  <1>2. PICK f \in Frame : f = Top(main) /\ FrameInv(f)
    BY <1>1, TopFits
  <1>3. ~Idle(main) /\ f.at = "make" /\ f = Top(main)
    BY <1>1, <1>2
  <1>4. f.inj \in Injectors /\ f.type \in Types
    BY DEF Frame
  <1>5. PICK c \in Frame : c = [f EXCEPT !.at = "find", !.nested = TRUE]
    BY DEF Frame
  <1>6. /\ c.at = "find" /\ c.nested
        /\ c.inj = f.inj /\ c.type = f.type /\ c.dep = f.dep
        /\ c.home = f.home /\ c.args = f.args /\ c.next = f.next
    BY <1>5 DEF Frame
  <1>7. /\ Goto(main, c) /\ StillLife /\ UNCHANGED <<isInCycleCheck_, injectionMtx_, holds>>
        /\ isInCycleCheck_[f.inj] /\ f.type \notin typeHashStack_[f.inj]
        /\ typeHashStack_' = [typeHashStack_ EXCEPT ![f.inj] = @ \cup {f.type}]
    BY <1>2, <1>5 DEF MakeNested, StillLife
  <1>8. /\ typeHashStack_' \in [Injectors -> SUBSET Types]
        /\ f.type \in typeHashStack_'[f.inj]
        /\ \A i \in Injectors : typeHashStack_[i] \subseteq typeHashStack_'[i]
    BY <1>4, <1>7 DEF InjectorInv, InjectorTypeOK
  <1>9. ASSUME NEW g \in Frame, FramePlace(g), FrameTypes(g), FrameUses(g)
        PROVE  FramePlace(g)' /\ FrameTypes(g)' /\ FrameUses(g)'
    BY <1>7, <1>9 DEF StillLife, instanceVars, lifeVars, FramePlace, FrameTypes, FrameUses,
                      HasKey, Recorded, Found, Settled, BindsHere
  <1>10. FrameInv(c)'
    <2>1. FramePlace(c) /\ FrameTypes(c) /\ FrameUses(c)
      BY <1>3, <1>2, <1>6
      DEF FrameInv, FramePlace, FrameTypes, FrameUses, Making, Made, BindsHere
    <2>2. FrameCycle(c)'
      BY <1>7, <1>6, <1>8 DEF FrameCycle
    <2> QED
      BY <1>6, <1>9, <2>1, <2>2 DEF FrameInv
  <1>11. ASSUME NEW g \in Frame, FrameInv(g)
        PROVE  FrameInv(g)'
    <2>1. g.inj \in Injectors
      BY DEF Frame
    <2>2. FrameCycle(g)'
      BY <1>7, <1>8, <1>11, <2>1 DEF FrameInv, FrameCycle
    <2> QED
      BY <1>9, <1>11, <2>2 DEF FrameInv
  <1>12. ASSUME NEW g \in Frame, FrameInv(g), PairInv(f, g)
         PROVE  PairInv(c, g)
    <2>1. g.type \in typeHashStack_[g.inj] /\ g.at = "recipe"
      BY <1>12 DEF FrameInv, FrameCycle, PairInv, Busy, Injecting
    <2> QED
      BY <1>7, <1>6, <1>12, <2>1 DEF PairInv
  <1>13. CallsInv'
    BY <1>3, <1>7, <1>6, <1>10, <1>11, <1>12, CallsGoto DEF InjectorInv
  <1>14. WorkersInv' /\ PhasesInv' /\ MapInv' /\ OrderInv'
    <2>1. OthersIdle
      BY <1>3, <1>7, <1>6, GotoStack DEF OthersIdle, InjectorInv
    <2>2. \A x \in alive : ~InProgress(x)
      BY <1>3 DEF InProgress, Made
    <2> QED
      BY <1>3, <1>7, <2>1, <2>2, LifeKept
  <1>15. LockInv' /\ \A i \in Injectors : injectionMtx_'[i] # NoThread
                                          => calls'[injectionMtx_'[i]] # <<>>
    BY <1>3, <1>7, <1>6, LockGoto DEF InjectorInv, Injecting
  <1>16. InjectorTypeOK'
    BY <1>3, <1>7, <1>6, <1>8, <1>15, GotoStack, TypesKept DEF InjectorInv, InjectorTypeOK
  <1> QED
    BY <1>13, <1>14, <1>15, <1>16 DEF InjectorInv

LEMMA LockKeeps ==
  ASSUME InjectorInv, Hypotheses, Lock(main)
  PROVE  InjectorInv'
  <1> USE ConstantsFit
  <1>1. ~Idle(main) /\ Top(main).at = "lock"
    BY DEF Lock, At, Top
  <1>2. PICK f \in Frame : f = Top(main) /\ FrameInv(f)
    BY <1>1, TopFits
  <1>3. ~Idle(main) /\ f.at = "lock" /\ f = Top(main)
    BY <1>1, <1>2
  <1>4. f.inj \in Injectors /\ f.type \in Types
    BY DEF Frame
  <1>5. PICK c \in Frame : c = [f EXCEPT !.at = "find"]
    BY DEF Frame
  <1>6. /\ c.at = "find" /\ c.nested = f.nested
        /\ c.inj = f.inj /\ c.type = f.type /\ c.dep = f.dep
        /\ c.home = f.home /\ c.args = f.args /\ c.next = f.next
    BY <1>5 DEF Frame
  <1>7. /\ Goto(main, c) /\ StillLife /\ UNCHANGED holds
        /\ typeHashStack_' = [typeHashStack_ EXCEPT ![f.inj] = @ \cup {f.type}]
        /\ isInCycleCheck_' = [isInCycleCheck_ EXCEPT ![f.inj] = TRUE]
        /\ injectionMtx_' = [injectionMtx_ EXCEPT ![f.inj] = main]
    BY <1>2, <1>5 DEF Lock, Proceed, StillLife
  <1>8. /\ typeHashStack_' \in [Injectors -> SUBSET Types]
        /\ f.type \in typeHashStack_'[f.inj]
        /\ \A i \in Injectors : typeHashStack_[i] \subseteq typeHashStack_'[i]
        /\ isInCycleCheck_' \in [Injectors -> BOOLEAN] /\ isInCycleCheck_'[f.inj]
        /\ \A i \in Injectors : isInCycleCheck_[i] => isInCycleCheck_'[i]
        /\ injectionMtx_' \in [Injectors -> Threads \cup {NoThread}]
    BY <1>4, <1>7 DEF InjectorInv, InjectorTypeOK
  <1>9. ASSUME NEW g \in Frame, FramePlace(g), FrameTypes(g), FrameUses(g)
        PROVE  FramePlace(g)' /\ FrameTypes(g)' /\ FrameUses(g)'
    BY <1>7, <1>9 DEF StillLife, instanceVars, lifeVars, FramePlace, FrameTypes, FrameUses,
                      HasKey, Recorded, Found, Settled, BindsHere
  <1>10. FrameInv(c)'
    <2>1. FramePlace(c) /\ FrameTypes(c) /\ FrameUses(c)
      BY <1>3, <1>2, <1>6
      DEF FrameInv, FramePlace, FrameTypes, FrameUses, Making, Made, BindsHere
    <2>2. FrameCycle(c)'
      BY <1>7, <1>6, <1>8 DEF FrameCycle
    <2> QED
      BY <1>6, <1>9, <2>1, <2>2 DEF FrameInv
  <1>11. ASSUME NEW g \in Frame, FrameInv(g), PairInv(f, g)
        PROVE  FrameInv(g)'
    <2>1. g.inj \in Injectors /\ g.at = "recipe"
      BY <1>11 DEF Frame, PairInv
    <2>2. FrameCycle(g)'
      BY <1>7, <1>8, <1>11, <2>1 DEF FrameInv, FrameCycle
    <2> QED
      BY <1>9, <1>11, <2>2 DEF FrameInv
  <1>12. ASSUME NEW g \in Frame, FrameInv(g), PairInv(f, g)
         PROVE  PairInv(c, g)
    <2>1. isInCycleCheck_[g.inj] /\ g.at = "recipe"
      BY <1>12 DEF FrameInv, FrameCycle, PairInv, Busy, Injecting
    <2>2. ~isInCycleCheck_[f.inj]
      BY <1>3, <1>2 DEF FrameInv, FrameCycle
    <2> QED
      BY <1>6, <1>12, <2>1, <2>2 DEF PairInv
  <1>13. CallsInv'
    BY <1>3, <1>7, <1>6, <1>10, <1>11, <1>12, CallsGoto DEF InjectorInv
  <1>14. /\ calls' \in [Threads -> Seq(Frame)] /\ calls'[main] # <<>>
         /\ DOMAIN calls'[main] = DOMAIN calls[main] /\ 1 \in DOMAIN calls[main]
         /\ calls'[main][1] = c /\ calls[main][1] = f
         /\ DOMAIN calls[main] = 1..Len(calls[main]) /\ Len(calls[main]) \in Nat
         /\ \A n \in DOMAIN calls[main] : n > 1 => calls'[main][n] = calls[main][n]
         /\ \A u \in Threads \ {main} : calls'[u] = calls[u]
    BY <1>3, <1>7, <1>6, GotoStack, FramesTyped DEF InjectorInv
  <1>15. WorkersInv' /\ PhasesInv' /\ MapInv' /\ OrderInv'
    <2>1. OthersIdle
      BY <1>7, <1>14 DEF OthersIdle
    <2>2. \A x \in alive : ~InProgress(x)
      BY <1>3 DEF InProgress, Made
    <2> QED
      BY <1>3, <1>7, <2>1, <2>2, LifeKept
  <1>16. ASSUME NEW i \in Injectors, injectionMtx_'[i] # NoThread
         PROVE  /\ injectionMtx_'[i] = main
                /\ \E n \in DOMAIN calls'[main] :
                     /\ Injecting(calls'[main][n]) /\ ~calls'[main][n].nested
                     /\ calls'[main][n].inj = i
    <2>1. CASE i = f.inj
      <3>1. ~c.nested
        BY <1>3, <1>2, <1>6 DEF FrameInv, FramePlace
      <3>2. injectionMtx_'[i] = main
        BY <1>7, <2>1 DEF InjectorInv, InjectorTypeOK
      <3> QED
        BY <1>6, <1>14, <2>1, <3>1, <3>2 DEF Injecting
    <2>2. CASE i # f.inj
      <3>1. injectionMtx_'[i] = injectionMtx_[i]
        BY <1>7, <2>2 DEF InjectorInv, InjectorTypeOK
      <3>2. PICK n \in DOMAIN calls[main] :
              /\ Injecting(calls[main][n]) /\ ~calls[main][n].nested
              /\ calls[main][n].inj = i
        BY <1>16, <3>1 DEF InjectorInv, LockInv
      <3>3. n > 1
        BY <1>14, <2>2, <3>2
      <3> QED
        BY <1>14, <1>16, <3>1, <3>2, <3>3 DEF InjectorInv, LockInv
    <2> QED
      BY <2>1, <2>2
  <1>17. LockInv'
    BY <1>16 DEF LockInv, Injecting
  <1>18. InjectorTypeOK'
    <2>1. holds' \in [Threads -> SUBSET (Instance \cup {Null})] /\ InjectorTypeOK
      BY <1>7 DEF InjectorInv, InjectorTypeOK
    <2>2. \A i \in Injectors : injectionMtx_'[i] # NoThread => calls'[injectionMtx_'[i]] # <<>>
      BY <1>14, <1>16
    <2> QED
      BY <1>7, <1>8, <1>14, <2>1, <2>2, TypesKept
  <1> QED
    BY <1>13, <1>15, <1>17, <1>18 DEF InjectorInv

\* What is known when the innermost frame f of main proceeds and becomes c.
Proceeds(f, c, step) ==
  /\ f = Top(main) /\ f = calls[main][1] /\ FrameInv(f)
  /\ c.at = step
  /\ c.inj = f.inj /\ c.type = f.type /\ c.dep = f.dep /\ c.nested = f.nested
  /\ c.home = f.home /\ c.args = f.args /\ c.next = f.next
  /\ Goto(main, c)
  /\ calls' \in [Threads -> Seq(Frame)] /\ calls'[main] # <<>>
  /\ DOMAIN calls'[main] = DOMAIN calls[main] /\ 1 \in DOMAIN calls[main]
  /\ calls'[main][1] = c /\ Head(calls'[main]) = c
  /\ DOMAIN calls[main] = 1..Len(calls[main]) /\ Len(calls[main]) \in Nat
  /\ \A n \in DOMAIN calls[main] : n > 1 => calls'[main][n] = calls[main][n]
  /\ \A u \in Threads \ {main} : calls'[u] = calls[u]

LEMMA TopProceeds ==
  ASSUME InjectorInv, ~Idle(main), NEW step \in Steps, Proceed(main, step)
  PROVE  \E f, c \in Frame : Proceeds(f, c, step)
  <1> USE ConstantsFit
  <1>1. PICK f \in Frame : f = Top(main) /\ FrameInv(f)
    BY TopFits
  <1>2. PICK c \in Frame : c = [f EXCEPT !.at = step]
    BY FrameMoves
  <1>3. /\ c.at = step
        /\ c.inj = f.inj /\ c.type = f.type /\ c.dep = f.dep /\ c.nested = f.nested
        /\ c.home = f.home /\ c.args = f.args /\ c.next = f.next
    BY <1>2, FrameMoves
  <1>4. Goto(main, c)
    BY <1>1, <1>2 DEF Proceed
  <1>5. InjectorTypeOK
    BY DEF InjectorInv
  <1>6. /\ calls' \in [Threads -> Seq(Frame)] /\ calls'[main] # <<>>
        /\ DOMAIN calls'[main] = DOMAIN calls[main]
        /\ calls'[main][1] = c /\ Head(calls'[main]) = c
        /\ \A n \in DOMAIN calls[main] : n > 1 => calls'[main][n] = calls[main][n]
        /\ \A u \in Threads \ {main} : calls'[u] = calls[u]
    BY <1>4, <1>5, GotoStack
  <1>7. /\ f = calls[main][1] /\ 1 \in DOMAIN calls[main]
        /\ DOMAIN calls[main] = 1..Len(calls[main]) /\ Len(calls[main]) \in Nat
    BY <1>1, <1>5, FramesTyped
  <1> QED
    BY <1>1, <1>3, <1>4, <1>6, <1>7 DEF Proceeds

LEMMA ReleaseKeeps ==
  ASSUME InjectorInv, Hypotheses, Release(main)
  PROVE  InjectorInv'
  <1> USE ConstantsFit
  <1>1. ~Idle(main) /\ Top(main).at = "release" /\ Proceed(main, "record") /\ StillLife
        /\ UNCHANGED <<typeHashStack_, holds>>
    BY DEF Release, At, Top, StillLife
  <1>2. PICK f \in Frame, c \in Frame : Proceeds(f, c, "record")
    BY <1>1, TopProceeds DEF Steps
  <1>3. f.at = "release" /\ f.inj \in Injectors /\ f.type \in Types
    BY <1>1, <1>2 DEF Proceeds, Frame
  <1>5. /\ isInCycleCheck_' \in [Injectors -> BOOLEAN]
        /\ injectionMtx_' \in [Injectors -> Threads \cup {NoThread}]
        /\ f.nested => UNCHANGED <<isInCycleCheck_, injectionMtx_>>
        /\ \A i \in Injectors : i # f.inj =>
             isInCycleCheck_'[i] = isInCycleCheck_[i] /\ injectionMtx_'[i] = injectionMtx_[i]
        /\ ~f.nested => injectionMtx_'[f.inj] = NoThread
        /\ isInCycleCheck_'[f.inj] => isInCycleCheck_[f.inj]
    <2>1. CASE f.nested
      BY <1>2, <2>1 DEF Release, Proceeds, InjectorInv, InjectorTypeOK
    <2>2. CASE ~f.nested
      <3>1. /\ isInCycleCheck_' = [isInCycleCheck_ EXCEPT ![f.inj] = FALSE]
            /\ injectionMtx_' = [injectionMtx_ EXCEPT ![f.inj] = NoThread]
        BY <1>2, <2>2 DEF Release, Proceeds
      <3> QED
        BY <1>3, <2>2, <3>1 DEF InjectorInv, InjectorTypeOK
    <2> QED
      BY <2>1, <2>2
  <1>6. ASSUME NEW g \in Frame, FramePlace(g), FrameTypes(g), FrameUses(g)
        PROVE  FramePlace(g)' /\ FrameTypes(g)' /\ FrameUses(g)'
    BY <1>1, <1>6 DEF StillLife, instanceVars, lifeVars, FramePlace, FrameTypes, FrameUses,
                      HasKey, Recorded, Found, Settled, BindsHere
  <1>7. FrameInv(c)'
    <2>1. FramePlace(c) /\ FrameTypes(c) /\ FrameUses(c)
      BY <1>2, <1>3
      DEF Proceeds, FrameInv, FramePlace, FrameTypes, FrameUses, Making, Made, BindsHere
    <2>2. FrameCycle(c)'
      BY <1>1, <1>2, <1>3 DEF Proceeds, FrameInv, FrameCycle, Busy, Injecting
    <2> QED
      BY <1>6, <2>1, <2>2 DEF FrameInv
  <1>8. ASSUME NEW g \in Frame, FrameInv(g), PairInv(f, g)
        PROVE  FrameInv(g)'
    <2>1. g.inj \in Injectors /\ g.at = "recipe"
      BY <1>8 DEF Frame, PairInv
    <2>2. g.inj = f.inj => f.nested
      BY <1>3, <1>8 DEF PairInv, Busy, Injecting
    <2>3. isInCycleCheck_'[g.inj] = isInCycleCheck_[g.inj]
      BY <1>5, <2>1, <2>2
    <2>4. FrameCycle(g)'
      BY <1>1, <1>8, <2>1, <2>3 DEF FrameInv, FrameCycle, Busy, Injecting
    <2> QED
      BY <1>6, <1>8, <2>4 DEF FrameInv
  <1>9. ASSUME NEW g \in Frame, PairInv(f, g)
        PROVE  PairInv(c, g)
    BY <1>2, <1>3, <1>9 DEF Proceeds, PairInv, Busy, Injecting
  <1>10. CallsInv'
    BY <1>1, <1>2, <1>7, <1>8, <1>9, CallsGoto DEF InjectorInv, Proceeds
  <1>11. WorkersInv' /\ PhasesInv' /\ MapInv' /\ OrderInv'
    <2>1. OthersIdle
      BY <1>1, <1>2 DEF OthersIdle, Proceeds
    <2>2. ASSUME NEW x \in alive, InProgress(x) PROVE InProgress(x)'
      BY <1>2, <2>2 DEF InProgress, Made, Proceeds, Idle, Top
    <2> QED
      BY <1>1, <2>1, <2>2, LifeKept
  <1>12. ASSUME NEW i \in Injectors, injectionMtx_'[i] # NoThread
         PROVE  /\ injectionMtx_'[i] = main
                /\ \E n \in DOMAIN calls'[main] :
                     /\ Injecting(calls'[main][n]) /\ ~calls'[main][n].nested
                     /\ calls'[main][n].inj = i
    <2>1. injectionMtx_'[i] = injectionMtx_[i] /\ ~(i = f.inj /\ ~f.nested)
      BY <1>5, <1>12
    <2>2. PICK n \in DOMAIN calls[main] :
            /\ Injecting(calls[main][n]) /\ ~calls[main][n].nested
            /\ calls[main][n].inj = i
      BY <1>12, <2>1 DEF InjectorInv, LockInv
    <2>3. n > 1
      BY <1>2, <2>1, <2>2 DEF Proceeds
    <2> QED
      BY <1>2, <1>12, <2>1, <2>2, <2>3 DEF InjectorInv, LockInv, Proceeds
  <1>13. LockInv'
    BY <1>12 DEF LockInv, Injecting
  <1>14. InjectorTypeOK'
    BY <1>1, <1>2, <1>5, <1>12, TypesKept DEF InjectorInv, InjectorTypeOK, Proceeds
  <1> QED
    BY <1>10, <1>11, <1>13, <1>14 DEF InjectorInv
Appends(i, T) == invocationList_' = [invocationList_ EXCEPT ![i] = Append(@, T)]

LEMMA RecordedGrows ==
  ASSUME InjectorTypeOK, NEW i \in Injectors, NEW T \in Types, Appends(i, T)
  PROVE  /\ invocationList_' \in [Injectors -> Seq(Types)]
         /\ \A j \in Injectors : j # i => invocationList_'[j] = invocationList_[j]
         /\ DOMAIN invocationList_[i] = 1..Len(invocationList_[i])
         /\ DOMAIN invocationList_'[i] = 1..Len(invocationList_[i]) + 1
         /\ Len(invocationList_[i]) \in Nat
         /\ Len(invocationList_'[i]) = Len(invocationList_[i]) + 1
         /\ \A n \in DOMAIN invocationList_[i] :
              n \in DOMAIN invocationList_'[i] /\ invocationList_'[i][n] = invocationList_[i][n]
         /\ invocationList_'[i][Len(invocationList_[i]) + 1] = T
         /\ \A j \in Injectors : j # i => Recorded(j)' = Recorded(j)
         /\ Recorded(i)' = Recorded(i) \cup {T}
  <1> DEFINE s == invocationList_[i]
             r == Append(s, T)
  <1>1. s \in Seq(Types) /\ invocationList_ \in [Injectors -> Seq(Types)]
    BY DEF InjectorTypeOK
  <1>2. /\ r \in Seq(Types) /\ Len(s) \in Nat /\ Len(r) = Len(s) + 1
        /\ DOMAIN s = 1..Len(s) /\ DOMAIN r = 1..Len(s) + 1
        /\ \A n \in DOMAIN s : n \in DOMAIN r /\ r[n] = s[n]
        /\ r[Len(s) + 1] = T
    BY <1>1
  <1>3. invocationList_' = [invocationList_ EXCEPT ![i] = r]
    BY DEF Appends
  <1> HIDE DEF r
  <1>4. /\ invocationList_'[i] = r
        /\ \A j \in Injectors : j # i => invocationList_'[j] = invocationList_[j]
        /\ invocationList_' \in [Injectors -> Seq(Types)]
    BY <1>1, <1>2, <1>3
  <1>5. \A j \in Injectors : j # i => Recorded(j)' = Recorded(j)
    BY <1>4 DEF Recorded
  <1>6. Recorded(i)' = {r[n] : n \in DOMAIN r}
    BY <1>4 DEF Recorded
  <1>7. Recorded(i) = {s[n] : n \in DOMAIN s}
    BY DEF Recorded
  <1> HIDE DEF s
  <1>8. {r[n] : n \in DOMAIN r} = {s[n] : n \in DOMAIN s} \cup {T}
    <2>1. \A n \in DOMAIN r : n \in DOMAIN s \/ n = Len(s) + 1
      BY <1>2
    <2>2. Len(s) + 1 \in DOMAIN r
      BY <1>2
    <2> QED
      BY <1>2, <2>1, <2>2
  <1> QED
    BY <1>2, <1>4, <1>5, <1>6, <1>7, <1>8 DEF s

LEMMA RecordKeeps ==
  ASSUME InjectorInv, Hypotheses, Record(main)
  PROVE  InjectorInv'
  <1> USE ConstantsFit
  <1>1. /\ ~Idle(main) /\ Top(main).at = "record"
        /\ UNCHANGED <<instanceVars, recipeMap_, isInCycleCheck_, injectionMtx_, holds, lifeVars>>
        /\ typeHashStack_' =
             [typeHashStack_ EXCEPT ![Top(main).inj] = @ \ {Top(main).type}]
    BY DEF Record, At, Top
  <1>2. PICK step \in {"ref", "value"} :
          /\ Proceed(main, step)
          /\ step = "ref" =>
               /\ Top(main).dep = "REFERENCE"
               /\ invocationList_' =
                    [invocationList_ EXCEPT ![Top(main).inj] = Append(@, Top(main).type)]
          /\ step = "value" => Top(main).dep # "REFERENCE" /\ UNCHANGED invocationList_
    BY DEF Record
  <1>3. PICK f \in Frame, c \in Frame : Proceeds(f, c, step)
    BY <1>1, <1>2, TopProceeds DEF Steps
  <1>4. /\ f.at = "record" /\ f.inj \in Injectors /\ f.type \in Types
        /\ step = "value" => f.dep = "NEW_VALUE"
        /\ step = "ref" => f.dep = "REFERENCE"
    BY <1>1, <1>2, <1>3 DEF Proceeds, Frame
  <1>5. /\ typeHashStack_' \in [Injectors -> SUBSET Types]
        /\ \A i \in Injectors : \A T \in typeHashStack_[i] :
             <<i, T>> # <<f.inj, f.type>> => T \in typeHashStack_'[i]
    BY <1>1, <1>3, <1>4 DEF Proceeds, InjectorInv, InjectorTypeOK
  <1>6. /\ invocationList_' \in [Injectors -> Seq(Types)]
        /\ \A i \in Injectors : Recorded(i) \subseteq Recorded(i)'
        /\ \A i \in Injectors : \A T \in Recorded(i)' :
             T \in Recorded(i) \/ (<<i, T>> = <<f.inj, f.type>> /\ step = "ref")
    <2>1. CASE step = "value"
      BY <1>2, <2>1 DEF InjectorInv, InjectorTypeOK, Recorded
    <2>2. CASE step = "ref"
      <3>1. Appends(f.inj, f.type)
        BY <1>2, <1>3, <2>2 DEF Appends, Proceeds
      <3>2. /\ \A j \in Injectors : j # f.inj => Recorded(j)' = Recorded(j)
            /\ Recorded(f.inj)' = Recorded(f.inj) \cup {f.type}
            /\ invocationList_' \in [Injectors -> Seq(Types)]
        BY <1>4, <3>1, RecordedGrows DEF InjectorInv
      <3>3. ASSUME NEW i \in Injectors
            PROVE  /\ Recorded(i) \subseteq Recorded(i)'
                   /\ \A T \in Recorded(i)' :
                        T \in Recorded(i) \/ (<<i, T>> = <<f.inj, f.type>> /\ step = "ref")
        <4>1. CASE i = f.inj
          BY <2>2, <3>2, <4>1
        <4>2. CASE i # f.inj
          BY <3>2, <4>2
        <4> QED
          BY <4>1, <4>2
      <3> QED
        BY <3>2, <3>3
    <2> QED
      BY <1>2, <2>1, <2>2
  <1>7. \A y : Settled(y) => Settled(y)'
    BY <1>1, <1>6, ConstantsFit DEF Settled, instanceVars, InjectorInv, InjectorTypeOK
  <1>8. ASSUME NEW g \in Frame, FramePlace(g), FrameUses(g)
        PROVE  FramePlace(g)' /\ FrameUses(g)'
    BY <1>1, <1>7, <1>8 DEF instanceVars, lifeVars, FramePlace, FrameUses, BindsHere
  <1>9. FrameInv(c)'
    <2>1. FramePlace(c) /\ FrameUses(c)
      BY <1>2, <1>3, <1>4
      DEF Proceeds, FrameInv, FramePlace, FrameUses, BindsHere
    <2>2. FrameTypes(c)' /\ FrameCycle(c)'
      BY <1>1, <1>2, <1>3, <1>4
      DEF Proceeds, FrameInv, FrameTypes, FrameCycle, Making, Made, Busy, Injecting
    <2> QED
      BY <1>8, <2>1, <2>2 DEF FrameInv
  <1>10. ASSUME NEW g \in Frame, FrameInv(g), PairInv(f, g)
         PROVE  FrameInv(g)'
    <2>1. g.inj \in Injectors /\ g.at = "recipe" /\ g.type \in Types
      BY <1>10 DEF Frame, PairInv
    <2>2. <<g.inj, g.type>> # <<f.inj, f.type>>
      BY <1>4, <1>10 DEF PairInv, Busy
    <2>3. FrameCycle(g)'
      BY <1>1, <1>5, <1>10, <2>1, <2>2 DEF FrameInv, FrameCycle, Busy, Injecting
    <2>4. FrameTypes(g)'
      <3>1. g.type \notin Recorded(g.inj) => g.type \notin Recorded(g.inj)'
        BY <1>6, <2>1, <2>2
      <3> QED
        BY <1>1, <1>10, <2>1, <3>1
        DEF FrameInv, FrameTypes, Making, Made, HasKey, instanceVars
    <2> QED
      BY <1>8, <1>10, <2>3, <2>4 DEF FrameInv
  <1>11. ASSUME NEW g \in Frame, PairInv(f, g)
         PROVE  PairInv(c, g)
    BY <1>2, <1>3, <1>4, <1>11 DEF Proceeds, PairInv, Busy, Injecting
  <1>12. CallsInv'
    BY <1>1, <1>3, <1>9, <1>10, <1>11, CallsGoto DEF InjectorInv, Proceeds
  <1>13. /\ LockInv'
         /\ \A i \in Injectors : injectionMtx_'[i] # NoThread => calls'[injectionMtx_'[i]] # <<>>
    BY <1>1, <1>3, <1>4, LockGoto DEF InjectorInv, Injecting, Proceeds
  <1>14. WorkersInv' /\ PhasesInv' /\ MapInv'
    <2>1. WorkersInv'
      <3>1. /\ \A u \in Threads \ {main} : calls'[u] = calls[u]
            /\ holds' = holds /\ thread' = thread /\ alive' = alive
        BY <1>1, <1>3 DEF Proceeds, instanceVars, lifeVars
      <3> QED
        BY <3>1 DEF InjectorInv, WorkersInv, WorkerInv
    <2>2. PhasesInv'
      BY <1>1 DEF InjectorInv, PhasesInv, Idle, lifeVars
    <2>3. MapInv'
      BY <1>1 DEF InjectorInv, MapInv, HasKey, instanceVars, lifeVars
    <2> QED
      BY <2>1, <2>2, <2>3
  <1>15. CASE step = "value"
    <2>1. StillLife /\ OthersIdle
      BY <1>1, <1>2, <1>3, <1>15 DEF StillLife, OthersIdle, Proceeds
    <2>2. \A x \in alive : ~InProgress(x)
      BY <1>3, <1>4, <1>15 DEF InProgress, Proceeds
    <2>3. OrderInv'
      BY <1>1, <2>1, <2>2, LifeKept
    <2>4. InjectorTypeOK'
      BY <1>1, <1>3, <1>5, <1>13, <2>1, TypesKept DEF InjectorInv, InjectorTypeOK, Proceeds
    <2> QED
      BY <1>12, <1>13, <1>14, <2>3, <2>4 DEF InjectorInv
  <1>16. CASE step = "ref"
    <2> DEFINE s == invocationList_[f.inj]
    <2>1. /\ \A j \in Injectors : j # f.inj => invocationList_'[j] = invocationList_[j]
          /\ DOMAIN s = 1..Len(s) /\ DOMAIN invocationList_'[f.inj] = 1..Len(s) + 1
          /\ Len(s) \in Nat /\ Len(invocationList_'[f.inj]) = Len(s) + 1
          /\ \A n \in DOMAIN s :
               n \in DOMAIN invocationList_'[f.inj] /\ invocationList_'[f.inj][n] = s[n]
          /\ invocationList_'[f.inj][Len(s) + 1] = f.type
      <3>1. Appends(f.inj, f.type)
        BY <1>2, <1>3, <1>16 DEF Appends, Proceeds
      <3> QED
        BY <1>4, <3>1, RecordedGrows DEF InjectorInv
    <2> HIDE DEF s
    <2>2. f.type \notin Recorded(f.inj) /\ f.type # Self /\ Found(f.inj, f.type)
          /\ phase[f.inj] = "alive"
      BY <1>3, <1>4, <1>16 DEF Proceeds, FrameInv, FrameTypes, FramePlace, Made
    <2>3. OrderInv'
      <3>1. \A i \in Injectors : Self \notin Recorded(i)'
        BY <1>6, <2>2 DEF InjectorInv, OrderInv
      <3>2. \A i \in Injectors : phase'[i] = "alive" => \A T \in Recorded(i)' : Found(i, T)'
        BY <1>1, <1>6, <2>2 DEF InjectorInv, OrderInv, Found, HasKey, instanceVars, lifeVars
      <3>3. ASSUME NEW x \in alive', x[2] # Self
            PROVE  \E n \in DOMAIN invocationList_'[x[1]] :
                     /\ invocationList_'[x[1]][n] = x[2]
                     /\ phase'[x[1]] = "destroying" => n <= left'[x[1]]
        <4>1. x \in alive /\ x[1] \in Injectors
          BY <1>1 DEF instanceVars, InjectorInv, InjectorTypeOK
        <4>2. CASE InProgress(x)
          <5>1. x = <<f.inj, f.type>>
            BY <1>3, <4>2 DEF InProgress, Proceeds
          <5>2. Len(s) + 1 \in DOMAIN invocationList_'[f.inj]
            BY <2>1
          <5> QED
            BY <1>1, <2>1, <2>2, <5>1, <5>2 DEF lifeVars
        <4>3. CASE ~InProgress(x)
          <5>1. PICK n \in DOMAIN invocationList_[x[1]] :
                  /\ invocationList_[x[1]][n] = x[2]
                  /\ phase[x[1]] = "destroying" => n <= left[x[1]]
            BY <3>3, <4>1, <4>3 DEF InjectorInv, OrderInv
          <5>2. n \in DOMAIN invocationList_'[x[1]] /\ invocationList_'[x[1]][n] = x[2]
            BY <2>1, <4>1, <5>1 DEF s
          <5> QED
            BY <1>1, <5>1, <5>2 DEF lifeVars
        <4> QED
          BY <4>2, <4>3
      <3>4. \A x \in Instance : x \notin alive' \/ x[2] = Self => refs'[x] = {}
        BY <1>1 DEF InjectorInv, OrderInv, instanceVars
      <3>5. ASSUME NEW x \in alive', NEW y \in Uses(x)'
            PROVE  /\ Settled(y)' /\ y # x /\ y[1] \in Lineage(x[1])
                   /\ y[1] = x[1] => Before(x[1], y[2], x[2])'
        <4>1. x \in alive /\ y \in Uses(x) /\ x[1] \in Injectors
          BY <1>1 DEF instanceVars, InjectorInv, InjectorTypeOK, Uses
        <4>2. /\ Settled(y) /\ y # x /\ y[1] \in Lineage(x[1])
              /\ y[1] = x[1] => Before(x[1], y[2], x[2])
          BY <4>1 DEF InjectorInv, OrderInv
        <4>3. ASSUME y[1] = x[1], x[1] # f.inj PROVE Before(x[1], y[2], x[2])'
          BY <2>1, <4>1, <4>2, <4>3 DEF Before
        <4>4. ASSUME y[1] = x[1], x[1] = f.inj PROVE Before(x[1], y[2], x[2])'
          <5>1. y[2] # f.type
            BY <2>2, <4>2, <4>4 DEF Settled
          <5>2. ASSUME NEW m \in DOMAIN invocationList_'[f.inj],
                       NEW n \in DOMAIN invocationList_'[f.inj],
                       invocationList_'[f.inj][m] = y[2], invocationList_'[f.inj][n] = x[2]
                PROVE  m < n
            <6>1. m \in DOMAIN s /\ s[m] = y[2]
              BY <2>1, <5>1, <5>2
            <6>2. CASE n = Len(s) + 1
              BY <2>1, <6>1, <6>2
            <6>3. CASE n # Len(s) + 1
              <7>1. n \in DOMAIN s /\ s[n] = x[2]
                BY <2>1, <5>2, <6>3
              <7> QED
                BY <4>2, <4>4, <6>1, <7>1 DEF Before, s
            <6> QED
              BY <6>2, <6>3
          <5> QED
            BY <4>4, <5>2 DEF Before
        <4> QED
          BY <1>7, <4>2, <4>3, <4>4
      <3> QED
        BY <3>1, <3>2, <3>3, <3>4, <3>5 DEF OrderInv
    <2>4. InjectorTypeOK'
      <3>1. \A i \in Injectors : \A m, n \in DOMAIN invocationList_'[i] :
              invocationList_'[i][m] = invocationList_'[i][n] => m = n
        <4>1. ASSUME NEW i \in Injectors, i # f.inj,
                     NEW m \in DOMAIN invocationList_'[i], NEW n \in DOMAIN invocationList_'[i],
                     invocationList_'[i][m] = invocationList_'[i][n]
              PROVE  m = n
          BY <2>1, <4>1 DEF InjectorInv, InjectorTypeOK
        <4>2. ASSUME NEW m \in DOMAIN invocationList_'[f.inj],
                     NEW n \in DOMAIN invocationList_'[f.inj],
                     invocationList_'[f.inj][m] = invocationList_'[f.inj][n]
              PROVE  m = n
          <5>1. \A k \in DOMAIN s : s[k] # f.type
            BY <2>2 DEF Recorded, s
          <5>2. \A k, l \in DOMAIN s : s[k] = s[l] => k = l
            BY <1>4 DEF InjectorInv, InjectorTypeOK, s
          <5> QED
            BY <2>1, <4>2, <5>1, <5>2
        <4> QED
          BY <4>1, <4>2
      <3>2. \A i \in Injectors : left'[i] <= Len(invocationList_'[i])
        <4>1. /\ left' \in [Injectors -> Nat]
              /\ \A i \in Injectors : left'[i] <= Len(invocationList_[i])
          BY <1>1 DEF InjectorInv, InjectorTypeOK, lifeVars
        <4>2. left'[f.inj] <= Len(invocationList_'[f.inj])
          BY <1>4, <2>1, <4>1 DEF s
        <4> QED
          BY <2>1, <4>1, <4>2
      <3> QED
        BY <1>1, <1>3, <1>5, <1>6, <1>13, <3>1, <3>2
        DEF InjectorInv, InjectorTypeOK, Proceeds, instanceVars, lifeVars
    <2> QED
      BY <1>12, <1>13, <1>14, <2>3, <2>4 DEF InjectorInv
  <1> QED
    BY <1>2, <1>15, <1>16

-----------------------------------------------------------------------------
(* The instances: the last steps of a recipe. *)

\* The entry of T in the map of h is made, and points to x.
Entered(h, T, x) ==
  /\ ~HasKey(h, T)
  /\ typeMap_' = [typeMap_ EXCEPT ![h][T] = x]
  /\ alive' = alive \cup {x}
  /\ UNCHANGED <<recipeMap_, invocationList_, cycleVars, holds, lifeVars>>

LEMMA EntryIsThere ==
  ASSUME InjectorInv, NEW h \in Injectors, NEW T \in Types, NEW x \in Instance,
         Entered(h, T, x)
  PROVE  /\ typeMap_' \in [Injectors -> [Types -> Instance \cup {Null, NoEntry}]]
         /\ typeMap_'[h][T] = x /\ HasKey(h, T)'
         /\ \A i \in Injectors, U \in Types :
              /\ <<i, U>> # <<h, T>> => /\ typeMap_'[i][U] = typeMap_[i][U]
                                        /\ HasKey(i, U)' <=> HasKey(i, U)
              /\ HasKey(i, U) => HasKey(i, U)'
              /\ Found(i, U) => Found(i, U)'
         /\ \A y : Settled(y) => Settled(y)'
  <1> USE ConstantsFit
  <1>1. typeMap_ \in [Injectors -> [Types -> Instance \cup {Null, NoEntry}]]
    BY DEF InjectorInv, InjectorTypeOK
  <1>2. typeMap_' = [typeMap_ EXCEPT ![h][T] = x]
    BY DEF Entered
  <1>3. typeMap_' \in [Injectors -> [Types -> Instance \cup {Null, NoEntry}]]
    BY <1>1, <1>2
  <1>4. /\ typeMap_'[h][T] = x
        /\ \A i \in Injectors, U \in Types :
             <<i, U>> # <<h, T>> => typeMap_'[i][U] = typeMap_[i][U]
    BY <1>1, <1>2
  <1>5. HasKey(h, T)'
    BY <1>4 DEF HasKey
  <1>6. \A i \in Injectors, U \in Types :
          /\ <<i, U>> # <<h, T>> => (HasKey(i, U)' <=> HasKey(i, U))
          /\ HasKey(i, U) => HasKey(i, U)'
    BY <1>4, <1>5 DEF HasKey
  <1>7. \A i \in Injectors, U \in Types : Found(i, U) => Found(i, U)'
    BY <1>6 DEF Found
  <1>8. \A y : Settled(y) => Settled(y)'
    BY DEF Settled, Recorded, Entered
  <1> QED
    BY <1>3, <1>4, <1>5, <1>6, <1>7, <1>8

LEMMA EntryKeepsCalls ==
  ASSUME InjectorInv, Hypotheses, ~Idle(main), NEW f \in Frame, NEW c \in Frame,
         NEW step \in {"emplace", "release"}, Proceeds(f, c, step), Injecting(f),
         NEW h \in Lineage(f.inj), NEW x \in Instance, Entered(h, f.type, x),
         FrameInv(c)'
  PROVE  /\ CallsInv' /\ LockInv' /\ WorkersInv' /\ PhasesInv'
         /\ \A i \in Injectors : injectionMtx_'[i] # NoThread => calls'[injectionMtx_'[i]] # <<>>
  <1> USE ConstantsFit
  <1>1. f.inj \in Injectors /\ f.type \in Types /\ h \in Injectors
    BY DEF Frame
  <1>2. /\ \A i \in Injectors, U \in Types :
             /\ <<i, U>> # <<h, f.type>> => (HasKey(i, U)' <=> HasKey(i, U))
             /\ Found(i, U) => Found(i, U)'
        /\ \A y : Settled(y) => Settled(y)'
    BY <1>1, EntryIsThere
  <1>3. /\ alive' = alive \cup {x} /\ UNCHANGED <<recipeMap_, invocationList_, holds>>
        /\ UNCHANGED <<typeHashStack_, isInCycleCheck_, injectionMtx_>>
        /\ UNCHANGED <<thread, phase, left, mtx_>>
    BY DEF Entered, cycleVars, lifeVars
  <1>4. Injecting(c) /\ Busy(c) /\ Busy(f) /\ c.nested = f.nested /\ c.inj = f.inj
        /\ c.type = f.type /\ c.dep = f.dep
    BY DEF Proceeds, Busy, Injecting
  <1>5. ASSUME NEW g \in Frame, FrameInv(g), PairInv(f, g)
        PROVE  FrameInv(g)'
    <2>1. /\ g.inj \in Injectors /\ g.type \in Types /\ g.home \in Lineage(g.inj)
          /\ g.at = "recipe" /\ f.inj \in Lineage(g.home) /\ g.home \in Injectors
      BY <1>5 DEF Frame, PairInv, FrameInv, FramePlace
    <2>2. <<g.inj, g.type>> # <<h, f.type>>
      <3>1. SUFFICES ASSUME g.inj = h, g.type = f.type PROVE FALSE
        OBVIOUS
      <3>2. f.inj \in Lineage(g.inj)
        BY <2>1, Lineages DEF Hypotheses
      <3>3. f.inj = g.inj
        BY <2>1, <3>1, <3>2, Lineages DEF Hypotheses
      <3> QED
        BY <1>4, <1>5, <3>1, <3>3 DEF PairInv
    <2>3. FramePlace(g)' /\ FrameCycle(g)'
      BY <1>3, <1>5 DEF FrameInv, FramePlace, FrameCycle, BindsHere
    <2>4. FrameTypes(g)'
      BY <1>2, <1>3, <1>5, <2>1, <2>2 DEF FrameInv, FrameTypes, Making, Made, Recorded
    <2>5. FrameUses(g)'
      BY <1>2, <1>3, <1>5 DEF FrameInv, FrameUses
    <2> QED
      BY <2>3, <2>4, <2>5 DEF FrameInv
  <1>6. ASSUME NEW g \in Frame, PairInv(f, g)
        PROVE  PairInv(c, g)
    BY <1>4, <1>6 DEF PairInv
  <1>7. f = Top(main) /\ Goto(main, c) /\ calls'[main] # <<>>
        /\ \A u \in Threads \ {main} : calls'[u] = calls[u]
    BY DEF Proceeds
  <1>8. CallsInv'
    BY <1>5, <1>6, <1>7, CallsGoto DEF InjectorInv
  <1>9. /\ LockInv'
        /\ \A i \in Injectors : injectionMtx_'[i] # NoThread => calls'[injectionMtx_'[i]] # <<>>
    BY <1>3, <1>4, <1>7, LockGoto DEF InjectorInv
  <1>10. WorkersInv'
    <2>1. ASSUME NEW t \in Threads \ {main}
          PROVE  calls'[t] = calls[t] /\ holds'[t] = holds[t] /\ thread'[t] = thread[t]
      BY <1>3, <1>7
    <2>2. ASSUME NEW t \in Threads \ {main}
          PROVE  WorkerInv(t)'
      <3>1. WorkerInv(t)
        BY DEF InjectorInv, WorkersInv
      <3>2. (\E z \in alive : Serves[z[2]] = t) => (\E z \in alive' : Serves[z[2]] = t)
        BY <1>3
      <3> QED
        BY <2>1, <3>1, <3>2 DEF WorkerInv
    <2> QED
      BY <2>2 DEF WorkersInv
  <1>11. PhasesInv'
    BY <1>3 DEF InjectorInv, PhasesInv, Idle
  <1> QED
    BY <1>8, <1>9, <1>10, <1>11

LEMMA BindKeeps ==
  ASSUME InjectorInv, Hypotheses, Bind(main)
  PROVE  InjectorInv'
  <1> USE ConstantsFit
  <1>1. /\ ~Idle(main) /\ Top(main).at = "recipe"
        /\ UNCHANGED <<alive, refs, recipeMap_, invocationList_, cycleVars, holds, lifeVars>>
        /\ RecipeOf(main).binds
    BY DEF Bind, At, Top
  <1>2. PICK step \in {"emplace", "release"} :
          /\ Proceed(main, step)
          /\ step = "emplace" => /\ Top(main).type \notin Abstract
                                 /\ Top(main).dep # "NEW_VALUE"
    BY DEF Bind
  <1>3. PICK f \in Frame, c \in Frame : Proceeds(f, c, step)
    BY <1>1, <1>2, TopProceeds DEF Steps
  <1>4. /\ f.at = "recipe" /\ f.inj \in Injectors /\ f.type \in Types
        /\ f.home \in Injectors /\ f.home \in Lineage(f.inj) /\ phase[f.inj] = "alive"
        /\ step = "emplace" => f.dep = "REFERENCE" /\ f.type \notin Abstract
        /\ BindsHere(f) /\ FrameInv(f)
        /\ Rules[f.home][f.type] # NoRule
    <2>1. f.at = "recipe" /\ f = Top(main) /\ FrameInv(f)
      BY <1>1, <1>3 DEF Proceeds
    <2>2. f.inj \in Injectors /\ f.type \in Types /\ f.home \in Injectors
          /\ f.dep \in {"REFERENCE", "NEW_VALUE"}
      BY DEF Frame
    <2>3. /\ f.home \in Lineage(f.inj) /\ phase[f.inj] = "alive"
          /\ f.type \in recipeMap_[f.home]
      BY <2>1 DEF FrameInv, FramePlace
    <2>4. Rules[f.home][f.type] # NoRule
      BY <2>2, <2>3 DEF InjectorInv, PhasesInv
    <2> QED
      BY <1>1, <1>2, <2>1, <2>2, <2>3, <2>4 DEF BindsHere, RecipeOf
  <1>5. step = "emplace" => f.home = f.inj
    BY <1>4 DEF Hypotheses, NullIsNotUsed, Lineage, BindsHere
  <1>6. PICK impl \in f.args : Emplace(f.home, f.type, impl)
    BY <1>3 DEF Bind, Proceeds
  <1>7. impl \in alive /\ impl \in Instance /\ impl[1] \in Lineage(f.home)
    BY <1>4, <1>6 DEF FrameInv, FrameUses, Settled, InjectorInv, InjectorTypeOK
  <1>8. /\ HasKey(f.home, f.type)' => FrameTypes(c)'
        /\ FramePlace(c) /\ FrameUses(c) /\ FrameCycle(c)
    <2>1. FramePlace(c) /\ FrameUses(c) /\ FrameCycle(c)
      BY <1>2, <1>3, <1>4
      DEF Proceeds, FrameInv, FramePlace, FrameUses, FrameCycle, BindsHere, Busy, Injecting
    <2>2. ASSUME HasKey(f.home, f.type)' PROVE FrameTypes(c)'
      <3>1. Found(f.inj, f.type)'
        BY <1>4, <2>2 DEF Found
      <3>2. step = "emplace" => HasKey(f.inj, f.type)'
        BY <1>5, <2>2
      <3>3. Recorded(f.inj)' = Recorded(f.inj) /\ BindsHere(c)
        BY <1>1, <1>3, <1>4 DEF Recorded, BindsHere, Proceeds
      <3>4. f.dep = "REFERENCE" => f.type # Self /\ f.type \notin Recorded(f.inj)
        BY <1>4 DEF FrameInv, FrameTypes, Making
      <3>5. /\ c.inj = f.inj /\ c.type = f.type /\ c.dep = f.dep /\ c.at = step
        BY <1>3 DEF Proceeds
      <3> QED
        BY <1>2, <3>1, <3>2, <3>3, <3>4, <3>5 DEF FrameTypes, Making, Made
    <2> QED
      BY <2>1, <2>2
  <1>9. CASE HasKey(f.home, f.type)
    <2>1. Undisturbed
      BY <1>1, <1>6, <1>9 DEF Emplace, Undisturbed, StillLife, instanceVars
    <2>2. HasKey(f.home, f.type)'
      BY <1>9, <2>1 DEF Undisturbed, StillLife, instanceVars, HasKey
    <2>3. FrameTypes(c)' /\ typeMap_' = typeMap_ /\ invocationList_' = invocationList_
      BY <1>8, <2>1, <2>2 DEF Undisturbed, StillLife, instanceVars
    <2>4. FrameTypes(c)
      BY <2>3 DEF FrameTypes, HasKey, Recorded, Found, BindsHere
    <2>5. FrameInv(c)
      BY <1>8, <2>4 DEF FrameInv
    <2>6. ASSUME NEW g \in Frame, PairInv(Top(main), g)
          PROVE  PairInv(c, g)
      BY <1>2, <1>3, <1>4, <2>6 DEF PairInv, Busy, Injecting, Proceeds
    <2>7. Goto(main, c) /\ f = Top(main) /\ c.nested = f.nested /\ c.inj = f.inj /\ Injecting(c)
      BY <1>2, <1>3 DEF Proceeds, Injecting
    <2> QED
      BY <1>1, <2>1, <2>5, <2>6, <2>7, QuietGoto DEF Made
  <1>10. CASE ~HasKey(f.home, f.type)
    <2>1. Entered(f.home, f.type, impl)
      BY <1>1, <1>6, <1>7, <1>10 DEF Entered, Emplace
    <2>2. /\ typeMap_' \in [Injectors -> [Types -> Instance \cup {Null, NoEntry}]]
          /\ typeMap_'[f.home][f.type] = impl /\ HasKey(f.home, f.type)'
          /\ \A i \in Injectors, U \in Types :
               /\ <<i, U>> # <<f.home, f.type>> => /\ typeMap_'[i][U] = typeMap_[i][U]
                                                   /\ HasKey(i, U)' <=> HasKey(i, U)
               /\ Found(i, U) => Found(i, U)'
          /\ \A y : Settled(y) => Settled(y)'
      BY <1>4, <1>7, <2>1, EntryIsThere
    <2>3. FrameInv(c)'
      <3>1. FramePlace(c)' /\ FrameCycle(c)'
        BY <1>1, <1>8 DEF FramePlace, FrameCycle, BindsHere, cycleVars, lifeVars
      <3>2. FrameUses(c)'
        BY <1>1, <1>8, <2>2 DEF FrameUses
      <3> QED
        BY <1>8, <2>2, <3>1, <3>2 DEF FrameInv
    <2>4. /\ CallsInv' /\ LockInv' /\ WorkersInv' /\ PhasesInv'
          /\ \A i \in Injectors : injectionMtx_'[i] # NoThread => calls'[injectionMtx_'[i]] # <<>>
      <3>1. Injecting(f)
        BY <1>4 DEF Injecting
      <3> QED
        BY <1>1, <1>3, <1>4, <1>7, <2>1, <2>3, <3>1, EntryKeepsCalls
    <2>5. MapInv'
      <3>1. /\ UNCHANGED <<alive, phase>>
            /\ \A i \in Injectors : phase[i] # "gone" => <<i, Self>> \in alive
        BY <1>1 DEF lifeVars, InjectorInv, MapInv
      <3>2. ASSUME NEW z \in alive PROVE typeMap_'[z[1]][z[2]] = z /\ phase[z[1]] # "gone"
        <4>1. z \in Instance /\ typeMap_[z[1]][z[2]] = z /\ phase[z[1]] # "gone"
          BY DEF InjectorInv, MapInv, InjectorTypeOK
        <4>2. <<z[1], z[2]>> # <<f.home, f.type>>
          BY <1>10, <4>1 DEF HasKey
        <4> QED
          BY <2>2, <4>1, <4>2
      <3>3. ASSUME NEW i \in Injectors, NEW T \in Types, phase[i] = "alive",
                   typeMap_'[i][T] \notin {NoEntry, Null}
            PROVE  typeMap_'[i][T] \in alive /\ typeMap_'[i][T][1] \in Lineage(i)
        <4>1. CASE <<i, T>> = <<f.home, f.type>>
          BY <1>7, <2>2, <4>1
        <4>2. CASE <<i, T>> # <<f.home, f.type>>
          BY <2>2, <3>3, <4>2 DEF InjectorInv, MapInv
        <4> QED
          BY <4>1, <4>2
      <3>4. ASSUME NEW i \in Injectors, NEW T \in Types
            PROVE  /\ typeMap_'[i][T] \in {NoEntry, Null, <<i, T>>} \/ Bound(T)
                   /\ typeMap_'[i][T] = Null => T \in Fragile
        <4>1. CASE <<i, T>> = <<f.home, f.type>>
          BY <1>4, <1>7, <2>2, <4>1 DEF Bound, BindsHere
        <4>2. CASE <<i, T>> # <<f.home, f.type>>
          BY <2>2, <4>2 DEF InjectorInv, MapInv
        <4> QED
          BY <4>1, <4>2
      <3> QED
        BY <2>2, <3>1, <3>2, <3>3, <3>4 DEF MapInv
    <2>6. OrderInv'
      <3>1. /\ UNCHANGED <<alive, refs, invocationList_, phase, left>>
            /\ \A z \in alive : ~InProgress(z)
        BY <1>1 DEF lifeVars, InProgress, Made
      <3>2. \A i \in Injectors : phase'[i] = "alive" => \A T \in Recorded(i)' : Found(i, T)'
        <4>1. \A i \in Injectors : Recorded(i)' = Recorded(i) /\ Recorded(i) \subseteq Types
          BY <3>1 DEF Recorded, InjectorInv, InjectorTypeOK
        <4> QED
          BY <2>2, <3>1, <4>1 DEF InjectorInv, OrderInv
      <3>3. \A z \in alive : \A y \in Uses(z)' :
              /\ Settled(y)' /\ y # z /\ y[1] \in Lineage(z[1])
              /\ y[1] = z[1] => Before(z[1], y[2], z[2])'
        <4>1. \A i \in Injectors : \A A, B : Before(i, A, B) => Before(i, A, B)'
          BY <3>1 DEF Before
        <4>2. \A z \in alive : Uses(z)' = Uses(z) /\ z[1] \in Injectors
          BY <3>1 DEF Uses, InjectorInv, InjectorTypeOK
        <4>3. \A z \in alive : \A y \in Uses(z) :
                /\ Settled(y) /\ y # z /\ y[1] \in Lineage(z[1])
                /\ y[1] = z[1] => Before(z[1], y[2], z[2])
          BY DEF InjectorInv, OrderInv
        <4> QED
          BY <2>2, <4>1, <4>2, <4>3
      <3> QED
        BY <3>1, <3>2, <3>3 DEF InjectorInv, OrderInv, Recorded
    <2>7. InjectorTypeOK'
      <3>1. calls' \in [Threads -> Seq(Frame)]
        BY <1>3 DEF Proceeds
      <3>2. typeMap_' \in [Injectors -> [Types -> Instance \cup {Null, NoEntry}]]
        BY <2>2
      <3> QED
        BY <1>1, <2>4, <3>1, <3>2 DEF InjectorInv, InjectorTypeOK, cycleVars, lifeVars
    <2> QED
      BY <2>4, <2>5, <2>6, <2>7 DEF InjectorInv
  <1> QED
    BY <1>9, <1>10

LEMMA CreatedKeeps ==
  ASSUME InjectorInv, Hypotheses, ~Idle(main), NEW f \in Frame, NEW c \in Frame,
         Proceeds(f, c, "release"), f.at \in {"insert", "create"},
         NEW x \in Instance, x = <<f.inj, f.type>>, Entered(f.inj, f.type, x),
         refs' = [refs EXCEPT ![x] = f.args]
  PROVE  InjectorInv'
  <1> USE ConstantsFit
  <1>1. /\ f.inj \in Injectors /\ f.type \in Types /\ f.home \in Injectors
        /\ f = Top(main) /\ FrameInv(f)
        /\ c.inj = f.inj /\ c.type = f.type /\ c.dep = f.dep /\ c.at = "release"
        /\ c.home = f.home /\ c.args = f.args /\ c.nested = f.nested /\ c.next = f.next
    BY DEF Frame, Proceeds
  <1>2. /\ f.dep = "REFERENCE" /\ phase[f.inj] = "alive" /\ f.home \in Lineage(f.inj)
        /\ f.type # Self /\ f.type \notin Recorded(f.inj)
        /\ f.type \in typeHashStack_[f.inj] /\ isInCycleCheck_[f.inj]
        /\ f.next >= 1
    BY <1>1 DEF FrameInv, FramePlace, FrameTypes, FrameCycle, Making, Busy, Injecting
  <1>3. /\ \A y \in f.args : Settled(y) /\ y[1] \in Lineage(f.home)
        /\ \A y \in Fetched(f.type) :
             Settled(y) /\ y[1] = f.inj /\ Parent[f.inj] = NoInjector
    BY <1>1 DEF FrameInv, FrameUses
  <1>4. /\ ~HasKey(f.inj, f.type) /\ alive' = alive \cup {x}
        /\ UNCHANGED <<recipeMap_, invocationList_, holds, cycleVars>>
        /\ UNCHANGED <<typeHashStack_, isInCycleCheck_, injectionMtx_>>
        /\ UNCHANGED <<thread, phase, left, mtx_>>
    BY DEF Entered, cycleVars, lifeVars
  <1>5. /\ typeMap_' \in [Injectors -> [Types -> Instance \cup {Null, NoEntry}]]
        /\ typeMap_'[f.inj][f.type] = x /\ HasKey(f.inj, f.type)'
        /\ \A i \in Injectors, U \in Types :
             /\ <<i, U>> # <<f.inj, f.type>> => /\ typeMap_'[i][U] = typeMap_[i][U]
                                                /\ HasKey(i, U)' <=> HasKey(i, U)
             /\ Found(i, U) => Found(i, U)'
        /\ \A y : Settled(y) => Settled(y)'
    BY <1>1, EntryIsThere
  <1>6. /\ \A z \in alive : /\ z \in Instance /\ typeMap_[z[1]][z[2]] = z
                            /\ phase[z[1]] # "gone"
        /\ x \notin alive /\ x[1] = f.inj /\ x[2] = f.type
    <2>1. \A z \in alive : /\ z \in Instance /\ typeMap_[z[1]][z[2]] = z
                           /\ phase[z[1]] # "gone"
      BY DEF InjectorInv, MapInv, InjectorTypeOK
    <2>2. typeMap_[f.inj][f.type] = NoEntry
      BY <1>4 DEF HasKey
    <2> QED
      BY <2>1, <2>2
  <1>7. FrameInv(c)'
    <2>1. Recorded(f.inj)' = Recorded(f.inj) /\ Found(f.inj, f.type)'
      BY <1>1, <1>4, <1>5 DEF Recorded, Found
    <2>2. FramePlace(c)' /\ FrameCycle(c)'
      BY <1>1, <1>2, <1>4 DEF FramePlace, FrameCycle, BindsHere
    <2>3. FrameTypes(c)'
      BY <1>1, <1>2, <2>1 DEF FrameTypes, Making, Made
    <2>4. FrameUses(c)'
      BY <1>1, <1>3, <1>5 DEF FrameUses
    <2> QED
      BY <2>2, <2>3, <2>4 DEF FrameInv
  <1>8. /\ CallsInv' /\ LockInv' /\ WorkersInv' /\ PhasesInv'
        /\ \A i \in Injectors : injectionMtx_'[i] # NoThread => calls'[injectionMtx_'[i]] # <<>>
    <2>1. Injecting(f) /\ f.inj \in Lineage(f.inj)
      BY <1>1 DEF Injecting
    <2> QED
      BY <1>7, <2>1, EntryKeepsCalls
  <1>9. MapInv'
    <2>1. \A i \in Injectors : phase'[i] # "gone" => <<i, Self>> \in alive'
      BY <1>4 DEF InjectorInv, MapInv
    <2>2. ASSUME NEW z \in alive' PROVE typeMap_'[z[1]][z[2]] = z /\ phase'[z[1]] # "gone"
      <3>1. CASE z = x
        BY <1>2, <1>4, <1>5, <1>6, <3>1
      <3>2. CASE z # x
        <4>1. z \in alive /\ z \in Instance
          BY <1>4, <1>6, <3>2
        <4>2. <<z[1], z[2]>> # <<f.inj, f.type>>
          BY <3>2, <4>1
        <4> QED
          BY <1>4, <1>5, <1>6, <4>1, <4>2
      <3> QED
        BY <3>1, <3>2
    <2>3. ASSUME NEW i \in Injectors, NEW T \in Types, phase'[i] = "alive",
                 typeMap_'[i][T] \notin {NoEntry, Null}
          PROVE  typeMap_'[i][T] \in alive' /\ typeMap_'[i][T][1] \in Lineage(i)
      <3>1. CASE <<i, T>> = <<f.inj, f.type>>
        BY <1>4, <1>5, <1>6, <3>1
      <3>2. CASE <<i, T>> # <<f.inj, f.type>>
        <4>1. typeMap_'[i][T] = typeMap_[i][T] /\ phase[i] = "alive"
          BY <1>4, <1>5, <2>3, <3>2
        <4>2. typeMap_[i][T] \in alive /\ typeMap_[i][T][1] \in Lineage(i)
          BY <2>3, <4>1 DEF InjectorInv, MapInv
        <4> QED
          BY <1>4, <4>1, <4>2
      <3> QED
        BY <3>1, <3>2
    <2>4. ASSUME NEW i \in Injectors, NEW T \in Types
          PROVE  /\ typeMap_'[i][T] \in {NoEntry, Null, <<i, T>>} \/ Bound(T)
                 /\ typeMap_'[i][T] = Null => T \in Fragile
      <3>1. CASE <<i, T>> = <<f.inj, f.type>>
        <4>1. i = f.inj /\ T = f.type
          BY <3>1
        <4>2. typeMap_'[i][T] = <<i, T>> /\ x # Null
          BY <1>5, <4>1
        <4> QED
          BY <1>5, <4>1, <4>2
      <3>2. CASE <<i, T>> # <<f.inj, f.type>>
        BY <1>5, <3>2 DEF InjectorInv, MapInv
      <3> QED
        BY <3>1, <3>2
    <2>5. \A i \in Injectors, T \in Types :
            phase'[i] = "alive" /\ typeMap_'[i][T] \notin {NoEntry, Null} =>
              typeMap_'[i][T] \in alive' /\ typeMap_'[i][T][1] \in Lineage(i)
      BY <2>3
    <2> QED
      BY <2>1, <2>2, <2>4, <2>5 DEF MapInv
  <1>10. /\ refs' \in [Instance -> SUBSET Instance]
         /\ refs'[x] = f.args /\ \A z \in Instance : z # x => refs'[z] = refs[z]
    <2>1. f.args \subseteq Instance
      BY <1>3, <1>6 DEF Settled
    <2> QED
      BY <2>1 DEF InjectorInv, InjectorTypeOK
  <1>11. OrderInv'
    <2>1. \A i \in Injectors : /\ Recorded(i)' = Recorded(i) /\ Recorded(i) \subseteq Types
                               /\ \A A, B : Before(i, A, B) => Before(i, A, B)'
      BY <1>4 DEF Recorded, Before, InjectorInv, InjectorTypeOK
    <2>2. \A i \in Injectors : Self \notin Recorded(i)'
      BY <2>1 DEF InjectorInv, OrderInv
    <2>3. \A i \in Injectors : phase'[i] = "alive" => \A T \in Recorded(i)' : Found(i, T)'
      BY <1>4, <1>5, <2>1 DEF InjectorInv, OrderInv
    <2>4. InProgress(x)'
      BY <1>1, <1>2 DEF InProgress, Idle, Top, Made, Proceeds
    <2>5. ASSUME NEW z \in alive'
          PROVE  \/ z[2] = Self
                 \/ InProgress(z)'
                 \/ \E n \in DOMAIN invocationList_'[z[1]] :
                      /\ invocationList_'[z[1]][n] = z[2]
                      /\ phase'[z[1]] = "destroying" => n <= left'[z[1]]
      <3>1. ~InProgress(z)
        BY <1>1 DEF InProgress, Made
      <3>2. CASE z # x
        <4>1. z \in alive
          BY <1>4, <3>2
        <4> QED
          BY <1>4, <3>1, <4>1 DEF InjectorInv, OrderInv
      <3> QED
        BY <2>4, <3>2
    <2>6. \A z \in Instance : z \notin alive' \/ z[2] = Self => refs'[z] = {}
      BY <1>2, <1>4, <1>6, <1>10 DEF InjectorInv, OrderInv
    <2>7. ASSUME NEW z \in alive', NEW y \in Uses(z)'
          PROVE  /\ Settled(y)' /\ y # z /\ y[1] \in Lineage(z[1])
                 /\ y[1] = z[1] => Before(z[1], y[2], z[2])'
      <3>1. CASE z = x
        <4>1. y \in f.args \cup Fetched(f.type)
          BY <1>6, <1>10, <3>1 DEF Uses
        <4>2. Settled(y) /\ y[1] \in Lineage(f.inj)
          BY <1>1, <1>2, <1>3, <4>1, Lineages DEF Hypotheses
        <4>3. y # x
          BY <1>6, <4>2 DEF Settled
        <4>4. Before(f.inj, y[2], f.type)
          BY <1>2 DEF Before, Recorded
        <4> QED
          BY <1>1, <1>5, <1>6, <2>1, <3>1, <4>2, <4>3, <4>4
      <3>2. CASE z # x
        <4>1. z \in alive /\ z \in Instance
          BY <1>4, <1>6, <3>2
        <4>2. y \in Uses(z)
          BY <1>10, <3>2, <4>1 DEF Uses
        <4>3. /\ Settled(y) /\ y # z /\ y[1] \in Lineage(z[1])
              /\ y[1] = z[1] => Before(z[1], y[2], z[2])
          BY <4>1, <4>2 DEF InjectorInv, OrderInv
        <4> QED
          BY <1>5, <2>1, <4>1, <4>3
      <3> QED
        BY <3>1, <3>2
    <2> QED
      BY <2>2, <2>3, <2>5, <2>6, <2>7 DEF OrderInv
  <1>12. InjectorTypeOK'
    <2>1. calls' \in [Threads -> Seq(Frame)]
      BY DEF Proceeds
    <2>2. typeMap_' \in [Injectors -> [Types -> Instance \cup {Null, NoEntry}]]
      BY <1>5
    <2>3. alive' \subseteq Instance
      BY <1>4 DEF InjectorInv, InjectorTypeOK
    <2> QED
      BY <1>4, <1>8, <1>10, <2>1, <2>2, <2>3 DEF InjectorInv, InjectorTypeOK
  <1> QED
    BY <1>8, <1>9, <1>11, <1>12 DEF InjectorInv

LEMMA EmplacePtrKeeps ==
  ASSUME InjectorInv, Hypotheses, EmplacePtr(main)
  PROVE  InjectorInv'
  <1> USE ConstantsFit
  <1>1. /\ ~Idle(main) /\ Top(main).at = "insert" /\ Proceed(main, "release")
        /\ UNCHANGED <<recipeMap_, invocationList_, cycleVars, holds, lifeVars>>
    BY DEF EmplacePtr, At, Top
  <1>2. PICK f \in Frame, c \in Frame : Proceeds(f, c, "release")
    BY <1>1, TopProceeds DEF Steps
  <1>3. f = Top(main) /\ f.at = "insert" /\ f.inj \in Injectors /\ f.type \in Types
    BY <1>1, <1>2 DEF Proceeds, Frame
  <1>4. ~HasKey(f.inj, f.type) /\ ~RecipeOf(main).binds
    <2>1. FrameInv(f)
      BY <1>2 DEF Proceeds
    <2>2. f.dep = "REFERENCE" /\ ~BindsHere(f)
      BY <1>3, <2>1 DEF FrameInv, FramePlace
    <2>3. ~HasKey(f.inj, f.type)
      BY <1>3, <2>1, <2>2 DEF FrameInv, FrameTypes, Making
    <2> QED
      BY <1>3, <2>2, <2>3 DEF BindsHere, RecipeOf
  <1>5. PICK x \in Instance : x = <<f.inj, f.type>>
    BY <1>3
  <1>6. Emplace(f.inj, f.type, x) /\ alive' = alive \cup {x} /\ refs' = [refs EXCEPT ![x] = f.args]
    BY <1>3, <1>4, <1>5 DEF EmplacePtr
  <1>7. Entered(f.inj, f.type, x)
    BY <1>1, <1>4, <1>6 DEF Entered, Emplace
  <1> QED
    BY <1>1, <1>2, <1>3, <1>5, <1>6, <1>7, CreatedKeeps

\* A default constructor throws.
LEMMA NullKeeps ==
  ASSUME InjectorInv, ~Idle(main), ~Made(Top(main)), Throw(main),
         UNCHANGED <<alive, refs, recipeMap_, invocationList_, lifeVars>>,
         NEW h \in Injectors, NEW T \in Types, T \in Fragile, ~HasKey(h, T),
         typeMap_' = [typeMap_ EXCEPT ![h][T] = Null]
  PROVE  InjectorInv'
  <1> USE ConstantsFit
  <1>1. calls' = [calls EXCEPT ![main] = <<>>]
        /\ UNCHANGED <<holds, typeHashStack_, isInCycleCheck_, thread, phase, left, mtx_>>
    BY DEF Throw, lifeVars
  <1>2. /\ calls' \in [Threads -> Seq(Frame)] /\ calls'[main] = <<>>
        /\ \A u \in Threads \ {main} : calls'[u] = calls[u]
    BY <1>1, EmptyStack DEF InjectorInv
  <1>3. injectionMtx_' = [i \in Injectors |-> NoThread]
    BY DEF Throw, InjectorInv, LockInv
  <1>4. LockInv' /\ \A i \in Injectors : injectionMtx_'[i] = NoThread
    BY <1>3 DEF LockInv
  <1>5. CallsInv'
    BY <1>1, CallsEmpty DEF InjectorInv
  <1>6. /\ typeMap_' \in [Injectors -> [Types -> Instance \cup {Null, NoEntry}]]
        /\ typeMap_'[h][T] = Null
        /\ \A i \in Injectors, U \in Types :
             <<i, U>> # <<h, T>> => typeMap_'[i][U] = typeMap_[i][U]
        /\ \A i \in Injectors, U \in Types : Found(i, U) => Found(i, U)'
    <2>1. typeMap_ \in [Injectors -> [Types -> Instance \cup {Null, NoEntry}]]
      BY DEF InjectorInv, InjectorTypeOK
    <2>2. /\ typeMap_' \in [Injectors -> [Types -> Instance \cup {Null, NoEntry}]]
          /\ typeMap_'[h][T] = Null
          /\ \A i \in Injectors, U \in Types :
               <<i, U>> # <<h, T>> => typeMap_'[i][U] = typeMap_[i][U]
      BY <2>1
    <2>3. \A i \in Injectors, U \in Types : HasKey(i, U) => HasKey(i, U)'
      BY <2>2 DEF HasKey
    <2> QED
      BY <2>2, <2>3 DEF Found
  <1>7. WorkersInv'
    <2>1. ASSUME NEW u \in Threads \ {main} PROVE WorkerInv(u)'
      <3>1. WorkerInv(u) /\ calls'[u] = calls[u]
        BY <1>2 DEF InjectorInv, WorkersInv
      <3> QED
        BY <1>1, <3>1 DEF WorkerInv
    <2> QED
      BY <2>1 DEF WorkersInv
  <1>8. PhasesInv'
    BY <1>1, <1>2 DEF InjectorInv, PhasesInv
  <1>9. MapInv'
    <2>1. ASSUME NEW z \in alive PROVE typeMap_'[z[1]][z[2]] = z
      <3>1. z \in Instance /\ typeMap_[z[1]][z[2]] = z
        BY DEF InjectorInv, MapInv, InjectorTypeOK
      <3>2. <<z[1], z[2]>> # <<h, T>>
        BY <3>1 DEF HasKey
      <3> QED
        BY <1>6, <3>1, <3>2
    <2>2. ASSUME NEW i \in Injectors, NEW U \in Types
          PROVE  /\ typeMap_'[i][U] = Null => U \in Fragile
                 /\ phase[i] = "alive" /\ typeMap_'[i][U] \notin {NoEntry, Null} =>
                      typeMap_'[i][U] \in alive /\ typeMap_'[i][U][1] \in Lineage(i)
                 /\ typeMap_'[i][U] \in {NoEntry, Null, <<i, U>>} \/ Bound(U)
      <3>1. CASE <<i, U>> = <<h, T>>
        BY <1>6, <3>1
      <3>2. CASE <<i, U>> # <<h, T>>
        BY <1>6, <3>2 DEF InjectorInv, MapInv
      <3> QED
        BY <3>1, <3>2
    <2>3. /\ \A i \in Injectors : phase[i] # "gone" => <<i, Self>> \in alive
          /\ \A z \in alive : phase[z[1]] # "gone"
      BY DEF InjectorInv, MapInv
    <2> QED
      BY <1>1, <2>1, <2>2, <2>3 DEF MapInv
  <1>10. OrderInv'
    <2>1. /\ \A i : Recorded(i)' = Recorded(i)
          /\ \A i \in Injectors : Recorded(i) \subseteq Types
          /\ \A i, A, B : Before(i, A, B)' <=> Before(i, A, B)
          /\ \A y : Settled(y)' <=> Settled(y)
          /\ \A y : Uses(y)' = Uses(y)
      BY DEF Recorded, Before, Settled, Uses, InjectorInv, InjectorTypeOK
    <2>2. \A x : ~InProgress(x)
      BY DEF InProgress
    <2>3. \A i \in Injectors : phase'[i] = "alive" => \A U \in Recorded(i)' : Found(i, U)'
      BY <1>1, <1>6, <2>1 DEF InjectorInv, OrderInv
    <2>4. \A x \in alive' :
            \/ x[2] = Self
            \/ \E n \in DOMAIN invocationList_'[x[1]] :
                 /\ invocationList_'[x[1]][n] = x[2]
                 /\ phase'[x[1]] = "destroying" => n <= left'[x[1]]
      BY <1>1, <2>2 DEF InjectorInv, OrderInv
    <2>5. \A x \in alive' : \A y \in Uses(x)' :
            /\ Settled(y)' /\ y # x /\ y[1] \in Lineage(x[1])
            /\ y[1] = x[1] => Before(x[1], y[2], x[2])'
      BY <2>1 DEF InjectorInv, OrderInv
    <2>6. /\ \A i \in Injectors : Self \notin Recorded(i)'
          /\ \A x \in Instance : x \notin alive' \/ x[2] = Self => refs'[x] = {}
      BY <2>1 DEF InjectorInv, OrderInv
    <2> QED
      BY <2>3, <2>4, <2>5, <2>6 DEF OrderInv
  <1>11. InjectorTypeOK'
    <2>1. injectionMtx_' \in [Injectors -> Threads \cup {NoThread}]
      BY <1>3
    <2> QED
      BY <1>1, <1>2, <1>4, <1>6, <2>1 DEF InjectorInv, InjectorTypeOK
  <1> QED
    BY <1>4, <1>5, <1>7, <1>8, <1>9, <1>10, <1>11 DEF InjectorInv

LEMMA EmplaceDefaultKeeps ==
  ASSUME InjectorInv, Hypotheses, EmplaceDefault(main)
  PROVE  InjectorInv'
  <1> USE ConstantsFit
  <1>1. /\ ~Idle(main) /\ Top(main).at = "create"
        /\ UNCHANGED <<refs, recipeMap_, invocationList_, lifeVars>>
    BY DEF EmplaceDefault, At, Top
  <1>2. Top(main) \in Frame /\ FrameInv(Top(main))
    BY <1>1, TopFits
  <1>3. /\ Top(main).dep = "REFERENCE" /\ Top(main).type \in DefaultInit
        /\ Top(main).args = {} /\ ~HasKey(Top(main).inj, Top(main).type)
    <2>1. /\ Top(main).dep = "REFERENCE" /\ Top(main).type \in DefaultInit
          /\ Top(main).args = {}
      BY <1>1, <1>2 DEF FrameInv, FramePlace
    <2> QED
      BY <1>1, <1>2, <2>1 DEF FrameInv, FrameTypes, Making
  <1>4. CASE /\ Top(main).type \in Throwing /\ Throw(main) /\ UNCHANGED alive
              /\ Emplace(Top(main).inj, Top(main).type, Null)
    <2>1. /\ Top(main).inj \in Injectors /\ Top(main).type \in Fragile
          /\ Top(main).type \in Types
      BY <1>2, <1>3, <1>4 DEF Frame, Fragile
    <2>2. typeMap_' = [typeMap_ EXCEPT ![Top(main).inj][Top(main).type] = Null]
      BY <1>3, <1>4 DEF Emplace
    <2> QED
      BY <1>1, <1>3, <1>4, <2>1, <2>2, NullKeeps DEF Made
  <1>5. CASE
        /\ typeMap_' = [typeMap_ EXCEPT ![Top(main).inj][Top(main).type] =
                          <<Top(main).inj, Top(main).type>>]
        /\ alive' = alive \cup {<<Top(main).inj, Top(main).type>>}
        /\ Proceed(main, "release") /\ UNCHANGED <<cycleVars, holds>>
    <2>1. PICK f \in Frame, c \in Frame : Proceeds(f, c, "release")
      BY <1>1, <1>5, TopProceeds DEF Steps
    <2>2. /\ f = Top(main) /\ f.at = "create" /\ f.inj \in Injectors /\ f.type \in Types
          /\ f.args = {} /\ ~HasKey(f.inj, f.type)
      BY <1>1, <1>3, <2>1 DEF Proceeds, Frame
    <2>3. PICK x \in Instance : x = <<f.inj, f.type>>
      BY <2>2
    <2>4. Entered(f.inj, f.type, x)
      BY <1>1, <1>5, <2>2, <2>3 DEF Entered
    <2>5. refs' = [refs EXCEPT ![x] = f.args]
      <3>1. x \notin alive
        BY <2>2, <2>3 DEF HasKey, InjectorInv, MapInv
      <3>2. refs \in [Instance -> SUBSET Instance] /\ refs[x] = {} /\ refs' = refs
        BY <1>1, <3>1 DEF InjectorInv, OrderInv, InjectorTypeOK
      <3> QED
        BY <2>2, <3>2
    <2> QED
      BY <1>1, <2>1, <2>2, <2>3, <2>4, <2>5, CreatedKeeps
  <1> QED
    BY <1>4, <1>5 DEF EmplaceDefault

-----------------------------------------------------------------------------
(* The threads of Subsystems. *)

LEMMA WorkerFinds ==
  ASSUME InjectorInv, NEW t \in Threads \ {main}, thread[t] \in {"running", "stopping"},
         NEW y \in WantedBy(t)
  PROVE  /\ y \in alive /\ HasKey(y[1], y[2]) /\ typeMap_[y[1]][y[2]] = y
  <1> USE ConstantsFit
  <1>1. PICK x \in alive : Serves[x[2]] = t
    BY DEF InjectorInv, WorkersInv, WorkerInv
  <1>2. x[2] \in Types
    BY <1>1 DEF InjectorInv, InjectorTypeOK
  <1>3. y \in Uses(x)
    BY <1>1, <1>2 DEF Uses, Fetched
  <1>4. y \in alive
    BY <1>1, <1>3 DEF InjectorInv, OrderInv, Settled
  <1>5. y \in Instance /\ typeMap_[y[1]][y[2]] = y
    BY <1>4 DEF InjectorInv, MapInv, InjectorTypeOK
  <1> QED
    BY <1>4, <1>5 DEF HasKey

LEMMA WorkerMoves ==
  ASSUME InjectorInv, NEW t \in Threads \ {main}, StillLife, UNCHANGED cycleVars,
         calls' \in [Threads -> Seq(Frame)],
         holds' \in [Threads -> SUBSET (Instance \cup {Null})],
         \A u \in Threads \ {t} : calls'[u] = calls[u] /\ holds'[u] = holds[u],
         WorkerInv(t)'
  PROVE  InjectorInv'
  <1> USE ConstantsFit
  <1>1. /\ calls'[main] = calls[main]
        /\ UNCHANGED <<typeHashStack_, isInCycleCheck_, injectionMtx_>>
    BY DEF cycleVars
  <1>2. CallsInv'
    BY <1>1, FramesUndisturbed DEF InjectorInv, CallsInv
  <1>3. LockInv'
    BY <1>1 DEF InjectorInv, LockInv
  <1>4. \A x : InProgress(x)' <=> InProgress(x)
    BY <1>1 DEF InProgress, Idle, Top
  <1>5. WorkersInv'
    <2>1. ASSUME NEW u \in Threads \ {main, t} PROVE WorkerInv(u)'
      <3>1. WorkerInv(u) /\ calls'[u] = calls[u] /\ holds'[u] = holds[u]
        BY DEF InjectorInv, WorkersInv
      <3> QED
        BY <3>1 DEF WorkerInv, StillLife, instanceVars, lifeVars
    <2> QED
      BY <2>1 DEF WorkersInv
  <1>6. PhasesInv' /\ MapInv'
    BY <1>1 DEF InjectorInv, PhasesInv, MapInv, HasKey, StillLife, instanceVars, lifeVars
  <1>7. OrderInv'
    BY <1>4, OrderKept DEF InjectorInv, StillLife, instanceVars, lifeVars
  <1>8. InjectorTypeOK'
    <2>1. \A i \in Injectors : injectionMtx_'[i] # NoThread => calls'[injectionMtx_'[i]] # <<>>
      <3>1. \A i \in Injectors :
              injectionMtx_[i] # NoThread => injectionMtx_[i] = main /\ calls[main] # <<>>
        BY DEF InjectorInv, LockInv, InjectorTypeOK
      <3> QED
        BY <1>1, <3>1
    <2> QED
      BY <1>1, <2>1, TypesKept DEF InjectorInv, InjectorTypeOK
  <1> QED
    BY <1>2, <1>3, <1>5, <1>6, <1>7, <1>8 DEF InjectorInv

LEMMA WorkerStepKeeps ==
  ASSUME InjectorInv, NEW t \in Threads \ {main}, CallStep(t)
  PROVE  /\ InjectorInv'
         /\ calls'[main] = calls[main] /\ UNCHANGED <<typeMap_, cycleVars>>
  <1> USE ConstantsFit
  <1>1. ~Idle(t)
    BY DEF CallStep, HasInstance, AskUpstream, Ref, CycleDetected, MakeNested, MakeTopLevel,
           Lock, Release, Record, FindRecipe, Depend, Bind, Construct, CheckKey, EmplacePtr,
           EmplaceDefault, CreateInstance, Value, At
  <1>2. PICK f \in Frame : f = Top(t) /\ f = calls[t][1]
    BY <1>1, FramesTyped DEF InjectorInv
  <1>3. /\ thread[t] \in {"running", "stopping"} /\ Len(calls[t]) = 1
        /\ f.dep = "REFERENCE" /\ f.at \in {"has", "ref"} /\ f.args = {}
        /\ <<f.inj, f.type>> \in WantedBy(t)
        /\ holds[t] \subseteq WantedBy(t) /\ \E x \in alive : Serves[x[2]] = t
    BY <1>1, <1>2 DEF InjectorInv, WorkersInv, WorkerInv, Idle
  <1>4. HasKey(f.inj, f.type) /\ typeMap_[f.inj][f.type] = <<f.inj, f.type>>
    BY <1>3, WorkerFinds
  <1>5. CASE HasInstance(t)
    <2>1. /\ Proceed(t, "ref") /\ StillLife /\ UNCHANGED cycleVars /\ holds' = holds
          /\ thread' = thread /\ alive' = alive
      BY <1>2, <1>4, <1>5 DEF HasInstance, StillLife, instanceVars, lifeVars
    <2>2. PICK c \in Frame : c = [f EXCEPT !.at = "ref"]
      BY FrameMoves DEF Steps
    <2>3. /\ c.at = "ref" /\ c.inj = f.inj /\ c.type = f.type /\ c.dep = f.dep
          /\ c.args = f.args
      BY <2>2 DEF Frame
    <2>4. Goto(t, c)
      BY <1>2, <2>1, <2>2 DEF Proceed
    <2>5. /\ calls' \in [Threads -> Seq(Frame)] /\ Len(calls'[t]) = Len(calls[t])
          /\ calls'[t][1] = c
          /\ \A u \in Threads \ {t} : calls'[u] = calls[u]
      BY <1>1, <2>4, GotoStack DEF InjectorInv
    <2>6. WorkerInv(t)'
      BY <1>3, <2>1, <2>3, <2>5 DEF WorkerInv
    <2>7. InjectorInv'
      BY <2>1, <2>5, <2>6, WorkerMoves DEF InjectorInv, InjectorTypeOK
    <2> QED
      BY <2>1, <2>5, <2>7 DEF StillLife, instanceVars
  <1>6. CASE Ref(t)
    <2>1. /\ Return(t, {<<f.inj, f.type>>}) /\ StillLife /\ UNCHANGED cycleVars
          /\ thread' = thread /\ alive' = alive
      BY <1>2, <1>4, <1>6 DEF Ref, StillLife, instanceVars, lifeVars
    <2>2. /\ calls' = [calls EXCEPT ![t] = <<>>]
          /\ holds' = [holds EXCEPT ![t] = {<<f.inj, f.type>>}]
      BY <1>3, <2>1 DEF Return
    <2>3. /\ calls' \in [Threads -> Seq(Frame)] /\ calls'[t] = <<>>
          /\ \A u \in Threads \ {t} : calls'[u] = calls[u]
      BY <2>2, EmptyStack DEF InjectorInv
    <2>4. /\ holds' \in [Threads -> SUBSET (Instance \cup {Null})]
          /\ holds'[t] = {<<f.inj, f.type>>}
          /\ \A u \in Threads \ {t} : holds'[u] = holds[u]
      <3>1. <<f.inj, f.type>> \in Instance
        BY <1>3 DEF WantedBy
      <3>2. holds \in [Threads -> SUBSET (Instance \cup {Null})]
        BY DEF InjectorInv, InjectorTypeOK
      <3> QED
        BY <2>2, <3>1, <3>2
    <2>5. WorkerInv(t)'
      BY <1>3, <2>1, <2>3, <2>4 DEF WorkerInv
    <2>6. InjectorInv'
      BY <2>1, <2>3, <2>4, <2>5, WorkerMoves
    <2> QED
      BY <2>1, <2>3, <2>6 DEF StillLife, instanceVars
  <1> QED
    BY <1>2, <1>3, <1>5, <1>6
    DEF CallStep, HasInstance, AskUpstream, Ref, CycleDetected, MakeNested, MakeTopLevel,
        Lock, Release, Record, FindRecipe, Depend, Bind, Construct, CheckKey, EmplacePtr,
        EmplaceDefault, CreateInstance, Value, At, Top

-----------------------------------------------------------------------------
(* Between the calls of main. *)

LEMMA MainIsIdle ==
  ASSUME InjectorInv, Idle(main)
  PROVE  /\ calls[main] = <<>> /\ DOMAIN calls[main] = {}
         /\ \A i \in Injectors : injectionMtx_[i] = NoThread
         /\ \A x : ~InProgress(x)
         /\ \A x \in alive : x[2] # Self =>
              \E n \in DOMAIN invocationList_[x[1]] :
                /\ invocationList_[x[1]][n] = x[2]
                /\ phase[x[1]] = "destroying" => n <= left[x[1]]
         /\ \A x \in alive : Settled(x)
  <1>1. calls[main] = <<>> /\ DOMAIN calls[main] = {}
    BY DEF Idle
  <1>2. \A i \in Injectors : injectionMtx_[i] = NoThread
    BY <1>1 DEF InjectorInv, LockInv
  <1>3. \A x : ~InProgress(x)
    BY DEF InProgress
  <1>4. \A x \in alive : x[2] # Self =>
          \E n \in DOMAIN invocationList_[x[1]] :
            /\ invocationList_[x[1]][n] = x[2]
            /\ phase[x[1]] = "destroying" => n <= left[x[1]]
    BY <1>3 DEF InjectorInv, OrderInv
  <1>5. \A x \in alive : Settled(x)
    BY <1>4 DEF Settled, Recorded
  <1> QED
    BY <1>1, <1>2, <1>3, <1>4, <1>5

LEMMA IdleStays ==
  ASSUME InjectorInv, Idle(main), UNCHANGED <<calls, cycleVars>>
  PROVE  CallsInv' /\ LockInv' /\ \A i \in Injectors : injectionMtx_'[i] = NoThread
  BY MainIsIdle DEF CallsInv, LockInv, cycleVars

LEMMA AddRecipeKeeps ==
  ASSUME InjectorInv, NEW i \in Injectors, NEW T \in Types, AddRecipe(i, T)
  PROVE  InjectorInv'
  <1> USE ConstantsFit
  <1>1. /\ Idle(main) /\ T \in Late[i]
        /\ recipeMap_' = [recipeMap_ EXCEPT ![i] = @ \cup {T}]
        /\ UNCHANGED <<instanceVars, invocationList_, cycleVars, calls, holds, lifeVars>>
    BY DEF AddRecipe, MainFree
  <1>2. CallsInv' /\ LockInv' /\ \A j \in Injectors : injectionMtx_'[j] = NoThread
    BY <1>1, IdleStays
  <1>3. recipeMap_' \in [Injectors -> SUBSET Types]
    BY <1>1 DEF InjectorInv, InjectorTypeOK
  <1>4. \A j \in Injectors : recipeMap_'[j] \subseteq {U \in Types : Rules[j][U] # NoRule}
    BY <1>1, InjectorAssumption DEF InjectorInv, PhasesInv, InjectorTypeOK
  <1>5. PhasesInv'
    BY <1>1, <1>4 DEF InjectorInv, PhasesInv, lifeVars
  <1>6. WorkersInv'
    BY <1>1 DEF InjectorInv, WorkersInv, WorkerInv, instanceVars, lifeVars
  <1>7. MapInv' /\ OrderInv'
    <2>1. MapInv'
      BY <1>1 DEF InjectorInv, MapInv, HasKey, instanceVars, lifeVars
    <2>2. OrderInv'
      BY <1>1, MainIsIdle, OrderKept DEF InjectorInv, instanceVars, lifeVars
    <2> QED
      BY <2>1, <2>2
  <1>8. InjectorTypeOK'
    BY <1>1, <1>2, <1>3 DEF InjectorInv, InjectorTypeOK, cycleVars, instanceVars, lifeVars
  <1> QED
    BY <1>2, <1>5, <1>6, <1>7, <1>8 DEF InjectorInv

LEMMA OpenStack ==
  ASSUME InjectorTypeOK, NEW t \in Threads, NEW c \in Frame,
         calls' = [calls EXCEPT ![t] = <<c>>]
  PROVE  /\ calls' \in [Threads -> Seq(Frame)]
         /\ calls'[t] = <<c>> /\ calls'[t] # <<>> /\ DOMAIN calls'[t] = {1}
         /\ Len(calls'[t]) = 1 /\ calls'[t][1] = c
         /\ \A u \in Threads \ {t} : calls'[u] = calls[u]
  <1>1. <<c>> \in Seq(Frame) /\ <<c>> # <<>> /\ Len(<<c>>) = 1 /\ <<c>>[1] = c
    OBVIOUS
  <1>2. DOMAIN <<c>> = {1}
    OBVIOUS
  <1> DEFINE s == <<c>>
  <1> HIDE DEF s
  <1>3. calls' = [calls EXCEPT ![t] = s] /\ s \in Seq(Frame)
    BY <1>1 DEF s
  <1>4. /\ calls' \in [Threads -> Seq(Frame)] /\ calls'[t] = s
        /\ \A u \in Threads \ {t} : calls'[u] = calls[u]
    BY <1>3 DEF InjectorTypeOK
  <1> QED
    BY <1>1, <1>2, <1>4 DEF s

LEMMA CallFits ==
  ASSUME NEW i \in Injectors, NEW T \in Types, NEW dep \in {"REFERENCE", "NEW_VALUE"}
  PROVE  /\ Call(i, T, dep) \in Frame
         /\ Call(i, T, dep).inj = i /\ Call(i, T, dep).type = T /\ Call(i, T, dep).dep = dep
         /\ Call(i, T, dep).at = (IF dep = "REFERENCE" THEN "has" ELSE "make")
         /\ Call(i, T, dep).nested = FALSE /\ Call(i, T, dep).home = i
         /\ Call(i, T, dep).next = 1 /\ Call(i, T, dep).args = {}
  BY DEF Call, Frame

LEMMA WorkerRequestKeeps ==
  ASSUME InjectorInv, Hypotheses, NEW t \in Threads \ {main}, NEW i \in Injectors,
         NEW want \in Dependency, Request(t, i, want)
  PROVE  /\ InjectorInv'
         /\ calls'[main] = calls[main] /\ UNCHANGED <<typeMap_, cycleVars>>
  <1> USE ConstantsFit
  <1>1. /\ Idle(t) /\ thread[t] \in {"running", "stopping"} /\ want \in Wanted[t][i]
        /\ calls' = [calls EXCEPT ![t] = <<Call(i, want.type, want.how)>>]
        /\ StillLife /\ UNCHANGED <<cycleVars, holds>>
        /\ alive' = alive /\ thread' = thread
    BY DEF Request, StillLife, instanceVars, lifeVars
  <1>2. want.how = "REFERENCE" /\ want.type \in Types
    BY <1>1 DEF Hypotheses, MainCreates
  <1>3. <<i, want.type>> \in WantedBy(t)
    <2>1. [type |-> want.type, how |-> "REFERENCE"] \in Wanted[t][i]
      BY <1>1, <1>2
    <2> QED
      BY <1>2, <2>1 DEF WantedBy
  <1>4. PICK c \in Frame : c = Call(i, want.type, want.how)
    BY <1>2, CallFits
  <1>5. c.inj = i /\ c.type = want.type /\ c.dep = "REFERENCE" /\ c.at = "has" /\ c.args = {}
    BY <1>2, <1>4 DEF Call
  <1>6. /\ calls' \in [Threads -> Seq(Frame)]
        /\ Len(calls'[t]) = 1 /\ calls'[t][1] = c
        /\ \A u \in Threads \ {t} : calls'[u] = calls[u]
    BY <1>1, <1>4, OpenStack DEF InjectorInv
  <1>7. WorkerInv(t)'
    <2>1. WorkerInv(t)
      BY DEF InjectorInv, WorkersInv
    <2> QED
      BY <1>1, <1>3, <1>5, <1>6, <2>1 DEF WorkerInv
  <1>8. InjectorInv'
    BY <1>1, <1>6, <1>7, WorkerMoves DEF InjectorInv, InjectorTypeOK
  <1> QED
    BY <1>1, <1>6, <1>8 DEF StillLife, instanceVars

\* What the thread of a Subsystem asks for is there when main asks for the Subsystem.
LEMMA FetchedIsReady ==
  ASSUME InjectorInv, Hypotheses, NEW i \in Injectors, NEW want \in Dependency,
         Request(main, i, want), NEW y \in Fetched(want.type)
  PROVE  Settled(y) /\ y[1] = i /\ Parent[i] = NoInjector
  <1> USE ConstantsFit
  <1>1. /\ Idle(main) /\ phase[i] = "alive" /\ want \in Wanted[main][i]
        /\ \A U \in Ready[want.type] : \E j \in Lineage(i) : HasKey(j, U)
    BY DEF Request, MainFree
  <1> DEFINE t == Serves[want.type]
             w == [type |-> y[2], how |-> "REFERENCE"]
  <1>2. /\ t # NoThread /\ t \in Threads \ {main} /\ y \in WantedBy(t) /\ want.type \in Types
        /\ y \in Instance
    BY DEF Fetched, WantedBy
  <1>3. w \in Wanted[t][y[1]] /\ w \in Dependency /\ w.type = y[2]
    BY <1>2 DEF WantedBy, Dependency
  <1> HIDE DEF w
  <1>4. /\ Parent[y[1]] = NoInjector /\ ~Bound(y[2])
        /\ y[2] \in Ready[want.type]
        /\ \A j \in Injectors : \A v \in Wanted[main][j] : v.type = want.type => j = y[1]
    BY <1>2, <1>3 DEF Hypotheses, MainCreates
  <1>5. y[1] = i
    BY <1>1, <1>4
  <1>6. HasKey(i, y[2])
    BY <1>1, <1>4, <1>5 DEF Lineage
  <1>7. typeMap_[i][y[2]] = y
    <2>1. y[2] \notin Fragile
      <3>1. [type |-> y[2], how |-> "REFERENCE"] \in Wanted[t][y[1]]
        BY <1>3 DEF w
      <3> QED
        BY <1>2, <3>1 DEF Hypotheses, NullIsNotUsed
    <2> QED
      BY <1>2, <1>4, <1>5, <1>6, <2>1 DEF InjectorInv, MapInv, HasKey
  <1>8. y \in alive
    BY <1>1, <1>2, <1>7 DEF InjectorInv, MapInv
  <1> QED
    BY <1>1, <1>4, <1>5, <1>8, MainIsIdle

LEMMA MainRequestKeeps ==
  ASSUME InjectorInv, Hypotheses, NEW i \in Injectors, NEW want \in Dependency,
         Request(main, i, want)
  PROVE  InjectorInv'
  <1> USE ConstantsFit
  <1>1. /\ Idle(main) /\ phase[i] = "alive" /\ want \in Wanted[main][i]
        /\ \A j \in Injectors : phase[j] # "destroying"
        /\ calls' = [calls EXCEPT ![main] = <<Call(i, want.type, want.how)>>]
        /\ StillLife /\ UNCHANGED <<cycleVars, holds>>
    BY DEF Request, StillLife, MainFree
  <1>2. want.type \in Types /\ want.how \in {"REFERENCE", "NEW_VALUE"}
    OBVIOUS
  <1>3. PICK c \in Frame : c = Call(i, want.type, want.how)
    BY <1>2, CallFits
  <1>4. /\ c.inj = i /\ c.type = want.type /\ c.dep = want.how
        /\ c.at = (IF want.how = "REFERENCE" THEN "has" ELSE "make")
        /\ c.home = i /\ c.args = {} /\ c.next = 1 /\ ~c.nested
    BY <1>2, <1>3 DEF Call
  <1>5. /\ calls' \in [Threads -> Seq(Frame)] /\ calls'[main] # <<>>
        /\ DOMAIN calls'[main] = {1} /\ calls'[main][1] = c
        /\ \A u \in Threads \ {main} : calls'[u] = calls[u]
    BY <1>1, <1>3, OpenStack DEF InjectorInv
  <1>6. FrameInv(c)
    <2>1. \A y \in Fetched(c.type) : Settled(y) /\ y[1] = c.inj /\ Parent[c.inj] = NoInjector
      BY <1>4, FetchedIsReady
    <2> QED
      BY <1>1, <1>2, <1>4, <2>1
      DEF FrameInv, FramePlace, FrameTypes, FrameUses, FrameCycle, Making, Made, Busy, Injecting
  <1>7. CallsInv'
    <2>1. FrameInv(c)'
      BY <1>1, <1>6, FramesUndisturbed
    <2>2. ASSUME NEW n \in DOMAIN calls'[main], NEW g, g = calls'[main][n]
          PROVE  FrameInv(g)'
      <3>1. g = c
        BY <1>5, <2>2
      <3> QED
        BY <2>1, <3>1
    <2>3. \A m, n \in DOMAIN calls'[main] : ~(m < n)
      BY <1>5
    <2> QED
      BY <2>2, <2>3 DEF CallsInv
  <1>8. /\ \A j \in Injectors : injectionMtx_'[j] = NoThread
        /\ \A x : ~InProgress(x)
    BY <1>1, MainIsIdle DEF cycleVars
  <1>9. LockInv'
    BY <1>8 DEF LockInv
  <1>10. WorkersInv'
    <2>1. ASSUME NEW u \in Threads \ {main} PROVE WorkerInv(u)'
      <3>1. WorkerInv(u) /\ calls'[u] = calls[u]
        BY <1>5 DEF InjectorInv, WorkersInv
      <3> QED
        BY <1>1, <3>1 DEF WorkerInv, StillLife, instanceVars, lifeVars
    <2> QED
      BY <2>1 DEF WorkersInv
  <1>11. PhasesInv'
    BY <1>1 DEF InjectorInv, PhasesInv, StillLife, lifeVars
  <1>12. MapInv'
    BY <1>1 DEF InjectorInv, MapInv, HasKey, StillLife, instanceVars, lifeVars
  <1>13. OrderInv'
    BY <1>1, <1>8, OrderKept DEF InjectorInv, StillLife, instanceVars, lifeVars
  <1>14. InjectorTypeOK'
    BY <1>1, <1>5, <1>8, TypesKept DEF InjectorInv, InjectorTypeOK, cycleVars
  <1> QED
    BY <1>7, <1>9, <1>10, <1>11, <1>12, <1>13, <1>14 DEF InjectorInv

LEMMA StartKeeps ==
  ASSUME InjectorInv, NEW i \in Injectors, NEW T \in Types, Start(i, T)
  PROVE  InjectorInv'
  <1> USE ConstantsFit
  <1> DEFINE t == Serves[T]
  <1>1. /\ Idle(main) /\ t # NoThread /\ thread[t] = "none" /\ <<i, T>> \in alive
        /\ thread' = [thread EXCEPT ![t] = "running"]
        /\ UNCHANGED <<typeMap_, alive, refs, recipeMap_, invocationList_, cycleVars, calls,
                       holds, phase, left, mtx_>>
    BY DEF Start, MainFree, instanceVars
  <1>2. t \in Threads \ {main}
    BY <1>1
  <1> HIDE DEF t
  <1>3. /\ thread' \in [Threads -> {"none", "running", "stopping", "done"}]
        /\ thread'[t] = "running"
        /\ \A u \in Threads \ {t} : thread'[u] = thread[u]
    BY <1>1, <1>2 DEF InjectorInv, InjectorTypeOK
  <1>4. CallsInv' /\ LockInv' /\ \A j \in Injectors : injectionMtx_'[j] = NoThread
    BY <1>1, IdleStays
  <1>5. ASSUME NEW u \in Threads \ {main} PROVE WorkerInv(u)'
    <2>1. WorkerInv(u)
      BY DEF InjectorInv, WorkersInv
    <2>2. CASE u = t
      <3>1. calls'[u] = <<>>
        BY <1>1, <2>1, <2>2 DEF WorkerInv
      <3>2. \E x \in alive' : Serves[x[2]] = t
        <4>1. <<i, T>>[2] = T /\ <<i, T>> \in alive'
          BY <1>1
        <4> QED
          BY <4>1 DEF t
      <3> QED
        BY <1>1, <2>1, <2>2, <3>1, <3>2 DEF WorkerInv
    <2>3. CASE u # t
      BY <1>1, <1>3, <2>1, <2>3 DEF WorkerInv
    <2> QED
      BY <2>2, <2>3
  <1>6. WorkersInv'
    BY <1>5 DEF WorkersInv
  <1>7. PhasesInv'
    BY <1>1, <1>2, <1>3 DEF InjectorInv, PhasesInv
  <1>8. MapInv'
    BY <1>1 DEF InjectorInv, MapInv, HasKey
  <1>9. OrderInv'
    BY <1>1, MainIsIdle, OrderKept DEF InjectorInv
  <1>10. InjectorTypeOK'
    BY <1>1, <1>3, <1>4 DEF InjectorInv, InjectorTypeOK, cycleVars
  <1> QED
    BY <1>4, <1>6, <1>7, <1>8, <1>9, <1>10 DEF InjectorInv

-----------------------------------------------------------------------------
(* The destructor. *)

LEMMA DestroyKeeps ==
  ASSUME InjectorInv, NEW i \in Injectors, Destroy(i)
  PROVE  InjectorInv'
  <1> USE ConstantsFit
  <1>1. /\ Idle(main) /\ phase[i] = "alive"
        /\ \A j \in Injectors : Parent[j] = i => phase[j] = "gone"
        /\ phase' = [phase EXCEPT ![i] = "destroying"]
        /\ left' = [left EXCEPT ![i] = Len(invocationList_[i])]
        /\ UNCHANGED <<typeMap_, alive, refs, recipeMap_, invocationList_, cycleVars, calls,
                       holds, thread, mtx_>>
    BY DEF Destroy, MainFree, Downstream, instanceVars
  <1>2. phase \in [Injectors -> {"alive", "destroying", "gone"}]
    BY DEF InjectorInv, InjectorTypeOK
  <1>3. /\ phase' \in [Injectors -> {"alive", "destroying", "gone"}]
        /\ phase'[i] = "destroying"
        /\ \A j \in Injectors : j # i => phase'[j] = phase[j]
    BY <1>1, <1>2
  <1>4. CallsInv' /\ LockInv' /\ \A j \in Injectors : injectionMtx_'[j] = NoThread
    BY <1>1, IdleStays
  <1>5. WorkersInv'
    BY <1>1 DEF InjectorInv, WorkersInv, WorkerInv
  <1>6. PhasesInv'
    <2>1. ASSUME NEW j \in Injectors, phase'[j] # "gone", Parent[j] # NoInjector
          PROVE  phase'[Parent[j]] = "alive"
      <3>1. phase[j] # "gone"
        BY <1>1, <1>3, <2>1
      <3>2. Parent[j] # i /\ Parent[j] \in Injectors
        BY <1>1, <2>1, <3>1, InjectorAssumption
      <3> QED
        BY <1>3, <2>1, <3>1, <3>2 DEF InjectorInv, PhasesInv
    <2> QED
      BY <1>1, <2>1 DEF InjectorInv, PhasesInv, Idle
  <1>7. MapInv'
    <2>1. \A j \in Injectors : /\ phase'[j] # "gone" <=> phase[j] # "gone"
                               /\ phase'[j] = "alive" => phase[j] = "alive"
      BY <1>1, <1>3
    <2>2. alive \subseteq Instance
      BY DEF InjectorInv, InjectorTypeOK
    <2> QED
      BY <1>1, <2>1, <2>2 DEF InjectorInv, MapInv, HasKey
  <1>8. OrderInv'
    <2>1. ASSUME NEW x \in alive', x[2] # Self
          PROVE  \E n \in DOMAIN invocationList_'[x[1]] :
                   /\ invocationList_'[x[1]][n] = x[2]
                   /\ phase'[x[1]] = "destroying" => n <= left'[x[1]]
      <3>1. x \in alive /\ x[1] \in Injectors
        BY <1>1 DEF InjectorInv, InjectorTypeOK
      <3>2. PICK n \in DOMAIN invocationList_[x[1]] :
              /\ invocationList_[x[1]][n] = x[2]
              /\ phase[x[1]] = "destroying" => n <= left[x[1]]
        BY <1>1, <2>1, <3>1, MainIsIdle
      <3>3. n <= Len(invocationList_[x[1]])
        BY <3>1, <3>2 DEF InjectorInv, InjectorTypeOK
      <3>4. left'[x[1]] = IF x[1] = i THEN Len(invocationList_[x[1]]) ELSE left[x[1]]
        BY <1>1, <3>1 DEF InjectorInv, InjectorTypeOK
      <3> QED
        BY <1>1, <1>3, <3>1, <3>2, <3>3, <3>4
    <2>2. /\ \A j \in Injectors : Recorded(j)' = Recorded(j)
          /\ \A j \in Injectors, U \in Types : Found(j, U)' <=> Found(j, U)
          /\ \A x : Settled(x)' <=> Settled(x)
          /\ \A x \in alive : Uses(x)' = Uses(x)
          /\ \A j, A, B : Before(j, A, B)' <=> Before(j, A, B)
      BY <1>1 DEF Recorded, Found, HasKey, Settled, Uses, Before
    <2>3. \A j \in Injectors : phase'[j] = "alive" => \A T \in Recorded(j)' : Found(j, T)'
      <3>1. \A j \in Injectors : Recorded(j) \subseteq Types
        BY DEF Recorded, InjectorInv, InjectorTypeOK
      <3> QED
        BY <1>1, <1>3, <2>2, <3>1 DEF InjectorInv, OrderInv
    <2>4. \A x \in alive' : \A y \in Uses(x)' :
            /\ Settled(y)' /\ y # x /\ y[1] \in Lineage(x[1])
            /\ y[1] = x[1] => Before(x[1], y[2], x[2])'
      BY <1>1, <2>2 DEF InjectorInv, OrderInv
    <2>5. /\ \A j \in Injectors : Self \notin Recorded(j)'
          /\ \A x \in Instance : x \notin alive' \/ x[2] = Self => refs'[x] = {}
      BY <1>1, <2>2 DEF InjectorInv, OrderInv
    <2> QED
      BY <2>1, <2>3, <2>4, <2>5 DEF OrderInv
  <1>9. InjectorTypeOK'
    <2>1. /\ left' \in [Injectors -> Nat]
          /\ \A j \in Injectors : left'[j] <= Len(invocationList_[j])
      <3>1. Len(invocationList_[i]) \in Nat /\ Len(invocationList_[i]) <= Len(invocationList_[i])
        BY DEF InjectorInv, InjectorTypeOK
      <3> QED
        BY <1>1, <3>1 DEF InjectorInv, InjectorTypeOK
    <2> QED
      BY <1>1, <1>3, <1>4, <2>1 DEF InjectorInv, InjectorTypeOK, cycleVars
  <1> QED
    BY <1>4, <1>5, <1>6, <1>7, <1>8, <1>9 DEF InjectorInv

LEMMA LockTypeMapKeeps ==
  ASSUME InjectorInv, NEW i \in Injectors, LockTypeMap(i)
  PROVE  InjectorInv'
  <1>1. /\ phase[i] = "destroying" /\ mtx_' = [mtx_ EXCEPT ![i] = TRUE]
        /\ UNCHANGED <<typeMap_, alive, refs, recipeMap_, invocationList_, cycleVars, calls,
                       holds, thread, phase, left>>
    BY DEF LockTypeMap, instanceVars
  <1>2. Idle(main)
    BY <1>1 DEF InjectorInv, PhasesInv, Idle
  <1>3. CallsInv' /\ LockInv' /\ \A j \in Injectors : injectionMtx_'[j] = NoThread
    BY <1>1, <1>2, IdleStays
  <1>4. WorkersInv' /\ PhasesInv'
    BY <1>1 DEF InjectorInv, WorkersInv, WorkerInv, PhasesInv
  <1>5. MapInv'
    BY <1>1 DEF InjectorInv, MapInv, HasKey
  <1>6. OrderInv'
    BY <1>1, <1>2, MainIsIdle, OrderKept DEF InjectorInv
  <1>7. InjectorTypeOK'
    BY <1>1, <1>3 DEF InjectorInv, InjectorTypeOK, cycleVars
  <1> QED
    BY <1>3, <1>4, <1>5, <1>6, <1>7 DEF InjectorInv

LEMMA StopThreadKeeps ==
  ASSUME InjectorInv, NEW i \in Injectors, StopThread(i)
  PROVE  InjectorInv'
  <1> USE ConstantsFit
  <1> DEFINE t == Serves[Current(i)]
  <1>1. /\ phase[i] = "destroying" /\ t # NoThread /\ thread[t] = "running"
        /\ thread' = [thread EXCEPT ![t] = "stopping"] /\ left[i] > 0
        /\ UNCHANGED <<typeMap_, alive, refs, recipeMap_, invocationList_, cycleVars, calls,
                       holds, phase, left, mtx_>>
    BY DEF StopThread, instanceVars
  <1>2. Current(i) \in Types
    BY <1>1 DEF Current, InjectorInv, InjectorTypeOK
  <1>3. t \in Threads \ {main} /\ Idle(main)
    BY <1>1, <1>2 DEF InjectorInv, PhasesInv, Idle
  <1> HIDE DEF t
  <1>4. /\ thread' \in [Threads -> {"none", "running", "stopping", "done"}]
        /\ thread'[t] = "stopping"
        /\ \A u \in Threads \ {t} : thread'[u] = thread[u]
    BY <1>1, <1>3 DEF InjectorInv, InjectorTypeOK
  <1>5. CallsInv' /\ LockInv' /\ \A j \in Injectors : injectionMtx_'[j] = NoThread
    BY <1>1, <1>3, IdleStays
  <1>6. ASSUME NEW u \in Threads \ {main} PROVE WorkerInv(u)'
    <2>1. WorkerInv(u)
      BY DEF InjectorInv, WorkersInv
    <2>2. CASE u = t
      BY <1>1, <1>4, <2>1, <2>2 DEF WorkerInv
    <2>3. CASE u # t
      BY <1>1, <1>4, <2>1, <2>3 DEF WorkerInv
    <2> QED
      BY <2>2, <2>3
  <1>7. WorkersInv'
    BY <1>6 DEF WorkersInv
  <1>8. PhasesInv'
    BY <1>1, <1>3, <1>4 DEF InjectorInv, PhasesInv
  <1>9. MapInv'
    BY <1>1 DEF InjectorInv, MapInv, HasKey
  <1>10. OrderInv'
    BY <1>1, <1>3, MainIsIdle, OrderKept DEF InjectorInv
  <1>11. InjectorTypeOK'
    BY <1>1, <1>4, <1>5 DEF InjectorInv, InjectorTypeOK, cycleVars
  <1> QED
    BY <1>5, <1>7, <1>8, <1>9, <1>10, <1>11 DEF InjectorInv

\* Nothing that is not itself going down has an injector that goes down above it.
LEMMA LineageStays ==
  ASSUME InjectorInv, NEW i \in Injectors, phase[i] = "destroying",
         NEW j \in Injectors, phase[j] # "gone", i \in Lineage(j)
  PROVE  i = j
  BY DEF InjectorInv, PhasesInv, Lineage

LEMMA EraseKeeps ==
  ASSUME InjectorInv, NEW i \in Injectors, Erase(i)
  PROVE  InjectorInv'
  <1> USE ConstantsFit
  <1> DEFINE T == Current(i)
             e == <<i, T>>
  <1>1. /\ phase[i] = "destroying" /\ left[i] > 0
        /\ typeMap_' = [typeMap_ EXCEPT ![i][T] = NoEntry]
        /\ left' = [left EXCEPT ![i] = @ - 1]
        /\ mtx_' = [mtx_ EXCEPT ![i] = FALSE]
        /\ UNCHANGED <<recipeMap_, invocationList_, cycleVars, calls, holds, phase>>
    BY DEF Erase
  <1>2. Idle(main)
    BY <1>1 DEF InjectorInv, PhasesInv, Idle
  <1>3. /\ left[i] \in DOMAIN invocationList_[i] /\ invocationList_[i][left[i]] = T
        /\ T \in Types /\ T \in Recorded(i) /\ left[i] \in Nat
    <2>1. /\ invocationList_[i] \in Seq(Types) /\ left[i] \in Nat
          /\ left[i] <= Len(invocationList_[i])
      BY DEF InjectorInv, InjectorTypeOK
    <2>2. left[i] \in DOMAIN invocationList_[i]
      BY <1>1, <2>1
    <2> QED
      BY <2>1, <2>2 DEF Current, Recorded
  <1>4. T # Self /\ e \in Instance /\ e[1] = i /\ e[2] = T
    BY <1>3 DEF InjectorInv, OrderInv
  <1>5. /\ alive' = alive \ {e}
        /\ refs' \in [Instance -> SUBSET Instance] /\ refs'[e] = {}
        /\ \A z \in Instance : z # e => refs'[z] = refs[z]
    <2>1. refs \in [Instance -> SUBSET Instance]
      BY DEF InjectorInv, InjectorTypeOK
    <2>2. CASE Owns(i, T)
      BY <1>4, <2>1, <2>2 DEF Erase
    <2>3. CASE ~Owns(i, T)
      <3>1. alive' = alive /\ refs' = refs
        BY <2>3 DEF Erase
      <3>2. typeMap_[i][T] # e
        BY <1>4, <2>3 DEF Owns
      <3>3. e \notin alive
        BY <1>4, <3>2 DEF InjectorInv, MapInv
      <3>4. refs[e] = {}
        BY <1>4, <3>3 DEF InjectorInv, OrderInv
      <3> QED
        BY <2>1, <3>1, <3>3, <3>4
    <2> QED
      BY <2>2, <2>3
  <1>6. /\ thread' \in [Threads -> {"none", "running", "stopping", "done"}]
        /\ \A t \in Threads :
             \/ thread'[t] = thread[t] /\ (t = Serves[T] => alive' = alive)
             \/ t = Serves[T] /\ thread'[t] = "done" /\ calls[t] = <<>>
    <2>1. thread \in [Threads -> {"none", "running", "stopping", "done"}]
      BY DEF InjectorInv, InjectorTypeOK
    <2>2. CASE Owns(i, T)
      <3>1. thread' = [t \in Threads |-> IF t = Serves[T] THEN "done" ELSE thread[t]]
            /\ Joined(i)
        BY <2>2 DEF Erase
      <3> QED
        BY <2>1, <3>1 DEF Joined, Idle
    <2>3. CASE ~Owns(i, T)
      BY <2>1, <2>3 DEF Erase
    <2> QED
      BY <2>2, <2>3
  <1> HIDE DEF T, e
  <1>7. /\ typeMap_' \in [Injectors -> [Types -> Instance \cup {Null, NoEntry}]]
        /\ typeMap_'[i][T] = NoEntry
        /\ \A j \in Injectors, U \in Types :
             <<j, U>> # <<i, T>> => /\ typeMap_'[j][U] = typeMap_[j][U]
                                    /\ HasKey(j, U)' <=> HasKey(j, U)
    <2>1. typeMap_ \in [Injectors -> [Types -> Instance \cup {Null, NoEntry}]]
      BY DEF InjectorInv, InjectorTypeOK
    <2> QED
      BY <1>1, <1>3, <2>1 DEF HasKey
  <1>8. left' \in [Injectors -> Nat] /\ left'[i] = left[i] - 1
        /\ \A j \in Injectors : j # i => left'[j] = left[j]
    <2>1. left \in [Injectors -> Nat] /\ left[i] - 1 \in Nat
      BY <1>1, <1>3 DEF InjectorInv, InjectorTypeOK
    <2> QED
      BY <1>1, <2>1
  <1>9. CallsInv' /\ LockInv' /\ \A j \in Injectors : injectionMtx_'[j] = NoThread
    BY <1>1, <1>2, IdleStays
  <1>10. ASSUME NEW t \in Threads \ {main} PROVE WorkerInv(t)'
    <2>1. WorkerInv(t) /\ calls'[t] = calls[t] /\ holds'[t] = holds[t]
      BY <1>1 DEF InjectorInv, WorkersInv
    <2>2. CASE thread'[t] = "done" /\ calls[t] = <<>>
      BY <2>1, <2>2 DEF WorkerInv
    <2>3. CASE thread'[t] = thread[t] /\ (t = Serves[T] => alive' = alive)
      <3>1. ASSUME NEW x \in alive, Serves[x[2]] = t
            PROVE  x \in alive'
        BY <1>4, <1>5, <2>3, <3>1
      <3> QED
        BY <2>1, <2>3, <3>1 DEF WorkerInv
    <2> QED
      BY <1>6, <2>2, <2>3
  <1>11. WorkersInv'
    BY <1>10 DEF WorkersInv
  <1>12. PhasesInv'
    <2>1. thread'[main] = "running"
      BY <1>3, <1>6 DEF InjectorInv, PhasesInv
    <2> QED
      BY <1>1, <2>1 DEF InjectorInv, PhasesInv
  <1>13. \A z \in alive' : z \in alive /\ z \in Instance /\ z # e /\ <<z[1], z[2]>> # <<i, T>>
    <2>1. \A z \in alive' : z \in alive /\ z \in Instance /\ z # e
      BY <1>5 DEF InjectorInv, InjectorTypeOK
    <2> QED
      BY <2>1 DEF e
  <1>14. MapInv'
    <2>1. ASSUME NEW j \in Injectors, phase'[j] # "gone" PROVE <<j, Self>> \in alive'
      <3>1. <<j, Self>> \in alive /\ <<j, Self>>[2] = Self
        BY <1>1, <2>1 DEF InjectorInv, MapInv
      <3> QED
        BY <1>4, <1>5, <3>1
    <2>2. \A z \in alive' : typeMap_'[z[1]][z[2]] = z /\ phase'[z[1]] # "gone"
      <3>1. \A z \in alive : typeMap_[z[1]][z[2]] = z /\ phase[z[1]] # "gone"
        BY DEF InjectorInv, MapInv
      <3> QED
        BY <1>1, <1>7, <1>13, <3>1
    <2>3. ASSUME NEW j \in Injectors, NEW U \in Types, phase'[j] = "alive",
                 typeMap_'[j][U] \notin {NoEntry, Null}
          PROVE  typeMap_'[j][U] \in alive' /\ typeMap_'[j][U][1] \in Lineage(j)
      <3>1. phase[j] = "alive" /\ j # i /\ phase[j] # "gone"
        BY <1>1, <2>3
      <3>2. <<j, U>> # <<i, T>>
        BY <3>1
      <3>3. typeMap_'[j][U] = typeMap_[j][U]
        BY <1>7, <2>3, <3>2
      <3>4. typeMap_[j][U] \in alive /\ typeMap_[j][U][1] \in Lineage(j)
        BY <2>3, <3>1, <3>3 DEF InjectorInv, MapInv
      <3>5. typeMap_[j][U] # e
        BY <1>1, <1>4, <3>1, <3>4, LineageStays
      <3> QED
        BY <1>5, <3>3, <3>4, <3>5
    <2>4. \A j \in Injectors, U \in Types :
            /\ typeMap_'[j][U] \in {NoEntry, Null, <<j, U>>} \/ Bound(U)
            /\ typeMap_'[j][U] = Null => U \in Fragile
      BY <1>7 DEF InjectorInv, MapInv
    <2> QED
      BY <1>7, <2>1, <2>2, <2>3, <2>4 DEF MapInv
  <1>15. OrderInv'
    <2>1. /\ \A j : Recorded(j)' = Recorded(j)
          /\ \A j, A, B : Before(j, A, B)' <=> Before(j, A, B)
      BY <1>1 DEF Recorded, Before
    <2>2. \A j \in Injectors : Self \notin Recorded(j)'
      BY <2>1 DEF InjectorInv, OrderInv
    <2>3. ASSUME NEW j \in Injectors, phase'[j] = "alive", NEW U \in Recorded(j)'
          PROVE  Found(j, U)'
      <3>1. phase[j] = "alive" /\ U \in Recorded(j) /\ U \in Types
        BY <1>1, <2>1, <2>3 DEF Recorded, InjectorInv, InjectorTypeOK
      <3>2. PICK k \in Lineage(j) : HasKey(k, U)
        BY <3>1 DEF InjectorInv, OrderInv, Found
      <3>3. k # i /\ k \in Injectors
        BY <1>1, <3>1, <3>2, LineageLives
      <3>4. HasKey(k, U)'
        BY <1>7, <3>1, <3>2, <3>3
      <3> QED
        BY <3>2, <3>4 DEF Found
    <2>4. ASSUME NEW z \in alive', z[2] # Self
          PROVE  \E n \in DOMAIN invocationList_'[z[1]] :
                   /\ invocationList_'[z[1]][n] = z[2]
                   /\ phase'[z[1]] = "destroying" => n <= left'[z[1]]
      <3>1. z \in alive /\ z[1] \in Injectors /\ <<z[1], z[2]>> # <<i, T>>
        BY <1>13
      <3>2. PICK n \in DOMAIN invocationList_[z[1]] :
              /\ invocationList_[z[1]][n] = z[2]
              /\ phase[z[1]] = "destroying" => n <= left[z[1]]
        BY <1>2, <2>4, <3>1, MainIsIdle
      <3>3. CASE z[1] = i
        <4>1. n # left[i] /\ n <= left[i] /\ n \in Nat
          BY <1>1, <1>3, <3>1, <3>2, <3>3 DEF InjectorInv, InjectorTypeOK
        <4>2. n <= left[i] - 1
          BY <1>3, <4>1
        <4> QED
          BY <1>1, <1>8, <3>2, <3>3, <4>2
      <3>4. CASE z[1] # i
        BY <1>1, <1>8, <3>1, <3>2, <3>4
      <3> QED
        BY <3>3, <3>4
    <2>5. \A z \in Instance : z \notin alive' \/ z[2] = Self => refs'[z] = {}
      BY <1>4, <1>5 DEF InjectorInv, OrderInv
    <2>6. ASSUME NEW z \in alive', NEW y \in Uses(z)'
          PROVE  /\ Settled(y)' /\ y # z /\ y[1] \in Lineage(z[1])
                 /\ y[1] = z[1] => Before(z[1], y[2], z[2])'
      <3>1. z \in alive /\ z \in Instance /\ z # e
        BY <1>13
      <3>2. y \in Uses(z)
        BY <1>5, <3>1 DEF Uses
      <3>3. /\ Settled(y) /\ y # z /\ y[1] \in Lineage(z[1])
            /\ y[1] = z[1] => Before(z[1], y[2], z[2])
        BY <3>1, <3>2 DEF InjectorInv, OrderInv
      <3>4. y # e
        <4>1. SUFFICES ASSUME y = e PROVE FALSE
          OBVIOUS
        <4>2. z[1] = i
          <5>1. z[1] \in Injectors /\ phase[z[1]] # "gone" /\ i \in Lineage(z[1])
            BY <1>4, <3>1, <3>3, <4>1 DEF InjectorInv, MapInv
          <5> QED
            BY <1>1, <5>1, LineageStays
        <4>3. z[2] # Self
          <5>1. ASSUME z[2] = Self PROVE FALSE
            <6>1. refs[z] = {} /\ Fetched(z[2]) = {}
              BY <3>1, <5>1 DEF InjectorInv, OrderInv, Fetched
            <6> QED
              BY <3>2, <6>1 DEF Uses
          <5> QED
            BY <5>1
        <4>4. PICK n \in DOMAIN invocationList_[i] :
                invocationList_[i][n] = z[2] /\ n <= left[i]
          BY <1>1, <1>2, <3>1, <4>2, <4>3, MainIsIdle
        <4>5. Before(i, T, z[2])
          BY <1>4, <3>3, <4>1, <4>2
        <4>6. left[i] < n
          BY <1>3, <4>4, <4>5 DEF Before
        <4>7. n \in Nat
          BY DEF InjectorInv, InjectorTypeOK
        <4> QED
          BY <1>3, <4>4, <4>6, <4>7
      <3>5. Settled(y)'
        BY <1>5, <2>1, <3>3, <3>4 DEF Settled
      <3> QED
        BY <2>1, <3>3, <3>5
    <2> QED
      BY <2>2, <2>3, <2>4, <2>5, <2>6 DEF OrderInv
  <1>16. InjectorTypeOK'
    <2>1. typeMap_' \in [Injectors -> [Types -> Instance \cup {Null, NoEntry}]]
      BY <1>7
    <2>2. alive' \subseteq Instance
      BY <1>13
    <2>3. \A j \in Injectors : left'[j] <= Len(invocationList_[j])
      <3>1. \A j \in Injectors : left[j] \in Nat /\ left[j] <= Len(invocationList_[j])
                                 /\ Len(invocationList_[j]) \in Nat
        BY DEF InjectorInv, InjectorTypeOK
      <3>2. left'[i] <= Len(invocationList_[i])
        BY <1>8, <3>1
      <3> QED
        BY <1>8, <3>1, <3>2
    <2> QED
      BY <1>1, <1>5, <1>6, <1>8, <1>9, <2>1, <2>2, <2>3
      DEF InjectorInv, InjectorTypeOK, cycleVars
  <1> QED
    BY <1>9, <1>11, <1>12, <1>14, <1>15, <1>16 DEF InjectorInv

LEMMA DestroyedKeeps ==
  ASSUME InjectorInv, NEW i \in Injectors, Destroyed(i)
  PROVE  InjectorInv'
  <1> USE ConstantsFit
  <1>1. /\ phase[i] = "destroying" /\ left[i] = 0
        /\ alive' = {x \in alive : x[1] # i}
        /\ refs' = [x \in Instance |-> IF x[1] = i THEN {} ELSE refs[x]]
        /\ typeMap_' = [typeMap_ EXCEPT ![i] = [T \in Types |-> NoEntry]]
        /\ phase' = [phase EXCEPT ![i] = "gone"]
        /\ UNCHANGED <<recipeMap_, invocationList_, cycleVars, calls, holds, thread, left, mtx_>>
    BY DEF Destroyed
  <1>2. Idle(main)
    BY <1>1 DEF InjectorInv, PhasesInv, Idle
  <1>3. /\ phase' \in [Injectors -> {"alive", "destroying", "gone"}]
        /\ phase'[i] = "gone" /\ \A j \in Injectors : j # i => phase'[j] = phase[j]
    BY <1>1 DEF InjectorInv, InjectorTypeOK
  <1>4. /\ typeMap_' \in [Injectors -> [Types -> Instance \cup {Null, NoEntry}]]
        /\ \A T \in Types : typeMap_'[i][T] = NoEntry
        /\ \A j \in Injectors, U \in Types :
             j # i => /\ typeMap_'[j][U] = typeMap_[j][U]
                      /\ HasKey(j, U)' <=> HasKey(j, U)
    <2>1. typeMap_ \in [Injectors -> [Types -> Instance \cup {Null, NoEntry}]]
      BY DEF InjectorInv, InjectorTypeOK
    <2> QED
      BY <1>1, <2>1 DEF HasKey
  <1>5. /\ \A z \in alive' : z \in alive /\ z \in Instance /\ z[1] # i
        /\ refs' \in [Instance -> SUBSET Instance]
        /\ \A z \in Instance : refs'[z] = IF z[1] = i THEN {} ELSE refs[z]
    BY <1>1 DEF InjectorInv, InjectorTypeOK
  <1>6. \A z \in alive : z[1] = i => z[2] = Self
    <2>1. SUFFICES ASSUME NEW z \in alive, z[1] = i, z[2] # Self PROVE FALSE
      OBVIOUS
    <2>2. PICK n \in DOMAIN invocationList_[i] : n <= left[i]
      BY <1>1, <1>2, <2>1, MainIsIdle
    <2>3. n >= 1 /\ n \in Nat
      BY DEF InjectorInv, InjectorTypeOK
    <2> QED
      BY <1>1, <2>2, <2>3
  <1>7. CallsInv' /\ LockInv' /\ \A j \in Injectors : injectionMtx_'[j] = NoThread
    BY <1>1, <1>2, IdleStays
  <1>8. ASSUME NEW t \in Threads \ {main} PROVE WorkerInv(t)'
    <2>1. /\ WorkerInv(t) /\ calls'[t] = calls[t] /\ holds'[t] = holds[t]
          /\ thread'[t] = thread[t]
      BY <1>1 DEF InjectorInv, WorkersInv
    <2>2. ASSUME NEW x \in alive, Serves[x[2]] = t PROVE x \in alive'
      BY <1>1, <1>6, <2>2
    <2> QED
      BY <2>1, <2>2 DEF WorkerInv
  <1>9. WorkersInv'
    BY <1>8 DEF WorkersInv
  <1>10. PhasesInv'
    <2>1. ASSUME NEW j \in Injectors, phase'[j] # "gone", Parent[j] # NoInjector
          PROVE  phase'[Parent[j]] = "alive"
      <3>1. j # i /\ phase[Parent[j]] = "alive" /\ Parent[j] \in Injectors
        BY <1>3, <2>1, InjectorAssumption DEF InjectorInv, PhasesInv
      <3> QED
        BY <1>1, <1>3, <3>1
    <2>2. \A j \in Injectors : phase'[j] = "destroying" => calls'[main] = <<>>
      BY <1>1, <1>2 DEF Idle
    <2> QED
      BY <1>1, <2>1, <2>2 DEF InjectorInv, PhasesInv
  <1>11. MapInv'
    <2>1. ASSUME NEW j \in Injectors, phase'[j] # "gone" PROVE <<j, Self>> \in alive'
      <3>1. j # i /\ <<j, Self>> \in alive /\ <<j, Self>>[1] = j
        BY <1>3, <2>1 DEF InjectorInv, MapInv
      <3> QED
        BY <1>1, <3>1
    <2>2. \A z \in alive' : typeMap_'[z[1]][z[2]] = z /\ phase'[z[1]] # "gone"
      <3>1. \A z \in alive : typeMap_[z[1]][z[2]] = z /\ phase[z[1]] # "gone"
        BY DEF InjectorInv, MapInv
      <3> QED
        BY <1>3, <1>4, <1>5, <3>1
    <2>3. ASSUME NEW j \in Injectors, NEW U \in Types, phase'[j] = "alive",
                 typeMap_'[j][U] \notin {NoEntry, Null}
          PROVE  typeMap_'[j][U] \in alive' /\ typeMap_'[j][U][1] \in Lineage(j)
      <3>1. j # i /\ phase[j] = "alive" /\ phase[j] # "gone"
        BY <1>3, <2>3
      <3>2. typeMap_'[j][U] = typeMap_[j][U]
        BY <1>4, <2>3, <3>1
      <3>3. typeMap_[j][U] \in alive /\ typeMap_[j][U][1] \in Lineage(j)
        BY <2>3, <3>1, <3>2 DEF InjectorInv, MapInv
      <3>4. typeMap_[j][U][1] # i
        BY <1>1, <3>1, <3>3, LineageStays
      <3> QED
        BY <1>1, <3>2, <3>3, <3>4
    <2>4. \A j \in Injectors, U \in Types :
            /\ typeMap_'[j][U] \in {NoEntry, Null, <<j, U>>} \/ Bound(U)
            /\ typeMap_'[j][U] = Null => U \in Fragile
      <3>1. ASSUME NEW j \in Injectors, NEW U \in Types
            PROVE  /\ typeMap_'[j][U] \in {NoEntry, Null, <<j, U>>} \/ Bound(U)
                   /\ typeMap_'[j][U] = Null => U \in Fragile
        <4>1. CASE j = i
          BY <1>4, <4>1
        <4>2. CASE j # i
          BY <1>4, <4>2 DEF InjectorInv, MapInv
        <4> QED
          BY <4>1, <4>2
      <3> QED
        BY <3>1
    <2> QED
      BY <1>4, <2>1, <2>2, <2>3, <2>4 DEF MapInv
  <1>12. OrderInv'
    <2>1. /\ \A j : Recorded(j)' = Recorded(j)
          /\ \A j, A, B : Before(j, A, B)' <=> Before(j, A, B)
      BY <1>1 DEF Recorded, Before
    <2>2. \A j \in Injectors : Self \notin Recorded(j)'
      BY <2>1 DEF InjectorInv, OrderInv
    <2>3. ASSUME NEW j \in Injectors, phase'[j] = "alive", NEW U \in Recorded(j)'
          PROVE  Found(j, U)'
      <3>1. phase[j] = "alive" /\ U \in Recorded(j) /\ U \in Types
        BY <1>1, <1>3, <2>1, <2>3 DEF Recorded, InjectorInv, InjectorTypeOK
      <3>2. PICK k \in Lineage(j) : HasKey(k, U)
        BY <3>1 DEF InjectorInv, OrderInv, Found
      <3>3. k # i /\ k \in Injectors
        BY <1>1, <3>1, <3>2, LineageLives
      <3>4. HasKey(k, U)'
        BY <1>4, <3>1, <3>2, <3>3
      <3> QED
        BY <3>2, <3>4 DEF Found
    <2>4. ASSUME NEW z \in alive', z[2] # Self
          PROVE  \E n \in DOMAIN invocationList_'[z[1]] :
                   /\ invocationList_'[z[1]][n] = z[2]
                   /\ phase'[z[1]] = "destroying" => n <= left'[z[1]]
      <3>1. z \in alive /\ z[1] \in Injectors /\ z[1] # i
        BY <1>5
      <3>2. PICK n \in DOMAIN invocationList_[z[1]] :
              /\ invocationList_[z[1]][n] = z[2]
              /\ phase[z[1]] = "destroying" => n <= left[z[1]]
        BY <1>2, <2>4, <3>1, MainIsIdle
      <3> QED
        BY <1>1, <1>3, <3>1, <3>2
    <2>5. \A z \in Instance : z \notin alive' \/ z[2] = Self => refs'[z] = {}
      BY <1>1, <1>5 DEF InjectorInv, OrderInv
    <2>6. ASSUME NEW z \in alive', NEW y \in Uses(z)'
          PROVE  /\ Settled(y)' /\ y # z /\ y[1] \in Lineage(z[1])
                 /\ y[1] = z[1] => Before(z[1], y[2], z[2])'
      <3>1. z \in alive /\ z \in Instance /\ z[1] # i /\ z[1] \in Injectors
        BY <1>5
      <3>2. y \in Uses(z)
        BY <1>5, <3>1 DEF Uses
      <3>3. /\ Settled(y) /\ y # z /\ y[1] \in Lineage(z[1])
            /\ y[1] = z[1] => Before(z[1], y[2], z[2])
        BY <3>1, <3>2 DEF InjectorInv, OrderInv
      <3>4. y[1] # i
        <4>1. phase[z[1]] # "gone"
          BY <3>1 DEF InjectorInv, MapInv
        <4> QED
          BY <1>1, <3>1, <3>3, <4>1, LineageStays
      <3>5. Settled(y)'
        BY <1>1, <2>1, <3>3, <3>4 DEF Settled
      <3> QED
        BY <2>1, <3>3, <3>5
    <2> QED
      BY <2>2, <2>3, <2>4, <2>5, <2>6 DEF OrderInv
  <1>13. InjectorTypeOK'
    <2>1. typeMap_' \in [Injectors -> [Types -> Instance \cup {Null, NoEntry}]]
      BY <1>4
    <2>2. alive' \subseteq Instance
      BY <1>5
    <2> QED
      BY <1>1, <1>3, <1>5, <1>7, <2>1, <2>2 DEF InjectorInv, InjectorTypeOK, cycleVars
  <1> QED
    BY <1>7, <1>9, <1>10, <1>11, <1>12, <1>13 DEF InjectorInv

-----------------------------------------------------------------------------
(* Null pointers. *)

\* A step brings no null pointer into a map.
NoNewNull ==
  \A i \in Injectors, T \in Types : typeMap_'[i][T] = Null => typeMap_[i][T] = Null

LEMMA NullsStill ==
  ASSUME NullsInv, NoNewNull, calls'[main] = calls[main],
         UNCHANGED <<typeHashStack_, isInCycleCheck_>>
  PROVE  NullsInv'
  BY DEF NullsInv, NoNewNull, MadeFor, Abandoned

\* No call of main is left.
LEMMA NullsEmpty ==
  ASSUME InjectorInv, NullsInv, calls' = [calls EXCEPT ![main] = <<>>],
         UNCHANGED <<typeHashStack_, isInCycleCheck_>>,
         \A i \in Injectors, T \in Types : typeMap_'[i][T] = Null =>
           \/ typeMap_[i][T] = Null
           \/ \A U \in Types : DependsOn(i, U, T) =>
                U \in typeHashStack_[i] /\ isInCycleCheck_[i]
  PROVE  NullsInv'
  <1>1. DOMAIN calls'[main] = {}
    BY EmptyStack, ConstantsFit DEF InjectorInv
  <1>2. ASSUME NEW i \in Injectors, NEW T \in Types, typeMap_'[i][T] = Null,
               NEW U \in Types, DependsOn(i, U, T)
        PROVE  U \in typeHashStack_[i] /\ isInCycleCheck_[i]
    BY <1>2 DEF NullsInv, Abandoned
  <1> QED
    BY <1>1, <1>2 DEF NullsInv, Abandoned

\* The innermost frame moves on, or to the parent of its injector.
LEMMA NullsGoto ==
  ASSUME InjectorInv, NullsInv, Hypotheses, ~Idle(main), NoNewNull,
         NEW f \in Frame, Goto(main, f),
         f.type = Top(main).type, f.dep = Top(main).dep,
         \/ f.inj = Top(main).inj
         \/ Parent[Top(main).inj] # NoInjector /\ Parent[f.inj] = NoInjector,
         \A i \in Injectors, U \in Types :
           U \in typeHashStack_[i] /\ isInCycleCheck_[i] /\ Clears(Top(main), i, U) =>
             U \in typeHashStack_'[i] /\ isInCycleCheck_'[i] /\ Clears(f, i, U)
  PROVE  NullsInv'
  <1> USE ConstantsFit
  <1>1. /\ calls'[main][1] = f /\ DOMAIN calls'[main] = DOMAIN calls[main]
        /\ Len(calls'[main]) = Len(calls[main])
        /\ \A n \in DOMAIN calls[main] : n > 1 => calls'[main][n] = calls[main][n]
        /\ DOMAIN calls[main] = 1..Len(calls[main]) /\ Len(calls[main]) \in Nat
        /\ 1 \in DOMAIN calls[main] /\ Top(main) = calls[main][1]
    BY GotoStack, FramesTyped DEF InjectorInv
  <1>2. PICK h \in Frame : h = Top(main) /\ h = calls[main][1]
    BY <1>1, FramesTyped DEF InjectorInv
  <1>3. /\ f.type = h.type /\ f.dep = h.dep /\ h.type \in Types /\ h.inj \in Injectors
        /\ f.inj = h.inj \/ (Parent[h.inj] # NoInjector /\ Parent[f.inj] = NoInjector)
    BY <1>2 DEF Frame
  <1>4. FrameOfRoot(h) /\ MadeFor(1)
    BY <1>1, <1>2 DEF NullsInv
  <1>5. FrameOfRoot(f)
    BY <1>3, <1>4 DEF FrameOfRoot
  <1>6. MadeFor(1)'
    <2> SUFFICES ASSUME f.dep = "REFERENCE", f.type \in Fragile,
                        ~(/\ 1 = Len(calls[main])
                          /\ \A i \in Injectors, U \in Types : ~DependsOn(i, U, f.type))
                 PROVE  \E m \in DOMAIN calls[main] :
                          /\ m > 1 /\ calls[main][m].inj = f.inj
                          /\ DependsOn(f.inj, calls[main][m].type, f.type)
      BY <1>1 DEF MadeFor
    <2>1. PICK m \in DOMAIN calls[main] :
            /\ m > 1 /\ calls[main][m].inj = h.inj
            /\ DependsOn(h.inj, calls[main][m].type, f.type)
      BY <1>2, <1>3, <1>4 DEF MadeFor
    <2>2. calls[main][m] \in Frame
      BY FramesTyped DEF InjectorInv
    <2>3. Parent[h.inj] = NoInjector
      BY <1>3, <2>1, <2>2 DEF Hypotheses, NullIsNotUsed, Frame
    <2> QED
      BY <1>3, <2>1, <2>3
  <1>7. ASSUME NEW n \in DOMAIN calls'[main]
        PROVE  FrameOfRoot(calls'[main][n]) /\ MadeFor(n)'
    <2>1. CASE n = 1
      BY <1>1, <1>5, <1>6, <2>1
    <2>2. CASE n # 1
      <3>1. /\ n \in DOMAIN calls[main] /\ n > 1 /\ calls'[main][n] = calls[main][n]
            /\ \A m \in DOMAIN calls[main] : m > n => calls'[main][m] = calls[main][m]
        BY <1>1, <2>2
      <3>2. FrameOfRoot(calls[main][n]) /\ MadeFor(n)
        BY <3>1 DEF NullsInv
      <3>3. MadeFor(n)'
        BY <1>1, <3>1, <3>2 DEF MadeFor
      <3> QED
        BY <3>1, <3>2, <3>3
    <2> QED
      BY <2>1, <2>2
  <1>8. ASSUME NEW i \in Injectors, NEW U \in Types, Abandoned(i, U)
        PROVE  Abandoned(i, U)'
    <2>1. U \in typeHashStack_[i] /\ isInCycleCheck_[i] /\ Clears(Top(main), i, U)
      BY <1>1, <1>8 DEF Abandoned
    <2>2. U \in typeHashStack_'[i] /\ isInCycleCheck_'[i] /\ Clears(f, i, U)
      BY <2>1
    <2>3. ASSUME NEW n \in DOMAIN calls'[main] PROVE Clears(calls'[main][n], i, U)
      <3>1. CASE n = 1
        BY <1>1, <2>2, <3>1
      <3>2. CASE n # 1
        <4>1. n \in DOMAIN calls[main] /\ calls'[main][n] = calls[main][n]
          BY <1>1, <3>2
        <4> QED
          BY <1>8, <4>1 DEF Abandoned
      <3> QED
        BY <3>1, <3>2
    <2> QED
      BY <2>2, <2>3 DEF Abandoned
  <1> QED
    BY <1>7, <1>8 DEF NullsInv, NoNewNull

LEMMA NullsProceed ==
  ASSUME InjectorInv, NullsInv, Hypotheses, ~Idle(main), NoNewNull,
         NEW step \in Steps, Proceed(main, step),
         UNCHANGED <<typeHashStack_, isInCycleCheck_>>,
         step \in {"find", "recipe", "emplace", "emplaceDefault", "insert", "create",
                   "release", "record"} => Busy(Top(main))
  PROVE  NullsInv'
  <1>1. PICK f \in Frame, c \in Frame : Proceeds(f, c, step)
    BY TopProceeds
  <1>2. /\ f = Top(main) /\ Goto(main, c) /\ c.inj = f.inj /\ c.type = f.type
        /\ c.dep = f.dep /\ c.nested = f.nested /\ c.at = step
    BY <1>1 DEF Proceeds
  <1>3. Busy(c) => Busy(f)
    BY <1>2 DEF Busy, Injecting
  <1>4. \A i \in Injectors, U \in Types : Clears(f, i, U) => Clears(c, i, U)
    BY <1>2, <1>3 DEF Clears
  <1> QED
    BY <1>2, <1>4, NullsGoto

\* What the innermost call returns, or that it throws, makes a null pointer of no use.
LEMMA NullsReturn ==
  ASSUME InjectorInv, NullsInv, ~Idle(main), NoNewNull,
         NEW result \in SUBSET (Instance \cup {Null}), Return(main, result),
         UNCHANGED <<typeHashStack_, isInCycleCheck_>>
  PROVE  NullsInv'
  <1> USE ConstantsFit
  <1>1. CASE Len(calls[main]) = 1
    <2>1. calls' = [calls EXCEPT ![main] = <<>>]
      BY <1>1 DEF Return
    <2> QED
      BY <2>1, NullsEmpty DEF NoNewNull
  <1>2. CASE Len(calls[main]) # 1
    <2> DEFINE caller == calls[main][2]
               resumed == Resumed(caller, result)
    <2>1. PICK l \in Nat : l = Len(calls[main])
      BY FramesTyped DEF InjectorInv
    <2>2. /\ 2 \in DOMAIN calls[main] /\ DOMAIN calls[main] = 1..l
          /\ Len(calls'[main]) = l - 1 /\ DOMAIN calls'[main] = 1..l - 1
          /\ calls'[main][1] = resumed
          /\ \A n \in DOMAIN calls'[main] : n > 1 => calls'[main][n] = calls[main][n + 1]
          /\ \A n \in DOMAIN calls[main] : calls[main][n] \in Frame
      BY <1>2, <2>1, ReturnStack, FramesTyped DEF InjectorInv
    <2>3. /\ resumed.inj = caller.inj /\ resumed.type = caller.type
          /\ resumed.dep = caller.dep /\ resumed.at = caller.at
          /\ resumed.nested = caller.nested
      BY <2>2, FrameResumes
    <2> HIDE DEF caller, resumed
    <2>4. ASSUME NEW n \in DOMAIN calls'[main]
          PROVE  /\ n + 1 \in DOMAIN calls[main]
                 /\ calls'[main][n].inj = calls[main][n + 1].inj
                 /\ calls'[main][n].type = calls[main][n + 1].type
                 /\ calls'[main][n].dep = calls[main][n + 1].dep
                 /\ calls'[main][n].at = calls[main][n + 1].at
                 /\ calls'[main][n].nested = calls[main][n + 1].nested
      <3>1. n + 1 \in DOMAIN calls[main]
        BY <2>2
      <3>2. CASE n = 1
        <4>1. calls'[main][n] = resumed /\ calls[main][n + 1] = caller
          BY <2>2, <3>2 DEF caller
        <4> QED
          BY <2>3, <3>1, <4>1
      <3>3. CASE n # 1
        <4>1. calls'[main][n] = calls[main][n + 1]
          BY <2>2, <3>3
        <4> QED
          BY <3>1, <4>1
      <3> QED
        BY <3>2, <3>3
    <2>5. ASSUME NEW n \in DOMAIN calls'[main]
          PROVE  FrameOfRoot(calls'[main][n]) /\ MadeFor(n)'
      <3>1. FrameOfRoot(calls[main][n + 1]) /\ MadeFor(n + 1)
        BY <2>4 DEF NullsInv
      <3>2. FrameOfRoot(calls'[main][n])
        BY <2>4, <3>1 DEF FrameOfRoot
      <3>3. MadeFor(n)'
        <4>1. CASE n + 1 = l
          <5>1. ~\E m \in DOMAIN calls[main] : m > n + 1
            BY <2>2, <4>1
          <5>2. n = Len(calls'[main])
            BY <2>2, <4>1
          <5> QED
            BY <2>4, <3>1, <5>1, <5>2 DEF MadeFor
        <4>2. CASE n + 1 # l
          <5> SUFFICES ASSUME calls'[main][n].dep = "REFERENCE",
                              calls'[main][n].type \in Fragile
                       PROVE  \E m \in DOMAIN calls'[main] :
                                /\ m > n /\ calls'[main][m].inj = calls'[main][n].inj
                                /\ DependsOn(calls'[main][n].inj, calls'[main][m].type,
                                             calls'[main][n].type)
            BY DEF MadeFor
          <5>1. PICK k \in DOMAIN calls[main] :
                  /\ k > n + 1 /\ calls[main][k].inj = calls[main][n + 1].inj
                  /\ DependsOn(calls[main][n + 1].inj, calls[main][k].type,
                               calls[main][n + 1].type)
            BY <2>1, <2>4, <3>1, <4>2 DEF MadeFor
          <5>2. PICK m \in DOMAIN calls'[main] : m > n /\ m + 1 = k
            <6>1. k \in 1..l /\ n \in 1..l - 1 /\ k > n + 1
              BY <2>2, <5>1
            <6>2. k - 1 \in 1..l - 1 /\ k - 1 > n /\ (k - 1) + 1 = k
              BY <6>1
            <6> QED
              BY <2>2, <6>2
          <5> QED
            BY <2>4, <5>1, <5>2
        <4> QED
          BY <4>1, <4>2
      <3> QED
        BY <3>2, <3>3
    <2>6. ASSUME NEW i \in Injectors, NEW U \in Types, Abandoned(i, U)
          PROVE  Abandoned(i, U)'
      BY <2>4, <2>6 DEF Abandoned, Clears, Busy, Injecting
    <2> QED
      BY <2>5, <2>6 DEF NullsInv, NoNewNull
  <1> QED
    BY <1>1, <1>2

LEMMA NullsThrow ==
  ASSUME InjectorInv, NullsInv, NoNewNull, Throw(main)
  PROVE  NullsInv'
  BY NullsEmpty DEF Throw, NoNewNull

\* A call for something that is not Fragile, or that no recipe takes a reference to.
LEMMA NullsOpen ==
  ASSUME InjectorInv, NullsInv, Hypotheses, NEW i \in Injectors, NEW want \in Dependency,
         Request(main, i, want)
  PROVE  NullsInv'
  <1> USE ConstantsFit
  <1>1. /\ Idle(main) /\ want \in Wanted[main][i] /\ typeMap_' = typeMap_
        /\ calls' = [calls EXCEPT ![main] = <<Call(i, want.type, want.how)>>]
        /\ typeHashStack_' = typeHashStack_ /\ isInCycleCheck_' = isInCycleCheck_
    BY DEF Request, instanceVars, cycleVars
  <1>2. PICK c \in Frame : c = Call(i, want.type, want.how)
    BY CallFits
  <1>3. /\ c.inj = i /\ c.type = want.type /\ c.dep = want.how /\ c.type \in Types
        /\ c.at \in {"has", "make"}
    BY <1>2 DEF Call
  <1>4. DOMAIN calls'[main] = {1} /\ Len(calls'[main]) = 1 /\ calls'[main][1] = c
    BY <1>1, <1>2, OpenStack DEF InjectorInv
  <1>5. FrameOfRoot(c)
    <2>1. IsAsked(i, c.type)
      BY <1>1, <1>3 DEF IsAsked
    <2> QED
      BY <1>3, <2>1 DEF FrameOfRoot, Hypotheses, NullIsNotUsed
  <1>6. MadeFor(1)'
    <2> SUFFICES ASSUME c.dep = "REFERENCE", c.type \in Fragile
                 PROVE  \A j \in Injectors, U \in Types : ~DependsOn(j, U, c.type)
      BY <1>4 DEF MadeFor
    <2>1. [type |-> c.type, how |-> "REFERENCE"] \in Wanted[main][i]
      BY <1>1, <1>3
    <2> QED
      BY <2>1 DEF Hypotheses, NullIsNotUsed
  <1>7. \A j \in Injectors, U \in Types : Abandoned(j, U) => Abandoned(j, U)'
    BY <1>1, <1>3, <1>4 DEF Abandoned, Clears, Busy, Injecting
  <1> QED
    BY <1>1, <1>4, <1>5, <1>6, <1>7 DEF NullsInv

LEMMA NullsDepend ==
  ASSUME InjectorInv, NullsInv, Hypotheses, Depend(main)
  PROVE  NullsInv'
  <1> USE ConstantsFit
  <1>1. /\ ~Idle(main) /\ Top(main).at = "recipe"
        /\ UNCHANGED <<typeMap_, typeHashStack_, isInCycleCheck_>>
    BY DEF Depend, At, Top, instanceVars, cycleVars
  <1>2. PICK f \in Frame : f = Top(main) /\ f = calls[main][1] /\ FrameInv(f)
    BY <1>1, TopFits, FramesTyped DEF InjectorInv
  <1>3. /\ f.inj \in Injectors /\ f.type \in Types /\ f.home \in Injectors
        /\ f.home \in Lineage(f.inj) /\ f.next \in Nat /\ f.next >= 1
        /\ f.type \in recipeMap_[f.home]
    BY <1>1, <1>2 DEF Frame, FrameInv, FramePlace
  <1>4. /\ Rules[f.home][f.type] # NoRule
        /\ Rules[f.home][f.type].deps \in Seq(Dependency)
    BY <1>3 DEF InjectorInv, PhasesInv
  <1>5. f.next \in DOMAIN Rules[f.home][f.type].deps
    <2>1. f.next <= Len(Rules[f.home][f.type].deps)
      BY <1>2 DEF Depend, RecipeOf
    <2> QED
      BY <1>3, <1>4, <2>1
  <1>6. PICK want \in Dependency : want = Rules[f.home][f.type].deps[f.next]
    BY <1>4, <1>5
  <1>7. PICK c \in Frame : c = Call(f.home, want.type, want.how)
    BY <1>3, CallFits
  <1>8. /\ c.inj = f.home /\ c.type = want.type /\ c.dep = want.how /\ c.type \in Types
        /\ c.at \in {"has", "make"}
    BY <1>7 DEF Call
  <1>9. calls' = [calls EXCEPT ![main] = <<c>> \o @]
    BY <1>2, <1>6, <1>7 DEF Depend, RecipeOf
  <1>10. PICK l \in Nat : l = Len(calls[main])
    BY FramesTyped DEF InjectorInv
  <1>11. /\ calls'[main][1] = c /\ DOMAIN calls'[main] = 1..l + 1
         /\ Len(calls'[main]) = l + 1 /\ DOMAIN calls[main] = 1..l /\ l >= 1
         /\ \A n \in DOMAIN calls[main] : calls'[main][n + 1] = calls[main][n]
    BY <1>1, <1>9, <1>10, PushStack, FramesTyped DEF InjectorInv
  <1>12. FrameOfRoot(c)
    <2>1. IsAsked(f.home, c.type)
      BY <1>3, <1>4, <1>5, <1>6, <1>8 DEF IsAsked
    <2> QED
      BY <1>3, <1>8, <2>1 DEF FrameOfRoot, Hypotheses, NullIsNotUsed
  <1>13. MadeFor(1)'
    <2> SUFFICES ASSUME c.dep = "REFERENCE", c.type \in Fragile
                 PROVE  \E m \in DOMAIN calls'[main] :
                          /\ m > 1 /\ calls'[main][m].inj = c.inj
                          /\ DependsOn(c.inj, calls'[main][m].type, c.type)
      BY <1>11 DEF MadeFor
    <2>1. DependsOn(f.home, f.type, c.type)
      <3>1. want = [type |-> c.type, how |-> "REFERENCE"]
        BY <1>8
      <3> QED
        BY <1>4, <1>5, <1>6, <3>1 DEF DependsOn
    <2>2. Parent[f.inj] = NoInjector
      BY <1>1, <1>2, <1>3, <1>11, <2>1 DEF NullsInv, FrameOfRoot
    <2>3. f.home = f.inj
      BY <1>3, <2>2 DEF Lineage
    <2>4. 2 \in DOMAIN calls'[main] /\ calls'[main][2] = f
      <3>1. 1 \in 1..l /\ 1 + 1 = 2 /\ 2 \in 1..l + 1
        BY <1>11
      <3>2. calls'[main][1 + 1] = calls[main][1]
        BY <1>11, <3>1
      <3> QED
        BY <1>2, <1>11, <3>1, <3>2
    <2> QED
      BY <1>8, <2>1, <2>3, <2>4
  <1>14. ASSUME NEW n \in DOMAIN calls'[main], n # 1
         PROVE  /\ n - 1 \in DOMAIN calls[main]
                /\ calls'[main][n] = calls[main][n - 1]
    <2>1. n - 1 \in 1..l /\ (n - 1) + 1 = n
      BY <1>11, <1>14
    <2> QED
      BY <1>11, <2>1
  <1>15. ASSUME NEW n \in DOMAIN calls'[main]
         PROVE  FrameOfRoot(calls'[main][n]) /\ MadeFor(n)'
    <2>1. CASE n = 1
      BY <1>11, <1>12, <1>13, <2>1
    <2>2. CASE n # 1
      <3>1. FrameOfRoot(calls[main][n - 1]) /\ MadeFor(n - 1)
        BY <1>14, <2>2 DEF NullsInv
      <3>2. CASE n - 1 = l
        <4>1. n = Len(calls'[main]) /\ ~\E m \in DOMAIN calls[main] : m > n - 1
          BY <1>11, <3>2
        <4> QED
          BY <1>14, <2>2, <3>1, <4>1 DEF MadeFor
      <3>3. CASE n - 1 # l
        <4> SUFFICES ASSUME calls'[main][n].dep = "REFERENCE",
                            calls'[main][n].type \in Fragile
                     PROVE  \E m \in DOMAIN calls'[main] :
                              /\ m > n /\ calls'[main][m].inj = calls'[main][n].inj
                              /\ DependsOn(calls'[main][n].inj, calls'[main][m].type,
                                           calls'[main][n].type)
          BY <1>14, <2>2, <3>1 DEF MadeFor
        <4>1. PICK k \in DOMAIN calls[main] :
                /\ k > n - 1 /\ calls[main][k].inj = calls[main][n - 1].inj
                /\ DependsOn(calls[main][n - 1].inj, calls[main][k].type,
                             calls[main][n - 1].type)
          BY <1>10, <1>14, <2>2, <3>1, <3>3 DEF MadeFor
        <4>2. k + 1 \in DOMAIN calls'[main] /\ k + 1 > n /\ calls'[main][k + 1] = calls[main][k]
          <5>1. k \in 1..l /\ n \in 1..l + 1 /\ k > n - 1
            BY <1>11, <4>1
          <5>2. k + 1 \in 1..l + 1 /\ k + 1 > n
            BY <5>1
          <5> QED
            BY <1>11, <4>1, <5>2
        <4> QED
          BY <1>14, <2>2, <4>1, <4>2
      <3> QED
        BY <3>2, <3>3
    <2> QED
      BY <2>1, <2>2
  <1>16. ASSUME NEW i \in Injectors, NEW U \in Types, Abandoned(i, U)
         PROVE  Abandoned(i, U)'
    <2>1. ASSUME NEW n \in DOMAIN calls'[main] PROVE Clears(calls'[main][n], i, U)
      <3>1. CASE n = 1
        BY <1>8, <1>11, <3>1 DEF Clears, Busy, Injecting
      <3>2. CASE n # 1
        BY <1>14, <1>16, <3>2 DEF Abandoned
      <3> QED
        BY <3>1, <3>2
    <2> QED
      BY <1>1, <1>16, <2>1 DEF Abandoned
  <1> QED
    BY <1>1, <1>15, <1>16 DEF NullsInv

\* What one step of main does to the calls that are in the way of others.
LEMMA NullsMakeNested ==
  ASSUME InjectorInv, NullsInv, Hypotheses, MakeNested(main)
  PROVE  NullsInv'
  <1> USE ConstantsFit
  <1>1. ~Idle(main) /\ Top(main).at = "make"
    BY DEF MakeNested, At, Top
  <1>2. PICK f \in Frame : f = Top(main)
    BY <1>1, TopFits
  <1>3. PICK c \in Frame : c = [f EXCEPT !.at = "find", !.nested = TRUE]
    BY DEF Frame
  <1>4. /\ c.inj = f.inj /\ c.type = f.type /\ c.dep = f.dep /\ c.nested
        /\ f.inj \in Injectors /\ f.type \in Types
    BY <1>3 DEF Frame
  <1>5. /\ f.type \notin typeHashStack_[f.inj] /\ Goto(main, c) /\ NoNewNull
        /\ typeHashStack_' = [typeHashStack_ EXCEPT ![f.inj] = @ \cup {f.type}]
        /\ isInCycleCheck_' = isInCycleCheck_
    BY <1>2, <1>3 DEF MakeNested, NoNewNull, instanceVars
  <1>6. \A i \in Injectors, U \in Types : U \in typeHashStack_[i] =>
          U \in typeHashStack_'[i] /\ Clears(c, i, U)
    BY <1>4, <1>5 DEF InjectorInv, InjectorTypeOK, Clears
  <1> QED
    BY <1>1, <1>2, <1>4, <1>5, <1>6, NullsGoto

LEMMA NullsLock ==
  ASSUME InjectorInv, NullsInv, Hypotheses, Lock(main)
  PROVE  NullsInv'
  <1> USE ConstantsFit
  <1>1. ~Idle(main) /\ Top(main).at = "lock"
    BY DEF Lock, At, Top
  <1>2. PICK f \in Frame, c \in Frame : Proceeds(f, c, "find")
    BY <1>1, TopProceeds DEF Lock, Steps
  <1>3. /\ f = Top(main) /\ Goto(main, c) /\ c.inj = f.inj /\ c.type = f.type
        /\ c.dep = f.dep /\ f.inj \in Injectors /\ f.type \in Types
        /\ ~isInCycleCheck_[f.inj]
    BY <1>1, <1>2 DEF Proceeds, Frame, FrameInv, FrameCycle
  <1>4. /\ NoNewNull
        /\ typeHashStack_' = [typeHashStack_ EXCEPT ![f.inj] = @ \cup {f.type}]
        /\ isInCycleCheck_' = [isInCycleCheck_ EXCEPT ![f.inj] = TRUE]
    BY <1>3 DEF Lock, NoNewNull, instanceVars
  <1>5. \A i \in Injectors, U \in Types : U \in typeHashStack_[i] /\ isInCycleCheck_[i] =>
          U \in typeHashStack_'[i] /\ isInCycleCheck_'[i] /\ Clears(c, i, U)
    BY <1>3, <1>4 DEF InjectorInv, InjectorTypeOK, Clears
  <1> QED
    BY <1>1, <1>3, <1>4, <1>5, NullsGoto

LEMMA NullsRelease ==
  ASSUME InjectorInv, NullsInv, Hypotheses, Release(main)
  PROVE  NullsInv'
  <1> USE ConstantsFit
  <1>1. ~Idle(main) /\ Top(main).at = "release"
    BY DEF Release, At, Top
  <1>2. PICK f \in Frame, c \in Frame : Proceeds(f, c, "record")
    BY <1>1, TopProceeds DEF Release, Steps
  <1>3. /\ f = Top(main) /\ Goto(main, c) /\ c.inj = f.inj /\ c.type = f.type
        /\ c.dep = f.dep /\ c.nested = f.nested /\ f.inj \in Injectors /\ f.type \in Types
        /\ Busy(f)
    BY <1>1, <1>2 DEF Proceeds, Frame, Busy, Injecting
  <1>4. /\ NoNewNull /\ typeHashStack_' = typeHashStack_
        /\ \/ f.nested /\ isInCycleCheck_' = isInCycleCheck_
           \/ ~f.nested /\ isInCycleCheck_' = [isInCycleCheck_ EXCEPT ![f.inj] = FALSE]
    BY <1>3 DEF Release, NoNewNull, instanceVars
  <1>5. \A i \in Injectors, U \in Types :
          U \in typeHashStack_[i] /\ isInCycleCheck_[i] /\ Clears(f, i, U) =>
            U \in typeHashStack_'[i] /\ isInCycleCheck_'[i] /\ Clears(c, i, U)
    BY <1>3, <1>4 DEF InjectorInv, InjectorTypeOK, Clears
  <1> QED
    BY <1>1, <1>3, <1>4, <1>5, NullsGoto

LEMMA NullsRecord ==
  ASSUME InjectorInv, NullsInv, Hypotheses, Record(main)
  PROVE  NullsInv'
  <1> USE ConstantsFit
  <1>1. ~Idle(main) /\ Top(main).at = "record"
    BY DEF Record, At, Top
  <1>2. PICK step \in {"ref", "value"} : Proceed(main, step)
    BY DEF Record
  <1>3. PICK f \in Frame, c \in Frame : Proceeds(f, c, step)
    BY <1>1, <1>2, TopProceeds DEF Steps
  <1>4. /\ f = Top(main) /\ Goto(main, c) /\ c.inj = f.inj /\ c.type = f.type
        /\ c.dep = f.dep /\ f.inj \in Injectors /\ f.type \in Types
        /\ Busy(f) /\ ~Busy(c)
    BY <1>1, <1>3 DEF Proceeds, Frame, Busy, Injecting
  <1>5. /\ NoNewNull /\ isInCycleCheck_' = isInCycleCheck_
        /\ typeHashStack_' = [typeHashStack_ EXCEPT ![f.inj] = @ \ {f.type}]
    BY <1>4 DEF Record, NoNewNull, instanceVars
  <1>6. \A i \in Injectors, U \in Types :
          U \in typeHashStack_[i] /\ isInCycleCheck_[i] /\ Clears(f, i, U) =>
            U \in typeHashStack_'[i] /\ isInCycleCheck_'[i] /\ Clears(c, i, U)
    BY <1>4, <1>5 DEF InjectorInv, InjectorTypeOK, Clears
  <1> QED
    BY <1>1, <1>4, <1>5, <1>6, NullsGoto

LEMMA NullsAskUpstream ==
  ASSUME InjectorInv, NullsInv, Hypotheses, AskUpstream(main)
  PROVE  NullsInv'
  <1> USE ConstantsFit
  <1>1. /\ ~Idle(main) /\ Top(main).at = "upstream" /\ NoNewNull
        /\ UNCHANGED <<typeHashStack_, isInCycleCheck_>>
    BY DEF AskUpstream, At, Top, NoNewNull, instanceVars, cycleVars
  <1>2. PICK f \in Frame : f = Top(main) /\ FrameInv(f)
    BY <1>1, TopFits
  <1>3. /\ f.inj \in Injectors /\ f.type \in Types /\ f.dep = "REFERENCE"
        /\ Parent[f.inj] # NoInjector /\ Parent[f.inj] \in Injectors
        /\ Parent[Parent[f.inj]] = NoInjector
    BY <1>1, <1>2, InjectorAssumption
    DEF Frame, FrameInv, FramePlace, Hypotheses, TwoGenerations
  <1>4. CASE HasKey(Parent[f.inj], f.type)
    <2>1. PICK c \in Frame : c = Call(Parent[f.inj], f.type, "REFERENCE")
      BY <1>3, CallFits
    <2>2. /\ c.inj = Parent[f.inj] /\ c.type = f.type /\ c.dep = f.dep /\ c.at = "has"
      BY <1>3, <2>1 DEF Call
    <2>3. Goto(main, c)
      BY <1>2, <1>4, <2>1 DEF AskUpstream
    <2>4. \A i \in Injectors, U \in Types : Clears(c, i, U)
      BY <2>2 DEF Clears, Busy, Injecting
    <2> QED
      BY <1>1, <1>2, <1>3, <2>2, <2>3, <2>4, NullsGoto
  <1>5. CASE ~HasKey(Parent[f.inj], f.type)
    <2>1. Proceed(main, "make")
      BY <1>2, <1>5 DEF AskUpstream
    <2> QED
      BY <1>1, <2>1, NullsProceed DEF Steps
  <1> QED
    BY <1>4, <1>5

LEMMA NullsFindRecipe ==
  ASSUME InjectorInv, NullsInv, Hypotheses, FindRecipe(main)
  PROVE  NullsInv'
  <1> USE ConstantsFit
  <1>1. ~Idle(main) /\ Top(main).at = "find" /\ NoNewNull /\ Busy(Top(main))
    BY DEF FindRecipe, At, Top, NoNewNull, instanceVars, Busy, Injecting
  <1>2. PICK f \in Frame : f = Top(main)
    BY <1>1, TopFits
  <1>3. CASE \E step \in {"recipe", "emplaceDefault"} :
               Proceed(main, step) /\ UNCHANGED cycleVars
    BY <1>1, <1>3, NullsProceed DEF Steps, cycleVars
  <1>4. CASE /\ Parent[f.home] # NoInjector /\ UNCHANGED cycleVars
             /\ Goto(main, [f EXCEPT !.home = Parent[f.home]])
    <2>1. Parent[f.home] \in Injectors
      BY <1>4, InjectorAssumption DEF Frame
    <2>2. PICK c \in Frame : c = [f EXCEPT !.home = Parent[f.home]]
      BY <2>1 DEF Frame
    <2>3. /\ c.inj = f.inj /\ c.type = f.type /\ c.dep = f.dep /\ c.nested = f.nested
          /\ c.at = f.at
      BY <2>2 DEF Frame
    <2>4. \A i \in Injectors, U \in Types : Clears(f, i, U) => Clears(c, i, U)
      BY <2>3 DEF Clears, Busy, Injecting
    <2> QED
      BY <1>1, <1>2, <1>4, <2>2, <2>3, <2>4, NullsGoto DEF cycleVars
  <1>5. CASE Throw(main)
    BY <1>1, <1>5, NullsThrow
  <1> QED
    BY <1>2, <1>3, <1>4, <1>5 DEF FindRecipe

\* The implementation that is entered under an interface is no null pointer.
LEMMA NullsBind ==
  ASSUME InjectorInv, NullsInv, Hypotheses, Bind(main)
  PROVE  NullsInv'
  <1> USE ConstantsFit
  <1>1. /\ ~Idle(main) /\ Top(main).at = "recipe" /\ Busy(Top(main))
        /\ UNCHANGED <<typeHashStack_, isInCycleCheck_>>
    BY DEF Bind, At, Top, cycleVars, Busy, Injecting
  <1>2. PICK f \in Frame : f = Top(main) /\ FrameInv(f)
    BY <1>1, TopFits
  <1>3. PICK impl \in f.args : Emplace(f.home, f.type, impl)
    BY <1>2 DEF Bind
  <1>4. impl # Null
    BY <1>2, <1>3 DEF FrameInv, FrameUses, Settled, InjectorInv, InjectorTypeOK
  <1>5. NoNewNull
    BY <1>3, <1>4 DEF Emplace, NoNewNull, InjectorInv, InjectorTypeOK
  <1>6. PICK step \in {"release", "emplace"} : Proceed(main, step)
    BY <1>2 DEF Bind
  <1> QED
    BY <1>1, <1>5, <1>6, NullsProceed DEF Steps

LEMMA NullsEmplacePtr ==
  ASSUME InjectorInv, NullsInv, Hypotheses, EmplacePtr(main)
  PROVE  NullsInv'
  <1> USE ConstantsFit
  <1>1. /\ ~Idle(main) /\ Top(main).at = "insert" /\ Proceed(main, "release")
        /\ Busy(Top(main)) /\ UNCHANGED <<typeHashStack_, isInCycleCheck_>>
    BY DEF EmplacePtr, At, Top, cycleVars, Busy, Injecting
  <1>2. PICK f \in Frame : f = Top(main) /\ FrameInv(f)
    BY <1>1, TopFits
  <1>3. f.inj \in Injectors /\ f.type \in Types /\ ~RecipeOf(main).binds
    BY <1>1, <1>2 DEF Frame, FrameInv, FramePlace, BindsHere, RecipeOf
  <1>4. Emplace(f.inj, f.type, <<f.inj, f.type>>) /\ <<f.inj, f.type>> # Null
    BY <1>2, <1>3 DEF EmplacePtr
  <1>5. NoNewNull
    BY <1>3, <1>4 DEF Emplace, NoNewNull, InjectorInv, InjectorTypeOK
  <1> QED
    BY <1>1, <1>5, NullsProceed DEF Steps

\* The one recipe that takes a reference to what throws here is abandoned.
LEMMA NullsEmplaceDefault ==
  ASSUME InjectorInv, NullsInv, Hypotheses, EmplaceDefault(main)
  PROVE  NullsInv'
  <1> USE ConstantsFit
  <1>1. ~Idle(main) /\ Top(main).at = "create" /\ Busy(Top(main))
    BY DEF EmplaceDefault, At, Top, Busy, Injecting
  <1>2. PICK f \in Frame : f = Top(main) /\ f = calls[main][1] /\ FrameInv(f)
    BY <1>1, TopFits, FramesTyped DEF InjectorInv
  <1>3. /\ f.inj \in Injectors /\ f.type \in Types /\ f.dep = "REFERENCE"
        /\ f.type \in DefaultInit
    BY <1>1, <1>2 DEF Frame, FrameInv, FramePlace
  <1>4. CASE /\ typeMap_' = [typeMap_ EXCEPT ![f.inj][f.type] = <<f.inj, f.type>>]
             /\ Proceed(main, "release") /\ UNCHANGED cycleVars
    <2>1. NoNewNull
      BY <1>3, <1>4 DEF NoNewNull, InjectorInv, InjectorTypeOK
    <2> QED
      BY <1>1, <1>4, <2>1, NullsProceed DEF Steps, cycleVars
  <1>5. CASE /\ f.type \in Throwing /\ Emplace(f.inj, f.type, Null) /\ Throw(main)
    <2>1. f.type \in Fragile
      BY <1>3, <1>5 DEF Fragile
    <2>2. ASSUME NEW U \in Types, DependsOn(f.inj, U, f.type)
          PROVE  U \in typeHashStack_[f.inj] /\ isInCycleCheck_[f.inj]
      <3>1. 1 \in DOMAIN calls[main]
        BY <1>1, FramesTyped DEF InjectorInv
      <3>2. PICK m \in DOMAIN calls[main] :
              /\ m > 1 /\ calls[main][m].inj = f.inj
              /\ DependsOn(f.inj, calls[main][m].type, f.type)
        BY <1>2, <1>3, <2>1, <2>2, <3>1 DEF NullsInv, MadeFor
      <3>3. PICK g \in Frame : g = calls[main][m]
        BY FramesTyped DEF InjectorInv
      <3>4. FrameInv(g) /\ PairInv(f, g) /\ g.inj = f.inj /\ g.type \in Types
        BY <1>2, <3>1, <3>2, <3>3 DEF InjectorInv, CallsInv, Frame
      <3>5. g.type \in typeHashStack_[f.inj] /\ isInCycleCheck_[f.inj]
        BY <3>4 DEF FrameInv, FrameCycle, PairInv, Busy, Injecting
      <3>6. U = g.type
        BY <1>3, <2>1, <2>2, <3>2, <3>3, <3>4 DEF Hypotheses, NullIsNotUsed
      <3> QED
        BY <3>5, <3>6
    <2>3. \A i \in Injectors, T \in Types : typeMap_'[i][T] = Null =>
            typeMap_[i][T] = Null \/ (i = f.inj /\ T = f.type)
      BY <1>3, <1>5 DEF Emplace, InjectorInv, InjectorTypeOK
    <2>4. /\ calls' = [calls EXCEPT ![main] = <<>>]
          /\ UNCHANGED <<typeHashStack_, isInCycleCheck_>>
      BY <1>5 DEF Throw
    <2> QED
      BY <2>2, <2>3, <2>4, NullsEmpty
  <1> QED
    BY <1>2, <1>4, <1>5 DEF EmplaceDefault

\* The steps that change no map and no mark.
LEMMA NullsQuiet ==
  ASSUME InjectorInv, NullsInv, Hypotheses,
         \/ HasInstance(main) \/ CycleDetected(main) \/ MakeTopLevel(main)
         \/ Construct(main) \/ CheckKey(main) \/ CreateInstance(main)
  PROVE  NullsInv'
  <1> USE ConstantsFit
  <1>1. ~Idle(main) /\ NoNewNull
    BY DEF HasInstance, CycleDetected, MakeTopLevel, Construct, CheckKey, CreateInstance, At,
           NoNewNull, instanceVars
  <1>2. \/ Throw(main)
        \/ \E step \in {"ref", "make", "upstream", "lock", "release", "emplace", "insert",
                        "create"} :
             /\ Proceed(main, step) /\ UNCHANGED cycleVars
             /\ step \in {"release", "emplace", "insert", "create"} => Busy(Top(main))
    BY DEF HasInstance, CycleDetected, MakeTopLevel, Construct, CheckKey, CreateInstance, At,
           Top, Busy, Injecting
  <1> QED
    BY <1>1, <1>2, NullsThrow, NullsProceed DEF Steps, cycleVars

LEMMA NullsRefValue ==
  ASSUME InjectorInv, NullsInv, Hypotheses, Ref(main) \/ Value(main)
  PROVE  NullsInv'
  <1> USE ConstantsFit
  <1>1. ~Idle(main) /\ NoNewNull
    BY DEF Ref, Value, At, NoNewNull, instanceVars
  <1>2. PICK f \in Frame : f = Top(main)
    BY <1>1, TopFits
  <1>3. /\ f.inj \in Injectors /\ f.type \in Types /\ f.args \in SUBSET (Instance \cup {Null})
        /\ typeMap_[f.inj][f.type] \in Instance \cup {Null, NoEntry}
    BY DEF Frame, InjectorInv, InjectorTypeOK
  <1>4. \/ Throw(main)
        \/ \E result \in SUBSET (Instance \cup {Null}) :
             Return(main, result) /\ UNCHANGED cycleVars
    BY <1>2, <1>3 DEF Ref, Value, HasKey
  <1> QED
    BY <1>1, <1>4, NullsThrow, NullsReturn DEF cycleVars

LEMMA NullsWorker ==
  ASSUME NullsInv, calls'[main] = calls[main], UNCHANGED <<typeMap_, cycleVars>>
  PROVE  NullsInv'
  BY NullsStill DEF NoNewNull, cycleVars

\* main adds rules, starts threads and destroys while it is in no call.
LEMMA NullsMainFree ==
  ASSUME InjectorInv, NullsInv,
         \E i \in Injectors :
           \/ \E T \in Types : AddRecipe(i, T) \/ Start(i, T)
           \/ Destroy(i) \/ DestructorStep(i)
  PROVE  NullsInv'
  <1> USE ConstantsFit
  <1>1. calls' = calls /\ UNCHANGED cycleVars
    BY DEF AddRecipe, Start, Destroy, DestructorStep, LockTypeMap, StopThread, Erase, Destroyed
  <1>2. PICK i \in Injectors :
          \/ UNCHANGED typeMap_
          \/ typeMap_' = [typeMap_ EXCEPT ![i][Current(i)] = NoEntry]
          \/ typeMap_' = [typeMap_ EXCEPT ![i] = [T \in Types |-> NoEntry]]
    BY DEF AddRecipe, Start, Destroy, DestructorStep, LockTypeMap, StopThread, Erase,
           Destroyed, instanceVars
  <1>3. typeMap_ \in [Injectors -> [Types -> Instance \cup {Null, NoEntry}]]
    BY DEF InjectorInv, InjectorTypeOK
  <1>4. ASSUME NEW j \in Injectors, NEW T \in Types, typeMap_'[j][T] = Null
        PROVE  typeMap_[j][T] = Null
    <2>1. CASE UNCHANGED typeMap_
      BY <1>4, <2>1
    <2>2. CASE typeMap_' = [typeMap_ EXCEPT ![i][Current(i)] = NoEntry]
      <3>1. CASE j = i /\ T = Current(i)
        BY <1>3, <1>4, <2>2, <3>1
      <3>2. CASE ~(j = i /\ T = Current(i))
        BY <1>3, <1>4, <2>2, <3>2
      <3> QED
        BY <3>1, <3>2
    <2>3. CASE typeMap_' = [typeMap_ EXCEPT ![i] = [U \in Types |-> NoEntry]]
      BY <1>3, <1>4, <2>3
    <2> QED
      BY <1>2, <2>1, <2>2, <2>3
  <1>5. NoNewNull
    BY <1>4 DEF NoNewNull
  <1> QED
    BY <1>1, <1>5, NullsStill DEF cycleVars

LEMMA NullsMainStep ==
  ASSUME InjectorInv, NullsInv, Hypotheses, CallStep(main)
  PROVE  NullsInv'
  BY NullsAskUpstream, NullsMakeNested, NullsLock, NullsRelease, NullsRecord, NullsFindRecipe,
     NullsDepend, NullsBind, NullsEmplacePtr, NullsEmplaceDefault, NullsQuiet, NullsRefValue
  DEF CallStep

-----------------------------------------------------------------------------
(* The invariant. *)

LEMMA InitFits == Init => InjectorInv
  <1> SUFFICES ASSUME Init PROVE InjectorInv
    OBVIOUS
  <1> USE ConstantsFit DEF Init
  <1>1. \A i \in Injectors, T \in Types :
          typeMap_[i][T] = IF T = Self THEN <<i, Self>> ELSE NoEntry
    OBVIOUS
  <1>2. /\ \A x \in alive : x \in Instance /\ x[1] \in Injectors /\ x[2] = Self
                            /\ x = <<x[1], Self>>
        /\ \A i \in Injectors : <<i, Self>> \in alive
        /\ \A x \in Instance : refs[x] = {}
    BY DEF Instance
  <1>3. /\ \A i \in Injectors : Recorded(i) = {} /\ phase[i] = "alive"
        /\ \A x \in alive : Uses(x) = {}
    BY <1>2 DEF Recorded, Uses, Fetched
  <1>4. InjectorTypeOK
    <2>1. typeMap_ \in [Injectors -> [Types -> Instance \cup {Null, NoEntry}]]
      OBVIOUS
    <2>2. recipeMap_ \in [Injectors -> SUBSET Types] /\ thread \in
            [Threads -> {"none", "running", "stopping", "done"}]
      OBVIOUS
    <2>3. /\ invocationList_ \in [Injectors -> Seq(Types)]
          /\ \A i \in Injectors : DOMAIN invocationList_[i] = {} /\ Len(invocationList_[i]) = 0
      OBVIOUS
    <2>4. calls \in [Threads -> Seq(Frame)]
      OBVIOUS
    <2>5. alive \subseteq Instance /\ refs \in [Instance -> SUBSET Instance]
      BY <1>2
    <2> QED
      BY <2>1, <2>2, <2>3, <2>4, <2>5 DEF InjectorTypeOK
  <1>5. CallsInv /\ LockInv
    BY DEF CallsInv, LockInv
  <1>6. WorkersInv
    BY DEF WorkersInv, WorkerInv
  <1>7. PhasesInv
    BY InjectorAssumption DEF PhasesInv
  <1>8. MapInv
    <2>1. typeMap_ \in [Injectors -> [Types -> Instance \cup {Null, NoEntry}]]
      OBVIOUS
    <2>2. \A i \in Injectors, T \in Types : HasKey(i, T) =>
            typeMap_[i][T] \in alive /\ typeMap_[i][T][1] \in Lineage(i)
      BY <1>1, <1>2 DEF HasKey
    <2>3. \A x \in alive : typeMap_[x[1]][x[2]] = x /\ phase[x[1]] # "gone"
      BY <1>1, <1>2, <1>3
    <2>4. \A i \in Injectors, T \in Types : typeMap_[i][T] \in {NoEntry, <<i, T>>}
      BY <1>1
    <2> QED
      BY <1>2, <2>1, <2>2, <2>3, <2>4 DEF MapInv
  <1>9. OrderInv
    BY <1>2, <1>3 DEF OrderInv
  <1> QED
    BY <1>4, <1>5, <1>6, <1>7, <1>8, <1>9 DEF InjectorInv

LEMMA NullsInit == Init => NullsInv
  <1> USE ConstantsFit
  <1> SUFFICES ASSUME Init PROVE NullsInv
    OBVIOUS
  <1>1. DOMAIN calls[main] = {}
    BY DEF Init
  <1>2. \A i \in Injectors, T \in Types : typeMap_[i][T] # Null
    BY DEF Init
  <1> QED
    BY <1>1, <1>2 DEF NullsInv

LEMMA MainStepKeeps ==
  ASSUME InjectorInv, NullsInv, Hypotheses, CallStep(main)
  PROVE  InjectorInv'
  BY HasInstanceKeeps, AskUpstreamKeeps, RefKeeps, CycleDetectedKeeps, MakeNestedKeeps,
     MakeTopLevelKeeps, LockKeeps, ReleaseKeeps, RecordKeeps, FindRecipeKeeps, DependKeeps,
     BindKeeps, ConstructKeeps, CheckKeyKeeps, EmplacePtrKeeps, EmplaceDefaultKeeps,
     CreateInstanceKeeps, ValueKeeps
  DEF CallStep

LEMMA StutterKeeps ==
  ASSUME InjectorInv, UNCHANGED vars
  PROVE  InjectorInv'
  <1>1. StillLife /\ UNCHANGED cycleVars /\ calls' = calls /\ holds' = holds
        /\ UNCHANGED <<typeMap_, alive, refs, recipeMap_, invocationList_>>
        /\ UNCHANGED <<thread, phase, left, mtx_>>
        /\ UNCHANGED <<typeHashStack_, isInCycleCheck_, injectionMtx_>>
    BY DEF vars, StillLife, instanceVars, lifeVars, cycleVars
  <1>2. CallsInv'
    BY <1>1, FramesUndisturbed DEF InjectorInv, CallsInv
  <1>3. LockInv' /\ WorkersInv' /\ PhasesInv'
    BY <1>1 DEF InjectorInv, LockInv, WorkersInv, WorkerInv, PhasesInv
  <1>4. MapInv'
    BY <1>1 DEF InjectorInv, MapInv, HasKey
  <1>5. OrderInv'
    BY <1>1, OrderKept DEF InjectorInv, InProgress, Idle, Top
  <1>6. InjectorTypeOK'
    BY <1>1 DEF InjectorInv, InjectorTypeOK
  <1> QED
    BY <1>2, <1>3, <1>4, <1>5, <1>6 DEF InjectorInv

LEMMA StepFits ==
  ASSUME Hypotheses
  PROVE  InjectorInv /\ NullsInv /\ [Next]_vars => InjectorInv' /\ NullsInv'
  <1> SUFFICES ASSUME InjectorInv, NullsInv, [Next]_vars PROVE InjectorInv' /\ NullsInv'
    OBVIOUS
  <1>1. ASSUME NEW t \in Threads, CallStep(t) PROVE InjectorInv' /\ NullsInv'
    <2>1. CASE t = main
      BY <1>1, <2>1, MainStepKeeps, NullsMainStep
    <2>2. CASE t # main
      BY <1>1, <2>2, WorkerStepKeeps, NullsWorker
    <2> QED
      BY <2>1, <2>2
  <1>2. ASSUME NEW t \in Threads, NEW i \in Injectors, NEW want \in Dependency,
               Request(t, i, want)
        PROVE  InjectorInv' /\ NullsInv'
    <2>1. CASE t = main
      BY <1>2, <2>1, MainRequestKeeps, NullsOpen
    <2>2. CASE t # main
      BY <1>2, <2>2, WorkerRequestKeeps, NullsWorker
    <2> QED
      BY <2>1, <2>2
  <1>3. ASSUME NEW i \in Injectors, NEW T \in Types, AddRecipe(i, T) \/ Start(i, T)
        PROVE  InjectorInv' /\ NullsInv'
    BY <1>3, AddRecipeKeeps, StartKeeps, NullsMainFree
  <1>4. ASSUME NEW i \in Injectors, Destroy(i) \/ DestructorStep(i)
        PROVE  InjectorInv' /\ NullsInv'
    <2>1. InjectorInv'
      BY <1>4, DestroyKeeps, LockTypeMapKeeps, StopThreadKeeps, EraseKeeps, DestroyedKeeps
      DEF DestructorStep
    <2> QED
      BY <1>4, <2>1, NullsMainFree
  <1>5. CASE UNCHANGED vars
    <2>1. calls' = calls /\ UNCHANGED <<typeMap_, cycleVars>>
      BY <1>5 DEF vars, instanceVars
    <2> QED
      BY <1>5, <2>1, StutterKeeps, NullsWorker
  <1> QED
    BY <1>1, <1>2, <1>3, <1>4, <1>5 DEF Next

-----------------------------------------------------------------------------
(* The theorems. *)

\* What the calls, the maps and the orders of creation of all injectors have to
\* do with each other, whatever is asked for and whichever constructor throws.
THEOREM InvariantHolds ==
  ASSUME Hypotheses
  PROVE  Spec => [](InjectorInv /\ NullsInv)
  <1>1. Init => InjectorInv /\ NullsInv
    BY InitFits, NullsInit
  <1> QED
    BY <1>1, StepFits, PTL DEF Spec

\* Every variable keeps to its type, a thread that is in no call holds no lock
\* (Injector.hpp:388), and an injector records a type once.
THEOREM TypesAreCreatedOnce ==
  ASSUME Hypotheses
  PROVE  Spec => []InjectorTypeOK
  <1>1. InjectorInv => InjectorTypeOK
    BY DEF InjectorInv
  <1> QED
    BY <1>1, InvariantHolds, PTL

\* No injector destroys an instance that another one still refers to
\* (Injector.hpp:489-492).
THEOREM DestructionFollowsDependencies ==
  ASSUME Hypotheses
  PROVE  Spec => []DependenciesOutliveDependents
  <1>1. InjectorInv => DependenciesOutliveDependents
    <2> SUFFICES ASSUME InjectorInv, NEW x \in alive, NEW y \in refs[x]
                 PROVE  y \in alive
      BY DEF DependenciesOutliveDependents
    <2> QED
      BY DEF InjectorInv, OrderInv, Uses, Settled
  <1> QED
    BY <1>1, InvariantHolds, PTL

\* What get() returned is there for as long as a recipe, or the thread of a
\* Subsystem, may use it.
THEOREM ReferencesStayAlive ==
  ASSUME Hypotheses
  PROVE  Spec => []ReferencesAreAlive
  <1>1. InjectorInv => ReferencesAreAlive
    <2> SUFFICES ASSUME InjectorInv PROVE ReferencesAreAlive
      OBVIOUS
    <2> USE ConstantsFit
    <2>1. ASSUME NEW t \in Threads, NEW n \in DOMAIN calls[t]
          PROVE  calls[t][n].args \subseteq alive
      <3>1. CASE t = main
        BY <3>1 DEF InjectorInv, CallsInv, FrameInv, FrameUses, Settled
      <3>2. CASE t # main
        <4>1. DOMAIN calls[t] = 1..Len(calls[t]) /\ Len(calls[t]) \in Nat
          BY FramesTyped DEF InjectorInv
        <4>2. calls[t] # <<>>
          BY <2>1
        <4>3. Len(calls[t]) = 1 /\ calls[t][1].args = {}
          BY <3>2, <4>2 DEF InjectorInv, WorkersInv, WorkerInv
        <4> QED
          BY <2>1, <4>1, <4>3
      <3> QED
        BY <3>1, <3>2
    <2>2. ASSUME NEW t \in Threads \ {main}, thread[t] \in {"running", "stopping"}
          PROVE  holds[t] \subseteq alive
      <3>1. holds[t] \subseteq WantedBy(t)
        BY DEF InjectorInv, WorkersInv, WorkerInv
      <3> QED
        BY <2>2, <3>1, WorkerFinds
    <2> QED
      BY <2>1, <2>2 DEF ReferencesAreAlive
  <1> QED
    BY <1>1, InvariantHolds, PTL

\* However the recipes depend on each other, no call injects a type from within
\* the injection of that type (Injector.hpp:81-84).
THEOREM RecursionEnds ==
  ASSUME Hypotheses
  PROVE  Spec => []NoEndlessRecursion
  <1>1. InjectorInv => NoEndlessRecursion
    <2> SUFFICES ASSUME InjectorInv, NEW t \in Threads,
                        NEW m \in DOMAIN calls[t], NEW n \in DOMAIN calls[t], m # n,
                        Injecting(calls[t][m]), Injecting(calls[t][n])
                 PROVE  <<calls[t][m].inj, calls[t][m].type>>
                          # <<calls[t][n].inj, calls[t][n].type>>
      BY DEF NoEndlessRecursion
    <2> USE ConstantsFit
    <2>1. DOMAIN calls[t] = 1..Len(calls[t]) /\ Len(calls[t]) \in Nat
      BY FramesTyped DEF InjectorInv
    <2>2. CASE t = main
      <3>1. CASE m < n
        BY <2>2, <3>1 DEF InjectorInv, CallsInv, PairInv, Busy
      <3>2. CASE n < m
        BY <2>2, <3>2 DEF InjectorInv, CallsInv, PairInv, Busy
      <3> QED
        BY <2>1, <3>1, <3>2
    <2>3. CASE t # main
      <3>1. Len(calls[t]) # 1 /\ calls[t] # <<>>
        BY <2>1
      <3> QED
        BY <2>3, <3>1 DEF InjectorInv, WorkersInv, WorkerInv
    <2> QED
      BY <2>2, <2>3
  <1> QED
    BY <1>1, InvariantHolds, PTL
=============================================================================
