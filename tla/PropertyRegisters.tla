---- MODULE PropertyRegisters ----
(***************************************************************************)
(* What PropertyMap promises to its clients: one register per name, whose    *)
(* type is fixed by the first access, and operations that take effect at     *)
(* one point in time.                                                        *)
(***************************************************************************)
EXTENDS PropertyValues

CONSTANTS Threads, Keys, NoEntry

VARIABLES
  register,  \* the value of each name, or NoEntry
  got        \* what each thread read last

Init ==
  /\ register \in [Keys -> (UNION {Values(T) : T \in Trivial}) \cup {Word("empty"), NoEntry}]
  /\ got = [t \in Threads |-> KEY_NOT_FOUND_STR]

\* A typed access creates a register; only a string has a value from the start.
Create(k) ==
  /\ register[k] = NoEntry
  /\ \E value \in (UNION {Values(T) : T \in Trivial}) \cup {Word("empty")} :
       register' = [register EXCEPT ![k] = value]
  /\ UNCHANGED got

Read(t, k) ==
  /\ got' = [got EXCEPT ![t] = IF register[k] = NoEntry THEN KEY_NOT_FOUND_STR
                               ELSE register[k]]
  /\ UNCHANGED register

\* A write never changes the type; a variant creates a register with its value.
Write(k, value) ==
  /\ register[k] # NoEntry => value.type = register[k].type
  /\ register' = [register EXCEPT ![k] = value]
  /\ UNCHANGED got

Next ==
  \E k \in Keys :
    \/ Create(k)
    \/ \E t \in Threads : Read(t, k)
    \/ \E value \in AllValues \ {Word("torn")} : Write(k, value)

Spec == Init /\ [][Next]_<<register, got>>
=============================================================================
