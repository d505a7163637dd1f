---- MODULE PropertyValues ----
(***************************************************************************)
(* The values of omulator::PropertyMap and the conversions between their     *)
(* types, PropVariant_t and extract_variant_().                              *)
(***************************************************************************)
EXTENDS Integers

CONSTANTS
  Scale,      \* how many values S64 and U64 have: 2^64
  MaxDouble   \* doubles are multiples of 1/2 up to this many halves: every
              \* integer is one, and no conversion rounds them

ASSUME ValuesAssumption ==
  /\ Scale \in Nat \ {0} /\ Scale % 2 = 0
  /\ MaxDouble \in Nat
  /\ MaxDouble >= 2 * (Scale - 1)

Trivial == {"S64", "U64", "bool", "double"}
PropTypes == Trivial \cup {"string"}

\* A number is kept as the count of its halves, and a bool as 0 or 1.  A string
\* is the text of a number (with the word "") or another word.
Words == {"true", "false", "text", "empty", "torn"}
Number(type, half) == [type |-> type, half |-> half, word |-> ""]
Text(half) == Number("string", half)
Word(word) == [type |-> "string", half |-> 0, word |-> word]

\* What get_prop_variant() returns for a name that is not in the map.
KEY_NOT_FOUND_STR == [type |-> "none", half |-> 0, word |-> ""]

Least(type)    == IF type = "S64" THEN -(Scale \div 2) ELSE 0
Greatest(type) == IF type = "S64" THEN (Scale \div 2) - 1 ELSE Scale - 1
Integral(type) == {2 * n : n \in Least(type)..Greatest(type)}

Numbers(type) ==
  CASE type \in {"S64", "U64"} -> Integral(type)
    [] type = "bool"           -> {0, 2}
    [] type = "double"         -> -MaxDouble..MaxDouble

\* An arithmetic value of a type, whatever the memory of a new entry holds.
Values(type) == {Number(type, half) : half \in Numbers(type)}

\* What an entry or a variant may hold.
AllValues ==
  (UNION {Values(type) : type \in Trivial})
  \cup {Text(half) : half \in -MaxDouble..MaxDouble}
  \cup {Word(w) : w \in Words}

Truncated(half) == IF half >= 0 THEN 2 * (half \div 2) ELSE -(2 * ((-half) \div 2))

\* An integer modulo Scale, in the range of the type.
Wrapped(type, half) ==
  2 * ((((half \div 2) - Least(type)) % Scale) + Least(type))

\* static_cast between arithmetic types.  A double that does not fit becomes
\* any integer: the cast is undefined.
Cast(value, type) ==
  CASE type = "bool"   -> {IF value.half # 0 THEN 2 ELSE 0}
    [] type = "double" -> {value.half}
    [] OTHER ->
         IF value.type # "double" THEN {Wrapped(type, value.half)}
         ELSE IF Truncated(value.half) \in Integral(type) THEN {Truncated(value.half)}
              ELSE Integral(type)

\* istringstream >> t.  The extraction of an integer stops at a fraction, that
\* of an unsigned one takes a sign; one that is out of range gives the nearest
\* end of the range (the greatest value, if unsigned), one of a bool other than
\* 0 and 1 gives true, and one without any digit 0.
Extracted(text, type) ==
  LET half == Truncated(text.half)
      bottom == 2 * Least(type)
      top == 2 * Greatest(type)
  IN  IF text.word # "" THEN 0
      ELSE CASE type = "double" -> text.half
             [] type = "bool"   -> IF half = 0 THEN 0 ELSE 2
             [] type = "S64"    -> IF half < bottom THEN bottom
                                   ELSE IF half > top THEN top ELSE half
             [] type = "U64"    -> IF half \in -top..top THEN Wrapped(type, half) ELSE top

\* extract_variant_string_(): numbers as digits, a bool with std::boolalpha.
Formatted(value) ==
  IF value.type = "bool" THEN Word(IF value.half = 0 THEN "false" ELSE "true")
  ELSE Text(value.half)

\* extract_variant_(): the values that a variant may become.
Coerced(value, type) ==
  CASE value.type = type     -> {value}
    [] value.type # type /\ type = "string" -> {Formatted(value)}
    [] value.type = "string" /\ type # "string" ->
         {Number(type, Extracted(value, type))}
    [] OTHER -> {Number(type, half) : half \in Cast(value, type)}
=============================================================================
