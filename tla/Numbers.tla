------------------------------ MODULE Numbers ------------------------------
(***************************************************************************)
(* Integers between Lua and COM (tLuaCOMTypeHandler.cpp).  A Lua number is *)
(* a double - with Lua 5.3, or an integer as wide as COM's widest - and a  *)
(* double holds every integer only up to Exact, so that wider ones travel  *)
(* as strings of decimal digits.                                           *)
(***************************************************************************)
EXTENDS Integers, Sequences

CONSTANTS
    Wide,       \* how many values the widest types have: 2^64 in the code
    Narrow,     \* and the narrow ones: 2^32
    Exact       \* a double holds every integer up to here: 2^53

ASSUME NumbersAssumption ==
    /\ {Wide, Narrow, Exact} \subseteq Nat \ {0}
    /\ Wide % 2 = 0 /\ Narrow % 2 = 0
    /\ Narrow <= Exact /\ 2 * Exact <= Wide

\* The widest and the narrow types, as {Type = ...} names them.
IntegerTypes == {"int8", "uint8", "int4", "uint4"}
IsWide(type) == type \in {"int8", "uint8"}
Span(type) == IF IsWide(type) THEN Wide ELSE Narrow
Signed(type) == type \in {"int8", "int4"}
Least(type) == IF Signed(type) THEN -(Span(type) \div 2) ELSE 0
Greatest(type) == IF Signed(type) THEN Span(type) \div 2 - 1 ELSE Span(type) - 1
InRange(v, type) == Least(type) <= v /\ v <= Greatest(type)
Wrapped(v) == v % Wide

\* A Lua number is an integer (Lua 5.3) or a double, given as twice its value for
\* the halves between integers; a string is a sign and digits, 10 for any other
\* character.
LuaInteger(v) == [kind |-> "integer", v |-> v]
LuaFloat(twice) == [kind |-> "float", twice |-> twice]
LuaString(neg, digits) == [kind |-> "string", neg |-> neg, digits |-> digits]

Refused == [ok |-> FALSE]
Taken(v) == [ok |-> TRUE, v |-> v]

\* (The last digit ignored.)
TooLong(value, digit, limit) == value > limit \div 10

\* parseUnsignedDecimal: ULONGLONG arithmetic, which must not wrap.
TooLarge(value, digit, limit) == value > (limit - digit) \div 10
ParseDigit(sofar, digit, limit) ==
    IF ~sofar.ok \/ digit = 10 \/ TooLarge(sofar.v, digit, limit) THEN Refused
    ELSE Taken(Wrapped(sofar.v * 10 + digit))
Parsed(digits, limit) ==
    LET after[i \in 0 .. Len(digits)] ==
            IF i = 0 THEN Taken(0) ELSE ParseDigit(after[i-1], digits[i], limit)
    IN  after
ParseUnsigned(digits, limit) ==
    IF digits = <<>> THEN Refused ELSE Parsed(digits, limit)[Len(digits)]

\* parseSignedDecimal
ParseSigned(s) ==
    LET magnitude == ParseUnsigned(s.digits, IF s.neg THEN Wide \div 2 ELSE Wide \div 2 - 1)
    IN  IF magnitude.ok /\ s.neg THEN Taken(-magnitude.v) ELSE magnitude

\* luaNumberToSignedInteger and luaNumberToUnsignedInteger
FromFloat(twice, least) ==
    IF twice < 2 * least \/ twice > 2 * Exact \/ twice % 2 # 0 THEN Refused
    ELSE Taken(twice \div 2)

\* luaValueTo(Un)signedInteger(OrString)
SignedOf(x) == CASE x.kind = "string" -> ParseSigned(x)
                 [] x.kind = "integer" -> Taken(x.v)
                 [] x.kind = "float" -> FromFloat(x.twice, -Exact)
                 [] OTHER -> Refused
UnsignedOf(x) ==
    CASE x.kind = "string" /\ ~x.neg -> ParseUnsigned(x.digits, Wide - 1)
      [] x.kind = "integer" /\ x.v >= 0 -> Taken(x.v)
      [] x.kind = "float" -> FromFloat(x.twice, 0)
      [] OTHER -> Refused

\* lua2com of {Type = type, Value = x}, and of a parameter of the wide types.
IntegerToCom(x, type) ==
    LET r == IF Signed(type) THEN SignedOf(x) ELSE UnsignedOf(x)
    IN  IF r.ok /\ InRange(r.v, type) THEN r ELSE Refused

\* pushUnsignedIntegerString: the digits of a ULONGLONG.
Digits[v \in 0 .. Wide - 1] ==
    IF v < 10 THEN <<v>> ELSE Append(Digits[v \div 10], v % 10)

\* pushSignedInteger and pushUnsignedInteger
PushInteger(v, lua53) ==
    CASE lua53 /\ InRange(v, "int8") -> LuaInteger(v)
      [] ~(lua53 /\ InRange(v, "int8")) /\ -Exact <= v /\ v <= Exact -> LuaFloat(2 * v)
      [] OTHER -> LuaString(v < 0, Digits[Wrapped(IF v < 0 THEN -(v + 1) + 1 ELSE v)])

\* com2lua of an integer: the narrow types become doubles.
IntegerToLua(v, type, lua53) ==
    IF IsWide(type) THEN PushInteger(v, lua53) ELSE LuaFloat(2 * v)

-----------------------------------------------------------------------------
\* The numbers that the beginnings of a string of digits stand for, and the one
\* that a Lua value does.
Numeral(digits) ==
    LET value[i \in 0 .. Len(digits)] == IF i = 0 THEN 0 ELSE value[i-1] * 10 + digits[i]
    IN  value
Denotes(x) ==
    CASE x.kind = "integer" -> Taken(x.v)
      [] x.kind = "float" ->
            IF x.twice % 2 = 0 THEN Taken(x.twice \div 2) ELSE Refused
      [] x.kind = "string" ->
            IF x.digits = <<>> \/ (\E i \in DOMAIN x.digits : x.digits[i] = 10) THEN Refused
            ELSE LET value == Numeral(x.digits)[Len(x.digits)]
                 IN  Taken(IF x.neg THEN -value ELSE value)
      [] OTHER -> Refused
=============================================================================
