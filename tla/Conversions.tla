---------------------------- MODULE Conversions ----------------------------
(***************************************************************************)
(* A value crosses between COM and Lua up to twice: a script passes on     *)
(* what it got from one COM object to another, or gets back what it gave.  *)
(***************************************************************************)
EXTENDS Values

CONSTANTS
    GivenByCom,     \* what COM objects give, and
    GivenByLua      \* what scripts give, each with the settings: TableVariants and
                    \* DateFormat of luacom, Lua's version, the VARTYPE that is
                    \* asked for, the error of a double

\* What there is to give; tables and arrays may be any.
Variants ==
    (UNION {[vt : {vt}, int : Least(TypeName[vt]) .. Greatest(TypeName[vt])] : vt \in IntegerVts})
    \cup [vt : RealVts, twice : Int]
    \cup [vt : {"VT_EMPTY", "VT_NULL"}]
    \cup [vt : {"VT_ERROR"}, scode : Int]
    \cup [vt : {"VT_BOOL"}, bool : BOOLEAN]
    \cup [vt : {"VT_BSTR", "VT_ARRAY|VT_UI1"},
          string : [kind : {"text"}, text : Seq({"x", "NUL"})]]
    \cup [vt : {"VT_DATE"}, time : [days : Int, part : 0 .. DayParts - 1]]
    \cup [vt : {"VT_DISPATCH"}, object : {"NULL", "own", "other"}]
    \cup [vt : {"VT_UNKNOWN"}, object : {"own", "other", "enumerator", "unknown"}]

NumberKinds == {"integer", "float", "string"}
LuaNumbers ==
    [kind : {"integer"}, v : Least("int8") .. Greatest("int8")]
    \cup [kind : {"float"}, twice : Int]
    \cup [kind : {"string"}, neg : BOOLEAN, digits : Seq(0 .. 10)]

IsScripted(x) ==
    /\ x.kind \in NumberKinds => x \in LuaNumbers
    /\ x.kind = "typed" /\ x.value.kind \in NumberKinds => x.value \in LuaNumbers
    /\ x.kind = "date" => IsDate(x.date)

Settings == [tables : BOOLEAN, lua53 : BOOLEAN, dates : {"table", "string_ms_accurate"},
             type : {"VT_EMPTY", "VT_I8", "VT_UI8"}, error : -1 .. 1]

ASSUME ConversionsAssumption ==
    /\ \A g \in GivenByCom : /\ g[1] \in Variants \/ g[1].vt = "VT_ARRAY"
                            /\ g[2] \in Settings
    /\ \A g \in GivenByLua : IsScripted(g[1]) /\ g[2] \in Settings

VARIABLES
    from,           \* where the value comes from
    trip,           \* the value on each side that it came to
    how             \* the settings

cvars == <<from, trip, how>>

NoSettings == [tables |-> FALSE, lua53 |-> FALSE, dates |-> "table",
               type |-> "VT_EMPTY", error |-> 0]

ConversionsInit == from = "none" /\ trip = <<>> /\ how = NoSettings

Starts(side, x, h) ==
    /\ from = "none"
    /\ from' = side /\ trip' = <<x>> /\ how' = h

Last == trip[Len(trip)]
Travels == from # "none" /\ Len(trip) < 3 /\ ~IsRefused(Last) /\ Last # Variant("crash")

OnComSide == (from = "COM") = (Len(trip) % 2 = 1)

CrossesToLua == /\ Travels /\ OnComSide
                /\ trip' = Append(trip, ComToLua(Last, how))
                /\ UNCHANGED <<from, how>>

CrossesToCom == /\ Travels /\ ~OnComSide
                /\ trip' = Append(trip, LuaToCom(Last, how))
                /\ UNCHANGED <<from, how>>

Arrives == /\ from # "none" /\ ~Travels
           /\ from' = "none" /\ trip' = <<>> /\ how' = NoSettings

ConversionsNext ==
    \/ from = "none" /\ \E g \in GivenByCom : Starts("COM", g[1], g[2])
    \/ from = "none" /\ \E g \in GivenByLua : Starts("Lua", g[1], g[2])
    \/ CrossesToLua
    \/ CrossesToCom
    \/ Arrives

ConversionsSpec == ConversionsInit /\ [][ConversionsNext]_cvars

-----------------------------------------------------------------------------
(* Properties. *)

Came(side, n) == from = side /\ Len(trip) >= n

\* Types that COM gives and that a Lua value cannot say: an error's code, what
\* follows a NUL, the type of an array's elements, IUnknown of an object that
\* has more; a date's text is left out, too.
Sayable(x) == /\ x.vt \notin {"VT_ARRAY", "VT_ARRAY|VT_UI1", "VT_DATE"}
              /\ x.vt = "VT_ERROR" => x.scode = 0
              /\ x.vt = "VT_BSTR" => UpToNul(x.string) = x.string
              /\ x.vt = "VT_UNKNOWN" => x.object = "unknown"
              /\ x.vt = "VT_DISPATCH" => x.object # "NULL"

\* With luacom.TableVariants, a variant that a script passes on arrives with the
\* type and the value that it had, also an integer that no double holds.
VariantsKept ==
    Came("COM", 2) /\ how.tables /\ Sayable(trip[1]) =>
        /\ ~IsRefused(trip[2])
        /\ Len(trip) = 3 => trip[3] = trip[1]

\* The integer type that a Lua value asks for, or that the caller does.
AskedType(x) == CASE x.kind = "typed" /\ x.type \in IntegerTypes -> x.type
                  [] x.kind \in NumberKinds
                        /\ how.type \in {"VT_I8", "VT_UI8"} -> TypeName[how.type]
                  [] OTHER -> "none"

\* An integer that a script gives arrives exactly or is refused: never rounded,
\* wrapped or cut.  It is refused only if the type does not hold it, a double
\* that large says nothing, or a sign is given to an unsigned type.
IntegersExact ==
    Came("Lua", 2) /\ AskedType(trip[1]) # "none" =>
        LET x == IF trip[1].kind = "typed" THEN trip[1].value ELSE trip[1]
            meant == Denotes(x)
            holds == meant.ok /\ InRange(meant.v, AskedType(trip[1]))
            vague == \/ x.kind = "float" /\ x.twice \notin -2 * Exact .. 2 * Exact
                     \/ x.kind = "string" /\ x.neg /\ ~Signed(AskedType(trip[1]))
        IN  IF IsRefused(trip[2]) THEN ~holds \/ vague
            ELSE holds /\ trip[2].int = meant.v

\* (com2lua, lua2com, pushSignedInteger, pushUnsignedInteger, parse...Decimal,
\* luaNumberTo...Integer)
ValuesKept == VariantsKept /\ IntegersExact

\* A date that a script gives comes back to the millisecond, with the right day of
\* the week whatever it had, and as a text to the nearest second - near midnight, at
\* the end of a month, a year, before 1900, whatever the error of the double.  Only
\* in the last half second of the year 9999 it does not, for Windows has no date to
\* round to.
\* (VariantTimeToSystemTimeWithMilliseconds, RoundSystemTimeToNearestSecond)
DatesKept ==
    Came("Lua", 3) /\ trip[1].kind = "date" /\ NearestSecond(trip[1].date) # NoDate =>
        trip[3] = IF how.dates = "table" THEN LuaDate(Weekdayed(trip[1].date))
                  ELSE [kind |-> "datetext", date |-> NearestSecond(trip[1].date)]
=============================================================================
