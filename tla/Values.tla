------------------------------- MODULE Values -------------------------------
(***************************************************************************)
(* com2lua and lua2com of tLuaCOMTypeHandler: a VARIANT as a Lua value and *)
(* back.  A variant is a record with its vt and a field that depends on    *)
(* it; a Lua value a record with its kind.  The elements of an array are   *)
(* left as they are: each is converted by the same two functions.          *)
(***************************************************************************)
EXTENDS Numbers, Dates

CONSTANTS
    ToArray(_),     \* a Lua table as a SAFEARRAY and back, or a record with the
    ToTable(_)      \* kind "error" or "crash" (Vectors)

\* Variants.
Variant(vt) == [vt |-> vt]
IntegerVariant(vt, v) == [vt |-> vt, int |-> v]
RealVariant(vt, twice) == [vt |-> vt, twice |-> twice]
BoolVariant(b) == [vt |-> "VT_BOOL", bool |-> b]
ErrorVariant(scode) == [vt |-> "VT_ERROR", scode |-> scode]
DateVariant(time) == [vt |-> "VT_DATE", time |-> time]
StringVariant(x) == [vt |-> "VT_BSTR", string |-> x]
ArrayVariant(a) == [vt |-> "VT_ARRAY", array |-> a]
BytesVariant(x) == [vt |-> "VT_ARRAY|VT_UI1", string |-> x]
ObjectVariant(vt, object) == [vt |-> vt, object |-> object]

\* Lua values, besides numbers and tables; a text is a string that is
\* no number, a sequence of "x" and of the character NUL.
LuaNil == [kind |-> "nil"]
LuaBool(b) == [kind |-> "boolean", bool |-> b]
LuaText(s) == [kind |-> "text", text |-> s]
LuaTyped(type, x) == [kind |-> "typed", type |-> type, value |-> x]
LuaDate(date) == [kind |-> "date", date |-> date]
LuaObject(what) == [kind |-> "object", object |-> what]

NoConversion == [kind |-> "exception"]  \* a tLuaCOMException

IsRefused(x) == x \in {NoConversion, Variant("exception")}

\* numericVariantTypeName
TypeName == [VT_I8 |-> "int8", VT_UI8 |-> "uint8", VT_I4 |-> "int4", VT_UI4 |-> "uint4",
             VT_R4 |-> "float", VT_R8 |-> "double", VT_CY |-> "currency",
             VT_DECIMAL |-> "decimal"]
IntegerVts == {"VT_I8", "VT_UI8", "VT_I4", "VT_UI4"}
RealVts == {"VT_R4", "VT_R8", "VT_CY", "VT_DECIMAL"}

\* pushTableVar...: {Type = name, Value = x} where luacom.TableVariants asks for
\* it, else x.
Explicit(tables, name, x) == IF tables THEN LuaTyped(name, x) ELSE x

\* A date as luacom.DateFormat asks for it: "table", or a text of the nearest
\* second; the text stands for the date here.
DateToLua(time, format) ==
    LET date == VariantTimeToSystemTimeWithMilliseconds(time)
        rounded == RoundSystemTimeToNearestSecond(date)
    IN  CASE date = NoDate -> NoConversion
          [] date # NoDate /\ format = "table" -> LuaDate(date)
          [] date # NoDate /\ format = "string_ms_accurate" ->
                IF rounded = NoDate THEN NoConversion
                ELSE [kind |-> "datetext", date |-> rounded]

\* An object: nil, the table that serves it (pushLuaDispatchIfSameState), or a
\* new LuaCOM object.
DispatchToLua(object) == CASE object = "NULL" -> LuaNil
                           [] object = "own" -> LuaObject("served table")
                           [] object = "other" -> LuaObject("LuaCOM object")

UnknownToLua(object) == CASE object = "enumerator" -> LuaObject("enumerator")
                          [] object = "unknown" -> LuaObject("IUnknown")
                          [] OTHER -> DispatchToLua(object)

\* com2lua
ComToLua(x, how) ==
    LET typed(name, v) == Explicit(how.tables, name, v)
    IN  CASE x.vt = "VT_EMPTY" -> typed("empty", LuaNil)
          [] x.vt = "VT_NULL" -> typed("null", LuaNil)
          [] x.vt = "VT_ERROR" -> typed("error", LuaNil)
          [] x.vt = "VT_BOOL" -> typed("bool", LuaBool(x.bool))
          [] x.vt = "VT_BSTR" -> typed("string", x.string)
          [] x.vt \in IntegerVts ->
                typed(TypeName[x.vt], IntegerToLua(x.int, TypeName[x.vt], how.lua53))
          [] x.vt \in RealVts -> typed(TypeName[x.vt], LuaFloat(x.twice))
          [] x.vt = "VT_DATE" -> DateToLua(x.time, how.dates)
          [] x.vt = "VT_DISPATCH" -> DispatchToLua(x.object)
          [] x.vt = "VT_UNKNOWN" -> UnknownToLua(x.object)
          [] x.vt = "VT_ARRAY|VT_UI1" -> x.string
          [] x.vt = "VT_ARRAY" ->
                LET table == ToTable(x.array)
                IN  IF table.kind = "error" THEN NoConversion ELSE table

-----------------------------------------------------------------------------
(* lua2com. *)

IntegerOrError(vt, r) == IF r.ok THEN IntegerVariant(vt, r.v) ELSE Variant("exception")

\* A number as a double; beyond Exact only a neighbour may be one.
Inexact == 4 * Wide
RealFrom(vt, x) ==
    CASE x.kind = "float" -> RealVariant(vt, x.twice)
      [] x.kind = "integer" -> RealVariant(vt, IF x.v \in -Exact .. Exact THEN 2 * x.v
                                               ELSE Inexact)
      [] OTHER -> RealVariant(vt, 0)

\* A table or a string as an array.
ArrayToCom(x) ==
    CASE x.kind \in {"text", "string"} -> BytesVariant(x)
      [] x.kind = "table" ->
            LET array == ToArray(x)
            IN  (CASE array.kind = "error" -> Variant("exception")
                   [] array.kind = "crash" -> Variant("crash")
                   [] OTHER -> ArrayVariant(array))
      [] OTHER -> Variant("exception")

\* string2bstr of a string without its length: up to the first NUL.
UpToNul(x) ==
    IF x.kind # "text" THEN x
    ELSE LET n == {i \in DOMAIN x.text : \A j \in 1 .. i : x.text[j] # "NUL"}
         IN  LuaText([i \in n |-> x.text[i]])

\* {Type = name, Value = x}
TypedToCom(name, x) ==
    CASE name = "int8" -> IntegerOrError("VT_I8", IntegerToCom(x, name))
      [] name = "uint8" -> IntegerOrError("VT_UI8", IntegerToCom(x, name))
      [] name = "int4" -> IntegerOrError("VT_I4", IntegerToCom(x, name))
      [] name = "uint4" -> IntegerOrError("VT_UI4", IntegerToCom(x, name))
      [] name = "float" -> RealFrom("VT_R4", x)
      [] name = "double" -> RealFrom("VT_R8", x)
      [] name = "currency" -> RealFrom("VT_CY", x)
      [] name = "decimal" -> RealFrom("VT_DECIMAL", x)
      [] name = "string" -> StringVariant(UpToNul(x))
      [] name = "null" -> Variant("VT_NULL")
      [] name = "error" -> ErrorVariant(0)      \* lua_tonumber(nil)
      [] name = "bool" -> BoolVariant(x = LuaBool(TRUE))
      [] name = "array" -> ArrayToCom(x)
      [] OTHER -> Variant("VT_EMPTY")

\* A table with one of the fields of a date.
DateToCom(date, error) ==
    DateVariant(SystemTimeToVariantTimeWithMilliseconds(date, error))

\* The object behind a LuaCOM object, or the table's own tLuaDispatch.
ObjectToCom(what) == CASE what = "served table" -> ObjectVariant("VT_DISPATCH", "own")
                       [] what = "LuaCOM object" -> ObjectVariant("VT_DISPATCH", "other")
                       [] what = "IUnknown" -> ObjectVariant("VT_UNKNOWN", "unknown")
                       [] OTHER -> Variant("VT_EMPTY")

\* lua2com, where the caller asks for a parameter's or an array's type: only the
\* widest integers are taken into account.
LuaToCom(x, how) ==
    LET wide == how.type \in {"VT_I8", "VT_UI8"}
        number == x.kind \in {"integer", "float", "string"}
    IN  CASE number /\ wide -> IntegerOrError(how.type, IntegerToCom(x, TypeName[how.type]))
          [] number /\ ~wide -> IF x.kind = "string" THEN StringVariant(x)
                                ELSE RealFrom("VT_R8", x)
          [] x.kind = "text" -> IF wide THEN Variant("exception") ELSE StringVariant(x)
          [] x.kind = "nil" -> Variant("VT_EMPTY")
          [] x.kind = "boolean" -> BoolVariant(x.bool)
          [] x.kind = "object" -> ObjectToCom(x.object)
          [] x.kind = "typed" -> TypedToCom(x.type, x.value)
          [] x.kind = "date" -> DateToCom(x.date, how.error)
          [] x.kind = "table" -> ArrayToCom(x)
          [] x.kind = "datetext" -> StringVariant(x)
=============================================================================
