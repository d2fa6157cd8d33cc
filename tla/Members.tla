------------------------------ MODULE Members ------------------------------
(***************************************************************************)
(* What a script gets when it indexes a COM object: obj.Name and           *)
(* obj.Name = value, the "index" and "settable" tag methods of luacom.cpp  *)
(* and the lookups of tLuaCOM behind them.  Lua calls them only for keys   *)
(* that the object's Lua table does not have, so that a function stored    *)
(* there redefines a member.                                               *)
(*                                                                         *)
(* A key is a name, or one of the two prefixes before it.  What a name     *)
(* stands for is described by a record: funcs are the descriptions that    *)
(* type information has for it (Invocations), and known says whether       *)
(* GetIDsOfNames knows it.  Constants of the type library are never found: *)
(* getConstant asks an ITypeComp that tLuaCOM's constructor never gets.    *)
(***************************************************************************)
EXTENDS Naturals

CONSTANTS
    Descriptions,   \* what a name may stand for
    MaxValue        \* the values of a property, 0 at first

Plain  == "Name"
Prefixed == {"getName", "setName"}
Keys == {Plain} \cup Prefixed

\* A property read without and with parameters, a property's assignment, a
\* method.
Invocations == {"get0", "getN", "put", "func"}

ASSUME MembersAssumption ==
    /\ MaxValue \in Nat
    /\ \A d \in Descriptions : /\ d.funcs \subseteq Invocations
                               /\ d.known \in BOOLEAN
                               /\ d.funcs # {} => d.known

Unknown == [funcs |-> {}, known |-> FALSE]

VARIABLES
    object,     \* what each key stands for; none before the script has it
    table,      \* the object's Lua table
    property,   \* the value of the object's property
    expected,   \* what the script expects obj.Name to be: its last assignment
    redefined,  \* the script stored a function under obj.Name
    found       \* the key that the script read last, and what it found

mvars == <<object, table, property, expected, redefined, found>>

Nothing  == [kind |-> "nil"]
Function == [kind |-> "function"]
Value(v) == [kind |-> "value", v |-> v]
Closure(invkind) == [kind |-> "closure", invkind |-> invkind]

NoObject == [k \in Keys |-> Unknown]

MembersInit ==
    /\ object = NoObject
    /\ table = [k \in Keys |-> Nothing]
    /\ property = Value(0)
    /\ expected = Nothing /\ redefined = FALSE /\ found = <<Plain, Nothing>>

\* The script gets an object whose property is the plain name's.
GetsObject(d, prefixes) ==
    /\ object = NoObject
    /\ object' = [k \in Keys |-> CASE k = Plain -> d
                                   [] k # Plain /\ k \in prefixes ->
                                        [funcs |-> {"func"}, known |-> TRUE]
                                   [] OTHER -> Unknown]
    /\ UNCHANGED <<table, property, expected, redefined, found>>

-----------------------------------------------------------------------------
(* Lookups. *)

\* getFUNCDESC: what ITypeComp or the cache of earlier answers has for the key.
GetFuncDesc(key) == object[key].funcs

\* checkPrefix, and the key behind the prefix
StrippedName(key) == IF key \in Prefixed THEN Plain ELSE key
IsPropGet(key) == key = "getName"
IsPropPut(key) == key = "setName"

\* The script stored a function under the name behind the prefix.
Redefined(key) == /\ key \in Prefixed
                  /\ table[StrippedName(key)] = Function

\* untyped_tagmeth_index
UntypedIndex(key) ==
    LET name == StrippedName(key)
    IN  CASE object[key].known -> Closure({"get", "func"})
          [] ~object[key].known /\ Redefined(key) -> Function
          [] ~object[key].known /\ ~Redefined(key) /\ key \in Prefixed /\ object[name].known ->
                Closure(IF IsPropGet(key) THEN {"get"} ELSE {"put"})
          [] OTHER -> Nothing

\* typed_tagmeth_index, once the descriptions are found; get and put say that
\* the prefix was stripped.
TypedMember(funcs, get, put) ==
    CASE funcs \cap {"get0", "getN"} # {} /\ ~put ->
            IF "get0" \in funcs /\ ~get THEN property ELSE Closure({"get"})
      [] "put" \in funcs /\ ~get /\ (put \/ funcs \cap {"get0", "getN"} = {}) ->
            Closure({"put"})
      [] funcs = {"func"} /\ ~get /\ ~put -> Closure({"func"})
      [] OTHER -> Nothing

TypedIndex(key) ==
    IF GetFuncDesc(key) # {} THEN TypedMember(GetFuncDesc(key), FALSE, FALSE)
    ELSE IF Redefined(key) THEN Function
    ELSE TypedMember(GetFuncDesc(StrippedName(key)), IsPropGet(key), IsPropPut(key))

\* tagmeth_index
Index(key) == IF TypedIndex(key) # Nothing THEN TypedIndex(key) ELSE UntypedIndex(key)

\* tagmeth_settable: a function goes into the table; for a value, a member that
\* type information knows takes it or refuses, one that only GetIDsOfNames knows
\* takes it, and any other key is a field of the table.
ReadOnly(key) == GetFuncDesc(key) # {} /\ "put" \notin GetFuncDesc(key)
Refuses(key, x) == x # Function /\ ReadOnly(key)
PutsProperty(key, x) == /\ x # Function
                        /\ \/ "put" \in GetFuncDesc(key)
                           \/ GetFuncDesc(key) = {} /\ object[key].known

\* (The value kept in the table as well.)
CachingSettable(key, x) ==
    /\ property' = IF PutsProperty(key, x) THEN x ELSE property
    /\ table' = IF Refuses(key, x) THEN table ELSE [table EXCEPT ![key] = x]

Settable(key, x) ==
    /\ property' = IF PutsProperty(key, x) THEN x ELSE property
    /\ table' = IF PutsProperty(key, x) \/ Refuses(key, x) THEN table
                ELSE [table EXCEPT ![key] = x]

-----------------------------------------------------------------------------
(* The script's steps. *)

\* x = obj.key: the table's field, or a member.
Reads(key) ==
    /\ object # NoObject
    /\ found' = <<key, IF table[key] # Nothing THEN table[key] ELSE Index(key)>>
    /\ UNCHANGED <<object, table, property, expected, redefined>>

\* obj.Name = x: Lua itself stores it if the table has the key.
Assigns(x) ==
    /\ object # NoObject
    /\ IF table[Plain] # Nothing
       THEN table' = [table EXCEPT ![Plain] = x] /\ UNCHANGED property
       ELSE Settable(Plain, x)
    /\ expected' = IF table[Plain] = Nothing /\ Refuses(Plain, x) THEN expected ELSE x
    /\ redefined' = (redefined \/ x = Function)
    /\ found' = <<Plain, Nothing>> /\ UNCHANGED object

\* obj.Name = nil takes a field out of the table.
Forgets ==
    /\ table[Plain] # Nothing
    /\ table' = [table EXCEPT ![Plain] = Nothing]
    /\ expected' = Nothing /\ redefined' = FALSE /\ found' = <<Plain, Nothing>>
    /\ UNCHANGED <<object, property>>

\* obj:setName(x), where that is an assignment of the property.
SetsByMethod(x) ==
    /\ object # NoObject
    /\ table["setName"] = Nothing /\ Index("setName") = Closure({"put"})
    /\ property' = x
    /\ expected' = IF redefined THEN expected ELSE x
    /\ found' = <<Plain, Nothing>> /\ UNCHANGED <<object, table, redefined>>

MembersNext ==
    \/ \E d \in Descriptions, prefixes \in SUBSET Prefixed : GetsObject(d, prefixes)
    \/ \E key \in Keys : Reads(key)
    \/ \E v \in 0 .. MaxValue : Assigns(Value(v)) \/ SetsByMethod(Value(v))
    \/ Assigns(Function)
    \/ Forgets

MembersSpec == MembersInit /\ [][MembersNext]_mvars

-----------------------------------------------------------------------------
(* Properties. *)

\* What the script assigned to obj.Name is what it reads there - through the
\* tables of both sides, the cache, a redefinition or the set prefix - unless
\* obj.Name is a member that must be called, or a read-only one to which a value
\* was assigned: what should be read then is said by ReadOnlyShown.
\* (tagmeth_index, tagmeth_settable, typed_tagmeth_index, untyped_tagmeth_index)
AssignedIsRead ==
    /\ found[1] = Plain /\ expected # Nothing
    /\ ReadOnly(Plain) => expected = Function
    /\ found[2].kind \notin {"nil", "closure"}
    => found[2] = expected

\* A value that the script finds under the name of a read-only member is the
\* member's: the comment in tagmeth_settable wants no value in the Lua table to
\* fool the client about it.
ReadOnlyShown ==
    /\ found[1] = Plain /\ ReadOnly(Plain) /\ found[2].kind = "value"
    => found[2] = property
=============================================================================
