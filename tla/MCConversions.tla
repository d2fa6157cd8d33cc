--------------------------- MODULE MCConversions ---------------------------
EXTENDS Matrices

SeqUpTo(S, n) == UNION {[1 .. k -> S] : k \in 0 .. n}
BothLuas(h) == {[h EXCEPT !.lua53 = b] : b \in BOOLEAN}

\* Every integer of the types, a few reals, and one or two of each other type.
Reals == {-3, 0, 1, 2}
Texts == {LuaText(s) : s \in SeqUpTo({"x", "NUL"}, 2)}
MCVariants ==
    UNION {{IntegerVariant(vt, v) : v \in Least(TypeName[vt]) .. Greatest(TypeName[vt])} :
           vt \in IntegerVts}
    \cup {RealVariant(vt, r) : vt \in RealVts, r \in Reals}
    \cup {Variant("VT_EMPTY"), Variant("VT_NULL"), ErrorVariant(0), ErrorVariant(5),
          BoolVariant(TRUE), BoolVariant(FALSE)}
    \cup {StringVariant(s) : s \in Texts} \cup {BytesVariant(s) : s \in Texts}
    \cup {ObjectVariant("VT_DISPATCH", x) : x \in {"NULL", "own", "other"}}
    \cup {ObjectVariant("VT_UNKNOWN", x) : x \in {"own", "other", "enumerator", "unknown"}}

\* Arrays of up to three dimensions, of lengths 0 to 2 and lower bounds -1 and 1.
Indices(bs) == LET lo(j) == bs[j].lower
                   all == [DOMAIN bs -> -1 .. 2]
               IN  {x \in all : \A j \in DOMAIN bs : lo(j) <= x[j] /\ x[j] < lo(j) + bs[j].count}
MCArrays ==
    LET dimension == [lower : {-1, 1}, count : 0 .. 2]
        data(bs) == [x \in Indices(bs) |-> ScalarItem(x)]
    IN  {ArrayVariant([bounds |-> bs, data |-> IF Indices(bs) = {} THEN <<>> ELSE data(bs)]) :
            bs \in UNION {[1 .. n -> dimension] : n \in 1 .. 3}}

\* Integers and halves around the limits, and strings of up to three characters.
MCIntegers == {LuaInteger(v) : v \in Least("int8") .. Greatest("int8")}
MCNumbers ==
    {LuaFloat(h) : h \in -2 * Exact - 4 .. 2 * Exact + 4}
    \cup {LuaString(n, ds) : n \in BOOLEAN, ds \in SeqUpTo({0, 2, 3, 4, 6, 9, 10}, 3)}

\* Tables of up to three rows of up to two scalars.
Scalars == {ScalarItem(1), ScalarItem(2)}
Rows == {TableOf(is) : is \in SeqUpTo(Scalars \cup {NoValue}, 2)}
MCTables == {TableOf(is) : is \in SeqUpTo(Scalars \cup Rows, 3)}

\* The same one level deeper, for two elements.
Blocks == {TableOf(is) : is \in SeqUpTo({ScalarItem(1), TableOf(<<ScalarItem(1)>>),
                                         TableOf(<<ScalarItem(1), ScalarItem(2)>>)}, 2)}
MCDeepTables == {TableOf(is) : is \in SeqUpTo(Blocks, 2)}

\* Dates with a day of the week, and as scripts write them: 0 if it is left out.
\* The ends of months and years, around 1899-12-30 and at the calendar's ends; the
\* first and last seconds of minutes, hours and days, and milliseconds around the
\* half second.
MCDays == {<<100, 1, 1>>, <<1600, 2, 29>>, <<1899, 12, 29>>, <<1899, 12, 30>>,
           <<1899, 12, 31>>, <<1900, 2, 28>>, <<1900, 3, 1>>, <<2000, 2, 29>>,
           <<2023, 12, 31>>, <<2024, 1, 1>>, <<2024, 4, 30>>, <<9999, 12, 31>>}
MCDates == {LuaDate(DateOf(DayNumber(d[1], d[2], d[3]), s, ms)) :
               d \in MCDays, s \in {0, 59, 3599, 3600, 86399},
               ms \in {0, 1, 499, 500, 501, 999}}
MCDatesWritten == {LuaDate([x.date EXCEPT !.dow = 0]) : x \in MCDates}

\* Each kind of value under the settings that matter to it.
Asking(type) == [NoSettings EXCEPT !.type = type]
MCGivenByCom ==
    {<<x, h>> : x \in MCVariants, h \in BothLuas([NoSettings EXCEPT !.tables = TRUE])}
    \cup {<<x, NoSettings>> : x \in MCVariants \cup MCArrays}
MCGivenByLua ==
    {<<LuaTyped(t, x), NoSettings>> : t \in IntegerTypes, x \in MCNumbers}
    \cup {<<LuaTyped(t, x), [NoSettings EXCEPT !.lua53 = TRUE]>> :
             t \in IntegerTypes, x \in MCIntegers}
    \cup {<<x, Asking(t)>> : x \in MCNumbers, t \in {"VT_EMPTY", "VT_I8", "VT_UI8"}}
    \cup {<<x, [Asking(t) EXCEPT !.lua53 = TRUE]>> :
             x \in MCIntegers, t \in {"VT_EMPTY", "VT_I8", "VT_UI8"}}
    \cup {<<x, NoSettings>> : x \in MCTables}
    \cup {<<x, NoSettings>> :
             x \in {LuaNil, LuaBool(TRUE), LuaText(<<"x", "NUL">>),
                    LuaTyped("array", LuaText(<<"NUL", "x">>))}}
    \cup {<<x, [NoSettings EXCEPT !.dates = f, !.error = e]>> :
             x \in MCDates \cup MCDatesWritten,
             f \in {"table", "string_ms_accurate"}, e \in {-1, 0, 1}}
MCDeepGivenByLua == {<<x, NoSettings>> : x \in MCDeepTables}
=============================================================================
