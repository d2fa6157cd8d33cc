------------------------------ MODULE Matrices ------------------------------
(***************************************************************************)
(* Tables and arrays that cross between COM and Lua: Conversions, with the *)
(* conversions of Vectors.                                                 *)
(***************************************************************************)
EXTENDS Conversions, Vectors

\* The element of nested tables at indices that start at 0.
RECURSIVE ItemAt(_, _)
ItemAt(t, slot) == IF slot = <<>> THEN t
                   ELSE IF Head(slot) + 1 \in DOMAIN t.items
                        THEN ItemAt(t.items[Head(slot) + 1], Tail(slot))
                        ELSE NoValue

IsTable(x) == "kind" \in DOMAIN x /\ x.kind = "table"
OfScalars(t) == \A i \in DOMAIN t.items : t.items[i].kind = "scalar"
OfRows(t) == \A i \in DOMAIN t.items : OfScalars(t) \/ t.items[i].kind # "table"
                                                    \/ OfScalars(t.items[i])
HasEmptyRow(t) == \E i \in DOMAIN t.items : t.items[i] = TableOf(<<>>)

\* A matrix that a script gives comes back as it was, a table of rows that is
\* none is refused, and each element of an array from COM is found in the table
\* at its place, whatever the array's lower bounds.
\* (tLuaVector, safearray_lua2com, safearray_com2lua, inc_indices)
MatricesKept ==
    /\ Came("Lua", 2) /\ IsTable(trip[1]) /\ OfRows(trip[1]) =>
          IF IsMatrix(trip[1]) /\ ~HasEmptyRow(trip[1])
          THEN ~IsRefused(trip[2]) /\ (Len(trip) = 3 => trip[3] = trip[1])
          ELSE IsRefused(trip[2])
    /\ Came("COM", 2) /\ trip[1].vt = "VT_ARRAY" =>
          LET a == trip[1].array
          IN  \/ IsTable(trip[2]) /\ \A x \in DOMAIN a.data :
                     ItemAt(trip[2], [j \in DOMAIN x |-> x[j] - a.bounds[j].lower]) = a.data[x]
              \/ IsRefused(trip[2]) /\ a.data = <<>>

\* A table that is not a matrix is refused: "in case the new table has a different
\* dimension, aborts (it is not a matrix)", tLuaVector.cpp:425 (in Portuguese).
\* (InitVectorFromTable)
RaggedRefused ==
    Came("Lua", 2) /\ IsTable(trip[1]) /\ ~IsMatrix(trip[1]) => IsRefused(trip[2])
=============================================================================
