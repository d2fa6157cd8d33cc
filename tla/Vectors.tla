------------------------------ MODULE Vectors ------------------------------
(***************************************************************************)
(* Lua tables and SAFEARRAYs: tLuaVector, which holds a table's elements   *)
(* by rows while they are copied, and the loops of tLuaCOMTypeHandler that *)
(* copy them.  A table is [kind |-> "table", items |-> ...] and an element *)
(* that is no table [kind |-> "scalar", v |-> ...]; NoValue is the first   *)
(* nil that ends a table.  A SAFEARRAY has bounds, from the left dimension *)
(* to the right, and a function from indices to elements.                  *)
(***************************************************************************)
EXTENDS Integers, Sequences

NoValue == [kind |-> "nil"]
ScalarItem(v) == [kind |-> "scalar", v |-> v]
TableOf(items) == [kind |-> "table", items |-> items]

\* What a conversion may end in besides a value.
NotArray == [kind |-> "error"]      \* a tLuaCOMException
Crashes == [kind |-> "crash"]       \* luavals is read where it is NULL

Scalar == "SCALAR"
Vector == "VECTOR"

\* The items before the first nil.
UpToNil(items) == LET n == {i \in DOMAIN items : \A j \in 1 .. i : items[j] # NoValue}
                  IN  [i \in n |-> items[i]]

\* (No comparison.)
AnyShape(row, before) == TRUE

\* InitVectorFromTable: a vector of the rows, or of the elements.  It compares
\* each row's length with the row before.
SameShape(row, before) == Len(row.items) = Len(before.items)

RECURSIVE InitVectorFromTable(_)
InitVectorFromTable(t) ==
    LET items == UpToNil(t.items)
        rows == [i \in DOMAIN items |-> IF items[i].kind = "table"
                                        THEN InitVectorFromTable(items[i]) ELSE items[i]]
    IN  IF \A i \in DOMAIN items : items[i].kind = "scalar"
        THEN [kind |-> "vector", elem |-> Scalar, items |-> items]
        ELSE IF \/ \E i \in DOMAIN items : items[i].kind = "scalar" \/ rows[i] = NotArray
                \/ \E i \in 2 .. Len(items) : ~SameShape(rows[i], rows[i-1])
             THEN NotArray
             ELSE [kind |-> "vector", elem |-> Vector, items |-> rows]

\* get_Dimensions, 0 when its precondition fails, and get_Nth_Dimension
RECURSIVE GetDimensions(_)
GetDimensions(vec) ==
    CASE vec.items = <<>> -> 0
      [] vec.items # <<>> /\ vec.elem = Scalar -> 1
      [] vec.items # <<>> /\ vec.elem = Vector ->
            IF GetDimensions(vec.items[1]) = 0 THEN 0 ELSE 1 + GetDimensions(vec.items[1])

RECURSIVE GetNthDimension(_, _)
GetNthDimension(vec, n) == IF n = 1 THEN Len(vec.items) ELSE GetNthDimension(vec.items[1], n - 1)

\* getindex: the element at the indices, which start at 0.
RECURSIVE GetIndex(_, _)
GetIndex(vec, indices) ==
    CASE Head(indices) >= Len(vec.items) -> NotArray
      [] Head(indices) < Len(vec.items) /\ Len(indices) > 1 ->
            IF vec.elem = Vector THEN GetIndex(vec.items[Head(indices) + 1], Tail(indices))
            ELSE NotArray
      [] OTHER -> IF vec.elem = Scalar THEN vec.items[Head(indices) + 1] ELSE Crashes

\* inc_indices: the next indices, the last one first; <<>> after the last.
IncIndices(indices, bounds) ==
    LET room == {j \in DOMAIN indices : indices[j] + 1 < bounds[j].count + bounds[j].lower}
        last == CHOOSE j \in room : \A i \in room : i <= j
    IN  IF room = {} THEN <<>>
        ELSE [j \in DOMAIN indices |-> CASE j < last -> indices[j]
                                         [] j = last -> indices[j] + 1
                                         [] j > last -> bounds[j].lower]

FirstIndices(bounds) == [j \in DOMAIN bounds |-> bounds[j].lower]

\* The indices that a do-while loop over inc_indices visits.
RECURSIVE Visited(_, _)
Visited(indices, bounds) ==
    {indices} \cup (IF IncIndices(indices, bounds) = <<>> THEN {}
                    ELSE Visited(IncIndices(indices, bounds), bounds))

\* safearray_lua2com
Bounds(vec) == [d \in 1 .. GetDimensions(vec) |-> [lower |-> 0, count |-> GetNthDimension(vec, d)]]

SafeArrayOf(vec) ==
    LET visited == Visited(FirstIndices(Bounds(vec)), Bounds(vec))
        outcome(x) == GetIndex(vec, x).kind
    IN  CASE vec.items = <<>> ->
                [kind |-> "array", bounds |-> <<[lower |-> 0, count |-> 0]>>, data |-> <<>>]
          [] vec.items # <<>> /\ GetDimensions(vec) = 0 -> NotArray
          [] OTHER ->
                IF \E x \in visited : outcome(x) = "crash" THEN Crashes
                ELSE IF \E x \in visited : outcome(x) = "error" THEN NotArray
                ELSE [kind |-> "array", bounds |-> Bounds(vec),
                      data |-> [x \in visited |-> GetIndex(vec, x)]]

TableToArray(t) == IF InitVectorFromTable(t) = NotArray THEN NotArray
                   ELSE SafeArrayOf(InitVectorFromTable(t))

\* setindex: where an element of the array goes in a vector made by
\* InitVectorFromDimensions.
SlotOf(indices, bounds) == [j \in DOMAIN indices |-> indices[j] - bounds[j].lower]

\* CreateTable, from the elements by slots.
RECURSIVE CreateTable(_, _, _)
CreateTable(luavals, counts, prefix) ==
    TableOf([i \in 1 .. Head(counts) |->
                IF Len(counts) = 1 THEN luavals[Append(prefix, i - 1)]
                ELSE CreateTable(luavals, Tail(counts), Append(prefix, i - 1))])

\* safearray_com2lua: only the left dimension is asked whether it is empty; an
\* element that the array does not have cannot be read.
ArrayToTable(a) ==
    LET visited == Visited(FirstIndices(a.bounds), a.bounds)
        luavals == [s \in {SlotOf(x, a.bounds) : x \in visited} |->
                       a.data[CHOOSE x \in visited : SlotOf(x, a.bounds) = s]]
    IN  IF a.bounds[1].count = 0 THEN TableOf(<<>>)
        ELSE IF ~visited \subseteq DOMAIN a.data THEN NotArray
        ELSE CreateTable(luavals, [d \in DOMAIN a.bounds |-> a.bounds[d].count], <<>>)

-----------------------------------------------------------------------------
\* A table that is a matrix: its elements are scalars, or matrices of one shape.
RECURSIVE Shape(_)
Shape(t) ==
    IF t.kind # "table" THEN <<>>
    ELSE IF t.items = <<>> THEN <<0>>
    ELSE <<Len(t.items)>> \o Shape(t.items[1])

RECURSIVE IsMatrix(_)
IsMatrix(t) ==
    \/ t.kind = "scalar"
    \/ /\ t.kind = "table"
       /\ \A i \in DOMAIN t.items : IsMatrix(t.items[i]) /\ Shape(t.items[i]) = Shape(t.items[1])
=============================================================================
