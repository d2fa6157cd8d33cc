SPECIFICATION MCSpec
CONSTANTS
    FuncDescs <- MCFuncDescs
    MaxResults = 3
    Descriptions <- MCDescriptions
    MaxValue = 2
    GivenByCom <- MCGivenByCom
    GivenByLua <- MCGivenByLua
    Wide = 64
    Narrow = 8
    Exact = 16
    ToArray <- TableToArray
    ToTable <- ArrayToTable
    Tables = {t1}
    MaxDispatches = 1
    MaxRefs = 1
    MaxDepth = 1
INVARIANT NamedArrive
\* Served tables come to an end.
CHECK_DEADLOCK FALSE
