SPECIFICATION MCSpec
CONSTANTS
    FuncDescs <- MCFuncDescs
    MaxResults = 3
    Descriptions <- MCDescriptions
    MaxValue = 2
    GivenByCom <- MCGivenByCom
    GivenByLua <- MCGivenByLua
    Wide = 64
    Narrow = 8
    Exact = 16
    ToArray <- TableToArray
    ToTable <- ArrayToTable
    Tables = {t1, t2}
    MaxDispatches = 2
    MaxRefs = 2
    MaxDepth = 2
SYMMETRY TableSymmetry
INVARIANTS
    ArgumentsArrive
    ResultsReturn
    BlocksFreed
    AssignedIsRead
    ValuesKept
    MatricesKept
    DatesKept
    TypeOK
    RefsCounted
    TableOutlives
    AliveDuringCall
\* Served tables come to an end: all released and collected, or a deleted object used.
CHECK_DEADLOCK FALSE
