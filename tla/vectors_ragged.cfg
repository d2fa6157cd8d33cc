SPECIFICATION ConversionsSpec
CONSTANTS
    GivenByCom = {}
    GivenByLua <- MCDeepGivenByLua
    Wide = 64
    Narrow = 8
    Exact = 16
    ToArray <- TableToArray
    ToTable <- ArrayToTable
INVARIANT RaggedRefused
