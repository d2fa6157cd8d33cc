------------------------------ MODULE MCCalls ------------------------------
EXTENDS Calls, Members, MCConversions, LuaDispatch, TLC

(* What a script does with an object: it indexes it (Members), calls it (Calls), *)
(* passes values through it (Conversions), and serves one of its tables as one   *)
(* (LuaDispatch).  The four share no variable, so that only one of them moves at *)
(* a time.                                                                       *)

Param(f, r, t) == [flags |-> f, byref |-> r, type |-> t]
InParam    == Param({"in"}, FALSE, "VT_I4")
OutParam   == Param({"out"}, TRUE, "VT_I4")
InOutParam == Param({"in", "out"}, TRUE, "VT_I4")
OptParam   == Param({"in", "opt"}, FALSE, "VT_VARIANT")
Params == {InParam, OutParam, InOutParam, OptParam,
           Param({"in"}, TRUE, "VT_VARIANT"), Param({"out"}, TRUE, "VT_VARIANT"),
           Param({"out", "opt"}, TRUE, "VT_VARIANT"), Param({"in", "opt"}, TRUE, "VT_VARIANT"),
           Param({"in", "out", "opt"}, TRUE, "VT_I4"),
           Param({"in", "opt", "default"}, FALSE, "VT_I4"),
           Param({}, FALSE, "VT_I4"), Param({}, TRUE, "VT_I4")}

Desc(k, v, ps) == [invkind |-> k, void |-> v, params |-> ps]
MCFuncDescs ==
    {Desc("func", v, ps) : v \in BOOLEAN,
         ps \in {<<>>} \cup {<<p>> : p \in Params} \cup {<<p, q>> : p, q \in Params}
                \cup [1 .. 3 -> {InParam, OutParam, InOutParam, OptParam}]}
    \cup {Desc("get", FALSE, <<InParam>>), Desc("put", TRUE, <<InParam>>),
          Desc("put", TRUE, <<InParam, OptParam>>), Desc("put", TRUE, <<InParam, InParam, OptParam>>)}

\* Members with the descriptions that interfaces have, and with none; and a name
\* that is no member's.
MCDescriptions ==
    {[funcs |-> f, known |-> TRUE] :
        f \in {{}, {"get0"}, {"getN"}, {"put"}, {"func"}, {"get0", "put"}, {"getN", "put"}}}
    \cup {Unknown}

NotCalling == pc = "idle"
NotIndexing == object = NoObject
NotConverting == from = "none"
\* One of the initial states of LuaDispatch is enough for the others.
NotServing == /\ made = 0 /\ reached = Tables
              /\ \A d, e \in Dispatches : serves[d] = serves[e]

\* Nothing tells one served table from another.
TableSymmetry == Permutations(Tables)

MCInit == Init /\ MembersInit /\ ConversionsInit /\ DispatchInit
MCNext ==
    \/ /\ NotIndexing /\ NotConverting /\ NotServing
       /\ Next /\ UNCHANGED <<mvars, cvars, dvars>>
    \/ /\ NotCalling /\ NotConverting /\ NotServing
       /\ MembersNext /\ UNCHANGED <<vars, cvars, dvars>>
    \/ /\ NotCalling /\ NotIndexing /\ NotServing
       /\ ConversionsNext /\ UNCHANGED <<vars, mvars, dvars>>
    \/ /\ NotCalling /\ NotIndexing /\ NotConverting
       /\ DispatchNext /\ UNCHANGED <<vars, mvars, cvars>>
MCSpec == MCInit /\ [][MCNext]_<<vars, mvars, cvars, dvars>>
=============================================================================
